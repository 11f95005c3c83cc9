---------------------------- MODULE ReplayBuffer -----------------------------
(***************************************************************************)
(* The replay buffer (ReplayBuffer.cpp): it keeps the packets of the last  *)
(* seconds, saves them to a file of their own when the user asks, and can  *)
(* turn into a recording that starts with what it holds.  Such a recording *)
(* has a thread that writes the packets from the buffer while the encode   *)
(* thread appends new ones; when that thread has caught up it ends, and    *)
(* the encode thread writes to the file itself.                            *)
(*                                                                         *)
(* Packets are numbered, and the number is the packet's time.              *)
(***************************************************************************)
EXTENDS Integers, SequencesExt

CONSTANTS
  Seconds,     \* the length of the buffer
  Ahead,       \* bound: how far the video time is ahead of the packet that is sent
  Streams,     \* bound: the kinds of packets that the buffer may be given, in order
  MaxRequests  \* bound: requests to save

Kinds == {"key", "video", "audio"}

\* The buffer of a new session is given a key frame first.  One that joins a running
\* session only has a key frame asked for, and is given what is under way before it.
ASSUME ReplayBufferAssumption ==
  /\ Seconds \in Nat \ {0}
  /\ Ahead \in Nat /\ MaxRequests \in Nat
  /\ \A s \in Streams : s \in Seq(Kinds) /\ s # <<>>

VARIABLES
  stream,          \* what the encoder delivers, from the buffer's first packet on
  buffer,          \* on, or gone: destroyed
  packets,         \* the packets in it
  keyframes,       \* the times of the key frames that it knows of
  saveTimes,       \* save_times
  startRecording,  \* start_recording
  encode,          \* encode thread: where it is with a packet
  packet,          \* the last packet it got
  file,            \* App->fileStream, a RecordingHelper: none, open, or being destroyed
                   \* (closing, stopping), closed
  buffered,        \* buffered_packets
  saveThread,      \* save_thread is not null
  thread,          \* RecordingHelper::SaveThread: where it is
  holding,         \* the packet that it has taken out
  written,         \* video_packet_written_event
  stopEvent,       \* stop_event
  unanswered,      \* history: requests for which there is no save that has what it should
  recorded,        \* history: what has been written to the recording
  recordedAt,      \* history: when the recording was begun
  late             \* history: packets appended while the thread was leaving

bufferVars == <<buffer, packets, keyframes, saveTimes, startRecording>>
fileVars   == <<file, buffered, saveThread, thread, holding, written, stopEvent>>
pastVars   == <<unanswered, recorded, recordedAt, late>>
vars == <<stream, bufferVars, encode, packet, fileVars, pastVars>>

Packet == [time: DOMAIN stream, kind: Kinds]

Init ==
  /\ stream \in Streams
  /\ buffer = "on" /\ packets = <<>> /\ keyframes = <<>>
  /\ saveTimes = <<>> /\ startRecording = FALSE
  /\ encode = "idle" /\ packet = [time |-> 0, kind |-> "audio"]
  /\ file = "none" /\ buffered = <<>> /\ saveThread = FALSE
  /\ thread = "off" /\ holding = packet /\ written = FALSE /\ stopEvent = FALSE
  /\ unanswered = {} /\ recorded = <<>> /\ recordedAt = 0 /\ late = {}

IsVideo(p) == p.kind # "audio"
TimesOf(list) == [i \in DOMAIN list |-> list[i].time]
-----------------------------------------------------------------------------
(***************************************************************************)
(* The user's hotkeys, on the main thread.  What they set is read only by  *)
(* ReplayBuffer::AddPacket, so they are taken to come between two packets. *)
(***************************************************************************)

\* The video time is never behind the packets, nor behind an earlier request.
SaveReplayBuffer ==
  /\ encode = "idle" /\ buffer = "on" /\ packet.time > 0 /\ Len(saveTimes) < MaxRequests
  /\ \E time \in packet.time .. packet.time + Ahead :
       /\ \A i \in DOMAIN saveTimes : saveTimes[i] <= time
       /\ saveTimes' = Append(saveTimes, time)
       /\ unanswered' = unanswered \cup {time}
  /\ UNCHANGED <<stream, buffer, packets, keyframes, startRecording, encode, packet, fileVars,
                 recorded, recordedAt, late>>

StartRecordingFromReplayBuffer ==
  /\ encode = "idle" /\ buffer = "on" /\ file = "none" /\ ~startRecording
  /\ startRecording' = TRUE
  /\ UNCHANGED <<stream, buffer, packets, keyframes, saveTimes, encode, packet, fileVars, pastVars>>
-----------------------------------------------------------------------------
(***************************************************************************)
(* Saving.                                                                 *)
(***************************************************************************)

\* SaveReplayBufferThread: the thread writes its copy of the packets up to the first
\* video after the last one that is not past the target.
StopIndices(list, target) ==
  {i \in DOMAIN list :
     /\ IsVideo(list[i]) /\ list[i].time > target
     /\ \A j \in i .. Len(list) : IsVideo(list[j]) => list[j].time > target}

Saved(list, target) ==
  LET stops == StopIndices(list, target)
  IN IF stops = {} THEN list
     ELSE SubSeq(list, 1, (CHOOSE i \in stops : \A j \in stops : i <= j) - 1)

AtLeastSeconds(first, time) == first = 1 \/ first <= time - Seconds

\* What a save for request r has to have: the last seconds before it and everything
\* up to it, as far as there was anything.
Covers(out, list, r) ==
  /\ AtLeastSeconds(Head(list).time, r)
  /\ out = list \/ (out # <<>> /\ Last(out).time >= r)

\* A save for the last of several requests answers all of them.
StartSaveThread(list, answered) ==
  LET out == Saved(list, Last(answered))
  IN unanswered' = unanswered \ {r \in ToSet(answered) : Covers(out, list, r)}

\* The requests before the first that is later than the packet are answered together.
HandleSaveTimes(list, time) ==
  \E count \in 0 .. Len(saveTimes) :
    /\ \A i \in 1 .. count : saveTimes[i] <= time
    /\ count < Len(saveTimes) => saveTimes[count + 1] > time
    /\ saveTimes' = SubSeq(saveTimes, count + 1, Len(saveTimes))
    /\ IF count = 0 THEN UNCHANGED unanswered
       ELSE StartSaveThread(list, SubSeq(saveTimes, 1, count))
-----------------------------------------------------------------------------
(***************************************************************************)
(* ReplayBuffer::AddPacket.                                                *)
(***************************************************************************)

\* Mutant: only the oldest key frame is looked at.
DroppedKeyframesOfOne(frames) ==
  Cardinality({n \in 1 .. Len(frames) - 2 : \A k \in 1 .. n : Last(frames) - frames[k] >= Seconds})

\* How many key frames are old enough to go: the one after each is, too, and two
\* stay in any case.
DroppedKeyframes(frames) ==
  Cardinality({n \in 1 .. Len(frames) - 2 :
                 \A k \in 1 .. n + 1 : Last(frames) - frames[k] >= Seconds})

\* Mutant: the packets go up to the wrong key frame.
TrimTooFar(list, frames, dropped) ==
  SubSeq(list, SelectInSeq(list, LAMBDA p : p.time = frames[dropped + 1]) + 1, Len(list))

\* packets.erase(begin(packets), keyframes[1].second)
Trim(list, frames, dropped) ==
  SubSeq(list, SelectInSeq(list, LAMBDA p : p.time = frames[dropped + 1]), Len(list))

\* CreateRecordingHelper and RecordingHelper::StartRecording, when the file can be
\* created.
CreateRecordingHelper(list) ==
  /\ file' = "open" /\ buffered' = list
  /\ saveThread' = TRUE /\ thread' = "loop"
  /\ recordedAt' = Last(list).time

AddToReplayBuffer ==
  /\ encode = "replay" /\ encode' = "idle"
  /\ startRecording' = FALSE
  /\ LET list   == Append(packets, packet)
         frames == Append(keyframes, packet.time)
     IN /\ \/ startRecording /\ file = "none" /\ CreateRecordingHelper(list)
           \/ /\ UNCHANGED <<file, buffered, saveThread, thread, recordedAt>>
        /\ IF packet.kind = "key"
           THEN LET dropped == DroppedKeyframes(frames)
                IN /\ HandleSaveTimes(list, packet.time)
                   /\ keyframes' = SubSeq(frames, dropped + 1, Len(frames))
                   /\ packets' = IF dropped = 0 THEN list ELSE Trim(list, frames, dropped)
           ELSE packets' = list /\ UNCHANGED <<keyframes, saveTimes, unanswered>>
  /\ UNCHANGED <<stream, buffer, packet, holding, written, stopEvent, recorded, late>>

\* The buffer's stop is carried out in place of a video packet.  A request to record
\* becomes a save of everything.
DestroyReplayBuffer ==
  /\ encode = "replay" /\ IsVideo(packet) /\ packets # <<>> /\ encode' = "idle"
  /\ buffer' = "gone" /\ packets' = <<>> /\ keyframes' = <<>>
  /\ saveTimes' = <<>> /\ startRecording' = FALSE
  /\ IF saveTimes = <<>> THEN UNCHANGED unanswered ELSE StartSaveThread(packets, saveTimes)
  /\ UNCHANGED <<stream, packet, fileVars, recorded, recordedAt, late>>
-----------------------------------------------------------------------------
(***************************************************************************)
(* OBS::SendFrame and RecordingHelper::AddPacket, on the encode thread.    *)
(***************************************************************************)

AfterFile == IF buffer = "on" THEN "replay" ELSE "idle"

NextPacket ==
  /\ encode = "idle" /\ packet.time < Len(stream)
  /\ packet' = [time |-> packet.time + 1, kind |-> stream[packet.time + 1]]

\* A packet for the recording: while it has its thread the packet goes to the
\* thread, and video waits for the thread first.
SendPacket ==
  /\ NextPacket
  /\ encode' = IF file # "open" THEN AfterFile
               ELSE IF saveThread THEN IF IsVideo(packet') THEN "throttle" ELSE "append"
               ELSE "write"
  /\ UNCHANGED <<stream, bufferVars, fileVars, pastVars>>

\* The recording's stop is carried out in place of a video packet.
StopRecording ==
  /\ file = "open" /\ NextPacket /\ IsVideo(packet')
  /\ file' = "closing" /\ encode' = AfterFile
  /\ UNCHANGED <<stream, bufferVars, buffered, saveThread, thread, holding, written, stopEvent,
                 pastVars>>

OnlyEncode ==
  UNCHANGED <<stream, bufferVars, packet, file, buffered, saveThread, thread, holding, stopEvent,
              pastVars>>

\* WaitForMultipleObjects of 500 ms; the event, when the thread has not ended, makes
\* it wait once more.
Throttle ==
  /\ encode = "throttle" /\ OnlyEncode
  /\ IF thread # "exited" /\ written
     THEN encode' = "drain" /\ written' = FALSE
     ELSE encode' = "append" /\ UNCHANGED written

\* Mutant: the wait does not see that the thread has ended.
DrainDeaf ==
  /\ encode = "drain" /\ written /\ OnlyEncode
  /\ encode' = "append" /\ written' = FALSE

Drain ==
  /\ encode = "drain" /\ (thread = "exited" \/ written) /\ OnlyEncode
  /\ encode' = "append" /\ written' = (thread = "exited" /\ written)

\* Mutant: an empty list is taken for a thread that has ended.
CaughtUpTooSoon == thread = "exited" \/ buffered = <<>>

CaughtUp == thread = "exited"

\* Under packets_mutex.
AppendPacket ==
  /\ encode = "append"
  /\ IF CaughtUp
     THEN /\ buffered' = <<>> /\ saveThread' = FALSE
          /\ recorded' = Append(recorded, packet.time)
          /\ UNCHANGED late
     ELSE /\ buffered' = Append(buffered, packet)
          /\ late' = IF thread = "leaving" THEN late \cup {packet.time} ELSE late
          /\ UNCHANGED <<saveThread, recorded>>
  /\ encode' = AfterFile
  /\ UNCHANGED <<stream, bufferVars, packet, file, thread, holding, written, stopEvent, unanswered,
                 recordedAt>>

WritePacket ==
  /\ encode = "write" /\ encode' = AfterFile
  /\ recorded' = Append(recorded, packet.time)
  /\ UNCHANGED <<stream, bufferVars, packet, fileVars, unanswered, recordedAt, late>>

EncodeStep ==
  \/ AddToReplayBuffer \/ DestroyReplayBuffer
  \/ Throttle \/ Drain \/ AppendPacket \/ WritePacket
-----------------------------------------------------------------------------
(***************************************************************************)
(* RecordingHelper::SaveThread, and the end of the recording.              *)
(***************************************************************************)

TakePacket ==
  /\ thread = "loop"
  /\ IF stopEvent \/ buffered = <<>>
     THEN thread' = "leaving" /\ UNCHANGED <<buffered, holding>>
     ELSE thread' = "write" /\ holding' = Head(buffered) /\ buffered' = Tail(buffered)
  /\ UNCHANGED <<stream, bufferVars, encode, packet, file, saveThread, written, stopEvent,
                 pastVars>>

\* The event is set by video as is meant, and by audio: it is the packet's time that
\* is compared with PacketType_Audio.
WriteHeld ==
  /\ thread = "write" /\ thread' = "loop"
  /\ recorded' = Append(recorded, holding.time) /\ written' = TRUE
  /\ UNCHANGED <<stream, bufferVars, encode, packet, file, buffered, saveThread, holding, stopEvent,
                 unanswered, recordedAt, late>>

Leave ==
  /\ thread = "leaving" /\ thread' = "exited"
  /\ UNCHANGED <<stream, bufferVars, encode, packet, file, buffered, saveThread, holding, written,
                 stopEvent, pastVars>>

ThreadStep == TakePacket \/ WriteHeld \/ Leave

\* ~RecordingHelper, on a thread of its own: it waits for the thread, tells it to
\* stop if that takes too long, and closes the file when it has ended.
StopWaiting ==
  /\ file = "closing" /\ thread # "exited"
  /\ file' = "stopping" /\ stopEvent' = TRUE
  /\ UNCHANGED <<stream, bufferVars, encode, packet, buffered, saveThread, thread, holding, written,
                 pastVars>>

CloseFile ==
  /\ file \in {"closing", "stopping"} /\ thread = "exited"
  /\ file' = "closed"
  /\ UNCHANGED <<stream, bufferVars, encode, packet, buffered, saveThread, thread, holding, written,
                 stopEvent, pastVars>>

Next ==
  \/ SaveReplayBuffer \/ StartRecordingFromReplayBuffer
  \/ SendPacket \/ StopRecording
  \/ EncodeStep \/ ThreadStep \/ StopWaiting \/ CloseFile

\* Both threads run.
Spec == Init /\ [][Next]_vars /\ WF_vars(EncodeStep) /\ WF_vars(ThreadStep)
-----------------------------------------------------------------------------
(***************************************************************************)
(* Properties.                                                             *)
(***************************************************************************)

\* The variables have their types; every entry of keyframes, an iterator into the
\* list of packets, points at a key frame that is still there.
TypeOK ==
  /\ stream \in Streams /\ buffer \in {"on", "gone"}
  /\ packets \in Seq(Packet) /\ saveTimes \in Seq(Nat)
  /\ {<<t, "key">> : t \in ToSet(keyframes)} \subseteq {<<p.time, p.kind>> : p \in ToSet(packets)}
  /\ startRecording \in BOOLEAN /\ saveThread \in BOOLEAN
  /\ written \in BOOLEAN /\ stopEvent \in BOOLEAN
  /\ encode \in {"idle", "replay", "throttle", "drain", "append", "write"}
  /\ packet \in [time : 0 .. Len(stream), kind : Kinds]
  /\ file \in {"none", "open", "closing", "stopping", "closed"}
  /\ buffered \in Seq(Packet)
  /\ thread \in {"off", "loop", "write", "leaving", "exited"}
  /\ holding \in [time : 0 .. Len(stream), kind : Kinds]

\* "OBS will buffer at least this many seconds": every request is answered, by a file
\* that has the last seconds before it and everything up to it, as far as there was
\* anything; one that is not yet answered waits for the next key frame.
SavesCover == unanswered \subseteq ToSet(saveTimes)

\* "... or continue recording to the same file": the recording begins with at least
\* those seconds, and has every packet after that once and in order, but for those
\* that were appended while its thread was leaving, which the code only warns of.
\* Only what the thread was told to leave is missing at the end, and the thread is
\* gone when the file is.
RecordingGapless ==
  /\ recorded # <<>> => AtLeastSeconds(Head(recorded), recordedAt)
  /\ \A i \in 1 .. Len(recorded) - 1 :
       /\ recorded[i] < recorded[i + 1]
       /\ (recorded[i] + 1) .. (recorded[i + 1] - 1) \subseteq late
  /\ file = "closed" => thread = "exited"
  /\ file = "closed" /\ ~stopEvent => ToSet(TimesOf(buffered)) \subseteq late

\* The encode thread is never stuck with a packet, although it waits for the thread
\* of the recording without a limit.
AddPacketReturns == encode # "idle" ~> encode = "idle"
=============================================================================
