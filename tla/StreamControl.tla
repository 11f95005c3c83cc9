---------------------------- MODULE StreamControl ----------------------------
(***************************************************************************)
(* What the host sends where: the live stream, the recording and the       *)
(* replay buffer of one capture session, which are started and stopped one *)
(* by one while the others go on (OBS::Start, Stop, StartRecording,        *)
(* StopRecording, StartReplayBuffer, StopReplayBuffer in OBSCapture.cpp,   *)
(* SendFrame and HandleStreamStopInfo in OBSVideoCapture.cpp, the messages *)
(* OBS_REQUESTSTOP and OBS_RECONNECT in WindowStuff.cpp).                  *)
(*                                                                         *)
(* A stop is asked for on the main thread, with the time up to which       *)
(* frames still count; the encode thread carries it out when it sends the  *)
(* second frame from that time on.  A publisher is closed on a thread of   *)
(* its own, which may take long, and tells the host when it is done.       *)
(*                                                                         *)
(* Frames and their times are left out: a stop is either one whose time    *)
(* comes, sooner or later, or one whose time is too far away to come.      *)
(***************************************************************************)
EXTENDS Integers, Sequences, Bags

CONSTANTS
  Settings,    \* [mode: {0, 1}, delay, keep, save: BOOLEAN]: Mode, Delay # 0,
               \* KeepRecording and SaveToFile of AppConfig, which can be changed
               \* only while nothing runs
  MaxMessages, \* bound: with as many messages waiting nothing new is asked for
  MaxClosing   \* bound: publishers that are being closed

ASSUME StreamControlAssumption ==
  /\ Settings \subseteq [mode: {0, 1}, delay: BOOLEAN, keep: BOOLEAN, save: BOOLEAN]
  /\ {MaxMessages, MaxClosing} \subseteq Nat

VARIABLES
  settings,
  bRunning, bStreaming, bRecording, bRecordingReplayBuffer, bStreamFlushed,
  network,            \* none, or what it points to: a publisher or a NullNetwork
  fileStream,         \* fileStream is not null
  replayBufferStream, \* replayBufferStream is not null
  stop,               \* networkStop, fileStreamStop and replayBufferStop
  main,               \* main thread: idle, or in Stop with bShutdownEncodeThread set
  messages,           \* the messages posted to the main thread
  encode,             \* encode thread: off, capture or inside a stop
  firstFrame,         \* firstFrameTimestamp is that of this session
  closing,            \* the threads of AddPendingStream that have a callback
  stale,              \* history: outputs whose stop was meant for an earlier stream
  closedAgain         \* history: streams have been closed two at a time, by now or in
                      \* this session

Outputs == {"network", "file", "replay"}

flagVars   == <<bRunning, bStreaming, bRecording, bRecordingReplayBuffer, bStreamFlushed>>
streamVars == <<network, fileStream, replayBufferStream>>
encodeVars == <<encode, firstFrame>>
closeVars  == <<closing, closedAgain>>
vars == <<settings, flagVars, streamVars, stop, main, messages, encodeVars, closeVars, stale>>

\* A StopInfo: without func; with a time that comes; with one that does not; with
\* timeSeen set.
StopInfo == {"none", "asked", "never", "seen"}

Init ==
  /\ settings \in Settings
  /\ bRunning = FALSE /\ bStreaming = FALSE /\ bRecording = FALSE
  /\ bRecordingReplayBuffer = FALSE /\ bStreamFlushed = TRUE
  /\ network = "none" /\ fileStream = FALSE /\ replayBufferStream = FALSE
  /\ stop = [o \in Outputs |-> "none"]
  /\ main = "idle" /\ messages = <<>>
  /\ encode = "off" /\ firstFrame = FALSE
  /\ closing = EmptyBag
  /\ stale = {} /\ closedAgain = FALSE

Pending(o) == stop[o] # "none"

Has(o) == CASE o = "network" -> network # "none"
            [] o = "file"    -> fileStream
            [] o = "replay"  -> replayBufferStream
-----------------------------------------------------------------------------
(***************************************************************************)
(* The end of a session, at the end of Stop and where Start fails late.    *)
(***************************************************************************)

\* AddPendingStream with a callback.
Closer == [publisher: BOOLEAN, keepsRunning: BOOLEAN]

AddPendingStream(stream, keepsRunning) ==
  /\ closing' = closing (+) SetToBag({[publisher    |-> stream = "rtmp",
                                       keepsRunning |-> keepsRunning]})
  /\ closedAgain' = (closing # EmptyBag \/ (keepsRunning /\ closedAgain))

\* A publisher is closed on its own thread, if the host believes to be streaming.
EndStream(stream, streaming) ==
  IF streaming
  THEN /\ AddPendingStream(stream, FALSE)
       /\ bStreaming' = TRUE /\ bStreamFlushed' = FALSE
  ELSE /\ bStreaming' = FALSE /\ closedAgain' = (closing # EmptyBag /\ closedAgain)
       /\ UNCHANGED <<bStreamFlushed, closing>>

\* Mutant: StopReplayBuffer(true) forgets the flag.
EndOutputsFlagLeft ==
  /\ bRecording' = FALSE /\ fileStream' = (fileStream /\ ~bRecording)
  /\ replayBufferStream' = FALSE
  /\ UNCHANGED bRecordingReplayBuffer

\* StopRecording(true) and StopReplayBuffer(true), which leave a stop that was
\* asked for where it is.
EndOutputs ==
  /\ bRecording' = FALSE /\ fileStream' = (fileStream /\ ~bRecording)
  /\ IF bRecordingReplayBuffer /\ replayBufferStream
     THEN bRecordingReplayBuffer' = FALSE /\ replayBufferStream' = FALSE
     ELSE UNCHANGED <<bRecordingReplayBuffer, replayBufferStream>>
-----------------------------------------------------------------------------
(***************************************************************************)
(* Asking for stops, on the main thread.                                   *)
(***************************************************************************)

\* The time is GetVideoTime() - firstFrameTimestamp; before the first frame of a
\* session the subtrahend is zero, or that of the last session.
AskStops(outputs) ==
  LET ask == {o \in outputs : Has(o) /\ ~Pending(o)}
  IN \E info \in IF firstFrame THEN {"asked"} ELSE {"asked", "never"} :
       stop' = [o \in Outputs |-> IF o \in ask THEN info ELSE stop[o]]

\* Stop, when everything ends: the encode thread is told and waited for.
StopAll == main' = "stopping" /\ UNCHANGED stop

NothingToStop == ~bStreaming /\ ~bRecording /\ ~bRunning /\ ~bRecordingReplayBuffer

KeepsRunning ==
  /\ settings.mode = 0
  /\ (bRecording /\ settings.keep) \/ bRecordingReplayBuffer

StopRecording ==
  IF ~bStreaming /\ ~bRecordingReplayBuffer /\ bRunning /\ bRecording
  THEN StopAll
  ELSE AskStops(IF bRecording THEN {"file"} ELSE {}) /\ UNCHANGED main

\* Stop(): when something goes on, only the stream ends, and the recording if it is
\* to end with the stream.
Stop ==
  IF NothingToStop
  THEN UNCHANGED <<stop, main>>
  ELSE IF KeepsRunning
  THEN /\ AskStops({"network"} \cup IF bRecordingReplayBuffer /\ bRecording /\ ~settings.keep
                                    THEN {"file"} ELSE {})
       /\ UNCHANGED main
  ELSE StopAll

StopReplayBuffer == AskStops({"replay"}) /\ UNCHANGED main

StoppingOnly == UNCHANGED <<settings, flagVars, streamVars, encodeVars, closeVars, stale>>
-----------------------------------------------------------------------------
(***************************************************************************)
(* Starting.                                                               *)
(***************************************************************************)

StartRefused(recordingOnly, replayBufferOnly) ==
  \/ bRunning /\ ~bRecording /\ ~bRecordingReplayBuffer
  \/ bRecording /\ settings.mode # 0
  \/ ~bRunning /\ ~bStreamFlushed /\ ~recordingOnly /\ ~replayBufferOnly

JoinsSession(recordingOnly, replayBufferOnly) ==
  /\ bRecording \/ bRecordingReplayBuffer
  /\ settings.mode = 0 /\ ~settings.delay
  /\ ~recordingOnly /\ ~replayBufferOnly /\ bStreamFlushed

\* "Stream Start (while recording)".
StartStreamOnly ==
  /\ network' = "rtmp" /\ bStreaming' = TRUE
  /\ stale' = stale \cup {o \in {"network"} : Pending(o)}
  /\ UNCHANGED <<bRunning, bRecording, bRecordingReplayBuffer, bStreamFlushed, fileStream,
                 replayBufferStream, stop, main, encodeVars, closeVars>>

\* Start goes on although the session runs, and replaces its threads, textures and
\* sources; this is not followed further.
StartTwice ==
  main' = "lost" /\ UNCHANGED <<flagVars, streamVars, stop, encodeVars, closeVars, stale>>

NewNetwork(recordingOnly, replayBufferOnly) ==
  IF recordingOnly \/ replayBufferOnly \/ ~bStreamFlushed \/ settings.mode # 0
  THEN "null" ELSE "rtmp"

\* The rest of Start.  Without its file a session goes on only as a stream.
StartSession(recordingOnly, replayBufferOnly) ==
  LET streaming == ~recordingOnly /\ ~replayBufferOnly /\ settings.mode = 0
      toFile    == ~replayBufferOnly /\ (recordingOnly \/ settings.mode = 1 \/ settings.save)
  IN /\ bRunning' = TRUE /\ bStreaming' = streaming
     /\ network' = NewNetwork(recordingOnly, replayBufferOnly)
     /\ bRecording' \in IF toFile THEN IF streaming THEN BOOLEAN ELSE {TRUE} ELSE {FALSE}
     /\ fileStream' = bRecording'
     /\ encode' = "capture" /\ firstFrame' = FALSE
     /\ UNCHANGED <<bStreamFlushed, closeVars>>

\* Start gives up before it has an encoder.
StartFailsEarly ==
  /\ network' \in {network, "none"}
  /\ UNCHANGED <<bRunning, bStreaming, bRecording, bStreamFlushed, fileStream, encodeVars,
                 closeVars>>

\* "Couldn't initialize encoder", and a recording that has no file: Stop(true).
StartFailsLate(recordingOnly, replayBufferOnly) ==
  /\ bRunning' = FALSE /\ network' = "none"
  /\ \/ /\ BagCardinality(closing) < MaxClosing
        /\ EndStream(NewNetwork(recordingOnly, replayBufferOnly), bStreaming)
     \/ /\ recordingOnly \/ (~replayBufferOnly /\ settings.mode = 1)
        /\ EndStream("null", FALSE)
  /\ UNCHANGED <<bRecording, fileStream, encodeVars>>

Start(recordingOnly) ==
  /\ ~StartRefused(recordingOnly, FALSE)
  /\ IF JoinsSession(recordingOnly, FALSE)
     THEN StartStreamOnly
     ELSE IF bRunning
     THEN StartTwice
     ELSE /\ \/ StartSession(recordingOnly, FALSE)
             \/ StartFailsEarly
             \/ StartFailsLate(recordingOnly, FALSE)
          /\ UNCHANGED <<bRecordingReplayBuffer, replayBufferStream, stop, main, stale>>

\* StartRecording(true), of a session that runs.
StartRecording ==
  /\ bRunning /\ ~bRecording
  /\ fileStream' \in BOOLEAN /\ bRecording' = fileStream'
  /\ UNCHANGED <<bRunning, bStreaming, bRecordingReplayBuffer, bStreamFlushed, network,
                 replayBufferStream, stop, main, encodeVars, closeVars, stale>>

\* StartReplayBuffer, when the session runs.
JoinReplayBuffer ==
  /\ ~bRecordingReplayBuffer /\ bRunning
  /\ replayBufferStream' = TRUE /\ bRecordingReplayBuffer' = TRUE
  /\ UNCHANGED <<settings, bRunning, bStreaming, bRecording, bStreamFlushed, network, fileStream,
                 stop, main, messages, encodeVars, closeVars, stale>>

\* StartReplayBuffer, when it has to start the session; if that fails, the buffer is
\* asked to stop although nothing sends frames.
StartReplayBuffer ==
  /\ ~bRecordingReplayBuffer /\ ~bRunning /\ ~StartRefused(FALSE, TRUE)
  /\ replayBufferStream' = TRUE
  /\ \/ /\ StartSession(FALSE, TRUE) /\ bRecordingReplayBuffer' = TRUE
        /\ UNCHANGED <<stop, stale>>
     \/ /\ StartFailsEarly \/ StartFailsLate(FALSE, TRUE)
        /\ UNCHANGED bRecordingReplayBuffer
        /\ stop' = [stop EXCEPT !["replay"] = IF Pending("replay") THEN @ ELSE "asked"]
        /\ stale' = stale \cup {"replay"}
  /\ UNCHANGED <<settings, main, messages>>
-----------------------------------------------------------------------------
(***************************************************************************)
(* The user, whose hotkeys and buttons act on the main thread.             *)
(***************************************************************************)

StartStreamHotkey ==
  (~bRunning \/ ~bStreaming) /\ Start(FALSE) /\ UNCHANGED <<settings, messages>>

StopStreamHotkey == bRunning /\ Stop /\ StoppingOnly /\ UNCHANGED messages

\* With no session and no stream it starts one that only records.
StartRecordingHotkey ==
  /\ ~bRecording
  /\ IF ~bRunning /\ ~bStreaming THEN Start(TRUE) ELSE StartRecording
  /\ UNCHANGED <<settings, messages>>

StopRecordingHotkey ==
  bRunning /\ bRecording /\ StopRecording /\ StoppingOnly /\ UNCHANGED messages

StartReplayBufferHotkey == JoinReplayBuffer \/ StartReplayBuffer

StopReplayBufferHotkey == bRunning /\ StopReplayBuffer /\ StoppingOnly /\ UNCHANGED messages

UserStep ==
  /\ main = "idle" /\ Len(messages) < MaxMessages
  /\ \/ StartStreamHotkey \/ StopStreamHotkey
     \/ StartRecordingHotkey \/ StopRecordingHotkey
     \/ StartReplayBufferHotkey \/ StopReplayBufferHotkey
-----------------------------------------------------------------------------
(***************************************************************************)
(* Messages.                                                               *)
(***************************************************************************)

Post(message) == messages' = Append(messages, message)

\* A connection fails and its publisher posts OBS_REQUESTSTOP: "retry" is one
\* after which the host may reconnect.  Some failures are reported while the
\* publisher is being closed.
NetworkFails ==
  /\ Len(messages) < MaxMessages
  /\ network = "rtmp" \/ \E c \in BagToSet(closing) : c.publisher
  /\ Post("retry")
  /\ UNCHANGED <<settings, flagVars, streamVars, stop, main, encodeVars, closeVars, stale>>

\* OBS_REQUESTSTOP.  OBS_RECONNECT follows at once, or after the dialog's timeout,
\* if the user wants it and the first connection was not lost too soon.
RequestStop ==
  /\ main = "idle" /\ messages # <<>> /\ Head(messages) \in {"stop", "retry"}
  /\ IF bRunning
     THEN Stop /\ \/ messages' = Tail(messages)
                  \/ Head(messages) = "retry" /\ messages' = Append(Tail(messages), "reconnect")
     ELSE UNCHANGED <<stop, main>> /\ messages' = Tail(messages)
  /\ StoppingOnly

Restart ==
  IF StartRefused(FALSE, FALSE)
  THEN UNCHANGED <<flagVars, streamVars, stop, main, encodeVars, closeVars, stale>>
  ELSE Start(FALSE)

\* OBS_RECONNECT.
Reconnect ==
  /\ main = "idle" /\ messages # <<>> /\ Head(messages) = "reconnect"
  /\ messages' = Tail(messages)
  /\ Restart /\ UNCHANGED settings

MessageStep == RequestStop \/ Reconnect
-----------------------------------------------------------------------------
(***************************************************************************)
(* The encode thread.                                                      *)
(***************************************************************************)

\* The first frame of the session is there; what is sent from now on is numbered
\* from it.
FirstFrame ==
  /\ encode = "capture" /\ ~firstFrame
  /\ firstFrame' = TRUE
  /\ UNCHANGED <<settings, flagVars, streamVars, stop, main, messages, encode, closeVars, stale>>

\* The thread has been told to end, and has sent what was still in the encoder and
\* in bufferedVideo.
EncodeEnds ==
  /\ encode = "capture" /\ main = "stopping"
  /\ encode' = "off"
  /\ UNCHANGED <<settings, flagVars, streamVars, stop, main, messages, firstFrame, closeVars,
                 stale>>

\* Packets of video go to the outputs that are there; of those, the ones that make a
\* stop move on are modelled.
Sends(o) == encode = "capture" /\ firstFrame /\ Has(o)

SeeTime(o) ==
  /\ Sends(o) /\ stop[o] = "asked"
  /\ stop' = [stop EXCEPT ![o] = "seen"]
  /\ UNCHANGED <<settings, flagVars, streamVars, main, messages, encodeVars, closeVars, stale>>

Fires(o) == Sends(o) /\ stop[o] = "seen"

\* Mutant: "info = {}" is forgotten.
ResetForgotten(o) == UNCHANGED <<stop, stale>>

\* "info = {}", when the function has returned.
Reset(o) == stop' = [stop EXCEPT ![o] = "none"] /\ stale' = stale \ {o}

\* Mutant: bStreamFlushed is left alone.
EndNetworkFlushed ==
  /\ Fires("network") /\ BagCardinality(closing) < MaxClosing
  /\ AddPendingStream(network, TRUE)
  /\ network' = "none"
  /\ Reset("network")
  /\ UNCHANGED <<settings, flagVars, fileStream, replayBufferStream, main, messages, encodeVars>>

\* "Stream End (recording continues)".
EndNetwork ==
  /\ Fires("network") /\ BagCardinality(closing) < MaxClosing
  /\ AddPendingStream(network, TRUE)
  /\ network' = "none" /\ bStreamFlushed' = FALSE
  /\ Reset("network")
  /\ UNCHANGED <<settings, bRunning, bStreaming, bRecording, bRecordingReplayBuffer, fileStream,
                 replayBufferStream, main, messages, encodeVars>>

\* Mutant: the session is left running.
PostStopIfNever(nothingLeft) == UNCHANGED messages

\* The session ends with the last thing it was for.
PostStopIf(nothingLeft) == IF nothingLeft THEN Post("stop") ELSE UNCHANGED messages

EndRecording ==
  /\ Fires("file")
  /\ fileStream' = FALSE /\ bRecording' = FALSE
  /\ PostStopIf(~bStreaming /\ ~bRecordingReplayBuffer /\ bRunning)
  /\ Reset("file")
  /\ UNCHANGED <<settings, bRunning, bStreaming, bRecordingReplayBuffer, bStreamFlushed, network,
                 replayBufferStream, main, encodeVars, closeVars>>

\* The flag goes first; the stream follows when the hotkeys' events have been
\* reported and the message posted.
EndReplayBuffer ==
  /\ Fires("replay")
  /\ encode' = "replayMove" /\ bRecordingReplayBuffer' = FALSE
  /\ PostStopIf(~bStreaming /\ ~bRecording /\ bRunning)
  /\ UNCHANGED <<settings, bRunning, bStreaming, bRecording, bStreamFlushed, streamVars, stop,
                 main, firstFrame, closeVars, stale>>

\* If it has been started again meanwhile, it is gone but believed to be there; this
\* is not followed further.
DestroyReplayBuffer ==
  /\ encode = "replayMove"
  /\ encode' = "capture" /\ replayBufferStream' = FALSE
  /\ main' = IF bRecordingReplayBuffer THEN "lost" ELSE main
  /\ Reset("replay")
  /\ UNCHANGED <<settings, flagVars, network, fileStream, messages, firstFrame, closeVars>>

EncodeStep ==
  \/ FirstFrame \/ EncodeEnds
  \/ \E o \in Outputs : SeeTime(o)
  \/ EndNetwork \/ EndRecording \/ EndReplayBuffer \/ DestroyReplayBuffer
-----------------------------------------------------------------------------
(***************************************************************************)
(* The rest of Stop, and the threads that close publishers.                *)
(***************************************************************************)

\* Mutant: the encode thread is not waited for.
FinishStopAtOnce ==
  /\ main = "stopping" /\ BagCardinality(closing) < MaxClosing
  /\ main' = "idle" /\ bRunning' = FALSE /\ network' = "none"
  /\ EndStream(network, bStreaming) /\ EndOutputs
  /\ stale' = {o \in Outputs : Pending(o)}
  /\ UNCHANGED <<settings, stop, messages, encodeVars>>

\* OSTerminateThread(hEncodeThread, 30001) is taken to return when the thread has
\* ended by itself.
FinishStop ==
  /\ main = "stopping" /\ encode = "off" /\ BagCardinality(closing) < MaxClosing
  /\ main' = "idle" /\ bRunning' = FALSE /\ network' = "none"
  /\ EndStream(network, bStreaming) /\ EndOutputs
  /\ stale' = {o \in Outputs : Pending(o)}
  /\ UNCHANGED <<settings, stop, messages, encodeVars>>

\* The publisher has been destroyed, and the callback is called.
StreamFlushed(c) ==
  /\ closing' = closing (-) SetToBag({c})
  /\ closedAgain' = (closedAgain /\ (bRunning \/ closing' # EmptyBag))
  /\ bStreaming' = FALSE /\ bStreamFlushed' = TRUE
  /\ PostStopIf(c.keepsRunning /\ ~bRecordingReplayBuffer /\ bRunning /\ ~bRecording)
  /\ UNCHANGED <<settings, bRunning, bRecording, bRecordingReplayBuffer, streamVars, stop, main,
                 encodeVars, stale>>

CloseStep == \E c \in BagToSet(closing) : StreamFlushed(c)

Next ==
  /\ main # "lost"
  /\ UserStep \/ NetworkFails \/ MessageStep \/ EncodeStep \/ FinishStop \/ CloseStep

\* Each thread goes on when it can; the frames at the end are finitely many.
Fairness ==
  /\ WF_vars(EncodeStep) /\ WF_vars(FinishStop) /\ WF_vars(CloseStep) /\ WF_vars(MessageStep)

Spec == Init /\ [][Next]_vars /\ Fairness
-----------------------------------------------------------------------------
(***************************************************************************)
(* Properties.                                                             *)
(***************************************************************************)

\* The variables have their types; the encode thread runs only in a session; and
\* what the host says it records to is there: a flag that outlived its stream would
\* keep the session from ending, or refuse to start the output again.
TypeOK ==
  /\ settings \in Settings
  /\ bRunning \in BOOLEAN /\ bStreaming \in BOOLEAN /\ bRecording \in BOOLEAN
  /\ bRecordingReplayBuffer \in BOOLEAN /\ bStreamFlushed \in BOOLEAN
  /\ fileStream \in BOOLEAN /\ replayBufferStream \in BOOLEAN
  /\ firstFrame \in BOOLEAN /\ closedAgain \in BOOLEAN
  /\ network \in {"none", "null", "rtmp"}
  /\ stop \in [Outputs -> StopInfo]
  /\ main \in {"idle", "stopping", "lost"}
  /\ messages \in Seq({"stop", "retry", "reconnect"})
  /\ encode \in {"off", "capture", "replayMove"} /\ (encode # "off" => bRunning)
  /\ main # "lost" => (bRecording => fileStream) /\ (bRecordingReplayBuffer => replayBufferStream)
  /\ IsABag(closing) /\ BagToSet(closing) \subseteq Closer
  /\ stale \subseteq Outputs

\* A stop waits only for an output that is there to be stopped: left behind by a stop
\* that has been carried out, it would end the next recording or stream by itself.
\* It is left behind where everything is stopped at once, with another output's stop
\* still waiting (the history variable stale): Stop does not reset the StopInfos.
StopsAreForStreams == \A o \in Outputs : Pending(o) => Has(o) \/ o \in stale

\* bStreamFlushed, which lets a new stream start, is set when no publisher is still
\* being closed, and is not left clear when none is, or no stream would ever start
\* again.  It is set too early where two streams are closed at a time: a Stop while
\* the last stream is still being closed gives AddPendingStream a stream that is not
\* there, whose callback comes first (closedAgain).
FlushedMeansClosed ==
  /\ bStreamFlushed => closedAgain \/ \A c \in BagToSet(closing) : ~c.publisher
  /\ ~bStreamFlushed => closing # EmptyBag

\* The outputs that a session runs for.
InUse == bStreaming \/ bRecording \/ bRecordingReplayBuffer

\* A session that records to nothing and streams nowhere ends: each output that ends
\* looks whether it was the last, on whichever thread, and asks the main thread to
\* stop.  Not so when the callback of a stream closed twice clears the flag of the
\* next stream (closedAgain).
IdleSessionEnds == bRunning /\ ~InUse ~> ~bRunning \/ InUse \/ closedAgain \/ main = "lost"

\* A reconnect that is due starts the stream again ("fire immediately").
ReconnectStarts ==
  [][Reconnect => network' = "rtmp" \/ main' = "lost"]_vars
=============================================================================
