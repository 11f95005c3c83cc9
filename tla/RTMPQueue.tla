----------------------------- MODULE RTMPQueue ------------------------------
(***************************************************************************)
(* The packets of a stream on their way to the network (RTMPPublisher.cpp).*)
(* The encode thread gives them to SendPacket, which holds back the last   *)
(* ones to put audio in its place (bufferedPackets) and passes the oldest  *)
(* on to SendPacketForReal.  That appends it to the send queue, unless the *)
(* queue is too long: then frames are dropped, those nothing refers to     *)
(* first, and what arrives later is refused until a frame comes that can   *)
(* be decoded without them (packetWaitType).  The send thread empties the  *)
(* queue, woken by a semaphore.  The destructor flushes what is held back  *)
(* and lets the send thread finish.                                        *)
(*                                                                         *)
(* A packet is a number, its priority (PacketType), its timestamp and, of  *)
(* a video frame, the number of the frame it is decoded from.  The queue   *)
(* is changed under hDataMutex only, and SendPacket enters it at most once,*)
(* so that each of its calls is one step.                                  *)
(***************************************************************************)
EXTENDS Integers, FiniteSets, SequencesExt

CONSTANTS
  HELD,       \* MAX_BUFFERED_PACKETS: 10
  DROP,       \* dropThreshold: 600 ms
  BDROP,      \* bframeDropThreshold: 400 ms
  Fast,       \* the values bFastInitialKeyframe can have
  Streams     \* bound: what the encoders may give, sequences of types and times

ASSUME QueueAssumption ==
  /\ {HELD, DROP, BDROP} \subseteq Nat
  /\ HELD > 0 /\ Fast \subseteq BOOLEAN
  /\ Streams \subseteq Seq([type : 0 .. 4, time : Nat])

\* PacketType, in the order of the enumeration.
VideoDisposable == 0
VideoLow        == 1
VideoHigh       == 2
VideoHighest    == 3
Audio           == 4

\* Frames are given in the order of their times; SendFrame gives, before each, no audio
\* that is later.
ASSUME FramesInOrder ==
  \A s \in Streams : \A m, n \in DOMAIN s :
    m < n /\ s[n].type # Audio => s[m].time <= s[n].time

\* Audio is given after the frames and the audio that are earlier: BufferVideoData keeps a
\* frame until audio has come that is not earlier.  This is not so of the last frames, that
\* FlushBufferedVideo gives at their pace, if audio is late.
AudioInOrder ==
  \A s \in Streams : \A m, n \in DOMAIN s :
    m < n /\ s[n].type = Audio => s[m].time <= s[n].time

VARIABLES
  fast,        \* bFastInitialKeyframe
  connection,  \* of the connection thread: "none", "running", "up", "failed"
  stopping,    \* bStopping
  held,        \* bufferedPackets
  heldFull,    \* bBufferFull
  started,     \* ~bFirstKeyframe
  first,       \* firstTimestamp
  audioOffset, \* audioTimeOffset
  queue,       \* queuedPackets
  wait,        \* packetWaitType
  minDrop,     \* minFramedropTimestsamp
  headers,     \* bStreamStarted: the headers have been sent
  sentKey,     \* bSentFirstKeyframe
  sentAudio,   \* bSentFirstAudio
  total,       \* totalVideoFrames, and totalFrames - totalVideoFrames
  dumped,      \* numBFramesDumped + numPFramesDumped
  semaphore,   \* hSendSempahore
  loopExit,    \* hSendLoopExit
  sender,      \* where SendLoop is
  destroyer,   \* where ~RTMPPublisher is
  stream,      \* what the encoders give, of which this is
  given,       \* how much they have given
  firstID,     \* history: the packet that firstTimestamp is of
  anchor,      \* history: the last frame that is VideoHigh or better
  base,        \* history: the last frame that others can be decoded from
  sent,        \* history: how many packets were handed to RTMP_SendPacket
  decoders,    \* history: those of them that others can still be decoded from
  missed       \* history: packets queued after SendLoop found nothing to send

startVars  == <<heldFull, started, first, firstID, audioOffset>>
heldVars   == <<held, startVars>>
queueVars  == <<queue, wait, minDrop, headers, sentKey, sentAudio, total, dumped>>
threadVars == <<semaphore, loopExit, sender, destroyer>>
inputVars  == <<stream, given, anchor, base>>
historyVars == <<sent, decoders, missed>>
vars == <<fast, connection, stopping, heldVars, queueVars, threadVars, inputVars, historyVars>>

Larger(a, b) == IF a > b THEN a ELSE b
IsVideo(p) == p.type # Audio

Init ==
  /\ fast \in Fast /\ connection = "none" /\ stopping = FALSE
  /\ held = <<>> /\ heldFull = FALSE /\ started = FALSE /\ first = 0 /\ firstID = 0 /\ audioOffset = 0
  /\ queue = <<>> /\ wait = VideoDisposable /\ minDrop = 0
  /\ headers = FALSE /\ sentKey = FALSE /\ sentAudio = FALSE
  /\ total = [video |-> 0, audio |-> 0] /\ dumped = 0
  /\ semaphore = 0 /\ loopExit = FALSE /\ sender = "waiting" /\ destroyer = "none"
  /\ stream \in Streams /\ given = 0 /\ anchor = 0 /\ base = 0 /\ missed = {}
  /\ sent = [video |-> 0, audio |-> 0, key |-> 0] /\ decoders = {}

\* FindClosestQueueIndex and FindClosestBufferIndex: after the packets that are
\* not later.
InsertByTime(q, p) ==
  InsertAt(q, SelectInSeq(q \o <<[p EXCEPT !.time = p.time + 1]>>,
                          LAMBDA other : other.time > p.time), p)
-----------------------------------------------------------------------------
(***************************************************************************)
(* Dropping frames.                                                        *)
(***************************************************************************)

\* The queue without the packets at these indices.
Without(q, gone) ==
  LET left[n \in 0 .. Len(q)] ==
        IF n = 0 THEN <<>> ELSE IF n \in gone THEN left[n - 1] ELSE Append(left[n - 1], q[n])
  IN  left[Len(q)]

\* Mutant: after a P frame, another one may follow.
DropFrameAlone(q, waiting, id) ==
  [queue |-> RemoveAt(q, id), wait |-> Larger(waiting, q[id].type)]

\* DropFrame, with the removal of the frame by its caller.  All that follows a P
\* frame up to the next keyframe goes with it; if that has not come yet, it is
\* waited for.  After a B frame it waits for one of at least its priority.
DropFrame(q, waiting, id) ==
  LET type  == q[id].type
      later == {n \in id + 1 .. Len(q) : IsVideo(q[n])}
      next  == {n \in later : q[n].type >= (IF type >= VideoHigh THEN VideoHighest ELSE type)}
      gone  == {id} \cup (IF type >= VideoHigh THEN {n \in later : \A k \in next : n < k} ELSE {})
  IN  [queue |-> Without(q, gone),
       wait  |-> IF next # {} THEN waiting
                 ELSE IF type >= VideoHigh THEN VideoHighest
                 ELSE Larger(waiting, type)]

\* Mutant: audio is not passed over.
BestPacketOfAny(q, bBFramesOnly) ==
  LET gone == {n \in 1 .. Len(q) : q[n].type # VideoHighest /\ (bBFramesOnly => q[n].type < VideoHigh)}
  IN  IF gone = {} THEN 0 ELSE Max(gone)

\* DoIFrameDelay: the frame to drop next, 0 for none.  Of B frames it takes the
\* one furthest from the last one dropped; as its callers repeat it until nothing
\* is left to drop, which of them goes first is not kept track of.  Of P frames
\* it takes the last before a keyframe, else the last.
BestPacket(q, bBFramesOnly) ==
  LET ofType(t) == {n \in 1 .. Len(q) : q[n].type = t}
      beforeKey == {n \in ofType(VideoHigh) : \E k \in ofType(VideoHighest) : n < k}
  IN  IF ofType(VideoDisposable) # {} THEN Min(ofType(VideoDisposable))
      ELSE IF ofType(VideoLow) # {} THEN Min(ofType(VideoLow))
      ELSE IF bBFramesOnly \/ ofType(VideoHigh) = {} THEN 0
      ELSE IF beforeKey # {} THEN Max(beforeKey)
      ELSE Max(ofType(VideoHigh))

DoIFrameDelay(dropped, bBFramesOnly) ==
  LET id == BestPacket(dropped.queue, bBFramesOnly)
  IN  IF id = 0 THEN dropped ELSE DropFrame(dropped.queue, dropped.wait, id)

\* while (DoIFrameDelay(bBFramesOnly)): a step for each packet is enough.
DropFrames(q, bBFramesOnly) ==
  LET dropped[n \in 0 .. Len(q)] ==
        IF n = 0 THEN [queue |-> q, wait |-> wait] ELSE DoIFrameDelay(dropped[n - 1], bBFramesOnly)
  IN  dropped[Len(q)]

\* The part of ProcessPackets that drops.  late is whether dropThreshold has
\* passed since B frames were dropped last, by the system's clock.
QueueDuration == IF queue = <<>> THEN 0 ELSE Last(queue).time - Head(queue).time
MayDrop       == ~stopping /\ queue # <<>> /\ minDrop < Head(queue).time
DropsAll      == MayDrop /\ QueueDuration >= DROP + audioOffset
DropsBFrames(late) ==
  MayDrop /\ ~DropsAll /\ late /\ QueueDuration >= BDROP + audioOffset

Processed(late) ==
  IF DropsAll THEN DropFrames(queue, FALSE)
  ELSE IF DropsBFrames(late) THEN DropFrames(queue, TRUE)
  ELSE [queue |-> queue, wait |-> wait]
-----------------------------------------------------------------------------
(***************************************************************************)
(* SendPacketForReal.                                                      *)
(***************************************************************************)

\* A packet is accepted if its priority is at least the one waited for.
Accepted(p, waiting) == p.type >= waiting

\* The first audio packet that is sent gets the time zero.
Stamped(p) == IF p.type = Audio /\ ~sentAudio THEN [p EXCEPT !.time = 0] ELSE p

SendPacketForReal(p) ==
  IF connection # "up"
  THEN UNCHANGED <<queueVars, semaphore, missed>>
  ELSE \E late \in BOOLEAN :
    LET after   == Processed(late)
        removed == Len(queue) - Len(after.queue)
        send    == sentKey \/ p.type = VideoHighest
        accept  == send /\ Accepted(p, after.wait)
    IN  /\ headers' = (headers \/ ~stopping)
        /\ minDrop' = IF DropsAll THEN Last(queue).time ELSE minDrop
        /\ semaphore' = IF after.queue # <<>> THEN semaphore + 1 ELSE semaphore
        /\ sentAudio' = (sentAudio \/ (send /\ p.type = Audio))
        /\ sentKey' = (sentKey \/ accept)
        /\ total' = IF ~send THEN total
                    ELSE IF IsVideo(p) THEN [total EXCEPT !.video = @ + 1]
                    ELSE [total EXCEPT !.audio = @ + 1]
        /\ dumped' = dumped + removed + (IF send /\ ~accept THEN 1 ELSE 0)
        /\ wait' = IF accept /\ IsVideo(p) THEN VideoDisposable ELSE after.wait
        /\ queue' = IF accept THEN InsertByTime(after.queue, Stamped(p)) ELSE after.queue
        /\ missed' = IF accept /\ sender = "checking" THEN missed \cup {p.id} ELSE missed
-----------------------------------------------------------------------------
(***************************************************************************)
(* SendPacket, called by the encode thread.                                *)
(***************************************************************************)

\* Mutant: the time before the first frame's is subtracted from it.
FirstAudioTimeAbsolute(q) ==
  LET at == SelectInSeq(q, LAMBDA p : p.type = Audio)
  IN  IF at = 0 THEN 0 ELSE q[at].time + first

\* Of InitializeBuffer: the first audio packet is taken to be as early as the first
\* frame.
FirstAudioTime(q) ==
  LET at == SelectInSeq(q, LAMBDA p : p.type = Audio)
  IN  IF at = 0 THEN 0 ELSE q[at].time

\* The packet is appended to what is held back; audio goes to its place.
Held(q, p, offset) ==
  IF IsVideo(p) THEN Append(q, p) ELSE InsertByTime(q, [p EXCEPT !.time = @ - offset])

\* Once the buffer has been filled, audio is moved to where it belongs.
InitializeBuffer(q) ==
  LET placed[n \in 0 .. Len(q)] ==
        IF n = 0 THEN <<>> ELSE Held(placed[n - 1], q[n], FirstAudioTime(q))
  IN  placed[Len(q)]

\* Nothing is kept of what comes before the connection is up and, without
\* bFastInitialKeyframe, before the first keyframe.
Ignored(p) ==
  \/ connection # "up" /\ (~fast \/ p.type # VideoHighest)
  \/ ~fast /\ ~started /\ p.type # VideoHighest

\* With bFastInitialKeyframe: the last keyframe is kept until the connection is
\* up, and then sent before anything else.
KeepKeyframe(p) ==
  /\ connection # "up"
  /\ held' = <<p>>
  /\ UNCHANGED <<startVars, queueVars, semaphore, missed>>

FirstPacket(p) ==
  /\ connection = "up" /\ ~started
  /\ started' = TRUE /\ first' = p.time /\ firstID' = p.id
  /\ held' = <<[p EXCEPT !.time = 0]>>
  /\ UNCHANGED <<heldFull, audioOffset>>
  /\ IF p.type # VideoHighest /\ held # <<>>
     THEN SendPacketForReal([Head(held) EXCEPT !.time = 0])
     ELSE UNCHANGED <<queueVars, semaphore, missed>>

HoldPacket(p) ==
  /\ connection = "up" /\ started /\ Len(held) < HELD
  /\ held' = Held(held, [p EXCEPT !.time = @ - first], audioOffset)
  /\ UNCHANGED <<startVars, queueVars, semaphore, missed>>

PassOldest(p) ==
  LET full   == IF heldFull THEN held ELSE InitializeBuffer(held)
      offset == IF heldFull THEN audioOffset ELSE FirstAudioTime(held)
  IN  /\ connection = "up" /\ started /\ Len(held) = HELD
      /\ heldFull' = TRUE /\ audioOffset' = offset
      /\ held' = Held(Tail(full), [p EXCEPT !.time = @ - first], offset)
      /\ UNCHANGED <<started, first, firstID>>
      /\ SendPacketForReal(Head(full))

\* What a frame is decoded from.  This is the encoder's: P frames and B frames
\* that others refer to follow from the last P frame or keyframe, other B frames
\* from the last frame that may be referred to.
Reference(type) ==
  CASE type \in {VideoHighest, Audio} -> 0
    [] type \in {VideoLow, VideoHigh} -> anchor
    [] type = VideoDisposable         -> base

\* The first call starts the connection thread.
SendPacket ==
  /\ given < Len(stream) /\ destroyer = "none"
  /\ given' = given + 1
  /\ connection' = IF connection = "none" THEN "running" ELSE connection
  /\ LET type == stream[given'].type
         p    == [id |-> given', type |-> type, time |-> stream[given'].time, ref |-> Reference(type)]
     IN  /\ anchor' = IF type \in {VideoHigh, VideoHighest} THEN p.id ELSE anchor
         /\ base' = IF type \in {VideoLow, VideoHigh, VideoHighest} THEN p.id ELSE base
         /\ IF Ignored(p)
            THEN UNCHANGED <<heldVars, queueVars, semaphore, missed>>
            ELSE \/ KeepKeyframe(p)
                 \/ FirstPacket(p)
                 \/ HoldPacket(p)
                 \/ PassOldest(p)
  /\ UNCHANGED <<fast, stopping, loopExit, sender, destroyer, stream, sent, decoders>>

\* The end of CreateConnectionThread.
Connected ==
  /\ connection = "running"
  /\ connection' = "up" /\ wait' = VideoDisposable
  /\ UNCHANGED <<fast, stopping, heldVars, queue, minDrop, headers, sentKey, sentAudio,
                 total, dumped, threadVars, inputVars, historyVars>>

ConnectionFails ==
  /\ connection = "running"
  /\ connection' = "failed" /\ stopping' = TRUE
  /\ UNCHANGED <<fast, heldVars, queueVars, threadVars, inputVars, historyVars>>
-----------------------------------------------------------------------------
(***************************************************************************)
(* SendLoop, on the send thread.                                           *)
(***************************************************************************)

OnlySender ==
  UNCHANGED <<fast, connection, stopping, heldVars, wait, minDrop, headers, sentKey,
              sentAudio, total, dumped, loopExit, destroyer, inputVars>>

WakeSender ==
  /\ connection = "up" /\ sender = "waiting" /\ semaphore > 0
  /\ semaphore' = semaphore - 1 /\ sender' = "sending" /\ missed' = {}
  /\ OnlySender /\ UNCHANGED <<queue, sent, decoders>>

SendNext ==
  /\ sender = "sending" /\ queue # <<>>
  /\ queue' = Tail(queue)
  /\ LET p == Head(queue)
     IN  /\ sent' = IF ~IsVideo(p) THEN [sent EXCEPT !.audio = @ + 1]
                    ELSE [sent EXCEPT !.video = @ + 1, !.key = IF p.type = VideoHighest THEN p.id ELSE @]
         /\ decoders' = (decoders \cup {p.id}) \cap
              ({anchor, base} \cup {other.ref : other \in Range(queue') \cup Range(held)})
  /\ OnlySender /\ UNCHANGED <<semaphore, sender, missed>>

FoundEmpty ==
  /\ sender = "sending" /\ queue = <<>>
  /\ sender' = "checking"
  /\ OnlySender /\ UNCHANGED <<queue, semaphore, historyVars>>

CheckExit ==
  /\ sender = "checking"
  /\ sender' = IF stopping /\ loopExit THEN "done" ELSE "waiting"
  /\ OnlySender /\ UNCHANGED <<queue, semaphore, historyVars>>

SenderStep == WakeSender \/ SendNext \/ FoundEmpty \/ CheckExit
-----------------------------------------------------------------------------
(***************************************************************************)
(* ~RTMPPublisher, on a thread of its own, after the encode thread has let *)
(* go of the stream.                                                       *)
(***************************************************************************)

Destroy ==
  /\ destroyer = "none"
  /\ stopping' = TRUE /\ destroyer' = "joining"
  /\ UNCHANGED <<fast, connection, heldVars, queueVars, semaphore, loopExit, sender,
                 inputVars, historyVars>>

\* Waits for the connection thread, which may still succeed.
JoinConnection ==
  /\ destroyer = "joining" /\ connection # "running"
  /\ destroyer' = "flushing"
  /\ UNCHANGED <<fast, connection, stopping, heldVars, queueVars, semaphore, loopExit,
                 sender, inputVars, historyVars>>

\* FlushBufferedPackets, at the pace of the timestamps.
FlushPacket ==
  /\ destroyer = "flushing" /\ held # <<>>
  /\ held' = Tail(held)
  /\ SendPacketForReal(Head(held))
  /\ UNCHANGED <<fast, connection, stopping, startVars, loopExit, sender, destroyer,
                 inputVars, sent, decoders>>

\* Mutants of Flushed: the thread is told to exit before all is flushed, and it
\* is not woken.
FlushedEarly ==
  /\ destroyer = "flushing" /\ Len(held) <= 1
  /\ loopExit' = TRUE /\ semaphore' = semaphore + 1
FlushedSilently ==
  /\ destroyer = "flushing" /\ held = <<>>
  /\ loopExit' = TRUE /\ semaphore' = semaphore

\* "this marks the thread to exit after current work is done", and wakes it up.
Flushed ==
  /\ destroyer = "flushing" /\ held = <<>>
  /\ loopExit' = TRUE /\ semaphore' = semaphore + 1

EndSending ==
  /\ ~loopExit /\ Flushed
  /\ UNCHANGED <<fast, connection, stopping, heldVars, queueVars, sender, destroyer,
                 inputVars, historyVars>>

\* Without a connection there is no send thread to wait for.
JoinSender ==
  /\ destroyer = "flushing" /\ held = <<>> /\ loopExit
  /\ sender = "done" \/ connection # "up"
  /\ destroyer' = "done"
  /\ UNCHANGED <<fast, connection, stopping, heldVars, queueVars, semaphore, loopExit,
                 sender, inputVars, historyVars>>

DestroyerStep == JoinConnection \/ FlushPacket \/ EndSending \/ JoinSender

Next ==
  \/ SendPacket
  \/ Connected \/ ConnectionFails
  \/ SenderStep
  \/ Destroy
  \/ DestroyerStep

Fairness ==
  /\ WF_vars(Connected \/ ConnectionFails)
  /\ WF_vars(SenderStep)
  /\ WF_vars(DestroyerStep)

Spec == Init /\ [][Next]_vars /\ Fairness
-----------------------------------------------------------------------------
(***************************************************************************)
(* Properties.                                                             *)
(***************************************************************************)

IDs(S) == {p.id : p \in S}
Packets == [id: DOMAIN stream, type: VideoDisposable .. Audio, time: Nat,
            ref: {0} \cup DOMAIN stream]

\* The types; among them, that no timestamp underflows when the first frame's and
\* the first audio packet's are subtracted, and that the buffer of held packets
\* keeps to its size.
TypeOK ==
  /\ fast \in BOOLEAN /\ connection \in {"none", "running", "up", "failed"}
  /\ {stopping, heldFull, started, headers, sentKey, sentAudio, loopExit} \subseteq BOOLEAN
  /\ held \in Seq(Packets) /\ Len(held) <= HELD
  /\ {first, audioOffset, minDrop, dumped, semaphore} \subseteq Nat
  /\ queue \in Seq(Packets) /\ wait \in VideoDisposable .. VideoHighest
  /\ total \in [video: Nat, audio: Nat]
  /\ sender \in {"waiting", "sending", "checking", "done"}
  /\ destroyer \in {"none", "joining", "flushing", "done"}
  /\ stream \in Streams /\ {given, firstID, anchor, base} \subseteq 0 .. Len(stream)
  /\ sent \in [video: Nat, audio: Nat, key: Nat] /\ decoders \cup missed \subseteq DOMAIN stream

Sends(p) == queue # <<>> /\ p = Head(queue) /\ sent' # sent

\* SendLoop, DropFrame and packetWaitType: whatever is dropped, in the queue or
\* on arrival, no frame is sent without the frame it is decoded from having been
\* sent before it, after a keyframe.  bFastInitialKeyframe accepts that the frames
\* that were skipped while connecting are missing until the next keyframe.
SentDecodable ==
  [][\A p \in Range(queue) :
       Sends(p) /\ p.ref # 0 =>
         p.ref \in decoders \/ (fast /\ sent.key < firstID)]_vars

\* SendPacketForReal and DropFrame: every frame that counts as one of the stream
\* is sent, queued or counted as dropped, and audio is never dropped: what the
\* status bar shows adds up.
PacketsAccounted ==
  LET video(S) == Cardinality({p \in S : IsVideo(p)})
      audio(S) == Cardinality({p \in S : ~IsVideo(p)})
  IN  /\ total.video = sent.video + video(Range(queue)) + dumped
      /\ total.audio = sent.audio + audio(Range(queue))

\* ~RTMPPublisher: when the send thread is done, it has sent all that was queued,
\* but for what was queued between its last look at the queue and its test of
\* hSendLoopExit (a window the code leaves open), and what is sent came after the
\* stream's headers unless the stream was destroyed before the buffer had filled.
NothingLeftBehind ==
  /\ sender = "done" => IDs(Range(queue)) \subseteq missed
  /\ sent.video > 0 => headers \/ ~heldFull

\* ~RTMPPublisher: the destructor ends; the send thread is woken and sees that it
\* has to exit.  (The network is taken to accept the data.)
FlushEnds == destroyer = "joining" ~> destroyer = "done"
=============================================================================
