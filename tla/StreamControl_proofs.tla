------------------------ MODULE StreamControl_proofs ------------------------
(***************************************************************************)
(* Proofs about StreamControl, for any settings and any bounds: whatever   *)
(* the user, the network and the threads do in whatever order, a stop      *)
(* waits only for what is there to be stopped, and bStreamFlushed says     *)
(* whether a publisher is being closed.                                    *)
(***************************************************************************)
EXTENDS StreamControl, SequenceTheorems, TLAPS

-----------------------------------------------------------------------------
(***************************************************************************)
(* The inductive invariant.                                                *)
(***************************************************************************)

\* The recording has its file while it is recorded to; what waits when no session
\* runs was left behind.
SessionInv ==
  /\ fileStream <=> bRecording
  /\ ~bRunning => \A o \in Outputs : Pending(o) => o \in stale

\* Unless streams have been closed two at a time, at most one is being closed.
CloseInv ==
  ~closedAgain => closing = EmptyBag \/ \E c \in Closer : closing = SetToBag({c})

IInv == TypeOK /\ SessionInv /\ CloseInv /\ FlushedMeansClosed /\ StopsAreForStreams
-----------------------------------------------------------------------------
(***************************************************************************)
(* Lemmas about the threads that close streams.                            *)
(***************************************************************************)

\* No thread.
LEMMA EmptyBagProperties ==
  /\ IsABag(EmptyBag) /\ BagToSet(EmptyBag) = {}
  /\ \A c : SetToBag({c}) # EmptyBag
<1>1. DOMAIN EmptyBag = {} /\ \A c : DOMAIN SetToBag({c}) = {c}
  BY DEF EmptyBag, SetToBag
<1>2. EmptyBag \in [{} -> {n \in Nat : n > 0}]
  BY DEF EmptyBag, SetToBag
<1>3. \A c : SetToBag({c}) # EmptyBag
  <2> SUFFICES ASSUME NEW c, SetToBag({c}) = EmptyBag PROVE FALSE
    OBVIOUS
  <2> QED
    BY <1>1
<1> QED
  BY <1>1, <1>2, <1>3 DEF IsABag, BagToSet

\* One more thread.
LEMMA AddProperties ==
  ASSUME NEW B, IsABag(B), NEW c
  PROVE  /\ IsABag(B (+) SetToBag({c}))
         /\ BagToSet(B (+) SetToBag({c})) = BagToSet(B) \cup {c}
         /\ B (+) SetToBag({c}) # EmptyBag
         /\ B = EmptyBag => B (+) SetToBag({c}) = SetToBag({c})
<1> DEFINE C == B (+) SetToBag({c})
<1>1. C = [e \in DOMAIN B \cup {c} |->
             (IF e \in DOMAIN B THEN B[e] ELSE 0) + (IF e \in {c} THEN 1 ELSE 0)]
  BY DEF (+), SetToBag
<1>2. \A e \in DOMAIN B : B[e] \in Nat /\ B[e] > 0
  BY DEF IsABag
<1> HIDE DEF C
<1>3. DOMAIN C = DOMAIN B \cup {c} /\ \A e \in DOMAIN C : C[e] \in Nat /\ C[e] > 0
  BY <1>1, <1>2
<1>4. IsABag(C)
  BY <1>1, <1>3 DEF IsABag
<1>5. C # EmptyBag
  BY <1>3 DEF EmptyBag, SetToBag
<1>6. ASSUME B = EmptyBag PROVE C = SetToBag({c})
  BY <1>1, <1>6 DEF EmptyBag, SetToBag
<1> QED
  BY <1>3, <1>4, <1>5, <1>6 DEF BagToSet, C

\* A thread less.
LEMMA RemoveProperties ==
  ASSUME NEW B, IsABag(B), NEW c
  PROVE  /\ IsABag(B (-) SetToBag({c}))
         /\ BagToSet(B (-) SetToBag({c})) \subseteq BagToSet(B)
         /\ B = SetToBag({c}) => B (-) SetToBag({c}) = EmptyBag
<1> DEFINE D == [e \in DOMAIN B |-> IF e \in {c} THEN B[e] - 1 ELSE B[e]]
           C == B (-) SetToBag({c})
<1>1. C = [e \in {d \in DOMAIN D : D[d] > 0} |-> D[e]]
  BY DEF (-), SetToBag
<1>2. \A e \in DOMAIN B : B[e] \in Nat /\ D[e] \in Int
  BY DEF IsABag
<1>3. DOMAIN D = DOMAIN B
  OBVIOUS
<1>4. ASSUME B = SetToBag({c}) PROVE \A d \in DOMAIN D : ~(D[d] > 0)
  BY <1>4 DEF SetToBag
<1> HIDE DEF C, D
<1>5. DOMAIN C \subseteq DOMAIN B /\ \A e \in DOMAIN C : C[e] \in Nat /\ C[e] > 0
  BY <1>1, <1>2, <1>3
<1>6. IsABag(C)
  BY <1>1, <1>5 DEF IsABag
<1>7. ASSUME B = SetToBag({c}) PROVE C = EmptyBag
  BY <1>1, <1>4, <1>7 DEF EmptyBag, SetToBag
<1> QED
  BY <1>5, <1>6, <1>7 DEF BagToSet, C

\* AddPendingStream.
LEMMA AddPendingStreamProperties ==
  ASSUME TypeOK, CloseInv, NEW stream, NEW keeps \in BOOLEAN, AddPendingStream(stream, keeps)
  PROVE  /\ IsABag(closing') /\ BagToSet(closing') \subseteq Closer /\ closing' # EmptyBag
         /\ closedAgain' \in BOOLEAN
         /\ CloseInv'
<1> DEFINE c == [publisher |-> stream = "rtmp", keepsRunning |-> keeps]
<1>1. c \in Closer
  BY DEF Closer
<1>2. closing' = closing (+) SetToBag({c}) /\ IsABag(closing) /\ BagToSet(closing) \subseteq Closer
  BY DEF AddPendingStream, TypeOK
<1> HIDE DEF c
<1>3. /\ IsABag(closing') /\ BagToSet(closing') \subseteq Closer /\ closing' # EmptyBag
      /\ closing = EmptyBag => closing' = SetToBag({c})
  <2> DEFINE B == closing (+) SetToBag({c})
  <2>1. /\ IsABag(B) /\ BagToSet(B) = BagToSet(closing) \cup {c} /\ B # EmptyBag
        /\ closing = EmptyBag => B = SetToBag({c})
    BY <1>2, AddProperties
  <2>2. closing' = B
    BY <1>2
  <2> HIDE DEF B
  <2> QED
    BY <1>1, <1>2, <2>1, <2>2
<1>4. closedAgain' \in BOOLEAN /\ (~closedAgain' => closing = EmptyBag)
  BY DEF AddPendingStream
<1>5. CloseInv'
  BY <1>1, <1>3, <1>4 DEF CloseInv
<1> QED
  BY <1>3, <1>4, <1>5

\* The end of a session, with a publisher to close or without.
LEMMA EndStreamProperties ==
  ASSUME TypeOK, CloseInv, FlushedMeansClosed, NEW stream, NEW streaming \in BOOLEAN,
         EndStream(stream, streaming)
  PROVE  /\ IsABag(closing') /\ BagToSet(closing') \subseteq Closer
         /\ closedAgain' \in BOOLEAN /\ bStreaming' \in BOOLEAN /\ bStreamFlushed' \in BOOLEAN
         /\ CloseInv' /\ FlushedMeansClosed'
<1>1. CASE streaming
  <2>1. AddPendingStream(stream, FALSE) /\ bStreaming' = TRUE /\ bStreamFlushed' = FALSE
    BY <1>1 DEF EndStream
  <2> QED
    BY <2>1, AddPendingStreamProperties DEF FlushedMeansClosed
<1>2. CASE ~streaming
  <2>1. /\ bStreaming' = FALSE /\ bStreamFlushed' = bStreamFlushed /\ closing' = closing
        /\ closedAgain' = (closing # EmptyBag /\ closedAgain)
    BY <1>2 DEF EndStream
  <2>2. closedAgain' \in BOOLEAN /\ bStreaming' \in BOOLEAN
    BY <2>1
  <2>3. CloseInv'
    BY <2>1 DEF CloseInv
  <2>4. FlushedMeansClosed'
    BY <2>1, EmptyBagProperties DEF FlushedMeansClosed
  <2> QED
    BY <2>1, <2>2, <2>3, <2>4 DEF TypeOK
<1> QED
  BY <1>1, <1>2

\* The two bags that FlushedMeansClosed and CloseInv are about are left alone.
LEMMA ClosingUnchanged ==
  ASSUME CloseInv, FlushedMeansClosed, UNCHANGED <<closeVars, bStreamFlushed>>
  PROVE  CloseInv' /\ FlushedMeansClosed'
BY DEF CloseInv, FlushedMeansClosed, closeVars
-----------------------------------------------------------------------------
(***************************************************************************)
(* Lemmas about the steps of the main thread.                              *)
(***************************************************************************)

\* At first nothing is there.
LEMMA InitIInv == Init => IInv
<1> SUFFICES ASSUME Init PROVE IInv
  OBVIOUS
<1>1. /\ bRunning \in BOOLEAN /\ bStreaming \in BOOLEAN /\ bRecording \in BOOLEAN
      /\ bRecordingReplayBuffer \in BOOLEAN /\ bStreamFlushed \in BOOLEAN
      /\ fileStream \in BOOLEAN /\ replayBufferStream \in BOOLEAN
      /\ firstFrame \in BOOLEAN /\ closedAgain \in BOOLEAN
  BY DEF Init
<1>2. TypeOK
  BY <1>1, EmptySeq, EmptyBagProperties DEF Init, TypeOK, StopInfo
<1>3. SessionInv /\ StopsAreForStreams
  BY DEF Init, SessionInv, StopsAreForStreams, Pending, Outputs
<1>4. CloseInv /\ FlushedMeansClosed
  BY EmptyBagProperties DEF Init, CloseInv, FlushedMeansClosed
<1> QED
  BY <1>2, <1>3, <1>4 DEF IInv

\* What is asked to stop is there.
LEMMA AskStopsProperties ==
  ASSUME TypeOK, NEW outputs, AskStops(outputs)
  PROVE  /\ stop' \in [Outputs -> StopInfo]
         /\ \A o \in Outputs : stop'[o] # "none" => Pending(o) \/ Has(o)
<1>1. PICK info \in {"asked", "never"} :
        stop' = [o \in Outputs |->
                   IF o \in {x \in outputs : Has(x) /\ ~Pending(x)} THEN info ELSE stop[o]]
  BY DEF AskStops
<1>2. \A o \in Outputs : stop'[o] = IF o \in outputs /\ Has(o) /\ ~Pending(o)
                                    THEN info ELSE stop[o]
  BY <1>1
<1>3. stop' \in [Outputs -> StopInfo]
  BY <1>1, <1>2 DEF TypeOK, StopInfo
<1> QED
  BY <1>2, <1>3 DEF Pending

\* A stop that is asked for while a session runs.
LEMMA AskIInv ==
  ASSUME IInv, bRunning, StoppingOnly, Stop \/ StopRecording \/ StopReplayBuffer,
         main = "idle", messages' \in Seq({"stop", "retry", "reconnect"})
  PROVE  IInv'
<1>1. /\ stop' \in [Outputs -> StopInfo] /\ main' \in {"idle", "stopping"}
      /\ \A o \in Outputs : stop'[o] # "none" => Pending(o) \/ Has(o)
  <2>1. CASE UNCHANGED <<stop, main>> \/ StopAll
    BY <2>1 DEF IInv, TypeOK, StopAll, Pending
  <2>2. CASE main' = main /\ \E outputs : AskStops(outputs)
    BY <2>2, AskStopsProperties DEF IInv
  <2> QED
    BY <2>1, <2>2 DEF Stop, StopRecording, StopReplayBuffer
<1> USE DEF StoppingOnly, flagVars, streamVars, encodeVars, closeVars
<1>2. TypeOK'
  BY <1>1 DEF IInv, TypeOK
<1>3. SessionInv'
  BY DEF IInv, SessionInv
<1>4. StopsAreForStreams'
  BY <1>1 DEF IInv, StopsAreForStreams, Pending, Has
<1> QED
  BY <1>2, <1>3, <1>4, ClosingUnchanged DEF IInv

\* A session starts, with the replay buffer or without.
LEMMA StartSessionIInv ==
  ASSUME IInv, ~bRunning, NEW r \in BOOLEAN, NEW b \in BOOLEAN, StartSession(r, b),
         \/ UNCHANGED <<bRecordingReplayBuffer, replayBufferStream>>
         \/ bRecordingReplayBuffer' = TRUE /\ replayBufferStream' = TRUE,
         UNCHANGED <<settings, stop, stale, main>>,
         messages' \in Seq({"stop", "retry", "reconnect"})
  PROVE  IInv'
<1>1. /\ bRunning' = TRUE /\ network' \in {"null", "rtmp"} /\ fileStream' = bRecording'
      /\ encode' = "capture" /\ firstFrame' = FALSE
      /\ bStreamFlushed' = bStreamFlushed /\ closing' = closing /\ closedAgain' = closedAgain
  BY DEF StartSession, NewNetwork, closeVars
<1>2. bStreaming' \in BOOLEAN /\ bRecording' \in BOOLEAN /\ fileStream' \in BOOLEAN
  BY DEF StartSession
<1>3. /\ bRunning' \in BOOLEAN /\ firstFrame' \in BOOLEAN
      /\ bRecordingReplayBuffer' \in BOOLEAN /\ replayBufferStream' \in BOOLEAN
      /\ main' # "lost" => (bRecordingReplayBuffer' => replayBufferStream')
  <2>1. CASE UNCHANGED <<bRecordingReplayBuffer, replayBufferStream>>
    BY <1>1, <2>1 DEF IInv, TypeOK
  <2>2. CASE bRecordingReplayBuffer' = TRUE /\ replayBufferStream' = TRUE
    BY <1>1, <2>2
  <2> QED
    BY <2>1, <2>2
<1>4. TypeOK'
  BY <1>1, <1>2, <1>3 DEF IInv, TypeOK
<1>5. SessionInv'
  BY <1>1 DEF SessionInv
<1>6. StopsAreForStreams'
  BY DEF IInv, SessionInv, StopsAreForStreams, Pending
<1> QED
  BY <1>1, <1>4, <1>5, <1>6, ClosingUnchanged DEF IInv, closeVars

\* A session does not start; StartReplayBuffer then asks the buffer to stop.
LEMMA StartFailsIInv ==
  ASSUME IInv, ~bRunning, NEW r \in BOOLEAN, NEW b \in BOOLEAN,
         StartFailsEarly \/ StartFailsLate(r, b),
         bRecordingReplayBuffer' = bRecordingReplayBuffer,
         replayBufferStream' = replayBufferStream \/ replayBufferStream' = TRUE,
         \/ UNCHANGED <<stop, stale>>
         \/ /\ stop' = [stop EXCEPT !["replay"] = IF Pending("replay") THEN @ ELSE "asked"]
            /\ stale' = stale \cup {"replay"},
         UNCHANGED <<settings, main>>,
         messages' \in Seq({"stop", "retry", "reconnect"})
  PROVE  IInv'
<1>1. /\ IsABag(closing') /\ BagToSet(closing') \subseteq Closer
      /\ closedAgain' \in BOOLEAN /\ bStreaming' \in BOOLEAN /\ bStreamFlushed' \in BOOLEAN
      /\ CloseInv' /\ FlushedMeansClosed'
  <2>1. CASE StartFailsEarly
    BY <2>1, ClosingUnchanged DEF StartFailsEarly, IInv, TypeOK, closeVars
  <2>2. CASE StartFailsLate(r, b)
    <3>1. EndStream(NewNetwork(r, b), bStreaming) \/ EndStream("null", FALSE)
      BY <2>2 DEF StartFailsLate
    <3>2. bStreaming \in BOOLEAN
      BY DEF IInv, TypeOK
    <3> QED
      BY <3>1, <3>2, EndStreamProperties DEF IInv
  <2> QED
    BY <2>1, <2>2
<1>2. /\ bRunning' = FALSE /\ bRecording' = bRecording /\ fileStream' = fileStream
      /\ network' \in {network, "none"} /\ encode' = encode /\ firstFrame' = firstFrame
  BY DEF StartFailsEarly, StartFailsLate, encodeVars, IInv, TypeOK
<1>3. /\ stop' \in [Outputs -> StopInfo] /\ stale' \subseteq Outputs
      /\ \A o \in Outputs : stop'[o] # "none" => o \in stale'
  <2>1. "replay" \in Outputs /\ "asked" \in StopInfo
    BY DEF Outputs, StopInfo
  <2>2. \A o \in Outputs : stop[o] # "none" => o \in stale
    BY DEF IInv, SessionInv, Pending
  <2> QED
    BY <2>1, <2>2 DEF IInv, TypeOK
<1>4. /\ bRunning' \in BOOLEAN /\ replayBufferStream' \in BOOLEAN
      /\ main' # "lost" => (bRecordingReplayBuffer' => replayBufferStream')
  BY <1>2 DEF IInv, TypeOK
<1>5. TypeOK'
  BY <1>1, <1>2, <1>3, <1>4 DEF IInv, TypeOK
<1>6. SessionInv' /\ StopsAreForStreams'
  BY <1>2, <1>3 DEF IInv, SessionInv, StopsAreForStreams, Pending
<1> QED
  BY <1>1, <1>5, <1>6 DEF IInv

\* Start: the stream alone, a session, or nothing.
LEMMA StartIInv ==
  ASSUME IInv, NEW r \in BOOLEAN, Start(r), UNCHANGED settings,
         messages' \in Seq({"stop", "retry", "reconnect"})
  PROVE  IInv'
<1>1. CASE StartStreamOnly
  <2> USE <1>1 DEF StartStreamOnly, encodeVars, closeVars
  <2>1. bStreaming' \in BOOLEAN
    OBVIOUS
  <2>2. TypeOK'
    BY <2>1 DEF IInv, TypeOK, Outputs
  <2>3. SessionInv'
    BY DEF IInv, SessionInv, Pending
  <2>4. \A o \in Outputs : Has(o) => Has(o)'
    BY DEF Has, Outputs
  <2>5. StopsAreForStreams'
    BY <2>4 DEF IInv, StopsAreForStreams, Pending
  <2> QED
    BY <2>2, <2>3, <2>5, ClosingUnchanged DEF IInv
<1>2. CASE StartTwice
  <2> USE <1>2 DEF StartTwice, flagVars, streamVars, encodeVars, closeVars
  <2>1. TypeOK'
    BY DEF IInv, TypeOK
  <2>2. SessionInv' /\ StopsAreForStreams'
    BY DEF IInv, SessionInv, StopsAreForStreams, Pending, Has
  <2> QED
    BY <2>1, <2>2, ClosingUnchanged DEF IInv
<1>3. CASE /\ ~bRunning /\ StartSession(r, FALSE)
           /\ UNCHANGED <<bRecordingReplayBuffer, replayBufferStream, stop, main, stale>>
  BY <1>3, StartSessionIInv
<1>4. CASE /\ ~bRunning /\ (StartFailsEarly \/ StartFailsLate(r, FALSE))
           /\ UNCHANGED <<bRecordingReplayBuffer, replayBufferStream, stop, main, stale>>
  BY <1>4, StartFailsIInv
<1> QED
  BY <1>1, <1>2, <1>3, <1>4 DEF Start

\* StartRecording(true): there is no other recording, and a stop that waits for one
\* was left behind.
LEMMA StartRecordingIInv ==
  ASSUME IInv, StartRecording, UNCHANGED settings,
         messages' \in Seq({"stop", "retry", "reconnect"})
  PROVE  IInv'
<1> USE DEF StartRecording, encodeVars, closeVars
<1>1. ~fileStream /\ bRecording' \in BOOLEAN /\ fileStream' \in BOOLEAN
  BY DEF IInv, SessionInv
<1>2. TypeOK'
  BY <1>1 DEF IInv, TypeOK
<1>3. SessionInv'
  BY DEF IInv, SessionInv
<1>4. \A o \in Outputs : Has(o) => Has(o)'
  BY <1>1 DEF Has, Outputs
<1>5. StopsAreForStreams'
  BY <1>4 DEF IInv, StopsAreForStreams, Pending
<1> QED
  BY <1>2, <1>3, <1>5, ClosingUnchanged DEF IInv

\* StartReplayBuffer.
LEMMA StartReplayBufferIInv ==
  ASSUME IInv, JoinReplayBuffer \/ StartReplayBuffer
  PROVE  IInv'
<1>1. messages' = messages /\ messages' \in Seq({"stop", "retry", "reconnect"})
  BY DEF JoinReplayBuffer, StartReplayBuffer, IInv, TypeOK
<1>2. CASE JoinReplayBuffer
  <2> USE <1>2 DEF JoinReplayBuffer, encodeVars, closeVars
  <2>1. replayBufferStream' \in BOOLEAN /\ bRecordingReplayBuffer' \in BOOLEAN
    OBVIOUS
  <2>2. TypeOK'
    BY <2>1 DEF IInv, TypeOK
  <2>3. SessionInv'
    BY DEF IInv, SessionInv, Pending
  <2>4. \A o \in Outputs : Has(o) => Has(o)'
    BY DEF Has, Outputs
  <2>5. StopsAreForStreams'
    BY <2>4 DEF IInv, StopsAreForStreams, Pending
  <2> QED
    BY <2>2, <2>3, <2>5, ClosingUnchanged DEF IInv
<1>3. CASE StartReplayBuffer /\ StartSession(FALSE, TRUE) /\ bRecordingReplayBuffer' = TRUE
           /\ UNCHANGED <<stop, stale>>
  BY <1>1, <1>3, StartSessionIInv DEF StartReplayBuffer
<1>4. CASE /\ StartReplayBuffer
           /\ StartFailsEarly \/ StartFailsLate(FALSE, TRUE)
           /\ UNCHANGED bRecordingReplayBuffer
           /\ stop' = [stop EXCEPT !["replay"] = IF Pending("replay") THEN @ ELSE "asked"]
           /\ stale' = stale \cup {"replay"}
  BY <1>1, <1>4, StartFailsIInv DEF StartReplayBuffer
<1> QED
  BY <1>2, <1>3, <1>4 DEF StartReplayBuffer

\* The hotkeys.
LEMMA UserIInv == IInv /\ UserStep => IInv'
<1> SUFFICES ASSUME IInv, UserStep PROVE IInv'
  OBVIOUS
<1>1. main = "idle" /\ messages \in Seq({"stop", "retry", "reconnect"})
  BY DEF UserStep, IInv, TypeOK
<1>2. CASE StartStreamHotkey
  BY <1>1, <1>2, StartIInv DEF StartStreamHotkey
<1>3. CASE StopStreamHotkey
  BY <1>1, <1>3, AskIInv DEF StopStreamHotkey
<1>4. CASE StartRecordingHotkey
  BY <1>1, <1>4, StartIInv, StartRecordingIInv DEF StartRecordingHotkey
<1>5. CASE StopRecordingHotkey
  BY <1>1, <1>5, AskIInv DEF StopRecordingHotkey
<1>6. CASE StartReplayBufferHotkey
  BY <1>6, StartReplayBufferIInv DEF StartReplayBufferHotkey
<1>7. CASE StopReplayBufferHotkey
  BY <1>1, <1>7, AskIInv DEF StopReplayBufferHotkey
<1> QED
  BY <1>2, <1>3, <1>4, <1>5, <1>6, <1>7 DEF UserStep

\* A message is posted.
LEMMA PostProperties ==
  ASSUME TypeOK, NEW message \in {"stop", "retry", "reconnect"}, Post(message)
  PROVE  messages' \in Seq({"stop", "retry", "reconnect"})
BY AppendProperties DEF TypeOK, Post

\* A message is posted or not.
LEMMA PostStopIfProperties ==
  ASSUME TypeOK, NEW nothingLeft \in BOOLEAN, PostStopIf(nothingLeft)
  PROVE  messages' \in Seq({"stop", "retry", "reconnect"})
BY PostProperties DEF TypeOK, PostStopIf

\* A connection fails.
LEMMA NetworkFailsIInv == IInv /\ NetworkFails => IInv'
<1> SUFFICES ASSUME IInv, NetworkFails PROVE IInv'
  OBVIOUS
<1> USE DEF NetworkFails, flagVars, streamVars, encodeVars, closeVars
<1>1. TypeOK'
  BY PostProperties DEF IInv, TypeOK
<1>2. SessionInv' /\ StopsAreForStreams'
  BY DEF IInv, SessionInv, StopsAreForStreams, Pending, Has
<1> QED
  BY <1>1, <1>2, ClosingUnchanged DEF IInv

\* OBS_REQUESTSTOP and OBS_RECONNECT.
LEMMA MessageIInv == IInv /\ MessageStep => IInv'
<1> SUFFICES ASSUME IInv, MessageStep PROVE IInv'
  OBVIOUS
<1> DEFINE Messages == {"stop", "retry", "reconnect"}
<1>1. messages \in Seq(Messages) /\ messages # <<>> /\ main = "idle"
  BY DEF IInv, TypeOK, MessageStep, RequestStop, Reconnect
<1>2. Tail(messages) \in Seq(Messages) /\ Append(Tail(messages), "reconnect") \in Seq(Messages)
  BY <1>1, HeadTailProperties, AppendProperties
<1>3. messages' \in Seq(Messages)
  BY <1>2 DEF MessageStep, RequestStop, Reconnect
<1>4. CASE RequestStop
  <2>1. CASE bRunning
    BY <1>1, <1>3, <1>4, <2>1, AskIInv DEF RequestStop
  <2>2. CASE ~bRunning
    <3> USE <1>4, <2>2 DEF RequestStop, StoppingOnly, flagVars, streamVars, encodeVars, closeVars
    <3>1. TypeOK'
      BY <1>3 DEF IInv, TypeOK
    <3>2. SessionInv' /\ StopsAreForStreams'
      BY DEF IInv, SessionInv, StopsAreForStreams, Pending, Has
    <3> QED
      BY <3>1, <3>2, ClosingUnchanged DEF IInv
  <2> QED
    BY <2>1, <2>2
<1>5. CASE Reconnect
  <2>1. CASE StartRefused(FALSE, FALSE)
    <3> USE <1>5, <2>1 DEF Reconnect, Restart, flagVars, streamVars, encodeVars, closeVars
    <3>1. TypeOK'
      BY <1>3 DEF IInv, TypeOK
    <3>2. SessionInv' /\ StopsAreForStreams'
      BY DEF IInv, SessionInv, StopsAreForStreams, Pending, Has
    <3> QED
      BY <3>1, <3>2, ClosingUnchanged DEF IInv
  <2>2. CASE ~StartRefused(FALSE, FALSE)
    BY <1>3, <1>5, <2>2, StartIInv DEF Reconnect, Restart
  <2> QED
    BY <2>1, <2>2
<1> QED
  BY <1>4, <1>5 DEF MessageStep

\* The end of Stop: a stop that still waits has been left behind.
LEMMA FinishStopIInv == IInv /\ FinishStop => IInv'
<1> SUFFICES ASSUME IInv, FinishStop PROVE IInv'
  OBVIOUS
<1>1. /\ main' = "idle" /\ bRunning' = FALSE /\ network' = "none" /\ encode = "off"
      /\ stop' = stop /\ stale' = {o \in Outputs : Pending(o)}
      /\ UNCHANGED <<settings, messages, encode, firstFrame>>
  BY DEF FinishStop, encodeVars
<1>2. /\ IsABag(closing') /\ BagToSet(closing') \subseteq Closer
      /\ closedAgain' \in BOOLEAN /\ bStreaming' \in BOOLEAN /\ bStreamFlushed' \in BOOLEAN
      /\ CloseInv' /\ FlushedMeansClosed'
  <2>1. bStreaming \in BOOLEAN /\ EndStream(network, bStreaming)
    BY DEF FinishStop, IInv, TypeOK
  <2> QED
    BY <2>1, EndStreamProperties DEF IInv
<1>3. /\ bRecording' = FALSE /\ fileStream' = FALSE
      /\ bRecordingReplayBuffer' \in BOOLEAN /\ replayBufferStream' \in BOOLEAN
      /\ bRecordingReplayBuffer' => replayBufferStream'
  <2>1. EndOutputs /\ (fileStream <=> bRecording) /\ (bRecordingReplayBuffer => replayBufferStream)
    BY DEF FinishStop, IInv, SessionInv, TypeOK
  <2> QED
    BY <2>1 DEF EndOutputs, IInv, TypeOK
<1>4. bRunning' \in BOOLEAN /\ bRecording' \in BOOLEAN /\ fileStream' \in BOOLEAN
  BY <1>1, <1>3
<1>5. TypeOK'
  BY <1>1, <1>2, <1>3, <1>4 DEF IInv, TypeOK
<1>6. SessionInv' /\ StopsAreForStreams'
  BY <1>1, <1>3 DEF SessionInv, StopsAreForStreams, Pending
<1> QED
  BY <1>2, <1>5, <1>6 DEF IInv
-----------------------------------------------------------------------------
(***************************************************************************)
(* Lemmas about the steps of the encode thread and of the threads that     *)
(* close streams.                                                          *)
(***************************************************************************)

\* "info = {}".
LEMMA ResetProperties ==
  ASSUME TypeOK, NEW o \in Outputs, Reset(o)
  PROVE  /\ stop' \in [Outputs -> StopInfo] /\ stale' \subseteq Outputs
         /\ \A x \in Outputs : stop'[x] = IF x = o THEN "none" ELSE stop[x]
         /\ \A x \in Outputs : x # o => (x \in stale' <=> x \in stale)
BY DEF Reset, TypeOK, StopInfo

\* A session that goes on.
LEMMA SessionGoesOn ==
  ASSUME IInv, bRunning, bRunning' = TRUE, fileStream' <=> bRecording'
  PROVE  SessionInv'
BY DEF SessionInv

\* FirstFrame, EncodeEnds and SeeTime: no stop is asked for.
LEMMA CaptureIInv ==
  ASSUME IInv, FirstFrame \/ EncodeEnds \/ \E o \in Outputs : SeeTime(o) PROVE IInv'
<1> USE DEF flagVars, streamVars, encodeVars, closeVars
<1>1. /\ stop' \in [Outputs -> StopInfo]
      /\ \A o \in Outputs : stop'[o] # "none" => stop[o] # "none"
  BY DEF FirstFrame, EncodeEnds, SeeTime, StopInfo, IInv, TypeOK
<1>2. firstFrame' \in BOOLEAN
  BY DEF FirstFrame, EncodeEnds, SeeTime, IInv, TypeOK
<1>3. TypeOK'
  BY <1>1, <1>2 DEF FirstFrame, EncodeEnds, SeeTime, IInv, TypeOK
<1>4. UNCHANGED <<closeVars, flagVars, streamVars, stale>>
  BY DEF FirstFrame, EncodeEnds, SeeTime
<1>5. SessionInv' /\ StopsAreForStreams'
  BY <1>1, <1>4 DEF IInv, SessionInv, StopsAreForStreams, Pending, Has
<1> QED
  BY <1>3, <1>4, <1>5, ClosingUnchanged DEF IInv

\* "Stream End (recording continues)": the stream and its stop go together.
LEMMA EndNetworkIInv == IInv /\ EndNetwork => IInv'
<1> SUFFICES ASSUME IInv, EndNetwork PROVE IInv'
  OBVIOUS
<1> USE DEF EndNetwork, Fires, Sends, encodeVars
<1>1. /\ IsABag(closing') /\ BagToSet(closing') \subseteq Closer /\ closing' # EmptyBag
      /\ closedAgain' \in BOOLEAN /\ CloseInv'
  BY AddPendingStreamProperties DEF IInv
<1>2. /\ stop' \in [Outputs -> StopInfo] /\ stale' \subseteq Outputs
      /\ \A x \in Outputs : stop'[x] = IF x = "network" THEN "none" ELSE stop[x]
      /\ \A x \in Outputs : x # "network" => (x \in stale' <=> x \in stale)
  BY ResetProperties DEF IInv, Outputs
<1>3. bStreamFlushed' \in BOOLEAN
  OBVIOUS
<1>4. TypeOK'
  BY <1>1, <1>2, <1>3 DEF IInv, TypeOK
<1>5. FlushedMeansClosed'
  BY <1>1 DEF FlushedMeansClosed
<1>6. SessionInv'
  BY SessionGoesOn DEF IInv, TypeOK, SessionInv
<1>7. StopsAreForStreams'
  BY <1>2 DEF IInv, StopsAreForStreams, Pending, Has, Outputs
<1> QED
  BY <1>1, <1>4, <1>5, <1>6, <1>7 DEF IInv

\* The recording and its stop go together.
LEMMA EndRecordingIInv == IInv /\ EndRecording => IInv'
<1> SUFFICES ASSUME IInv, EndRecording PROVE IInv'
  OBVIOUS
<1> USE DEF EndRecording, Fires, Sends, encodeVars, closeVars
<1>1. /\ stop' \in [Outputs -> StopInfo] /\ stale' \subseteq Outputs
      /\ \A x \in Outputs : stop'[x] = IF x = "file" THEN "none" ELSE stop[x]
      /\ \A x \in Outputs : x # "file" => (x \in stale' <=> x \in stale)
  BY ResetProperties DEF IInv, Outputs
<1>2. messages' \in Seq({"stop", "retry", "reconnect"})
  BY PostStopIfProperties DEF IInv, TypeOK
<1>3. fileStream' \in BOOLEAN /\ bRecording' \in BOOLEAN
  OBVIOUS
<1>4. TypeOK'
  BY <1>1, <1>2, <1>3 DEF IInv, TypeOK
<1>5. SessionInv'
  BY SessionGoesOn DEF IInv, TypeOK
<1>6. StopsAreForStreams'
  BY <1>1 DEF IInv, StopsAreForStreams, Pending, Has, Outputs
<1> QED
  BY <1>4, <1>5, <1>6, ClosingUnchanged DEF IInv

\* The flag of the replay buffer goes first.
LEMMA EndReplayBufferIInv == IInv /\ EndReplayBuffer => IInv'
<1> SUFFICES ASSUME IInv, EndReplayBuffer PROVE IInv'
  OBVIOUS
<1> USE DEF EndReplayBuffer, Fires, Sends, streamVars, closeVars
<1>1. messages' \in Seq({"stop", "retry", "reconnect"})
  BY PostStopIfProperties DEF IInv, TypeOK
<1>2. bRecordingReplayBuffer' \in BOOLEAN
  OBVIOUS
<1>3. TypeOK'
  BY <1>1, <1>2 DEF IInv, TypeOK
<1>4. SessionInv' /\ StopsAreForStreams'
  BY DEF IInv, SessionInv, StopsAreForStreams, Pending, Has
<1> QED
  BY <1>3, <1>4, ClosingUnchanged DEF IInv

\* The replay buffer and its stop go together.
LEMMA DestroyReplayBufferIInv == IInv /\ DestroyReplayBuffer => IInv'
<1> SUFFICES ASSUME IInv, DestroyReplayBuffer PROVE IInv'
  OBVIOUS
<1> USE DEF DestroyReplayBuffer, flagVars, closeVars
<1>1. /\ stop' \in [Outputs -> StopInfo] /\ stale' \subseteq Outputs
      /\ \A x \in Outputs : stop'[x] = IF x = "replay" THEN "none" ELSE stop[x]
      /\ \A x \in Outputs : x # "replay" => (x \in stale' <=> x \in stale)
  BY ResetProperties DEF IInv, Outputs
<1>2. replayBufferStream' \in BOOLEAN
  OBVIOUS
<1>3. TypeOK'
  BY <1>1, <1>2 DEF IInv, TypeOK
<1>4. SessionInv'
  BY SessionGoesOn DEF IInv, TypeOK, SessionInv
<1>5. StopsAreForStreams'
  BY <1>1 DEF IInv, StopsAreForStreams, Pending, Has, Outputs
<1> QED
  BY <1>3, <1>4, <1>5, ClosingUnchanged DEF IInv

\* The encode thread.
LEMMA EncodeIInv == IInv /\ EncodeStep => IInv'
BY CaptureIInv, EndNetworkIInv, EndRecordingIInv, EndReplayBufferIInv, DestroyReplayBufferIInv
   DEF EncodeStep

\* A stream is closed: the only one, unless streams have been closed two at a time.
LEMMA CloseIInv == IInv /\ CloseStep => IInv'
<1> SUFFICES ASSUME IInv, NEW c \in BagToSet(closing), StreamFlushed(c) PROVE IInv'
  BY DEF CloseStep
<1> USE DEF StreamFlushed, streamVars, encodeVars
<1>1. c \in Closer /\ IsABag(closing)
  BY DEF IInv, TypeOK
<1>2. /\ IsABag(closing') /\ BagToSet(closing') \subseteq Closer
      /\ closing = SetToBag({c}) => closing' = EmptyBag
  <2> DEFINE B == closing (-) SetToBag({c})
  <2>1. /\ IsABag(B) /\ BagToSet(B) \subseteq BagToSet(closing)
        /\ closing = SetToBag({c}) => B = EmptyBag
    BY <1>1, RemoveProperties
  <2>2. closing' = B /\ BagToSet(closing) \subseteq Closer
    BY DEF IInv, TypeOK
  <2> HIDE DEF B
  <2> QED
    BY <2>1, <2>2
<1>3. closedAgain' \in BOOLEAN /\ bStreaming' \in BOOLEAN /\ bStreamFlushed' \in BOOLEAN
  BY DEF IInv, TypeOK
<1>4. messages' \in Seq({"stop", "retry", "reconnect"})
  BY <1>1, PostStopIfProperties DEF IInv, TypeOK, Closer
<1>5. TypeOK'
  BY <1>2, <1>3, <1>4 DEF IInv, TypeOK
<1>6. ~closedAgain' => closing' = EmptyBag
  <2> SUFFICES ASSUME ~closedAgain, closing' # EmptyBag PROVE FALSE
    BY DEF IInv, TypeOK
  <2>1. closing # EmptyBag
    BY EmptyBagProperties
  <2>2. PICK d \in Closer : closing = SetToBag({d})
    BY <2>1 DEF IInv, CloseInv
  <2>3. BagToSet(closing) = {d}
    BY <2>2 DEF BagToSet, SetToBag
  <2> QED
    BY <1>2, <2>2, <2>3
<1>7. CloseInv' /\ FlushedMeansClosed'
  BY <1>6, EmptyBagProperties DEF CloseInv, FlushedMeansClosed
<1>8. SessionInv' /\ StopsAreForStreams'
  BY DEF IInv, SessionInv, StopsAreForStreams, Pending, Has
<1> QED
  BY <1>5, <1>7, <1>8 DEF IInv

\* The invariant is inductive.
LEMMA NextIInv == IInv /\ [Next]_vars => IInv'
<1> SUFFICES ASSUME IInv, [Next]_vars PROVE IInv'
  OBVIOUS
<1>1. CASE UserStep \/ NetworkFails \/ MessageStep \/ EncodeStep \/ FinishStop \/ CloseStep
  BY <1>1, UserIInv, NetworkFailsIInv, MessageIInv, EncodeIInv, FinishStopIInv, CloseIInv
<1>2. CASE UNCHANGED vars
  <2> USE <1>2 DEF vars, flagVars, streamVars, encodeVars, closeVars
  <2>1. TypeOK'
    BY DEF IInv, TypeOK
  <2>2. SessionInv' /\ StopsAreForStreams'
    BY DEF IInv, SessionInv, StopsAreForStreams, Pending, Has
  <2> QED
    BY <2>1, <2>2, ClosingUnchanged DEF IInv
<1> QED
  BY <1>1, <1>2 DEF Next
-----------------------------------------------------------------------------
(***************************************************************************)
(* The theorems.                                                           *)
(***************************************************************************)

\* IInv holds of every reachable state of the main thread, the encode thread, the
\* messages and the threads that close streams.
THEOREM InductiveInvariant == Spec => []IInv
<1>1. Spec => Init /\ [][Next]_vars
  BY DEF Spec
<1> QED
  BY <1>1, InitIInv, NextIInv, PTL

\* Types; the encode thread runs only in a session, and what the host says it
\* records to is there.
THEOREM TypeCorrect == Spec => []TypeOK
<1>1. IInv => TypeOK
  BY DEF IInv
<1> QED
  BY <1>1, InductiveInvariant, PTL

\* HandleStreamStopInfo and Stop: a StopInfo waits only for an output that is there,
\* or was left behind when everything was stopped at once.
THEOREM StopsHaveTargets == Spec => []StopsAreForStreams
<1>1. IInv => StopsAreForStreams
  BY DEF IInv
<1> QED
  BY <1>1, InductiveInvariant, PTL

\* AddPendingStream and its callback: bStreamFlushed is clear only while a stream is
\* being closed, and set, unless two are closed at a time, only while no publisher is.
THEOREM FlushedTellsTheTruth == Spec => []FlushedMeansClosed
<1>1. IInv => FlushedMeansClosed
  BY DEF IInv
<1> QED
  BY <1>1, InductiveInvariant, PTL
=============================================================================
