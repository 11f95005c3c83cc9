------------------------ MODULE RTMPShutdown_proofs -------------------------
(***************************************************************************)
(* Proofs about RTMPShutdown, for buffers, sends and packets of any size.  *)
(***************************************************************************)
EXTENDS RTMPShutdown, SequenceTheorems, TLAPS

-----------------------------------------------------------------------------
(***************************************************************************)
(* The inductive invariant.                                                *)
(***************************************************************************)

\* As long as the socket is open, or the destructor patient, the length is that of
\* a buffer, and what send() has taken is still in it.
LenInv ==
  open \/ ~timedOut =>
    /\ len \in 0 .. SIZE - 1
    /\ socket = "consuming" => written <= len

\* How far the destructor is says which threads have ended, and who has used a
\* timeout.
ExitInv ==
  /\ destroyer \in {"joiningSocket", "final", "done"} => sender = "done"
  /\ socketExit => sender = "done"
  /\ destroyer \in {"final", "done"} => socket \in {"done", "locked"}
  /\ destroyer = "killingSender" \/ socket = "locked" => timedOut
  /\ open \/ broken \/ destroyer = "done"

\* What was taken from the queue is in the send thread's hands, in the buffer or
\* delivered; a socket thread that has ended by itself has left nothing in the
\* buffer, and nobody fills it any more.
FlowInv ==
  ~broken /\ ~timedOut =>
    /\ taken + written = packet + len + delivered
    /\ sender \notin {"sending", "copying", "blocked"} => packet = 0
    /\ socket # "consuming" => written = 0
    /\ socket = "done" => sender = "done" /\ len = 0

IInv == TypeOK /\ LenInv /\ ExitInv /\ FlowInv
-----------------------------------------------------------------------------
(***************************************************************************)
(* IInv is inductive: the initial states, and the steps of each actor.     *)
(***************************************************************************)

\* The constants, one by one.
LEMMA Constants ==
  /\ SIZE \in Nat /\ SIZE >= 1 /\ CHUNK \in Nat /\ MaxPackets \in Nat
  /\ Lengths \subseteq Nat /\ 0 \notin Lengths
BY ShutdownAssumption

\* The socket is closed and the buffer emptied: what was written stays in its types.
LEMMA ShutdownTypes ==
  ASSUME FatalSocketShutdown
  PROVE  open' \in BOOLEAN /\ broken' \in BOOLEAN /\ len' \in 0 .. SIZE - 1 /\ len' = 0
<1>1. len' = 0 /\ open' \in BOOLEAN /\ broken' \in BOOLEAN
  BY DEF FatalSocketShutdown
<1>2. 0 \in 0 .. SIZE - 1
  BY Constants
<1> QED
  BY <1>1, <1>2

\* Natural numbers add up to a natural number.
LEMMA NatPlus == \A m, n \in Nat : m + n \in Nat
OBVIOUS

\* The connection has just been made, or is already being given up.
LEMMA InitIInv == Init => IInv
<1> SUFFICES ASSUME Init PROVE IInv
  OBVIOUS
<1>1. <<>> \in Seq(Lengths)
  BY EmptySeq
<1>2. 0 \in 0 .. SIZE - 1 /\ 0 \in 0 .. CHUNK /\ 0 \in 0 .. MaxPackets
  BY Constants
<1>3. net \subseteq {"write", "read", "close"} /\ open \in BOOLEAN /\ stopping \in BOOLEAN
      /\ broken \in BOOLEAN /\ (open \/ broken)
  BY DEF Init
<1>4. /\ sendExit \in BOOLEAN /\ socketExit \in BOOLEAN /\ bufferEvent \in BOOLEAN
      /\ spaceEvent \in BOOLEAN /\ blocked \in BOOLEAN /\ canWrite \in BOOLEAN
      /\ timedOut \in BOOLEAN
  BY DEF Init
<1>5. destroyer \in {"none", "flushing"}
  BY DEF Init
<1>6. TypeOK
  BY <1>1, <1>2, <1>3, <1>4, <1>5 DEF Init, TypeOK
<1>7. LenInv /\ ExitInv /\ FlowInv
  BY <1>2, <1>3 DEF Init, LenInv, ExitInv, FlowInv
<1> QED
  BY <1>6, <1>7 DEF IInv

\* A packet that is queued has not been taken.
LEMMA QueueIInv ==
  ASSUME IInv, NEW length \in Lengths, Queue(length)
  PROVE  IInv'
<1> USE DEF IInv, Queue, eventVars, exitVars, networkVars, senderVars, socketVars
<1>1. queue' \in Seq(Lengths)
  BY AppendProperties DEF TypeOK
<1>2. TypeOK'
  BY <1>1, Constants DEF TypeOK
<1>3. LenInv' /\ ExitInv' /\ FlowInv'
  BY DEF LenInv, ExitInv, FlowInv
<1> QED
  BY <1>2, <1>3

\* The send thread: SendLoop and BufferedSend.
LEMMA SenderIInv == IInv /\ SenderStep => IInv'
<1> SUFFICES ASSUME IInv, SenderStep PROVE IInv'
  OBVIOUS
<1> USE Constants
     DEF IInv, TypeOK, LenInv, ExitInv, FlowInv, eventVars, exitVars, networkVars,
         senderVars, socketVars, historyVars, OnlySender
<1>1. CASE WakeSender
  BY <1>1 DEF WakeSender
<1>2. CASE TakePacket
  <2>0. queue' \in Seq(Lengths) /\ packet' \in Lengths /\ taken' \in Nat
    <3>1. Head(queue) \in Lengths /\ Tail(queue) \in Seq(Lengths)
      BY <1>2, HeadTailProperties DEF TakePacket
    <3>2. taken + Head(queue) \in Nat
      BY <3>1, NatPlus
    <3> QED
      BY <1>2, <3>1, <3>2 DEF TakePacket
  <2>1. TypeOK'
    BY <1>2, <2>0 DEF TakePacket
  <2>2. LenInv'
    BY <1>2 DEF TakePacket
  <2>3. ExitInv'
    BY <1>2 DEF TakePacket
  <2>4. FlowInv'
    BY <1>2, <2>1 DEF TakePacket
  <2> QED
    BY <2>1, <2>2, <2>3, <2>4
<1>3. CASE FoundEmpty
  BY <1>3 DEF FoundEmpty
<1>4. CASE CheckExit
  BY <1>4 DEF CheckExit
<1>5. CASE PretendToSend
  BY <1>5 DEF PretendToSend
<1>6. CASE TestConnected
  BY <1>6 DEF TestConnected
<1>7. CASE WaitForSpace
  BY <1>7 DEF WaitForSpace
<1>8. CASE SpaceAvailable
  <2>1. /\ spaceEvent' \in BOOLEAN
    BY <1>8 DEF SpaceAvailable
  <2> QED
    BY <1>8, <2>1 DEF SpaceAvailable
<1>9. CASE CopyPacket
  <2>1. TypeOK'
    BY <1>9 DEF CopyPacket, Fits
  <2>2. LenInv'
    BY <1>9 DEF CopyPacket, Fits
  <2>3. ExitInv'
    BY <1>9 DEF CopyPacket, Fits
  <2>4. FlowInv'
    BY <1>9 DEF CopyPacket, Fits
  <2> QED
    BY <2>1, <2>2, <2>3, <2>4
<1>10. CASE SignalBuffer
  BY <1>10 DEF SignalBuffer
<1> QED
  BY <1>1, <1>2, <1>3, <1>4, <1>5, <1>6, <1>7, <1>8, <1>9, <1>10 DEF SenderStep

\* The socket thread.
LEMMA SocketIInv == IInv /\ SocketStep => IInv'
<1> SUFFICES ASSUME IInv, SocketStep PROVE IInv'
  OBVIOUS
<1> USE Constants
     DEF IInv, TypeOK, LenInv, ExitInv, FlowInv, eventVars, exitVars, networkVars,
         senderVars, socketVars, historyVars, OnlySocket
<1>1. CASE TestSocketExit
  BY <1>1 DEF TestSocketExit
<1>2. CASE NetworkEvent
  BY <1>2 DEF NetworkEvent
<1>3. CASE SocketClosed
  <2>1. TypeOK'
    BY <1>3, ShutdownTypes DEF SocketClosed
  <2>2. LenInv'
    BY <1>3 DEF FatalSocketShutdown, SocketClosed
  <2>3. ExitInv'
    BY <1>3 DEF FatalSocketShutdown, SocketClosed
  <2>4. FlowInv'
    BY <1>3 DEF FatalSocketShutdown, SocketClosed
  <2> QED
    BY <2>1, <2>2, <2>3, <2>4
<1>4. CASE BufferEvent
  <2>1. /\ bufferEvent' \in BOOLEAN
    BY <1>4 DEF BufferEvent
  <2> QED
    BY <1>4, <2>1 DEF BufferEvent
<1>5. CASE NothingToWrite
  BY <1>5 DEF NothingToWrite
<1>6. CASE SendTakes
  <2>1. TypeOK'
    <3>1. len \in Int /\ CHUNK \in Nat /\ delivered \in Nat
      OBVIOUS
    <3>2. written' \in 0 .. CHUNK
      <4>1. CASE len < CHUNK
        <5>1. written' \in 1 .. len
          BY <1>6, <4>1 DEF SendTakes
        <5> QED
          BY <3>1, <4>1, <5>1
      <4>2. CASE ~(len < CHUNK)
        <5>1. written' \in 1 .. CHUNK
          BY <1>6, <4>2 DEF SendTakes
        <5> QED
          BY <3>1, <5>1
      <4> QED
        BY <4>1, <4>2
    <3>3. delivered' \in Nat
      <4>1. delivered' = delivered + written' /\ written' \in Nat
        BY <1>6, <3>2 DEF SendTakes
      <4>2. \A x, y \in Nat : x + y \in Nat
        OBVIOUS
      <4> QED
        BY <3>1, <4>1, <4>2, Zenon
    <3>4. /\ socket' = "consuming"
          /\ UNCHANGED <<queue, eventVars, len, open, exitVars, networkVars, senderVars,
                         canWrite, destroyer, given, taken, broken, timedOut>>
      BY <1>6 DEF SendTakes
    <3> QED
      BY <3>2, <3>3, <3>4
  <2>2. LenInv'
    BY <1>6 DEF SendTakes
  <2>3. ExitInv'
    BY <1>6 DEF SendTakes
  <2>4. FlowInv'
    BY <1>6 DEF SendTakes
  <2> QED
    BY <2>1, <2>2, <2>3, <2>4
<1>7. CASE SendRefuses
  <2>1. /\ canWrite' \in BOOLEAN
      /\ blocked' \in BOOLEAN
    BY <1>7 DEF SendRefuses
  <2> QED
    BY <1>7, <2>1 DEF SendRefuses
<1>8. CASE SendFails
  <2>1. TypeOK'
    BY <1>8, ShutdownTypes DEF SendFails
  <2>2. LenInv'
    BY <1>8 DEF FatalSocketShutdown, SendFails
  <2>3. ExitInv'
    BY <1>8 DEF FatalSocketShutdown, SendFails
  <2>4. FlowInv'
    BY <1>8 DEF FatalSocketShutdown, SendFails
  <2> QED
    BY <2>1, <2>2, <2>3, <2>4
<1>9. CASE Consume
  <2>1. TypeOK'
    BY <1>9 DEF Consume
  <2>2. LenInv'
    BY <1>9 DEF Consume
  <2>3. ExitInv'
    BY <1>9 DEF Consume
  <2>4. FlowInv'
    BY <1>9, packet \in Nat DEF Consume
  <2> QED
    BY <2>1, <2>2, <2>3, <2>4
<1> QED
  BY <1>1, <1>2, <1>3, <1>4, <1>5, <1>6, <1>7, <1>8, <1>9 DEF SocketStep

\* The network changes nothing that was sent.
LEMMA NetworkIInv == IInv /\ (Writable \/ Readable \/ ConnectionLost) => IInv'
<1> SUFFICES ASSUME IInv, (Writable \/ Readable \/ ConnectionLost) PROVE IInv'
  OBVIOUS
<1> USE Constants
     DEF IInv, TypeOK, LenInv, ExitInv, FlowInv, eventVars, exitVars, networkVars,
         senderVars, socketVars, historyVars, OnlyNetwork
<1>1. CASE Writable
  <2>0. /\ blocked' \in BOOLEAN
      /\ net' \subseteq {"write", "read", "close"}
    BY <1>1 DEF Writable
  <2>1. TypeOK'
    BY <1>1, <2>0 DEF Writable
  <2>2. LenInv'
    BY <1>1 DEF Writable
  <2>3. ExitInv'
    BY <1>1 DEF Writable
  <2>4. FlowInv'
    BY <1>1 DEF Writable
  <2> QED
    BY <2>1, <2>2, <2>3, <2>4
<1>2. CASE Readable
  BY <1>2 DEF Readable
<1>3. CASE ConnectionLost
  BY <1>3 DEF ConnectionLost
<1> QED
  BY <1>1, <1>2, <1>3

\* The destructor and its timeouts.
LEMMA DestroyerIInv == IInv /\ (Destroy \/ DestroyerStep \/ TimeoutStep) => IInv'
<1> SUFFICES ASSUME IInv, (Destroy \/ DestroyerStep \/ TimeoutStep) PROVE IInv'
  OBVIOUS
<1> USE Constants
     DEF IInv, TypeOK, LenInv, ExitInv, FlowInv, eventVars, exitVars, networkVars,
         senderVars, socketVars, historyVars, WakeSendLoop, EndSocketLoop, DestroyerStep,
         TimeoutStep
<1>1. CASE Destroy
  BY <1>1 DEF Destroy
<1>2. CASE EndSending
  BY <1>2 DEF EndSending
<1>3. CASE LosePatience
  <2>0. spaceEvent' \in BOOLEAN /\ timedOut' \in BOOLEAN /\ semaphore' \in Nat
    BY <1>3 DEF LosePatience
  <2>1. TypeOK'
    BY <1>3, <2>0, ShutdownTypes DEF LosePatience
  <2>2. LenInv'
    BY <1>3 DEF FatalSocketShutdown, LosePatience
  <2>3. ExitInv'
    BY <1>3 DEF FatalSocketShutdown, LosePatience
  <2>4. FlowInv'
    BY <1>3 DEF FatalSocketShutdown, LosePatience
  <2> QED
    BY <2>1, <2>2, <2>3, <2>4
<1>4. CASE JoinSender
  BY <1>4 DEF JoinSender
<1>5. CASE JoinSocket
  BY <1>5 DEF JoinSocket
<1>6. CASE TerminateSocket
  BY <1>6 DEF TerminateSocket
<1>7. CASE CloseSocket
  <2>1. len' \in Int /\ (len' \in 0 .. SIZE - 1 \/ timedOut) /\ delivered' \in Nat
    <3>1. CASE open
      <4>1. len' = 0 /\ delivered' = delivered + len /\ len \in 0 .. SIZE - 1
        BY <1>7, <3>1 DEF CloseSocket
      <4> QED
        BY <4>1
    <3>2. CASE ~open
      BY <1>7, <3>2 DEF CloseSocket
    <3> QED
      BY <3>1, <3>2
  <2>2. open' \in BOOLEAN
    BY <1>7 DEF CloseSocket
  <2>3. TypeOK'
    BY <1>7, <2>1, <2>2 DEF CloseSocket
  <2>4. LenInv' /\ ExitInv'
    BY <1>7, <2>1 DEF CloseSocket
  <2>5. FlowInv'
    BY <1>7 DEF CloseSocket
  <2> QED
    BY <2>3, <2>4, <2>5
<1> QED
  BY <1>1, <1>2, <1>3, <1>4, <1>5, <1>6, <1>7

\* Together: every step.
LEMMA NextIInv == IInv /\ [Next]_vars => IInv'
<1> SUFFICES ASSUME IInv, [Next]_vars PROVE IInv'
  OBVIOUS
<1>1. CASE \E length \in Lengths : Queue(length)
  BY <1>1, QueueIInv
<1>2. CASE SenderStep
  BY <1>2, SenderIInv
<1>3. CASE SocketStep
  BY <1>3, SocketIInv
<1>4. CASE Writable \/ Readable \/ ConnectionLost
  BY <1>4, NetworkIInv
<1>5. CASE Destroy \/ DestroyerStep \/ TimeoutStep
  BY <1>5, DestroyerIInv
<1>6. CASE UNCHANGED vars
  BY <1>6 DEF IInv, TypeOK, LenInv, ExitInv, FlowInv, vars, eventVars, exitVars,
              networkVars, senderVars, socketVars, historyVars
<1> QED
  BY <1>1, <1>2, <1>3, <1>4, <1>5, <1>6 DEF Next
-----------------------------------------------------------------------------
(***************************************************************************)
(* The theorems.                                                           *)
(***************************************************************************)

\* IInv holds of every reachable state of the three threads, the network and the
\* destructor, with packets, sends and buffers of any size.
THEOREM InductiveInvariant == Spec => []IInv
<1>1. Spec => Init /\ [][Next]_vars
  BY DEF Spec
<1> QED
  BY <1>1, InitIInv, NextIInv, PTL

\* Types, and the range of curDataBufferLen (BufferedSend, SocketLoop,
\* FatalSocketShutdown): it is that of a buffer, unless the destructor has emptied
\* it after its 50 seconds in the middle of a send.
THEOREM TypeCorrect == Spec => []TypeOK
<1>1. IInv => TypeOK
  BY DEF IInv
<1> QED
  BY <1>1, InductiveInvariant, PTL

\* ~RTMPPublisher: when both threads have ended by themselves on a network that did
\* not fail, every byte the send thread took from the queue is on the network.
THEOREM EverythingDelivered == Spec => []AllDelivered
<1>1. IInv => AllDelivered
  <2> SUFFICES ASSUME IInv, destroyer = "final", ~broken, ~timedOut
               PROVE  delivered = taken
    BY DEF AllDelivered
  <2>1. socket = "done" /\ sender = "done"
    BY DEF IInv, ExitInv
  <2>2. len = 0 /\ packet = 0 /\ written = 0 /\ taken + written = packet + len + delivered
    BY <2>1 DEF IInv, FlowInv
  <2> QED
    BY <2>2 DEF IInv, TypeOK
<1> QED
  BY <1>1, InductiveInvariant, PTL
=============================================================================
