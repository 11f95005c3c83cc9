---------------------------- MODULE RTMPShutdown ----------------------------
(***************************************************************************)
(* The send thread, the socket thread and the destructor of a connection   *)
(* (SendLoop, BufferedSend, SocketLoop, FatalSocketShutdown and            *)
(* ~RTMPPublisher in RTMPPublisher.cpp).  The send thread copies packets   *)
(* from the queue into a buffer, the socket thread writes the buffer to a  *)
(* non-blocking socket when the socket can take it, and the destructor     *)
(* asks first the one and then the other to finish and exit.  They wake    *)
(* each other through a semaphore and events that reset themselves, and    *)
(* the destructor loses patience after a while.                            *)
(*                                                                         *)
(* A packet is its length, in units of the 1000 bytes below which the      *)
(* socket thread stops writing; what is written is only counted.  The      *)
(* queue is RTMPQueue's, here without timestamps and dropping.             *)
(***************************************************************************)
EXTENDS Integers, Sequences

CONSTANTS
  SIZE,       \* dataBufferSize
  CHUNK,      \* latencyPacketSize, which is SIZE without the low latency mode
  LOW,        \* 1000 bytes
  Lengths,    \* bound: lengths of packets
  MaxPackets  \* bound: packets given to the send thread

ASSUME ShutdownAssumption ==
  /\ {SIZE, CHUNK, LOW, MaxPackets} \subseteq Nat
  /\ CHUNK \in 1 .. SIZE
  /\ Lengths \subseteq 1 .. SIZE - 1

VARIABLES
  queue,       \* queuedPackets
  semaphore,   \* hSendSempahore
  len,         \* curDataBufferLen
  open,        \* m_sb.sb_socket # -1, which is RTMP_IsConnected
  stopping,    \* bStopping
  sendExit,    \* hSendLoopExit
  socketExit,  \* hSocketLoopExit
  bufferEvent, \* hBufferEvent
  spaceEvent,  \* hBufferSpaceAvailableEvent
  net,         \* the network events recorded for hWriteEvent
  blocked,     \* the socket has refused data, and will say when it takes it again
  sender,      \* where SendLoop is
  packet,      \* the packet it has taken
  socket,      \* where SocketLoop is
  canWrite,    \* its canWrite
  written,     \* what send() has just taken, of which len does not know yet
  destroyer,   \* where ~RTMPPublisher is
  given,       \* history: how many packets were given
  taken,       \* history: the length of those the send thread has taken
  delivered,   \* history: what the socket has taken
  broken,      \* history: the connection was lost or closed
  timedOut     \* history: the destructor has lost patience

eventVars   == <<semaphore, bufferEvent, spaceEvent>>
exitVars    == <<stopping, sendExit, socketExit>>
senderVars  == <<sender, packet>>
socketVars  == <<socket, canWrite, written>>
networkVars == <<net, blocked>>
historyVars == <<given, taken, delivered, broken, timedOut>>
vars == <<queue, eventVars, len, open, exitVars, networkVars, senderVars, socketVars,
          destroyer, historyVars>>

\* The connection is up, or the destructor closed the socket while the connection
\* thread was about to finish.
Init ==
  /\ queue = <<>> /\ semaphore = 0 /\ len = 0
  /\ \/ open = TRUE /\ net = {"write"} /\ stopping = FALSE /\ destroyer = "none"
     \/ open = FALSE /\ net = {} /\ stopping = TRUE /\ destroyer = "flushing"
  /\ broken = ~open
  /\ sendExit = FALSE /\ socketExit = FALSE
  /\ bufferEvent = FALSE /\ spaceEvent = FALSE /\ blocked = FALSE
  /\ sender = "waiting" /\ packet = 0
  /\ socket = "top" /\ canWrite = FALSE /\ written = 0
  /\ given = 0 /\ taken = 0 /\ delivered = 0
  /\ timedOut = FALSE
-----------------------------------------------------------------------------
(***************************************************************************)
(* Packets for the send thread, from the encode thread (SendPacketForReal) *)
(* and from the destructor (FlushBufferedPackets): the semaphore is        *)
(* released only for what was queued before.                               *)
(***************************************************************************)

Queue(length) ==
  /\ destroyer \in {"none", "flushing"} /\ given < MaxPackets
  /\ queue' = Append(queue, length)
  /\ semaphore' = IF queue = <<>> THEN semaphore ELSE semaphore + 1
  /\ given' = given + 1
  /\ UNCHANGED <<bufferEvent, spaceEvent, len, open, exitVars, networkVars, senderVars,
                 socketVars, destroyer, taken, delivered, broken, timedOut>>
-----------------------------------------------------------------------------
(***************************************************************************)
(* The send thread: SendLoop and, from "sending" on, BufferedSend.         *)
(***************************************************************************)

OnlySender ==
  UNCHANGED <<open, exitVars, networkVars, socketVars, destroyer, historyVars>>

WakeSender ==
  /\ sender = "waiting" /\ semaphore > 0
  /\ semaphore' = semaphore - 1 /\ sender' = "taking"
  /\ OnlySender /\ UNCHANGED <<queue, bufferEvent, spaceEvent, len, packet>>

TakePacket ==
  /\ sender = "taking" /\ queue # <<>>
  /\ queue' = Tail(queue) /\ packet' = Head(queue) /\ sender' = "sending"
  /\ taken' = taken + Head(queue)
  /\ UNCHANGED <<eventVars, len, open, exitVars, networkVars, socketVars, destroyer, given,
                 delivered, broken, timedOut>>

FoundEmpty ==
  /\ sender = "taking" /\ queue = <<>>
  /\ sender' = "checking"
  /\ OnlySender /\ UNCHANGED <<queue, eventVars, len, packet>>

CheckExit ==
  /\ sender = "checking"
  /\ sender' = IF stopping /\ sendExit THEN "done" ELSE "waiting"
  /\ OnlySender /\ UNCHANGED <<queue, eventVars, len, packet>>

\* "just pretend we wrote the data to avoid blocking if the socket loop exited".
PretendToSend ==
  /\ sender = "sending" /\ ~open
  /\ sender' = "taking" /\ packet' = 0
  /\ OnlySender /\ UNCHANGED <<queue, eventVars, len>>

TestConnected ==
  /\ sender = "sending" /\ open
  /\ sender' = "copying"
  /\ OnlySender /\ UNCHANGED <<queue, eventVars, len, packet>>

\* hDataBufferMutex, which SocketLoop holds while it sends.
BufferUnlocked == socket # "consuming"

\* Mutant: the buffer may be filled beyond its size.
FitsPartly(length) == len < SIZE

Fits(length) == len + length < SIZE

WaitForSpace ==
  /\ sender = "copying" /\ BufferUnlocked /\ ~Fits(packet)
  /\ sender' = "blocked"
  /\ OnlySender /\ UNCHANGED <<queue, eventVars, len, packet>>

\* Mutant: the packet is given up after the wait.
SpaceAvailableGivesUp ==
  /\ sender = "blocked" /\ spaceEvent
  /\ spaceEvent' = FALSE /\ sender' = "taking" /\ packet' = 0
  /\ OnlySender /\ UNCHANGED <<queue, semaphore, bufferEvent, len>>

SpaceAvailable ==
  /\ sender = "blocked" /\ spaceEvent
  /\ spaceEvent' = FALSE /\ sender' = "sending"
  /\ OnlySender /\ UNCHANGED <<queue, semaphore, bufferEvent, len, packet>>

CopyPacket ==
  /\ sender = "copying" /\ BufferUnlocked /\ Fits(packet)
  /\ len' = len + packet /\ packet' = 0 /\ sender' = "signalling"
  /\ OnlySender /\ UNCHANGED <<queue, eventVars>>

SignalBuffer ==
  /\ sender = "signalling"
  /\ bufferEvent' = TRUE /\ sender' = "taking"
  /\ OnlySender /\ UNCHANGED <<queue, semaphore, spaceEvent, len, packet>>

SenderStep ==
  \/ WakeSender \/ TakePacket \/ FoundEmpty \/ CheckExit
  \/ PretendToSend \/ TestConnected
  \/ WaitForSpace \/ SpaceAvailable \/ CopyPacket \/ SignalBuffer
-----------------------------------------------------------------------------
(***************************************************************************)
(* SocketLoop, on the socket thread.                                       *)
(***************************************************************************)

OnlySocket ==
  UNCHANGED <<queue, semaphore, exitVars, blocked, senderVars, destroyer, given, taken,
            timedOut>>

TestSocketExit ==
  /\ socket = "top"
  /\ socket' = IF stopping /\ socketExit /\ len = 0 THEN "done" ELSE "waiting"
  /\ OnlySocket
  /\ UNCHANGED <<bufferEvent, spaceEvent, len, open, net, canWrite, written, delivered, broken>>

\* FatalSocketShutdown: the socket is closed and the buffer emptied, without
\* hDataBufferMutex.  Nobody who waits for space is told.
FatalSocketShutdown ==
  /\ open' = FALSE /\ len' = 0 /\ broken' = TRUE

\* hWriteEvent: the socket can be written or read, or has been closed; if it is
\* no longer there, WSAEnumNetworkEvents fails.
NetworkEvent ==
  /\ socket = "waiting" /\ net # {} /\ open /\ "close" \notin net
  /\ net' = {}
  /\ canWrite' = (canWrite \/ "write" \in net)
  /\ socket' = IF canWrite' THEN "writing" ELSE "top"
  /\ OnlySocket
  /\ UNCHANGED <<bufferEvent, spaceEvent, len, open, written, delivered, broken>>

SocketClosed ==
  /\ socket = "waiting" /\ net # {} /\ (open => "close" \in net)
  /\ net' = {} /\ socket' = "done"
  /\ IF open THEN FatalSocketShutdown ELSE UNCHANGED <<open, len, broken>>
  /\ OnlySocket
  /\ UNCHANGED <<bufferEvent, spaceEvent, canWrite, written, delivered>>

BufferEvent ==
  /\ socket = "waiting" /\ net = {} /\ bufferEvent
  /\ bufferEvent' = FALSE
  /\ socket' = IF canWrite THEN "writing" ELSE "top"
  /\ OnlySocket
  /\ UNCHANGED <<spaceEvent, len, open, net, canWrite, written, delivered, broken>>

NothingToWrite ==
  /\ socket = "writing" /\ len = 0
  /\ socket' = "top"
  /\ OnlySocket
  /\ UNCHANGED <<bufferEvent, spaceEvent, len, open, net, canWrite, written, delivered, broken>>

\* send() takes any part of what it is given, or refuses it (WSAEWOULDBLOCK), or
\* fails.
SendTakes ==
  /\ socket = "writing" /\ len > 0 /\ open
  /\ written' \in 1 .. (IF len < CHUNK THEN len ELSE CHUNK)
  /\ delivered' = delivered + written'
  /\ socket' = "consuming"
  /\ OnlySocket
  /\ UNCHANGED <<bufferEvent, spaceEvent, len, open, net, canWrite, broken>>

SendRefuses ==
  /\ socket = "writing" /\ len > 0 /\ open
  /\ canWrite' = FALSE /\ blocked' = TRUE /\ socket' = "top"
  /\ UNCHANGED <<queue, eventVars, len, open, exitVars, net, senderVars, written, destroyer,
                 historyVars>>

SendFails ==
  /\ socket = "writing" /\ len # 0 /\ (broken \/ ~open)
  /\ FatalSocketShutdown
  /\ socket' = "done"
  /\ OnlySocket
  /\ UNCHANGED <<bufferEvent, spaceEvent, net, canWrite, written, delivered>>

\* "finish writing for now": the rest is left to the next event.
WroteEnough(left) == left <= LOW

\* The data that was taken leaves the buffer.  hDataBufferMutex has been held
\* since send(), but FatalSocketShutdown does not take it.
Consume ==
  /\ socket = "consuming"
  /\ len' = len - written /\ written' = 0 /\ spaceEvent' = TRUE
  /\ socket' = IF WroteEnough(len') THEN "top" ELSE "writing"
  /\ OnlySocket
  /\ UNCHANGED <<bufferEvent, open, net, canWrite, delivered, broken>>

SocketStep ==
  \/ TestSocketExit \/ NetworkEvent \/ SocketClosed \/ BufferEvent
  \/ NothingToWrite \/ SendTakes \/ SendRefuses \/ SendFails \/ Consume
-----------------------------------------------------------------------------
(***************************************************************************)
(* The network.                                                            *)
(***************************************************************************)

OnlyNetwork ==
  UNCHANGED <<queue, eventVars, len, open, exitVars, senderVars, socketVars, destroyer,
              given, taken, delivered, timedOut>>

Writable ==
  /\ open /\ blocked
  /\ blocked' = FALSE /\ net' = net \cup {"write"}
  /\ OnlyNetwork /\ UNCHANGED broken

\* The server sends something: it is read and thrown away.
Readable ==
  /\ open /\ net' = net \cup {"read"}
  /\ OnlyNetwork /\ UNCHANGED <<blocked, broken>>

ConnectionLost ==
  /\ open /\ ~broken
  /\ broken' = TRUE /\ net' = net \cup {"close"}
  /\ OnlyNetwork /\ UNCHANGED blocked
-----------------------------------------------------------------------------
(***************************************************************************)
(* ~RTMPPublisher.                                                         *)
(***************************************************************************)

Destroy ==
  /\ destroyer = "none"
  /\ stopping' = TRUE /\ destroyer' = "flushing"
  /\ UNCHANGED <<queue, eventVars, len, open, sendExit, socketExit, networkVars, senderVars,
                 socketVars, historyVars>>

WakeSendLoop == semaphore' = semaphore + 1 /\ spaceEvent' = TRUE

EndSending ==
  /\ destroyer = "flushing"
  /\ sendExit' = TRUE /\ destroyer' = "joiningSender"
  /\ WakeSendLoop
  /\ UNCHANGED <<queue, bufferEvent, len, open, stopping, socketExit, networkVars, senderVars,
                 socketVars, historyVars>>

\* 50 seconds have passed: "Network appears stalled".
LosePatience ==
  /\ destroyer = "joiningSender" /\ sender # "done"
  /\ destroyer' = "killingSender" /\ timedOut' = TRUE
  /\ FatalSocketShutdown
  /\ WakeSendLoop
  /\ UNCHANGED <<queue, bufferEvent, exitVars, networkVars, senderVars, socketVars, given,
                 taken, delivered>>

\* Mutant: the socket thread is not woken.
EndSocketLoopAsleep == socketExit' = TRUE /\ UNCHANGED bufferEvent

\* "mark the socket loop to shut down after the buffer is empty", "wake it up in
\* case it already is empty".
EndSocketLoop == socketExit' = TRUE /\ bufferEvent' = TRUE

\* OSTerminateThread: the send thread has exited, or is terminated 10 s later.
JoinSender ==
  /\ \/ destroyer \in {"joiningSender", "killingSender"} /\ sender = "done" /\ UNCHANGED sender
     \/ destroyer = "killingSender" /\ sender' = "done"
  /\ destroyer' = "joiningSocket"
  /\ EndSocketLoop
  /\ UNCHANGED <<queue, semaphore, spaceEvent, len, open, stopping, sendExit, networkVars,
                 packet, socketVars, historyVars>>

JoinSocket ==
  /\ destroyer = "joiningSocket" /\ socket = "done"
  /\ destroyer' = "final"
  /\ UNCHANGED <<queue, eventVars, len, open, exitVars, networkVars, senderVars, socketVars,
                 historyVars>>

\* 60 seconds have passed.  A thread that is terminated while it holds
\* hDataBufferMutex never leaves it.
TerminateSocket ==
  /\ destroyer = "joiningSocket" /\ socket # "done"
  /\ socket' = (IF socket = "consuming" THEN "locked" ELSE "done")
  /\ destroyer' = "final" /\ timedOut' = TRUE
  /\ UNCHANGED <<queue, eventVars, len, open, exitVars, networkVars, senderVars, canWrite,
                 written, given, taken, delivered, broken>>

\* FlushDataBuffer, if the connection is still there, and RTMP_Close.
CloseSocket ==
  /\ destroyer = "final" /\ (open => socket # "locked")
  /\ destroyer' = "done" /\ open' = FALSE
  /\ IF open
     THEN len' = 0 /\ delivered' = delivered + len
     ELSE UNCHANGED <<len, delivered>>
  /\ UNCHANGED <<queue, eventVars, exitVars, networkVars, senderVars, socketVars, given,
                 taken, broken, timedOut>>

DestroyerStep == EndSending \/ JoinSender \/ JoinSocket \/ CloseSocket
TimeoutStep   == LosePatience \/ TerminateSocket

Next ==
  \/ \E length \in Lengths : Queue(length)
  \/ SenderStep
  \/ SocketStep
  \/ Writable \/ Readable \/ ConnectionLost
  \/ Destroy
  \/ DestroyerStep
  \/ TimeoutStep

Fairness ==
  /\ WF_vars(SenderStep) /\ WF_vars(SocketStep) /\ WF_vars(DestroyerStep)
  /\ WF_vars(Writable) /\ SF_vars(SendTakes)

Spec == Init /\ [][Next]_vars /\ Fairness
-----------------------------------------------------------------------------
(***************************************************************************)
(* Properties.                                                             *)
(***************************************************************************)

\* The variables have their types; and the length of the buffer stays in its range,
\* although FatalSocketShutdown sets it without the mutex, unless the destructor
\* did so after its 50 seconds.
TypeOK ==
  /\ len \in Int /\ (len \in 0 .. SIZE - 1 \/ timedOut)
  /\ queue \in Seq(Lengths) /\ semaphore \in Nat
  /\ open \in BOOLEAN /\ stopping \in BOOLEAN /\ sendExit \in BOOLEAN
  /\ socketExit \in BOOLEAN /\ bufferEvent \in BOOLEAN /\ spaceEvent \in BOOLEAN
  /\ blocked \in BOOLEAN /\ canWrite \in BOOLEAN
  /\ broken \in BOOLEAN /\ timedOut \in BOOLEAN
  /\ net \subseteq {"write", "read", "close"}
  /\ sender \in {"waiting", "taking", "checking", "sending", "copying", "blocked",
                 "signalling", "done"}
  /\ packet \in {0} \cup Lengths
  /\ socket \in {"top", "waiting", "writing", "consuming", "locked", "done"}
  /\ written \in 0 .. CHUNK
  /\ destroyer \in {"none", "flushing", "joiningSender", "killingSender", "joiningSocket",
                    "final", "done"}
  /\ given \in 0 .. MaxPackets /\ taken \in Nat /\ delivered \in Nat

\* "at this point nothing should be in the buffer" (~RTMPPublisher): when both
\* threads have ended, the network has not failed and no timeout was needed, the
\* socket has taken every byte of every packet that the send thread has taken from
\* the queue.  (What it may leave in the queue is RTMPQueue's NothingLeftBehind.)
AllDelivered ==
  destroyer = "final" /\ ~broken /\ ~timedOut => delivered = taken

\* The send thread waits for space in a buffer that nobody writes any more:
\* FatalSocketShutdown does not set hBufferSpaceAvailableEvent.
SenderStuck == sender = "blocked" /\ ~spaceEvent /\ ~open

\* The socket thread has written all but the last LOW of the buffer, the socket
\* would take the rest, and no event is left that would make it try: the
\* destructor's hBufferEvent was the last.
SocketStalled ==
  /\ destroyer = "joiningSocket" /\ socket = "waiting"
  /\ open /\ canWrite /\ 0 < len /\ len <= LOW
  /\ ~bufferEvent /\ net = {}

\* ~RTMPPublisher: the threads are woken up and exit by themselves, on a network
\* that takes data, in whatever portions, and on one that fails.  The destructor
\* needs its timeouts in these two cases only.
GracefulShutdown ==
  destroyer = "flushing" ~>
    destroyer = "done" \/ timedOut \/ SenderStuck \/ SocketStalled

\* "mark the socket loop to shut down after the buffer is empty" (~RTMPPublisher):
\* on a network that takes data, it does.
SocketLoopEnds == destroyer = "joiningSocket" ~> socket = "done" \/ broken \/ timedOut
=============================================================================
