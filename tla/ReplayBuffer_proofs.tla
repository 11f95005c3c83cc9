------------------------ MODULE ReplayBuffer_proofs -------------------------
(***************************************************************************)
(* Proofs about ReplayBuffer, for any length of the buffer, any streams,   *)
(* those of a buffer that joins a running session too, and any number of   *)
(* requests.                                                               *)
(***************************************************************************)
EXTENDS ReplayBuffer, SequenceTheorems, FiniteSetTheorems, WellFoundedInduction, TLAPS

-----------------------------------------------------------------------------
(***************************************************************************)
(* The inductive invariant.                                                *)
(***************************************************************************)

\* The packets of a list are those of the stream, one after the other.
Contiguous(list) == \A i \in 1 .. Len(list) : list[i].time = list[1].time + i - 1

\* The encode thread has a packet that belongs to the recording, and the last packet
\* that the buffer, and the recording, have been given.
ForFile  == encode \in {"throttle", "drain", "append", "write"}
InBuffer == IF encode = "idle" THEN packet.time ELSE packet.time - 1
InFile   == IF ForFile THEN packet.time - 1 ELSE packet.time

HistoryInv ==
  /\ keyframes \in Seq(Nat) /\ recorded \in Seq(Nat) /\ recordedAt \in Nat /\ late \subseteq Nat

\* The encode thread's packet is the stream's, and it goes where it can go.
EncodeInv ==
  /\ packet.time > 0 => packet.kind = stream[packet.time]
  /\ encode # "idle" => packet.time > 0
  /\ encode = "replay" => buffer = "on"
  /\ encode \in {"throttle", "drain", "append"} => file = "open" /\ saveThread
  /\ encode = "write" => file = "open" /\ ~saveThread

\* The last key frame that the buffer knows of.  Before the first one nothing is
\* dropped, and the packets begin with the stream's first.
LastKey == IF keyframes = <<>> THEN 1 ELSE Last(keyframes)

\* The buffer has every packet from some packet on, and enough of them before the
\* last key frame that it knows of.
BufferInv ==
  /\ buffer = "gone" => packets = <<>> /\ keyframes = <<>> /\ saveTimes = <<>>
  /\ buffer = "on" => /\ packets = <<>> <=> InBuffer = 0
                      /\ packets # <<>> => Last(packets).time = InBuffer
  /\ Contiguous(packets)
  /\ packets # <<>> => AtLeastSeconds(packets[1].time, LastKey)
  /\ \A i \in 1 .. Len(keyframes) : \E j \in 1 .. Len(packets) :
       packets[j] = [time |-> keyframes[i], kind |-> "key"]
  /\ \A i, j \in 1 .. Len(keyframes) : i < j => keyframes[i] < keyframes[j]

\* The requests are in order and later than the last key frame, or at it.
RequestInv ==
  /\ \A i, j \in 1 .. Len(saveTimes) : i <= j => saveTimes[i] <= saveTimes[j]
  /\ saveTimes # <<>> => packets # <<>>
  /\ \A i \in 1 .. Len(saveTimes) : saveTimes[i] >= LastKey

\* What the recording has when its thread has written what it holds.
Out == IF thread = "write" THEN Append(recorded, holding.time) ELSE recorded

\* The recording and the thread's list continue each other, up to what the encode
\* thread has given; what the thread has left behind was appended too late for it.
FileInv ==
  /\ file = "none" => /\ thread = "off" /\ recorded = <<>> /\ buffered = <<>>
                      /\ ~saveThread /\ ~stopEvent
  /\ thread = "off" => file = "none"
  /\ file = "open" => ~stopEvent
  /\ file = "closed" => thread = "exited"
  /\ \A i \in 1 .. Len(Out) - 1 :
       /\ Out[i] < Out[i + 1]
       /\ (Out[i] + 1) .. (Out[i + 1] - 1) \subseteq late
  /\ Contiguous(buffered)
  /\ Out # <<>> => /\ AtLeastSeconds(Out[1], recordedAt)
                   /\ buffered # <<>> => buffered[1].time = Last(Out) + 1
  /\ Out = <<>> /\ file # "none" => /\ buffered # <<>>
                                    /\ AtLeastSeconds(buffered[1].time, recordedAt)
  /\ file = "open" => IF buffered # <<>> THEN Last(buffered).time = InFile ELSE Last(Out) = InFile
  /\ file = "open" /\ ~saveThread => buffered = <<>> /\ thread = "exited"
  /\ thread \in {"leaving", "exited"} /\ ~stopEvent =>
       /\ recorded # <<>>
       /\ \A i \in 1 .. Len(buffered) : buffered[i].time \in late

IInv ==
  /\ TypeOK /\ HistoryInv /\ EncodeInv /\ BufferInv /\ RequestInv /\ SavesCover /\ FileInv
-----------------------------------------------------------------------------
(***************************************************************************)
(* Sequences.                                                              *)
(***************************************************************************)

\* The constants, the stream and its packets.
LEMMA ConstantFacts ==
  /\ Seconds \in Nat /\ Seconds > 0 /\ Ahead \in Nat
  /\ \A s \in Streams : s \in Seq(Kinds) /\ Len(s) \in Nat /\ Len(s) > 0
<1>1. \A s \in Streams : s \in Seq(Kinds) /\ s # <<>>
  BY ReplayBufferAssumption
<1>2. \A s \in Streams : Len(s) \in Nat /\ Len(s) > 0
  BY <1>1
<1> QED
  BY <1>1, <1>2, ReplayBufferAssumption

LEMMA StreamFacts ==
  ASSUME stream \in Streams
  PROVE  /\ Len(stream) \in Nat /\ Len(stream) > 0 /\ DOMAIN stream = 1 .. Len(stream)
         /\ \A n \in 1 .. Len(stream) : stream[n] \in Kinds
         /\ \A p \in Packet : /\ p.time \in Nat /\ p.time \in 1 .. Len(stream) /\ p.kind \in Kinds
                              /\ p = [time |-> p.time, kind |-> p.kind]
         /\ \A p \in [time : 0 .. Len(stream), kind : Kinds] :
              p.time \in Nat /\ p.time <= Len(stream) /\ (p.time > 0 => p \in Packet)
<1>1. stream \in Seq(Kinds) /\ Len(stream) \in Nat /\ Len(stream) > 0
  BY ConstantFacts
<1>2. DOMAIN stream = 1 .. Len(stream) /\ \A n \in 1 .. Len(stream) : stream[n] \in Kinds
  BY <1>1, LenProperties, ElementOfSeq
<1>3. Packet = [time : 1 .. Len(stream), kind : Kinds]
  BY <1>2 DEF Packet
<1>4. \A p \in Packet : /\ p.time \in Nat /\ p.time \in 1 .. Len(stream) /\ p.kind \in Kinds
                        /\ p = [time |-> p.time, kind |-> p.kind]
  BY <1>1, <1>3
<1>5. \A p \in [time : 0 .. Len(stream), kind : Kinds] :
        p.time \in Nat /\ p.time <= Len(stream) /\ (p.time > 0 => p \in Packet)
  BY <1>1, <1>3
<1> QED
  BY <1>1, <1>2, <1>4, <1>5

\* A set of natural numbers has a least element.
LEMMA SmallestExists ==
  ASSUME NEW T \in SUBSET Nat, T # {}
  PROVE  \E m \in T : \A n \in T : m <= n
<1> DEFINE R == OpToRel(<, Nat)
<1>1. IsWellFoundedOn(R, Nat)
  BY NatLessThanWellFounded, Zenon
<1>2. \A m, n \in Nat : m < n => <<m, n>> \in R
  BY Zenon DEF OpToRel
<1> HIDE DEF R
<1>3. PICK m \in T : \A n \in T : <<n, m>> \notin R
  BY <1>1, WFMin
<1>4. \A n \in T : ~(n < m)
  BY <1>2, <1>3
<1> QED
  BY <1>4

\* The ends of a sequence.
LEMMA Ends ==
  ASSUME NEW S, NEW q \in Seq(S)
  PROVE  /\ Len(q) \in Nat /\ DOMAIN q = 1 .. Len(q) /\ (q = <<>> <=> Len(q) = 0)
         /\ \A n \in 1 .. Len(q) : q[n] \in S
         /\ q # <<>> => /\ Len(q) > 0 /\ 1 \in 1 .. Len(q) /\ Len(q) \in 1 .. Len(q)
                        /\ Head(q) = q[1] /\ Last(q) = q[Len(q)]
                        /\ Head(q) \in S /\ Last(q) \in S
                        /\ Tail(q) \in Seq(S) /\ Len(Tail(q)) = Len(q) - 1
                        /\ \A n \in 1 .. Len(q) - 1 : Tail(q)[n] = q[n + 1]
<1>1. Len(q) \in Nat /\ DOMAIN q = 1 .. Len(q) /\ \A n \in 1 .. Len(q) : q[n] \in S
  BY LenProperties, ElementOfSeq
<1>2. q = <<>> <=> Len(q) = 0
  BY EmptySeq
<1>3. ASSUME q # <<>>
      PROVE  /\ Head(q) = q[1] /\ Last(q) = q[Len(q)]
             /\ Tail(q) \in Seq(S) /\ Len(Tail(q)) = Len(q) - 1
             /\ \A n \in 1 .. Len(q) - 1 : Tail(q)[n] = q[n + 1]
  BY <1>3, HeadTailProperties DEF Last
<1>4. q # <<>> => Len(q) > 0 /\ 1 \in 1 .. Len(q) /\ Len(q) \in 1 .. Len(q)
  BY <1>1, <1>2
<1> QED
  BY <1>1, <1>2, <1>3, <1>4

\* Appending to a sequence.
LEMMA Appended ==
  ASSUME NEW S, NEW q \in Seq(S), NEW e \in S
  PROVE  /\ Append(q, e) \in Seq(S) /\ Append(q, e) # <<>>
         /\ Len(Append(q, e)) = Len(q) + 1
         /\ \A n \in 1 .. Len(q) : Append(q, e)[n] = q[n]
         /\ Append(q, e)[Len(q) + 1] = e
         /\ Last(Append(q, e)) = e
         /\ Append(q, e)[1] = IF q = <<>> THEN e ELSE q[1]
  BY DEF Last

\* What is left of a sequence, from its k-th element on.
LEMMA Suffix ==
  ASSUME NEW S, NEW q \in Seq(S), NEW k \in 1 .. Len(q) + 1
  PROVE  /\ SubSeq(q, k, Len(q)) \in Seq(S)
         /\ Len(SubSeq(q, k, Len(q))) = Len(q) - k + 1
         /\ \A n \in 1 .. Len(q) - k + 1 : SubSeq(q, k, Len(q))[n] = q[n + k - 1]
         /\ k <= Len(q) => /\ SubSeq(q, k, Len(q)) # <<>>
                           /\ Last(SubSeq(q, k, Len(q))) = Last(q)
<1> DEFINE r == SubSeq(q, k, Len(q))
           L == Len(q)
<1>1. L \in Nat /\ k \in Nat /\ k >= 1 /\ k <= L + 1 /\ \A n \in 1 .. L : q[n] \in S
  BY LenProperties, ElementOfSeq
<1>2. \A n \in k .. L : q[n] \in S
  BY <1>1
<1>3. /\ r \in Seq(S) /\ Len(r) = (IF k <= L THEN L - k + 1 ELSE 0)
      /\ \A n \in 1 .. L - k + 1 : r[n] = q[k + n - 1]
  BY <1>1, <1>2, SubSeqProperties
<1> HIDE DEF r
<1>4. Len(r) = L - k + 1
  <2> HIDE DEF L
  <2> QED
    BY <1>1, <1>3
<1>5. \A n \in 1 .. L - k + 1 : r[n] = q[n + k - 1]
  <2> TAKE n \in 1 .. L - k + 1
  <2>1. k + n - 1 = n + k - 1
    BY <1>1
  <2> QED
    BY <1>3, <2>1
<1>6. ASSUME k <= L PROVE r # <<>> /\ Last(r) = Last(q)
  <2>1. Len(r) \in 1 .. L - k + 1 /\ Len(r) + k - 1 = L /\ Len(r) # 0
    <3> HIDE DEF L
    <3> QED
      BY <1>1, <1>4, <1>6
  <2>2. r # <<>>
    BY <2>1
  <2>3. r[Len(r)] = q[L]
    BY <1>5, <2>1
  <2> QED
    BY <2>2, <2>3 DEF Last
<1> QED
  BY <1>3, <1>4, <1>5, <1>6 DEF r

\* The first k elements of a sequence.
LEMMA Prefix ==
  ASSUME NEW S, NEW q \in Seq(S), NEW k \in 0 .. Len(q)
  PROVE  /\ SubSeq(q, 1, k) \in Seq(S)
         /\ Len(SubSeq(q, 1, k)) = k
         /\ \A n \in 1 .. k : SubSeq(q, 1, k)[n] = q[n]
         /\ k > 0 => SubSeq(q, 1, k) # <<>> /\ Last(SubSeq(q, 1, k)) = q[k]
<1> DEFINE r == SubSeq(q, 1, k)
<1>1. Len(q) \in Nat /\ k \in Nat /\ k <= Len(q) /\ \A n \in 1 .. Len(q) : q[n] \in S
  BY LenProperties, ElementOfSeq
<1>2. \A n \in 1 .. k : q[n] \in S
  BY <1>1
<1>3. /\ r \in Seq(S) /\ Len(r) = (IF 1 <= k THEN k - 1 + 1 ELSE 0)
      /\ \A n \in 1 .. k - 1 + 1 : r[n] = q[1 + n - 1]
  BY <1>1, <1>2, SubSeqProperties
<1> HIDE DEF r
<1>4. Len(r) = k
  BY <1>1, <1>3
<1>5. \A n \in 1 .. k : r[n] = q[n]
  <2> TAKE n \in 1 .. k
  <2>1. n \in 1 .. k - 1 + 1 /\ 1 + n - 1 = n
    BY <1>1
  <2> QED
    BY <1>3, <2>1
<1>6. ASSUME k > 0 PROVE r # <<>> /\ Last(r) = q[k]
  <2>1. k \in 1 .. k /\ r # <<>>
    BY <1>1, <1>4, <1>6
  <2> QED
    BY <1>4, <1>5, <2>1 DEF Last
<1> QED
  BY <1>3, <1>4, <1>5, <1>6 DEF r

\* In a contiguous list, times and positions go together.
LEMMA ContiguousProperties ==
  ASSUME stream \in Streams, NEW list \in Seq(Packet), Contiguous(list), list # <<>>
  PROVE  /\ Last(list).time = list[1].time + Len(list) - 1
         /\ \A t \in list[1].time .. Last(list).time : \E n \in 1 .. Len(list) : list[n].time = t
         /\ \A n \in 1 .. Len(list) : list[1].time <= list[n].time /\ list[n].time <= Last(list).time
         /\ \A m, n \in 1 .. Len(list) : list[m].time = list[n].time => m = n
<1>1. /\ Len(list) \in Nat /\ Len(list) > 0 /\ 1 \in 1 .. Len(list) /\ Len(list) \in 1 .. Len(list)
      /\ Last(list) = list[Len(list)]
      /\ \A n \in 1 .. Len(list) : list[n] \in Packet
  BY Ends
<1>2. list[1].time \in Nat
  BY <1>1, StreamFacts
<1>3. \A n \in 1 .. Len(list) : list[n].time = list[1].time + n - 1
  BY DEF Contiguous
<1> DEFINE a == list[1].time
           L == Len(list)
           z == Last(list).time
<1>4. z = a + L - 1
  BY <1>1, <1>3
<1> HIDE DEF a, L, z
<1>5. a \in Nat /\ L \in Nat /\ L > 0
  BY <1>1, <1>2 DEF a, L
<1>6. ASSUME NEW t \in a .. z PROVE \E n \in 1 .. L : list[n].time = t
  <2>1. t - a + 1 \in 1 .. L /\ a + (t - a + 1) - 1 = t
    BY <1>4, <1>5
  <2> QED
    BY <1>3, <2>1 DEF a, L
<1>7. \A n \in 1 .. L : list[n].time = a + n - 1
  BY <1>3 DEF a, L
<1>8. \A n \in 1 .. L : a <= list[n].time /\ list[n].time <= z
  BY <1>4, <1>5, <1>7
<1>9. \A m, n \in 1 .. L : list[m].time = list[n].time => m = n
  BY <1>5, <1>7
<1> QED
  BY <1>4, <1>6, <1>8, <1>9 DEF a, L, z

\* A contiguous list and the packet after its last.
LEMMA ContiguousAppend ==
  ASSUME stream \in Streams, NEW list \in Seq(Packet), Contiguous(list), NEW p \in Packet,
         list # <<>> => p.time = Last(list).time + 1
  PROVE  Contiguous(Append(list, p))
<1> DEFINE w == Append(list, p)
<1>1. /\ Len(list) \in Nat /\ Len(w) = Len(list) + 1
      /\ \A n \in 1 .. Len(list) : w[n] = list[n]
      /\ w[Len(list) + 1] = p
      /\ w[1] = IF list = <<>> THEN p ELSE list[1]
      /\ list = <<>> => Len(list) = 0
  BY Ends, Appended
<1>2. p.time \in Nat
  BY StreamFacts
<1> HIDE DEF w
<1>3. ASSUME NEW n \in 1 .. Len(w) PROVE w[n].time = w[1].time + n - 1
  <2>1. CASE n = Len(list) + 1
    <3>1. CASE list = <<>>
      BY <1>1, <1>2, <2>1, <3>1
    <3>2. CASE list # <<>>
      <4>1. Last(list).time = list[1].time + Len(list) - 1 /\ list[1].time \in Nat
        BY <3>2, ContiguousProperties, Ends, StreamFacts
      <4>2. w[n] = p /\ w[1] = list[1] /\ p.time = Last(list).time + 1
        BY <1>1, <2>1, <3>2
      <4> QED
        BY <1>1, <2>1, <4>1, <4>2
    <3> QED
      BY <3>1, <3>2
  <2>2. CASE n # Len(list) + 1
    <3>1. n \in 1 .. Len(list) /\ list # <<>>
      BY <1>1, <2>2
    <3>2. list[n].time = list[1].time + n - 1
      BY <3>1 DEF Contiguous
    <3> QED
      BY <1>1, <3>1, <3>2
  <2> QED
    BY <2>1, <2>2
<1> QED
  BY <1>3 DEF Contiguous, w

\* What is left of a contiguous list is contiguous.
LEMMA ContiguousSuffix ==
  ASSUME stream \in Streams, NEW list \in Seq(Packet), Contiguous(list),
         NEW rest \in Seq(Packet), NEW k \in Nat, Len(list) = Len(rest) + k,
         \A n \in 1 .. Len(rest) : rest[n] = list[n + k]
  PROVE  Contiguous(rest)
<1>1. Len(rest) \in Nat /\ Len(list) \in Nat /\ \A n \in 1 .. Len(list) : list[n] \in Packet
  BY Ends
<1>2. ASSUME NEW n \in 1 .. Len(rest) PROVE rest[n].time = rest[1].time + n - 1
  <2>1. n + k \in 1 .. Len(list) /\ 1 + k \in 1 .. Len(list) /\ 1 \in 1 .. Len(rest) /\ 1 \in 1 .. Len(list)
    BY <1>1
  <2>2. list[n + k].time = list[1].time + (n + k) - 1 /\ list[1 + k].time = list[1].time + (1 + k) - 1
    BY <2>1 DEF Contiguous
  <2>3. rest[n] = list[n + k] /\ rest[1] = list[1 + k]
    BY <2>1
  <2>4. list[1].time \in Nat
    BY <1>1, <2>1, StreamFacts
  <2> DEFINE a == list[1].time
  <2>5. rest[n].time = a + (n + k) - 1 /\ rest[1].time = a + (1 + k) - 1
    BY <2>2, <2>3
  <2> HIDE DEF a
  <2>6. a \in Nat /\ n \in Nat
    BY <1>1, <2>4 DEF a
  <2> QED
    BY <2>5, <2>6
<1> QED
  BY <1>2 DEF Contiguous
-----------------------------------------------------------------------------
(***************************************************************************)
(* Saving and trimming.                                                    *)
(***************************************************************************)

\* A set of positions that has every position before one of its own is as many
\* positions from the first on.
LEMMA DownwardClosed ==
  ASSUME NEW m \in Int, NEW D \in SUBSET (1 .. m), \A x \in D, y \in 1 .. m : y < x => y \in D
  PROVE  Cardinality(D) \in Nat /\ D = 1 .. Cardinality(D)
<1> DEFINE T == {n \in Nat : n >= 1 /\ n \notin D}
<1>1. T \in SUBSET Nat /\ T # {}
  <2>1. CASE m \in Nat
    <3>1. m + 1 \in T
      BY <2>1
    <3> QED
      BY <3>1
  <2>2. CASE m \notin Nat
    <3>1. 1 \in T
      BY <2>2
    <3> QED
      BY <3>1
  <2> QED
    BY <2>1, <2>2
<1>2. PICK e \in T : \A n \in T : e <= n
  <2> HIDE DEF T
  <2> QED
    BY <1>1, SmallestExists
<1>3. e \in Nat /\ e >= 1 /\ e \notin D
  BY <1>2
<1>4. D = 1 .. e - 1
  <2>1. ASSUME NEW x \in D PROVE x \in 1 .. e - 1
    <3>1. x \in Nat /\ x >= 1 /\ x <= m /\ x # e
      BY <1>3
    <3>2. e < x => e \in 1 .. m
      BY <1>3, <3>1
    <3> QED
      BY <1>3, <3>1, <3>2
  <2>2. ASSUME NEW x \in 1 .. e - 1 PROVE x \in D
    <3>1. x \in Nat /\ x >= 1 /\ ~(e <= x)
      BY <1>3
    <3>2. x \notin T
      <4> HIDE DEF T
      <4> QED
        BY <1>2, <3>1
    <3> QED
      BY <3>1, <3>2
  <2> QED
    BY <2>1, <2>2
<1>5. Cardinality(1 .. e - 1) = e - 1
  <2>1. 1 \in Int /\ e - 1 \in Int
    BY <1>3
  <2>2. Cardinality(1 .. e - 1) = IF 1 > e - 1 THEN 0 ELSE (e - 1) - 1 + 1
    BY <2>1, FS_Interval
  <2> QED
    BY <1>3, <2>2
<1> QED
  BY <1>3, <1>4, <1>5

\* Fewer key frames are dropped than there are; the one that is first then is as old
\* as the buffer is long.
LEMMA DroppedProperties ==
  ASSUME NEW frames \in Seq(Nat), frames # <<>>
  PROVE  /\ DroppedKeyframes(frames) \in Nat
         /\ DroppedKeyframes(frames) + 1 \in 1 .. Len(frames)
         /\ DroppedKeyframes(frames) # 0 =>
              frames[DroppedKeyframes(frames) + 1] <= Last(frames) - Seconds
<1> DEFINE m == Len(frames) - 2
           D == {n \in 1 .. m : \A k \in 1 .. n + 1 : Last(frames) - frames[k] >= Seconds}
           d == Cardinality(D)
<1>1. Len(frames) \in Nat /\ Len(frames) > 0 /\ m \in Int /\ Last(frames) \in Nat
      /\ \A n \in 1 .. Len(frames) : frames[n] \in Nat
  BY Ends
<1>2. D \in SUBSET (1 .. m)
  OBVIOUS
<1>3. \A x \in D, y \in 1 .. m : y < x => y \in D
  <2> TAKE x \in D, y \in 1 .. m
  <2> HAVE y < x
  <2>1. \A k \in 1 .. y + 1 : k \in 1 .. x + 1
    BY <1>1
  <2> QED
    BY <2>1
<1>4. d \in Nat /\ D = 1 .. d
  <2> HIDE DEF D
  <2> QED
    BY <1>1, <1>2, <1>3, DownwardClosed
<1>5. DroppedKeyframes(frames) = d
  BY DEF DroppedKeyframes
<1> HIDE DEF d
<1>6. d # 0 => d \in D
  <2> HIDE DEF D
  <2> QED
    BY <1>4
<1>7. d # 0 => d \in 1 .. m /\ \A k \in 1 .. d + 1 : Last(frames) - frames[k] >= Seconds
  BY <1>6
<1>8. d + 1 \in 1 .. Len(frames)
  BY <1>1, <1>4, <1>7
<1>9. d # 0 => frames[d + 1] <= Last(frames) - Seconds
  <2>1. d # 0 => Last(frames) - frames[d + 1] >= Seconds
    BY <1>4, <1>7
  <2>2. frames[d + 1] \in Nat
    BY <1>1, <1>8
  <2> QED
    BY <1>1, <2>1, <2>2, ConstantFacts
<1> QED
  BY <1>4, <1>5, <1>8, <1>9

\* The list is trimmed from the front, up to the packet that the key frame is; that
\* and everything after it stays.
LEMMA TrimProperties ==
  ASSUME stream \in Streams, NEW list \in Seq(Packet), Contiguous(list),
         NEW frames, NEW d, \E n \in 1 .. Len(list) : list[n].time = frames[d + 1]
  PROVE  /\ Trim(list, frames, d) \in Seq(Packet) /\ Trim(list, frames, d) # <<>>
         /\ Contiguous(Trim(list, frames, d))
         /\ Trim(list, frames, d)[1].time = frames[d + 1]
         /\ Last(Trim(list, frames, d)) = Last(list)
         /\ \A j \in 1 .. Len(list) : list[j].time >= frames[d + 1] =>
              \E n \in 1 .. Len(Trim(list, frames, d)) : Trim(list, frames, d)[n] = list[j]
<1> DEFINE I == {i \in 1 .. Len(list) : list[i].time = frames[d + 1]}
           r == Trim(list, frames, d)
<1>1. Len(list) \in Nat /\ \A n \in 1 .. Len(list) : list[n] \in Packet
  BY Ends
<1>2. I \in SUBSET Nat /\ I # {}
  BY <1>1
<1>3. Min(I) \in I
  BY <1>2, SmallestExists DEF Min
<1>4. r = SubSeq(list, Min(I), Len(list))
  BY <1>2 DEF Trim, SelectInSeq
<1>5. PICK k \in 1 .. Len(list) : list[k].time = frames[d + 1] /\ r = SubSeq(list, k, Len(list))
  BY <1>3, <1>4
<1> HIDE DEF I, r
<1>6. k \in 1 .. Len(list) + 1 /\ k <= Len(list) /\ k \in Nat /\ k - 1 \in Nat
  BY <1>1
<1>7. /\ r \in Seq(Packet) /\ Len(r) = Len(list) - k + 1
      /\ \A n \in 1 .. Len(list) - k + 1 : r[n] = list[n + k - 1]
      /\ r # <<>> /\ Last(r) = Last(list)
  BY <1>5, <1>6, Suffix
<1>8. \A n \in 1 .. Len(r) : r[n] = list[n + (k - 1)]
  <2> TAKE n \in 1 .. Len(r)
  <2>1. n \in 1 .. Len(list) - k + 1 /\ n + k - 1 = n + (k - 1)
    BY <1>1, <1>6, <1>7
  <2> QED
    BY <1>7, <2>1
<1>9. Len(list) = Len(r) + (k - 1)
  BY <1>1, <1>6, <1>7
<1>10. Contiguous(r)
  BY <1>6, <1>7, <1>8, <1>9, ContiguousSuffix
<1>11. r[1].time = frames[d + 1]
  <2>1. 1 \in 1 .. Len(r) /\ 1 + (k - 1) = k
    BY <1>1, <1>6, <1>7
  <2> QED
    BY <1>5, <1>8, <2>1
<1>12. ASSUME NEW j \in 1 .. Len(list), list[j].time >= frames[d + 1]
       PROVE  \E n \in 1 .. Len(r) : r[n] = list[j]
  <2>1. list[j].time = list[1].time + j - 1 /\ list[k].time = list[1].time + k - 1
    BY DEF Contiguous
  <2>2. list[1].time \in Nat
    BY <1>1, StreamFacts
  <2>3. j >= k
    <3> DEFINE a == list[1].time
    <3>1. a + j - 1 >= a + k - 1 /\ a \in Nat
      BY <1>5, <1>12, <2>1, <2>2
    <3> HIDE DEF a
    <3> QED
      BY <1>6, <3>1
  <2>4. j - (k - 1) \in 1 .. Len(r) /\ (j - (k - 1)) + (k - 1) = j
    BY <1>1, <1>6, <1>7, <2>3
  <2> QED
    BY <1>8, <2>4
<1> QED
  BY <1>7, <1>10, <1>11, <1>12 DEF r

\* A save has everything up to its target, as far as the list goes.
LEMMA SavedProperties ==
  ASSUME stream \in Streams, NEW list \in Seq(Packet), Contiguous(list), list # <<>>,
         NEW target \in Nat, list[1].time <= target
  PROVE  \/ Saved(list, target) = list
         \/ /\ Saved(list, target) # <<>> /\ Last(Saved(list, target)).time \in Nat
            /\ Last(Saved(list, target)).time >= target
<1> DEFINE stops == StopIndices(list, target)
<1>1. Len(list) \in Nat /\ \A n \in 1 .. Len(list) : list[n] \in Packet /\ list[n].time \in Nat
  BY Ends, StreamFacts
<1>2. \A i \in stops : i \in 1 .. Len(list) /\ list[i].time > target
  BY Ends DEF StopIndices
<1> HIDE DEF stops
<1>3. CASE stops = {}
  BY <1>3 DEF Saved, stops
<1>4. CASE stops # {}
  <2> DEFINE i == CHOOSE i0 \in stops : \A j \in stops : i0 <= j
  <2>1. stops \in SUBSET Nat
    BY <1>1, <1>2
  <2>2. i \in stops
    BY <1>4, <2>1, SmallestExists
  <2>3. Saved(list, target) = SubSeq(list, 1, i - 1)
    BY <1>4 DEF Saved, stops
  <2> HIDE DEF i
  <2>4. i \in 1 .. Len(list) /\ list[i].time > target
    BY <1>2, <2>2
  <2>5. list[1].time \in Nat /\ list[i].time = list[1].time + i - 1
    BY <1>1, <2>4 DEF Contiguous
  <2>6. i # 1
    BY <2>4, <2>5
  <2>7. i - 1 \in 0 .. Len(list) /\ i - 1 \in 1 .. Len(list) /\ i - 1 > 0
    BY <1>1, <2>4, <2>6
  <2>8. Saved(list, target) # <<>> /\ Last(Saved(list, target)) = list[i - 1]
    BY <2>3, <2>7, Prefix
  <2>9. list[i - 1].time = list[1].time + (i - 1) - 1
    BY <2>7 DEF Contiguous
  <2>10. list[i - 1].time >= target /\ list[i - 1].time \in Nat
    BY <1>1, <2>4, <2>5, <2>7, <2>9
  <2> QED
    BY <2>8, <2>10
<1> QED
  BY <1>3, <1>4

\* Of two times the later one is as long after the first packet.
LEMMA AtLeastSecondsLater ==
  ASSUME NEW first \in Nat, NEW s \in Nat, NEW t \in Nat, s <= t, AtLeastSeconds(first, s)
  PROVE  AtLeastSeconds(first, t)
  BY ConstantFacts DEF AtLeastSeconds

\* Requests that come in order, none before the last key frame that is known, are all
\* answered by the save for the last.
LEMMA SaveAnswers ==
  ASSUME stream \in Streams, NEW list \in Seq(Packet), Contiguous(list), list # <<>>,
         NEW key \in Nat, list[1].time <= key, AtLeastSeconds(list[1].time, key),
         NEW answered \in Seq(Nat), answered # <<>>,
         \A i \in 1 .. Len(answered) : key <= answered[i] /\ answered[i] <= Last(answered),
         StartSaveThread(list, answered)
  PROVE  unanswered' = unanswered \ ToSet(answered)
<1> DEFINE target == Last(answered)
           out == Saved(list, target)
<1>1. /\ Len(answered) \in 1 .. Len(answered) /\ target = answered[Len(answered)] /\ target \in Nat
      /\ \A i \in 1 .. Len(answered) : answered[i] \in Nat /\ DOMAIN answered = 1 .. Len(answered)
  BY Ends
<1>2. list[1].time \in Nat /\ Head(list) = list[1]
  BY Ends, StreamFacts
<1>3. list[1].time <= target
  BY <1>1, <1>2
<1>4. out = list \/ (out # <<>> /\ Last(out).time \in Nat /\ Last(out).time >= target)
  BY <1>1, <1>3, SavedProperties
<1>5. unanswered' = unanswered \ {r \in ToSet(answered) : Covers(out, list, r)}
  BY DEF StartSaveThread
<1>6. ASSUME NEW r \in ToSet(answered) PROVE Covers(out, list, r)
  <2>1. PICK i \in 1 .. Len(answered) : r = answered[i]
    BY <1>1 DEF ToSet
  <2>2. r \in Nat /\ key <= r /\ r <= target
    BY <1>1, <2>1
  <2>3. AtLeastSeconds(list[1].time, r)
    BY <1>2, <2>2, AtLeastSecondsLater
  <2>4. out = list \/ (out # <<>> /\ Last(out).time >= r)
    <3> HIDE DEF out
    <3> QED
      BY <1>1, <1>4, <2>2
  <2> QED
    BY <1>2, <2>3, <2>4 DEF Covers
<1> QED
  BY <1>5, <1>6
-----------------------------------------------------------------------------
(***************************************************************************)
(* The steps: what is common to several of them.                           *)
(***************************************************************************)

LEMMA InitIInv == Init => IInv
<1> SUFFICES ASSUME Init PROVE IInv
  OBVIOUS
<1> USE DEF Init
<1>1. stream \in Streams /\ Len(stream) \in Nat
  BY StreamFacts
<1>2. TypeOK
  <2>1. ToSet(keyframes) = {}
    BY DEF ToSet
  <2>2. {<<t, "key">> : t \in ToSet(keyframes)} = {}
    BY <2>1
  <2>3. packet \in [time : 0 .. Len(stream), kind : Kinds]
    BY <1>1 DEF Kinds
  <2>4. /\ packets \in Seq(Packet) /\ buffered \in Seq(Packet) /\ saveTimes \in Seq(Nat)
        /\ stream \in Streams
    OBVIOUS
  <2>5. holding = packet
    OBVIOUS
  <2> QED
    BY <2>2, <2>3, <2>4, <2>5 DEF TypeOK
<1>3. HistoryInv /\ EncodeInv /\ SavesCover
  BY DEF HistoryInv, EncodeInv, SavesCover
<1>4. BufferInv /\ RequestInv
  BY DEF BufferInv, RequestInv, InBuffer, LastKey, Contiguous
<1>5. FileInv
  BY DEF FileInv, Out, Contiguous
<1> QED
  BY <1>2, <1>3, <1>4, <1>5 DEF IInv

\* Key frames that point at packets.
LEMMA KeysPoint ==
  ASSUME NEW k, NEW q, DOMAIN k = 1 .. Len(k), DOMAIN q = 1 .. Len(q),
         \A i \in 1 .. Len(k) : \E j \in 1 .. Len(q) : q[j] = [time |-> k[i], kind |-> "key"]
  PROVE  {<<t, "key">> : t \in ToSet(k)} \subseteq {<<p.time, p.kind>> : p \in ToSet(q)}
<1> SUFFICES ASSUME NEW t \in ToSet(k)
             PROVE  \E p \in ToSet(q) : <<t, "key">> = <<p.time, p.kind>>
  OBVIOUS
<1>1. PICK i \in 1 .. Len(k) : t = k[i]
  BY DEF ToSet
<1>2. PICK j \in 1 .. Len(q) : q[j] = [time |-> k[i], kind |-> "key"]
  OBVIOUS
<1>3. q[j] \in ToSet(q) /\ q[j].time = t /\ q[j].kind = "key"
  BY <1>1, <1>2 DEF ToSet
<1> QED
  BY <1>3

\* The buffer's part of the types.
BufferTypes ==
  /\ stream \in Streams /\ buffer \in {"on", "gone"}
  /\ packets \in Seq(Packet) /\ saveTimes \in Seq(Nat) /\ keyframes \in Seq(Nat)
  /\ startRecording \in BOOLEAN

\* The recording's part of the types.
FileTypes ==
  /\ saveThread \in BOOLEAN /\ written \in BOOLEAN /\ stopEvent \in BOOLEAN
  /\ file \in {"none", "open", "closing", "stopping", "closed"}
  /\ buffered \in Seq(Packet)
  /\ thread \in {"off", "loop", "write", "leaving", "exited"}
  /\ holding \in [time : 0 .. Len(stream), kind : Kinds]
  /\ recorded \in Seq(Nat) /\ recordedAt \in Nat /\ late \subseteq Nat

\* The encode thread's part of the types.
EncodeTypes ==
  /\ encode \in {"idle", "replay", "throttle", "drain", "append", "write"}
  /\ packet \in [time : 0 .. Len(stream), kind : Kinds]

LEMMA IInvTypes == IInv => BufferTypes /\ FileTypes /\ EncodeTypes
  BY DEF IInv, TypeOK, HistoryInv, BufferTypes, FileTypes, EncodeTypes

\* The parts of the invariant make up the whole.
LEMMA IInvFromParts ==
  ASSUME BufferTypes', FileTypes', EncodeTypes', EncodeInv', BufferInv', RequestInv', SavesCover',
         FileInv'
  PROVE  IInv'
<1>1. DOMAIN keyframes' = 1 .. Len(keyframes') /\ DOMAIN packets' = 1 .. Len(packets')
  BY LenProperties DEF BufferTypes
<1>2. {<<t, "key">> : t \in ToSet(keyframes')} \subseteq {<<p.time, p.kind>> : p \in ToSet(packets')}
  BY <1>1, KeysPoint DEF BufferInv
<1>3. TypeOK'
  BY <1>2 DEF TypeOK, BufferTypes, FileTypes, EncodeTypes
<1>4. HistoryInv'
  BY DEF HistoryInv, BufferTypes, FileTypes
<1> QED
  BY <1>3, <1>4 DEF IInv

\* A step that leaves the buffer alone.
LEMMA BufferKept ==
  ASSUME IInv,
         UNCHANGED <<stream, buffer, packets, keyframes, saveTimes, startRecording, unanswered>>,
         buffer = "on" => InBuffer' = InBuffer
  PROVE  BufferTypes' /\ BufferInv' /\ RequestInv' /\ SavesCover'
<1>1. BufferTypes'
  BY IInvTypes DEF BufferTypes, Packet
<1>2. BufferInv'
  BY DEF IInv, BufferInv, LastKey, Contiguous
<1>3. RequestInv' /\ SavesCover'
  BY DEF IInv, RequestInv, LastKey, SavesCover
<1> QED
  BY <1>1, <1>2, <1>3

\* A step that leaves the recording alone.
LEMMA FileKept ==
  ASSUME IInv,
         UNCHANGED <<stream, file, buffered, saveThread, thread, holding, stopEvent,
                     recorded, recordedAt, late>>,
         written' \in BOOLEAN,
         file = "open" => InFile' = InFile
  PROVE  FileTypes' /\ FileInv'
<1>1. FileTypes'
  BY IInvTypes DEF FileTypes, Packet
<1>2. Out' = Out
  BY DEF Out
<1>3. FileInv'
  BY <1>2 DEF IInv, FileInv, Contiguous
<1> QED
  BY <1>1, <1>3
-----------------------------------------------------------------------------
(***************************************************************************)
(* The steps of the user, and of the encode thread with a new packet.      *)
(***************************************************************************)

\* The last key frame that is known is one of the packets, or the first.
LEMMA LastKeyframe ==
  ASSUME IInv, packets # <<>>
  PROVE  /\ LastKey \in Nat /\ packets[1].time \in Nat
         /\ packets[1].time <= LastKey /\ LastKey <= Last(packets).time
         /\ AtLeastSeconds(packets[1].time, LastKey)
         /\ Last(packets).time \in Nat
<1>1. stream \in Streams /\ packets \in Seq(Packet) /\ keyframes \in Seq(Nat)
  BY IInvTypes DEF BufferTypes
<1>2. AtLeastSeconds(packets[1].time, LastKey) /\ Contiguous(packets)
  BY DEF IInv, BufferInv
<1>3. 1 \in 1 .. Len(packets) /\ packets[1] \in Packet /\ Last(packets) \in Packet
  BY <1>1, Ends
<1>4. /\ packets[1].time \in Nat /\ packets[1].time >= 1 /\ Last(packets).time \in Nat
      /\ packets[1].time <= Last(packets).time
  <2>1. packets[1].time \in Nat /\ packets[1].time >= 1 /\ Last(packets).time \in Nat
    BY <1>1, <1>3, StreamFacts
  <2>2. packets[1].time <= Last(packets).time
    BY <1>1, <1>2, <1>3, ContiguousProperties
  <2> QED
    BY <2>1, <2>2
<1>5. CASE keyframes = <<>>
  <2>1. LastKey = 1
    BY <1>5 DEF LastKey
  <2>2. packets[1].time = 1
    BY <1>2, <1>4, <2>1, ConstantFacts DEF AtLeastSeconds
  <2> QED
    BY <1>2, <1>4, <2>1, <2>2
<1>6. CASE keyframes # <<>>
  <2>1. /\ Len(keyframes) \in 1 .. Len(keyframes) /\ LastKey = keyframes[Len(keyframes)]
        /\ LastKey \in Nat
    BY <1>1, <1>6, Ends DEF LastKey
  <2>2. PICK j \in 1 .. Len(packets) : packets[j] = [time |-> LastKey, kind |-> "key"]
    BY <2>1 DEF IInv, BufferInv
  <2>3. packets[1].time <= packets[j].time /\ packets[j].time <= Last(packets).time
    BY <1>1, <1>2, ContiguousProperties
  <2> QED
    BY <1>2, <1>4, <2>1, <2>2, <2>3
<1> QED
  BY <1>5, <1>6

LEMMA SaveIInv ==
  ASSUME IInv, SaveReplayBuffer
  PROVE  IInv'
<1>1. /\ encode = "idle" /\ buffer = "on" /\ packet.time > 0
      /\ UNCHANGED <<stream, buffer, packets, keyframes, startRecording, encode, packet>>
      /\ UNCHANGED <<file, buffered, saveThread, thread, holding, written, stopEvent,
                     recorded, recordedAt, late>>
  BY DEF SaveReplayBuffer, fileVars
<1>2. PICK time \in packet.time .. packet.time + Ahead :
         /\ \A i \in DOMAIN saveTimes : saveTimes[i] <= time
         /\ saveTimes' = Append(saveTimes, time)
         /\ unanswered' = unanswered \cup {time}
  BY DEF SaveReplayBuffer
<1>3. /\ stream \in Streams /\ packets \in Seq(Packet) /\ saveTimes \in Seq(Nat)
      /\ keyframes \in Seq(Nat) /\ packet \in [time : 0 .. Len(stream), kind : Kinds]
      /\ written \in BOOLEAN
  BY IInvTypes DEF BufferTypes, EncodeTypes, FileTypes
<1>4. packet.time \in Nat /\ time \in Nat /\ packet.time <= time
  BY <1>2, <1>3, StreamFacts, ConstantFacts
<1>5. packets # <<>> /\ Last(packets).time = packet.time
  BY <1>1, <1>4 DEF IInv, BufferInv, InBuffer
<1>6. LastKey \in Nat /\ LastKey <= packet.time /\ LastKey' = LastKey
  BY <1>1, <1>5, LastKeyframe DEF LastKey
<1>7. /\ saveTimes' \in Seq(Nat) /\ Len(saveTimes') = Len(saveTimes) + 1 /\ Len(saveTimes) \in Nat
      /\ DOMAIN saveTimes = 1 .. Len(saveTimes) /\ DOMAIN saveTimes' = 1 .. Len(saveTimes')
      /\ \A i \in 1 .. Len(saveTimes) : saveTimes'[i] = saveTimes[i] /\ saveTimes[i] \in Nat
      /\ saveTimes'[Len(saveTimes) + 1] = time
  BY <1>2, <1>3, <1>4, Appended, Ends
<1>8. \A i \in 1 .. Len(saveTimes') : i \in 1 .. Len(saveTimes) \/ i = Len(saveTimes) + 1
  BY <1>7
<1>9. BufferTypes' /\ EncodeTypes'
  BY <1>1, <1>7, IInvTypes DEF BufferTypes, EncodeTypes, Packet
<1>10. EncodeInv'
  BY <1>1 DEF IInv, EncodeInv
<1>11. BufferInv'
  BY <1>1 DEF IInv, BufferInv, LastKey, Contiguous, InBuffer
<1>12. RequestInv'
  <2>1. \A i, j \in 1 .. Len(saveTimes') : i <= j => saveTimes'[i] <= saveTimes'[j]
    <3> TAKE i, j \in 1 .. Len(saveTimes')
    <3> HAVE i <= j
    <3>1. CASE j \in 1 .. Len(saveTimes)
      <4>1. i \in 1 .. Len(saveTimes)
        BY <1>7, <3>1
      <4> QED
        BY <1>7, <3>1, <4>1 DEF IInv, RequestInv
    <3>2. CASE j = Len(saveTimes) + 1
      <4>1. saveTimes'[i] <= time
        BY <1>2, <1>4, <1>7, <1>8
      <4> QED
        BY <1>7, <3>2, <4>1
    <3> QED
      BY <1>8, <3>1, <3>2
  <2>2. \A i \in 1 .. Len(saveTimes') : saveTimes'[i] >= LastKey
    <3> TAKE i \in 1 .. Len(saveTimes')
    <3>1. CASE i \in 1 .. Len(saveTimes)
      BY <1>7, <3>1 DEF IInv, RequestInv
    <3>2. CASE i = Len(saveTimes) + 1
      BY <1>4, <1>6, <1>7, <3>2
    <3> QED
      BY <1>8, <3>1, <3>2
  <2> QED
    BY <1>1, <1>5, <1>6, <2>1, <2>2 DEF RequestInv
<1>13. SavesCover'
  <2>1. unanswered \subseteq ToSet(saveTimes)
    BY DEF IInv, SavesCover
  <2>2. \A i \in 1 .. Len(saveTimes) : i \in 1 .. Len(saveTimes')
    BY <1>7
  <2>3. ToSet(saveTimes) \subseteq ToSet(saveTimes')
    BY <1>7, <2>2 DEF ToSet
  <2>4. Len(saveTimes) + 1 \in 1 .. Len(saveTimes')
    BY <1>7
  <2>5. time \in ToSet(saveTimes')
    BY <1>7, <2>4 DEF ToSet
  <2> QED
    BY <1>2, <2>1, <2>3, <2>5 DEF SavesCover
<1>14. FileTypes' /\ FileInv'
  <2>1. InFile' = InFile
    BY <1>1 DEF InFile, ForFile
  <2> QED
    BY <1>1, <1>3, <2>1, FileKept
<1> QED
  BY <1>9, <1>10, <1>11, <1>12, <1>13, <1>14, IInvFromParts

LEMMA StartRecordingIInv ==
  ASSUME IInv, StartRecordingFromReplayBuffer
  PROVE  IInv'
<1>1. /\ startRecording' \in BOOLEAN
      /\ UNCHANGED <<stream, buffer, packets, keyframes, saveTimes, encode, packet>>
      /\ UNCHANGED <<file, buffered, saveThread, thread, holding, written, stopEvent,
                     unanswered, recorded, recordedAt, late>>
  BY DEF StartRecordingFromReplayBuffer, fileVars, pastVars
<1>2. BufferTypes' /\ EncodeTypes' /\ written \in BOOLEAN
  BY <1>1, IInvTypes DEF BufferTypes, EncodeTypes, FileTypes, Packet
<1>3. EncodeInv'
  BY <1>1 DEF IInv, EncodeInv
<1>4. BufferInv'
  BY <1>1 DEF IInv, BufferInv, LastKey, Contiguous, InBuffer
<1>5. RequestInv' /\ SavesCover'
  BY <1>1 DEF IInv, RequestInv, LastKey, SavesCover
<1>6. InFile' = InFile
  BY <1>1 DEF InFile, ForFile
<1>7. FileTypes' /\ FileInv'
  BY <1>1, <1>2, <1>6, FileKept
<1> QED
  BY <1>2, <1>3, <1>4, <1>5, <1>7, IInvFromParts

\* The next packet of the stream.
LEMMA NextPacketProperties ==
  ASSUME IInv, NextPacket, UNCHANGED stream
  PROVE  /\ encode = "idle" /\ packet'.time = packet.time + 1 /\ packet.time \in Nat
         /\ packet' \in [time : 0 .. Len(stream'), kind : Kinds]
         /\ packet'.kind = stream'[packet'.time]
<1>1. stream \in Streams /\ packet \in [time : 0 .. Len(stream), kind : Kinds]
  BY IInvTypes DEF BufferTypes, EncodeTypes
<1>2. packet.time \in Nat /\ Len(stream) \in Nat /\ \A n \in 1 .. Len(stream) : stream[n] \in Kinds
  BY <1>1, StreamFacts
<1>3. /\ encode = "idle" /\ packet.time < Len(stream)
      /\ packet' = [time |-> packet.time + 1, kind |-> stream[packet.time + 1]]
  BY DEF NextPacket
<1>4. packet.time + 1 \in 1 .. Len(stream) /\ packet.time + 1 \in 0 .. Len(stream)
  BY <1>2, <1>3
<1> QED
  BY <1>2, <1>3, <1>4

LEMMA SendIInv ==
  ASSUME IInv, SendPacket
  PROVE  IInv'
<1>1. /\ NextPacket
      /\ encode' = IF file # "open" THEN AfterFile
                   ELSE IF saveThread THEN IF IsVideo(packet') THEN "throttle" ELSE "append"
                   ELSE "write"
      /\ UNCHANGED <<stream, buffer, packets, keyframes, saveTimes, startRecording>>
      /\ UNCHANGED <<file, buffered, saveThread, thread, holding, written, stopEvent,
                     unanswered, recorded, recordedAt, late>>
  BY DEF SendPacket, bufferVars, fileVars, pastVars
<1>2. /\ encode = "idle" /\ packet'.time = packet.time + 1 /\ packet.time \in Nat
      /\ packet' \in [time : 0 .. Len(stream'), kind : Kinds]
      /\ packet'.kind = stream'[packet'.time]
  BY <1>1, NextPacketProperties
<1>3. /\ encode' \in {"idle", "replay", "throttle", "drain", "append", "write"}
      /\ encode' = "replay" => buffer = "on"
      /\ encode' = "idle" => buffer # "on"
      /\ encode' \in {"throttle", "drain", "append"} => file = "open" /\ saveThread
      /\ encode' = "write" => file = "open" /\ ~saveThread
      /\ file = "open" => encode' \in {"throttle", "append", "write"}
  BY <1>1 DEF AfterFile
<1>4. packet'.time > 0 /\ packet'.time - 1 = packet.time
  BY <1>2
<1>5. EncodeTypes' /\ EncodeInv'
  BY <1>1, <1>2, <1>3, <1>4 DEF EncodeTypes, EncodeInv
<1>6. buffer = "on" => InBuffer' = InBuffer
  BY <1>2, <1>3, <1>4 DEF InBuffer
<1>7. file = "open" => InFile' = InFile
  BY <1>2, <1>3, <1>4 DEF InFile, ForFile
<1>8. written \in BOOLEAN
  BY IInvTypes DEF FileTypes
<1>9. BufferTypes' /\ BufferInv' /\ RequestInv' /\ SavesCover'
  BY <1>1, <1>6, BufferKept
<1>10. FileTypes' /\ FileInv'
  BY <1>1, <1>7, <1>8, FileKept
<1> QED
  BY <1>5, <1>9, <1>10, IInvFromParts

LEMMA StopRecordingIInv ==
  ASSUME IInv, StopRecording
  PROVE  IInv'
<1>1. /\ NextPacket /\ file = "open" /\ file' = "closing" /\ encode' = AfterFile
      /\ UNCHANGED <<stream, buffer, packets, keyframes, saveTimes, startRecording>>
      /\ UNCHANGED <<buffered, saveThread, thread, holding, written, stopEvent,
                     unanswered, recorded, recordedAt, late>>
  BY DEF StopRecording, bufferVars, pastVars
<1>2. /\ encode = "idle" /\ packet'.time = packet.time + 1 /\ packet.time \in Nat
      /\ packet' \in [time : 0 .. Len(stream'), kind : Kinds]
      /\ packet'.kind = stream'[packet'.time]
  BY <1>1, NextPacketProperties
<1>3. /\ encode' \in {"idle", "replay"} /\ (encode' = "replay" <=> buffer = "on")
  BY <1>1 DEF AfterFile
<1>4. packet'.time > 0 /\ packet'.time - 1 = packet.time
  BY <1>2
<1>5. EncodeTypes' /\ EncodeInv'
  BY <1>1, <1>2, <1>3, <1>4 DEF EncodeTypes, EncodeInv
<1>6. buffer = "on" => InBuffer' = InBuffer
  BY <1>2, <1>3, <1>4 DEF InBuffer
<1>7. BufferTypes' /\ BufferInv' /\ RequestInv' /\ SavesCover'
  BY <1>1, <1>6, BufferKept
<1>8. FileTypes'
  BY <1>1, IInvTypes DEF FileTypes, Packet
<1>9. Out' = Out
  BY <1>1 DEF Out
<1>10. FileInv'
  BY <1>1, <1>9 DEF IInv, FileInv, Contiguous
<1> QED
  BY <1>5, <1>7, <1>8, <1>10, IInvFromParts
-----------------------------------------------------------------------------
(***************************************************************************)
(* The steps of the encode thread with the buffer.                         *)
(***************************************************************************)

\* The list with the new packet.
LEMMA NewList ==
  ASSUME IInv, encode = "replay"
  PROVE  /\ packet \in Packet /\ packet.time \in Nat /\ buffer = "on"
         /\ Append(packets, packet) \in Seq(Packet) /\ Append(packets, packet) # <<>>
         /\ Contiguous(Append(packets, packet))
         /\ Last(Append(packets, packet)) = packet
         /\ packets # <<>> => packet.time = Last(packets).time + 1
         /\ packets = <<>> => packet.time = 1
<1>1. /\ stream \in Streams /\ packets \in Seq(Packet)
      /\ packet \in [time : 0 .. Len(stream), kind : Kinds]
  BY IInvTypes DEF BufferTypes, EncodeTypes
<1>2. packet.time > 0 /\ buffer = "on" /\ InBuffer = packet.time - 1 /\ Contiguous(packets)
      /\ packet.kind = stream[packet.time]
  BY DEF IInv, EncodeInv, BufferInv, InBuffer
<1>3. packet \in Packet /\ packet.time \in Nat
  BY <1>1, <1>2, StreamFacts
<1>4. packets # <<>> => packet.time = Last(packets).time + 1
  <2>1. packets # <<>> => Last(packets).time = packet.time - 1
    BY <1>2 DEF IInv, BufferInv
  <2> QED
    BY <1>3, <2>1
<1>5. packets = <<>> => packet.time = 1
  <2>1. packets = <<>> => packet.time - 1 = 0
    BY <1>2 DEF IInv, BufferInv
  <2> QED
    BY <1>3, <2>1
<1> QED
  BY <1>1, <1>2, <1>3, <1>4, <1>5, Appended, ContiguousAppend

\* A key frame's requests are answered, and the others are later than it.
LEMMA HandleIInv ==
  ASSUME IInv, encode = "replay",
         HandleSaveTimes(Append(packets, packet), packet.time)
  PROVE  /\ saveTimes' \in Seq(Nat)
         /\ \A i, j \in 1 .. Len(saveTimes') : i <= j => saveTimes'[i] <= saveTimes'[j]
         /\ \A i \in 1 .. Len(saveTimes') : saveTimes'[i] > packet.time
         /\ unanswered' \subseteq ToSet(saveTimes')
<1> DEFINE list == Append(packets, packet)
<1>1. PICK count \in 0 .. Len(saveTimes) :
         /\ \A i \in 1 .. count : saveTimes[i] <= packet.time
         /\ count < Len(saveTimes) => saveTimes[count + 1] > packet.time
         /\ saveTimes' = SubSeq(saveTimes, count + 1, Len(saveTimes))
         /\ IF count = 0 THEN UNCHANGED unanswered
            ELSE StartSaveThread(list, SubSeq(saveTimes, 1, count))
  BY DEF HandleSaveTimes
<1>2. /\ stream \in Streams /\ packets \in Seq(Packet) /\ saveTimes \in Seq(Nat)
      /\ Len(saveTimes) \in Nat /\ \A i \in 1 .. Len(saveTimes) : saveTimes[i] \in Nat
      /\ packet.time \in Nat
  BY IInvTypes, Ends, NewList DEF BufferTypes
<1>3. /\ \A i, j \in 1 .. Len(saveTimes) : i <= j => saveTimes[i] <= saveTimes[j]
      /\ saveTimes # <<>> => packets # <<>>
      /\ \A i \in 1 .. Len(saveTimes) : saveTimes[i] >= LastKey
      /\ unanswered \subseteq ToSet(saveTimes)
  BY DEF IInv, RequestInv, SavesCover
<1>4. count + 1 \in 1 .. Len(saveTimes) + 1 /\ count \in Nat
  BY <1>1, <1>2
<1>5. /\ saveTimes' \in Seq(Nat) /\ Len(saveTimes') = Len(saveTimes) - count
      /\ \A n \in 1 .. Len(saveTimes) - count : saveTimes'[n] = saveTimes[n + count]
  <2>1. /\ saveTimes' \in Seq(Nat) /\ Len(saveTimes') = Len(saveTimes) - (count + 1) + 1
        /\ \A n \in 1 .. Len(saveTimes) - (count + 1) + 1 : saveTimes'[n] = saveTimes[n + (count + 1) - 1]
    BY <1>1, <1>2, <1>4, Suffix
  <2>2. Len(saveTimes) - (count + 1) + 1 = Len(saveTimes) - count
    BY <1>2, <1>4
  <2>3. \A n \in 1 .. Len(saveTimes) - count : n + (count + 1) - 1 = n + count
    BY <1>4
  <2> QED
    BY <2>1, <2>2, <2>3
<1>6. \A n \in 1 .. Len(saveTimes') : n + count \in 1 .. Len(saveTimes) /\ count + 1 <= n + count
                                      /\ saveTimes'[n] = saveTimes[n + count]
  BY <1>2, <1>4, <1>5
<1>7. \A i, j \in 1 .. Len(saveTimes') : i <= j => saveTimes'[i] <= saveTimes'[j]
  <2> TAKE i, j \in 1 .. Len(saveTimes')
  <2> HAVE i <= j
  <2>1. i + count <= j + count
    BY <1>4, <1>5
  <2> QED
    BY <1>3, <1>6, <2>1
<1>8. \A i \in 1 .. Len(saveTimes') : saveTimes'[i] > packet.time
  <2> TAKE i \in 1 .. Len(saveTimes')
  <2>1. count < Len(saveTimes) /\ count + 1 \in 1 .. Len(saveTimes)
    BY <1>2, <1>4, <1>5
  <2>2. saveTimes[count + 1] > packet.time
    BY <1>1, <2>1
  <2>3. saveTimes[count + 1] <= saveTimes'[i] /\ saveTimes'[i] \in Nat /\ saveTimes[count + 1] \in Nat
    BY <1>2, <1>3, <1>6, <2>1
  <2> QED
    BY <1>2, <2>2, <2>3
<1>9. unanswered' \subseteq ToSet(saveTimes')
  <2>1. CASE count = 0
    <3>1. saveTimes' = saveTimes
      BY <1>1, <1>2, <2>1, SubSeqFull
    <3> QED
      BY <1>1, <1>3, <2>1, <3>1
  <2>2. CASE count # 0
    <3> DEFINE answered == SubSeq(saveTimes, 1, count)
    <3>1. /\ answered \in Seq(Nat) /\ Len(answered) = count
          /\ \A n \in 1 .. count : answered[n] = saveTimes[n]
          /\ answered # <<>> /\ Last(answered) = saveTimes[count]
      <4>1. count \in 0 .. Len(saveTimes) /\ count > 0
        BY <1>4, <2>2
      <4> QED
        BY <1>2, <4>1, Prefix
    <3>2. StartSaveThread(list, answered)
      BY <1>1, <2>2
    <3> HIDE DEF answered
    <3>3. packets # <<>>
      BY <1>2, <1>3, <1>4, <2>2, Ends
    <3>4. /\ list \in Seq(Packet) /\ list # <<>> /\ Contiguous(list) /\ list[1] = packets[1]
      BY <1>2, <3>3, NewList, Appended
    <3>5. /\ LastKey \in Nat /\ packets[1].time <= LastKey
          /\ AtLeastSeconds(packets[1].time, LastKey)
      BY <3>3, LastKeyframe
    <3>6. \A i \in 1 .. Len(answered) : LastKey <= answered[i] /\ answered[i] <= Last(answered)
      <4> TAKE i \in 1 .. Len(answered)
      <4>1. i \in 1 .. Len(saveTimes) /\ count \in 1 .. Len(saveTimes) /\ i <= count /\ i \in 1 .. count
        BY <1>2, <1>4, <2>2, <3>1
      <4>2. saveTimes[i] >= LastKey /\ saveTimes[i] <= saveTimes[count]
        BY <1>3, <4>1
      <4>3. saveTimes[i] \in Nat
        BY <1>2, <4>1
      <4> QED
        BY <3>1, <3>5, <4>1, <4>2, <4>3
    <3> HIDE DEF list
    <3>7. unanswered' = unanswered \ ToSet(answered)
      BY <1>2, <3>1, <3>2, <3>4, <3>5, <3>6, SaveAnswers
    <3>8. ASSUME NEW t \in ToSet(saveTimes), t \notin ToSet(answered)
          PROVE  t \in ToSet(saveTimes')
      <4>1. PICK i \in 1 .. Len(saveTimes) : t = saveTimes[i]
        BY <1>2, Ends DEF ToSet
      <4>2. DOMAIN answered = 1 .. count /\ DOMAIN saveTimes' = 1 .. Len(saveTimes')
        BY <1>5, <3>1, LenProperties
      <4>3. i \notin 1 .. count
        BY <3>1, <3>8, <4>1, <4>2 DEF ToSet
      <4>4. i - count \in 1 .. Len(saveTimes') /\ (i - count) + count = i
        BY <1>2, <1>4, <1>5, <4>1, <4>3
      <4>5. saveTimes'[i - count] = t
        BY <1>6, <4>1, <4>4
      <4> QED
        BY <4>2, <4>4, <4>5 DEF ToSet
    <3> QED
      BY <1>3, <3>7, <3>8
  <2> QED
    BY <2>1, <2>2
<1> QED
  BY <1>5, <1>7, <1>8, <1>9

\* A key frame is added to the lists, and what is too old is dropped from them.
KeyframeAdded(list, frames, d) ==
  /\ list = Append(packets, packet) /\ frames = Append(keyframes, packet.time)
  /\ d = DroppedKeyframes(frames)
  /\ keyframes' = SubSeq(frames, d + 1, Len(frames))
  /\ packets' = IF d = 0 THEN list ELSE Trim(list, frames, d)

\* The list of packets and the key frames, after a key frame.
LEMMA KeyframeIInv ==
  ASSUME IInv, encode = "replay", packet.kind = "key",
         NEW frames, NEW list, NEW d, KeyframeAdded(list, frames, d)
  PROVE  /\ packets' \in Seq(Packet) /\ keyframes' \in Seq(Nat)
         /\ packets' # <<>> /\ Last(packets') = packet /\ Contiguous(packets')
         /\ keyframes' # <<>> /\ Last(keyframes') = packet.time
         /\ AtLeastSeconds(packets'[1].time, Last(keyframes'))
         /\ \A i \in 1 .. Len(keyframes') : \E j \in 1 .. Len(packets') :
              packets'[j] = [time |-> keyframes'[i], kind |-> "key"]
         /\ \A i, j \in 1 .. Len(keyframes') : i < j => keyframes'[i] < keyframes'[j]
<1>1. /\ stream \in Streams /\ packets \in Seq(Packet) /\ keyframes \in Seq(Nat)
      /\ Len(packets) \in Nat /\ Len(keyframes) \in Nat
      /\ \A i \in 1 .. Len(keyframes) : keyframes[i] \in Nat
  BY IInvTypes, Ends DEF BufferTypes
<1>2. /\ packet \in Packet /\ packet.time \in Nat
      /\ list \in Seq(Packet) /\ list # <<>> /\ Contiguous(list) /\ Last(list) = packet
      /\ packets # <<>> => packet.time = Last(packets).time + 1
      /\ packets = <<>> => packet.time = 1
  <2>1. list = Append(packets, packet)
    BY DEF KeyframeAdded
  <2> QED
    BY <2>1, NewList
<1>3. /\ Len(list) = Len(packets) + 1 /\ \A n \in 1 .. Len(packets) : list[n] = packets[n]
      /\ list[Len(packets) + 1] = packet
      /\ list[1] = IF packets = <<>> THEN packet ELSE packets[1]
  <2>1. list = Append(packets, packet)
    BY DEF KeyframeAdded
  <2> QED
    BY <1>1, <1>2, <2>1, Appended
<1>4. /\ frames \in Seq(Nat) /\ frames # <<>> /\ Last(frames) = packet.time
      /\ Len(frames) = Len(keyframes) + 1
      /\ \A n \in 1 .. Len(keyframes) : frames[n] = keyframes[n]
      /\ frames[Len(keyframes) + 1] = packet.time
  <2>1. frames = Append(keyframes, packet.time)
    BY DEF KeyframeAdded
  <2> QED
    BY <1>1, <1>2, <2>1, Appended
<1>5. \A n \in 1 .. Len(frames) : n \in 1 .. Len(keyframes) \/ n = Len(keyframes) + 1
  BY <1>1, <1>4
<1>6. packet = [time |-> packet.time, kind |-> "key"]
  BY <1>1, <1>2, StreamFacts
<1>7. \A i \in 1 .. Len(frames) : \E j \in 1 .. Len(list) :
        list[j] = [time |-> frames[i], kind |-> "key"]
  <2> TAKE i \in 1 .. Len(frames)
  <2>1. CASE i \in 1 .. Len(keyframes)
    <3>1. PICK j \in 1 .. Len(packets) : packets[j] = [time |-> keyframes[i], kind |-> "key"]
      BY <2>1 DEF IInv, BufferInv
    <3>2. j \in 1 .. Len(list)
      BY <1>1, <1>3
    <3> QED
      BY <1>3, <1>4, <2>1, <3>1, <3>2
  <2>2. CASE i = Len(keyframes) + 1
    <3>1. Len(packets) + 1 \in 1 .. Len(list)
      BY <1>1, <1>3
    <3> QED
      BY <1>3, <1>4, <1>6, <2>2, <3>1
  <2> QED
    BY <1>5, <2>1, <2>2
<1>8. \A i, j \in 1 .. Len(frames) : i < j => frames[i] < frames[j]
  <2> TAKE i, j \in 1 .. Len(frames)
  <2> HAVE i < j
  <2>1. CASE j \in 1 .. Len(keyframes)
    <3>1. i \in 1 .. Len(keyframes)
      BY <1>1, <2>1
    <3> QED
      BY <1>4, <2>1, <3>1 DEF IInv, BufferInv
  <2>2. CASE j = Len(keyframes) + 1
    <3>1. i \in 1 .. Len(keyframes)
      BY <1>1, <2>2
    <3>2. PICK n \in 1 .. Len(packets) : packets[n] = [time |-> keyframes[i], kind |-> "key"]
      BY <3>1 DEF IInv, BufferInv
    <3>3. packets # <<>> /\ packets[n].time <= Last(packets).time /\ Last(packets).time \in Nat
      <4>1. packets # <<>>
        BY <1>1, <3>2, Ends
      <4> QED
        BY <1>1, <3>2, <4>1, ContiguousProperties, LastKeyframe DEF IInv, BufferInv
    <3>4. keyframes[i] <= Last(packets).time /\ keyframes[i] \in Nat
      BY <1>1, <3>1, <3>2, <3>3
    <3> QED
      BY <1>2, <1>4, <2>2, <3>1, <3>3, <3>4
  <2> QED
    BY <1>5, <2>1, <2>2
<1>9. /\ d \in Nat /\ d + 1 \in 1 .. Len(frames) /\ d + 1 \in 1 .. Len(frames) + 1
      /\ d # 0 => frames[d + 1] <= Last(frames) - Seconds
  <2>1. d \in Nat /\ d + 1 \in 1 .. Len(frames) /\ (d # 0 => frames[d + 1] <= Last(frames) - Seconds)
    BY <1>4, DroppedProperties DEF KeyframeAdded
  <2>2. Len(frames) \in Nat
    BY <1>1, <1>4
  <2> QED
    BY <2>1, <2>2
<1>10. /\ keyframes' \in Seq(Nat) /\ keyframes' # <<>> /\ Last(keyframes') = packet.time
       /\ Len(keyframes') = Len(frames) - (d + 1) + 1
       /\ \A n \in 1 .. Len(frames) - (d + 1) + 1 : keyframes'[n] = frames[n + (d + 1) - 1]
  <2> DEFINE k == d + 1
  <2>1. k <= Len(frames) /\ k \in 1 .. Len(frames) + 1 /\ keyframes' = SubSeq(frames, k, Len(frames))
    BY <1>9 DEF KeyframeAdded
  <2> HIDE DEF k
  <2>2. /\ keyframes' \in Seq(Nat) /\ keyframes' # <<>> /\ Last(keyframes') = Last(frames)
        /\ Len(keyframes') = Len(frames) - k + 1
        /\ \A n \in 1 .. Len(frames) - k + 1 : keyframes'[n] = frames[n + k - 1]
    BY <1>4, <2>1, Suffix
  <2> QED
    BY <1>4, <2>2 DEF k
<1>11. \A n \in 1 .. Len(keyframes') : n + d \in 1 .. Len(frames) /\ d + 1 <= n + d
                                       /\ keyframes'[n] = frames[n + d]
  <2> TAKE n \in 1 .. Len(keyframes')
  <2>1. Len(frames) \in Nat
    BY <1>1, <1>4
  <2> DEFINE L == Len(frames)
  <2>2. n \in 1 .. L - (d + 1) + 1 /\ L \in Nat /\ d \in Nat
    BY <1>9, <1>10, <2>1
  <2> HIDE DEF L
  <2>3. n + (d + 1) - 1 = n + d /\ n + d \in 1 .. L /\ d + 1 <= n + d
    BY <2>2
  <2> QED
    BY <1>10, <2>2, <2>3 DEF L
<1>12. \A i, j \in 1 .. Len(keyframes') : i < j => keyframes'[i] < keyframes'[j]
  <2> TAKE i, j \in 1 .. Len(keyframes')
  <2> HAVE i < j
  <2>1. i + d < j + d
    BY <1>1, <1>4, <1>9, <1>10
  <2> QED
    BY <1>8, <1>11, <2>1
<1>13. /\ packets' \in Seq(Packet) /\ packets' # <<>> /\ Last(packets') = packet
       /\ Contiguous(packets')
       /\ d = 0 => packets' = list
       /\ d # 0 => packets'[1].time = frames[d + 1]
       /\ \A j \in 1 .. Len(list) : list[j].time >= frames[d + 1] =>
            \E n \in 1 .. Len(packets') : packets'[n] = list[j]
  <2>1. CASE d = 0
    BY <1>2, <2>1 DEF KeyframeAdded
  <2>2. CASE d # 0
    <3>1. PICK j \in 1 .. Len(list) : list[j] = [time |-> frames[d + 1], kind |-> "key"]
      BY <1>7, <1>9
    <3>2. \E n \in 1 .. Len(list) : list[n].time = frames[d + 1]
      BY <3>1
    <3> DEFINE t == Trim(list, frames, d)
    <3>3. /\ t \in Seq(Packet) /\ t # <<>> /\ Contiguous(t) /\ t[1].time = frames[d + 1]
          /\ Last(t) = Last(list)
          /\ \A j0 \in 1 .. Len(list) : list[j0].time >= frames[d + 1] =>
               \E n \in 1 .. Len(t) : t[n] = list[j0]
      BY <1>1, <1>2, <3>2, TrimProperties
    <3>4. packets' = t
      BY <2>2 DEF KeyframeAdded
    <3> HIDE DEF t
    <3> QED
      BY <1>2, <2>2, <3>3, <3>4
  <2> QED
    BY <2>1, <2>2
<1>14. \A i \in 1 .. Len(keyframes') : \E j \in 1 .. Len(packets') :
         packets'[j] = [time |-> keyframes'[i], kind |-> "key"]
  <2> TAKE i \in 1 .. Len(keyframes')
  <2>1. PICK j \in 1 .. Len(list) : list[j] = [time |-> frames[i + d], kind |-> "key"]
    BY <1>7, <1>11
  <2>2. frames[i + d] >= frames[d + 1]
    <3> DEFINE a == i + d
               b == d + 1
    <3>1. a \in 1 .. Len(frames) /\ b \in 1 .. Len(frames) /\ b <= a /\ Len(frames) \in Nat
      BY <1>1, <1>4, <1>9, <1>11
    <3> HIDE DEF a, b
    <3>2. frames[a] \in Nat /\ frames[b] \in Nat
      BY <1>4, <3>1, Ends
    <3>3. b < a \/ a = b
      BY <3>1
    <3>4. b < a => frames[b] < frames[a]
      BY <1>8, <3>1
    <3>5. frames[a] >= frames[b]
      BY <3>2, <3>3, <3>4
    <3> QED
      BY <3>5 DEF a, b
  <2>3. list[j].time >= frames[d + 1]
    BY <2>1, <2>2
  <2>4. \E n \in 1 .. Len(packets') : packets'[n] = list[j]
    BY <1>13, <2>3
  <2>5. keyframes'[i] = frames[i + d]
    BY <1>11
  <2> QED
    BY <2>1, <2>4, <2>5
<1>15. AtLeastSeconds(packets'[1].time, packet.time)
  <2>1. CASE d = 0
    <3>1. packets'[1] = list[1]
      BY <1>13, <2>1
    <3>2. CASE packets = <<>>
      BY <1>2, <1>3, <3>1, <3>2 DEF AtLeastSeconds
    <3>3. CASE packets # <<>>
      <4>1. /\ LastKey \in Nat /\ packets[1].time \in Nat
            /\ LastKey <= Last(packets).time
            /\ AtLeastSeconds(packets[1].time, LastKey) /\ Last(packets).time \in Nat
        BY <3>3, LastKeyframe
      <4>2. LastKey <= packet.time
        BY <1>2, <3>3, <4>1
      <4> QED
        BY <1>2, <1>3, <3>1, <3>3, <4>1, <4>2, AtLeastSecondsLater
    <3> QED
      BY <3>2, <3>3
  <2>2. CASE d # 0
    BY <1>4, <1>9, <1>13, <2>2 DEF AtLeastSeconds
  <2> QED
    BY <2>1, <2>2
<1> QED
  BY <1>10, <1>12, <1>13, <1>14, <1>15

\* A recording that begins with the list has the seconds that it should.
LEMMA NewListLong ==
  ASSUME IInv, encode = "replay"
  PROVE  AtLeastSeconds(Append(packets, packet)[1].time, packet.time)
<1>1. /\ packets \in Seq(Packet) /\ packet \in Packet /\ packet.time \in Nat
      /\ packets # <<>> => packet.time = Last(packets).time + 1
      /\ packets = <<>> => packet.time = 1
  BY IInvTypes, NewList DEF BufferTypes
<1>2. Append(packets, packet)[1] = IF packets = <<>> THEN packet ELSE packets[1]
  BY <1>1, Appended
<1>3. CASE packets = <<>>
  BY <1>1, <1>2, <1>3 DEF AtLeastSeconds
<1>4. CASE packets # <<>>
  <2>1. /\ LastKey \in Nat /\ packets[1].time \in Nat /\ Last(packets).time \in Nat
        /\ LastKey <= Last(packets).time
        /\ AtLeastSeconds(packets[1].time, LastKey)
    BY <1>4, LastKeyframe
  <2>2. LastKey <= packet.time
    BY <1>1, <1>4, <2>1
  <2> QED
    BY <1>1, <1>2, <1>4, <2>1, <2>2, AtLeastSecondsLater
<1> QED
  BY <1>3, <1>4

\* ReplayBuffer::AddPacket, as far as the buffer goes.
LEMMA AddBuffer ==
  ASSUME IInv, AddToReplayBuffer
  PROVE  BufferTypes' /\ BufferInv' /\ RequestInv' /\ SavesCover'
<1> DEFINE list   == Append(packets, packet)
           frames == Append(keyframes, packet.time)
           d      == DroppedKeyframes(frames)
<1>1. /\ encode = "replay" /\ encode' = "idle" /\ startRecording' = FALSE
      /\ UNCHANGED <<stream, buffer, packet>>
      /\ IF packet.kind = "key"
         THEN /\ HandleSaveTimes(list, packet.time)
              /\ keyframes' = SubSeq(frames, d + 1, Len(frames))
              /\ packets' = IF d = 0 THEN list ELSE Trim(list, frames, d)
         ELSE packets' = list /\ UNCHANGED <<keyframes, saveTimes, unanswered>>
  BY DEF AddToReplayBuffer
<1>2. /\ stream \in Streams /\ buffer \in {"on", "gone"} /\ packets \in Seq(Packet)
      /\ keyframes \in Seq(Nat) /\ saveTimes \in Seq(Nat) /\ Packet' = Packet
  BY <1>1, IInvTypes DEF BufferTypes, Packet
<1>3. /\ packet \in Packet /\ packet.time \in Nat /\ packet.time # 0 /\ buffer = "on"
      /\ list \in Seq(Packet) /\ list # <<>> /\ Contiguous(list) /\ Last(list) = packet
      /\ packets = <<>> => packet.time = 1
  <2>1. packet.time # 0
    BY <1>1 DEF IInv, EncodeInv
  <2> QED
    BY <1>1, <2>1, NewList
<1>4. InBuffer' = packet.time
  BY <1>1 DEF InBuffer
<1>5. CASE packet.kind = "key"
  <2>1. KeyframeAdded(list, frames, d)
    BY <1>1, <1>5 DEF KeyframeAdded
  <2>2. HandleSaveTimes(Append(packets, packet), packet.time)
    BY <1>1, <1>5
  <2> HIDE DEF list, frames, d
  <2>3. /\ packets' \in Seq(Packet) /\ keyframes' \in Seq(Nat)
        /\ packets' # <<>> /\ Last(packets') = packet /\ Contiguous(packets')
        /\ keyframes' # <<>> /\ Last(keyframes') = packet.time
        /\ AtLeastSeconds(packets'[1].time, Last(keyframes'))
        /\ \A i \in 1 .. Len(keyframes') : \E j \in 1 .. Len(packets') :
             packets'[j] = [time |-> keyframes'[i], kind |-> "key"]
        /\ \A i, j \in 1 .. Len(keyframes') : i < j => keyframes'[i] < keyframes'[j]
    BY <1>1, <1>5, <2>1, KeyframeIInv
  <2>4. /\ saveTimes' \in Seq(Nat)
        /\ \A i, j \in 1 .. Len(saveTimes') : i <= j => saveTimes'[i] <= saveTimes'[j]
        /\ \A i \in 1 .. Len(saveTimes') : saveTimes'[i] > packet.time
        /\ unanswered' \subseteq ToSet(saveTimes')
    BY <1>1, <2>2, HandleIInv
  <2>5. BufferTypes'
    BY <1>1, <1>2, <2>3, <2>4 DEF BufferTypes
  <2>6. Contiguous(packets)' /\ LastKey' = packet.time
    BY <2>3 DEF Contiguous, LastKey
  <2>7. BufferInv'
    BY <1>1, <1>3, <1>4, <2>3, <2>6 DEF BufferInv, AtLeastSeconds
  <2>8. \A i \in 1 .. Len(saveTimes') : saveTimes'[i] >= packet.time
    <3> TAKE i \in 1 .. Len(saveTimes')
    <3>1. saveTimes'[i] > packet.time /\ saveTimes'[i] \in Nat
      BY <2>4, Ends
    <3> QED
      BY <1>3, <3>1
  <2>9. RequestInv' /\ SavesCover'
    BY <2>3, <2>4, <2>6, <2>8 DEF RequestInv, SavesCover
  <2> QED
    BY <2>5, <2>7, <2>9
<1>6. CASE packet.kind # "key"
  <2>1. packets' = list /\ UNCHANGED <<keyframes, saveTimes, unanswered>>
    BY <1>1, <1>6
  <2>2. BufferTypes'
    BY <1>1, <1>2, <1>3, <2>1 DEF BufferTypes
  <2>3. \A n \in 1 .. Len(packets) : n \in 1 .. Len(list) /\ list[n] = packets[n]
    <3>1. Len(list) = Len(packets) + 1 /\ Len(packets) \in Nat
      BY <1>2, <1>3, Appended, Ends
    <3> QED
      BY <1>2, <1>3, <3>1, Appended
  <2>4. AtLeastSeconds(list[1].time, LastKey)
    <3>1. list[1] = IF packets = <<>> THEN packet ELSE packets[1]
      BY <1>2, <1>3, Appended
    <3>2. CASE packets = <<>>
      BY <1>3, <3>1, <3>2 DEF AtLeastSeconds
    <3>3. CASE packets # <<>>
      BY <3>1, <3>3 DEF IInv, BufferInv
    <3> QED
      BY <3>2, <3>3
  <2> HIDE DEF list
  <2>5. \A i \in 1 .. Len(keyframes) : \E j \in 1 .. Len(list) :
          list[j] = [time |-> keyframes[i], kind |-> "key"]
    <3> TAKE i \in 1 .. Len(keyframes)
    <3>1. PICK j \in 1 .. Len(packets) : packets[j] = [time |-> keyframes[i], kind |-> "key"]
      BY DEF IInv, BufferInv
    <3> QED
      BY <2>3, <3>1
  <2>6. \A i, j \in 1 .. Len(keyframes) : i < j => keyframes[i] < keyframes[j]
    BY DEF IInv, BufferInv
  <2>7. Contiguous(packets)' /\ LastKey' = LastKey
    BY <1>3, <2>1 DEF Contiguous, LastKey
  <2>8. BufferInv'
    BY <1>1, <1>3, <1>4, <2>1, <2>4, <2>5, <2>6, <2>7 DEF BufferInv, AtLeastSeconds
  <2>9. RequestInv' /\ SavesCover'
    BY <1>3, <2>1, <2>7 DEF IInv, RequestInv, SavesCover
  <2> QED
    BY <2>2, <2>8, <2>9
<1> QED
  BY <1>5, <1>6

\* ReplayBuffer::AddPacket.
LEMMA AddIInv ==
  ASSUME IInv, AddToReplayBuffer
  PROVE  IInv'
<1> DEFINE list == Append(packets, packet)
<1>1. /\ encode = "replay" /\ encode' = "idle"
      /\ \/ file = "none" /\ CreateRecordingHelper(list)
         \/ UNCHANGED <<file, buffered, saveThread, thread, recordedAt>>
      /\ UNCHANGED <<stream, buffer, packet, holding, written, stopEvent, recorded, late>>
  BY DEF AddToReplayBuffer
<1>2. BufferTypes' /\ BufferInv' /\ RequestInv' /\ SavesCover'
  BY AddBuffer
<1>3. EncodeTypes'
  BY <1>1, IInvTypes DEF EncodeTypes
<1>4. EncodeInv'
  BY <1>1 DEF IInv, EncodeInv
<1>5. InFile' = InFile /\ InFile = packet.time
  BY <1>1 DEF InFile, ForFile
<1>6. CASE UNCHANGED <<file, buffered, saveThread, thread, recordedAt>>
  <2>1. written' \in BOOLEAN
    BY <1>1, IInvTypes DEF FileTypes
  <2>2. FileTypes' /\ FileInv'
    BY <1>1, <1>5, <1>6, <2>1, FileKept
  <2> QED
    BY <1>2, <1>3, <1>4, <2>2, IInvFromParts
<1>7. CASE file = "none" /\ CreateRecordingHelper(list)
  <2>1. /\ file' = "open" /\ buffered' = list /\ saveThread' = TRUE /\ thread' = "loop"
        /\ recordedAt' = Last(list).time
    BY <1>7 DEF CreateRecordingHelper
  <2>2. /\ packet \in Packet /\ packet.time \in Nat
        /\ list \in Seq(Packet) /\ list # <<>> /\ Contiguous(list) /\ Last(list) = packet
        /\ AtLeastSeconds(list[1].time, packet.time)
    BY <1>1, NewList, NewListLong
  <2> HIDE DEF list
  <2>3. FileTypes'
    BY <1>1, <2>1, <2>2, IInvTypes DEF FileTypes, Packet
  <2>4. recorded' = <<>> /\ ~stopEvent'
    BY <1>1, <1>7 DEF IInv, FileInv
  <2>5. Out' = <<>>
    BY <2>1, <2>4 DEF Out
  <2>6. Contiguous(buffered)'
    BY <2>1, <2>2 DEF Contiguous
  <2>7. AtLeastSeconds(buffered[1].time, recordedAt)'
    BY <2>1, <2>2 DEF AtLeastSeconds
  <2>8. Last(buffered').time = InFile'
    BY <1>5, <2>1, <2>2
  <2>9. FileInv'
    BY <2>1, <2>2, <2>4, <2>5, <2>6, <2>7, <2>8 DEF FileInv
  <2> QED
    BY <1>2, <1>3, <1>4, <2>3, <2>9, IInvFromParts
<1> QED
  BY <1>1, <1>6, <1>7

\* ~ReplayBuffer: what is asked for is answered by a save of everything.
LEMMA DestroyIInv ==
  ASSUME IInv, DestroyReplayBuffer
  PROVE  IInv'
<1>1. /\ encode = "replay" /\ packets # <<>> /\ encode' = "idle"
      /\ buffer' = "gone" /\ packets' = <<>> /\ keyframes' = <<>>
      /\ saveTimes' = <<>> /\ startRecording' = FALSE
      /\ IF saveTimes = <<>> THEN UNCHANGED unanswered ELSE StartSaveThread(packets, saveTimes)
      /\ UNCHANGED <<stream, packet>>
      /\ UNCHANGED <<file, buffered, saveThread, thread, holding, written, stopEvent,
                     recorded, recordedAt, late>>
  BY DEF DestroyReplayBuffer, fileVars
<1>2. /\ stream \in Streams /\ packets \in Seq(Packet) /\ saveTimes \in Seq(Nat)
      /\ Contiguous(packets)
  BY IInvTypes DEF BufferTypes, IInv, BufferInv
<1>3. BufferTypes'
  <2>1. <<>> \in Seq(Packet) /\ <<>> \in Seq(Nat) /\ Packet' = Packet
    BY <1>1, EmptySeq DEF Packet
  <2>2. packets' \in Seq(Packet') /\ keyframes' \in Seq(Nat) /\ saveTimes' \in Seq(Nat)
    BY <1>1, <2>1, Zenon
  <2>3. startRecording' \in BOOLEAN /\ buffer' \in {"on", "gone"} /\ stream' \in Streams
    BY <1>1, <1>2
  <2> QED
    BY <2>2, <2>3 DEF BufferTypes
<1>4. EncodeTypes'
  BY <1>1, IInvTypes DEF EncodeTypes
<1>5. EncodeInv'
  BY <1>1 DEF IInv, EncodeInv
<1>6. BufferInv' /\ RequestInv'
  BY <1>1 DEF BufferInv, RequestInv, Contiguous
<1>7. unanswered \subseteq ToSet(saveTimes)
  BY DEF IInv, SavesCover
<1>8. unanswered' = {}
  <2>1. CASE saveTimes = <<>>
    BY <1>1, <1>7, <2>1 DEF ToSet
  <2>2. CASE saveTimes # <<>>
    <3>1. /\ LastKey \in Nat /\ packets[1].time <= LastKey
          /\ AtLeastSeconds(packets[1].time, LastKey)
      BY <1>1, LastKeyframe
    <3>2. \A i \in 1 .. Len(saveTimes) :
            LastKey <= saveTimes[i] /\ saveTimes[i] <= Last(saveTimes)
      <4> TAKE i \in 1 .. Len(saveTimes)
      <4>1. /\ Len(saveTimes) \in 1 .. Len(saveTimes) /\ Last(saveTimes) = saveTimes[Len(saveTimes)]
            /\ i <= Len(saveTimes) /\ saveTimes[i] \in Nat
        BY <1>2, <2>2, Ends
      <4>2. saveTimes[i] >= LastKey /\ saveTimes[i] <= Last(saveTimes)
        BY <4>1 DEF IInv, RequestInv
      <4> QED
        BY <3>1, <4>1, <4>2
    <3>3. unanswered' = unanswered \ ToSet(saveTimes)
      BY <1>1, <1>2, <2>2, <3>1, <3>2, SaveAnswers
    <3> QED
      BY <1>7, <3>3
  <2> QED
    BY <2>1, <2>2
<1>9. SavesCover'
  BY <1>8 DEF SavesCover
<1>10. InFile' = InFile /\ written' \in BOOLEAN
  BY <1>1, IInvTypes DEF InFile, ForFile, FileTypes
<1>11. FileTypes' /\ FileInv'
  BY <1>1, <1>10, FileKept
<1> QED
  BY <1>3, <1>4, <1>5, <1>6, <1>9, <1>11, IInvFromParts
-----------------------------------------------------------------------------
(***************************************************************************)
(* The steps of the encode thread with the recording.                      *)
(***************************************************************************)

\* A recording with one more packet: what is missing before it is in the set.
LEMMA OneMore ==
  ASSUME NEW q \in Seq(Nat), NEW t \in Nat, NEW missing \in SUBSET Nat,
         \A i \in 1 .. Len(q) - 1 :
           q[i] < q[i + 1] /\ (q[i] + 1) .. (q[i + 1] - 1) \subseteq missing,
         q # <<>> => Last(q) < t /\ (Last(q) + 1) .. (t - 1) \subseteq missing
  PROVE  \A i \in 1 .. Len(Append(q, t)) - 1 :
           /\ Append(q, t)[i] < Append(q, t)[i + 1]
           /\ (Append(q, t)[i] + 1) .. (Append(q, t)[i + 1] - 1) \subseteq missing
<1> DEFINE w == Append(q, t)
<1>1. /\ Len(q) \in Nat /\ Len(w) = Len(q) + 1 /\ (q = <<>> <=> Len(q) = 0)
      /\ \A n \in 1 .. Len(q) : w[n] = q[n]
      /\ w[Len(q) + 1] = t
      /\ q # <<>> => Last(q) = q[Len(q)]
  BY Ends, Appended
<1> HIDE DEF w
<1>2. ASSUME NEW i \in 1 .. Len(w) - 1
      PROVE  w[i] < w[i + 1] /\ (w[i] + 1) .. (w[i + 1] - 1) \subseteq missing
  <2>1. CASE i = Len(q)
    <3>1. w[i] = Last(q) /\ w[i + 1] = t /\ q # <<>>
      BY <1>1, <2>1
    <3> QED
      BY <3>1
  <2>2. CASE i # Len(q)
    <3>1. i \in 1 .. Len(q) - 1 /\ i \in 1 .. Len(q) /\ i + 1 \in 1 .. Len(q)
      BY <1>1, <2>2
    <3>2. w[i] = q[i] /\ w[i + 1] = q[i + 1]
      BY <1>1, <3>1
    <3> QED
      BY <3>1, <3>2
  <2> QED
    BY <2>1, <2>2
<1> QED
  BY <1>2 DEF w

\* What the recording and its list are made of.
LEMMA RecordingTypes ==
  ASSUME IInv
  PROVE  /\ stream \in Streams /\ buffered \in Seq(Packet) /\ recorded \in Seq(Nat)
         /\ Out \in Seq(Nat) /\ holding.time \in Nat /\ late \subseteq Nat
         /\ packet.time \in Nat /\ (encode # "idle" => packet \in Packet)
<1>1. /\ stream \in Streams /\ buffered \in Seq(Packet) /\ recorded \in Seq(Nat)
      /\ late \subseteq Nat
      /\ holding \in [time : 0 .. Len(stream), kind : Kinds]
      /\ packet \in [time : 0 .. Len(stream), kind : Kinds]
  BY IInvTypes DEF BufferTypes, FileTypes, EncodeTypes
<1>2. /\ holding.time \in Nat /\ packet.time \in Nat
      /\ packet.time > 0 => packet \in Packet
  BY <1>1, StreamFacts
<1>3. encode # "idle" => packet.time > 0
  BY DEF IInv, EncodeInv
<1>4. Out \in Seq(Nat)
  BY <1>1, <1>2 DEF Out
<1> QED
  BY <1>1, <1>2, <1>3, <1>4

\* The waits for the thread.
LEMMA WaitIInv ==
  ASSUME IInv, Throttle \/ Drain
  PROVE  IInv'
<1>1. /\ encode \in {"throttle", "drain"} /\ encode' \in {"drain", "append"}
      /\ UNCHANGED <<stream, buffer, packets, keyframes, saveTimes, startRecording, unanswered>>
      /\ UNCHANGED <<stream, file, buffered, saveThread, thread, holding, stopEvent,
                     recorded, recordedAt, late>>
      /\ packet' = packet
  BY DEF Throttle, Drain, OnlyEncode, bufferVars, pastVars
<1>2. written' \in BOOLEAN
  <2>1. written \in BOOLEAN
    BY IInvTypes DEF FileTypes
  <2>2. CASE Throttle
    BY <2>1, <2>2 DEF Throttle
  <2>3. CASE Drain
    <3>1. written' = (thread = "exited" /\ written)
      BY <2>3 DEF Drain
    <3> QED
      BY <3>1
  <2> QED
    BY <2>2, <2>3
<1>3. EncodeTypes'
  BY <1>1, IInvTypes DEF EncodeTypes
<1>4. EncodeInv'
  BY <1>1 DEF IInv, EncodeInv
<1>5. InBuffer' = InBuffer /\ InFile' = InFile
  BY <1>1 DEF InBuffer, InFile, ForFile
<1>6. BufferTypes' /\ BufferInv' /\ RequestInv' /\ SavesCover'
  BY <1>1, <1>5, BufferKept
<1>7. FileTypes' /\ FileInv'
  BY <1>1, <1>2, <1>5, FileKept
<1> QED
  BY <1>3, <1>4, <1>6, <1>7, IInvFromParts

\* The encode thread is done with the recording and goes on to the buffer.
LEMMA BackToBuffer ==
  ASSUME IInv, encode \in {"append", "write"}, encode' = AfterFile,
         UNCHANGED <<stream, buffer, packets, keyframes, saveTimes, startRecording, unanswered>>,
         packet' = packet
  PROVE  /\ BufferTypes' /\ BufferInv' /\ RequestInv' /\ SavesCover'
         /\ EncodeTypes' /\ EncodeInv'
         /\ InFile = packet.time - 1 /\ InFile' = packet.time
<1>1. encode' \in {"idle", "replay"} /\ (encode' = "replay" <=> buffer = "on")
  BY DEF AfterFile
<1>2. EncodeTypes'
  BY <1>1, IInvTypes DEF EncodeTypes
<1>3. EncodeInv'
  BY <1>1 DEF IInv, EncodeInv
<1>4. buffer = "on" => InBuffer' = InBuffer
  BY <1>1 DEF InBuffer
<1>5. InFile = packet.time - 1 /\ InFile' = packet.time
  BY <1>1 DEF InFile, ForFile
<1>6. BufferTypes' /\ BufferInv' /\ RequestInv' /\ SavesCover'
  BY <1>4, BufferKept
<1> QED
  BY <1>2, <1>3, <1>5, <1>6

\* A packet is written to the file by the encode thread, the thread of the recording
\* having ended.  What that thread left behind is lost, and was appended too late.
LEMMA WrittenByEncode ==
  ASSUME IInv, file = "open", thread = "exited", InFile = packet.time - 1, encode # "idle",
         recorded' = Append(recorded, packet.time), thread' = thread, late' = late,
         recordedAt' = recordedAt
  PROVE  /\ recorded' \in Seq(Nat) /\ recorded' # <<>> /\ Out' = recorded'
         /\ Last(Out') = packet.time /\ AtLeastSeconds(Out'[1], recordedAt')
         /\ \A i \in 1 .. Len(Out') - 1 :
              /\ Out'[i] < Out'[i + 1]
              /\ (Out'[i] + 1) .. (Out'[i + 1] - 1) \subseteq late'
<1> DEFINE t == packet.time
<1>1. /\ stream \in Streams /\ buffered \in Seq(Packet) /\ recorded \in Seq(Nat)
      /\ late \in SUBSET Nat /\ t \in Nat
  BY RecordingTypes
<1>2. Out = recorded /\ Out' = recorded'
  BY DEF Out
<1>3. ~stopEvent
  BY DEF IInv, FileInv
<1>4. /\ recorded # <<>> /\ AtLeastSeconds(recorded[1], recordedAt)
      /\ \A i \in 1 .. Len(buffered) : buffered[i].time \in late
      /\ \A i \in 1 .. Len(recorded) - 1 :
           /\ recorded[i] < recorded[i + 1]
           /\ (recorded[i] + 1) .. (recorded[i + 1] - 1) \subseteq late
      /\ Contiguous(buffered)
      /\ buffered # <<>> => buffered[1].time = Last(recorded) + 1 /\ Last(buffered).time = t - 1
      /\ buffered = <<>> => Last(recorded) = t - 1
  BY <1>2, <1>3 DEF IInv, FileInv
<1>5. Last(recorded) \in Nat
  BY <1>1, <1>4, Ends
<1>6. Last(recorded) < t /\ (Last(recorded) + 1) .. (t - 1) \subseteq late
  <2> HIDE DEF t
  <2>1. CASE buffered = <<>>
    <3>1. Last(recorded) = t - 1
      BY <1>4, <2>1
    <3> QED
      BY <1>1, <1>5, <3>1
  <2>2. CASE buffered # <<>>
    <3>1. /\ buffered[1].time = Last(recorded) + 1 /\ Last(buffered).time = t - 1
          /\ Contiguous(buffered)
      BY <1>4, <2>2
    <3>2. /\ \A s \in buffered[1].time .. Last(buffered).time :
               \E n \in 1 .. Len(buffered) : buffered[n].time = s
          /\ \A n \in 1 .. Len(buffered) :
               buffered[1].time <= buffered[n].time /\ buffered[n].time <= Last(buffered).time
          /\ 1 \in 1 .. Len(buffered)
      BY <1>1, <2>2, <3>1, ContiguousProperties, Ends
    <3>3. \A s \in (Last(recorded) + 1) .. (t - 1) : s \in late
      BY <1>4, <3>1, <3>2
    <3>4. Last(recorded) + 1 <= t - 1
      BY <3>1, <3>2
    <3> QED
      BY <1>1, <1>5, <3>3, <3>4
  <2> QED
    BY <2>1, <2>2
<1> HIDE DEF t
<1>7. recorded' = Append(recorded, t)
  BY DEF t
<1>8. \A i \in 1 .. Len(recorded') - 1 :
        /\ recorded'[i] < recorded'[i + 1]
        /\ (recorded'[i] + 1) .. (recorded'[i + 1] - 1) \subseteq late
  BY <1>1, <1>4, <1>6, <1>7, OneMore
<1>9. /\ recorded' \in Seq(Nat) /\ recorded' # <<>> /\ Last(recorded') = t
      /\ recorded'[1] = recorded[1]
  BY <1>1, <1>4, <1>7, Appended
<1> QED
  BY <1>2, <1>4, <1>8, <1>9 DEF t, AtLeastSeconds

LEMMA WriteIInv ==
  ASSUME IInv, WritePacket
  PROVE  IInv'
<1>1. /\ encode = "write" /\ encode' = AfterFile
      /\ recorded' = Append(recorded, packet.time)
      /\ UNCHANGED <<stream, buffer, packets, keyframes, saveTimes, startRecording, unanswered>>
      /\ UNCHANGED <<file, buffered, saveThread, thread, holding, written, stopEvent>>
      /\ recordedAt' = recordedAt /\ late' = late /\ packet' = packet
  BY DEF WritePacket, bufferVars, fileVars
<1>2. /\ BufferTypes' /\ BufferInv' /\ RequestInv' /\ SavesCover'
      /\ EncodeTypes' /\ EncodeInv'
      /\ InFile = packet.time - 1 /\ InFile' = packet.time
  BY <1>1, BackToBuffer
<1>3. file = "open" /\ ~saveThread /\ buffered = <<>> /\ thread = "exited" /\ ~stopEvent
  BY <1>1 DEF IInv, EncodeInv, FileInv
<1>4. /\ recorded' \in Seq(Nat) /\ recorded' # <<>> /\ Out' = recorded'
      /\ Last(Out') = packet.time /\ AtLeastSeconds(Out'[1], recordedAt')
      /\ \A i \in 1 .. Len(Out') - 1 :
           /\ Out'[i] < Out'[i + 1]
           /\ (Out'[i] + 1) .. (Out'[i + 1] - 1) \subseteq late'
  BY <1>1, <1>2, <1>3, WrittenByEncode
<1>5. FileTypes'
  BY <1>1, <1>4, IInvTypes DEF FileTypes, Packet
<1>6. /\ file' = "open" /\ thread' = "exited" /\ buffered' = <<>> /\ ~stopEvent' /\ ~saveThread'
  BY <1>1, <1>3
<1>7. Contiguous(buffered)' /\ Len(buffered') = 0
  BY <1>6 DEF Contiguous
<1>8. AtLeastSeconds(Out[1], recordedAt)'
  BY <1>4 DEF AtLeastSeconds
<1>9. FileInv'
  BY <1>2, <1>4, <1>6, <1>7, <1>8 DEF FileInv
<1> QED
  BY <1>2, <1>5, <1>9, IInvFromParts

\* RecordingHelper::AddPacket, when it has the thread's list: it takes the file over
\* from a thread that has ended, or leaves the packet to it.
LEMMA AppendIInv ==
  ASSUME IInv, AppendPacket
  PROVE  IInv'
<1>1. /\ encode = "append" /\ encode' = AfterFile
      /\ UNCHANGED <<stream, buffer, packets, keyframes, saveTimes, startRecording, unanswered>>
      /\ UNCHANGED <<file, thread, holding, written, stopEvent>>
      /\ recordedAt' = recordedAt /\ packet' = packet
  BY DEF AppendPacket, bufferVars
<1>2. /\ BufferTypes' /\ BufferInv' /\ RequestInv' /\ SavesCover'
      /\ EncodeTypes' /\ EncodeInv'
      /\ InFile = packet.time - 1 /\ InFile' = packet.time
  BY <1>1, BackToBuffer
<1>3. file = "open" /\ saveThread /\ ~stopEvent
  BY <1>1 DEF IInv, EncodeInv, FileInv
<1>4. CASE thread = "exited"
  <2>1. /\ buffered' = <<>> /\ saveThread' = FALSE
        /\ recorded' = Append(recorded, packet.time) /\ late' = late
    BY <1>4 DEF AppendPacket, CaughtUp
  <2>2. /\ recorded' \in Seq(Nat) /\ recorded' # <<>> /\ Out' = recorded'
        /\ Last(Out') = packet.time /\ AtLeastSeconds(Out'[1], recordedAt')
        /\ \A i \in 1 .. Len(Out') - 1 :
             /\ Out'[i] < Out'[i + 1]
             /\ (Out'[i] + 1) .. (Out'[i + 1] - 1) \subseteq late'
    BY <1>1, <1>2, <1>3, <1>4, <2>1, WrittenByEncode
  <2>3. buffered' \in Seq(Packet')
    BY <2>1, EmptySeq
  <2>4. FileTypes'
    BY <1>1, <2>1, <2>2, <2>3, IInvTypes DEF FileTypes
  <2>5. file' = "open" /\ thread' = "exited" /\ ~stopEvent' /\ ~saveThread'
    BY <1>1, <1>3, <1>4, <2>1
  <2>6. Contiguous(buffered)' /\ Len(buffered') = 0
    BY <2>1 DEF Contiguous
  <2>7. AtLeastSeconds(Out[1], recordedAt)'
    BY <2>2 DEF AtLeastSeconds
  <2>8. FileInv'
    BY <1>2, <2>1, <2>2, <2>5, <2>6, <2>7 DEF FileInv
  <2> QED
    BY <1>2, <2>4, <2>8, IInvFromParts
<1>5. CASE thread # "exited"
  <2>1. /\ buffered' = Append(buffered, packet)
        /\ late' = IF thread = "leaving" THEN late \cup {packet.time} ELSE late
        /\ saveThread' = saveThread /\ recorded' = recorded
    BY <1>5 DEF AppendPacket, CaughtUp
  <2>2. /\ stream \in Streams /\ buffered \in Seq(Packet) /\ packet \in Packet
        /\ packet.time \in Nat /\ Out \in Seq(Nat) /\ late \subseteq Nat
    BY <1>1, RecordingTypes
  <2>3. Out' = Out /\ late \subseteq late' /\ late' \subseteq Nat
    BY <1>1, <2>1, <2>2 DEF Out
  <2>4. /\ Contiguous(buffered)
        /\ buffered # <<>> => Last(buffered).time = packet.time - 1
        /\ buffered = <<>> => Last(Out) = packet.time - 1 /\ Out # <<>>
        /\ Out # <<>> => AtLeastSeconds(Out[1], recordedAt)
        /\ Out # <<>> /\ buffered # <<>> => buffered[1].time = Last(Out) + 1
        /\ Out = <<>> => buffered # <<>> /\ AtLeastSeconds(buffered[1].time, recordedAt)
        /\ \A i \in 1 .. Len(Out) - 1 :
             /\ Out[i] < Out[i + 1]
             /\ (Out[i] + 1) .. (Out[i + 1] - 1) \subseteq late
        /\ thread = "leaving" => /\ recorded # <<>>
                                 /\ \A i \in 1 .. Len(buffered) : buffered[i].time \in late
        /\ thread # "off"
    BY <1>2, <1>3 DEF IInv, FileInv
  <2>5. /\ buffered' \in Seq(Packet) /\ buffered' # <<>> /\ Last(buffered') = packet
        /\ Len(buffered') = Len(buffered) + 1 /\ Len(buffered) \in Nat
        /\ \A n \in 1 .. Len(buffered) : buffered'[n] = buffered[n]
        /\ buffered'[Len(buffered) + 1] = packet
        /\ buffered'[1] = IF buffered = <<>> THEN packet ELSE buffered[1]
    BY <2>1, <2>2, Appended, Ends
  <2>6. Contiguous(buffered)'
    <3>1. buffered # <<>> => packet.time = Last(buffered).time + 1
      BY <2>2, <2>4
    <3>2. Contiguous(Append(buffered, packet))
      BY <2>2, <2>4, <3>1, ContiguousAppend
    <3> QED
      BY <2>1, <3>2 DEF Contiguous
  <2>7. Out # <<>> => buffered'[1].time = Last(Out) + 1
    BY <2>2, <2>4, <2>5
  <2>8. Out # <<>> => AtLeastSeconds(Out[1], recordedAt)'
    BY <1>1, <2>3, <2>4 DEF AtLeastSeconds
  <2>9. Out = <<>> => AtLeastSeconds(buffered[1].time, recordedAt)'
    BY <1>1, <2>4, <2>5 DEF AtLeastSeconds
  <2>10. thread = "leaving" => \A i \in 1 .. Len(buffered') : buffered'[i].time \in late'
    <3> SUFFICES ASSUME thread = "leaving", NEW i \in 1 .. Len(buffered')
                 PROVE  buffered'[i].time \in late'
      OBVIOUS
    <3>1. late' = late \cup {packet.time}
      BY <2>1
    <3>2. CASE i = Len(buffered) + 1
      BY <2>5, <3>1, <3>2
    <3>3. CASE i # Len(buffered) + 1
      <4>1. i \in 1 .. Len(buffered)
        BY <2>5, <3>3
      <4> QED
        BY <2>4, <2>5, <3>1, <4>1
    <3> QED
      BY <3>2, <3>3
  <2>11. \A i \in 1 .. Len(Out) - 1 :
           /\ Out[i] < Out[i + 1]
           /\ (Out[i] + 1) .. (Out[i + 1] - 1) \subseteq late'
    BY <2>3, <2>4
  <2>12. Packet' = Packet
    BY <1>1 DEF Packet
  <2>13. FileTypes'
    BY <1>1, <2>1, <2>3, <2>5, <2>12, IInvTypes DEF FileTypes
  <2>14. file' = "open" /\ thread' = thread /\ ~stopEvent' /\ saveThread'
    BY <1>1, <1>3, <2>1
  <2>15. Last(buffered').time = InFile'
    BY <1>2, <2>5
  <2>16. FileInv'
    BY <1>5, <2>1, <2>3, <2>4, <2>5, <2>6, <2>7, <2>8, <2>9, <2>10, <2>11, <2>14, <2>15 DEF FileInv
  <2> QED
    BY <1>2, <2>13, <2>16, IInvFromParts
<1> QED
  BY <1>4, <1>5
-----------------------------------------------------------------------------
(***************************************************************************)
(* The steps of the recording's thread, and its end.                       *)
(***************************************************************************)

\* The recording's thread has nothing to do with the buffer and the encode thread.
LEMMA ThreadsOwn ==
  ASSUME IInv,
         UNCHANGED <<stream, buffer, packets, keyframes, saveTimes, startRecording, encode, packet,
                     saveThread, unanswered>>,
         file' = file \/ file # "open"
  PROVE  /\ BufferTypes' /\ BufferInv' /\ RequestInv' /\ SavesCover'
         /\ EncodeTypes' /\ EncodeInv' /\ InFile' = InFile /\ Packet' = Packet
<1>1. InBuffer' = InBuffer /\ InFile' = InFile /\ Packet' = Packet
  BY DEF InBuffer, InFile, ForFile, Packet
<1>2. BufferTypes' /\ BufferInv' /\ RequestInv' /\ SavesCover'
  BY <1>1, BufferKept
<1>3. EncodeTypes'
  BY IInvTypes DEF EncodeTypes
<1>4. EncodeInv'
  BY DEF IInv, EncodeInv
<1> QED
  BY <1>1, <1>2, <1>3, <1>4

LEMMA TakeIInv ==
  ASSUME IInv, TakePacket
  PROVE  IInv'
<1>1. /\ thread = "loop"
      /\ UNCHANGED <<stream, buffer, packets, keyframes, saveTimes, startRecording, encode, packet,
                     saveThread, unanswered>>
      /\ UNCHANGED <<file, written, stopEvent, recorded, recordedAt, late>>
  BY DEF TakePacket, bufferVars, pastVars
<1>2. /\ BufferTypes' /\ BufferInv' /\ RequestInv' /\ SavesCover'
      /\ EncodeTypes' /\ EncodeInv' /\ InFile' = InFile /\ Packet' = Packet
  BY <1>1, ThreadsOwn
<1>3. /\ stream \in Streams /\ buffered \in Seq(Packet) /\ recorded \in Seq(Nat)
      /\ late \in SUBSET Nat
  BY RecordingTypes
<1>4. Out = recorded /\ file # "none"
  BY <1>1 DEF Out, IInv, FileInv
<1>5. CASE stopEvent \/ buffered = <<>>
  <2>1. thread' = "leaving" /\ buffered' = buffered /\ holding' = holding
    BY <1>5 DEF TakePacket
  <2>2. FileTypes'
    BY <1>1, <1>2, <2>1, IInvTypes DEF FileTypes
  <2>3. Out' = Out
    BY <1>1, <1>4, <2>1 DEF Out
  <2>4. ~stopEvent => recorded # <<>> /\ Len(buffered) = 0
    BY <1>3, <1>4, <1>5 DEF IInv, FileInv
  <2>5. FileInv'
    BY <1>1, <1>2, <1>4, <2>1, <2>3, <2>4 DEF IInv, FileInv, Contiguous
  <2> QED
    BY <1>2, <2>2, <2>5, IInvFromParts
<1>6. CASE ~(stopEvent \/ buffered = <<>>)
  <2>1. thread' = "write" /\ holding' = Head(buffered) /\ buffered' = Tail(buffered)
    BY <1>6 DEF TakePacket
  <2>2. /\ Len(buffered) \in Nat /\ Len(buffered) > 0 /\ Head(buffered) = buffered[1]
        /\ Last(buffered) = buffered[Len(buffered)] /\ Head(buffered) \in Packet
        /\ buffered' \in Seq(Packet) /\ Len(buffered') = Len(buffered) - 1
        /\ \A n \in 1 .. Len(buffered') : buffered'[n] = buffered[n + 1]
    BY <1>3, <1>6, <2>1, Ends
  <2>3. /\ holding'.time = buffered[1].time /\ holding'.time \in Nat
        /\ holding' \in [time : 0 .. Len(stream), kind : Kinds]
    <3>1. /\ Head(buffered).time \in 1 .. Len(stream) /\ Head(buffered).kind \in Kinds
          /\ Head(buffered) = [time |-> Head(buffered).time, kind |-> Head(buffered).kind]
          /\ Len(stream) \in Nat
      BY <1>3, <2>2, StreamFacts
    <3> QED
      BY <2>1, <2>2, <3>1
  <2>4. FileTypes'
    BY <1>1, <1>2, <2>1, <2>2, <2>3, IInvTypes DEF FileTypes
  <2>5. Out' = Append(recorded, holding'.time)
    BY <1>1, <2>1 DEF Out
  <2>6. /\ Contiguous(buffered)
        /\ \A i \in 1 .. Len(recorded) - 1 :
             /\ recorded[i] < recorded[i + 1]
             /\ (recorded[i] + 1) .. (recorded[i + 1] - 1) \subseteq late
        /\ recorded # <<>> => /\ AtLeastSeconds(recorded[1], recordedAt)
                              /\ buffered[1].time = Last(recorded) + 1
        /\ recorded = <<>> => AtLeastSeconds(buffered[1].time, recordedAt)
        /\ file = "open" => Last(buffered).time = InFile
        /\ file = "open" => saveThread /\ ~stopEvent
        /\ file # "closed"
    BY <1>1, <1>4, <1>6 DEF IInv, FileInv
  <2>7. \A i \in 1 .. Len(Out') - 1 :
          /\ Out'[i] < Out'[i + 1]
          /\ (Out'[i] + 1) .. (Out'[i + 1] - 1) \subseteq late
    <3>1. recorded # <<>> => /\ Last(recorded) < holding'.time
                             /\ (Last(recorded) + 1) .. (holding'.time - 1) \subseteq late
      <4> SUFFICES ASSUME recorded # <<>>
                   PROVE  /\ Last(recorded) < holding'.time
                          /\ (Last(recorded) + 1) .. (holding'.time - 1) \subseteq late
        OBVIOUS
      <4>1. Last(recorded) \in Nat /\ holding'.time = Last(recorded) + 1
        BY <1>3, <2>3, <2>6, Ends
      <4> QED
        BY <4>1
    <3> QED
      BY <1>3, <2>3, <2>5, <2>6, <3>1, OneMore
  <2>8. /\ Out' # <<>> /\ Last(Out') = buffered[1].time
        /\ AtLeastSeconds(Out'[1], recordedAt)
    BY <1>3, <2>3, <2>5, <2>6, Appended
  <2>9. Contiguous(buffered)'
    <3>1. Len(buffered) = Len(buffered') + 1
      BY <2>2
    <3>2. \A list \in Seq(Packet) :
            /\ Len(buffered) = Len(list) + 1
            /\ \A n \in 1 .. Len(list) : list[n] = buffered[n + 1]
            => Contiguous(list)
      BY <1>3, <2>6, ContiguousSuffix
    <3>3. Contiguous(Tail(buffered))
      BY <2>1, <2>2, <3>1, <3>2
    <3> QED
      BY <2>1, <3>3 DEF Contiguous
  <2>10. Last(buffered).time = buffered[1].time + Len(buffered) - 1 /\ buffered[1].time \in Nat
    BY <1>3, <1>6, <2>2, <2>3, <2>6, ContiguousProperties
  <2>11. buffered' # <<>> => /\ buffered'[1].time = Last(Out') + 1
                             /\ Last(buffered') = Last(buffered)
    <3> SUFFICES ASSUME buffered' # <<>>
                 PROVE  /\ buffered'[1].time = Last(Out') + 1
                        /\ Last(buffered') = Last(buffered)
      OBVIOUS
    <3>1. /\ Len(buffered') > 0 /\ 1 \in 1 .. Len(buffered')
          /\ Len(buffered') \in 1 .. Len(buffered') /\ Last(buffered') = buffered'[Len(buffered')]
          /\ 2 \in 1 .. Len(buffered)
      BY <2>2, Ends
    <3>2. buffered'[1] = buffered[2] /\ Last(buffered') = Last(buffered)
      <4>1. 1 + 1 = 2 /\ Len(buffered') + 1 = Len(buffered)
        BY <2>2
      <4> QED
        BY <2>2, <3>1, <4>1
    <3>3. buffered[2].time = buffered[1].time + 2 - 1
      BY <2>6, <3>1 DEF Contiguous
    <3> QED
      BY <2>8, <2>10, <3>2, <3>3
  <2>12. buffered' = <<>> => Last(Out') = Last(buffered).time
    <3> SUFFICES ASSUME buffered' = <<>> PROVE Last(Out') = Last(buffered).time
      OBVIOUS
    <3>1. Len(buffered) = 1
      BY <2>2
    <3> QED
      BY <2>2, <2>8, <3>1
  <2>13. file' = "open" => IF buffered' # <<>> THEN Last(buffered').time = InFile'
                           ELSE Last(Out') = InFile'
    BY <1>1, <1>2, <2>6, <2>11, <2>12
  <2>14. AtLeastSeconds(Out[1], recordedAt)'
    BY <1>1, <2>8 DEF AtLeastSeconds
  <2>15. /\ file' # "none" /\ file' # "closed" /\ (file' = "open" => saveThread' /\ ~stopEvent')
         /\ late' = late /\ recorded' = recorded
    BY <1>1, <1>4, <2>6
  <2>16. FileInv'
    BY <2>1, <2>7, <2>8, <2>9, <2>11, <2>13, <2>14, <2>15 DEF FileInv
  <2> QED
    BY <1>2, <2>4, <2>16, IInvFromParts
<1> QED
  BY <1>5, <1>6

LEMMA WriteHeldIInv ==
  ASSUME IInv, WriteHeld
  PROVE  IInv'
<1>1. /\ thread = "write" /\ thread' = "loop"
      /\ recorded' = Append(recorded, holding.time) /\ written' = TRUE
      /\ UNCHANGED <<stream, buffer, packets, keyframes, saveTimes, startRecording, encode, packet,
                     saveThread, unanswered>>
      /\ UNCHANGED <<file, buffered, holding, stopEvent, recordedAt, late>>
  BY DEF WriteHeld, bufferVars
<1>2. /\ BufferTypes' /\ BufferInv' /\ RequestInv' /\ SavesCover'
      /\ EncodeTypes' /\ EncodeInv' /\ InFile' = InFile /\ Packet' = Packet
  BY <1>1, ThreadsOwn
<1>3. Out' = Out /\ Out \in Seq(Nat) /\ recorded' = Out
  BY <1>1, RecordingTypes DEF Out
<1>4. FileTypes'
  BY <1>1, <1>2, <1>3, IInvTypes DEF FileTypes
<1>5. FileInv'
  BY <1>1, <1>2, <1>3 DEF IInv, FileInv, Contiguous
<1> QED
  BY <1>2, <1>4, <1>5, IInvFromParts

LEMMA LeaveIInv ==
  ASSUME IInv, Leave
  PROVE  IInv'
<1>1. /\ thread = "leaving" /\ thread' = "exited"
      /\ UNCHANGED <<stream, buffer, packets, keyframes, saveTimes, startRecording, encode, packet,
                     saveThread, unanswered>>
      /\ UNCHANGED <<file, buffered, holding, written, stopEvent, recorded, recordedAt, late>>
  BY DEF Leave, bufferVars, pastVars
<1>2. /\ BufferTypes' /\ BufferInv' /\ RequestInv' /\ SavesCover'
      /\ EncodeTypes' /\ EncodeInv' /\ InFile' = InFile /\ Packet' = Packet
  BY <1>1, ThreadsOwn
<1>3. Out' = Out
  BY <1>1 DEF Out
<1>4. FileTypes'
  BY <1>1, <1>2, IInvTypes DEF FileTypes
<1>5. FileInv'
  BY <1>1, <1>2, <1>3 DEF IInv, FileInv, Contiguous
<1> QED
  BY <1>2, <1>4, <1>5, IInvFromParts

LEMMA CloseIInv ==
  ASSUME IInv, StopWaiting \/ CloseFile
  PROVE  IInv'
<1>1. /\ file \in {"closing", "stopping"} /\ file' \in {"stopping", "closed"}
      /\ file' = "closed" => thread = "exited"
      /\ stopEvent' \in {stopEvent, TRUE}
      /\ UNCHANGED <<stream, buffer, packets, keyframes, saveTimes, startRecording, encode, packet,
                     saveThread, unanswered>>
      /\ UNCHANGED <<buffered, thread, holding, written, recorded, recordedAt, late>>
  BY DEF StopWaiting, CloseFile, bufferVars, pastVars
<1>2. /\ BufferTypes' /\ BufferInv' /\ RequestInv' /\ SavesCover'
      /\ EncodeTypes' /\ EncodeInv' /\ InFile' = InFile /\ Packet' = Packet
  BY <1>1, ThreadsOwn
<1>3. Out' = Out
  BY <1>1 DEF Out
<1>4. stopEvent' \in BOOLEAN
  BY <1>1, IInvTypes DEF FileTypes
<1>5. FileTypes'
  BY <1>1, <1>2, <1>4, IInvTypes DEF FileTypes
<1>6. file # "none" /\ file' # "none" /\ file' # "open" /\ (~stopEvent' => ~stopEvent)
  <2>1. CASE StopWaiting
    BY <2>1 DEF StopWaiting
  <2>2. CASE CloseFile
    BY <2>2 DEF CloseFile
  <2> QED
    BY <2>1, <2>2
<1>7. /\ thread # "off" /\ Contiguous(buffered)
      /\ \A i \in 1 .. Len(Out) - 1 :
           /\ Out[i] < Out[i + 1]
           /\ (Out[i] + 1) .. (Out[i + 1] - 1) \subseteq late
      /\ Out # <<>> => /\ AtLeastSeconds(Out[1], recordedAt)
                       /\ buffered # <<>> => buffered[1].time = Last(Out) + 1
      /\ Out = <<>> => buffered # <<>> /\ AtLeastSeconds(buffered[1].time, recordedAt)
      /\ thread \in {"leaving", "exited"} /\ ~stopEvent =>
           /\ recorded # <<>>
           /\ \A i \in 1 .. Len(buffered) : buffered[i].time \in late
  BY <1>6 DEF IInv, FileInv
<1>8. Contiguous(buffered)'
  BY <1>1, <1>7 DEF Contiguous
<1>9. AtLeastSeconds(Out[1], recordedAt)' <=> AtLeastSeconds(Out[1], recordedAt)
  BY <1>1, <1>3 DEF AtLeastSeconds
<1>10. AtLeastSeconds(buffered[1].time, recordedAt)' <=> AtLeastSeconds(buffered[1].time, recordedAt)
  BY <1>1 DEF AtLeastSeconds
<1>11. FileInv'
  BY <1>1, <1>3, <1>6, <1>7, <1>8, <1>9, <1>10 DEF FileInv
<1> QED
  BY <1>2, <1>5, <1>11, IInvFromParts
-----------------------------------------------------------------------------
(***************************************************************************)
(* The theorems.                                                           *)
(***************************************************************************)

LEMMA NextIInv ==
  ASSUME IInv, [Next]_vars
  PROVE  IInv'
<1>1. CASE SaveReplayBuffer
  BY <1>1, SaveIInv
<1>2. CASE StartRecordingFromReplayBuffer
  BY <1>2, StartRecordingIInv
<1>3. CASE SendPacket
  BY <1>3, SendIInv
<1>4. CASE StopRecording
  BY <1>4, StopRecordingIInv
<1>5. CASE AddToReplayBuffer
  BY <1>5, AddIInv
<1>6. CASE DestroyReplayBuffer
  BY <1>6, DestroyIInv
<1>7. CASE Throttle \/ Drain
  BY <1>7, WaitIInv
<1>8. CASE AppendPacket
  BY <1>8, AppendIInv
<1>9. CASE WritePacket
  BY <1>9, WriteIInv
<1>10. CASE TakePacket
  BY <1>10, TakeIInv
<1>11. CASE WriteHeld
  BY <1>11, WriteHeldIInv
<1>12. CASE Leave
  BY <1>12, LeaveIInv
<1>13. CASE StopWaiting \/ CloseFile
  BY <1>13, CloseIInv
<1>14. CASE UNCHANGED vars
  <2>1. /\ UNCHANGED <<stream, buffer, packets, keyframes, saveTimes, startRecording, unanswered>>
        /\ UNCHANGED <<encode, packet>>
        /\ UNCHANGED <<file, buffered, saveThread, thread, holding, written, stopEvent,
                       recorded, recordedAt, late>>
    BY <1>14 DEF vars, bufferVars, fileVars, pastVars
  <2>2. /\ BufferTypes' /\ BufferInv' /\ RequestInv' /\ SavesCover'
        /\ EncodeTypes' /\ EncodeInv' /\ InFile' = InFile
    BY <2>1, ThreadsOwn
  <2>3. written' \in BOOLEAN
    BY <2>1, IInvTypes DEF FileTypes
  <2>4. FileTypes' /\ FileInv'
    BY <2>1, <2>2, <2>3, FileKept
  <2> QED
    BY <2>2, <2>4, IInvFromParts
<1> QED
  BY <1>1, <1>2, <1>3, <1>4, <1>5, <1>6, <1>7, <1>8, <1>9, <1>10, <1>11, <1>12, <1>13, <1>14
     DEF Next, EncodeStep, ThreadStep

\* The invariant holds throughout.
THEOREM InductiveInvariant == Spec => []IInv
<1>1. Spec => Init /\ [][Next]_vars
  BY PTL DEF Spec
<1> QED
  BY <1>1, InitIInv, NextIInv, PTL

\* The variables always have their types, and every iterator that the buffer keeps
\* points at a key frame that is still there (ReplayBuffer.cpp, keyframes).
THEOREM TypeCorrect == Spec => []TypeOK
<1>1. IInv => TypeOK
  BY DEF IInv
<1> QED
  BY <1>1, InductiveInvariant, PTL

\* Every request to save is answered by a file that has the last seconds before it
\* and everything up to it, or it still waits for its key frame.
THEOREM SavesAreComplete == Spec => []SavesCover
<1>1. IInv => SavesCover
  BY DEF IInv
<1> QED
  BY <1>1, InductiveInvariant, PTL

\* A recording that is made from the replay buffer has everything from its first
\* packet on, once and in order, but for what was appended while its thread was
\* leaving.
THEOREM RecordingHasNoGap == Spec => []RecordingGapless
<1>1. ASSUME IInv PROVE RecordingGapless
  <2>1. /\ recorded \in Seq(Nat) /\ Out \in Seq(Nat) /\ buffered \in Seq(Packet)
        /\ Len(recorded) \in Nat /\ Len(Out) \in Nat /\ holding.time \in Nat
    BY <1>1, RecordingTypes, Ends
  <2>2. Len(recorded) <= Len(Out) /\ \A i \in 1 .. Len(recorded) : Out[i] = recorded[i]
    BY <2>1, Appended DEF Out
  <2>3. \A i \in 1 .. Len(recorded) - 1 :
          /\ recorded[i] < recorded[i + 1]
          /\ (recorded[i] + 1) .. (recorded[i + 1] - 1) \subseteq late
    <3> TAKE i \in 1 .. Len(recorded) - 1
    <3>1. /\ i \in 1 .. Len(Out) - 1 /\ i \in 1 .. Len(recorded) /\ i + 1 \in 1 .. Len(recorded)
      <4>1. i \in Int /\ 1 <= i /\ i <= Len(recorded) - 1 /\ Len(recorded) <= Len(Out)
        BY <2>1, <2>2
      <4> QED
        BY <2>1, <4>1
    <3>2. Out[i] = recorded[i] /\ Out[i + 1] = recorded[i + 1]
      BY <2>2, <3>1
    <3> QED
      BY <1>1, <3>1, <3>2 DEF IInv, FileInv
  <2>4. recorded # <<>> => AtLeastSeconds(Head(recorded), recordedAt)
    <3> SUFFICES ASSUME recorded # <<>> PROVE AtLeastSeconds(Head(recorded), recordedAt)
      OBVIOUS
    <3>1. Head(recorded) = recorded[1] /\ 1 \in 1 .. Len(recorded)
      BY <2>1, Ends
    <3>2. Out # <<>> /\ Out[1] = Head(recorded)
      BY <2>1, <2>2, <3>1, Ends
    <3>3. AtLeastSeconds(Out[1], recordedAt)
      BY <1>1, <3>2 DEF IInv, FileInv
    <3> QED
      BY <3>2, <3>3
  <2>5. file = "closed" => thread = "exited"
    BY <1>1 DEF IInv, FileInv
  <2>6. file = "closed" /\ ~stopEvent => ToSet(TimesOf(buffered)) \subseteq late
    <3> SUFFICES ASSUME file = "closed", ~stopEvent PROVE ToSet(TimesOf(buffered)) \subseteq late
      OBVIOUS
    <3>1. \A i \in 1 .. Len(buffered) : buffered[i].time \in late
      BY <1>1, <2>5 DEF IInv, FileInv
    <3>2. DOMAIN buffered = 1 .. Len(buffered)
      BY <2>1, Ends
    <3> QED
      BY <3>1, <3>2 DEF ToSet, TimesOf
  <2> QED
    BY <2>3, <2>4, <2>5, <2>6 DEF RecordingGapless
<1> QED
  BY <1>1, InductiveInvariant, PTL
=============================================================================
