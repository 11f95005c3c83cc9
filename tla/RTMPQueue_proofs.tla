-------------------------- MODULE RTMPQueue_proofs --------------------------
(***************************************************************************)
(* Proofs about RTMPQueue, for any thresholds, any number of packets that  *)
(* are held back and any streams: whatever is dropped, in the queue or on  *)
(* arrival, and whenever the publisher is destroyed, each frame is         *)
(* accounted for, the send thread leaves nothing behind that it could have *)
(* seen, and no frame is sent without the one it is decoded from.  If audio*)
(* is given in order, no timestamp underflows.                             *)
(***************************************************************************)
EXTENDS RTMPQueue, SequenceTheorems, FiniteSetTheorems, WellFoundedInduction, TLAPS

-----------------------------------------------------------------------------
(***************************************************************************)
(* The inductive invariant.                                                *)
(***************************************************************************)

\* A packet of any stream; nothing is said of its time.
AnyPacket == [id : Nat, type : VideoDisposable .. Audio, time : Int, ref : Nat]

\* No packet is twice in a list.
Distinct(q) == \A i, j \in 1 .. Len(q) : q[i].id = q[j].id => i = j

KindInv ==
  /\ connection \in {"none", "running", "up", "failed"}
  /\ sender \in {"waiting", "sending", "checking", "done"}
  /\ destroyer \in {"none", "joining", "flushing", "done"}
  /\ stream \in Streams /\ given \in 0 .. Len(stream)
  /\ held \in Seq(AnyPacket) /\ queue \in Seq(AnyPacket)
  /\ wait \in VideoDisposable .. VideoHighest
  /\ first \in Int /\ audioOffset \in Int /\ anchor \in Nat /\ base \in Nat /\ dumped \in Int
  /\ total \in [video : Int, audio : Int]
  /\ sent \in [video : Int, audio : Int, key : Nat]

\* A packet that has been given is held back once at most, or once in the queue.
OnceInv ==
  /\ Distinct(held) /\ Distinct(queue)
  /\ IDs(Range(held)) \cup IDs(Range(queue)) \subseteq 1 .. given
  /\ IDs(Range(held)) \cap IDs(Range(queue)) = {}

\* The send thread is told to exit when nothing is held back; between its look at
\* the queue and its end, only what it misses is queued.
ExitInv ==
  /\ loopExit => held = <<>> /\ destroyer \in {"flushing", "done"}
  /\ sender = "done" => loopExit
  /\ sender \in {"checking", "done"} => IDs(Range(queue)) \subseteq missed

\* The buffer is full for the first time while the stream is not stopping yet.
HeadersInv ==
  /\ stopping => destroyer # "none" \/ connection = "failed"
  /\ heldFull => headers

IInv == KindInv /\ OnceInv /\ PacketsAccounted /\ ExitInv /\ HeadersInv
-----------------------------------------------------------------------------
(***************************************************************************)
(* Recursion and sequences.                                                *)
(***************************************************************************)

\* A set of natural numbers has a least element.
LEMMA SmallestExists ==
  ASSUME NEW T \in SUBSET Nat, T # {}
  PROVE  \E m \in T : \A n \in T : m <= n
<1> DEFINE R == OpToRel(<, Nat)
<1>1. IsWellFoundedOn(R, Nat)
  BY NatLessThanWellFounded, Zenon
<1>2. \A m, n \in Nat : m < n => <<m, n>> \in R
  BY Zenon DEF OpToRel
<1> HIDE DEF R
<1>3. PICK m \in T : \A n \in T : <<n, m>> \notin R
  BY <1>1, WFMin
<1>4. \A n \in T : ~(n < m)
  BY <1>2, <1>3
<1> QED
  BY <1>4

\* What holds at zero and is kept by each step holds throughout.
LEMMA Steps ==
  ASSUME NEW N \in Nat, NEW G, 0 \in G,
         \A n \in 1 .. N : n - 1 \in G => n \in G
  PROVE  \A n \in 0 .. N : n \in G
<1> DEFINE T == {n \in 0 .. N : n \notin G}
<1> SUFFICES ASSUME T # {} PROVE FALSE
  OBVIOUS
<1>1. PICK n \in T : \A m \in T : n <= m
  <2>1. T \in SUBSET Nat
    OBVIOUS
  <2> HIDE DEF T
  <2> QED
    BY <2>1, SmallestExists
<1>2. n \in 0 .. N /\ n \notin G /\ n # 0
  BY <1>1
<1>3. n - 1 \in 0 .. N /\ n - 1 \notin T
  <2> HIDE DEF T
  <2> QED
    BY <1>1, <1>2
<1> QED
  BY <1>2, <1>3

\* A function that is defined by a step from each number to the next exists.
Recurses(f, N, X, start, step) ==
  f \in [0 .. N -> X] /\ f[0] = start /\ \A n \in 1 .. N : f[n] = step[n][f[n - 1]]

LEMMA RecursionExists ==
  ASSUME NEW N \in Nat, NEW X, NEW start \in X, NEW step,
         \A n \in 1 .. N : \A x \in X : step[n][x] \in X
  PROVE  \E f : Recurses(f, N, X, start, step)
<1> DEFINE Ok(m) == \E f \in [0 .. m -> X] :
                      f[0] = start /\ \A n \in 1 .. m : f[n] = step[n][f[n - 1]]
           G == {m \in 0 .. N : Ok(m)}
<1>1. 0 \in G
  <2> DEFINE f == [n \in 0 .. 0 |-> start]
  <2>1. f \in [0 .. 0 -> X] /\ f[0] = start
    OBVIOUS
  <2> HIDE DEF f
  <2>2. Ok(0)
    BY <2>1
  <2> QED
    BY <2>2
<1>2. ASSUME NEW m \in 1 .. N, m - 1 \in G
      PROVE  m \in G
  <2>1. PICK g \in [0 .. m - 1 -> X] :
          g[0] = start /\ \A n \in 1 .. m - 1 : g[n] = step[n][g[n - 1]]
    BY <1>2
  <2>2. m - 1 \in 0 .. m - 1 /\ \A n \in 1 .. m - 1 : n \in 0 .. m - 1 /\ n - 1 \in 0 .. m - 1
    OBVIOUS
  <2> DEFINE f == [n \in 0 .. m |-> IF n = m THEN step[m][g[m - 1]] ELSE g[n]]
  <2>3. \A n \in 0 .. m - 1 : f[n] = g[n]
    OBVIOUS
  <2>4. f[m] = step[m][f[m - 1]]
    BY <2>2, <2>3
  <2>5. step[m][g[m - 1]] \in X
    BY <2>1, <2>2
  <2>6. f \in [0 .. m -> X]
    BY <2>1, <2>5
  <2>7. f[0] = start
    BY <2>1, <2>3
  <2> HIDE DEF f
  <2>8. \A n \in 1 .. m : f[n] = step[n][f[n - 1]]
    <3> TAKE n \in 1 .. m
    <3>1. CASE n = m
      BY <2>4, <3>1
    <3>2. CASE n \in 1 .. m - 1
      BY <2>1, <2>2, <2>3, <3>2
    <3> QED
      BY <3>1, <3>2
  <2>9. Ok(m)
    BY <2>6, <2>7, <2>8
  <2> QED
    BY <2>9
<1>3. \A m \in 0 .. N : m \in G
  <2> HIDE DEF G
  <2> QED
    BY <1>1, <1>2, Steps
<1> QED
  BY <1>3 DEF Recurses

\* Members of a list, and the list without its head.
LEMMA Ends ==
  ASSUME NEW q \in Seq(AnyPacket)
  PROVE  /\ Len(q) \in Nat /\ DOMAIN q = 1 .. Len(q) /\ (q = <<>> <=> Len(q) = 0)
         /\ \A n \in 1 .. Len(q) : q[n] \in AnyPacket /\ q[n] \in Range(q)
         /\ \A p \in Range(q) : p \in AnyPacket /\ \E n \in 1 .. Len(q) : p = q[n]
         /\ q # <<>> => /\ 1 \in 1 .. Len(q) /\ Head(q) = q[1] /\ Head(q) \in Range(q)
                        /\ Tail(q) \in Seq(AnyPacket) /\ Len(Tail(q)) = Len(q) - 1
                        /\ \A n \in 1 .. Len(q) - 1 : Tail(q)[n] = q[n + 1]
                        /\ Range(q) = Range(Tail(q)) \cup {Head(q)}
<1>1. Len(q) \in Nat /\ DOMAIN q = 1 .. Len(q) /\ \A n \in 1 .. Len(q) : q[n] \in AnyPacket
  BY LenProperties, ElementOfSeq
<1>2. q = <<>> <=> Len(q) = 0
  BY EmptySeq
<1>3. Range(q) = {q[n] : n \in 1 .. Len(q)}
  BY <1>1 DEF Range
<1>4. ASSUME q # <<>>
      PROVE  /\ 1 \in 1 .. Len(q) /\ Head(q) = q[1] /\ Head(q) \in Range(q)
             /\ Tail(q) \in Seq(AnyPacket) /\ Len(Tail(q)) = Len(q) - 1
             /\ \A n \in 1 .. Len(q) - 1 : Tail(q)[n] = q[n + 1]
             /\ Range(q) = Range(Tail(q)) \cup {Head(q)}
  <2>1. /\ Head(q) = q[1] /\ Tail(q) \in Seq(AnyPacket) /\ Len(Tail(q)) = Len(q) - 1
        /\ \A n \in 1 .. Len(q) - 1 : Tail(q)[n] = q[n + 1]
    BY <1>4, HeadTailProperties
  <2>2. 1 \in 1 .. Len(q)
    BY <1>1, <1>2, <1>4
  <2>3. Range(Tail(q)) = {Tail(q)[n] : n \in 1 .. Len(q) - 1}
    BY <2>1, LenProperties DEF Range
  <2>4. Range(q) \subseteq Range(Tail(q)) \cup {Head(q)}
    <3> SUFFICES ASSUME NEW n \in 1 .. Len(q), n # 1 PROVE q[n] \in Range(Tail(q))
      BY <1>3, <2>1
    <3>1. n - 1 \in 1 .. Len(q) - 1 /\ (n - 1) + 1 = n
      BY <1>1
    <3> QED
      BY <2>1, <2>3, <3>1
  <2>5. Range(Tail(q)) \cup {Head(q)} \subseteq Range(q)
    <3>1. \A n \in 1 .. Len(q) - 1 : n + 1 \in 1 .. Len(q)
      BY <1>1
    <3> QED
      BY <1>3, <2>1, <2>2, <2>3, <3>1
  <2> QED
    BY <1>3, <2>1, <2>2, <2>4, <2>5
<1> QED
  BY <1>1, <1>2, <1>3, <1>4

\* The empty list.
LEMMA NoPackets ==
  <<>> \in Seq(AnyPacket) /\ Range(<<>>) = {} /\ Distinct(<<>>) /\ Len(<<>>) = 0
  BY DEF Range, Distinct

\* One packet comes before another in a list.
Precedes(q, a, b) == \E i, j \in 1 .. Len(q) : i < j /\ q[i] = a /\ q[j] = b

LEMMA AppendOrder ==
  ASSUME NEW q \in Seq(AnyPacket), NEW p \in AnyPacket,
         NEW a, NEW b, Precedes(Append(q, p), a, b)
  PROVE  Precedes(q, a, b) \/ (a \in Range(q) /\ b = p)
<1> DEFINE N == Len(q)
           r == Append(q, p)
<1>1. /\ Len(r) = N + 1 /\ r[N + 1] = p /\ N \in Nat
      /\ \A n \in 1 .. N : r[n] = q[n] /\ q[n] \in Range(q)
  <2>1. Len(r) = N + 1 /\ r[N + 1] = p /\ \A n \in 1 .. N : r[n] = q[n]
    OBVIOUS
  <2> QED
    BY <2>1, Ends
<1> HIDE DEF r, N
<1>2. PICK i, j \in 1 .. N + 1 : i < j /\ r[i] = a /\ r[j] = b
  BY <1>1 DEF Precedes, r
<1>3. i \in 1 .. N /\ r[i] = q[i] /\ q[i] \in Range(q)
  <2>1. i \in 1 .. N
    BY <1>1, <1>2
  <2> QED
    BY <1>1, <2>1
<1>4. CASE j = N + 1
  BY <1>1, <1>2, <1>3, <1>4
<1>5. CASE j \in 1 .. N
  BY <1>1, <1>2, <1>3, <1>5 DEF Precedes, N
<1> QED
  BY <1>1, <1>4, <1>5

LEMMA TailOrder ==
  ASSUME NEW q \in Seq(AnyPacket), q # <<>>
  PROVE  /\ \A a, b : Precedes(Tail(q), a, b) => Precedes(q, a, b)
         /\ \A b \in Range(Tail(q)) : Precedes(q, Head(q), b)
<1> DEFINE N == Len(q)
           t == Tail(q)
<1>1. /\ N \in Nat /\ 1 \in 1 .. N /\ Head(q) = q[1] /\ t \in Seq(AnyPacket)
      /\ Len(t) = N - 1 /\ \A n \in 1 .. N - 1 : t[n] = q[n + 1]
  BY Ends
<1> HIDE DEF t, N
<1>2. \A n \in 1 .. N - 1 : n + 1 \in 1 .. N /\ 1 < n + 1
  BY <1>1
<1>3. ASSUME NEW a, NEW b, Precedes(t, a, b) PROVE Precedes(q, a, b)
  <2>1. PICK i, j \in 1 .. N - 1 : i < j /\ t[i] = a /\ t[j] = b
    BY <1>1, <1>3 DEF Precedes
  <2>2. i + 1 < j + 1 /\ q[i + 1] = a /\ q[j + 1] = b
    BY <1>1, <2>1
  <2>3. i + 1 \in 1 .. N /\ j + 1 \in 1 .. N
    BY <1>2
  <2> QED
    BY <2>2, <2>3 DEF Precedes, N
<1>4. ASSUME NEW b \in Range(t) PROVE Precedes(q, Head(q), b)
  <2>1. PICK n \in 1 .. N - 1 : b = t[n]
    BY <1>1, Ends
  <2>2. n + 1 \in 1 .. N /\ 1 < n + 1 /\ b = q[n + 1]
    BY <1>1, <1>2, <2>1
  <2> QED
    BY <1>1, <2>2 DEF Precedes, N
<1> QED
  BY <1>3, <1>4 DEF t

\* Every packet of a list without repetition has its own number, and there are as
\* many as the list is long.
LEMMA DistinctProperties ==
  ASSUME NEW q \in Seq(AnyPacket), Distinct(q)
  PROVE  /\ IsFiniteSet(Range(q)) /\ Cardinality(Range(q)) = Len(q)
         /\ \A p, r \in Range(q) : p.id = r.id => p = r
<1> DEFINE N == Len(q)
<1>1. /\ N \in Nat /\ Range(q) = {q[n] : n \in 1 .. N}
      /\ q = [n \in 1 .. N |-> q[n]]
  BY Ends DEF Range
<1>2. \A p, r \in Range(q) : p.id = r.id => p = r
  BY <1>1 DEF Distinct
<1>3. q \in Bijection(1 .. N, Range(q))
  <2>1. q \in [1 .. N -> Range(q)]
    BY <1>1
  <2>2. \A a, b \in 1 .. N : q[a] = q[b] => a = b
    BY DEF Distinct
  <2>3. \A t \in Range(q) : \E a \in 1 .. N : q[a] = t
    BY <1>1
  <2> QED
    BY <2>1, <2>2, <2>3 DEF Bijection, Injection, IsInjective, Surjection
<1>4. ExistsBijection(1 .. N, Range(q))
  BY <1>3 DEF ExistsBijection
<1>5. IsFiniteSet(1 .. N) /\ Cardinality(1 .. N) = N
  <2> HIDE DEF N
  <2>1. 1 \in Int /\ N \in Int /\ (1 > N => N = 0) /\ N - 1 + 1 = N
    BY <1>1
  <2> QED
    BY <2>1, FS_Interval
<1> QED
  BY <1>2, <1>4, <1>5, FS_Bijection

\* A list that another packet is put into, at the end or before one of its packets.
PutInto(q, p, r) ==
  /\ r \in Seq(AnyPacket) /\ Len(r) = Len(q) + 1 /\ Range(r) = Range(q) \cup {p}
  /\ Distinct(q) /\ p.id \notin IDs(Range(q)) => Distinct(r)

LEMMA PutAt ==
  ASSUME NEW q \in Seq(AnyPacket), NEW p \in AnyPacket, NEW k \in 1 .. Len(q) + 1,
         NEW r \in Seq(AnyPacket), Len(r) = Len(q) + 1, r[k] = p,
         \A n \in 1 .. k - 1 : r[n] = q[n],
         \A n \in k .. Len(q) : r[n + 1] = q[n]
  PROVE  PutInto(q, p, r)
<1> DEFINE N == Len(q)
<1>1. N \in Nat /\ \A n \in 1 .. N : q[n] \in Range(q)
  BY Ends
<1>2. \A n \in 1 .. N + 1 : n \in 1 .. k - 1 \/ n = k \/ n - 1 \in k .. N
  BY <1>1
<1>3. \A n \in k .. N : n \in 1 .. N /\ n + 1 \in 1 .. N + 1 /\ (n + 1) - 1 = n
  BY <1>1
<1>4. \A n \in 1 .. k - 1 : n \in 1 .. N /\ n \in 1 .. N + 1
  BY <1>1
<1>5. k \in 1 .. N + 1
  OBVIOUS
<1>6. \A n \in 1 .. N : n \in 1 .. k - 1 \/ n \in k .. N
  BY <1>1
<1>7. \A n \in 1 .. N + 1 : n # k => \E m \in 1 .. N : r[n] = q[m] /\ m = (IF n < k THEN n ELSE n - 1)
  <2> SUFFICES ASSUME NEW n \in 1 .. N + 1, n # k
               PROVE  \E m \in 1 .. N : r[n] = q[m] /\ m = (IF n < k THEN n ELSE n - 1)
    OBVIOUS
  <2>1. CASE n \in 1 .. k - 1
    <3>1. n \in 1 .. N /\ n < k /\ r[n] = q[n]
      BY <1>4, <2>1
    <3> QED
      BY <3>1
  <2>2. CASE n - 1 \in k .. N
    <3>1. n - 1 \in 1 .. N /\ ~(n < k) /\ (n - 1) + 1 = n
      BY <1>1, <2>2
    <3>2. r[n] = q[n - 1]
      BY <2>2, <3>1
    <3> QED
      BY <3>1, <3>2
  <2> QED
    BY <1>2, <2>1, <2>2
<1>8. Range(r) = Range(q) \cup {p}
  <2>1. Range(r) = {r[n] : n \in 1 .. N + 1} /\ Range(q) = {q[n] : n \in 1 .. N}
    BY Ends DEF Range
  <2>2. Range(r) \subseteq Range(q) \cup {p}
    <3> SUFFICES ASSUME NEW n \in 1 .. N + 1 PROVE r[n] \in Range(q) \cup {p}
      BY <2>1
    <3>1. n # k => \E m \in 1 .. N : r[n] = q[m]
      BY <1>7
    <3> QED
      BY <2>1, <3>1
  <2>3. Range(q) \subseteq Range(r)
    <3> SUFFICES ASSUME NEW n \in 1 .. N PROVE q[n] \in Range(r)
      BY <2>1
    <3>1. CASE n \in 1 .. k - 1
      BY <1>4, <2>1, <3>1
    <3>2. CASE n \in k .. N
      BY <1>3, <2>1, <3>2
    <3> QED
      BY <1>6, <3>1, <3>2
  <2>4. p \in Range(r)
    BY <1>5, <2>1
  <2> QED
    BY <2>2, <2>3, <2>4
<1>9. ASSUME Distinct(q), p.id \notin IDs(Range(q)) PROVE Distinct(r)
  <2>1. \A m \in 1 .. N : q[m].id # p.id
    BY <1>1, <1>9 DEF IDs
  <2> SUFFICES ASSUME NEW i \in 1 .. N + 1, NEW j \in 1 .. N + 1, r[i].id = r[j].id
               PROVE  i = j
    BY DEF Distinct
  <2>2. i = k => j = k
    BY <1>7, <2>1
  <2>3. j = k => i = k
    BY <1>7, <2>1
  <2>4. CASE i # k /\ j # k
    <3>1. PICK a \in 1 .. N : r[i] = q[a] /\ a = (IF i < k THEN i ELSE i - 1)
      BY <1>7, <2>4
    <3>2. PICK b \in 1 .. N : r[j] = q[b] /\ b = (IF j < k THEN j ELSE j - 1)
      BY <1>7, <2>4
    <3>3. a = b
      BY <1>9, <3>1, <3>2 DEF Distinct
    <3>4. i \in Int /\ j \in Int /\ k \in Int
      BY <1>1
    <3> QED
      BY <2>4, <3>1, <3>2, <3>3, <3>4
  <2> QED
    BY <2>2, <2>3, <2>4
<1> QED
  BY <1>8, <1>9 DEF PutInto

LEMMA Appended ==
  ASSUME NEW q \in Seq(AnyPacket), NEW p \in AnyPacket
  PROVE  PutInto(q, p, Append(q, p))
<1>1. /\ Append(q, p) \in Seq(AnyPacket) /\ Len(Append(q, p)) = Len(q) + 1
      /\ \A n \in 1 .. Len(q) : Append(q, p)[n] = q[n]
      /\ Append(q, p)[Len(q) + 1] = p
  OBVIOUS
<1>2. Len(q) \in Nat
  BY Ends
<1>3. /\ Len(q) + 1 \in 1 .. Len(q) + 1 /\ Len(q) + 1 - 1 = Len(q)
      /\ \A n \in Len(q) + 1 .. Len(q) : FALSE
  BY <1>2
<1> DEFINE r == Append(q, p)
           k == Len(q) + 1
<1>4. /\ r \in Seq(AnyPacket) /\ Len(r) = Len(q) + 1 /\ r[k] = p /\ k \in 1 .. Len(q) + 1
      /\ \A n \in 1 .. k - 1 : r[n] = q[n]
      /\ \A n \in k .. Len(q) : r[n + 1] = q[n]
  BY <1>1, <1>2, <1>3
<1> HIDE DEF r, k
<1>5. PutInto(q, p, r)
  BY <1>4, PutAt
<1> QED
  BY <1>5 DEF r

\* FindClosestQueueIndex: the place is in the queue, or at its end; it is the first
\* with a later packet.
PlacedAt(q, p, k, r) ==
  /\ r \in Seq(AnyPacket) /\ Len(r) = Len(q) + 1 /\ r[k] = p
  /\ \A n \in 1 .. k - 1 : r[n] = q[n] /\ q[n].time <= p.time
  /\ \A n \in k .. Len(q) : r[n + 1] = q[n]
  /\ k \in 1 .. Len(q) => q[k].time > p.time

LEMMA InsertedAt ==
  ASSUME NEW q \in Seq(AnyPacket), NEW p \in AnyPacket
  PROVE  \E k \in 1 .. Len(q) + 1 : PlacedAt(q, p, k, InsertByTime(q, p))
<1> DEFINE N == Len(q)
           e == [p EXCEPT !.time = p.time + 1]
           z == q \o <<e>>
           I == {i \in 1 .. Len(z) : z[i].time > p.time}
           k == SelectInSeq(z, LAMBDA other : other.time > p.time)
           a == SubSeq(q, 1, k - 1)
           b == SubSeq(q, k, N)
           r == InsertAt(q, k, p)
<1>1. /\ N \in Nat /\ e \in AnyPacket /\ e.time > p.time /\ p.time \in Int
      /\ \A n \in 1 .. N : q[n] \in AnyPacket
  <2>1. p.time \in Int /\ p.time + 1 \in Int /\ p.time + 1 > p.time
    BY DEF AnyPacket
  <2>2. e \in AnyPacket /\ e.time = p.time + 1
    BY <2>1 DEF AnyPacket
  <2> QED
    BY <2>1, <2>2, Ends
<1>2. Len(z) = N + 1 /\ z[N + 1] = e
  <2> HIDE DEF e
  <2> QED
    BY <1>1
<1>3. I \in SUBSET Nat /\ N + 1 \in I
  <2>1. N + 1 \in 1 .. Len(z) /\ z[N + 1].time > p.time
    <3> HIDE DEF e, z
    <3> QED
      BY <1>1, <1>2
  <2>2. 1 .. Len(z) \subseteq Nat
    OBVIOUS
  <2> HIDE DEF z
  <2> QED
    BY <2>1, <2>2
<1>4. k \in 1 .. N + 1 /\ z[k].time > p.time /\ \A n \in I : k <= n
  <2>1. k = Min(I)
    BY <1>3 DEF SelectInSeq
  <2>2. Min(I) \in I /\ \A n \in I : Min(I) <= n
    <3> HIDE DEF I
    <3>1. \E m \in I : \A n \in I : m <= n
      BY <1>3, SmallestExists
    <3> QED
      BY <3>1 DEF Min
  <2> QED
    BY <1>2, <2>1, <2>2
<1>13. \A n \in 1 .. N : z[n] = q[n]
  <2> HIDE DEF e
  <2> QED
    BY <1>1
<1>14. k \in 1 .. N => q[k].time > p.time
  BY <1>4, <1>13
<1>15. \A n \in 1 .. k - 1 : q[n].time <= p.time
  <2> SUFFICES ASSUME NEW n \in 1 .. k - 1 PROVE q[n].time <= p.time
    OBVIOUS
  <2>1. n \in 1 .. N /\ n \in 1 .. Len(z) /\ ~(k <= n)
    <3> HIDE DEF k, N, z
    <3> QED
      BY <1>1, <1>2, <1>4
  <2>2. ~(z[n].time > p.time)
    BY <1>4, <2>1
  <2>3. q[n].time \in Int
    BY <1>1, <2>1 DEF AnyPacket
  <2> QED
    BY <1>1, <1>13, <2>1, <2>2, <2>3
<1>16. k \in 1 .. N + 1
  BY <1>4
<1> HIDE DEF k
<1>5. /\ a \in Seq(AnyPacket) /\ Len(a) = k - 1
      /\ \A n \in 1 .. k - 1 : a[n] = q[n]
  <2>1. 1 \in Int /\ k - 1 \in Int /\ \A n \in 1 .. k - 1 : q[n] \in AnyPacket
    BY <1>1, <1>16
  <2>2. /\ a \in Seq(AnyPacket) /\ Len(a) = (IF 1 <= k - 1 THEN (k - 1) - 1 + 1 ELSE 0)
        /\ \A n \in 1 .. (k - 1) - 1 + 1 : a[n] = q[1 + n - 1]
    BY <2>1, SubSeqProperties
  <2> HIDE DEF a
  <2> QED
    BY <1>1, <1>16, <2>2
<1>6. /\ b \in Seq(AnyPacket) /\ Len(b) = N - k + 1
      /\ \A n \in 1 .. N - k + 1 : b[n] = q[k + n - 1]
  <2> HIDE DEF N
  <2>1. k \in Int /\ N \in Int /\ \A n \in k .. N : q[n] \in AnyPacket
    BY <1>1, <1>16
  <2>2. /\ b \in Seq(AnyPacket) /\ Len(b) = (IF k <= N THEN N - k + 1 ELSE 0)
        /\ \A n \in 1 .. N - k + 1 : b[n] = q[k + n - 1]
    BY <2>1, SubSeqProperties
  <2> HIDE DEF b
  <2> QED
    BY <1>1, <1>16, <2>2
<1>7. r = a \o <<p>> \o b
  BY DEF InsertAt
<1> HIDE DEF a, b, r, N
<1>8. /\ r \in Seq(AnyPacket) /\ Len(r) = N + 1 /\ r[k] = p
      /\ \A n \in 1 .. k - 1 : r[n] = a[n]
      /\ \A n \in 1 .. N - k + 1 : r[k + n] = b[n]
  <2> DEFINE c == a \o <<p>>
  <2>1. <<p>> \in Seq(AnyPacket) /\ Len(<<p>>) = 1 /\ <<p>>[1] = p
    OBVIOUS
  <2>2. /\ c \in Seq(AnyPacket) /\ Len(c) = k
        /\ \A n \in 1 .. k : c[n] = IF n <= k - 1 THEN a[n] ELSE <<p>>[n - (k - 1)]
    BY <1>1, <1>16, <1>5, <2>1, ConcatProperties
  <2>3. c[k] = p /\ \A n \in 1 .. k - 1 : c[n] = a[n]
    BY <1>1, <1>16, <2>1, <2>2
  <2> HIDE DEF c
  <2>4. /\ c \o b \in Seq(AnyPacket) /\ Len(c \o b) = k + (N - k + 1)
        /\ \A n \in 1 .. k + (N - k + 1) : (c \o b)[n] = IF n <= k THEN c[n] ELSE b[n - k]
    <3>1. /\ c \o b \in Seq(AnyPacket) /\ Len(c \o b) = Len(c) + Len(b)
          /\ \A n \in 1 .. Len(c) + Len(b) :
               (c \o b)[n] = IF n <= Len(c) THEN c[n] ELSE b[n - Len(c)]
      BY <1>6, <2>2, ConcatProperties
    <3> QED
      BY <1>6, <2>2, <3>1
  <2>5. r = c \o b
    BY <1>7 DEF c
  <2>6. /\ k + (N - k + 1) = N + 1
        /\ k \in 1 .. N + 1 /\ k <= k
        /\ \A n \in 1 .. k - 1 : n \in 1 .. N + 1 /\ n <= k
        /\ \A n \in 1 .. N - k + 1 : k + n \in 1 .. N + 1 /\ ~(k + n <= k) /\ (k + n) - k = n
    BY <1>1, <1>16
  <2> QED
    BY <2>3, <2>4, <2>5, <2>6
<1>9. \A n \in k .. N : r[n + 1] = q[n]
  <2> TAKE n \in k .. N
  <2> DEFINE m == n - k + 1
  <2>1. m \in 1 .. N - k + 1 /\ k + m = n + 1 /\ k + m - 1 = n
    <3>1. n \in Int /\ k \in Int /\ N \in Int /\ k <= n /\ n <= N
      BY <1>1, <1>16
    <3> QED
      BY <3>1
  <2>2. r[k + m] = b[m] /\ b[m] = q[k + m - 1]
    BY <1>6, <1>8, <2>1
  <2> QED
    BY <2>1, <2>2
<1>10. \A n \in 1 .. k - 1 : r[n] = q[n]
  BY <1>5, <1>8
<1>11. PlacedAt(q, p, k, r)
  BY <1>8, <1>9, <1>10, <1>14, <1>15 DEF N, PlacedAt
<1>12. r = InsertByTime(q, p)
  BY DEF r, k, InsertByTime
<1> QED
  BY <1>16, <1>11, <1>12 DEF N

LEMMA Inserted ==
  ASSUME NEW q \in Seq(AnyPacket), NEW p \in AnyPacket
  PROVE  PutInto(q, p, InsertByTime(q, p))
  BY InsertedAt, PutAt DEF PlacedAt

\* What comes before the packet that is put into a list is not later; what comes after
\* it is later, or behind a later one.
LEMMA InsertedOrder ==
  ASSUME NEW q \in Seq(AnyPacket), NEW p \in AnyPacket,
         NEW a, NEW b, Precedes(InsertByTime(q, p), a, b)
  PROVE  \/ Precedes(q, a, b)
         \/ b = p /\ a \in Range(q) /\ a.time <= p.time
         \/ /\ a = p /\ b \in Range(q)
            /\ b.time > p.time \/ \E c \in Range(q) : Precedes(q, c, b) /\ c.time > p.time
<1> DEFINE N == Len(q)
           r == InsertByTime(q, p)
<1>1. PICK k \in 1 .. N + 1 : PlacedAt(q, p, k, r)
  BY InsertedAt
<1>2. N \in Nat /\ \A n \in 1 .. N : q[n] \in Range(q)
  BY Ends
<1> HIDE DEF r, N
<1>3. /\ Len(r) = N + 1 /\ r[k] = p
      /\ \A n \in 1 .. k - 1 : r[n] = q[n] /\ q[n].time <= p.time
      /\ \A n \in k .. N : r[n + 1] = q[n]
      /\ k \in 1 .. N => q[k].time > p.time
  BY <1>1 DEF PlacedAt, N
<1>4. PICK i, j \in 1 .. N + 1 : i < j /\ r[i] = a /\ r[j] = b
  BY <1>3 DEF Precedes, r
<1>5. /\ i \in Int /\ j \in Int /\ k \in Int
      /\ (i - 1) + 1 = i /\ (j - 1) + 1 = j
  BY <1>2
<1>6. CASE i \in 1 .. k - 1
  <2>1. i \in 1 .. N /\ r[i] = q[i] /\ q[i].time <= p.time
    BY <1>2, <1>3, <1>6
  <2>2. CASE j \in 1 .. k - 1
    <3>1. j \in 1 .. N /\ r[j] = q[j]
      BY <1>2, <1>3, <2>2
    <3> QED
      BY <1>4, <2>1, <3>1 DEF Precedes, N
  <2>3. CASE j = k
    BY <1>2, <1>3, <1>4, <2>1, <2>3
  <2>4. CASE j - 1 \in k .. N
    <3>1. j - 1 \in 1 .. N /\ r[(j - 1) + 1] = q[j - 1] /\ i < j - 1
      BY <1>2, <1>3, <1>6, <2>4
    <3> QED
      BY <1>4, <1>5, <2>1, <3>1 DEF Precedes, N
  <2> QED
    BY <1>2, <1>5, <2>2, <2>3, <2>4
<1>7. CASE i = k
  <2>1. j - 1 \in k .. N /\ j - 1 \in 1 .. N
    BY <1>2, <1>4, <1>5, <1>7
  <2>2. b = q[j - 1] /\ a = p /\ b \in Range(q)
    BY <1>2, <1>3, <1>4, <1>5, <1>7, <2>1
  <2>3. k \in 1 .. N /\ q[k].time > p.time /\ q[k] \in Range(q)
    BY <1>2, <1>3, <1>5, <2>1
  <2>4. CASE j - 1 = k
    BY <2>2, <2>3, <2>4
  <2>5. CASE k < j - 1
    <3>1. Precedes(q, q[k], b)
      BY <2>1, <2>2, <2>3, <2>5 DEF Precedes, N
    <3> QED
      BY <2>2, <2>3, <3>1
  <2> QED
    BY <1>5, <2>1, <2>4, <2>5
<1>8. CASE i - 1 \in k .. N
  <2>1. /\ i - 1 \in 1 .. N /\ j - 1 \in 1 .. N /\ j - 1 \in k .. N /\ i - 1 < j - 1
    BY <1>2, <1>4, <1>5, <1>8
  <2>2. a = q[i - 1] /\ b = q[j - 1]
    BY <1>3, <1>4, <1>5, <1>8, <2>1
  <2> QED
    BY <2>1, <2>2 DEF Precedes, N
<1> QED
  BY <1>2, <1>5, <1>6, <1>7, <1>8

\* A list that has lost its head.
LEMMA TailDistinct ==
  ASSUME NEW q \in Seq(AnyPacket), q # <<>>, Distinct(q)
  PROVE  /\ Distinct(Tail(q))
         /\ \A p \in Range(Tail(q)) : p.id # Head(q).id
<1> DEFINE N == Len(q)
           t == Tail(q)
<1>1. /\ N \in Nat /\ 1 \in 1 .. N /\ Head(q) = q[1] /\ t \in Seq(AnyPacket) /\ Len(t) = N - 1
      /\ \A n \in 1 .. N - 1 : t[n] = q[n + 1]
  BY Ends
<1>2. \A n \in 1 .. N - 1 : n + 1 \in 1 .. N /\ n + 1 # 1
  BY <1>1
<1>3. Distinct(t)
  <2> SUFFICES ASSUME NEW i \in 1 .. N - 1, NEW j \in 1 .. N - 1, t[i].id = t[j].id
               PROVE  i = j
    BY <1>1 DEF Distinct
  <2>1. q[i + 1].id = q[j + 1].id /\ i + 1 \in 1 .. N /\ j + 1 \in 1 .. N
    BY <1>1, <1>2
  <2>2. i + 1 = j + 1
    BY <2>1 DEF Distinct
  <2> QED
    BY <2>2
<1>4. ASSUME NEW p \in Range(t) PROVE p.id # Head(q).id
  <2>1. PICK n \in 1 .. N - 1 : p = t[n]
    <3> HIDE DEF t
    <3>1. \E n \in 1 .. Len(t) : p = t[n]
      BY <1>1, Ends
    <3> QED
      BY <1>1, <3>1
  <2>2. p = q[n + 1]
    BY <1>1, <2>1
  <2> QED
    BY <1>1, <1>2, <2>2 DEF Distinct
<1> QED
  BY <1>3, <1>4

\* A list without some of its packets has the others, each once.
LEMMA WithoutProperties ==
  ASSUME NEW q \in Seq(AnyPacket), Distinct(q), NEW gone
  PROVE  /\ Without(q, gone) \in Seq(AnyPacket) /\ Distinct(Without(q, gone))
         /\ Range(Without(q, gone)) = {q[n] : n \in (1 .. Len(q)) \ gone}
         /\ \A a, b : Precedes(Without(q, gone), a, b) => Precedes(q, a, b)
<1> DEFINE N == Len(q)
           F == CHOOSE f : f = [n \in 0 .. N |-> IF n = 0 THEN <<>>
                                                 ELSE IF n \in gone THEN f[n - 1]
                                                      ELSE Append(f[n - 1], q[n])]
           X == Seq(AnyPacket)
           Ordered(r) == \A a, b : Precedes(r, a, b) => Precedes(q, a, b)
           Good(n, r) == /\ r \in X /\ Distinct(r) /\ Range(r) = {q[i] : i \in (1 .. n) \ gone}
                         /\ Ordered(r)
<1>1. N \in Nat /\ \A n \in 1 .. N : q[n] \in AnyPacket
  BY Ends
<1>2. \E f : f = [n \in 0 .. N |-> IF n = 0 THEN <<>>
                                   ELSE IF n \in gone THEN f[n - 1]
                                        ELSE Append(f[n - 1], q[n])]
  <2> DEFINE step == [n \in 1 .. N |-> [r \in X |-> IF n \in gone THEN r ELSE Append(r, q[n])]]
  <2>1. \A n \in 1 .. N : \A r \in X : step[n][r] \in X
    BY <1>1
  <2>2. <<>> \in X
    BY NoPackets
  <2>3. \A n \in 1 .. N : \A r \in X : step[n][r] = IF n \in gone THEN r ELSE Append(r, q[n])
    OBVIOUS
  <2> DEFINE start == <<>>
  <2>9. start \in X /\ start = <<>>
    BY <2>2
  <2> HIDE DEF step, X, start, N
  <2>10. PICK f : Recurses(f, N, X, start, step)
    BY <1>1, <2>1, <2>9, RecursionExists
  <2>4. f \in [0 .. N -> X] /\ f[0] = <<>> /\ \A n \in 1 .. N : f[n] = step[n][f[n - 1]]
    BY <2>9, <2>10 DEF Recurses
  <2>5. \A n \in 1 .. N : n - 1 \in 0 .. N
    BY <1>1
  <2>6. \A n \in 1 .. N : f[n] = IF n \in gone THEN f[n - 1] ELSE Append(f[n - 1], q[n])
    BY <2>3, <2>4, <2>5
  <2>7. \A n \in 0 .. N : n = 0 \/ n \in 1 .. N
    BY <1>1
  <2>8. f = [n \in 0 .. N |-> IF n = 0 THEN <<>>
                              ELSE IF n \in gone THEN f[n - 1]
                                   ELSE Append(f[n - 1], q[n])]
    BY <2>4, <2>6, <2>7
  <2> QED
    BY <2>8
<1>3. F = [n \in 0 .. N |-> IF n = 0 THEN <<>>
                            ELSE IF n \in gone THEN F[n - 1] ELSE Append(F[n - 1], q[n])]
  BY <1>2
<1>4. Without(q, gone) = F[N]
  BY DEF Without
<1> HIDE DEF F
<1>5. F[0] = <<>>
  BY <1>1, <1>3
<1>6. \A n \in 1 .. N : F[n] = IF n \in gone THEN F[n - 1] ELSE Append(F[n - 1], q[n])
  <2>1. \A n \in 1 .. N : n \in 0 .. N /\ n # 0
    BY <1>1
  <2> HIDE DEF N
  <2> QED
    BY <1>3, <2>1
<1>7. Good(0, F[0])
  <2>1. \A a, b : ~Precedes(<<>>, a, b)
    BY NoPackets DEF Precedes
  <2> QED
    BY <1>5, <2>1, NoPackets
<1>10. ASSUME NEW n \in 1 .. N, Good(n - 1, F[n - 1]), F[n] = Append(F[n - 1], q[n])
       PROVE  Ordered(F[n])
  <2> SUFFICES ASSUME NEW a, NEW b, Precedes(F[n], a, b) PROVE Precedes(q, a, b)
    OBVIOUS
  <2>1. Precedes(F[n - 1], a, b) \/ (a \in Range(F[n - 1]) /\ b = q[n])
    BY <1>1, <1>10, AppendOrder
  <2>2. CASE a \in Range(F[n - 1]) /\ b = q[n]
    <3>1. PICK i \in 1 .. (n - 1) : a = q[i]
      BY <1>10, <2>2
    <3>2. i \in 1 .. N /\ n \in 1 .. N /\ i < n
      BY <1>1
    <3> QED
      BY <2>2, <3>1, <3>2 DEF Precedes
  <2> QED
    BY <1>10, <2>1, <2>2
<1> HIDE DEF Ordered
<1>8. ASSUME NEW n \in 1 .. N, Good(n - 1, F[n - 1])
      PROVE  Good(n, F[n])
  <2>1. n \in Nat /\ 1 .. n = 1 .. (n - 1) \cup {n} /\ n \notin 1 .. (n - 1)
    BY <1>1
  <2>2. CASE n \in gone
    <3>1. F[n] = F[n - 1] /\ (1 .. n) \ gone = (1 .. (n - 1)) \ gone
      BY <1>6, <2>1, <2>2
    <3> QED
      BY <1>8, <3>1
  <2>3. CASE n \notin gone
    <3>1. F[n] = Append(F[n - 1], q[n]) /\ (1 .. n) \ gone = ((1 .. (n - 1)) \ gone) \cup {n}
      BY <1>6, <2>1, <2>3
    <3>2. PutInto(F[n - 1], q[n], F[n])
      BY <1>1, <1>8, <3>1, Appended
    <3>3. q[n].id \notin IDs(Range(F[n - 1]))
      <4> SUFFICES ASSUME NEW i \in 1 .. (n - 1), q[i].id = q[n].id PROVE FALSE
        BY <1>8 DEF IDs
      <4>1. i \in 1 .. N /\ i # n
        BY <1>1
      <4> QED
        BY <4>1 DEF Distinct
    <3> QED
      BY <1>8, <1>10, <3>1, <3>2, <3>3 DEF PutInto
  <2> QED
    BY <2>2, <2>3
<1> DEFINE G == {n \in 0 .. N : Good(n, F[n])}
<1>9. N \in G
  <2>1. 0 \in G
    BY <1>1, <1>7
  <2>2. \A n \in 1 .. N : n - 1 \in G => n \in G
    <3> HIDE DEF Good
    <3> QED
      BY <1>8
  <2> HIDE DEF G
  <2>3. \A n \in 0 .. N : n \in G
    BY <1>1, <2>1, <2>2, Steps
  <2> QED
    BY <1>1, <2>3
<1> QED
  BY <1>4, <1>9 DEF Ordered
-----------------------------------------------------------------------------
(***************************************************************************)
(* Dropping frames.                                                        *)
(***************************************************************************)

\* The first and the last of some indices are two of them.
LEMMA FirstAndLast ==
  ASSUME NEW N \in Nat, NEW T \in SUBSET (1 .. N), T # {}
  PROVE  Min(T) \in T /\ Max(T) \in T
<1>1. Min(T) \in T
  <2>1. \E m \in T : \A n \in T : m <= n
    BY SmallestExists
  <2> QED
    BY <2>1 DEF Min
<1>2. Max(T) \in T
  <2> DEFINE D == {N - t : t \in T}
  <2>1. D \in SUBSET Nat /\ D # {}
    <3>1. \A t \in T : N - t \in Nat
      OBVIOUS
    <3> QED
      BY <3>1
  <2>2. PICK d \in D : \A e \in D : d <= e
    <3> HIDE DEF D
    <3> QED
      BY <2>1, SmallestExists
  <2>3. PICK m \in T : d = N - m
    BY <2>2
  <2>4. \A n \in T : m >= n
    BY <2>2, <2>3
  <2> QED
    BY <2>4 DEF Max
<1> QED
  BY <1>1, <1>2

\* DoIFrameDelay never picks audio, nor a keyframe; it picks a frame others may refer
\* to only if none is left that nothing refers to.
LEMMA BestPacketProperties ==
  ASSUME NEW q \in Seq(AnyPacket), NEW b \in BOOLEAN, BestPacket(q, b) # 0
  PROVE  /\ BestPacket(q, b) \in 1 .. Len(q) /\ q[BestPacket(q, b)].type <= VideoHigh
         /\ q[BestPacket(q, b)].type = VideoDisposable
              \/ \A n \in 1 .. Len(q) : q[n].type # VideoDisposable
<1> DEFINE ofType(t) == {n \in 1 .. Len(q) : q[n].type = t}
           beforeKey == {n \in ofType(VideoHigh) : \E k \in ofType(VideoHighest) : n < k}
           id == BestPacket(q, b)
<1>1. Len(q) \in Nat
  BY Ends
<1>2. \A t : ofType(t) \in SUBSET (1 .. Len(q)) /\ beforeKey \in SUBSET (1 .. Len(q))
  OBVIOUS
<1>9. ofType(VideoDisposable) = {} \/ id = Min(ofType(VideoDisposable))
  BY DEF BestPacket
<1>10. ofType(VideoDisposable) = {} => \A n \in 1 .. Len(q) : q[n].type # VideoDisposable
  OBVIOUS
<1>3. \/ ofType(VideoDisposable) # {} /\ id = Min(ofType(VideoDisposable))
      \/ ofType(VideoLow) # {} /\ id = Min(ofType(VideoLow))
      \/ beforeKey # {} /\ id = Max(beforeKey)
      \/ ofType(VideoHigh) # {} /\ id = Max(ofType(VideoHigh))
  BY DEF BestPacket
<1>4. beforeKey \subseteq ofType(VideoHigh)
  OBVIOUS
<1> HIDE DEF id, ofType, beforeKey
<1>5. \/ id \in ofType(VideoDisposable)
      \/ id \in ofType(VideoLow)
      \/ id \in ofType(VideoHigh)
  BY <1>1, <1>2, <1>3, <1>4, FirstAndLast
<1>6. \A t \in {VideoDisposable, VideoLow, VideoHigh} : t <= VideoHigh
  BY DEF VideoDisposable, VideoLow, VideoHigh
<1>7. \A t : id \in ofType(t) => id \in 1 .. Len(q) /\ q[id].type = t
  BY DEF ofType
<1>8. id \in 1 .. Len(q) /\ q[id].type <= VideoHigh
  BY <1>5, <1>6, <1>7
<1>11. q[id].type = VideoDisposable \/ \A n \in 1 .. Len(q) : q[n].type # VideoDisposable
  <2>1. ofType(VideoDisposable) # {} => id \in ofType(VideoDisposable)
    BY <1>1, <1>2, <1>9, FirstAndLast
  <2> QED
    BY <1>7, <1>10, <2>1
<1> QED
  BY <1>8, <1>11 DEF id

\* What is left of a queue when frames have been dropped: a part of it that has all
\* of its audio; and what is waited for.
Leftovers(q) ==
  {d \in [queue : Seq(AnyPacket), wait : VideoDisposable .. VideoHighest] :
     /\ Distinct(d.queue)
     /\ Range(d.queue) \subseteq Range(q)
     /\ \A p \in Range(q) : ~IsVideo(p) => p \in Range(d.queue)
     /\ \A a, b : Precedes(d.queue, a, b) => Precedes(q, a, b)}

LEMMA DropFrameProperties ==
  ASSUME NEW q \in Seq(AnyPacket), Distinct(q), NEW w \in VideoDisposable .. VideoHighest,
         NEW id \in 1 .. Len(q), q[id].type <= VideoHigh
  PROVE  DropFrame(q, w, id) \in Leftovers(q)
<1> DEFINE type  == q[id].type
           later == {n \in id + 1 .. Len(q) : IsVideo(q[n])}
           next  == {n \in later : q[n].type >= (IF type >= VideoHigh THEN VideoHighest ELSE type)}
           gone  == {id} \cup (IF type >= VideoHigh THEN {n \in later : \A k \in next : n < k} ELSE {})
           d == DropFrame(q, w, id)
<1> USE DEF VideoDisposable, VideoLow, VideoHigh, VideoHighest, Audio
<1>1. /\ Len(q) \in Nat /\ \A n \in 1 .. Len(q) : q[n] \in AnyPacket /\ q[n] \in Range(q)
      /\ \A p \in Range(q) : \E n \in 1 .. Len(q) : p = q[n]
  BY Ends
<1>2. type \in 0 .. 2
  <2>1. q[id] \in AnyPacket
    BY <1>1
  <2>2. type \in 0 .. 4
    BY <2>1 DEF AnyPacket
  <2> QED
    BY <2>2
<1>3. \A n \in gone : n \in 1 .. Len(q) => IsVideo(q[n])
  BY <1>2 DEF IsVideo
<1>4. /\ d = [queue |-> Without(q, gone),
              wait  |-> IF next # {} THEN w
                        ELSE IF type >= VideoHigh THEN VideoHighest ELSE Larger(w, type)]
  BY DEF DropFrame
<1> HIDE DEF gone, next, type, d
<1>5. /\ Without(q, gone) \in Seq(AnyPacket) /\ Distinct(Without(q, gone))
      /\ Range(Without(q, gone)) = {q[n] : n \in (1 .. Len(q)) \ gone}
  BY WithoutProperties
<1>11. \A a, c : Precedes(Without(q, gone), a, c) => Precedes(q, a, c)
  BY WithoutProperties
<1>6. Larger(w, type) \in 0 .. 3
  BY <1>2 DEF Larger
<1>7. d \in [queue : Seq(AnyPacket), wait : VideoDisposable .. VideoHighest]
  BY <1>4, <1>5, <1>6
<1>8. d.queue = Without(q, gone)
  BY <1>4
<1>9. Range(d.queue) \subseteq Range(q)
  BY <1>1, <1>5, <1>8
<1>10. ASSUME NEW p \in Range(q), ~IsVideo(p) PROVE p \in Range(d.queue)
  BY <1>1, <1>3, <1>5, <1>8, <1>10
<1> QED
  BY <1>5, <1>7, <1>8, <1>9, <1>10, <1>11 DEF Leftovers, d

\* One frame less, or none.
LEMMA DoIFrameDelayProperties ==
  ASSUME NEW q \in Seq(AnyPacket), NEW b \in BOOLEAN, NEW d \in Leftovers(q)
  PROVE  DoIFrameDelay(d, b) \in Leftovers(q)
<1> DEFINE id == BestPacket(d.queue, b)
<1>1. /\ d.queue \in Seq(AnyPacket) /\ d.wait \in VideoDisposable .. VideoHighest
      /\ Distinct(d.queue) /\ Range(d.queue) \subseteq Range(q)
      /\ \A p \in Range(q) : ~IsVideo(p) => p \in Range(d.queue)
      /\ \A a, c : Precedes(d.queue, a, c) => Precedes(q, a, c)
  BY DEF Leftovers
<1>2. CASE id = 0
  BY <1>2 DEF DoIFrameDelay
<1>3. CASE id # 0
  <2>1. id \in 1 .. Len(d.queue) /\ d.queue[id].type <= VideoHigh
    BY <1>1, <1>3, BestPacketProperties
  <2>2. DoIFrameDelay(d, b) = DropFrame(d.queue, d.wait, id)
    BY <1>3 DEF DoIFrameDelay
  <2> HIDE DEF id
  <2>3. DropFrame(d.queue, d.wait, id) \in Leftovers(d.queue)
    BY <1>1, <2>1, DropFrameProperties
  <2>4. Leftovers(d.queue) \subseteq Leftovers(q)
    BY <1>1 DEF Leftovers
  <2> QED
    BY <2>2, <2>3, <2>4
<1> QED
  BY <1>2, <1>3

\* However many frames are dropped.
LEMMA DropFramesStay ==
  ASSUME NEW q \in Seq(AnyPacket), NEW b \in BOOLEAN, NEW X,
         [queue |-> q, wait |-> wait] \in X,
         \A d \in X : DoIFrameDelay(d, b) \in X
  PROVE  DropFrames(q, b) \in X
<1> DEFINE N == Len(q)
           start == [queue |-> q, wait |-> wait]
           F == CHOOSE f : f = [n \in 0 .. N |-> IF n = 0 THEN start ELSE DoIFrameDelay(f[n - 1], b)]
<1>1. N \in Nat
  BY Ends
<1>2. start \in X
  OBVIOUS
<1>3. \E f : f = [n \in 0 .. N |-> IF n = 0 THEN start ELSE DoIFrameDelay(f[n - 1], b)]
  <2> DEFINE step == [n \in 1 .. N |-> [d \in X |-> DoIFrameDelay(d, b)]]
  <2>1. \A n \in 1 .. N : \A d \in X : step[n][d] = DoIFrameDelay(d, b)
    OBVIOUS
  <2>2. \A n \in 1 .. N : \A d \in X : step[n][d] \in X
    BY <2>1
  <2> HIDE DEF step, start, N
  <2>3. PICK f : Recurses(f, N, X, start, step)
    BY <1>1, <1>2, <2>2, RecursionExists
  <2>4. f \in [0 .. N -> X] /\ f[0] = start /\ \A n \in 1 .. N : f[n] = step[n][f[n - 1]]
    BY <2>3 DEF Recurses
  <2>5. \A n \in 1 .. N : n - 1 \in 0 .. N
    BY <1>1
  <2>6. \A n \in 1 .. N : f[n] = DoIFrameDelay(f[n - 1], b)
    BY <2>1, <2>4, <2>5
  <2>7. \A n \in 0 .. N : n = 0 \/ n \in 1 .. N
    BY <1>1
  <2>8. f = [n \in 0 .. N |-> IF n = 0 THEN start ELSE DoIFrameDelay(f[n - 1], b)]
    BY <2>4, <2>6, <2>7
  <2> QED
    BY <2>8
<1>4. F = [n \in 0 .. N |-> IF n = 0 THEN start ELSE DoIFrameDelay(F[n - 1], b)]
  <2> HIDE DEF start
  <2> QED
    BY <1>3
<1>5. DropFrames(q, b) = F[N]
  BY DEF DropFrames
<1> HIDE DEF F, start
<1>6. F[0] = start /\ \A n \in 1 .. N : F[n] = DoIFrameDelay(F[n - 1], b)
  <2>1. 0 \in 0 .. N /\ \A n \in 1 .. N : n \in 0 .. N /\ n # 0
    BY <1>1
  <2> HIDE DEF N
  <2> QED
    BY <1>4, <2>1
<1> DEFINE G == {n \in 0 .. N : F[n] \in X}
<1>7. N \in G
  <2>1. 0 \in G
    BY <1>1, <1>2, <1>6
  <2>2. \A n \in 1 .. N : n - 1 \in G => n \in G
    BY <1>6
  <2> HIDE DEF G
  <2>3. \A n \in 0 .. N : n \in G
    BY <1>1, <2>1, <2>2, Steps
  <2> QED
    BY <1>1, <2>3
<1> QED
  BY <1>5, <1>7

\* ProcessPackets.
LEMMA ProcessedStays ==
  ASSUME queue \in Seq(AnyPacket), NEW late \in BOOLEAN, NEW X,
         [queue |-> queue, wait |-> wait] \in X,
         \A d \in X, b \in BOOLEAN : DoIFrameDelay(d, b) \in X
  PROVE  Processed(late) \in X
<1>1. TRUE \in BOOLEAN /\ FALSE \in BOOLEAN
  OBVIOUS
<1>2. DropFrames(queue, TRUE) \in X /\ DropFrames(queue, FALSE) \in X
  BY <1>1, DropFramesStay
<1> QED
  BY <1>2 DEF Processed

LEMMA ProcessedProperties ==
  ASSUME queue \in Seq(AnyPacket), Distinct(queue), NEW late \in BOOLEAN,
         wait \in VideoDisposable .. VideoHighest
  PROVE  Processed(late) \in Leftovers(queue)
<1>1. [queue |-> queue, wait |-> wait] \in Leftovers(queue)
  BY DEF Leftovers
<1>2. \A d \in Leftovers(queue), b \in BOOLEAN : DoIFrameDelay(d, b) \in Leftovers(queue)
  BY DoIFrameDelayProperties
<1> DEFINE X == Leftovers(queue)
<1> HIDE DEF X
<1>3. Processed(late) \in X
  BY <1>1, <1>2, ProcessedStays DEF X
<1> QED
  BY <1>3 DEF X
-----------------------------------------------------------------------------
(***************************************************************************)
(* Counting frames.                                                        *)
(***************************************************************************)

VideoOf(S) == {p \in S : IsVideo(p)}
AudioOf(S) == {p \in S : ~IsVideo(p)}

\* Video and audio are all.
LEMMA VideoAndAudio ==
  ASSUME NEW S, IsFiniteSet(S)
  PROVE  /\ IsFiniteSet(VideoOf(S)) /\ Cardinality(VideoOf(S)) \in Nat
         /\ IsFiniteSet(AudioOf(S)) /\ Cardinality(AudioOf(S)) \in Nat
         /\ Cardinality(S) = Cardinality(VideoOf(S)) + Cardinality(AudioOf(S))
<1>1. VideoOf(S) \in SUBSET S /\ AudioOf(S) = S \ VideoOf(S) /\ S \cap VideoOf(S) = VideoOf(S)
  BY DEF VideoOf, AudioOf
<1>2. /\ IsFiniteSet(AudioOf(S))
      /\ Cardinality(AudioOf(S)) = Cardinality(S) - Cardinality(VideoOf(S))
  BY <1>1, FS_Difference
<1>3. IsFiniteSet(VideoOf(S))
  BY <1>1, FS_Subset
<1>4. /\ Cardinality(S) \in Nat /\ Cardinality(VideoOf(S)) \in Nat
      /\ Cardinality(AudioOf(S)) \in Nat
  BY <1>2, <1>3, FS_CardinalityType
<1> QED
  BY <1>2, <1>3, <1>4

\* A packet more.
LEMMA OneMore ==
  ASSUME NEW S, IsFiniteSet(S), NEW p, p \notin S
  PROVE  /\ IsVideo(p)  => /\ Cardinality(VideoOf(S \cup {p})) = Cardinality(VideoOf(S)) + 1
                           /\ Cardinality(AudioOf(S \cup {p})) = Cardinality(AudioOf(S))
         /\ ~IsVideo(p) => /\ Cardinality(VideoOf(S \cup {p})) = Cardinality(VideoOf(S))
                           /\ Cardinality(AudioOf(S \cup {p})) = Cardinality(AudioOf(S)) + 1
<1>1. /\ IsFiniteSet(VideoOf(S)) /\ Cardinality(VideoOf(S)) \in Nat
      /\ IsFiniteSet(AudioOf(S)) /\ Cardinality(AudioOf(S)) \in Nat
  BY VideoAndAudio
<1>2. p \notin VideoOf(S) /\ p \notin AudioOf(S)
  BY DEF VideoOf, AudioOf
<1>3. /\ Cardinality(VideoOf(S) \cup {p}) = Cardinality(VideoOf(S)) + 1
      /\ Cardinality(AudioOf(S) \cup {p}) = Cardinality(AudioOf(S)) + 1
  BY <1>1, <1>2, FS_AddElement
<1>4. CASE IsVideo(p)
  <2>1. VideoOf(S \cup {p}) = VideoOf(S) \cup {p} /\ AudioOf(S \cup {p}) = AudioOf(S)
    BY <1>4 DEF VideoOf, AudioOf
  <2> QED
    BY <1>1, <1>3, <1>4, <2>1
<1>5. CASE ~IsVideo(p)
  <2>1. VideoOf(S \cup {p}) = VideoOf(S) /\ AudioOf(S \cup {p}) = AudioOf(S) \cup {p}
    BY <1>5 DEF VideoOf, AudioOf
  <2> QED
    BY <1>1, <1>3, <1>5, <2>1
<1> QED
  BY <1>4, <1>5

\* What is dropped is video, and the length of the queue tells how much.
LEMMA DroppedAreVideo ==
  ASSUME NEW q \in Seq(AnyPacket), Distinct(q), NEW d \in Leftovers(q)
  PROVE  /\ d.queue \in Seq(AnyPacket) /\ d.wait \in VideoDisposable .. VideoHighest
         /\ Distinct(d.queue) /\ Range(d.queue) \subseteq Range(q)
         /\ Cardinality(AudioOf(Range(q))) = Cardinality(AudioOf(Range(d.queue)))
         /\ Cardinality(VideoOf(Range(q)))
              = Cardinality(VideoOf(Range(d.queue))) + (Len(q) - Len(d.queue))
<1>1. /\ d.queue \in Seq(AnyPacket) /\ d.wait \in VideoDisposable .. VideoHighest
      /\ Distinct(d.queue) /\ Range(d.queue) \subseteq Range(q)
      /\ \A p \in Range(q) : ~IsVideo(p) => p \in Range(d.queue)
  BY DEF Leftovers
<1>2. /\ IsFiniteSet(Range(q)) /\ Cardinality(Range(q)) = Len(q)
      /\ IsFiniteSet(Range(d.queue)) /\ Cardinality(Range(d.queue)) = Len(d.queue)
  BY <1>1, DistinctProperties
<1>3. AudioOf(Range(q)) = AudioOf(Range(d.queue))
  BY <1>1 DEF AudioOf
<1>4. /\ Cardinality(VideoOf(Range(q))) \in Nat /\ Cardinality(AudioOf(Range(q))) \in Nat
      /\ Len(q) = Cardinality(VideoOf(Range(q))) + Cardinality(AudioOf(Range(q)))
  BY <1>2, VideoAndAudio
<1>5. /\ Cardinality(VideoOf(Range(d.queue))) \in Nat
      /\ Len(d.queue) = Cardinality(VideoOf(Range(d.queue))) + Cardinality(AudioOf(Range(d.queue)))
  BY <1>2, VideoAndAudio
<1> QED
  BY <1>1, <1>3, <1>4, <1>5

\* PacketsAccounted for any queue and any counts.
Accounts(all, out, q, gone) ==
  /\ all.video = out.video + Cardinality(VideoOf(Range(q))) + gone
  /\ all.audio = out.audio + Cardinality(AudioOf(Range(q)))

LEMMA AccountedMeans == PacketsAccounted <=> Accounts(total, sent, queue, dumped)
  BY DEF PacketsAccounted, Accounts, VideoOf, AudioOf

\* The sender's part of the queue's types.
QueueTypes ==
  /\ queue \in Seq(AnyPacket) /\ wait \in VideoDisposable .. VideoHighest /\ dumped \in Int
  /\ total \in [video : Int, audio : Int]

\* Whatever happens to a packet that is given to SendPacketForReal.
LEMMA SendPacketForRealProperties ==
  ASSUME QueueTypes, Distinct(queue), NEW p \in AnyPacket, p.id \notin IDs(Range(queue)),
         SendPacketForReal(p), NEW out \in [video : Int, audio : Int, key : Nat],
         Accounts(total, out, queue, dumped)
  PROVE  /\ QueueTypes' /\ Distinct(queue')
         /\ IDs(Range(queue')) \subseteq IDs(Range(queue)) \cup {p.id}
         /\ Accounts(total', out, queue', dumped')
         /\ connection = "up" => headers' = (headers \/ ~stopping)
         /\ connection # "up" => headers' = headers
         /\ sender = "checking" /\ IDs(Range(queue)) \subseteq missed =>
              IDs(Range(queue')) \subseteq missed'
<1>1. CASE connection # "up"
  <2>1. UNCHANGED <<queue, wait, dumped, total, headers, missed>>
    BY <1>1 DEF SendPacketForReal, queueVars
  <2> QED
    BY <1>1, <2>1 DEF QueueTypes, Distinct, Accounts
<1>2. CASE connection = "up"
  <2> DEFINE send == sentKey \/ p.type = VideoHighest
  <2>1. \E late \in BOOLEAN :
          LET after == Processed(late)
              removed == Len(queue) - Len(after.queue)
              accept == send /\ Accepted(p, after.wait)
          IN  /\ headers' = (headers \/ ~stopping)
              /\ total' = IF ~send THEN total
                          ELSE IF IsVideo(p) THEN [total EXCEPT !.video = @ + 1]
                          ELSE [total EXCEPT !.audio = @ + 1]
              /\ dumped' = dumped + removed + (IF send /\ ~accept THEN 1 ELSE 0)
              /\ wait' = IF accept /\ IsVideo(p) THEN VideoDisposable ELSE after.wait
              /\ queue' = IF accept THEN InsertByTime(after.queue, Stamped(p)) ELSE after.queue
              /\ missed' = IF accept /\ sender = "checking" THEN missed \cup {p.id} ELSE missed
    BY <1>2 DEF SendPacketForReal
  <2>2. PICK d \in Leftovers(queue) :
          LET removed == Len(queue) - Len(d.queue)
              accept == send /\ Accepted(p, d.wait)
          IN  /\ headers' = (headers \/ ~stopping)
              /\ total' = IF ~send THEN total
                          ELSE IF IsVideo(p) THEN [total EXCEPT !.video = @ + 1]
                          ELSE [total EXCEPT !.audio = @ + 1]
              /\ dumped' = dumped + removed + (IF send /\ ~accept THEN 1 ELSE 0)
              /\ wait' = IF accept /\ IsVideo(p) THEN VideoDisposable ELSE d.wait
              /\ queue' = IF accept THEN InsertByTime(d.queue, Stamped(p)) ELSE d.queue
              /\ missed' = IF accept /\ sender = "checking" THEN missed \cup {p.id} ELSE missed
    BY <2>1, ProcessedProperties DEF QueueTypes
  <2> DEFINE removed == Len(queue) - Len(d.queue)
             accept == send /\ Accepted(p, d.wait)
             s == Stamped(p)
             V == Cardinality(VideoOf(Range(queue)))
             A == Cardinality(AudioOf(Range(queue)))
             v == Cardinality(VideoOf(Range(d.queue)))
             a == Cardinality(AudioOf(Range(d.queue)))
  <2>3. /\ d.queue \in Seq(AnyPacket) /\ d.wait \in VideoDisposable .. VideoHighest
        /\ Distinct(d.queue) /\ Range(d.queue) \subseteq Range(queue)
        /\ A = a /\ V = v + removed
    BY DroppedAreVideo DEF QueueTypes
  <2>4. /\ IsFiniteSet(Range(d.queue)) /\ Len(d.queue) \in Nat /\ Len(queue) \in Nat
        /\ v \in Nat /\ a \in Nat
    BY <2>3, DistinctProperties, VideoAndAudio, Ends DEF QueueTypes
  <2>5. s \in AnyPacket /\ s.id = p.id /\ (IsVideo(s) <=> IsVideo(p))
    BY DEF Stamped, AnyPacket, IsVideo
  <2>6. IDs(Range(d.queue)) \subseteq IDs(Range(queue)) /\ p.id \notin IDs(Range(d.queue))
    BY <2>3 DEF IDs
  <2>7. s \notin Range(d.queue)
    BY <2>5, <2>6 DEF IDs
  <2>8. PutInto(d.queue, s, InsertByTime(d.queue, s))
    BY <2>3, <2>5, Inserted
  <2>9. ~IsVideo(p) => Accepted(p, d.wait)
    BY <2>3 DEF IsVideo, Accepted, VideoDisposable, VideoHighest, Audio
  <2>10. accept => queue' = InsertByTime(d.queue, s)
    BY <2>2
  <2>11. ~accept => queue' = d.queue
    BY <2>2
  <2>12. /\ headers' = (headers \/ ~stopping)
         /\ total' = IF ~send THEN total
                     ELSE IF IsVideo(p) THEN [total EXCEPT !.video = @ + 1]
                     ELSE [total EXCEPT !.audio = @ + 1]
         /\ dumped' = dumped + removed + (IF send /\ ~accept THEN 1 ELSE 0)
         /\ wait' = IF accept /\ IsVideo(p) THEN VideoDisposable ELSE d.wait
         /\ missed' = IF accept /\ sender = "checking" THEN missed \cup {p.id} ELSE missed
    BY <2>2
  <2>13. accept => send
    OBVIOUS
  <2>14. send /\ ~accept => IsVideo(p)
    BY <2>9
  <2> HIDE DEF accept, send, s
  <2>15. /\ queue' \in Seq(AnyPacket) /\ Distinct(queue')
         /\ Range(queue') = Range(d.queue) \cup (IF accept THEN {s} ELSE {})
    BY <2>3, <2>5, <2>6, <2>8, <2>10, <2>11 DEF PutInto
  <2>16. IDs(Range(queue')) = IDs(Range(d.queue)) \cup (IF accept THEN {p.id} ELSE {})
    BY <2>5, <2>15 DEF IDs
  <2> DEFINE v2 == Cardinality(VideoOf(Range(queue')))
             a2 == Cardinality(AudioOf(Range(queue')))
  <2>17. /\ accept /\ IsVideo(p) => v2 = v + 1 /\ a2 = a
         /\ accept /\ ~IsVideo(p) => v2 = v /\ a2 = a + 1
         /\ ~accept => v2 = v /\ a2 = a
    <3>1. CASE accept
      <4>1. Range(queue') = Range(d.queue) \cup {s}
        BY <2>15, <3>1
      <4> DEFINE S == Range(d.queue)
      <4> HIDE DEF S
      <4>2. IsFiniteSet(S) /\ s \notin S
        BY <2>4, <2>7 DEF S
      <4>3. /\ IsVideo(s)  => /\ Cardinality(VideoOf(S \cup {s})) = Cardinality(VideoOf(S)) + 1
                              /\ Cardinality(AudioOf(S \cup {s})) = Cardinality(AudioOf(S))
            /\ ~IsVideo(s) => /\ Cardinality(VideoOf(S \cup {s})) = Cardinality(VideoOf(S))
                              /\ Cardinality(AudioOf(S \cup {s})) = Cardinality(AudioOf(S)) + 1
        BY <4>2, OneMore
      <4> QED
        BY <2>5, <3>1, <4>1, <4>3 DEF S
    <3>2. CASE ~accept
      <4>1. Range(queue') = Range(d.queue)
        BY <2>15, <3>2
      <4> QED
        BY <3>2, <4>1
    <3> QED
      BY <3>1, <3>2
  <2>18. /\ total.video \in Int /\ total.audio \in Int /\ dumped \in Int /\ total \in [video : Int, audio : Int]
         /\ out.video \in Int /\ out.audio \in Int
    BY DEF QueueTypes
  <2>19. total.video = out.video + V + dumped /\ total.audio = out.audio + A
    BY DEF Accounts
  <2>20. /\ send /\ IsVideo(p) => total'.video = total.video + 1 /\ total'.audio = total.audio
         /\ send /\ ~IsVideo(p) => total'.video = total.video /\ total'.audio = total.audio + 1
         /\ ~send => total' = total
         /\ total' \in [video : Int, audio : Int]
    BY <2>12, <2>18
  <2>21. /\ send /\ ~accept => dumped' = dumped + removed + 1
         /\ ~(send /\ ~accept) => dumped' = dumped + removed
         /\ removed \in Int
    BY <2>4, <2>12, <2>18
  <2> HIDE DEF V, A, v, a, v2, a2, removed
  <2>22. /\ total'.video = out.video + v2 + dumped'
         /\ total'.audio = out.audio + a2
         /\ dumped' \in Int
    <3>1. /\ v \in Int /\ a \in Int /\ removed \in Int /\ dumped \in Int
          /\ out.video \in Int /\ out.audio \in Int
          /\ V = v + removed /\ A = a
          /\ total.video = out.video + V + dumped /\ total.audio = out.audio + A
      BY <2>3, <2>4, <2>18, <2>19, <2>21
    <3>2. CASE send /\ accept /\ IsVideo(p)
      <4>1. /\ total'.video = total.video + 1 /\ total'.audio = total.audio
            /\ dumped' = dumped + removed /\ v2 = v + 1 /\ a2 = a
        BY <2>17, <2>20, <2>21, <3>2
      <4> QED
        BY <3>1, <4>1
    <3>3. CASE send /\ accept /\ ~IsVideo(p)
      <4>1. /\ total'.video = total.video /\ total'.audio = total.audio + 1
            /\ dumped' = dumped + removed /\ v2 = v /\ a2 = a + 1
        BY <2>17, <2>20, <2>21, <3>3
      <4> QED
        BY <3>1, <4>1
    <3>4. CASE send /\ ~accept
      <4>1. /\ total'.video = total.video + 1 /\ total'.audio = total.audio
            /\ dumped' = dumped + removed + 1 /\ v2 = v /\ a2 = a
        BY <2>14, <2>17, <2>20, <2>21, <3>4
      <4> QED
        BY <3>1, <4>1
    <3>5. CASE ~send
      <4>1. /\ total'.video = total.video /\ total'.audio = total.audio
            /\ dumped' = dumped + removed /\ v2 = v /\ a2 = a
        BY <2>13, <2>17, <2>20, <2>21, <3>5
      <4> QED
        BY <3>1, <4>1
    <3> QED
      BY <2>13, <3>2, <3>3, <3>4, <3>5
  <2>23. Accounts(total', out, queue', dumped')
    BY <2>22 DEF Accounts, v2, a2
  <2>24. wait' \in VideoDisposable .. VideoHighest
    BY <2>3, <2>12 DEF VideoDisposable, VideoHighest
  <2>25. QueueTypes'
    BY <2>15, <2>20, <2>22, <2>24 DEF QueueTypes
  <2>26. ASSUME sender = "checking", IDs(Range(queue)) \subseteq missed
         PROVE  IDs(Range(queue')) \subseteq missed'
    BY <2>6, <2>12, <2>16, <2>26
  <2>27. IDs(Range(queue')) \subseteq IDs(Range(queue)) \cup {p.id}
    BY <2>6, <2>16
  <2> QED
    BY <1>2, <2>12, <2>15, <2>23, <2>25, <2>26, <2>27
<1> QED
  BY <1>1, <1>2
-----------------------------------------------------------------------------
(***************************************************************************)
(* Holding packets back.                                                   *)
(***************************************************************************)

\* Video goes to the end, audio to its place: the list has one packet more.
LEMMA HeldProperties ==
  ASSUME NEW q \in Seq(AnyPacket), Distinct(q), NEW p \in AnyPacket, NEW offset \in Int,
         p.id \notin IDs(Range(q))
  PROVE  /\ Held(q, p, offset) \in Seq(AnyPacket) /\ Distinct(Held(q, p, offset))
         /\ Len(Held(q, p, offset)) = Len(q) + 1
         /\ IDs(Range(Held(q, p, offset))) = IDs(Range(q)) \cup {p.id}
<1> DEFINE e == [p EXCEPT !.time = @ - offset]
           r == Held(q, p, offset)
<1>1. e \in AnyPacket /\ e.id = p.id
  <2>1. p.time - offset \in Int
    BY DEF AnyPacket
  <2> QED
    BY <2>1 DEF AnyPacket
<1> HIDE DEF e
<1>2. r = Append(q, p) \/ r = InsertByTime(q, e)
  BY DEF Held, e
<1> HIDE DEF r
<1>3. PutInto(q, p, r) \/ PutInto(q, e, r)
  BY <1>1, <1>2, Appended, Inserted
<1>4. PICK f \in AnyPacket : f.id = p.id /\ PutInto(q, f, r)
  BY <1>1, <1>3
<1>5. /\ r \in Seq(AnyPacket) /\ Len(r) = Len(q) + 1 /\ Range(r) = Range(q) \cup {f}
      /\ Distinct(r)
  BY <1>4 DEF PutInto
<1>6. IDs(Range(r)) = IDs(Range(q)) \cup {p.id}
  BY <1>4, <1>5 DEF IDs
<1> QED
  BY <1>5, <1>6 DEF r

LEMMA FirstAudioTimeIsTime ==
  ASSUME NEW q \in Seq(AnyPacket)
  PROVE  FirstAudioTime(q) \in Int
<1> DEFINE I == {i \in 1 .. Len(q) : q[i].type = Audio}
           at == SelectInSeq(q, LAMBDA p : p.type = Audio)
<1>1. Len(q) \in Nat /\ \A n \in 1 .. Len(q) : q[n] \in AnyPacket
  BY Ends
<1>2. at = IF I # {} THEN Min(I) ELSE 0
  BY DEF SelectInSeq
<1>3. at # 0 => at \in 1 .. Len(q)
  <2>1. I \in SUBSET (1 .. Len(q))
    OBVIOUS
  <2> HIDE DEF at, I
  <2>2. I # {} => Min(I) \in 1 .. Len(q)
    BY <1>1, <2>1, FirstAndLast
  <2> QED
    BY <1>2, <2>2
<1> HIDE DEF at
<1>4. at # 0 => q[at].time \in Int
  BY <1>1, <1>3 DEF AnyPacket
<1>5. FirstAudioTime(q) = IF at = 0 THEN 0 ELSE q[at].time
  BY DEF FirstAudioTime, at
<1> QED
  BY <1>4, <1>5

\* A packet that is held back, with its time or an earlier one.
LEMMA HeldIsList ==
  ASSUME NEW q \in Seq(AnyPacket), NEW p \in AnyPacket, NEW offset \in Int
  PROVE  Held(q, p, offset) \in Seq(AnyPacket)
<1> DEFINE e == [p EXCEPT !.time = @ - offset]
<1>1. e \in AnyPacket
  <2>1. p.time - offset \in Int
    BY DEF AnyPacket
  <2> QED
    BY <2>1 DEF AnyPacket
<1> HIDE DEF e
<1>2. Append(q, p) \in Seq(AnyPacket) /\ InsertByTime(q, e) \in Seq(AnyPacket)
  BY <1>1, Appended, Inserted DEF PutInto
<1> QED
  BY <1>2 DEF Held, e

\* InitializeBuffer holds one packet after the other: what each step keeps is so in the end.
LEMMA InitializeBufferBuilds ==
  ASSUME NEW q \in Seq(AnyPacket), NEW G, <<0, <<>>>> \in G,
         \A n \in 1 .. Len(q) : \A r \in Seq(AnyPacket) :
           <<n - 1, r>> \in G => <<n, Held(r, q[n], FirstAudioTime(q))>> \in G
  PROVE  InitializeBuffer(q) \in Seq(AnyPacket) /\ <<Len(q), InitializeBuffer(q)>> \in G
<1> DEFINE N == Len(q)
           offset == FirstAudioTime(q)
           S == Seq(AnyPacket)
           F == CHOOSE f : f = [n \in 0 .. N |-> IF n = 0 THEN <<>> ELSE Held(f[n - 1], q[n], offset)]
<1>1. N \in Nat /\ offset \in Int /\ \A n \in 1 .. N : q[n] \in AnyPacket
  BY Ends, FirstAudioTimeIsTime
<1>2. \A n \in 1 .. N : \A r \in S : <<n - 1, r>> \in G => <<n, Held(r, q[n], offset)>> \in G
  OBVIOUS
<1> HIDE DEF offset
<1>3. \E f : /\ f = [n \in 0 .. N |-> IF n = 0 THEN <<>> ELSE Held(f[n - 1], q[n], offset)]
             /\ f \in [0 .. N -> S]
  <2> DEFINE step == [n \in 1 .. N |-> [r \in S |-> Held(r, q[n], offset)]]
             start == <<>>
  <2>1. \A n \in 1 .. N : \A r \in S : step[n][r] = Held(r, q[n], offset)
    OBVIOUS
  <2>2. \A n \in 1 .. N : \A r \in S : Held(r, q[n], offset) \in S
    BY <1>1, HeldIsList
  <2>3. start \in S /\ start = <<>>
    BY NoPackets
  <2>4. \A n \in 1 .. N : \A r \in S : step[n][r] \in S
    BY <2>1, <2>2
  <2> HIDE DEF step, start, N, S
  <2>5. PICK f : Recurses(f, N, S, start, step)
    BY <1>1, <2>3, <2>4, RecursionExists
  <2>6. f \in [0 .. N -> S] /\ f[0] = <<>> /\ \A n \in 1 .. N : f[n] = step[n][f[n - 1]]
    BY <2>3, <2>5 DEF Recurses
  <2>7. \A n \in 1 .. N : n - 1 \in 0 .. N
    BY <1>1
  <2>8. \A n \in 1 .. N : f[n] = Held(f[n - 1], q[n], offset)
    BY <2>1, <2>6, <2>7
  <2>9. \A n \in 0 .. N : n = 0 \/ n \in 1 .. N
    BY <1>1
  <2>10. f = [n \in 0 .. N |-> IF n = 0 THEN <<>> ELSE Held(f[n - 1], q[n], offset)]
    BY <2>6, <2>8, <2>9
  <2> QED
    BY <2>6, <2>10
<1>4. F = [n \in 0 .. N |-> IF n = 0 THEN <<>> ELSE Held(F[n - 1], q[n], offset)]
  BY <1>3
<1>5. InitializeBuffer(q) = F[N]
  BY DEF InitializeBuffer, offset
<1> HIDE DEF F
<1>6. F[0] = <<>> /\ \A n \in 1 .. N : F[n] = Held(F[n - 1], q[n], offset)
  <2>1. 0 \in 0 .. N /\ \A n \in 1 .. N : n \in 0 .. N /\ n # 0
    BY <1>1
  <2> HIDE DEF N
  <2> QED
    BY <1>4, <2>1
<1> DEFINE T == {n \in 0 .. N : F[n] \in S /\ <<n, F[n]>> \in G}
<1>8. N \in T
  <2>1. 0 \in T
    <3> DEFINE start == <<>>
    <3>1. start \in S /\ <<0, start>> \in G /\ F[0] = start
      BY <1>6, NoPackets
    <3> HIDE DEF start, S
    <3> QED
      BY <1>1, <3>1
  <2>2. ASSUME NEW n \in 1 .. N, n - 1 \in T PROVE n \in T
    <3> DEFINE r == F[n - 1]
    <3>1. r \in S /\ <<n - 1, r>> \in G /\ F[n] = Held(r, q[n], offset) /\ n \in 0 .. N
      BY <1>1, <1>6, <2>2
    <3> HIDE DEF r
    <3>2. Held(r, q[n], offset) \in S
      BY <1>1, <3>1, HeldIsList
    <3> QED
      BY <1>2, <3>1, <3>2
  <2> HIDE DEF T
  <2>3. \A n \in 0 .. N : n \in T
    BY <1>1, <2>1, <2>2, Steps
  <2> QED
    BY <1>1, <2>3
<1> QED
  BY <1>5, <1>8

\* InitializeBuffer puts the same packets into another order.
LEMMA InitializeBufferProperties ==
  ASSUME NEW q \in Seq(AnyPacket), Distinct(q)
  PROVE  /\ InitializeBuffer(q) \in Seq(AnyPacket) /\ Distinct(InitializeBuffer(q))
         /\ Len(InitializeBuffer(q)) = Len(q)
         /\ IDs(Range(InitializeBuffer(q))) = IDs(Range(q))
<1> DEFINE N == Len(q)
           offset == FirstAudioTime(q)
           Good(n, r) == /\ Distinct(r) /\ Len(r) = n
                         /\ IDs(Range(r)) = {q[i].id : i \in 1 .. n}
           G == {x \in Nat \X Seq(AnyPacket) : Good(x[1], x[2])}
<1>1. N \in Nat /\ offset \in Int /\ \A n \in 1 .. N : q[n] \in AnyPacket
  BY Ends, FirstAudioTimeIsTime
<1> HIDE DEF offset
<1>2. ASSUME NEW n \in 1 .. N, NEW r \in Seq(AnyPacket), Good(n - 1, r)
      PROVE  Good(n, Held(r, q[n], offset)) /\ Held(r, q[n], offset) \in Seq(AnyPacket)
  <2>1. n \in Nat /\ 1 .. n = 1 .. (n - 1) \cup {n} /\ n - 1 + 1 = n
    BY <1>1
  <2>2. q[n].id \notin IDs(Range(r))
    <3> SUFFICES ASSUME NEW i \in 1 .. (n - 1), q[i].id = q[n].id PROVE FALSE
      BY <1>2
    <3>1. i \in 1 .. N /\ i # n
      BY <1>1
    <3> QED
      BY <3>1 DEF Distinct
  <2>3. /\ Held(r, q[n], offset) \in Seq(AnyPacket) /\ Distinct(Held(r, q[n], offset))
        /\ Len(Held(r, q[n], offset)) = (n - 1) + 1
        /\ IDs(Range(Held(r, q[n], offset))) = IDs(Range(r)) \cup {q[n].id}
    BY <1>1, <1>2, <2>2, HeldProperties
  <2>4. {q[i].id : i \in 1 .. n} = {q[i].id : i \in 1 .. (n - 1)} \cup {q[n].id}
    BY <2>1
  <2> QED
    BY <1>2, <2>1, <2>3, <2>4
<1>3. Good(0, <<>>)
  <2>1. IDs(Range(<<>>)) = {}
    BY NoPackets DEF IDs
  <2>2. {q[i].id : i \in 1 .. 0} = {}
    OBVIOUS
  <2> QED
    BY <2>1, <2>2, NoPackets
<1> HIDE DEF Good
<1>4. <<0, <<>>>> \in G
  <2> DEFINE start == <<>>
  <2>1. start \in Seq(AnyPacket) /\ Good(0, start)
    BY <1>3, NoPackets
  <2> HIDE DEF start
  <2>2. <<0, start>> \in G
    BY <2>1
  <2> QED
    BY <2>2 DEF start
<1>5. ASSUME NEW n \in 1 .. N, NEW r \in Seq(AnyPacket), <<n - 1, r>> \in G
      PROVE  <<n, Held(r, q[n], offset)>> \in G
  <2>1. Good(n - 1, r) /\ n \in Nat
    BY <1>1, <1>5
  <2> QED
    BY <1>2, <2>1
<1> HIDE DEF G
<1>6. InitializeBuffer(q) \in Seq(AnyPacket) /\ <<N, InitializeBuffer(q)>> \in G
  BY <1>4, <1>5, InitializeBufferBuilds DEF offset
<1>7. Good(N, InitializeBuffer(q))
  BY <1>6 DEF G
<1>8. IDs(Range(q)) = {q[i].id : i \in 1 .. N}
  BY Ends DEF IDs
<1> QED
  BY <1>6, <1>7, <1>8 DEF Good

-----------------------------------------------------------------------------
(***************************************************************************)
(* The inductive invariant holds.                                          *)
(***************************************************************************)

\* Packets move from what is held back, which p may join, to the queue.
Moved(p) ==
  /\ held' \in Seq(AnyPacket) /\ Distinct(held')
  /\ IDs(Range(held')) \subseteq IDs(Range(held)) \cup {p.id}
  /\ IDs(Range(queue')) \subseteq IDs(Range(queue)) \cup (IDs(Range(held)) \ IDs(Range(held')))
  /\ QueueTypes' /\ Distinct(queue') /\ Accounts(total', sent, queue', dumped')
  /\ first' \in Int /\ audioOffset' \in Int
  /\ heldFull' => headers'
  /\ sender = "checking" /\ IDs(Range(queue)) \subseteq missed =>
       IDs(Range(queue')) \subseteq missed'

LEMMA InitIInv == Init => IInv
<1> SUFFICES ASSUME Init PROVE IInv
  OBVIOUS
<1>1. stream \in Seq([type : 0 .. 4, time : Nat]) /\ Len(stream) \in Nat
  BY QueueAssumption, LenProperties DEF Init
<1>2. KindInv
  <2>1. held \in Seq(AnyPacket) /\ queue \in Seq(AnyPacket)
    BY NoPackets DEF Init
  <2>2. total \in [video : Int, audio : Int] /\ sent \in [video : Int, audio : Int, key : Nat]
    BY DEF Init
  <2> QED
    BY <1>1, <2>1, <2>2 DEF Init, KindInv, VideoDisposable, VideoHighest
<1>3. OnceInv
  BY NoPackets DEF Init, OnceInv, IDs
<1>4. PacketsAccounted
  <2>1. Range(queue) = {} /\ Cardinality({}) = 0
    BY NoPackets, FS_EmptySet DEF Init
  <2>2. VideoOf({}) = {} /\ AudioOf({}) = {}
    BY DEF VideoOf, AudioOf
  <2>3. total.video = 0 /\ total.audio = 0 /\ sent.video = 0 /\ sent.audio = 0 /\ dumped = 0
    BY DEF Init
  <2>4. /\ Cardinality(VideoOf(Range(queue))) = 0 /\ Cardinality(AudioOf(Range(queue))) = 0
    BY <2>1, <2>2
  <2>5. Accounts(total, sent, queue, dumped)
    BY <2>3, <2>4 DEF Accounts
  <2> QED
    BY <2>5, AccountedMeans
<1>5. ExitInv /\ HeadersInv
  BY DEF Init, ExitInv, HeadersInv
<1> QED
  BY <1>2, <1>3, <1>4, <1>5 DEF IInv

\* What is left of a list that loses its head.
LEMMA HeadMoves ==
  ASSUME NEW q \in Seq(AnyPacket), q # <<>>, Distinct(q)
  PROVE  /\ Tail(q) \in Seq(AnyPacket) /\ Distinct(Tail(q)) /\ Len(Tail(q)) = Len(q) - 1
         /\ Head(q) \in AnyPacket /\ Head(q).id \in IDs(Range(q))
         /\ IDs(Range(Tail(q))) = IDs(Range(q)) \ {Head(q).id}
<1>1. /\ Tail(q) \in Seq(AnyPacket) /\ Len(Tail(q)) = Len(q) - 1
      /\ Head(q) \in AnyPacket /\ Head(q) \in Range(q)
      /\ Range(q) = Range(Tail(q)) \cup {Head(q)}
  BY Ends
<1>2. Distinct(Tail(q)) /\ \A p \in Range(Tail(q)) : p.id # Head(q).id
  BY TailDistinct
<1> QED
  BY <1>1, <1>2 DEF IDs

\* A list of one packet.
LEMMA OnePacket ==
  ASSUME NEW p \in AnyPacket
  PROVE  <<p>> \in Seq(AnyPacket) /\ Distinct(<<p>>) /\ IDs(Range(<<p>>)) = {p.id}
<1>1. <<p>> \in Seq(AnyPacket) /\ Len(<<p>>) = 1 /\ <<p>>[1] = p
  OBVIOUS
<1> DEFINE q == <<p>>
<1> HIDE DEF q
<1>2. Range(q) = {p}
  BY <1>1 DEF Range, q
<1>3. Distinct(q)
  BY <1>1 DEF Distinct, q
<1> QED
  BY <1>1, <1>2, <1>3 DEF IDs, q

\* What the invariant says of the queue.
LEMMA QueueInvariant ==
  ASSUME IInv
  PROVE  /\ QueueTypes /\ Distinct(queue) /\ Accounts(total, sent, queue, dumped)
         /\ sent \in [video : Int, audio : Int, key : Nat]
         /\ held \in Seq(AnyPacket) /\ Distinct(held)
         /\ IDs(Range(held)) \subseteq 1 .. given /\ IDs(Range(queue)) \subseteq 1 .. given
         /\ IDs(Range(held)) \cap IDs(Range(queue)) = {}
         /\ first \in Int /\ audioOffset \in Int /\ given \in Nat
<1>1. stream \in Seq([type : 0 .. 4, time : Nat])
  BY QueueAssumption DEF IInv, KindInv
<1>2. Len(stream) \in Nat
  BY <1>1, LenProperties
<1> QED
  BY <1>2, AccountedMeans DEF IInv, KindInv, OnceInv, QueueTypes

\* SendPacket, as far as it gets: without the queue, and with the oldest packet
\* that is held back going to the queue.
LEMMA HeldOnly ==
  ASSUME IInv, NEW p \in AnyPacket, UNCHANGED <<queueVars, missed>>,
         held' \in Seq(AnyPacket), Distinct(held'),
         IDs(Range(held')) \subseteq IDs(Range(held)) \cup {p.id},
         first' \in Int, audioOffset' = audioOffset, heldFull' = heldFull
  PROVE  Moved(p)
<1>1. /\ QueueTypes /\ Distinct(queue) /\ Accounts(total, sent, queue, dumped)
      /\ audioOffset \in Int /\ (heldFull => headers)
  BY QueueInvariant DEF IInv, HeadersInv
<1>2. UNCHANGED <<queue, wait, dumped, total, headers, missed>>
  BY DEF queueVars
<1> QED
  BY <1>1, <1>2 DEF Moved, QueueTypes, Distinct, Accounts

LEMMA OldestQueued ==
  ASSUME IInv, NEW p \in AnyPacket, NEW r \in AnyPacket,
         SendPacketForReal(r), r.id \in IDs(Range(held)), r.id \notin IDs(Range(held')),
         held' \in Seq(AnyPacket), Distinct(held'),
         IDs(Range(held')) \subseteq IDs(Range(held)) \cup {p.id},
         first' \in Int, audioOffset' \in Int,
         heldFull' => heldFull \/ (connection = "up" /\ ~stopping)
  PROVE  Moved(p)
<1>1. /\ QueueTypes /\ Distinct(queue) /\ Accounts(total, sent, queue, dumped)
      /\ sent \in [video : Int, audio : Int, key : Nat]
      /\ r.id \notin IDs(Range(queue)) /\ (heldFull => headers)
  BY QueueInvariant DEF IInv, HeadersInv
<1>2. /\ QueueTypes' /\ Distinct(queue')
      /\ IDs(Range(queue')) \subseteq IDs(Range(queue)) \cup {r.id}
      /\ Accounts(total', sent, queue', dumped')
      /\ connection = "up" => headers' = (headers \/ ~stopping)
      /\ connection # "up" => headers' = headers
      /\ sender = "checking" /\ IDs(Range(queue)) \subseteq missed =>
           IDs(Range(queue')) \subseteq missed'
  BY <1>1, SendPacketForRealProperties
<1>3. heldFull' => headers'
  <2> SUFFICES ASSUME heldFull' PROVE headers'
    OBVIOUS
  <2>1. CASE connection = "up"
    <3>1. headers \/ ~stopping
      BY <1>1
    <3> QED
      BY <1>2, <2>1, <3>1, Zenon
  <2>2. CASE connection # "up"
    <3>1. headers
      BY <1>1, <2>2
    <3> QED
      BY <1>2, <2>2, <3>1, Zenon
  <2> QED
    BY <2>1, <2>2
<1>4. IDs(Range(queue')) \subseteq IDs(Range(queue)) \cup (IDs(Range(held)) \ IDs(Range(held')))
  BY <1>2
<1> QED
  BY <1>2, <1>3, <1>4 DEF Moved

LEMMA KeepKeyframeMoves ==
  ASSUME IInv, NEW p \in AnyPacket, KeepKeyframe(p)
  PROVE  Moved(p)
<1>1. held' = <<p>> /\ UNCHANGED <<startVars, queueVars, missed>>
  BY DEF KeepKeyframe
<1>2. held' \in Seq(AnyPacket) /\ Distinct(held') /\ IDs(Range(held')) = {p.id}
  BY <1>1, OnePacket
<1>3. first' \in Int /\ audioOffset' = audioOffset /\ heldFull' = heldFull
  BY <1>1, QueueInvariant DEF startVars
<1> QED
  BY <1>1, <1>2, <1>3, HeldOnly

LEMMA FirstPacketMoves ==
  ASSUME IInv, NEW p \in AnyPacket, p.id \notin IDs(Range(held)), FirstPacket(p)
  PROVE  Moved(p)
<1> DEFINE z == [p EXCEPT !.time = 0]
<1>1. /\ first' = p.time /\ held' = <<z>> /\ UNCHANGED <<heldFull, audioOffset>>
      /\ IF p.type # VideoHighest /\ held # <<>>
         THEN SendPacketForReal([Head(held) EXCEPT !.time = 0])
         ELSE UNCHANGED <<queueVars, semaphore, missed>>
  BY DEF FirstPacket
<1>2. z \in AnyPacket /\ z.id = p.id /\ p.time \in Int
  BY DEF AnyPacket
<1> HIDE DEF z
<1>3. held' \in Seq(AnyPacket) /\ Distinct(held') /\ IDs(Range(held')) = {p.id}
  BY <1>1, <1>2, OnePacket
<1>4. first' \in Int /\ audioOffset' \in Int /\ audioOffset' = audioOffset /\ heldFull' = heldFull
  BY <1>1, <1>2, QueueInvariant
<1>5. CASE p.type # VideoHighest /\ held # <<>>
  <2> DEFINE r == [Head(held) EXCEPT !.time = 0]
  <2>1. Head(held) \in AnyPacket /\ Head(held).id \in IDs(Range(held))
    BY <1>5, HeadMoves, QueueInvariant
  <2>2. r \in AnyPacket /\ r.id = Head(held).id
    BY <2>1 DEF AnyPacket
  <2>3. SendPacketForReal(r)
    BY <1>1, <1>5
  <2> HIDE DEF r
  <2>4. r.id \in IDs(Range(held)) /\ r.id \notin IDs(Range(held'))
    BY <1>3, <2>1, <2>2
  <2> QED
    BY <1>3, <1>4, <2>2, <2>3, <2>4, OldestQueued
<1>6. CASE ~(p.type # VideoHighest /\ held # <<>>)
  <2>1. UNCHANGED <<queueVars, missed>>
    BY <1>1, <1>6
  <2> QED
    BY <1>3, <1>4, <2>1, HeldOnly
<1> QED
  BY <1>5, <1>6

LEMMA HoldPacketMoves ==
  ASSUME IInv, NEW p \in AnyPacket, p.id \notin IDs(Range(held)), HoldPacket(p)
  PROVE  Moved(p)
<1> DEFINE z == [p EXCEPT !.time = @ - first]
<1>1. held' = Held(held, z, audioOffset) /\ UNCHANGED <<startVars, queueVars, missed>>
  BY DEF HoldPacket
<1>2. first \in Int /\ audioOffset \in Int /\ held \in Seq(AnyPacket) /\ Distinct(held)
  BY QueueInvariant
<1>3. z \in AnyPacket /\ z.id = p.id
  <2>1. p.time - first \in Int
    BY <1>2 DEF AnyPacket
  <2> QED
    BY <2>1 DEF AnyPacket
<1> HIDE DEF z
<1>4. /\ held' \in Seq(AnyPacket) /\ Distinct(held')
      /\ IDs(Range(held')) = IDs(Range(held)) \cup {p.id}
  BY <1>1, <1>2, <1>3, HeldProperties
<1>5. first' \in Int /\ audioOffset' = audioOffset /\ heldFull' = heldFull
  BY <1>1, <1>2 DEF startVars
<1> QED
  BY <1>1, <1>4, <1>5, HeldOnly

LEMMA PassOldestMoves ==
  ASSUME IInv, NEW p \in AnyPacket, p.id \notin IDs(Range(held)), ~stopping, PassOldest(p)
  PROVE  Moved(p)
<1> DEFINE full == IF heldFull THEN held ELSE InitializeBuffer(held)
           offset == IF heldFull THEN audioOffset ELSE FirstAudioTime(held)
           z == [p EXCEPT !.time = @ - first]
<1>1. /\ connection = "up" /\ Len(held) = HELD
      /\ audioOffset' = offset /\ held' = Held(Tail(full), z, offset)
      /\ first' = first /\ SendPacketForReal(Head(full))
  BY DEF PassOldest
<1>2. first \in Int /\ audioOffset \in Int /\ held \in Seq(AnyPacket) /\ Distinct(held)
  BY QueueInvariant
<1>3. z \in AnyPacket /\ z.id = p.id
  <2>1. p.time - first \in Int
    BY <1>2 DEF AnyPacket
  <2> QED
    BY <2>1 DEF AnyPacket
<1>4. /\ full \in Seq(AnyPacket) /\ Distinct(full) /\ Len(full) = Len(held)
      /\ IDs(Range(full)) = IDs(Range(held)) /\ offset \in Int
  BY <1>2, InitializeBufferProperties, FirstAudioTimeIsTime
<1> HIDE DEF z, full, offset
<1>5. full # <<>>
  <2>1. Len(full) > 0
    BY <1>1, <1>4, QueueAssumption
  <2> QED
    BY <1>4, <2>1, Ends
<1>6. /\ Tail(full) \in Seq(AnyPacket) /\ Distinct(Tail(full))
      /\ Head(full) \in AnyPacket /\ Head(full).id \in IDs(Range(held))
      /\ IDs(Range(Tail(full))) = IDs(Range(held)) \ {Head(full).id}
  BY <1>4, <1>5, HeadMoves
<1>7. z.id \notin IDs(Range(Tail(full)))
  BY <1>3, <1>6
<1>8. /\ held' \in Seq(AnyPacket) /\ Distinct(held')
      /\ IDs(Range(held')) = IDs(Range(Tail(full))) \cup {p.id}
  <2> DEFINE t == Tail(full)
  <2>1. t \in Seq(AnyPacket) /\ Distinct(t) /\ z \in AnyPacket /\ offset \in Int /\ z.id \notin IDs(Range(t))
    BY <1>3, <1>4, <1>6, <1>7
  <2>2. held' = Held(t, z, offset)
    BY <1>1
  <2> HIDE DEF t
  <2>3. /\ Held(t, z, offset) \in Seq(AnyPacket) /\ Distinct(Held(t, z, offset))
        /\ IDs(Range(Held(t, z, offset))) = IDs(Range(t)) \cup {z.id}
    BY <2>1, HeldProperties
  <2>4. /\ held' \in Seq(AnyPacket) /\ Distinct(held')
        /\ IDs(Range(held')) = IDs(Range(t)) \cup {p.id}
    BY <1>3, <2>2, <2>3
  <2> QED
    BY <2>4 DEF t
<1>9. Head(full).id \notin IDs(Range(held'))
  BY <1>6, <1>8
<1>10. IDs(Range(held')) \subseteq IDs(Range(held)) \cup {p.id}
  BY <1>6, <1>8
<1>11. first' \in Int /\ audioOffset' \in Int
  BY <1>1, <1>2, <1>4
<1> QED
  BY <1>1, <1>6, <1>8, <1>9, <1>10, <1>11, OldestQueued

\* Each step keeps the invariant: a packet that the encoders give.
LEMMA SendPacketIInv ==
  ASSUME IInv, SendPacket
  PROVE  IInv'
<1> DEFINE p == [id |-> given', type |-> stream[given'].type, time |-> stream[given'].time,
                 ref |-> Reference(stream[given'].type)]
<1>1. /\ given < Len(stream) /\ destroyer = "none"
      /\ given' = given + 1
      /\ connection' = IF connection = "none" THEN "running" ELSE connection
      /\ anchor' = IF stream[given'].type \in {VideoHigh, VideoHighest} THEN p.id ELSE anchor
      /\ base' = IF stream[given'].type \in {VideoLow, VideoHigh, VideoHighest} THEN p.id ELSE base
      /\ IF Ignored(p)
         THEN UNCHANGED <<heldVars, queueVars, semaphore, missed>>
         ELSE KeepKeyframe(p) \/ FirstPacket(p) \/ HoldPacket(p) \/ PassOldest(p)
      /\ UNCHANGED <<fast, stopping, loopExit, sender, destroyer, stream, sent, decoders>>
  BY DEF SendPacket
<1>2. /\ stream \in Streams /\ stream \in Seq([type : 0 .. 4, time : Nat])
      /\ Len(stream) \in Nat /\ DOMAIN stream = 1 .. Len(stream) /\ given \in 0 .. Len(stream)
      /\ anchor \in Nat /\ base \in Nat
  <2>1. stream \in Seq([type : 0 .. 4, time : Nat])
    BY QueueAssumption DEF IInv, KindInv
  <2> QED
    BY <2>1, LenProperties DEF IInv, KindInv
<1>3. given' \in 1 .. Len(stream) /\ given' \in Nat /\ given' \notin 1 .. given
  BY <1>1, <1>2
<1>4. stream[given'].type \in 0 .. 4 /\ stream[given'].time \in Nat
  <2>1. stream[given'] \in [type : 0 .. 4, time : Nat]
    BY <1>2, <1>3, ElementOfSeq
  <2> QED
    BY <2>1
<1>5. p \in AnyPacket /\ p.id = given + 1 /\ p.id \in Nat
  <2>1. Reference(stream[given'].type) \in Nat
    BY <1>2, <1>4 DEF Reference, VideoDisposable, VideoLow, VideoHigh, VideoHighest, Audio
  <2> QED
    BY <1>1, <1>3, <1>4, <2>1 DEF AnyPacket, VideoDisposable, Audio
<1> HIDE DEF p
<1>6. p.id \notin IDs(Range(held)) /\ p.id \notin IDs(Range(queue))
  BY <1>1, <1>3, <1>5, QueueInvariant
<1>7. Moved(p)
  <2>1. CASE Ignored(p)
    <3>1. UNCHANGED <<heldVars, queueVars, semaphore, missed>>
      BY <1>1, <2>1
    <3>2. /\ held' = held /\ first' = first /\ audioOffset' = audioOffset /\ heldFull' = heldFull
      BY <3>1 DEF heldVars, startVars
    <3>3. held \in Seq(AnyPacket) /\ Distinct(held) /\ first \in Int
      BY QueueInvariant
    <3>4. /\ held' \in Seq(AnyPacket) /\ Distinct(held') /\ first' \in Int
          /\ IDs(Range(held')) \subseteq IDs(Range(held)) \cup {p.id}
      BY <3>2, <3>3
    <3> QED
      BY <1>5, <3>1, <3>2, <3>4, HeldOnly
  <2>2. CASE KeepKeyframe(p)
    BY <1>5, <2>2, KeepKeyframeMoves
  <2>3. CASE FirstPacket(p)
    BY <1>5, <1>6, <2>3, FirstPacketMoves
  <2>4. CASE HoldPacket(p)
    BY <1>5, <1>6, <2>4, HoldPacketMoves
  <2>5. CASE PassOldest(p)
    <3>1. ~stopping
      BY <1>1, <2>5 DEF IInv, HeadersInv, PassOldest
    <3> QED
      BY <1>5, <1>6, <2>5, <3>1, PassOldestMoves
  <2> QED
    BY <1>1, <2>1, <2>2, <2>3, <2>4, <2>5
<1>8. KindInv'
  <2>1. given' \in 0 .. Len(stream') /\ stream' \in Streams
    BY <1>1, <1>2, <1>3
  <2>2. anchor' \in Nat /\ base' \in Nat
    BY <1>1, <1>2, <1>5
  <2>3. connection' \in {"none", "running", "up", "failed"}
    BY <1>1 DEF IInv, KindInv
  <2>4. /\ sender' \in {"waiting", "sending", "checking", "done"}
        /\ destroyer' \in {"none", "joining", "flushing", "done"}
        /\ sent' \in [video : Int, audio : Int, key : Nat]
    BY <1>1 DEF IInv, KindInv
  <2>5. /\ held' \in Seq(AnyPacket) /\ queue' \in Seq(AnyPacket)
        /\ wait' \in VideoDisposable .. VideoHighest /\ dumped' \in Int
        /\ total' \in [video : Int, audio : Int] /\ first' \in Int /\ audioOffset' \in Int
    BY <1>7 DEF Moved, QueueTypes
  <2> QED
    BY <2>1, <2>2, <2>3, <2>4, <2>5 DEF KindInv
<1>9. OnceInv'
  <2>1. /\ IDs(Range(held')) \subseteq IDs(Range(held)) \cup {p.id}
        /\ IDs(Range(queue')) \subseteq IDs(Range(queue)) \cup (IDs(Range(held)) \ IDs(Range(held')))
        /\ Distinct(held') /\ Distinct(queue')
    BY <1>7 DEF Moved
  <2>2. 1 .. given \subseteq 1 .. given' /\ p.id \in 1 .. given'
    BY <1>1, <1>2, <1>3, <1>5
  <2>3. /\ IDs(Range(held)) \subseteq 1 .. given /\ IDs(Range(queue)) \subseteq 1 .. given
        /\ IDs(Range(held)) \cap IDs(Range(queue)) = {}
    BY QueueInvariant
  <2>4. IDs(Range(held')) \cap IDs(Range(queue')) = {}
    BY <1>6, <2>1, <2>3
  <2>5. IDs(Range(held')) \cup IDs(Range(queue')) \subseteq 1 .. given'
    BY <2>1, <2>2, <2>3
  <2> QED
    BY <2>1, <2>4, <2>5 DEF OnceInv, Distinct
<1>10. PacketsAccounted'
  <2>1. sent' = sent
    BY <1>1
  <2>2. Accounts(total', sent', queue', dumped')
    BY <1>7, <2>1 DEF Moved
  <2> QED
    BY <2>2 DEF PacketsAccounted, Accounts, VideoOf, AudioOf
<1>11. ExitInv'
  <2>1. ~loopExit /\ sender # "done"
    BY <1>1 DEF IInv, ExitInv
  <2>2. ~loopExit' /\ sender' # "done"
    BY <1>1, <2>1
  <2>3. sender' = "checking" => IDs(Range(queue')) \subseteq missed'
    BY <1>1, <1>7 DEF Moved, IInv, ExitInv
  <2> QED
    BY <2>2, <2>3 DEF ExitInv
<1>12. HeadersInv'
  <2>1. heldFull' => headers'
    BY <1>7 DEF Moved
  <2>2. stopping' => connection' = "failed"
    BY <1>1 DEF IInv, HeadersInv
  <2> QED
    BY <2>1, <2>2 DEF HeadersInv
<1> QED
  BY <1>8, <1>9, <1>10, <1>11, <1>12 DEF IInv

\* A packet that the destructor flushes.
LEMMA FlushPacketIInv ==
  ASSUME IInv, FlushPacket
  PROVE  IInv'
<1> DEFINE p == Head(held)
<1>1. /\ destroyer = "flushing" /\ held # <<>> /\ held' = Tail(held) /\ SendPacketForReal(p)
      /\ UNCHANGED <<connection, stopping, startVars, loopExit, sender, destroyer, inputVars, sent>>
  BY DEF FlushPacket
<1>2. held \in Seq(AnyPacket) /\ Distinct(held)
  BY QueueInvariant
<1>3. /\ held' \in Seq(AnyPacket) /\ Distinct(held')
      /\ p \in AnyPacket /\ p.id \in IDs(Range(held))
      /\ IDs(Range(held')) = IDs(Range(held)) \ {p.id}
  BY <1>1, <1>2, HeadMoves
<1> HIDE DEF p
<1>4. /\ first' = first /\ audioOffset' = audioOffset /\ heldFull' = heldFull
      /\ stream' = stream /\ given' = given /\ anchor' = anchor /\ base' = base
  BY <1>1 DEF startVars, inputVars
<1>5. first' \in Int /\ audioOffset' \in Int
  BY <1>4, QueueInvariant
<1>6. Moved(p)
  <2>1. /\ p.id \notin IDs(Range(held')) /\ IDs(Range(held')) \subseteq IDs(Range(held)) \cup {p.id}
    BY <1>3
  <2> QED
    BY <1>1, <1>3, <1>4, <1>5, <2>1, OldestQueued
<1>7. KindInv'
  <2>1. /\ held' \in Seq(AnyPacket) /\ queue' \in Seq(AnyPacket)
        /\ wait' \in VideoDisposable .. VideoHighest /\ dumped' \in Int
        /\ total' \in [video : Int, audio : Int] /\ first' \in Int /\ audioOffset' \in Int
    BY <1>6 DEF Moved, QueueTypes
  <2> QED
    BY <1>1, <1>4, <2>1 DEF IInv, KindInv
<1>8. OnceInv'
  <2>1. /\ IDs(Range(queue')) \subseteq IDs(Range(queue)) \cup (IDs(Range(held)) \ IDs(Range(held')))
        /\ Distinct(held') /\ Distinct(queue')
    BY <1>6 DEF Moved
  <2>2. /\ IDs(Range(held)) \subseteq 1 .. given' /\ IDs(Range(queue)) \subseteq 1 .. given'
        /\ IDs(Range(held)) \cap IDs(Range(queue)) = {}
    BY <1>4, QueueInvariant
  <2>3. IDs(Range(held')) \cap IDs(Range(queue')) = {}
    BY <1>3, <2>1, <2>2
  <2>4. IDs(Range(held')) \cup IDs(Range(queue')) \subseteq 1 .. given'
    BY <1>3, <2>1, <2>2
  <2> QED
    BY <2>1, <2>3, <2>4 DEF OnceInv, Distinct
<1>9. PacketsAccounted'
  <2>1. Accounts(total', sent', queue', dumped')
    BY <1>1, <1>6 DEF Moved
  <2> QED
    BY <2>1 DEF PacketsAccounted, Accounts, VideoOf, AudioOf
<1>10. ExitInv'
  <2>1. ~loopExit /\ sender # "done"
    BY <1>1 DEF IInv, ExitInv
  <2>2. ~loopExit' /\ sender' # "done"
    BY <1>1, <2>1
  <2>3. sender' = "checking" => IDs(Range(queue')) \subseteq missed'
    BY <1>1, <1>6 DEF Moved, IInv, ExitInv
  <2> QED
    BY <2>2, <2>3 DEF ExitInv
<1>11. HeadersInv'
  BY <1>1, <1>6 DEF Moved, HeadersInv
<1> QED
  BY <1>7, <1>8, <1>9, <1>10, <1>11 DEF IInv

\* What only concerns the threads.
LEMMA SameLists ==
  ASSUME IInv, UNCHANGED <<held, queue, stream, given, total, sent, dumped>>
  PROVE  OnceInv' /\ PacketsAccounted'
<1>1. OnceInv'
  BY DEF IInv, OnceInv, Distinct
<1>2. Accounts(total', sent', queue', dumped')
  BY QueueInvariant
<1> QED
  BY <1>1, <1>2 DEF PacketsAccounted, Accounts, VideoOf, AudioOf

\* The connection thread.
LEMMA ConnectionIInv ==
  ASSUME IInv, Connected \/ ConnectionFails
  PROVE  IInv'
<1>1. /\ UNCHANGED <<held, heldFull, first, audioOffset, queue, headers, total, dumped,
                     loopExit, sender, destroyer, stream, given, anchor, base, sent, missed>>
      /\ connection = "running"
      /\ \/ connection' = "up" /\ wait' = VideoDisposable /\ stopping' = stopping
         \/ connection' = "failed" /\ wait' = wait
  BY DEF Connected, ConnectionFails, heldVars, startVars, queueVars, threadVars, inputVars, historyVars
<1>2. KindInv'
  <2>1. connection' \in {"none", "running", "up", "failed"}
    BY <1>1
  <2>2. wait' \in VideoDisposable .. VideoHighest
    BY <1>1 DEF IInv, KindInv, VideoDisposable, VideoHighest
  <2> QED
    BY <1>1, <2>1, <2>2 DEF IInv, KindInv
<1>3. OnceInv' /\ PacketsAccounted'
  BY <1>1, SameLists
<1>4. ExitInv'
  BY <1>1 DEF IInv, ExitInv
<1>5. HeadersInv'
  BY <1>1 DEF IInv, HeadersInv
<1> QED
  BY <1>2, <1>3, <1>4, <1>5 DEF IInv

\* The send thread sends a packet.
LEMMA SendNextIInv ==
  ASSUME IInv, SendNext
  PROVE  IInv'
<1> DEFINE p == Head(queue)
<1>1. /\ sender = "sending" /\ queue # <<>> /\ queue' = Tail(queue)
      /\ sent' = IF ~IsVideo(p) THEN [sent EXCEPT !.audio = @ + 1]
                 ELSE [sent EXCEPT !.video = @ + 1, !.key = IF p.type = VideoHighest THEN p.id ELSE @]
      /\ UNCHANGED <<connection, stopping, held, heldFull, first, audioOffset, wait, headers, total,
                     dumped, loopExit, destroyer, stream, given, anchor, base, sender, missed>>
  BY DEF SendNext, OnlySender, heldVars, startVars, inputVars
<1>2. /\ QueueTypes /\ Distinct(queue) /\ Accounts(total, sent, queue, dumped)
      /\ sent \in [video : Int, audio : Int, key : Nat]
  BY QueueInvariant
<1>3. /\ queue' \in Seq(AnyPacket) /\ Distinct(queue') /\ p \in AnyPacket
      /\ IDs(Range(queue')) = IDs(Range(queue)) \ {p.id}
  BY <1>1, <1>2, HeadMoves DEF QueueTypes
<1>4. Range(queue) = Range(queue') \cup {p} /\ p \notin Range(queue')
  <2>1. Range(queue) = Range(queue') \cup {p}
    BY <1>1, <1>2, Ends DEF QueueTypes
  <2>2. \A r \in Range(queue') : r.id # p.id
    BY <1>1, <1>2, TailDistinct DEF QueueTypes
  <2> QED
    BY <2>1, <2>2
<1>5. p.id \in Nat
  BY <1>3 DEF AnyPacket
<1> HIDE DEF p
<1>6. /\ sent' \in [video : Int, audio : Int, key : Nat]
      /\ IsVideo(p) => sent'.video = sent.video + 1 /\ sent'.audio = sent.audio
      /\ ~IsVideo(p) => sent'.video = sent.video /\ sent'.audio = sent.audio + 1
  <2>1. CASE IsVideo(p)
    <3> DEFINE key == IF p.type = VideoHighest THEN p.id ELSE sent.key
    <3>1. sent' = [sent EXCEPT !.video = @ + 1, !.key = key]
      BY <1>1, <2>1
    <3>2. key \in Nat
      BY <1>2, <1>5
    <3> HIDE DEF key
    <3>3. sent' = [video |-> sent.video + 1, audio |-> sent.audio, key |-> key]
      BY <1>2, <3>1
    <3>4. sent.video + 1 \in Int /\ sent.audio \in Int
      BY <1>2
    <3> QED
      BY <2>1, <3>2, <3>3, <3>4
  <2>2. CASE ~IsVideo(p)
    <3>1. sent' = [sent EXCEPT !.audio = @ + 1]
      BY <1>1, <2>2
    <3> QED
      BY <1>2, <2>2, <3>1
  <2> QED
    BY <2>1, <2>2
<1>7. KindInv'
  BY <1>1, <1>3, <1>6 DEF IInv, KindInv
<1>8. OnceInv'
  <2>1. Distinct(held') /\ Distinct(queue')
    BY <1>1, <1>3 DEF IInv, OnceInv, Distinct
  <2>2. /\ IDs(Range(held')) \cup IDs(Range(queue')) \subseteq 1 .. given'
        /\ IDs(Range(held')) \cap IDs(Range(queue')) = {}
    BY <1>1, <1>3 DEF IInv, OnceInv
  <2> QED
    BY <2>1, <2>2 DEF OnceInv, Distinct
<1>9. PacketsAccounted'
  <2> DEFINE S == Range(queue')
             v == Cardinality(VideoOf(S))
             a == Cardinality(AudioOf(S))
             V == Cardinality(VideoOf(S \cup {p}))
             A == Cardinality(AudioOf(S \cup {p}))
  <2>1. IsFiniteSet(S) /\ p \notin S
    BY <1>3, <1>4, DistinctProperties
  <2> HIDE DEF S
  <2>2. /\ IsVideo(p) => V = v + 1 /\ A = a
        /\ ~IsVideo(p) => V = v /\ A = a + 1
        /\ v \in Nat /\ a \in Nat
    BY <2>1, OneMore, VideoAndAudio
  <2>3. /\ total.video = sent.video + V + dumped /\ total.audio = sent.audio + A
        /\ total.video \in Int /\ total.audio \in Int /\ dumped \in Int
        /\ sent.video \in Int /\ sent.audio \in Int
    BY <1>2, <1>4 DEF Accounts, QueueTypes, S
  <2> HIDE DEF v, a, V, A
  <2>4. total.video = sent'.video + v + dumped /\ total.audio = sent'.audio + a
    <3>1. CASE IsVideo(p)
      <4>1. sent'.video = sent.video + 1 /\ sent'.audio = sent.audio /\ V = v + 1 /\ A = a
        BY <1>6, <2>2, <3>1
      <4> QED
        BY <2>2, <2>3, <4>1
    <3>2. CASE ~IsVideo(p)
      <4>1. sent'.video = sent.video /\ sent'.audio = sent.audio + 1 /\ V = v /\ A = a + 1
        BY <1>6, <2>2, <3>2
      <4>2. v \in Int /\ a \in Int
        BY <2>2
      <4>3. total.video = sent'.video + v + dumped
        BY <2>3, <4>1
      <4>4. \A x, y \in Int : x + (y + 1) = (x + 1) + y
        OBVIOUS
      <4>5. sent.audio + (a + 1) = (sent.audio + 1) + a
        BY <2>3, <4>2, <4>4
      <4>6. total.audio = sent'.audio + a
        BY <2>3, <4>1, <4>5
      <4> QED
        BY <4>3, <4>6
    <3> QED
      BY <3>1, <3>2
  <2>5. Accounts(total', sent', queue', dumped')
    BY <1>1, <2>4 DEF Accounts, v, a, S
  <2> QED
    BY <2>5 DEF PacketsAccounted, Accounts, VideoOf, AudioOf
<1>10. ExitInv'
  BY <1>1 DEF IInv, ExitInv
<1>11. HeadersInv'
  BY <1>1 DEF IInv, HeadersInv
<1> QED
  BY <1>7, <1>8, <1>9, <1>10, <1>11 DEF IInv

\* The other steps of the send thread.
LEMMA SenderIInv ==
  ASSUME IInv, WakeSender \/ FoundEmpty \/ CheckExit
  PROVE  IInv'
<1>1. /\ UNCHANGED <<connection, stopping, held, heldFull, first, audioOffset, queue, wait, headers,
                     total, dumped, loopExit, destroyer, stream, given, anchor, base, sent>>
      /\ \/ sender' = "sending"
         \/ sender' = "checking" /\ queue = <<>>
         \/ sender = "checking" /\ sender' = "waiting"
         \/ sender = "checking" /\ sender' = "done" /\ loopExit /\ missed' = missed
  BY DEF WakeSender, FoundEmpty, CheckExit, OnlySender, heldVars, startVars, inputVars, historyVars
<1>2. KindInv'
  BY <1>1 DEF IInv, KindInv
<1>3. OnceInv' /\ PacketsAccounted'
  BY <1>1, SameLists
<1>4. ExitInv'
  <2>1. IDs(Range(<<>>)) = {}
    BY NoPackets DEF IDs
  <2> QED
    BY <1>1, <2>1 DEF IInv, ExitInv
<1>5. HeadersInv'
  BY <1>1 DEF IInv, HeadersInv
<1> QED
  BY <1>2, <1>3, <1>4, <1>5 DEF IInv

\* The other steps of the destructor.
LEMMA DestroyerIInv ==
  ASSUME IInv, Destroy \/ JoinConnection \/ EndSending \/ JoinSender
  PROVE  IInv'
<1>1. /\ UNCHANGED <<connection, held, heldFull, first, audioOffset, queue, wait, headers,
                     total, dumped, sender, stream, given, anchor, base, sent, missed>>
      /\ \/ destroyer = "none" /\ destroyer' = "joining" /\ loopExit' = loopExit
         \/ /\ destroyer = "joining" /\ destroyer' = "flushing"
            /\ loopExit' = loopExit /\ stopping' = stopping
         \/ /\ destroyer = "flushing" /\ destroyer' = "flushing" /\ held = <<>>
            /\ loopExit' = TRUE /\ stopping' = stopping
         \/ /\ destroyer = "flushing" /\ destroyer' = "done"
            /\ loopExit' = loopExit /\ stopping' = stopping
  BY DEF Destroy, JoinConnection, EndSending, Flushed, JoinSender,
         heldVars, startVars, queueVars, inputVars, historyVars
<1>2. KindInv'
  BY <1>1 DEF IInv, KindInv
<1>3. OnceInv' /\ PacketsAccounted'
  BY <1>1, SameLists
<1>4. ExitInv'
  BY <1>1 DEF IInv, ExitInv
<1>5. HeadersInv'
  BY <1>1 DEF IInv, HeadersInv
<1> QED
  BY <1>2, <1>3, <1>4, <1>5 DEF IInv

LEMMA NextIInv == IInv /\ [Next]_vars => IInv'
<1> SUFFICES ASSUME IInv, [Next]_vars PROVE IInv'
  OBVIOUS
<1>1. CASE SendPacket
  BY <1>1, SendPacketIInv
<1>2. CASE Connected \/ ConnectionFails
  BY <1>2, ConnectionIInv
<1>3. CASE SendNext
  BY <1>3, SendNextIInv
<1>4. CASE WakeSender \/ FoundEmpty \/ CheckExit
  BY <1>4, SenderIInv
<1>5. CASE FlushPacket
  BY <1>5, FlushPacketIInv
<1>6. CASE Destroy \/ JoinConnection \/ EndSending \/ JoinSender
  BY <1>6, DestroyerIInv
<1>7. CASE UNCHANGED vars
  <2>1. UNCHANGED <<connection, stopping, held, heldFull, first, audioOffset, queue, wait, headers,
                    total, dumped, loopExit, sender, destroyer, stream, given, anchor, base, sent, missed>>
    BY <1>7 DEF vars, heldVars, startVars, queueVars, threadVars, inputVars, historyVars
  <2>2. KindInv'
    BY <2>1 DEF IInv, KindInv
  <2>3. OnceInv' /\ PacketsAccounted'
    BY <2>1, SameLists
  <2>4. ExitInv' /\ HeadersInv'
    BY <2>1 DEF IInv, ExitInv, HeadersInv
  <2> QED
    BY <2>2, <2>3, <2>4 DEF IInv
<1> QED
  BY <1>1, <1>2, <1>3, <1>4, <1>5, <1>6, <1>7 DEF Next, SenderStep, DestroyerStep

\* What is held back, what is queued and what has been sent or dropped never
\* overlap; what the send thread has missed is all it leaves behind.
THEOREM InductiveInvariant == Spec => []IInv
<1>1. Spec => Init /\ [][Next]_vars
  BY PTL DEF Spec
<1> QED
  BY <1>1, InitIInv, NextIInv, PTL

\* SendPacketForReal and DropFrame: every frame that counts as one of the stream
\* is sent, queued or counted as dropped, and audio is never dropped, whatever the
\* thresholds and the stream.
THEOREM FramesAddUp == Spec => []PacketsAccounted
<1>1. IInv => PacketsAccounted
  BY DEF IInv
<1> QED
  BY <1>1, InductiveInvariant, PTL

\* ~RTMPPublisher: when the send thread is done, nothing is left in the queue but
\* what came between its last look and its end; frames are sent after the headers
\* unless the stream was destroyed before the buffer had filled.
THEOREM NothingIsLeft == Spec => []NothingLeftBehind
<1>1. IInv => NothingLeftBehind
  BY DEF IInv, ExitInv, HeadersInv, NothingLeftBehind
<1> QED
  BY <1>1, InductiveInvariant, PTL
-----------------------------------------------------------------------------
(***************************************************************************)
(* Frames and what they are decoded from.                                  *)
(***************************************************************************)

Frames(q) == VideoOf(Range(q))

\* The frames of a list are in the order they were given in, and of their times.
FrameOrder(q) == \A a, b \in Frames(q) : Precedes(q, a, b) => a.id < b.id /\ a.time <= b.time

TimeOrder(q) == \A a, b \in Range(q) : Precedes(q, a, b) => a.time <= b.time

\* A frame that may be needed: the least priority of what it is decoded from.
RefType(type) == IF type = VideoDisposable THEN VideoLow ELSE VideoHigh

\* A frame refers to the last frame before it that it can refer to, or to a later one
\* that is not in S.
Reads(r, S) ==
  /\ r.ref < r.id /\ (r.type = VideoHighest => r.ref = 0)
  /\ \A p \in S : p.id < r.id /\ r.type # VideoHighest /\ p.type >= RefType(r.type) => p.id <= r.ref
  /\ \A p \in S : r.ref = p.id => p.type >= RefType(r.type)

\* With bFastInitialKeyframe the frames before this number may be missing.
Skipped == IF fast THEN firstID ELSE 0

\* A frame with what it is decoded from among the queued or the sent ones, or one that
\* misses only what was skipped: no keyframe has come since.
Excused(S, key, from, n) ==
  /\ key < from
  /\ \A k \in S : k.type = VideoHighest /\ k.id < n => k.id < from
Has(S, dec, n) == n \in dec \/ n \in IDs(S)
Found(r, S, dec, key, from) == Has(S, dec, r.ref) \/ Excused(S, key, from, r.id)

\* Every frame in S, and every frame in P that packetWaitType lets in and that does not
\* refer to a frame in H, which come first.
Decodable(S, dec, key, from) == \A r \in S : r.ref # 0 => Found(r, S, dec, key, from)
Ready(P, H, S, w, dec, key, from) ==
  \A r \in P : r.type >= w /\ r.ref # 0 /\ r.ref \notin H => Found(r, S, dec, key, from)

\* Frames that are still to come, for a queue.
Readers(P) == \A r \in P : r.id \in Nat /\ r.ref \in Nat /\ r.type \in VideoDisposable .. VideoHighest
Context(q, P) ==
  /\ FrameOrder(q)
  /\ \A r \in Frames(q) \cup P : Reads(r, Frames(q))
  /\ \A f \in Frames(q), r \in P : f.id < r.id

\* DropFrame: what is dropped is what nothing refers to any more, or what is waited for
\* does not refer to it.
LEMMA DropFrameKeeps ==
  ASSUME NEW q \in Seq(AnyPacket), Distinct(q), NEW w \in VideoDisposable .. VideoHighest,
         NEW id \in 1 .. Len(q), q[id].type <= VideoHigh,
         \/ q[id].type = VideoDisposable
         \/ \A n \in 1 .. Len(q) : q[n].type # VideoDisposable,
         NEW P, NEW H, NEW dec, NEW key \in Nat, NEW from \in Nat,
         Readers(P), Context(q, P),
         Decodable(Frames(q), dec, key, from), Ready(P, H, Frames(q), w, dec, key, from)
  PROVE  /\ Decodable(Frames(DropFrame(q, w, id).queue), dec, key, from)
         /\ Ready(P, H, Frames(DropFrame(q, w, id).queue), DropFrame(q, w, id).wait, dec, key, from)
<1> DEFINE type  == q[id].type
           later == {n \in id + 1 .. Len(q) : IsVideo(q[n])}
           next  == {n \in later : q[n].type >= (IF type >= VideoHigh THEN VideoHighest ELSE type)}
           gone  == {id} \cup (IF type >= VideoHigh THEN {n \in later : \A k \in next : n < k} ELSE {})
           d == DropFrame(q, w, id)
           N == Len(q)
           S == Frames(d.queue)
<1> USE DEF VideoDisposable, VideoLow, VideoHigh, VideoHighest, Audio
<1>1. /\ N \in Nat
      /\ \A n \in 1 .. N : q[n] \in AnyPacket /\ q[n] \in Range(q)
      /\ \A p \in Range(q) : \E n \in 1 .. N : p = q[n]
  BY Ends
<1>2. \A n \in 1 .. N : q[n].id \in Nat /\ q[n].ref \in Nat /\ q[n].type \in 0 .. 4
  BY <1>1 DEF AnyPacket
<1>3. type \in 0 .. 2 /\ IsVideo(q[id])
  BY <1>2 DEF IsVideo
<1>4. \A n \in 1 .. N : n \in gone =>
        n = id \/ (type = 2 /\ id < n /\ IsVideo(q[n]) /\ \A k \in next : n < k)
  BY <1>3
<1>5. \A m \in 1 .. N : type = 2 /\ id < m /\ IsVideo(q[m]) /\ m \notin gone => \E k \in next : ~(m < k)
  BY <1>1
<1>6. \A k \in next : /\ k \in 1 .. N /\ id < k /\ IsVideo(q[k])
                      /\ q[k].type >= (IF type = 2 THEN 3 ELSE type)
  BY <1>1, <1>3
<1>7. d = [queue |-> Without(q, gone),
           wait  |-> IF next # {} THEN w
                     ELSE IF type >= VideoHigh THEN VideoHighest ELSE Larger(w, type)]
  BY DEF DropFrame
<1> HIDE DEF gone, next, d
<1>8. Range(Without(q, gone)) = {q[n] : n \in (1 .. N) \ gone}
  BY WithoutProperties
<1>9. /\ \A s \in S : \E m \in 1 .. N : s = q[m] /\ m \notin gone /\ IsVideo(q[m])
      /\ \A m \in 1 .. N : m \notin gone /\ IsVideo(q[m]) => q[m] \in S
  <2>1. d.queue = Without(q, gone)
    BY <1>7
  <2> QED
    BY <1>8, <2>1 DEF Frames, VideoOf
<1>10. \A m \in 1 .. N : IsVideo(q[m]) => q[m] \in Frames(q)
  BY <1>1 DEF Frames, VideoOf
<1>11. \A f \in Frames(q) : \E n \in 1 .. N : f = q[n] /\ IsVideo(q[n])
  BY <1>1 DEF Frames, VideoOf
<1>12. S \subseteq Frames(q)
  BY <1>9, <1>10
<1>13. \A m, n \in 1 .. N : m < n /\ IsVideo(q[m]) /\ IsVideo(q[n]) => q[m].id < q[n].id
  BY <1>10 DEF Context, FrameOrder, Precedes
<1>14. d.wait \in 0 .. 3 /\ d.wait >= w
       /\ (next = {} => d.wait >= (IF type = 2 THEN 3 ELSE type))
  BY <1>3, <1>7 DEF Larger
<1>15. \A n \in 1 .. N : n \in gone => IsVideo(q[n]) /\ \A k \in next : n < k
  BY <1>3, <1>4, <1>6
<1> HIDE DEF type, N, S
\* The frames that stay do not refer to one that goes.
<1>20. ASSUME NEW m \in 1 .. N, m \notin gone, IsVideo(q[m]), q[m].ref # 0,
              NEW n \in 1 .. N, n \in gone, q[m].ref = q[n].id
       PROVE  FALSE
  <2>1. /\ q[m] \in Frames(q) /\ q[n] \in Frames(q)
        /\ Reads(q[m], Frames(q))
    BY <1>10, <1>15, <1>20 DEF Context
  <2>2. /\ q[m].ref < q[m].id /\ q[m].type # 3
        /\ q[n].type >= RefType(q[m].type)
        /\ \A p \in Frames(q) : p.id < q[m].id /\ p.type >= RefType(q[m].type) => p.id <= q[m].ref
    BY <1>20, <2>1 DEF Reads
  <2>3. q[m].type \in {0, 1, 2}
    BY <1>2, <1>20, <2>2 DEF IsVideo
  <2>4. CASE type # 2
    <3>1. n = id /\ type \in {0, 1}
      BY <1>3, <1>4, <1>20, <2>4
    <3>2. RefType(q[m].type) \in {1, 2} /\ (RefType(q[m].type) = 1 => q[m].type = 0)
      BY DEF RefType
    <3>3. type = 1 /\ q[m].type = 0
      BY <2>2, <3>1, <3>2 DEF type
    <3> QED
      BY <3>3 DEF type, N
  <2>5. CASE type = 2
    <3>1. m # id
      BY <1>3, <1>20 DEF gone
    <3>2. CASE m < id
      <4>1. m < n
        BY <1>1, <1>4, <1>20, <3>2
      <4> QED
        BY <1>2, <1>13, <1>15, <1>20, <2>2, <4>1
    <3>3. CASE id < m
      <4>1. PICK k \in next : ~(m < k)
        BY <1>5, <1>20, <2>5, <3>3
      <4>2. k \in 1 .. N /\ IsVideo(q[k]) /\ q[k].type >= 3 /\ n < k
        BY <1>6, <1>15, <1>20, <2>5
      <4>3. k # m
        BY <2>3, <4>2
      <4>4. k < m
        BY <1>1, <4>1, <4>2, <4>3
      <4>5. q[k].id < q[m].id /\ q[n].id < q[k].id
        BY <1>13, <1>15, <1>20, <4>2, <4>4
      <4>6. q[k].type >= RefType(q[m].type)
        <5>1. RefType(q[m].type) \in {1, 2}
          BY DEF RefType
        <5>2. q[k].type \in 0 .. 4
          BY <1>2, <4>2
        <5> QED
          BY <4>2, <5>1, <5>2
      <4>7. q[k].id <= q[m].ref
        BY <1>10, <2>2, <4>2, <4>5, <4>6
      <4> QED
        BY <1>2, <1>20, <4>2, <4>5, <4>7
    <3> QED
      BY <1>1, <3>1, <3>2, <3>3
  <2> QED
    BY <2>4, <2>5
\* What is waited for does not refer to one that goes.
<1>21. ASSUME NEW r \in P, r.type >= d.wait, r.ref # 0,
              NEW n \in 1 .. N, n \in gone, r.ref = q[n].id
       PROVE  FALSE
  <2>1. Reads(r, Frames(q)) /\ q[n] \in Frames(q)
    BY <1>10, <1>15, <1>21 DEF Context
  <2>2. /\ r.type # 3 /\ q[n].type >= RefType(r.type)
        /\ \A p \in Frames(q) : p.id < r.id /\ p.type >= RefType(r.type) => p.id <= r.ref
    BY <1>21, <2>1 DEF Reads
  <2>3. r.type \in {0, 1, 2}
    BY <2>2 DEF Readers
  <2>4. \A k \in next : ~(q[k].type >= RefType(r.type))
    <3> SUFFICES ASSUME NEW k \in next, q[k].type >= RefType(r.type) PROVE FALSE
      OBVIOUS
    <3>1. k \in 1 .. N /\ IsVideo(q[k]) /\ n < k
      BY <1>6, <1>15, <1>21
    <3>2. q[k] \in Frames(q) /\ q[k].id < r.id /\ q[n].id < q[k].id
      BY <1>10, <1>13, <1>15, <1>21, <3>1 DEF Context
    <3>3. q[k].id <= r.ref
      BY <2>2, <3>2
    <3> QED
      BY <1>2, <1>21, <3>1, <3>2, <3>3
  <2>5. RefType(r.type) \in {1, 2} /\ (RefType(r.type) = 1 => r.type = 0)
    BY DEF RefType
  <2>6. CASE type # 2
    <3>1. n = id /\ type \in {0, 1}
      BY <1>3, <1>4, <1>21, <2>6
    <3>2. type = 1 /\ r.type = 0 /\ RefType(r.type) = 1
      BY <2>2, <2>5, <3>1 DEF type
    <3>3. next # {}
      BY <1>14, <1>21, <2>6, <3>2
    <3> QED
      BY <1>6, <2>4, <3>2, <3>3
  <2>7. CASE type = 2
    <3>1. next # {}
      BY <1>14, <1>21, <2>3, <2>7
    <3>2. \A k \in next : q[k].type >= 3 /\ q[k].type \in 0 .. 4
      BY <1>2, <1>6, <2>7
    <3> QED
      BY <2>4, <2>5, <3>1, <3>2
  <2> QED
    BY <2>6, <2>7
<1>22. ASSUME NEW r, Found(r, Frames(q), dec, key, from),
              \A n \in 1 .. N : n \in gone => r.ref # q[n].id
       PROVE  Found(r, S, dec, key, from)
  <2>1. CASE r.ref \in IDs(Frames(q))
    <3>1. PICK m \in 1 .. N : r.ref = q[m].id /\ IsVideo(q[m])
      BY <1>11, <2>1 DEF IDs
    <3>2. q[m] \in S
      BY <1>9, <1>22, <3>1
    <3> QED
      BY <3>1, <3>2 DEF Found, Has, IDs
  <2>2. CASE r.ref \in dec
    BY <2>2 DEF Found, Has
  <2>3. CASE Excused(Frames(q), key, from, r.id)
    BY <1>12, <2>3 DEF Found, Excused
  <2> QED
    BY <1>22, <2>1, <2>2, <2>3 DEF Found, Has
<1>23. Decodable(S, dec, key, from)
  <2> SUFFICES ASSUME NEW s \in S, s.ref # 0 PROVE Found(s, S, dec, key, from)
    BY DEF Decodable
  <2>1. PICK m \in 1 .. N : s = q[m] /\ m \notin gone /\ IsVideo(q[m])
    BY <1>9
  <2>2. Found(s, Frames(q), dec, key, from)
    BY <1>12 DEF Decodable
  <2>3. \A n \in 1 .. N : n \in gone => s.ref # q[n].id
    BY <1>20, <2>1
  <2> QED
    BY <1>22, <2>2, <2>3
<1>24. Ready(P, H, S, d.wait, dec, key, from)
  <2> SUFFICES ASSUME NEW r \in P, r.type >= d.wait, r.ref # 0, r.ref \notin H
               PROVE  Found(r, S, dec, key, from)
    BY DEF Ready
  <2>1. r.type >= w
    BY <1>14 DEF Readers
  <2>2. Found(r, Frames(q), dec, key, from)
    BY <2>1 DEF Ready
  <2>3. \A n \in 1 .. N : n \in gone => r.ref # q[n].id
    BY <1>21
  <2> QED
    BY <1>22, <2>2, <2>3
<1> QED
  BY <1>23, <1>24 DEF S, d

\* DoIFrameDelay and DropFrame, repeated: Context and what it says hold of what is left.
Chains(q, P, H, dec, key, from) ==
  {d \in Leftovers(q) : /\ Decodable(Frames(d.queue), dec, key, from)
                        /\ Ready(P, H, Frames(d.queue), d.wait, dec, key, from)}

\* A part of a list in its order is as the list.
LEMMA PartContext ==
  ASSUME NEW q, NEW P, NEW d \in Leftovers(q), Context(q, P)
  PROVE  Context(d.queue, P)
<1>1. Range(d.queue) \subseteq Range(q) /\ \A a, b : Precedes(d.queue, a, b) => Precedes(q, a, b)
  BY DEF Leftovers
<1>2. Frames(d.queue) \subseteq Frames(q)
  BY <1>1 DEF Frames, VideoOf
<1>3. FrameOrder(d.queue)
  BY <1>1, <1>2 DEF Context, FrameOrder
<1>4. \A r \in Frames(d.queue) \cup P : Reads(r, Frames(d.queue))
  BY <1>2 DEF Context, Reads
<1> QED
  BY <1>2, <1>3, <1>4 DEF Context

LEMMA DoIFrameDelayKeeps ==
  ASSUME NEW q \in Seq(AnyPacket), NEW P, NEW H, NEW dec, NEW key \in Nat, NEW from \in Nat,
         Readers(P), Context(q, P),
         NEW d \in Chains(q, P, H, dec, key, from), NEW b \in BOOLEAN
  PROVE  DoIFrameDelay(d, b) \in Chains(q, P, H, dec, key, from)
<1> DEFINE id == BestPacket(d.queue, b)
<1>1. /\ d \in Leftovers(q)
      /\ d.queue \in Seq(AnyPacket) /\ d.wait \in VideoDisposable .. VideoHighest /\ Distinct(d.queue)
      /\ Decodable(Frames(d.queue), dec, key, from)
      /\ Ready(P, H, Frames(d.queue), d.wait, dec, key, from)
  BY DEF Chains, Leftovers
<1>2. CASE id = 0
  BY <1>2 DEF DoIFrameDelay
<1>3. CASE id # 0
  <2>1. /\ id \in 1 .. Len(d.queue) /\ d.queue[id].type <= VideoHigh
        /\ \/ d.queue[id].type = VideoDisposable
           \/ \A n \in 1 .. Len(d.queue) : d.queue[n].type # VideoDisposable
    BY <1>1, <1>3, BestPacketProperties
  <2>2. DoIFrameDelay(d, b) = DropFrame(d.queue, d.wait, id)
    BY <1>3 DEF DoIFrameDelay
  <2> HIDE DEF id
  <2>3. Context(d.queue, P)
    BY <1>1, PartContext
  <2>4. /\ Decodable(Frames(DropFrame(d.queue, d.wait, id).queue), dec, key, from)
        /\ Ready(P, H, Frames(DropFrame(d.queue, d.wait, id).queue),
                 DropFrame(d.queue, d.wait, id).wait, dec, key, from)
    BY <1>1, <2>1, <2>3, DropFrameKeeps
  <2>5. DoIFrameDelay(d, b) \in Leftovers(q)
    BY <1>1, DoIFrameDelayProperties
  <2> QED
    BY <2>2, <2>4, <2>5 DEF Chains
<1> QED
  BY <1>2, <1>3

LEMMA ProcessedKeeps ==
  ASSUME queue \in Seq(AnyPacket), Distinct(queue), NEW late \in BOOLEAN,
         wait \in VideoDisposable .. VideoHighest,
         NEW P, NEW H, NEW dec, NEW key \in Nat, NEW from \in Nat,
         Readers(P), Context(queue, P),
         Decodable(Frames(queue), dec, key, from), Ready(P, H, Frames(queue), wait, dec, key, from)
  PROVE  Processed(late) \in Chains(queue, P, H, dec, key, from)
<1> DEFINE X == Chains(queue, P, H, dec, key, from)
           start == [queue |-> queue, wait |-> wait]
<1>1. start \in X
  BY DEF Chains, Leftovers
<1>2. \A d \in X, b \in BOOLEAN : DoIFrameDelay(d, b) \in X
  BY DoIFrameDelayKeeps
<1> HIDE DEF X
<1>3. Processed(late) \in X
  BY <1>1, <1>2, ProcessedStays
<1> QED
  BY <1>3 DEF X

\* The frame that is passed on: it is the first of those that are held back, F; C may come.
Foremost(h, F, C) ==
  /\ h \in F /\ \A r \in F \cup C : r # h => h.id < r.id
  /\ \A r \in F \cup C : r.ref >= h.id => r.ref \in IDs(F)

\* SendPacketForReal: a frame that is accepted has what it is decoded from; and what
\* comes after it and was not let in before refers to it, or to what comes after it.
LEMMA AcceptedFrame ==
  ASSUME NEW E, NEW F, NEW C, NEW h, NEW w \in VideoDisposable .. VideoHighest,
         NEW dec, NEW key \in Nat, NEW from \in Nat, NEW sk,
         Readers(F \cup C), Foremost(h, F, C),
         \A r \in F \cup C : Reads(r, E \cup F),
         \A e \in E : e.id \in Nat /\ e.id < h.id,
         h.type >= w,
         sk => Decodable(E, dec, key, from) /\ Ready(F \cup C, IDs(F), E, w, dec, key, from),
         ~sk => E = {} /\ h.type = VideoHighest
  PROVE  /\ Decodable(E \cup {h}, dec, key, from)
         /\ Ready((F \cup C) \ {h}, IDs(F \ {h}), E \cup {h}, VideoDisposable, dec, key, from)
<1> USE DEF VideoDisposable, VideoLow, VideoHigh, VideoHighest, Audio
<1>1. /\ h \in F /\ h.id \in Nat /\ h.ref \in Nat /\ h.type \in 0 .. 3
      /\ h.ref < h.id /\ (h.type = 3 => h.ref = 0)
  BY DEF Foremost, Readers, Reads
<1>2. \A e \in E \cup {h} : Found(e, E, dec, key, from) => Found(e, E \cup {h}, dec, key, from)
  <2> SUFFICES ASSUME NEW e \in E \cup {h}, Found(e, E, dec, key, from)
               PROVE  Found(e, E \cup {h}, dec, key, from)
    OBVIOUS
  <2>1. ~(h.id < e.id)
    BY <1>1
  <2>2. Has(E, dec, e.ref) => Has(E \cup {h}, dec, e.ref)
    BY DEF Has, IDs
  <2>3. Excused(E, key, from, e.id) => Excused(E \cup {h}, key, from, e.id)
    BY <2>1 DEF Excused
  <2> QED
    BY <2>2, <2>3 DEF Found
<1>3. Decodable(E \cup {h}, dec, key, from)
  <2> SUFFICES ASSUME NEW e \in E \cup {h}, e.ref # 0 PROVE Found(e, E, dec, key, from)
    BY <1>2 DEF Decodable
  <2>1. CASE e \in E
    BY <2>1 DEF Decodable
  <2>2. CASE e = h
    <3>1. sk
      BY <1>1, <2>2
    <3>2. h.ref \notin IDs(F)
      <4> SUFFICES ASSUME NEW f \in F, f.id = h.ref PROVE FALSE
        BY DEF IDs
      <4> QED
        BY <1>1 DEF Foremost, Readers
    <3>3. h.type >= w /\ h \in F \cup C
      BY <1>1
    <3>4. Found(h, E, dec, key, from)
      BY <2>2, <3>1, <3>2, <3>3 DEF Ready
    <3> QED
      BY <2>2, <3>4
  <2> QED
    BY <2>1, <2>2
<1>4. Ready((F \cup C) \ {h}, IDs(F \ {h}), E \cup {h}, 0, dec, key, from)
  <2> SUFFICES ASSUME NEW r \in F \cup C, r # h, r.ref # 0, r.ref \notin IDs(F \ {h})
               PROVE  Found(r, E \cup {h}, dec, key, from)
    BY DEF Ready
  <2>1. /\ r.id \in Nat /\ r.ref \in Nat /\ r.type \in 0 .. 2 /\ h.id < r.id
        /\ \A p \in F : p.id < r.id /\ p.type >= RefType(r.type) => p.id <= r.ref
    BY DEF Readers, Reads, Foremost
  <2>2. CASE r.ref = h.id
    BY <2>2 DEF Found, Has, IDs
  <2>3. CASE r.ref # h.id
    <3>1. r.ref \notin IDs(F)
      BY <2>3 DEF IDs
    <3>2. ~(r.ref >= h.id)
      BY <3>1 DEF Foremost
    <3>3. ~(h.type >= RefType(r.type))
      BY <1>1, <2>1, <3>2
    <3>4. h.type # 3 /\ r.type >= w
      BY <1>1, <2>1, <3>3 DEF RefType
    <3>5. sk
      BY <3>4
    <3>6. Found(r, E, dec, key, from)
      BY <3>1, <3>4, <3>5 DEF Ready
    <3>7. Has(E, dec, r.ref) => Has(E \cup {h}, dec, r.ref)
      BY DEF Has, IDs
    <3>8. Excused(E, key, from, r.id) => Excused(E \cup {h}, key, from, r.id)
      BY <3>4 DEF Excused
    <3> QED
      BY <3>6, <3>7, <3>8 DEF Found
  <2> QED
    BY <2>2, <2>3
<1> QED
  BY <1>3, <1>4

\* SendPacketForReal: what is let in after a frame that is refused does not refer to it.
LEMMA RefusedFrame ==
  ASSUME NEW E, NEW F, NEW C, NEW h, NEW w \in VideoDisposable .. VideoHighest,
         NEW dec, NEW key \in Nat, NEW from \in Nat,
         Readers(F \cup C), Foremost(h, F, C),
         \A r \in F \cup C : Reads(r, E \cup F),
         ~(h.type >= w), Ready(F \cup C, IDs(F), E, w, dec, key, from)
  PROVE  Ready((F \cup C) \ {h}, IDs(F \ {h}), E, w, dec, key, from)
<1> USE DEF VideoDisposable, VideoLow, VideoHigh, VideoHighest, Audio
<1> SUFFICES ASSUME NEW r \in F \cup C, r # h, r.type >= w, r.ref # 0, r.ref \notin IDs(F \ {h})
             PROVE  Found(r, E, dec, key, from)
  BY DEF Ready
<1>1. h \in F /\ h.id \in Nat /\ h.type \in 0 .. 3
  BY DEF Foremost, Readers
<1>2. r.type \in 0 .. 2
  BY DEF Readers, Reads
<1>3. r.ref # h.id
  <2> SUFFICES ASSUME r.ref = h.id PROVE FALSE
    OBVIOUS
  <2>1. h.type >= RefType(r.type)
    BY <1>1 DEF Reads
  <2> QED
    BY <1>1, <1>2, <2>1 DEF RefType
<1>4. r.ref \notin IDs(F)
  BY <1>3 DEF IDs
<1> QED
  BY <1>4 DEF Ready

\* A packet that is put into its place in time.
LEMMA InsertedFrames ==
  ASSUME NEW q \in Seq(AnyPacket), NEW p \in AnyPacket, TimeOrder(q), FrameOrder(q),
         IsVideo(p) => \A f \in Frames(q) : f.id < p.id /\ f.time <= p.time
  PROVE  /\ Range(InsertByTime(q, p)) = Range(q) \cup {p}
         /\ Frames(InsertByTime(q, p)) = Frames(q) \cup VideoOf({p})
         /\ TimeOrder(InsertByTime(q, p)) /\ FrameOrder(InsertByTime(q, p))
<1> DEFINE r == InsertByTime(q, p)
<1>1. Range(r) = Range(q) \cup {p}
  BY Inserted DEF PutInto
<1>2. Frames(r) = Frames(q) \cup VideoOf({p})
  BY <1>1 DEF Frames, VideoOf
<1>3. p.time \in Int /\ p.id \in Nat /\ \A a \in Range(q) : a.time \in Int /\ a.id \in Nat
  <2>1. \A a \in Range(q) : a \in AnyPacket
    BY Ends
  <2> QED
    BY <2>1 DEF AnyPacket
\* What comes after the new packet is later.
<1>4. ASSUME NEW b \in Range(q), b.time > p.time \/ \E c \in Range(q) : Precedes(q, c, b) /\ c.time > p.time
      PROVE  b.time > p.time
  <2>1. ASSUME NEW c \in Range(q), Precedes(q, c, b), c.time > p.time PROVE b.time > p.time
    <3>1. c.time <= b.time
      BY <2>1 DEF TimeOrder
    <3> QED
      BY <1>3, <2>1, <3>1
  <2> QED
    BY <1>4, <2>1
<1>5. ASSUME NEW a, NEW b, Precedes(r, a, b)
      PROVE  \/ Precedes(q, a, b)
             \/ b = p /\ a \in Range(q) /\ a.time <= p.time
             \/ a = p /\ b \in Range(q) /\ b.time > p.time
  BY <1>4, <1>5, InsertedOrder
<1> HIDE DEF r
<1>6. Range(q) \cup {p} = Range(r) /\ \A a, b : Precedes(q, a, b) => a \in Range(q) /\ b \in Range(q)
  BY <1>1, Ends DEF Precedes
<1>7. TimeOrder(r)
  <2> SUFFICES ASSUME NEW a, NEW b, Precedes(r, a, b) PROVE a.time <= b.time
    BY DEF TimeOrder
  <2>1. Precedes(q, a, b) => a.time <= b.time
    BY <1>6 DEF TimeOrder
  <2> QED
    BY <1>3, <1>5, <2>1
<1>8. FrameOrder(r)
  <2> SUFFICES ASSUME NEW a \in Frames(r), NEW b \in Frames(r), Precedes(r, a, b)
               PROVE  a.id < b.id /\ a.time <= b.time
    BY DEF FrameOrder
  <2>1. CASE Precedes(q, a, b)
    <3>1. a \in Frames(q) /\ b \in Frames(q)
      BY <1>6, <2>1 DEF Frames, VideoOf
    <3> QED
      BY <2>1, <3>1 DEF FrameOrder
  <2>2. CASE b = p /\ a \in Range(q)
    <3>1. a \in Frames(q) /\ IsVideo(p)
      BY <2>2 DEF Frames, VideoOf
    <3> QED
      BY <2>2, <3>1
  <2>3. CASE a = p /\ b \in Range(q) /\ b.time > p.time
    <3>1. b \in Frames(q) /\ IsVideo(p)
      BY <2>3 DEF Frames, VideoOf
    <3>2. b.time <= p.time
      BY <3>1
    <3> QED
      BY <1>3, <2>3, <3>2
  <2> QED
    BY <1>5, <2>1, <2>2, <2>3
<1> QED
  BY <1>1, <1>2, <1>7, <1>8 DEF r

\* A packet with another time.
LEMMA OtherTime ==
  ASSUME NEW p \in AnyPacket, NEW t \in Int
  PROVE  LET z == [p EXCEPT !.time = t]
         IN  z \in AnyPacket /\ z.id = p.id /\ z.type = p.type /\ z.ref = p.ref /\ z.time = t
  BY DEF AnyPacket

LEMMA StampedProperties ==
  ASSUME NEW p \in AnyPacket
  PROVE  /\ Stamped(p) \in AnyPacket /\ Stamped(p).ref = p.ref /\ Stamped(p).id = p.id
         /\ (IsVideo(Stamped(p)) <=> IsVideo(p)) /\ (IsVideo(p) => Stamped(p) = p)
<1> DEFINE z == [p EXCEPT !.time = 0]
<1>1. z \in AnyPacket /\ z.id = p.id /\ z.ref = p.ref /\ z.type = p.type
  BY OtherTime
<1>2. Stamped(p) = p \/ (Stamped(p) = z /\ ~IsVideo(p))
  BY DEF Stamped, IsVideo
<1> HIDE DEF z
<1> QED
  BY <1>1, <1>2 DEF IsVideo

\* What SendPacketForReal does to the queue, whatever it drops first.
LEMMA QueueChanges ==
  ASSUME NEW h, SendPacketForReal(h), connection = "up", NEW X, \A late \in BOOLEAN : Processed(late) \in X
  PROVE  \E d \in X :
           LET accept == (sentKey \/ h.type = VideoHighest) /\ Accepted(h, d.wait)
           IN  /\ sentKey' = (sentKey \/ accept)
               /\ wait' = IF accept /\ IsVideo(h) THEN VideoDisposable ELSE d.wait
               /\ queue' = IF accept THEN InsertByTime(d.queue, Stamped(h)) ELSE d.queue
<1>1. \E late \in BOOLEAN :
        LET after == Processed(late)
            accept == (sentKey \/ h.type = VideoHighest) /\ Accepted(h, after.wait)
        IN  /\ sentKey' = (sentKey \/ accept)
            /\ wait' = IF accept /\ IsVideo(h) THEN VideoDisposable ELSE after.wait
            /\ queue' = IF accept THEN InsertByTime(after.queue, Stamped(h)) ELSE after.queue
  BY DEF SendPacketForReal
<1> QED
  BY <1>1

\* The queue when a packet is passed on to it, for what is held back, F, and may come, C.
QueueSound(q, sk, F, C, w, dec, key, from) ==
  /\ TimeOrder(q) /\ Context(q, F \cup C)
  /\ Decodable(Frames(q), dec, key, from)
  /\ sk => Ready(F \cup C, IDs(F), Frames(q), w, dec, key, from)
  /\ ~sk => q = <<>>

LEMMA PassedOn ==
  ASSUME queue \in Seq(AnyPacket), Distinct(queue), wait \in VideoDisposable .. VideoHighest,
         NEW h \in AnyPacket, SendPacketForReal(h), connection = "up", sentKey \in BOOLEAN,
         NEW F, NEW C, NEW key \in Nat, NEW from \in Nat, NEW dec,
         Readers(F \cup C), \A r \in F \cup C : Reads(r, Frames(queue) \cup F),
         IsVideo(h) => /\ Foremost(h, F, C)
                       /\ \A f \in Frames(queue) : f.time <= h.time,
         QueueSound(queue, sentKey, F, C, wait, dec, key, from)
  PROVE  /\ QueueSound(queue', sentKey', F \ {h}, C \ {h}, wait', dec, key, from)
         /\ sentKey' \in BOOLEAN
         /\ Frames(queue') \subseteq Frames(queue) \cup VideoOf({h})
         /\ \A a \in Range(queue') : IsVideo(a) \/ a \in Range(queue) \/ (~IsVideo(h) /\ a.ref = h.ref)
<1> USE DEF VideoDisposable, VideoLow, VideoHigh, VideoHighest, Audio
<1> DEFINE P == F \cup C
           s == Stamped(h)
           Good(d) == sentKey => /\ Decodable(Frames(d.queue), dec, key, from)
                                 /\ Ready(P, IDs(F), Frames(d.queue), d.wait, dec, key, from)
           X == {d \in Leftovers(queue) : Good(d)}
<1>1. /\ TimeOrder(queue) /\ Context(queue, P) /\ Decodable(Frames(queue), dec, key, from)
      /\ sentKey => Ready(P, IDs(F), Frames(queue), wait, dec, key, from)
      /\ ~sentKey => queue = <<>>
  BY DEF QueueSound
<1>2. \A late \in BOOLEAN : Processed(late) \in X
  <2> SUFFICES ASSUME NEW late \in BOOLEAN PROVE Processed(late) \in X
    OBVIOUS
  <2>1. Processed(late) \in Leftovers(queue)
    BY ProcessedProperties
  <2>2. ASSUME sentKey PROVE Processed(late) \in Chains(queue, P, IDs(F), dec, key, from)
    BY <1>1, <2>2, ProcessedKeeps
  <2> QED
    BY <2>1, <2>2 DEF Chains
<1> HIDE DEF X
<1>3. PICK d \in X :
        LET accept == (sentKey \/ h.type = VideoHighest) /\ Accepted(h, d.wait)
        IN  /\ sentKey' = (sentKey \/ accept)
            /\ wait' = IF accept /\ IsVideo(h) THEN VideoDisposable ELSE d.wait
            /\ queue' = IF accept THEN InsertByTime(d.queue, Stamped(h)) ELSE d.queue
  BY <1>2, QueueChanges
<1> DEFINE accept == (sentKey \/ h.type = 3) /\ h.type >= d.wait
           E == Frames(d.queue)
<1>4. /\ sentKey' = (sentKey \/ accept)
      /\ wait' = IF accept /\ IsVideo(h) THEN 0 ELSE d.wait
      /\ queue' = IF accept THEN InsertByTime(d.queue, s) ELSE d.queue
  BY <1>3 DEF Accepted
<1>5. /\ d \in Leftovers(queue) /\ Good(d)
      /\ d.queue \in Seq(AnyPacket) /\ d.wait \in 0 .. 3
      /\ Range(d.queue) \subseteq Range(queue)
      /\ \A a, b : Precedes(d.queue, a, b) => Precedes(queue, a, b)
  BY DEF X, Leftovers
<1>6. E \subseteq Frames(queue)
  BY <1>5 DEF Frames, VideoOf
<1>7. Context(d.queue, P)
  BY <1>1, <1>5, PartContext
<1>8. TimeOrder(d.queue)
  BY <1>1, <1>5 DEF TimeOrder
<1>9. ~sentKey => d.queue = <<>> /\ E = {}
  <2> SUFFICES ASSUME ~sentKey PROVE d.queue = <<>> /\ E = {}
    OBVIOUS
  <2>1. Range(d.queue) = {}
    BY <1>1, <1>5, NoPackets
  <2> QED
    BY <1>5, <2>1, Ends DEF Frames, VideoOf
<1>10. s \in AnyPacket /\ s.ref = h.ref /\ (IsVideo(s) <=> IsVideo(h)) /\ (IsVideo(h) => s = h)
  BY StampedProperties
<1>11. \A e \in Frames(queue) : e.id \in Nat
  BY Ends DEF Frames, VideoOf, AnyPacket
<1>12. sentKey' \in BOOLEAN
  <2>1. CASE sentKey \/ accept
    BY <1>4, <2>1, Zenon
  <2>2. CASE ~(sentKey \/ accept)
    BY <1>4, <2>2, Zenon
  <2> QED
    BY <2>1, <2>2
<1>13. (sentKey' <=> (sentKey \/ accept))
  <2>1. CASE sentKey \/ accept
    BY <1>4, <2>1, Zenon
  <2>2. CASE ~(sentKey \/ accept)
    BY <1>4, <2>2, Zenon
  <2> QED
    BY <2>1, <2>2
<1>14. ~sentKey => Decodable(E, dec, key, from)
  BY <1>9 DEF Decodable
<1>15. \A r \in P : Reads(r, E \cup F)
  BY <1>6 DEF Reads
<1> HIDE DEF s, E
<1>20. CASE accept /\ IsVideo(h)
  <2>1. queue' = InsertByTime(d.queue, h) /\ wait' = 0 /\ sentKey'
    BY <1>4, <1>10, <1>13, <1>20
  <2>2. Foremost(h, F, C) /\ h \in F
    BY <1>20 DEF Foremost
  <2>3. \A f \in E : f.id < h.id /\ f.time <= h.time /\ f.id \in Nat
    BY <1>6, <1>11, <1>20, <2>2, <1>1 DEF Context
  <2>4. /\ Range(queue') = Range(d.queue) \cup {h} /\ Frames(queue') = E \cup VideoOf({h})
        /\ TimeOrder(queue') /\ FrameOrder(queue')
    BY <1>5, <1>7, <1>8, <2>1, <2>3, InsertedFrames DEF E, Context
  <2>5. Frames(queue') = E \cup {h}
    BY <1>20, <2>4 DEF VideoOf
  <2>6. /\ sentKey => /\ Decodable(E, dec, key, from)
                      /\ Ready(P, IDs(F), E, d.wait, dec, key, from)
        /\ ~sentKey => E = {} /\ h.type = 3
        /\ h.type >= d.wait
    BY <1>5, <1>9, <1>20 DEF E
  <2>7. /\ Decodable(E \cup {h}, dec, key, from)
        /\ Ready(P \ {h}, IDs(F \ {h}), E \cup {h}, 0, dec, key, from)
    BY <1>5, <1>15, <2>2, <2>3, <2>6, AcceptedFrame
  <2>8. Context(queue', P \ {h})
    <3>1. \A r \in Frames(queue') \cup (P \ {h}) : Reads(r, Frames(queue'))
      <4>1. \A r \in E : Reads(r, E \cup {h})
        <5> SUFFICES ASSUME NEW r \in E PROVE Reads(r, E \cup {h})
          OBVIOUS
        <5>1. Reads(r, E) /\ r.id < h.id /\ r.id \in Nat
          BY <1>7, <2>3 DEF Context, E
        <5>2. r \in AnyPacket
          BY <1>5, Ends DEF E, Frames, VideoOf
        <5>3. r.ref \in Nat /\ h.id \in Nat
          BY <5>2 DEF AnyPacket
        <5> QED
          BY <5>1, <5>3 DEF Reads
      <4>2. \A r \in P : Reads(r, E \cup {h})
        BY <1>15, <2>2 DEF Reads
      <4> QED
        BY <2>2, <2>5, <4>1, <4>2
    <3>2. \A f \in Frames(queue'), r \in P \ {h} : f.id < r.id
      BY <1>7, <2>2, <2>5 DEF Context, Foremost, E
    <3> QED
      BY <2>4, <3>1, <3>2 DEF Context
  <2>9. (F \ {h}) \cup (C \ {h}) = P \ {h}
    OBVIOUS
  <2>10. QueueSound(queue', sentKey', F \ {h}, C \ {h}, wait', dec, key, from)
    BY <2>1, <2>4, <2>5, <2>7, <2>8, <2>9 DEF QueueSound
  <2>11. Frames(queue') \subseteq Frames(queue) \cup VideoOf({h})
    BY <1>6, <2>4
  <2> QED
    BY <1>5, <1>12, <1>20, <2>4, <2>10, <2>11
<1>21. CASE ~accept /\ IsVideo(h)
  <2>1. queue' = d.queue /\ wait' = d.wait /\ (sentKey' <=> sentKey)
    BY <1>4, <1>13, <1>21
  <2>2. Foremost(h, F, C)
    BY <1>21
  <2>3. sentKey => Ready(P \ {h}, IDs(F \ {h}), E, d.wait, dec, key, from)
    <3> SUFFICES ASSUME sentKey PROVE Ready(P \ {h}, IDs(F \ {h}), E, d.wait, dec, key, from)
      OBVIOUS
    <3>1. Ready(P, IDs(F), E, d.wait, dec, key, from) /\ ~(h.type >= d.wait)
      BY <1>5, <1>21 DEF E
    <3> QED
      BY <1>5, <1>15, <2>2, <3>1, RefusedFrame
  <2>4. Decodable(E, dec, key, from)
    BY <1>5, <1>14 DEF E
  <2>5. Context(d.queue, P \ {h}) /\ (F \ {h}) \cup (C \ {h}) = P \ {h}
    BY <1>7 DEF Context
  <2>6. QueueSound(queue', sentKey', F \ {h}, C \ {h}, wait', dec, key, from)
    BY <1>8, <1>9, <2>1, <2>3, <2>4, <2>5 DEF QueueSound, E
  <2>7. Frames(queue') \subseteq Frames(queue)
    BY <1>6, <2>1 DEF E
  <2> QED
    BY <1>5, <1>12, <2>1, <2>6, <2>7
<1>22. CASE ~IsVideo(h)
  <2>1. wait' = d.wait /\ (sentKey' <=> sentKey) /\ (~sentKey => queue' = d.queue)
    BY <1>4, <1>13, <1>22 DEF IsVideo
  <2>2. /\ Frames(queue') = E /\ TimeOrder(queue') /\ FrameOrder(queue')
        /\ \A a \in Range(queue') : a \in Range(queue) \/ a.ref = h.ref
    <3>1. CASE accept
      <4>1. queue' = InsertByTime(d.queue, s)
        BY <1>4, <3>1
      <4>2. /\ Range(queue') = Range(d.queue) \cup {s} /\ Frames(queue') = E \cup VideoOf({s})
            /\ TimeOrder(queue') /\ FrameOrder(queue')
        BY <1>5, <1>7, <1>8, <1>10, <1>22, <4>1, InsertedFrames DEF E, Context
      <4>3. VideoOf({s}) = {}
        BY <1>10, <1>22 DEF VideoOf
      <4> QED
        BY <1>5, <1>10, <4>2, <4>3
    <3>2. CASE ~accept
      <4>1. queue' = d.queue
        BY <1>4, <3>2
      <4> QED
        BY <1>5, <1>7, <1>8, <4>1 DEF E, Context
    <3> QED
      BY <3>1, <3>2
  <2>3. h \notin F /\ h \notin C
    <3>1. h.type = 4
      BY <1>22 DEF IsVideo
    <3> QED
      BY <3>1 DEF Readers
  <2>4. F \ {h} = F /\ C \ {h} = C
    BY <2>3
  <2>5. Context(queue', P)
    BY <1>7, <2>2 DEF Context, E
  <2>6. /\ Decodable(E, dec, key, from)
        /\ sentKey => Ready(P, IDs(F), E, d.wait, dec, key, from)
    BY <1>5, <1>14 DEF E
  <2>7. QueueSound(queue', sentKey', F, C, wait', dec, key, from)
    BY <1>9, <2>1, <2>2, <2>5, <2>6 DEF QueueSound
  <2> QED
    BY <1>6, <1>12, <1>22, <2>2, <2>4, <2>7
<1> QED
  BY <1>20, <1>21, <1>22

-----------------------------------------------------------------------------
(***************************************************************************)
(* The invariant that tells which frames can be decoded.                   *)
(***************************************************************************)

\* The frames that may be given next: one that follows from the last P frame or
\* keyframe, and one that follows from the last frame that may be referred to.
NextFrame(n, type, ref) == [id |-> n + 1, type |-> type, ref |-> ref]
Coming ==
  IF destroyer = "none"
  THEN {NextFrame(given, VideoHigh, anchor), NextFrame(given, VideoDisposable, base)}
  ELSE {}

\* All frames after one that is held back are held back as well: what refers to a frame
\* that is not before them refers to one of them.
RefsHeld(F, C) == \A r \in F \cup C, f \in F : r.ref >= f.id => r.ref \in IDs(F)

\* What is kept before the stream has started is a keyframe; when it is flushed, the
\* stream does not start any more.
StartInv ==
  /\ fast \in BOOLEAN /\ sentKey \in BOOLEAN /\ started \in BOOLEAN
  /\ firstID \in 0 .. given /\ sent.key <= given
  /\ started \/ sentKey => connection = "up"
  /\ ~started /\ sentKey => held = <<>> /\ destroyer # "none"
  /\ ~started => held = <<>> \/ \E k \in AnyPacket : k.type = VideoHighest /\ held = <<k>>

\* The frames are sent in the order they are given in, whatever their times are.
Future == given + 1 .. Len(stream)
NotAfter(S, n, from) == \A f \in S : f.time <= stream[n].time - from
OrderInv ==
  /\ FrameOrder(held)
  /\ \A f \in Frames(queue), r \in Frames(held) : f.time <= r.time
  /\ started => \A n \in Future : stream[n].type # Audio =>
       NotAfter(Frames(queue) \cup Frames(held), n, first)

\* What is held back and what may come refers to the last frame it can refer to.
RefsInv ==
  /\ \A r \in Frames(held) \cup Coming : Reads(r, Frames(queue) \cup Frames(held))
  /\ \A p \in Range(queue) \cup Range(held) : ~IsVideo(p) => p.ref = 0
  /\ started => RefsHeld(Frames(held), Coming)

DecodeInv == QueueSound(queue, sentKey, Frames(held), Coming, wait, decoders, sent.key, Skipped)

FrameInv == StartInv /\ OrderInv /\ RefsInv /\ DecodeInv

\* Frames of a list of packets, and of some of them.
LEMMA FramesType ==
  ASSUME NEW q \in Seq(AnyPacket)
  PROVE  /\ \A f \in Frames(q) : /\ f \in AnyPacket /\ f \in Range(q) /\ IsVideo(f)
                                 /\ f.id \in Nat /\ f.ref \in Nat /\ f.time \in Int
                                 /\ f.type \in VideoDisposable .. VideoHighest
                                 /\ f.id \in IDs(Range(q))
<1> SUFFICES ASSUME NEW f \in Frames(q)
             PROVE  /\ f \in AnyPacket /\ f \in Range(q) /\ IsVideo(f)
                    /\ f.id \in Nat /\ f.ref \in Nat /\ f.time \in Int
                    /\ f.type \in VideoDisposable .. VideoHighest
                    /\ f.id \in IDs(Range(q))
  OBVIOUS
<1>1. f \in AnyPacket /\ f \in Range(q) /\ IsVideo(f)
  BY Ends DEF Frames, VideoOf
<1>2. f.type \in 0 .. 4 /\ f.type # 4 /\ f.id \in Nat /\ f.ref \in Nat /\ f.time \in Int
  BY <1>1 DEF AnyPacket, IsVideo, VideoDisposable, Audio
<1> QED
  BY <1>1, <1>2 DEF IDs, VideoDisposable, VideoHighest

LEMMA FramesInvariant ==
  ASSUME IInv
  PROVE  /\ given \in Nat /\ anchor \in Nat /\ base \in Nat
         /\ queue \in Seq(AnyPacket) /\ Distinct(queue) /\ wait \in VideoDisposable .. VideoHighest
         /\ held \in Seq(AnyPacket) /\ Distinct(held) /\ sent.key \in Nat
         /\ \A f \in Frames(queue) \cup Frames(held) : f.id \in 1 .. given
         /\ Readers(Frames(queue)) /\ Readers(Frames(held)) /\ Readers(Coming)
<1>1. /\ given \in Nat /\ anchor \in Nat /\ base \in Nat
      /\ queue \in Seq(AnyPacket) /\ Distinct(queue) /\ wait \in VideoDisposable .. VideoHighest
      /\ held \in Seq(AnyPacket) /\ Distinct(held) /\ sent.key \in Nat
  BY QueueInvariant DEF IInv, KindInv, QueueTypes
<1>2. /\ \A f \in Frames(queue) : f.id \in IDs(Range(queue))
      /\ \A f \in Frames(held) : f.id \in IDs(Range(held))
      /\ Readers(Frames(queue)) /\ Readers(Frames(held))
  BY <1>1, FramesType DEF Readers
<1>3. \A f \in Frames(queue) \cup Frames(held) : f.id \in 1 .. given
  BY <1>2, QueueInvariant
<1>4. Readers(Coming)
  BY <1>1 DEF Readers, Coming, NextFrame, VideoDisposable, VideoHigh, VideoHighest
<1> QED
  BY <1>1, <1>2, <1>3, <1>4

\* What a frame that may be given refers to when another packet has been given.
LEMMA NextReader ==
  ASSUME NEW g \in Nat, NEW T, \A f \in T : f.id \in 1 .. g,
         NEW type \in {VideoDisposable, VideoHigh}, NEW a \in Nat,
         Reads(NextFrame(g, type, a), T),
         NEW p, p.id = g + 1, p.type \in VideoDisposable .. Audio, NEW b,
         b = IF IsVideo(p) /\ p.type >= RefType(type) THEN p.id ELSE a
  PROVE  Reads(NextFrame(g + 1, type, b), T \cup VideoOf({p}))
<1> USE DEF VideoDisposable, VideoLow, VideoHigh, VideoHighest, Audio
<1> DEFINE c == NextFrame(g, type, a)
           r == NextFrame(g + 1, type, b)
           V == VideoOf({p})
<1>1. c.id = g + 1 /\ c.type = type /\ c.ref = a /\ r.id = g + 1 + 1 /\ r.type = type /\ r.ref = b
  BY DEF NextFrame
<1>2. \A f \in V : f = p /\ IsVideo(p)
  BY DEF VideoOf
<1>3. RefType(type) \in {1, 2}
  BY DEF RefType
<1> HIDE DEF c, r, V
<1>4. /\ a < g + 1
      /\ \A f \in T : f.id < g + 1 /\ f.type >= RefType(type) => f.id <= a
      /\ \A f \in T : a = f.id => f.type >= RefType(type)
  BY <1>1 DEF Reads, c
<1>5. CASE IsVideo(p) /\ p.type >= RefType(type)
  <2>1. b = g + 1
    BY <1>5
  <2>2. \A f \in T \cup V : f.id <= b
    BY <1>2, <2>1
  <2>3. \A f \in T \cup V : b = f.id => f.type >= RefType(type)
    BY <1>2, <1>5, <2>1
  <2>4. b < g + 1 + 1
    BY <2>1
  <2> QED
    BY <1>1, <2>2, <2>3, <2>4 DEF Reads, r, V
<1>6. CASE ~(IsVideo(p) /\ p.type >= RefType(type))
  <2>1. b = a
    BY <1>6
  <2>2. \A f \in T \cup V : f.type >= RefType(type) => f.id <= b
    BY <1>2, <1>4, <1>6, <2>1
  <2>3. \A f \in T \cup V : b = f.id => f.type >= RefType(type)
    BY <1>2, <1>4, <2>1
  <2>4. b < g + 1 + 1
    BY <1>4, <2>1
  <2>5. r.type # 3 /\ r.ref < r.id
    BY <1>1, <2>4
  <2>6. \A f \in T \cup V : f.type >= RefType(r.type) => f.id <= r.ref
    BY <1>1, <2>2
  <2>7. \A f \in T \cup V : r.ref = f.id => f.type >= RefType(r.type)
    BY <1>1, <2>3
  <2>8. Reads(r, T \cup V)
    BY <2>5, <2>6, <2>7 DEF Reads
  <2> QED
    BY <2>8 DEF r, V
<1> QED
  BY <1>5, <1>6

\* SendPacket is given another packet.
Arrives(p) ==
  /\ given < Len(stream) /\ destroyer = "none" /\ destroyer' = destroyer /\ given' = given + 1
  /\ p.id = given + 1 /\ p.ref = Reference(p.type)
  /\ anchor' = IF p.type \in {VideoHigh, VideoHighest} THEN p.id ELSE anchor
  /\ base' = IF p.type \in {VideoLow, VideoHigh, VideoHighest} THEN p.id ELSE base

\* It joins what is held back, and what may come changes; whatever is done with it, the
\* queue is as sound for these as it was.
LEMMA Arrival ==
  ASSUME IInv, FrameInv, NEW p \in AnyPacket, Arrives(p), NEW F, F = Frames(held) \cup VideoOf({p})
  PROVE  /\ Readers(F \cup Coming') /\ \A f \in F : f.id \in 1 .. given + 1
         /\ \A c \in Coming' : c.id = given + 1 + 1
         /\ \A r \in F \cup Coming' : Reads(r, Frames(queue) \cup F)
         /\ started => RefsHeld(F, Coming')
         /\ QueueSound(queue, sentKey, F, Coming', wait, decoders, sent.key, Skipped)
         /\ ~IsVideo(p) => p.ref = 0
<1> USE DEF VideoDisposable, VideoLow, VideoHigh, VideoHighest, Audio
<1> DEFINE S == Frames(queue)
           O == Frames(held)
           g == given
           high == NextFrame(g, VideoHigh, anchor)
           disp == NextFrame(g, VideoDisposable, base)
           C == Coming'
           a == anchor'
           b == base'
<1>1. /\ g \in Nat /\ anchor \in Nat /\ base \in Nat /\ \A f \in S \cup O : f.id \in 1 .. g
      /\ Readers(S) /\ Readers(O) /\ Readers(Coming)
  BY FramesInvariant
<1>2. Coming = {high, disp} /\ C = {NextFrame(g + 1, VideoHigh, a), NextFrame(g + 1, VideoDisposable, b)}
  BY DEF Coming, Arrives
<1>3. /\ high.id = g + 1 /\ high.type = 2 /\ high.ref = anchor
      /\ disp.id = g + 1 /\ disp.type = 0 /\ disp.ref = base
  BY DEF NextFrame
<1>4. p.id = g + 1 /\ p.type \in 0 .. 4 /\ p.ref = Reference(p.type)
  BY DEF Arrives, AnyPacket
<1>5. /\ a = IF IsVideo(p) /\ p.type >= RefType(2) THEN p.id ELSE anchor
      /\ b = IF IsVideo(p) /\ p.type >= RefType(0) THEN p.id ELSE base
      /\ a \in Nat /\ b \in Nat
  BY <1>1, <1>4 DEF Arrives, IsVideo, RefType
<1>6. /\ \A r \in O \cup {high, disp} : Reads(r, S \cup O)
      /\ started => RefsHeld(O, {high, disp})
      /\ QueueSound(queue, sentKey, O, {high, disp}, wait, decoders, sent.key, Skipped)
  BY <1>2 DEF FrameInv, RefsInv, DecodeInv
<1>7. \/ p.type \in {1, 2} /\ p.ref = anchor
      \/ p.type = 0 /\ p.ref = base
      \/ p.type \in {3, 4} /\ p.ref = 0
  BY <1>4 DEF Reference
<1> DEFINE high2 == NextFrame(g + 1, VideoHigh, a)
           disp2 == NextFrame(g + 1, VideoDisposable, b)
<1>8. /\ high2.id = g + 1 + 1 /\ high2.type = 2 /\ high2.ref = a
      /\ disp2.id = g + 1 + 1 /\ disp2.type = 0 /\ disp2.ref = b
      /\ C = {high2, disp2}
  BY <1>2 DEF NextFrame
<1>9. Reads(high2, (S \cup O) \cup VideoOf({p})) /\ Reads(disp2, (S \cup O) \cup VideoOf({p}))
  BY <1>1, <1>4, <1>5, <1>6, NextReader
<1>10. \A f \in VideoOf({p}) : f = p /\ p.type \in 0 .. 3 /\ IsVideo(p)
  BY <1>4 DEF VideoOf, IsVideo
<1>11. anchor < g + 1 /\ base < g + 1
  BY <1>3, <1>6 DEF Reads
<1> HIDE DEF S, O, C, high, disp, high2, disp2, a, b
<1>12. IsVideo(p) => Reads(p, S \cup F)
  <2> SUFFICES ASSUME IsVideo(p) PROVE Reads(p, S \cup F)
    OBVIOUS
  <2>2. p.ref < p.id /\ (p.type = 3 => p.ref = 0)
    BY <1>1, <1>4, <1>7, <1>11
  <2>6. ~(p.id < p.id) /\ p.ref # p.id
    BY <1>1, <1>4, <2>2
  <2>1. \A f \in VideoOf({p}) : ~(f.id < p.id) /\ p.ref # f.id
    BY <1>10, <2>6, Zenon
  <2>3. CASE p.type \in {1, 2}
    <3>1. RefType(p.type) = RefType(high.type) /\ p.ref = high.ref /\ p.id = high.id
      BY <1>3, <1>4, <1>7, <2>3 DEF RefType
    <3>2. Reads(p, S \cup O)
      BY <1>3, <1>6, <2>2, <2>3, <3>1 DEF Reads
    <3> QED
      BY <2>1, <3>2 DEF Reads, O
  <2>4. CASE p.type = 0
    <3>1. p.type = disp.type /\ p.ref = disp.ref /\ p.id = disp.id
      BY <1>3, <1>4, <1>7, <2>4
    <3>2. Reads(p, S \cup O)
      BY <1>6, <3>1 DEF Reads
    <3> QED
      BY <2>1, <3>2 DEF Reads, O
  <2>5. CASE p.type = 3
    <3>1. p.ref = 0 /\ \A f \in S \cup O : f.id # 0
      BY <1>1, <1>7, <2>5
    <3> QED
      BY <2>1, <2>2, <2>5, <3>1 DEF Reads, O
  <2> QED
    BY <1>4, <2>3, <2>4, <2>5 DEF IsVideo
<1>13. \A r \in F \cup C : Reads(r, S \cup F)
  <2>1. S \cup F = (S \cup O) \cup VideoOf({p})
    BY DEF O
  <2>2. \A r \in O : Reads(r, S \cup F)
    <3> SUFFICES ASSUME NEW r \in O PROVE Reads(r, S \cup F)
      OBVIOUS
    <3>1. Reads(r, S \cup O) /\ r.id \in 1 .. g /\ r.ref \in Nat
      BY <1>1, <1>6 DEF Readers
    <3>3. r.ref < r.id
      BY <3>1 DEF Reads
    <3>4. ~(p.id < r.id) /\ r.ref # p.id
      BY <1>1, <1>4, <3>1, <3>3
    <3>2. \A f \in VideoOf({p}) : ~(f.id < r.id) /\ r.ref # f.id
      BY <1>10, <3>4, Zenon
    <3> QED
      BY <2>1, <3>1, <3>2 DEF Reads
  <2>3. F \subseteq O \cup VideoOf({p})
    BY DEF O
  <2> QED
    BY <1>8, <1>9, <1>10, <1>12, <2>1, <2>2, <2>3
<1>14. Readers(F \cup C)
  <2>3. p.id \in Nat /\ p.ref \in Nat
    BY <1>1, <1>4, <1>7
  <2>1. Readers(VideoOf({p}))
    BY <1>10, <2>3, Zenon DEF Readers, VideoDisposable, VideoHighest
  <2>2. Readers(C)
    BY <1>1, <1>5, <1>8 DEF Readers
  <2> QED
    BY <1>1, <2>1, <2>2 DEF Readers, O
<1>15. /\ \A f \in F : f.id \in 1 .. g + 1
       /\ \A c \in C : c.id = g + 1 + 1
       /\ ~IsVideo(p) => p.ref = 0
  BY <1>1, <1>4, <1>7, <1>8, <1>10 DEF O, IsVideo
\* The references of what is new are those of what could come before it, or to p.
<1>16. ASSUME NEW r \in F \cup C, r \notin O
       PROVE  \/ \E c \in {high, disp} : r.ref = c.ref /\ (r.type >= 1 => c.type >= 1) /\ c.id = g + 1
                                        /\ c.type >= r.type
              \/ r.ref = p.id /\ IsVideo(p) /\ r \in C
              \/ r.ref = 0
  <2>1. CASE r \in C
    BY <1>3, <1>5, <1>8, <2>1
  <2>2. CASE r = p /\ IsVideo(p)
    BY <1>3, <1>7, <2>2 DEF IsVideo
  <2> QED
    BY <1>10, <1>16, <2>1, <2>2 DEF O
<1>17. started => RefsHeld(F, C)
  <2> SUFFICES ASSUME started, NEW r \in F \cup C, NEW f \in F, r.ref >= f.id
               PROVE  r.ref \in IDs(F)
    BY DEF RefsHeld
  <2>1. f \in O \/ (f = p /\ IsVideo(p))
    BY <1>10 DEF O
  <2>2. IDs(O) \subseteq IDs(F) /\ (IsVideo(p) => p.id \in IDs(F))
    BY DEF IDs, O, VideoOf
  <2>3. ASSUME NEW c \in O \cup {high, disp}, r.ref = c.ref PROVE r.ref \in IDs(F)
    <3>1. CASE f \in O
      BY <1>6, <2>2, <2>3, <3>1 DEF RefsHeld
    <3>2. CASE f = p
      <4>1. c.id \in Nat /\ c.id <= g + 1 /\ c.ref \in Nat /\ c.ref < c.id
        BY <1>1, <1>2, <1>3, <1>6, <2>3 DEF Reads, Readers
      <4> QED
        BY <1>1, <1>4, <2>3, <3>2, <4>1
    <3> QED
      BY <2>1, <3>1, <3>2
  <2>4. CASE r \in O
    BY <2>3, <2>4
  <2>5. CASE r \notin O
    <3>1. f.id \in 1 .. g + 1
      BY <1>15
    <3>2. r.ref # 0
      BY <1>1, <3>1
    <3> QED
      BY <1>16, <2>2, <2>3, <2>5, <3>2
  <2> QED
    BY <2>4, <2>5
<1>18. QueueSound(queue, sentKey, F, C, wait, decoders, sent.key, Skipped)
  <2>1. /\ TimeOrder(queue) /\ Context(queue, O \cup {high, disp})
        /\ Decodable(S, decoders, sent.key, Skipped)
        /\ sentKey => Ready(O \cup {high, disp}, IDs(O), S, wait, decoders, sent.key, Skipped)
        /\ ~sentKey => queue = <<>>
    BY <1>6 DEF QueueSound, S
  <2>2. Context(queue, F \cup C)
    <3>1. \A r \in F \cup C : Reads(r, S)
      BY <1>13 DEF Reads
    <3>2. \A f \in S, r \in F \cup C : f.id < r.id
      <4> SUFFICES ASSUME NEW f \in S, NEW r \in F \cup C PROVE f.id < r.id
        OBVIOUS
      <4>1. f.id \in 1 .. g
        BY <1>1
      <4>2. CASE r \in O
        BY <2>1, <4>2 DEF Context, S
      <4>3. CASE r \in C \/ r = p
        BY <1>1, <1>4, <1>8, <4>1, <4>3
      <4> QED
        BY <1>10, <4>2, <4>3 DEF O
    <3> QED
      BY <2>1, <3>1, <3>2 DEF Context, S
  <2>3. ASSUME sentKey PROVE Ready(F \cup C, IDs(F), S, wait, decoders, sent.key, Skipped)
    <3> SUFFICES ASSUME NEW r \in F \cup C, r.type >= wait, r.ref # 0, r.ref \notin IDs(F)
                 PROVE  Found(r, S, decoders, sent.key, Skipped)
      BY DEF Ready
    <3>1. Ready(O \cup {high, disp}, IDs(O), S, wait, decoders, sent.key, Skipped)
      BY <2>1, <2>3
    <3>2. IDs(O) \subseteq IDs(F) /\ (IsVideo(p) => p.id \in IDs(F))
      BY DEF IDs, O, VideoOf
    <3>3. CASE r \in O
      BY <3>1, <3>2, <3>3 DEF Ready
    <3>4. CASE r \notin O
      <4>1. PICK c \in {high, disp} : r.ref = c.ref /\ c.id = g + 1 /\ c.type >= r.type
        BY <1>16, <3>2, <3>4
      <4>7. c.type \in 0 .. 3
        BY <1>3
      <4>8. r.type \in 0 .. 3
        BY <1>14 DEF Readers
      <4>9. wait \in 0 .. 3
        BY FramesInvariant
      <4>2. r.type \in 0 .. 3 /\ c.type \in 0 .. 3 /\ wait \in 0 .. 3
        BY <4>7, <4>8, <4>9
      <4>3. c.type >= wait
        BY <4>1, <4>2
      <4>4. Found(c, S, decoders, sent.key, Skipped)
        BY <3>1, <3>2, <4>1, <4>3 DEF Ready
      <4>5. \A k \in S : k.id < g + 1
        BY <1>1
      <4>6. Excused(S, sent.key, Skipped, c.id) => Excused(S, sent.key, Skipped, r.id)
        BY <4>1, <4>5 DEF Excused
      <4> QED
        BY <4>1, <4>4, <4>6 DEF Found
    <3> QED
      BY <3>3, <3>4
  <2> QED
    BY <2>1, <2>2, <2>3 DEF QueueSound, S
<1> QED
  BY <1>13, <1>14, <1>15, <1>17, <1>18 DEF S, C

\* What is held back loses its first packet.
LEMMA HeadFrame ==
  ASSUME NEW q \in Seq(AnyPacket), q # <<>>, Distinct(q), FrameOrder(q)
  PROVE  /\ Frames(Tail(q)) = Frames(q) \ {Head(q)} /\ FrameOrder(Tail(q))
         /\ Range(Tail(q)) \subseteq Range(q) /\ Head(q) \in Range(q) /\ Head(q) \in AnyPacket
         /\ IsVideo(Head(q)) =>
              /\ Head(q) \in Frames(q)
              /\ \A f \in Frames(q) : f # Head(q) => Head(q).id < f.id /\ Head(q).time <= f.time
<1> DEFINE h == Head(q)
           t == Tail(q)
<1>1. h \in Range(q) /\ h \in AnyPacket /\ Range(q) = Range(t) \cup {h}
  BY Ends
<1>2. h \notin Range(t)
  BY TailDistinct
<1>3. \A a, b : Precedes(t, a, b) => Precedes(q, a, b)
  BY TailOrder
<1>4. \A b \in Range(t) : Precedes(q, h, b)
  BY TailOrder
<1> HIDE DEF h, t
<1>5. Frames(t) = Frames(q) \ {h}
  BY <1>1, <1>2 DEF Frames, VideoOf
<1>6. FrameOrder(t)
  BY <1>3, <1>5 DEF FrameOrder
<1>7. ASSUME IsVideo(h)
      PROVE  /\ h \in Frames(q)
             /\ \A f \in Frames(q) : f # h => h.id < f.id /\ h.time <= f.time
  <2>1. h \in Frames(q)
    BY <1>1, <1>7 DEF Frames, VideoOf
  <2>2. \A f \in Frames(q) : f # h => f \in Range(t)
    BY <1>1 DEF Frames, VideoOf
  <2> QED
    BY <1>4, <2>1, <2>2 DEF FrameOrder
<1> QED
  BY <1>1, <1>5, <1>6, <1>7 DEF h, t

\* A frame goes to the end of what is held back; audio leaves the frames as they are.
LEMMA HeldFrames ==
  ASSUME NEW q \in Seq(AnyPacket), NEW p \in AnyPacket, NEW offset \in Int
  PROVE  /\ Frames(Held(q, p, offset)) = Frames(q) \cup VideoOf({p})
         /\ \A a, b \in Frames(Held(q, p, offset)) : Precedes(Held(q, p, offset), a, b) =>
              \/ Precedes(q, a, b) /\ a \in Frames(q) /\ b \in Frames(q)
              \/ IsVideo(p) /\ b = p /\ a \in Frames(q)
         /\ \A a \in Range(Held(q, p, offset)) : ~IsVideo(a) =>
              a \in Range(q) \/ (~IsVideo(p) /\ a.ref = p.ref)
<1> DEFINE z == [p EXCEPT !.time = @ - offset]
           r == Held(q, p, offset)
<1>1. z \in AnyPacket /\ z.ref = p.ref /\ z.type = p.type
  <2>1. p.time - offset \in Int
    BY DEF AnyPacket
  <2>2. z = [p EXCEPT !.time = p.time - offset]
    OBVIOUS
  <2> QED
    BY <2>1, <2>2, OtherTime
<1> HIDE DEF z
<1>2. \A a, b : Precedes(q, a, b) => a \in Range(q) /\ b \in Range(q)
  BY Ends DEF Precedes
<1>3. \A a \in Frames(q) : a \in Range(q) /\ IsVideo(a)
  BY DEF Frames, VideoOf
<1>4. CASE IsVideo(p)
  <2>1. r = Append(q, p)
    BY <1>4 DEF Held
  <2>2. Range(r) = Range(q) \cup {p}
    BY <2>1, Appended DEF PutInto
  <2>3. \A a, b : Precedes(r, a, b) => Precedes(q, a, b) \/ (a \in Range(q) /\ b = p)
    BY <2>1, AppendOrder
  <2> HIDE DEF r
  <2>4. Frames(r) = Frames(q) \cup VideoOf({p})
    BY <2>2 DEF Frames, VideoOf
  <2>5. \A a, b \in Frames(r) : Precedes(r, a, b) =>
          \/ Precedes(q, a, b) /\ a \in Frames(q) /\ b \in Frames(q)
          \/ b = p /\ a \in Frames(q)
    BY <1>2, <2>3 DEF Frames, VideoOf
  <2>6. \A a \in Range(r) : ~IsVideo(a) => a \in Range(q)
    BY <1>4, <2>2
  <2> QED
    BY <1>4, <2>4, <2>5, <2>6 DEF r
<1>5. CASE ~IsVideo(p)
  <2>1. r = InsertByTime(q, z)
    BY <1>5 DEF Held, z
  <2>2. Range(r) = Range(q) \cup {z}
    BY <1>1, <2>1, Inserted DEF PutInto
  <2>3. \A a, b : Precedes(r, a, b) => Precedes(q, a, b) \/ a = z \/ b = z
    BY <1>1, <2>1, InsertedOrder
  <2>4. ~IsVideo(z)
    BY <1>1, <1>5 DEF IsVideo
  <2> HIDE DEF r
  <2>5. Frames(r) = Frames(q) /\ VideoOf({p}) = {}
    BY <1>5, <2>2, <2>4 DEF Frames, VideoOf
  <2>6. \A a, b \in Frames(r) : Precedes(r, a, b) =>
          Precedes(q, a, b) /\ a \in Frames(q) /\ b \in Frames(q)
    BY <1>3, <2>3, <2>4, <2>5
  <2>7. \A a \in Range(r) : ~IsVideo(a) => a \in Range(q) \/ a.ref = p.ref
    BY <1>1, <2>2
  <2> QED
    BY <1>5, <2>5, <2>6, <2>7 DEF r
<1> QED
  BY <1>4, <1>5

LEMMA HeldInOrder ==
  ASSUME NEW q \in Seq(AnyPacket), NEW p \in AnyPacket, NEW offset \in Int, FrameOrder(q),
         IsVideo(p) => \A f \in Frames(q) : f.id < p.id /\ f.time <= p.time
  PROVE  FrameOrder(Held(q, p, offset))
<1> DEFINE r == Held(q, p, offset)
<1>1. \A a, b \in Frames(r) : Precedes(r, a, b) =>
        \/ Precedes(q, a, b) /\ a \in Frames(q) /\ b \in Frames(q)
        \/ IsVideo(p) /\ b = p /\ a \in Frames(q)
  BY HeldFrames
<1> HIDE DEF r
<1>2. FrameOrder(r)
  BY <1>1 DEF FrameOrder
<1> QED
  BY <1>2 DEF r

\* InitializeBuffer moves audio only.
LEMMA InitializeBufferFrames ==
  ASSUME NEW q \in Seq(AnyPacket), FrameOrder(q), \A a \in Range(q) : ~IsVideo(a) => a.ref = 0
  PROVE  /\ Frames(InitializeBuffer(q)) = Frames(q) /\ FrameOrder(InitializeBuffer(q))
         /\ \A a \in Range(InitializeBuffer(q)) : ~IsVideo(a) => a.ref = 0
<1> DEFINE N == Len(q)
           offset == FirstAudioTime(q)
           Early(n) == {q[i] : i \in 1 .. n}
           Good(n, r) == /\ Frames(r) = VideoOf(Early(n)) /\ FrameOrder(r)
                         /\ \A a \in Range(r) : ~IsVideo(a) => a.ref = 0
           G == {x \in Nat \X Seq(AnyPacket) : Good(x[1], x[2])}
<1>1. /\ N \in Nat /\ offset \in Int
      /\ \A n \in 1 .. N : q[n] \in AnyPacket /\ q[n] \in Range(q)
  BY Ends, FirstAudioTimeIsTime
<1> HIDE DEF offset
<1>2. ASSUME NEW n \in 1 .. N, NEW r \in Seq(AnyPacket), Good(n - 1, r)
      PROVE  Good(n, Held(r, q[n], offset)) /\ Held(r, q[n], offset) \in Seq(AnyPacket)
  <2> DEFINE p == q[n]
  <2>1. Early(n) = Early(n - 1) \cup {p}
    <3>1. 1 .. n = 1 .. (n - 1) \cup {n}
      BY <1>1
    <3> QED
      BY <3>1
  <2>2. p \in AnyPacket /\ (~IsVideo(p) => p.ref = 0)
    BY <1>1
  <2>3. ASSUME IsVideo(p), NEW f \in Frames(r) PROVE f.id < p.id /\ f.time <= p.time
    <3>1. PICK i \in 1 .. (n - 1) : f = q[i] /\ IsVideo(q[i])
      BY <1>2, <2>3 DEF VideoOf
    <3>2. i \in 1 .. N /\ n \in 1 .. N /\ i < n
      BY <1>1
    <3>3. q[i] \in Frames(q) /\ p \in Frames(q) /\ Precedes(q, q[i], p)
      BY <1>1, <2>3, <3>1, <3>2 DEF Frames, VideoOf, Precedes
    <3> QED
      BY <3>1, <3>3 DEF FrameOrder
  <2> HIDE DEF p, Early
  <2> DEFINE t == Held(r, p, offset)
  <2>4. /\ Frames(t) = Frames(r) \cup VideoOf({p})
        /\ \A a \in Range(t) : ~IsVideo(a) => a \in Range(r) \/ (~IsVideo(p) /\ a.ref = p.ref)
    BY <1>1, <2>2, HeldFrames
  <2>5. FrameOrder(t) /\ t \in Seq(AnyPacket)
    BY <1>1, <1>2, <2>2, <2>3, HeldInOrder, HeldIsList
  <2> HIDE DEF t
  <2>6. Frames(t) = VideoOf(Early(n))
    BY <1>2, <2>1, <2>4 DEF VideoOf
  <2>7. \A a \in Range(t) : ~IsVideo(a) => a.ref = 0
    BY <1>2, <2>2, <2>4
  <2> QED
    BY <2>5, <2>6, <2>7 DEF t, p
<1>3. Good(0, <<>>)
  <2>1. Early(0) = {} /\ Frames(<<>>) = {}
    BY NoPackets DEF Frames, VideoOf
  <2>2. Range(<<>>) = {} /\ VideoOf({}) = {}
    BY NoPackets DEF VideoOf
  <2> HIDE DEF Early
  <2> QED
    BY <2>1, <2>2 DEF FrameOrder
<1> HIDE DEF Good
<1>4. <<0, <<>>>> \in G
  <2> DEFINE start == <<>>
  <2>1. start \in Seq(AnyPacket) /\ Good(0, start)
    BY <1>3, NoPackets
  <2> HIDE DEF start
  <2>2. <<0, start>> \in G
    BY <2>1
  <2> QED
    BY <2>2 DEF start
<1>5. ASSUME NEW n \in 1 .. N, NEW r \in Seq(AnyPacket), <<n - 1, r>> \in G
      PROVE  <<n, Held(r, q[n], offset)>> \in G
  <2>1. Good(n - 1, r) /\ n \in Nat
    BY <1>1, <1>5
  <2> QED
    BY <1>2, <2>1
<1> HIDE DEF G
<1>6. InitializeBuffer(q) \in Seq(AnyPacket) /\ <<N, InitializeBuffer(q)>> \in G
  BY <1>4, <1>5, InitializeBufferBuilds DEF offset
<1>7. Good(N, InitializeBuffer(q))
  BY <1>6 DEF G
<1>8. Range(q) = Early(N)
  BY Ends DEF Range
<1> QED
  BY <1>7, <1>8 DEF Good, Frames

\* What SendPacket does whatever becomes of the packet.
Given(p) ==
  /\ Arrives(p) /\ p.type = stream[given + 1].type /\ p.time = stream[given + 1].time
  /\ UNCHANGED <<fast, stream, sent, decoders>>
  /\ connection' = IF connection = "none" THEN "running" ELSE connection

\* The same packet with the time it is held back with.
SamePacket(z, p) == z \in AnyPacket /\ z.id = p.id /\ z.type = p.type /\ z.ref = p.ref

LEMMA SameArrives ==
  ASSUME NEW p, NEW z, SamePacket(z, p), Arrives(p)
  PROVE  Arrives(z) /\ (IsVideo(z) <=> IsVideo(p))
  BY DEF SamePacket, Arrives, IsVideo

LEMMA OneFrame ==
  ASSUME NEW p \in AnyPacket
  PROVE  /\ <<p>> \in Seq(AnyPacket) /\ Range(<<p>>) = {p} /\ Frames(<<p>>) = VideoOf({p})
         /\ FrameOrder(<<p>>) /\ TimeOrder(<<p>>)
<1>1. <<p>> \in Seq(AnyPacket) /\ Len(<<p>>) = 1 /\ <<p>>[1] = p
  OBVIOUS
<1> DEFINE q == <<p>>
<1> HIDE DEF q
<1>2. Range(q) = {p}
  BY <1>1 DEF Range, q
<1>3. \A a, b : ~Precedes(q, a, b)
  <2>1. \A i, j \in 1 .. 1 : ~(i < j)
    OBVIOUS
  <2> QED
    BY <1>1, <2>1 DEF Precedes, q
<1>4. Frames(q) = VideoOf({p}) /\ FrameOrder(q) /\ TimeOrder(q)
  BY <1>2, <1>3 DEF Frames, FrameOrder, TimeOrder
<1> QED
  BY <1>1, <1>2, <1>4 DEF q

\* The packets of a stream, and the order of its frames.
LEMMA StreamTimes ==
  ASSUME IInv
  PROVE  /\ Len(stream) \in Nat /\ given \in 0 .. Len(stream)
         /\ \A n \in 1 .. Len(stream) : stream[n].time \in Int /\ stream[n].time >= 0
                                        /\ stream[n].type \in 0 .. 4
         /\ \A m, n \in 1 .. Len(stream) :
              m < n /\ stream[n].type # Audio => stream[m].time <= stream[n].time
<1>1. stream \in Streams /\ stream \in Seq([type : 0 .. 4, time : Nat]) /\ given \in 0 .. Len(stream)
  BY QueueAssumption DEF IInv, KindInv
<1>2. /\ Len(stream) \in Nat /\ DOMAIN stream = 1 .. Len(stream)
      /\ \A n \in 1 .. Len(stream) : stream[n] \in [type : 0 .. 4, time : Nat]
  BY <1>1, LenProperties, ElementOfSeq
<1>3. \A n \in 1 .. Len(stream) : stream[n].time \in Nat /\ stream[n].type \in 0 .. 4
  BY <1>2
<1>4. \A m, n \in 1 .. Len(stream) :
        m < n /\ stream[n].type # Audio => stream[m].time <= stream[n].time
  BY <1>1, <1>2, FramesInOrder
<1> QED
  BY <1>1, <1>2, <1>3, <1>4

\* A frame that is given is not earlier than those before it.
LEMMA ArrivalOrder ==
  ASSUME IInv, FrameInv, started, given < Len(stream),
         NEW z \in AnyPacket, z.time = stream[given + 1].time - first, z.type = stream[given + 1].type
  PROVE  /\ IsVideo(z) => \A f \in Frames(queue) \cup Frames(held) : f.time <= z.time
         /\ \A n \in given + 1 + 1 .. Len(stream) : stream[n].type # Audio =>
              NotAfter(Frames(queue) \cup Frames(held) \cup VideoOf({z}), n, first)
<1> DEFINE O == Frames(queue) \cup Frames(held)
           g == given + 1
<1>1. /\ Len(stream) \in Nat /\ g \in 1 .. Len(stream) /\ given \in Nat /\ first \in Int
      /\ \A n \in 1 .. Len(stream) : stream[n].time \in Int
      /\ \A m, n \in 1 .. Len(stream) :
           m < n /\ stream[n].type # Audio => stream[m].time <= stream[n].time
  <2>1. given \in Nat /\ first \in Int
    BY QueueInvariant
  <2>2. /\ Len(stream) \in Nat
        /\ \A n \in 1 .. Len(stream) : stream[n].time \in Int
        /\ \A m, n \in 1 .. Len(stream) :
             m < n /\ stream[n].type # Audio => stream[m].time <= stream[n].time
    BY StreamTimes
  <2>3. g \in 1 .. Len(stream)
    BY <2>1, <2>2
  <2> QED
    BY <2>1, <2>2, <2>3
<1>2. \A n \in given + 1 .. Len(stream) : stream[n].type # Audio => NotAfter(O, n, first)
  BY DEF FrameInv, OrderInv, Future
<1>3. ASSUME IsVideo(z), NEW f \in O PROVE f.time <= z.time
  BY <1>1, <1>2, <1>3 DEF NotAfter, IsVideo
<1>4. ASSUME NEW n \in g + 1 .. Len(stream), stream[n].type # Audio
      PROVE  NotAfter(O \cup VideoOf({z}), n, first)
  <2>1. n \in 1 .. Len(stream) /\ g < n /\ n \in given + 1 .. Len(stream)
    BY <1>1
  <2>2. stream[g].time <= stream[n].time /\ NotAfter(O, n, first)
    BY <1>1, <1>2, <1>4, <2>1
  <2>3. stream[g].time - first <= stream[n].time - first
    <3>1. \A x, y, w \in Int : x <= y => x - w <= y - w
      OBVIOUS
    <3> QED
      BY <1>1, <2>1, <2>2, <3>1
  <2>4. z.time <= stream[n].time - first
    BY <2>3
  <2>5. \A f \in VideoOf({z}) : f = z
    BY DEF VideoOf
  <2> QED
    BY <2>2, <2>4, <2>5 DEF NotAfter
<1> QED
  BY <1>3, <1>4

\* As long as no keyframe has been queued, the queue is empty.
LEMMA StillEmpty ==
  ASSUME IInv, FrameInv, NEW z \in AnyPacket, Arrives(z), ~sentKey,
         UNCHANGED <<queue, sentKey>>, Frames(held') \subseteq Frames(held) \cup VideoOf({z})
  PROVE  /\ DecodeInv' /\ queue' = <<>> /\ Frames(queue') = {} /\ Range(queue') = {}
         /\ \A r \in Frames(held') \cup Coming' : Reads(r, Frames(queue') \cup Frames(held'))
         /\ ~IsVideo(z) => z.ref = 0
<1> DEFINE F == Frames(held) \cup VideoOf({z})
           C == Coming'
           P == Frames(held') \cup C
<1>1. /\ \A r \in F \cup C : Reads(r, Frames(queue) \cup F)
      /\ ~IsVideo(z) => z.ref = 0
  BY Arrival
<1>2. queue = <<>>
  BY DEF FrameInv, DecodeInv, QueueSound
<1>3. queue' = <<>> /\ Range(queue') = {} /\ Frames(queue') = {}
  BY <1>2, NoPackets DEF Frames, VideoOf
<1>4. \A r \in P : Reads(r, Frames(held'))
  BY <1>1 DEF Reads
<1>5. Context(queue', P)
  <2>1. \A r \in P : Reads(r, {})
    BY <1>4 DEF Reads
  <2> QED
    BY <1>3, <2>1 DEF Context, FrameOrder
<1>6. TimeOrder(queue') /\ ~sentKey'
  BY <1>3 DEF TimeOrder
<1>7. DecodeInv'
  BY <1>3, <1>5, <1>6 DEF DecodeInv, QueueSound, Decodable
<1> QED
  BY <1>1, <1>3, <1>4, <1>7

\* Each step keeps the invariant: a packet that is ignored, or kept until the connection is up.
LEMMA IgnoredFrames ==
  ASSUME IInv, FrameInv, NEW p \in AnyPacket, Given(p), Ignored(p),
         UNCHANGED <<heldVars, queueVars, semaphore, missed>>
  PROVE  FrameInv'
<1>1. /\ held' = held /\ started' = started /\ firstID' = firstID /\ queue' = queue /\ sentKey' = sentKey
      /\ fast' = fast /\ sent' = sent /\ given' = given + 1 /\ destroyer = "none" /\ destroyer' = "none"
      /\ connection' = IF connection = "none" THEN "running" ELSE connection
  BY DEF heldVars, startVars, queueVars, Given, Arrives
<1>2. ~started /\ ~sentKey
  BY <1>1 DEF Ignored, FrameInv, StartInv
<1>3. /\ DecodeInv' /\ queue' = <<>> /\ Frames(queue') = {} /\ Range(queue') = {}
      /\ \A r \in Frames(held') \cup Coming' : Reads(r, Frames(queue') \cup Frames(held'))
  <2>1. Frames(held') \subseteq Frames(held) \cup VideoOf({p})
    BY <1>1
  <2>2. Arrives(p) /\ UNCHANGED <<queue, sentKey>>
    BY <1>1 DEF Given
  <2> QED
    BY <1>2, <2>1, <2>2, StillEmpty
<1>4. StartInv'
  <2>1. sent.key \in Nat /\ given \in Nat
    BY FramesInvariant
  <2>2. sent'.key <= given' /\ firstID' \in 0 .. given'
    BY <1>1, <2>1 DEF FrameInv, StartInv
  <2>3. /\ fast' \in BOOLEAN /\ sentKey' \in BOOLEAN /\ started' \in BOOLEAN
        /\ started' \/ sentKey' => connection' = "up"
        /\ ~started' /\ sentKey' => held' = <<>> /\ destroyer' # "none"
        /\ ~started' => held' = <<>> \/ \E k \in AnyPacket : k.type = VideoHighest /\ held' = <<k>>
    BY <1>1, <1>2 DEF FrameInv, StartInv
  <2> QED
    BY <2>2, <2>3 DEF StartInv
<1>5. OrderInv'
  <2>1. FrameOrder(held')
    BY <1>1 DEF FrameInv, OrderInv
  <2> QED
    BY <1>1, <1>2, <1>3, <2>1 DEF OrderInv
<1>6. RefsInv'
  <2>1. \A a \in Range(queue') \cup Range(held') : ~IsVideo(a) => a.ref = 0
    BY <1>1, <1>3 DEF FrameInv, RefsInv
  <2> QED
    BY <1>1, <1>2, <1>3, <2>1 DEF RefsInv
<1> QED
  BY <1>3, <1>4, <1>5, <1>6 DEF FrameInv

LEMMA KeepKeyframeFrames ==
  ASSUME IInv, FrameInv, NEW p \in AnyPacket, Given(p), ~Ignored(p), KeepKeyframe(p)
  PROVE  FrameInv'
<1>1. /\ held' = <<p>> /\ started' = started /\ firstID' = firstID /\ queue' = queue /\ sentKey' = sentKey
      /\ fast' = fast /\ sent' = sent /\ given' = given + 1 /\ destroyer' = "none"
      /\ connection # "up"
  BY DEF KeepKeyframe, startVars, queueVars, Given, Arrives
<1>2. ~started /\ ~sentKey /\ p.type = VideoHighest
  BY <1>1 DEF Ignored, FrameInv, StartInv
<1>3. Range(held') = {p} /\ Frames(held') = VideoOf({p}) /\ FrameOrder(held')
  BY <1>1, OneFrame
<1>4. /\ DecodeInv' /\ queue' = <<>> /\ Frames(queue') = {} /\ Range(queue') = {}
      /\ \A r \in Frames(held') \cup Coming' : Reads(r, Frames(queue') \cup Frames(held'))
  <2>1. Frames(held') \subseteq Frames(held) \cup VideoOf({p})
    BY <1>3
  <2>2. Arrives(p) /\ UNCHANGED <<queue, sentKey>>
    BY <1>1 DEF Given
  <2> QED
    BY <1>2, <2>1, <2>2, StillEmpty
<1>5. StartInv'
  <2>1. sent.key \in Nat /\ given \in Nat
    BY FramesInvariant
  <2>2. sent'.key <= given' /\ firstID' \in 0 .. given'
    BY <1>1, <2>1 DEF FrameInv, StartInv
  <2>3. /\ fast' \in BOOLEAN /\ sentKey' \in BOOLEAN /\ started' \in BOOLEAN
        /\ started' \/ sentKey' => connection' = "up"
        /\ ~started' /\ sentKey' => held' = <<>> /\ destroyer' # "none"
        /\ \E k \in AnyPacket : k.type = VideoHighest /\ held' = <<k>>
    BY <1>1, <1>2 DEF FrameInv, StartInv
  <2> QED
    BY <2>2, <2>3 DEF StartInv
<1>6. OrderInv'
  BY <1>1, <1>2, <1>3, <1>4 DEF OrderInv
<1>7. RefsInv'
  <2>1. IsVideo(p)
    BY <1>2 DEF IsVideo, VideoHighest, Audio
  <2>2. \A a \in Range(queue') \cup Range(held') : ~IsVideo(a) => a.ref = 0
    BY <1>3, <1>4, <2>1
  <2> QED
    BY <1>1, <1>2, <1>4, <2>2 DEF RefsInv
<1> QED
  BY <1>4, <1>5, <1>6, <1>7 DEF FrameInv

\* The first packet of the stream: what the others' times are counted from.
LEMMA FirstPacketOrder ==
  ASSUME IInv, FrameInv, NEW p \in AnyPacket, Given(p), FirstPacket(p)
  PROVE  /\ FrameOrder(held') /\ Frames(held') = VideoOf({[p EXCEPT !.time = 0]})
         /\ Range(held') = {[p EXCEPT !.time = 0]} /\ SamePacket([p EXCEPT !.time = 0], p)
         /\ \A n \in Future' : stream'[n].type # Audio => 0 <= stream'[n].time - first'
         /\ RefsHeld(Frames(held'), Coming')
<1> DEFINE z == [p EXCEPT !.time = 0]
<1>1. /\ SamePacket(z, p) /\ z.time = 0
  BY OtherTime DEF SamePacket
<1>2. held' = <<z>> /\ first' = p.time /\ stream' = stream /\ given' = given + 1
      /\ p.time = stream[given + 1].time /\ given < Len(stream)
  BY DEF FirstPacket, Given, Arrives
<1> HIDE DEF z
<1>3. Range(held') = {z} /\ Frames(held') = VideoOf({z}) /\ FrameOrder(held')
  BY <1>1, <1>2, OneFrame DEF SamePacket
<1>4. ASSUME NEW n \in Future', stream'[n].type # Audio
      PROVE  0 <= stream'[n].time - first'
  <2>1. /\ Len(stream) \in Nat /\ given \in 0 .. Len(stream)
        /\ \A m \in 1 .. Len(stream) : stream[m].time \in Int
        /\ \A m, k \in 1 .. Len(stream) :
             m < k /\ stream[k].type # Audio => stream[m].time <= stream[k].time
    BY StreamTimes
  <2>2. given + 1 \in 1 .. Len(stream) /\ n \in 1 .. Len(stream) /\ given + 1 < n
    BY <1>2, <2>1 DEF Future
  <2>3. stream[given + 1].time <= stream[n].time
    BY <1>2, <1>4, <2>1, <2>2
  <2>4. stream[given + 1].time \in Int /\ stream[n].time \in Int
    BY <2>1, <2>2
  <2>5. 0 <= stream[n].time - stream[given + 1].time
    BY <2>3, <2>4
  <2> QED
    BY <1>2, <2>5
<1>5. RefsHeld(Frames(held'), Coming')
  <2> DEFINE V == VideoOf({z})
             F == Frames(held) \cup V
  <2>1. Arrives(z)
    BY <1>1, SameArrives DEF Given
  <2>2. /\ Readers(F \cup Coming') /\ \A c \in Coming' : c.id = given + 1 + 1
        /\ \A r \in F \cup Coming' : Reads(r, Frames(queue) \cup F)
    BY <1>1, <2>1, Arrival DEF SamePacket
  <2>3. z.id = given + 1 /\ given \in Nat
    BY <2>1, FramesInvariant DEF Arrives
  <2>4. \A f \in V : f = z
    BY DEF VideoOf
  <2> HIDE DEF V
  <2> SUFFICES ASSUME NEW r \in V \cup Coming', NEW f \in V, r.ref >= f.id
               PROVE  r.ref \in IDs(V)
    BY <1>3 DEF RefsHeld, V
  <2>5. r.ref < r.id /\ r.ref \in Nat /\ r.id \in {given + 1, given + 1 + 1}
    <3>1. r.ref < r.id /\ r.ref \in Nat
      BY <2>2 DEF Reads, Readers
    <3>2. r.id \in {given + 1, given + 1 + 1}
      BY <2>2, <2>3, <2>4
    <3> QED
      BY <3>1, <3>2
  <2>6. r.ref = f.id
    BY <2>3, <2>4, <2>5
  <2> QED
    BY <2>6 DEF IDs
<1> QED
  BY <1>1, <1>3, <1>4, <1>5 DEF z

\* The keyframe that was kept is sent before the stream starts: what is decoded from the
\* frames in between is excused.
LEMMA FirstPacketFrames ==
  ASSUME IInv, FrameInv, NEW p \in AnyPacket, Given(p), ~Ignored(p), FirstPacket(p)
  PROVE  FrameInv'
<1> DEFINE z == [p EXCEPT !.time = 0]
           V == VideoOf({z})
           C == Coming'
<1>1. /\ connection = "up" /\ ~started /\ started' = TRUE /\ firstID' = p.id
      /\ fast' = fast /\ sent' = sent /\ decoders' = decoders
      /\ given' = given + 1 /\ destroyer' = "none" /\ destroyer = "none"
      /\ connection' = "up" /\ p.id = given + 1
  BY DEF FirstPacket, Given, Arrives
<1>2. /\ FrameOrder(held') /\ Frames(held') = V /\ Range(held') = {z} /\ SamePacket(z, p)
      /\ \A n \in Future' : stream'[n].type # Audio => 0 <= stream'[n].time - first'
      /\ RefsHeld(Frames(held'), C)
  BY FirstPacketOrder
<1>3. z.time = 0 /\ z.id = given + 1 /\ z \in AnyPacket /\ Arrives(z)
  <2>1. z.time = 0
    BY OtherTime
  <2> HIDE DEF z
  <2> QED
    BY <1>1, <1>2, <2>1, SameArrives DEF SamePacket, Given
<1>4. ~sentKey
  BY <1>1 DEF FrameInv, StartInv
<1>5. given \in Nat /\ sent.key \in Nat /\ sent.key <= given
  BY FramesInvariant DEF FrameInv, StartInv
<1> HIDE DEF z
<1>6. \A f \in V : f = z
  BY DEF VideoOf
<1> HIDE DEF V, C
<1>7. sentKey' \in BOOLEAN => StartInv'
  <2>1. sent'.key <= given' /\ firstID' \in 0 .. given'
    BY <1>1, <1>5
  <2> QED
    BY <1>1, <2>1 DEF FrameInv, StartInv
<1>8. CASE ~(p.type # VideoHighest /\ held # <<>>)
  <2>1. queue' = queue /\ sentKey' = sentKey
    BY <1>8 DEF FirstPacket, queueVars
  <2>2. Frames(held') \subseteq Frames(held) \cup VideoOf({z})
    BY <1>2 DEF V
  <2>3. /\ DecodeInv' /\ queue' = <<>> /\ Frames(queue') = {} /\ Range(queue') = {}
        /\ \A r \in Frames(held') \cup Coming' : Reads(r, Frames(queue') \cup Frames(held'))
        /\ ~IsVideo(z) => z.ref = 0
    BY <1>3, <1>4, <2>1, <2>2, StillEmpty
  <2>4. OrderInv'
    <3>1. \A f \in Frames(queue') \cup Frames(held') : f.time = 0
      BY <1>2, <1>3, <1>6, <2>3
    <3>2. \A n \in Future' : stream'[n].type # Audio =>
            \A f \in Frames(queue') \cup Frames(held') : f.time <= stream'[n].time - first'
      BY <1>2, <3>1
    <3> QED
      BY <1>2, <2>3, <3>2 DEF OrderInv, NotAfter
  <2>5. RefsInv'
    BY <1>2, <2>3 DEF RefsInv, C
  <2>6. StartInv'
    <3>1. sentKey \in BOOLEAN
      BY DEF FrameInv, StartInv
    <3> QED
      BY <1>7, <2>1, <3>1
  <2> QED
    BY <2>3, <2>4, <2>5, <2>6 DEF FrameInv
<1>9. CASE p.type # VideoHighest /\ held # <<>>
  <2> DEFINE k == Head(held)
             c == [k EXCEPT !.time = 0]
  <2>1. SendPacketForReal(c)
    BY <1>9 DEF FirstPacket
  <2>2. PICK y \in AnyPacket : y.type = VideoHighest /\ held = <<y>>
    BY <1>1, <1>9 DEF FrameInv, StartInv
  <2>3. k = y /\ k \in AnyPacket /\ k.type = VideoHighest /\ Frames(held) = {k}
    <3>1. Frames(held) = VideoOf({y}) /\ Head(<<y>>) = y
      BY <2>2, OneFrame
    <3>2. VideoOf({y}) = {y}
      BY <2>2 DEF VideoOf, IsVideo, VideoHighest, Audio
    <3> QED
      BY <2>2, <3>1, <3>2
  <2>4. c \in AnyPacket /\ c.id = k.id /\ c.type = VideoHighest /\ c.ref = k.ref /\ c.time = 0
    BY <2>3, OtherTime
  <2> HIDE DEF c
  <2>5. k.id \in 1 .. given /\ k.ref = 0 /\ c.ref < c.id
    BY <2>3, <2>4, FramesInvariant DEF FrameInv, RefsInv, Reads
  <2> HIDE DEF k
  <2>6. fast
    BY <1>1, <1>9 DEF Ignored
  <2>7. Skipped' = given + 1
    BY <1>1, <2>6 DEF Skipped
  <2> DEFINE from == given + 1
             key == sent.key
  <2>8. queue = <<>> /\ Range(queue) = {} /\ Frames(queue) = {}
    <3>1. queue = <<>>
      BY <1>4 DEF FrameInv, DecodeInv, QueueSound
    <3> QED
      BY <3>1, NoPackets DEF Frames, VideoOf
  <2>9. IsVideo(c) /\ Readers({c} \cup {}) /\ Reads(c, {c}) /\ Reads(c, {}) /\ Foremost(c, {c}, {})
    <3>1. IsVideo(c)
      BY <2>4 DEF IsVideo, VideoHighest, Audio
    <3>2. c.id \in Nat /\ c.ref = 0 /\ c.id > 0
      BY <1>5, <2>4, <2>5
    <3>3. Readers({c})
      BY <2>4, <3>2 DEF Readers, VideoDisposable, VideoHighest
    <3>4. Reads(c, {c}) /\ Reads(c, {})
      BY <2>4, <3>2 DEF Reads
    <3>5. Foremost(c, {c}, {})
      BY <3>2 DEF Foremost
    <3> QED
      BY <3>1, <3>3, <3>4, <3>5
  <2>10. QueueSound(queue, sentKey, {c}, {}, wait, decoders, key, from)
    <3>1. Context(queue, {c} \cup {})
      BY <2>8, <2>9 DEF Context, FrameOrder
    <3>2. TimeOrder(queue) /\ Decodable(Frames(queue), decoders, key, from)
      BY <2>8 DEF TimeOrder, Decodable
    <3> QED
      BY <1>4, <2>8, <3>1, <3>2 DEF QueueSound
  <2>11. /\ QueueSound(queue', sentKey', {c} \ {c}, {} \ {c}, wait', decoders, key, from)
         /\ sentKey' \in BOOLEAN
         /\ Frames(queue') \subseteq Frames(queue) \cup VideoOf({c})
         /\ \A a \in Range(queue') : IsVideo(a) \/ a \in Range(queue) \/ (~IsVideo(c) /\ a.ref = c.ref)
    <3> DEFINE F == {c}
               N == {}
    <3>1. Readers(F \cup N) /\ \A r \in F \cup N : Reads(r, Frames(queue) \cup F)
      BY <2>8, <2>9
    <3>2. Foremost(c, F, N) /\ \A f \in Frames(queue) : f.time <= c.time
      BY <2>8, <2>9
    <3>3. QueueSound(queue, sentKey, F, N, wait, decoders, key, from)
      BY <2>10
    <3>4. /\ queue \in Seq(AnyPacket) /\ Distinct(queue) /\ wait \in VideoDisposable .. VideoHighest
          /\ sentKey \in BOOLEAN /\ key \in Nat /\ from \in Nat
      BY <1>5, FramesInvariant DEF FrameInv, StartInv
    <3> HIDE DEF F, N, key, from
    <3>5. /\ QueueSound(queue', sentKey', F \ {c}, N \ {c}, wait', decoders, key, from)
          /\ sentKey' \in BOOLEAN
          /\ Frames(queue') \subseteq Frames(queue) \cup VideoOf({c})
          /\ \A a \in Range(queue') : IsVideo(a) \/ a \in Range(queue) \/ (~IsVideo(c) /\ a.ref = c.ref)
      BY <1>1, <2>1, <2>4, <3>1, <3>2, <3>3, <3>4, PassedOn
    <3> QED
      BY <3>5 DEF F, N
  <2>12. /\ \A f \in Frames(queue') : f = c
         /\ \A a \in Range(queue') : IsVideo(a)
    BY <2>8, <2>9, <2>11 DEF VideoOf
  <2>13. /\ TimeOrder(queue') /\ FrameOrder(queue')
         /\ \A r \in Frames(queue') : Reads(r, Frames(queue'))
         /\ Decodable(Frames(queue'), decoders, key, from)
         /\ ~sentKey' => queue' = <<>>
    BY <2>11 DEF QueueSound, Context
  <2>14. /\ \A r \in V \cup C : Reads(r, {k} \cup V)
         /\ \A r \in V \cup C : r.id \in {given + 1, given + 1 + 1}
         /\ ~IsVideo(z) => z.ref = 0
    <3> DEFINE F == Frames(held) \cup V
    <3>1. /\ \A r \in F \cup C : Reads(r, Frames(queue) \cup F)
          /\ \A r \in C : r.id = given + 1 + 1
          /\ ~IsVideo(z) => z.ref = 0
      BY <1>3, Arrival DEF C, V
    <3> QED
      BY <1>3, <1>6, <2>3, <2>8, <3>1
  <2>15. \A r \in V \cup C : Reads(r, Frames(queue') \cup V) /\ Reads(r, Frames(queue'))
    <3> SUFFICES ASSUME NEW r \in V \cup C PROVE Reads(r, {c} \cup V)
      BY <2>12 DEF Reads
    <3>1. Reads(r, {k} \cup V)
      BY <2>14
    <3> QED
      BY <2>3, <2>4, <3>1 DEF Reads
  <2>16. Context(queue', V \cup C)
    <3>1. \A f \in Frames(queue'), r \in V \cup C : f.id < r.id
      BY <1>5, <2>4, <2>5, <2>12, <2>14
    <3> QED
      BY <2>13, <2>15, <3>1 DEF Context
  <2>17. Ready(V \cup C, IDs(V), Frames(queue'), wait', decoders, key, from)
    <3>1. \A n : Excused(Frames(queue'), key, from, n)
      <4>1. key < from /\ c.id < from
        BY <1>5, <2>4, <2>5
      <4> QED
        BY <2>12, <4>1 DEF Excused
    <3> QED
      BY <3>1 DEF Ready, Found
  <2>18. DecodeInv'
    <3>1. QueueSound(queue', sentKey', V, C, wait', decoders', sent'.key, Skipped')
      BY <1>1, <2>7, <2>13, <2>16, <2>17 DEF QueueSound
    <3> QED
      BY <1>2, <3>1 DEF DecodeInv, C
  <2>19. OrderInv'
    <3>1. \A f \in Frames(queue') \cup Frames(held') : f.time = 0
      BY <1>2, <1>3, <1>6, <2>4, <2>12
    <3>2. \A n \in Future' : stream'[n].type # Audio =>
            \A f \in Frames(queue') \cup Frames(held') : f.time <= stream'[n].time - first'
      BY <1>2, <3>1
    <3>3. \A f \in Frames(queue'), r \in Frames(held') : f.time <= r.time
      BY <3>1
    <3> QED
      BY <1>2, <3>2, <3>3 DEF OrderInv, NotAfter
  <2>20. RefsInv'
    BY <1>2, <2>12, <2>14, <2>15 DEF RefsInv, C
  <2>21. StartInv'
    BY <1>7, <2>11
  <2> QED
    BY <2>18, <2>19, <2>20, <2>21 DEF FrameInv
<1> QED
  BY <1>8, <1>9

\* The stream has started: the new packet, z, is held back, and the frame X, if there is
\* one, is passed on.
Passes(z, F, X) ==
  /\ F = Frames(held) \cup VideoOf({z}) /\ X \in SUBSET F
  /\ \A h \in X, r \in F \ X : h.id < r.id /\ h.time <= r.time
  /\ FrameOrder(held') /\ Frames(held') = F \ X
  /\ Frames(queue') \subseteq Frames(queue) \cup X
  /\ \A a \in Range(queue') \cup Range(held') :
       ~IsVideo(a) => a \in Range(queue) \cup Range(held) \/ a.ref = 0
  /\ sentKey' \in BOOLEAN
  /\ QueueSound(queue', sentKey', F \ X, Coming', wait', decoders, sent.key, Skipped)

LEMMA StreamFrames ==
  ASSUME IInv, FrameInv, NEW p \in AnyPacket, Given(p), connection = "up", started,
         UNCHANGED <<started, first, firstID>>,
         NEW z, SamePacket(z, p), z.time = p.time - first, NEW F, NEW X, Passes(z, F, X)
  PROVE  FrameInv'
<1> DEFINE C == Coming'
           S == Frames(queue)
           G == F \ X
<1>0. /\ F = Frames(held) \cup VideoOf({z}) /\ X \in SUBSET F
      /\ \A h \in X, r \in F \ X : h.id < r.id /\ h.time <= r.time
      /\ FrameOrder(held') /\ Frames(held') = F \ X
      /\ Frames(queue') \subseteq Frames(queue) \cup X
      /\ \A a \in Range(queue') \cup Range(held') :
           ~IsVideo(a) => a \in Range(queue) \cup Range(held) \/ a.ref = 0
      /\ sentKey' \in BOOLEAN
      /\ QueueSound(queue', sentKey', F \ X, Coming', wait', decoders, sent.key, Skipped)
  BY DEF Passes
<1> USE <1>0
<1>1. /\ fast' = fast /\ sent' = sent /\ decoders' = decoders /\ stream' = stream
      /\ given' = given + 1 /\ destroyer' = "none" /\ connection' = "up" /\ given < Len(stream)
      /\ started' /\ first' = first /\ firstID' = firstID
      /\ p.time = stream[given + 1].time /\ p.type = stream[given + 1].type
  BY DEF Given, Arrives
<1>2. Arrives(z) /\ z \in AnyPacket /\ z.type = p.type
  BY SameArrives DEF SamePacket, Given
<1>3. /\ Readers(F \cup C)
      /\ \A r \in F \cup C : Reads(r, S \cup F)
      /\ RefsHeld(F, C)
  BY <1>2, Arrival DEF Given
<1>4. /\ IsVideo(z) => \A f \in S \cup Frames(held) : f.time <= z.time
      /\ \A n \in given + 1 + 1 .. Len(stream) : stream[n].type # Audio => NotAfter(S \cup F, n, first)
  <2>1. z.time = stream[given + 1].time - first /\ z.type = stream[given + 1].type
    BY <1>1, <1>2
  <2>2. /\ IsVideo(z) => \A f \in S \cup Frames(held) : f.time <= z.time
        /\ \A n \in given + 1 + 1 .. Len(stream) : stream[n].type # Audio =>
             NotAfter(S \cup Frames(held) \cup VideoOf({z}), n, first)
    BY <1>1, <1>2, <2>1, ArrivalOrder
  <2>3. S \cup Frames(held) \cup VideoOf({z}) = S \cup F
    OBVIOUS
  <2> QED
    BY <2>2, <2>3
<1>5. given \in Nat /\ sent.key \in Nat /\ sent.key <= given /\ firstID \in 0 .. given /\ fast \in BOOLEAN
  BY FramesInvariant DEF FrameInv, StartInv
<1> HIDE DEF C, S, G
<1>6. StartInv'
  <2>1. sent'.key <= given' /\ firstID' \in 0 .. given'
    BY <1>1, <1>5
  <2> QED
    BY <1>1, <1>5, <2>1 DEF StartInv
<1>7. Frames(held') = G /\ Frames(queue') \cup G \subseteq S \cup F
  BY DEF G, S
<1>8. OrderInv'
  <2>1. ASSUME NEW f \in Frames(queue'), NEW r \in G PROVE f.time <= r.time
    <3>1. CASE f \in X
      BY <2>1, <3>1 DEF G
    <3>2. CASE f \in S /\ r \in Frames(held)
      BY <3>2 DEF FrameInv, OrderInv, S
    <3>3. CASE f \in S /\ r \in VideoOf({z})
      <4>1. r = z /\ IsVideo(z)
        BY <3>3 DEF VideoOf
      <4> QED
        BY <1>4, <3>3, <4>1
    <3>4. f \in S \cup X /\ r \in Frames(held) \cup VideoOf({z})
      BY <2>1 DEF G, S
    <3> QED
      BY <3>1, <3>2, <3>3, <3>4
  <2>2. ASSUME NEW n \in Future', stream'[n].type # Audio
        PROVE  \A f \in Frames(queue') \cup Frames(held') : f.time <= stream'[n].time - first'
    <3>1. n \in given + 1 + 1 .. Len(stream)
      BY <1>1 DEF Future
    <3>2. NotAfter(S \cup F, n, first)
      BY <1>1, <1>4, <2>2, <3>1
    <3> QED
      BY <1>1, <1>7, <3>2 DEF NotAfter
  <2>3. \A f \in Frames(queue'), r \in Frames(held') : f.time <= r.time
    BY <1>7, <2>1
  <2> QED
    BY <2>2, <2>3 DEF OrderInv, NotAfter
<1>9. RefsInv'
  <2>1. \A r \in G \cup C : Reads(r, Frames(queue') \cup G)
    <3> SUFFICES ASSUME NEW r \in G \cup C PROVE Reads(r, Frames(queue') \cup G)
      OBVIOUS
    <3>1. Reads(r, S \cup F)
      BY <1>3 DEF G
    <3> QED
      BY <1>7, <3>1 DEF Reads
  <2>2. \A a \in Range(queue') \cup Range(held') : ~IsVideo(a) => a.ref = 0
    BY DEF FrameInv, RefsInv
  <2>3. RefsHeld(G, C)
    <3> SUFFICES ASSUME NEW r \in G \cup C, NEW f \in G, r.ref >= f.id
                 PROVE  r.ref \in IDs(G)
      BY DEF RefsHeld
    <3>1. PICK e \in F : e.id = r.ref
      BY <1>3 DEF RefsHeld, IDs, G
    <3>2. e.id \in Nat /\ f.id \in Nat /\ r.ref \in Nat
      BY <1>3 DEF Readers, G
    <3>3. ASSUME e \in X PROVE FALSE
      <4>1. f \in F \ X
        BY DEF G
      <4>2. e.id < f.id
        BY <3>3, <4>1
      <4> QED
        BY <3>1, <3>2, <4>2
    <3> QED
      BY <3>1, <3>3 DEF G, IDs
  <2> QED
    BY <1>7, <2>1, <2>2, <2>3 DEF RefsInv, C
<1>10. DecodeInv'
  <2>1. Skipped' = Skipped
    BY <1>1 DEF Skipped
  <2> QED
    BY <1>1, <1>7, <2>1 DEF DecodeInv, G
<1> QED
  BY <1>6, <1>8, <1>9, <1>10 DEF FrameInv

LEMMA HoldPacketFrames ==
  ASSUME IInv, FrameInv, NEW p \in AnyPacket, Given(p), HoldPacket(p)
  PROVE  FrameInv'
<1> DEFINE z == [p EXCEPT !.time = @ - first]
           F == Frames(held) \cup VideoOf({z})
<1>1. /\ connection = "up" /\ started /\ UNCHANGED <<started, first, firstID>>
      /\ queue' = queue /\ sentKey' = sentKey /\ wait' = wait
      /\ held' = Held(held, z, audioOffset)
  BY DEF HoldPacket, startVars, queueVars
<1>2. SamePacket(z, p) /\ z.time = p.time - first
  <2>1. p.time - first \in Int
    BY QueueInvariant DEF AnyPacket
  <2>2. z = [p EXCEPT !.time = p.time - first]
    OBVIOUS
  <2> QED
    BY <2>1, <2>2, OtherTime DEF SamePacket
<1> HIDE DEF z
<1>3. /\ Arrives(z) /\ z \in AnyPacket /\ (IsVideo(z) <=> IsVideo(p))
      /\ p.time = stream[given + 1].time /\ p.type = stream[given + 1].type
      /\ z.type = p.type /\ z.id = given + 1 /\ given < Len(stream)
  BY <1>2, SameArrives DEF SamePacket, Given, Arrives
<1>4. held \in Seq(AnyPacket) /\ audioOffset \in Int /\ \A f \in Frames(held) : f.id < given + 1
  <2>1. held \in Seq(AnyPacket) /\ audioOffset \in Int
    BY QueueInvariant
  <2>2. \A f \in Frames(held) : f.id \in 1 .. given /\ given \in Nat
    BY FramesInvariant
  <2> QED
    BY <2>1, <2>2
<1>5. /\ Frames(held') = F
      /\ \A a \in Range(held') : ~IsVideo(a) => a \in Range(held) \/ (~IsVideo(z) /\ a.ref = z.ref)
  BY <1>1, <1>3, <1>4, HeldFrames
<1>6. FrameOrder(held')
  <2>1. IsVideo(z) => \A f \in Frames(held) : f.time <= z.time
    <3>1. z.time = stream[given + 1].time - first /\ z.type = stream[given + 1].type
      BY <1>2, <1>3
    <3> QED
      BY <1>1, <1>3, <3>1, ArrivalOrder
  <2>2. IsVideo(z) => \A f \in Frames(held) : f.id < z.id /\ f.time <= z.time
    BY <1>3, <1>4, <2>1
  <2>3. FrameOrder(held)
    BY DEF FrameInv, OrderInv
  <2> QED
    BY <1>1, <1>3, <1>4, <2>2, <2>3, HeldInOrder
<1>7. /\ QueueSound(queue, sentKey, F, Coming', wait, decoders, sent.key, Skipped)
      /\ ~IsVideo(z) => z.ref = 0
  BY <1>3, Arrival
<1>8. sentKey \in BOOLEAN
  BY DEF FrameInv, StartInv
<1> DEFINE X == {}
<1>9. /\ X \in SUBSET F /\ (\A h \in X, r \in F \ X : h.id < r.id /\ h.time <= r.time)
      /\ F \ X = F /\ Frames(held') = F \ X /\ Frames(queue') \subseteq Frames(queue) \cup X
  BY <1>1, <1>5
<1>10. \A a \in Range(queue') \cup Range(held') :
         ~IsVideo(a) => a \in Range(queue) \cup Range(held) \/ a.ref = 0
  BY <1>1, <1>5, <1>7
<1>11. QueueSound(queue', sentKey', F \ X, Coming', wait', decoders, sent.key, Skipped)
  BY <1>1, <1>7, <1>9
<1> HIDE DEF X, F
<1>12. F = Frames(held) \cup VideoOf({z}) /\ sentKey' \in BOOLEAN
  BY <1>1, <1>8 DEF F
<1>13. Passes(z, F, X)
  BY <1>6, <1>9, <1>10, <1>11, <1>12 DEF Passes
<1> QED
  BY <1>1, <1>2, <1>13, StreamFrames

LEMMA PassOldestFrames ==
  ASSUME IInv, FrameInv, NEW p \in AnyPacket, Given(p), PassOldest(p)
  PROVE  FrameInv'
<1> DEFINE z == [p EXCEPT !.time = @ - first]
           F == Frames(held) \cup VideoOf({z})
           C == Coming'
           full == IF heldFull THEN held ELSE InitializeBuffer(held)
           offset == IF heldFull THEN audioOffset ELSE FirstAudioTime(held)
           h == Head(full)
           X == VideoOf({h})
<1>1. /\ connection = "up" /\ started /\ Len(held) = HELD
      /\ UNCHANGED <<started, first, firstID>> /\ held' = Held(Tail(full), z, offset)
      /\ SendPacketForReal(h)
  BY DEF PassOldest
<1>2. SamePacket(z, p) /\ z.time = p.time - first
  <2>1. p.time - first \in Int
    BY QueueInvariant DEF AnyPacket
  <2>2. z = [p EXCEPT !.time = p.time - first]
    OBVIOUS
  <2> QED
    BY <2>1, <2>2, OtherTime DEF SamePacket
<1> HIDE DEF z
<1>3. /\ Arrives(z) /\ z \in AnyPacket /\ (IsVideo(z) <=> IsVideo(p))
      /\ p.time = stream[given + 1].time /\ p.type = stream[given + 1].type
      /\ z.type = p.type /\ z.id = given + 1 /\ given < Len(stream)
  BY <1>2, SameArrives DEF SamePacket, Given, Arrives
<1>4. /\ held \in Seq(AnyPacket) /\ held # <<>> /\ Distinct(held) /\ FrameOrder(held)
      /\ \A a \in Range(held) : ~IsVideo(a) => a.ref = 0
      /\ \A f \in Frames(held) : f.id < given + 1
  <2>1. held \in Seq(AnyPacket) /\ Distinct(held)
    BY FramesInvariant
  <2>2. held # <<>>
    BY <1>1, QueueAssumption
  <2>3. \A f \in Frames(held) : f.id \in 1 .. given /\ given \in Nat
    BY FramesInvariant
  <2> QED
    BY <2>1, <2>2, <2>3 DEF FrameInv, OrderInv, RefsInv
<1>5. /\ full \in Seq(AnyPacket) /\ full # <<>> /\ Distinct(full) /\ FrameOrder(full)
      /\ Frames(full) = Frames(held) /\ \A a \in Range(full) : ~IsVideo(a) => a.ref = 0
      /\ IDs(Range(full)) = IDs(Range(held))
  <2>1. CASE heldFull
    BY <1>4, <2>1
  <2>2. CASE ~heldFull
    <3>1. full = InitializeBuffer(held)
      BY <2>2
    <3>2. /\ full \in Seq(AnyPacket) /\ Distinct(full) /\ Len(full) = Len(held)
          /\ IDs(Range(full)) = IDs(Range(held))
      BY <1>4, <3>1, InitializeBufferProperties
    <3>3. Len(held) > 0
      BY <1>1, QueueAssumption
    <3>4. full # <<>>
      BY <3>2, <3>3, Ends
    <3> QED
      BY <1>4, <3>1, <3>2, <3>4, InitializeBufferFrames
  <2> QED
    BY <2>1, <2>2
<1>6. offset \in Int
  BY <1>4, QueueInvariant, FirstAudioTimeIsTime
<1> HIDE DEF full, offset
<1>7. /\ Frames(Tail(full)) = Frames(held) \ {h} /\ FrameOrder(Tail(full))
      /\ Range(Tail(full)) \subseteq Range(full) /\ h \in Range(full) /\ h \in AnyPacket
      /\ IsVideo(h) => /\ h \in Frames(held)
                       /\ \A f \in Frames(held) : f # h => h.id < f.id /\ h.time <= f.time
      /\ Tail(full) \in Seq(AnyPacket)
  <2>1. Tail(full) \in Seq(AnyPacket)
    BY <1>5, Ends
  <2> QED
    BY <1>5, <2>1, HeadFrame
<1> HIDE DEF h
<1>8. /\ Readers(F \cup C) /\ \A f \in F : f.id \in 1 .. given + 1
      /\ \A c \in C : c.id = given + 1 + 1
      /\ \A r \in F \cup C : Reads(r, Frames(queue) \cup F)
      /\ RefsHeld(F, C)
      /\ QueueSound(queue, sentKey, F, C, wait, decoders, sent.key, Skipped)
      /\ ~IsVideo(z) => z.ref = 0
  BY <1>1, <1>3, Arrival
<1>9. /\ \A f \in X : f = h /\ IsVideo(h) /\ h \in Frames(held)
      /\ IsVideo(h) => X = {h}
  BY <1>7 DEF VideoOf
<1>10. IsVideo(z) => \A f \in Frames(queue) \cup Frames(held) : f.time <= z.time
  <2>1. z.time = stream[given + 1].time - first /\ z.type = stream[given + 1].type
    BY <1>2, <1>3
  <2> QED
    BY <1>1, <1>3, <2>1, ArrivalOrder
<1>11. \A f \in VideoOf({z}) : f = z /\ IsVideo(z)
  BY DEF VideoOf
<1> HIDE DEF X, C
<1>12. IsVideo(h) => \A r \in F : r # h => h.id < r.id /\ h.time <= r.time
  <2> SUFFICES ASSUME IsVideo(h), NEW r \in F, r # h PROVE h.id < r.id /\ h.time <= r.time
    OBVIOUS
  <2>1. CASE r \in Frames(held)
    BY <1>7, <2>1
  <2>2. CASE r \in VideoOf({z})
    BY <1>3, <1>4, <1>7, <1>10, <1>11, <2>2
  <2> QED
    BY <2>1, <2>2
<1>13. h.id \in 1 .. given /\ given \in Nat
  <2>1. h.id \in IDs(Range(full))
    BY <1>7 DEF IDs
  <2> QED
    BY <1>5, <2>1, QueueInvariant
<1>14. F \ X = F \ {h} /\ C \ {h} = C /\ X \in SUBSET F /\ h \notin VideoOf({z})
  <2>1. \A c \in C : c # h
    BY <1>8, <1>13
  <2>2. h \notin VideoOf({z})
    <3>1. h.id # given + 1
      BY <1>13
    <3>2. h # z
      BY <1>3, <3>1
    <3> QED
      BY <1>11, <3>2
  <2>3. ~IsVideo(h) => h \notin Frames(held)
    BY DEF Frames, VideoOf
  <2>4. IsVideo(h) => h \in F
    BY <1>7
  <2>5. F \ X = F \ {h} /\ X \in SUBSET F
    BY <1>9, <2>2, <2>3, <2>4
  <2>6. C \ {h} = C
    BY <2>1
  <2> QED
    BY <2>2, <2>5, <2>6
<1>15. /\ Frames(held') = F \ X
       /\ \A a \in Range(held') :
            ~IsVideo(a) => a \in Range(Tail(full)) \/ (~IsVideo(z) /\ a.ref = z.ref)
  <2>1. /\ Frames(held') = Frames(Tail(full)) \cup VideoOf({z})
        /\ \A a \in Range(held') :
             ~IsVideo(a) => a \in Range(Tail(full)) \/ (~IsVideo(z) /\ a.ref = z.ref)
    BY <1>1, <1>3, <1>6, <1>7, HeldFrames
  <2>2. Frames(held') = F \ {h}
    BY <1>7, <1>14, <2>1
  <2> QED
    BY <1>14, <2>1, <2>2
<1>16. FrameOrder(held')
  <2>1. IsVideo(z) => \A f \in Frames(Tail(full)) : f.id < z.id /\ f.time <= z.time
    BY <1>3, <1>4, <1>7, <1>10
  <2> QED
    BY <1>1, <1>3, <1>6, <1>7, <2>1, HeldInOrder
<1>17. IsVideo(h) => Foremost(h, F, C) /\ \A f \in Frames(queue) : f.time <= h.time
  <2> SUFFICES ASSUME IsVideo(h)
               PROVE  Foremost(h, F, C) /\ \A f \in Frames(queue) : f.time <= h.time
    OBVIOUS
  <2>0. IsVideo(h)
    OBVIOUS
  <2>1. h \in F
    BY <1>7
  <2>2. \A r \in F \cup C : r # h => h.id < r.id
    <3>1. \A r \in C : h.id < r.id
      <4>1. h.id < given + 1 + 1
        BY <1>13
      <4> QED
        BY <1>8, <4>1
    <3>2. \A r \in F : r # h => h.id < r.id
      BY <1>12, <2>0
    <3> QED
      BY <3>1, <3>2
  <2>3. \A r \in F \cup C : r.ref >= h.id => r.ref \in IDs(F)
    BY <1>8, <2>1 DEF RefsHeld
  <2>4. \A f \in Frames(queue) : f.time <= h.time
    BY <1>7 DEF FrameInv, OrderInv
  <2> QED
    BY <2>1, <2>2, <2>3, <2>4 DEF Foremost
<1>18. /\ QueueSound(queue', sentKey', F \ {h}, C \ {h}, wait', decoders, sent.key, Skipped)
       /\ sentKey' \in BOOLEAN
       /\ Frames(queue') \subseteq Frames(queue) \cup VideoOf({h})
       /\ \A a \in Range(queue') : IsVideo(a) \/ a \in Range(queue) \/ (~IsVideo(h) /\ a.ref = h.ref)
  <2>1. /\ queue \in Seq(AnyPacket) /\ Distinct(queue) /\ wait \in VideoDisposable .. VideoHighest
        /\ sentKey \in BOOLEAN /\ sent.key \in Nat
    BY FramesInvariant DEF FrameInv, StartInv
  <2>2. Skipped \in Nat
    BY FramesInvariant DEF FrameInv, StartInv, Skipped
  <2>3. Readers(F \cup C) /\ \A r \in F \cup C : Reads(r, Frames(queue) \cup F)
    BY <1>8
  <2>4. QueueSound(queue, sentKey, F, C, wait, decoders, sent.key, Skipped)
    BY <1>8
  <2> HIDE DEF F
  <2> QED
    BY <1>1, <1>7, <1>17, <2>1, <2>2, <2>3, <2>4, PassedOn
<1>19. \A a \in Range(queue') \cup Range(held') :
         ~IsVideo(a) => a \in Range(queue) \cup Range(held) \/ a.ref = 0
  <2>1. ~IsVideo(h) => h.ref = 0
    BY <1>5, <1>7
  <2> QED
    BY <1>5, <1>7, <1>8, <1>15, <1>18, <2>1
<1>20. \A f \in X, r \in F \ X : f.id < r.id /\ f.time <= r.time
  BY <1>9, <1>12, <1>14
<1>21. /\ Frames(queue') \subseteq Frames(queue) \cup X
       /\ QueueSound(queue', sentKey', F \ X, Coming', wait', decoders, sent.key, Skipped)
  BY <1>14, <1>18 DEF X, C
<1>22. F = Frames(held) \cup VideoOf({z}) /\ X \in SUBSET F /\ Frames(held') = F \ X
  BY <1>14, <1>15
<1>23. connection = "up" /\ started /\ UNCHANGED <<started, first, firstID>> /\ sentKey' \in BOOLEAN
  BY <1>1, <1>18
<1> HIDE DEF F
<1>24. Passes(z, F, X)
  BY <1>16, <1>19, <1>20, <1>21, <1>22, <1>23 DEF Passes
<1> QED
  BY <1>2, <1>23, <1>24, StreamFrames

LEMMA SendPacketFrames ==
  ASSUME IInv, FrameInv, SendPacket
  PROVE  FrameInv'
<1> DEFINE n == given + 1
           p == [id |-> n, type |-> stream[n].type, time |-> stream[n].time,
                 ref |-> Reference(stream[n].type)]
<1>1. /\ given < Len(stream) /\ destroyer = "none"
      /\ given' = n
      /\ connection' = IF connection = "none" THEN "running" ELSE connection
      /\ anchor' = IF stream[n].type \in {VideoHigh, VideoHighest} THEN p.id ELSE anchor
      /\ base' = IF stream[n].type \in {VideoLow, VideoHigh, VideoHighest} THEN p.id ELSE base
      /\ IF Ignored(p)
         THEN UNCHANGED <<heldVars, queueVars, semaphore, missed>>
         ELSE KeepKeyframe(p) \/ FirstPacket(p) \/ HoldPacket(p) \/ PassOldest(p)
      /\ UNCHANGED <<fast, stopping, loopExit, sender, destroyer, stream, sent, decoders>>
  BY DEF SendPacket
<1>2. given \in Nat /\ anchor \in Nat /\ base \in Nat /\ n \in 1 .. Len(stream)
  BY <1>1, FramesInvariant, StreamTimes
<1>3. stream[n].type \in 0 .. 4 /\ stream[n].time \in Int
  BY <1>2, StreamTimes
<1>4. /\ p \in AnyPacket /\ p.id = n /\ p.type = stream[n].type /\ p.time = stream[n].time
      /\ p.ref = Reference(stream[n].type)
  <2>1. Reference(stream[n].type) \in Nat
    BY <1>2, <1>3 DEF Reference, VideoDisposable, VideoLow, VideoHigh, VideoHighest, Audio
  <2> QED
    BY <1>2, <1>3, <2>1 DEF AnyPacket, VideoDisposable, Audio
<1> HIDE DEF p
<1>5. Given(p)
  <2>1. Arrives(p)
    BY <1>1, <1>4 DEF Arrives
  <2> QED
    BY <1>1, <1>4, <2>1 DEF Given
<1>6. CASE Ignored(p)
  BY <1>1, <1>4, <1>5, <1>6, IgnoredFrames
<1>7. CASE ~Ignored(p)
  <2>1. CASE KeepKeyframe(p)
    BY <1>4, <1>5, <1>7, <2>1, KeepKeyframeFrames
  <2>2. CASE FirstPacket(p)
    BY <1>4, <1>5, <1>7, <2>2, FirstPacketFrames
  <2>3. CASE HoldPacket(p)
    BY <1>4, <1>5, <2>3, HoldPacketFrames
  <2>4. CASE PassOldest(p)
    BY <1>4, <1>5, <2>4, PassOldestFrames
  <2> QED
    BY <1>1, <1>7, <2>1, <2>2, <2>3, <2>4
<1> QED
  BY <1>6, <1>7

\* The destructor: no frames are to come any more.
LEMMA FlushPacketFrames ==
  ASSUME IInv, FrameInv, FlushPacket
  PROVE  FrameInv'
<1> DEFINE h == Head(held)
           F == Frames(held)
           C == {}
<1>1. /\ destroyer = "flushing" /\ held # <<>> /\ held' = Tail(held) /\ SendPacketForReal(h)
      /\ fast' = fast /\ connection' = connection /\ started' = started /\ first' = first
      /\ firstID' = firstID /\ destroyer' = destroyer /\ stream' = stream /\ given' = given
      /\ anchor' = anchor /\ base' = base /\ sent' = sent /\ decoders' = decoders
  BY DEF FlushPacket, startVars, inputVars
<1>2. /\ queue \in Seq(AnyPacket) /\ Distinct(queue) /\ wait \in VideoDisposable .. VideoHighest
      /\ held \in Seq(AnyPacket) /\ Distinct(held) /\ FrameOrder(held) /\ Readers(F)
      /\ sentKey \in BOOLEAN /\ sent.key \in Nat
  BY FramesInvariant DEF FrameInv, StartInv, OrderInv
<1>3. /\ Frames(held') = F \ {h} /\ FrameOrder(held')
      /\ Range(held') \subseteq Range(held) /\ h \in Range(held) /\ h \in AnyPacket
      /\ IsVideo(h) => h \in F /\ \A f \in F : f # h => h.id < f.id /\ h.time <= f.time
  BY <1>1, <1>2, HeadFrame
<1>4. Coming = C /\ Coming' = C
  BY <1>1 DEF Coming
<1>5. /\ \A r \in F \cup C : Reads(r, Frames(queue) \cup F)
      /\ QueueSound(queue, sentKey, F, C, wait, decoders, sent.key, Skipped)
      /\ started => RefsHeld(F, C)
      /\ \A a \in Range(queue) \cup Range(held) : ~IsVideo(a) => a.ref = 0
      /\ \A f \in Frames(queue), r \in F : f.time <= r.time
  BY <1>4 DEF FrameInv, RefsInv, DecodeInv, OrderInv
<1> HIDE DEF h
\* Before the stream has started a single keyframe is held back.
<1>6. \A r \in F, f \in F : r.ref >= f.id => r.ref \in IDs(F)
  <2>1. CASE started
    BY <1>5, <2>1 DEF RefsHeld
  <2>2. CASE ~started
    <3>1. PICK k \in AnyPacket : k.type = VideoHighest /\ held = <<k>>
      BY <1>1, <2>2 DEF FrameInv, StartInv
    <3>2. \A f \in F : f = k
      BY <3>1, OneFrame DEF VideoOf
    <3>3. \A f \in F : f.ref < f.id /\ f.ref \in Nat /\ f.id \in Nat
      BY <1>2, <1>5 DEF Reads, Readers
    <3> QED
      BY <3>2, <3>3
  <2> QED
    BY <2>1, <2>2
<1>7. /\ QueueSound(queue', sentKey', F \ {h}, C, wait', decoders, sent.key, Skipped)
      /\ sentKey' \in BOOLEAN /\ (connection # "up" => ~sentKey')
      /\ Frames(queue') \subseteq Frames(queue) \cup VideoOf({h})
      /\ \A a \in Range(queue') : IsVideo(a) \/ a \in Range(queue) \/ (~IsVideo(h) /\ a.ref = h.ref)
  <2>1. CASE connection = "up"
    <3> DEFINE N == C
    <3>1. IsVideo(h) => Foremost(h, F, N) /\ \A f \in Frames(queue) : f.time <= h.time
      BY <1>3, <1>5, <1>6 DEF Foremost
    <3>2. Skipped \in Nat
      BY FramesInvariant DEF FrameInv, StartInv, Skipped
    <3>3. Readers(F \cup N) /\ (\A r \in F \cup N : Reads(r, Frames(queue) \cup F)) /\ N \ {h} = N
      BY <1>2, <1>5
    <3>4. QueueSound(queue, sentKey, F, N, wait, decoders, sent.key, Skipped)
      BY <1>5
    <3> HIDE DEF N, F
    <3>5. /\ QueueSound(queue', sentKey', F \ {h}, N \ {h}, wait', decoders, sent.key, Skipped)
          /\ sentKey' \in BOOLEAN
          /\ Frames(queue') \subseteq Frames(queue) \cup VideoOf({h})
          /\ \A a \in Range(queue') : IsVideo(a) \/ a \in Range(queue) \/ (~IsVideo(h) /\ a.ref = h.ref)
      BY <1>1, <1>2, <1>3, <2>1, <3>1, <3>2, <3>3, <3>4, PassedOn
    <3>6. QueueSound(queue', sentKey', F \ {h}, N, wait', decoders, sent.key, Skipped)
      BY <3>3, <3>5
    <3> QED
      BY <2>1, <3>5, <3>6 DEF N
  <2>2. CASE connection # "up"
    <3>1. queue' = queue /\ sentKey' = sentKey
      BY <1>1, <2>2 DEF SendPacketForReal, queueVars
    <3>2. ~sentKey /\ queue = <<>>
      BY <1>5, <2>2 DEF FrameInv, StartInv, QueueSound
    <3>3. Frames(queue) = {}
      BY <3>2, NoPackets DEF Frames, VideoOf
    <3>4. \A r \in F \ {h} : Reads(r, {})
      BY <1>5 DEF Reads
    <3>5. Context(queue, (F \ {h}) \cup C)
      BY <3>3, <3>4 DEF Context, FrameOrder
    <3>6. QueueSound(queue, sentKey, F \ {h}, C, wait', decoders, sent.key, Skipped)
      BY <1>5, <3>2, <3>5 DEF QueueSound
    <3>7. QueueSound(queue', sentKey', F \ {h}, C, wait', decoders, sent.key, Skipped)
      BY <3>1, <3>6, Zenon
    <3>8. ~sentKey' /\ sentKey' \in BOOLEAN
      BY <1>2, <3>1, <3>2, Zenon
    <3>9. /\ Frames(queue') \subseteq Frames(queue) \cup VideoOf({h})
          /\ \A a \in Range(queue') : a \in Range(queue)
      BY <3>1
    <3> QED
      BY <3>7, <3>8, <3>9, Zenon
  <2> QED
    BY <2>1, <2>2
<1> HIDE DEF F
<1>8. \A f \in VideoOf({h}) : f = h /\ IsVideo(h) /\ h \in F
  BY <1>3 DEF VideoOf
<1>9. StartInv'
  <2>1. ~started => held' = <<>> /\ destroyer' # "none"
    <3>1. ASSUME ~started PROVE held' = <<>>
      <4>1. PICK k \in AnyPacket : held = <<k>>
        BY <1>1, <3>1 DEF FrameInv, StartInv
      <4>2. Tail(<<k>>) = <<>>
        OBVIOUS
      <4> QED
        BY <1>1, <4>1, <4>2
    <3> QED
      BY <1>1, <3>1
  <2>2. /\ fast' \in BOOLEAN /\ started' \in BOOLEAN /\ firstID' \in 0 .. given' /\ sent'.key <= given'
        /\ started' => connection' = "up"
    BY <1>1 DEF FrameInv, StartInv
  <2>3. sentKey' => connection' = "up"
    BY <1>1, <1>7
  <2> QED
    BY <1>1, <1>7, <2>1, <2>2, <2>3 DEF StartInv
<1>10. OrderInv'
  <2>1. \A f \in Frames(queue'), r \in Frames(held') : f.time <= r.time
    <3> SUFFICES ASSUME NEW f \in Frames(queue'), NEW r \in F, r # h PROVE f.time <= r.time
      BY <1>3
    <3>1. CASE f \in Frames(queue)
      BY <1>5, <3>1
    <3>2. CASE f \in VideoOf({h})
      BY <1>3, <1>8, <3>2
    <3> QED
      BY <1>7, <3>1, <3>2
  <2>2. Frames(queue') \cup Frames(held') \subseteq Frames(queue) \cup Frames(held)
    BY <1>3, <1>7, <1>8 DEF F
  <2>3. started => \A n \in Future : stream[n].type # Audio =>
          \A f \in Frames(queue') \cup Frames(held') : f.time <= stream[n].time - first
    BY <2>2 DEF FrameInv, OrderInv, NotAfter
  <2>4. Future' = Future
    BY <1>1 DEF Future
  <2> QED
    BY <1>1, <1>3, <2>1, <2>3, <2>4 DEF OrderInv, NotAfter
<1>11. RefsInv'
  <2>1. \A r \in Frames(held') \cup C : Reads(r, Frames(queue') \cup Frames(held'))
    <3> SUFFICES ASSUME NEW r \in F PROVE Reads(r, Frames(queue') \cup Frames(held'))
      BY <1>3
    <3>1. Frames(queue') \cup Frames(held') \subseteq Frames(queue) \cup F
      BY <1>3, <1>7, <1>8
    <3>2. Reads(r, Frames(queue) \cup F)
      BY <1>5
    <3> QED
      BY <3>1, <3>2 DEF Reads
  <2>2. \A a \in Range(queue') \cup Range(held') : ~IsVideo(a) => a.ref = 0
    BY <1>3, <1>5, <1>7
  <2>3. started => RefsHeld(F \ {h}, C)
    <3> SUFFICES ASSUME NEW r \in F \ {h}, NEW f \in F \ {h}, r.ref >= f.id
                 PROVE  r.ref \in IDs(F \ {h})
      BY DEF RefsHeld
    <3>1. PICK e \in F : e.id = r.ref
      BY <1>6 DEF IDs
    <3>2. e.id \in Nat /\ f.id \in Nat /\ r.ref \in Nat /\ IsVideo(e)
      BY <1>2, <3>1 DEF Readers, F, Frames, VideoOf
    <3>3. ASSUME e = h PROVE FALSE
      <4>1. e.id < f.id
        BY <1>3, <3>2, <3>3
      <4> QED
        BY <3>1, <3>2, <4>1
    <3> QED
      BY <3>1, <3>3 DEF IDs
  <2> QED
    BY <1>1, <1>3, <1>4, <2>1, <2>2, <2>3 DEF RefsInv
<1>12. DecodeInv'
  <2>1. Skipped' = Skipped
    BY <1>1 DEF Skipped
  <2> QED
    BY <1>1, <1>3, <1>4, <1>7, <2>1 DEF DecodeInv
<1> QED
  BY <1>9, <1>10, <1>11, <1>12 DEF FrameInv

\* A packet is sent: if something refers to it, it can still be decoded from.
LEMMA SendNextFrames ==
  ASSUME IInv, FrameInv, SendNext
  PROVE  FrameInv'
<1> DEFINE p == Head(queue)
           Kept == {anchor, base} \cup {other.ref : other \in Range(queue') \cup Range(held)}
           F == Frames(held)
           S == Frames(queue)
           T == Frames(queue')
           from == Skipped
           P == F \cup Coming
<1>1. /\ queue # <<>> /\ queue' = Tail(queue)
      /\ sent' = IF ~IsVideo(p) THEN [sent EXCEPT !.audio = @ + 1]
                 ELSE [sent EXCEPT !.video = @ + 1, !.key = IF p.type = VideoHighest THEN p.id ELSE @]
      /\ decoders' = (decoders \cup {p.id}) \cap Kept
      /\ held' = held /\ started' = started /\ first' = first /\ firstID' = firstID /\ fast' = fast
      /\ connection' = connection /\ wait' = wait /\ sentKey' = sentKey /\ destroyer' = destroyer
      /\ stream' = stream /\ given' = given /\ anchor' = anchor /\ base' = base
  BY DEF SendNext, OnlySender, heldVars, startVars, inputVars
<1>2. /\ queue \in Seq(AnyPacket) /\ Distinct(queue) /\ given \in Nat /\ sent.key \in Nat
      /\ \A f \in S : f.id \in 1 .. given
      /\ sent \in [video : Int, audio : Int, key : Nat]
  BY FramesInvariant, QueueInvariant
<1>3. /\ TimeOrder(queue) /\ Context(queue, P) /\ FrameOrder(queue)
      /\ Decodable(S, decoders, sent.key, from)
      /\ sentKey => Ready(P, IDs(F), S, wait, decoders, sent.key, from)
      /\ sentKey
  BY <1>1 DEF FrameInv, DecodeInv, QueueSound, Context
<1>4. /\ T = S \ {p} /\ FrameOrder(queue')
      /\ Range(queue') \subseteq Range(queue) /\ p \in Range(queue)
      /\ IsVideo(p) => p \in S /\ \A f \in S : f # p => p.id < f.id /\ p.time <= f.time
  BY <1>1, <1>2, <1>3, HeadFrame
<1>5. TimeOrder(queue')
  <2>1. \A a, b : Precedes(Tail(queue), a, b) => Precedes(queue, a, b)
    BY <1>1, <1>2, TailOrder
  <2> QED
    BY <1>1, <1>3, <1>4, <2>1 DEF TimeOrder
<1>6. sent'.key = IF p.type = VideoHighest THEN p.id ELSE sent.key
  BY <1>1, <1>2 DEF IsVideo, VideoHighest, Audio
<1>7. p.type = VideoHighest => IsVideo(p)
  BY DEF IsVideo, VideoHighest, Audio
<1> HIDE DEF p
<1>8. /\ \A r \in T \cup P : r.ref \in Kept
      /\ IsVideo(p) => \A r \in T \cup P : p.id < r.id
  <2>1. \A r \in T : r \in Range(queue')
    BY DEF Frames, VideoOf
  <2>2. \A r \in F : r \in Range(held)
    BY DEF Frames, VideoOf
  <2>3. \A r \in Coming : r.ref \in {anchor, base}
    BY DEF Coming, NextFrame
  <2>4. IsVideo(p) => \A r \in P : p.id < r.id
    BY <1>3, <1>4 DEF Context
  <2> HIDE DEF T, F
  <2>5. \A r \in T \cup F \cup Coming : r.ref \in Kept
    BY <2>1, <2>2, <2>3
  <2> QED
    BY <1>4, <2>4, <2>5
<1>9. p \in AnyPacket /\ p.id \in Nat
  BY <1>1, <1>2, Ends DEF AnyPacket, p
<1>10. /\ \A f \in S : f.id \in Nat
       /\ \A r \in T \cup P : r.id \in Nat
       /\ from \in Nat
  <2>1. \A r \in F \cup Coming : r.id \in Nat
    BY FramesInvariant DEF Readers
  <2>2. from \in Nat
    BY FramesInvariant DEF FrameInv, StartInv, Skipped
  <2> QED
    BY <1>2, <1>4, <2>1, <2>2
<1> HIDE DEF Kept, P, T, S, F, from
<1>11. ASSUME NEW r \in T \cup P, Found(r, S, decoders, sent.key, from)
       PROVE  Found(r, T, decoders', sent'.key, from)
  <2>1. CASE r.ref \in decoders \cup {p.id}
    <3>1. r.ref \in decoders'
      BY <1>1, <1>8, <2>1
    <3> QED
      BY <3>1 DEF Found, Has
  <2>2. CASE r.ref \in IDs(S) /\ r.ref # p.id
    <3>1. r.ref \in IDs(T)
      BY <1>4, <2>2 DEF IDs
    <3> QED
      BY <3>1 DEF Found, Has
  <2>3. CASE Excused(S, sent.key, from, r.id)
    <3>1. sent.key < from /\ \A k \in S : k.type = VideoHighest /\ k.id < r.id => k.id < from
      BY <2>3 DEF Excused
    <3>2. sent'.key < from
      <4>1. CASE p.type = VideoHighest
        BY <1>4, <1>6, <1>7, <1>8, <3>1, <4>1
      <4>2. CASE p.type # VideoHighest
        BY <1>6, <3>1, <4>2
      <4> QED
        BY <4>1, <4>2
    <3>3. \A k \in T : k.type = VideoHighest /\ k.id < r.id => k.id < from
      BY <1>4, <3>1
    <3> QED
      BY <3>2, <3>3 DEF Found, Excused
  <2> QED
    BY <1>11, <2>1, <2>2, <2>3 DEF Found, Has
<1>12. Coming' = Coming /\ Skipped' = Skipped /\ Frames(held') = F
  BY <1>1 DEF Coming, NextFrame, Skipped, F
<1>13. DecodeInv'
  <2>1. Context(queue', P)
    <3>1. \A r \in T \cup P : Reads(r, T)
      <4> SUFFICES ASSUME NEW r \in S \cup P PROVE Reads(r, T)
        BY <1>4
      <4>1. Reads(r, S)
        BY <1>3 DEF Context, S
      <4> QED
        BY <1>4, <4>1 DEF Reads
    <3>2. \A f \in T, r \in P : f.id < r.id
      BY <1>3, <1>4 DEF Context, S
    <3> QED
      BY <1>4, <3>1, <3>2 DEF Context, T
  <2>2. Decodable(T, decoders', sent'.key, from)
    BY <1>3, <1>4, <1>11 DEF Decodable
  <2>3. Ready(P, IDs(F), T, wait, decoders', sent'.key, from)
    BY <1>3, <1>11 DEF Ready
  <2>4. QueueSound(queue', sentKey', F, Coming, wait', decoders', sent'.key, from)
    BY <1>1, <1>3, <1>5, <2>1, <2>2, <2>3 DEF QueueSound, P, T
  <2> QED
    BY <1>12, <2>4 DEF DecodeInv, from
<1>14. StartInv'
  <2>1. sent'.key <= given'
    <3>1. sent.key <= given
      BY DEF FrameInv, StartInv
    <3>2. CASE p.type = VideoHighest
      BY <1>1, <1>2, <1>4, <1>6, <1>7, <3>2
    <3>3. CASE p.type # VideoHighest
      BY <1>1, <1>6, <3>1, <3>3
    <3> QED
      BY <3>2, <3>3
  <2>2. /\ fast' \in BOOLEAN /\ sentKey' \in BOOLEAN /\ started' \in BOOLEAN
        /\ firstID' \in 0 .. given'
        /\ started' \/ sentKey' => connection' = "up"
        /\ ~started' /\ sentKey' => held' = <<>> /\ destroyer' # "none"
        /\ ~started' => held' = <<>> \/ \E k \in AnyPacket : k.type = VideoHighest /\ held' = <<k>>
    BY <1>1 DEF FrameInv, StartInv
  <2> QED
    BY <2>1, <2>2 DEF StartInv
<1>15. OrderInv'
  <2>1. Future' = Future
    BY <1>1 DEF Future
  <2>2. \A f \in T, r \in F : f.time <= r.time
    BY <1>4 DEF FrameInv, OrderInv, S, F
  <2>3. FrameOrder(held')
    BY <1>1 DEF FrameInv, OrderInv
  <2>4. started => \A n \in Future : stream[n].type # Audio =>
          \A f \in T \cup F : f.time <= stream[n].time - first
    BY <1>4 DEF FrameInv, OrderInv, NotAfter, S, F
  <2> QED
    BY <1>1, <1>12, <2>1, <2>2, <2>3, <2>4 DEF OrderInv, NotAfter, T
<1>16. RefsInv'
  <2>1. \A r \in P : Reads(r, T \cup F)
    <3> SUFFICES ASSUME NEW r \in P PROVE Reads(r, T \cup F)
      OBVIOUS
    <3>1. Reads(r, S \cup F)
      BY DEF FrameInv, RefsInv, P, S, F
    <3> QED
      BY <1>4, <3>1 DEF Reads
  <2>2. \A a \in Range(queue') \cup Range(held') : ~IsVideo(a) => a.ref = 0
    BY <1>1, <1>4 DEF FrameInv, RefsInv
  <2>3. started' => RefsHeld(F, Coming)
    BY <1>1 DEF FrameInv, RefsInv, F
  <2> QED
    BY <1>12, <2>1, <2>2, <2>3 DEF RefsInv, P, T
<1> QED
  BY <1>13, <1>14, <1>15, <1>16 DEF FrameInv

\* What only concerns the threads.
LEMMA SameFrames ==
  ASSUME IInv, FrameInv,
         UNCHANGED <<fast, held, started, first, firstID, queue, sentKey, stream, given,
                     anchor, base, sent, decoders>>,
         wait' = wait \/ ~sentKey, Coming' \subseteq Coming,
         started \/ sentKey => connection' = connection, destroyer # "none" => destroyer' # "none"
  PROVE  FrameInv'
<1> DEFINE F == Frames(held)
           S == Frames(queue)
           C == Coming'
<1>1. Frames(held') = F /\ Frames(queue') = S /\ Skipped' = Skipped /\ Future' = Future
  BY DEF Skipped, Future
<1>2. StartInv'
  BY DEF FrameInv, StartInv
<1>3. OrderInv'
  <2>1. FrameOrder(held') /\ \A f \in S, r \in F : f.time <= r.time
    BY DEF FrameInv, OrderInv
  <2>2. started => \A n \in Future : stream[n].type # Audio =>
          \A f \in S \cup F : f.time <= stream[n].time - first
    BY DEF FrameInv, OrderInv, NotAfter
  <2> QED
    BY <1>1, <2>1, <2>2 DEF OrderInv, NotAfter
<1>4. RefsInv'
  <2>1. \A r \in F \cup C : Reads(r, S \cup F)
    BY DEF FrameInv, RefsInv
  <2>2. \A a \in Range(queue') \cup Range(held') : ~IsVideo(a) => a.ref = 0
    BY DEF FrameInv, RefsInv
  <2>3. started' => RefsHeld(F, C)
    BY DEF FrameInv, RefsInv, RefsHeld
  <2> QED
    BY <1>1, <2>1, <2>2, <2>3 DEF RefsInv
<1>5. DecodeInv'
  <2>1. /\ TimeOrder(queue) /\ Context(queue, F \cup Coming)
        /\ Decodable(S, decoders, sent.key, Skipped)
        /\ sentKey => Ready(F \cup Coming, IDs(F), S, wait, decoders, sent.key, Skipped)
        /\ ~sentKey => queue = <<>>
    BY DEF FrameInv, DecodeInv, QueueSound
  <2> HIDE DEF F, S
  <2>2. F \cup C \subseteq F \cup Coming
    OBVIOUS
  <2> HIDE DEF C
  <2>3. Context(queue, F \cup C)
    BY <2>1, <2>2 DEF Context
  <2>4. sentKey => Ready(F \cup C, IDs(F), S, wait', decoders, sent.key, Skipped)
    BY <2>1, <2>2 DEF Ready
  <2>5. QueueSound(queue, sentKey, F, C, wait', decoders, sent.key, Skipped)
    BY <2>1, <2>3, <2>4 DEF QueueSound, S
  <2>6. QueueSound(queue', sentKey', F, C, wait', decoders', sent'.key, Skipped)
    BY <2>5
  <2> QED
    BY <1>1, <2>6 DEF DecodeInv, C
<1> QED
  BY <1>2, <1>3, <1>4, <1>5 DEF FrameInv

LEMMA ThreadsFrames ==
  ASSUME IInv, FrameInv,
         \/ Connected \/ ConnectionFails \/ WakeSender \/ FoundEmpty \/ CheckExit
         \/ Destroy \/ JoinConnection \/ EndSending \/ JoinSender \/ UNCHANGED vars
  PROVE  FrameInv'
<1>1. UNCHANGED <<fast, held, started, first, firstID, queue, sentKey, stream, given,
                  anchor, base, sent, decoders>>
  BY DEF Connected, ConnectionFails, WakeSender, FoundEmpty, CheckExit, Destroy, JoinConnection,
         EndSending, JoinSender, OnlySender, vars, heldVars, startVars, queueVars, inputVars, historyVars
<1>2. wait' = wait \/ connection = "running"
  BY DEF Connected, ConnectionFails, WakeSender, FoundEmpty, CheckExit, Destroy, JoinConnection,
         EndSending, JoinSender, OnlySender, vars, queueVars
<1>3. connection' = connection \/ connection = "running"
  BY DEF Connected, ConnectionFails, WakeSender, FoundEmpty, CheckExit, Destroy, JoinConnection,
         EndSending, JoinSender, OnlySender, vars
<1>4. destroyer' = destroyer \/ destroyer' # "none"
  BY DEF Connected, ConnectionFails, WakeSender, FoundEmpty, CheckExit, Destroy, JoinConnection,
         EndSending, JoinSender, OnlySender, vars, threadVars
<1>5. Coming' \subseteq Coming
  <2>1. CASE destroyer' # "none"
    BY <2>1 DEF Coming
  <2>2. CASE destroyer' = "none"
    BY <1>1, <1>4, <2>2 DEF Coming, NextFrame
  <2> QED
    BY <2>1, <2>2
<1>6. started \/ sentKey => connection = "up"
  BY DEF FrameInv, StartInv
<1> QED
  BY <1>1, <1>2, <1>3, <1>4, <1>5, <1>6, SameFrames

LEMMA InitFrameInv == Init => FrameInv
<1> SUFFICES ASSUME Init PROVE FrameInv
  OBVIOUS
<1> DEFINE none == <<>>
<1>1. /\ fast \in BOOLEAN /\ sentKey = FALSE /\ started = FALSE /\ firstID = 0 /\ given = 0
      /\ sent.key = 0 /\ held = none /\ queue = none /\ destroyer = "none" /\ anchor = 0 /\ base = 0
  BY QueueAssumption DEF Init
<1>2. Range(none) = {} /\ Frames(none) = {}
  BY NoPackets DEF Frames, VideoOf
<1> HIDE DEF none
<1>3. StartInv
  <2>1. /\ fast \in BOOLEAN /\ sentKey \in BOOLEAN /\ started \in BOOLEAN
        /\ ~started /\ ~sentKey
    BY <1>1, Zenon
  <2>2. firstID \in 0 .. given /\ sent.key <= given
    BY <1>1
  <2>3. held = <<>>
    BY <1>1 DEF none
  <2> QED
    BY <2>1, <2>2, <2>3, Zenon DEF StartInv
<1>4. OrderInv
  BY <1>1, <1>2 DEF OrderInv, FrameOrder
<1>5. \A r \in Coming : Reads(r, {})
  <2>1. \A r \in Coming : r.ref = 0 /\ r.id = 1 /\ r.type # VideoHighest
    BY <1>1 DEF Coming, NextFrame, VideoHigh, VideoHighest, VideoDisposable
  <2> QED
    BY <2>1 DEF Reads
<1>6. RefsInv
  BY <1>1, <1>2, <1>5 DEF RefsInv
<1>7. DecodeInv
  <2>1. Context(queue, Frames(held) \cup Coming)
    BY <1>1, <1>2, <1>5 DEF Context, FrameOrder
  <2>2. TimeOrder(queue) /\ Decodable(Frames(queue), decoders, sent.key, Skipped)
    BY <1>1, <1>2 DEF TimeOrder, Decodable
  <2> QED
    BY <1>1, <2>1, <2>2 DEF DecodeInv, QueueSound, none
<1> QED
  BY <1>3, <1>4, <1>6, <1>7 DEF FrameInv

LEMMA NextFrames == IInv /\ FrameInv /\ [Next]_vars => FrameInv'
<1> SUFFICES ASSUME IInv, FrameInv, [Next]_vars PROVE FrameInv'
  OBVIOUS
<1>1. CASE SendPacket
  BY <1>1, SendPacketFrames
<1>2. CASE SendNext
  BY <1>2, SendNextFrames
<1>3. CASE FlushPacket
  BY <1>3, FlushPacketFrames
<1>4. CASE \/ Connected \/ ConnectionFails \/ WakeSender \/ FoundEmpty \/ CheckExit
           \/ Destroy \/ JoinConnection \/ EndSending \/ JoinSender \/ UNCHANGED vars
  BY <1>4, ThreadsFrames
<1> QED
  BY <1>1, <1>2, <1>3, <1>4 DEF Next, SenderStep, DestroyerStep

\* What is queued and held back can be decoded, from what was sent or will be before it.
THEOREM FramesStayDecodable == Spec => [](IInv /\ FrameInv)
<1>1. Init => IInv /\ FrameInv
  BY InitIInv, InitFrameInv
<1>2. IInv /\ FrameInv /\ [Next]_vars => (IInv /\ FrameInv)'
  BY NextIInv, NextFrames
<1> QED
  BY <1>1, <1>2, PTL DEF Spec

\* SendLoop, DropFrame and packetWaitType: whatever is dropped, in the queue or on arrival,
\* no frame is sent without the frame it is decoded from having been sent before it, unless
\* bFastInitialKeyframe let frames be skipped while connecting and no keyframe has come since.
THEOREM SentAreDecodable == Spec => SentDecodable
<1> DEFINE A == \A p \in Range(queue) :
                  Sends(p) /\ p.ref # 0 => p.ref \in decoders \/ (fast /\ sent.key < firstID)
<1>1. IInv /\ FrameInv /\ [Next]_vars => [A]_vars
  <2> SUFFICES ASSUME IInv, FrameInv, NEW p \in Range(queue), Sends(p), p.ref # 0
               PROVE  p.ref \in decoders \/ (fast /\ sent.key < firstID)
    OBVIOUS
  <2>1. queue # <<>> /\ p = Head(queue)
    BY DEF Sends
  <2>2. /\ queue \in Seq(AnyPacket) /\ Distinct(queue) /\ sent.key \in Nat /\ firstID \in Nat
    BY FramesInvariant DEF FrameInv, StartInv
  <2>3. IsVideo(p)
    BY DEF FrameInv, RefsInv
  <2>4. Context(queue, Frames(held) \cup Coming) /\ Decodable(Frames(queue), decoders, sent.key, Skipped)
    BY DEF FrameInv, DecodeInv, QueueSound
  <2>5. p \in Frames(queue) /\ \A f \in Frames(queue) : f # p => p.id < f.id
    BY <2>1, <2>2, <2>3, <2>4, HeadFrame DEF Context
  <2>6. Found(p, Frames(queue), decoders, sent.key, Skipped)
    BY <2>4, <2>5 DEF Decodable
  <2>7. p.ref \notin IDs(Frames(queue))
    <3>1. p.ref < p.id
      BY <2>4, <2>5 DEF Context, Reads
    <3>2. \A f \in Frames(queue) : f.id \in Nat /\ f.ref \in Nat
      BY <2>2, FramesType
    <3> QED
      BY <2>5, <3>1, <3>2 DEF IDs
  <2>8. CASE p.ref \in decoders
    BY <2>8
  <2>9. CASE Excused(Frames(queue), sent.key, Skipped, p.id)
    BY <2>2, <2>9 DEF Excused, Skipped
  <2> QED
    BY <2>6, <2>7, <2>8, <2>9 DEF Found, Has
<1>2. SentDecodable <=> [][A]_vars
  BY DEF SentDecodable
<1> QED
  BY <1>1, FramesStayDecodable, PTL DEF Spec, SentDecodable
-----------------------------------------------------------------------------
(***************************************************************************)
(* Times and counters.                                                     *)
(***************************************************************************)

AudioOrder(q) ==
  \A a, b \in Range(q) : Precedes(q, a, b) /\ ~IsVideo(a) /\ ~IsVideo(b) => a.time <= b.time

QueueCounts ==
  /\ minDrop \in Nat /\ dumped \in Nat /\ semaphore \in Nat /\ total \in [video : Nat, audio : Nat]
  /\ headers \in BOOLEAN /\ sentKey \in BOOLEAN /\ sentAudio \in BOOLEAN

FlagInv ==
  /\ fast \in BOOLEAN /\ stopping \in BOOLEAN /\ heldFull \in BOOLEAN /\ started \in BOOLEAN
  /\ loopExit \in BOOLEAN
  /\ sent \in [video : Nat, audio : Nat, key : Nat]

\* The packets that are remembered have been given.
GivenInv ==
  /\ firstID \in 0 .. given /\ anchor \in 0 .. given /\ base \in 0 .. given
  /\ decoders \subseteq 1 .. given /\ missed \subseteq 1 .. given

\* What is given is not earlier than the first packet; audio that is given after the buffer
\* has filled is not earlier than the first audio packet in it, either.
TimeInv ==
  /\ \A p \in Range(queue) \cup Range(held) : p.time >= 0 /\ p.ref <= given
  /\ Len(held) <= HELD /\ first >= 0 /\ audioOffset >= 0
  /\ heldFull => started
  /\ ~heldFull => audioOffset = 0 /\ AudioOrder(held)
  /\ started => \A n \in Future :
       /\ first + audioOffset <= stream[n].time
       /\ ~heldFull => \A p \in Range(held) : p.time <= stream[n].time - first

TypeInv == QueueCounts /\ FlagInv /\ GivenInv /\ TimeInv

LEMMA StreamsInOrder ==
  ASSUME AudioInOrder, IInv
  PROVE  \A m, n \in 1 .. Len(stream) : m < n => stream[m].time <= stream[n].time
<1>1. stream \in Streams /\ stream \in Seq([type : 0 .. 4, time : Nat])
  BY QueueAssumption DEF IInv, KindInv
<1>2. DOMAIN stream = 1 .. Len(stream)
  BY <1>1, LenProperties
<1>3. \A m, n \in 1 .. Len(stream) :
        m < n /\ stream[n].type = Audio => stream[m].time <= stream[n].time
  BY <1>1, <1>2 DEF AudioInOrder
<1>4. \A m, n \in 1 .. Len(stream) :
        m < n /\ stream[n].type # Audio => stream[m].time <= stream[n].time
  BY StreamTimes
<1> QED
  BY <1>3, <1>4

\* SendPacketForReal: nothing but what is dropped leaves the queue, so that the counters
\* only grow.
LEMMA RealTypes ==
  ASSUME QueueTypes, Distinct(queue), QueueCounts, NEW h \in AnyPacket, h.time >= 0,
         \A a \in Range(queue) : a.time >= 0, SendPacketForReal(h)
  PROVE  /\ QueueCounts' /\ missed' \subseteq missed \cup {h.id}
         /\ \A a \in Range(queue') : a \in Range(queue) \/ (a.time >= 0 /\ a.ref = h.ref)
<1>1. CASE connection # "up"
  <2>1. UNCHANGED <<queueVars, semaphore, missed>>
    BY <1>1 DEF SendPacketForReal
  <2>2. UNCHANGED <<queue, minDrop, headers, sentKey, sentAudio, total, dumped, semaphore, missed>>
    BY <2>1 DEF queueVars
  <2>3. QueueCounts'
    BY <2>2 DEF QueueCounts
  <2> QED
    BY <2>2, <2>3
<1>2. CASE connection = "up"
  <2> DEFINE send == sentKey \/ h.type = VideoHighest
  <2>1. PICK late \in BOOLEAN :
          LET after == Processed(late)
              removed == Len(queue) - Len(after.queue)
              accept == send /\ Accepted(h, after.wait)
          IN  /\ headers' = (headers \/ ~stopping)
              /\ minDrop' = IF DropsAll THEN Last(queue).time ELSE minDrop
              /\ semaphore' = IF after.queue # <<>> THEN semaphore + 1 ELSE semaphore
              /\ sentAudio' = (sentAudio \/ (send /\ h.type = Audio))
              /\ sentKey' = (sentKey \/ accept)
              /\ total' = IF ~send THEN total
                          ELSE IF IsVideo(h) THEN [total EXCEPT !.video = @ + 1]
                          ELSE [total EXCEPT !.audio = @ + 1]
              /\ dumped' = dumped + removed + (IF send /\ ~accept THEN 1 ELSE 0)
              /\ queue' = IF accept THEN InsertByTime(after.queue, Stamped(h)) ELSE after.queue
              /\ missed' = IF accept /\ sender = "checking" THEN missed \cup {h.id} ELSE missed
    BY <1>2 DEF SendPacketForReal
  <2> DEFINE d == Processed(late)
             accept == send /\ Accepted(h, d.wait)
  <2>2. queue \in Seq(AnyPacket) /\ wait \in VideoDisposable .. VideoHighest
    BY DEF QueueTypes
  <2>3. d \in Leftovers(queue)
    BY <2>2, ProcessedProperties
  <2> HIDE DEF d, send
  <2>4. /\ d.queue \in Seq(AnyPacket) /\ Distinct(d.queue) /\ Range(d.queue) \subseteq Range(queue)
    BY <2>2, <2>3, DroppedAreVideo
  <2>5. Len(queue) - Len(d.queue) \in Nat
    <3>1. /\ IsFiniteSet(Range(queue)) /\ Cardinality(Range(queue)) = Len(queue)
          /\ Cardinality(Range(d.queue)) = Len(d.queue)
      BY <2>2, <2>4, DistinctProperties
    <3>2. Cardinality(Range(d.queue)) <= Cardinality(Range(queue))
      BY <2>4, <3>1, FS_Subset
    <3>3. Len(queue) \in Nat /\ Len(d.queue) \in Nat
      BY <2>2, <2>4, Ends
    <3> QED
      BY <3>1, <3>2, <3>3
  <2>6. dumped' \in Nat
    <3>1. dumped' = dumped + (Len(queue) - Len(d.queue)) + (IF send /\ ~accept THEN 1 ELSE 0)
      BY <2>1 DEF d, send
    <3> HIDE DEF accept
    <3>2. dumped \in Nat
      BY DEF QueueCounts
    <3>3. \A k \in Nat : dumped + k \in Nat /\ dumped + k + 1 \in Nat /\ dumped + k + 0 \in Nat
      BY <3>2
    <3> QED
      BY <2>5, <3>1, <3>3
  <2>7. minDrop' \in Nat
    <3>1. CASE DropsAll
      <4>1. queue # <<>>
        BY <3>1 DEF DropsAll, MayDrop
      <4>2. Last(queue) \in Range(queue)
        <5>1. Len(queue) \in 1 .. Len(queue) /\ Len(queue) \in Nat
          BY <2>2, <4>1, Ends
        <5> QED
          BY <2>2, <5>1, Ends DEF Last
      <4>3. Last(queue).time \in Int /\ Last(queue).time >= 0
        BY <2>2, <4>2, Ends DEF AnyPacket
      <4> QED
        BY <2>1, <3>1, <4>3
    <3>2. CASE ~DropsAll
      BY <2>1, <3>2 DEF QueueCounts
    <3> QED
      BY <3>1, <3>2
  <2>8. semaphore' \in Nat
    <3>1. semaphore' \in {semaphore, semaphore + 1} /\ semaphore \in Nat
      BY <2>1 DEF QueueCounts
    <3> QED
      BY <3>1
  <2>9. total' \in [video : Nat, audio : Nat]
    <3>1. \/ total' = total \/ total' = [total EXCEPT !.video = @ + 1]
          \/ total' = [total EXCEPT !.audio = @ + 1]
      BY <2>1
    <3>2. total \in [video : Nat, audio : Nat]
      BY DEF QueueCounts
    <3> QED
      BY <3>1, <3>2
  <2>10. headers' \in BOOLEAN /\ sentAudio' \in BOOLEAN /\ sentKey' \in BOOLEAN
    <3>1. /\ headers' = (headers \/ ~stopping)
          /\ sentAudio' = (sentAudio \/ (send /\ h.type = Audio))
          /\ sentKey' = (sentKey \/ accept)
      BY <2>1 DEF d, send
    <3> HIDE DEF accept
    <3> QED
      BY <3>1, Zenon
  <2>11. QueueCounts'
    BY <2>6, <2>7, <2>8, <2>9, <2>10 DEF QueueCounts
  <2>12. missed' \subseteq missed \cup {h.id}
    BY <2>1
  <2>13. \A a \in Range(queue') : a \in Range(queue) \/ (a.time >= 0 /\ a.ref = h.ref)
    <3>1. queue' = InsertByTime(d.queue, Stamped(h)) \/ queue' = d.queue
      BY <2>1 DEF d
    <3>2. Stamped(h) \in AnyPacket /\ Stamped(h).ref = h.ref
      BY StampedProperties
    <3>3. Stamped(h).time >= 0
      <4> DEFINE z == [h EXCEPT !.time = 0]
      <4>1. z.time = 0
        BY OtherTime
      <4>2. Stamped(h) = z \/ Stamped(h) = h
        BY DEF Stamped
      <4> HIDE DEF z
      <4> QED
        BY <4>1, <4>2
    <3>4. Range(InsertByTime(d.queue, Stamped(h))) = Range(d.queue) \cup {Stamped(h)}
      BY <2>4, <3>2, Inserted DEF PutInto
    <3> QED
      BY <2>4, <3>1, <3>2, <3>3, <3>4
  <2> QED
    BY <2>11, <2>12, <2>13
<1> QED
  BY <1>1, <1>2

\* The time of a packet that is held back.
Place(p, offset) == IF IsVideo(p) THEN p.time ELSE p.time - offset

\* A packet that is held back, and the order of the audio.
LEMMA HeldTimes ==
  ASSUME NEW q \in Seq(AnyPacket), NEW p \in AnyPacket, NEW offset \in Int
  PROVE  /\ Held(q, p, offset) \in Seq(AnyPacket) /\ Len(Held(q, p, offset)) = Len(q) + 1
         /\ \A a \in Range(Held(q, p, offset)) :
              a \in Range(q) \/ (a.ref = p.ref /\ a.time = Place(p, offset))
         /\ AudioOrder(q) /\ (\A a \in Range(q) : a.time <= Place(p, offset))
              => AudioOrder(Held(q, p, offset))
<1> DEFINE e == [p EXCEPT !.time = @ - offset]
           r == Held(q, p, offset)
           t == Place(p, offset)
<1>0. t = IF IsVideo(p) THEN p.time ELSE p.time - offset
  BY DEF Place
<1> HIDE DEF t
<1>1. e \in AnyPacket /\ e.ref = p.ref /\ e.time = p.time - offset /\ e.type = p.type
  <2>1. p.time - offset \in Int
    BY DEF AnyPacket
  <2>2. e = [p EXCEPT !.time = p.time - offset]
    OBVIOUS
  <2> QED
    BY <2>1, <2>2, OtherTime
<1>2. CASE IsVideo(p)
  <2>1. r = Append(q, p)
    BY <1>2 DEF Held
  <2>2. r \in Seq(AnyPacket) /\ Len(r) = Len(q) + 1 /\ Range(r) = Range(q) \cup {p}
    BY <2>1, Appended DEF PutInto
  <2>3. \A a, b : Precedes(r, a, b) => Precedes(q, a, b) \/ b = p
    BY <2>1, AppendOrder
  <2>4. \A a, b : Precedes(q, a, b) => a \in Range(q) /\ b \in Range(q)
    BY Ends DEF Precedes
  <2> HIDE DEF r
  <2>5. AudioOrder(q) => AudioOrder(r)
    BY <1>2, <2>3, <2>4 DEF AudioOrder
  <2>6. \A a \in Range(r) : a \in Range(q) \/ (a.ref = p.ref /\ a.time = t)
    BY <1>0, <1>2, <2>2 DEF r
  <2> QED
    BY <2>2, <2>5, <2>6 DEF r, t
<1>3. CASE ~IsVideo(p)
  <2>1. r = InsertByTime(q, e)
    BY <1>3 DEF Held
  <2> HIDE DEF e
  <2>2. r \in Seq(AnyPacket) /\ Len(r) = Len(q) + 1 /\ Range(r) = Range(q) \cup {e}
    BY <1>1, <2>1, Inserted DEF PutInto
  <2>3. ASSUME AudioOrder(q), \A a \in Range(q) : a.time <= t PROVE AudioOrder(r)
    <3>1. t = e.time /\ e.time \in Int
      BY <1>0, <1>1, <1>3 DEF AnyPacket
    <3>2. \A a \in Range(q) : a.time \in Int /\ ~(a.time > e.time)
      <4>1. \A a \in Range(q) : a \in AnyPacket
        BY Ends
      <4>2. \A a \in Range(q) : a.time \in Int
        BY <4>1 DEF AnyPacket
      <4>3. \A a \in Range(q) : a.time <= e.time
        BY <2>3, <3>1
      <4> HIDE DEF e
      <4> QED
        BY <3>1, <4>2, <4>3
    <3>3. \A a, b : Precedes(r, a, b) => Precedes(q, a, b) \/ (b = e /\ a \in Range(q))
      BY <1>1, <2>1, <3>2, InsertedOrder
    <3>4. \A a, b : Precedes(q, a, b) => a \in Range(q) /\ b \in Range(q)
      BY Ends DEF Precedes
    <3> HIDE DEF r
    <3> QED
      BY <2>3, <3>1, <3>3, <3>4 DEF AudioOrder
  <2> HIDE DEF r
  <2>4. \A a \in Range(r) : a \in Range(q) \/ (a.ref = p.ref /\ a.time = t)
    BY <1>0, <1>1, <1>3, <2>2
  <2> QED
    BY <2>2, <2>3, <2>4 DEF r, t
<1> QED
  BY <1>2, <1>3

\* The first audio packet that is held back is the earliest.
LEMMA FirstAudioTimeLeast ==
  ASSUME NEW q \in Seq(AnyPacket), AudioOrder(q)
  PROVE  /\ FirstAudioTime(q) = 0 \/ \E a \in Range(q) : FirstAudioTime(q) = a.time
         /\ \A a \in Range(q) : ~IsVideo(a) => FirstAudioTime(q) <= a.time
<1> DEFINE I == {i \in 1 .. Len(q) : q[i].type = Audio}
           at == SelectInSeq(q, LAMBDA p : p.type = Audio)
<1>1. /\ Len(q) \in Nat /\ \A n \in 1 .. Len(q) : q[n] \in AnyPacket /\ q[n] \in Range(q)
      /\ \A a \in Range(q) : \E n \in 1 .. Len(q) : a = q[n]
  BY Ends
<1>2. at = IF I # {} THEN Min(I) ELSE 0
  BY DEF SelectInSeq
<1>3. I # {} => at \in I /\ \A i \in I : at <= i
  <2>1. I \in SUBSET (1 .. Len(q)) /\ I \in SUBSET Nat
    BY <1>1
  <2> HIDE DEF at, I
  <2>2. I # {} => Min(I) \in I
    BY <1>1, <2>1, FirstAndLast
  <2>3. I # {} => \E m \in I : \A n \in I : m <= n
    BY <2>1, SmallestExists
  <2>4. I # {} => \A i \in I : Min(I) <= i
    BY <2>3 DEF Min
  <2> QED
    BY <1>2, <2>2, <2>4
<1>4. FirstAudioTime(q) = IF at = 0 THEN 0 ELSE q[at].time
  BY DEF FirstAudioTime, at
<1>5. CASE I = {}
  <2>1. at = 0
    BY <1>2, <1>5
  <2> HIDE DEF at
  <2>2. FirstAudioTime(q) = 0
    BY <1>4, <2>1
  <2>3. \A a \in Range(q) : IsVideo(a)
    BY <1>1, <1>5 DEF IsVideo
  <2> QED
    BY <2>2, <2>3
<1>6. CASE I # {}
  <2> HIDE DEF at
  <2>1. at \in I /\ (\A i \in I : at <= i) /\ at \in 1 .. Len(q) /\ at # 0
    <3>1. at \in I /\ \A i \in I : at <= i
      BY <1>3, <1>6
    <3>2. at \in 1 .. Len(q)
      BY <3>1
    <3>3. at # 0
      BY <1>1, <3>2
    <3> QED
      BY <3>1, <3>2, <3>3
  <2>2. FirstAudioTime(q) = q[at].time /\ q[at] \in Range(q) /\ q[at].type = Audio
    BY <1>1, <1>4, <2>1
  <2>3. ASSUME NEW a \in Range(q), ~IsVideo(a) PROVE q[at].time <= a.time
    <3>1. PICK i \in 1 .. Len(q) : a = q[i]
      BY <1>1
    <3>2. i \in I
      BY <2>3, <3>1 DEF IsVideo
    <3>3. i = at \/ at < i
      BY <1>1, <2>1, <3>2
    <3>4. q[at].time \in Int
      BY <1>1, <2>1 DEF AnyPacket
    <3>5. CASE i = at
      BY <3>1, <3>4, <3>5
    <3>6. CASE at < i
      <4>1. Precedes(q, q[at], a)
        BY <2>1, <3>1, <3>6 DEF Precedes
      <4>2. ~IsVideo(q[at])
        BY <2>2 DEF IsVideo
      <4> QED
        BY <2>2, <2>3, <4>1, <4>2 DEF AudioOrder
    <3> QED
      BY <3>3, <3>5, <3>6
  <2> QED
    BY <2>2, <2>3
<1> QED
  BY <1>5, <1>6

\* InitializeBuffer: no time underflows.
LEMMA InitializeBufferTimes ==
  ASSUME NEW q \in Seq(AnyPacket), AudioOrder(q), NEW m \in Nat,
         \A a \in Range(q) : a.time >= 0 /\ a.ref <= m
  PROVE  \A a \in Range(InitializeBuffer(q)) : a.time >= 0 /\ a.ref <= m
<1> DEFINE offset == FirstAudioTime(q)
           Good(r) == \A a \in Range(r) : a.time >= 0 /\ a.ref <= m
           G == {x \in Nat \X Seq(AnyPacket) : Good(x[2])}
<1>1. /\ Len(q) \in Nat /\ offset \in Int
      /\ \A n \in 1 .. Len(q) : q[n] \in AnyPacket /\ q[n] \in Range(q)
      /\ \A a \in Range(q) : ~IsVideo(a) => offset <= a.time
  BY Ends, FirstAudioTimeIsTime, FirstAudioTimeLeast
<1> HIDE DEF offset
<1>2. ASSUME NEW n \in 1 .. Len(q), NEW r \in Seq(AnyPacket), Good(r)
      PROVE  Good(Held(r, q[n], offset)) /\ Held(r, q[n], offset) \in Seq(AnyPacket)
  <2> DEFINE p == q[n]
             t == Place(p, offset)
             h == Held(r, p, offset)
  <2>1. p \in AnyPacket /\ p \in Range(q) /\ p.time \in Int
    BY <1>1 DEF AnyPacket
  <2> HIDE DEF p
  <2>2. t >= 0 /\ p.ref <= m
    <3>1. CASE IsVideo(p)
      BY <2>1, <3>1 DEF Place
    <3>2. CASE ~IsVideo(p)
      <4>1. offset <= p.time
        BY <1>1, <2>1, <3>2
      <4> QED
        BY <1>1, <2>1, <3>2, <4>1 DEF Place
    <3> QED
      BY <3>1, <3>2
  <2> HIDE DEF t
  <2>3. h \in Seq(AnyPacket) /\ \A a \in Range(h) : a \in Range(r) \/ (a.ref = p.ref /\ a.time = t)
    BY <1>1, <2>1, HeldTimes DEF t
  <2> HIDE DEF h
  <2>4. Good(h)
    BY <1>2, <2>2, <2>3
  <2> QED
    BY <2>3, <2>4 DEF h, p
<1>3. Good(<<>>)
  <2> DEFINE start == <<>>
  <2>1. Range(start) = {}
    BY NoPackets
  <2> HIDE DEF start
  <2>2. Good(start)
    BY <2>1
  <2> QED
    BY <2>2 DEF start
<1> HIDE DEF Good
<1>4. <<0, <<>>>> \in G
  <2> DEFINE start == <<>>
  <2>1. start \in Seq(AnyPacket) /\ Good(start)
    BY <1>3, NoPackets
  <2> HIDE DEF start
  <2>2. <<0, start>> \in G
    BY <2>1
  <2> QED
    BY <2>2 DEF start
<1>5. ASSUME NEW n \in 1 .. Len(q), NEW r \in Seq(AnyPacket), <<n - 1, r>> \in G
      PROVE  <<n, Held(r, q[n], offset)>> \in G
  <2>1. Good(r)
    BY <1>5
  <2> DEFINE t == Held(r, q[n], offset)
  <2>2. Good(t) /\ t \in Seq(AnyPacket) /\ n \in Nat
    BY <1>1, <1>2, <2>1
  <2> HIDE DEF t
  <2>3. <<n, t>> \in G
    BY <2>2
  <2> QED
    BY <2>3 DEF t
<1> HIDE DEF G
<1>6. <<Len(q), InitializeBuffer(q)>> \in G
  BY <1>4, <1>5, InitializeBufferBuilds DEF offset
<1>7. Good(InitializeBuffer(q))
  BY <1>6 DEF G
<1> QED
  BY <1>7 DEF Good

\* What a packet that is given is to those before it and after it.
LEMMA GivenTimes ==
  ASSUME AudioInOrder, IInv, TypeInv, NEW p \in AnyPacket, Given(p)
  PROVE  /\ given' = given + 1 /\ stream' = stream /\ given \in Nat /\ p.id = given + 1
         /\ given + 1 \in Future /\ Future' \subseteq Future /\ (\A n \in Future : stream[n].time \in Int)
         /\ p.time = stream[given + 1].time /\ p.time >= 0 /\ p.time \in Int /\ p.ref <= given
         /\ \A n \in Future' : p.time <= stream[n].time
<1>1. /\ given' = given + 1 /\ stream' = stream /\ given < Len(stream) /\ p.id = given + 1
      /\ p.time = stream[given + 1].time /\ p.ref = Reference(p.type)
  BY DEF Given, Arrives
<1>2. /\ Len(stream) \in Nat /\ given \in Nat
      /\ \A n \in 1 .. Len(stream) : stream[n].time \in Int /\ stream[n].time >= 0
      /\ \A m, n \in 1 .. Len(stream) : m < n => stream[m].time <= stream[n].time
  BY StreamTimes, StreamsInOrder, QueueInvariant
<1>3. /\ given + 1 \in 1 .. Len(stream) /\ Future = given + 1 .. Len(stream)
      /\ Future' = given + 1 + 1 .. Len(stream)
  BY <1>1, <1>2 DEF Future
<1>4. /\ given + 1 \in Future /\ Future' \subseteq Future
      /\ \A n \in Future : n \in 1 .. Len(stream)
      /\ \A n \in Future' : given + 1 < n
  BY <1>2, <1>3
<1>5. \A n \in Future' : p.time <= stream[n].time
  BY <1>1, <1>2, <1>3, <1>4
<1>6. p.ref <= given
  <2>1. anchor <= given /\ base <= given /\ 0 <= given
    BY <1>2 DEF TypeInv, GivenInv
  <2>2. p.type \in 0 .. 4
    BY DEF AnyPacket, VideoDisposable, Audio
  <2> QED
    BY <1>1, <2>1, <2>2 DEF Reference, VideoDisposable, VideoLow, VideoHigh, VideoHighest, Audio
<1>7. p.time >= 0 /\ p.time \in Int
  BY <1>1, <1>2, <1>3
<1> QED
  BY <1>1, <1>2, <1>4, <1>5, <1>6, <1>7

\* What each case of SendPacket keeps.
Takes ==
  /\ QueueCounts' /\ TimeInv' /\ missed' \subseteq 1 .. given'
  /\ heldFull' \in BOOLEAN /\ started' \in BOOLEAN /\ firstID' \in 0 .. given'

LEMMA KeptTypes ==
  ASSUME AudioInOrder, IInv, TypeInv, NEW p \in AnyPacket, Given(p),
         UNCHANGED <<queueVars, startVars, semaphore, missed>>,
         \/ held' = held
         \/ ~started /\ held' = <<p>>
  PROVE  Takes
<1>1. UNCHANGED <<queue, minDrop, headers, sentKey, sentAudio, total, dumped, semaphore, missed,
                  heldFull, started, first, firstID, audioOffset>>
  BY DEF queueVars, startVars
<1>2. /\ given' = given + 1 /\ stream' = stream /\ given \in Nat
      /\ Future' \subseteq Future /\ p.time >= 0 /\ p.ref <= given
  BY GivenTimes
<1>3. QueueCounts'
  BY <1>1 DEF TypeInv, QueueCounts
<1>4. /\ missed' \subseteq 1 .. given' /\ firstID' \in 0 .. given'
      /\ heldFull' \in BOOLEAN /\ started' \in BOOLEAN
  <2>1. missed' \subseteq 1 .. given' /\ firstID' \in 0 .. given'
    BY <1>1, <1>2 DEF TypeInv, GivenInv
  <2> QED
    BY <1>1, <2>1 DEF TypeInv, FlagInv
<1>5. /\ first' >= 0 /\ audioOffset' >= 0 /\ (heldFull' => started') /\ (~heldFull' => audioOffset' = 0)
      /\ \A a \in Range(queue) \cup Range(held) : a.time >= 0 /\ a.ref <= given'
  <2>1. \A a \in Range(queue) \cup Range(held) : a.ref \in Nat
    <3>1. queue \in Seq(AnyPacket) /\ held \in Seq(AnyPacket)
      BY FramesInvariant
    <3>2. \A a \in Range(queue) \cup Range(held) : a \in AnyPacket
      BY <3>1, Ends
    <3> QED
      BY <3>2 DEF AnyPacket
  <2>2. \A a \in Range(queue) \cup Range(held) : a.time >= 0 /\ a.ref <= given
    BY DEF TypeInv, TimeInv
  <2>3. \A a \in Range(queue) \cup Range(held) : a.ref <= given + 1
    BY <1>2, <2>1, <2>2
  <2> QED
    BY <1>1, <1>2, <2>2, <2>3 DEF TypeInv, TimeInv
<1>6. TimeInv'
  <2>1. CASE held' = held
    <3>1. /\ Len(held') <= HELD /\ (~heldFull' => AudioOrder(held'))
          /\ started' => \A n \in Future' :
               /\ first' + audioOffset' <= stream'[n].time
               /\ ~heldFull' => \A a \in Range(held') : a.time <= stream'[n].time - first'
      BY <1>1, <1>2, <2>1 DEF TypeInv, TimeInv
    <3>2. \A a \in Range(queue') \cup Range(held') : a.time >= 0 /\ a.ref <= given'
      BY <1>1, <1>5, <2>1
    <3> QED
      BY <1>5, <3>1, <3>2 DEF TimeInv
  <2>2. CASE ~started /\ held' = <<p>>
    <3>1. Range(held') = {p} /\ TimeOrder(held')
      BY <2>2, OneFrame
    <3>2. AudioOrder(held')
      BY <3>1 DEF TimeOrder, AudioOrder
    <3>3. Len(held') <= HELD
      BY <2>2, QueueAssumption
    <3>4. p.ref <= given'
      BY <1>2 DEF AnyPacket
    <3>5. \A a \in Range(queue') \cup Range(held') : a.time >= 0 /\ a.ref <= given'
      BY <1>1, <1>2, <1>5, <3>1, <3>4
    <3> QED
      BY <1>1, <1>5, <2>2, <3>2, <3>3, <3>5 DEF TimeInv
  <2> QED
    BY <2>1, <2>2
<1> QED
  BY <1>3, <1>4, <1>6 DEF Takes

LEMMA FirstPacketTypes ==
  ASSUME AudioInOrder, IInv, TypeInv, NEW p \in AnyPacket, Given(p), FirstPacket(p)
  PROVE  Takes
<1> DEFINE z == [p EXCEPT !.time = 0]
           k == Head(held)
           c == [k EXCEPT !.time = 0]
<1>1. /\ ~started /\ started' = TRUE /\ first' = p.time /\ firstID' = p.id /\ held' = <<z>>
      /\ heldFull' = heldFull /\ audioOffset' = audioOffset
      /\ \/ held # <<>> /\ SendPacketForReal(c)
         \/ UNCHANGED <<queueVars, semaphore, missed>>
  BY DEF FirstPacket
<1>2. /\ given' = given + 1 /\ stream' = stream /\ given \in Nat /\ p.id = given + 1
      /\ Future' \subseteq Future /\ p.time >= 0 /\ p.time \in Int /\ p.ref <= given
      /\ (\A n \in Future : stream[n].time \in Int)
      /\ \A n \in Future' : p.time <= stream[n].time
  BY GivenTimes
<1>3. z \in AnyPacket /\ z.time = 0 /\ z.ref = p.ref
  BY OtherTime
<1> HIDE DEF z
<1>4. /\ queue \in Seq(AnyPacket) /\ held \in Seq(AnyPacket)
      /\ \A a \in Range(queue) \cup Range(held) : a \in AnyPacket /\ a.ref \in Nat
      /\ \A a \in Range(queue) \cup Range(held) : a.time >= 0 /\ a.ref <= given
  <2>1. queue \in Seq(AnyPacket) /\ held \in Seq(AnyPacket)
    BY FramesInvariant
  <2>2. \A a \in Range(queue) \cup Range(held) : a \in AnyPacket
    BY <2>1, Ends
  <2>3. \A a \in Range(queue) \cup Range(held) : a.ref \in Nat
    BY <2>2 DEF AnyPacket
  <2> QED
    BY <2>1, <2>2, <2>3 DEF TypeInv, TimeInv
<1>5. /\ QueueCounts' /\ missed' \subseteq missed \cup 1 .. given
      /\ \A a \in Range(queue') : a.time >= 0 /\ a.ref \in Nat /\ a.ref <= given
  <2>1. CASE held # <<>> /\ SendPacketForReal(c)
    <3>1. k \in Range(held) /\ k \in AnyPacket
      BY <1>4, <2>1, Ends
    <3>2. c \in AnyPacket /\ c.time = 0 /\ c.ref = k.ref /\ c.id = k.id
      BY <3>1, OtherTime
    <3> HIDE DEF c, k
    <3>3. k.ref <= given /\ k.ref \in Nat /\ k.id \in 1 .. given
      <4>1. k.id \in IDs(Range(held))
        BY <3>1 DEF IDs
      <4> QED
        BY <1>4, <3>1, <4>1, QueueInvariant
    <3>4. QueueTypes /\ Distinct(queue) /\ QueueCounts
      BY QueueInvariant DEF TypeInv
    <3>5. /\ QueueCounts' /\ missed' \subseteq missed \cup {c.id}
          /\ \A a \in Range(queue') : a \in Range(queue) \/ (a.time >= 0 /\ a.ref = c.ref)
      BY <1>4, <2>1, <3>2, <3>4, RealTypes
    <3> QED
      BY <1>4, <3>2, <3>3, <3>5
  <2>2. CASE UNCHANGED <<queueVars, semaphore, missed>>
    <3>1. UNCHANGED <<queue, minDrop, headers, sentKey, sentAudio, total, dumped, semaphore, missed>>
      BY <2>2 DEF queueVars
    <3>2. QueueCounts'
      BY <3>1 DEF TypeInv, QueueCounts
    <3> QED
      BY <1>4, <3>1, <3>2
  <2> QED
    BY <1>1, <2>1, <2>2
<1>6. /\ missed' \subseteq 1 .. given' /\ firstID' \in 0 .. given'
      /\ heldFull' \in BOOLEAN /\ started' \in BOOLEAN
  <2>1. missed \subseteq 1 .. given
    BY DEF TypeInv, GivenInv
  <2>2. missed' \subseteq 1 .. given' /\ firstID' \in 0 .. given'
    BY <1>1, <1>2, <1>5, <2>1
  <2>3. heldFull \in BOOLEAN
    BY DEF TypeInv, FlagInv
  <2> QED
    BY <1>1, <2>2, <2>3
<1>7. ~heldFull' /\ audioOffset' = 0
  BY <1>1 DEF TypeInv, TimeInv
<1>8. Range(held') = {z} /\ AudioOrder(held') /\ Len(held') <= HELD
  <2>1. Range(held') = {z} /\ TimeOrder(held')
    BY <1>1, <1>3, OneFrame
  <2>2. AudioOrder(held')
    BY <2>1 DEF TimeOrder, AudioOrder
  <2>3. Len(held') <= HELD
    BY <1>1, QueueAssumption
  <2> QED
    BY <2>1, <2>2, <2>3
<1>9. TimeInv'
  <2>1. \A a \in Range(queue') \cup Range(held') : a.time >= 0 /\ a.ref <= given'
    <3>1. z.ref \in Nat
      BY <1>3 DEF AnyPacket
    <3>2. \A a \in Range(queue') \cup Range(held') : a.time >= 0 /\ a.ref \in Nat /\ a.ref <= given
      BY <1>2, <1>3, <1>5, <1>8, <3>1
    <3> QED
      BY <1>2, <3>2
  <2>2. \A n \in Future' :
          /\ first' + audioOffset' <= stream'[n].time
          /\ \A a \in Range(held') : a.time <= stream'[n].time - first'
    BY <1>1, <1>2, <1>3, <1>7, <1>8
  <2> QED
    BY <1>1, <1>2, <1>7, <1>8, <2>1, <2>2 DEF TimeInv
<1> QED
  BY <1>5, <1>6, <1>9 DEF Takes

LEMMA HoldTimes ==
  ASSUME AudioInOrder, IInv, TypeInv, NEW p \in AnyPacket, Given(p), started,
         NEW z, z = [p EXCEPT !.time = @ - first],
         NEW offset \in Int, offset >= 0, \A n \in Future : first + offset <= stream[n].time,
         NEW q \in Seq(AnyPacket), \A a \in Range(q) : a.time >= 0 /\ a.ref <= given
  PROVE  /\ Held(q, z, offset) \in Seq(AnyPacket) /\ Len(Held(q, z, offset)) = Len(q) + 1
         /\ \A a \in Range(Held(q, z, offset)) : a.time >= 0 /\ a.ref <= given'
         /\ offset = 0 /\ AudioOrder(q)
              /\ (\A n \in Future, a \in Range(q) : a.time <= stream[n].time - first) =>
              /\ AudioOrder(Held(q, z, offset))
              /\ \A n \in Future', a \in Range(Held(q, z, offset)) : a.time <= stream[n].time - first
<1> DEFINE r == Held(q, z, offset)
           t == Place(z, offset)
<1>1. /\ given' = given + 1 /\ given \in Nat
      /\ given + 1 \in Future /\ Future' \subseteq Future /\ (\A n \in Future : stream[n].time \in Int)
      /\ p.time = stream[given + 1].time /\ p.time \in Int /\ p.ref <= given
      /\ \A n \in Future' : p.time <= stream[n].time
  BY GivenTimes
<1>2. first \in Int /\ p.ref \in Nat
  BY QueueInvariant DEF AnyPacket
<1>3. z \in AnyPacket /\ z.time = p.time - first /\ z.ref = p.ref
  <2>1. p.time - first \in Int
    BY <1>1, <1>2
  <2>2. z = [p EXCEPT !.time = p.time - first]
    OBVIOUS
  <2> QED
    BY <2>1, <2>2, OtherTime
<1>4. t >= 0
  <2>1. first + offset <= p.time
    BY <1>1
  <2>2. t = z.time \/ t = z.time - offset
    BY DEF Place
  <2> HIDE DEF t
  <2> QED
    BY <1>1, <1>2, <1>3, <2>1, <2>2
<1>5. offset = 0 => t = z.time /\ z.time \in Int
  <2>1. t = z.time \/ t = z.time - offset
    BY DEF Place
  <2> HIDE DEF t
  <2> QED
    BY <1>1, <1>2, <1>3, <2>1
<1>6. /\ r \in Seq(AnyPacket) /\ Len(r) = Len(q) + 1
      /\ \A a \in Range(r) : a \in Range(q) \/ (a.ref = z.ref /\ a.time = t)
      /\ AudioOrder(q) /\ (\A a \in Range(q) : a.time <= t) => AudioOrder(r)
  <2>1. z \in AnyPacket
    BY <1>3
  <2> QED
    BY <2>1, HeldTimes
<1> HIDE DEF t
<1> HIDE DEF r
<1>7. \A a \in Range(r) : a.time >= 0 /\ a.ref <= given'
  <2>1. \A a \in Range(q) : a.ref \in Nat
    <3>1. \A a \in Range(q) : a \in AnyPacket
      BY Ends
    <3> QED
      BY <3>1 DEF AnyPacket
  <2>2. \A a \in Range(r) : a.ref \in Nat /\ a.ref <= given /\ a.time >= 0
    BY <1>1, <1>2, <1>3, <1>4, <1>6, <2>1
  <2> QED
    BY <1>1, <2>2
<1>8. ASSUME offset = 0, AudioOrder(q),
             \A n \in Future, a \in Range(q) : a.time <= stream[n].time - first
      PROVE  /\ AudioOrder(r)
             /\ \A n \in Future', a \in Range(r) : a.time <= stream[n].time - first
  <2>1. \A a \in Range(q) : a.time <= t
    BY <1>1, <1>3, <1>5, <1>8
  <2>2. \A n \in Future' : t <= stream[n].time - first
    <3>1. \A x, y, w \in Int : x <= y => x - w <= y - w
      OBVIOUS
    <3>2. t = p.time - first
      BY <1>3, <1>5, <1>8
    <3>3. \A n \in Future' : p.time <= stream[n].time /\ stream[n].time \in Int /\ p.time \in Int
      BY <1>1
    <3> QED
      BY <1>2, <3>1, <3>2, <3>3
  <2> QED
    BY <1>1, <1>6, <1>8, <2>1, <2>2
<1> QED
  BY <1>6, <1>7, <1>8 DEF r

LEMMA HoldPacketTypes ==
  ASSUME AudioInOrder, IInv, TypeInv, NEW p \in AnyPacket, Given(p), HoldPacket(p)
  PROVE  Takes
<1> DEFINE z == [p EXCEPT !.time = @ - first]
<1>1. /\ started /\ Len(held) < HELD /\ held' = Held(held, z, audioOffset)
      /\ UNCHANGED <<queue, minDrop, headers, sentKey, sentAudio, total, dumped, semaphore, missed,
                     heldFull, started, first, firstID, audioOffset>>
  BY DEF HoldPacket, queueVars, startVars
<1>2. /\ given' = given + 1 /\ stream' = stream /\ given \in Nat
      /\ Future' \subseteq Future
  BY GivenTimes
<1>3. /\ held \in Seq(AnyPacket) /\ Len(held) \in Nat /\ audioOffset \in Int /\ first \in Int
      /\ \A a \in Range(queue) : a.ref \in Nat
  <2>1. held \in Seq(AnyPacket) /\ queue \in Seq(AnyPacket) /\ audioOffset \in Int /\ first \in Int
    BY QueueInvariant, FramesInvariant
  <2>2. \A a \in Range(queue) : a \in AnyPacket
    BY <2>1, Ends
  <2> QED
    BY <2>1, <2>2, Ends DEF AnyPacket
<1>4. /\ \A a \in Range(queue) \cup Range(held) : a.time >= 0 /\ a.ref <= given
      /\ first >= 0 /\ audioOffset >= 0 /\ (heldFull => started)
      /\ ~heldFull => audioOffset = 0 /\ AudioOrder(held)
      /\ \A n \in Future : first + audioOffset <= stream[n].time
      /\ ~heldFull => \A n \in Future, a \in Range(held) : a.time <= stream[n].time - first
  BY <1>1 DEF TypeInv, TimeInv
<1> HIDE DEF z
<1>5. /\ Len(held') = Len(held) + 1
      /\ \A a \in Range(held') : a.time >= 0 /\ a.ref <= given'
      /\ ~heldFull => /\ AudioOrder(held')
                      /\ \A n \in Future', a \in Range(held') : a.time <= stream[n].time - first
  <2>1. z = [p EXCEPT !.time = @ - first]
    BY DEF z
  <2> DEFINE r == Held(held, z, audioOffset)
  <2>2. /\ Len(r) = Len(held) + 1
        /\ \A a \in Range(r) : a.time >= 0 /\ a.ref <= given'
        /\ audioOffset = 0 /\ AudioOrder(held)
             /\ (\A n \in Future, a \in Range(held) : a.time <= stream[n].time - first) =>
             /\ AudioOrder(r)
             /\ \A n \in Future', a \in Range(r) : a.time <= stream[n].time - first
    BY <1>1, <1>3, <1>4, <2>1, HoldTimes
  <2>3. held' = r
    BY <1>1
  <2> HIDE DEF r
  <2> QED
    BY <1>4, <2>2, <2>3
<1>6. TimeInv'
  <2>1. \A a \in Range(queue') \cup Range(held') : a.time >= 0 /\ a.ref <= given'
    BY <1>1, <1>2, <1>3, <1>4, <1>5
  <2>2. Len(held') <= HELD
    BY <1>1, <1>3, <1>5, QueueAssumption
  <2>3. \A n \in Future' :
          /\ first' + audioOffset' <= stream'[n].time
          /\ ~heldFull' => \A a \in Range(held') : a.time <= stream'[n].time - first'
    BY <1>1, <1>2, <1>4, <1>5
  <2>4. first' >= 0 /\ audioOffset' >= 0
    BY <1>1, <1>4
  <2>5. (heldFull' => started') /\ (~heldFull' => audioOffset' = 0 /\ AudioOrder(held'))
    <3>1. heldFull' = heldFull /\ started' /\ audioOffset' = audioOffset
      BY <1>1
    <3> QED
      BY <1>4, <1>5, <3>1
  <2> QED
    BY <2>1, <2>2, <2>3, <2>4, <2>5 DEF TimeInv
<1>7. QueueCounts'
  BY <1>1 DEF TypeInv, QueueCounts
<1>8. /\ missed' \subseteq 1 .. given' /\ firstID' \in 0 .. given'
      /\ heldFull' \in BOOLEAN /\ started' \in BOOLEAN
  <2>1. missed' \subseteq 1 .. given' /\ firstID' \in 0 .. given'
    BY <1>1, <1>2 DEF TypeInv, GivenInv
  <2> QED
    BY <1>1, <2>1 DEF TypeInv, FlagInv
<1> QED
  BY <1>6, <1>7, <1>8 DEF Takes

LEMMA PassOldestTypes ==
  ASSUME AudioInOrder, IInv, TypeInv, NEW p \in AnyPacket, Given(p), PassOldest(p)
  PROVE  Takes
<1> DEFINE z == [p EXCEPT !.time = @ - first]
           full == IF heldFull THEN held ELSE InitializeBuffer(held)
           offset == IF heldFull THEN audioOffset ELSE FirstAudioTime(held)
           h == Head(full)
           t == Tail(full)
<1>1. /\ started /\ Len(held) = HELD /\ held' = Held(t, z, offset)
      /\ heldFull' = TRUE /\ audioOffset' = offset
      /\ started' = started /\ first' = first /\ firstID' = firstID /\ SendPacketForReal(h)
  BY DEF PassOldest
<1>2. /\ given' = given + 1 /\ stream' = stream /\ given \in Nat
      /\ Future' \subseteq Future /\ (\A n \in Future : stream[n].time \in Int)
  BY GivenTimes
<1>3. /\ held \in Seq(AnyPacket) /\ Distinct(held) /\ queue \in Seq(AnyPacket)
      /\ audioOffset \in Int /\ first \in Int
      /\ \A a \in Range(queue) : a.ref \in Nat
  <2>1. /\ held \in Seq(AnyPacket) /\ Distinct(held) /\ queue \in Seq(AnyPacket)
        /\ audioOffset \in Int /\ first \in Int
    BY QueueInvariant, FramesInvariant
  <2>2. \A a \in Range(queue) : a \in AnyPacket
    BY <2>1, Ends
  <2> QED
    BY <2>1, <2>2 DEF AnyPacket
<1>4. /\ \A a \in Range(queue) \cup Range(held) : a.time >= 0 /\ a.ref <= given
      /\ first >= 0 /\ audioOffset >= 0
      /\ ~heldFull => AudioOrder(held)
      /\ \A n \in Future : first + audioOffset <= stream[n].time
      /\ ~heldFull => audioOffset = 0
      /\ ~heldFull => \A n \in Future, a \in Range(held) : a.time <= stream[n].time - first
  BY <1>1 DEF TypeInv, TimeInv
<1>5. /\ full \in Seq(AnyPacket) /\ Len(full) = Len(held) /\ IDs(Range(full)) = IDs(Range(held))
      /\ \A a \in Range(full) : a.time >= 0 /\ a.ref <= given
  <2>1. CASE heldFull
    BY <1>3, <1>4, <2>1
  <2>2. CASE ~heldFull
    <3>1. full = InitializeBuffer(held)
      BY <2>2
    <3>2. /\ full \in Seq(AnyPacket) /\ Len(full) = Len(held)
          /\ IDs(Range(full)) = IDs(Range(held))
      BY <1>3, <3>1, InitializeBufferProperties
    <3>3. \A a \in Range(full) : a.time >= 0 /\ a.ref <= given
      BY <1>2, <1>3, <1>4, <2>2, <3>1, InitializeBufferTimes
    <3> QED
      BY <3>2, <3>3
  <2> QED
    BY <2>1, <2>2
<1>6. /\ offset \in Int /\ offset >= 0 /\ \A n \in Future : first + offset <= stream[n].time
  <2>1. CASE heldFull
    BY <1>3, <1>4, <2>1
  <2>2. CASE ~heldFull
    <3>1. /\ offset \in Int /\ (offset = 0 \/ \E a \in Range(held) : offset = a.time)
      <4>1. offset = FirstAudioTime(held)
        BY <2>2
      <4> QED
        BY <1>3, <1>4, <2>2, <4>1, FirstAudioTimeIsTime, FirstAudioTimeLeast
    <3> HIDE DEF offset
    <3>2. CASE offset = 0
      BY <1>3, <1>4, <2>2, <3>2
    <3>3. ASSUME NEW a \in Range(held), offset = a.time
          PROVE  offset >= 0 /\ \A n \in Future : first + offset <= stream[n].time
      <4>1. \A n \in Future : offset <= stream[n].time - first
        BY <1>4, <2>2, <3>3
      <4>2. offset >= 0
        BY <1>4, <3>3
      <4> QED
        BY <1>2, <1>3, <3>1, <4>1, <4>2
    <3> QED
      BY <3>1, <3>2, <3>3
  <2> QED
    BY <2>1, <2>2
<1> HIDE DEF full, offset
<1>7. /\ h \in Range(full) /\ h \in AnyPacket /\ t \in Seq(AnyPacket)
      /\ Len(t) = Len(held) - 1 /\ Range(t) \subseteq Range(full)
  <2>1. Len(full) > 0
    BY <1>1, <1>5, QueueAssumption
  <2>2. full # <<>>
    BY <1>5, <2>1, Ends
  <2>3. /\ Head(full) \in Range(full) /\ Tail(full) \in Seq(AnyPacket) /\ Len(Tail(full)) = Len(full) - 1
        /\ Range(full) = Range(Tail(full)) \cup {Head(full)}
    BY <1>5, <2>2, Ends
  <2>4. Head(full) \in AnyPacket
    BY <1>5, <2>3, Ends
  <2> QED
    BY <1>5, <2>3, <2>4
<1> HIDE DEF h, t
<1>8. /\ QueueCounts' /\ missed' \subseteq missed \cup 1 .. given
      /\ \A a \in Range(queue') : a.time >= 0 /\ a.ref \in Nat /\ a.ref <= given
  <2>1. h.time >= 0 /\ h.ref <= given /\ h.ref \in Nat /\ h.id \in 1 .. given
    <3>1. h.id \in IDs(Range(held))
      BY <1>5, <1>7 DEF IDs
    <3>2. h.id \in 1 .. given
      BY <3>1, QueueInvariant
    <3> QED
      BY <1>5, <1>7, <3>2 DEF AnyPacket
  <2>2. QueueTypes /\ Distinct(queue) /\ QueueCounts
    BY QueueInvariant DEF TypeInv
  <2>3. /\ QueueCounts' /\ missed' \subseteq missed \cup {h.id}
        /\ \A a \in Range(queue') : a \in Range(queue) \/ (a.time >= 0 /\ a.ref = h.ref)
    BY <1>1, <1>4, <1>7, <2>1, <2>2, RealTypes
  <2> QED
    BY <1>3, <1>4, <2>1, <2>3
<1>9. /\ Len(held') = HELD
      /\ \A a \in Range(held') : a.time >= 0 /\ a.ref <= given'
  <2> HIDE DEF z
  <2>1. z = [p EXCEPT !.time = @ - first]
    BY DEF z
  <2>2. \A a \in Range(t) : a.time >= 0 /\ a.ref <= given
    BY <1>5, <1>7
  <2>3. /\ Len(Held(t, z, offset)) = Len(t) + 1
        /\ \A a \in Range(Held(t, z, offset)) : a.time >= 0 /\ a.ref <= given'
    BY <1>1, <1>6, <1>7, <2>1, <2>2, HoldTimes
  <2> QED
    BY <1>1, <1>7, <2>3, QueueAssumption
<1>10. TimeInv'
  <2>1. \A a \in Range(queue') \cup Range(held') : a.time >= 0 /\ a.ref <= given'
    BY <1>2, <1>8, <1>9
  <2>2. \A n \in Future' : first' + audioOffset' <= stream'[n].time
    BY <1>1, <1>2, <1>6
  <2>3. Len(held') <= HELD
    BY <1>9, QueueAssumption
  <2>4. first' >= 0 /\ audioOffset' >= 0 /\ heldFull' /\ started'
    BY <1>1, <1>4, <1>6
  <2> QED
    BY <2>1, <2>2, <2>3, <2>4 DEF TimeInv
<1>11. /\ missed' \subseteq 1 .. given' /\ firstID' \in 0 .. given'
       /\ heldFull' \in BOOLEAN /\ started' \in BOOLEAN
  <2>1. missed' \subseteq 1 .. given' /\ firstID' \in 0 .. given'
    BY <1>1, <1>2, <1>8 DEF TypeInv, GivenInv
  <2> QED
    BY <1>1, <2>1 DEF TypeInv, FlagInv
<1> QED
  BY <1>8, <1>10, <1>11 DEF Takes

LEMMA SendPacketTypes ==
  ASSUME AudioInOrder, IInv, FrameInv, TypeInv, SendPacket
  PROVE  TypeInv'
<1> DEFINE n == given + 1
           p == [id |-> n, type |-> stream[n].type, time |-> stream[n].time,
                 ref |-> Reference(stream[n].type)]
<1>1. /\ given < Len(stream) /\ destroyer = "none"
      /\ given' = n
      /\ connection' = IF connection = "none" THEN "running" ELSE connection
      /\ anchor' = IF stream[n].type \in {VideoHigh, VideoHighest} THEN p.id ELSE anchor
      /\ base' = IF stream[n].type \in {VideoLow, VideoHigh, VideoHighest} THEN p.id ELSE base
      /\ IF Ignored(p)
         THEN UNCHANGED <<heldVars, queueVars, semaphore, missed>>
         ELSE KeepKeyframe(p) \/ FirstPacket(p) \/ HoldPacket(p) \/ PassOldest(p)
      /\ UNCHANGED <<fast, stopping, loopExit, sender, destroyer, stream, sent, decoders>>
  BY DEF SendPacket
<1>2. given \in Nat /\ anchor \in Nat /\ base \in Nat /\ n \in 1 .. Len(stream)
  BY <1>1, FramesInvariant, StreamTimes
<1>3. stream[n].type \in 0 .. 4 /\ stream[n].time \in Int
  BY <1>2, StreamTimes
<1>4. /\ p \in AnyPacket /\ p.id = n /\ p.type = stream[n].type /\ p.time = stream[n].time
      /\ p.ref = Reference(stream[n].type)
  <2>1. Reference(stream[n].type) \in Nat
    BY <1>2, <1>3 DEF Reference, VideoDisposable, VideoLow, VideoHigh, VideoHighest, Audio
  <2> QED
    BY <1>2, <1>3, <2>1 DEF AnyPacket, VideoDisposable, Audio
<1> HIDE DEF p
<1>5. Given(p)
  <2>1. Arrives(p)
    BY <1>1, <1>4 DEF Arrives
  <2> QED
    BY <1>1, <1>4, <2>1 DEF Given
<1>6. Takes
  <2>1. CASE Ignored(p)
    <3>1. UNCHANGED <<heldVars, queueVars, semaphore, missed>>
      BY <1>1, <2>1
    <3>2. held' = held /\ UNCHANGED <<queueVars, startVars, semaphore, missed>>
      BY <3>1 DEF heldVars
    <3> QED
      BY <1>4, <1>5, <3>2, KeptTypes
  <2>2. CASE KeepKeyframe(p)
    <3>1. ~started /\ held' = <<p>> /\ UNCHANGED <<queueVars, startVars, semaphore, missed>>
      BY <2>2 DEF KeepKeyframe, FrameInv, StartInv
    <3> QED
      BY <1>4, <1>5, <3>1, KeptTypes
  <2>3. CASE FirstPacket(p)
    BY <1>4, <1>5, <2>3, FirstPacketTypes
  <2>4. CASE HoldPacket(p)
    BY <1>4, <1>5, <2>4, HoldPacketTypes
  <2>5. CASE PassOldest(p)
    BY <1>4, <1>5, <2>5, PassOldestTypes
  <2> QED
    BY <1>1, <2>1, <2>2, <2>3, <2>4, <2>5
<1>7. FlagInv'
  BY <1>1, <1>6 DEF Takes, TypeInv, FlagInv
<1>8. GivenInv'
  <2>1. anchor' \in 0 .. given' /\ base' \in 0 .. given' /\ decoders' \subseteq 1 .. given'
    BY <1>1, <1>2, <1>4 DEF TypeInv, GivenInv
  <2> QED
    BY <1>6, <2>1 DEF Takes, GivenInv
<1> QED
  BY <1>6, <1>7, <1>8 DEF Takes, TypeInv

\* The destructor: what is left of the buffer.
LEMMA FlushPacketTypes ==
  ASSUME IInv, TypeInv, FlushPacket
  PROVE  TypeInv'
<1> DEFINE h == Head(held)
           t == Tail(held)
<1>1. /\ held # <<>> /\ held' = t /\ SendPacketForReal(h)
      /\ UNCHANGED <<fast, stopping, heldFull, started, first, firstID, audioOffset, loopExit,
                     stream, given, anchor, base, sent, decoders>>
  BY DEF FlushPacket, startVars, inputVars
<1>2. held \in Seq(AnyPacket) /\ queue \in Seq(AnyPacket) /\ given \in Nat
  BY FramesInvariant
<1>3. /\ h \in Range(held) /\ h \in AnyPacket /\ Len(t) = Len(held) - 1 /\ Len(held) \in Nat
      /\ Range(t) \subseteq Range(held)
      /\ \A a, b : Precedes(t, a, b) => Precedes(held, a, b)
  BY <1>1, <1>2, Ends, TailOrder
<1> HIDE DEF h, t
<1>4. \A a \in Range(queue) \cup Range(held) : a.time >= 0 /\ a.ref <= given
  BY DEF TypeInv, TimeInv
<1>5. h.id \in 1 .. given
  <2>1. h.id \in IDs(Range(held))
    BY <1>3 DEF IDs
  <2> QED
    BY <2>1, QueueInvariant
<1>6. /\ QueueCounts' /\ missed' \subseteq missed \cup {h.id}
      /\ \A a \in Range(queue') : a \in Range(queue) \/ (a.time >= 0 /\ a.ref = h.ref)
  <2>1. QueueTypes /\ Distinct(queue) /\ QueueCounts
    BY QueueInvariant DEF TypeInv
  <2> QED
    BY <1>1, <1>3, <1>4, <2>1, RealTypes
<1>7. FlagInv'
  BY <1>1 DEF TypeInv, FlagInv
<1>8. GivenInv'
  BY <1>1, <1>5, <1>6 DEF TypeInv, GivenInv
<1>9. TimeInv'
  <2>1. \A a \in Range(queue') \cup Range(held') : a.time >= 0 /\ a.ref <= given'
    BY <1>1, <1>3, <1>4, <1>6
  <2>2. Len(held') <= HELD
    BY <1>1, <1>3, QueueAssumption DEF TypeInv, TimeInv
  <2>3. first' >= 0 /\ audioOffset' >= 0
    BY <1>1 DEF TypeInv, TimeInv
  <2>4. heldFull' => started'
    BY <1>1 DEF TypeInv, TimeInv
  <2>5. ~heldFull' => audioOffset' = 0 /\ AudioOrder(held')
    <3>1. AudioOrder(held) => AudioOrder(t)
      BY <1>3 DEF AudioOrder
    <3> QED
      BY <1>1, <3>1 DEF TypeInv, TimeInv
  <2>6. started' => \A m \in Future' :
          /\ first' + audioOffset' <= stream'[m].time
          /\ ~heldFull' => \A a \in Range(held') : a.time <= stream'[m].time - first'
    BY <1>1, <1>3 DEF TypeInv, TimeInv, Future
  <2> QED
    BY <2>1, <2>2, <2>3, <2>4, <2>5, <2>6 DEF TimeInv
<1> QED
  BY <1>6, <1>7, <1>8, <1>9 DEF TypeInv

\* The send thread takes a packet from the queue.
LEMMA SendNextTypes ==
  ASSUME IInv, TypeInv, SendNext
  PROVE  TypeInv'
<1> DEFINE h == Head(queue)
           t == Tail(queue)
<1>1. /\ queue # <<>> /\ queue' = t /\ decoders' \subseteq decoders \cup {h.id}
      /\ \/ sent' = [sent EXCEPT !.audio = @ + 1]
         \/ sent' = [sent EXCEPT !.video = @ + 1,
                                 !.key = IF h.type = VideoHighest THEN h.id ELSE @]
      /\ UNCHANGED <<fast, stopping, held, heldFull, started, first, firstID, audioOffset, loopExit,
                     minDrop, headers, sentKey, sentAudio, total, dumped, semaphore, missed,
                     stream, given, anchor, base>>
  BY DEF SendNext, OnlySender, heldVars, startVars, inputVars
<1>2. queue \in Seq(AnyPacket) /\ given \in Nat
  BY FramesInvariant
<1>3. h \in Range(queue) /\ h \in AnyPacket /\ Range(t) \subseteq Range(queue)
  BY <1>1, <1>2, Ends
<1> HIDE DEF h, t
<1>4. h.id \in 1 .. given /\ h.id \in Nat
  <2>1. h.id \in IDs(Range(queue))
    BY <1>3 DEF IDs
  <2> QED
    BY <1>3, <2>1, QueueInvariant DEF AnyPacket
<1>5. QueueCounts'
  BY <1>1 DEF TypeInv, QueueCounts
<1>6. FlagInv'
  <2>1. sent' \in [video : Nat, audio : Nat, key : Nat]
    <3>1. sent \in [video : Nat, audio : Nat, key : Nat]
      BY DEF TypeInv, FlagInv
    <3>2. CASE sent' = [sent EXCEPT !.audio = @ + 1]
      BY <3>1, <3>2
    <3>3. CASE sent' = [sent EXCEPT !.video = @ + 1,
                                    !.key = IF h.type = VideoHighest THEN h.id ELSE @]
      <4>1. (IF h.type = VideoHighest THEN h.id ELSE sent.key) \in Nat
        BY <1>4, <3>1
      <4> DEFINE k == IF h.type = VideoHighest THEN h.id ELSE sent.key
      <4>2. sent' = [sent EXCEPT !.video = @ + 1, !.key = k]
        BY <3>3
      <4> HIDE DEF k
      <4>3. k \in Nat
        BY <4>1 DEF k
      <4> DEFINE v == sent.video + 1
      <4>4. v \in Nat /\ sent' = [sent EXCEPT !.video = v, !.key = k]
        BY <3>1, <4>2
      <4> HIDE DEF v
      <4> QED
        BY <3>1, <4>3, <4>4
    <3> QED
      BY <1>1, <3>2, <3>3
  <2> QED
    BY <1>1, <2>1 DEF TypeInv, FlagInv
<1>7. GivenInv'
  BY <1>1, <1>4 DEF TypeInv, GivenInv
<1>8. TimeInv'
  <2>1. \A a \in Range(queue') \cup Range(held') : a.time >= 0 /\ a.ref <= given'
    BY <1>1, <1>3 DEF TypeInv, TimeInv
  <2> QED
    BY <1>1, <2>1 DEF TypeInv, TimeInv, Future
<1> QED
  BY <1>5, <1>6, <1>7, <1>8 DEF TypeInv

LEMMA ThreadsTypes ==
  ASSUME IInv, TypeInv,
         \/ Connected \/ ConnectionFails \/ WakeSender \/ FoundEmpty \/ CheckExit
         \/ Destroy \/ JoinConnection \/ EndSending \/ JoinSender \/ UNCHANGED vars
  PROVE  TypeInv'
<1>1. UNCHANGED <<fast, held, heldFull, started, first, firstID, audioOffset, queue, minDrop, headers,
                  sentKey, sentAudio, total, dumped, stream, given, anchor, base, sent, decoders>>
  BY DEF Connected, ConnectionFails, WakeSender, FoundEmpty, CheckExit, Destroy, JoinConnection,
         EndSending, Flushed, JoinSender, OnlySender, vars, heldVars, startVars, queueVars,
         inputVars, historyVars
<1>2. missed' = missed \/ missed' = {}
  BY DEF Connected, ConnectionFails, WakeSender, FoundEmpty, CheckExit, Destroy, JoinConnection,
         EndSending, Flushed, JoinSender, vars, historyVars
<1>3. semaphore' \in {semaphore, semaphore + 1} \/ (semaphore > 0 /\ semaphore' = semaphore - 1)
  BY DEF Connected, ConnectionFails, WakeSender, FoundEmpty, CheckExit, Destroy, JoinConnection,
         EndSending, Flushed, JoinSender, vars, threadVars
<1>4. stopping' \in {stopping, TRUE} /\ loopExit' \in {loopExit, TRUE}
  BY DEF Connected, ConnectionFails, WakeSender, FoundEmpty, CheckExit, Destroy, JoinConnection,
         EndSending, Flushed, JoinSender, OnlySender, vars, threadVars
<1>5. QueueCounts'
  <2>1. semaphore' \in Nat
    BY <1>3 DEF TypeInv, QueueCounts
  <2> QED
    BY <1>1, <2>1 DEF TypeInv, QueueCounts
<1>6. FlagInv'
  <2>1. stopping \in BOOLEAN /\ loopExit \in BOOLEAN
    BY DEF TypeInv, FlagInv
  <2>2. stopping' \in BOOLEAN /\ loopExit' \in BOOLEAN
    BY <1>4, <2>1
  <2> QED
    BY <1>1, <2>2 DEF TypeInv, FlagInv
<1>7. GivenInv'
  BY <1>1, <1>2 DEF TypeInv, GivenInv
<1>8. TimeInv'
  BY <1>1 DEF TypeInv, TimeInv, Future
<1> QED
  BY <1>5, <1>6, <1>7, <1>8 DEF TypeInv

LEMMA InitTypeInv == Init => TypeInv
<1> SUFFICES ASSUME Init PROVE TypeInv
  OBVIOUS
<1> DEFINE none == <<>>
<1>1. Range(none) = {}
  BY NoPackets
<1>2. Len(none) = 0
  OBVIOUS
<1> HIDE DEF none
<1>3. /\ held = none /\ queue = none /\ heldFull = FALSE /\ started = FALSE /\ first = 0
      /\ firstID = 0 /\ audioOffset = 0 /\ given = 0
  BY DEF Init, none
<1>4. QueueCounts
  BY DEF Init, QueueCounts
<1>5. FlagInv
  BY QueueAssumption DEF Init, FlagInv
<1>6. GivenInv
  BY DEF Init, GivenInv
<1>7. TimeInv
  BY <1>1, <1>2, <1>3, QueueAssumption DEF TimeInv, AudioOrder
<1> QED
  BY <1>4, <1>5, <1>6, <1>7 DEF TypeInv

LEMMA NextTypes == AudioInOrder /\ IInv /\ FrameInv /\ TypeInv /\ [Next]_vars => TypeInv'
<1> SUFFICES ASSUME AudioInOrder, IInv, FrameInv, TypeInv, [Next]_vars PROVE TypeInv'
  OBVIOUS
<1>1. CASE SendPacket
  BY <1>1, SendPacketTypes
<1>2. CASE SendNext
  BY <1>2, SendNextTypes
<1>3. CASE FlushPacket
  BY <1>3, FlushPacketTypes
<1>4. CASE \/ Connected \/ ConnectionFails \/ WakeSender \/ FoundEmpty \/ CheckExit
           \/ Destroy \/ JoinConnection \/ EndSending \/ JoinSender \/ UNCHANGED vars
  BY <1>4, ThreadsTypes
<1> QED
  BY <1>1, <1>2, <1>3, <1>4 DEF Next, SenderStep, DestroyerStep

\* A list whose packets have been given, at times that are not negative.
LEMMA GivenPackets ==
  ASSUME IInv, NEW q \in Seq(AnyPacket), IDs(Range(q)) \subseteq 1 .. given,
         \A a \in Range(q) : a.time >= 0 /\ a.ref <= given
  PROVE  q \in Seq(Packets)
<1>1. /\ given \in Nat /\ Len(stream) \in Nat /\ given \in 0 .. Len(stream)
      /\ DOMAIN stream = 1 .. Len(stream)
  <2>1. stream \in Seq([type : 0 .. 4, time : Nat])
    BY QueueAssumption DEF IInv, KindInv
  <2> QED
    BY <2>1, StreamTimes, LenProperties
<1>2. Len(q) \in Nat /\ \A n \in 1 .. Len(q) : q[n] \in AnyPacket /\ q[n] \in Range(q)
  BY Ends
<1>3. \A n \in 1 .. Len(q) : q[n] \in Packets
  <2> SUFFICES ASSUME NEW n \in 1 .. Len(q) PROVE q[n] \in Packets
    OBVIOUS
  <2> DEFINE a == q[n]
  <2>1. a \in AnyPacket /\ a.time >= 0 /\ a.ref <= given /\ a.id \in IDs(Range(q))
    BY <1>2 DEF IDs
  <2> HIDE DEF a
  <2>2. a.id \in DOMAIN stream
    BY <1>1, <2>1
  <2>3. a.time \in Nat /\ a.ref \in {0} \cup DOMAIN stream
    <3>1. a.time \in Int /\ a.ref \in Nat
      BY <2>1 DEF AnyPacket
    <3> QED
      BY <1>1, <2>1, <3>1
  <2>4. a \in Packets
    BY <2>1, <2>2, <2>3 DEF AnyPacket, Packets
  <2> QED
    BY <2>4 DEF a
<1> QED
  BY <1>2, <1>3, SeqDef, q \in Seq(AnyPacket)

LEMMA TypesFollow == IInv /\ TypeInv => TypeOK
<1> SUFFICES ASSUME IInv, TypeInv PROVE TypeOK
  OBVIOUS
<1>1. held \in Seq(Packets) /\ queue \in Seq(Packets) /\ Len(held) <= HELD
  <2>1. held \in Seq(AnyPacket) /\ queue \in Seq(AnyPacket)
    BY FramesInvariant
  <2>2. IDs(Range(held)) \subseteq 1 .. given /\ IDs(Range(queue)) \subseteq 1 .. given
    BY QueueInvariant
  <2>3. /\ \A a \in Range(held) : a.time >= 0 /\ a.ref <= given
        /\ \A a \in Range(queue) : a.time >= 0 /\ a.ref <= given
    BY DEF TypeInv, TimeInv
  <2>4. Len(held) <= HELD
    BY DEF TypeInv, TimeInv
  <2> QED
    BY <2>1, <2>2, <2>3, <2>4, GivenPackets
<1>2. {stopping, heldFull, started, headers, sentKey, sentAudio, loopExit} \subseteq BOOLEAN
  <2>1. /\ stopping \in BOOLEAN /\ heldFull \in BOOLEAN /\ started \in BOOLEAN /\ headers \in BOOLEAN
        /\ sentKey \in BOOLEAN /\ sentAudio \in BOOLEAN /\ loopExit \in BOOLEAN
    BY Zenon DEF TypeInv, QueueCounts, FlagInv
  <2> QED
    BY <2>1, Zenon
<1>3. {first, audioOffset, minDrop, dumped, semaphore} \subseteq Nat
  BY QueueInvariant DEF TypeInv, QueueCounts, TimeInv
<1>4. {given, firstID, anchor, base} \subseteq 0 .. Len(stream)
  BY StreamTimes DEF TypeInv, GivenInv
<1>5. decoders \cup missed \subseteq DOMAIN stream
  <2>1. DOMAIN stream = 1 .. Len(stream)
    BY QueueAssumption, LenProperties DEF IInv, KindInv
  <2> QED
    BY <2>1, StreamTimes DEF TypeInv, GivenInv
<1>6. /\ fast \in BOOLEAN /\ connection \in {"none", "running", "up", "failed"}
      /\ sender \in {"waiting", "sending", "checking", "done"}
      /\ destroyer \in {"none", "joining", "flushing", "done"}
      /\ stream \in Streams
  BY Zenon DEF TypeInv, FlagInv, IInv, KindInv
<1>7. wait \in VideoDisposable .. VideoHighest
  BY FramesInvariant
<1>8. total \in [video : Nat, audio : Nat] /\ sent \in [video : Nat, audio : Nat, key : Nat]
  BY DEF TypeInv, QueueCounts, FlagInv
<1> QED
  BY <1>1, <1>2, <1>3, <1>4, <1>5, <1>6, <1>7, <1>8, Zenon DEF TypeOK

\* The types, once and for all: the buffer of held packets keeps to its size, and no
\* timestamp underflows when the first frame's and the first audio packet's are subtracted,
\* if audio is given in order.
THEOREM TypeCorrect == AudioInOrder => (Spec => []TypeOK)
<1> DEFINE Inv == AudioInOrder /\ IInv /\ FrameInv /\ TypeInv
<1>1. AudioInOrder /\ Init => Inv
  BY InitIInv, InitFrameInv, InitTypeInv
<1>2. Inv /\ [Next]_vars => Inv'
  <2> SUFFICES ASSUME Inv, [Next]_vars PROVE Inv'
    OBVIOUS
  <2>1. AudioInOrder'
    BY DEF AudioInOrder
  <2> QED
    BY <2>1, NextIInv, NextFrames, NextTypes
<1>3. Inv => TypeOK
  BY TypesFollow
<1> HIDE DEF Inv
<1> QED
  BY <1>1, <1>2, <1>3, PTL DEF Spec
=============================================================================
