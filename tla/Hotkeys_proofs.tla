--------------------------- MODULE Hotkeys_proofs ---------------------------
(***************************************************************************)
(* Proofs about Hotkeys, for any hotkeys of the host and of the plugin,    *)
(* any keys that they consist of, and any bounds.                          *)
(***************************************************************************)
EXTENDS Hotkeys, SequenceTheorems, FiniteSetTheorems, FunctionTheorems, TLAPS

-----------------------------------------------------------------------------
(***************************************************************************)
(* The inductive invariant.                                                *)
(***************************************************************************)

\* What a message does to the set of hotkeys that are down, of those with the IDs.
After(set, m, ids) == IF m.id \notin ids THEN set
                      ELSE IF m.bDown THEN set \cup {m.id} ELSE set \ {m.id}

\* The messages of a queue lead from one set of hotkeys that are down to another,
\* and every one of them says something new.
Leads(q, ids, from, to) ==
  \E b \in [0 .. Len(q) -> SUBSET ids] :
    /\ b[0] = from /\ b[Len(q)] = to
    /\ \A i \in 1 .. Len(q) :
         /\ b[i] = After(b[i - 1], q[i], ids)
         /\ q[i].id \in ids => (q[i].bDown <=> q[i].id \notin b[i - 1])

\* The messages for these IDs that say "down", or "up", and what they add up to.
PendingIn(q, ids, bDown) == {i \in 1 .. Len(q) : q[i].id \in ids /\ q[i].bDown = bDown}
Net(q, ids) == Cardinality(PendingIn(q, ids, TRUE)) - Cardinality(PendingIn(q, ids, FALSE))

\* The plugin's hotkeys that the hotkey thread believes to be down, and their IDs.
Down == {n \in PttHotkeys : hotkeys[n].downSent}
Sent == {hotkeys[n].id : n \in Down}

\* An ID is given once, and no message has one that has not been given.
IdInv ==
  /\ curID \in Len(HostSlots) .. MaxID
  /\ \A n \in 1 .. Len(hotkeys) : hotkeys[n].id > 0 /\ hotkeys[n].id <= curID
  /\ \A m, n \in 1 .. Len(hotkeys) : hotkeys[m].id = hotkeys[n].id => m = n
  /\ \A i \in 1 .. Len(queue) : queue[i].id <= curID
  /\ \A n \in 1 .. Len(hotkeys) : hotkeys[n].downSent => hotkeys[n].hotkeyDown

\* The source knows the IDs of its hotkeys.
SourceInv ==
  /\ \A n \in 1 .. Len(hotkeys) : hotkeys[n].id > Len(HostSlots) =>
       \E i \in 1 .. Len(pttIDs) : pttIDs[i] = hotkeys[n].id
  /\ source = "none" => pttIDs = <<>>
  /\ source = "init" => /\ Len(pttIDs) < Len(PttSlots)
                        /\ curID + Len(PttSlots) - Len(pttIDs) <= MaxID
  /\ source \in {"live", "gone"} => pttIDs # <<>>

\* The messages lead from what the source has been told to what the hotkey thread
\* believes, and the count is on its way to the number of keys that are down.
TalkInv ==
  source \in {"init", "live"} =>
    /\ Leads(queue, PttIDs, talking, Sent)
    /\ keysDown + Net(queue, PttIDs) = Cardinality(Down)

IInv == TypeOK /\ IdInv /\ SourceInv /\ TalkInv
-----------------------------------------------------------------------------
(***************************************************************************)
(* Sequences.                                                              *)
(***************************************************************************)

LEMMA ConstantFacts ==
  /\ Len(HostSlots) \in Nat /\ Len(PttSlots) \in Nat /\ Len(PttSlots) > 0
  /\ MaxID \in Nat /\ Len(HostSlots) <= MaxID
  /\ \A n \in 1 .. Len(HostSlots) : HostSlots[n] \in DOMAIN Binding
  /\ \A n \in 1 .. Len(PttSlots) : PttSlots[n] \in DOMAIN Binding
<1>1. /\ HostSlots \in Seq(DOMAIN Binding) /\ PttSlots \in Seq(DOMAIN Binding)
      /\ PttSlots # <<>> /\ MaxID \in Nat /\ Len(HostSlots) <= MaxID
  BY HotkeysAssumption
<1>2. /\ Len(HostSlots) \in Nat
      /\ \A n \in 1 .. Len(HostSlots) : HostSlots[n] \in DOMAIN Binding
  BY <1>1, LenProperties, ElementOfSeq
<1>3. /\ Len(PttSlots) \in Nat /\ Len(PttSlots) # 0
      /\ \A n \in 1 .. Len(PttSlots) : PttSlots[n] \in DOMAIN Binding
  BY <1>1, LenProperties, ElementOfSeq, EmptySeq
<1> QED
  BY <1>1, <1>2, <1>3

\* The ends of a sequence.
LEMMA Ends ==
  ASSUME NEW S, NEW q \in Seq(S)
  PROVE  /\ Len(q) \in Nat /\ DOMAIN q = 1 .. Len(q) /\ (q = <<>> <=> Len(q) = 0)
         /\ \A n \in 1 .. Len(q) : q[n] \in S
         /\ q # <<>> => /\ Len(q) > 0 /\ 1 \in 1 .. Len(q)
                        /\ Head(q) = q[1] /\ Head(q) \in S
                        /\ Tail(q) \in Seq(S) /\ Len(Tail(q)) = Len(q) - 1
                        /\ \A n \in 1 .. Len(q) - 1 : Tail(q)[n] = q[n + 1]
<1>1. Len(q) \in Nat /\ DOMAIN q = 1 .. Len(q) /\ \A n \in 1 .. Len(q) : q[n] \in S
  BY LenProperties, ElementOfSeq
<1>2. q = <<>> <=> Len(q) = 0
  BY EmptySeq
<1>3. ASSUME q # <<>>
      PROVE  /\ Head(q) = q[1] /\ Tail(q) \in Seq(S) /\ Len(Tail(q)) = Len(q) - 1
             /\ \A n \in 1 .. Len(q) - 1 : Tail(q)[n] = q[n + 1]
  BY <1>3, HeadTailProperties
<1>4. q # <<>> => Len(q) > 0 /\ 1 \in 1 .. Len(q)
  BY <1>1, <1>2
<1> QED
  BY <1>1, <1>2, <1>3, <1>4

\* Appending to a sequence.
LEMMA Appended ==
  ASSUME NEW S, NEW q \in Seq(S), NEW e \in S
  PROVE  /\ Append(q, e) \in Seq(S) /\ Append(q, e) # <<>>
         /\ Len(Append(q, e)) = Len(q) + 1
         /\ \A n \in 1 .. Len(q) : Append(q, e)[n] = q[n]
         /\ Append(q, e)[Len(q) + 1] = e
  OBVIOUS

\* A sequence without its n-th element.
LEMMA Removed ==
  ASSUME NEW S, NEW q \in Seq(S), NEW n \in 1 .. Len(q)
  PROVE  /\ RemoveAt(q, n) \in Seq(S) /\ Len(RemoveAt(q, n)) = Len(q) - 1
         /\ \A i \in 1 .. Len(q) - 1 : RemoveAt(q, n)[i] = q[IF i < n THEN i ELSE i + 1]
<1> DEFINE L == Len(q)
           a == SubSeq(q, 1, n - 1)
           z == SubSeq(q, n + 1, L)
<1>1. L \in Nat /\ \A i \in 1 .. L : q[i] \in S
  BY Ends
<1>2. n \in Nat /\ n >= 1 /\ n <= L
  BY <1>1
<1>3. /\ a \in Seq(S) /\ Len(a) = n - 1
      /\ \A i \in 1 .. n - 1 : a[i] = q[i]
  <2>1. 1 \in Int /\ n - 1 \in Int /\ \A i \in 1 .. n - 1 : q[i] \in S
    BY <1>1, <1>2
  <2>2. /\ a \in Seq(S) /\ Len(a) = (IF 1 <= n - 1 THEN (n - 1) - 1 + 1 ELSE 0)
        /\ \A i \in 1 .. (n - 1) - 1 + 1 : a[i] = q[1 + i - 1]
    BY <2>1, SubSeqProperties
  <2> HIDE DEF a
  <2>3. Len(a) = n - 1
    BY <1>2, <2>2
  <2>4. \A i \in 1 .. n - 1 : a[i] = q[i]
    <3> TAKE i \in 1 .. n - 1
    <3>1. i \in 1 .. (n - 1) - 1 + 1 /\ 1 + i - 1 = i
      BY <1>2
    <3> QED
      BY <2>2, <3>1
  <2> QED
    BY <2>2, <2>3, <2>4
<1>4. /\ z \in Seq(S) /\ Len(z) = L - n
      /\ \A i \in 1 .. L - n : z[i] = q[n + i]
  <2> HIDE DEF L
  <2>1. n + 1 \in Int /\ L \in Int /\ \A i \in n + 1 .. L : q[i] \in S
    BY <1>1, <1>2
  <2>2. /\ z \in Seq(S) /\ Len(z) = (IF n + 1 <= L THEN L - (n + 1) + 1 ELSE 0)
        /\ \A i \in 1 .. L - (n + 1) + 1 : z[i] = q[(n + 1) + i - 1]
    BY <2>1, SubSeqProperties
  <2> HIDE DEF z
  <2>3. Len(z) = L - n
    BY <1>1, <1>2, <2>2
  <2>4. \A i \in 1 .. L - n : z[i] = q[n + i]
    <3> TAKE i \in 1 .. L - n
    <3>1. i \in 1 .. L - (n + 1) + 1 /\ (n + 1) + i - 1 = n + i
      BY <1>1, <1>2
    <3> QED
      BY <2>2, <3>1
  <2> QED
    BY <2>2, <2>3, <2>4
<1> HIDE DEF L, a, z
<1>5. /\ a \o z \in Seq(S) /\ Len(a \o z) = Len(a) + Len(z)
      /\ \A i \in 1 .. Len(a) + Len(z) : (a \o z)[i] = IF i <= Len(a) THEN a[i] ELSE z[i - Len(a)]
  BY <1>3, <1>4, ConcatProperties
<1>6. Len(a) + Len(z) = L - 1
  BY <1>1, <1>2, <1>3, <1>4
<1>7. \A i \in 1 .. L - 1 : (a \o z)[i] = q[IF i < n THEN i ELSE i + 1]
  <2> TAKE i \in 1 .. L - 1
  <2>1. CASE i < n
    <3>1. i \in 1 .. n - 1 /\ i \in 1 .. Len(a) + Len(z) /\ i <= Len(a)
      BY <1>1, <1>2, <1>3, <1>6, <2>1
    <3> QED
      BY <1>3, <1>5, <2>1, <3>1
  <2>2. CASE ~(i < n)
    <3>1. /\ i - Len(a) \in 1 .. L - n /\ n + (i - Len(a)) = i + 1
          /\ i \in 1 .. Len(a) + Len(z) /\ ~(i <= Len(a))
      BY <1>1, <1>2, <1>3, <1>6, <2>2
    <3>2. (a \o z)[i] = z[i - Len(a)] /\ z[i - Len(a)] = q[n + (i - Len(a))]
      BY <1>4, <1>5, <3>1
    <3> QED
      BY <2>2, <3>1, <3>2
  <2> QED
    BY <2>1, <2>2
<1> QED
  BY <1>5, <1>6, <1>7 DEF RemoveAt, L, a, z
-----------------------------------------------------------------------------
(***************************************************************************)
(* The messages of a queue.                                                *)
(***************************************************************************)

LEMMA MessageFacts ==
  ASSUME NEW m \in Message
  PROVE  m.id \in Nat /\ m.bDown \in BOOLEAN
  BY DEF Message

\* One more message that says something new.
LEMMA LeadsAppend ==
  ASSUME NEW q \in Seq(Message), NEW m \in Message, NEW ids, NEW from, NEW to,
         Leads(q, ids, from, to), m.id \in ids => (m.bDown <=> m.id \notin to)
  PROVE  Leads(Append(q, m), ids, from, After(to, m, ids)) /\ After(to, m, ids) \in SUBSET ids
<1> DEFINE w == Append(q, m)
           L == Len(q)
<1>1. /\ L \in Nat /\ Len(w) = L + 1 /\ w[L + 1] = m
      /\ \A i \in 1 .. L : w[i] = q[i]
  BY Ends, Appended
<1>2. PICK b \in [0 .. L -> SUBSET ids] :
        /\ b[0] = from /\ b[L] = to
        /\ \A i \in 1 .. L :
             /\ b[i] = After(b[i - 1], q[i], ids)
             /\ q[i].id \in ids => (q[i].bDown <=> q[i].id \notin b[i - 1])
  BY DEF Leads
<1> HIDE DEF w, L
<1>3. to \in SUBSET ids
  BY <1>1, <1>2
<1>4. After(to, m, ids) \in SUBSET ids
  BY <1>3 DEF After
<1> DEFINE t == After(to, m, ids)
           c == [i \in 0 .. L + 1 |-> IF i = L + 1 THEN t ELSE b[i]]
<1> HIDE DEF t
<1>5. /\ c \in [0 .. Len(w) -> SUBSET ids] /\ c[Len(w)] = t
      /\ \A i \in 0 .. L : c[i] = b[i]
  <2>1. t \in SUBSET ids
    BY <1>4 DEF t
  <2>2. \A i \in 0 .. L + 1 : i = L + 1 \/ i \in 0 .. L
    BY <1>1
  <2>3. c \in [0 .. L + 1 -> SUBSET ids]
    BY <1>1, <2>1, <2>2
  <2>4. c[L + 1] = t
    BY <1>1
  <2>5. \A i \in 0 .. L : c[i] = b[i]
    BY <1>1
  <2> QED
    BY <1>1, <2>3, <2>4, <2>5
<1> HIDE DEF c
<1>6. ASSUME NEW i \in 1 .. Len(w)
      PROVE  /\ c[i] = After(c[i - 1], w[i], ids)
             /\ w[i].id \in ids => (w[i].bDown <=> w[i].id \notin c[i - 1])
  <2>1. CASE i = L + 1
    <3>1. w[i] = m /\ c[i] = t /\ i - 1 = L /\ c[i - 1] = to
      BY <1>1, <1>2, <1>5, <2>1
    <3> QED
      BY <3>1 DEF t
  <2>2. CASE i # L + 1
    <3>1. i \in 1 .. L /\ i \in 0 .. L /\ i - 1 \in 0 .. L
      BY <1>1, <2>2
    <3>2. w[i] = q[i] /\ c[i] = b[i] /\ c[i - 1] = b[i - 1]
      BY <1>1, <1>5, <3>1
    <3> QED
      BY <1>2, <3>1, <3>2
  <2> QED
    BY <2>1, <2>2
<1>7. c[0] = from
  BY <1>1, <1>2, <1>5
<1>8. Leads(w, ids, from, t)
  BY <1>5, <1>6, <1>7 DEF Leads
<1> QED
  BY <1>4, <1>8 DEF w, t

\* The first message is taken: it says something new.
LEMMA LeadsTail ==
  ASSUME NEW q \in Seq(Message), q # <<>>, NEW ids, NEW from, NEW to, Leads(q, ids, from, to)
  PROVE  /\ Leads(Tail(q), ids, After(from, Head(q), ids), to)
         /\ Head(q).id \in ids => (Head(q).bDown <=> Head(q).id \notin from)
<1> DEFINE w == Tail(q)
           L == Len(q)
<1>1. /\ L \in Nat /\ L > 0 /\ 1 \in 1 .. L /\ Head(q) = q[1] /\ Len(w) = L - 1
      /\ \A i \in 1 .. L - 1 : w[i] = q[i + 1]
  BY Ends
<1>2. PICK b \in [0 .. L -> SUBSET ids] :
        /\ b[0] = from /\ b[L] = to
        /\ \A i \in 1 .. L :
             /\ b[i] = After(b[i - 1], q[i], ids)
             /\ q[i].id \in ids => (q[i].bDown <=> q[i].id \notin b[i - 1])
  BY DEF Leads
<1> HIDE DEF w, L
<1>3. /\ b[1] = After(from, Head(q), ids)
      /\ Head(q).id \in ids => (Head(q).bDown <=> Head(q).id \notin from)
  <2>1. 1 - 1 = 0
    OBVIOUS
  <2> QED
    BY <1>1, <1>2, <2>1
<1> DEFINE c == [i \in 0 .. L - 1 |-> b[i + 1]]
<1>4. /\ c \in [0 .. Len(w) -> SUBSET ids]
      /\ \A i \in 0 .. L - 1 : c[i] = b[i + 1]
  <2>1. \A i \in 0 .. L - 1 : i + 1 \in 0 .. L
    BY <1>1
  <2> QED
    BY <1>1, <1>2, <2>1
<1> HIDE DEF c
<1>5. c[0] = b[1] /\ c[Len(w)] = to
  <2>1. 0 \in 0 .. L - 1 /\ 0 + 1 = 1 /\ L - 1 \in 0 .. L - 1 /\ (L - 1) + 1 = L
    BY <1>1
  <2> QED
    BY <1>1, <1>2, <1>4, <2>1
<1>6. ASSUME NEW i \in 1 .. Len(w)
      PROVE  /\ c[i] = After(c[i - 1], w[i], ids)
             /\ w[i].id \in ids => (w[i].bDown <=> w[i].id \notin c[i - 1])
  <2>1. /\ i \in 1 .. L - 1 /\ i \in 0 .. L - 1 /\ i - 1 \in 0 .. L - 1 /\ (i - 1) + 1 = i
        /\ i + 1 \in 1 .. L /\ (i + 1) - 1 = i
    BY <1>1
  <2>2. w[i] = q[i + 1] /\ c[i] = b[i + 1] /\ c[i - 1] = b[i]
    BY <1>1, <1>4, <2>1
  <2>3. /\ b[i + 1] = After(b[(i + 1) - 1], q[i + 1], ids)
        /\ q[i + 1].id \in ids => (q[i + 1].bDown <=> q[i + 1].id \notin b[(i + 1) - 1])
    BY <1>2, <2>1
  <2> QED
    BY <2>1, <2>2, <2>3
<1>7. Leads(w, ids, b[1], to)
  BY <1>4, <1>5, <1>6 DEF Leads
<1> QED
  BY <1>3, <1>7 DEF w

\* A new ID that no message has.
LEMMA LeadsGrow ==
  ASSUME NEW q \in Seq(Message), NEW ids, NEW from, NEW to, Leads(q, ids, from, to),
         NEW x, \A i \in 1 .. Len(q) : q[i].id # x
  PROVE  Leads(q, ids \cup {x}, from, to)
<1>1. PICK b \in [0 .. Len(q) -> SUBSET ids] :
        /\ b[0] = from /\ b[Len(q)] = to
        /\ \A i \in 1 .. Len(q) :
             /\ b[i] = After(b[i - 1], q[i], ids)
             /\ q[i].id \in ids => (q[i].bDown <=> q[i].id \notin b[i - 1])
  BY DEF Leads
<1>2. b \in [0 .. Len(q) -> SUBSET (ids \cup {x})]
  OBVIOUS
<1>3. \A i \in 1 .. Len(q) :
        /\ b[i] = After(b[i - 1], q[i], ids \cup {x})
        /\ q[i].id \in ids \cup {x} => (q[i].bDown <=> q[i].id \notin b[i - 1])
  BY <1>1 DEF After
<1> QED
  BY <1>1, <1>2, <1>3 DEF Leads

\* What a message adds to the sum.
Weight(m, ids) == IF m.id \notin ids THEN 0 ELSE IF m.bDown THEN 1 ELSE -1

LEMMA PendingFinite ==
  ASSUME NEW q \in Seq(Message), NEW ids, NEW v
  PROVE  /\ IsFiniteSet(PendingIn(q, ids, v)) /\ Cardinality(PendingIn(q, ids, v)) \in Nat
         /\ PendingIn(q, ids, v) \in SUBSET (1 .. Len(q))
<1>1. PendingIn(q, ids, v) \in SUBSET (1 .. Len(q)) /\ Len(q) \in Nat
  BY Ends DEF PendingIn
<1>2. IsFiniteSet(1 .. Len(q))
  BY <1>1, FS_Interval
<1>3. IsFiniteSet(PendingIn(q, ids, v))
  BY <1>1, <1>2, FS_Subset
<1>4. Cardinality(PendingIn(q, ids, v)) \in Nat
  BY <1>3, FS_CardinalityType
<1> QED
  BY <1>1, <1>3, <1>4

LEMMA PendingAppend ==
  ASSUME NEW q \in Seq(Message), NEW m \in Message, NEW ids, NEW v
  PROVE  Cardinality(PendingIn(Append(q, m), ids, v)) =
           Cardinality(PendingIn(q, ids, v)) + (IF m.id \in ids /\ m.bDown = v THEN 1 ELSE 0)
<1> DEFINE w == Append(q, m)
           L == Len(q)
           P == PendingIn(q, ids, v)
           W == PendingIn(w, ids, v)
<1>1. /\ L \in Nat /\ Len(w) = L + 1 /\ w[L + 1] = m
      /\ \A i \in 1 .. L : w[i] = q[i]
  BY Ends, Appended
<1>2. IsFiniteSet(P) /\ Cardinality(P) \in Nat /\ P \in SUBSET (1 .. L)
  BY PendingFinite
<1>3. P = {i \in 1 .. L : q[i].id \in ids /\ q[i].bDown = v}
  BY DEF PendingIn
<1>4. W = {i \in 1 .. Len(w) : w[i].id \in ids /\ w[i].bDown = v}
  BY DEF PendingIn
<1> HIDE DEF w, L, P, W
<1>5. \A i : i \in 1 .. Len(w) <=> i \in 1 .. L \/ i = L + 1
  BY <1>1
<1>6. L + 1 \notin P
  BY <1>1, <1>2
<1>7. CASE m.id \in ids /\ m.bDown = v
  <2>1. W = P \cup {L + 1}
    BY <1>1, <1>3, <1>4, <1>5, <1>7
  <2>2. Cardinality(P \cup {L + 1}) = Cardinality(P) + 1
    BY <1>2, <1>6, FS_AddElement
  <2> QED
    BY <1>7, <2>1, <2>2 DEF w, P, W
<1>8. CASE ~(m.id \in ids /\ m.bDown = v)
  <2>1. W = P
    BY <1>1, <1>3, <1>4, <1>5, <1>8
  <2> QED
    BY <1>2, <1>8, <2>1 DEF w, P, W
<1> QED
  BY <1>7, <1>8

LEMMA PendingTail ==
  ASSUME NEW q \in Seq(Message), q # <<>>, NEW ids, NEW v
  PROVE  Cardinality(PendingIn(Tail(q), ids, v)) =
           Cardinality(PendingIn(q, ids, v)) - (IF Head(q).id \in ids /\ Head(q).bDown = v THEN 1 ELSE 0)
<1> DEFINE w == Tail(q)
           L == Len(q)
           P == PendingIn(q, ids, v)
           W == PendingIn(w, ids, v)
<1>1. /\ L \in Nat /\ L > 0 /\ 1 \in 1 .. L /\ Head(q) = q[1] /\ Len(w) = L - 1
      /\ w \in Seq(Message) /\ \A i \in 1 .. L - 1 : w[i] = q[i + 1]
  BY Ends
<1>2. IsFiniteSet(P) /\ Cardinality(P) \in Nat /\ P \in SUBSET (1 .. L)
  BY PendingFinite
<1>3. IsFiniteSet(W) /\ W \in SUBSET (1 .. L - 1)
  BY <1>1, PendingFinite
<1>4. P = {i \in 1 .. L : q[i].id \in ids /\ q[i].bDown = v}
  BY DEF PendingIn
<1>5. W = {i \in 1 .. L - 1 : w[i].id \in ids /\ w[i].bDown = v}
  BY <1>1 DEF PendingIn
<1> DEFINE R == P \ {1}
<1>6. Cardinality(R) = Cardinality(P) - (IF 1 \in P THEN 1 ELSE 0) /\ IsFiniteSet(R)
  BY <1>2, FS_RemoveElement
<1>7. 1 \in P <=> Head(q).id \in ids /\ Head(q).bDown = v
  BY <1>1, <1>4
<1> HIDE DEF w, L, P, W, R
<1>8. Cardinality(R) = Cardinality(W)
  <2> DEFINE f == [i \in W |-> i + 1]
  <2>1. \A i \in W : i \in Int /\ i + 1 \in R
    <3> TAKE i \in W
    <3>1. i \in 1 .. L - 1 /\ w[i] = q[i + 1] /\ w[i].id \in ids /\ w[i].bDown = v
      BY <1>1, <1>5
    <3>2. i + 1 \in 1 .. L /\ i + 1 # 1
      BY <1>1, <3>1
    <3> QED
      BY <1>4, <3>1, <3>2 DEF R
  <2>2. \A j \in R : \E i \in W : i + 1 = j
    <3> TAKE j \in R
    <3>1. j \in 1 .. L /\ j # 1 /\ q[j].id \in ids /\ q[j].bDown = v
      BY <1>4 DEF R
    <3>2. j - 1 \in 1 .. L - 1 /\ (j - 1) + 1 = j
      BY <1>1, <3>1
    <3>3. w[j - 1] = q[j]
      BY <1>1, <3>2
    <3>4. j - 1 \in W
      BY <1>5, <3>1, <3>2, <3>3
    <3> QED
      BY <3>2, <3>4
  <2>3. f \in Bijection(W, R)
    BY <2>1, <2>2, Fun_IsBij
  <2> HIDE DEF f
  <2>4. ExistsBijection(W, R)
    BY <2>3 DEF ExistsBijection
  <2> QED
    BY <1>3, <2>4, FS_Bijection
<1> QED
  BY <1>6, <1>7, <1>8 DEF w, L, P, W, R

\* A message that is posted, a message that is taken, and a new ID.
LEMMA NetAppend ==
  ASSUME NEW q \in Seq(Message), NEW m \in Message, NEW ids
  PROVE  Net(Append(q, m), ids) = Net(q, ids) + Weight(m, ids)
<1> DEFINE D(w) == Cardinality(PendingIn(w, ids, TRUE))
           U(w) == Cardinality(PendingIn(w, ids, FALSE))
<1>1. D(q) \in Nat /\ U(q) \in Nat
  BY PendingFinite, Zenon
<1>2. m.bDown = TRUE \/ m.bDown = FALSE
  BY MessageFacts
<1> DEFINE w == Append(q, m)
<1>3. \A v : Cardinality(PendingIn(w, ids, v)) =
               Cardinality(PendingIn(q, ids, v)) + (IF m.id \in ids /\ m.bDown = v THEN 1 ELSE 0)
  BY PendingAppend
<1> HIDE DEF w
<1>4. /\ D(w) = D(q) + (IF m.id \in ids /\ m.bDown = TRUE THEN 1 ELSE 0)
      /\ U(w) = U(q) + (IF m.id \in ids /\ m.bDown = FALSE THEN 1 ELSE 0)
  BY <1>3, Zenon
<1>5. Net(q, ids) = D(q) - U(q) /\ Net(w, ids) = D(w) - U(w)
  BY Zenon DEF Net
<1> HIDE DEF D, U
<1>6. Net(w, ids) = Net(q, ids) + Weight(m, ids)
  BY <1>1, <1>2, <1>4, <1>5 DEF Weight
<1> QED
  BY <1>6 DEF w

LEMMA NetTail ==
  ASSUME NEW q \in Seq(Message), q # <<>>, NEW ids
  PROVE  Net(Tail(q), ids) = Net(q, ids) - Weight(Head(q), ids)
<1> DEFINE D(w) == Cardinality(PendingIn(w, ids, TRUE))
           U(w) == Cardinality(PendingIn(w, ids, FALSE))
<1>1. D(q) \in Nat /\ U(q) \in Nat
  BY PendingFinite, Zenon
<1>2. Head(q).bDown = TRUE \/ Head(q).bDown = FALSE
  BY Ends, MessageFacts
<1>3. D(Tail(q)) = D(q) - (IF Head(q).id \in ids /\ Head(q).bDown = TRUE THEN 1 ELSE 0)
  BY PendingTail, Zenon
<1>4. U(Tail(q)) = U(q) - (IF Head(q).id \in ids /\ Head(q).bDown = FALSE THEN 1 ELSE 0)
  BY PendingTail, Zenon
<1>5. Net(q, ids) = D(q) - U(q) /\ Net(Tail(q), ids) = D(Tail(q)) - U(Tail(q))
  BY Zenon DEF Net
<1> HIDE DEF D, U
<1> QED
  BY <1>1, <1>2, <1>3, <1>4, <1>5 DEF Weight

LEMMA NetGrow ==
  ASSUME NEW q \in Seq(Message), NEW ids, NEW x, \A i \in 1 .. Len(q) : q[i].id # x
  PROVE  Net(q, ids \cup {x}) = Net(q, ids)
<1> DEFINE more == ids \cup {x}
<1>1. \A v : PendingIn(q, more, v) = PendingIn(q, ids, v)
  BY DEF PendingIn
<1> HIDE DEF more
<1>2. /\ PendingIn(q, more, TRUE) = PendingIn(q, ids, TRUE)
      /\ PendingIn(q, more, FALSE) = PendingIn(q, ids, FALSE)
  BY <1>1, Zenon
<1>3. Net(q, more) = Net(q, ids)
  BY <1>2, Zenon DEF Net
<1> QED
  BY <1>3 DEF more

LEMMA NetType ==
  ASSUME NEW q \in Seq(Message), NEW ids
  PROVE  Net(q, ids) \in Int
<1> DEFINE D == Cardinality(PendingIn(q, ids, TRUE))
           U == Cardinality(PendingIn(q, ids, FALSE))
<1>1. D \in Nat /\ U \in Nat
  BY PendingFinite, Zenon
<1>2. Net(q, ids) = D - U
  BY Zenon DEF Net
<1> HIDE DEF D, U
<1> QED
  BY <1>1, <1>2

LEMMA NetNone ==
  ASSUME NEW q \in Seq(Message)
  PROVE  Net(q, {}) = 0
<1>1. \A v : PendingIn(q, {}, v) = {}
  BY DEF PendingIn
<1>2. Net(q, {}) = Cardinality({}) - Cardinality({})
  BY <1>1, Zenon DEF Net
<1>3. Cardinality({}) = 0
  BY FS_EmptySet
<1> QED
  BY <1>2, <1>3
-----------------------------------------------------------------------------
(***************************************************************************)
(* The hotkeys and their IDs.                                              *)
(***************************************************************************)

LEMMA HotkeyFacts ==
  ASSUME NEW h \in HotkeyInfo
  PROVE  /\ h.id \in Nat /\ h.slot \in DOMAIN Binding /\ h.modifiersDown \in BOOLEAN
         /\ h.hotkeyDown \in BOOLEAN /\ h.downSent \in BOOLEAN
  BY DEF HotkeyInfo

LEMMA NewHotkeyFacts ==
  ASSUME NEW id \in Nat, NEW slot \in DOMAIN Binding
  PROVE  /\ NewHotkey(id, slot) \in HotkeyInfo /\ NewHotkey(id, slot).id = id
         /\ NewHotkey(id, slot).downSent = FALSE
  BY DEF NewHotkey, HotkeyInfo

LEMMA StateFacts ==
  ASSUME IInv
  PROVE  /\ hotkeys \in Seq(HotkeyInfo) /\ Len(hotkeys) \in Nat /\ DOMAIN hotkeys = 1 .. Len(hotkeys)
         /\ \A n \in 1 .. Len(hotkeys) :
              /\ hotkeys[n] \in HotkeyInfo /\ hotkeys[n].id \in Nat
              /\ hotkeys[n].downSent \in BOOLEAN /\ hotkeys[n].hotkeyDown \in BOOLEAN
         /\ queue \in Seq(Message) /\ pttIDs \in Seq(1 .. MaxID)
         /\ curID \in Nat /\ Len(HostSlots) <= curID /\ curID <= MaxID
         /\ keysDown \in Int
<1>1. /\ hotkeys \in Seq(HotkeyInfo) /\ queue \in Seq(Message) /\ pttIDs \in Seq(1 .. MaxID)
      /\ curID \in Len(HostSlots) .. MaxID /\ keysDown \in Int
  BY DEF IInv, TypeOK, IdInv
<1>2. /\ Len(hotkeys) \in Nat /\ DOMAIN hotkeys = 1 .. Len(hotkeys)
      /\ \A n \in 1 .. Len(hotkeys) : hotkeys[n] \in HotkeyInfo
  BY <1>1, Ends
<1>3. curID \in Nat /\ Len(HostSlots) <= curID /\ curID <= MaxID
  BY <1>1, ConstantFacts
<1> QED
  BY <1>1, <1>2, <1>3, HotkeyFacts

\* The plugin's hotkeys and their IDs.
LEMMA SetFacts ==
  ASSUME IInv
  PROVE  /\ PttHotkeys = {n \in 1 .. Len(hotkeys) : hotkeys[n].id > Len(HostSlots)}
         /\ \A n \in 1 .. Len(hotkeys) : hotkeys[n].id \in PttIDs <=> n \in PttHotkeys
         /\ \A n \in 1 .. Len(hotkeys) : hotkeys[n].id \in Sent <=> n \in Down
         /\ Sent \in SUBSET PttIDs
         /\ IsFiniteSet(Down) /\ Cardinality(Down) \in Nat
<1>1. PttHotkeys = {n \in 1 .. Len(hotkeys) : hotkeys[n].id > Len(HostSlots)}
  BY StateFacts DEF PttHotkeys
<1>2. \A m, n \in 1 .. Len(hotkeys) : hotkeys[m].id = hotkeys[n].id => m = n
  BY DEF IInv, IdInv
<1>3. \A n \in 1 .. Len(hotkeys) : hotkeys[n].id \in PttIDs <=> n \in PttHotkeys
  BY <1>1, <1>2 DEF PttIDs
<1>4. Down \in SUBSET (1 .. Len(hotkeys)) /\ Down \in SUBSET PttHotkeys
  BY <1>1 DEF Down
<1>5. \A n \in 1 .. Len(hotkeys) : hotkeys[n].id \in Sent <=> n \in Down
  BY <1>2, <1>4 DEF Sent
<1>6. Sent \in SUBSET PttIDs
  BY <1>4 DEF Sent, PttIDs
<1>7. IsFiniteSet(Down) /\ Cardinality(Down) \in Nat
  <2>1. IsFiniteSet(1 .. Len(hotkeys))
    BY StateFacts, FS_Interval
  <2>2. IsFiniteSet(Down)
    BY <1>4, <2>1, FS_Subset
  <2> QED
    BY <2>2, FS_CardinalityType
<1> QED
  BY <1>1, <1>3, <1>5, <1>6, <1>7

LEMMA InitIInv == Init => IInv
<1> SUFFICES ASSUME Init PROVE IInv
  OBVIOUS
<1> DEFINE H == Len(HostSlots)
<1>1. /\ down = {} /\ tapped = {} /\ mods = {} /\ snapshot = {} /\ poll = 0 /\ ready = FALSE
      /\ curID = Len(HostSlots) /\ queue = <<>>
      /\ source = "none" /\ pttIDs = <<>> /\ keysDown = 0 /\ talking = {}
  BY DEF Init
<1>2. hotkeys = [n \in 1 .. H |-> NewHotkey(n, HostSlots[n])] /\ H \in Nat
  BY ConstantFacts DEF Init
<1>3. \A n \in 1 .. H : /\ NewHotkey(n, HostSlots[n]) \in HotkeyInfo
                        /\ NewHotkey(n, HostSlots[n]).id = n
                        /\ NewHotkey(n, HostSlots[n]).downSent = FALSE
  <2> TAKE n \in 1 .. H
  <2>1. n \in Nat /\ HostSlots[n] \in DOMAIN Binding
    BY <1>2, ConstantFacts
  <2> QED
    BY <2>1, NewHotkeyFacts
<1>4. hotkeys \in Seq(HotkeyInfo) /\ Len(hotkeys) = H
  BY <1>2, <1>3, IsASeq, LenProperties
<1>5. \A n \in 1 .. H : hotkeys[n].id = n /\ hotkeys[n].downSent = FALSE
  BY <1>2, <1>3
<1>6. H \in 0 .. MaxID /\ H \in H .. MaxID
  BY <1>2, ConstantFacts
<1>7. <<>> \in Seq(Message) /\ <<>> \in Seq(1 .. MaxID) /\ Len(<<>>) = 0
  BY EmptySeq
<1>8. TypeOK
  <2>0. 0 \in 0 .. H
    BY <1>2
  <2>1. poll \in 0 .. Len(hotkeys) /\ curID \in 0 .. MaxID /\ ready \in BOOLEAN
    BY <1>1, <1>4, <1>6, <2>0
  <2>2. queue \in Seq(Message) /\ pttIDs \in Seq(1 .. MaxID) /\ keysDown \in Int
    BY <1>1, <1>7
  <2> QED
    BY <1>1, <1>4, <2>1, <2>2 DEF TypeOK
<1> HIDE DEF H
<1>9. IdInv
  <2>1. \A n \in 1 .. H : n > 0 /\ n <= H
    BY <1>2
  <2> QED
    BY <1>1, <1>4, <1>5, <1>6, <1>7, <2>1 DEF IdInv, H
<1>10. SourceInv
  <2>1. \A n \in 1 .. H : ~(n > H)
    BY <1>2
  <2> QED
    BY <1>1, <1>4, <1>5, <2>1 DEF SourceInv, H
<1>11. TalkInv
  BY <1>1 DEF TalkInv
<1> QED
  BY <1>8, <1>9, <1>10, <1>11 DEF IInv
-----------------------------------------------------------------------------
(***************************************************************************)
(* The hotkey thread.                                                      *)
(***************************************************************************)

\* What a round of the loop in HandleHotkeys does, whatever hotkey it is at: every
\* message says that the hotkey has gone down or up since the last.
Polled(h, posted) ==
  /\ poll \in 1 .. Len(hotkeys)
  /\ hotkeys' = [hotkeys EXCEPT ![poll] = h] /\ queue' = queue \o posted
  /\ poll' = IF poll < Len(hotkeys) THEN poll + 1 ELSE 0
  /\ UNCHANGED <<down, mods, snapshot, ready, curID, source, pttIDs, keysDown, talking>>
  /\ tapped' \subseteq Keys
  /\ h \in HotkeyInfo /\ h.id = Here.id /\ (h.downSent => h.hotkeyDown)
  /\ \/ posted = <<>> /\ (h.downSent <=> Here.downSent)
     \/ posted = Post(Here, TRUE) /\ ~Here.downSent /\ h.downSent
     \/ posted = Post(Here, FALSE) /\ Here.downSent /\ ~h.downSent
     \/ posted = Post(Here, TRUE) \o Post(Here, FALSE) /\ ~Here.downSent /\ ~h.downSent

\* The hotkey at which the loop is.
LEMMA HereFacts ==
  ASSUME IInv, Polling
  PROVE  /\ poll \in 1 .. Len(hotkeys) /\ Here = hotkeys[poll] /\ Here \in HotkeyInfo
         /\ Here.id \in Nat /\ Here.slot \in DOMAIN Binding
         /\ Here.modifiersDown \in BOOLEAN /\ Here.hotkeyDown \in BOOLEAN
         /\ Here.downSent \in BOOLEAN /\ (Here.downSent => Here.hotkeyDown)
<1>1. poll \in 0 .. Len(hotkeys) /\ poll > 0
  BY DEF IInv, TypeOK, Polling
<1>2. poll \in 1 .. Len(hotkeys)
  BY <1>1, StateFacts
<1>3. Here = hotkeys[poll] /\ Here \in HotkeyInfo
  BY <1>2, StateFacts DEF Here
<1>4. Here.downSent => Here.hotkeyDown
  BY <1>2, <1>3 DEF IInv, IdInv
<1> QED
  BY <1>2, <1>3, <1>4, HotkeyFacts

\* A round that ends with "continue".
LEMMA NextIsPolled ==
  ASSUME IInv, Polling, tapped' \subseteq Keys,
         NEW g \in HotkeyInfo, g.id = Here.id, g.downSent => g.hotkeyDown,
         NEW posted, NextHotkey(g, posted),
         \/ posted = <<>> /\ (g.downSent <=> Here.downSent)
         \/ posted = Post(Here, TRUE) /\ ~Here.downSent /\ g.downSent
  PROVE  Polled(g, posted)
<1>1. poll \in 1 .. Len(hotkeys)
  BY HereFacts
<1>2. /\ hotkeys' = [hotkeys EXCEPT ![poll] = g] /\ queue' = queue \o posted
      /\ poll' = IF poll < Len(hotkeys) THEN poll + 1 ELSE 0
      /\ UNCHANGED <<down, mods, snapshot, ready, curID, source, pttIDs, keysDown, talking>>
  BY DEF NextHotkey, sourceVars
<1> QED
  BY <1>1, <1>2 DEF Polled

\* A round that goes on to "key up".
LEMMA KeyUpIsPolled ==
  ASSUME IInv, Polling, tapped' \subseteq Keys,
         NEW g \in HotkeyInfo, g.id = Here.id, g.downSent => g.hotkeyDown,
         NEW before, KeyUp(g, before),
         \/ before = <<>> /\ (g.downSent <=> Here.downSent)
         \/ before = Post(Here, TRUE) /\ ~Here.downSent /\ g.downSent
  PROVE  \E h, posted : Polled(h, posted)
<1> DEFINE h == [g EXCEPT !.hotkeyDown = FALSE, !.downSent = @ /\ ~g.hotkeyDown]
           posted == IF g.hotkeyDown /\ g.downSent THEN before \o Post(g, FALSE) ELSE before
<1>1. NextHotkey(h, posted)
  BY DEF KeyUp
<1>2. /\ h \in HotkeyInfo /\ h.id = Here.id /\ h.downSent = FALSE
  BY HotkeyFacts DEF HotkeyInfo
<1>3. Post(g, FALSE) = Post(Here, FALSE)
  BY DEF Post
<1>4. \/ posted = <<>> /\ ~Here.downSent
      \/ posted = Post(Here, FALSE) /\ Here.downSent
      \/ posted = Post(Here, TRUE) \o Post(Here, FALSE) /\ ~Here.downSent
  <2>1. <<>> \o Post(Here, FALSE) = Post(Here, FALSE)
    BY DEF Post
  <2>2. CASE g.downSent
    <3>1. posted = before \o Post(Here, FALSE)
      BY <1>3, <2>2
    <3> QED
      BY <2>1, <2>2, <3>1
  <2>3. CASE ~g.downSent
    BY <2>3
  <2> QED
    BY <2>2, <2>3
<1> HIDE DEF h, posted
<1>5. /\ hotkeys' = [hotkeys EXCEPT ![poll] = h] /\ queue' = queue \o posted
      /\ poll' = IF poll < Len(hotkeys) THEN poll + 1 ELSE 0
      /\ UNCHANGED <<down, mods, snapshot, ready, curID, source, pttIDs, keysDown, talking>>
  BY <1>1 DEF NextHotkey, sourceVars
<1>6. poll \in 1 .. Len(hotkeys)
  BY HereFacts
<1>7. Polled(h, posted)
  BY <1>2, <1>4, <1>5, <1>6 DEF Polled
<1> QED
  BY <1>7

LEMMA XInputIsPolled ==
  ASSUME IInv, PollXInput
  PROVE  \E h, posted : Polled(h, posted)
<1> DEFINE g0 == [Here EXCEPT !.modifiersDown = FALSE]
           g1 == [g0 EXCEPT !.downSent = TRUE, !.hotkeyDown = TRUE]
<1>1. Polling /\ tapped' \subseteq Keys
  BY DEF PollXInput, IInv, TypeOK
<1>2. /\ Here \in HotkeyInfo /\ (Here.downSent => Here.hotkeyDown)
  BY <1>1, HereFacts
<1>3. /\ g0 \in HotkeyInfo /\ g0.id = Here.id /\ g0.downSent = Here.downSent
      /\ g0.hotkeyDown = Here.hotkeyDown
  BY <1>2 DEF HotkeyInfo
<1>4. g1 \in HotkeyInfo /\ g1.id = Here.id /\ g1.downSent = TRUE /\ g1.hotkeyDown = TRUE
  BY <1>2 DEF HotkeyInfo
<1>5. \/ ~g0.hotkeyDown /\ KeyUp(g1, Post(g0, TRUE))
      \/ KeyUp(g0, <<>>)
  BY DEF PollXInput
<1> HIDE DEF g0, g1
<1>6. CASE ~g0.hotkeyDown /\ KeyUp(g1, Post(g0, TRUE))
  <2>1. Post(g0, TRUE) = Post(Here, TRUE) /\ ~Here.downSent
    BY <1>2, <1>3, <1>6 DEF Post
  <2> QED
    BY <1>1, <1>4, <1>6, <2>1, KeyUpIsPolled
<1>7. CASE KeyUp(g0, <<>>)
  BY <1>1, <1>2, <1>3, <1>7, KeyUpIsPolled
<1> QED
  BY <1>5, <1>6, <1>7

LEMMA ModifiersIsPolled ==
  ASSUME IInv, PollModifiers
  PROVE  \E h, posted : Polled(h, posted)
<1> DEFINE g0 == [Here EXCEPT !.modifiersDown = ModifiersMatch]
           g1 == [Here EXCEPT !.downSent = @ \/ ~Here.hotkeyDown, !.hotkeyDown = TRUE]
           p1 == IF Here.hotkeyDown THEN <<>> ELSE Post(Here, TRUE)
<1>1. Polling /\ tapped' \subseteq Keys
  BY DEF PollModifiers, IInv, TypeOK
<1>2. /\ Here \in HotkeyInfo /\ (Here.downSent => Here.hotkeyDown)
      /\ Here.downSent \in BOOLEAN /\ Here.hotkeyDown \in BOOLEAN
  BY <1>1, HereFacts
<1>3. ModifiersMatch \in BOOLEAN
  BY DEF ModifiersMatch
<1>4. /\ g0 \in HotkeyInfo /\ g0.id = Here.id /\ g0.downSent = Here.downSent
      /\ g0.hotkeyDown = Here.hotkeyDown
  BY <1>2, <1>3 DEF HotkeyInfo
<1>5. /\ g1 \in HotkeyInfo /\ g1.id = Here.id /\ g1.hotkeyDown = TRUE
      /\ g1.downSent <=> (Here.downSent \/ ~Here.hotkeyDown)
  BY <1>2 DEF HotkeyInfo
<1>6. NextHotkey(g1, p1) \/ KeyUp(g0, <<>>)
  BY DEF PollModifiers
<1>7. \/ p1 = <<>> /\ (g1.downSent <=> Here.downSent)
      \/ p1 = Post(Here, TRUE) /\ ~Here.downSent /\ g1.downSent
  BY <1>2, <1>5
<1> HIDE DEF g0, g1, p1
<1>8. CASE NextHotkey(g1, p1)
  <2>1. Polled(g1, p1)
    BY <1>1, <1>5, <1>7, <1>8, NextIsPolled
  <2> QED
    BY <2>1
<1>9. CASE KeyUp(g0, <<>>)
  BY <1>1, <1>2, <1>4, <1>9, KeyUpIsPolled
<1> QED
  BY <1>6, <1>8, <1>9

LEMMA KeyIsPolled ==
  ASSUME IInv, PollKey
  PROVE  \E h, posted : Polled(h, posted)
<1> DEFINE isDown  == Matches /\ Bound.key \in down
           wasDown == Matches /\ Bound.key \in tapped
           fires   == (isDown \/ wasDown) /\ ~Here.hotkeyDown /\ Here.modifiersDown
           g       == [Here EXCEPT !.downSent = @ \/ fires,
                                   !.hotkeyDown = @ \/ isDown \/ wasDown]
           p       == IF fires THEN Post(g, TRUE) ELSE <<>>
           g0      == [g EXCEPT !.modifiersDown = ModifiersMatch]
<1>1. Polling /\ tapped' \subseteq Keys
  BY DEF PollKey, IInv, TypeOK
<1>2. /\ Here \in HotkeyInfo /\ (Here.downSent => Here.hotkeyDown)
      /\ Here.downSent \in BOOLEAN /\ Here.hotkeyDown \in BOOLEAN
  BY <1>1, HereFacts
<1>3. ModifiersMatch \in BOOLEAN
  BY DEF ModifiersMatch
<1>4. NextHotkey(g, p) \/ KeyUp(g0, p)
  BY DEF PollKey
<1> HIDE DEF isDown, wasDown
<1>5. /\ g \in HotkeyInfo /\ g.id = Here.id
      /\ g.downSent <=> (Here.downSent \/ fires)
      /\ g.hotkeyDown <=> (Here.hotkeyDown \/ isDown \/ wasDown)
  BY <1>2 DEF HotkeyInfo
<1>6. /\ g.downSent => g.hotkeyDown
      /\ \/ p = <<>> /\ (g.downSent <=> Here.downSent)
         \/ p = Post(Here, TRUE) /\ ~Here.downSent /\ g.downSent
  <2>1. CASE fires
    <3>1. p = Post(Here, TRUE)
      BY <1>5, <2>1 DEF Post
    <3>2. ~Here.downSent /\ g.downSent /\ g.hotkeyDown
      BY <1>2, <1>5, <2>1
    <3> QED
      BY <3>1, <3>2
  <2>2. CASE ~fires
    <3>1. p = <<>>
      BY <2>2
    <3>2. (g.downSent <=> Here.downSent) /\ (g.downSent => g.hotkeyDown)
      BY <1>2, <1>5, <2>2
    <3> QED
      BY <3>1, <3>2
  <2> QED
    BY <2>1, <2>2
<1>7. /\ g0 \in HotkeyInfo /\ g0.id = g.id /\ g0.downSent = g.downSent
      /\ g0.hotkeyDown = g.hotkeyDown
  <2> HIDE DEF g
  <2> QED
    BY <1>3, <1>5 DEF HotkeyInfo
<1> HIDE DEF fires, g, p, g0
<1>8. CASE NextHotkey(g, p)
  <2>1. Polled(g, p)
    BY <1>1, <1>5, <1>6, <1>8, NextIsPolled
  <2> QED
    BY <2>1
<1>9. CASE KeyUp(g0, p)
  BY <1>1, <1>5, <1>6, <1>7, <1>9, KeyUpIsPolled
<1> QED
  BY <1>4, <1>8, <1>9

\* The sets after such a round.
LEMMA PolledSets ==
  ASSUME IInv, NEW h, NEW posted, Polled(h, posted)
  PROVE  /\ hotkeys' \in Seq(HotkeyInfo) /\ Len(hotkeys') = Len(hotkeys)
         /\ \A n \in 1 .. Len(hotkeys) : hotkeys'[n] = IF n = poll THEN h ELSE hotkeys[n]
         /\ \A n \in 1 .. Len(hotkeys) : hotkeys'[n].id = hotkeys[n].id
         /\ PttHotkeys' = PttHotkeys /\ PttIDs' = PttIDs
         /\ Down' = IF poll \notin PttHotkeys THEN Down
                    ELSE IF h.downSent THEN Down \cup {poll} ELSE Down \ {poll}
         /\ Sent' = IF Here.id \notin PttIDs THEN Sent
                    ELSE IF h.downSent THEN Sent \cup {Here.id} ELSE Sent \ {Here.id}
<1>1. /\ poll \in 1 .. Len(hotkeys) /\ hotkeys' = [hotkeys EXCEPT ![poll] = h]
      /\ h \in HotkeyInfo /\ h.id = Here.id
  BY DEF Polled
<1>2. /\ hotkeys \in Seq(HotkeyInfo) /\ DOMAIN hotkeys = 1 .. Len(hotkeys)
      /\ h.downSent \in BOOLEAN /\ \A n \in 1 .. Len(hotkeys) : hotkeys[n].downSent \in BOOLEAN
  BY <1>1, StateFacts, HotkeyFacts
<1>3. /\ hotkeys' \in Seq(HotkeyInfo) /\ Len(hotkeys') = Len(hotkeys)
      /\ \A n \in 1 .. Len(hotkeys) : hotkeys'[n] = IF n = poll THEN h ELSE hotkeys[n]
  BY <1>1, <1>2, ExceptSeq
<1>4. Here = hotkeys[poll]
  BY DEF Here
<1>5. \A n \in 1 .. Len(hotkeys) : hotkeys'[n].id = hotkeys[n].id
  BY <1>1, <1>3, <1>4
<1>6. DOMAIN hotkeys' = 1 .. Len(hotkeys)
  BY <1>3, Ends
<1>7. PttHotkeys' = PttHotkeys
  BY <1>2, <1>5, <1>6 DEF PttHotkeys
<1>8. PttHotkeys \subseteq 1 .. Len(hotkeys)
  BY <1>2 DEF PttHotkeys
<1>9. PttIDs' = PttIDs
  BY <1>5, <1>7, <1>8 DEF PttIDs
<1>10. Down' = {n \in PttHotkeys : hotkeys'[n].downSent}
  BY <1>7 DEF Down
<1>11. Down' = IF poll \notin PttHotkeys THEN Down
               ELSE IF h.downSent THEN Down \cup {poll} ELSE Down \ {poll}
  BY <1>1, <1>2, <1>3, <1>8, <1>10 DEF Down
<1>12. Sent' = {hotkeys[n].id : n \in Down'}
  BY <1>5, <1>8, <1>10 DEF Sent
<1>13. \A m, n \in 1 .. Len(hotkeys) : hotkeys[m].id = hotkeys[n].id => m = n
  BY DEF IInv, IdInv
<1>14. Here.id \in PttIDs <=> poll \in PttHotkeys
  BY <1>1, <1>4, SetFacts
<1>15. Sent = {hotkeys[n].id : n \in Down} /\ Down \subseteq 1 .. Len(hotkeys)
  BY <1>8 DEF Sent, Down
<1>16. Sent' = IF Here.id \notin PttIDs THEN Sent
               ELSE IF h.downSent THEN Sent \cup {Here.id} ELSE Sent \ {Here.id}
  BY <1>1, <1>4, <1>11, <1>12, <1>13, <1>14, <1>15
<1> QED
  BY <1>3, <1>5, <1>7, <1>9, <1>11, <1>16

\* The messages that it posts.
LEMMA PolledQueue ==
  ASSUME IInv, NEW h, NEW posted, Polled(h, posted),
         NEW d, d = [id |-> Here.id, bDown |-> TRUE], NEW u, u = [id |-> Here.id, bDown |-> FALSE]
  PROVE  /\ d \in Message /\ u \in Message
         /\ \/ queue' = queue /\ (h.downSent <=> Here.downSent)
            \/ queue' = Append(queue, d) /\ ~Here.downSent /\ h.downSent
            \/ queue' = Append(queue, u) /\ Here.downSent /\ ~h.downSent
            \/ queue' = Append(Append(queue, d), u) /\ ~Here.downSent /\ ~h.downSent
<1>1. queue \in Seq(Message)
  BY StateFacts
<1>2. Here.id \in Nat
  BY HotkeyFacts DEF Polled
<1>3. d \in Message /\ u \in Message
  BY <1>2 DEF Message
<1>4. Post(Here, TRUE) = <<d>> /\ Post(Here, FALSE) = <<u>>
  BY DEF Post
<1>5. /\ queue' = queue \o posted
      /\ \/ posted = <<>> /\ (h.downSent <=> Here.downSent)
         \/ posted = <<d>> /\ ~Here.downSent /\ h.downSent
         \/ posted = <<u>> /\ Here.downSent /\ ~h.downSent
         \/ posted = <<d>> \o <<u>> /\ ~Here.downSent /\ ~h.downSent
  BY <1>4 DEF Polled
<1>6. /\ queue \o <<>> = queue /\ queue \o <<d>> = Append(queue, d)
      /\ queue \o <<u>> = Append(queue, u)
      /\ queue \o (<<d>> \o <<u>>) = Append(Append(queue, d), u)
  <2>1. queue \o <<>> = queue
    BY <1>1, ConcatEmptySeq
  <2>2. queue \o <<d>> = Append(queue, d) /\ queue \o <<u>> = Append(queue, u)
    BY <1>1, <1>3, AppendIsConcat
  <2>3. <<d>> \in Seq(Message) /\ <<u>> \in Seq(Message)
    BY <1>3
  <2>4. queue \o (<<d>> \o <<u>>) = (queue \o <<d>>) \o <<u>>
    BY <1>1, <2>3, ConcatAssociative
  <2>5. Append(queue, d) \in Seq(Message)
    BY <1>1, <1>3, Appended
  <2>6. Append(queue, d) \o <<u>> = Append(Append(queue, d), u)
    BY <1>3, <2>5, AppendIsConcat
  <2> QED
    BY <2>1, <2>2, <2>4, <2>6
<1> QED
  BY <1>3, <1>5, <1>6

\* The messages and the beliefs go together.
LEMMA PolledTalk ==
  ASSUME IInv, NEW h, NEW posted, Polled(h, posted),
         Leads(queue, PttIDs, talking, Sent), keysDown + Net(queue, PttIDs) = Cardinality(Down)
  PROVE  /\ Leads(queue', PttIDs, talking, Sent')
         /\ keysDown + Net(queue', PttIDs) = Cardinality(Down')
<1> DEFINE d == [id |-> Here.id, bDown |-> TRUE]
           u == [id |-> Here.id, bDown |-> FALSE]
           x == Here.id
<1>1. /\ d \in Message /\ u \in Message
      /\ \/ queue' = queue /\ (h.downSent <=> Here.downSent)
         \/ queue' = Append(queue, d) /\ ~Here.downSent /\ h.downSent
         \/ queue' = Append(queue, u) /\ Here.downSent /\ ~h.downSent
         \/ queue' = Append(Append(queue, d), u) /\ ~Here.downSent /\ ~h.downSent
  BY PolledQueue
<1>2. d.id = x /\ d.bDown = TRUE /\ u.id = x /\ u.bDown = FALSE
  OBVIOUS
<1>3. /\ x \in PttIDs <=> poll \in PttHotkeys
      /\ x \in Sent <=> poll \in Down
      /\ poll \in Down <=> poll \in PttHotkeys /\ Here.downSent
      /\ IsFiniteSet(Down) /\ Cardinality(Down) \in Nat
  <2>1. poll \in 1 .. Len(hotkeys) /\ Here = hotkeys[poll]
    BY DEF Polled, Here
  <2> QED
    BY <2>1, SetFacts DEF Down
<1>4. /\ Down' = IF poll \notin PttHotkeys THEN Down
                 ELSE IF h.downSent THEN Down \cup {poll} ELSE Down \ {poll}
      /\ Sent' = IF x \notin PttIDs THEN Sent
                 ELSE IF h.downSent THEN Sent \cup {x} ELSE Sent \ {x}
  BY PolledSets
<1>5. queue \in Seq(Message) /\ keysDown \in Int
  BY StateFacts
<1>6. \A q \in Seq(Message) : \A m \in Message : \A from, to :
        Leads(q, PttIDs, from, to) /\ (m.id \in PttIDs => (m.bDown <=> m.id \notin to))
          => Leads(Append(q, m), PttIDs, from, After(to, m, PttIDs))
  BY LeadsAppend
<1>7. \A q \in Seq(Message) : /\ Net(q, PttIDs) \in Int
                              /\ \A m \in Message : Net(Append(q, m), PttIDs) = Net(q, PttIDs) + Weight(m, PttIDs)
  BY NetAppend, NetType
<1>8. /\ Weight(d, PttIDs) = IF x \in PttIDs THEN 1 ELSE 0
      /\ Weight(u, PttIDs) = IF x \in PttIDs THEN -1 ELSE 0
      /\ \A set : After(set, d, PttIDs) = IF x \in PttIDs THEN set \cup {x} ELSE set
      /\ \A set : After(set, u, PttIDs) = IF x \in PttIDs THEN set \ {x} ELSE set
  BY <1>2 DEF Weight, After
<1>9. /\ Cardinality(Down \cup {poll}) = IF poll \in Down THEN Cardinality(Down) ELSE Cardinality(Down) + 1
      /\ Cardinality(Down \ {poll}) = IF poll \in Down THEN Cardinality(Down) - 1 ELSE Cardinality(Down)
  BY <1>3, FS_AddElement, FS_RemoveElement
<1> HIDE DEF d, u, x
<1>10. CASE queue' = queue /\ (h.downSent <=> Here.downSent)
  <2>1. Sent' = Sent /\ Down' = Down
    BY <1>3, <1>4, <1>10
  <2> QED
    BY <1>10, <2>1
<1>11. CASE queue' = Append(queue, d) /\ ~Here.downSent /\ h.downSent
  <2>1. Sent' = After(Sent, d, PttIDs)
    BY <1>4, <1>8, <1>11
  <2>2. Leads(queue', PttIDs, talking, Sent')
    BY <1>1, <1>2, <1>3, <1>5, <1>6, <1>11, <2>1
  <2>3. Net(queue', PttIDs) = Net(queue, PttIDs) + Weight(d, PttIDs) /\ Net(queue, PttIDs) \in Int
    BY <1>1, <1>5, <1>7, <1>11
  <2>4. Cardinality(Down') = Cardinality(Down) + Weight(d, PttIDs)
    BY <1>3, <1>4, <1>8, <1>9, <1>11
  <2> QED
    BY <1>3, <1>5, <1>8, <2>2, <2>3, <2>4
<1>12. CASE queue' = Append(queue, u) /\ Here.downSent /\ ~h.downSent
  <2>1. Sent' = After(Sent, u, PttIDs)
    BY <1>4, <1>8, <1>12
  <2>2. Leads(queue', PttIDs, talking, Sent')
    BY <1>1, <1>2, <1>3, <1>5, <1>6, <1>12, <2>1
  <2>3. Net(queue', PttIDs) = Net(queue, PttIDs) + Weight(u, PttIDs) /\ Net(queue, PttIDs) \in Int
    BY <1>1, <1>5, <1>7, <1>12
  <2>4. Cardinality(Down') = Cardinality(Down) + Weight(u, PttIDs)
    BY <1>3, <1>4, <1>8, <1>9, <1>12
  <2> QED
    BY <1>3, <1>5, <1>8, <2>2, <2>3, <2>4
<1>13. CASE queue' = Append(Append(queue, d), u) /\ ~Here.downSent /\ ~h.downSent
  <2> DEFINE w == Append(queue, d)
             t == After(Sent, d, PttIDs)
  <2>1. w \in Seq(Message)
    BY <1>1, <1>5, Appended
  <2>2. Leads(w, PttIDs, talking, t)
    BY <1>1, <1>2, <1>3, <1>5, <1>6, <1>13
  <2>3. Net(w, PttIDs) = Net(queue, PttIDs) + Weight(d, PttIDs) /\ Net(queue, PttIDs) \in Int
    BY <1>1, <1>5, <1>7
  <2>4. queue' = Append(w, u)
    BY <1>13
  <2>5. x \in PttIDs => x \in t
    BY <1>8
  <2>6. After(t, u, PttIDs) = Sent /\ Sent' = Sent /\ Down' = Down
    <3>1. x \notin Sent /\ poll \notin Down
      BY <1>3, <1>13
    <3>2. t = IF x \in PttIDs THEN Sent \cup {x} ELSE Sent
      BY <1>8
    <3>3. After(t, u, PttIDs) = IF x \in PttIDs THEN t \ {x} ELSE t
      BY <1>8
    <3>4. After(t, u, PttIDs) = Sent
      BY <3>1, <3>2, <3>3
    <3>5. Sent' = Sent /\ Down' = Down
      BY <1>4, <1>13, <3>1
    <3> QED
      BY <3>4, <3>5
  <2> HIDE DEF w, t
  <2>7. Leads(queue', PttIDs, talking, Sent')
    BY <1>1, <1>2, <1>6, <2>1, <2>2, <2>4, <2>5, <2>6
  <2>8. Net(queue', PttIDs) = Net(w, PttIDs) + Weight(u, PttIDs)
    BY <1>1, <1>7, <2>1, <2>4
  <2> QED
    BY <1>5, <1>8, <2>3, <2>6, <2>7, <2>8
<1> QED
  BY <1>1, <1>10, <1>11, <1>12, <1>13

LEMMA PolledIInv ==
  ASSUME IInv, NEW h, NEW posted, Polled(h, posted)
  PROVE  IInv'
<1>1. /\ poll \in 1 .. Len(hotkeys)
      /\ poll' = IF poll < Len(hotkeys) THEN poll + 1 ELSE 0
      /\ UNCHANGED <<down, mods, snapshot, ready, curID, source, pttIDs, keysDown, talking>>
      /\ tapped' \subseteq Keys /\ h.id = Here.id /\ (h.downSent => h.hotkeyDown)
  BY DEF Polled
<1>2. /\ hotkeys' \in Seq(HotkeyInfo) /\ Len(hotkeys') = Len(hotkeys)
      /\ \A n \in 1 .. Len(hotkeys) : hotkeys'[n] = IF n = poll THEN h ELSE hotkeys[n]
      /\ \A n \in 1 .. Len(hotkeys) : hotkeys'[n].id = hotkeys[n].id
      /\ PttIDs' = PttIDs
  BY PolledSets
<1>3. /\ queue' \in Seq(Message)
      /\ \A i \in 1 .. Len(queue') : queue'[i].id <= curID
  <2> DEFINE d == [id |-> Here.id, bDown |-> TRUE]
             u == [id |-> Here.id, bDown |-> FALSE]
  <2>1. /\ d \in Message /\ u \in Message
        /\ \/ queue' = queue
           \/ queue' = Append(queue, d)
           \/ queue' = Append(queue, u)
           \/ queue' = Append(Append(queue, d), u)
    BY PolledQueue
  <2>2. d.id = Here.id /\ u.id = Here.id /\ Here.id <= curID
    <3>1. hotkeys[poll].id <= curID
      BY <1>1 DEF IInv, IdInv
    <3> QED
      BY <3>1 DEF Here
  <2>3. queue \in Seq(Message) /\ \A i \in 1 .. Len(queue) : queue[i].id <= curID
    BY StateFacts DEF IInv, IdInv
  <2> HIDE DEF d, u
  <2>4. ASSUME NEW q \in Seq(Message), \A i \in 1 .. Len(q) : q[i].id <= curID,
               NEW m \in {d, u}
        PROVE  /\ Append(q, m) \in Seq(Message)
               /\ \A i \in 1 .. Len(Append(q, m)) : Append(q, m)[i].id <= curID
    <3>1. /\ Append(q, m) \in Seq(Message) /\ Len(Append(q, m)) = Len(q) + 1 /\ Len(q) \in Nat
          /\ \A i \in 1 .. Len(q) : Append(q, m)[i] = q[i]
          /\ Append(q, m)[Len(q) + 1] = m
      BY <2>1, Appended, Ends
    <3>2. \A i \in 1 .. Len(q) + 1 : i \in 1 .. Len(q) \/ i = Len(q) + 1
      BY <3>1
    <3> QED
      BY <2>2, <2>4, <3>1, <3>2
  <2>5. /\ Append(queue, d) \in Seq(Message)
        /\ \A i \in 1 .. Len(Append(queue, d)) : Append(queue, d)[i].id <= curID
    BY <2>3, <2>4
  <2> QED
    BY <2>1, <2>3, <2>4, <2>5
<1>4. TypeOK'
  <2>1. poll' \in 0 .. Len(hotkeys')
    BY <1>1, <1>2, StateFacts
  <2> QED
    BY <1>1, <1>2, <1>3, <2>1 DEF IInv, TypeOK
<1>5. IdInv'
  <2>1. \A n \in 1 .. Len(hotkeys') : hotkeys'[n].downSent => hotkeys'[n].hotkeyDown
    BY <1>1, <1>2 DEF IInv, IdInv
  <2> QED
    BY <1>1, <1>2, <1>3, <2>1 DEF IInv, IdInv
<1>6. SourceInv'
  BY <1>1, <1>2 DEF IInv, SourceInv
<1>7. TalkInv'
  <2> SUFFICES ASSUME source \in {"init", "live"}
               PROVE  /\ Leads(queue', PttIDs, talking, Sent')
                      /\ keysDown + Net(queue', PttIDs) = Cardinality(Down')
    BY <1>1, <1>2 DEF TalkInv
  <2>1. /\ Leads(queue, PttIDs, talking, Sent)
        /\ keysDown + Net(queue, PttIDs) = Cardinality(Down)
    BY DEF IInv, TalkInv
  <2> QED
    BY <2>1, PolledTalk
<1> QED
  BY <1>4, <1>5, <1>6, <1>7 DEF IInv

\* The steps of the hotkey thread.
LEMMA PollIInv ==
  ASSUME IInv, PollStep
  PROVE  IInv'
<1>1. CASE ReadModifiers \/ EnterPoll
  <2>1. /\ UNCHANGED <<down, tapped, mods, hotkeys, curID, queue, source, pttIDs, keysDown, talking>>
        /\ snapshot' \in {snapshot, mods} /\ ready' \in BOOLEAN
    BY <1>1 DEF ReadModifiers, EnterPoll, keyboardVars, sourceVars
  <2>2. poll' \in 0 .. Len(hotkeys)
    <3>1. poll \in 0 .. Len(hotkeys)
      BY DEF IInv, TypeOK
    <3>2. hotkeys # <<>> => 1 \in 0 .. Len(hotkeys)
      BY StateFacts, Ends
    <3>3. 0 \in 0 .. Len(hotkeys)
      BY StateFacts
    <3> QED
      BY <1>1, <3>1, <3>2, <3>3 DEF ReadModifiers, EnterPoll
  <2>3. TypeOK'
    BY <2>1, <2>2 DEF IInv, TypeOK
  <2>4. IdInv' /\ SourceInv'
    BY <2>1 DEF IInv, IdInv, SourceInv
  <2>5. PttIDs' = PttIDs /\ Sent' = Sent /\ Down' = Down
    BY <2>1 DEF PttIDs, PttHotkeys, Sent, Down
  <2>6. TalkInv'
    BY <2>1, <2>5 DEF IInv, TalkInv
  <2> QED
    BY <2>3, <2>4, <2>6 DEF IInv
<1>2. CASE PollXInput
  BY <1>2, XInputIsPolled, PolledIInv
<1>3. CASE PollModifiers
  BY <1>3, ModifiersIsPolled, PolledIInv
<1>4. CASE PollKey
  BY <1>4, KeyIsPolled, PolledIInv
<1> QED
  BY <1>1, <1>2, <1>3, <1>4 DEF PollStep
-----------------------------------------------------------------------------
(***************************************************************************)
(* The main thread, and the user.                                          *)
(***************************************************************************)

\* A message: it counts if it is for one of the plugin's hotkeys.
LEMMA DispatchProperties ==
  ASSUME IInv, DispatchMessage
  PROVE  /\ queue # <<>> /\ Head(queue) \in Message /\ queue' = Tail(queue) /\ queue' \in Seq(Message)
         /\ UNCHANGED <<down, tapped, mods, snapshot, poll, ready, hotkeys, curID, source, pttIDs>>
         /\ talking' = After(talking, Head(queue), PttIDs)
         /\ keysDown' = keysDown + Weight(Head(queue), PttIDs)
         /\ keysDown' # keysDown => Head(queue).id \in PttIDs /\ source = "live"
<1> DEFINE m == Head(queue)
<1>1. /\ MainIdle /\ queue # <<>> /\ queue' = Tail(queue)
      /\ UNCHANGED <<down, tapped, mods, snapshot, poll, ready, hotkeys, curID, source, pttIDs>>
      /\ IF \E n \in DOMAIN hotkeys : hotkeys[n].id = m.id /\ m.id > Len(HostSlots)
         THEN /\ keysDown' = IF m.bDown THEN keysDown + 1 ELSE keysDown - 1
              /\ talking' = IF m.bDown THEN talking \cup {m.id} ELSE talking \ {m.id}
         ELSE UNCHANGED <<keysDown, talking>>
  BY DEF DispatchMessage, keyboardVars, pollVars
<1>2. queue \in Seq(Message) /\ keysDown \in Int /\ DOMAIN hotkeys = 1 .. Len(hotkeys)
  BY StateFacts
<1>3. m \in Message /\ m.bDown \in BOOLEAN /\ Tail(queue) \in Seq(Message)
  BY <1>1, <1>2, Ends, MessageFacts
<1> HIDE DEF m
<1>4. (\E n \in DOMAIN hotkeys : hotkeys[n].id = m.id /\ m.id > Len(HostSlots)) <=> m.id \in PttIDs
  BY DEF PttIDs, PttHotkeys
<1>5. talking' = After(talking, m, PttIDs)
  BY <1>1, <1>3, <1>4 DEF After
<1>6. keysDown' = keysDown + Weight(m, PttIDs)
  BY <1>1, <1>2, <1>3, <1>4 DEF Weight
<1>7. keysDown' # keysDown => m.id \in PttIDs
  BY <1>1, <1>4
<1>8. m.id \in PttIDs => source = "live"
  <2>1. source = "none" => PttIDs = {}
    <3> SUFFICES ASSUME source = "none" PROVE PttIDs = {}
      OBVIOUS
    <3>1. pttIDs = <<>> /\ Len(<<>>) = 0
      BY EmptySeq DEF IInv, SourceInv
    <3>2. \A n \in 1 .. Len(hotkeys) : ~(hotkeys[n].id > Len(HostSlots))
      BY <3>1 DEF IInv, SourceInv
    <3> QED
      BY <1>2, <3>2 DEF PttIDs, PttHotkeys
  <2> QED
    BY <1>1, <2>1 DEF MainIdle
<1> QED
  BY <1>1, <1>3, <1>5, <1>6, <1>7, <1>8 DEF m

LEMMA DispatchIInv ==
  ASSUME IInv, DispatchMessage
  PROVE  IInv'
<1> DEFINE m == Head(queue)
<1>1. /\ queue # <<>> /\ m \in Message /\ queue' = Tail(queue) /\ queue' \in Seq(Message)
      /\ UNCHANGED <<down, tapped, mods, snapshot, poll, ready, hotkeys, curID, source, pttIDs>>
      /\ talking' = After(talking, m, PttIDs)
      /\ keysDown' = keysDown + Weight(m, PttIDs)
  BY DispatchProperties
<1>2. queue \in Seq(Message) /\ keysDown \in Int
  BY StateFacts
<1>3. Weight(m, PttIDs) \in Int /\ keysDown' \in Int
  <2> HIDE DEF m
  <2>1. Weight(m, PttIDs) \in Int
    BY DEF Weight
  <2> QED
    BY <1>1, <1>2, <2>1
<1>4. PttIDs \subseteq 1 .. MaxID
  <2>1. \A n \in 1 .. Len(hotkeys) : hotkeys[n].id \in 1 .. MaxID
    BY StateFacts, ConstantFacts DEF IInv, IdInv
  <2> QED
    BY <2>1, StateFacts DEF PttIDs, PttHotkeys
<1>5. talking' \subseteq 1 .. MaxID
  <2>1. talking \subseteq 1 .. MaxID
    BY DEF IInv, TypeOK
  <2> HIDE DEF m
  <2> QED
    BY <1>1, <1>4, <2>1 DEF After
<1>6. TypeOK'
  BY <1>1, <1>3, <1>5 DEF IInv, TypeOK
<1>7. \A i \in 1 .. Len(queue') : queue'[i].id <= curID
  <2> TAKE i \in 1 .. Len(queue')
  <2>1. i \in 1 .. Len(queue) - 1 /\ i + 1 \in 1 .. Len(queue) /\ queue'[i] = queue[i + 1]
    BY <1>1, <1>2, Ends
  <2> QED
    BY <2>1 DEF IInv, IdInv
<1>8. IdInv' /\ SourceInv'
  BY <1>1, <1>7 DEF IInv, IdInv, SourceInv
<1>9. PttIDs' = PttIDs /\ Sent' = Sent /\ Down' = Down
  BY <1>1 DEF PttIDs, PttHotkeys, Sent, Down
<1>10. TalkInv'
  <2> SUFFICES ASSUME source \in {"init", "live"}
               PROVE  /\ Leads(queue', PttIDs, talking', Sent)
                      /\ keysDown' + Net(queue', PttIDs) = Cardinality(Down)
    BY <1>1, <1>9 DEF TalkInv
  <2>1. /\ Leads(queue, PttIDs, talking, Sent)
        /\ keysDown + Net(queue, PttIDs) = Cardinality(Down)
    BY DEF IInv, TalkInv
  <2>2. Leads(queue', PttIDs, talking', Sent)
    BY <1>1, <1>2, <2>1, LeadsTail
  <2>3. Net(queue', PttIDs) = Net(queue, PttIDs) - Weight(m, PttIDs) /\ Net(queue, PttIDs) \in Int
    BY <1>1, <1>2, NetTail, NetType
  <2> HIDE DEF m
  <2> QED
    BY <1>1, <1>2, <1>3, <2>1, <2>2, <2>3
<1> QED
  BY <1>6, <1>8, <1>10 DEF IInv

LEMMA InitializeIInv ==
  ASSUME IInv, Initialize
  PROVE  IInv'
<1>1. /\ source = "none" /\ curID + Len(PttSlots) <= MaxID /\ source' = "init"
      /\ pttIDs' = <<>> /\ keysDown' = 0 /\ talking' = {}
      /\ UNCHANGED <<down, tapped, mods, snapshot, poll, ready, hotkeys, curID, queue>>
  BY DEF Initialize, keyboardVars, pollVars
<1>2. <<>> \in Seq(1 .. MaxID) /\ Len(<<>>) = 0
  BY EmptySeq
<1>3. pttIDs = <<>>
  BY <1>1 DEF IInv, SourceInv
<1>4. \A n \in 1 .. Len(hotkeys) : ~(hotkeys[n].id > Len(HostSlots))
  BY <1>2, <1>3 DEF IInv, SourceInv
<1>5. TypeOK'
  <2>1. pttIDs' \in Seq(1 .. MaxID) /\ keysDown' \in Int
    BY <1>1, <1>2
  <2> QED
    BY <1>1, <2>1 DEF IInv, TypeOK
<1>6. IdInv'
  BY <1>1 DEF IInv, IdInv
<1>7. SourceInv'
  <2>1. Len(pttIDs') = 0 /\ 0 < Len(PttSlots) /\ curID + Len(PttSlots) - 0 <= MaxID
    BY <1>1, <1>2, StateFacts, ConstantFacts
  <2>2. source' = "init" /\ UNCHANGED <<hotkeys, curID>>
    BY <1>1
  <2> QED
    BY <1>4, <2>1, <2>2 DEF SourceInv
<1>8. TalkInv'
  <2>1. PttHotkeys' = {}
    BY <1>1, <1>4, StateFacts DEF PttHotkeys
  <2>2. PttIDs' = {} /\ Down' = {} /\ Sent' = {}
    BY <2>1 DEF PttIDs, Down, Sent
  <2>3. Leads(queue, {}, {}, {})
    <3> DEFINE b == [i \in 0 .. Len(queue) |-> {}]
    <3>1. Len(queue) \in Nat
      BY StateFacts, Ends
    <3>2. /\ b \in [0 .. Len(queue) -> SUBSET {}] /\ b[0] = {} /\ b[Len(queue)] = {}
      BY <3>1
    <3>3. \A i \in 1 .. Len(queue) : b[i] = {} /\ b[i - 1] = {}
      BY <3>1
    <3> HIDE DEF b
    <3> QED
      BY <3>2, <3>3 DEF Leads, After
  <2>4. Net(queue, {}) = 0 /\ Cardinality({}) = 0
    BY StateFacts, NetNone, FS_EmptySet
  <2>5. /\ Leads(queue', PttIDs', talking', Sent')
        /\ keysDown' + Net(queue', PttIDs') = Cardinality(Down')
    BY <1>1, <2>2, <2>3, <2>4
  <2> QED
    BY <2>5 DEF TalkInv
<1> QED
  BY <1>5, <1>6, <1>7, <1>8 DEF IInv

LEMMA CreateIInv ==
  ASSUME IInv, CreateHotkey
  PROVE  IInv'
<1> DEFINE x == curID + 1
           L == Len(hotkeys)
           k == Len(pttIDs)
           h == NewHotkey(x, PttSlots[k + 1])
<1>1. /\ source = "init" /\ ~Polling /\ curID' = x
      /\ hotkeys' = Append(hotkeys, h) /\ pttIDs' = Append(pttIDs, x)
      /\ source' = IF Len(pttIDs') = Len(PttSlots) THEN "live" ELSE "init"
      /\ UNCHANGED <<down, tapped, mods, snapshot, poll, ready, queue, keysDown, talking>>
  BY DEF CreateHotkey, keyboardVars, pollVars
<1>2. /\ hotkeys \in Seq(HotkeyInfo) /\ queue \in Seq(Message) /\ pttIDs \in Seq(1 .. MaxID)
      /\ L \in Nat /\ k \in Nat /\ curID \in Nat /\ Len(HostSlots) <= curID /\ curID <= MaxID
      /\ DOMAIN hotkeys = 1 .. L
  BY StateFacts, Ends
<1>3. /\ k < Len(PttSlots) /\ curID + Len(PttSlots) - k <= MaxID /\ Len(PttSlots) \in Nat
      /\ Len(HostSlots) \in Nat /\ MaxID \in Nat
  BY <1>1, ConstantFacts DEF IInv, SourceInv
<1>4. x \in Nat /\ x \in 1 .. MaxID /\ x > Len(HostSlots) /\ k + 1 \in 1 .. Len(PttSlots)
      /\ x \in Len(HostSlots) .. MaxID /\ x \in 0 .. MaxID
  <2> HIDE DEF k
  <2> QED
    BY <1>2, <1>3
<1>5. h \in HotkeyInfo /\ h.id = x /\ h.downSent = FALSE
  <2> HIDE DEF x, k
  <2> QED
    BY <1>4, ConstantFacts, NewHotkeyFacts
<1> HIDE DEF h
<1>6. /\ hotkeys' \in Seq(HotkeyInfo) /\ Len(hotkeys') = L + 1 /\ hotkeys'[L + 1] = h
      /\ \A n \in 1 .. L : hotkeys'[n] = hotkeys[n]
  BY <1>1, <1>2, <1>5, Appended
<1>7. /\ pttIDs' \in Seq(1 .. MaxID) /\ Len(pttIDs') = k + 1 /\ pttIDs'[k + 1] = x /\ pttIDs' # <<>>
      /\ \A i \in 1 .. k : pttIDs'[i] = pttIDs[i]
  BY <1>1, <1>2, <1>4, Appended
<1>8. /\ \A n : n \in 1 .. L + 1 <=> n \in 1 .. L \/ n = L + 1
      /\ L + 1 \notin 1 .. L
  BY <1>2
<1>9. \A i \in 1 .. Len(queue) : queue[i].id <= curID /\ queue[i].id \in Nat
  BY <1>2, Ends, MessageFacts DEF IInv, IdInv
<1>10. \A n \in 1 .. L : hotkeys[n].id > 0 /\ hotkeys[n].id <= curID /\ hotkeys[n].id \in Nat
  BY StateFacts DEF IInv, IdInv
<1> HIDE DEF L, k
<1>11. TypeOK'
  <2>1. poll' \in 0 .. Len(hotkeys')
    <3>1. poll \in 0 .. L
      BY DEF IInv, TypeOK, L
    <3> QED
      BY <1>1, <1>2, <1>6, <3>1
  <2>2. source' \in {"none", "init", "live", "gone"} /\ curID' \in 0 .. MaxID
    BY <1>1, <1>4
  <2> QED
    BY <1>1, <1>6, <1>7, <2>1, <2>2 DEF IInv, TypeOK
<1>12. IdInv'
  <2>1. \A n \in 1 .. L + 1 : hotkeys'[n].id > 0 /\ hotkeys'[n].id <= x
    BY <1>2, <1>4, <1>5, <1>6, <1>8, <1>10
  <2>2. \A n \in 1 .. L : hotkeys'[n].id # x
    BY <1>2, <1>6, <1>10
  <2>3. \A m, n \in 1 .. L : hotkeys'[m].id = hotkeys'[n].id => m = n
    BY <1>6 DEF IInv, IdInv, L
  <2>4. \A m, n \in 1 .. L + 1 : hotkeys'[m].id = hotkeys'[n].id => m = n
    BY <1>5, <1>6, <1>8, <2>2, <2>3
  <2>5. \A i \in 1 .. Len(queue) : queue[i].id <= x
    BY <1>2, <1>9
  <2>6. \A n \in 1 .. L + 1 : hotkeys'[n].downSent => hotkeys'[n].hotkeyDown
    <3>1. \A n \in 1 .. L : hotkeys[n].downSent => hotkeys[n].hotkeyDown
      BY DEF IInv, IdInv, L
    <3> QED
      BY <1>5, <1>6, <1>8, <3>1
  <2> HIDE DEF x
  <2> QED
    BY <1>1, <1>4, <1>6, <2>1, <2>4, <2>5, <2>6 DEF IdInv
<1>13. SourceInv'
  <2>1. \A n \in 1 .. Len(hotkeys') : hotkeys'[n].id > Len(HostSlots) =>
          \E i \in 1 .. Len(pttIDs') : pttIDs'[i] = hotkeys'[n].id
    <3> TAKE n \in 1 .. Len(hotkeys')
    <3> HAVE hotkeys'[n].id > Len(HostSlots)
    <3>1. CASE n = L + 1
      <4>1. k + 1 \in 1 .. Len(pttIDs') /\ pttIDs'[k + 1] = hotkeys'[n].id
        BY <1>2, <1>5, <1>6, <1>7, <3>1
      <4> QED
        BY <4>1
    <3>2. CASE n # L + 1
      <4>1. n \in 1 .. L /\ hotkeys'[n] = hotkeys[n]
        BY <1>6, <1>8, <3>2
      <4>2. PICK i \in 1 .. k : pttIDs[i] = hotkeys[n].id
        BY <4>1 DEF IInv, SourceInv, L, k
      <4>3. i \in 1 .. Len(pttIDs') /\ pttIDs'[i] = hotkeys'[n].id
        BY <1>2, <1>7, <4>1, <4>2
      <4> QED
        BY <4>3
    <3> QED
      BY <3>1, <3>2
  <2>2. source' = "init" => /\ Len(pttIDs') < Len(PttSlots)
                            /\ curID' + Len(PttSlots) - Len(pttIDs') <= MaxID
    BY <1>1, <1>2, <1>3, <1>7
  <2> QED
    BY <1>1, <1>7, <2>1, <2>2 DEF SourceInv
<1>14. PttIDs' = PttIDs \cup {x} /\ Down' = Down /\ Sent' = Sent
  <2>1. PttHotkeys = {n \in 1 .. L : hotkeys[n].id > Len(HostSlots)}
    BY <1>2 DEF PttHotkeys, L
  <2>2. PttHotkeys' = {n \in 1 .. L + 1 : hotkeys'[n].id > Len(HostSlots)}
    BY <1>6, Ends DEF PttHotkeys
  <2> HIDE DEF x
  <2>3. PttHotkeys' = PttHotkeys \cup {L + 1}
    BY <1>4, <1>5, <1>6, <1>8, <2>1, <2>2
  <2>4. \A n \in PttHotkeys : hotkeys'[n] = hotkeys[n]
    BY <1>6, <2>1
  <2>5. PttIDs' = PttIDs \cup {x}
    BY <1>5, <1>6, <2>3, <2>4 DEF PttIDs
  <2>6. Down' = Down
    BY <1>5, <1>6, <2>3, <2>4 DEF Down
  <2>7. Sent' = Sent
    BY <2>4, <2>6 DEF Sent, Down
  <2> QED
    BY <2>5, <2>6, <2>7
<1>15. TalkInv'
  <2>1. /\ Leads(queue, PttIDs, talking, Sent)
        /\ keysDown + Net(queue, PttIDs) = Cardinality(Down)
    BY <1>1 DEF IInv, TalkInv
  <2>2. \A i \in 1 .. Len(queue) : queue[i].id # x
    BY <1>2, <1>9
  <2> HIDE DEF x
  <2>3. Leads(queue, PttIDs \cup {x}, talking, Sent)
    BY <1>2, <2>1, <2>2, LeadsGrow
  <2>4. Net(queue, PttIDs \cup {x}) = Net(queue, PttIDs)
    BY <1>2, <2>2, NetGrow
  <2> QED
    BY <1>1, <1>14, <2>1, <2>3, <2>4 DEF TalkInv
<1> QED
  BY <1>11, <1>12, <1>13, <1>15 DEF IInv

LEMMA DestroyIInv ==
  ASSUME IInv, Destroy
  PROVE  IInv'
<1>1. /\ source = "live" /\ source' = "gone"
      /\ UNCHANGED <<down, tapped, mods, snapshot, poll, ready, hotkeys, curID, queue,
                     pttIDs, keysDown, talking>>
  BY DEF Destroy, keyboardVars, pollVars
<1>2. TypeOK' /\ IdInv' /\ SourceInv' /\ TalkInv'
  BY <1>1 DEF IInv, TypeOK, IdInv, SourceInv, TalkInv
<1> QED
  BY <1>2 DEF IInv

LEMMA DeleteIInv ==
  ASSUME IInv, DeleteHotkey
  PROVE  IInv'
<1> DEFINE L == Len(hotkeys)
           At(i, n) == IF i < n THEN i ELSE i + 1
<1>1. /\ source = "gone" /\ ~Polling /\ pttIDs' = Tail(pttIDs)
      /\ source' = IF pttIDs' = <<>> THEN "none" ELSE "gone"
      /\ UNCHANGED <<down, tapped, mods, snapshot, poll, ready, curID, queue, keysDown, talking>>
  BY DEF DeleteHotkey, keyboardVars, pollVars
<1>2. PICK n \in DOMAIN hotkeys : hotkeys[n].id = Head(pttIDs) /\ hotkeys' = RemoveAt(hotkeys, n)
  BY DEF DeleteHotkey
<1>3. /\ hotkeys \in Seq(HotkeyInfo) /\ pttIDs \in Seq(1 .. MaxID)
      /\ L \in Nat /\ DOMAIN hotkeys = 1 .. L /\ n \in 1 .. L
  BY <1>2, StateFacts
<1>4. pttIDs # <<>>
  BY <1>1 DEF IInv, SourceInv
<1>5. /\ pttIDs' \in Seq(1 .. MaxID) /\ Head(pttIDs) = pttIDs[1] /\ Len(pttIDs) \in Nat
      /\ Len(pttIDs') = Len(pttIDs) - 1
      /\ \A i \in 1 .. Len(pttIDs) - 1 : pttIDs'[i] = pttIDs[i + 1]
  BY <1>1, <1>3, <1>4, Ends
<1>6. /\ hotkeys' \in Seq(HotkeyInfo) /\ Len(hotkeys') = L - 1
      /\ \A i \in 1 .. L - 1 : hotkeys'[i] = hotkeys[At(i, n)]
  BY <1>2, <1>3, Removed
<1> HIDE DEF L
<1>7. /\ \A i \in 1 .. L - 1 : At(i, n) \in 1 .. L /\ At(i, n) # n
      /\ \A i, j \in 1 .. L - 1 : At(i, n) = At(j, n) => i = j
  BY <1>3
<1> HIDE DEF At
<1>8. TypeOK'
  <2>1. poll = 0
    <3>1. poll \in 0 .. L
      BY DEF IInv, TypeOK, L
    <3> QED
      BY <1>1, <1>3, <3>1 DEF Polling
  <2>2. 0 \in 0 .. Len(hotkeys')
    BY <1>3, <1>6
  <2>3. poll' \in 0 .. Len(hotkeys') /\ source' \in {"none", "init", "live", "gone"}
    BY <1>1, <2>1, <2>2
  <2> QED
    BY <1>1, <1>5, <1>6, <2>3 DEF IInv, TypeOK
<1>9. IdInv'
  <2>1. \A i \in 1 .. L : /\ hotkeys[i].id > 0 /\ hotkeys[i].id <= curID
                          /\ hotkeys[i].downSent => hotkeys[i].hotkeyDown
    BY DEF IInv, IdInv, L
  <2>2. \A i, j \in 1 .. L : hotkeys[i].id = hotkeys[j].id => i = j
    BY DEF IInv, IdInv, L
  <2>3. \A i \in 1 .. L - 1 : /\ hotkeys'[i].id > 0 /\ hotkeys'[i].id <= curID
                              /\ hotkeys'[i].downSent => hotkeys'[i].hotkeyDown
    BY <1>6, <1>7, <2>1
  <2>4. \A i, j \in 1 .. L - 1 : hotkeys'[i].id = hotkeys'[j].id => i = j
    BY <1>6, <1>7, <2>2
  <2> QED
    BY <1>1, <1>6, <2>3, <2>4 DEF IInv, IdInv
<1>10. SourceInv'
  <2>1. \A i \in 1 .. Len(hotkeys') : hotkeys'[i].id > Len(HostSlots) =>
          \E j \in 1 .. Len(pttIDs') : pttIDs'[j] = hotkeys'[i].id
    <3> TAKE i \in 1 .. Len(hotkeys')
    <3> HAVE hotkeys'[i].id > Len(HostSlots)
    <3>1. At(i, n) \in 1 .. L /\ At(i, n) # n /\ hotkeys'[i] = hotkeys[At(i, n)]
      BY <1>6, <1>7
    <3>2. hotkeys[At(i, n)].id # pttIDs[1]
      BY <1>2, <1>3, <1>5, <3>1 DEF IInv, IdInv, L
    <3>3. PICK j \in 1 .. Len(pttIDs) : pttIDs[j] = hotkeys'[i].id
      BY <3>1 DEF IInv, SourceInv, L
    <3>4. j - 1 \in 1 .. Len(pttIDs') /\ j - 1 \in 1 .. Len(pttIDs) - 1 /\ (j - 1) + 1 = j
      BY <1>5, <3>1, <3>2, <3>3
    <3>5. pttIDs'[j - 1] = hotkeys'[i].id
      BY <1>5, <3>3, <3>4
    <3> QED
      BY <3>4, <3>5
  <2> QED
    BY <1>1, <2>1 DEF SourceInv
<1>11. TalkInv'
  BY <1>1 DEF TalkInv
<1> QED
  BY <1>8, <1>9, <1>10, <1>11 DEF IInv

LEMMA UserIInv ==
  ASSUME IInv, UserStep \/ UNCHANGED vars
  PROVE  IInv'
<1>1. /\ down' \subseteq Keys /\ tapped' \subseteq Keys /\ mods' \subseteq Modifiers
      /\ UNCHANGED <<snapshot, poll, ready, hotkeys, curID, queue, source, pttIDs, keysDown, talking>>
  BY DEF UserStep, PressKey, ReleaseKey, MoveModifier, IInv, TypeOK, vars, keyboardVars, pollVars,
         sourceVars
<1>2. TypeOK' /\ IdInv' /\ SourceInv'
  BY <1>1 DEF IInv, TypeOK, IdInv, SourceInv
<1>3. PttIDs' = PttIDs /\ Sent' = Sent /\ Down' = Down
  BY <1>1 DEF PttIDs, PttHotkeys, Sent, Down
<1>4. TalkInv'
  BY <1>1, <1>3 DEF IInv, TalkInv
<1> QED
  BY <1>2, <1>4 DEF IInv
-----------------------------------------------------------------------------
(***************************************************************************)
(* The theorems.                                                           *)
(***************************************************************************)

LEMMA NextIInv ==
  ASSUME IInv, [Next]_vars
  PROVE  IInv'
<1>1. CASE UserStep \/ UNCHANGED vars
  BY <1>1, UserIInv
<1>2. CASE PollStep
  BY <1>2, PollIInv
<1>3. CASE DispatchMessage
  BY <1>3, DispatchIInv
<1>4. CASE Initialize
  BY <1>4, InitializeIInv
<1>5. CASE CreateHotkey
  BY <1>5, CreateIInv
<1>6. CASE Destroy
  BY <1>6, DestroyIInv
<1>7. CASE DeleteHotkey
  BY <1>7, DeleteIInv
<1> QED
  BY <1>1, <1>2, <1>3, <1>4, <1>5, <1>6, <1>7 DEF Next, MainStep

\* The invariant holds throughout.
THEOREM InductiveInvariant == Spec => []IInv
  BY InitIInv, NextIInv, PTL DEF Spec

\* The variables always have their types; HandleHotkeys is never behind the end of
\* the list, which grows and shrinks between its polls.
THEOREM TypeCorrect == Spec => []TypeOK
<1>1. IInv => TypeOK
  BY DEF IInv
<1> QED
  BY <1>1, InductiveInvariant, PTL

\* _pttKeysDown and the messages on their way add up to the hotkeys that are down.
THEOREM CountIsRight == Spec => []KeysDownAddsUp
<1>1. ASSUME IInv PROVE KeysDownAddsUp
  <2>1. DOMAIN queue = 1 .. Len(queue)
    BY <1>1, StateFacts, Ends
  <2>2. \A v : Pending(v) = PendingIn(queue, PttIDs, v)
    BY <2>1 DEF Pending, PendingIn
  <2> DEFINE D == Cardinality(PendingIn(queue, PttIDs, TRUE))
             U == Cardinality(PendingIn(queue, PttIDs, FALSE))
  <2>3. Cardinality(Pending(TRUE)) = D /\ Cardinality(Pending(FALSE)) = U
    BY <2>2, Zenon
  <2>4. Net(queue, PttIDs) = D - U
    BY Zenon DEF Net
  <2>5. D \in Nat /\ U \in Nat /\ keysDown \in Int
    BY <1>1, StateFacts, PendingFinite, Zenon
  <2>6. source = "live" => keysDown + Net(queue, PttIDs) = Cardinality(Down)
    BY <1>1 DEF IInv, TalkInv
  <2> HIDE DEF D, U
  <2>7. source = "live" => keysDown + D - U = Cardinality(Down)
    BY <2>4, <2>5, <2>6
  <2> QED
    BY <2>3, <2>7, Zenon DEF KeysDownAddsUp, Down
<1> QED
  BY <1>1, InductiveInvariant, PTL

\* PushToTalkHotkeyCB hears "down" and "up" of a hotkey in turn, and only while its
\* source lives, although the messages may be older than the source.
THEOREM CallbacksAlternate == Spec => EventsAlternate
<1>1. ASSUME IInv, DispatchMessage, keysDown' # keysDown
      PROVE  source = "live" /\ (Head(queue).bDown <=> Head(queue).id \notin talking)
  <2>1. /\ queue # <<>> /\ queue \in Seq(Message)
        /\ Head(queue).id \in PttIDs /\ source = "live"
    BY <1>1, DispatchProperties, StateFacts
  <2>2. Leads(queue, PttIDs, talking, Sent)
    BY <1>1, <2>1 DEF IInv, TalkInv
  <2>3. Head(queue).bDown <=> Head(queue).id \notin talking
    BY <2>1, <2>2, LeadsTail
  <2> QED
    BY <2>1, <2>3
<1>2. IInv => [DispatchMessage /\ keysDown' # keysDown =>
                 /\ source = "live"
                 /\ Head(queue).bDown <=> Head(queue).id \notin talking]_vars
  BY <1>1
<1> QED
  BY <1>2, InductiveInvariant, PTL DEF EventsAlternate

\* HandleHotkeys reports a hotkey on the keyboard up only if it has seen a part of
\* its combination up.
THEOREM KeyboardIsBelieved == Spec => KeyboardUpMeansReleased
<1>1. ASSUME IInv, [Next]_vars, HeldHere, Bound.kind # "xinput", Len(queue') > Len(queue)
      PROVE  queue'[Len(queue')].bDown
  <2>1. queue \in Seq(Message) /\ Len(queue) \in Nat
    BY <1>1, StateFacts, Ends
  <2>2. Here.id \in Nat /\ Polling
    BY <1>1, HereFacts DEF HeldHere
  <2>3. ASSUME NEW h, NEW posted, NextHotkey(h, posted), posted = <<>> \/ \E g : posted = Post(g, TRUE)
        PROVE  queue'[Len(queue')].bDown
    <3>1. queue' = queue \o posted
      BY <2>3 DEF NextHotkey
    <3>2. CASE posted = <<>>
      <4>1. queue' = queue
        BY <2>1, <3>1, <3>2, ConcatEmptySeq
      <4> QED
        BY <1>1, <2>1, <4>1
    <3>3. CASE \E g : posted = Post(g, TRUE)
      <4>1. PICK g : posted = <<[id |-> g.id, bDown |-> TRUE]>>
        BY <3>3 DEF Post
      <4> DEFINE m == [id |-> g.id, bDown |-> TRUE]
      <4>2. posted = <<m>> /\ m.bDown = TRUE
        BY <4>1
      <4> HIDE DEF m
      <4>3. queue' = queue \o <<m>> /\ queue \in Seq({queue[i] : i \in 1 .. Len(queue)} \cup {m})
        BY <2>1, <3>1, <4>2
      <4>4. queue' = Append(queue, m)
        BY <4>3, AppendIsConcat
      <4>5. queue'[Len(queue')] = m
        BY <4>4, <2>1
      <4> QED
        BY <4>2, <4>5
    <3> QED
      BY <2>3, <3>2, <3>3
  <2>4. CASE PollModifiers
    <3>1. Matches
      BY <1>1, <2>4 DEF PollModifiers, HeldHere, Matches
    <3>2. PICK h : NextHotkey(h, IF Here.hotkeyDown THEN <<>> ELSE Post(Here, TRUE))
      BY <2>4, <3>1 DEF PollModifiers
    <3> QED
      BY <2>3, <3>2
  <2>5. CASE PollKey
    <3>1. Matches /\ Bound.key \in down
      BY <1>1, <2>5 DEF PollKey, HeldHere, Matches
    <3>2. \E h, g, v : NextHotkey(h, IF v THEN Post(g, TRUE) ELSE <<>>)
      BY <2>5, <3>1 DEF PollKey
    <3>3. PICK h, g, v : NextHotkey(h, IF v THEN Post(g, TRUE) ELSE <<>>)
      BY <3>2
    <3> QED
      BY <2>3, <3>3
  <2>6. CASE ~(PollModifiers \/ PollKey)
    <3>1. ~PollXInput
      BY <1>1 DEF PollXInput
    <3>2. CASE DispatchMessage
      <4>1. queue # <<>> /\ queue' = Tail(queue)
        BY <1>1, <3>2, DispatchProperties
      <4> QED
        BY <1>1, <2>1, <4>1, Ends
    <3>3. CASE ~DispatchMessage
      <4>1. queue' = queue
        BY <1>1, <2>6, <3>1, <3>3
           DEF Next, UserStep, PressKey, ReleaseKey, MoveModifier, PollStep, ReadModifiers,
               EnterPoll, MainStep, Initialize, CreateHotkey, Destroy, DeleteHotkey, vars
      <4> QED
        BY <1>1, <2>1, <4>1
    <3> QED
      BY <3>2, <3>3
  <2> QED
    BY <2>4, <2>5, <2>6
<1>2. IInv /\ [Next]_vars =>
        [HeldHere /\ Bound.kind # "xinput" /\ Len(queue') > Len(queue)
           => queue'[Len(queue')].bDown]_vars
  BY <1>1
<1> QED
  BY <1>2, InductiveInvariant, PTL DEF KeyboardUpMeansReleased, Spec
=============================================================================
