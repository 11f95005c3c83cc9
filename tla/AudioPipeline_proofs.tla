------------------------ MODULE AudioPipeline_proofs ------------------------
(***************************************************************************)
(* Proofs about AudioPipeline, for any lengths of segment, slack, jump and *)
(* buffer, any timestamps of the desktop device that are far from zero and *)
(* any length of the voice's queue.                                        *)
(***************************************************************************)
EXTENDS AudioPipeline, SequenceTheorems, WellFoundedInduction, TLAPS

-----------------------------------------------------------------------------
(***************************************************************************)
(* The inductive invariant.                                                *)
(***************************************************************************)

\* The times of the stream are later than this.
Epoch == JUMP + STEP * MaxVoice

\* Before the first time is planned nothing has come from the desktop.
FreshInv ==
  latest = 0 => /\ desktop = <<>> /\ desktopUsed = 0 /\ desktopSent = 0
                /\ times = <<>> /\ encoded = 0

\* The desktop's queue: each segment begins after the end of the one before, and
\* while something is mixed there are two at least.
ClockInv ==
  /\ latest # 0 => latest > Epoch /\ desktopUsed > Epoch
  /\ desktop # <<>> => desktopSent = Last(desktop)
  /\ \A n \in 1 .. Len(desktop) : desktop[n] > Epoch
  /\ \A n \in 1 .. Len(desktop) - 1 : desktop[n + 1] >= desktop[n] + STEP
  /\ pc = "mix" => Len(desktop) >= 2

\* The time that is mixed next, if it is planned or not yet.
MixedNext == IF times # <<>> THEN Head(times) ELSE latest + STEP

\* The plan: it is never ahead of the desktop's queue, nor the queue ahead of it.
PlanInv == latest # 0 => MixedNext <= Head(desktop)

\* The voice: a segment that SortAudio has moved is no further before the times of
\* the stream than the segments behind it are long.
VoiceInv ==
  /\ Len(voice) <= MaxVoice
  /\ \A n \in 1 .. Len(voice) : voice[n] = 0 \/ voice[n] + STEP * (Len(voice) - n) > Epoch
  /\ voiceUsed = 0 \/ voiceUsed > Epoch

IInv ==
  /\ TypeOK /\ TrackGapless /\ FreshInv /\ ClockInv /\ PlanInv /\ VoiceInv
-----------------------------------------------------------------------------
(***************************************************************************)
(* Numbers and sequences.                                                  *)
(***************************************************************************)

\* The constants are numbers.
LEMMA ConstantsAreNatural ==
  /\ STEP \in Nat /\ SLACK \in Nat /\ JUMP \in Nat /\ BUFFER \in Nat /\ MaxVoice \in Nat
  /\ STEP > 0 /\ SLACK >= STEP /\ JUMP >= STEP /\ BUFFER > 0
  /\ \A t \in Stamps : t \in Nat /\ t > Epoch
  /\ Epoch \in Nat /\ Epoch >= STEP
<1>1. /\ STEP \in Nat /\ SLACK \in Nat /\ JUMP \in Nat /\ BUFFER \in Nat /\ MaxVoice \in Nat
      /\ STEP > 0 /\ SLACK >= STEP /\ JUMP >= STEP /\ BUFFER > 0
  BY PipelineAssumption
<1>2. \A t \in Stamps : t \in Nat /\ t > Epoch
  BY PipelineAssumption DEF Epoch
<1>3. STEP * MaxVoice \in Nat
  BY <1>1
<1>4. Epoch \in Nat /\ Epoch >= STEP
  BY <1>1, <1>3 DEF Epoch
<1> QED
  BY <1>1, <1>2, <1>4

\* Multiples of STEP.
LEMMA Multiples ==
  /\ STEP * 0 = 0
  /\ \A k \in Nat : STEP * k \in Nat /\ STEP * (k + 1) = STEP * k + STEP
  /\ \A k \in Nat : k > 0 => STEP * k = STEP * (k - 1) + STEP
  /\ \A j, k \in Nat : j <= k => STEP * j <= STEP * k
<1>1. STEP \in Nat
  BY ConstantsAreNatural
<1>2. STEP * 0 = 0
  BY <1>1
<1>3. \A k \in Nat : STEP * k \in Nat /\ STEP * (k + 1) = STEP * k + STEP
  BY <1>1
<1>4. \A k \in Nat : k > 0 => STEP * k = STEP * (k - 1) + STEP
  BY <1>1
<1>5. ASSUME NEW j \in Nat, NEW k \in Nat, j <= k PROVE STEP * j <= STEP * k
  <2>1. k - j \in Nat /\ STEP * (k - j) \in Nat
    BY <1>1, <1>5
  <2>2. STEP * k = STEP * j + STEP * (k - j)
    BY <1>1
  <2> QED
    BY <1>1, <2>1, <2>2
<1> QED
  BY <1>2, <1>3, <1>4, <1>5

\* A set of natural numbers has a least element.
LEMMA SmallestExists ==
  ASSUME NEW T \in SUBSET Nat, T # {}
  PROVE  \E m \in T : \A n \in T : m <= n
<1> DEFINE R == OpToRel(<, Nat)
<1>1. IsWellFoundedOn(R, Nat)
  BY NatLessThanWellFounded, Zenon
<1>2. \A m, n \in Nat : m < n => <<m, n>> \in R
  BY Zenon DEF OpToRel
<1> HIDE DEF R
<1>3. PICK m \in T : \A n \in T : <<n, m>> \notin R
  BY <1>1, WFMin
<1>4. \A n \in T : ~(n < m)
  BY <1>2, <1>3
<1> QED
  BY <1>4

\* Appending to a queue of times.
LEMMA AppendTimes ==
  ASSUME NEW q \in Seq(Nat), NEW t \in Nat
  PROVE  /\ Append(q, t) \in Seq(Nat) /\ Append(q, t) # <<>>
         /\ Len(Append(q, t)) = Len(q) + 1
         /\ \A n \in 1 .. Len(q) : Append(q, t)[n] = q[n]
         /\ Append(q, t)[Len(q) + 1] = t
         /\ Last(Append(q, t)) = t
         /\ Head(Append(q, t)) = IF q = <<>> THEN t ELSE Head(q)
  BY DEF Last

\* The ends of a queue of times.
LEMMA EndsOfTimes ==
  ASSUME NEW q \in Seq(Nat)
  PROVE  /\ Len(q) \in Nat /\ (q = <<>> <=> Len(q) = 0)
         /\ \A n \in 1 .. Len(q) : q[n] \in Nat
         /\ q # <<>> => /\ Head(q) = q[1] /\ Last(q) = q[Len(q)]
                        /\ Head(q) \in Nat /\ Last(q) \in Nat
                        /\ Tail(q) \in Seq(Nat) /\ Len(Tail(q)) = Len(q) - 1
                        /\ \A n \in 1 .. Len(q) - 1 : Tail(q)[n] = q[n + 1]
  BY DEF Last

\* A bounded set of differences has a greatest element: among the values of a
\* function on 1 .. N there is one that is not less than another.
LEMMA GreatestExists ==
  ASSUME NEW N \in Nat, N > 0, NEW f, \A n \in 1 .. N : f[n] \in Int
  PROVE  \E m \in 1 .. N : \A n \in 1 .. N : f[m] >= f[n]
<1> DEFINE T == {k \in 1 .. N : ~ \E m \in 1 .. k : \A n \in 1 .. k : f[m] >= f[n]}
<1> SUFFICES ASSUME T # {} PROVE FALSE
  <2>1. N \in 1 .. N /\ N \notin T
    OBVIOUS
  <2> QED
    BY <2>1
<1>1. PICK k \in T : \A j \in T : k <= j
  <2>1. T \in SUBSET Nat
    OBVIOUS
  <2> HIDE DEF T
  <2> QED
    BY <2>1, SmallestExists
<1>2. k # 1
  BY <1>1
<1>3. k - 1 \in 1 .. N /\ k - 1 \notin T
  <2>1. k \in 1 .. N
    BY <1>1
  <2> HIDE DEF T
  <2> QED
    BY <1>1, <1>2, <2>1
<1>4. PICK m \in 1 .. k - 1 : \A n \in 1 .. k - 1 : f[m] >= f[n]
  BY <1>3
<1>5. f[k] \in Int /\ f[m] \in Int /\ m \in 1 .. k /\ k \in 1 .. k
  BY <1>1, <1>4
<1>6. CASE f[m] >= f[k]
  <2>1. \A n \in 1 .. k : f[m] >= f[n]
    BY <1>1, <1>4, <1>6
  <2> QED
    BY <1>1, <1>5, <2>1
<1>7. CASE f[k] > f[m]
  <2>1. \A n \in 1 .. k : f[k] >= f[n]
    BY <1>1, <1>4, <1>5, <1>7
  <2> QED
    BY <1>1, <1>5, <2>1
<1> QED
  BY <1>5, <1>6, <1>7
-----------------------------------------------------------------------------
(***************************************************************************)
(* AudioSource.                                                            *)
(***************************************************************************)

\* A smoothed timestamp is the one that is given, or the next; either is a time of
\* the stream if what it is made from is.
LEMMA SmoothedProperties ==
  ASSUME NEW used \in Nat, NEW stamp \in Nat, NEW jump \in Nat
  PROVE  /\ Smoothed(used, stamp, jump) \in Nat
         /\ Smoothed(used, stamp, jump) \in {stamp, used + STEP}
         /\ used = 0 => Smoothed(used, stamp, jump) = stamp
  BY ConstantsAreNatural DEF Smoothed

\* One step of SortAudio, with the times of the segments behind.
Moved(q, f, n) ==
  IF n = Len(q) \/ f[n + 1] < STEP THEN q[n] ELSE Smaller(q[n], f[n + 1] - STEP)

\* From the back, there is a function that gives the times from k on.
LEMMA SortedFrom ==
  ASSUME NEW q \in Seq(Nat), NEW k \in 1 .. Len(q)
  PROVE  \E f : f = [n \in k .. Len(q) |-> Moved(q, f, n)]
<1> DEFINE N == Len(q)
           Ok(j) == \E f : f = [n \in j .. N |-> Moved(q, f, n)]
           T == {d \in 0 .. N - 1 : ~Ok(N - d)}
<1>1. N \in Nat
  BY LenProperties
<1> SUFFICES ASSUME T # {} PROVE FALSE
  <2>1. N - k \in 0 .. N - 1 /\ N - (N - k) = k
    BY <1>1
  <2>2. N - k \notin T => Ok(k)
    BY <2>1
  <2> QED
    BY <2>2
<1>2. PICK d \in T : \A e \in T : d <= e
  <2>1. T \in SUBSET Nat
    BY <1>1
  <2> HIDE DEF T
  <2> QED
    BY <2>1, SmallestExists
<1> DEFINE j == N - d
<1>3. d \in 0 .. N - 1 /\ ~Ok(j) /\ j \in 1 .. N
  BY <1>1, <1>2
<1>4. d # 0
  <2>1. CASE d = 0
    <3> DEFINE f == [n \in N .. N |-> q[n]]
    <3>1. \A n \in N .. N : Moved(q, f, n) = q[n]
      BY <1>1 DEF Moved
    <3>2. f = [n \in N .. N |-> Moved(q, f, n)]
      BY <3>1
    <3>3. Ok(N)
      <4> HIDE DEF f
      <4> QED
        BY <3>2
    <3>4. j = N
      BY <1>1, <2>1
    <3> HIDE DEF Ok
    <3> QED
      BY <1>3, <3>3, <3>4
  <2> QED
    BY <2>1
<1>5. d - 1 \in 0 .. N - 1 /\ d - 1 \notin T /\ N - (d - 1) = j + 1
  <2> HIDE DEF T
  <2> QED
    BY <1>1, <1>2, <1>3, <1>4
<1>6. PICK g : g = [n \in j + 1 .. N |-> Moved(q, g, n)]
  BY <1>5
<1> DEFINE f == [n \in j .. N |-> IF n = j THEN Moved(q, g, j) ELSE g[n]]
<1>7. \A n \in j .. N : Moved(q, f, n) = Moved(q, g, n)
  <2>1. \A n \in j .. N : n # N => n + 1 \in j .. N /\ n + 1 # j
    BY <1>1, <1>3
  <2>2. \A n \in j .. N : n # N => f[n + 1] = g[n + 1]
    BY <2>1
  <2> HIDE DEF f
  <2> QED
    BY <2>2 DEF Moved
<1>8. \A n \in j .. N : f[n] = Moved(q, f, n)
  <2>1. \A n \in j .. N : n # j => n \in j + 1 .. N
    BY <1>1, <1>3
  <2>2. \A n \in j + 1 .. N : g[n] = Moved(q, g, n)
    BY <1>6
  <2>3. \A n \in j .. N : f[n] = Moved(q, g, n)
    <3> HIDE DEF j, N
    <3> QED
      BY <2>1, <2>2
  <2> QED
    BY <1>7, <2>3
<1>9. f = [n \in j .. N |-> Moved(q, f, n)]
  BY <1>8
<1> HIDE DEF f
<1> QED
  BY <1>3, <1>9

\* SortAudio's recursion is what it says.
LEMMA SortedTimesRecursion ==
  ASSUME NEW q \in Seq(Nat), q # <<>>
  PROVE  SortedTimes(q) = [n \in 1 .. Len(q) |-> Moved(q, SortedTimes(q), n)]
<1> DEFINE F == CHOOSE f : f = [n \in 1 .. Len(q) |-> Moved(q, f, n)]
<1>1. 1 \in 1 .. Len(q)
  BY EndsOfTimes
<1>2. F = [n \in 1 .. Len(q) |-> Moved(q, F, n)]
  BY <1>1, SortedFrom
<1>3. SortedTimes(q) = [n \in 1 .. Len(q) |-> F[n]]
  BY DEF SortedTimes, Moved
<1> HIDE DEF F
<1>4. SortedTimes(q) = F
  BY <1>2, <1>3
<1> QED
  BY <1>2, <1>4

\* SortAudio gives times, none later than it was and the last the same; each ends
\* before the next begins, unless the next is nearly zero; and a time of the stream
\* stays one, less the length of the segments behind it.
LEMMA SortedTimesProperties ==
  ASSUME NEW q \in Seq(Nat), q # <<>>
  PROVE  /\ SortedTimes(q) \in Seq(Nat) /\ Len(SortedTimes(q)) = Len(q)
         /\ \A n \in 1 .. Len(q) : SortedTimes(q)[n] \in Nat /\ SortedTimes(q)[n] <= q[n]
         /\ \A n \in 1 .. Len(q) - 1 : \/ SortedTimes(q)[n + 1] < STEP
                                       \/ SortedTimes(q)[n + 1] >= SortedTimes(q)[n] + STEP
         /\ (\A n \in 1 .. Len(q) : q[n] = 0 \/ q[n] + STEP * (Len(q) - n) > Epoch) =>
              \A n \in 1 .. Len(q) :
                SortedTimes(q)[n] = 0 \/ SortedTimes(q)[n] + STEP * (Len(q) - n) > Epoch
<1> DEFINE N == Len(q)
           s == SortedTimes(q)
<1>1. N \in Nat /\ N > 0 /\ STEP \in Nat /\ \A n \in 1 .. N : q[n] \in Nat
  BY EndsOfTimes, ConstantsAreNatural
<1>2. s = [n \in 1 .. N |-> Moved(q, s, n)]
  BY SortedTimesRecursion
<1>3. \A n \in 1 .. N : s[n] = Moved(q, s, n)
  BY <1>2
<1> HIDE DEF s
<1>4. \A n \in 1 .. N : s[n] \in Nat
  <2> DEFINE T == {d \in 0 .. N - 1 : s[N - d] \notin Nat}
  <2> SUFFICES ASSUME T # {} PROVE FALSE
    <3>1. ASSUME NEW n \in 1 .. N, s[n] \notin Nat PROVE FALSE
      <4>1. N - n \in 0 .. N - 1 /\ N - (N - n) = n
        BY <1>1
      <4> QED
        BY <3>1, <4>1
    <3> QED
      BY <3>1
  <2>1. PICK d \in T : \A e \in T : d <= e
    <3>1. T \in SUBSET Nat
      BY <1>1
    <3> HIDE DEF T
    <3> QED
      BY <3>1, SmallestExists
  <2>2. d \in 0 .. N - 1 /\ s[N - d] \notin Nat /\ N - d \in 1 .. N
    BY <1>1, <2>1
  <2>3. d # 0 => d - 1 \in 0 .. N - 1 /\ d - 1 \notin T
    <3> HIDE DEF T
    <3> QED
      BY <1>1, <2>1, <2>2
  <2>4. d # 0 => s[N - d + 1] \in Nat
    <3>1. d # 0 => N - (d - 1) = N - d + 1
      BY <1>1, <2>2
    <3> QED
      BY <2>3, <3>1
  <2>5. s[N - d] = Moved(q, s, N - d)
    BY <1>3, <2>2
  <2>6. N - d = N <=> d = 0
    BY <1>1, <2>2
  <2> HIDE DEF T
  <2> QED
    BY <1>1, <2>2, <2>4, <2>5, <2>6 DEF Moved, Smaller
<1>5. s \in Seq(Nat) /\ Len(s) = N
  <2>1. s \in [1 .. N -> Nat]
    BY <1>2, <1>4
  <2> QED
    BY <1>1, <2>1, LenProperties
<1>6. \A n \in 1 .. N : s[n] <= q[n]
  <2> TAKE n \in 1 .. N
  <2>1. s[n] = Moved(q, s, n) /\ q[n] \in Nat
    BY <1>1, <1>3
  <2>2. n = N \/ s[n + 1] \in Nat
    BY <1>1, <1>4
  <2> QED
    BY <1>1, <2>1, <2>2 DEF Moved, Smaller
<1>7. \A n \in 1 .. N - 1 : s[n + 1] < STEP \/ s[n + 1] >= s[n] + STEP
  <2> TAKE n \in 1 .. N - 1
  <2>1. n \in 1 .. N /\ n # N /\ n + 1 \in 1 .. N
    BY <1>1
  <2>2. s[n] = Moved(q, s, n) /\ q[n] \in Nat /\ s[n + 1] \in Nat
    BY <1>1, <1>3, <1>4, <2>1
  <2> QED
    BY <1>1, <2>1, <2>2 DEF Moved, Smaller
<1>8. ASSUME \A n \in 1 .. N : q[n] = 0 \/ q[n] + STEP * (N - n) > Epoch
      PROVE  \A n \in 1 .. N : s[n] = 0 \/ s[n] + STEP * (N - n) > Epoch
  <2> DEFINE Far(n) == s[n] = 0 \/ s[n] + STEP * (N - n) > Epoch
             T == {d \in 0 .. N - 1 : ~Far(N - d)}
  <2> SUFFICES ASSUME T # {} PROVE FALSE
    <3>1. ASSUME NEW n \in 1 .. N, ~Far(n) PROVE FALSE
      <4>1. N - n \in 0 .. N - 1 /\ N - (N - n) = n
        BY <1>1
      <4> HIDE DEF Far
      <4> QED
        BY <3>1, <4>1
    <3> QED
      BY <3>1
  <2>1. PICK d \in T : \A e \in T : d <= e
    <3>1. T \in SUBSET Nat
      BY <1>1
    <3> HIDE DEF T
    <3> QED
      BY <3>1, SmallestExists
  <2> DEFINE n == N - d
  <2>2. d \in 0 .. N - 1 /\ ~Far(n) /\ n \in 1 .. N /\ (n = N <=> d = 0) /\ N - n = d
    BY <1>1, <2>1
  <2>3. d # 0 => d - 1 \in 0 .. N - 1 /\ d - 1 \notin T /\ N - (d - 1) = n + 1 /\ n + 1 \in 1 .. N
    <3> HIDE DEF T
    <3> QED
      BY <1>1, <2>1, <2>2
  <2>4. d # 0 => Far(n + 1) /\ N - (n + 1) = d - 1
    <3> HIDE DEF Far
    <3>1. d # 0 => N - (n + 1) = d - 1
      BY <1>1, <2>2
    <3> QED
      BY <2>3, <3>1
  <2> HIDE DEF T, n
  <2>5. s[n] = Moved(q, s, n) /\ q[n] \in Nat
    BY <1>1, <1>3, <2>2
  <2>6. s[n] # q[n]
    BY <1>8, <2>2
  <2>7. d # 0 /\ s[n + 1] >= STEP /\ s[n] = s[n + 1] - STEP /\ s[n + 1] \in Nat
    <3>1. d # 0 => s[n + 1] \in Nat
      BY <1>4, <2>3
    <3>2. n # N /\ ~(s[n + 1] < STEP) /\ s[n] = Smaller(q[n], s[n + 1] - STEP)
      BY <2>5, <2>6, Zenon DEF Moved
    <3> QED
      BY <1>1, <2>2, <2>6, <3>1, <3>2 DEF Smaller
  <2>8. s[n + 1] # 0
    BY <2>7, ConstantsAreNatural
  <2>9. s[n + 1] + STEP * (d - 1) > Epoch
    BY <2>4, <2>7, <2>8
  <2>10. STEP * d = STEP * (d - 1) + STEP /\ STEP * (d - 1) \in Nat
    BY <2>2, <2>7, Multiples
  <2> QED
    <3> DEFINE a == STEP * (d - 1)
    <3>1. /\ a \in Nat /\ s[n + 1] + a > Epoch /\ STEP * d = a + STEP
          /\ s[n] = s[n + 1] - STEP /\ s[n + 1] \in Nat /\ ~(s[n] + STEP * d > Epoch)
      BY <2>2, <2>7, <2>9, <2>10
    <3> HIDE DEF a
    <3> QED
      BY <1>1, <3>1, ConstantsAreNatural
<1> QED
  BY <1>4, <1>5, <1>6, <1>7, <1>8 DEF s

\* What SortAudio adds to jumpRange is a number.
LEMMA WidestMoveNatural ==
  ASSUME NEW q \in Seq(Nat), q # <<>>
  PROVE  WidestMove(q) \in Nat
<1> DEFINE f == [n \in 1 .. Len(q) |-> q[n] - SortedTimes(q)[n]]
           D == {q[n] - SortedTimes(q)[n] : n \in 1 .. Len(q)}
<1>1. Len(q) \in Nat /\ Len(q) > 0 /\ \A n \in 1 .. Len(q) : q[n] \in Nat
  BY EndsOfTimes
<1>2. \A n \in 1 .. Len(q) : f[n] \in Nat
  <2> TAKE n \in 1 .. Len(q)
  <2>1. q[n] \in Nat /\ SortedTimes(q)[n] \in Nat /\ SortedTimes(q)[n] <= q[n]
    BY <1>1, SortedTimesProperties
  <2> QED
    BY <2>1
<1>3. D = {f[n] : n \in 1 .. Len(q)}
  OBVIOUS
<1> HIDE DEF f
<1>4. \E m \in 1 .. Len(q) : \A n \in 1 .. Len(q) : f[m] >= f[n]
  <2>1. \A n \in 1 .. Len(q) : f[n] \in Int
    BY <1>2
  <2> QED
    BY <1>1, <2>1, GreatestExists
<1>5. \E x \in D : \A y \in D : x >= y
  BY <1>3, <1>4
<1>6. D \subseteq Nat
  BY <1>2, <1>3
<1>7. WidestMove(q) = Max(D)
  BY DEF WidestMove
<1> HIDE DEF D
<1> QED
  BY <1>5, <1>6, <1>7 DEF Max

\* GetBuffer finds the first segment that is not behind.
LEMMA BehindProperties ==
  ASSUME NEW q \in Seq(Nat), NEW target \in Nat
  PROVE  /\ Behind(q, target) \in 0 .. Len(q)
         /\ q # <<>> /\ Head(q) >= target => Behind(q, target) = 0
<1> DEFINE w == q \o <<target>>
           I == {i \in 1 .. Len(w) : w[i] >= target}
<1>1. Len(q) \in Nat
  BY LenProperties
<1>2. Len(w) = Len(q) + 1 /\ w[Len(q) + 1] = target /\ (q # <<>> => w[1] = q[1])
  BY <1>1
<1>3. Behind(q, target) = (IF I # {} THEN Min(I) ELSE 0) - 1
  BY DEF Behind, SelectInSeq
<1> HIDE DEF w
<1>4. Len(q) + 1 \in I /\ I \subseteq 1 .. Len(q) + 1
  BY <1>1, <1>2
<1>5. q # <<>> /\ Head(q) >= target => 1 \in I
  BY <1>1, <1>2, EndsOfTimes
<1> HIDE DEF I
<1>6. I \in SUBSET Nat /\ I # {}
  BY <1>1, <1>4
<1>7. Min(I) \in I /\ \A y \in I : Min(I) <= y
  BY <1>6, SmallestExists DEF Min
<1>8. Min(I) \in 1 .. Len(q) + 1
  BY <1>4, <1>7
<1>9. 1 \in I => Min(I) = 1
  BY <1>7, <1>8
<1> QED
  BY <1>1, <1>3, <1>5, <1>6, <1>8, <1>9

\* GetBuffer takes segments from the front.
LEMMA AfterGetBufferProperties ==
  ASSUME NEW q \in Seq(Nat), NEW target \in Nat
  PROVE  \E k \in 0 .. Len(q) :
           /\ AfterGetBuffer(q, target) \in Seq(Nat)
           /\ Len(AfterGetBuffer(q, target)) = Len(q) - k
           /\ \A n \in 1 .. Len(q) - k : AfterGetBuffer(q, target)[n] = q[n + k]
<1> DEFINE b == Behind(q, target)
           left == SubSeq(q, b + 1, Len(q))
<1>1. Len(q) \in Nat /\ \A n \in 1 .. Len(q) : q[n] \in Nat
  BY EndsOfTimes
<1>2. b \in 0 .. Len(q)
  BY BehindProperties
<1>3. AfterGetBuffer(q, target) \in {left, Tail(left)} /\ (left = <<>> => AfterGetBuffer(q, target) = left)
  BY DEF AfterGetBuffer
<1> HIDE DEF b
<1>4. /\ left \in Seq(Nat) /\ Len(left) = Len(q) - b
      /\ \A n \in 1 .. Len(q) - b : left[n] = q[n + b]
  <2>1. b + 1 \in Int /\ Len(q) \in Int /\ \A i \in b + 1 .. Len(q) : q[i] \in Nat
    BY <1>1, <1>2
  <2>2. /\ left \in Seq(Nat) /\ Len(left) = IF b + 1 <= Len(q) THEN Len(q) - (b + 1) + 1 ELSE 0
        /\ \A n \in 1 .. Len(q) - (b + 1) + 1 : left[n] = q[b + 1 + n - 1]
    BY <2>1, SubSeqProperties
  <2> HIDE DEF left
  <2>3. Len(q) - (b + 1) + 1 = Len(q) - b /\ \A n \in 1 .. Len(q) - b : b + 1 + n - 1 = n + b
    BY <1>1, <1>2
  <2>4. \A n \in 1 .. Len(q) - b : left[n] = q[n + b]
    BY <2>2, <2>3
  <2>5. Len(left) = Len(q) - b
    BY <1>1, <1>2, <2>2
  <2> QED
    BY <2>2, <2>4, <2>5
<1> HIDE DEF left
<1>5. CASE AfterGetBuffer(q, target) = left
  BY <1>2, <1>4, <1>5
<1>6. CASE AfterGetBuffer(q, target) = Tail(left) /\ left # <<>>
  <2>1. /\ Tail(left) \in Seq(Nat) /\ Len(Tail(left)) = Len(left) - 1
        /\ \A n \in 1 .. Len(left) - 1 : Tail(left)[n] = left[n + 1]
    BY <1>4, <1>6, EndsOfTimes
  <2>2. Len(left) # 0
    BY <1>4, <1>6, EndsOfTimes
  <2>3. b + 1 \in 0 .. Len(q) /\ Len(left) - 1 = Len(q) - (b + 1)
    BY <1>1, <1>2, <1>4, <2>2
  <2>4. \A n \in 1 .. Len(q) - (b + 1) : Tail(left)[n] = q[n + (b + 1)]
    <3> TAKE n \in 1 .. Len(q) - (b + 1)
    <3>1. n \in 1 .. Len(left) - 1 /\ n + 1 \in 1 .. Len(q) - b /\ (n + 1) + b = n + (b + 1)
      BY <1>1, <1>2, <1>4
    <3> QED
      BY <1>4, <2>1, <3>1
  <2> QED
    BY <1>6, <2>1, <2>3, <2>4
<1> QED
  BY <1>3, <1>5, <1>6

\* When the first segment is not behind, it is the one that is taken, if it is near.
LEMMA NothingBehind ==
  ASSUME NEW q \in Seq(Nat), NEW target \in Nat, q # <<>>, Head(q) >= target
  PROVE  AfterGetBuffer(q, target) = IF Head(q) - target <= SLACK THEN Tail(q) ELSE q
<1>1. Behind(q, target) = 0
  BY BehindProperties
<1>2. SubSeq(q, 0 + 1, Len(q)) = q
  BY SubSeqFull
<1> QED
  BY <1>1, <1>2 DEF AfterGetBuffer
-----------------------------------------------------------------------------
(***************************************************************************)
(* The steps.                                                              *)
(***************************************************************************)

LEMMA InitIInv == Init => IInv
<1> SUFFICES ASSUME Init PROVE IInv
  OBVIOUS
<1> USE DEF Init
<1>1. TypeOK
  BY ConstantsAreNatural DEF TypeOK
<1>2. TrackGapless
  BY DEF TrackGapless
<1>3. FreshInv /\ ClockInv /\ PlanInv /\ VoiceInv
  BY ConstantsAreNatural DEF FreshInv, ClockInv, PlanInv, VoiceInv
<1> QED
  BY <1>1, <1>2, <1>3 DEF IInv

\* What a round does to the desktop's queue, with a packet or without: it stays in
\* order and its first segment stays.
DesktopGrows ==
  /\ desktop' \in Seq(Nat) /\ desktopUsed' \in Nat /\ desktopSent' \in Nat
  /\ \A n \in 1 .. Len(desktop') : desktop'[n] > Epoch
  /\ \A n \in 1 .. Len(desktop') - 1 : desktop'[n + 1] >= desktop'[n] + STEP
  /\ desktop' # <<>> => desktopSent' = Last(desktop') /\ desktopUsed' > Epoch
  /\ latest # 0 => /\ desktop' # <<>> /\ Head(desktop') = Head(desktop)
                   /\ Last(desktop') >= Last(desktop)
  /\ latest = 0 => Len(desktop') <= 1

LEMMA DesktopKept ==
  ASSUME IInv, UNCHANGED desktopVars
  PROVE  DesktopGrows
<1> USE DEF IInv, desktopVars
<1>1. desktop \in Seq(Nat) /\ desktopUsed \in Nat /\ desktopSent \in Nat
  BY DEF TypeOK
<1>2. (latest # 0 => desktop # <<>>) /\ (latest = 0 => Len(desktop) <= 1)
  BY DEF TrackGapless, FreshInv
<1>3. desktop # <<>> => desktopSent = Last(desktop) /\ desktopUsed > Epoch /\ Last(desktop) \in Nat
  BY <1>1, EndsOfTimes DEF ClockInv, FreshInv
<1> QED
  BY <1>1, <1>2, <1>3 DEF DesktopGrows, ClockInv

LEMMA DesktopQueried ==
  ASSUME IInv, NEW stamp \in Stamps, QueryDesktop(stamp)
  PROVE  DesktopGrows /\ desktop' # <<>>
<1>1. /\ desktop \in Seq(Nat) /\ desktopUsed \in Nat /\ desktopSent \in Nat
      /\ latest # 0 => desktop # <<>> /\ desktopUsed > Epoch
      /\ latest = 0 => desktop = <<>> /\ desktopUsed = 0 /\ desktopSent = 0
      /\ desktop # <<>> => desktopSent = Last(desktop)
      /\ \A n \in 1 .. Len(desktop) : desktop[n] > Epoch
      /\ \A n \in 1 .. Len(desktop) - 1 : desktop[n + 1] >= desktop[n] + STEP
  BY DEF IInv, TypeOK, FreshInv, ClockInv, TrackGapless
<1> DEFINE u == Smoothed(desktopUsed, stamp, JUMP)
<1>2. STEP \in Nat /\ STEP > 0 /\ Epoch \in Nat /\ Epoch >= STEP /\ stamp \in Nat /\ stamp > Epoch
  BY ConstantsAreNatural
<1>3. u \in Nat /\ u > Epoch
  <2>1. u \in Nat /\ u \in {stamp, desktopUsed + STEP} /\ (desktopUsed = 0 => u = stamp)
    BY <1>1, <1>2, ConstantsAreNatural, SmoothedProperties
  <2> HIDE DEF u
  <2> QED
    BY <1>1, <1>2, <2>1
<1> HIDE DEF u
<1>4. /\ desktopUsed' = u
      /\ u < desktopSent + STEP => desktop' = desktop /\ desktopSent' = desktopSent
      /\ ~(u < desktopSent + STEP) => desktop' = Append(desktop, u) /\ desktopSent' = u
  BY DEF QueryDesktop, Overshot, u
<1>5. CASE u < desktopSent + STEP
  <2>1. latest # 0
    BY <1>1, <1>2, <1>3, <1>5
  <2>2. Last(desktop) \in Nat
    BY <1>1, <2>1, EndsOfTimes
  <2> QED
    BY <1>1, <1>3, <1>4, <1>5, <2>1, <2>2 DEF DesktopGrows
<1>6. CASE ~(u < desktopSent + STEP)
  <2>1. desktop' = Append(desktop, u) /\ desktopSent' = u
    BY <1>4, <1>6
  <2>2. /\ desktop' \in Seq(Nat) /\ desktop' # <<>> /\ Len(desktop') = Len(desktop) + 1
        /\ \A n \in 1 .. Len(desktop) : desktop'[n] = desktop[n]
        /\ desktop'[Len(desktop) + 1] = u /\ Last(desktop') = u
        /\ desktop # <<>> => Head(desktop') = Head(desktop)
    BY <1>1, <1>3, <2>1, AppendTimes
  <2>3. Len(desktop) \in Nat
    BY <1>1, LenProperties
  <2>4. \A n \in 1 .. Len(desktop') : desktop'[n] > Epoch
    <3> TAKE n \in 1 .. Len(desktop')
    <3>1. n \in 1 .. Len(desktop) \/ n = Len(desktop) + 1
      BY <2>2, <2>3
    <3> QED
      BY <1>1, <1>3, <2>2, <3>1
  <2>5. \A n \in 1 .. Len(desktop') - 1 : desktop'[n + 1] >= desktop'[n] + STEP
    <3> TAKE n \in 1 .. Len(desktop') - 1
    <3>1. CASE n = Len(desktop)
      <4>1. desktop # <<>> /\ n \in 1 .. Len(desktop)
        BY <1>1, <2>2, <2>3, <3>1, EndsOfTimes
      <4>2. desktop'[n] = desktopSent
        BY <1>1, <2>2, <3>1, <4>1, EndsOfTimes
      <4>3. desktop'[n + 1] = u
        BY <2>2, <3>1
      <4> QED
        BY <1>1, <1>2, <1>3, <1>6, <4>2, <4>3
    <3>2. CASE n # Len(desktop)
      <4>1. n \in 1 .. Len(desktop) - 1 /\ n \in 1 .. Len(desktop) /\ n + 1 \in 1 .. Len(desktop)
        BY <2>2, <2>3, <3>2
      <4> QED
        BY <1>1, <2>2, <4>1
    <3> QED
      BY <3>1, <3>2
  <2>6. latest # 0 => u >= Last(desktop)
    <3>1. latest # 0 => desktopSent = Last(desktop)
      BY <1>1
    <3> QED
      BY <1>1, <1>2, <1>3, <1>6, <3>1
  <2>7. latest = 0 => Len(desktop') <= 1
    BY <1>1, <2>2, <2>3
  <2> QED
    BY <1>1, <1>3, <1>4, <2>1, <2>2, <2>4, <2>5, <2>6, <2>7 DEF DesktopGrows
<1> QED
  BY <1>5, <1>6

\* The voice is given a segment.
LEMMA VoiceQueried ==
  ASSUME IInv, NEW stamp \in Nat, stamp = 0 \/ stamp > Epoch, QueryVoice(stamp)
  PROVE  voice' \in Seq(Nat) /\ voiceUsed' \in Nat /\ voiceJump' \in Nat /\ VoiceInv'
<1>1. /\ voice \in Seq(Nat) /\ voiceUsed \in Nat /\ voiceJump \in Nat
      /\ Len(voice) <= MaxVoice
      /\ \A n \in 1 .. Len(voice) : voice[n] = 0 \/ voice[n] + STEP * (Len(voice) - n) > Epoch
      /\ voiceUsed = 0 \/ voiceUsed > Epoch
  BY DEF IInv, TypeOK, VoiceInv
<1> DEFINE u == Smoothed(voiceUsed, stamp, voiceJump)
<1>2. STEP \in Nat /\ Epoch \in Nat /\ MaxVoice \in Nat
  BY ConstantsAreNatural
<1>3. u \in Nat /\ (u = 0 \/ u > Epoch)
  <2>1. u \in Nat /\ u \in {stamp, voiceUsed + STEP} /\ (voiceUsed = 0 => u = stamp)
    BY <1>1, SmoothedProperties
  <2> HIDE DEF u
  <2> QED
    BY <1>1, <1>2, <2>1
<1> HIDE DEF u
<1>4. voiceUsed' = u /\ voice' = Append(voice, u) /\ voiceJump' = voiceJump /\ Len(voice) < MaxVoice
  BY DEF QueryVoice, u
<1>5. /\ voice' \in Seq(Nat) /\ Len(voice') = Len(voice) + 1
      /\ \A n \in 1 .. Len(voice) : voice'[n] = voice[n]
      /\ voice'[Len(voice) + 1] = u
  BY <1>1, <1>3, <1>4, AppendTimes
<1>6. Len(voice) \in Nat /\ \A n \in 1 .. Len(voice) : voice[n] \in Nat
  BY <1>1, EndsOfTimes
<1>7. \A n \in 1 .. Len(voice') : voice'[n] = 0 \/ voice'[n] + STEP * (Len(voice') - n) > Epoch
  <2> TAKE n \in 1 .. Len(voice')
  <2>1. CASE n = Len(voice) + 1
    <3>1. Len(voice') - n = 0
      BY <1>5, <1>6, <2>1
    <3> QED
      BY <1>3, <1>5, <2>1, <3>1, Multiples
  <2>2. CASE n # Len(voice) + 1
    <3>1. n \in 1 .. Len(voice) /\ Len(voice) - n \in Nat /\ Len(voice') - n = (Len(voice) - n) + 1
      BY <1>5, <1>6, <2>2
    <3> DEFINE a == STEP * (Len(voice) - n)
    <3>2. a \in Nat /\ STEP * (Len(voice') - n) = a + STEP
      BY <3>1, Multiples
    <3>3. voice[n] \in Nat /\ voice'[n] = voice[n] /\ (voice[n] = 0 \/ voice[n] + a > Epoch)
      BY <1>1, <1>5, <1>6, <3>1
    <3> HIDE DEF a
    <3> QED
      BY <1>2, <3>2, <3>3
  <2> QED
    BY <2>1, <2>2
<1> QED
  BY <1>1, <1>2, <1>3, <1>4, <1>5, <1>6, <1>7 DEF VoiceInv

\* A round plans a time, or the desktop has not come so far; when the desktop has
\* something buffered there is a planned time.
LEMMA RoundPlans ==
  ASSUME IInv, DesktopGrows, desktop' # <<>>, QueryAudioBuffers, UNCHANGED encoded
  PROVE  /\ voice' \in Seq(Nat) /\ voiceUsed' \in Nat /\ voiceJump' \in Nat /\ VoiceInv'
         /\ latest' \in Nat /\ latest' > Epoch /\ times' \in Seq(Nat)
         /\ TrackGapless' /\ PlanInv'
         /\ BufferedTime(desktop') > 0 => times' # <<>>
<1>1. STEP \in Nat /\ STEP > 0 /\ Epoch \in Nat
  BY ConstantsAreNatural
<1>2. /\ desktop \in Seq(Nat) /\ latest \in Nat /\ times \in Seq(Nat) /\ encoded \in Nat
      /\ voice \in Seq(Nat) /\ voiceUsed \in Nat /\ voiceJump \in Nat /\ VoiceInv
      /\ latest = 0 => times = <<>> /\ encoded = 0
      /\ latest # 0 => latest > Epoch /\ MixedNext <= Head(desktop) /\ desktop # <<>>
                       /\ latest <= Last(desktop)
      /\ \A n \in 1 .. Len(times) : times[n] = latest - STEP * (Len(times) - n)
      /\ encoded # 0 => latest = encoded + STEP * Len(times)
      /\ \A n \in 1 .. Len(times) : times[n] > 0
  BY DEF IInv, TypeOK, FreshInv, ClockInv, PlanInv, TrackGapless
<1>3. /\ desktop' \in Seq(Nat) /\ Head(desktop') \in Nat /\ Last(desktop') \in Nat
      /\ Head(desktop') > Epoch /\ 1 \in 1 .. Len(desktop')
      /\ latest # 0 => Head(desktop') = Head(desktop) /\ Last(desktop') >= Last(desktop)
                       /\ Head(desktop) \in Nat /\ Last(desktop) \in Nat
  BY <1>2, EndsOfTimes DEF DesktopGrows
<1>4. Len(times) \in Nat /\ (times = <<>> <=> Len(times) = 0)
  BY <1>2, EndsOfTimes
<1>5. BufferedTime(desktop') = Last(desktop') - Head(desktop')
  BY DEF BufferedTime
<1>6. CASE NotYet
  <2>1. /\ UNCHANGED <<voiceVars, timeVars>> /\ latest # 0 /\ latest + STEP > Last(desktop')
    BY <1>6 DEF QueryAudioBuffers, NotYet
  <2>2. voice' = voice /\ voiceUsed' = voiceUsed /\ voiceJump' = voiceJump /\ latest' = latest /\ times' = times
    BY <2>1 DEF voiceVars, timeVars
  <2>3. VoiceInv'
    BY <1>2, <2>2 DEF VoiceInv
  <2>4. latest <= Last(desktop')
    BY <1>2, <1>3, <2>1
  <2>5. TrackGapless'
    BY <1>2, <2>2, <2>4 DEF TrackGapless
  <2>6. MixedNext' = MixedNext /\ PlanInv'
    BY <1>2, <1>3, <2>1, <2>2 DEF MixedNext, PlanInv
  <2>7. times = <<>> => ~(Last(desktop') - Head(desktop') > 0)
    <3>1. times = <<>> => latest + STEP <= Head(desktop')
      BY <1>2, <1>3, <2>1 DEF MixedNext
    <3> QED
      BY <1>1, <1>2, <1>3, <2>1, <3>1
  <2> QED
    BY <1>2, <1>5, <2>1, <2>2, <2>3, <2>5, <2>6, <2>7
<1>7. CASE ~NotYet
  <2>1. latest' = NextTime /\ times' = Append(times, latest') /\ (QueryVoice(latest') \/ UNCHANGED voiceVars)
    BY <1>7 DEF QueryAudioBuffers
  <2>2. /\ latest # 0 => latest' = latest + STEP
        /\ latest = 0 => latest' = Head(desktop')
    BY <2>1 DEF NextTime
  <2>3. latest' \in Nat /\ latest' > Epoch
    BY <1>1, <1>2, <1>3, <2>2
  <2>4. latest' <= Last(desktop')
    <3>1. CASE latest # 0
      BY <1>1, <1>2, <1>3, <1>7, <2>2, <3>1 DEF NotYet
    <3>2. CASE latest = 0
      <4>1. Len(desktop') = 1
        <5>1. Len(desktop') \in Nat
          BY <1>3, LenProperties
        <5>2. Len(desktop') <= 1
          BY <3>2 DEF DesktopGrows
        <5>3. 1 \in 1 .. Len(desktop')
          BY <1>3
        <5> DEFINE L == Len(desktop')
        <5> HIDE DEF L
        <5>4. L \in Nat /\ L <= 1 /\ 1 \in 1 .. L
          BY <5>1, <5>2, <5>3 DEF L
        <5>5. L = 1
          BY <5>4
        <5> QED
          BY <5>5 DEF L
      <4>2. Head(desktop') = Last(desktop')
        BY <1>3, <4>1, EndsOfTimes
      <4> QED
        BY <1>3, <2>2, <3>2, <4>2
    <3> QED
      BY <3>1, <3>2
  <2>5. voice' \in Seq(Nat) /\ voiceUsed' \in Nat /\ voiceJump' \in Nat /\ VoiceInv'
    <3>1. CASE QueryVoice(latest')
      BY <2>3, <3>1, VoiceQueried
    <3>2. CASE UNCHANGED voiceVars
      BY <1>2, <3>2 DEF voiceVars, VoiceInv
    <3> QED
      BY <2>1, <3>1, <3>2
  <2>6. /\ times' \in Seq(Nat) /\ times' # <<>> /\ Len(times') = Len(times) + 1
        /\ \A n \in 1 .. Len(times) : times'[n] = times[n]
        /\ times'[Len(times) + 1] = latest'
        /\ Head(times') = IF times = <<>> THEN latest' ELSE Head(times)
    BY <1>2, <2>1, <2>3, AppendTimes
  <2>7. \A n \in 1 .. Len(times') : /\ times'[n] = latest' - STEP * (Len(times') - n)
                                    /\ times'[n] > 0
    <3> TAKE n \in 1 .. Len(times')
    <3>1. CASE n = Len(times) + 1
      <4>1. Len(times') - n = 0
        BY <1>4, <2>6, <3>1
      <4> QED
        BY <1>1, <2>3, <2>6, <3>1, <4>1, Multiples
    <3>2. CASE n # Len(times) + 1
      <4>1. /\ n \in 1 .. Len(times) /\ Len(times) - n \in Nat
            /\ Len(times') - n = (Len(times) - n) + 1 /\ times # <<>>
        BY <1>4, <2>6, <3>2
      <4> DEFINE a == STEP * (Len(times) - n)
                 b == STEP * (Len(times') - n)
      <4>2. a \in Nat /\ b = a + STEP
        BY <4>1, Multiples
      <4>3. times'[n] = latest - a /\ times'[n] > 0 /\ latest' = latest + STEP
        BY <1>2, <2>2, <2>6, <4>1
      <4> HIDE DEF a, b
      <4>4. times'[n] = latest' - b
        BY <1>1, <1>2, <4>2, <4>3
      <4> QED
        BY <4>3, <4>4 DEF b
    <3> QED
      BY <3>1, <3>2
  <2>8. encoded' # 0 => latest' = encoded' + STEP * Len(times')
    <3> DEFINE a == STEP * Len(times)
               b == STEP * Len(times')
    <3>1. a \in Nat /\ b = a + STEP
      BY <1>4, <2>6, Multiples
    <3>2. encoded # 0 => latest = encoded + a /\ latest' = latest + STEP
      BY <1>2, <2>2
    <3> HIDE DEF a, b
    <3>3. encoded' # 0 => latest' = encoded' + b
      BY <1>1, <1>2, <3>1, <3>2
    <3> QED
      BY <3>3 DEF b
  <2>9. TrackGapless'
    BY <2>4, <2>7, <2>8 DEF TrackGapless
  <2>10. MixedNext' <= Head(desktop')
    <3>1. MixedNext' = IF times = <<>> THEN latest' ELSE Head(times)
      BY <2>6 DEF MixedNext
    <3>2. CASE latest # 0
      <4>1. MixedNext' = MixedNext
        BY <2>2, <3>1, <3>2 DEF MixedNext
      <4> QED
        BY <1>2, <1>3, <3>2, <4>1
    <3>3. CASE latest = 0
      BY <1>2, <1>3, <2>2, <3>1, <3>3
    <3> QED
      BY <3>2, <3>3
  <2> QED
    BY <2>3, <2>5, <2>6, <2>9, <2>10 DEF PlanInv
<1> QED
  BY <1>6, <1>7

\* QueryNewAudio's round, whether the desktop is asked or not.
LEMMA QueryIInv ==
  ASSUME IInv, SkipDesktop \/ DesktopPacket \/ DesktopFilled
  PROVE  IInv'
<1>1. desktop \in Seq(Nat) /\ BUFFER \in Nat /\ BUFFER > 0
  BY ConstantsAreNatural DEF IInv, TypeOK
<1>2. BufferedTime(desktop) > 0 => desktop # <<>>
  BY DEF BufferedTime
<1>3. desktop # <<>> => BufferedTime(desktop) \in Int
  BY <1>1, EndsOfTimes DEF BufferedTime
<1>4. /\ DesktopGrows /\ desktop' # <<>> /\ QueryAudioBuffers /\ UNCHANGED encoded
      /\ pc' \in {"query", "mix"}
      /\ pc' = "mix" => BufferedTime(desktop') > 0
  <2>1. CASE SkipDesktop
    <3>1. 2 * BufferedTime(desktop) > 3 * BUFFER /\ UNCHANGED desktopVars /\ desktop' = desktop
      BY <2>1 DEF SkipDesktop, TooSlow, desktopVars
    <3>2. BufferedTime(desktop) \in Int
      BY <1>3 DEF BufferedTime
    <3>3. BufferedTime(desktop) > 0
      BY <1>1, <3>1, <3>2
    <3> QED
      BY <1>2, <2>1, <3>1, <3>3, DesktopKept DEF SkipDesktop
  <2>2. CASE DesktopPacket
    <3>1. DesktopGrows /\ desktop' # <<>>
      BY <2>2, DesktopQueried DEF DesktopPacket
    <3>2. BufferedTime(desktop') \in Int
      BY <3>1, EndsOfTimes DEF BufferedTime, DesktopGrows
    <3>3. BufferedTime(desktop') >= BUFFER => BufferedTime(desktop') > 0
      BY <1>1, <3>2
    <3>4. pc' = IF BufferedTime(desktop') >= BUFFER THEN "mix" ELSE "query"
      BY <2>2 DEF DesktopPacket
    <3> QED
      BY <2>2, <3>1, <3>3, <3>4 DEF DesktopPacket
  <2>3. CASE DesktopFilled
    <3>1. BufferedTime(desktop) >= BUFFER /\ UNCHANGED desktopVars /\ desktop' = desktop
      BY <2>3 DEF DesktopFilled, desktopVars
    <3>2. BufferedTime(desktop) \in Int
      BY <1>3 DEF BufferedTime
    <3>3. BufferedTime(desktop) > 0
      BY <1>1, <3>1, <3>2
    <3> QED
      BY <1>2, <2>3, <3>1, <3>3, DesktopKept DEF DesktopFilled
  <2> QED
    BY <2>1, <2>2, <2>3
<1>5. /\ voice' \in Seq(Nat) /\ voiceUsed' \in Nat /\ voiceJump' \in Nat /\ VoiceInv'
      /\ latest' \in Nat /\ latest' > Epoch /\ times' \in Seq(Nat)
      /\ TrackGapless' /\ PlanInv'
      /\ BufferedTime(desktop') > 0 => times' # <<>>
  BY <1>4, RoundPlans
<1>6. /\ desktop' \in Seq(Nat) /\ desktopUsed' \in Nat /\ desktopSent' \in Nat
      /\ encoded' \in Nat
  BY <1>4 DEF DesktopGrows, IInv, TypeOK
<1>7. TypeOK'
  BY <1>4, <1>5, <1>6 DEF TypeOK
<1>8. latest' # 0
  BY <1>5, ConstantsAreNatural
<1>9. FreshInv'
  BY <1>8 DEF FreshInv
<1>10. pc' = "mix" => Len(desktop') >= 2
  <2>1. BufferedTime(desktop') = Last(desktop') - Head(desktop')
    BY <1>4 DEF BufferedTime
  <2>2. /\ Len(desktop') \in Nat /\ Len(desktop') # 0
        /\ Head(desktop') = desktop'[1] /\ Last(desktop') = desktop'[Len(desktop')]
        /\ Head(desktop') \in Nat
    BY <1>4, <1>6, EndsOfTimes
  <2>3. Len(desktop') = 1 => ~(BufferedTime(desktop') > 0)
    BY <2>1, <2>2
  <2>4. pc' = "mix" => Len(desktop') # 0 /\ Len(desktop') # 1
    BY <1>4, <2>2, <2>3, Zenon
  <2>5. Len(desktop') \in Nat
    BY <2>2
  <2> QED
    BY <2>4, <2>5
<1>11. ClockInv'
  BY <1>4, <1>5, <1>10 DEF ClockInv, DesktopGrows
<1> QED
  BY <1>5, <1>7, <1>9, <1>11 DEF IInv

\* The desktop has nothing new, and not enough.
LEMMA DryIInv ==
  ASSUME IInv, DesktopDry
  PROVE  IInv'
<1> USE DEF DesktopDry, desktopVars, voiceVars, timeVars
<1>1. TypeOK'
  BY DEF IInv, TypeOK
<1>2. TrackGapless'
  BY DEF IInv, TrackGapless
<1>3. FreshInv' /\ ClockInv' /\ PlanInv' /\ VoiceInv'
  BY DEF IInv, FreshInv, ClockInv, PlanInv, MixedNext, VoiceInv
<1> QED
  BY <1>1, <1>2, <1>3 DEF IInv

\* The voice is drained: its segments bear the latest time, or zero before the first.
LEMMA DrainIInv ==
  ASSUME IInv, Drain
  PROVE  IInv'
<1>1. QueryVoice(latest) /\ pc' = pc /\ encoded' = encoded
  BY DEF Drain
<1>2. UNCHANGED <<desktop, desktopUsed, desktopSent, latest, times>>
  BY DEF Drain, desktopVars, timeVars
<1>3. latest \in Nat /\ (latest = 0 \/ latest > Epoch)
  BY DEF IInv, TypeOK, ClockInv
<1>4. voice' \in Seq(Nat) /\ voiceUsed' \in Nat /\ voiceJump' \in Nat /\ VoiceInv'
  BY <1>1, <1>3, VoiceQueried
<1>5. TypeOK'
  BY <1>1, <1>2, <1>4 DEF IInv, TypeOK
<1>6. TrackGapless'
  BY <1>1, <1>2 DEF IInv, TrackGapless
<1>7. FreshInv' /\ ClockInv' /\ PlanInv'
  BY <1>1, <1>2 DEF IInv, FreshInv, ClockInv, PlanInv, MixedNext
<1> QED
  BY <1>4, <1>5, <1>6, <1>7 DEF IInv

\* The voice is sorted.
LEMMA DrainEndsIInv ==
  ASSUME IInv, DrainEnds
  PROVE  IInv'
<1>1. SortAudio /\ pc' = "query" /\ encoded' = encoded
  BY DEF DrainEnds
<1>2. UNCHANGED <<desktop, desktopUsed, desktopSent, latest, times>>
  BY DEF DrainEnds, desktopVars, timeVars
<1>3. /\ voice \in Seq(Nat) /\ voiceUsed \in Nat /\ voiceJump \in Nat /\ VoiceInv
      /\ Len(voice) <= MaxVoice
      /\ \A n \in 1 .. Len(voice) : voice[n] = 0 \/ voice[n] + STEP * (Len(voice) - n) > Epoch
  BY DEF IInv, TypeOK, VoiceInv
<1>4. voice' \in Seq(Nat) /\ voiceUsed' \in Nat /\ voiceJump' \in Nat /\ VoiceInv'
  <2>1. CASE Len(voice) <= 1
    BY <1>1, <1>3, <2>1 DEF SortAudio, voiceVars, VoiceInv
  <2>2. CASE ~(Len(voice) <= 1)
    <3>1. /\ voice' = SortedTimes(voice) /\ voiceUsed' = Last(voice)
          /\ voiceJump' = Larger(voiceJump, WidestMove(voice))
      BY <1>1, <2>2 DEF SortAudio
    <3>2. Len(voice) \in Nat /\ voice # <<>> /\ Last(voice) = voice[Len(voice)] /\ Last(voice) \in Nat
      BY <1>3, <2>2, EndsOfTimes
    <3>3. voiceJump' \in Nat
      BY <1>3, <3>1, <3>2, WidestMoveNatural DEF Larger
    <3>4. /\ voice' \in Seq(Nat) /\ Len(voice') = Len(voice)
          /\ \A n \in 1 .. Len(voice) : voice'[n] = 0 \/ voice'[n] + STEP * (Len(voice) - n) > Epoch
      BY <1>3, <3>1, <3>2, SortedTimesProperties
    <3>5. voiceUsed' = 0 \/ voiceUsed' > Epoch
      <4>1. Len(voice) \in 1 .. Len(voice) /\ Len(voice) - Len(voice) = 0
        BY <2>2, <3>2
      <4>2. voice[Len(voice)] = 0 \/ voice[Len(voice)] + 0 > Epoch
        BY <1>3, <4>1, Multiples
      <4> QED
        BY <3>1, <3>2, <4>2
    <3> QED
      BY <1>3, <3>1, <3>2, <3>3, <3>4, <3>5 DEF VoiceInv
  <2> QED
    BY <2>1, <2>2
<1>5. TypeOK'
  BY <1>1, <1>2, <1>4 DEF IInv, TypeOK
<1>6. TrackGapless'
  BY <1>1, <1>2 DEF IInv, TrackGapless
<1>7. FreshInv' /\ ClockInv' /\ PlanInv'
  BY <1>1, <1>2 DEF IInv, FreshInv, ClockInv, PlanInv, MixedNext
<1> QED
  BY <1>4, <1>5, <1>6, <1>7 DEF IInv

\* The earliest time is mixed: the desktop's first segment is not behind it, and if
\* that is taken there is another one, which is not behind the next time either.
LEMMA MixIInv ==
  ASSUME IInv, Mix
  PROVE  IInv'
<1> DEFINE target == Head(times)
<1>1. /\ pc = "mix" /\ times # <<>> /\ encoded' = target /\ times' = Tail(times)
      /\ desktop' = AfterGetBuffer(desktop, target) /\ voice' = AfterGetBuffer(voice, target)
      /\ pc' = "query"
      /\ UNCHANGED <<desktopUsed, desktopSent, voiceUsed, voiceJump, latest>>
  BY DEF Mix
<1>2. /\ desktop \in Seq(Nat) /\ desktopUsed \in Nat /\ desktopSent \in Nat
      /\ voice \in Seq(Nat) /\ voiceUsed \in Nat /\ voiceJump \in Nat
      /\ latest \in Nat /\ times \in Seq(Nat) /\ encoded \in Nat
  BY DEF IInv, TypeOK
<1>3. STEP \in Nat /\ STEP > 0 /\ SLACK \in Nat /\ SLACK >= STEP /\ Epoch \in Nat /\ MaxVoice \in Nat
  BY ConstantsAreNatural
<1>4. /\ latest # 0 /\ latest > Epoch /\ desktopUsed > Epoch
      /\ target <= Head(desktop) /\ desktop # <<>> /\ latest <= Last(desktop)
      /\ desktopSent = Last(desktop) /\ Len(desktop) >= 2
      /\ \A n \in 1 .. Len(desktop) : desktop[n] > Epoch
      /\ \A n \in 1 .. Len(desktop) - 1 : desktop[n + 1] >= desktop[n] + STEP
  <2>1. latest # 0
    BY <1>1 DEF IInv, FreshInv
  <2> QED
    BY <1>1, <2>1 DEF IInv, ClockInv, PlanInv, MixedNext, TrackGapless
<1>5. /\ Len(times) \in Nat /\ Len(times) > 0 /\ target = times[1] /\ target \in Nat
      /\ times' \in Seq(Nat) /\ Len(times') = Len(times) - 1
      /\ \A n \in 1 .. Len(times) - 1 : times'[n] = times[n + 1]
  BY <1>1, <1>2, EndsOfTimes
<1>6. /\ Len(desktop) \in Nat /\ \A n \in 1 .. Len(desktop) : desktop[n] \in Nat
      /\ Head(desktop) = desktop[1] /\ Last(desktop) = desktop[Len(desktop)]
      /\ Tail(desktop) \in Seq(Nat) /\ Len(Tail(desktop)) = Len(desktop) - 1
      /\ \A n \in 1 .. Len(desktop) - 1 : Tail(desktop)[n] = desktop[n + 1]
  BY <1>2, <1>4, EndsOfTimes
<1> HIDE DEF target
<1>7. /\ \A n \in 1 .. Len(times) : times[n] = latest - STEP * (Len(times) - n)
      /\ \A n \in 1 .. Len(times) : times[n] > 0
  BY DEF IInv, TrackGapless
<1>8. /\ desktop' \in Seq(Nat) /\ desktop' # <<>> /\ Last(desktop') = Last(desktop)
      /\ \A n \in 1 .. Len(desktop') : desktop'[n] > Epoch
      /\ \A n \in 1 .. Len(desktop') - 1 : desktop'[n + 1] >= desktop'[n] + STEP
      /\ Head(desktop') >= target + STEP
  <2>1. desktop' = IF Head(desktop) - target <= SLACK THEN Tail(desktop) ELSE desktop
    BY <1>1, <1>2, <1>4, <1>5, NothingBehind
  <2>2. CASE Head(desktop) - target <= SLACK
    <3>1. desktop' = Tail(desktop)
      BY <2>1, <2>2
    <3>2. /\ desktop' \in Seq(Nat) /\ Len(desktop') = Len(desktop) - 1 /\ desktop' # <<>>
          /\ Head(desktop') = desktop'[1] /\ Last(desktop') = desktop'[Len(desktop')]
      <4>1. desktop' \in Seq(Nat) /\ Len(desktop') = Len(desktop) - 1
        BY <1>6, <3>1
      <4>2. Len(desktop') # 0
        BY <1>4, <1>6, <4>1
      <4> QED
        BY <4>1, <4>2, EndsOfTimes
    <3>3. \A n \in 1 .. Len(desktop) - 1 : desktop'[n] = desktop[n + 1]
      BY <1>6, <3>1
    <3>4. Len(desktop) - 1 \in 1 .. Len(desktop) - 1 /\ 1 \in 1 .. Len(desktop) - 1
          /\ (Len(desktop) - 1) + 1 = Len(desktop)
      BY <1>4, <1>6
    <3>5. Last(desktop') = Last(desktop) /\ Head(desktop') = desktop[2]
      BY <1>6, <3>2, <3>3, <3>4
    <3>6. desktop[2] >= desktop[1] + STEP /\ desktop[1] \in Nat /\ desktop[2] \in Nat
      BY <1>4, <1>6, <3>4
    <3>7. Head(desktop') >= target + STEP
      BY <1>3, <1>4, <1>5, <1>6, <3>5, <3>6
    <3>8. \A n \in 1 .. Len(desktop') : desktop'[n] > Epoch
      <4> TAKE n \in 1 .. Len(desktop')
      <4>1. n \in 1 .. Len(desktop) - 1 /\ n + 1 \in 1 .. Len(desktop)
        BY <1>6, <3>2
      <4> QED
        BY <1>4, <3>3, <4>1
    <3>9. \A n \in 1 .. Len(desktop') - 1 : desktop'[n + 1] >= desktop'[n] + STEP
      <4> TAKE n \in 1 .. Len(desktop') - 1
      <4>1. n + 1 \in 1 .. Len(desktop) - 1 /\ n \in 1 .. Len(desktop) - 1
        BY <1>6, <3>2
      <4> QED
        BY <1>4, <3>3, <4>1
    <3> QED
      BY <3>2, <3>5, <3>7, <3>8, <3>9
  <2>3. CASE ~(Head(desktop) - target <= SLACK)
    <3>1. desktop' = desktop
      BY <2>1, <2>3
    <3>2. Head(desktop) >= target + STEP
      <4>1. Head(desktop) \in Nat /\ target \in Nat
        BY <1>2, <1>4, <1>5, EndsOfTimes
      <4> QED
        BY <1>3, <2>3, <4>1
    <3> QED
      BY <1>2, <1>4, <3>1, <3>2
  <2> QED
    BY <2>2, <2>3
<1>9. \A n \in 1 .. Len(times') : /\ times'[n] = latest - STEP * (Len(times') - n)
                                  /\ times'[n] > 0
  <2> TAKE n \in 1 .. Len(times')
  <2>1. n + 1 \in 1 .. Len(times) /\ Len(times') - n = Len(times) - (n + 1) /\ times'[n] = times[n + 1]
    BY <1>5
  <2> QED
    BY <1>7, <2>1
<1>10. latest = target + STEP * Len(times')
  <2>1. 1 \in 1 .. Len(times) /\ Len(times) - 1 = Len(times') /\ Len(times') \in Nat
    BY <1>5
  <2> DEFINE a == STEP * Len(times')
  <2>2. a \in Nat /\ target = latest - a
    BY <1>5, <1>7, <2>1, Multiples
  <2>3. latest = target + a
    <3> HIDE DEF a
    <3> QED
      BY <1>2, <2>2
  <2> QED
    BY <2>3
<1>11. TrackGapless'
  BY <1>1, <1>4, <1>8, <1>9, <1>10 DEF TrackGapless
<1>12. MixedNext' = target + STEP
  <2>1. CASE times' = <<>>
    <3>1. Len(times') = 0
      BY <2>1
    <3>2. latest = target
      <4>1. STEP * Len(times') = 0
        BY <3>1, Multiples
      <4>2. target \in Nat
        BY <1>5
      <4> QED
        BY <1>10, <4>1, <4>2
    <3> QED
      BY <1>1, <2>1, <3>2 DEF MixedNext
  <2>2. CASE times' # <<>>
    <3>1. Len(times') \in Nat /\ Len(times') > 0 /\ Head(times') = times'[1] /\ 1 \in 1 .. Len(times')
      BY <1>5, <2>2, EndsOfTimes
    <3> DEFINE a == STEP * (Len(times') - 1)
    <3>2. a \in Nat /\ STEP * Len(times') = a + STEP
      BY <3>1, Multiples
    <3>3. Head(times') = latest - a
      BY <1>9, <3>1
    <3>4. latest = target + (a + STEP)
      BY <1>10, <3>2
    <3> HIDE DEF a
    <3>5. Head(times') = target + STEP
      BY <1>2, <1>3, <1>5, <3>2, <3>3, <3>4
    <3> QED
      BY <2>2, <3>5 DEF MixedNext
  <2> QED
    BY <2>1, <2>2
<1>13. VoiceInv' /\ voice' \in Seq(Nat)
  <2>1. PICK k \in 0 .. Len(voice) :
           /\ voice' \in Seq(Nat) /\ Len(voice') = Len(voice) - k
           /\ \A n \in 1 .. Len(voice) - k : voice'[n] = voice[n + k]
    <3>1. voice \in Seq(Nat) /\ target \in Nat /\ voice' = AfterGetBuffer(voice, target)
      BY <1>1, <1>2, <1>5
    <3> QED
      BY <3>1, AfterGetBufferProperties
  <2>2. /\ Len(voice) \in Nat /\ Len(voice) <= MaxVoice /\ (voiceUsed = 0 \/ voiceUsed > Epoch)
        /\ \A n \in 1 .. Len(voice) : voice[n] = 0 \/ voice[n] + STEP * (Len(voice) - n) > Epoch
    BY <1>2, LenProperties DEF IInv, VoiceInv
  <2>3. \A n \in 1 .. Len(voice') : voice'[n] = 0 \/ voice'[n] + STEP * (Len(voice') - n) > Epoch
    <3> TAKE n \in 1 .. Len(voice')
    <3>1. n + k \in 1 .. Len(voice) /\ Len(voice) - (n + k) = Len(voice') - n /\ voice'[n] = voice[n + k]
      BY <2>1, <2>2
    <3> QED
      BY <2>2, <3>1
  <2>4. Len(voice') <= MaxVoice
    BY <1>3, <2>1, <2>2
  <2> QED
    BY <1>1, <2>1, <2>2, <2>3, <2>4 DEF VoiceInv
<1>14. TypeOK'
  BY <1>1, <1>2, <1>5, <1>8, <1>13 DEF TypeOK
<1>15. FreshInv' /\ ClockInv' /\ PlanInv'
  BY <1>1, <1>4, <1>8, <1>12 DEF FreshInv, ClockInv, PlanInv
<1> QED
  BY <1>11, <1>13, <1>14, <1>15 DEF IInv

\* The invariant is inductive.
LEMMA NextIInv == IInv /\ [Next]_vars => IInv'
<1> SUFFICES ASSUME IInv, [Next]_vars PROVE IInv'
  OBVIOUS
<1>1. CASE Next
  BY <1>1, QueryIInv, DryIInv, DrainIInv, DrainEndsIInv, MixIInv DEF Next
<1>2. CASE UNCHANGED vars
  <2> USE <1>2 DEF vars, desktopVars, voiceVars, timeVars
  <2>1. TypeOK' /\ TrackGapless'
    BY DEF IInv, TypeOK, TrackGapless
  <2>2. FreshInv' /\ ClockInv' /\ PlanInv' /\ VoiceInv'
    BY DEF IInv, FreshInv, ClockInv, PlanInv, MixedNext, VoiceInv
  <2> QED
    BY <2>1, <2>2 DEF IInv
<1> QED
  BY <1>1, <1>2
-----------------------------------------------------------------------------
(***************************************************************************)
(* The theorems.                                                           *)
(***************************************************************************)

\* IInv holds of every reachable state of the desktop's queue, the plan and the voice.
THEOREM InductiveInvariant == Spec => []IInv
  BY InitIInv, NextIInv, PTL DEF Spec

\* Types: no time that is written underflows, and MainAudioLoop has a planned time
\* whenever it takes one.
THEOREM TypeCorrect == Spec => []TypeOK
<1>1. IInv => TypeOK
  BY DEF IInv
<1> QED
  BY <1>1, InductiveInvariant, PTL

\* QueryAudioBuffers and MainAudioLoop: the audio that is encoded has no gap and no
\* overlap, starts at a time of the desktop's, and the plan is never ahead of it.
THEOREM NoGapInTheTrack == Spec => []TrackGapless
<1>1. IInv => TrackGapless
  BY DEF IInv
<1> QED
  BY <1>1, InductiveInvariant, PTL

\* GetBuffer: no segment of the desktop's is ever behind the time that is mixed.
THEOREM DesktopIsNeverBehind == Spec => []DesktopNeverLate
<1>1. IInv => DesktopNeverLate
  <2> SUFFICES ASSUME IInv, pc = "mix", desktop # <<>>, times # <<>>
               PROVE  Head(desktop) >= Head(times)
    BY DEF DesktopNeverLate
  <2>1. latest # 0
    BY DEF IInv, FreshInv
  <2>2. Head(times) <= Head(desktop)
    BY <2>1 DEF IInv, PlanInv, MixedNext
  <2>3. Head(times) \in Nat /\ Head(desktop) \in Nat
    BY EndsOfTimes DEF IInv, TypeOK
  <2> QED
    BY <2>2, <2>3
<1> QED
  BY <1>1, InductiveInvariant, PTL

\* SortAudio: a drain leaves each segment after the end of the one before. The times
\* stay far enough from zero that none is taken for an underflow.
THEOREM VoiceIsSorted == Spec => DrainSorts
<1>1. ASSUME IInv, DrainEnds
      PROVE  \A n \in 1 .. Len(voice) - 1 :
               voice'[n + 1] >= voice'[n] + STEP \/ voice'[n + 1] = 0
  <2>1. VoiceInv' /\ voice \in Seq(Nat) /\ Len(voice) \in Nat
    BY <1>1, DrainEndsIInv, LenProperties DEF IInv, TypeOK
  <2>2. CASE Len(voice) <= 1
    BY <2>1, <2>2
  <2>3. CASE ~(Len(voice) <= 1)
    <3>1. voice' = SortedTimes(voice) /\ voice # <<>>
      BY <1>1, <2>1, <2>3 DEF DrainEnds, SortAudio
    <3>2. /\ Len(voice') = Len(voice)
          /\ \A n \in 1 .. Len(voice) : voice'[n] \in Nat
          /\ \A n \in 1 .. Len(voice) - 1 : voice'[n + 1] < STEP \/ voice'[n + 1] >= voice'[n] + STEP
      BY <2>1, <3>1, SortedTimesProperties
    <3> TAKE n \in 1 .. Len(voice) - 1
    <3>3. n + 1 \in 1 .. Len(voice') /\ n + 1 \in 1 .. Len(voice) /\ Len(voice') - (n + 1) \in Nat
      BY <2>1, <3>2
    <3> DEFINE k == Len(voice') - (n + 1)
               a == STEP * k
               b == STEP * MaxVoice
    <3>4. (voice'[n + 1] = 0 \/ voice'[n + 1] + a > Epoch) /\ voice'[n + 1] \in Nat
      BY <2>1, <3>2, <3>3 DEF VoiceInv
    <3>5. a \in Nat /\ b \in Nat /\ a <= b /\ Epoch = JUMP + b
      <4>1. k \in Nat /\ MaxVoice \in Nat /\ k <= MaxVoice
        BY <2>1, <3>2, <3>3, ConstantsAreNatural DEF VoiceInv
      <4>2. Epoch = JUMP + b
        BY DEF Epoch
      <4> HIDE DEF k
      <4> QED
        BY <4>1, <4>2, Multiples
    <3> HIDE DEF a, b
    <3>6. voice'[n + 1] = 0 \/ ~(voice'[n + 1] < STEP)
      BY <3>4, <3>5, ConstantsAreNatural
    <3> QED
      BY <3>2, <3>6
  <2> QED
    BY <2>2, <2>3
<1>2. IInv /\ [Next]_vars =>
        [DrainEnds => \A n \in 1 .. Len(voice) - 1 :
           voice'[n + 1] >= voice'[n] + STEP \/ voice'[n + 1] = 0]_vars
  BY <1>1
<1> QED
  BY <1>2, InductiveInvariant, PTL DEF Spec, DrainSorts
=============================================================================
