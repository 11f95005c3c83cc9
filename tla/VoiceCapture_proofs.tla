------------------------ MODULE VoiceCapture_proofs -------------------------
(***************************************************************************)
(* Proofs about VoiceCapture, for segments of any length, any finite set   *)
(* of hotkeys and any bounds: the invariants and the action properties of  *)
(* the module follow from one inductive invariant, IInv.                   *)
(***************************************************************************)
EXTENDS VoiceCapture, FiniteSetTheorems, SequenceTheorems, TLAPS

-----------------------------------------------------------------------------
(***************************************************************************)
(* The inductive invariant.                                                *)
(***************************************************************************)

\* Inside the body of GetNextBuffer's loop.
Reading == pc \in {"count", "expiry", "append"}

\* The loop's condition held when the samples were read, and it holds when the
\* host has the segment.
FillInv ==
  /\ Len(audioBuf) < 2 * SEG
  /\ Reading \/ pc = "idle" => Len(audioBuf) < SEG
  /\ pc = "host" => Len(audioBuf) >= SEG
  /\ ~Reading => fresh = 0

\* The count is the number of held keys, and the deadline is the real one, or in
\* the middle of the callback an earlier one; no key is held when the deadline is
\* looked at, unless it went down after the count was read.
PttInv ==
  /\ pttKeysDown = Cardinality(held)
  /\ cb = "stamp" => held = {}
  /\ cb = "idle" => pttDelayExpires = openUntil
  /\ pttDelayExpires <= openUntil
  /\ pttDelayExpires <= now + PttDelay
  /\ pc = "expiry" => UsePtt /\ (pressed \/ held = {})

\* As long as the host does not know that the device is empty, the flag says so,
\* or it will when the samples just read are appended.
DryInv == dry => skipNextRead \/ (Reading /\ ~incomplete)

IInv == TypeOK /\ SamplesInOrder /\ FillInv /\ FilteredOnce /\ PttInv /\ DryInv
-----------------------------------------------------------------------------
(***************************************************************************)
(* Lemmas about the operators on the buffer.                               *)
(***************************************************************************)

\* A function on 1 .. n is a sequence of length n.
LEMMA FunctionIsSeq ==
  ASSUME NEW S, NEW n \in Nat, NEW f \in [1 .. n -> S]
  PROVE  f \in Seq(S) /\ Len(f) = n
<1>1. f \in Seq(S)
  BY SeqDef
<1>2. Len(f) \in Nat /\ DOMAIN f = 1 .. Len(f)
  BY <1>1, LenProperties
<1>3. DOMAIN f = 1 .. n
  OBVIOUS
<1> QED
  BY <1>1, <1>2, <1>3

\* Running Speex changes nothing but the number of runs, and that only in the
\* first segment.
LEMMA FilteredProperties ==
  ASSUME NEW buf \in Seq(Sample)
  PROVE  /\ Filtered(buf) \in Seq(Sample)
         /\ Len(Filtered(buf)) = Len(buf)
         /\ \A i \in 1 .. Len(buf) :
              /\ Filtered(buf)[i].id = buf[i].id
              /\ Filtered(buf)[i].runs =
                   IF HasSpeex /\ i <= SEG THEN buf[i].runs + 1 ELSE buf[i].runs
<1>1. Len(buf) \in Nat /\ \A i \in 1 .. Len(buf) : buf[i] \in Sample
  BY LenProperties, ElementOfSeq
<1>2. Filtered(buf) \in [1 .. Len(buf) -> Sample]
  BY <1>1 DEF Filtered, Sample
<1>3. Filtered(buf) \in Seq(Sample) /\ Len(Filtered(buf)) = Len(buf)
  BY <1>1, <1>2, FunctionIsSeq
<1>4. ASSUME NEW i \in 1 .. Len(buf)
      PROVE  /\ Filtered(buf)[i].id = buf[i].id
             /\ Filtered(buf)[i].runs =
                  IF HasSpeex /\ i <= SEG THEN buf[i].runs + 1 ELSE buf[i].runs
  BY <1>1 DEF Filtered, Sample
<1> QED
  BY <1>3, <1>4

\* Releasing the first segment moves the rest to the front.
LEMMA RemainderProperties ==
  ASSUME NEW buf \in Seq(Sample), Len(buf) >= SEG
  PROVE  /\ Remainder(buf) \in Seq(Sample)
         /\ Len(Remainder(buf)) = Len(buf) - SEG
         /\ \A i \in 1 .. Len(buf) - SEG : Remainder(buf)[i] = buf[SEG + i]
<1>1. SEG \in Nat \ {0} /\ Len(buf) \in Nat
  BY ConstantsAssumption, LenProperties
<1>2. \A i \in SEG + 1 .. Len(buf) : buf[i] \in Sample
  BY <1>1, ElementOfSeq
<1>3. /\ Remainder(buf) \in Seq(Sample)
      /\ Len(Remainder(buf)) =
           IF SEG + 1 <= Len(buf) THEN Len(buf) - (SEG + 1) + 1 ELSE 0
      /\ \A i \in 1 .. Len(buf) - (SEG + 1) + 1 :
           Remainder(buf)[i] = buf[SEG + 1 + i - 1]
  BY <1>1, <1>2, SubSeqProperties DEF Remainder
<1> QED
  BY <1>1, <1>3

\* Appending keeps what is buffered and numbers the new samples as they were read.
LEMMA AppendedProperties ==
  ASSUME audioBuf \in Seq(Sample), fresh \in Nat, read \in Nat, fresh <= read,
         pttMute \in BOOLEAN, micVolume \in {0, 1}
  PROVE  /\ audioBuf \o NewSamples \in Seq(Sample)
         /\ Len(audioBuf \o NewSamples) = Len(audioBuf) + fresh
         /\ \A i \in 1 .. Len(audioBuf) : (audioBuf \o NewSamples)[i] = audioBuf[i]
         /\ \A i \in 1 .. fresh :
              /\ (audioBuf \o NewSamples)[Len(audioBuf) + i].id = read - fresh + i
              /\ (audioBuf \o NewSamples)[Len(audioBuf) + i].runs = 0
<1>1. NewSamples \in [1 .. fresh -> Sample]
  BY DEF NewSamples, Sample
<1>2. NewSamples \in Seq(Sample) /\ Len(NewSamples) = fresh
  BY <1>1, FunctionIsSeq
<1>3. Len(audioBuf) \in Nat
  BY LenProperties
<1>4. /\ audioBuf \o NewSamples \in Seq(Sample)
      /\ Len(audioBuf \o NewSamples) = Len(audioBuf) + fresh
      /\ \A i \in 1 .. Len(audioBuf) + fresh :
           (audioBuf \o NewSamples)[i] =
             IF i <= Len(audioBuf) THEN audioBuf[i] ELSE NewSamples[i - Len(audioBuf)]
  BY <1>2, ConcatProperties
<1>5. \A i \in 1 .. Len(audioBuf) : (audioBuf \o NewSamples)[i] = audioBuf[i]
  BY <1>3, <1>4
<1>6. \A i \in 1 .. fresh : (audioBuf \o NewSamples)[Len(audioBuf) + i] = NewSamples[i]
  BY <1>3, <1>4
<1>7. \A i \in 1 .. fresh : NewSamples[i].id = read - fresh + i /\ NewSamples[i].runs = 0
  BY DEF NewSamples
<1> QED
  BY <1>4, <1>5, <1>6, <1>7
-----------------------------------------------------------------------------
(***************************************************************************)
(* IInv is inductive: first the steps of the audio thread, one by one.     *)
(***************************************************************************)

LEMMA InitIInv == Init => IInv
<1> SUFFICES ASSUME Init PROVE IInv
  OBVIOUS
<1> USE ConstantsAssumption
<1>1. <<>> \in Seq(Sample) /\ Len(<<>>) = 0
  BY EmptySeq
<1>2. Cardinality({}) = 0 /\ Cardinality(PttHotkeys) \in Nat
  BY FS_EmptySet, FS_CardinalityType
<1>3. TypeOK
  <2>1. 0 \in 0 .. MaxCaptured /\ 0 \in 0 .. MaxTime /\ 0 \in 0 .. SEG
    OBVIOUS
  <2>2. 0 \in 0 .. Cardinality(PttHotkeys)
    BY <1>2
  <2>3. audioBuf \in Seq(Sample) /\ out \in Seq(Sample)
    BY <1>1 DEF Init
  <2>4. /\ captured \in 0 .. MaxCaptured /\ read \in 0 .. MaxCaptured
        /\ now \in 0 .. MaxTime /\ fresh \in 0 .. SEG
        /\ pttKeysDown \in 0 .. Cardinality(PttHotkeys)
    BY <2>1, <2>2 DEF Init
  <2>5. held \in SUBSET PttHotkeys
    BY DEF Init
  <2>6. /\ skipNextRead \in BOOLEAN /\ draining \in BOOLEAN /\ incomplete \in BOOLEAN
        /\ pttMute \in BOOLEAN /\ dry \in BOOLEAN
    BY DEF Init
  <2> QED
    BY <2>3, <2>4, <2>5, <2>6 DEF Init, TypeOK, AudioPC
<1>4. SamplesInOrder /\ FillInv /\ FilteredOnce
  BY <1>1 DEF Init, SamplesInOrder, FillInv, Reading, FilteredOnce
<1>5. PttInv /\ DryInv
  BY <1>2 DEF Init, PttInv, DryInv
<1> QED
  BY <1>3, <1>4, <1>5 DEF IInv

\* The number of samples buffered is a number.
LEMMA BufferLength ==
  ASSUME IInv
  PROVE  audioBuf \in Seq(Sample) /\ Len(audioBuf) \in Nat
BY LenProperties DEF IInv, TypeOK

LEMMA SegmentReadyIInv == IInv /\ SegmentReady => IInv'
<1> SUFFICES ASSUME IInv, SegmentReady PROVE IInv'
  OBVIOUS
<1> USE ConstantsAssumption
<1>1. audioBuf \in Seq(Sample) /\ Len(audioBuf) \in Nat
  BY BufferLength
<1>2. /\ audioBuf' \in Seq(Sample)
      /\ Len(audioBuf') = Len(audioBuf)
      /\ \A i \in 1 .. Len(audioBuf) :
           /\ audioBuf'[i].id = audioBuf[i].id
           /\ audioBuf'[i].runs =
                IF HasSpeex /\ i <= SEG THEN audioBuf[i].runs + 1 ELSE audioBuf[i].runs
  BY <1>1, FilteredProperties DEF SegmentReady
<1>3. Len(audioBuf) >= SEG
  BY <1>1 DEF SegmentReady, ReadNeeded
<1>4. out' \in Seq(Sample)
  <2>1. \A i \in 1 .. SEG : audioBuf'[i] \in Sample
    BY <1>1, <1>2, <1>3, ElementOfSeq
  <2> QED
    BY <2>1, SubSeqProperties DEF SegmentReady
<1>5. TypeOK'
  BY <1>2, <1>4 DEF IInv, TypeOK, SegmentReady, pttVars, AudioPC
<1>6. SamplesInOrder'
  BY <1>1, <1>2 DEF IInv, SamplesInOrder, SegmentReady
<1>7. FillInv'
  BY <1>1, <1>2, <1>3 DEF IInv, FillInv, Reading, SegmentReady
<1>8. FilteredOnce'
  <2>1. \A i \in 1 .. Len(audioBuf) : audioBuf[i].runs = 0
    BY DEF IInv, FilteredOnce, SegmentReady
  <2>2. pc' = "host"
    BY DEF SegmentReady
  <2>3. ASSUME NEW i \in 1 .. Len(audioBuf)
        PROVE  audioBuf'[i].runs = IF HasSpeex /\ i <= SEG THEN 1 ELSE 0
    BY <1>2, <2>1
  <2> QED
    BY <1>2, <2>2, <2>3 DEF FilteredOnce
<1>9. PttInv' /\ DryInv'
  BY DEF IInv, PttInv, DryInv, Reading, SegmentReady, pttVars
<1> QED
  BY <1>5, <1>6, <1>7, <1>8, <1>9 DEF IInv

LEMMA ReadSamplesIInv == IInv /\ ReadSamples => IInv'
<1> SUFFICES ASSUME IInv, ReadSamples PROVE IInv'
  OBVIOUS
<1> USE ConstantsAssumption
<1>1. audioBuf \in Seq(Sample) /\ Len(audioBuf) \in Nat
  BY BufferLength
<1>2. /\ captured \in 0 .. MaxCaptured /\ read \in Nat /\ read <= captured
      /\ fresh = 0 /\ Len(audioBuf) < SEG
  BY <1>1 DEF IInv, TypeOK, SamplesInOrder, FillInv, Reading, ReadSamples, ReadNeeded
<1>3. fresh' \in 0 .. SEG /\ read' = read + fresh' /\ read' <= captured
  BY <1>2 DEF ReadSamples, Smaller, BufferRoom
<1>4. TypeOK'
  BY <1>2, <1>3 DEF IInv, TypeOK, ReadSamples, pttVars, AudioPC
<1>5. SamplesInOrder'
  BY <1>1, <1>2, <1>3 DEF IInv, TypeOK, SamplesInOrder, ReadSamples
<1>6. FillInv'
  BY <1>1, <1>2 DEF IInv, FillInv, Reading, ReadSamples
<1>7. FilteredOnce'
  BY DEF IInv, FilteredOnce, ReadSamples
<1>8. PttInv' /\ DryInv'
  BY DEF IInv, TypeOK, PttInv, DryInv, Reading, ReadSamples, pttVars
<1> QED
  BY <1>4, <1>5, <1>6, <1>7, <1>8 DEF IInv

LEMMA AppendSamplesIInv == IInv /\ AppendSamples => IInv'
<1> SUFFICES ASSUME IInv, AppendSamples PROVE IInv'
  OBVIOUS
<1> USE ConstantsAssumption
<1>1. audioBuf \in Seq(Sample) /\ Len(audioBuf) \in Nat
  BY BufferLength
<1>2. /\ fresh \in 0 .. SEG /\ read \in Nat /\ delivered \in Nat
      /\ read = delivered + Len(audioBuf) + fresh
      /\ Len(audioBuf) < SEG
  BY <1>1 DEF IInv, TypeOK, SamplesInOrder, FillInv, Reading, AppendSamples
<1>3. /\ audioBuf' \in Seq(Sample)
      /\ Len(audioBuf') = Len(audioBuf) + fresh
      /\ \A i \in 1 .. Len(audioBuf) : audioBuf'[i] = audioBuf[i]
      /\ \A i \in 1 .. fresh : /\ audioBuf'[Len(audioBuf) + i].id = read - fresh + i
                               /\ audioBuf'[Len(audioBuf) + i].runs = 0
  <2>1. fresh \in Nat /\ fresh <= read /\ pttMute \in BOOLEAN /\ micVolume \in {0, 1}
    BY <1>1, <1>2 DEF IInv, TypeOK
  <2> QED
    BY <1>1, <1>2, <2>1, AppendedProperties DEF AppendSamples
<1>4. \A i \in 1 .. Len(audioBuf') :
        \/ i \in 1 .. Len(audioBuf)
        \/ \E j \in 1 .. fresh : i = Len(audioBuf) + j
  <2> SUFFICES ASSUME NEW i \in 1 .. Len(audioBuf'), i \notin 1 .. Len(audioBuf)
               PROVE  \E j \in 1 .. fresh : i = Len(audioBuf) + j
    OBVIOUS
  <2>1. i - Len(audioBuf) \in 1 .. fresh /\ i = Len(audioBuf) + (i - Len(audioBuf))
    BY <1>1, <1>2, <1>3
  <2> QED
    BY <2>1
<1>5. TypeOK'
  BY <1>1, <1>2, <1>3 DEF IInv, TypeOK, AppendSamples, SkipAfterRead, pttVars, AudioPC
<1>6. SamplesInOrder'
  <2>1. ASSUME NEW i \in 1 .. Len(audioBuf') PROVE audioBuf'[i].id = delivered + i
    <3>1. CASE i \in 1 .. Len(audioBuf)
      BY <1>3, <3>1 DEF IInv, SamplesInOrder
    <3>2. CASE \E j \in 1 .. fresh : i = Len(audioBuf) + j
      <4> PICK j \in 1 .. fresh : i = Len(audioBuf) + j
        BY <3>2
      <4>1. audioBuf'[Len(audioBuf) + j].id = read - fresh + j
        BY <1>3
      <4>2. read - fresh + j = delivered + (Len(audioBuf) + j)
        BY <1>1, <1>2
      <4> QED
        BY <4>1, <4>2
    <3> QED
      BY <1>4, <3>1, <3>2
  <2>2. delivered' = delivered /\ read' = read /\ captured' = captured /\ fresh' = 0
    BY DEF AppendSamples
  <2>3. read' = delivered' + Len(audioBuf') + fresh' /\ read' <= captured'
    BY <1>1, <1>2, <1>3, <2>2 DEF IInv, SamplesInOrder
  <2> QED
    BY <2>1, <2>2, <2>3 DEF SamplesInOrder
<1>7. FillInv'
  BY <1>1, <1>2, <1>3 DEF FillInv, Reading, AppendSamples
<1>8. FilteredOnce'
  <2>1. \A i \in 1 .. Len(audioBuf) : audioBuf[i].runs = 0
    BY DEF IInv, FilteredOnce, AppendSamples
  <2>2. \A i \in 1 .. Len(audioBuf') : audioBuf'[i].runs = 0
    BY <1>3, <1>4, <2>1
  <2> QED
    BY <2>2 DEF FilteredOnce, AppendSamples
<1>9. PttInv' /\ DryInv'
  BY DEF IInv, TypeOK, PttInv, DryInv, Reading, AppendSamples, SkipAfterRead, pttVars
<1> QED
  BY <1>5, <1>6, <1>7, <1>8, <1>9 DEF IInv

LEMMA ReleaseBufferIInv == IInv /\ ReleaseBuffer => IInv'
<1> SUFFICES ASSUME IInv, ReleaseBuffer PROVE IInv'
  OBVIOUS
<1> USE ConstantsAssumption
<1>1. audioBuf \in Seq(Sample) /\ Len(audioBuf) \in Nat
  BY BufferLength
<1>2. /\ Len(audioBuf) >= SEG /\ Len(audioBuf) < 2 * SEG
      /\ fresh = 0 /\ delivered \in Nat /\ read \in Nat
  BY DEF IInv, TypeOK, FillInv, Reading, ReleaseBuffer
<1>3. /\ audioBuf' \in Seq(Sample)
      /\ Len(audioBuf') = Len(audioBuf) - SEG
      /\ \A i \in 1 .. Len(audioBuf') : audioBuf'[i] = audioBuf[SEG + i]
  BY <1>1, <1>2, RemainderProperties DEF ReleaseBuffer
<1>4. delivered' = delivered + SEG
  BY <1>2 DEF ReleaseBuffer
<1>5. \A i \in 1 .. Len(audioBuf') : SEG + i \in 1 .. Len(audioBuf) /\ ~(SEG + i <= SEG)
  BY <1>1, <1>2, <1>3
<1>6. TypeOK'
  BY <1>2, <1>3, <1>4 DEF IInv, TypeOK, ReleaseBuffer, pttVars, AudioPC
<1>7. SamplesInOrder'
  <2>1. ASSUME NEW i \in 1 .. Len(audioBuf') PROVE audioBuf'[i].id = delivered' + i
    <3>1. audioBuf[SEG + i].id = delivered + (SEG + i)
      BY <1>5 DEF IInv, SamplesInOrder
    <3> QED
      BY <1>1, <1>2, <1>3, <1>4, <3>1
  <2>2. read' = read /\ captured' = captured /\ fresh' = 0
    BY <1>2 DEF ReleaseBuffer
  <2>3. read' = delivered' + Len(audioBuf') + fresh' /\ read' <= captured'
    BY <1>1, <1>2, <1>3, <1>4, <2>2 DEF IInv, SamplesInOrder
  <2> QED
    BY <2>1, <2>3 DEF SamplesInOrder
<1>8. FillInv'
  BY <1>1, <1>2, <1>3 DEF FillInv, Reading, ReleaseBuffer
<1>9. FilteredOnce'
  <2>1. \A i \in 1 .. Len(audioBuf') : audioBuf'[i].runs = 0
    BY <1>3, <1>5 DEF IInv, FilteredOnce
  <2> QED
    BY <2>1 DEF FilteredOnce, ReleaseBuffer
<1>10. PttInv' /\ DryInv'
  BY DEF IInv, PttInv, DryInv, Reading, ReleaseBuffer, pttVars
<1> QED
  BY <1>6, <1>7, <1>8, <1>9, <1>10 DEF IInv

LEMMA QueryIInv == IInv /\ Query => IInv'
<1> SUFFICES ASSUME IInv, Query PROVE IInv'
  OBVIOUS
<1> USE ConstantsAssumption DEF Query
<1>1. TypeOK'
  BY DEF IInv, TypeOK, AudioPC, pttVars
<1>2. SamplesInOrder' /\ FillInv'
  BY BufferLength DEF IInv, SamplesInOrder, FillInv, Reading, ReadNeeded, pttVars
<1>3. FilteredOnce'
  BY DEF IInv, FilteredOnce, pttVars
<1>4. PttInv' /\ DryInv'
  BY DEF IInv, TypeOK, PttInv, DryInv, Reading, pttVars
<1> QED
  BY <1>1, <1>2, <1>3, <1>4 DEF IInv

LEMMA SkipReadIInv == IInv /\ SkipRead => IInv'
<1> SUFFICES ASSUME IInv, SkipRead PROVE IInv'
  OBVIOUS
<1> USE ConstantsAssumption DEF SkipRead
<1>1. TypeOK'
  BY DEF IInv, TypeOK, AudioPC, ReturnFalse, pttVars
<1>2. SamplesInOrder' /\ FillInv'
  BY BufferLength DEF IInv, SamplesInOrder, FillInv, Reading, ReadNeeded, ReturnFalse, pttVars
<1>3. FilteredOnce'
  BY DEF IInv, FilteredOnce, ReturnFalse, pttVars
<1>4. PttInv' /\ DryInv'
  BY DEF IInv, TypeOK, PttInv, DryInv, Reading, ReturnFalse, pttVars
<1> QED
  BY <1>1, <1>2, <1>3, <1>4 DEF IInv

LEMMA ReadFailsIInv == IInv /\ ReadFails => IInv'
<1> SUFFICES ASSUME IInv, ReadFails PROVE IInv'
  OBVIOUS
<1> USE ConstantsAssumption DEF ReadFails
<1>1. TypeOK'
  BY DEF IInv, TypeOK, AudioPC, ReturnFalse, pttVars
<1>2. SamplesInOrder' /\ FillInv'
  BY BufferLength DEF IInv, SamplesInOrder, FillInv, Reading, ReadNeeded, ReturnFalse, pttVars
<1>3. FilteredOnce'
  BY DEF IInv, FilteredOnce, ReturnFalse, pttVars
<1>4. PttInv' /\ DryInv'
  BY DEF IInv, TypeOK, PttInv, DryInv, Reading, ReturnFalse, pttVars
<1> QED
  BY <1>1, <1>2, <1>3, <1>4 DEF IInv

\* Held keys are counted: the set is finite, and no larger than that of the hotkeys.
LEMMA HeldIsCounted ==
  ASSUME NEW keys \in SUBSET PttHotkeys
  PROVE  /\ IsFiniteSet(keys)
         /\ Cardinality(keys) \in 0 .. Cardinality(PttHotkeys)
         /\ Cardinality(keys) = 0 <=> keys = {}
<1>1. IsFiniteSet(keys) /\ Cardinality(keys) <= Cardinality(PttHotkeys)
  BY ConstantsAssumption, FS_Subset
<1>2. Cardinality(keys) \in Nat /\ Cardinality(PttHotkeys) \in Nat
  BY <1>1, ConstantsAssumption, FS_CardinalityType
<1>3. Cardinality(keys) = 0 <=> keys = {}
  BY <1>1, FS_EmptySet
<1> QED
  BY <1>1, <1>2, <1>3

LEMMA TestKeysDownIInv == IInv /\ TestKeysDown => IInv'
<1> SUFFICES ASSUME IInv, TestKeysDown PROVE IInv'
  OBVIOUS
<1> USE ConstantsAssumption DEF TestKeysDown
<1>1. TypeOK'
  BY DEF IInv, TypeOK, AudioPC, pttVars
<1>2. SamplesInOrder' /\ FillInv'
  BY BufferLength DEF IInv, SamplesInOrder, FillInv, Reading, ReadNeeded, pttVars
<1>3. FilteredOnce'
  BY DEF IInv, FilteredOnce, pttVars
<1>4. PttInv'
  <2>1. pttKeysDown = 0 => held = {}
    BY HeldIsCounted DEF IInv, TypeOK, PttInv
  <2> QED
    BY <2>1 DEF IInv, PttInv, pttVars
<1>5. DryInv'
  BY DEF IInv, DryInv, Reading, pttVars
<1> QED
  BY <1>1, <1>2, <1>3, <1>4, <1>5 DEF IInv

LEMMA TestExpiryIInv == IInv /\ TestExpiry => IInv'
<1> SUFFICES ASSUME IInv, TestExpiry PROVE IInv'
  OBVIOUS
<1> USE ConstantsAssumption DEF TestExpiry
<1>1. TypeOK'
  <2>1. pttMute' \in BOOLEAN
    BY DEF DelayOver
  <2>2. pressed' \in BOOLEAN
    OBVIOUS
  <2> QED
    BY <2>1, <2>2 DEF IInv, TypeOK, AudioPC
<1>2. SamplesInOrder' /\ FillInv'
  BY BufferLength DEF IInv, SamplesInOrder, FillInv, Reading, ReadNeeded, DelayOver, pttVars
<1>3. FilteredOnce'
  BY DEF IInv, FilteredOnce, DelayOver, pttVars
<1>4. PttInv' /\ DryInv'
  BY DEF IInv, TypeOK, PttInv, DryInv, Reading, DelayOver, pttVars
<1> QED
  BY <1>1, <1>2, <1>3, <1>4 DEF IInv
-----------------------------------------------------------------------------
(***************************************************************************)
(* Then the other threads: nothing they do touches the buffer.             *)
(***************************************************************************)

\* What every step that leaves the audio thread's state alone preserves.
LEMMA BufferKept ==
  ASSUME IInv, UNCHANGED <<audioVars, read>>, captured' \in Nat, captured' >= captured
  PROVE  SamplesInOrder' /\ FillInv' /\ FilteredOnce' /\ DryInv'
<1> USE DEF IInv, audioVars
<1>1. captured \in Nat /\ read \in Nat
  BY ConstantsAssumption DEF TypeOK
<1>2. SamplesInOrder'
  BY <1>1 DEF SamplesInOrder
<1>3. FillInv' /\ FilteredOnce' /\ DryInv'
  BY DEF FillInv, FilteredOnce, DryInv, Reading
<1> QED
  BY <1>2, <1>3

LEMMA CaptureIInv == IInv /\ Capture => IInv'
<1> SUFFICES ASSUME IInv, Capture PROVE IInv'
  OBVIOUS
<1>1. captured \in Nat /\ captured' \in 0 .. MaxCaptured /\ captured' >= captured
  BY ConstantsAssumption DEF IInv, TypeOK, Capture
<1>2. TypeOK'
  BY <1>1 DEF IInv, TypeOK, Capture, audioVars, pttVars
<1>3. SamplesInOrder' /\ FillInv' /\ FilteredOnce' /\ DryInv'
  BY <1>1, BufferKept, ConstantsAssumption DEF Capture
<1>4. PttInv'
  BY DEF IInv, PttInv, Capture, audioVars, pttVars
<1> QED
  BY <1>2, <1>3, <1>4 DEF IInv

LEMMA TickIInv == IInv /\ Tick => IInv'
<1> SUFFICES ASSUME IInv, Tick PROVE IInv'
  OBVIOUS
<1>1. TypeOK'
  BY ConstantsAssumption DEF IInv, TypeOK, Tick, audioVars, pttVars
<1>2. SamplesInOrder' /\ FillInv' /\ FilteredOnce' /\ DryInv'
  <2>1. captured \in Nat /\ captured' = captured
    BY ConstantsAssumption DEF IInv, TypeOK, Tick
  <2> QED
    BY <2>1, BufferKept DEF Tick
<1>3. PttInv'
  BY ConstantsAssumption DEF IInv, TypeOK, PttInv, Tick, audioVars, pttVars
<1> QED
  BY <1>1, <1>2, <1>3 DEF IInv

LEMMA SetMicVolumeIInv == IInv /\ SetMicVolume => IInv'
<1> SUFFICES ASSUME IInv, SetMicVolume PROVE IInv'
  OBVIOUS
<1>1. TypeOK'
  BY DEF IInv, TypeOK, SetMicVolume, audioVars, pttVars
<1>2. SamplesInOrder' /\ FillInv' /\ FilteredOnce' /\ DryInv'
  <2>1. captured \in Nat /\ captured' = captured
    BY ConstantsAssumption DEF IInv, TypeOK, SetMicVolume
  <2> QED
    BY <2>1, BufferKept DEF SetMicVolume
<1>3. PttInv'
  BY DEF IInv, PttInv, SetMicVolume, audioVars, pttVars
<1> QED
  BY <1>1, <1>2, <1>3 DEF IInv

LEMMA PttKeyDownIInv ==
  ASSUME IInv, NEW h \in PttHotkeys, PttKeyDown(h)
  PROVE  IInv'
<1>1. held \in SUBSET PttHotkeys /\ held' = held \cup {h} /\ held' \in SUBSET PttHotkeys
  BY DEF IInv, TypeOK, PttKeyDown
<1>2. pttKeysDown' = Cardinality(held') /\ pttKeysDown' \in 0 .. Cardinality(PttHotkeys)
  <2>1. Cardinality(held') = Cardinality(held) + 1
    BY <1>1, HeldIsCounted, FS_AddElement DEF PttKeyDown
  <2> QED
    BY <1>1, <2>1, HeldIsCounted DEF IInv, PttInv, PttKeyDown
<1>3. TypeOK'
  BY <1>1, <1>2 DEF IInv, TypeOK, PttKeyDown, audioVars
<1>4. SamplesInOrder' /\ FillInv' /\ FilteredOnce' /\ DryInv'
  <2>1. captured \in Nat /\ captured' = captured
    BY ConstantsAssumption DEF IInv, TypeOK, PttKeyDown
  <2> QED
    BY <2>1, BufferKept DEF PttKeyDown
<1>5. PttInv'
  BY <1>2 DEF IInv, PttInv, PttKeyDown, audioVars
<1> QED
  BY <1>3, <1>4, <1>5 DEF IInv

LEMMA PttKeyUpIInv ==
  ASSUME IInv, NEW h \in PttHotkeys, PttKeyUp(h)
  PROVE  IInv'
<1>1. held \in SUBSET PttHotkeys /\ held' = held \ {h} /\ held' \in SUBSET PttHotkeys
  BY DEF IInv, TypeOK, PttKeyUp
<1>2. pttKeysDown' = Cardinality(held') /\ pttKeysDown' \in 0 .. Cardinality(PttHotkeys)
  <2>1. Cardinality(held') = Cardinality(held) - 1
    BY <1>1, HeldIsCounted, FS_RemoveElement DEF PttKeyUp
  <2> QED
    BY <1>1, <2>1, HeldIsCounted DEF IInv, PttInv, PttKeyUp
<1>3. TypeOK'
  <2>1. openUntil' \in Nat /\ cb' \in {"idle", "stamp"}
    BY ConstantsAssumption DEF IInv, TypeOK, PttKeyUp
  <2> QED
    BY <1>1, <1>2, <2>1 DEF IInv, TypeOK, PttKeyUp, audioVars
<1>4. SamplesInOrder' /\ FillInv' /\ FilteredOnce' /\ DryInv'
  <2>1. captured \in Nat /\ captured' = captured
    BY ConstantsAssumption DEF IInv, TypeOK, PttKeyUp
  <2> QED
    BY <2>1, BufferKept DEF PttKeyUp
<1>5. PttInv'
  <2>1. cb' = "stamp" <=> held' = {}
    BY <1>1, <1>2, HeldIsCounted DEF PttKeyUp
  <2>2. /\ cb' = "idle" => pttDelayExpires' = openUntil'
        /\ pttDelayExpires' <= openUntil'
        /\ pttDelayExpires' <= now' + PttDelay
    BY <2>1 DEF IInv, PttInv, PttKeyUp
  <2>3. pc' = "expiry" => UsePtt /\ (pressed' \/ held' = {})
    BY <1>1 DEF IInv, PttInv, PttKeyUp, audioVars
  <2> QED
    BY <1>2, <2>1, <2>2, <2>3 DEF PttInv
<1> QED
  BY <1>3, <1>4, <1>5 DEF IInv

LEMMA PttStampIInv == IInv /\ PttStamp => IInv'
<1> SUFFICES ASSUME IInv, PttStamp PROVE IInv'
  OBVIOUS
<1>1. TypeOK'
  BY ConstantsAssumption DEF IInv, TypeOK, PttStamp, Deadline, audioVars
<1>2. SamplesInOrder' /\ FillInv' /\ FilteredOnce' /\ DryInv'
  <2>1. captured \in Nat /\ captured' = captured
    BY ConstantsAssumption DEF IInv, TypeOK, PttStamp
  <2> QED
    BY <2>1, BufferKept DEF PttStamp
<1>3. PttInv'
  <2>1. pttDelayExpires' = openUntil' /\ openUntil' = now' + PttDelay /\ openUntil' \in Nat
    BY ConstantsAssumption DEF IInv, TypeOK, PttStamp, Deadline
  <2> QED
    BY <2>1 DEF IInv, PttInv, PttStamp, audioVars
<1> QED
  BY <1>1, <1>2, <1>3 DEF IInv

LEMMA StutterIInv == IInv /\ UNCHANGED vars => IInv'
BY DEF IInv, TypeOK, SamplesInOrder, FillInv, Reading, FilteredOnce, PttInv, DryInv,
       vars, audioVars, pttVars
-----------------------------------------------------------------------------
LEMMA NextIInv == IInv /\ [Next]_vars => IInv'
<1> SUFFICES ASSUME IInv, [Next]_vars PROVE IInv'
  OBVIOUS
<1>1. CASE AudioStep
  BY <1>1, QueryIInv, SegmentReadyIInv, SkipReadIInv, ReadFailsIInv, ReadSamplesIInv,
     TestKeysDownIInv, TestExpiryIInv, AppendSamplesIInv, ReleaseBufferIInv
  DEF AudioStep
<1>2. CASE MainStep
  BY <1>2, PttKeyDownIInv, PttKeyUpIInv, PttStampIInv, SetMicVolumeIInv DEF MainStep
<1>3. CASE Capture
  BY <1>3, CaptureIInv
<1>4. CASE Tick
  BY <1>4, TickIInv
<1>5. CASE UNCHANGED vars
  BY <1>5, StutterIInv
<1> QED
  BY <1>1, <1>2, <1>3, <1>4, <1>5 DEF Next

\* The inductive invariant holds in every behaviour of GetNextBuffer,
\* ReleaseBuffer, the push-to-talk callback and the device.
THEOREM InductiveInvariant == Spec => []IInv
<1>1. Init => IInv
  BY InitIInv
<1>2. IInv /\ [Next]_vars => IInv'
  BY NextIInv
<1> QED
  BY <1>1, <1>2, PTL DEF Spec
-----------------------------------------------------------------------------
(***************************************************************************)
(* The properties of VoiceCapture.                                         *)
(***************************************************************************)

\* Every variable has its type, and pttKeysDown never counts more keys than
\* there are hotkeys, nor fewer than none.
THEOREM TypeCorrect == Spec => []TypeOK
<1>1. IInv => TypeOK
  BY DEF IInv
<1> QED
  BY <1>1, InductiveInvariant, PTL

\* The buffer holds exactly the samples between the last one delivered and the
\* last one read, in order, after any mix of partial, failed and skipped reads.
THEOREM SamplesStayInOrder == Spec => []SamplesInOrder
<1>1. IInv => SamplesInOrder
  BY DEF IInv
<1> QED
  BY <1>1, InductiveInvariant, PTL

\* The buffer of GetNextBuffer never holds two segments, nor one between calls.
THEOREM BufferIsBounded == Spec => []BufferBound
<1>1. IInv => BufferBound
  BY DEF IInv, FillInv, BufferBound
<1> QED
  BY <1>1, InductiveInvariant, PTL

\* The Speex preprocessor sees every sample handed to the host exactly once.
THEOREM EverySampleFilteredOnce == Spec => []FilteredOnce
<1>1. IInv => FilteredOnce
  BY DEF IInv
<1> QED
  BY <1>1, InductiveInvariant, PTL

\* A device that said it holds nothing more is not read again before
\* GetNextBuffer has returned false.
THEOREM DeviceIsNotReadDry == Spec => NeverReadsDry
<1>1. IInv /\ [Next]_vars => [pc = "test" /\ pc' = "count" => ~dry]_vars
  <2> SUFFICES ASSUME IInv, [Next]_vars, pc = "test", pc' = "count", dry
               PROVE  vars' = vars
    OBVIOUS
  <2>1. skipNextRead
    BY DEF IInv, DryInv, Reading
  <2>2. ~AudioStep
    BY <2>1 DEF AudioStep, Query, SegmentReady, SkipRead, ReadFails, ReadSamples,
                TestKeysDown, TestExpiry, AppendSamples, ReleaseBuffer, ReturnFalse
  <2>3. ~MainStep /\ ~Capture /\ ~Tick
    BY DEF MainStep, PttKeyDown, PttKeyUp, PttStamp, SetMicVolume, Capture, Tick, audioVars
  <2> QED
    BY <2>2, <2>3 DEF Next
<1> QED
  BY <1>1, InductiveInvariant, PTL DEF Spec, NeverReadsDry

\* Only the two tests of the condition for muting decide.
LEMMA DecisionSteps == [Next]_vars /\ Decides => TestKeysDown \/ TestExpiry
<1> SUFFICES ASSUME [Next]_vars, Decides PROVE TestKeysDown \/ TestExpiry
  OBVIOUS
<1>1. ~MainStep /\ ~Capture /\ ~Tick /\ ~UNCHANGED vars
  BY DEF Decides, MainStep, PttKeyDown, PttKeyUp, PttStamp, SetMicVolume, Capture, Tick,
         vars, audioVars
<1>2. AudioStep
  BY <1>1 DEF Next
<1> QED
  BY <1>2 DEF Decides, AudioStep, Query, SegmentReady, SkipRead, ReadFails, ReadSamples,
              AppendSamples, ReleaseBuffer, ReturnFalse

\* Whatever the hotkey callback does between the two tests, a read is let
\* through only if the microphone is open at that moment.
THEOREM ClosedMicIsNotHeard == Spec => OnlyOpenMicIsHeard
<1>1. IInv /\ [Next]_vars => [Decides /\ ~pttMute' => MicOpen]_vars
  <2> SUFFICES ASSUME IInv, [Next]_vars, Decides, ~pttMute' PROVE MicOpen
    OBVIOUS
  <2>1. CASE TestKeysDown
    <3>1. ~UsePtt \/ pttKeysDown # 0
      BY <2>1 DEF TestKeysDown, Decides
    <3>2. held \in SUBSET PttHotkeys /\ pttKeysDown = Cardinality(held)
      BY DEF IInv, TypeOK, PttInv
    <3>3. ~UsePtt \/ held # {}
      BY <3>1, <3>2, HeldIsCounted
    <3> QED
      BY <3>3 DEF MicOpen
  <2>2. CASE TestExpiry
    <3>1. ~(now >= pttDelayExpires)
      BY <2>2 DEF TestExpiry, DelayOver
    <3>2. now < openUntil
      BY <3>1, ConstantsAssumption DEF IInv, TypeOK, PttInv
    <3> QED
      BY <3>2 DEF MicOpen
  <2> QED
    BY <2>1, <2>2, DecisionSteps
<1> QED
  BY <1>1, InductiveInvariant, PTL DEF Spec, OnlyOpenMicIsHeard

\* A read is muted only if the microphone is closed, or a key went down between
\* the two tests of that read, or the callback has yet to write the deadline: a
\* key held since before the read always opens the microphone.
THEOREM OpenMicIsHeard == Spec => OnlyClosedMicIsMuted
<1>1. IInv /\ [Next]_vars =>
        [Decides /\ pttMute' => ~MicOpen \/ pressed \/ cb = "stamp"]_vars
  <2> SUFFICES ASSUME IInv, [Next]_vars, Decides, pttMute', ~pressed, cb # "stamp"
               PROVE  ~MicOpen
    OBVIOUS
  <2>1. TestExpiry
    BY DecisionSteps DEF TestKeysDown, Decides
  <2>2. UsePtt /\ held = {} /\ now >= pttDelayExpires
    BY <2>1 DEF TestExpiry, DelayOver, IInv, PttInv
  <2>3. pttDelayExpires = openUntil
    BY DEF IInv, TypeOK, PttInv
  <2>4. ~(now < openUntil)
    BY <2>2, <2>3, ConstantsAssumption DEF IInv, TypeOK
  <2> QED
    BY <2>2, <2>4 DEF MicOpen
<1> QED
  BY <1>1, InductiveInvariant, PTL DEF Spec, OnlyClosedMicIsMuted
-----------------------------------------------------------------------------
(***************************************************************************)
(* VoiceCapture implements the stream of SegmentStream.                    *)
(***************************************************************************)

\* The segment SegmentReady hands over is the next one of the stream.
LEMMA SegmentReadyDelivers == IInv /\ SegmentReady => Stream!Deliver
<1> SUFFICES ASSUME IInv, SegmentReady PROVE Stream!Deliver
  OBVIOUS
<1> USE ConstantsAssumption
<1>1. audioBuf \in Seq(Sample) /\ Len(audioBuf) \in Nat /\ Len(audioBuf) >= SEG
  BY BufferLength DEF SegmentReady, ReadNeeded
<1>2. /\ audioBuf' \in Seq(Sample)
      /\ Len(audioBuf') = Len(audioBuf)
      /\ \A i \in 1 .. Len(audioBuf) : audioBuf'[i].id = audioBuf[i].id
  BY <1>1, FilteredProperties DEF SegmentReady
<1>3. Len(out') = SEG /\ \A i \in 1 .. SEG : out'[i] = audioBuf'[i]
  <2>1. \A i \in 1 .. SEG : audioBuf'[i] \in Sample
    BY <1>1, <1>2, ElementOfSeq
  <2> QED
    BY <2>1, SubSeqProperties DEF SegmentReady
<1>4. \A i \in 1 .. SEG : out'[i].id = delivered + i
  BY <1>1, <1>2, <1>3 DEF IInv, SamplesInOrder
<1>5. [i \in 1 .. Len(out') |-> out'[i].id] = [i \in 1 .. SEG |-> delivered + i]
  BY <1>3, <1>4
<1>6. delivered + SEG <= captured
  BY <1>1 DEF IInv, TypeOK, SamplesInOrder
<1> QED
  BY <1>5, <1>6 DEF Stream!Deliver, SegmentReady

\* GetNextBuffer and ReleaseBuffer hand the captured samples over in order, each
\* once, in segments: the safety part of the refinement the run checks.
THEOREM ImplementsStream == Spec => StreamSafe
<1>1. Init => Stream!Init
  <2> SUFFICES ASSUME Init PROVE [i \in 1 .. Len(out) |-> out[i].id] = <<>>
    BY DEF Init, Stream!Init
  <2>1. Len(out) = 0
    BY EmptySeq DEF Init
  <2>2. [i \in 1 .. Len(out) |-> out[i].id] \in [1 .. 0 -> Nat]
    BY <2>1
  <2>3. /\ [i \in 1 .. Len(out) |-> out[i].id] \in Seq(Nat)
        /\ Len([i \in 1 .. Len(out) |-> out[i].id]) = 0
    BY <2>2, FunctionIsSeq
  <2> QED
    BY <2>3, EmptySeq
<1>2. IInv /\ [Next]_vars => [Stream!Next]_(Stream!streamVars)
  <2> SUFFICES ASSUME IInv, [Next]_vars
               PROVE  Stream!Deliver \/ Stream!Capture \/ UNCHANGED Stream!streamVars
    BY DEF Stream!Next
  <2> USE DEF Stream!streamVars
  <2>1. CASE AudioStep
    <3>1. CASE SegmentReady
      BY <3>1, SegmentReadyDelivers
    <3>2. CASE ReleaseBuffer
      <4>1. Len(audioBuf) >= SEG
        BY <3>2 DEF IInv, FillInv, ReleaseBuffer
      <4> QED
        BY <3>2, <4>1 DEF ReleaseBuffer
    <3>3. CASE Query \/ SkipRead \/ ReadFails
      BY <3>3 DEF Query, SkipRead, ReadFails, ReturnFalse
    <3>4. CASE ReadSamples \/ TestKeysDown \/ TestExpiry \/ AppendSamples
      BY <3>4 DEF ReadSamples, TestKeysDown, TestExpiry, AppendSamples
    <3> QED
      BY <2>1, <3>1, <3>2, <3>3, <3>4 DEF AudioStep
  <2>2. CASE MainStep
    BY <2>2 DEF MainStep, PttKeyDown, PttKeyUp, PttStamp, SetMicVolume, audioVars
  <2>3. CASE Capture
    BY <2>3, ConstantsAssumption DEF Capture, Stream!Capture, audioVars, IInv, TypeOK
  <2>4. CASE Tick \/ UNCHANGED vars
    BY <2>4 DEF Tick, vars, audioVars
  <2> QED
    BY <2>1, <2>2, <2>3, <2>4 DEF Next
<1> QED
  BY <1>1, <1>2, InductiveInvariant, PTL DEF Spec, StreamSafe, Stream!SafeSpec
=============================================================================
