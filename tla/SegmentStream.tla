---------------------------- MODULE SegmentStream ----------------------------
(***************************************************************************)
(* What an audio source promises the host's audio thread: the samples the  *)
(* device captures come out in the order they were captured, each of them  *)
(* once, in segments of exactly SEG samples (AudioSource::GetNextBuffer is *)
(* the host's name for "give me the next segment").  Samples are numbered  *)
(* 1, 2, 3, ... in the order of capture; only the tail of the capture that *)
(* does not fill a segment yet may be missing from the output.             *)
(***************************************************************************)
EXTENDS Naturals

CONSTANTS
  SEG,         \* samples in a segment (k_SegmentSize)
  MaxCaptured  \* bound: samples captured in a behaviour

VARIABLES
  captured,    \* samples captured so far
  delivered,   \* samples handed to the host so far
  out          \* the numbers of the samples of the last segment handed over

streamVars == <<captured, delivered, out>>

Init ==
  /\ captured = 0
  /\ delivered = 0
  /\ out = <<>>

Capture ==
  /\ captured' \in captured + 1 .. MaxCaptured
  /\ UNCHANGED <<delivered, out>>

Deliver ==
  /\ delivered + SEG <= captured
  /\ delivered' = delivered + SEG
  /\ out' = [i \in 1 .. SEG |-> delivered + i]
  /\ UNCHANGED captured

Next == Capture \/ Deliver

SafeSpec == Init /\ [][Next]_streamVars

\* A complete segment does not wait for ever.
Spec == SafeSpec /\ WF_streamVars(Deliver)
=============================================================================
