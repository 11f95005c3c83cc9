-------------------------- MODULE MCAudioPipeline ---------------------------
EXTENDS AudioPipeline

\* In steps of 2 for the code's 10 ms: the desktop device's timestamps jump
\* forward and back, by less and by more than jumpRange, to even and odd times.
MCStamps == {20, 22, 23, 26, 29, 34}
=============================================================================
