-------------------------- MODULE MCStreamControl ---------------------------
EXTENDS StreamControl

\* Streaming that keeps the recording when the stream ends; streaming with a delay
\* that also saves to a file; "File Output Only".
MCSettings == {
  [mode |-> 0, delay |-> FALSE, keep |-> TRUE,  save |-> FALSE],
  [mode |-> 0, delay |-> TRUE,  keep |-> FALSE, save |-> TRUE],
  [mode |-> 1, delay |-> FALSE, keep |-> FALSE, save |-> FALSE]
}
=============================================================================
