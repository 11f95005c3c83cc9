SPECIFICATION Spec
CONSTANTS
  Settings <- MCSettings
  MaxMessages = 2
  MaxClosing = 2
INVARIANTS
  TypeOK
  StopsAreForStreams
  FlushedMeansClosed
CHECK_DEADLOCK FALSE
PROPERTIES
  IdleSessionEnds
