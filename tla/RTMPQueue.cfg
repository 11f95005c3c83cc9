SPECIFICATION Spec
CONSTANTS
  HELD = 2
  DROP = 3
  BDROP = 2
  Fast <- MCFast
  Streams <- MCStreams
INVARIANTS
  TypeOK
  PacketsAccounted
  NothingLeftBehind
PROPERTIES
  SentDecodable
  FlushEnds
CHECK_DEADLOCK FALSE
