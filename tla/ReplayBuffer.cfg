SPECIFICATION Spec
CONSTANTS
  Seconds = 2
  Ahead = 1
  Streams <- MCStreams
  MaxRequests = 2
INVARIANTS
  TypeOK
  SavesCover
  RecordingGapless
PROPERTIES
  AddPacketReturns
CHECK_DEADLOCK FALSE
