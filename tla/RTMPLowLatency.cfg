SPECIFICATION Spec
CONSTANTS
  SIZE = 5
  CHUNK = 2
  LOW = 1
  MaxPackets = 3
  Lengths <- MCOneLength
PROPERTIES
  SocketLoopEnds
CHECK_DEADLOCK FALSE
