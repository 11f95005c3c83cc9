SPECIFICATION Spec
CONSTANTS
  SIZE = 5
  CHUNK = 5
  LOW = 1
  MaxPackets = 3
  Lengths <- MCLengths
INVARIANTS
  TypeOK
  AllDelivered
PROPERTIES
  GracefulShutdown
CHECK_DEADLOCK FALSE
