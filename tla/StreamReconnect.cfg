SPECIFICATION Spec
CONSTANTS
  Settings <- MCSettings
  MaxMessages = 2
  MaxClosing = 2
PROPERTIES
  ReconnectStarts
CHECK_DEADLOCK FALSE
