SPECIFICATION FairSpec
CONSTANTS
  NumPlugins = 3
  Gates = {1}
  Objects = {1, 2, 3}
CHECK_DEADLOCK FALSE
INVARIANTS TypeOK NothingDangles InstalledTogether
PROPERTIES MicHeardOnce WildOnlyInWindow StopEnds
