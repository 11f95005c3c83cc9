SPECIFICATION Spec
CONSTANTS
  SEG = 2
  PttHotkeys = {h1, h2}
  PttDelay = 1
  UsePtt = TRUE
  HasSpeex = TRUE
  MaxCaptured = 5
  MaxTime = 3
SYMMETRY Symmetry
INVARIANTS TypeOK SamplesInOrder BufferBound FilteredOnce
PROPERTIES NeverReadsDry OnlyOpenMicIsHeard OnlyClosedMicIsMuted
