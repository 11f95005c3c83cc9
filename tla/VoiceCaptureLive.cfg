SPECIFICATION FairSpec
CONSTANTS
  SEG = 3
  PttHotkeys = {}
  PttDelay = 0
  UsePtt = FALSE
  HasSpeex = FALSE
  MaxCaptured = 7
  MaxTime = 0
PROPERTIES DrainEnds StreamSpec
