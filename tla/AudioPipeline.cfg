SPECIFICATION Spec
CONSTANTS
  STEP = 2
  SLACK = 2
  JUMP = 3
  BUFFER = 4
  MaxTime = 30
  MaxVoice = 4
  Stamps <- MCStamps
INVARIANTS
  TypeOK
  TrackGapless
  DesktopNeverLate
PROPERTIES
  DrainSorts
