SPECIFICATION FairSpec
CONSTANTS
  k1 = k1
  m1 = m1
  b1 = b1
  PttSlots <- ComboAlone
  HostSlots <- Pad
  Binding <- MCBinding
  Keys = {k1, b1}
  Modifiers = {m1}
  AllowOther = TRUE
  MaxQueue = 2
  MaxID = 5
INVARIANTS TypeOK KeysDownAddsUp
PROPERTIES EventsAlternate KeyboardUpMeansReleased NoStuckKey
