SPECIFICATION Spec
CONSTANTS
  k1 = k1
  m1 = m1
  b1 = b1
  PttSlots <- Pad
  HostSlots <- None
  Binding <- MCBinding
  Keys = {k1, b1}
  Modifiers = {m1}
  AllowOther = TRUE
  MaxQueue = 2
  MaxID = 2
PROPERTIES UpMeansReleased
