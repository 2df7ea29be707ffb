SPECIFICATION Spec
CONSTANTS
  s1 = s1
  s2 = s2
  Seg <- MCSeg
  SegSize = 3
  NSlots = 1
  NStatics = 1
  StackSize = 2
  Ids = {1, 2, 3}
  MaxRs = 2
  Null = Null
  Tagged = Tagged
  NoObj = NoObj
INVARIANT PromotionRemembers
SYMMETRY MCSymmetry
CHECK_DEADLOCK FALSE
