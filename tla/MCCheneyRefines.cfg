SPECIFICATION MCSpec
CONSTANTS
  s1 = s1
  s2 = s2
  Seg <- MCSeg
  SegSize = 4
  Types <- MCTypes
  Slots <- MCSlots
  MaxSlots = 1
  AllocSize <- RealAlloc
  CopySize <- RealCopy
  NStatics = 0
  NHandles = 1
  StackSize = 2
  MaxId = 4
  Null = Null
  Imm = Imm
  NoObj = NoObj
INVARIANTS RInv Faithful SInv OverflowNeedsGrowth
PROPERTIES ImplementsGraph CollectionEnds
CHECK_DEADLOCK FALSE
