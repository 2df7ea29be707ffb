SPECIFICATION Spec
CONSTANTS
  s1 = s1
  s2 = s2
  Seg <- MCSeg
  SegSize = 3
  Types <- MCTypes
  Slots <- MCSlots
  MaxSlots = 2
  AllocSize <- UnitSize
  CopySize <- UnitSize
  NStatics = 1
  NHandles = 1
  StackSize = 2
  MaxId = 4
  Null = Null
  Imm = Imm
  NoObj = NoObj
INVARIANTS NoDangling Tricolour CopiedOnce ScanOnHeader OnlyReachableSurvive NeverCorrupt
SYMMETRY MCSymmetry
CHECK_DEADLOCK FALSE
