SPECIFICATION Spec
CONSTANTS
  v1 = v1
  v2 = v2
  Values <- MCValues
  Addresses <- MCAddresses
  MaxArgs = 1
  MaxLocals = 2
  StackSize = 15
  Slack = 2
  Null = Null
INVARIANT WithinAllocation
SYMMETRY MCSymmetry
CHECK_DEADLOCK FALSE
