SPECIFICATION SplitSpec
CONSTANTS
  a = a
  b = b
  r = r
  L = L
  K = K
  Arrays <- MCArrays
  Refs <- MCRefs
  Nil = Nil
  Dangling = Dangling
  Unused = Unused
  Delim = Delim
  End = End
  Texts <- MCTexts
  Idle = Idle
  InitSize = 2
  MaxLiteral = 2
  MaxLen = 3
  MaxPending = 1
INVARIANT LengthsAgree
SYMMETRY MCSymmetry
CHECK_DEADLOCK FALSE
