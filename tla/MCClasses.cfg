SPECIFICATION Spec
CONSTANTS
  Null = Null
  Wild = Wild
  Names <- MCNames
  Programs <- MCPrograms
INVARIANTS LayoutSound StaticsResolve DispatchNearest CacheCoherent ClassInv
CHECK_DEADLOCK FALSE
