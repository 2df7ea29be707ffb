SPECIFICATION MCSpec
CONSTANTS
  StackSize = 40
  Slack = 2
  Null = Null
  Cls = Cls
  Header = Header
  Failure = 9
  Object = Object
  Runs <- MCRuns
INVARIANTS ParsesBack CrashesFewer Behaves
PROPERTY Halts
