SPECIFICATION MCSpec
CONSTANTS
  StackSize = 64
  Slack = 2
  Null = Null
  Cls = Cls
  Header = Header
  Failure = 9
  Object = Object
  Runs <- MCRuns
INVARIANT ThrowAgrees
CHECK_DEADLOCK FALSE
