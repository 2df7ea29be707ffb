SPECIFICATION MCSpec
CONSTANTS
  StackSize = 64
  Slack = 2
  Null = Null
  Cls = Cls
  Header = Header
  Failure = 9
  Object = Object
  Runs <- MCRuns
INVARIANTS Agrees FrameMatchesCode Balanced
PROPERTY SearchDescends
