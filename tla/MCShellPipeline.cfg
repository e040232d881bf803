SPECIFICATION FairSpec
CONSTANTS
  home = home
  src = src
  NoDir = NoDir
  HOME = home
  Dir <- MCDir
  Command <- Commands
  MAX_PIPES = 10
  Cap = 1
  MaxStages = 3
INVARIANTS
  PipeEnds
  PromptClean
PROPERTIES
  PromptReturns
  ChildrenEnd
CHECK_DEADLOCK FALSE
