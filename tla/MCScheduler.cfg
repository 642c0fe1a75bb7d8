CONSTANTS
  MAX_PROCESS_COUNT = 4
  DEFAULT_TIME_SLICE = 2
  PID_LIMIT = 6
  s1 = s1
  s2 = s2
  s3 = s3
  s4 = s4
  Stacks <- MCStacks
  BootStack = boot
  Priorities <- MCPriorities
  TIMER_COUNT = 101
SPECIFICATION Spec
INVARIANTS
  TableSound
  StacksAccounted
  SavedContexts
PROPERTIES
  TurnsTaken
SYMMETRY StackSymmetry
CONSTRAINT Bound
VIEW LiveView
