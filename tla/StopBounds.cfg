CONSTANTS
  Second = 1
  CloseWait = 60
  MaxRun = 60
  Phases = 2
SPECIFICATION Spec
INVARIANTS
  StopBound
  FullGrace
  RunBound
CHECK_DEADLOCK FALSE
