CONSTANTS
  Second = 1
  CloseWait = 60
  MaxRun = 60
  Phases = 1
SPECIFICATION Spec
INVARIANT StopWithinHint
CHECK_DEADLOCK FALSE
