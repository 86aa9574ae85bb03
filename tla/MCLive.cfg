CONSTANTS
  Runs = {r1}
  NoRun = NoRun
  Procs = {p1}
  Foreign = Foreign
  NoProc = NoProc
  MaxRequests = 1
  ForeignDespiteOwn = FALSE
  MaxCrashes = 0
SPECIFICATION LiveSpec
PROPERTIES
  LoggedOut
  StopCompletes
