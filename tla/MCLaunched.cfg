CONSTANTS
  Runs = {r1}
  NoRun = NoRun
  Procs = {p1}
  Foreign = Foreign
  NoProc = NoProc
  MaxRequests = 0
  ForeignDespiteOwn = FALSE
  MaxCrashes = 0
SPECIFICATION FairSSpec
PROPERTY LaunchedIsVerified
