CONSTANTS
  Runs = {r1, r2}
  NoRun = NoRun
  Procs = {p1}
  Foreign = Foreign
  NoProc = NoProc
  MaxRequests = 1
  ForeignDespiteOwn = FALSE
  MaxCrashes = 1
SPECIFICATION RunsSpec
SYMMETRY Symmetry
VIEW View
CONSTRAINT InScope
INVARIANTS
  ServiceTypeOK
  SyncedMeansComplete
  QuietRunIsClean
  StoppedMeansClosed
  OneWorkerAtATime
PROPERTY
  EndsNoOtherSession
