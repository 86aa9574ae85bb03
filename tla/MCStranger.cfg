CONSTANTS
  Runs = {r1, r2}
  NoRun = NoRun
  Procs = {p1}
  Foreign = Foreign
  NoProc = NoProc
  MaxRequests = 1
  ForeignDespiteOwn = FALSE
  MaxCrashes = 1
SPECIFICATION SSpec
SYMMETRY Symmetry
VIEW Present
CONSTRAINT SmoothOrQuickRuns
INVARIANT
  OnlyOwnQuickBooks
