CONSTANTS
  Runs = {r1}
  NoRun = NoRun
  Procs = {p1, p2}
  Foreign = Foreign
  NoProc = NoProc
  MaxRequests = 2
  ForeignDespiteOwn = FALSE
SPECIFICATION WSpec
SYMMETRY Symmetry
INVARIANTS
  TypeOK
  NeverEndsConnected
  OnlyOwnQuickBooks
  IdentifiedIsTarget
  AtMostOneInDoubt
  DoneMeansComplete
  RequestLimit
  AtMostOneOverrun
  EndsItsSession
PROPERTY RelaysOneSession
CHECK_DEADLOCK FALSE
