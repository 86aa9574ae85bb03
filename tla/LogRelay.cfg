CONSTANTS
  Workers = {s1, s2}
  Service = Service
  EndOfLog = EndOfLog
  MaxRecords = 3
  PipeSize = 2
SPECIFICATION FairSpec
INVARIANTS
  TypeOK
  KeepsABeginning
  NothingLostAtStop
PROPERTIES
  ExitNotHeldUp
  ServiceExits
CHECK_DEADLOCK FALSE
