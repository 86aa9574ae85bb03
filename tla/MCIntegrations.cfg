CONSTANTS
  Orders = {o1, o2}
  MaxTicks = 3
  inventory = inventory
  master = master
  Feed <- MCFeed
  SkipsEmpty <- MCSkipsEmpty
  MaxFeedTicks = 3
SPECIFICATION IntegrationsSpec
SYMMETRY OrderSymmetry
CONSTRAINT FewTicks
INVARIANTS
  IntegrationsTypeOK
  EveryOrderIsTried
  RepeatsOnlyAfterFailure
  KnownMeansExecuted
  OlderOnlyAfterFailure
  NeverEmptied
  QuietTickIsDelivered
CHECK_DEADLOCK FALSE
