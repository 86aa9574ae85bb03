CONSTANTS
  t0 = t0
  k1 = k1
  k2 = k2
  siteUrl = siteUrl
  default = default
  own = own
  Absent = Absent
  Invalid = Invalid
  Urls <- MCUrls
  Apps <- MCApps
  Keys <- MCKeys
  Tokens <- MCTokens
  RelayJsons <- MCRelayJsons
  Given <- MCGiven
  MaxEdits = 1
  Integrations = {{loop1}, {loop2}}
  Hanging = {loop1}
SPECIFICATION FairSiteSpec
INVARIANTS
  SiteTypeOK
  StopsOnlyWhenAsked
  NothingRunsAfterStop
  AuthorizedAppIsUsed
PROPERTIES
  StopIsHeard
  LoopsGoOn
  AuthorizesOneSession
CHECK_DEADLOCK FALSE
