SPECIFICATION FairSpec
CONSTANTS
  TabIds = {t1}
  Urls <- TwoUrls
  Origins <- TwoOrigins
  OriginOf <- OriginOfTwo
  Docs = {d1}
  Ids <- ThreeIds
  Navigators = {n1}
  Evaluators = {e1}
  Admins = {}
  JsCapacity = 1
  NavMaxHops = 1
  MaxMutations = 1
  MaxOrphans = 0
  None = None
INVARIANTS
  TypeOK
  SessionStorageIsPrivate
  LocalStorageIsShared
PROPERTIES
  SessionStorageIsKept
  MutationsAccumulate
  RequestsEnd
