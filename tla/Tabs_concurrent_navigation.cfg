SPECIFICATION Spec
CONSTANTS
  TabIds = {t1}
  Urls <- TwoUrls
  Origins <- TwoOrigins
  OriginOf <- OriginOfTwo
  Docs = {d1}
  Ids <- ThreeIds
  Navigators = {n1, n2}
  Evaluators = {}
  Admins = {}
  JsCapacity = 2
  NavMaxHops = 1
  MaxMutations = 2
  MaxOrphans = 0
  None = None
PROPERTIES
  SessionStorageIsKept
