SPECIFICATION Spec
CONSTANTS
  TabIds = {t1}
  Urls = {}
  Origins <- OneOrigin
  OriginOf <- OriginOfNone
  Docs = {}
  Ids <- TwoIds
  Navigators = {}
  Evaluators = {e1, e2}
  Admins = {a1}
  JsCapacity = 1
  NavMaxHops = 0
  MaxMutations = 0
  MaxOrphans = 1
  None = None
INVARIANTS
  RepliesMatchHandlers
