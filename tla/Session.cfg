SPECIFICATION FairSpec
CONSTANTS
  Clients = {c1, c2}
  Savers = {c1}
  Restorers = {c1}
  TabIds = {t1}
  DefaultTab = t1
  Names <- Cookies
  MaxVerbs = 3
  MaxResets = 1
  MaxCrashes = 1
  None = None
INVARIANTS
  CookiesKeepScope
  ResetForgets
  FileIsLastSaved
PROPERTIES
  BootAndStopEnd
CHECK_DEADLOCK FALSE
