SPECIFICATION Spec
CONSTANTS
  Names = {"a", "b"}
  Values = {"new"}
  Urls = {"/here", "/there"}
  Callbacks = {"f"}
  Original <- MCOriginal
  MaxCalls = 4
  MaxNodes = 8
INVARIANTS
  HtmlFollowsTree
  WrappersKeepTheirElement
  HistoryCoherent
CHECK_DEADLOCK FALSE
