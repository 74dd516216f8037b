CONSTANTS
  Controllers = {a,b}
  Reasons = {why}
  Callbacks = {f, g}
  Names = {n}
  Keys = {k}
  Bodies = {x, y}
  NoReason = NoReason
  NoEntry = NoEntry
  Undefined = Undefined
  Nothing = Nothing
  MaxCalls = 6
  MaxCells = 3
  MaxSlots = 2
SPECIFICATION MCSpec
INVARIANTS
  SignalsFireOnce
  CacheServesWhatWasPut
  XhrAnswersTogether
  ClonesAreFaithful
PROPERTIES
  PutsSettle
CHECK_DEADLOCK FALSE
