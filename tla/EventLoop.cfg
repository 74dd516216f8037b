SPECIFICATION Spec
CONSTANTS
  w = w
  m1 = m1
  m2 = m2
  outer = outer
  inner = inner
  Watchers <- MCWatchers
  Observers <- MCObservers
  Nodes <- MCNodes
  Root = outer
  Setups <- MCSetups
  Delays = {0, 3}
  Frame = 1
  Budget = 2
  MaxCalls = 3
  MaxClock = 3
  GuessesIds = FALSE
INVARIANTS
  PromisedWorkIsQueued
  RecordsInOnePlace
  ClearedStaysCleared
PROPERTIES
  PumpEnds
CHECK_DEADLOCK FALSE
