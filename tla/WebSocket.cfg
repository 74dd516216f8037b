SPECIFICATION FairSpec
CONSTANTS
  Clients = {c1, c2}
  MaxMessages = 2
  MaxPings = 2
  MaxSends = 1
INVARIANTS
  PoolIsSound
PROPERTIES
  MessagesInOrder
  PingsAnsweredInOrder
  ReadsEnd
CHECK_DEADLOCK FALSE
