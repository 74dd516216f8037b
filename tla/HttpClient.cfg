SPECIFICATION FairSpec
CONSTANTS
  Urls <- SomeUrls
  Answers <- SomeAnswers
  Clients <- OneClient
  Kinds <- AllKinds
  Methods <- SomeMethods
  Bodies <- SomeBodies
  MaxRedirects = 2
  MaxFetchHops = 2
  MaxMetaHops = 1
  MaxRequests = 2
  None = None
INVARIANTS
  NeverDialsRefused
  WithinBudget
  BodyGoesWithMethod
  CookiesRide
  NoPrefixServed
PROPERTIES
  RequestsEnd
CHECK_DEADLOCK FALSE
