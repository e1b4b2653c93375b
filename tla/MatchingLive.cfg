SPECIFICATION FairSpec
CONSTANTS
  Profiles = {p1}
  Offers = {o1}
  Submitters = {s1}
  BatchIds = {b1, b2}
  NoBatch = NoBatch
  NoProfile = NoProfile
  MaxAttempts = 2
  MaxOffers = 1
  PoolSize = 2
  MaxRequests = 2
  Excludable = {}
  Deletable = {}
  MaxImports = 1
  MaxCrashes = 1
  MailCap = 1
  AskCap = 4
  Runs = {"sync"}
INVARIANTS NoRowExhausted BoundedRequests
PROPERTIES EveryPairSettles
