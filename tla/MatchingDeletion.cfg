SPECIFICATION Spec
CONSTANTS
  Profiles = {p1}
  Offers = {o1}
  Submitters = {s1}
  BatchIds = {b1, b2}
  NoBatch = NoBatch
  NoProfile = NoProfile
  MaxAttempts = 2
  MaxOffers = 1
  PoolSize = 2
  MaxRequests = 2
  Excludable = {}
  Deletable = {p1}
  MaxImports = 0
  MaxCrashes = 0
  MailCap = 1
  AskCap = 0
  Runs = {"sync", "onboard"}
SYMMETRY Symmetry
INVARIANTS TypeOK NoRowStranded
PROPERTIES PollOnlyUpdates
CHECK_DEADLOCK FALSE
