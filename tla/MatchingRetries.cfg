SPECIFICATION Spec
CONSTANTS
  Profiles = {p1}
  Offers = {o1, o2}
  Submitters = {s1}
  BatchIds = {b1, b2}
  NoBatch = NoBatch
  NoProfile = NoProfile
  MaxAttempts = 2
  MaxOffers = 1
  PoolSize = 2
  MaxRequests = 2
  Excludable = {o1}
  Deletable = {}
  MaxImports = 0
  MaxCrashes = 0
  MailCap = 1
  AskCap = 0
  Runs = {"sync"}
SYMMETRY Symmetry
INVARIANTS BriefComesAfterFirstMail
