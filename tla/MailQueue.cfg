SPECIFICATION FairSpec
CONSTANTS
  N <- ThreeMails
  BatchSize <- PairsOfMails
  MaxAttempts = 2
  Configured = TRUE
  MaxLost = 1
INVARIANTS CallsBounded GivesUpLate
PROPERTIES Promise EveryMailSettles
CHECK_DEADLOCK FALSE
