SPECIFICATION CvSpec
CONSTANTS
  L1 = L1
  Plain = Plain
  Snk = Snk
  Requests = {q1}
  Cvs <- OneCv
  Answers <- NothingAdded
  OldSkills <- NoOldSkill
  Snake <- OneUnderscore
  Readable <- AsTheyAre
  NoBullet = NoBullet
  Resembles <- Same
  CallAttempts = 3
  MaxCalls = 2
PROPERTIES PaidOnce
CHECK_DEADLOCK FALSE
