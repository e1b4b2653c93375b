SPECIFICATION PeopleSpec
CONSTANTS
  \* incidents
  Fingerprints = {f1}
  Reporters = {u1}
  IncidentSessions = {s1, s2}
  UsersKept = 2
  StampsKept = 2
  MaxReports = 4
  \* announcements
  Members = {u1, u2}
  Admins = {a1}
  Contents = {c1}
  Audiences = {"verified"}
  \* deletion of an account
  DeleteRequests = {q1, q2}
  MaxFaults = 2
  \* accounts
  a = a
  Spellings = {a}
  FoldedSpelling <- LowerCase
  AuthRequests = {q1}
  Importers = {m1, m2}
  MaxAccounts = 2
  MaxKills = 1
  \* the profile
  q1 = q1
  q2 = q2
  WizardRequests = {q1, q2}
  Uploads <- TwoKinds
  Forms <- TwoForms
  MaxUploads = 2
  MaxLostCommits = 1
  \* the variants of a CV
  L1 = L1
  L2 = L2
  L3 = L3
  N1 = N1
  Plain = Plain
  Snk = Snk
  New = New
  NewSnk = NewSnk
  Requests = {q1, q2}
  Cvs <- TwoCvs
  Answers <- TwoAnswers
  OldSkills <- OneOldSkill
  Snake <- WithUnderscore
  Readable <- Cleaned
  NoBullet = NoBullet
  Resembles <- Similar
  CallAttempts = 3
  MaxCalls = 3
  \* matches and applications
  Offered = {o1, o2}
  Tabs = {t1, t2}
  TopCount = 1
  LastDayShown = 3
  Grades = {0, 1}
  \* the rate limiter
  Callers = {q1, q2}
  Times = 2
  Window = 2
  Clock = 5
  Hits = 6
  MaxRestarts = 1
  \* the modules of the application
  Names = {n1, n2, n3}
  Ghost = Ghost
  \* the admin screens
  Folk = {f1, f2}
  Positions = {o1, o2}
  ScreenJobs = {"mail_queue"}
  Absent = Absent
  DayTicks = 2
  FollowDays = 1
  SignupSpan = 2
  CostSpan = 1
  FollowMax = 1
  TopOffers = 1
  WarnTicks = 1
  BadTicks = 2
  MailsBeforeWarning = 1
  WhatsappSet = TRUE
  LastTick = 3
  MaxEvents = 3
SYMMETRY Symmetry
INVARIANTS
  PeopleTypeOK
  GroupsAreCredible
  InvitedOnceEach
  FileIsTheProfile
  NothingLost
  ShownOneDay
  StartsIffAcyclic
  ScreensTellOneStory
PROPERTIES
  SentAsAsked
  RowGoesLast
  LimitsAndForgets
CHECK_DEADLOCK FALSE
