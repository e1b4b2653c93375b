--------------------------- MODULE AdminStatistics ---------------------------
(***************************************************************************)
(* The screens of the admin dashboard (src/app/modules/monitoring/stats.py): *)
(* each is computed afresh from the live tables of the other modules, by    *)
(* queries of its own.  The actions are what those modules do to the tables, *)
(* cut down to the columns queries.py names.                                *)
(***************************************************************************)
EXTENDS Integers, FiniteSets, FiniteSetsExt

CONSTANTS
  Folk,         \* accounts
  Positions,    \* job offers
  ScreenJobs,   \* jobs registered with the scheduler
  Absent,       \* no such row
  DayTicks,     \* a Paris day; a tick is the grain of the clock
  FollowDays,   \* 3: how long an account may stay without applying
  SignupSpan, CostSpan, \* 30 and 7 days, on the charts
  FollowMax,    \* 20: length of the list of accounts to follow
  TopOffers,    \* 5: length of the lists of offers
  WarnTicks, BadTicks,  \* 3 h and 24 h for a batch
  MailsBeforeWarning,   \* 50
  WhatsappSet,  \* WHATSAPP_ACCESS_TOKEN is configured
  LastTick,     \* bound of the checks: the clock
  MaxEvents     \* bound of the checks: changes to the tables

Channels == {"email", "whatsapp", "discord"}

(* The rows of the tables.                                                  *)
PersonRow == [at : Nat, verified : BOOLEAN, google : BOOLEAN, admin : BOOLEAN, active : BOOLEAN]
FolderRow == [status : {"draft", "complete"}, checked : BOOLEAN]
PairRow ==
  [status : {"placeholder", "filtered_out", "pending", "scored"}, prefiltered : BOOLEAN,
   created : Nat, updated : Nat, computed : Nat,
   application : {"not_applied", "applied", "interview"}, appliedAt : Nat \union {-1}]
TailoredRow == [at : Nat, kept : BOOLEAN]

ASSUME ScreenConstants ==
  /\ IsFiniteSet(Folk) /\ IsFiniteSet(Positions)
  /\ {SignupSpan, CostSpan} \subseteq Nat \ {0}
  /\ {DayTicks, FollowDays, FollowMax, TopOffers, WarnTicks, BadTicks} \subseteq Nat \ {0}
  /\ {MailsBeforeWarning, LastTick, MaxEvents} \subseteq Nat
  /\ WhatsappSet \in BOOLEAN
  /\ Absent \notin PersonRow \union FolderRow \union PairRow \union TailoredRow

VARIABLES
  now,       \* the clock
  people,    \* users: Folk -> [at, verified, google, admin, active] or Absent
  folders,   \* candidate_profiles: Folk -> [status, checked] or Absent
  wants,     \* notification_preferences: Folk -> channels on, or Absent
  pairs,     \* candidate_matches: Folk \X Positions -> a pair, or Absent
  tailored,  \* cv_optimizations: Folk \X Positions -> [at, kept] or Absent
  briefs,    \* notification_brief_entries: [who, at, channels]
  opening,   \* accounts a page view under way was accepted from
  visits,    \* page views: [who, at]
  outlived,  \* history: accounts deleted while a page view was under way
  stamps,    \* occurrences of the alert incidents: [channel, at]
  usage,     \* AI usage: [detailed, at, eur]
  jobRuns,   \* scheduler.job_runs: ScreenJobs -> "never", "ok" or "error"
  submitted, \* created_at of the batches still submitted
  mails,     \* email_messages: [pending, failed]
  events     \* changes so far

screenVars == <<now, people, folders, wants, pairs, tailored, briefs, opening, visits,
                outlived, stamps, usage, jobRuns, submitted, mails, events>>
views == <<opening, visits, outlived>>

Today(t) == t \div DayTicks
Since(days) == now - days * DayTicks

(* The pair of a candidate and an offer as the matching first records it.    *)
NewPair(status) ==
  [status |-> status, prefiltered |-> FALSE, created |-> now, updated |-> now,
   computed |-> now, application |-> "not_applied", appliedAt |-> -1]

(* An empty database, or candidates who have been through it all by tick 0.  *)
ScreensInit ==
  /\ now = 0
  /\ \E old \in BOOLEAN :
       /\ people = [f \in Folk |->
            IF old THEN [at |-> 0, verified |-> TRUE, google |-> FALSE, admin |-> FALSE, active |-> TRUE]
            ELSE Absent]
       /\ folders = [f \in Folk |->
            IF old THEN [status |-> "complete", checked |-> TRUE] ELSE Absent]
       /\ wants = [f \in Folk |-> IF old THEN {"email"} ELSE Absent]
       /\ pairs = [p \in Folk \X Positions |->
            IF old THEN [NewPair("scored") EXCEPT !.prefiltered = TRUE] ELSE Absent]
  /\ tailored = [p \in Folk \X Positions |-> Absent]
  /\ briefs = {} /\ opening = {} /\ visits = {} /\ outlived = {} /\ stamps = {} /\ usage = {}
  /\ jobRuns = [j \in ScreenJobs |-> "never"]
  /\ submitted = {}
  /\ mails = [pending |-> 0, failed |-> 0]
  /\ events = 0

-----------------------------------------------------------------------------
(* The rows the screens count                                               *)

(* _real_users, and the same filter in behavior and users_list: an account an  *)
(* operator disabled is left out, while its other rows stay in the tables.   *)
Registered == {f \in Folk : people[f] # Absent}
RealUsers == {f \in Registered : people[f].active}
Disabled == Registered \ RealUsers
\* A plausible bug: the screen of the behaviour forgets the filter.
EveryCandidate == {f \in Registered : ~people[f].admin}
Candidates == {f \in RealUsers : ~people[f].admin}

(* _channels_of: no row of preferences, no channel.                         *)
ChannelsOf(f) == IF wants[f] = Absent THEN {} ELSE wants[f]

Pairs == {p \in DOMAIN pairs : pairs[p] # Absent}

(* APPLIED_SQL                                                              *)
Applied(p) == pairs[p].application # "not_applied"
AppliedPairs == {p \in Pairs : Applied(p)}
Applicants == {p[1] : p \in AppliedPairs} \intersect {f \in Folk : folders[f] # Absent}

-----------------------------------------------------------------------------
(* overview                                                                 *)

ChannelsConfigured ==
  [c \in Channels \union {"none"} |->
     Cardinality({f \in RealUsers : IF c = "none" THEN ChannelsOf(f) = {} ELSE c \in ChannelsOf(f)})]

SignupDays(count) ==
  [d \in (Today(now) - count + 1)..Today(now) |->
     Cardinality({f \in RealUsers : Today(people[f].at) = d})]

UsersNew(days) == {f \in RealUsers : people[f].at >= Since(days)}

ProfilesComplete == Cardinality({f \in Folk : folders[f] # Absent /\ folders[f].status = "complete"})

(* The pairs some job or some candidate touched in the last 24 hours, what   *)
(* the steps of the matching made of them, and the part of today.            *)
Touched == {p \in Pairs : pairs[p].updated >= Since(1)}
ExaminedPairs == {p \in Touched : pairs[p].created >= Since(1)}
ExcludedPairs == {p \in ExaminedPairs : pairs[p].status = "filtered_out" /\ ~pairs[p].prefiltered}
PrefilteredPairs == {p \in Touched : pairs[p].prefiltered}
PassedPairs == {p \in PrefilteredPairs : pairs[p].status \in {"pending", "scored"}}
AnalysedPairs(from) == {p \in Touched : pairs[p].status = "scored" /\ pairs[p].computed >= from}
PrefilteredToday == {p \in PrefilteredPairs : Today(pairs[p].updated) = Today(now)}

SentToday(c) == Cardinality({b \in briefs : Today(b.at) = Today(now) /\ c \in b.channels})
FailedToday(c) == Cardinality({s \in stamps : Today(s.at) = Today(now) /\ s.channel = c})

-----------------------------------------------------------------------------
(* _health                                                                  *)

SchedulerCard == IF \E j \in ScreenJobs : jobRuns[j] = "error" THEN "warn" ELSE "ok"

OpenAiCard ==
  LET oldest == Max({now - at : at \in submitted} \union {0})
  IN  IF oldest > BadTicks THEN "bad" ELSE IF oldest > WarnTicks THEN "warn" ELSE "ok"

WhatsappCard == IF ~WhatsappSet \/ FailedToday("whatsapp") > 0 THEN "warn" ELSE "ok"

MailCard == IF mails.failed > 0 \/ mails.pending > MailsBeforeWarning THEN "warn" ELSE "ok"

-----------------------------------------------------------------------------
(* behavior                                                                 *)

WithProfile == {f \in Candidates : folders[f] # Absent}

(* The steps of the funnel, in its order.                                   *)
Funnel ==
  << Candidates,
     {f \in Candidates : people[f].verified},
     WithProfile,
     {f \in WithProfile : folders[f].checked},
     {b.who : b \in briefs} \intersect Candidates,
     Applicants \intersect Candidates,
     {p[1] : p \in {q \in DOMAIN tailored : tailored[q] # Absent}} \intersect Candidates >>

ApplicationsOf(days) == {p \in AppliedPairs : pairs[p].appliedAt >= Since(days)}

TailoredOf(days) ==
  {p \in DOMAIN tailored : /\ tailored[p] # Absent
                           /\ p[1] \in Candidates
                           /\ tailored[p].at >= Since(days)}
KeptOf(days) == {p \in TailoredOf(days) : tailored[p].kept}

(* A list cut to its length: the first by score, ties as the rows came. Each   *)
(* element is a list the screen may show.                                    *)
Firsts(S, score, length) ==
  {T \in SUBSET S :
     /\ Cardinality(T) = IF Cardinality(S) < length THEN Cardinality(S) ELSE length
     /\ \A t \in T, s \in S \ T : score[t] >= score[s]}

(* The offers most applied to, and those most tailored for: title and score    *)
(* are left out, the name of a deleted offer too.                            *)
HowOften(S) == [o \in {p[2] : p \in S} |-> Cardinality({p \in S : p[2] = o})]
MostOften(S) == Firsts(DOMAIN HowOften(S), HowOften(S), TopOffers)

TopApplied(days) ==
  {[o \in T |-> HowOften(ApplicationsOf(days))[o]] : T \in MostOften(ApplicationsOf(days))}
TopTailored(days) ==
  {[o \in T |-> [generated |-> HowOften(TailoredOf(days))[o],
                 kept |-> Cardinality({p \in KeptOf(days) : p[2] = o})]] :
     T \in MostOften(TailoredOf(days))}

Unverified == {f \in Candidates : ~people[f].verified}
SignupModes == [mode \in {"password", "google"} |->
                  {f \in Candidates : people[f].google <=> mode = "google"}]

ActiveUsers(days) == {v.who : v \in {w \in visits : w.at >= Since(days)}}

Euros(S) == SumFunctionOnSet([u \in usage |-> u.eur], S)
CostDaily(count) ==
  [d \in (Today(now) - count + 1)..Today(now) |->
     [detailed |-> Euros({u \in usage : Today(u.at) = d /\ u.detailed}),
      prefilter |-> Euros({u \in usage : Today(u.at) = d /\ ~u.detailed})]]
CostToday == Euros({u \in usage : Today(u.at) = Today(now)})
CostOf(days) == Euros({u \in usage : u.at >= Since(days)})

-----------------------------------------------------------------------------
(* _accounts_to_follow: where a candidate is stuck, the latest first         *)

Stage(f) ==
  IF ~people[f].verified THEN "unverified"
  ELSE IF folders[f] = Absent THEN "no_cv"
  ELSE IF f \notin Applicants /\ now - people[f].at > FollowDays * DayTicks THEN "no_application"
  ELSE "moving"

Stuck == {f \in Candidates : Stage(f) # "moving"}
ToFollow == Firsts(Stuck, [f \in Stuck |-> people[f].at], FollowMax)

(* users_list                                                               *)
UserRows ==
  [f \in RealUsers |->
     [mode |-> IF people[f].google THEN "google" ELSE "password",
      verified |-> people[f].verified,
      admin |-> people[f].admin,
      profile |-> IF folders[f] = Absent THEN "none"
                  ELSE IF folders[f].status = "complete" THEN "complete" ELSE "draft",
      channels |-> ChannelsOf(f),
      alerts |-> ChannelsOf(f) # {},
      seen |-> Max({v.at : v \in {w \in visits : w.who = f}} \union {-1}),
      applications |-> IF folders[f] = Absent THEN 0
                       ELSE Cardinality({p \in AppliedPairs : p[1] = f})]]

-----------------------------------------------------------------------------
(* What the other modules do to the tables                                  *)

(* By password, with Google (confirmed at once), or an admin's.              *)
SignsUp(f, mode) ==
  /\ people[f] = Absent
  /\ people' = [people EXCEPT ![f] = [at |-> now, verified |-> mode # "password",
                                     google |-> mode = "google", admin |-> mode = "admin", active |-> TRUE]]
  /\ UNCHANGED <<folders, wants, pairs, tailored, briefs, views, stamps, usage, jobRuns,
                 submitted, mails>>

Confirms(f) ==
  /\ f \in Registered /\ ~people[f].verified
  /\ people' = [people EXCEPT ![f].verified = TRUE]
  /\ UNCHANGED <<folders, wants, pairs, tailored, briefs, views, stamps, usage, jobRuns,
                 submitted, mails>>

(* is_active is set by an operator's hand only; what the account owns stays.     *)
Disables(f) ==
  /\ f \in Registered
  /\ people' = [people EXCEPT ![f].active = ~@]
  /\ UNCHANGED <<folders, wants, pairs, tailored, briefs, views, stamps, usage, jobRuns,
                 submitted, mails>>

(* An import makes a draft, or keeps a complete profile; checking the draft  *)
(* and choosing preferences complete it.                                    *)
Onboards(f) ==
  /\ f \in RealUsers
  /\ folders' = [folders EXCEPT ![f] =
       IF @ = Absent THEN [status |-> "draft", checked |-> FALSE]
       ELSE IF ~@.checked THEN [@ EXCEPT !.checked = TRUE] ELSE [@ EXCEPT !.status = "complete"]]
  /\ folders' # folders
  /\ UNCHANGED <<people, wants, pairs, tailored, briefs, views, stamps, usage, jobRuns,
                 submitted, mails>>

Chooses(f, channels) ==
  /\ f \in RealUsers /\ wants[f] # channels
  /\ wants' = [wants EXCEPT ![f] = channels]
  /\ UNCHANGED <<people, folders, pairs, tailored, briefs, views, stamps, usage, jobRuns,
                 submitted, mails>>

(* The matching, or the candidate, updates the pair, which stamps the row.   *)
PairBecomes(p, new) ==
  /\ pairs' = [pairs EXCEPT ![p] = [new EXCEPT !.updated = now]]
  /\ UNCHANGED <<people, folders, wants, tailored, briefs, views, stamps, usage, jobRuns,
                 submitted, mails>>

(* An offer is excluded at once, or waits for the pre-filter; a new CV sends  *)
(* back those that were analysed.                                           *)
Records(p) ==
  /\ folders[p[1]] # Absent /\ folders[p[1]].status = "complete"
  /\ IF p \notin Pairs THEN \E s \in {"filtered_out", "placeholder"} : PairBecomes(p, NewPair(s))
     ELSE /\ pairs[p].status \in {"scored", "filtered_out"}
          /\ PairBecomes(p, [pairs[p] EXCEPT !.status = "placeholder", !.prefiltered = FALSE])

Prefilters(p) ==
  /\ p \in Pairs /\ pairs[p].status = "placeholder"
  /\ \E s \in {"filtered_out", "pending"} :
       PairBecomes(p, [pairs[p] EXCEPT !.status = s, !.prefiltered = TRUE])

Analyses(p) ==
  /\ p \in Pairs /\ pairs[p].status = "pending"
  /\ PairBecomes(p, [pairs[p] EXCEPT !.status = "scored", !.computed = now])

Applies(p) ==
  /\ p \in Pairs /\ pairs[p].status \in {"placeholder", "scored"} /\ p[1] \in RealUsers
  /\ \E a \in {"not_applied", "applied", "interview"} :
       /\ a # pairs[p].application
       /\ PairBecomes(p, [pairs[p] EXCEPT !.application = a, !.appliedAt = now])

(* The CV for an offer, then its confirmation.                              *)
Tailors(p) ==
  /\ p \in Pairs /\ pairs[p].status = "scored" /\ p[1] \in RealUsers
  /\ tailored' = [tailored EXCEPT ![p] =
       IF @ = Absent THEN [at |-> now, kept |-> FALSE] ELSE [@ EXCEPT !.kept = TRUE]]
  /\ tailored' # tailored
  /\ UNCHANGED <<people, folders, wants, pairs, briefs, views, stamps, usage, jobRuns,
                 submitted, mails>>

Briefed(f, channels) ==
  /\ folders[f] # Absent /\ folders[f].status = "complete" /\ channels \subseteq ChannelsOf(f)
  /\ briefs' = briefs \union {[who |-> f, at |-> now, channels |-> channels]}
  /\ UNCHANGED <<people, folders, wants, pairs, tailored, views, stamps, usage, jobRuns,
                 submitted, mails>>

(* track_page, for a path that normalize_path keeps: the account is read, then *)
(* the view is committed, whatever became of the account in between.         *)
Opens(f) ==
  /\ f \in RealUsers \ opening
  /\ opening' = opening \union {f}
  /\ UNCHANGED <<people, folders, wants, pairs, tailored, briefs, visits, outlived, stamps, usage,
                 jobRuns, submitted, mails>>
Visits(f) ==
  /\ f \in opening /\ opening' = opening \ {f}
  /\ visits' = visits \union {[who |-> f, at |-> now]}
  /\ UNCHANGED <<people, folders, wants, pairs, tailored, briefs, outlived, stamps, usage, jobRuns,
                 submitted, mails>>

(* An alert that could not be sent, tokens that were spent.                  *)
Reports(c) ==
  /\ stamps' = stamps \union {[channel |-> c, at |-> now]}
  /\ UNCHANGED <<people, folders, wants, pairs, tailored, briefs, views, usage, jobRuns,
                 submitted, mails>>

Spends(detailed) ==
  /\ usage' = usage \union {[detailed |-> detailed, at |-> now, eur |-> 1]}
  /\ UNCHANGED <<people, folders, wants, pairs, tailored, briefs, views, stamps, jobRuns,
                 submitted, mails>>

(* _instrument: how the last pass of a job ended; a restart forgets it.      *)
JobEnds(j, how) ==
  /\ jobRuns[j] # how
  /\ jobRuns' = [jobRuns EXCEPT ![j] = how]
  /\ UNCHANGED <<people, folders, wants, pairs, tailored, briefs, views, stamps, usage,
                 submitted, mails>>
Restarts ==
  /\ jobRuns' = [j \in ScreenJobs |-> "never"]
  /\ UNCHANGED <<people, folders, wants, pairs, tailored, briefs, views, stamps, usage,
                 submitted, mails>>

BatchMoves ==
  /\ submitted' = IF submitted = {} THEN {now} ELSE submitted \ {Min(submitted)}
  /\ UNCHANGED <<people, folders, wants, pairs, tailored, briefs, views, stamps, usage,
                 jobRuns, mails>>

MailMoves ==
  /\ \/ mails' = [mails EXCEPT !.pending = @ + 1]
     \/ mails.pending > 0 /\ mails' = [mails EXCEPT !.pending = @ - 1]
     \/ mails.pending > 0 /\ mails' = [pending |-> mails.pending - 1, failed |-> mails.failed + 1]
  /\ UNCHANGED <<people, folders, wants, pairs, tailored, briefs, views, stamps, usage,
                 jobRuns, submitted>>

(* A deletion empties every table of the account, here in one step.          *)
AccountGoes(f) ==
  /\ f \in Candidates
  /\ people' = [people EXCEPT ![f] = Absent]
  /\ folders' = [folders EXCEPT ![f] = Absent]
  /\ wants' = [wants EXCEPT ![f] = Absent]
  /\ pairs' = [p \in DOMAIN pairs |-> IF p[1] = f THEN Absent ELSE pairs[p]]
  /\ tailored' = [p \in DOMAIN tailored |-> IF p[1] = f THEN Absent ELSE tailored[p]]
  /\ briefs' = {b \in briefs : b.who # f}
  /\ visits' = {v \in visits : v.who # f}
  /\ outlived' = IF f \in opening THEN outlived \union {f} ELSE outlived
  /\ UNCHANGED <<opening, stamps, usage, jobRuns, submitted, mails>>

\* An id is not given twice.
AccountChanges ==
  \/ \E f \in Folk :
       \/ f \notin outlived /\ \E mode \in {"password", "google", "admin"} : SignsUp(f, mode)
       \/ Confirms(f) \/ Disables(f) \/ Onboards(f) \/ Opens(f) \/ Visits(f) \/ AccountGoes(f)
       \/ \E channels \in {{}, {"email"}, {"email", "discord"}} :
            Chooses(f, channels) \/ Briefed(f, channels)
  \/ \E p \in DOMAIN pairs :
       Records(p) \/ Prefilters(p) \/ Analyses(p) \/ Applies(p) \/ Tailors(p)

TechnicalChanges ==
  \/ Reports("whatsapp")
  \/ \E detailed \in BOOLEAN : Spends(detailed)
  \/ \E j \in ScreenJobs, how \in {"ok", "error"} : JobEnds(j, how)
  \/ Restarts \/ BatchMoves \/ MailMoves

ClockTicks ==
  /\ now < LastTick /\ now' = now + 1
  /\ UNCHANGED <<people, folders, wants, pairs, tailored, briefs, views, stamps, usage,
                 jobRuns, submitted, mails, events>>

ScreensNext ==
  \/ /\ events < MaxEvents /\ events' = events + 1 /\ UNCHANGED now
     /\ AccountChanges \/ TechnicalChanges
  \/ ClockTicks
ScreensSpec == ScreensInit /\ [][ScreensNext]_screenVars

-----------------------------------------------------------------------------
ScreenTypeOK ==
  /\ now \in 0..LastTick /\ events \in 0..MaxEvents /\ opening \subseteq Folk
  /\ people \in [Folk -> {Absent} \union PersonRow]
  /\ folders \in [Folk -> {Absent} \union FolderRow]
  /\ wants \in [Folk -> {Absent} \union SUBSET Channels]
  /\ pairs \in [Folk \X Positions -> {Absent} \union PairRow]
  /\ tailored \in [Folk \X Positions -> {Absent} \union TailoredRow]
  /\ \A p \in Pairs : pairs[p].created <= pairs[p].computed /\ pairs[p].computed <= pairs[p].updated
  /\ submitted \subseteq 0..now
  /\ mails \in [pending : Nat, failed : Nat]
  /\ jobRuns \in [ScreenJobs -> {"never", "ok", "error"}]

(* The list of users against the tiles of the overview. The tile of complete   *)
(* profiles and that of active users also count disabled accounts; the latter *)
(* one deleted while its page view was under way.                            *)
TilesAgree ==
  LET rows == UserRows
      complete(f) == folders[f] # Absent /\ folders[f].status = "complete"
  IN  /\ ChannelsConfigured["none"] = Cardinality({f \in RealUsers : ~rows[f].alerts})
      /\ ProfilesComplete = Cardinality({f \in RealUsers : rows[f].profile = "complete"})
                             + Cardinality({f \in Disabled : complete(f)})
      /\ ActiveUsers(CostSpan) \subseteq RealUsers \union Disabled \union outlived
      /\ \A f \in ActiveUsers(CostSpan) \intersect RealUsers : rows[f].seen >= Since(CostSpan)

(* The list of users against the funnel and the ways to sign up.             *)
FunnelAgrees ==
  LET rows == UserRows
      mine == {f \in RealUsers : ~rows[f].admin}
      steps == Funnel
  IN  /\ steps[3] = {f \in mine : rows[f].profile # "none"}
      /\ steps[4] \subseteq steps[3]
      /\ steps[6] = {f \in mine : rows[f].applications > 0}
      /\ \A p \in TailoredOf(CostSpan) : p[1] \in steps[7] \intersect steps[3]
      /\ Unverified = mine \ steps[2]
      /\ \A mode \in DOMAIN SignupModes : SignupModes[mode] = {f \in mine : rows[f].mode = mode}

(* The list of users against the accounts to follow.                         *)
FollowedAreStuck ==
  LET rows == UserRows
      stuck == Stuck
      late(f) == now - people[f].at > FollowDays * DayTicks
  IN  /\ \A f \in {g \in RealUsers : ~rows[g].admin} : f \in stuck <=>
            \/ ~rows[f].verified \/ rows[f].profile = "none"
            \/ rows[f].applications = 0 /\ late(f)
      /\ \A list \in ToFollow :
            /\ Cardinality(stuck) <= FollowMax => list = stuck
            /\ \A f \in RealUsers \ list, g \in list :
                 rows[f].applications = 0 /\ late(f) /\ ~rows[f].admin => people[f].at <= people[g].at

(* The steps of the matching against each other.                             *)
MatchingAgrees ==
  /\ AnalysedPairs(Since(1)) \subseteq PassedPairs
  /\ ExcludedPairs \intersect PrefilteredPairs = {}

(* The offers most applied to and most tailored for: disabled accounts count   *)
(* in the first list, not in the second.                                     *)
OffersAgree ==
  LET rows == UserRows
      applicants == {f \in RealUsers : rows[f].applications > 0} \union (Applicants \intersect Disabled)
  IN  /\ \A top \in TopApplied(SignupSpan) :
            /\ \A o \in DOMAIN top : top[o] <= Cardinality(applicants)
            /\ \/ DOMAIN top = {p[2] : p \in ApplicationsOf(SignupSpan)}
               \/ Cardinality(DOMAIN top) = TopOffers
      /\ \A top \in TopTailored(SignupSpan) :
            \A o \in DOMAIN top : /\ top[o].kept <= top[o].generated
                                   /\ top[o].generated <= Cardinality(Funnel[7])

(* The costs by day against those of the period.                             *)
CostsAgree ==
  LET costs == CostDaily(CostSpan)
  IN  /\ CostToday <= CostOf(1)
      /\ SumFunction([d \in DOMAIN costs |-> costs[d].detailed + costs[d].prefilter]) <= CostOf(CostSpan)

SignupsAgree == SumFunction(SignupDays(SignupSpan)) <= Cardinality(UsersNew(SignupSpan))

(* The cards of the health against what the page knows of failures.          *)
GreenIsFine ==
  {SchedulerCard, OpenAiCard, WhatsappCard, MailCard} = {"ok"} =>
    /\ \A j \in ScreenJobs : jobRuns[j] # "error"
    /\ \A at \in submitted : now - at <= BadTicks
    /\ FailedToday("whatsapp") = 0 /\ mails.failed = 0

(* The screens count the same rows with queries written apart (overview,     *)
(* behavior, users_list, _accounts_to_follow), some of which leave disabled   *)
(* accounts out: whatever happened to the tables, they tell one story.  The   *)
(* tiles and the funnel are the counts of the list of users, but for the       *)
(* disabled accounts two tiles add; who is on the list to follow is stuck     *)
(* there by that list, and the list is full before one is left out; no offer   *)
(* was applied to by more accounts than have applied, disabled ones included,  *)
(* nor tailored for by more than the funnel counts; an analysis of the last 24 *)
(* hours passed a pre-filter counted with it; the costs by day are within the  *)
(* cost of their period; when every card of the health is green, no failure    *)
(* the page knows of is left.                                                *)
ScreensAgree ==
  /\ TilesAgree /\ FunnelAgrees /\ FollowedAreStuck /\ MatchingAgrees
  /\ OffersAgree /\ CostsAgree /\ SignupsAgree /\ GreenIsFine
===============================================================================
