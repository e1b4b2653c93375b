----------------------------- MODULE MarketDigest -----------------------------
(***************************************************************************)
(* The weekly digest of src/app/modules/market: every Monday an hourly job  *)
(* mails the candidates about the week that just ended, out of the counts   *)
(* MarketCollection keeps; an admin may send one by hand at any time.       *)
(***************************************************************************)
EXTENDS MarketCollection

CONSTANTS
  Readers,      \* accounts with a complete profile
  MinOffers,    \* MARKET_MIN_OFFERS
  MondayRuns,   \* runs of the hourly job on a Monday
  MaxFailures,  \* bound of the checks: candidates whose digest raises
  MaxSends      \* bound of the checks: manual sends

ASSUME DigestConstants ==
  /\ MinOffers \in Nat \ {0}
  /\ MondayRuns \in Nat
  /\ MaxFailures \in Nat
  /\ MaxSends \in Nat

VARIABLES
  filed,      \* Readers -> level of its row of profile_market_tags, or NotFiled
  confirmed,  \* Readers with a confirmed address
  optOuts,    \* market_digest_optouts
  sends,      \* market_digest_sends
  run,        \* the hourly job
  runs,       \* its runs so far today
  admin,      \* a manual send in progress
  digests,    \* mails committed: <<reader, week, source, day>> -> how many (history)
  owed,       \* who must have the digest before this Monday ends (history)
  failures, manual

digestVars == <<filed, confirmed, optOuts, sends, run, runs, admin, digests, owed,
                failures, manual>>
marketVars == <<collectionVars, digestVars>>

NotFiled == "not filed"
Nobody == "nobody"
NoWeek == -1
IdleRun == [at |-> "idle", todo |-> {}, wanted |-> NoWeek, out |-> {}, sent |-> {},
            reader |-> Nobody, week |-> NoWeek]
IdleAdmin == [at |-> "idle", reader |-> Nobody, week |-> NoWeek]

IsMonday == day % WeekDays = 0

(* A run that goes on with its next candidate.                               *)
NextReader(r) == [r EXCEPT !.at = "next", !.reader = Nobody, !.week = NoWeek]

DigestInit ==
  /\ filed = [u \in Readers |-> NotFiled]
  /\ confirmed \in SUBSET Readers
  /\ optOuts = {}
  /\ sends = {}
  /\ run = IdleRun
  /\ runs = 0
  /\ admin = IdleAdmin
  /\ digests = {}
  /\ owed = {}
  /\ failures = 0
  /\ manual = 0

-----------------------------------------------------------------------------
(* MarketDigestService.build: which weeks, at which level                    *)

Rows(table, l) == {w \in Weeks : table[w].total[l] > 0}

(* The last four complete weeks; failing that, for a manual send, the last.  *)
UsableWeeks(table, l, partial) ==
  LET complete == {w \in Rows(table, l) : table[w].complete}
      last == {w \in complete : Cardinality({v \in complete : v > w}) < 4}
  IN  IF complete # {} \/ ~partial THEN last
      ELSE {w \in Rows(table, l) : \A v \in Rows(table, l) : v <= w}

OfferTotal(table, l, partial) == MapThenSumSet(LAMBDA w : table[w].total[l], UsableWeeks(table, l, partial))

(* `tag`: the level a reader is filed at.                                    *)
LevelsOf(tag) == IF tag = Specialty THEN <<Specialty, Family>> ELSE <<Family>>

(* The most precise level that is big enough, or that has anything.          *)
ChosenLevel(table, tag, partial) ==
  LET options == LevelsOf(tag)
      big == {i \in DOMAIN options : OfferTotal(table, options[i], partial) >= MinOffers}
      any == {i \in DOMAIN options : OfferTotal(table, options[i], partial) > 0}
  IN  options[IF big # {} THEN Min(big) ELSE IF any # {} THEN Min(any) ELSE 1]

(* Unless the admin says so, below the threshold nothing is sent.            *)
Available(table, tag, ignore) ==
  OfferTotal(table, ChosenLevel(table, tag, ignore), ignore) >= (IF ignore THEN 1 ELSE MinOffers)

DigestWeek(table, tag, ignore) ==
  Max(UsableWeeks(table, ChosenLevel(table, tag, ignore), ignore))

-----------------------------------------------------------------------------
(* weekly.send_weekly_digests                                               *)

(* Who can get the digest of the week that just ended, right now.            *)
Due(table, u) ==
  /\ u \in confirmed \ optOuts
  /\ filed[u] # NotFiled
  /\ Available(table, filed[u], FALSE)
  /\ DigestWeek(table, filed[u], FALSE) >= WeekOf(day) - 1

(* The job reads the complete profiles, the opt-outs and the sends once.     *)
WeeklyStart ==
  /\ IsMonday
  /\ run.at = "idle"
  /\ runs < MondayRuns
  /\ runs' = runs + 1
  /\ owed' = IF runs = 0 THEN {u \in Readers : Due(weekly, u)} ELSE owed
  /\ LET wanted == WeekOf(day) - 1
     IN  run' = [IdleRun EXCEPT !.at = "next", !.todo = Readers, !.wanted = wanted,
                   !.out = optOuts, !.sent = {u \in Readers : <<u, wanted>> \in sends}]
  /\ UNCHANGED <<collectionVars, filed, confirmed, optOuts, sends, admin, digests,
                 failures, manual>>

(* _send_one up to the digest: who had it, who left, who is not confirmed.   *)
WeeklyCandidate(u) ==
  /\ run.at = "next"
  /\ u \in run.todo
  /\ run' = LET r == [run EXCEPT !.todo = @ \ {u}]
            IN  IF u \in run.sent \/ u \in run.out \/ u \notin confirmed THEN r
                ELSE [r EXCEPT !.at = "candidate", !.reader = u]
  /\ UNCHANGED <<collectionVars, filed, confirmed, optOuts, sends, runs, admin, digests,
                 owed, failures, manual>>

(* profile_tag: the profile is filed once, over the network, in a commit of  *)
(* its own; when the call fails the candidate is skipped.                    *)
WeeklyFile(level) ==
  /\ run.at = "candidate"
  /\ filed[run.reader] = NotFiled
  /\ filed' = [filed EXCEPT ![run.reader] = level]
  /\ run' = IF level = NotFiled THEN NextReader(run) ELSE run
  /\ UNCHANGED <<collectionVars, confirmed, optOuts, sends, runs, admin, digests, owed,
                 failures, manual>>

(* The digest is about last week or it is not sent.                          *)
Sendable(table, tag, wanted) ==
  Available(table, tag, FALSE) /\ DigestWeek(table, tag, FALSE) >= wanted

WeeklyBuild ==
  /\ run.at = "candidate"
  /\ filed[run.reader] # NotFiled
  /\ LET tag == filed[run.reader]
     IN  run' = IF Sendable(weekly, tag, run.wanted)
                THEN [run EXCEPT !.at = "built", !.week = DigestWeek(weekly, tag, FALSE)]
                ELSE NextReader(run)
  /\ UNCHANGED <<collectionVars, filed, confirmed, optOuts, sends, runs, admin, digests,
                 owed, failures, manual>>

\* Forgets the row of market_digest_sends.
NotRecorded(u, w) == sends

(* record_send: a second record is ignored.                                  *)
Recorded(u, w) == sends \union {<<u, w>>}

Mailed(u, w, source) ==
  digests \union {[reader |-> u, week |-> w, source |-> source, day |-> day,
    earlier |-> Cardinality({m \in digests :
                  m.reader = u /\ m.week = w /\ m.source = source})]}

(* The mail and its record are one commit.                                   *)
WeeklySend ==
  /\ run.at = "built"
  /\ digests' = Mailed(run.reader, run.week, "auto")
  /\ sends' = Recorded(run.reader, run.week)
  /\ run' = [NextReader(run) EXCEPT !.sent = @ \union {run.reader}]
  /\ UNCHANGED <<collectionVars, filed, confirmed, optOuts, runs, admin, owed, failures,
                 manual>>

\* A failed run is the last of its Monday.
FailsForTheDay ==
  /\ run.at \in {"candidate", "built"}
  /\ failures < MaxFailures
  /\ failures' = failures + 1
  /\ run' = IdleRun /\ runs' = MondayRuns
  /\ UNCHANGED <<collectionVars, filed, confirmed, optOuts, sends, admin, digests, owed, manual>>

(* A candidate's digest raises.  The session is rolled back, which expires    *)
(* the profiles, and logging `profile.id` raises in turn: the run ends there. *)
WeeklyFails ==
  /\ run.at \in {"candidate", "built"}
  /\ failures < MaxFailures
  /\ failures' = failures + 1
  /\ run' = IdleRun
  /\ UNCHANGED <<collectionVars, filed, confirmed, optOuts, sends, runs, admin, digests,
                 owed, manual>>

WeeklyEnd ==
  /\ run.at = "next"
  /\ run.todo = {}
  /\ run' = IdleRun
  /\ UNCHANGED <<collectionVars, filed, confirmed, optOuts, sends, runs, admin, digests,
                 owed, failures, manual>>

-----------------------------------------------------------------------------
(* POST /market/admin/digest/send, and /preview for a profile not filed yet  *)

AdminFile(u, level) ==
  /\ admin.at = "idle"
  /\ u \notin optOuts
  /\ filed[u] = NotFiled
  /\ filed' = [filed EXCEPT ![u] = level]
  /\ UNCHANGED <<collectionVars, confirmed, optOuts, sends, run, runs, admin, digests,
                 owed, failures, manual>>

AdminBuild(u, ignore) ==
  /\ admin.at = "idle"
  /\ manual < MaxSends
  /\ u \notin optOuts
  /\ filed[u] # NotFiled
  /\ Available(weekly, filed[u], ignore)
  /\ manual' = manual + 1
  /\ admin' = [at |-> "built", reader |-> u, week |-> DigestWeek(weekly, filed[u], ignore)]
  /\ UNCHANGED <<collectionVars, filed, confirmed, optOuts, sends, run, runs, digests,
                 owed, failures>>

AdminSend ==
  /\ admin.at = "built"
  /\ digests' = Mailed(admin.reader, admin.week, "admin")
  /\ sends' = Recorded(admin.reader, admin.week)
  /\ admin' = IdleAdmin
  /\ UNCHANGED <<collectionVars, filed, confirmed, optOuts, run, runs, owed, failures,
                 manual>>

(* POST /market/unsubscribe with the token of the mail.                      *)
LeaveDigest(u) ==
  /\ \E m \in digests : m.reader = u
  /\ u \notin optOuts
  /\ optOuts' = optOuts \union {u}
  /\ owed' = owed \ {u}
  /\ UNCHANGED <<collectionVars, filed, confirmed, sends, run, runs, admin, digests,
                 failures, manual>>

ConfirmAddress(u) ==
  /\ u \notin confirmed
  /\ confirmed' = confirmed \union {u}
  /\ UNCHANGED <<collectionVars, filed, optOuts, sends, run, runs, admin, digests, owed,
                 failures, manual>>

-----------------------------------------------------------------------------
(* Midnight.  The runs of a Monday are over before it ends.                  *)
DigestNextDay ==
  /\ IsMonday => runs = MondayRuns
  /\ run.at = "idle"
  /\ NextDay
  /\ runs' = 0
  /\ owed' = {}
  /\ UNCHANGED <<filed, confirmed, optOuts, sends, run, admin, digests, failures, manual>>

(* The collection goes on under the runs; a recount committed late may take   *)
(* a week away again, and nobody is owed what is gone.                       *)
DigestCollection ==
  /\ CollectionJobs
  /\ owed' = {u \in owed : Due(weekly', u)}
  /\ UNCHANGED <<filed, confirmed, optOuts, sends, run, runs, admin, digests, failures,
                 manual>>

WeeklyJob ==
  \/ WeeklyStart
  \/ \E u \in Readers : WeeklyCandidate(u)
  \/ \E level \in {Family, Specialty, NotFiled} : WeeklyFile(level)
  \/ WeeklyBuild
  \/ WeeklySend
  \/ WeeklyFails
  \/ WeeklyEnd

MarketInit == CollectionInit /\ DigestInit

MarketNext ==
  \/ DigestCollection
  \/ DigestNextDay
  \/ WeeklyJob
  \/ \E u \in Readers :
       \/ \E level \in {Family, Specialty} : AdminFile(u, level)
       \/ \E ignore \in BOOLEAN : AdminBuild(u, ignore)
       \/ LeaveDigest(u)
       \/ ConfirmAddress(u)
  \/ AdminSend

MarketSpec == MarketInit /\ [][MarketNext]_marketVars

-----------------------------------------------------------------------------
DigestTypeOK ==
  /\ filed \in [Readers -> {Family, Specialty, NotFiled}]
  /\ confirmed \subseteq Readers /\ optOuts \subseteq Readers /\ owed \subseteq Readers
  /\ sends \subseteq Readers \X Weeks
  /\ run \in [at : {"idle", "next", "candidate", "built"}, todo : SUBSET Readers,
              wanted : Weeks \union {NoWeek}, out : SUBSET Readers, sent : SUBSET Readers,
              reader : Readers \union {Nobody}, week : Weeks \union {NoWeek}]
  /\ runs \in 0..MondayRuns
  /\ admin \in [at : {"idle", "built"}, reader : Readers \union {Nobody},
                week : Weeks \union {NoWeek}]
  /\ failures \in 0..MaxFailures
  /\ manual \in 0..MaxSends

(* weekly.py:7-8: the runs of a Monday, retries and manual sends included,    *)
(* never send the automatic digest of a week twice to one person.            *)
AutoOncePerWeek == \A m \in digests : m.source = "auto" => m.earlier = 0

(* market/models.py:104-106: "nobody gets the same week twice": the job does  *)
(* not mail a week somebody has had already, from an admin for instance.     *)
AutoNeverRepeats == [][WeeklySend => <<run.reader, run.week>> \notin sends]_marketVars

(* jobs.py:6-10: as long as one run of the day goes through, whoever was due  *)
(* a digest at the first one has it before the Monday is over, although a    *)
(* failure ends the run it happens in.                                      *)
NobodyForgotten ==
  [][day' # day => \A u \in owed : <<u, WeekOf(day) - 1>> \in sends]_marketVars
===============================================================================
