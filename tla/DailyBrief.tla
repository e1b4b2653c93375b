------------------------------ MODULE DailyBrief ------------------------------
(***************************************************************************)
(* The once-a-day brief of src/app/modules/notifications.  Two passes may   *)
(* send it: the listener of MatchesScored, called by the poller at the end  *)
(* of a wave of results, and the job of the cut-off hour.  Each one handles *)
(* its candidates one after the other, and between the reads, the channels  *)
(* and the commit of one candidate the other pass and the poller go on.     *)
(*                                                                          *)
(* Days are relative: an age is 0 (today), 1 (yesterday) or 2 (earlier), so *)
(* the calendar has no end and the model is finite.                         *)
(***************************************************************************)
EXTENDS Naturals, FiniteSets

CONSTANTS
  Users,      \* the candidates whose profile is complete
  N,          \* number of matches; a match is its rank by career x ats score
  Owner,      \* 1..N -> Users
  Direct,     \* the channels that deliver at once: Discord, WhatsApp
  MaxItems,   \* NOTIFICATIONS_BRIEF_MAX_ITEMS
  Pool,       \* how many of the best matches are read (4 * MaxItems in the code)
  Edits,      \* the candidates who change their channels
  MaxCrashes  \* bound of the checks: restarts

Matches == 1..N
Email == "email"
Channels == Direct \union {Email}

ASSUME BriefConstants ==
  /\ N \in Nat
  /\ Owner \in [Matches -> Users]
  /\ Email \notin Direct
  /\ MaxItems \in Nat \ {0}
  /\ Pool \in Nat \ {0}
  /\ Edits \subseteq Users
  /\ MaxCrashes \in Nat

VARIABLES
  past,      \* the hour of the day is at or past BRIEF_CUTOFF_HOUR_PARIS
  due,       \* who the cut-off pass of today must serve (history)
  raced,     \* whom a brief's check and its commit did not fit (history, see Holds)
  analysed,  \* Matches -> age of computed_at, Analysing or NotThere
  ledger,    \* Matches -> age of sent_at in notification_brief_entries, or Unsent
  enabled,   \* Users -> the channels of notification_preferences
  verified,  \* the candidates whose address is confirmed
  pass,      \* the two passes
  mailed,    \* Matches -> emails committed with the match in them (capped, history)
  posted,    \* Matches -> direct messages sent with the match in them (capped, history)
  briefs,    \* Users -> briefs that left today (capped, history)
  crashes

dayVars == <<past, due, raced>>
settings == <<enabled, verified>>
history == <<mailed, posted, briefs>>
vars == <<past, due, raced, analysed, ledger, enabled, verified, pass, mailed, posted,
          briefs, crashes>>

Ages == 0..2
Unsent == 3
Analysing == 3
NotThere == 4

Older(a) == IF a \in 0..1 THEN a + 1 ELSE a
Capped(n) == IF n < 2 THEN n + 1 ELSE n

Passes == {"scored", "cutoff"}
NoUser == "nobody"
IdlePass == [at |-> "idle", todo |-> {}, age |-> 0, past |-> FALSE,
             user |-> NoUser, items |-> {}, used |-> {}, out |-> FALSE]

\* A pass that has just listed its candidates, at this hour of today.
Started(users, late) ==
  [at |-> "next", todo |-> users, age |-> 0, past |-> late,
   user |-> NoUser, items |-> {}, used |-> {}, out |-> FALSE]

MatchesOf(u) == {m \in Matches : Owner[m] = u}
Scored(u) == {m \in MatchesOf(u) : analysed[m] \in Ages}
Sent(u) == {m \in MatchesOf(u) : ledger[m] \in Ages}

(* The n best of S: a smaller number is a better rank.                      *)
Top(S, n) == {m \in S : Cardinality({k \in S : k < m}) < n}

Init ==
  /\ past = FALSE
  /\ due = {}
  /\ raced = {}
  /\ analysed = [m \in Matches |-> NotThere]
  /\ ledger = [m \in Matches |-> Unsent]
  /\ enabled \in [Users -> {{Email}, Channels}]
  /\ verified \in SUBSET Users
  /\ pass = [s \in Passes |-> IdlePass]
  /\ mailed = [m \in Matches |-> 0]
  /\ posted = [m \in Matches |-> 0]
  /\ briefs = [u \in Users |-> 0]
  /\ crashes = 0

(* The channels a brief can leave on: an unconfirmed address blocks email.   *)
Usable(u) == {c \in enabled[u] : c = Email => u \in verified}

(* Forgets the ledger.                                                       *)
PicksTheBest(u) == Top(Top(Scored(u), Pool), MaxItems)

\* Forgets whose offers it lists.
AnybodysMatches(u) ==
  Top(Top({m \in Matches : analysed[m] \in Ages}, Pool) \ Sent(u), MaxItems)

(* The best of the pool that no brief has had yet.                           *)
NewMatches(u) == Top(Top(Scored(u), Pool) \ Sent(u), MaxItems)

Quiet == \A s \in Passes : pass[s].at = "idle"

(* A pass holds a candidate from its check to its commit.  Nothing keeps the *)
(* other pass, the poller, midnight or a restart out of that window, and the *)
(* candidate goes into raced when one of them falls in it: the other pass     *)
(* holds them too, their very first results are stored, the day changes, or   *)
(* the process stops with their messages already posted.                     *)
InHand == {"allowed", "picked", "dispatched"}
Holds(s, u) == pass[s].at \in InHand /\ pass[s].user = u
OutOf(s) == pass[s].at = "dispatched" /\ pass[s].out

-----------------------------------------------------------------------------
(* The matching pipeline, as far as the brief sees it.                      *)

(* A run shortlists offers: they are counted by count_in_progress.          *)
Shortlist(S) ==
  /\ \A m \in S : analysed[m] = NotThere
  /\ analysed' = [m \in Matches |-> IF m \in S THEN Analysing ELSE analysed[m]]
  /\ UNCHANGED <<dayVars, ledger, settings, pass, history, crashes>>

(* The pre-filter drops it, or its attempts run out.                         *)
Drop(m) ==
  /\ analysed[m] = Analysing
  /\ analysed' = [analysed EXCEPT ![m] = NotThere]
  /\ UNCHANGED <<dayVars, ledger, settings, pass, history, crashes>>

(* A wave of analyses is stored and MatchesScored is emitted for the         *)
(* candidates who already had some: the poller waits for the listener, so    *)
(* the next wave comes after it.                                            *)
ScoreWave(S) ==
  /\ pass["scored"].at = "idle"
  /\ \A m \in S : analysed[m] = Analysing
  /\ analysed' = [m \in Matches |-> IF m \in S THEN 0 ELSE analysed[m]]
  /\ LET cued == {u \in Users : Scored(u) # {} /\ \E m \in S : Owner[m] = u}
     IN  pass' = IF cued = {} THEN pass
                 ELSE [pass EXCEPT !["scored"] = Started(cued, past)]
  /\ raced' = raced \union {u \in Users : /\ Scored(u) = {}
                                         /\ \E m \in S : Owner[m] = u
                                         /\ \E s \in Passes : Holds(s, u)}
  /\ UNCHANGED <<past, due, ledger, settings, history, crashes>>

-----------------------------------------------------------------------------
(* The clock (Europe/Paris) and the job send_cutoff_briefs.                  *)
CutoffHour ==
  /\ ~past
  /\ pass["cutoff"].at = "idle"
  /\ past' = TRUE
  /\ due' = {u \in Users \ Edits :
               /\ ~Holds("scored", u)
               /\ Email \in Usable(u)
               /\ NewMatches(u) # {}
               /\ \A m \in Sent(u) : ledger[m] # 0
               /\ Sent(u) # {} \/ \E m \in Scored(u) : analysed[m] # 0}
  /\ pass' = [pass EXCEPT !["cutoff"] = Started(Users, TRUE)]
  /\ UNCHANGED <<raced, analysed, ledger, settings, history, crashes>>

(* Midnight.  A pass may cross it, never a whole day.                        *)
Midnight ==
  /\ past
  /\ pass["cutoff"].at = "idle"
  /\ pass["scored"].age = 0
  /\ past' = FALSE
  /\ due' = {}
  /\ raced' = raced \union {u \in Users : \E s \in Passes : Holds(s, u)}
  /\ analysed' = [m \in Matches |-> Older(analysed[m])]
  /\ ledger' = [m \in Matches |-> Older(ledger[m])]
  /\ pass' = [s \in Passes |-> IF pass[s].at = "idle" THEN pass[s]
                               ELSE [pass[s] EXCEPT !.age = 1]]
  /\ briefs' = [u \in Users |-> 0]
  /\ UNCHANGED <<settings, mailed, posted, crashes>>

-----------------------------------------------------------------------------
(* DailyBriefService: a pass handles a candidate.                            *)

(* `entry.sent_at >= day_start`, with the day of the pass's own `now`.        *)
BriefedToday(s, u) == \E m \in Sent(u) : ledger[m] <= pass[s].age

FirstAnalysisToday(s, u) ==
  /\ Sent(u) = {}
  /\ Scored(u) # {}
  /\ \A m \in Scored(u) : analysed[m] <= pass[s].age

StillInProgress(u) == \E m \in MatchesOf(u) : analysed[m] = Analysing

\* Forgets that the cut-off pass does not wait for the results still expected.
WaitsForResults(s, u) ==
  \/ BriefedToday(s, u)
  \/ FirstAnalysisToday(s, u)
  \/ StillInProgress(u)

\* Forgets the newcomers' first-matches email, or the brief already sent.
NoFirstDayRule(s, u) ==
  \/ BriefedToday(s, u)
  \/ s = "scored" /\ ~pass[s].past /\ StillInProgress(u)

NoDailyRule(s, u) ==
  \/ FirstAnalysisToday(s, u)
  \/ s = "scored" /\ ~pass[s].past /\ StillInProgress(u)

(* DailyBriefService._should_wait                                           *)
ShouldWait(s, u) ==
  \/ BriefedToday(s, u)
  \/ FirstAnalysisToday(s, u)
  \/ s = "scored" /\ ~pass[s].past /\ StillInProgress(u)

Considered(s, u) ==
  IF ShouldWait(s, u) THEN [pass[s] EXCEPT !.todo = @ \ {u}]
  ELSE [pass[s] EXCEPT !.todo = @ \ {u}, !.at = "allowed", !.user = u]

(* The candidate's turn: deferred, or allowed a brief.                       *)
Consider(s, u) ==
  /\ pass[s].at = "next"
  /\ u \in pass[s].todo
  /\ pass' = [pass EXCEPT ![s] = Considered(s, u)]
  /\ raced' = IF ~ShouldWait(s, u) /\ \E t \in Passes : Holds(t, u)
              THEN raced \union {u} ELSE raced
  /\ UNCHANGED <<past, due, analysed, ledger, settings, history, crashes>>

(* The pass is done with this candidate.                                     *)
NextCandidate(s) ==
  [pass[s] EXCEPT !.at = "next", !.user = NoUser, !.items = {}, !.used = {},
                 !.out = FALSE]

(* DailyBriefService._send_for_profile up to _dispatch: nothing to send or   *)
(* nowhere to send it skips the candidate.                                   *)
Pick(s) ==
  /\ pass[s].at = "allowed"
  /\ LET u == pass[s].user
     IN  pass' = [pass EXCEPT ![s] =
           IF Usable(u) = {} \/ NewMatches(u) = {} THEN NextCandidate(s)
           ELSE [@ EXCEPT !.at = "picked", !.items = NewMatches(u), !.used = Usable(u)]]
  /\ UNCHANGED <<dayVars, analysed, ledger, settings, history, crashes>>

(* DailyBriefService._dispatch: the direct channels deliver now (or refuse:   *)
(* a refusal is logged and changes nothing); the email is written in the     *)
(* transaction of the pass and leaves with its commit.                       *)
Dispatch(s) ==
  /\ pass[s].at = "picked"
  /\ \E accepted \in SUBSET (pass[s].used \ {Email}) :
       /\ pass' = [pass EXCEPT ![s] =
                     [@ EXCEPT !.at = "dispatched", !.out = (accepted # {})]]
       /\ posted' = [m \in Matches |-> IF accepted # {} /\ m \in pass[s].items
                                       THEN Capped(posted[m]) ELSE posted[m]]
       /\ briefs' = IF accepted = {} THEN briefs
                    ELSE [briefs EXCEPT ![pass[s].user] = Capped(@)]
  /\ UNCHANGED <<dayVars, analysed, ledger, settings, mailed, crashes>>

(* Without the unique key of the ledger.                                     *)
NoConflict(s) == FALSE

(* uq_brief_entries_user_match                                               *)
Conflict(s) == \E m \in pass[s].items : ledger[m] # Unsent

(* A cut-off pass that is cut short owes nothing any more to those whose      *)
(* turn had not come.                                                        *)
NotWaiting == due \ (pass["cutoff"].todo \union {pass["cutoff"].user})

(* The entries and the email are committed together, and the next candidate  *)
(* follows; a second entry for a match raises, which undoes the transaction  *)
(* and ends the pass.                                                        *)
Record(s) ==
  /\ pass[s].at = "dispatched"
  /\ IF Conflict(s)
     THEN /\ pass' = [pass EXCEPT ![s] = IdlePass]
          /\ due' = IF s = "cutoff" THEN NotWaiting ELSE due
          /\ UNCHANGED <<ledger, mailed, briefs>>
     ELSE /\ ledger' = [m \in Matches |-> IF m \in pass[s].items THEN 0 ELSE ledger[m]]
          /\ mailed' = [m \in Matches |-> IF Email \in pass[s].used /\ m \in pass[s].items
                                          THEN Capped(mailed[m]) ELSE mailed[m]]
          /\ briefs' = IF Email \in pass[s].used /\ ~pass[s].out THEN [briefs EXCEPT ![pass[s].user] = Capped(@)]
                       ELSE briefs
          /\ pass' = [pass EXCEPT ![s] = NextCandidate(s)]
          /\ due' = due
  /\ UNCHANGED <<past, raced, analysed, settings, posted, crashes>>

PassEnds(s) ==
  /\ pass[s].at = "next"
  /\ pass[s].todo = {}
  /\ pass' = [pass EXCEPT ![s] = IdlePass]
  /\ UNCHANGED <<dayVars, analysed, ledger, settings, history, crashes>>

PassStep(s) ==
  \/ \E u \in Users : Consider(s, u)
  \/ Pick(s)
  \/ Dispatch(s)
  \/ Record(s)
  \/ PassEnds(s)

-----------------------------------------------------------------------------
(* NotificationPreferenceService.update, and the address being confirmed.    *)
SetChannels(u, on) ==
  /\ u \in Edits
  /\ enabled[u] # on
  /\ enabled' = [enabled EXCEPT ![u] = on]
  /\ UNCHANGED <<dayVars, analysed, ledger, verified, pass, history, crashes>>

Confirm(u) ==
  /\ u \notin verified
  /\ verified' = verified \union {u}
  /\ UNCHANGED <<dayVars, analysed, ledger, enabled, pass, history, crashes>>

(* The process restarts: the passes are gone and nothing starts them again   *)
(* before the next wave or the next cut-off.                                 *)
Crash ==
  /\ crashes < MaxCrashes
  /\ ~Quiet
  /\ crashes' = crashes + 1
  /\ pass' = [s \in Passes |-> IdlePass]
  /\ due' = NotWaiting
  /\ raced' = raced \union {u \in Users : \E s \in Passes : OutOf(s) /\ pass[s].user = u}
  /\ UNCHANGED <<past, analysed, ledger, settings, history>>

Next ==
  \/ \E S \in SUBSET Matches \ {{}} : Shortlist(S) \/ ScoreWave(S)
  \/ \E m \in Matches : Drop(m)
  \/ CutoffHour
  \/ Midnight
  \/ \E s \in Passes : PassStep(s)
  \/ \E u \in Users : Confirm(u) \/ \E on \in SUBSET Channels : SetChannels(u, on)
  \/ Crash

Spec == Init /\ [][Next]_vars

(* The clock goes on, the cut-off job fires every day, and a pass that was   *)
(* started makes its next step (its network calls have timeouts).            *)
Fairness ==
  /\ WF_vars(CutoffHour)
  /\ WF_vars(Midnight)
  /\ \A s \in Passes : WF_vars(PassStep(s))

FairSpec == Spec /\ Fairness

-----------------------------------------------------------------------------
PassRecord ==
  [at: {"idle", "next", "allowed", "picked", "dispatched"},
   todo: SUBSET Users, age: 0..1, past: BOOLEAN, user: Users \union {NoUser},
   items: SUBSET Matches, used: SUBSET Channels, out: BOOLEAN]

(* A pass past its check has a candidate, and it lists offers of theirs only. *)
PassType ==
  {p \in PassRecord :
     /\ p.at \in InHand => p.user \in Users
     /\ \A m \in p.items : p.at \in {"picked", "dispatched"} /\ Owner[m] = p.user}

TypeOK ==
  /\ past \in BOOLEAN
  /\ due \subseteq Users
  /\ raced \subseteq Users
  /\ analysed \in [Matches -> 0..4]
  /\ ledger \in [Matches -> 0..3]
  /\ enabled \in [Users -> SUBSET Channels]
  /\ verified \subseteq Users
  /\ pass \in [Passes -> PassType]
  /\ mailed \in [Matches -> 0..2]
  /\ posted \in [Matches -> 0..2]
  /\ briefs \in [Users -> 0..2]
  /\ crashes \in 0..MaxCrashes

(* An offer is in one email at most, whatever the two passes, restarts and   *)
(* changes of channel do: the email and its ledger entries are one            *)
(* transaction (service.py:433-440, 338-347), and the unique key refuses the  *)
(* second one (models.py:60-64).                                             *)
MailedOnce == \A m \in Matches : mailed[m] <= 1

(* The same for the messages of Discord and WhatsApp, as models.py:52-53      *)
(* says of every channel, as long as nothing fell between the check and the   *)
(* commit of the candidate: days, waves, refusals, aborted passes and         *)
(* restarts elsewhere do not matter.                                         *)
PostedOnce == \A m \in Matches : Owner[m] \notin raced => posted[m] <= 1

(* jobs.py:5-6: the brief "never leaves twice in a day".                     *)
OneBriefPerDay == \A u \in Users : briefs[u] <= 1

(* What the code does keep of it: a second brief of the day needs the other   *)
(* pass, or a restart after the messages left, between the check and the      *)
(* commit of this very candidate (service.py:191-197, 337-347).              *)
OneBriefUnlessRaced == \A u \in Users \ raced : briefs[u] <= 1

(* service.py:218-219: on the day of the first analysis, the first            *)
(* opportunities email is today's email, unless the first results are stored  *)
(* between the check and the commit.                                         *)
QuietFirstDay == \A u \in Users \ raced :
  Scored(u) # {} /\ (\A m \in Scored(u) : analysed[m] = 0) => briefs[u] = 0

(* jobs.py:8-10: at the cut-off hour everybody who has something to receive  *)
(* and has not had today's brief gets it before the day is over, whatever is  *)
(* still being analysed and whichever pass serves them, if the cut-off pass   *)
(* is not cut short before their turn and does not race for them.            *)
NobodyHeldBack == [][Midnight => \A u \in due \ raced : briefs[u] > 0]_vars

(* What MailedOnce rests on: a match without an entry was in no email.        *)
MailedIsListed == \A m \in Matches : ledger[m] = Unsent => mailed[m] = 0

Listed == TypeOK /\ MailedIsListed /\ MailedOnce

(* What the promises rest on: only one pass holds a candidate who is not in   *)
(* raced, that candidate has had no brief today and this is not the day of    *)
(* the first analysis, and the offers in hand are in no brief.               *)
OffersInHand == \A u \in Users, s \in Passes :
  Holds(s, u) /\ pass[s].at # "allowed" => pass[s].items # {} /\ pass[s].items \subseteq Scored(u)
AnalysedBefore == \A m \in Matches :
  ledger[m] \in Ages => analysed[m] \in Ages /\ ledger[m] <= analysed[m]
OneHolder == \A u \in Users \ raced : \A s, t \in Passes :
  Holds(s, u) /\ Holds(t, u) => s = t
Eligible(u) ==
  /\ \A m \in Sent(u) : ledger[m] # 0
  /\ Sent(u) # {} \/ Scored(u) = {} \/ \E m \in Scored(u) : analysed[m] # 0
EligibleInHand == \A u \in Users \ raced : \A s \in Passes :
  Holds(s, u) => Eligible(u) /\ (pass[s].at # "allowed" => pass[s].items \cap Sent(u) = {})
NotTheFirstDay == \A u \in Users \ raced :
  briefs[u] > 0 => \E m \in Scored(u) : analysed[m] # 0
HandInv == OffersInHand /\ AnalysedBefore /\ OneHolder /\ EligibleInHand /\ NotTheFirstDay

(* A brief that left is in the ledger or about to be, and so is an offer that *)
(* was posted.                                                               *)
BriefIsListed == \A u \in Users \ raced :
  briefs[u] > 0 => (\E m \in Sent(u) : ledger[m] = 0) \/ \E s \in Passes : OutOf(s) /\ pass[s].user = u
PostIsListed == \A m \in Matches :
  Owner[m] \notin raced /\ posted[m] > 0 =>
    ledger[m] # Unsent \/ \E s \in Passes : OutOf(s) /\ m \in pass[s].items
OnceInv == BriefIsListed /\ PostIsListed /\ OneBriefUnlessRaced /\ PostedOnce

(* Whom the cut-off pass must serve is still to come, in hand, or served.    *)
ToServe(u) == Email \in Usable(u) /\ NewMatches(u) # {} /\ Eligible(u)
Served(u) ==
  \/ briefs[u] > 0
  \/ /\ pass["cutoff"].at # "idle" /\ ToServe(u)
     /\ u \in pass["cutoff"].todo \/ Holds("cutoff", u)
EmailInHand == \A u \in due \ raced : \A s \in Passes :
  Holds(s, u) /\ pass[s].at # "allowed" => Email \in pass[s].used
DueInv ==
  /\ due \cap Edits = {}
  /\ pass["cutoff"].age = 0
  /\ \A u \in due \ raced : Served(u)
  /\ EmailInHand
  /\ \A u \in Users \ raced : \A s \in Passes : OutOf(s) /\ pass[s].user = u => briefs[u] > 0

(* Every analysed offer of the pool reaches a candidate who ends up with a    *)
(* confirmed address and the email channel: a pass that was aborted,         *)
(* restarted or deferred is made good by a later one, and what a change of    *)
(* channels skipped is not lost.                                             *)
EveryMatchLeaves == \A u \in Users :
  <>[](Email \in Usable(u)) => []<>(Scored(u) \subseteq Sent(u))
===============================================================================
