--------------------------- MODULE Opportunities ---------------------------
(***************************************************************************)
(* What one candidate sees and does with the offers matched to them: the   *)
(* "Top 5" of the day, which stamps an offer the first time it shows it,   *)
(* the click that marks an offer as applied to, and the explicit changes   *)
(* of status, which no later click may undo.                               *)
(* Sources: matching/routes/v1/matching_routes.py, matching/repository.py. *)
(* Analysis and the purge of offers belong to the pipeline: here they are  *)
(* steps that happen to a match.                                           *)
(***************************************************************************)
EXTENDS Naturals, FiniteSets

CONSTANTS
    Offered,         \* the candidate's matches
    Tabs,            \* requests of the candidate that may overlap
    TopCount,        \* DASHBOARD_TOP_COUNT
    LastDayShown,    \* BOUND: calendar days (Europe/Paris)
    Grades           \* scores of an analysis, best first is higher

ASSUME OppAssumption == LastDayShown \in Nat \ {0}

VARIABLES
    today,           \* calendar day in Paris, from 1
    mtch,            \* per match: the columns these routes read or write
    offersGone,      \* offers removed from the pool
    tab,             \* per tab: the request in flight and what it read
    shownOn,         \* per match: the days a dashboard showed it
    raced            \* history: matches found never shown by requests of two days at once

oppVars == <<today, mtch, offersGone, tab, shownOn, raced>>

Never == 0
NoRequest == [pc |-> "idle"]
Enough(grade) == grade > 0       \* final ATS score >= DASHBOARD_MIN_ATS

\* A plausible bug: an offer shown before stays eligible until applied to.
EligibleForEver(m, now) ==
    m.applied = "not_applied" /\ (m.status = "scored" => Enough(m.grade))

\* list_dashboard_candidates
Eligible(m, now) ==
    /\ m.applied = "not_applied"
    /\ m.firstShown = Never \/ m.firstShown >= now
    /\ m.status = "scored" => Enough(m.grade)

\* Scored first, then by score; ties in any order.
Rank(m) == <<IF m.status = "scored" THEN 1 ELSE 0, m.grade>>
Ahead(a, b) == \/ Rank(a)[1] > Rank(b)[1]
               \/ Rank(a)[1] = Rank(b)[1] /\ Rank(a)[2] > Rank(b)[2]

\* The first TopCount of the eligible matches whose offer is still there.
Tops(table, now) ==
    LET able == {o \in Offered \ offersGone : Eligible(table[o], now)}
    IN {top \in SUBSET able :
          /\ Cardinality(top) = (IF Cardinality(able) < TopCount THEN Cardinality(able) ELSE TopCount)
          /\ \A o \in top, other \in able \ top : ~Ahead(table[other], table[o])}

OppInit ==
    /\ today = 1
    /\ mtch = [o \in Offered |->
                 [status |-> "pending", grade |-> 0, firstShown |-> Never,
                  applied |-> "not_applied", corrected |-> FALSE]]
    /\ offersGone = {}
    /\ tab = [t \in Tabs |-> NoRequest]
    /\ shownOn = [o \in Offered |-> {}]
    /\ raced = {}

----------------------------------------------------------------------------
\* What another request of the day before is about to stamp too.
AlsoFresh(t) ==
    UNION {tab[s].fresh : s \in {u \in Tabs \ {t} : tab[u].pc = "showing" /\ tab[u].at # today}}

\* dashboard_matches: the rows are read and ranked ...
OpenDashboard(t) ==
    /\ tab[t].pc = "idle"
    /\ \E top \in Tops(mtch, today) :
          LET fresh == {o \in top : mtch[o].firstShown = Never}
          IN  /\ tab' = [tab EXCEPT ![t] = [pc |-> "showing", at |-> today, top |-> top, fresh |-> fresh]]
              /\ raced' = raced \cup (fresh \cap AlsoFresh(t))
    /\ UNCHANGED <<today, mtch, offersGone, shownOn>>

\* ... and those never shown are stamped with the time of the request.
ShowDashboard(t) ==
    /\ tab[t].pc = "showing"
    /\ mtch' = [o \in Offered |-> IF o \in tab[t].fresh
                                  THEN [mtch[o] EXCEPT !.firstShown = tab[t].at] ELSE mtch[o]]
    /\ shownOn' = [o \in Offered |-> IF o \in tab[t].top
                                     THEN shownOn[o] \cup {tab[t].at} ELSE shownOn[o]]
    /\ tab' = [tab EXCEPT ![t] = NoRequest]
    /\ UNCHANGED <<today, offersGone, raced>>

Untouched(m) == m.applied = "not_applied" /\ ~m.corrected

\* mark_applied: the match is read, and upgraded only if nobody touched it.
ClickOffer(t, o) ==
    /\ tab[t].pc = "idle" /\ Untouched(mtch[o])
    /\ tab' = [tab EXCEPT ![t] = [pc |-> "applying", offer |-> o]]
    /\ UNCHANGED <<today, mtch, offersGone, shownOn, raced>>

\* The commit; a missing offer makes the route raise, and nothing is kept.
MarkApplied(t) ==
    /\ tab[t].pc = "applying"
    /\ tab' = [tab EXCEPT ![t] = NoRequest]
    /\ IF tab[t].offer \in offersGone THEN UNCHANGED mtch
       ELSE mtch' = [mtch EXCEPT ![tab[t].offer].applied = "applied"]
    /\ UNCHANGED <<today, offersGone, shownOn, raced>>

\* update_application_status: the given value, for good; "applied" stands for what
\* follows an application too.
DeclareStatus(t, o, status) ==
    /\ tab[t].pc = "idle" /\ o \notin offersGone
    /\ mtch' = [mtch EXCEPT ![o].applied = status, ![o].corrected = TRUE]
    /\ UNCHANGED <<today, offersGone, tab, shownOn, raced>>

----------------------------------------------------------------------------
\* The pipeline (the application columns stay). These routes treat a placeholder
\* as a pending match.
Analysed(o) ==
    /\ mtch[o].status = "pending"
    /\ \E g \in Grades : mtch' = [mtch EXCEPT ![o].status = "scored", ![o].grade = g]
    /\ UNCHANGED <<today, offersGone, tab, shownOn, raced>>

OfferLeaves(o) ==
    /\ o \notin offersGone /\ offersGone' = offersGone \cup {o}
    /\ UNCHANGED <<today, mtch, tab, shownOn, raced>>

\* Requests last seconds: a day does not begin twice during one of them.
NextDay ==
    /\ today < LastDayShown /\ today' = today + 1
    /\ \A t \in Tabs : tab[t].pc = "showing" => tab[t].at = today
    /\ UNCHANGED <<mtch, offersGone, tab, shownOn, raced>>

OppNext ==
    \/ \E t \in Tabs : OpenDashboard(t) \/ ShowDashboard(t) \/ MarkApplied(t)
    \/ \E t \in Tabs, o \in Offered : ClickOffer(t, o)
    \/ \E t \in Tabs, o \in Offered, s \in {"not_applied", "applied"} : DeclareStatus(t, o, s)
    \/ \E o \in Offered : Analysed(o) \/ OfferLeaves(o)
    \/ NextDay

OppSpec == OppInit /\ [][OppNext]_oppVars

----------------------------------------------------------------------------
(* The match columns, the tabs and the clock have their types.             *)
OppTypeOK ==
    /\ today \in 1..LastDayShown
    /\ \A o \in Offered :
          /\ mtch[o].status \in {"pending", "scored"}
          /\ mtch[o].firstShown \in 0..today
          /\ mtch[o].applied \in {"not_applied", "applied"}
          /\ shownOn[o] \subseteq 1..today
    /\ raced \subseteq Offered
    /\ \A t \in Tabs : tab[t].pc \in {"idle", "showing", "applying"}

(* An offer is on the dashboard of one calendar day only, analysed in      *)
(* between or not, refreshed or not, in any tabs (matching_routes.py:      *)
(* 131-135), unless midnight fell between two requests that both found it  *)
(* never shown: then on two, and on no third.                              *)
ShownOneDay == \A o \in Offered : Cardinality(shownOn[o]) <= IF o \in raced THEN 2 ELSE 1
=============================================================================
