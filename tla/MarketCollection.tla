--------------------------- MODULE MarketCollection ---------------------------
(***************************************************************************)
(* The collection side of src/app/modules/market: offers are filed under a  *)
(* specialty by a model, counted by week, and purged after the retention    *)
(* period; the weekly counts are what is kept.  The collection job, the     *)
(* daily recount and the purge run on their own schedules.                  *)
(*                                                                          *)
(* One family and one of its specialties: families do not interact.         *)
(***************************************************************************)
EXTENDS Integers, FiniteSets, FiniteSetsExt

CONSTANTS
  MarketOffers,  \* job offers
  WeekDays,      \* 7
  Retention,     \* OFFERS_RETENTION_DAYS
  OffersPerRun,  \* MARKET_OFFERS_PER_RUN
  OffersPerCall, \* MARKET_OFFERS_PER_CALL
  LastDay        \* bound of the checks: the last day of the calendar

ASSUME CollectionConstants ==
  /\ IsFiniteSet(MarketOffers)
  /\ WeekDays \in Nat \ {0}
  /\ Retention \in Nat
  /\ {OffersPerRun, OffersPerCall} \subseteq Nat \ {0}
  /\ LastDay \in Nat

VARIABLES
  day,         \* Paris calendar; day 0 is a Monday
  arrived,     \* MarketOffers -> day of created_at, or NotArrived
  stored,      \* the offers in job_offers
  tags,        \* MarketOffers -> the levels its row of offer_market_tags counts for
  weekly,      \* Weeks -> the rows of market_group_weekly of that week
  collector,   \* the collection job
  recounts,    \* Counters -> a recount in progress
  everTagged   \* offers filed at some time (history)

collectionVars == <<day, arrived, stored, tags, weekly, collector, recounts, everTagged>>

NotArrived == -1
Family == "family"        \* FAMILY_LEVEL
Specialty == "specialty"
Levels == {Family, Specialty}
Untagged == {}

Weeks == 0..(LastDay \div WeekDays)
WeekOf(d) == d \div WeekDays
Monday(w) == w * WeekDays
NoRows == [total |-> [l \in Levels |-> 0], complete |-> FALSE]

Counters == {"collect", "daily"}
IdleCollector == [at |-> "idle", listed |-> {}]
NoRecount == [at |-> "idle", weeks |-> {}, counts |-> <<>>, today |-> 0]

Tagged == {o \in stored : tags[o] # Untagged}
UntaggedOffers == stored \ Tagged
CountIn(S, w, l) == Cardinality({o \in S : WeekOf(arrived[o]) = w /\ l \in tags[o]})

CollectionInit ==
  /\ day = 0
  /\ arrived = [o \in MarketOffers |-> NotArrived]
  /\ stored = {}
  /\ tags = [o \in MarketOffers |-> Untagged]
  /\ weekly = [w \in Weeks |-> NoRows]
  /\ collector = IdleCollector
  /\ recounts = [c \in Counters |-> NoRecount]
  /\ everTagged = {}

(* An ingestion job stores the offer today.                                 *)
OfferArrives(o) ==
  /\ arrived[o] = NotArrived
  /\ arrived' = [arrived EXCEPT ![o] = day]
  /\ stored' = stored \union {o}
  /\ UNCHANGED <<day, tags, weekly, collector, recounts, everTagged>>

(* Offers on which a candidate has a match, or published lately, are spared  *)
(* whatever their age; the day the period ends, so are the later ones.       *)
PurgeOffers(S) ==
  /\ S # {}
  /\ S \subseteq {o \in stored : arrived[o] <= day - Retention}
  /\ stored' = stored \ S
  /\ tags' = [o \in MarketOffers |-> IF o \in S THEN Untagged ELSE tags[o]]
  /\ UNCHANGED <<day, arrived, weekly, collector, recounts, everTagged>>

-----------------------------------------------------------------------------
(* MarketCollectionService.classify_pending                                 *)

(* The newest offers without tags, MARKET_OFFERS_PER_RUN of them.           *)
ClassifyList(S) ==
  /\ collector.at = "idle"
  /\ recounts["collect"].at = "idle"
  /\ S \subseteq UntaggedOffers
  /\ S # {}
  /\ Cardinality(S) <= OffersPerRun
  /\ \A o \in UntaggedOffers \ S :
       /\ Cardinality(S) = OffersPerRun
       /\ \A p \in S : arrived[p] >= arrived[o]
  /\ collector' = [at |-> "calling", listed |-> S]
  /\ UNCHANGED <<day, arrived, stored, tags, weekly, recounts, everTagged>>

(* classify_offers: the offers are asked for OffersPerCall at a time.  A call  *)
(* that failed three times or cannot be read leaves its offers for later; one *)
(* that answered files all of its offers, those it skipped under "Autre".    *)
Answerable(listed) ==
  {S \in SUBSET listed : \/ Cardinality(S) % OffersPerCall = 0
                         \/ Cardinality(listed \ S) % OffersPerCall = 0}

(* The offers of the calls that succeeded are filed, the others are listed   *)
(* again by the next run; `full` are those that got a specialty.  All tags   *)
(* are one commit, which fails when an offer of it is gone.                 *)
ClassifyCommit(answered, full) ==
  /\ collector.at = "calling"
  /\ answered \in Answerable(collector.listed)
  /\ full \subseteq answered
  /\ IF answered \subseteq stored
     THEN /\ tags' = [o \in MarketOffers |->
                        IF o \in full THEN Levels
                        ELSE IF o \in answered THEN {Family} ELSE tags[o]]
          /\ everTagged' = everTagged \union answered
          /\ collector' = IF answered = {} THEN IdleCollector
                          ELSE [at |-> "recount", listed |-> {}]
     ELSE /\ UNCHANGED <<tags, everTagged>>
          /\ collector' = IdleCollector
  /\ UNCHANGED <<day, arrived, stored, weekly, recounts>>

-----------------------------------------------------------------------------
(* MarketCollectionService.aggregate_weeks                                  *)

\* Forgets that the oldest day kept may have lost offers already.
RecountedFromPurgedDay(today) ==
  {w \in Weeks : Monday(w) >= today - Retention /\ Monday(w) <= today}

(* The weeks of which no day is old enough to be purged.                    *)
RecountedWeeks(today) ==
  LET earliest == today - Max({Retention - 1, 0})
  IN  {w \in Weeks : Monday(w) >= earliest /\ Monday(w) <= today}

(* The job of 02:45, or the end of a collection that filed something.       *)
RecountStart(c) ==
  /\ recounts[c].at = "idle"
  /\ c = "collect" => collector.at = "recount"
  /\ collector' = IF c = "collect" THEN IdleCollector ELSE collector
  /\ recounts' = IF RecountedWeeks(day) = {} THEN recounts
                 ELSE [recounts EXCEPT ![c] =
       [at |-> "read", weeks |-> RecountedWeeks(day), today |-> day,
        counts |-> [w \in RecountedWeeks(day) |-> [l \in Levels |-> CountIn(Tagged, w, l)]]]]
  /\ UNCHANGED <<day, arrived, stored, tags, weekly, everTagged>>

(* The rows written for a week: none when it has no offer.                  *)
WeekRows(c, w) ==
  IF recounts[c].counts[w][Family] = 0 THEN NoRows
  ELSE [total |-> recounts[c].counts[w],
        complete |-> Monday(w + 1) <= recounts[c].today]

(* The rows of the weeks are deleted and written again in one commit.       *)
RecountCommit(c) ==
  /\ recounts[c].at = "read"
  /\ weekly' = [w \in Weeks |-> IF w \in recounts[c].weeks THEN WeekRows(c, w)
                                ELSE weekly[w]]
  /\ recounts' = [recounts EXCEPT ![c] = NoRecount]
  /\ UNCHANGED <<day, arrived, stored, tags, collector, everTagged>>

(* The other recount wrote the same rows meanwhile: the unique key refuses   *)
(* these, and the job only logs it.  A restart ends the same way.            *)
RecountFails(c) ==
  /\ recounts[c].at = "read"
  /\ recounts' = [recounts EXCEPT ![c] = NoRecount]
  /\ UNCHANGED <<day, arrived, stored, tags, weekly, collector, everTagged>>

NextDay ==
  /\ day < LastDay
  /\ day' = day + 1
  /\ UNCHANGED <<arrived, stored, tags, weekly, collector, recounts, everTagged>>

CollectionJobs ==
  \/ \E o \in MarketOffers : OfferArrives(o)
  \/ \E S \in SUBSET MarketOffers : PurgeOffers(S) \/ ClassifyList(S)
  \/ \E answered \in SUBSET collector.listed :
       \E full \in SUBSET answered : ClassifyCommit(answered, full)
  \/ \E c \in Counters : RecountStart(c) \/ RecountCommit(c) \/ RecountFails(c)

-----------------------------------------------------------------------------
CollectionTypeOK ==
  /\ day \in 0..LastDay
  /\ arrived \in [MarketOffers -> 0..LastDay \union {NotArrived}]
  /\ stored \subseteq {o \in MarketOffers : arrived[o] # NotArrived}
  /\ tags \in [MarketOffers -> {Untagged, {Family}, Levels}]
  /\ weekly \in [Weeks -> [total : [Levels -> Nat], complete : BOOLEAN]]
  /\ collector \in [at : {"idle", "calling", "recount"}, listed : SUBSET MarketOffers]
  /\ everTagged \subseteq MarketOffers

(* aggregate_weeks recomputes only "the counts of every week whose offers    *)
(* are all still in the database" (service.py:112-115): no recount covers a   *)
(* week of which a filed offer has been purged, however the purge and the     *)
(* jobs interleave, so a finished week never comes out partial.              *)
RecountsAreWhole ==
  [][\A c \in Counters :
       recounts'[c].at = "read" /\ recounts[c].at = "idle" =>
         \A w \in recounts'[c].weeks :
           recounts'[c].counts[w][Family] =
             Cardinality({o \in everTagged : WeekOf(arrived[o]) = w})]_collectionVars
===============================================================================
