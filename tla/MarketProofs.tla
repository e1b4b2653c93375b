----------------------------- MODULE MarketProofs -----------------------------
(***************************************************************************)
(* The market digest: what a recount covers, who gets the digest of a week on   *)
(* its Monday, once, and what the mail says.                                 *)
(***************************************************************************)
EXTENDS MarketDigest, DigestContent, CountingProofs

-------------------------------------------------------------------------------
(* The weekly counts                                                         *)

RowSet == [total : [Levels -> Nat], complete : BOOLEAN]

(* A week counted as complete was over, and a recount is not of a day to come.   *)
CountsOfThePast ==
  /\ \A w \in Weeks : weekly[w].complete => Monday(w + 1) <= day
  /\ DOMAIN recounts = Counters
  /\ \A c \in Counters :
       /\ recounts[c].at \in {"idle", "read"}
       /\ recounts[c].at = "read" =>
            /\ recounts[c].today \in 0..day
            /\ \A w \in recounts[c].weeks : recounts[c].counts[w] \in [Levels -> Nat]

(* An offer too young to be purged is stored with the tags it was given.        *)
YoungOffersStay ==
  /\ \A o \in MarketOffers : tags[o] # Untagged => o \in everTagged
  /\ \A o \in everTagged :
       arrived[o] # NotArrived /\ (arrived[o] > day - Retention => o \in stored /\ tags[o] # Untagged)

CollectionInv ==
  /\ CollectionTypeOK
  /\ \A o \in MarketOffers : arrived[o] <= day
  /\ CountsOfThePast
  /\ YoungOffersStay

LEMMA WeekArithmetic ==
  /\ \A d \in 0..LastDay : WeekOf(d) \in Weeks
  /\ \A w \in Nat, d \in Nat : Monday(w) <= d <=> w <= WeekOf(d)
  /\ \A d \in Nat : Monday(WeekOf(d)) <= d
<1>1. ASSUME NEW d \in Nat PROVE WeekOf(d) \in Nat /\ WeekDays * WeekOf(d) <= d /\ d < WeekDays * WeekOf(d) + WeekDays
  BY CollectionConstants DEF WeekOf
<1>2. ASSUME NEW w \in Nat, NEW d \in Nat PROVE Monday(w) <= d <=> w <= WeekOf(d)
  <2>1. PICK q : q = WeekOf(d)
    OBVIOUS
  <2>2. q \in Nat /\ WeekDays * q <= d /\ d < WeekDays * q + WeekDays /\ WeekDays \in Nat \ {0}
    BY <1>1, <2>1, CollectionConstants
  <2>3. w * WeekDays <= d => w <= q
    BY <2>2
  <2>4. w <= q => w * WeekDays <= d
    BY <2>2
  <2> QED
    BY <2>1, <2>3, <2>4 DEF Monday
<1>3. ASSUME NEW d \in 0..LastDay PROVE WeekOf(d) \in Weeks
  <2>1. WeekOf(d) \in Nat /\ WeekOf(LastDay) \in Nat
    BY <1>1, CollectionConstants
  <2>2. Monday(WeekOf(d)) <= d
    BY <1>2, <2>1
  <2>3. Monday(WeekOf(d)) <= LastDay
    BY <2>1, <2>2, CollectionConstants DEF Monday
  <2>4. WeekOf(d) <= WeekOf(LastDay)
    BY <1>2, <2>1, <2>3, CollectionConstants
  <2> QED
    BY <2>1, <2>4 DEF Weeks, WeekOf
<1> QED
  BY <1>1, <1>2, <1>3

LEMMA CountsAreNumbers ==
  ASSUME NEW S \in SUBSET MarketOffers, NEW w, NEW l
  PROVE  CountIn(S, w, l) \in Nat
<1>1. {o \in S : WeekOf(arrived[o]) = w /\ l \in tags[o]} \subseteq MarketOffers
  OBVIOUS
<1> QED
  BY <1>1, CollectionConstants, FS_Subset, FS_CardinalityType DEF CountIn

LEMMA CollectionStarts == CollectionInit => CollectionInv
<1> SUFFICES ASSUME CollectionInit PROVE CollectionInv
  OBVIOUS
<1>1. NoRows \in RowSet /\ NoRows.complete = FALSE
  BY DEF NoRows, RowSet
<1>2. CollectionTypeOK
  BY <1>1, CollectionConstants DEF CollectionInit, CollectionTypeOK, RowSet, IdleCollector, NotArrived
<1>3. CountsOfThePast
  BY <1>1 DEF CollectionInit, CountsOfThePast, NoRecount
<1>4. YoungOffersStay
  BY DEF CollectionInit, YoungOffersStay
<1> QED
  BY <1>2, <1>3, <1>4 DEF CollectionInit, CollectionInv, NotArrived

\* The recounts go on, whatever happens around them.
LEMMA RecountsGoOn ==
  ASSUME CollectionInv, UNCHANGED <<weekly, recounts>>, day' \in Nat, day <= day'
  PROVE  CountsOfThePast'
<1>1. ASSUME NEW w \in Weeks, weekly[w].complete PROVE Monday(w + 1) <= day'
  <2>1. Monday(w + 1) <= day /\ day \in Nat
    BY <1>1 DEF CollectionInv, CollectionTypeOK, CountsOfThePast
  <2>2. Monday(w + 1) \in Int
    BY CollectionConstants DEF Weeks, Monday
  <2> QED
    BY <2>1, <2>2
<1>2. ASSUME NEW c \in Counters, recounts[c].at = "read" PROVE recounts[c].today \in 0..day'
  BY <1>2 DEF CollectionInv, CollectionTypeOK, CountsOfThePast
<1> QED
  BY <1>1, <1>2 DEF CollectionInv, CountsOfThePast

LEMMA CollectionStep ==
  ASSUME CollectionInv, [CollectionJobs \/ NextDay]_collectionVars
  PROVE  CollectionInv'
<1>1. /\ CollectionTypeOK /\ CountsOfThePast /\ YoungOffersStay
      /\ \A o \in MarketOffers : arrived[o] <= day
  BY DEF CollectionInv
<1>2. day \in Nat /\ Retention \in Nat
  BY <1>1, CollectionConstants DEF CollectionTypeOK
<1>3. CASE \E o \in MarketOffers : OfferArrives(o)
  <2>1. PICK o \in MarketOffers : OfferArrives(o)
    BY <1>3
  <2>2. /\ arrived[o] = NotArrived /\ arrived' = [arrived EXCEPT ![o] = day] /\ stored' = stored \cup {o}
        /\ UNCHANGED <<day, tags, weekly, collector, recounts, everTagged>>
    BY <2>1 DEF OfferArrives
  <2>3. /\ arrived'[o] = day /\ day # NotArrived
        /\ \A p \in MarketOffers : p # o => arrived'[p] = arrived[p]
    BY <1>1, <1>2, <2>2 DEF CollectionTypeOK, NotArrived
  <2>4. CollectionTypeOK'
    BY <1>1, <2>2, <2>3 DEF CollectionTypeOK
  <2>5. YoungOffersStay'
    BY <1>1, <2>2, <2>3 DEF YoungOffersStay, CollectionTypeOK
  <2> QED
    BY <1>1, <1>2, <2>2, <2>3, <2>4, <2>5, RecountsGoOn DEF CollectionInv
<1>4. CASE \E S \in SUBSET MarketOffers : PurgeOffers(S)
  <2>1. PICK S \in SUBSET MarketOffers : PurgeOffers(S)
    BY <1>4
  <2>2. /\ S \subseteq {o \in stored : arrived[o] <= day - Retention} /\ stored' = stored \ S
        /\ tags' = [o \in MarketOffers |-> IF o \in S THEN Untagged ELSE tags[o]]
        /\ UNCHANGED <<day, arrived, weekly, collector, recounts, everTagged>>
    BY <2>1 DEF PurgeOffers
  <2>3. \A o \in MarketOffers : tags'[o] = IF o \in S THEN Untagged ELSE tags[o]
    BY <2>2
  <2>4. CollectionTypeOK'
    BY <1>1, <2>2, <2>3 DEF CollectionTypeOK
  <2>5. ASSUME NEW o \in everTagged PROVE arrived[o] # NotArrived /\ (arrived[o] > day - Retention => o \in stored' /\ tags'[o] # Untagged)
    <3>1. o \in MarketOffers /\ arrived[o] \in Int
      BY <1>1, CollectionConstants DEF CollectionTypeOK, NotArrived
    <3> QED
      BY <1>1, <1>2, <2>2, <2>3, <3>1 DEF YoungOffersStay
  <2>6. YoungOffersStay'
    BY <1>1, <2>2, <2>3, <2>5 DEF YoungOffersStay
  <2> QED
    BY <1>1, <1>2, <2>2, <2>4, <2>6, RecountsGoOn DEF CollectionInv
<1>5. CASE \E S \in SUBSET MarketOffers : ClassifyList(S)
  <2>1. PICK S \in SUBSET MarketOffers : ClassifyList(S)
    BY <1>5
  <2>2. /\ collector' = [at |-> "calling", listed |-> S]
        /\ UNCHANGED <<day, arrived, stored, tags, weekly, recounts, everTagged>>
    BY <2>1 DEF ClassifyList
  <2>3. CollectionTypeOK' /\ YoungOffersStay'
    BY <1>1, <2>2 DEF CollectionTypeOK, YoungOffersStay
  <2> QED
    BY <1>1, <1>2, <2>2, <2>3, RecountsGoOn DEF CollectionInv
<1>6. CASE \E answered \in SUBSET collector.listed : \E full \in SUBSET answered : ClassifyCommit(answered, full)
  <2>0. PICK answered \in SUBSET collector.listed : \E full \in SUBSET answered : ClassifyCommit(answered, full)
    BY <1>6
  <2>1. PICK full \in SUBSET answered : ClassifyCommit(answered, full)
    BY <2>0
  <2>2. UNCHANGED <<day, arrived, stored, weekly, recounts>>
    BY <2>1 DEF ClassifyCommit
  <2>3. collector' \in [at : {"idle", "calling", "recount"}, listed : SUBSET MarketOffers]
    <3>1. IdleCollector \in [at : {"idle", "calling", "recount"}, listed : SUBSET MarketOffers]
      BY DEF IdleCollector
    <3>2. collector' = IdleCollector \/ collector' = [at |-> "recount", listed |-> {}]
      BY <2>1 DEF ClassifyCommit
    <3> QED
      BY <3>1, <3>2
  <2>4. CASE answered \subseteq stored
    <3>1. /\ tags' = [o \in MarketOffers |-> IF o \in full THEN Levels
                                             ELSE IF o \in answered THEN {Family} ELSE tags[o]]
          /\ everTagged' = everTagged \cup answered
      BY <2>1, <2>4 DEF ClassifyCommit
    <3>2. \A o \in MarketOffers : tags'[o] = IF o \in full THEN Levels
                                             ELSE IF o \in answered THEN {Family} ELSE tags[o]
      BY <3>1
    <3>3. Levels # Untagged /\ {Family} # Untagged
      BY DEF Levels, Untagged
    <3>4. CollectionTypeOK'
      BY <1>1, <2>2, <2>3, <2>4, <3>1, <3>2 DEF CollectionTypeOK
    <3>5. ASSUME NEW o \in everTagged' PROVE arrived[o] # NotArrived /\ (arrived[o] > day - Retention => o \in stored /\ tags'[o] # Untagged)
      BY <1>1, <2>4, <3>1, <3>2, <3>3 DEF YoungOffersStay, CollectionTypeOK
    <3>6. YoungOffersStay'
      BY <1>1, <2>2, <3>1, <3>2, <3>5 DEF YoungOffersStay
    <3> QED
      BY <1>1, <1>2, <2>2, <3>4, <3>6, RecountsGoOn DEF CollectionInv
  <2>5. CASE ~(answered \subseteq stored)
    <3>1. UNCHANGED <<tags, everTagged>>
      BY <2>1, <2>5 DEF ClassifyCommit
    <3>2. CollectionTypeOK' /\ YoungOffersStay'
      BY <1>1, <2>2, <2>3, <3>1 DEF CollectionTypeOK, YoungOffersStay
    <3> QED
      BY <1>1, <1>2, <2>2, <3>2, RecountsGoOn DEF CollectionInv
  <2> QED
    BY <2>4, <2>5
<1>7. CASE \E c \in Counters : RecountStart(c)
  <2>1. PICK c \in Counters : RecountStart(c)
    BY <1>7
  <2>2. UNCHANGED <<day, arrived, stored, tags, weekly, everTagged>>
    BY <2>1 DEF RecountStart
  <2>3. collector' \in [at : {"idle", "calling", "recount"}, listed : SUBSET MarketOffers]
    <3>1. IdleCollector \in [at : {"idle", "calling", "recount"}, listed : SUBSET MarketOffers]
      BY DEF IdleCollector
    <3>2. collector' = IdleCollector \/ collector' = collector
      BY <2>1 DEF RecountStart
    <3> QED
      BY <1>1, <3>1, <3>2 DEF CollectionTypeOK
  <2>4. CollectionTypeOK' /\ YoungOffersStay'
    BY <1>1, <2>2, <2>3 DEF CollectionTypeOK, YoungOffersStay
  <2>5. CASE RecountedWeeks(day) = {}
    <3>1. recounts' = recounts
      BY <2>1, <2>5 DEF RecountStart
    <3> QED
      BY <1>1, <1>2, <2>2, <2>4, <3>1, RecountsGoOn DEF CollectionInv
  <2>6. CASE RecountedWeeks(day) # {}
    <3>1. PICK weeks : weeks = RecountedWeeks(day)
      OBVIOUS
    <3>2. PICK found : found = [w \in weeks |-> [l \in Levels |-> CountIn(Tagged, w, l)]]
      OBVIOUS
    <3>3. recounts' = [recounts EXCEPT ![c] = [at |-> "read", weeks |-> weeks, today |-> day, counts |-> found]]
      BY <2>1, <2>6, <3>1, <3>2 DEF RecountStart
    <3>4. Tagged \in SUBSET MarketOffers
      BY <1>1 DEF Tagged, CollectionTypeOK
    <3>5. \A w \in weeks : found[w] \in [Levels -> Nat]
      BY <3>2, <3>4, CountsAreNumbers
    <3>6. /\ DOMAIN recounts' = Counters /\ recounts'[c].at = "read" /\ recounts'[c].today = day
          /\ recounts'[c].weeks = weeks /\ recounts'[c].counts = found
          /\ \A b \in Counters : b # c => recounts'[b] = recounts[b]
      BY <1>1, <3>3 DEF CountsOfThePast
    <3>7. CountsOfThePast'
      BY <1>1, <1>2, <2>2, <3>5, <3>6 DEF CountsOfThePast
    <3> QED
      BY <1>1, <2>2, <2>4, <3>7 DEF CollectionInv
  <2> QED
    BY <2>5, <2>6
<1>8. CASE \E c \in Counters : RecountCommit(c) \/ RecountFails(c)
  <2>1. PICK c \in Counters : RecountCommit(c) \/ RecountFails(c)
    BY <1>8
  <2>2. /\ recounts[c].at = "read" /\ recounts' = [recounts EXCEPT ![c] = NoRecount]
        /\ UNCHANGED <<day, arrived, stored, tags, collector, everTagged>>
    BY <2>1 DEF RecountCommit, RecountFails
  <2>3. \A w \in Weeks : \/ weekly'[w] = weekly[w]
                         \/ w \in recounts[c].weeks /\ weekly'[w] = WeekRows(c, w)
    BY <2>1 DEF RecountCommit, RecountFails
  <2>4. ASSUME NEW w \in Weeks, w \in recounts[c].weeks
        PROVE  WeekRows(c, w) \in RowSet /\ (WeekRows(c, w).complete => Monday(w + 1) <= day)
    <3>1. recounts[c].counts[w] \in [Levels -> Nat] /\ recounts[c].today \in 0..day
      BY <1>1, <2>2, <2>4 DEF CountsOfThePast
    <3>2. Monday(w + 1) \in Int
      BY CollectionConstants DEF Weeks, Monday
    <3>3. CASE recounts[c].counts[w][Family] = 0
      BY <3>3 DEF WeekRows, NoRows, RowSet
    <3>4. CASE recounts[c].counts[w][Family] # 0
      <4>1. CASE Monday(w + 1) <= recounts[c].today
        <5>1. WeekRows(c, w) = [total |-> recounts[c].counts[w], complete |-> TRUE]
          BY <3>4, <4>1 DEF WeekRows
        <5>2. Monday(w + 1) <= day
          BY <1>2, <3>1, <3>2, <4>1
        <5> QED
          BY <3>1, <5>1, <5>2 DEF RowSet
      <4>2. CASE ~(Monday(w + 1) <= recounts[c].today)
        <5>1. WeekRows(c, w) = [total |-> recounts[c].counts[w], complete |-> FALSE]
          <6>1. (Monday(w + 1) <= recounts[c].today) = FALSE
            BY <1>2, <3>1, <3>2, <4>2
          <6> QED
            BY <3>4, <6>1 DEF WeekRows
        <5> QED
          BY <3>1, <5>1 DEF RowSet
      <4> QED
        BY <4>1, <4>2
    <3> QED
      BY <3>3, <3>4
  <2>5. \A w \in Weeks : weekly'[w] \in RowSet /\ (weekly'[w].complete => Monday(w + 1) <= day)
    BY <1>1, <2>3, <2>4 DEF CollectionTypeOK, CountsOfThePast, RowSet
  <2>6. weekly' \in [Weeks -> RowSet]
    <3>1. \/ weekly' = weekly
          \/ weekly' = [w \in Weeks |-> IF w \in recounts[c].weeks THEN WeekRows(c, w) ELSE weekly[w]]
      BY <2>1 DEF RecountCommit, RecountFails
    <3> QED
      BY <1>1, <2>5, <3>1 DEF CollectionTypeOK, RowSet
  <2>7. /\ DOMAIN recounts' = Counters /\ recounts'[c].at = "idle"
        /\ \A b \in Counters : b # c => recounts'[b] = recounts[b]
    BY <1>1, <2>2 DEF CountsOfThePast, NoRecount
  <2>8. CountsOfThePast'
    BY <1>1, <2>2, <2>5, <2>7 DEF CountsOfThePast
  <2>9. CollectionTypeOK' /\ YoungOffersStay'
    BY <1>1, <2>2, <2>6 DEF CollectionTypeOK, YoungOffersStay, RowSet
  <2> QED
    BY <1>1, <2>2, <2>8, <2>9 DEF CollectionInv
<1>9. CASE NextDay
  <2>1. day' = day + 1 /\ day < LastDay /\ UNCHANGED <<arrived, stored, tags, weekly, collector, recounts, everTagged>>
    BY <1>9 DEF NextDay
  <2>2. CollectionTypeOK'
    BY <1>1, <2>1, CollectionConstants DEF CollectionTypeOK
  <2>3. \A o \in MarketOffers : arrived[o] \in Int /\ arrived[o] <= day'
    BY <1>1, <1>2, <2>1, CollectionConstants DEF CollectionTypeOK, NotArrived
  <2>4. YoungOffersStay'
    <3>1. \A o \in everTagged : o \in MarketOffers
      BY <1>1 DEF CollectionTypeOK
    <3>2. \A o \in everTagged : arrived[o] > day' - Retention => arrived[o] > day - Retention
      BY <1>2, <2>1, <2>3, <3>1
    <3> QED
      BY <1>1, <2>1, <3>2 DEF YoungOffersStay
  <2> QED
    BY <1>2, <2>1, <2>2, <2>3, <2>4, RecountsGoOn DEF CollectionInv
<1>10. CASE UNCHANGED collectionVars
  <2>1. UNCHANGED <<day, arrived, stored, tags, weekly, collector, recounts, everTagged>>
    BY <1>10 DEF collectionVars
  <2>2. CollectionTypeOK' /\ YoungOffersStay'
    BY <1>1, <2>1 DEF CollectionTypeOK, YoungOffersStay
  <2> QED
    BY <1>1, <1>2, <2>1, <2>2, RecountsGoOn DEF CollectionInv
<1> QED
  BY <1>3, <1>4, <1>5, <1>6, <1>7, <1>8, <1>9, <1>10 DEF CollectionJobs

\* What the digest does leaves the collection alone, but for the calendar.
LEMMA DigestIsApart ==
  ASSUME [MarketNext]_marketVars
  PROVE  [CollectionJobs \/ NextDay]_collectionVars
BY DEF MarketNext, DigestCollection, DigestNextDay, WeeklyJob, WeeklyStart, WeeklyCandidate, WeeklyFile,
       WeeklyBuild, WeeklySend, WeeklyFails, WeeklyEnd, AdminFile, AdminBuild, AdminSend, LeaveDigest,
       ConfirmAddress, marketVars

\* A recount covers weeks of which nothing can have been purged.
LEMMA RecountCountsAll ==
  ASSUME Retention > 0, CollectionInv, [CollectionJobs \/ NextDay]_collectionVars, NEW c \in Counters,
         recounts'[c].at = "read", recounts[c].at = "idle", NEW w \in recounts'[c].weeks
  PROVE  recounts'[c].counts[w][Family] = Cardinality({o \in everTagged : WeekOf(arrived[o]) = w})
<1>1. DOMAIN recounts = Counters /\ day \in Nat /\ Retention \in Nat \ {0}
  BY CollectionConstants DEF CollectionInv, CountsOfThePast, CollectionTypeOK
<1>2. recounts' # recounts
  OBVIOUS
<1>3. PICK b \in Counters : RecountStart(b) \/ RecountCommit(b) \/ RecountFails(b)
  BY <1>2 DEF CollectionJobs, OfferArrives, PurgeOffers, ClassifyList, ClassifyCommit, NextDay, collectionVars
<1>4. CASE RecountCommit(b) \/ RecountFails(b)
  BY <1>1, <1>4 DEF RecountCommit, RecountFails, NoRecount
<1>5. CASE RecountStart(b)
  <2>1. PICK weeks : weeks = RecountedWeeks(day)
    OBVIOUS
  <2>2. PICK found : found = [v \in weeks |-> [l \in Levels |-> CountIn(Tagged, v, l)]]
    OBVIOUS
  <2>3. recounts' = [recounts EXCEPT ![b] = [at |-> "read", weeks |-> weeks, today |-> day, counts |-> found]]
    BY <1>2, <1>5, <2>1, <2>2 DEF RecountStart
  <2>4. c = b
    BY <1>1, <2>3
  <2>5. recounts'[c].weeks = weeks /\ recounts'[c].counts = found
    BY <1>1, <2>3, <2>4
  <2>6. w \in weeks /\ recounts'[c].counts[w][Family] = CountIn(Tagged, w, Family)
    BY <2>2, <2>5 DEF Levels
  <2>7. Max({Retention - 1, 0}) = Retention - 1
    BY <1>1 DEF Max
  <2>8. w \in Nat /\ Monday(w) >= day - (Retention - 1)
    BY <2>1, <2>6, <2>7 DEF RecountedWeeks, Weeks
  <2>9. ASSUME NEW o \in everTagged, WeekOf(arrived[o]) = w PROVE o \in Tagged /\ Family \in tags[o]
    <3>1. o \in MarketOffers /\ arrived[o] \in Nat
      BY CollectionConstants DEF CollectionInv, CollectionTypeOK, YoungOffersStay
    <3>2. Monday(w) <= arrived[o] /\ Monday(w) \in Int
      BY <2>8, <2>9, <3>1, WeekArithmetic, CollectionConstants DEF Monday
    <3>3. arrived[o] > day - Retention
      BY <1>1, <2>8, <3>1, <3>2
    <3> QED
      BY <3>1, <3>3 DEF CollectionInv, YoungOffersStay, CollectionTypeOK, Tagged, Levels, Untagged
  <2>10. \A o \in Tagged : o \in everTagged
    BY DEF CollectionInv, YoungOffersStay, CollectionTypeOK, Tagged
  <2>11. {o \in Tagged : WeekOf(arrived[o]) = w /\ Family \in tags[o]} = {o \in everTagged : WeekOf(arrived[o]) = w}
    BY <2>9, <2>10
  <2> QED
    BY <2>6, <2>11 DEF CountIn
<1> QED
  BY <1>3, <1>4, <1>5

-------------------------------------------------------------------------------
(* The digest                                                                *)

(* While a run lasts it is about the week before, and reads before it writes.   *)
RunOfTheWeek ==
  run.at # "idle" =>
    /\ run.wanted = WeekOf(day) - 1
    /\ \A u \in run.sent : <<u, run.wanted>> \in sends
    /\ run.out \subseteq optOuts
    /\ run.at # "next" => run.reader \in Readers /\ run.reader \notin run.sent
    /\ run.at = "built" => run.week = run.wanted /\ run.week \in Weeks

AdminBuilt == admin.at = "built" => admin.reader \in Readers /\ admin.week \in Weeks

(* An automatic digest left its record; the run that sent it knows.             *)
AutoIsRecorded ==
  \A m \in digests :
    m.source = "auto" =>
      /\ m.earlier = 0
      /\ <<m.reader, m.week>> \in sends
      /\ run.at # "idle" /\ m.week = run.wanted => m.reader \in run.sent

MarketInv == CollectionInv /\ DigestTypeOK /\ RunOfTheWeek /\ AdminBuilt /\ AutoIsRecorded

LEMMA NoWeeksNoOffers ==
  ASSUME NEW table, NEW l, NEW partial, UsableWeeks(table, l, partial) = {}
  PROVE  OfferTotal(table, l, partial) = 0
BY DEF OfferTotal, MapThenSumSet, MapThenFoldSet

LEMMA LargestWeek ==
  ASSUME NEW S \in SUBSET Weeks, S # {}
  PROVE  Max(S) \in S
<1>1. PICK N \in Nat : Weeks = 0..N
  <2>1. LastDay \div WeekDays \in Nat
    BY CollectionConstants
  <2> QED
    BY <2>1 DEF Weeks
<1>2. \E w \in S : \A v \in S : v <= w
  BY <1>1, LargestNumber
<1>3. \E w \in S : \A v \in S : w >= v
  BY <1>1, <1>2
<1> QED
  BY <1>3 DEF Max

\* The digest a candidate may get is about a week there are offers of, complete
\* unless the admin asked for what there is.
LEMMA DigestsAreOfAWeek ==
  ASSUME NEW table, NEW tag, NEW ignore \in BOOLEAN, Available(table, tag, ignore)
  PROVE  /\ DigestWeek(table, tag, ignore) \in Weeks
         /\ ~ignore => table[DigestWeek(table, tag, ignore)].complete
<1>1. PICK l : l = ChosenLevel(table, tag, ignore)
  OBVIOUS
<1>2. PICK weeks : weeks = UsableWeeks(table, l, ignore)
  OBVIOUS
<1>3. weeks # {}
  <2>1. SUFFICES ASSUME weeks = {} PROVE FALSE
    OBVIOUS
  <2>2. OfferTotal(table, l, ignore) = 0
    BY <1>2, <2>1, NoWeeksNoOffers
  <2> QED
    BY <1>1, <2>2, DigestConstants DEF Available
<1>4. weeks \subseteq Weeks
  BY <1>2 DEF UsableWeeks, Rows
<1>5. \A w \in weeks : ~ignore => table[w].complete
  BY <1>2 DEF UsableWeeks
<1>6. DigestWeek(table, tag, ignore) = Max(weeks)
  BY <1>1, <1>2 DEF DigestWeek
<1> QED
  BY <1>3, <1>4, <1>5, <1>6, LargestWeek

LEMMA MarketStarts == MarketInit => MarketInv
<1> SUFFICES ASSUME MarketInit PROVE MarketInv
  OBVIOUS
<1>1. CollectionInv
  BY CollectionStarts DEF MarketInit
<1>2. DigestTypeOK
  BY DigestConstants DEF MarketInit, DigestInit, DigestTypeOK, IdleRun, IdleAdmin
<1> QED
  BY <1>1, <1>2 DEF MarketInit, DigestInit, MarketInv, RunOfTheWeek, AdminBuilt, AutoIsRecorded, IdleRun, IdleAdmin

\* The hourly job.
LEMMA JobKeepsMarket ==
  ASSUME MarketInv, CollectionInv', WeeklyJob
  PROVE  MarketInv'
<1>1. /\ CollectionInv /\ DigestTypeOK /\ RunOfTheWeek /\ AdminBuilt /\ AutoIsRecorded
      /\ day \in Nat /\ WeekOf(day) \in Nat /\ WeekOf(day) - 1 \in Weeks \cup {NoWeek}
  <2>1. day \in 0..LastDay
    BY DEF MarketInv, CollectionInv, CollectionTypeOK
  <2>2. WeekOf(day) \in Weeks
    BY <2>1, WeekArithmetic
  <2>3. PICK N : N = LastDay \div WeekDays
    OBVIOUS
  <2>4. N \in Nat /\ Weeks = 0..N
    BY <2>3, CollectionConstants DEF Weeks
  <2>5. WeekOf(day) \in Nat /\ WeekOf(day) - 1 \in Weeks \cup {NoWeek}
    BY <2>2, <2>4 DEF NoWeek
  <2> QED
    BY <2>1, <2>5, CollectionConstants DEF MarketInv
<1>2. UNCHANGED <<collectionVars, confirmed, optOuts, admin, manual>>
  BY DEF WeeklyJob, WeeklyStart, WeeklyCandidate, WeeklyFile, WeeklyBuild, WeeklySend, WeeklyFails, WeeklyEnd
<1>3. UNCHANGED <<day, weekly, admin>> /\ AdminBuilt'
  BY <1>1, <1>2 DEF collectionVars, AdminBuilt
<1>4. /\ IdleRun \in [at : {"idle", "next", "candidate", "built"}, todo : SUBSET Readers,
                wanted : Weeks \union {NoWeek}, out : SUBSET Readers, sent : SUBSET Readers,
                reader : Readers \union {Nobody}, week : Weeks \union {NoWeek}]
      /\ IdleRun.at = "idle"
  BY DEF IdleRun
<1>5. /\ NextReader(run) \in [at : {"idle", "next", "candidate", "built"}, todo : SUBSET Readers,
                wanted : Weeks \union {NoWeek}, out : SUBSET Readers, sent : SUBSET Readers,
                reader : Readers \union {Nobody}, week : Weeks \union {NoWeek}]
      /\ NextReader(run).at = "next" /\ NextReader(run).wanted = run.wanted
      /\ NextReader(run).out = run.out /\ NextReader(run).sent = run.sent
  BY <1>1 DEF NextReader, DigestTypeOK
<1>6. CASE WeeklyStart
  <2>1. PICK r : r = [IdleRun EXCEPT !.at = "next", !.todo = Readers, !.wanted = WeekOf(day) - 1,
                        !.out = optOuts, !.sent = {u \in Readers : <<u, WeekOf(day) - 1>> \in sends}]
    OBVIOUS
  <2>2. /\ run' = r /\ runs' = runs + 1 /\ runs < MondayRuns
        /\ owed' = IF runs = 0 THEN {u \in Readers : Due(weekly, u)} ELSE owed
        /\ UNCHANGED <<filed, confirmed, optOuts, sends, admin, digests, failures, manual>>
    BY <1>6, <2>1 DEF WeeklyStart
  <2>3. /\ r.at = "next" /\ r.wanted = WeekOf(day) - 1 /\ r.out = optOuts
        /\ r.sent = {u \in Readers : <<u, WeekOf(day) - 1>> \in sends}
        /\ r \in [at : {"idle", "next", "candidate", "built"}, todo : SUBSET Readers,
                wanted : Weeks \union {NoWeek}, out : SUBSET Readers, sent : SUBSET Readers,
                reader : Readers \union {Nobody}, week : Weeks \union {NoWeek}]
    BY <1>1, <1>4, <2>1 DEF DigestTypeOK, IdleRun
  <2>4. DigestTypeOK'
    BY <1>1, <2>2, <2>3, DigestConstants DEF DigestTypeOK
  <2>5. RunOfTheWeek'
    BY <1>3, <2>2, <2>3 DEF RunOfTheWeek
  <2>6. AutoIsRecorded'
    BY <1>1, <2>2, <2>3 DEF AutoIsRecorded, DigestTypeOK
  <2> QED
    BY <1>3, <2>4, <2>5, <2>6 DEF MarketInv
<1>7. CASE \E u \in Readers : WeeklyCandidate(u)
  <2>1. PICK u \in Readers : WeeklyCandidate(u)
    BY <1>7
  <2>2. PICK r : r = [run EXCEPT !.todo = @ \ {u}]
    OBVIOUS
  <2>3. /\ run.at = "next"
        /\ run' = IF u \in run.sent \/ u \in run.out \/ u \notin confirmed THEN r
                  ELSE [r EXCEPT !.at = "candidate", !.reader = u]
        /\ UNCHANGED <<filed, confirmed, optOuts, sends, runs, admin, digests, owed, failures, manual>>
    BY <2>1, <2>2 DEF WeeklyCandidate
  <2>4. /\ r.at = "next" /\ r.wanted = run.wanted /\ r.out = run.out /\ r.sent = run.sent
        /\ r \in [at : {"idle", "next", "candidate", "built"}, todo : SUBSET Readers,
                wanted : Weeks \union {NoWeek}, out : SUBSET Readers, sent : SUBSET Readers,
                reader : Readers \union {Nobody}, week : Weeks \union {NoWeek}]
    BY <1>1, <2>2, <2>3 DEF DigestTypeOK
  <2>5. /\ run' \in [at : {"idle", "next", "candidate", "built"}, todo : SUBSET Readers,
                wanted : Weeks \union {NoWeek}, out : SUBSET Readers, sent : SUBSET Readers,
                reader : Readers \union {Nobody}, week : Weeks \union {NoWeek}]
        /\ run'.wanted = run.wanted /\ run'.out = run.out /\ run'.sent = run.sent
        /\ run'.at = "next" \/ (run'.at = "candidate" /\ run'.reader = u /\ u \notin run.sent)
    BY <2>3, <2>4
  <2>6. DigestTypeOK'
    BY <1>1, <2>3, <2>5 DEF DigestTypeOK
  <2>7. RunOfTheWeek'
    BY <1>1, <1>3, <2>3, <2>5 DEF RunOfTheWeek
  <2>8. AutoIsRecorded'
    BY <1>1, <2>3, <2>5 DEF AutoIsRecorded
  <2> QED
    BY <1>3, <2>6, <2>7, <2>8 DEF MarketInv
<1>8. CASE \E level \in {Family, Specialty, NotFiled} : WeeklyFile(level)
  <2>1. PICK level \in {Family, Specialty, NotFiled} : WeeklyFile(level)
    BY <1>8
  <2>2. /\ run.at = "candidate" /\ filed' = [filed EXCEPT ![run.reader] = level]
        /\ run' = NextReader(run) \/ run' = run
        /\ UNCHANGED <<confirmed, optOuts, sends, runs, admin, digests, owed, failures, manual>>
    BY <2>1 DEF WeeklyFile
  <2>3. DigestTypeOK'
    BY <1>1, <1>5, <2>2 DEF DigestTypeOK
  <2>4. RunOfTheWeek'
    BY <1>1, <1>3, <1>5, <2>2 DEF RunOfTheWeek
  <2>5. AutoIsRecorded'
    BY <1>1, <1>5, <2>2 DEF AutoIsRecorded
  <2> QED
    BY <1>3, <2>3, <2>4, <2>5 DEF MarketInv
<1>9. CASE WeeklyBuild
  <2>1. PICK tag : tag = filed[run.reader]
    OBVIOUS
  <2>2. /\ run.at = "candidate"
        /\ run' = IF Sendable(weekly, tag, run.wanted)
                  THEN [run EXCEPT !.at = "built", !.week = DigestWeek(weekly, tag, FALSE)]
                  ELSE NextReader(run)
        /\ UNCHANGED <<filed, confirmed, optOuts, sends, runs, admin, digests, owed, failures, manual>>
    BY <1>9, <2>1 DEF WeeklyBuild
  <2>3. CASE Sendable(weekly, tag, run.wanted)
    <3>1. PICK w : w = DigestWeek(weekly, tag, FALSE)
      OBVIOUS
    <3>2. w \in Weeks /\ weekly[w].complete /\ w >= run.wanted
      BY <2>3, <3>1, DigestsAreOfAWeek DEF Sendable
    <3>3. Monday(w + 1) <= day
      BY <1>1, <3>2 DEF CollectionInv, CountsOfThePast
    <3>4. w \in Nat /\ w + 1 <= WeekOf(day)
      BY <1>1, <3>2, <3>3, WeekArithmetic DEF Weeks
    <3>5. w = run.wanted
      BY <1>1, <2>2, <3>2, <3>4 DEF RunOfTheWeek
    <3>6. run' = [run EXCEPT !.at = "built", !.week = w]
      BY <2>2, <2>3, <3>1
    <3>7. /\ run' \in [at : {"idle", "next", "candidate", "built"}, todo : SUBSET Readers,
                wanted : Weeks \union {NoWeek}, out : SUBSET Readers, sent : SUBSET Readers,
                reader : Readers \union {Nobody}, week : Weeks \union {NoWeek}]
          /\ run'.at = "built" /\ run'.wanted = run.wanted /\ run'.out = run.out /\ run'.sent = run.sent
          /\ run'.reader = run.reader /\ run'.week = w
      BY <1>1, <3>2, <3>6 DEF DigestTypeOK
    <3>8. DigestTypeOK'
      BY <1>1, <2>2, <3>7 DEF DigestTypeOK
    <3>9. RunOfTheWeek'
      BY <1>1, <1>3, <2>2, <3>2, <3>5, <3>7 DEF RunOfTheWeek
    <3>10. AutoIsRecorded'
      BY <1>1, <2>2, <3>7 DEF AutoIsRecorded
    <3> QED
      BY <1>3, <3>8, <3>9, <3>10 DEF MarketInv
  <2>4. CASE ~Sendable(weekly, tag, run.wanted)
    <3>1. run' = NextReader(run)
      BY <2>2, <2>4
    <3>2. DigestTypeOK'
      BY <1>1, <1>5, <2>2, <3>1 DEF DigestTypeOK
    <3>3. RunOfTheWeek'
      BY <1>1, <1>3, <1>5, <2>2, <3>1 DEF RunOfTheWeek
    <3>4. AutoIsRecorded'
      BY <1>1, <1>5, <2>2, <3>1 DEF AutoIsRecorded
    <3> QED
      BY <1>3, <3>2, <3>3, <3>4 DEF MarketInv
  <2> QED
    BY <2>3, <2>4
<1>10. CASE WeeklySend
  <2>1. PICK r : r = [NextReader(run) EXCEPT !.sent = @ \union {run.reader}]
    OBVIOUS
  <2>2. /\ run.at = "built" /\ run' = r
        /\ digests' = Mailed(run.reader, run.week, "auto") /\ sends' = sends \cup {<<run.reader, run.week>>}
        /\ UNCHANGED <<filed, confirmed, optOuts, runs, admin, owed, failures, manual>>
    BY <1>10, <2>1 DEF WeeklySend, Recorded
  <2>3. /\ run.reader \in Readers /\ run.reader \notin run.sent /\ run.week = run.wanted /\ run.week \in Weeks
        /\ run.wanted = WeekOf(day) - 1
    BY <1>1, <2>2 DEF RunOfTheWeek
  <2>4. /\ r \in [at : {"idle", "next", "candidate", "built"}, todo : SUBSET Readers,
                wanted : Weeks \union {NoWeek}, out : SUBSET Readers, sent : SUBSET Readers,
                reader : Readers \union {Nobody}, week : Weeks \union {NoWeek}]
        /\ r.at = "next" /\ r.wanted = run.wanted /\ r.out = run.out /\ r.sent = run.sent \cup {run.reader}
    BY <1>5, <2>1, <2>3
  <2>5. DigestTypeOK'
    BY <1>1, <2>2, <2>3, <2>4 DEF DigestTypeOK
  <2>6. RunOfTheWeek'
    BY <1>1, <1>3, <2>2, <2>3, <2>4 DEF RunOfTheWeek
  <2>7. {m \in digests : m.reader = run.reader /\ m.week = run.week /\ m.source = "auto"} = {}
    BY <1>1, <2>2, <2>3 DEF AutoIsRecorded
  <2>8. PICK mail : mail = [reader |-> run.reader, week |-> run.week, source |-> "auto", day |-> day,
                            earlier |-> Cardinality({m \in digests :
                              m.reader = run.reader /\ m.week = run.week /\ m.source = "auto"})]
    OBVIOUS
  <2>9. digests' = digests \cup {mail} /\ mail.earlier = 0 /\ mail.reader = run.reader /\ mail.week = run.week
    BY <2>2, <2>7, <2>8, FS_EmptySet DEF Mailed
  <2>10. AutoIsRecorded'
    BY <1>1, <2>2, <2>3, <2>4, <2>9 DEF AutoIsRecorded
  <2> QED
    BY <1>3, <2>5, <2>6, <2>10 DEF MarketInv
<1>11. CASE WeeklyFails
  <2>1. /\ run' = IdleRun /\ failures' = failures + 1 /\ failures < MaxFailures
        /\ UNCHANGED <<filed, confirmed, optOuts, sends, runs, admin, digests, owed, manual>>
    BY <1>11 DEF WeeklyFails
  <2>2. DigestTypeOK'
    BY <1>1, <1>4, <2>1, DigestConstants DEF DigestTypeOK
  <2> QED
    BY <1>1, <1>3, <1>4, <2>1, <2>2 DEF MarketInv, RunOfTheWeek, AutoIsRecorded
<1>12. CASE WeeklyEnd
  <2>1. /\ run' = IdleRun
        /\ UNCHANGED <<filed, confirmed, optOuts, sends, runs, admin, digests, owed, failures, manual>>
    BY <1>12 DEF WeeklyEnd
  <2>2. DigestTypeOK'
    BY <1>1, <1>4, <2>1, DigestConstants DEF DigestTypeOK
  <2> QED
    BY <1>1, <1>3, <1>4, <2>1, <2>2 DEF MarketInv, RunOfTheWeek, AutoIsRecorded
<1> QED
  BY <1>6, <1>7, <1>8, <1>9, <1>10, <1>11, <1>12 DEF WeeklyJob

LEMMA MarketStep ==
  ASSUME MarketInv, [MarketNext]_marketVars
  PROVE  MarketInv'
<1>1. CollectionInv'
  BY CollectionStep, DigestIsApart DEF MarketInv
<1>2. CollectionInv /\ DigestTypeOK /\ RunOfTheWeek /\ AdminBuilt /\ AutoIsRecorded
  BY DEF MarketInv
<1>3. CASE WeeklyJob
  BY <1>1, <1>3, JobKeepsMarket
<1>4. CASE DigestCollection
  <2>1. /\ owed' \subseteq owed /\ day' = day
        /\ UNCHANGED <<filed, confirmed, optOuts, sends, run, runs, admin, digests, failures, manual>>
    BY <1>4 DEF DigestCollection, CollectionJobs, OfferArrives, PurgeOffers, ClassifyList, ClassifyCommit,
                RecountStart, RecountCommit, RecountFails
  <2>2. DigestTypeOK'
    BY <1>2, <2>1 DEF DigestTypeOK
  <2> QED
    BY <1>1, <1>2, <2>1, <2>2 DEF MarketInv, RunOfTheWeek, AdminBuilt, AutoIsRecorded
<1>5. CASE DigestNextDay
  <2>1. /\ run.at = "idle" /\ runs' = 0 /\ owed' = {}
        /\ UNCHANGED <<filed, confirmed, optOuts, sends, run, admin, digests, failures, manual>>
    BY <1>5 DEF DigestNextDay
  <2>2. DigestTypeOK'
    BY <1>2, <2>1, DigestConstants DEF DigestTypeOK
  <2> QED
    BY <1>1, <1>2, <2>1, <2>2 DEF MarketInv, RunOfTheWeek, AdminBuilt, AutoIsRecorded
<1>6. CASE \E u \in Readers, level \in {Family, Specialty} : AdminFile(u, level)
  <2>1. PICK u \in Readers, level \in {Family, Specialty} : AdminFile(u, level)
    BY <1>6
  <2>2. /\ filed' = [filed EXCEPT ![u] = level] /\ UNCHANGED collectionVars
        /\ UNCHANGED <<confirmed, optOuts, sends, run, runs, admin, digests, owed, failures, manual>>
    BY <2>1 DEF AdminFile
  <2>3. DigestTypeOK'
    BY <1>2, <2>2 DEF DigestTypeOK
  <2> QED
    BY <1>1, <1>2, <2>2, <2>3 DEF MarketInv, RunOfTheWeek, AdminBuilt, AutoIsRecorded, collectionVars
<1>7. CASE \E u \in Readers, ignore \in BOOLEAN : AdminBuild(u, ignore)
  <2>1. PICK u \in Readers, ignore \in BOOLEAN : AdminBuild(u, ignore)
    BY <1>7
  <2>2. PICK w : w = DigestWeek(weekly, filed[u], ignore)
    OBVIOUS
  <2>3. /\ Available(weekly, filed[u], ignore) /\ manual < MaxSends /\ manual' = manual + 1
        /\ admin' = [at |-> "built", reader |-> u, week |-> w] /\ UNCHANGED collectionVars
        /\ UNCHANGED <<filed, confirmed, optOuts, sends, run, runs, digests, owed, failures>>
    BY <2>1, <2>2 DEF AdminBuild
  <2>4. w \in Weeks
    BY <2>2, <2>3, DigestsAreOfAWeek
  <2>5. DigestTypeOK'
    BY <1>2, <2>3, <2>4, DigestConstants DEF DigestTypeOK
  <2>6. AdminBuilt'
    BY <2>3, <2>4 DEF AdminBuilt
  <2> QED
    BY <1>1, <1>2, <2>3, <2>5, <2>6 DEF MarketInv, RunOfTheWeek, AutoIsRecorded, collectionVars
<1>8. CASE AdminSend
  <2>1. /\ admin.at = "built" /\ sends' = sends \cup {<<admin.reader, admin.week>>}
        /\ digests' = Mailed(admin.reader, admin.week, "admin")
        /\ admin' = IdleAdmin /\ UNCHANGED collectionVars
        /\ UNCHANGED <<filed, confirmed, optOuts, run, runs, owed, failures, manual>>
    BY <1>8 DEF AdminSend, Recorded
  <2>2. admin.reader \in Readers /\ admin.week \in Weeks
    BY <1>2, <2>1 DEF AdminBuilt
  <2>3. /\ IdleAdmin \in [at : {"idle", "built"}, reader : Readers \union {Nobody}, week : Weeks \union {NoWeek}]
        /\ IdleAdmin.at = "idle"
    BY DEF IdleAdmin
  <2>4. DigestTypeOK'
    BY <1>2, <2>1, <2>2, <2>3 DEF DigestTypeOK
  <2>5. \A m \in digests' : m \in digests \/ m.source = "admin"
    BY <2>1 DEF Mailed
  <2>6. RunOfTheWeek' /\ AdminBuilt'
    BY <1>2, <2>1, <2>3 DEF RunOfTheWeek, AdminBuilt, collectionVars
  <2>7. AutoIsRecorded'
    BY <1>2, <2>1, <2>5 DEF AutoIsRecorded
  <2> QED
    BY <1>1, <2>4, <2>6, <2>7 DEF MarketInv
<1>9. CASE \E u \in Readers : LeaveDigest(u) \/ ConfirmAddress(u)
  <2>1. PICK u \in Readers : LeaveDigest(u) \/ ConfirmAddress(u)
    BY <1>9
  <2>2. /\ UNCHANGED collectionVars /\ confirmed' \subseteq Readers /\ optOuts' \subseteq Readers
        /\ optOuts \subseteq optOuts' /\ owed' \subseteq owed
        /\ UNCHANGED <<filed, sends, run, runs, admin, digests, failures, manual>>
    BY <1>2, <2>1 DEF LeaveDigest, ConfirmAddress, DigestTypeOK
  <2>3. DigestTypeOK'
    BY <1>2, <2>2 DEF DigestTypeOK
  <2> QED
    BY <1>1, <1>2, <2>2, <2>3 DEF MarketInv, RunOfTheWeek, AdminBuilt, AutoIsRecorded, collectionVars
<1>10. CASE UNCHANGED marketVars
  <2>1. UNCHANGED collectionVars /\ UNCHANGED digestVars
    BY <1>10 DEF marketVars
  <2>2. UNCHANGED <<day, filed, confirmed, optOuts, sends, run, runs, admin, digests, owed, failures, manual>>
    BY <2>1 DEF collectionVars, digestVars
  <2>3. DigestTypeOK'
    BY <1>2, <2>2 DEF DigestTypeOK
  <2> QED
    BY <1>1, <1>2, <2>2, <2>3 DEF MarketInv, RunOfTheWeek, AdminBuilt, AutoIsRecorded
<1> QED
  BY <1>3, <1>4, <1>5, <1>6, <1>7, <1>8, <1>9, <1>10 DEF MarketNext

LEMMA MarketTyped == MarketSpec => [](CollectionTypeOK /\ DigestTypeOK)
<1>1. MarketInv => CollectionTypeOK /\ DigestTypeOK
  BY DEF MarketInv, CollectionInv
<1> QED
  BY <1>1, MarketStarts, MarketStep, PTL DEF MarketSpec

\* However manual sends, retries and recounts fall among the runs of a Monday, the
\* automatic digest of a week goes to one person once.
THEOREM DigestOnceAWeek == MarketSpec => []AutoOncePerWeek
<1>1. MarketInv => AutoOncePerWeek
  BY DEF MarketInv, AutoIsRecorded, AutoOncePerWeek
<1> QED
  BY <1>1, MarketStarts, MarketStep, PTL DEF MarketSpec

\* A week whose offers could have been purged is never counted again.
THEOREM CountsAreWhole == ASSUME Retention > 0 PROVE MarketSpec => RecountsAreWhole
<1>1. ASSUME MarketInv, [MarketNext]_marketVars
      PROVE  [\A c \in Counters :
                recounts'[c].at = "read" /\ recounts[c].at = "idle" =>
                  \A w \in recounts'[c].weeks :
                    recounts'[c].counts[w][Family] =
                      Cardinality({o \in everTagged : WeekOf(arrived[o]) = w})]_collectionVars
  BY <1>1, DigestIsApart, RecountCountsAll DEF MarketInv
<1> QED
  BY <1>1, MarketStarts, MarketStep, PTL DEF MarketSpec, RecountsAreWhole

(* Who is owed the digest of this Monday has it, but for those the run in       *)
(* progress has still to come to and for the Mondays whose every run failed.     *)
Served == \A u \in owed : <<u, WeekOf(day) - 1>> \in sends

OwedIsServed ==
  /\ \A u \in owed : Due(weekly, u)
  /\ owed # {} => IsMonday
  /\ runs = 0 => owed = {}
  /\ run.at = "idle" => (failures < runs => Served)
  /\ run.at # "idle" =>
       /\ runs # 0
       /\ failures + 1 < runs => Served
       /\ \A u \in owed : \/ u \in run.todo
                          \/ run.at # "next" /\ u = run.reader
                          \/ <<u, WeekOf(day) - 1>> \in sends

OwedInv == MarketInv /\ OwedIsServed

LEMMA OwedStarts == MarketInit => OwedInv
<1> SUFFICES ASSUME MarketInit PROVE OwedInv
  OBVIOUS
<1>1. MarketInv
  BY MarketStarts
<1>2. /\ owed = {} /\ run = IdleRun /\ runs = 0 /\ failures = 0
  BY DEF MarketInit, DigestInit
<1> QED
  BY <1>1, <1>2 DEF OwedInv, OwedIsServed, Served, IdleRun

LEMMA JobServes ==
  ASSUME OwedInv, MarketInv', WeeklyJob
  PROVE  OwedIsServed'
<1>1. OwedIsServed /\ DigestTypeOK /\ RunOfTheWeek
  BY DEF OwedInv, MarketInv
<1>2. UNCHANGED <<day, weekly, confirmed, optOuts>>
  BY DEF WeeklyJob, WeeklyStart, WeeklyCandidate, WeeklyFile, WeeklyBuild, WeeklySend, WeeklyFails, WeeklyEnd,
         collectionVars
<1>3. failures \in Nat /\ runs \in Nat
  BY <1>1, DigestConstants DEF DigestTypeOK
<1>4. ASSUME filed' = filed, owed' = owed PROVE \A u \in owed' : Due(weekly, u)'
  BY <1>1, <1>2, <1>4 DEF OwedIsServed, Due, WeekOf
<1>5. ASSUME owed' = owed PROVE owed' # {} => IsMonday'
  BY <1>1, <1>2, <1>5 DEF OwedIsServed, IsMonday
<1>6. ASSUME owed' = owed, sends \subseteq sends' PROVE Served => Served'
  BY <1>2, <1>6 DEF Served
<1>7. CASE WeeklyStart
  <2>1. PICK r : r = [IdleRun EXCEPT !.at = "next", !.todo = Readers, !.wanted = WeekOf(day) - 1,
                        !.out = optOuts, !.sent = {u \in Readers : <<u, WeekOf(day) - 1>> \in sends}]
    OBVIOUS
  <2>2. /\ run' = r /\ runs' = runs + 1 /\ IsMonday /\ run.at = "idle"
        /\ owed' = IF runs = 0 THEN {u \in Readers : Due(weekly, u)} ELSE owed
        /\ UNCHANGED <<filed, confirmed, optOuts, sends, failures>>
    BY <1>7, <2>1 DEF WeeklyStart
  <2>3. r.at = "next" /\ r.todo = Readers
    BY <2>1 DEF IdleRun
  <2>4. \A u \in owed' : u \in Readers /\ Due(weekly, u)
    BY <1>1, <2>2 DEF OwedIsServed, DigestTypeOK
  <2>5. \A u \in owed' : Due(weekly, u)'
    BY <1>2, <2>2, <2>4 DEF Due, WeekOf
  <2>6. IsMonday'
    BY <1>2, <2>2 DEF IsMonday
  <2>7. failures' + 1 < runs' => Served'
    <3>1. SUFFICES ASSUME failures' + 1 < runs' PROVE Served'
      OBVIOUS
    <3>2. failures < runs /\ runs # 0
      BY <1>3, <2>2, <3>1
    <3> QED
      BY <1>1, <1>2, <2>2, <3>2 DEF OwedIsServed, Served
  <2> QED
    BY <1>3, <2>2, <2>3, <2>4, <2>5, <2>6, <2>7 DEF OwedIsServed
<1>8. CASE \E u \in Readers : WeeklyCandidate(u)
  <2>1. PICK u \in Readers : WeeklyCandidate(u)
    BY <1>8
  <2>2. PICK r : r = [run EXCEPT !.todo = @ \ {u}]
    OBVIOUS
  <2>3. /\ run.at = "next"
        /\ run' = IF u \in run.sent \/ u \in run.out \/ u \notin confirmed THEN r
                  ELSE [r EXCEPT !.at = "candidate", !.reader = u]
        /\ UNCHANGED <<filed, sends, runs, owed, failures>>
    BY <2>1, <2>2 DEF WeeklyCandidate
  <2>4. r.at = "next" /\ r.todo = run.todo \ {u} /\ r.reader = run.reader
    BY <1>1, <2>2, <2>3 DEF DigestTypeOK
  <2>5. /\ run'.todo = run.todo \ {u} /\ run'.at \in {"next", "candidate"}
        /\ run'.at = "next" => u \in run.sent \/ u \in run.out \/ u \notin confirmed
        /\ run'.at = "candidate" => run'.reader = u
    BY <1>1, <2>2, <2>3, <2>4 DEF DigestTypeOK
  <2>6. ASSUME u \in owed, run'.at = "next" PROVE <<u, WeekOf(day) - 1>> \in sends
    <3>1. u \in confirmed /\ u \notin optOuts
      BY <1>1, <2>6 DEF OwedIsServed, Due
    <3>2. u \in run.sent
      BY <1>1, <2>3, <2>5, <2>6, <3>1 DEF RunOfTheWeek
    <3> QED
      BY <1>1, <2>3, <3>2 DEF RunOfTheWeek
  <2>7. ASSUME NEW v \in owed
        PROVE  v \in run'.todo \/ (run'.at # "next" /\ v = run'.reader) \/ <<v, WeekOf(day) - 1>> \in sends
    BY <1>1, <2>3, <2>5, <2>6 DEF OwedIsServed
  <2>8. \A v \in owed' : Due(weekly, v)'
    BY <1>4, <2>3
  <2> QED
    BY <1>1, <1>2, <1>5, <1>6, <2>3, <2>5, <2>7, <2>8 DEF OwedIsServed, WeekOf
<1>9. CASE \E level \in {Family, Specialty, NotFiled} : WeeklyFile(level)
  <2>1. PICK level \in {Family, Specialty, NotFiled} : WeeklyFile(level)
    BY <1>9
  <2>2. /\ run.at = "candidate" /\ filed[run.reader] = NotFiled /\ filed' = [filed EXCEPT ![run.reader] = level]
        /\ run' = NextReader(run) \/ run' = run
        /\ UNCHANGED <<sends, runs, owed, failures>>
    BY <2>1 DEF WeeklyFile
  <2>3. \A v \in owed : v # run.reader /\ v \in Readers
    BY <1>1, <2>2 DEF OwedIsServed, Due, DigestTypeOK
  <2>4. \A v \in owed : filed'[v] = filed[v]
    BY <1>1, <2>2, <2>3 DEF DigestTypeOK
  <2>5. \A v \in owed' : Due(weekly, v)'
    BY <1>1, <1>2, <2>2, <2>4 DEF OwedIsServed, Due, WeekOf
  <2>6. run'.at \in {"next", "candidate"} /\ run'.todo = run.todo
    BY <1>1, <2>2 DEF NextReader, DigestTypeOK
  <2> QED
    BY <1>1, <1>2, <1>5, <1>6, <2>2, <2>3, <2>5, <2>6 DEF OwedIsServed, WeekOf
<1>10. CASE WeeklyBuild
  <2>1. PICK tag : tag = filed[run.reader]
    OBVIOUS
  <2>2. /\ run.at = "candidate"
        /\ run' = IF Sendable(weekly, tag, run.wanted)
                  THEN [run EXCEPT !.at = "built", !.week = DigestWeek(weekly, tag, FALSE)]
                  ELSE NextReader(run)
        /\ UNCHANGED <<filed, sends, runs, owed, failures>>
    BY <1>10, <2>1 DEF WeeklyBuild
  <2>3. \A v \in owed' : Due(weekly, v)'
    BY <1>4, <2>2
  <2>4. run.reader \in owed => Sendable(weekly, tag, run.wanted)
    BY <1>1, <2>1, <2>2 DEF OwedIsServed, Due, RunOfTheWeek, Sendable
  <2>5. CASE Sendable(weekly, tag, run.wanted)
    <3>1. run'.at = "built" /\ run'.todo = run.todo /\ run'.reader = run.reader
      BY <1>1, <2>2, <2>5 DEF DigestTypeOK
    <3> QED
      BY <1>1, <1>2, <1>5, <1>6, <2>2, <2>3, <3>1 DEF OwedIsServed, WeekOf
  <2>6. CASE ~Sendable(weekly, tag, run.wanted)
    <3>1. run'.at = "next" /\ run'.todo = run.todo
      BY <1>1, <2>2, <2>6 DEF NextReader, DigestTypeOK
    <3> QED
      BY <1>1, <1>2, <1>5, <1>6, <2>2, <2>3, <2>4, <2>6, <3>1 DEF OwedIsServed, WeekOf
  <2> QED
    BY <2>5, <2>6
<1>11. CASE WeeklySend
  <2>1. /\ run.at = "built" /\ run' = [NextReader(run) EXCEPT !.sent = @ \union {run.reader}]
        /\ sends' = sends \cup {<<run.reader, run.week>>}
        /\ UNCHANGED <<filed, runs, owed, failures>>
    BY <1>11 DEF WeeklySend, Recorded
  <2>2. run.week = WeekOf(day) - 1
    BY <1>1, <2>1 DEF RunOfTheWeek
  <2>3. run'.at = "next" /\ run'.todo = run.todo
    BY <1>1, <2>1 DEF NextReader, DigestTypeOK
  <2>4. \A v \in owed' : Due(weekly, v)'
    BY <1>4, <2>1
  <2> QED
    BY <1>1, <1>2, <1>5, <1>6, <2>1, <2>2, <2>3, <2>4 DEF OwedIsServed, WeekOf
<1>12. CASE WeeklyFails
  <2>1. /\ run' = IdleRun /\ failures' = failures + 1 /\ run.at # "idle"
        /\ UNCHANGED <<filed, sends, runs, owed>>
    BY <1>12 DEF WeeklyFails
  <2>2. \A v \in owed' : Due(weekly, v)'
    BY <1>4, <2>1
  <2>3. run'.at = "idle"
    BY <2>1 DEF IdleRun
  <2> QED
    BY <1>1, <1>5, <1>6, <2>1, <2>2, <2>3 DEF OwedIsServed
<1>13. CASE WeeklyEnd
  <2>1. /\ run' = IdleRun /\ run.at = "next" /\ run.todo = {}
        /\ UNCHANGED <<filed, sends, runs, owed, failures>>
    BY <1>13 DEF WeeklyEnd
  <2>2. \A v \in owed' : Due(weekly, v)'
    BY <1>4, <2>1
  <2>3. run'.at = "idle"
    BY <2>1 DEF IdleRun
  <2>4. Served
    BY <1>1, <2>1 DEF OwedIsServed, Served
  <2> QED
    BY <1>1, <1>5, <1>6, <2>1, <2>2, <2>3, <2>4 DEF OwedIsServed
<1> QED
  BY <1>7, <1>8, <1>9, <1>10, <1>11, <1>12, <1>13 DEF WeeklyJob

\* What is changed around the job takes nobody off but those who leave.
LEMMA OwedStep ==
  ASSUME OwedInv, [MarketNext]_marketVars
  PROVE  OwedInv'
<1>1. MarketInv'
  BY MarketStep DEF OwedInv
<1>2. OwedIsServed /\ DigestTypeOK
  BY DEF OwedInv, MarketInv
<1>3. ASSUME UNCHANGED <<day, run, runs, failures>>, sends \subseteq sends', owed' \subseteq owed,
             \A u \in owed' : Due(weekly, u)'
      PROVE  OwedIsServed'
  <2>1. Served => Served'
    BY <1>3 DEF Served
  <2>2. owed' # {} => IsMonday'
    BY <1>2, <1>3 DEF OwedIsServed, IsMonday
  <2> QED
    BY <1>2, <1>3, <2>1, <2>2 DEF OwedIsServed, WeekOf
<1>4. CASE WeeklyJob
  BY <1>1, <1>4, JobServes DEF OwedInv
<1>5. CASE DigestCollection
  <2>1. /\ owed' = {u \in owed : Due(weekly', u)} /\ day' = day
        /\ UNCHANGED <<filed, confirmed, optOuts, sends, run, runs, admin, digests, failures, manual>>
    BY <1>5 DEF DigestCollection, CollectionJobs, OfferArrives, PurgeOffers, ClassifyList, ClassifyCommit,
                RecountStart, RecountCommit, RecountFails
  <2>2. \A u \in owed' : Due(weekly, u)'
    BY <2>1 DEF Due, WeekOf
  <2> QED
    BY <1>1, <1>3, <2>1, <2>2 DEF OwedInv
<1>6. CASE DigestNextDay
  <2>1. /\ run.at = "idle" /\ runs' = 0 /\ owed' = {} /\ UNCHANGED <<run, failures>>
    BY <1>6 DEF DigestNextDay
  <2> QED
    BY <1>1, <2>1 DEF OwedInv, OwedIsServed, Served
<1>7. CASE \E u \in Readers, level \in {Family, Specialty} : AdminFile(u, level)
  <2>1. PICK u \in Readers, level \in {Family, Specialty} : AdminFile(u, level)
    BY <1>7
  <2>2. /\ filed' = [filed EXCEPT ![u] = level] /\ filed[u] = NotFiled
        /\ UNCHANGED <<day, weekly, confirmed, optOuts, sends, run, runs, owed, failures>>
    BY <2>1 DEF AdminFile, collectionVars
  <2>3. \A v \in owed : v # u /\ v \in Readers
    BY <1>2, <2>2 DEF OwedIsServed, Due, DigestTypeOK
  <2>4. \A v \in owed : filed'[v] = filed[v]
    BY <1>2, <2>2, <2>3 DEF DigestTypeOK
  <2>5. \A v \in owed' : Due(weekly, v)'
    BY <1>2, <2>2, <2>4 DEF OwedIsServed, Due, WeekOf
  <2> QED
    BY <1>1, <1>3, <2>2, <2>5 DEF OwedInv
<1>8. CASE \/ \E u \in Readers, ignore \in BOOLEAN : AdminBuild(u, ignore)
           \/ AdminSend
           \/ \E u \in Readers : LeaveDigest(u) \/ ConfirmAddress(u)
           \/ UNCHANGED marketVars
  <2>1. /\ UNCHANGED <<day, weekly, filed, run, runs, failures>> /\ owed' \subseteq owed
        /\ sends \subseteq sends' /\ confirmed \subseteq confirmed'
        /\ \A v \in owed' : v \in optOuts' => v \in optOuts
    BY <1>8 DEF AdminBuild, AdminSend, Recorded, LeaveDigest, ConfirmAddress, marketVars, digestVars, collectionVars
  <2>2. \A v \in owed' : Due(weekly, v)'
    BY <1>2, <2>1 DEF OwedIsServed, Due, WeekOf
  <2> QED
    BY <1>1, <1>3, <2>1, <2>2 DEF OwedInv
<1> QED
  BY <1>4, <1>5, <1>6, <1>7, <1>8 DEF MarketNext

\* As long as the failures are fewer than the runs of a Monday, whoever was due a
\* digest at the first of them has it before the day is over.
THEOREM MondaysServeAll == ASSUME MaxFailures < MondayRuns PROVE MarketSpec => NobodyForgotten
<1>1. ASSUME OwedInv, [MarketNext]_marketVars
      PROVE  [day' # day => \A u \in owed : <<u, WeekOf(day) - 1>> \in sends]_marketVars
  <2>1. SUFFICES ASSUME day' # day PROVE Served
    BY DEF Served
  <2>2. DigestNextDay
    <3>1. CASE WeeklyJob
      BY <2>1, <3>1 DEF WeeklyJob, WeeklyStart, WeeklyCandidate, WeeklyFile, WeeklyBuild, WeeklySend, WeeklyFails,
                        WeeklyEnd, collectionVars
    <3>2. CASE DigestCollection
      BY <2>1, <3>2 DEF DigestCollection, CollectionJobs, OfferArrives, PurgeOffers, ClassifyList, ClassifyCommit,
                        RecountStart, RecountCommit, RecountFails
    <3> QED
      BY <1>1, <2>1, <3>1, <3>2 DEF MarketNext, AdminFile, AdminBuild, AdminSend, LeaveDigest, ConfirmAddress,
                                    marketVars, collectionVars
  <2>3. run.at = "idle" /\ (IsMonday => runs = MondayRuns)
    BY <2>2 DEF DigestNextDay
  <2>4. failures <= MaxFailures /\ failures \in Nat
    BY <1>1, DigestConstants DEF OwedInv, MarketInv, DigestTypeOK
  <2>5. CASE IsMonday
    BY <1>1, <2>3, <2>4, <2>5, DigestConstants DEF OwedInv, OwedIsServed
  <2>6. CASE ~IsMonday
    BY <1>1, <2>6 DEF OwedInv, OwedIsServed, Served
  <2> QED
    BY <2>5, <2>6
<1> QED
  BY <1>1, OwedStarts, OwedStep, PTL DEF MarketSpec, NobodyForgotten

-------------------------------------------------------------------------------
(* What the mail says                                                        *)

LEMMA PctIsAShare ==
  ASSUME NEW p \in Nat, NEW w \in Nat, w > 0, p <= w
  PROVE  Pct(p, w) \in 0..100
<1> DEFINE q == (100 * p) \div w
           r == (100 * p) % w
<1>1. /\ q \in Nat /\ r \in Nat /\ r < w
      /\ 100 * p = q * w + r
  BY Quotient
<1>2. Pct(p, w) = IF 2 * r > w \/ (2 * r = w /\ q % 2 = 1) THEN q + 1 ELSE q
  BY DEF Pct
<1> HIDE DEF q, r
<1>3. q < 101
  <2>1. q * w < 101 * w
    BY <1>1
  <2> QED
    BY <1>1, <2>1, CancelFactor
<1>4. q = 100 => r = 0
  BY <1>1
<1> QED
  BY <1>1, <1>2, <1>3, <1>4

LEMMA PctKeepsOrder ==
  ASSUME NEW a \in Nat, NEW v \in Nat, v > 0, NEW b \in Nat, NEW w \in Nat, w > 0,
         a * w <= b * v
  PROVE  Pct(a, v) <= Pct(b, w)
<1> DEFINE q == (100 * a) \div v
           r == (100 * a) % v
           t == (100 * b) \div w
           s == (100 * b) % w
<1>1. /\ q \in Nat /\ r \in Nat /\ r < v /\ 100 * a = q * v + r
      /\ t \in Nat /\ s \in Nat /\ s < w /\ 100 * b = t * w + s
  BY Quotient
<1>2. /\ Pct(a, v) = IF 2 * r > v \/ (2 * r = v /\ q % 2 = 1) THEN q + 1 ELSE q
      /\ Pct(b, w) = IF 2 * s > w \/ (2 * s = w /\ t % 2 = 1) THEN t + 1 ELSE t
  BY DEF Pct
<1> HIDE DEF q, r, s, t
<1>3. (q * v + r) * w <= (t * w + s) * v
  <2>1. (100 * a) * w = 100 * (a * w) /\ (100 * b) * v = 100 * (b * v)
    OBVIOUS
  <2>2. 100 * (a * w) <= 100 * (b * v)
    OBVIOUS
  <2> QED
    BY <1>1, <2>1, <2>2
<1>4. PICK vw \in Nat : vw = v * w
  OBVIOUS
<1>5. PICK rw \in Nat, sv \in Nat : rw = r * w /\ sv = s * v
  BY <1>1
<1>6. (q * v + r) * w = q * vw + rw /\ (t * w + s) * v = t * vw + sv
  BY <1>1, <1>4, <1>5
<1>7. vw > 0
  BY <1>4
<1>8. rw < vw /\ sv < vw
  BY <1>1, <1>4, <1>5
<1>9. q * vw + rw <= t * vw + sv
  BY <1>3, <1>6
<1>10. q < t + 1
  <2>1. q * vw < (t + 1) * vw
    BY <1>1, <1>7, <1>8, <1>9
  <2> QED
    BY <1>1, <1>7, <2>1, CancelFactor
<1>11. CASE q < t
  BY <1>1, <1>2, <1>11
<1>12. CASE q = t
  <2>1. rw <= sv
    BY <1>1, <1>7, <1>9, <1>12
  <2>2. 2 * r > v => 2 * s > w
    <3>1. SUFFICES ASSUME 2 * r > v PROVE 2 * s > w
      OBVIOUS
    <3>2. 2 * rw > vw
      <4>1. v * w < (2 * r) * w
        BY <3>1, <1>1
      <4> QED
        BY <4>1, <1>1, <1>4, <1>5
    <3>3. w * v < (2 * s) * v
      BY <3>2, <2>1, <1>1, <1>4, <1>5
    <3> QED
      BY <1>1, <3>3, CancelFactor
  <2>3. 2 * r = v => 2 * s >= w
    <3>1. SUFFICES ASSUME 2 * r = v, 2 * s < w PROVE FALSE
      BY <1>1
    <3>2. 2 * rw = vw
      BY <3>1, <1>1, <1>4, <1>5
    <3>3. (2 * s) * v < w * v
      BY <3>1, <1>1
    <3>4. 2 * sv < vw
      BY <3>3, <1>1, <1>4, <1>5
    <3> QED
      BY <3>2, <3>4, <2>1
  <2> QED
    BY <1>1, <1>2, <1>12, <2>2, <2>3
<1> QED
  BY <1>1, <1>10, <1>11, <1>12

\* A share shown above the threshold is above it.
LEMMA ShownIsEnough ==
  ASSUME NEW p \in Nat, NEW w \in Nat, w > 0, NEW m \in Nat, Pct(p, w) > m
  PROVE  100 * p >= m * w
<1> DEFINE q == (100 * p) \div w
           r == (100 * p) % w
<1>1. q \in Nat /\ r \in Nat /\ r < w /\ 100 * p = q * w + r
  BY Quotient
<1>2. Pct(p, w) \in {q, q + 1}
  BY DEF Pct
<1> HIDE DEF q, r
<1>3. m <= q
  BY <1>1, <1>2
<1>4. m * w <= q * w
  BY <1>1, <1>3, ProductsKeepOrder
<1> QED
  BY <1>1, <1>4

-----------------------------------------------------------------------------
Week ==
  {w \in [total : Nat, with : [SkillKeys -> Nat]] :
     w.total > 0 /\ \A k \in SkillKeys : w.with[k] <= w.total}

ContentInv ==
  /\ cvKeys \subseteq SkillKeys
  /\ counts \in Seq(Week) /\ Len(counts) <= WeeksCounted
  /\ \A w \in DOMAIN counts : counts[w].total \in 1..OffersAWeek

LEMMA KeysAreFinite == IsFiniteSet(SkillKeys) /\ SkillKeys \subseteq Nat \ {0}
<1>1. IsFiniteSet({KeyOf[name] : name \in SkillNames})
  BY ContentConstants, FiniteImage
<1> QED
  BY <1>1, ContentConstants, FS_Subset DEF SkillKeys

\* A name counts once in an answer.
LEMMA NamedOnce ==
  ASSUME NEW raw \in RawAnswers, NEW k \in SkillKeys
  PROVE  TimesNamed(raw, k) \in {0, 1}
<1> DEFINE P == {i \in CleanSkills(raw) : KeyOf[raw[i]] = k}
<1>1. DOMAIN raw \subseteq Nat
  BY ContentConstants
<1>2. \A i \in P, j \in P : i = j
  BY <1>1 DEF CleanSkills
<1>3. CASE P = {}
  BY <1>3, FS_EmptySet DEF TimesNamed
<1>4. CASE P # {}
  <2>1. PICK i : i \in P
    BY <1>4
  <2>2. P = {i}
    BY <1>2, <2>1
  <2> QED
    BY <2>2, FS_Singleton DEF TimesNamed
<1> QED
  BY <1>3, <1>4

\* A skill is in some of the offers of the week.
LEMMA TalliesAreWeeks ==
  ASSUME NEW answers \in [RawAnswers -> 0..OffersAWeek], WeekTally(answers).total \in 1..OffersAWeek
  PROVE  WeekTally(answers) \in Week
<1> DEFINE named(k) == [raw \in RawAnswers |-> answers[raw] * TimesNamed(raw, k)]
           total == SumFunctionOnSet(answers, RawAnswers)
<1>1. IsFiniteSet(RawAnswers) /\ OffersAWeek \in Nat
  BY ContentConstants
<1>2. \A raw \in RawAnswers : answers[raw] \in Nat
  BY <1>1
<1>3. total \in Nat
  BY <1>1, <1>2, SumsAdd
<1>4. ASSUME NEW k \in SkillKeys
      PROVE  SumFunctionOnSet(named(k), RawAnswers) \in Nat /\ SumFunctionOnSet(named(k), RawAnswers) <= total
  <2>1. PICK f : f = named(k)
    OBVIOUS
  <2>2. ASSUME NEW raw \in RawAnswers
        PROVE  f[raw] \in Nat /\ answers[raw] \in Nat /\ f[raw] <= answers[raw]
    <3>1. f[raw] = answers[raw] * TimesNamed(raw, k)
      BY <2>1
    <3>2. TimesNamed(raw, k) \in {0, 1}
      BY NamedOnce
    <3> QED
      BY <1>2, <3>1, <3>2
  <2>3. SumFunctionOnSet(f, RawAnswers) \in Nat
    BY <1>1, <2>2, SumsAdd
  <2>4. SumFunctionOnSet(f, RawAnswers) <= SumFunctionOnSet(answers, RawAnswers)
    BY <1>1, <2>2, SumsGrow
  <2> QED
    BY <2>1, <2>3, <2>4
<1>5. WeekTally(answers) = [total |-> total, with |-> [k \in SkillKeys |-> SumFunctionOnSet(named(k), RawAnswers)]]
  BY DEF WeekTally
<1> HIDE DEF named, total
<1>6. total > 0
  BY <1>3, <1>5
<1> QED
  BY <1>3, <1>4, <1>5, <1>6 DEF Week

LEMMA ContentStarts == ContentInit => ContentInv
  BY ContentConstants DEF ContentInit, ContentInv

LEMMA ContentStep == ContentInv /\ [ContentNext]_contentVars => ContentInv'
<1> SUFFICES ASSUME ContentInv, [ContentNext]_contentVars PROVE ContentInv'
  OBVIOUS
<1>1. CASE UNCHANGED contentVars
  BY <1>1 DEF ContentInv, contentVars
<1>2. ASSUME NEW answers \in [RawAnswers -> 0..OffersAWeek], WeekCounted(answers)
      PROVE  ContentInv'
  <2>1. PICK w : w = WeekTally(answers)
    OBVIOUS
  <2>2. w \in Week /\ w.total \in 1..OffersAWeek
    BY <1>2, <2>1, TalliesAreWeeks DEF WeekCounted
  <2>3. counts' = Append(counts, w) /\ Len(counts) < WeeksCounted /\ cvKeys' = cvKeys
    BY <1>2, <2>1 DEF WeekCounted
  <2>4. counts \in Seq(Week) /\ WeeksCounted \in Nat
    BY ContentConstants DEF ContentInv
  <2>5. counts' \in Seq(Week) /\ Len(counts') <= WeeksCounted
    BY <2>2, <2>3, <2>4
  <2>6. \A v \in DOMAIN counts' : counts'[v].total \in 1..OffersAWeek
    BY <2>2, <2>3, <2>4 DEF ContentInv
  <2> QED
    BY <2>3, <2>5, <2>6 DEF ContentInv
<1> QED
  BY <1>1, <1>2 DEF ContentNext

\* The first n of some skills: when one is left out, there are n of them, and
\* none is less asked for than it.
LEMMA FirstAreAhead ==
  ASSUME Latest \in Week, NEW S \in SUBSET SkillKeys, NEW n \in Nat \ {0},
         NEW k \in S, k \notin First(n, S)
  PROVE  /\ \A j \in First(n, S) : Latest.with[j] >= Latest.with[k]
         /\ Cardinality(First(n, S)) = n
<1> DEFINE P(j) == {i \in S : Ahead(i, j)}
           F == First(n, S)
<1>0. PICK place : place = [j \in S |-> Cardinality(P(j))]
  OBVIOUS
<1>1. IsFiniteSet(S) /\ S \subseteq Nat /\ \A j \in S : Latest.with[j] \in Nat
  BY KeysAreFinite, FS_Subset DEF Week
<1>2. \A j \in S : IsFiniteSet(P(j)) /\ place[j] \in Nat
  BY <1>0, <1>1, FS_Subset, FS_CardinalityType
<1>3. F = {j \in S : place[j] < n}
  BY <1>0 DEF First
<1>4. /\ \A i, j \in S : i # j => Ahead(i, j) \/ Ahead(j, i)
      /\ \A i, j, l \in S : Ahead(i, j) /\ Ahead(j, l) => Ahead(i, l)
      /\ \A i \in S : ~Ahead(i, i)
  <2> DEFINE w == Latest.with
  <2>1. \A i \in S : i \in Nat /\ w[i] \in Nat
    BY <1>1
  <2>2. \A i, j : Ahead(i, j) <=> w[i] > w[j] \/ (w[i] = w[j] /\ i < j)
    BY DEF Ahead
  <2> HIDE DEF w
  <2> QED
    BY <2>1, <2>2
<1>5. ASSUME NEW i \in S, NEW j \in S, Ahead(i, j) PROVE place[i] < place[j]
  <2>1. P(i) \subseteq P(j) /\ i \in P(j) /\ i \notin P(i)
    BY <1>4, <1>5
  <2>2. P(i) # P(j)
    BY <2>1
  <2>3. IsFiniteSet(P(j)) /\ place[i] \in Nat /\ place[j] \in Nat
    BY <1>2
  <2>5. place[i] = Cardinality(P(i)) /\ place[j] = Cardinality(P(j))
    BY <1>0
  <2> HIDE DEF P
  <2>4. place[i] <= place[j] /\ place[i] # place[j]
    BY <2>1, <2>2, <2>3, <2>5, FS_Subset
  <2> QED
    BY <2>3, <2>4
<1> HIDE DEF P
<1>6. \A j \in F : Ahead(j, k)
  <2>1. SUFFICES ASSUME NEW j \in F, Ahead(k, j) PROVE FALSE
    BY <1>3, <1>4
  <2>2. place[k] < place[j] /\ place[j] < n
    BY <1>3, <1>5, <2>1
  <2> QED
    BY <1>2, <1>3, <2>1, <2>2
<1>7. \A j \in F : Latest.with[j] >= Latest.with[k]
  <2>1. SUFFICES ASSUME NEW j \in F PROVE Latest.with[j] >= Latest.with[k]
    OBVIOUS
  <2>2. j \in S /\ Ahead(j, k)
    BY <1>3, <1>6, <2>1
  <2>3. Latest.with[j] \in Nat /\ Latest.with[k] \in Nat
    BY <1>1, <2>2
  <2> QED
    BY <2>2, <2>3 DEF Ahead
<1>8. IsFiniteSet(F) /\ Cardinality(F) \in Nat
  BY <1>1, <1>3, FS_Subset, FS_CardinalityType
<1>9. Cardinality(F) >= n
  <2> DEFINE T == {place[j] : j \in S \ F}
  <2>1. T \in SUBSET Nat /\ T # {}
    BY <1>2
  <2>2. PICK t \in T : \A u \in T : t <= u
    BY <2>1, LeastNumber
  <2>3. PICK m \in S \ F : t = place[m]
    BY <2>2
  <2>4. P(m) \subseteq F
    <3>1. SUFFICES ASSUME NEW j \in S \ F, Ahead(j, m) PROVE FALSE
      BY DEF P
    <3>2. place[j] < place[m] /\ place[j] \in T
      BY <1>5, <2>3, <3>1
    <3> QED
      BY <1>2, <2>2, <2>3, <3>2
  <2>5. place[m] <= Cardinality(F)
    BY <1>8, <2>4, <1>0, FS_Subset
  <2> QED
    BY <1>2, <1>3, <1>8, <2>3, <2>5
<1>10. Cardinality(F) <= n
  <2>1. CASE F = {}
    BY <2>1, FS_EmptySet
  <2>2. CASE F # {}
    <3> DEFINE T == {n - place[j] : j \in F}
    <3>1. \A j \in F : n - place[j] \in Nat
      BY <1>2, <1>3
    <3>2. T \in SUBSET Nat /\ T # {}
      BY <2>2, <3>1
    <3>3. PICK t \in T : \A u \in T : t <= u
      BY <3>2, LeastNumber
    <3>4. PICK z \in F : t = n - place[z]
      BY <3>3
    <3>5. F \ {z} \subseteq P(z)
      <4>1. SUFFICES ASSUME NEW j \in F, j # z, ~Ahead(j, z) PROVE FALSE
        BY <1>3 DEF P
      <4>2. Ahead(z, j)
        BY <1>3, <1>4, <4>1
      <4>3. place[z] < place[j]
        BY <1>3, <1>5, <4>2
      <4>4. n - place[z] <= n - place[j]
        BY <3>3, <3>4, <4>1
      <4> QED
        BY <1>2, <1>3, <4>3, <4>4
    <3>6. Cardinality(F \ {z}) <= place[z]
      BY <1>2, <1>3, <3>4, <3>5, <1>0, FS_Subset
    <3>7. Cardinality(F \ {z}) = Cardinality(F) - 1
      BY <1>8, FS_RemoveElement
    <3> QED
      BY <1>2, <1>3, <1>8, <3>6, <3>7
  <2> QED
    BY <2>1, <2>2
<1> QED
  BY <1>7, <1>8, <1>9, <1>10

LEMMA SharesAreShares ==
  ASSUME NEW w \in Week, NEW k \in SkillKeys
  PROVE  ShareIn(w, k) \in 0..100
  BY PctIsAShare DEF ShareIn, Week

LEMMA MoreAskedMoreShown ==
  ASSUME NEW w \in Week, NEW j \in SkillKeys, NEW k \in SkillKeys, w.with[j] >= w.with[k]
  PROVE  ShareIn(w, j) >= ShareIn(w, k)
<1>1. w.with[j] \in Nat /\ w.with[k] \in Nat /\ w.total \in Nat /\ w.total > 0
  BY DEF Week
<1>2. w.with[k] * w.total <= w.with[j] * w.total
  BY <1>1, ProductsKeepOrder
<1>3. Pct(w.with[k], w.total) <= Pct(w.with[j], w.total)
  BY <1>1, <1>2, PctKeepsOrder
<1>4. ShareIn(w, j) \in 0..100 /\ ShareIn(w, k) \in 0..100
  BY SharesAreShares
<1> QED
  BY <1>3, <1>4 DEF ShareIn

\* A skill said to progress does not fall from the last week but one.
LEMMA RisingDoesNotFall ==
  ASSUME ContentInv, NEW k \in Forecasts, k \in SkillKeys, Trend(k) # NoTrend
  PROVE  Trend(k) >= 0
<1> DEFINE first == Max({1, Len(counts) - MinForecast})
           series == SubSeq(counts, first, Len(counts))
           n == Len(counts)
<1>1. counts \in Seq(Week) /\ n \in Nat
  BY DEF ContentInv
<1>3. MinForecast \in Nat \ {0}
  BY ContentConstants
<1>2. n >= MinForecast /\ Rising(series, k) /\ Trend(k) = ShareIn(Latest, k) - ShareIn(counts[n - 1], k)
  <2>1. ~(n < MinForecast) /\ k \in First(2, {j \in Demanded : Rising(series, j)})
    BY DEF Forecasts
  <2>2. Rising(series, k)
    BY <2>1 DEF First
  <2>3. Trend(k) = ShareIn(Latest, k) - ShareIn(counts[n - 1], k)
    BY DEF Trend
  <2> QED
    BY <1>1, <1>3, <2>1, <2>2, <2>3
<1>4. first \in 1..n
  <2>1. PICK a \in Int : a = n - MinForecast
    BY <1>1, <1>3
  <2>2. Max({1, a}) = IF a >= 1 THEN a ELSE 1
    BY <2>1 DEF Max
  <2> QED
    BY <1>1, <1>2, <1>3, <2>1, <2>2
<1> HIDE DEF first
<1>5. Len(series) = n - first + 1 /\ \A i \in 1..Len(series) : series[i] = counts[first + i - 1]
  BY <1>1, <1>4
<1>6. Len(series) > 2 /\ \A w \in 2..Len(series) : Rises(series[w - 1], series[w], k)
  BY <1>2 DEF Rising
<1> HIDE DEF series
<1>7. Rises(counts[n - 1], counts[n], k) /\ n > 2
  <2>1. PICK l \in Nat : l = n - first + 1
    BY <1>1, <1>4
  <2>2. series[l] = counts[n] /\ series[l - 1] = counts[n - 1]
    BY <1>1, <1>4, <1>5, <1>6, <2>1
  <2>3. l > 2 /\ l \in 2..l /\ Rises(series[l - 1], series[l], k)
    BY <1>5, <1>6, <2>1
  <2> QED
    BY <1>1, <1>4, <2>1, <2>2, <2>3
<1>8. counts[n] \in Week /\ counts[n - 1] \in Week
  BY <1>1, <1>7
<1>9. PICK a \in Week, b \in Week : a = counts[n - 1] /\ b = counts[n]
  BY <1>8
<1>10. /\ a.with[k] \in Nat /\ b.with[k] \in Nat /\ a.total \in Nat /\ b.total \in Nat
       /\ a.total > 0 /\ b.total > 0
  BY DEF Week
<1>11. a.with[k] * b.total <= b.with[k] * a.total
  BY <1>7, <1>9, <1>10 DEF Rises
<1>12. Pct(a.with[k], a.total) <= Pct(b.with[k], b.total)
  BY <1>10, <1>11, PctKeepsOrder
<1>13. ShareIn(a, k) \in 0..100 /\ ShareIn(b, k) \in 0..100
  BY SharesAreShares
<1> QED
  <2>1. Trend(k) = ShareIn(b, k) - ShareIn(a, k)
    BY <1>2, <1>9 DEF Latest
  <2>2. ShareIn(a, k) <= ShareIn(b, k)
    BY <1>12 DEF ShareIn
  <2> QED
    BY <1>13, <2>1, <2>2

LEMMA ContentAgrees == ContentInv => DigestAgrees
<1> SUFFICES ASSUME ContentInv, counts # << >> PROVE DigestAgrees
  BY DEF DigestAgrees
<1> DEFINE n == Len(counts)
<1>1. counts \in Seq(Week) /\ n \in Nat \ {0}
  BY DEF ContentInv
<1>2. Latest \in Week
  BY <1>1 DEF Latest
<1>3. /\ {TopSkills, EvolutionSkills, ActionItems} \subseteq Nat \ {0}
      /\ EvolutionSkills <= TopSkills /\ MinShare \in Nat
  BY ContentConstants
<1>4. First(TopSkills, Demanded) \subseteq SkillKeys
  BY DEF First, Demanded
<1>5. ASSUME NEW k \in SkillKeys
      PROVE  ShareIn(Latest, k) \in 0..100 /\ (Trend(k) # NoTrend => Trend(k) \in -100..100)
  <2>1. ShareIn(Latest, k) \in 0..100
    BY <1>2, SharesAreShares
  <2>2. ASSUME n >= 2 PROVE ShareIn(counts[n - 1], k) \in 0..100
    <3>1. counts[n - 1] \in Week
      BY <1>1, <2>2
    <3> QED
      BY <3>1, SharesAreShares
  <2>3. SUFFICES ASSUME Trend(k) # NoTrend PROVE Trend(k) \in -100..100
    BY <2>1
  <2>4. n >= 2 /\ Trend(k) = ShareIn(Latest, k) - ShareIn(counts[n - 1], k)
    BY <1>1, <2>3 DEF Trend
  <2>5. \A i, j \in 0..100 : i - j \in -100..100
    OBVIOUS
  <2> QED
    BY <2>1, <2>2, <2>4, <2>5
<1>6. \A r \in Top : r.share <= 100 /\ (r.trend # NoTrend => r.trend \in -100..100)
  <2>1. SUFFICES ASSUME NEW k \in First(TopSkills, Demanded)
                PROVE  Row(k).share <= 100 /\ (Row(k).trend # NoTrend => Row(k).trend \in -100..100)
    BY DEF Top
  <2>2. ShareIn(Latest, k) \in 0..100 /\ (Trend(k) # NoTrend => Trend(k) \in -100..100)
    BY <1>4, <1>5
  <2>3. Row(k).share = ShareIn(Latest, k) /\ Row(k).trend = Trend(k)
    BY DEF Row
  <2>4. \A share \in 0..100 : share <= 100
    OBVIOUS
  <2> QED
    BY <2>2, <2>3, <2>4, Zenon
<1>7. ASSUME NEW e \in Evolution
      PROVE  \E r \in Top : r.key = e.key /\ r.share = e.points[n]
  <2>1. PICK k \in First(EvolutionSkills, Demanded) : e = Curve(k)
    BY <1>7 DEF Evolution
  <2>2. k \in First(TopSkills, Demanded)
    <3>1. IsFiniteSet({j \in Demanded : Ahead(j, k)})
      BY KeysAreFinite, FS_Subset DEF Demanded
    <3>2. PICK c \in Nat : c = Cardinality({j \in Demanded : Ahead(j, k)})
      BY <3>1, FS_CardinalityType
    <3>3. c < EvolutionSkills /\ k \in Demanded
      BY <2>1, <3>2 DEF First
    <3>4. c < TopSkills
      BY <1>3, <3>3
    <3> QED
      BY <3>2, <3>3, <3>4 DEF First
  <2>3. Row(k) \in Top /\ Row(k).key = e.key /\ Row(k).share = e.points[n]
    BY <1>1, <2>1, <2>2 DEF Top, Row, Curve, Latest
  <2> QED
    BY <2>3
<1>8. \A r \in Top : r.key \in Actions => ~r.inCv
  <2>1. SUFFICES ASSUME NEW k \in First(TopSkills, Demanded), Row(k).key \in Actions
                PROVE  ~Row(k).inCv
    BY DEF Top
  <2>2. k \in Wanted
    BY <2>1 DEF Row, Actions, First
  <2> QED
    BY <2>2 DEF Wanted, Row
<1>9. ASSUME NEW r \in Top, ~r.inCv, r.share > MinShare, r.key \notin Actions
      PROVE  Cardinality(Actions) = ActionItems /\ \A k \in Actions : ShareIn(Latest, k) >= r.share
  <2>1. PICK j \in First(TopSkills, Demanded) : r = Row(j)
    BY <1>9 DEF Top
  <2>2. j \in Demanded /\ j \in SkillKeys /\ j \notin cvKeys /\ j \notin Actions
    BY <1>9, <2>1 DEF Row, First, Demanded
  <2>3. Latest.with[j] \in Nat /\ Latest.total \in Nat /\ Latest.total > 0
    BY <1>2, <2>2 DEF Week
  <2>4. Pct(Latest.with[j], Latest.total) > MinShare
    BY <1>9, <2>1 DEF Row, ShareIn
  <2>5. EnoughAsked(j)
    BY <1>3, <2>3, <2>4, ShownIsEnough DEF EnoughAsked
  <2>6. Wanted \in SUBSET SkillKeys /\ j \in Wanted
    BY <2>2, <2>5 DEF Wanted, Demanded
  <2>7. /\ \A k \in Actions : Latest.with[k] >= Latest.with[j]
        /\ Cardinality(Actions) = ActionItems
    BY <1>2, <1>3, <2>2, <2>6, FirstAreAhead DEF Actions
  <2>8. Actions \subseteq SkillKeys
    BY <2>6 DEF Actions, First
  <2>9. \A k \in Actions : ShareIn(Latest, k) >= ShareIn(Latest, j)
    BY <1>2, <2>2, <2>7, <2>8, MoreAskedMoreShown
  <2> QED
    BY <2>1, <2>7, <2>9 DEF Row
<1>10. ASSUME NEW r \in Top, r.key \in Forecasts, r.trend # NoTrend PROVE r.trend >= 0
  <2>1. PICK k \in First(TopSkills, Demanded) : r = Row(k)
    BY <1>10 DEF Top
  <2>2. k \in Forecasts /\ k \in SkillKeys /\ Trend(k) # NoTrend
    BY <1>4, <1>10, <2>1 DEF Row
  <2> QED
    BY <2>1, <2>2, RisingDoesNotFall DEF Row
<1> QED
  BY <1>6, <1>7, <1>8, <1>9, <1>10 DEF DigestAgrees

LEMMA ContentTyped == ContentInv => ContentTypeOK
  BY DEF ContentInv, ContentTypeOK

THEOREM DigestTellsOneStory == ContentSpec => []DigestAgrees
  BY ContentStarts, ContentStep, ContentAgrees, PTL DEF ContentSpec
===============================================================================
