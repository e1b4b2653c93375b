----------------------------- MODULE OffersProofs -----------------------------
(***************************************************************************)
(* The components that work on the pool of offers: the crawl, the import, the*)
(* filter of the preferences, seniority, the regret index and the labels;    *)
(* then the eight of them side by side, which have the properties of each.   *)
(***************************************************************************)
EXTENDS Offers, MarketProofs, SequenceTheorems

-------------------------------------------------------------------------------
(* The full crawl forgets no offer                                           *)

SliceSet == [kind : {"slice", "page"}, lo : Int, hi : Int, dept : Departements \cup {France},
             from : Int, to : Int]

(* What is ahead, set down or reported, as far as the types go.                *)
CrawlShape ==
  /\ DOMAIN online \subseteq Ads
  /\ online \in [DOMAIN online -> (Window[1]..Window[2]) \X (Departements \cup {Abroad})]
  /\ slices \in Seq(SliceSet)
  /\ attempt \in 0..(PageAttempts - 1)
  /\ fetched \subseteq Ads
  /\ withdrawn \in Nat

(* Where an offer of the window is, at any time of a crawl.                    *)
Accounted(a) ==
  \/ a \in fetched
  \/ \E n \in DOMAIN slices : a \in Listed(slices[n])
  \/ CoveredBy(setDown, a)
  \/ CoveredBy(overCap, a)
  \/ CoveredBy(untold, a)
  \/ online[a][2] = Abroad /\ Cardinality(DOMAIN online) > MaxPerSearch

CrawlInv == CrawlShape /\ (withdrawn = 0 => \A a \in DOMAIN online : Accounted(a))

\* A finite set put in a sequence has every element in it.
LEMMA SeqOfSet ==
  ASSUME NEW S, IsFiniteSet(S)
  PROVE  SetToSeq(S) \in Seq(S) /\ \A x \in S : \E n \in DOMAIN SetToSeq(S) : SetToSeq(S)[n] = x
<1>1. PICK k : k = Cardinality(S)
  OBVIOUS
<1>2. k \in Nat /\ ExistsBijection(1..k, S)
  BY <1>1, FS_CardinalityType
<1>3. PICK g \in [1..k -> S] : IsInjective(g)
  BY <1>2 DEF ExistsBijection, Bijection, Injection
<1>4. PICK f : f = SetToSeq(S)
  OBVIOUS
<1>5. f \in [1..k -> S] /\ IsInjective(f)
  BY <1>1, <1>3, <1>4 DEF SetToSeq
<1>6. f \in Injection(1..k, S)
  BY <1>5 DEF Injection
<1>7. IsFiniteSet(1..k) /\ Cardinality(1..k) = Cardinality(S)
  BY <1>1, <1>2, FS_Interval
<1>8. f \in Surjection(1..k, S)
  BY <1>6, <1>7, FS_SurjSameCardinalityImpliesInj, FS_Injection
<1>9. f \in Seq(S) /\ DOMAIN f = 1..k
  BY <1>2, <1>5
<1> QED
  BY <1>4, <1>8, <1>9 DEF Surjection

\* The offers of a slice are finitely many, ranked from one.
LEMMA EveryoneRanked ==
  ASSUME DOMAIN online \subseteq Ads, NEW s
  PROVE  /\ IsFiniteSet(Found(s)) /\ Cardinality(Found(s)) \in Nat
         /\ Cardinality(DOMAIN online) \in Nat
         /\ Cardinality(Found(s)) <= Cardinality(DOMAIN online)
         /\ \A a \in Found(s) : Rank(s, a) \in 1..Cardinality(Found(s))
<1>1. IsFiniteSet(DOMAIN online) /\ Cardinality(DOMAIN online) \in Nat
  BY CrawlConstants, FS_Subset, FS_CardinalityType
<1>2. Found(s) \subseteq DOMAIN online
  BY DEF Found
<1>3. /\ IsFiniteSet(Found(s)) /\ Cardinality(Found(s)) \in Nat
      /\ Cardinality(Found(s)) <= Cardinality(DOMAIN online)
  BY <1>1, <1>2, FS_Subset, FS_CardinalityType
<1>4. ASSUME NEW a \in Found(s) PROVE Rank(s, a) \in 1..Cardinality(Found(s))
  <2>1. PICK upTo : upTo = {b \in Found(s) : b <= a}
    OBVIOUS
  <2>2. a \in Nat
    BY <1>2, CrawlConstants
  <2>3. a \in upTo /\ upTo \subseteq Found(s)
    BY <2>1, <2>2
  <2>4. IsFiniteSet(upTo) /\ Cardinality(upTo) \in Nat /\ Cardinality(upTo) <= Cardinality(Found(s))
    BY <1>3, <2>3, FS_Subset, FS_CardinalityType
  <2>5. Cardinality(upTo) # 0
    BY <2>3, <2>4, FS_EmptySet
  <2> QED
    BY <1>3, <2>1, <2>4, <2>5 DEF Rank
<1> QED
  BY <1>1, <1>3, <1>4

\* Every rank a search tells is on one of the pages.
LEMMA EveryRankHasAPage ==
  ASSUME NEW listing \in Nat, NEW r \in 1..listing, listing <= MaxPerSearch, NEW s
  PROVE  \E n \in DOMAIN Pages(s, listing) : \E from, to \in Nat :
           Pages(s, listing)[n] = PageOf(s, from, to) /\ r \in from..to
<1>1. PICK P : P = PageSize
  OBVIOUS
<1>2. P \in Nat \ {0} /\ MaxPerSearch \in Nat
  BY <1>1, CrawlConstants
<1>3. PICK q : q = (r - 1) \div P
  OBVIOUS
<1>4. q \in Nat /\ P * q <= r - 1 /\ r - 1 < P * q + P
  BY <1>2, <1>3
<1>5. PICK count : count = (listing + P - 1) \div P
  OBVIOUS
<1>6. count \in Nat /\ P * count <= listing + P - 1 /\ listing + P - 1 < P * count + P
  BY <1>2, <1>5
<1>7. q < count
  BY <1>2, <1>4, <1>6
<1>8. PICK n : n = q + 1
  OBVIOUS
<1>9. n \in 1..count /\ (n - 1) * P = P * q /\ n * P = P * q + P
  BY <1>2, <1>4, <1>6, <1>7, <1>8
<1>10. PICK to : to = IF n * P < listing THEN n * P ELSE listing
  OBVIOUS
<1>11. (n - 1) * P + 1 \in Nat /\ to \in Nat /\ (n - 1) * P + 1 <= r /\ r <= to
  BY <1>2, <1>4, <1>9, <1>10
<1>12. (IF listing < MaxPerSearch THEN listing ELSE MaxPerSearch) = listing
  BY <1>2
<1>13. PICK pages : pages = [m \in 1..count |-> PageOf(s, (m - 1) * P + 1, IF m * P < listing THEN m * P ELSE listing)]
  OBVIOUS
<1>14. Pages(s, listing) = pages
  BY <1>1, <1>5, <1>12, <1>13 DEF Pages
<1>15. n \in DOMAIN pages /\ pages[n] = PageOf(s, (n - 1) * P + 1, to)
  BY <1>9, <1>10, <1>13
<1> QED
  BY <1>11, <1>14, <1>15

LEMMA PagesAreSlices ==
  ASSUME NEW listing \in Nat, NEW s \in SliceSet
  PROVE  Pages(s, listing) \in Seq(SliceSet)
<1>1. PICK last : last = IF listing < MaxPerSearch THEN listing ELSE MaxPerSearch
  OBVIOUS
<1>2. PICK count : count = (last + PageSize - 1) \div PageSize
  OBVIOUS
<1>3. last \in Nat /\ PageSize \in Nat \ {0}
  BY <1>1, CrawlConstants
<1>4. count \in Nat
  BY <1>2, <1>3
<1>5. \A n \in 1..count :
        PageOf(s, (n - 1) * PageSize + 1, IF n * PageSize < last THEN n * PageSize ELSE last) \in SliceSet
  <2>1. ASSUME NEW from \in Int, NEW to \in Int PROVE PageOf(s, from, to) \in SliceSet
    BY DEF PageOf, SliceSet
  <2>2. \A n \in 1..count :
          (n - 1) * PageSize + 1 \in Int /\ (IF n * PageSize < last THEN n * PageSize ELSE last) \in Int
    BY <1>3, <1>4
  <2> QED
    BY <2>1, <2>2
<1>6. PICK pages : pages = [n \in 1..count |->
        PageOf(s, (n - 1) * PageSize + 1, IF n * PageSize < last THEN n * PageSize ELSE last)]
  OBVIOUS
<1>7. Pages(s, listing) = pages
  BY <1>1, <1>2, <1>6 DEF Pages
<1>8. pages \in [1..count -> SliceSet]
  BY <1>5, <1>6
<1> QED
  BY <1>4, <1>7, <1>8

\* Cut by département, in two or by page, a slice keeps the offers it held.
LEMMA CutsKeepOffers ==
  ASSUME CrawlShape, NEW s \in SliceSet
  PROVE  /\ SubSlices(s) \in Seq(SliceSet)
         /\ \A a \in Found(s) :
              \/ s.kind # "slice"
              \/ \E n \in DOMAIN SubSlices(s) : a \in Listed(SubSlices(s)[n])
              \/ OverCap(s) /\ s.dept # France /\ ~Cuttable(s)
              \/ online[a][2] = Abroad /\ Cardinality(DOMAIN online) > MaxPerSearch
<1>1. PICK listing : listing = Cardinality(Found(s))
  OBVIOUS
<1>2. /\ listing \in Nat /\ Cardinality(DOMAIN online) \in Nat /\ listing <= Cardinality(DOMAIN online)
      /\ \A a \in Found(s) : Rank(s, a) \in 1..listing
  BY <1>1, EveryoneRanked DEF CrawlShape
<1>3. MaxPerSearch \in Nat
  BY CrawlConstants
<1>4. OverCap(s) <=> listing > MaxPerSearch
  BY <1>1 DEF OverCap
<1>5. \A a \in Found(s) : /\ a \in DOMAIN online /\ s.lo <= online[a][1] /\ online[a][1] <= s.hi
                          /\ s.dept \in {France, online[a][2]}
                          /\ online[a][1] \in Int /\ online[a][2] \in Departements \cup {Abroad}
  BY CrawlConstants DEF Found, CrawlShape
<1>6. s.lo \in Int /\ s.hi \in Int
  BY DEF SliceSet
<1>7. CASE ~OverCap(s)
  <2>1. SubSlices(s) = Pages(s, listing)
    BY <1>1, <1>7 DEF SubSlices
  <2>2. ASSUME NEW a \in Found(s) PROVE \E n \in DOMAIN SubSlices(s) : a \in Listed(SubSlices(s)[n])
    <3>1. listing <= MaxPerSearch /\ Rank(s, a) \in 1..listing
      BY <1>2, <1>3, <1>4, <1>7
    <3>2. PICK n \in DOMAIN Pages(s, listing) : \E from, to \in Nat :
             Pages(s, listing)[n] = PageOf(s, from, to) /\ Rank(s, a) \in from..to
      BY <1>2, <3>1, EveryRankHasAPage
    <3>3. PICK from \in Nat, to \in Nat : Pages(s, listing)[n] = PageOf(s, from, to) /\ Rank(s, a) \in from..to
      BY <3>2
    <3>4. PICK page : page = PageOf(s, from, to)
      OBVIOUS
    <3>5. /\ page.kind = "page" /\ page.lo = s.lo /\ page.hi = s.hi /\ page.dept = s.dept
          /\ page.from = from /\ page.to = to
      BY <3>4 DEF PageOf, SliceSet
    <3>6. Found(page) = Found(s)
      BY <3>5 DEF Found
    <3>7. Rank(page, a) = Rank(s, a)
      BY <3>6 DEF Rank
    <3>8. a \in Listed(page)
      BY <3>3, <3>5, <3>6, <3>7 DEF Listed
    <3> QED
      BY <2>1, <3>3, <3>4, <3>8
  <2> QED
    BY <1>2, <2>1, <2>2, PagesAreSlices
<1>8. CASE OverCap(s) /\ s.dept = France
  <2>1. PICK S : S = {Slice(s.lo, s.hi, e) : e \in Departements}
    OBVIOUS
  <2>2. IsFiniteSet(S)
    <3>1. PICK f : f = [e \in Departements |-> Slice(s.lo, s.hi, e)]
      OBVIOUS
    <3>2. f \in Surjection(Departements, S)
      BY <2>1, <3>1 DEF Surjection
    <3> QED
      BY <3>2, FS_Surjection, CrawlConstants
  <2>3. S \subseteq SliceSet
    BY <1>6, <2>1 DEF Slice, SliceSet
  <2>4. SubSlices(s) = SetToSeq(S)
    BY <1>8, <2>1 DEF SubSlices
  <2>5. SetToSeq(S) \in Seq(S) /\ \A x \in S : \E n \in DOMAIN SetToSeq(S) : SetToSeq(S)[n] = x
    BY <2>2, SeqOfSet
  <2>6. SubSlices(s) \in Seq(SliceSet)
    BY <2>3, <2>4, <2>5
  <2>7. ASSUME NEW a \in Found(s)
        PROVE  \/ \E n \in DOMAIN SubSlices(s) : a \in Listed(SubSlices(s)[n])
               \/ online[a][2] = Abroad /\ Cardinality(DOMAIN online) > MaxPerSearch
    <3>1. PICK d \in Departements \cup {Abroad} : d = online[a][2]
      BY <1>5
    <3>2. CASE d = Abroad
      BY <1>2, <1>3, <1>4, <1>8, <3>1, <3>2
    <3>3. CASE d \in Departements
      <4>1. PICK half : half = Slice(s.lo, s.hi, d)
        OBVIOUS
      <4>2. a \in Listed(half)
        BY <1>5, <3>1, <4>1 DEF Listed, Found, Slice
      <4>3. \E n \in DOMAIN SubSlices(s) : SubSlices(s)[n] = half
        BY <2>1, <2>4, <2>5, <3>3, <4>1
      <4> QED
        BY <4>2, <4>3
    <3> QED
      BY <3>2, <3>3
  <2> QED
    BY <2>6, <2>7
<1>9. CASE OverCap(s) /\ s.dept # France /\ Cuttable(s)
  <2>1. PICK mid : mid = Middle(s)
    OBVIOUS
  <2>2. mid \in Int
    BY <1>6, <2>1 DEF Middle
  <2>3. PICK first : first = [s EXCEPT !.hi = mid]
    OBVIOUS
  <2>4. PICK second : second = [s EXCEPT !.lo = mid + 1]
    OBVIOUS
  <2>5. first \in SliceSet /\ second \in SliceSet
    BY <2>2, <2>3, <2>4 DEF SliceSet
  <2>6. SubSlices(s) = <<first, second>>
    BY <1>9, <2>1, <2>3, <2>4 DEF SubSlices, Halves
  <2>7. SubSlices(s) \in Seq(SliceSet) /\ 1 \in DOMAIN SubSlices(s) /\ 2 \in DOMAIN SubSlices(s)
        /\ SubSlices(s)[1] = first /\ SubSlices(s)[2] = second
    BY <2>5, <2>6
  <2>8. /\ first.kind = s.kind /\ first.lo = s.lo /\ first.hi = mid /\ first.dept = s.dept
        /\ second.kind = s.kind /\ second.lo = mid + 1 /\ second.hi = s.hi /\ second.dept = s.dept
    BY <2>3, <2>4 DEF SliceSet
  <2>9. ASSUME NEW a \in Found(s), s.kind = "slice" PROVE a \in Listed(first) \/ a \in Listed(second)
    BY <1>5, <1>6, <2>2, <2>8, <2>9 DEF Listed, Found
  <2> QED
    BY <2>7, <2>9
<1>10. CASE OverCap(s) /\ s.dept # France /\ ~Cuttable(s)
  BY <1>1, <1>2, <1>10, PagesAreSlices DEF SubSlices
<1> QED
  BY <1>7, <1>8, <1>9, <1>10

\* The steps of the queue.
LEMMA QueueGoesOn ==
  ASSUME CrawlShape, Asking, NEW more \in Seq(SliceSet), GoesOn(more)
  PROVE  /\ slices' \in Seq(SliceSet)
         /\ \A n \in DOMAIN more : \E m \in DOMAIN slices' : slices'[m] = more[n]
         /\ \A n \in DOMAIN slices : slices[n] = Current \/ \E m \in DOMAIN slices' : slices'[m] = slices[n]
<1>1. slices \in Seq(SliceSet) /\ slices # <<>>
  BY DEF CrawlShape, Asking
<1>2. PICK rest : rest = Tail(slices)
  OBVIOUS
<1>3. rest \in Seq(SliceSet) /\ Len(rest) = Len(slices) - 1 /\ \A n \in 1..Len(rest) : rest[n] = slices[n + 1]
  BY <1>1, <1>2
<1>4. slices' = more \o rest
  BY <1>2 DEF GoesOn
<1>5. /\ slices' \in Seq(SliceSet) /\ Len(slices') = Len(more) + Len(rest)
      /\ \A n \in 1..Len(more) : slices'[n] = more[n]
      /\ \A n \in 1..Len(rest) : slices'[Len(more) + n] = rest[n]
  <2>1. ASSUME NEW n \in 1..Len(rest) PROVE slices'[Len(more) + n] = rest[n]
    BY <1>3, <1>4, ConcatProperties
  <2>2. ASSUME NEW n \in 1..Len(more) PROVE slices'[n] = more[n]
    BY <1>3, <1>4, ConcatProperties
  <2>3. slices' \in Seq(SliceSet) /\ Len(slices') = Len(more) + Len(rest)
    BY <1>3, <1>4, ConcatProperties
  <2> QED
    BY <2>1, <2>2, <2>3
<1>6. DOMAIN slices' = 1..Len(slices') /\ DOMAIN more = 1..Len(more) /\ DOMAIN slices = 1..Len(slices)
      /\ Len(more) \in Nat /\ Len(slices) \in Nat
  BY <1>1, <1>5
<1>7. ASSUME NEW n \in DOMAIN more PROVE \E m \in DOMAIN slices' : slices'[m] = more[n]
  <2>1. Len(rest) \in Nat
    BY <1>3
  <2>2. n \in DOMAIN slices' /\ slices'[n] = more[n]
    BY <1>5, <1>6, <2>1
  <2> QED
    BY <2>2
<1>8. ASSUME NEW n \in DOMAIN slices, slices[n] # Current PROVE \E m \in DOMAIN slices' : slices'[m] = slices[n]
  <2>1. n # 1
    BY <1>1, <1>8 DEF Current
  <2>2. n - 1 \in 1..Len(rest) /\ rest[n - 1] = slices[n]
    BY <1>3, <1>6, <2>1
  <2>3. Len(more) + (n - 1) \in DOMAIN slices' /\ slices'[Len(more) + (n - 1)] = slices[n]
    BY <1>5, <1>6, <2>2
  <2> QED
    BY <2>3
<1> QED
  BY <1>5, <1>7, <1>8

LEMMA CrawlStarts == CrawlInit => CrawlInv
<1> SUFFICES ASSUME CrawlInit PROVE CrawlInv
  OBVIOUS
<1>1. PICK whole : whole = Slice(Window[1], Window[2], France)
  OBVIOUS
<1>2. whole \in SliceSet
  BY <1>1, CrawlConstants DEF Slice, SliceSet
<1>3. DOMAIN online = Ads /\ online \in [Ads -> (Window[1]..Window[2]) \X (Departements \cup {Abroad})]
  BY DEF CrawlInit
<1>4. slices = <<whole>>
  BY <1>1 DEF CrawlInit
<1>5. CrawlShape
  BY <1>2, <1>3, <1>4, CrawlConstants DEF CrawlInit, CrawlShape
<1>6. ASSUME NEW a \in DOMAIN online PROVE Accounted(a)
  <2>1. online[a][1] \in Window[1]..Window[2]
    BY <1>3
  <2>2. a \in Found(whole)
    BY <1>1, <2>1, CrawlConstants DEF Found, Slice
  <2>3. a \in Listed(whole)
    BY <1>1, <2>2 DEF Listed, Slice
  <2> QED
    BY <1>4, <2>3 DEF Accounted
<1> QED
  BY <1>5, <1>6 DEF CrawlInv

\* A queue that loses at most its head, once this is set down, fetched, reported or cut.
LEMMA HeadIsAccounted ==
  ASSUME CrawlInv, Asking, UNCHANGED <<online, withdrawn>>,
         fetched \subseteq fetched', setDown \subseteq setDown', overCap \subseteq overCap', untold \subseteq untold',
         NEW more \in Seq(SliceSet), GoesOn(more),
         \A a \in DOMAIN online : a \in Listed(Current) =>
            \/ \E n \in DOMAIN more : a \in Listed(more[n])
            \/ Current \in setDown' \cup overCap' \cup untold' \/ a \in fetched'
            \/ online[a][2] = Abroad /\ Cardinality(DOMAIN online) > MaxPerSearch
  PROVE  /\ slices' \in Seq(SliceSet)
         /\ (withdrawn' = 0 => \A a \in DOMAIN online' : (Accounted(a))')
<1>1. \A s : Listed(s)' = Listed(s)
  BY DEF Listed, Found, Rank
<1>2. /\ slices' \in Seq(SliceSet)
      /\ \A n \in DOMAIN more : \E m \in DOMAIN slices' : slices'[m] = more[n]
      /\ \A n \in DOMAIN slices : slices[n] = Current \/ \E m \in DOMAIN slices' : slices'[m] = slices[n]
  BY QueueGoesOn DEF CrawlInv
<1>3. ASSUME withdrawn' = 0, NEW a \in DOMAIN online' PROVE (Accounted(a))'
  <2>1. a \in DOMAIN online /\ Accounted(a)
    BY <1>3 DEF CrawlInv
  <2>2. CASE a \in Listed(Current)
    <3>1. CASE \E n \in DOMAIN more : a \in Listed(more[n])
      BY <1>1, <1>2, <3>1 DEF Accounted
    <3>2. CASE Current \in setDown' \cup overCap' \cup untold'
      BY <1>1, <2>2, <3>2 DEF Accounted, CoveredBy
    <3>3. CASE a \in fetched'
      BY <3>3 DEF Accounted
    <3>4. CASE online[a][2] = Abroad /\ Cardinality(DOMAIN online) > MaxPerSearch
      BY <3>4 DEF Accounted
    <3> QED
      BY <2>1, <2>2, <3>1, <3>2, <3>3, <3>4
  <2>3. CASE a \notin Listed(Current)
    <3>1. CASE \E n \in DOMAIN slices : a \in Listed(slices[n])
      BY <1>1, <1>2, <2>3, <3>1 DEF Accounted
    <3>2. CASE CoveredBy(setDown, a) \/ CoveredBy(overCap, a) \/ CoveredBy(untold, a)
      BY <1>1, <3>2 DEF Accounted, CoveredBy
    <3>3. CASE a \in fetched \/ (online[a][2] = Abroad /\ Cardinality(DOMAIN online) > MaxPerSearch)
      BY <3>3 DEF Accounted
    <3> QED
      BY <2>1, <3>1, <3>2, <3>3 DEF Accounted
  <2> QED
    BY <2>2, <2>3
<1> QED
  BY <1>2, <1>3

LEMMA CrawlStep ==
  ASSUME CrawlInv, [CrawlNext]_crawlVars
  PROVE  CrawlInv'
<1>1. \A s : UNCHANGED online => Listed(s)' = Listed(s)
  BY DEF Listed, Found, Rank
<1>2. <<>> \in Seq(SliceSet)
  OBVIOUS
<1>3. ASSUME Asking PROVE Current \in SliceSet
  BY <1>3 DEF CrawlInv, CrawlShape, Asking, Current
<1>4. CASE CallFails
  <2>1. CASE attempt + 1 < PageAttempts
    <3>1. attempt' = attempt + 1 /\ UNCHANGED <<online, slices, fetched, setDown, overCap, withdrawn, untold>>
      BY <1>4, <2>1 DEF CallFails
    <3>2. CrawlShape'
      BY <2>1, <3>1, CrawlConstants DEF CrawlInv, CrawlShape
    <3>3. \A a : (Accounted(a))' <=> Accounted(a)
      BY <1>1, <3>1 DEF Accounted, CoveredBy
    <3> QED
      BY <3>1, <3>2, <3>3 DEF CrawlInv
  <2>2. CASE ~(attempt + 1 < PageAttempts)
    <3>1. /\ Asking /\ setDown' = setDown \cup {Current} /\ GoesOn(<<>>)
          /\ UNCHANGED <<online, fetched, overCap, withdrawn, untold>>
      BY <1>4, <2>2 DEF CallFails
    <3>2. slices' \in Seq(SliceSet) /\ (withdrawn' = 0 => \A a \in DOMAIN online' : (Accounted(a))')
      BY <1>2, <3>1, HeadIsAccounted
    <3> QED
      BY <3>1, <3>2, CrawlConstants DEF CrawlInv, CrawlShape, GoesOn
  <2> QED
    BY <2>1, <2>2
<1>5. CASE CallRefused
  <2>1. /\ Asking /\ setDown' = setDown \cup {Current} /\ GoesOn(<<>>)
        /\ UNCHANGED <<online, fetched, overCap, withdrawn, untold>>
    BY <1>5 DEF CallRefused
  <2>2. slices' \in Seq(SliceSet) /\ (withdrawn' = 0 => \A a \in DOMAIN online' : (Accounted(a))')
    BY <1>2, <2>1, HeadIsAccounted
  <2> QED
    BY <2>1, <2>2, CrawlConstants DEF CrawlInv, CrawlShape, GoesOn
<1>6. CASE AskTotal
  <2>1. /\ Asking /\ Current.kind = "slice" /\ overCap \subseteq overCap'
        /\ UNCHANGED <<online, fetched, setDown, withdrawn, untold>>
    BY <1>6 DEF AskTotal
  <2>2. SubSlices(Current) \in Seq(SliceSet) /\ GoesOn(SubSlices(Current))
    BY <1>3, <1>6, <2>1, CutsKeepOffers DEF AskTotal, CrawlInv
  <2>3. Listed(Current) = Found(Current)
    BY <2>1 DEF Listed
  <2>4. ASSUME NEW a \in DOMAIN online, a \in Listed(Current)
        PROVE  \/ \E n \in DOMAIN SubSlices(Current) : a \in Listed(SubSlices(Current)[n])
               \/ Current \in setDown' \cup overCap'
               \/ online[a][2] = Abroad /\ Cardinality(DOMAIN online) > MaxPerSearch
    <3>1. \/ \E n \in DOMAIN SubSlices(Current) : a \in Listed(SubSlices(Current)[n])
          \/ OverCap(Current) /\ Current.dept # France /\ ~Cuttable(Current)
          \/ online[a][2] = Abroad /\ Cardinality(DOMAIN online) > MaxPerSearch
      BY <1>3, <2>1, <2>3, <2>4, CutsKeepOffers DEF CrawlInv
    <3>2. OverCap(Current) /\ Current.dept # France /\ ~Cuttable(Current) => Current \in overCap'
      BY <1>6 DEF AskTotal
    <3> QED
      BY <3>1, <3>2
  <2>5. slices' \in Seq(SliceSet) /\ (withdrawn' = 0 => \A a \in DOMAIN online' : (Accounted(a))')
    BY <2>1, <2>2, <2>4, HeadIsAccounted
  <2> QED
    BY <2>1, <2>2, <2>5, CrawlConstants DEF CrawlInv, CrawlShape, GoesOn
<1>7. CASE AskPage
  <2>1. /\ Asking /\ fetched' = fetched \cup Listed(Current) /\ GoesOn(<<>>)
        /\ UNCHANGED <<online, setDown, overCap, withdrawn, untold>>
    BY <1>7 DEF AskPage
  <2>2. slices' \in Seq(SliceSet) /\ (withdrawn' = 0 => \A a \in DOMAIN online' : (Accounted(a))')
    BY <1>2, <2>1, HeadIsAccounted
  <2>3. Listed(Current) \subseteq Ads
    BY DEF Listed, Found, CrawlInv, CrawlShape
  <2> QED
    BY <2>1, <2>2, <2>3, CrawlConstants DEF CrawlInv, CrawlShape, GoesOn
<1>8. CASE \E a \in Ads : TakenDown(a)
  <2>1. PICK a \in Ads : TakenDown(a)
    BY <1>8
  <2>2. /\ withdrawn' = withdrawn + 1 /\ online' = [b \in DOMAIN online \ {a} |-> online[b]]
        /\ UNCHANGED <<slices, attempt, fetched>>
    BY <2>1 DEF TakenDown
  <2> QED
    BY <2>2 DEF CrawlInv, CrawlShape
<1>9. CASE UNCHANGED crawlVars
  <2>1. UNCHANGED <<online, slices, attempt, fetched, setDown, overCap, withdrawn, untold>>
    BY <1>9 DEF crawlVars
  <2>2. \A a : (Accounted(a))' <=> Accounted(a)
    BY <1>1, <2>1 DEF Accounted, CoveredBy
  <2> QED
    BY <2>1, <2>2 DEF CrawlInv, CrawlShape
<1>10. CASE TotalMissing
  <2>1. /\ Asking /\ untold' = untold \cup {Current} /\ GoesOn(<<>>)
        /\ UNCHANGED <<online, fetched, setDown, overCap, withdrawn>>
    BY <1>10 DEF TotalMissing
  <2>2. slices' \in Seq(SliceSet) /\ (withdrawn' = 0 => \A a \in DOMAIN online' : (Accounted(a))')
    BY <1>2, <2>1, HeadIsAccounted
  <2> QED
    BY <2>1, <2>2, CrawlConstants DEF CrawlInv, CrawlShape, GoesOn
<1> QED
  BY <1>4, <1>5, <1>6, <1>7, <1>8, <1>9, <1>10 DEF CrawlNext

\* The types of the component, for the composition.
LEMMA CrawlTyped == CrawlInv => CrawlTypeOK
<1> SUFFICES ASSUME CrawlInv PROVE CrawlTypeOK
  OBVIOUS
<1>1. \A n \in DOMAIN slices : slices[n] \in SliceSet
  BY ElementOfSeq DEF CrawlInv, CrawlShape
<1>2. \A s \in SliceSet : s.kind \in {"slice", "page"}
  BY DEF SliceSet
<1> QED
  BY <1>1, <1>2 DEF CrawlInv, CrawlShape, CrawlTypeOK

\* However the source answers and the calls fail, an offer the crawl missed while none
\* was withdrawn is in a slice it set down or reported, in one whose answer told no total,
\* or -- the whole window being over the cap -- in a place it does not ask for.
THEOREM CrawlForgetsNothing == CrawlSpec => []MissesAreKnown
<1>1. CrawlInv => MissesAreKnown
  BY DEF CrawlInv, CrawlShape, MissesAreKnown, Missed, Accounted
<1> QED
  BY <1>1, CrawlStarts, CrawlStep, PTL DEF CrawlSpec

-------------------------------------------------------------------------------
(* An import keeps the vector of the text it stores                          *)

(* A row of job_offers of an offer; its vector is that of its text, or missing,    *)
(* unless two imports crossed over it.                                         *)
SoundRow(row, o) ==
  /\ DOMAIN row = {"title", "body", "published", "vector", "created"}
  /\ o \in crossed \/ row.vector \in {NoVector, TextOf(row)}
  /\ row.created \in 0..today
Known(row, o) == row = NoRow \/ SoundRow(row, o)

Holding(imp) == DOMAIN imp.held \subseteq Postings /\ \A o \in DOMAIN imp.held : SoundRow(imp.held[o], o)
Offering(imp) ==
  /\ DOMAIN imp.items \subseteq Postings
  /\ \A o \in DOMAIN imp.items : DOMAIN imp.items[o] = {"title", "body", "published"}

(* What an import has read of an offer it has not written yet is what it holds of *)
(* it, or what is stored; at worst the purge took the row away since.          *)
StillAsRead(imp, o) ==
  \/ o \in crossed
  \/ o \in DOMAIN imp.held /\ imp.seen[o] = imp.held[o]
  \/ o \notin DOMAIN imp.held /\ imp.seen[o] = postings[o]
  \/ o \notin DOMAIN imp.held /\ SoundRow(imp.seen[o], o) /\ postings[o] = NoRow

Running(imp) ==
  /\ imp.step \in {"idle", "fetched", "looked", "writing", "written"}
  /\ imp.step # "idle" => Holding(imp) /\ Offering(imp)
  /\ imp.step \in {"looked", "writing"} =>
       DOMAIN imp.seen = DOMAIN imp.items /\ \A o \in DOMAIN imp.items : Known(imp.seen[o], o)
  /\ imp.step = "looked" => \A o \in DOMAIN imp.items : StillAsRead(imp, o)
  /\ imp.step = "writing" =>
       /\ DOMAIN imp = {"step", "held", "items", "seen", "left", "vectors"}
       /\ imp.left \subseteq DOMAIN imp.items
       /\ \A o \in imp.left :
            StillAsRead(imp, o) /\ (o \in crossed \/ imp.vectors[o] \in {NoVector, TextOf(imp.items[o])})

IngestionInv ==
  /\ today \in 0..LastPostDay /\ matched \cup selecting \cup crossed \subseteq Postings /\ midnights \in 0..1
  /\ DOMAIN postings = Postings /\ DOMAIN source = Postings /\ DOMAIN importing = ImportJobs
  /\ \A o \in Postings : DOMAIN source[o] = {"title", "body", "published"}
  /\ \A o \in Postings : Known(postings[o], o)
  /\ \A j \in ImportJobs : Running(importing[j])

LEMMA RowsArePresent ==
  /\ ~Present(NoRow)
  /\ \A row, o : SoundRow(row, o) => Present(row)
<1>1. DOMAIN NoRow = {"title"}
  BY DEF NoRow
<1> QED
  BY <1>1 DEF SoundRow, Present

LEMMA IngestionStarts == IngestionInit => IngestionInv
<1> SUFFICES ASSUME IngestionInit PROVE IngestionInv
  OBVIOUS
<1>1. Resting2.step = "idle"
  BY DEF Resting2
<1>2. \A j \in ImportJobs : importing[j].step = "idle"
  BY <1>1 DEF IngestionInit
<1>3. \A o \in Postings : DOMAIN source[o] = {"title", "body", "published"}
  BY DEF IngestionInit
<1>4. LastPostDay \in Nat
  BY IngestionConstants
<1> QED
  BY <1>2, <1>3, <1>4 DEF IngestionInit, IngestionInv, Known, Running

\* What an import read and holds stays sound when a day passes and when more offers are crossed.
LEMMA RowsStaySound ==
  ASSUME IngestionInv, today' \in today..LastPostDay, crossed \subseteq crossed'
  PROVE  /\ \A row, o : SoundRow(row, o) => SoundRow(row, o)'
         /\ \A row, o : Known(row, o) => Known(row, o)'
         /\ \A imp : Holding(imp) => Holding(imp)'
         /\ \A imp : Offering(imp) => Offering(imp)'
         /\ \A imp, o : UNCHANGED postings /\ StillAsRead(imp, o) => StillAsRead(imp, o)'
         /\ \A imp : UNCHANGED postings /\ Running(imp) => Running(imp)'
<1>1. today \in Int /\ 0..today \subseteq 0..today'
  BY DEF IngestionInv
<1>2. \A row, o : SoundRow(row, o) => SoundRow(row, o)'
  BY <1>1 DEF SoundRow
<1>3. \A row, o : Known(row, o) => Known(row, o)'
  BY <1>2 DEF Known
<1>4. \A imp, o : UNCHANGED postings /\ StillAsRead(imp, o) => StillAsRead(imp, o)'
  BY <1>2 DEF StillAsRead
<1>5. \A imp : Holding(imp) => Holding(imp)'
  BY <1>2 DEF Holding
<1>6. \A imp : Offering(imp) => Offering(imp)'
  BY DEF Offering
<1>7. \A imp : UNCHANGED postings /\ Running(imp) => Running(imp)'
  <2>1. ASSUME UNCHANGED postings, NEW imp, Running(imp) PROVE Running(imp)'
    <3>1. \A o : StillAsRead(imp, o) => StillAsRead(imp, o)'
      BY <1>4, <2>1
    <3>2. \A o : o \in crossed => o \in crossed'
      OBVIOUS
    <3> QED
      BY <1>3, <1>5, <1>6, <2>1, <3>1, <3>2 DEF Running
  <2> QED
    BY <2>1
<1> QED
  BY <1>2, <1>3, <1>4, <1>5, <1>6, <1>7

\* What neither stores nor purges a row leaves what the imports read as it was.
LEMMA TableStaysSound ==
  ASSUME IngestionInv, today' \in today..LastPostDay, UNCHANGED <<postings, importing, crossed>>
  PROVE  /\ \A o \in Postings : Known(postings[o], o)'
         /\ \A j \in ImportJobs : Running(importing[j])'
BY RowsStaySound DEF IngestionInv

\* One import moves, on what it alone holds.
LEMMA OneImportMoves ==
  ASSUME IngestionInv, NEW j \in ImportJobs, NEW imp, importing' = [importing EXCEPT ![j] = imp],
         Running(imp), UNCHANGED <<today, source, postings, selecting, midnights, matched, crossed>>
  PROVE  IngestionInv'
<1>1. /\ importing'[j] = imp /\ DOMAIN importing' = ImportJobs
      /\ \A k \in ImportJobs : k # j => importing'[k] = importing[k]
  BY DEF IngestionInv
<1>2. today' \in today..LastPostDay /\ crossed \subseteq crossed'
  BY DEF IngestionInv
<1>3. \A row, o : Known(row, o) => Known(row, o)'
  BY <1>2, RowsStaySound
<1>4. \A r : Running(r) => Running(r)'
  BY <1>2, RowsStaySound
<1>5. \A k \in ImportJobs : Running(importing[k])'
  BY <1>1, <1>4 DEF IngestionInv
<1> QED
  BY <1>1, <1>3, <1>5 DEF IngestionInv

LEMMA IdleRuns == Running(Resting2)
BY DEF Running, Resting2

\* The vectors an import has for what it is about to write are those of the texts.
LEMMA EmbedsTheText ==
  ASSUME NEW imp, NEW o, Known(imp.seen[o], o), ~NeedsEmbedding(imp.seen[o], imp.items[o])
  PROVE  o \in crossed \/ imp.seen[o].vector = TextOf(imp.items[o])
BY RowsArePresent DEF Known, NeedsEmbedding, SoundRow

(* What Upsert writes of an offer, and how the import goes on.                *)
RowNow(imp, o) == IF o \in DOMAIN imp.held THEN imp.held[o] ELSE postings[o]
NewRow(imp, o) ==
  [title |-> imp.items[o].title, body |-> imp.items[o].body, published |-> imp.items[o].published,
   vector |-> imp.vectors[o],
   created |-> IF Present(imp.seen[o]) THEN imp.seen[o].created ELSE today]
RowAfter(imp, o) ==
  IF Present(imp.seen[o])
  THEN [c \in DOMAIN NewRow(imp, o) |->
          IF NewRow(imp, o)[c] # imp.seen[o][c] THEN NewRow(imp, o)[c] ELSE RowNow(imp, o)[c]]
  ELSE NewRow(imp, o)
AfterUpsert(imp, o) ==
  [imp EXCEPT
     !.left = @ \ {o},
     !.held = IF NewRow(imp, o) = imp.seen[o] THEN @
              ELSE [p \in DOMAIN @ \cup {o} |-> IF p = o THEN RowAfter(imp, o) ELSE @[p]]]

\* What an UPDATE leaves in a row is sound: where no other import crossed, the row is still
\* as it was read, and is now the new one.
LEMMA WritesTheText ==
  ASSUME IngestionInv, NEW imp, NEW o, imp.step = "writing", Running(imp), o \in imp.left,
         Present(imp.seen[o]) = Present(RowNow(imp, o))
  PROVE  SoundRow(RowAfter(imp, o), o) /\ o \in Postings
<1>0. PICK row, new, after : row = RowNow(imp, o) /\ new = NewRow(imp, o) /\ after = RowAfter(imp, o)
  OBVIOUS
<1>1. /\ StillAsRead(imp, o) /\ (o \in crossed \/ imp.vectors[o] \in {NoVector, TextOf(imp.items[o])})
      /\ Known(imp.seen[o], o) /\ o \in DOMAIN imp.items /\ DOMAIN imp.seen = DOMAIN imp.items
      /\ Holding(imp) /\ Offering(imp)
  BY DEF Running
<1>2. o \in Postings
  BY <1>1 DEF Offering
<1>3. Known(row, o)
  BY <1>0, <1>1, <1>2 DEF RowNow, Holding, Known, IngestionInv
<1>4. Present(imp.seen[o]) => SoundRow(imp.seen[o], o) /\ SoundRow(row, o)
  BY <1>0, <1>1, <1>3 DEF Known, Present
<1>5. Present(imp.seen[o]) /\ o \notin crossed => row = imp.seen[o]
  BY <1>0, <1>1 DEF StillAsRead, Present, RowNow
<1>6. /\ DOMAIN new = {"title", "body", "published", "vector", "created"}
      /\ TextOf(new) = TextOf(imp.items[o]) /\ new.vector = imp.vectors[o]
      /\ new.created = IF Present(imp.seen[o]) THEN imp.seen[o].created ELSE today
  BY <1>0 DEF TextOf, NewRow
<1>7. today \in 0..today
  BY DEF IngestionInv
<1>8. SoundRow(new, o)
  BY <1>1, <1>4, <1>6, <1>7 DEF SoundRow
<1>9. CASE ~Present(imp.seen[o])
  BY <1>0, <1>2, <1>8, <1>9 DEF RowAfter
<1>10. CASE Present(imp.seen[o])
  <2>1. after = [c \in DOMAIN new |-> IF new[c] # imp.seen[o][c] THEN new[c] ELSE row[c]]
    BY <1>0, <1>10 DEF RowAfter
  <2>2. CASE o \notin crossed
    <3>1. \A c \in DOMAIN new : (IF new[c] # imp.seen[o][c] THEN new[c] ELSE row[c]) = new[c]
      BY <1>5, <1>10, <2>2
    <3>2. new = [c \in DOMAIN new |-> new[c]]
      BY <1>0 DEF NewRow
    <3>3. after = new
      BY <2>1, <3>1, <3>2
    <3> QED
      BY <1>0, <1>2, <1>8, <3>3
  <2>3. CASE o \in crossed
    <3>1. DOMAIN after = {"title", "body", "published", "vector", "created"}
          /\ after.created \in {new.created, row.created}
      BY <1>6, <2>1
    <3> QED
      BY <1>0, <1>2, <1>4, <1>8, <1>10, <2>3, <3>1 DEF SoundRow
  <2> QED
    BY <2>2, <2>3
<1> QED
  BY <1>9, <1>10

LEMMA ImportReads ==
  ASSUME IngestionInv,
         \/ \E j \in ImportJobs, S \in SUBSET Postings : Fetch(j, S)
         \/ \E o \in Postings : FetchMore(o)
         \/ \E j \in ImportJobs : Look(j)
  PROVE  IngestionInv'
<1>1. ASSUME NEW j \in ImportJobs, NEW S \in SUBSET Postings, Fetch(j, S) PROVE IngestionInv'
  <2>1. PICK r : r = [step |-> "fetched", held |-> [o \in {} |-> NoRow], items |-> [o \in S |-> source[o]]]
    OBVIOUS
  <2>2. /\ importing' = [importing EXCEPT ![j] = r]
        /\ UNCHANGED <<today, source, postings, selecting, midnights, matched, crossed>>
    BY <1>1, <2>1 DEF Fetch, Runs, AtStep
  <2>3. r.step = "fetched" /\ DOMAIN r.held = {} /\ DOMAIN r.items = S /\ \A o \in S : r.items[o] = source[o]
    BY <2>1
  <2>4. Running(r)
    BY <2>3 DEF Running, Holding, Offering, IngestionInv
  <2> QED
    BY <2>2, <2>4, OneImportMoves
<1>2. ASSUME NEW p \in Postings, FetchMore(p) PROVE IngestionInv'
  <2>1. PICK r : r = [step |-> "fetched", held |-> importing["sync"].held, items |-> [o \in {p} |-> source[o]]]
    OBVIOUS
  <2>2. /\ importing' = [importing EXCEPT !["sync"] = r] /\ importing["sync"].step = "written"
        /\ UNCHANGED <<today, source, postings, selecting, midnights, matched, crossed>>
    BY <1>2, <2>1 DEF FetchMore, Runs, AtStep
  <2>3. /\ r.step = "fetched" /\ r.held = importing["sync"].held /\ DOMAIN r.items = {p} /\ r.items[p] = source[p]
    BY <2>1
  <2>4. "sync" \in ImportJobs /\ Holding(importing["sync"])
    BY <2>2 DEF ImportJobs, IngestionInv, Running
  <2>5. Running(r)
    BY <2>3, <2>4 DEF Running, Holding, Offering, IngestionInv
  <2> QED
    BY <2>2, <2>4, <2>5, OneImportMoves
<1>3. ASSUME NEW j \in ImportJobs, Look(j) PROVE IngestionInv'
  <2>1. PICK imp : imp = importing[j]
    OBVIOUS
  <2>2. PICK r : r = [step |-> "looked", held |-> imp.held, items |-> imp.items,
                      seen |-> [o \in DOMAIN imp.items |->
                                  IF o \in DOMAIN imp.held THEN imp.held[o] ELSE postings[o]]]
    OBVIOUS
  <2>3. /\ importing' = [importing EXCEPT ![j] = r] /\ importing[j].step = "fetched"
        /\ UNCHANGED <<today, source, postings, selecting, midnights, matched, crossed>>
    BY <1>3, <2>1, <2>2 DEF Look, Runs, AtStep
  <2>4. Holding(imp) /\ Offering(imp)
    BY <2>1, <2>3 DEF IngestionInv, Running
  <2>5. /\ r.step = "looked" /\ r.held = imp.held /\ r.items = imp.items /\ DOMAIN r.seen = DOMAIN imp.items
        /\ \A o \in DOMAIN imp.items : r.seen[o] = IF o \in DOMAIN imp.held THEN imp.held[o] ELSE postings[o]
    BY <2>2
  <2>6. Running(r)
    BY <2>4, <2>5 DEF Running, Holding, Offering, IngestionInv, Known, StillAsRead
  <2> QED
    BY <2>3, <2>6, OneImportMoves
<1> QED
  BY <1>1, <1>2, <1>3

LEMMA ImportWrites ==
  ASSUME IngestionInv, NEW j \in ImportJobs,
         \/ \E S \in SUBSET Postings : Embed(j, S)
         \/ \E o \in Postings : Upsert(j, o)
         \/ Written(j) \/ ImportAborts(j)
  PROVE  IngestionInv'
<1>0. PICK imp : imp = importing[j]
  OBVIOUS
<1>00. Running(imp)
  BY <1>0 DEF IngestionInv
<1>1. ASSUME NEW S \in SUBSET Postings, Embed(j, S) PROVE IngestionInv'
  <2>1. PICK needs : needs = {o \in DOMAIN imp.items : NeedsEmbedding(imp.seen[o], imp.items[o])}
    OBVIOUS
  <2>2. PICK vectors : vectors = [o \in DOMAIN imp.items |->
                         IF o \in S THEN TextOf(imp.items[o])
                         ELSE IF o \in needs THEN NoVector ELSE imp.seen[o].vector]
    OBVIOUS
  <2>3. PICK r : r = [step |-> "writing", held |-> imp.held, items |-> imp.items, seen |-> imp.seen,
                      left |-> DOMAIN imp.items, vectors |-> vectors]
    OBVIOUS
  <2>4. /\ importing' = [importing EXCEPT ![j] = r] /\ imp.step = "looked"
        /\ UNCHANGED <<today, source, postings, selecting, midnights, matched, crossed>>
    BY <1>0, <1>1, <2>1, <2>2, <2>3 DEF Embed, Runs, AtStep
  <2>5. ASSUME NEW o \in DOMAIN imp.items PROVE o \in crossed \/ vectors[o] \in {NoVector, TextOf(imp.items[o])}
    <3>1. Known(imp.seen[o], o)
      BY <1>00, <2>4 DEF Running
    <3>2. o \notin needs => o \in crossed \/ imp.seen[o].vector = TextOf(imp.items[o])
      BY <2>1, <3>1, EmbedsTheText
    <3> QED
      BY <2>2, <3>2
  <2>6. /\ r.step = "writing" /\ r.held = imp.held /\ r.items = imp.items /\ r.seen = imp.seen
        /\ r.left = DOMAIN imp.items /\ r.vectors = vectors
        /\ DOMAIN r = {"step", "held", "items", "seen", "left", "vectors"}
    BY <2>3
  <2>7. Running(r)
    BY <1>00, <2>4, <2>5, <2>6 DEF Running, Holding, Offering, StillAsRead
  <2> QED
    BY <1>0, <2>4, <2>7, OneImportMoves
<1>2. ASSUME NEW o \in Postings, Upsert(j, o) PROVE IngestionInv'
  <2>1. PICK row, new, after : row = RowNow(imp, o) /\ new = NewRow(imp, o) /\ after = RowAfter(imp, o)
    OBVIOUS
  <2>2. PICK held : held = IF new = imp.seen[o] THEN imp.held
                           ELSE [p \in DOMAIN imp.held \cup {o} |-> IF p = o THEN after ELSE imp.held[p]]
    OBVIOUS
  <2>3. PICK r : r = AfterUpsert(imp, o)
    OBVIOUS
  <2>4. Present(imp.seen[o]) = Present(row) => importing' = [importing EXCEPT ![j] = AfterUpsert(importing[j], o)]
    BY <1>0, <1>2, <2>1 DEF Upsert, Runs, RowNow, NewRow, RowAfter, AfterUpsert
  <2>5. Present(imp.seen[o]) # Present(row) => importing' = [importing EXCEPT ![j] = Resting2]
    BY <1>0, <1>2, <2>1 DEF Upsert, Runs, RowNow
  <2>6. imp.step = "writing" /\ o \in imp.left /\ UNCHANGED <<today, source, postings, selecting, midnights, matched, crossed>>
    BY <1>0, <1>2 DEF Upsert, AtStep
  <2>7. CASE Present(imp.seen[o]) # Present(row)
    BY <1>0, <2>5, <2>6, <2>7, IdleRuns, OneImportMoves
  <2>8. CASE Present(imp.seen[o]) = Present(row)
    <3>1. SoundRow(after, o)
      BY <1>00, <2>1, <2>6, <2>8, WritesTheText
    <3>2. Holding(imp) /\ Offering(imp) /\ DOMAIN imp = {"step", "held", "items", "seen", "left", "vectors"}
      BY <1>00, <2>6 DEF Running
    <3>3. /\ r.step = "writing" /\ r.held = held /\ r.items = imp.items /\ r.seen = imp.seen
          /\ r.left = imp.left \ {o} /\ r.vectors = imp.vectors /\ DOMAIN r = DOMAIN imp
      BY <2>1, <2>2, <2>3, <2>6, <3>2 DEF AfterUpsert
    <3>4. /\ DOMAIN held \subseteq Postings /\ \A p \in DOMAIN held : SoundRow(held[p], p)
          /\ \A p \in Postings : p # o =>
               /\ p \in DOMAIN held <=> p \in DOMAIN imp.held
               /\ p \in DOMAIN held => held[p] = imp.held[p]
      <4>1. CASE held = imp.held
        BY <3>2, <4>1 DEF Holding
      <4>2. CASE held = [p \in DOMAIN imp.held \cup {o} |-> IF p = o THEN after ELSE imp.held[p]]
        BY <3>1, <3>2, <4>2 DEF Holding
      <4> QED
        BY <2>2, <4>1, <4>2
    <3>5. ASSUME NEW p \in r.left PROVE StillAsRead(r, p)
      <4>1. p # o /\ p \in imp.left /\ p \in Postings /\ StillAsRead(imp, p)
        BY <1>00, <2>6, <3>2, <3>3 DEF Running, Offering
      <4>2. /\ p \in DOMAIN held <=> p \in DOMAIN imp.held
            /\ p \in DOMAIN held => held[p] = imp.held[p]
        BY <3>4, <4>1
      <4> QED
        BY <3>3, <4>1, <4>2 DEF StillAsRead
    <3>6. Running(r)
      BY <1>00, <2>6, <3>2, <3>3, <3>4, <3>5 DEF Running, Holding, Offering
    <3> QED
      BY <1>0, <2>3, <2>4, <2>6, <2>8, <3>6, OneImportMoves
  <2> QED
    BY <2>7, <2>8
<1>3. CASE Written(j)
  <2>1. PICK r : r = [step |-> "written", held |-> imp.held, items |-> imp.items]
    OBVIOUS
  <2>2. /\ importing' = [importing EXCEPT ![j] = r] /\ imp.step = "writing"
        /\ UNCHANGED <<today, source, postings, selecting, midnights, matched, crossed>>
    BY <1>0, <1>3, <2>1 DEF Written, Runs, AtStep
  <2>3. r.step = "written" /\ r.held = imp.held /\ r.items = imp.items
    BY <2>1
  <2>4. Running(r)
    BY <1>00, <2>2, <2>3 DEF Running, Holding, Offering
  <2> QED
    BY <1>0, <2>2, <2>4, OneImportMoves
<1>4. CASE ImportAborts(j)
  <2>1. /\ importing' = [importing EXCEPT ![j] = Resting2] /\ importing[j].step # "idle"
        /\ UNCHANGED <<today, source, postings, selecting, midnights, matched, crossed>>
    BY <1>4 DEF ImportAborts, Runs, AtStep
  <2> QED
    BY <2>1, IdleRuns, OneImportMoves
<1> QED
  BY <1>1, <1>2, <1>3, <1>4

\* What an import commits is what it holds; what the other had read of it is crossed.
LEMMA ImportCommits ==
  ASSUME IngestionInv, NEW j \in ImportJobs, ImportCommit(j)
  PROVE  IngestionInv'
<1>1. /\ importing[j].step = "written" /\ UNCHANGED <<today, source, selecting, midnights, matched>>
      /\ DOMAIN importing' = ImportJobs /\ importing'[j] = Resting2
      /\ \A k \in ImportJobs : k # j => importing'[k] = importing[k]
  BY DEF ImportCommit, AtStep, Runs, IngestionInv
<1>2. HeldBy(j) = DOMAIN importing[j].held /\ Holding(importing[j])
  BY <1>1 DEF HeldBy, AtStep, IngestionInv, Running
<1>3. crossed' = crossed \cup (HeldBy(j) \cap UNION {StillToWrite(k) : k \in ImportJobs \ {j}})
  BY DEF ImportCommit
<1>4. crossed \subseteq crossed' /\ crossed' \subseteq Postings /\ today' \in today..LastPostDay
  BY <1>1, <1>2, <1>3 DEF Holding, IngestionInv
<1>5. /\ \A row, o : SoundRow(row, o) => SoundRow(row, o)'
      /\ \A row, o : Known(row, o) => Known(row, o)'
      /\ \A imp : Holding(imp) => Holding(imp)'
      /\ \A imp : Offering(imp) => Offering(imp)'
  BY <1>4, RowsStaySound
<1>6. /\ DOMAIN postings' = Postings
      /\ \A o \in Postings : o \in HeldBy(j) => postings'[o] = importing[j].held[o]
      /\ \A o \in Postings : o \notin HeldBy(j) => postings'[o] = postings[o]
  BY DEF ImportCommit
<1>7. \A o \in Postings : Known(postings[o], o)'
  BY <1>2, <1>5, <1>6 DEF Holding, Known, IngestionInv
<1>8. ASSUME NEW k \in ImportJobs, k # j PROVE Running(importing[k])'
  <2>1. PICK imp : imp = importing[k]
    OBVIOUS
  <2>2. Running(imp) /\ (imp.step # "idle" => DOMAIN imp.items \subseteq Postings)
    BY <2>1 DEF IngestionInv, Running, Offering
  <2>3. ASSUME NEW o \in StillToWrite(k), o \in Postings, StillAsRead(imp, o) PROVE StillAsRead(imp, o)'
    <3>1. o \in HeldBy(j) => o \in crossed'
      BY <1>3, <1>8, <2>3
    <3>2. o \notin HeldBy(j) => postings'[o] = postings[o]
      BY <1>6, <2>3
    <3> QED
      BY <1>4, <1>5, <2>3, <3>1, <3>2 DEF StillAsRead
  <2>4. imp.step = "looked" => \A o \in DOMAIN imp.items : StillAsRead(imp, o)'
    <3>1. imp.step = "looked" => StillToWrite(k) = DOMAIN imp.items
      BY <2>1 DEF StillToWrite, AtStep
    <3> QED
      BY <2>2, <2>3, <3>1 DEF Running
  <2>5. imp.step = "writing" => \A o \in imp.left : StillAsRead(imp, o)'
    <3>1. imp.step = "writing" => StillToWrite(k) = imp.left
      BY <2>1 DEF StillToWrite, AtStep
    <3> QED
      BY <2>2, <2>3, <3>1 DEF Running
  <2>6. Running(imp)'
    BY <1>4, <1>5, <2>2, <2>4, <2>5 DEF Running
  <2> QED
    BY <1>1, <1>8, <2>1, <2>6
<1>9. Running(importing[j])'
  BY <1>1 DEF Resting2, Running
<1> QED
  BY <1>1, <1>4, <1>6, <1>7, <1>8, <1>9 DEF IngestionInv

\* The purge takes whole rows, which an import then finds missing.
LEMMA PurgeTakesRows ==
  ASSUME IngestionInv, PurgeOld
  PROVE  IngestionInv'
<1>1. UNCHANGED <<today, source, importing, selecting, midnights, matched, crossed>>
      /\ DOMAIN postings' = Postings /\ \A o \in Postings : postings'[o] = NoRow \/ postings'[o] = postings[o]
  BY DEF PurgeOld
<1>2. today' \in today..LastPostDay /\ crossed \subseteq crossed'
  BY <1>1 DEF IngestionInv
<1>3. /\ \A row, o : SoundRow(row, o) => SoundRow(row, o)'
      /\ \A row, o : Known(row, o) => Known(row, o)'
      /\ \A imp : Holding(imp) => Holding(imp)'
      /\ \A imp : Offering(imp) => Offering(imp)'
  BY <1>2, RowsStaySound
<1>4. ASSUME NEW imp, NEW o \in Postings, StillAsRead(imp, o), Known(imp.seen[o], o) PROVE StillAsRead(imp, o)'
  BY <1>1, <1>3, <1>4 DEF StillAsRead, Known
<1>5. ASSUME NEW imp, Running(imp) PROVE Running(imp)'
  <2>1. imp.step # "idle" => DOMAIN imp.items \subseteq Postings
    BY <1>5 DEF Running, Offering
  <2>2. imp.step = "looked" => \A o \in DOMAIN imp.items : StillAsRead(imp, o)'
    BY <1>4, <1>5, <2>1 DEF Running
  <2>3. imp.step = "writing" => \A o \in imp.left : StillAsRead(imp, o)'
    BY <1>4, <1>5, <2>1 DEF Running
  <2> QED
    BY <1>1, <1>3, <1>5, <2>2, <2>3 DEF Running
<1>6. \A o \in Postings : Known(postings[o], o)'
  BY <1>1, <1>3 DEF IngestionInv, Known
<1>7. \A j \in ImportJobs : Running(importing[j])'
  BY <1>1, <1>5 DEF IngestionInv
<1> QED
  BY <1>1, <1>6, <1>7 DEF IngestionInv

LEMMA IngestionStep ==
  ASSUME IngestionInv, [IngestionNext]_ingestionVars
  PROVE  IngestionInv'
<1>1. ASSUME today' \in today..LastPostDay, UNCHANGED <<postings, importing, crossed>>, midnights' \in 0..1,
             matched' \cup selecting' \subseteq Postings, DOMAIN source' = Postings,
             \A o \in Postings : DOMAIN source'[o] = {"title", "body", "published"}
      PROVE  IngestionInv'
  <2>1. today' \in 0..LastPostDay
    BY <1>1 DEF IngestionInv
  <2> QED
    BY <1>1, <2>1, TableStaysSound DEF IngestionInv
<1>2. today \in today..LastPostDay
  BY DEF IngestionInv
<1>3. CASE UNCHANGED ingestionVars
  BY <1>1, <1>2, <1>3 DEF ingestionVars, IngestionInv
<1>4. ASSUME NEW o \in Postings, SourceEdits(o) PROVE IngestionInv'
  <2>1. DOMAIN source' = Postings /\ \A p \in Postings : DOMAIN source'[p] = {"title", "body", "published"}
    BY <1>4 DEF SourceEdits, IngestionInv
  <2> QED
    BY <1>1, <1>2, <1>4, <2>1 DEF SourceEdits, IngestionInv
<1>5. CASE PostDay
  <2>1. today' \in today..LastPostDay /\ midnights' \in 0..1
    BY <1>5, IngestionConstants DEF PostDay, IngestionInv
  <2> QED
    BY <1>1, <1>5, <2>1 DEF PostDay, IngestionInv
<1>6. CASE SelectOffers
  BY <1>1, <1>2, <1>6 DEF SelectOffers, IngestionInv
<1>7. CASE StorePairs
  BY <1>1, <1>2, <1>7 DEF StorePairs, IngestionInv
<1> QED
  BY <1>3, <1>4, <1>5, <1>6, <1>7, ImportReads, ImportWrites, ImportCommits, PurgeTakesRows DEF IngestionNext

(* The types, which hold whether or not the imports overlap.                   *)
ItemTypes == [title : Nat, body : Nat, published : Nat]
VectorTypes == {NoVector} \cup (Nat \X Nat)
RowTypes(d) == [title : Nat, body : Nat, published : Nat, vector : VectorTypes, created : 0..d]
ImportTypes(imp, d) ==
  /\ imp.step \in {"idle", "fetched", "looked", "writing", "written"}
  /\ imp.step # "idle" =>
       /\ DOMAIN imp.held \subseteq Postings /\ \A o \in DOMAIN imp.held : imp.held[o] \in RowTypes(d)
       /\ DOMAIN imp.items \subseteq Postings /\ \A o \in DOMAIN imp.items : imp.items[o] \in ItemTypes
  /\ imp.step \in {"looked", "writing"} =>
       DOMAIN imp.seen = DOMAIN imp.items /\ \A o \in DOMAIN imp.items : imp.seen[o] \in RowTypes(d) \cup {NoRow}
  /\ imp.step = "writing" =>
       /\ DOMAIN imp = {"step", "held", "items", "seen", "left", "vectors"}
       /\ imp.left \subseteq DOMAIN imp.items
       /\ \A o \in DOMAIN imp.items : imp.vectors[o] \in VectorTypes

PoolTypes ==
  /\ today \in 0..LastPostDay /\ matched \cup selecting \cup crossed \subseteq Postings /\ midnights \in 0..1
  /\ postings \in [Postings -> RowTypes(today) \cup {NoRow}]
  /\ source \in [Postings -> ItemTypes]
  /\ DOMAIN importing = ImportJobs /\ \A j \in ImportJobs : ImportTypes(importing[j], today)

LEMMA PoolTypesStart == IngestionInit => PoolTypes
<1> SUFFICES ASSUME IngestionInit PROVE PoolTypes
  OBVIOUS
<1>1. Resting2.step = "idle" /\ LastPostDay \in Nat
  BY IngestionConstants DEF Resting2
<1>2. \A j \in ImportJobs : ImportTypes(importing[j], today)
  BY <1>1 DEF IngestionInit, ImportTypes
<1> QED
  BY <1>1, <1>2 DEF IngestionInit, PoolTypes, ItemTypes

\* A row that an import holds is of its types, whatever it read and was answered.
LEMMA UpsertTypes ==
  ASSUME PoolTypes, NEW imp, ImportTypes(imp, today), imp.step = "writing", NEW o \in imp.left,
         Present(imp.seen[o]) = Present(RowNow(imp, o))
  PROVE  ImportTypes(AfterUpsert(imp, o), today)
<1>1. PICK row, new, seen, item : row = RowNow(imp, o) /\ new = NewRow(imp, o) /\ seen = imp.seen[o] /\ item = imp.items[o]
  OBVIOUS
<1>2. /\ DOMAIN imp = {"step", "held", "items", "seen", "left", "vectors"}
      /\ imp.left \subseteq DOMAIN imp.items /\ o \in DOMAIN imp.items /\ DOMAIN imp.items \subseteq Postings
      /\ item \in ItemTypes /\ imp.vectors[o] \in VectorTypes /\ seen \in RowTypes(today) \cup {NoRow}
      /\ DOMAIN imp.held \subseteq Postings /\ \A p \in DOMAIN imp.held : imp.held[p] \in RowTypes(today)
  BY <1>1 DEF ImportTypes
<1>3. row \in RowTypes(today) \cup {NoRow}
  BY <1>1, <1>2 DEF RowNow, PoolTypes
<1>4. \A r \in RowTypes(today) : DOMAIN r = {"title", "body", "published", "vector", "created"} /\ r.created \in 0..today
  BY DEF RowTypes
<1>5. today \in 0..today
  BY IngestionConstants DEF PoolTypes
<1>6. new \in RowTypes(today)
  <2>1. (IF Present(seen) THEN seen.created ELSE today) \in 0..today
    BY <1>2, <1>4, <1>5 DEF Present
  <2>2. new = [title |-> item.title, body |-> item.body, published |-> item.published,
               vector |-> imp.vectors[o], created |-> IF Present(seen) THEN seen.created ELSE today]
    BY <1>1 DEF NewRow
  <2>3. item.title \in Nat /\ item.body \in Nat /\ item.published \in Nat
    BY <1>2 DEF ItemTypes
  <2> QED
    BY <1>2, <2>1, <2>2, <2>3 DEF RowTypes
<1>7. RowAfter(imp, o) \in RowTypes(today)
  <2>1. CASE ~Present(seen)
    BY <1>1, <1>6, <2>1 DEF RowAfter
  <2>2. CASE Present(seen)
    <3>1. row \in RowTypes(today)
      BY <1>1, <1>3, <2>2 DEF Present
    <3>2. RowAfter(imp, o) = [c \in DOMAIN new |-> IF new[c] # seen[c] THEN new[c] ELSE row[c]]
      BY <1>1, <2>2 DEF RowAfter
    <3>3. PICK after : after = RowAfter(imp, o)
      OBVIOUS
    <3>4. DOMAIN new = {"title", "body", "published", "vector", "created"}
      BY <1>4, <1>6
    <3>5. after = [c \in {"title", "body", "published", "vector", "created"} |->
                     IF new[c] # seen[c] THEN new[c] ELSE row[c]]
      BY <3>2, <3>3, <3>4
    <3>6. /\ after.title \in {new.title, row.title} /\ after.body \in {new.body, row.body}
          /\ after.published \in {new.published, row.published}
          /\ after.vector \in {new.vector, row.vector} /\ after.created \in {new.created, row.created}
      BY <3>5
    <3>7. \A r \in RowTypes(today) : /\ r.title \in Nat /\ r.body \in Nat /\ r.published \in Nat
                                     /\ r.vector \in VectorTypes /\ r.created \in 0..today
      BY DEF RowTypes
    <3>8. /\ after.title \in Nat /\ after.body \in Nat /\ after.published \in Nat
          /\ after.vector \in VectorTypes /\ after.created \in 0..today
      BY <1>6, <3>1, <3>6, <3>7
    <3>9. after = [title |-> after.title, body |-> after.body, published |-> after.published,
                   vector |-> after.vector, created |-> after.created]
      BY <3>5
    <3>10. after \in RowTypes(today)
      BY <3>8, <3>9 DEF RowTypes
    <3> QED
      BY <3>3, <3>10
  <2> QED
    BY <2>1, <2>2
<1>8. PICK held : held = IF NewRow(imp, o) = imp.seen[o] THEN imp.held
                         ELSE [p \in DOMAIN imp.held \cup {o} |-> IF p = o THEN RowAfter(imp, o) ELSE imp.held[p]]
  OBVIOUS
<1>9. DOMAIN held \subseteq Postings /\ \A p \in DOMAIN held : held[p] \in RowTypes(today)
  BY <1>2, <1>7, <1>8
<1>10. PICK next : next = AfterUpsert(imp, o)
  OBVIOUS
<1>11. /\ DOMAIN next = DOMAIN imp /\ next.step = imp.step /\ next.items = imp.items /\ next.seen = imp.seen
       /\ next.vectors = imp.vectors /\ next.left = imp.left \ {o} /\ next.held = held
  BY <1>2, <1>8, <1>10 DEF AfterUpsert
<1> QED
  BY <1>2, <1>9, <1>10, <1>11 DEF ImportTypes

LEMMA PoolTypesStep == PoolTypes /\ [IngestionNext]_ingestionVars => PoolTypes'
<1> SUFFICES ASSUME PoolTypes, [IngestionNext]_ingestionVars PROVE PoolTypes'
  OBVIOUS
<1>0. /\ Resting2.step = "idle" /\ LastPostDay \in Nat /\ today \in Nat /\ ImportTypes(Resting2, today)
      /\ \A j \in ImportJobs : ImportTypes(importing[j], today)
  BY IngestionConstants DEF Resting2, PoolTypes, ImportTypes
(* One import moves.                                                         *)
<1>1. ASSUME NEW j \in ImportJobs, NEW imp, importing' = [importing EXCEPT ![j] = imp],
             ImportTypes(imp, today), postings' \in [Postings -> RowTypes(today) \cup {NoRow}],
             UNCHANGED <<today, source, selecting, midnights, matched, crossed>>
      PROVE  PoolTypes'
  <2>1. DOMAIN importing' = ImportJobs /\ \A k \in ImportJobs : ImportTypes(importing'[k], today)
    BY <1>0, <1>1 DEF PoolTypes
  <2> QED
    BY <1>1, <2>1 DEF PoolTypes, ImportTypes
<1>2. ASSUME NEW o \in Postings, SourceEdits(o) PROVE PoolTypes'
  <2>1. source' \in [Postings -> ItemTypes]
    BY <1>0, <1>2 DEF SourceEdits, PoolTypes, ItemTypes
  <2>2. UNCHANGED <<today, postings, importing, selecting, midnights, matched, crossed>>
    BY <1>2 DEF SourceEdits
  <2> QED
    BY <2>1, <2>2 DEF PoolTypes
<1>3. ASSUME NEW o \in Postings, FetchMore(o) PROVE PoolTypes'
  <2>1. PICK imp : imp = [step |-> "fetched", held |-> importing["sync"].held, items |-> [p \in {o} |-> source[p]]]
    OBVIOUS
  <2>2. importing["sync"].step = "written" /\ "sync" \in ImportJobs /\ source[o] \in ItemTypes
    BY <1>3 DEF FetchMore, AtStep, ImportJobs, PoolTypes
  <2>3. imp.step = "fetched" /\ imp.held = importing["sync"].held /\ imp.items = [p \in {o} |-> source[p]]
    BY <2>1
  <2>4. ImportTypes(imp, today)
    BY <1>0, <2>2, <2>3 DEF ImportTypes
  <2>5. importing' = [importing EXCEPT !["sync"] = imp] /\ UNCHANGED <<today, source, postings, selecting, midnights, matched, crossed>>
    BY <1>3, <2>1 DEF FetchMore, Runs
  <2>6. postings' \in [Postings -> RowTypes(today) \cup {NoRow}]
    BY <2>5 DEF PoolTypes
  <2> QED
    BY <1>1, <2>2, <2>4, <2>5, <2>6
<1>4. ASSUME NEW j \in ImportJobs, NEW S \in SUBSET Postings, Fetch(j, S) PROVE PoolTypes'
  <2>1. PICK imp : imp = [step |-> "fetched", held |-> [o \in {} |-> NoRow], items |-> [o \in S |-> source[o]]]
    OBVIOUS
  <2>2. imp.step = "fetched" /\ DOMAIN imp.held = {} /\ imp.items = [o \in S |-> source[o]]
    BY <2>1
  <2>3. \A o \in S : source[o] \in ItemTypes
    BY DEF PoolTypes
  <2>4. ImportTypes(imp, today)
    BY <2>2, <2>3 DEF ImportTypes
  <2>5. importing' = [importing EXCEPT ![j] = imp] /\ UNCHANGED <<today, source, postings, selecting, midnights, matched, crossed>>
    BY <1>4, <2>1 DEF Fetch, Runs
  <2>6. postings' \in [Postings -> RowTypes(today) \cup {NoRow}]
    BY <2>5 DEF PoolTypes
  <2> QED
    BY <1>1, <2>4, <2>5, <2>6
<1>5. ASSUME NEW j \in ImportJobs, Look(j) PROVE PoolTypes'
  <2>1. PICK old : old = importing[j]
    OBVIOUS
  <2>2. PICK imp : imp = [step |-> "looked", held |-> old.held, items |-> old.items,
                          seen |-> [o \in DOMAIN old.items |->
                                      IF o \in DOMAIN old.held THEN old.held[o] ELSE postings[o]]]
    OBVIOUS
  <2>3. /\ imp.step = "looked" /\ imp.held = old.held /\ imp.items = old.items
        /\ imp.seen = [o \in DOMAIN old.items |-> IF o \in DOMAIN old.held THEN old.held[o] ELSE postings[o]]
    BY <2>2
  <2>4. ImportTypes(old, today) /\ old.step = "fetched"
    BY <1>0, <1>5, <2>1 DEF Look, AtStep
  <2>5. \A o \in DOMAIN old.items : imp.seen[o] \in RowTypes(today) \cup {NoRow}
    BY <2>3, <2>4 DEF ImportTypes, PoolTypes
  <2>6. ImportTypes(imp, today)
    BY <2>3, <2>4, <2>5 DEF ImportTypes
  <2>7. importing' = [importing EXCEPT ![j] = imp] /\ UNCHANGED <<today, source, postings, selecting, midnights, matched, crossed>>
    BY <1>5, <2>1, <2>2 DEF Look, Runs
  <2>8. postings' \in [Postings -> RowTypes(today) \cup {NoRow}]
    BY <2>7 DEF PoolTypes
  <2> QED
    BY <1>1, <2>6, <2>7, <2>8
<1>6. ASSUME NEW j \in ImportJobs, NEW answered \in SUBSET Postings, Embed(j, answered) PROVE PoolTypes'
  <2>1. PICK old : old = importing[j]
    OBVIOUS
  <2>2. PICK needs : needs = {o \in DOMAIN old.items : NeedsEmbedding(old.seen[o], old.items[o])}
    OBVIOUS
  <2>3. PICK imp : imp = [step |-> "writing", held |-> old.held, items |-> old.items, seen |-> old.seen,
                          left |-> DOMAIN old.items,
                          vectors |-> [o \in DOMAIN old.items |->
                             IF o \in answered THEN TextOf(old.items[o])
                             ELSE IF o \in needs THEN NoVector ELSE old.seen[o].vector]]
    OBVIOUS
  <2>4. ImportTypes(old, today) /\ old.step = "looked"
    BY <1>0, <1>6, <2>1 DEF Embed, AtStep
  <2>5. ASSUME NEW o \in DOMAIN old.items
        PROVE (IF o \in answered THEN TextOf(old.items[o])
               ELSE IF o \in needs THEN NoVector ELSE old.seen[o].vector) \in VectorTypes
    <3>1. old.items[o] \in ItemTypes /\ old.seen[o] \in RowTypes(today) \cup {NoRow}
      BY <2>4 DEF ImportTypes
    <3>2. TextOf(old.items[o]) \in VectorTypes /\ NoVector \in VectorTypes
      BY <3>1 DEF ItemTypes, TextOf, VectorTypes
    <3>3. o \notin needs => old.seen[o] \in RowTypes(today)
      BY <2>2, <3>1 DEF NeedsEmbedding, Present
    <3>4. old.seen[o] \in RowTypes(today) => old.seen[o].vector \in VectorTypes
      BY DEF RowTypes
    <3> QED
      BY <3>2, <3>3, <3>4
  <2>6. /\ imp.step = "writing" /\ imp.held = old.held /\ imp.items = old.items /\ imp.seen = old.seen
        /\ imp.left = DOMAIN old.items /\ DOMAIN imp = {"step", "held", "items", "seen", "left", "vectors"}
        /\ imp.vectors = [o \in DOMAIN old.items |->
                             IF o \in answered THEN TextOf(old.items[o])
                             ELSE IF o \in needs THEN NoVector ELSE old.seen[o].vector]
    BY <2>3
  <2>7. \A o \in DOMAIN imp.items : imp.vectors[o] \in VectorTypes
    BY <2>5, <2>6
  <2>8. ImportTypes(imp, today)
    BY <2>4, <2>6, <2>7 DEF ImportTypes
  <2>9. importing' = [importing EXCEPT ![j] = imp] /\ UNCHANGED <<today, source, postings, selecting, midnights, matched, crossed>>
    BY <1>6, <2>1, <2>2, <2>3 DEF Embed, Runs
  <2>10. postings' \in [Postings -> RowTypes(today) \cup {NoRow}]
    BY <2>9 DEF PoolTypes
  <2> QED
    BY <1>1, <2>8, <2>9, <2>10
<1>7. ASSUME NEW j \in ImportJobs, NEW o \in Postings, Upsert(j, o) PROVE PoolTypes'
  <2>1. PICK imp : imp = importing[j]
    OBVIOUS
  <2>2. ImportTypes(imp, today) /\ imp.step = "writing" /\ o \in imp.left
    BY <1>0, <1>7, <2>1 DEF Upsert, AtStep
  <2>3. UNCHANGED <<today, source, postings, selecting, midnights, matched, crossed>>
    BY <1>7 DEF Upsert
  <2>4. postings' \in [Postings -> RowTypes(today) \cup {NoRow}]
    BY <2>3 DEF PoolTypes
  <2>5. importing' = [importing EXCEPT ![j] = IF Present(imp.seen[o]) # Present(RowNow(imp, o))
                                              THEN Resting2 ELSE AfterUpsert(imp, o)]
    BY <1>7, <2>1 DEF Upsert, Runs, RowNow, NewRow, RowAfter, AfterUpsert
  <2>6. CASE Present(imp.seen[o]) # Present(RowNow(imp, o))
    <3>1. importing' = [importing EXCEPT ![j] = Resting2]
      BY <2>5, <2>6
    <3> QED
      BY <1>0, <1>1, <2>3, <2>4, <3>1
  <2>7. CASE Present(imp.seen[o]) = Present(RowNow(imp, o))
    <3>1. importing' = [importing EXCEPT ![j] = AfterUpsert(imp, o)]
      BY <2>5, <2>7
    <3>2. ImportTypes(AfterUpsert(imp, o), today)
      BY <2>2, <2>7, UpsertTypes
    <3> QED
      BY <1>1, <2>3, <2>4, <3>1, <3>2
  <2> QED
    BY <2>6, <2>7
<1>8. ASSUME NEW j \in ImportJobs, Written(j) PROVE PoolTypes'
  <2>1. PICK imp : imp = [step |-> "written", held |-> importing[j].held, items |-> importing[j].items]
    OBVIOUS
  <2>2. imp.step = "written" /\ imp.held = importing[j].held /\ imp.items = importing[j].items
    BY <2>1
  <2>3. ImportTypes(imp, today)
    BY <1>0, <1>8, <2>2 DEF Written, AtStep, ImportTypes
  <2>4. importing' = [importing EXCEPT ![j] = imp] /\ UNCHANGED <<today, source, postings, selecting, midnights, matched, crossed>>
    BY <1>8, <2>1 DEF Written, Runs
  <2>5. postings' \in [Postings -> RowTypes(today) \cup {NoRow}]
    BY <2>4 DEF PoolTypes
  <2> QED
    BY <1>1, <2>3, <2>4, <2>5
<1>9. ASSUME NEW j \in ImportJobs, ImportCommit(j) PROVE PoolTypes'
  <2>1. \A o \in HeldBy(j) : importing[j].held[o] \in RowTypes(today)
    BY <1>0 DEF HeldBy, AtStep, ImportTypes
  <2>2. postings' \in [Postings -> RowTypes(today) \cup {NoRow}]
    BY <1>9, <2>1 DEF ImportCommit, PoolTypes
  <2>3. importing' = [importing EXCEPT ![j] = Resting2] /\ UNCHANGED <<today, source, selecting, midnights, matched>>
    BY <1>9 DEF ImportCommit, Runs
  <2>4. HeldBy(j) \subseteq Postings
    BY <1>0 DEF HeldBy, AtStep, ImportTypes
  <2>5. crossed' \subseteq Postings
    BY <1>9, <2>4 DEF ImportCommit, PoolTypes
  <2>6. DOMAIN importing' = ImportJobs /\ \A k \in ImportJobs : ImportTypes(importing'[k], today)
    BY <1>0, <2>3 DEF PoolTypes
  <2> QED
    BY <2>2, <2>3, <2>5, <2>6 DEF PoolTypes, ImportTypes
<1>10. ASSUME NEW j \in ImportJobs, ImportAborts(j) PROVE PoolTypes'
  <2>1. /\ importing' = [importing EXCEPT ![j] = Resting2]
        /\ UNCHANGED <<today, source, postings, selecting, midnights, matched, crossed>>
    BY <1>10 DEF ImportAborts, Runs
  <2>2. postings' \in [Postings -> RowTypes(today) \cup {NoRow}]
    BY <2>1 DEF PoolTypes
  <2> QED
    BY <1>0, <1>1, <2>1, <2>2
<1>11. CASE PurgeOld
  <2>1. postings' \in [Postings -> RowTypes(today) \cup {NoRow}]
    BY <1>11 DEF PurgeOld, PoolTypes
  <2> QED
    BY <1>11, <2>1 DEF PurgeOld, PoolTypes
<1>12. CASE SelectOffers \/ StorePairs \/ UNCHANGED ingestionVars
  BY <1>12 DEF SelectOffers, StorePairs, ingestionVars, PoolTypes
<1>13. CASE PostDay
  <2>1. today' \in 0..LastPostDay /\ 0..today \subseteq 0..today' /\ midnights' \in 0..1
    BY <1>0, <1>13 DEF PostDay, PoolTypes
  <2>2. RowTypes(today) \subseteq RowTypes(today')
    BY <2>1 DEF RowTypes
  <2>3. UNCHANGED <<source, postings, importing, selecting, matched, crossed>>
    BY <1>13 DEF PostDay
  <2>4. \A j \in ImportJobs : ImportTypes(importing[j], today')
    BY <1>0, <2>2 DEF ImportTypes
  <2> QED
    BY <2>1, <2>2, <2>3, <2>4 DEF PoolTypes
<1> QED
  BY <1>2, <1>3, <1>4, <1>5, <1>6, <1>7, <1>8, <1>9, <1>10, <1>11, <1>12, <1>13 DEF IngestionNext

\* The types of the component, for the composition.
LEMMA PoolTyped == PoolTypes => IngestionTypeOK
<1> SUFFICES ASSUME PoolTypes PROVE IngestionTypeOK
  OBVIOUS
<1>1. \A r \in RowTypes(today) : r.created \in 0..today
  BY DEF RowTypes
<1>2. \A o \in Postings : Present(postings[o]) => postings[o].created \in 0..today
  BY <1>1 DEF Present, PoolTypes
<1> QED
  BY <1>2 DEF PoolTypes, ImportTypes, IngestionTypeOK

\* Whatever imports overlap, whatever calls fail and whatever the purge takes meanwhile,
\* the vector an offer is ranked by is that of its present text; an offer is excepted only
\* from the commit of one import on, when the other had read it and not written it yet.
THEOREM VectorsFollowTheText == IngestionSpec => []VectorOfText
<1>1. IngestionInv => VectorOfText
  BY DEF IngestionInv, VectorOfText, Known, SoundRow, Present
<1>2. IngestionInv /\ [IngestionNext]_ingestionVars => IngestionInv'
  BY IngestionStep
<1> QED
  BY <1>1, <1>2, IngestionStarts, PTL DEF IngestionSpec

-------------------------------------------------------------------------------
(* The filter has one answer, in SQL and in Python                           *)

AllContracts == {"CDI", "CDD", "Interim", "Alternance", "Stage", "Freelance"}

\* A row of job_offers: a label is one of those an advert gives, or none.
OfferRows == [region : Zones \cup {Nowhere}, text : Texts, fullRemote : BOOLEAN,
              label : Labels \cup {NoLabel}, low : Nat, high : Nat]

(* The import and the backfill write labels, and only labels.                 *)
FilterInv ==
  /\ offer \in OfferRows
  /\ wish.modes \subseteq Modes /\ wish.minSalary \in SalariesAsked \cup {Unknown}

LEMMA OrdersOfContracts ==
  /\ DOMAIN GuessOrder = 1..6
  /\ DOMAIN ContractOrder = 1..6
  /\ AllContracts = {ContractOrder[i] : i \in 1..6}
  /\ \A i, j \in 1..6 : ContractOrder[i] = ContractOrder[j] => i = j
<1>1. DOMAIN GuessOrder = 1..6
  BY DEF GuessOrder
<1>2. DOMAIN ContractOrder = 1..6
  BY DEF ContractOrder
<1>3. /\ ContractOrder[1] = "CDI" /\ ContractOrder[2] = "CDD" /\ ContractOrder[3] = "Interim"
      /\ ContractOrder[4] = "Alternance" /\ ContractOrder[5] = "Stage" /\ ContractOrder[6] = "Freelance"
  BY DEF ContractOrder
<1>4. \A i \in 1..6 : i \in {1, 2, 3, 4, 5, 6}
  OBVIOUS
<1>5. ASSUME NEW c \in AllContracts PROVE \E i \in 1..6 : c = ContractOrder[i]
  BY <1>3 DEF AllContracts
<1>6. \A i \in 1..6 : ContractOrder[i] \in AllContracts
  BY <1>3, <1>4 DEF AllContracts
<1>7. \A i, j \in 1..6 : ContractOrder[i] = ContractOrder[j] => i = j
  BY <1>3, <1>4
<1>8. AllContracts = {ContractOrder[i] : i \in 1..6}
  BY <1>5, <1>6
<1> QED
  BY <1>1, <1>2, <1>7, <1>8

\* What a text is guessed to be names a contract, in full.
LEMMA GuessesAreLabels ==
  ASSUME NEW text \in Texts
  PROVE  GuessContractType(text) \in Labels \cup {NoLabel}
<1>1. PICK found : found = {i \in DOMAIN GuessOrder : GuessOrder[i] \in text.words}
  OBVIOUS
<1>2. CASE found = {}
  BY <1>1, <1>2 DEF GuessContractType
<1>3. CASE found # {}
  <2>1. found \in SUBSET Nat
    BY <1>1, OrdersOfContracts
  <2>2. \E i \in found : \A j \in found : i <= j
    BY <1>3, <2>1, LeastNumber
  <2>3. PICK first : first = CHOOSE i \in found : \A j \in found : i <= j
    OBVIOUS
  <2>4. first \in found
    BY <2>2, <2>3
  <2>5. PICK contract : contract = GuessOrder[first]
    OBVIOUS
  <2>6. contract \in text.words /\ GuessContractType(text) = Named(contract)
    BY <1>1, <1>3, <2>3, <2>4, <2>5 DEF GuessContractType
  <2>7. text.words \subseteq Contracts
    BY DEF Texts
  <2> QED
    BY <2>6, <2>7 DEF Named, Labels
<1> QED
  BY <1>2, <1>3

LEMMA GivenOrGuessed ==
  ASSUME NEW given \in Labels \cup {NoLabel}, NEW text \in Texts
  PROVE  OrGuess(given, text) \in Labels \cup {NoLabel}
BY GuessesAreLabels DEF OrGuess

\* A place is in a region of France, or in none.
LEMMA PlacesAreInZones ==
  /\ \A code : RegionFromPostalCode(code) \in Zones \cup {Nowhere}
  /\ \A code : RegionFromInseeCode(code) \in Zones \cup {Nowhere}
  /\ \A area : RegionFromArea(area) \in Zones \cup {Nowhere}
<1>1. \A begins : RegionFrom(begins) \in Zones \cup {Nowhere}
  BY ReadingConstants DEF RegionFrom
<1>2. \A element : RegionName(element) \in Zones \cup {Nowhere}
  BY DEF RegionName
<1> QED
  BY <1>1, <1>2 DEF RegionFromPostalCode, RegionFromInseeCode, RegionFromArea

\* The two ends of a salary are numbers, whatever the label says.
LEMMA SalariesAreNumbers ==
  ASSUME NEW label \in SalaryLabels
  PROVE  ExtractAnnualSalary(label).low \in Nat /\ ExtractAnnualSalary(label).high \in Nat
<1>1. PICK ends : ends = {Annualized(label.period, f) : f \in label.figures}
  OBVIOUS
<1>2. CASE ends # {} /\ \A v \in ends : Plausible(v)
  <2>1. PlausibleFrom \in Nat /\ PlausibleTo \in Nat /\ Printed \subseteq Nat
    BY ReadingConstants
  <2>2. label.figures \subseteq Printed /\ label.period \in {"Annuel", "Mensuel", "Horaire"}
    BY DEF SalaryLabels, NoSalary
  <2>3. ASSUME NEW f \in label.figures PROVE Annualized(label.period, f) \in Nat
    <3>1. f \in Nat
      BY <2>1, <2>2
    <3>2. 1820 * f + (4 * f + 50) \div 100 \in Nat
      BY <3>1
    <3> QED
      BY <2>2, <3>1, <3>2 DEF Annualized
  <2>4. ends \in SUBSET (0..PlausibleTo)
    BY <1>1, <1>2, <2>1, <2>3 DEF Plausible
  <2>5. \E v \in ends : \A w \in ends : v <= w
    BY <1>2, <2>1, <2>4, LeastNumber
  <2>6. \E v \in ends : \A w \in ends : w <= v
    BY <1>2, <2>1, <2>4, LargestNumber
  <2>7. /\ (CHOOSE v \in ends : \A w \in ends : v <= w) \in ends
        /\ (CHOOSE v \in ends : \A w \in ends : w <= v) \in ends
    BY <2>5, <2>6
  <2>8. ends \subseteq Nat
    BY <2>4
  <2> QED
    BY <1>1, <1>2, <2>7, <2>8 DEF ExtractAnnualSalary
<1>3. CASE ~(ends # {} /\ \A v \in ends : Plausible(v))
  BY <1>1, <1>3 DEF ExtractAnnualSalary, Unknown
<1> QED
  BY <1>2, <1>3

\* The two providers write rows of their types.
LEMMA FranceIsTyped ==
  ASSUME NEW ad, ad.text \in Texts, ad.libelle \in Labels \cup {NoLabel},
         ad.code \in Labels \cup {NoLabel}, ad.salary \in SalaryLabels
  PROVE  FranceTravailOffer(ad) \in OfferRows /\ FranceTravailOffer(ad).text = ad.text
<1>1. PICK given : given = IF ad.libelle # NoLabel THEN ad.libelle ELSE ad.code
  OBVIOUS
<1>2. OrGuess(given, ad.text) \in Labels \cup {NoLabel}
  BY <1>1, GivenOrGuessed
<1>3. PICK region : region = IF RegionFromPostalCode(ad.postal) # Nowhere
                             THEN RegionFromPostalCode(ad.postal) ELSE RegionFromInseeCode(ad.commune)
  OBVIOUS
<1>4. region \in Zones \cup {Nowhere}
  BY <1>3, PlacesAreInZones
<1>5. PICK salary : salary = ExtractAnnualSalary(ad.salary)
  OBVIOUS
<1>6. salary.low \in Nat /\ salary.high \in Nat
  BY <1>5, SalariesAreNumbers
<1>7. LooksFullRemote(ad.text) \in BOOLEAN
  BY DEF LooksFullRemote, Texts
<1>8. FranceTravailOffer(ad) =
        [region |-> region, text |-> ad.text, fullRemote |-> LooksFullRemote(ad.text),
         label |-> OrGuess(given, ad.text), low |-> salary.low, high |-> salary.high]
  BY <1>1, <1>3, <1>5 DEF FranceTravailOffer
<1> QED
  BY <1>2, <1>4, <1>6, <1>7, <1>8 DEF OfferRows

LEMMA AdzunaIsTyped ==
  ASSUME NEW ad, ad.text \in Texts, ad.type = "none" \/ ad.type \in Contracts,
         ad.low \in Nat, ad.high \in Nat
  PROVE  AdzunaOffer(ad) \in OfferRows /\ AdzunaOffer(ad).text = ad.text
<1>1. PICK given : given = AdzunaLabel(ad.type, ad.time)
  OBVIOUS
<1>2. given \in Labels \cup {NoLabel}
  BY <1>1 DEF AdzunaLabel, Labels
<1>3. OrGuess(given, ad.text) \in Labels \cup {NoLabel}
  BY <1>2, GivenOrGuessed
<1>4. RegionFromArea(ad.area) \in Zones \cup {Nowhere}
  BY PlacesAreInZones
<1>5. LooksFullRemote(ad.text) \in BOOLEAN
  BY DEF LooksFullRemote, Texts
<1>6. AdzunaOffer(ad) =
        [region |-> RegionFromArea(ad.area), text |-> ad.text, fullRemote |-> LooksFullRemote(ad.text),
         label |-> OrGuess(given, ad.text), low |-> ad.low, high |-> ad.high]
  BY <1>1 DEF AdzunaOffer
<1> QED
  BY <1>3, <1>4, <1>5, <1>6 DEF OfferRows

LEMMA AdvertsAreTyped == PlacedOffers \subseteq OfferRows /\ PaidOffers \subseteq OfferRows
<1>1. NoSalary \in SalaryLabels /\ Unknown \in Nat
  BY DEF SalaryLabels, Unknown
<1>2. ASSUME NEW p, NEW c, NEW a \in BOOLEAN, NEW d \in BOOLEAN PROVE FrancePlaced(p, c, a, d) \in OfferRows
  <2>1. PICK ad : ad = [PlainFrance EXCEPT !.postal = p, !.commune = c,
                                           !.text.allRemote = a, !.text.splitDays = d]
    OBVIOUS
  <2>2. /\ ad.text = [words |-> {}, allRemote |-> a, splitDays |-> d]
        /\ ad.libelle = NoLabel /\ ad.code = NoLabel /\ ad.salary = NoSalary
    BY <2>1 DEF PlainFrance, NoWords
  <2>3. ad.text \in Texts
    BY <2>2 DEF Texts
  <2> QED
    BY <1>1, <2>1, <2>2, <2>3, FranceIsTyped DEF FrancePlaced
<1>3. ASSUME NEW area, NEW a \in BOOLEAN, NEW d \in BOOLEAN PROVE AdzunaPlaced(area, a, d) \in OfferRows
  <2>1. PICK ad : ad = [PlainAdzuna EXCEPT !.area = area, !.text.allRemote = a, !.text.splitDays = d]
    OBVIOUS
  <2>2. /\ ad.text = [words |-> {}, allRemote |-> a, splitDays |-> d]
        /\ ad.type = "none" /\ ad.low = Unknown /\ ad.high = Unknown
    BY <2>1 DEF PlainAdzuna, NoWords
  <2>3. ad.text \in Texts
    BY <2>2 DEF Texts
  <2> QED
    BY <1>1, <2>1, <2>2, <2>3, AdzunaIsTyped DEF AdzunaPlaced
<1>4. ASSUME NEW w \in SUBSET Contracts, NEW label \in Labels \cup {NoLabel}, NEW salary \in SalaryLabels
      PROVE  FrancePaid(w, label, salary) \in OfferRows
  <2>1. PICK ad : ad = [PlainFrance EXCEPT !.text.words = w, !.libelle = label, !.salary = salary]
    OBVIOUS
  <2>2. /\ ad.text = [words |-> w, allRemote |-> FALSE, splitDays |-> FALSE]
        /\ ad.libelle = label /\ ad.code = NoLabel /\ ad.salary = salary
    BY <2>1 DEF PlainFrance, NoWords
  <2>3. ad.text \in Texts
    BY <2>2 DEF Texts
  <2> QED
    BY <2>1, <2>2, <2>3, FranceIsTyped DEF FrancePaid
<1>5. ASSUME NEW w \in SUBSET Contracts, NEW type \in {"none", "CDI", "Freelance"}, NEW time,
             NEW low \in Printed \cup {Unknown}, NEW high \in Printed \cup {Unknown}
      PROVE  AdzunaPaid(w, type, time, low, high) \in OfferRows
  <2>1. PICK ad : ad = [PlainAdzuna EXCEPT !.text.words = w, !.type = type, !.time = time,
                                           !.low = low, !.high = high]
    OBVIOUS
  <2>2. /\ ad.text = [words |-> w, allRemote |-> FALSE, splitDays |-> FALSE]
        /\ ad.type = type /\ ad.low = low /\ ad.high = high
    BY <2>1 DEF PlainAdzuna, NoWords
  <2>3. ad.text \in Texts
    BY <2>2 DEF Texts
  <2>4. low \in Nat /\ high \in Nat
    BY <1>1, ReadingConstants
  <2> QED
    BY <2>1, <2>2, <2>3, <2>4, AdzunaIsTyped, PreferenceConstants DEF AdzunaPaid
<1>6. ASSUME NEW o \in PlacedOffers PROVE o \in OfferRows
  <2>1. \/ \E p \in Codes, c \in Codes, a \in BOOLEAN, d \in BOOLEAN : o = FrancePlaced(p, c, a, d)
        \/ \E area \in Areas, a \in BOOLEAN, d \in BOOLEAN : o = AdzunaPlaced(area, a, d)
    BY DEF PlacedOffers
  <2> QED
    BY <1>2, <1>3, <2>1
<1>7. ASSUME NEW o \in PaidOffers PROVE o \in OfferRows
  <2>1. CASE \E w \in SUBSET Contracts, label \in Labels \cup {NoLabel}, salary \in SalaryLabels :
               o = FrancePaid(w, label, salary)
    BY <1>4, <2>1
  <2>2. CASE \E w \in SUBSET Contracts, type \in {"none", "CDI", "Freelance"},
               time \in {"none", "full_time", "part_time"},
               low \in Printed \cup {Unknown}, high \in Printed \cup {Unknown} :
               o = AdzunaPaid(w, type, time, low, high)
    <3>1. PICK w \in SUBSET Contracts, type \in {"none", "CDI", "Freelance"},
               time \in {"none", "full_time", "part_time"},
               low \in Printed \cup {Unknown}, high \in Printed \cup {Unknown} :
               o = AdzunaPaid(w, type, time, low, high)
      BY <2>2
    <3>2. AdzunaPaid(w, type, time, low, high) \in OfferRows
      BY <1>5
    <3> QED
      BY <3>1, <3>2
  <2> QED
    BY <2>1, <2>2 DEF PaidOffers
<1> QED
  BY <1>6, <1>7

LEMMA FilterStarts == PreferenceInit => FilterInv
<1>1. ASSUME NEW o \in PlacedOffers, NEW unknown \in BOOLEAN, NEW regions \in SUBSET Zones,
             NEW modes \in SUBSET Modes, offer = o,
             wish = [NoWish EXCEPT !.regions = regions, !.unknownRegion = unknown, !.modes = modes]
      PROVE  FilterInv
  <2>1. wish.modes = modes /\ wish.minSalary = Unknown
    BY <1>1 DEF NoWish
  <2> QED
    BY <1>1, <2>1, AdvertsAreTyped DEF FilterInv
<1>2. ASSUME NEW o \in PaidOffers, NEW minSalary \in SalariesAsked \cup {Unknown}, NEW contracts,
             offer = o \/ offer = [o EXCEPT !.label = NoLabel],
             wish = [NoWish EXCEPT !.contracts = contracts, !.minSalary = minSalary]
      PROVE  FilterInv
  <2>1. wish.modes = {} /\ wish.minSalary = minSalary
    BY <1>2 DEF NoWish
  <2>2. o \in OfferRows
    BY AdvertsAreTyped
  <2>3. offer \in OfferRows
    BY <1>2, <2>2 DEF OfferRows
  <2> QED
    BY <2>1, <2>3 DEF FilterInv
<1> QED
  BY <1>1, <1>2 DEF PreferenceInit

LEMMA FilterStep ==
  ASSUME FilterInv, [PreferenceNext]_preferenceVars
  PROVE  FilterInv'
<1>1. ASSUME NEW label \in Labels \cup {NoLabel}, offer' = [offer EXCEPT !.label = label], UNCHANGED wish
      PROVE  FilterInv'
  BY <1>1 DEF FilterInv, OfferRows
<1>2. offer.text \in Texts
  BY DEF FilterInv, OfferRows
<1>3. CASE Refreshed
  <2>1. PICK label \in Labels \cup {NoLabel} : offer' = [offer EXCEPT !.label = OrGuess(label, offer.text)]
    BY <1>3 DEF Refreshed
  <2> QED
    BY <1>1, <1>2, <1>3, <2>1, GivenOrGuessed DEF Refreshed
<1>4. CASE Backfilled
  BY <1>1, <1>2, <1>4, GuessesAreLabels DEF Backfilled
<1>5. CASE UNCHANGED preferenceVars
  BY <1>5 DEF preferenceVars, FilterInv
<1> QED
  BY <1>3, <1>4, <1>5 DEF PreferenceNext

\* The types of the component, for the composition.
LEMMA FilterTyped == FilterInv => PreferenceTypeOK
<1>1. \A o \in OfferRows : /\ o.label \in Labels \cup {NoLabel} /\ o.text \in Texts
                           /\ o.region \in Zones \cup {Nowhere} /\ o.low \in Nat /\ o.high \in Nat
  BY DEF OfferRows
<1> QED
  BY <1>1 DEF FilterInv, PreferenceTypeOK

\* The rows SQL finds, checked when it could not tell, are those Python keeps.
LEMMA SqlIsPython == FilterInv => SqlAgreesWithPython
<1> SUFFICES ASSUME FilterInv, offer.label.fullTime # "pattern"
             PROVE  Nearest(wish, offer) <=> Matches(wish, offer)
  BY DEF SqlAgreesWithPython
<1>1. SqlBareFullTime(offer.label) <=> IsBareFullTime(offer.label)
  BY DEF SqlBareFullTime, IsBareFullTime
<1>2. SqlContract(wish, offer) <=> ContractOk(wish, offer)
  BY <1>1 DEF SqlContract, ContractOk, IsBareFullTime
<1>3. SqlSalary(wish, offer) <=> SalaryOk(wish, offer)
  BY DEF SqlSalary, SalaryOk
<1>4. SqlRemote(wish, offer) /\ (NeedsPythonRemote(wish) => MatchesRemote(wish, offer)) <=> MatchesRemote(wish, offer)
  <2>1. wish.modes \subseteq {"Sur site", "Hybride", "Full remote"} /\ offer.fullRemote \in BOOLEAN
    BY DEF FilterInv, OfferRows, Modes
  <2>2. /\ RemoteModeOf(offer) \in {"Sur site", "Hybride", "Full remote"}
        /\ RemoteModeOf(offer) = "Full remote" <=> offer.fullRemote
    BY <2>1 DEF RemoteModeOf
  <2>3. CASE ~RemoteActive(wish)
    BY <2>3 DEF SqlRemote, NeedsPythonRemote, MatchesRemote
  <2>4. CASE RemoteActive(wish) /\ wish.modes = {"Full remote"}
    BY <2>1, <2>2, <2>4 DEF SqlRemote, NeedsPythonRemote, MatchesRemote
  <2>5. CASE RemoteActive(wish) /\ wish.modes = {"Hybride", "Sur site"}
    BY <2>1, <2>2, <2>5 DEF SqlRemote, NeedsPythonRemote, MatchesRemote
  <2>6. CASE RemoteActive(wish) /\ wish.modes \notin {{"Full remote"}, {"Hybride", "Sur site"}}
    BY <2>1, <2>2, <2>6 DEF SqlRemote, NeedsPythonRemote, MatchesRemote
  <2> QED
    BY <2>3, <2>4, <2>5, <2>6
<1> QED
  BY <1>2, <1>3, <1>4 DEF Nearest, Apply, Matches

LEMMA FilterIsTag == FilterInv => FilterFollowsTag
<1> SUFFICES ASSUME FilterInv, wish.contracts # {}, Cardinality(offer.label.names) <= 1
             PROVE  ContractOk(wish, offer) <=> ContractLabelOf(offer.label) \in wish.contracts \cup {"none"}
  BY DEF FilterFollowsTag
<1>1. PICK names : names = offer.label.names
  OBVIOUS
<1>2. names \subseteq AllContracts
  <2>1. names \subseteq Contracts
    <3>1. \A label \in Labels : label.names \subseteq Contracts
      BY DEF Labels
    <3>2. NoLabel.names = {}
      BY DEF NoLabel
    <3> QED
      BY <1>1, <3>1, <3>2 DEF FilterInv, OfferRows
  <2>2. Contracts \subseteq AllContracts
    BY ReadingConstants DEF AllContracts
  <2> QED
    BY <2>1, <2>2
<1>3. CASE names = {}
  <2>1. "CDI" # "none"
    OBVIOUS
  <2> QED
    BY <1>1, <1>3, <2>1 DEF ContractOk, ContractLabelOf, IsBareFullTime
<1>4. CASE names # {}
  <2>1. PICK c : names = {c}
    <3>1. IsFiniteSet(AllContracts)
      <4>1. IsFiniteSet({"CDI"})
        BY FS_Singleton
      <4>2. IsFiniteSet({"CDI"} \cup {"CDD"})
        BY <4>1, FS_AddElement
      <4>3. IsFiniteSet({"CDI"} \cup {"CDD"} \cup {"Interim"})
        BY <4>2, FS_AddElement
      <4>4. IsFiniteSet({"CDI"} \cup {"CDD"} \cup {"Interim"} \cup {"Alternance"})
        BY <4>3, FS_AddElement
      <4>5. IsFiniteSet({"CDI"} \cup {"CDD"} \cup {"Interim"} \cup {"Alternance"} \cup {"Stage"})
        BY <4>4, FS_AddElement
      <4>6. IsFiniteSet({"CDI"} \cup {"CDD"} \cup {"Interim"} \cup {"Alternance"} \cup {"Stage"} \cup {"Freelance"})
        BY <4>5, FS_AddElement
      <4> QED
        BY <4>6 DEF AllContracts
    <3>2. IsFiniteSet(names) /\ Cardinality(names) \in Nat
      BY <1>2, <3>1, FS_Subset, FS_CardinalityType
    <3>3. Cardinality(names) # 0
      BY <1>4, <3>2, FS_EmptySet
    <3>4. Cardinality(names) = 1
      BY <1>1, <3>2, <3>3
    <3> QED
      BY <3>2, <3>4, FS_Singleton
  <2>2. PICK i \in 1..6 : c = ContractOrder[i]
    BY <1>2, <2>1, OrdersOfContracts
  <2>3. \A k \in DOMAIN ContractOrder : ContractOrder[k] \in names <=> k = i
    BY <2>1, <2>2, OrdersOfContracts
  <2>4. (CHOOSE k \in DOMAIN ContractOrder :
           /\ ContractOrder[k] \in names
           /\ \A j \in 1..(k - 1) : ContractOrder[j] \notin names) = i
    <3>1. i \in DOMAIN ContractOrder
      BY OrdersOfContracts
    <3>2. \A j \in 1..(i - 1) : j \in DOMAIN ContractOrder /\ j # i
      BY OrdersOfContracts
    <3> QED
      BY <2>3, <3>1, <3>2
  <2>5. ContractLabelOf(offer.label) = c
    BY <1>1, <1>4, <2>2, <2>4 DEF ContractLabelOf
  <2>6. c # "none"
    <3>1. c = "CDI" \/ c = "CDD" \/ c = "Interim" \/ c = "Alternance" \/ c = "Stage" \/ c = "Freelance"
      BY <1>2, <2>1, Zenon DEF AllContracts
    <3>2. /\ "CDI" # "none" /\ "CDD" # "none" /\ "Interim" # "none"
          /\ "Alternance" # "none" /\ "Stage" # "none" /\ "Freelance" # "none"
      OBVIOUS
    <3> QED
      BY <3>1, <3>2, Zenon
  <2> QED
    BY <1>1, <1>4, <2>1, <2>5, <2>6 DEF ContractOk, IsBareFullTime
<1> QED
  BY <1>3, <1>4

\* Whatever an advert says and whatever label its row got, the filter of a candidate
\* gives one answer in SQL, in Python and by the tag on the screen.
THEOREM FiltersGiveOneAnswer == PreferenceSpec => []FiltersAgree
<1>1. FilterInv => FiltersAgree
  BY SqlIsPython, FilterIsTag DEF FiltersAgree
<1> QED
  BY <1>1, FilterStarts, FilterStep, PTL DEF PreferenceSpec

-------------------------------------------------------------------------------
(* The penalty of seniority                                                  *)

\* Rounding keeps an order, and what is below a whole number of points.
LEMMA RoundedKeepsOrder ==
  \A n, m \in Nat : n <= m => Rounded(n, 12) \in Nat /\ Rounded(n, 12) <= Rounded(m, 12)
<1> SUFFICES ASSUME NEW n \in Nat, NEW m \in Nat, n <= m
             PROVE  Rounded(n, 12) \in Nat /\ Rounded(n, 12) <= Rounded(m, 12)
  OBVIOUS
<1>1. n \div 12 <= m \div 12 /\ n \div 12 \in Nat /\ m \div 12 \in Nat
  OBVIOUS
<1>2. Rounded(n, 12) \in {n \div 12, n \div 12 + 1} /\ Rounded(m, 12) \in {m \div 12, m \div 12 + 1}
  BY DEF Rounded
<1>3. CASE n \div 12 < m \div 12
  BY <1>1, <1>2, <1>3
<1>4. CASE n \div 12 = m \div 12
  <2>1. n % 12 <= m % 12 /\ n % 12 \in 0..11 /\ m % 12 \in 0..11
    BY <1>4
  <2> QED
    BY <1>1, <1>4, <2>1 DEF Rounded
<1> QED
  BY <1>1, <1>3, <1>4

LEMMA MorePointsFurther ==
  \A n, m, perYear, cap \in Nat : n <= m =>
    AtMostPoints(Rounded(n * perYear, 12), cap) <= AtMostPoints(Rounded(m * perYear, 12), cap)
<1> SUFFICES ASSUME NEW n \in Nat, NEW m \in Nat, NEW perYear \in Nat, NEW cap \in Nat, n <= m
             PROVE  AtMostPoints(Rounded(n * perYear, 12), cap) <= AtMostPoints(Rounded(m * perYear, 12), cap)
  OBVIOUS
<1>1. n * perYear \in Nat /\ m * perYear \in Nat /\ n * perYear <= m * perYear
  OBVIOUS
<1>2. PICK a, b \in Nat : a = n * perYear /\ b = m * perYear /\ a <= b
  BY <1>1
<1>3. Rounded(a, 12) \in Nat /\ Rounded(b, 12) \in Nat /\ Rounded(a, 12) <= Rounded(b, 12)
  BY <1>2, RoundedKeepsOrder
<1> QED
  BY <1>2, <1>3 DEF AtMostPoints

LEMMA PointsAreCapped ==
  \A n, perYear, cap \in Nat : AtMostPoints(Rounded(n * perYear, 12), cap) \in 0..cap
<1> SUFFICES ASSUME NEW n \in Nat, NEW perYear \in Nat, NEW cap \in Nat
             PROVE  AtMostPoints(Rounded(n * perYear, 12), cap) \in 0..cap
  OBVIOUS
<1>1. PICK a \in Nat : a = n * perYear
  OBVIOUS
<1>2. Rounded(a, 12) \in Nat
  BY RoundedKeepsOrder
<1> QED
  BY <1>1, <1>2 DEF AtMostPoints

\* Of the figures of a text, the range that counts is one of them.
LEMMA RequiredIsRead ==
  ASSUME NEW mentions \in SUBSET Ranges, RequiredRange(mentions) # Silent
  PROVE  RequiredRange(mentions) \in mentions /\ 12 * RequiredRange(mentions)[2] <= Reasonable
<1>1. PICK read : read = {m \in mentions : 12 * m[2] <= Reasonable}
  OBVIOUS
<1>2. read # {}
  BY <1>1 DEF RequiredRange
<1>4. Reasonable \in Nat /\ YearsAsked \subseteq Nat
  BY SeniorityConstants
<1>3. ASSUME NEW m \in read PROVE m[1] \in 0..Reasonable /\ m[2] \in 0..Reasonable
  <2>1. m[1] \in Nat /\ m[2] \in Nat /\ m[1] <= m[2] /\ 12 * m[2] <= Reasonable
    BY <1>1, <1>4 DEF Ranges
  <2> QED
    BY <1>4, <2>1
<1>5. \E m \in read : \A n \in read : n[2] < m[2] \/ (n[2] = m[2] /\ n[1] <= m[1])
  <2>1. PICK ends : ends = {m[2] : m \in read}
    OBVIOUS
  <2>2. ends \in SUBSET (0..Reasonable) /\ ends # {}
    BY <1>2, <1>3, <2>1
  <2>3. PICK last \in ends : \A e \in ends : e <= last
    BY <1>4, <2>2, LargestNumber
  <2>4. PICK starts : starts = {m[1] : m \in {n \in read : n[2] = last}}
    OBVIOUS
  <2>5. starts \in SUBSET (0..Reasonable) /\ starts # {}
    BY <1>3, <2>1, <2>4
  <2>6. PICK first \in starts : \A e \in starts : e <= first
    BY <1>4, <2>5, LargestNumber
  <2>7. PICK m \in read : m[2] = last /\ m[1] = first
    BY <2>4
  <2>8. ASSUME NEW n \in read PROVE n[2] < m[2] \/ (n[2] = m[2] /\ n[1] <= m[1])
    <3>1. n[2] <= last
      BY <2>1, <2>3
    <3>2. CASE n[2] = last
      <4>1. n[1] \in starts
        BY <2>4, <3>2
      <4> QED
        BY <2>6, <2>7, <3>2, <4>1
    <3>3. CASE n[2] # last
      BY <1>3, <2>7, <3>1, <3>3
    <3> QED
      BY <3>2, <3>3
  <2> QED
    BY <2>8
<1>6. RequiredRange(mentions) \in read
  BY <1>1, <1>2, <1>5 DEF RequiredRange
<1> QED
  BY <1>1, <1>6

\* The penalty is fair before any range of years.
LEMMA PenaltyIsFair ==
  ASSUME NEW months \in Nat, NEW required \in Nat \X Nat, required[1] <= required[2], required # Silent
  PROVE  /\ 12 * required[1] <= months + WindowAbove /\ 12 * required[2] >= months - WindowBelow
              => Penalty(months, required) = 0
         /\ 12 * required[1] > months => Penalty(months, required) <= MaxAbove
         /\ 12 * required[2] < months => Penalty(months, required) <= MaxBelow
         /\ months > 0 /\ 12 * required[1] > months + WindowAbove =>
              Penalty(months - 1, required) >= Penalty(months, required)
         /\ 12 * required[2] < months - WindowBelow =>
              Penalty(months + 1, required) >= Penalty(months, required)
<1>0. /\ WindowBelow \in Nat /\ WindowAbove \in Nat /\ PerYearBelow \in Nat /\ PerYearAbove \in Nat
      /\ MaxBelow \in Nat /\ MaxAbove \in Nat
  BY SeniorityConstants
<1>1. PICK low, high \in Nat : low = 12 * required[1] /\ high = 12 * required[2] /\ low <= high
  OBVIOUS
<1>2. \A m \in Nat : m # Unread
  BY DEF Unread
<1>3. ASSUME NEW m \in Nat, high >= m - WindowBelow, low <= m + WindowAbove
      PROVE  Penalty(m, required) = 0
  BY <1>0, <1>1, <1>2, <1>3 DEF Penalty
<1>4. ASSUME NEW m \in Nat, high < m - WindowBelow
      PROVE  Penalty(m, required) = AtMostPoints(Rounded((m - WindowBelow - high) * PerYearBelow, 12), MaxBelow)
  BY <1>1, <1>2, <1>4 DEF Penalty
<1>5. ASSUME NEW m \in Nat, low > m + WindowAbove
      PROVE  Penalty(m, required) = AtMostPoints(Rounded((low - m - WindowAbove) * PerYearAbove, 12), MaxAbove)
  BY <1>0, <1>1, <1>2, <1>5 DEF Penalty
<1>6. low > months => Penalty(months, required) <= MaxAbove
  <2>1. CASE low > months + WindowAbove
    <3>1. PICK k \in Nat : k = low - months - WindowAbove
      BY <1>0, <1>1, <2>1
    <3>2. PICK points : points = AtMostPoints(Rounded(k * PerYearAbove, 12), MaxAbove)
      OBVIOUS
    <3>3. points \in 0..MaxAbove
      BY <1>0, <3>2, PointsAreCapped
    <3>4. Penalty(months, required) = points
      BY <1>5, <1>1, <2>1, <3>1, <3>2
    <3> QED
      BY <1>0, <3>3, <3>4
  <2>2. CASE low <= months + WindowAbove
    BY <1>0, <1>1, <1>3, <2>2
  <2> QED
    BY <1>0, <1>1, <2>1, <2>2
<1>7. high < months => Penalty(months, required) <= MaxBelow
  <2>1. CASE high < months - WindowBelow
    <3>1. PICK k \in Nat : k = months - WindowBelow - high
      BY <1>0, <1>1, <2>1
    <3>2. PICK points : points = AtMostPoints(Rounded(k * PerYearBelow, 12), MaxBelow)
      OBVIOUS
    <3>3. points \in 0..MaxBelow
      BY <1>0, <3>2, PointsAreCapped
    <3>4. Penalty(months, required) = points
      BY <1>4, <1>1, <2>1, <3>1, <3>2
    <3> QED
      BY <1>0, <3>3, <3>4
  <2>2. CASE high >= months - WindowBelow
    BY <1>0, <1>1, <1>3, <2>2
  <2> QED
    BY <1>0, <1>1, <2>1, <2>2
<1>8. ASSUME months > 0, low > months + WindowAbove
      PROVE  Penalty(months - 1, required) >= Penalty(months, required)
  <2>1. months - 1 \in Nat /\ low > (months - 1) + WindowAbove
    BY <1>0, <1>1, <1>8
  <2>2. PICK near, far \in Nat : near = low - months - WindowAbove /\ far = low - (months - 1) - WindowAbove
    BY <1>0, <1>1, <1>8
  <2>3. near <= far
    BY <1>0, <1>1, <2>2
  <2>4. AtMostPoints(Rounded(near * PerYearAbove, 12), MaxAbove) <= AtMostPoints(Rounded(far * PerYearAbove, 12), MaxAbove)
    BY <1>0, <2>3, MorePointsFurther
  <2>5. /\ Penalty(months, required) = AtMostPoints(Rounded(near * PerYearAbove, 12), MaxAbove)
        /\ Penalty(months - 1, required) = AtMostPoints(Rounded(far * PerYearAbove, 12), MaxAbove)
    BY <1>5, <1>8, <2>1, <2>2
  <2>6. /\ AtMostPoints(Rounded(near * PerYearAbove, 12), MaxAbove) \in 0..MaxAbove
        /\ AtMostPoints(Rounded(far * PerYearAbove, 12), MaxAbove) \in 0..MaxAbove
    BY <1>0, PointsAreCapped
  <2> QED
    BY <1>0, <2>4, <2>5, <2>6
<1>9. ASSUME high < months - WindowBelow
      PROVE  Penalty(months + 1, required) >= Penalty(months, required)
  <2>1. months + 1 \in Nat /\ high < (months + 1) - WindowBelow
    BY <1>0, <1>1, <1>9
  <2>2. PICK near, far \in Nat : near = months - WindowBelow - high /\ far = (months + 1) - WindowBelow - high
    BY <1>0, <1>1, <1>9
  <2>3. near <= far
    BY <1>0, <1>1, <2>2
  <2>4. AtMostPoints(Rounded(near * PerYearBelow, 12), MaxBelow) <= AtMostPoints(Rounded(far * PerYearBelow, 12), MaxBelow)
    BY <1>0, <2>3, MorePointsFurther
  <2>5. /\ Penalty(months, required) = AtMostPoints(Rounded(near * PerYearBelow, 12), MaxBelow)
        /\ Penalty(months + 1, required) = AtMostPoints(Rounded(far * PerYearBelow, 12), MaxBelow)
    BY <1>4, <1>9, <2>1, <2>2
  <2>6. /\ AtMostPoints(Rounded(near * PerYearBelow, 12), MaxBelow) \in 0..MaxBelow
        /\ AtMostPoints(Rounded(far * PerYearBelow, 12), MaxBelow) \in 0..MaxBelow
    BY <1>0, PointsAreCapped
  <2> QED
    BY <1>0, <2>4, <2>5, <2>6
<1> QED
  BY <1>1, <1>3, <1>6, <1>7, <1>8, <1>9

LEMMA SeniorityTyped ==
  /\ SeniorityInit => SeniorityTypeOK
  /\ SeniorityTypeOK /\ [SeniorityNext]_seniorityVars => SeniorityTypeOK'
<1>1. LastMonth \in Nat
  BY SeniorityConstants
<1>2. ASSUME SeniorityInit PROVE SeniorityTypeOK
  <2>1. PICK entry, junior \in BOOLEAN, mentions \in SUBSET Ranges :
          post = [entryLevel |-> entry, junior |-> junior, mentions |-> mentions]
    BY <1>2 DEF SeniorityInit
  <2>2. total \in Blank..LastMonth
    <3>1. total \in {Blank, Unread, 0}
      BY <1>2 DEF SeniorityInit
    <3>2. -2 <= LastMonth /\ -1 <= LastMonth /\ 0 <= LastMonth
      BY <1>1
    <3> QED
      BY <1>1, <3>1, <3>2 DEF Unread, Blank
  <2> QED
    BY <2>1, <2>2 DEF SeniorityTypeOK
<1>3. ASSUME SeniorityTypeOK, [SeniorityNext]_seniorityVars PROVE SeniorityTypeOK'
  <2>1. total' = total \/ (total < LastMonth /\ total' = total + 1)
    BY <1>3 DEF SeniorityNext, MonthGoesBy, seniorityVars
  <2>2. post' = post
    BY <1>3 DEF SeniorityNext, MonthGoesBy, seniorityVars
  <2>3. total \in Blank..LastMonth /\ post.mentions \subseteq Ranges
    BY <1>3 DEF SeniorityTypeOK
  <2>4. total' \in Blank..LastMonth
    BY <1>1, <2>1, <2>3 DEF Blank
  <2> QED
    BY <2>2, <2>3, <2>4 DEF SeniorityTypeOK
<1> QED
  BY <1>2, <1>3

\* Whatever years a CV adds up to and whatever figures an offer mentions, the offer
\* costs nothing in the window, never more than the cap, and never less one month
\* further from it.
THEOREM PenaltiesAreFair == SenioritySpec => []FairPenalty
<1>1. ASSUME SeniorityTypeOK PROVE FairPenalty
  <2>1. PICK months : months = CandidateYears(total)
    OBVIOUS
  <2>2. SUFFICES ASSUME months # Unread, Asked # Silent
                 PROVE  /\ 12 * Asked[1] <= months + WindowAbove /\ 12 * Asked[2] >= months - WindowBelow
                             => Penalty(months, Asked) = 0
                        /\ 12 * Asked[1] > months => Penalty(months, Asked) <= MaxAbove
                        /\ 12 * Asked[2] < months => Penalty(months, Asked) <= MaxBelow
                        /\ months > 0 /\ 12 * Asked[1] > months + WindowAbove =>
                             Penalty(months - 1, Asked) >= Penalty(months, Asked)
                        /\ months < Reasonable /\ 12 * Asked[2] < months - WindowBelow =>
                             Penalty(months + 1, Asked) >= Penalty(months, Asked)
    BY <2>1 DEF FairPenalty
  <2>3. months \in Nat
    BY <1>1, <2>1, <2>2, SeniorityConstants DEF CandidateYears, SeniorityTypeOK, Blank
  <2>4. Asked \in Nat \X Nat /\ Asked[1] <= Asked[2]
    <3>1. Asked \in Ranges
      BY <1>1, <2>2, RequiredIsRead DEF Asked, SeniorityTypeOK
    <3>2. YearsAsked \subseteq Nat
      BY SeniorityConstants
    <3> QED
      BY <3>1, <3>2 DEF Ranges
  <2> QED
    BY <2>2, <2>3, <2>4, PenaltyIsFair
<1> QED
  BY <1>1, SeniorityTyped, PTL DEF SenioritySpec

-------------------------------------------------------------------------------
(* The regret index                                                          *)

(* The job is the only writer: what it read of an employer is still stored.   *)
AtHand(pc) == pc \in {"ratings", "indeed", "saving"}
AnswerTyped(answer) == answer = Unanswered \/ answer \in SUBSET Posts

RegretInv ==
    /\ DOMAIN regret = Keys /\ DOMAIN reviews = Keys
    /\ \A k \in Keys : regret[k] # NoProfile => regret[k].score \in 0..100 /\ regret[k].count \in Nat
    /\ \A k \in Keys : DOMAIN reviews[k] = Sources /\ \A s \in Sources : reviews[k][s] \subseteq Posts
    /\ job.pc \in {"idle", "next", "ratings", "indeed", "saving"}
    /\ job.pc # "idle" => job.left \subseteq Employers
    /\ AtHand(job.pc) => /\ job.key \in Keys /\ job.existing = regret[job.key]
                         /\ job.ratings \in Ratings \cup {Unanswered}
    /\ job.pc \in {"indeed", "saving"} => /\ AnswerTyped(job.simplyhired) /\ AnswerTyped(job.indeed)
                                          /\ job.posts \subseteq Posts
    /\ job.pc = "indeed" =>
         DOMAIN job = {"pc", "left", "key", "existing", "ratings", "simplyhired", "page", "posts", "indeed", "failed"}

LEMMA RegretStarts == RegretInit => RegretInv
<1> SUFFICES ASSUME RegretInit PROVE RegretInv
  OBVIOUS
<1>1. job.pc = "idle"
  BY DEF RegretInit, NoJob
<1> QED
  BY <1>1 DEF RegretInit, RegretInv, AtHand

\* Whatever a page says, what is stored of it is a score.
LEMMA ScoresAreScores ==
  ASSUME NEW ratings \in Ratings \cup {Unanswered}
  PROVE  ProfileValues(ratings).score \in 0..100 /\ ProfileValues(ratings).count \in Nat
<1>1. Unavailable(0).score = 0 /\ Unavailable(0).count = 0
  BY DEF Unavailable
<1>2. CASE ratings = Unanswered
  BY <1>1, <1>2 DEF ProfileValues
<1>3. CASE ratings # Unanswered /\ ratings.reviews < MinReviews
  <2>1. ratings.reviews \in Nat
    BY <1>3, RegretAssumption
  <2>2. PICK row : row = [Unavailable(ratings.reviews) EXCEPT !.tenths = ratings.tenths]
    OBVIOUS
  <2>3. row.score = 0 /\ row.count = ratings.reviews
    BY <2>2 DEF Unavailable
  <2> QED
    BY <1>3, <2>1, <2>2, <2>3 DEF ProfileValues
<1>4. CASE ratings # Unanswered /\ ~(ratings.reviews < MinReviews)
  <2>1. ratings.tenths \in Int /\ ratings.reviews \in Nat
    BY <1>4, RegretAssumption
  <2>2. ScoreOf(ratings.tenths) \in 0..100
    BY <2>1 DEF ScoreOf, Clamped
  <2> QED
    BY <1>4, <2>1, <2>2 DEF ProfileValues
<1> QED
  BY <1>2, <1>3, <1>4

LEMMA RegretStep ==
  ASSUME RegretInv, [RegretNext]_regretVars
  PROVE  RegretInv'
<1>1. CASE UNCHANGED regretVars
  BY <1>1 DEF regretVars, RegretInv
<1>2. CASE StartMonth
  <2>1. PICK r : r = [pc |-> "next", left |-> Employers]
    OBVIOUS
  <2>2. job' = r /\ r.pc = "next" /\ r.left = Employers /\ UNCHANGED <<regret, reviews>>
    BY <1>2, <2>1 DEF StartMonth
  <2> QED
    BY <2>2 DEF RegretInv, AtHand
<1>3. ASSUME NEW n \in Employers, NEW ratings \in Ratings \cup {Unanswered}, FetchRatings(n, ratings)
      PROVE  RegretInv'
  <2>1. PICK r : r = [pc |-> "ratings", left |-> job.left \ {n}, key |-> Folded[n],
                      existing |-> regret[Folded[n]], ratings |-> ratings]
    OBVIOUS
  <2>2. /\ job' = r /\ r.pc = "ratings" /\ r.left = job.left \ {n} /\ r.key = Folded[n]
        /\ r.existing = regret[Folded[n]] /\ r.ratings = ratings /\ UNCHANGED <<regret, reviews>>
    BY <1>3, <2>1 DEF FetchRatings
  <2>3. job.left \subseteq Employers /\ Folded[n] \in Keys
    BY <1>3 DEF FetchRatings, RegretInv, Keys
  <2> QED
    BY <2>2, <2>3 DEF RegretInv, AtHand
<1>4. CASE MonthDone
  <2>1. job'.pc = "idle" /\ UNCHANGED <<regret, reviews>>
    BY <1>4 DEF MonthDone, NoJob
  <2> QED
    BY <2>1 DEF RegretInv, AtHand
<1>5. ASSUME NEW answer \in (SUBSET Posts) \cup {Unanswered}, FetchReviews(answer) PROVE RegretInv'
  <2>1. PICK r : r = [pc |-> "indeed", left |-> job.left, key |-> job.key, existing |-> job.existing,
                      ratings |-> job.ratings, simplyhired |-> answer,
                      page |-> 0, posts |-> {}, indeed |-> Unanswered, failed |-> FALSE]
    OBVIOUS
  <2>2. /\ job' = r /\ r.pc = "indeed" /\ r.left = job.left /\ r.key = job.key
        /\ r.existing = job.existing /\ r.ratings = job.ratings /\ r.simplyhired = answer
        /\ r.posts = {} /\ r.indeed = Unanswered /\ job.pc = "ratings" /\ UNCHANGED <<regret, reviews>>
        /\ DOMAIN r = {"pc", "left", "key", "existing", "ratings", "simplyhired", "page", "posts", "indeed", "failed"}
    BY <1>5, <2>1 DEF FetchReviews
  <2> QED
    BY <2>2 DEF RegretInv, AtHand, AnswerTyped
<1>6. ASSUME NEW answer \in (SUBSET Posts) \cup {Unanswered}, FetchIndeedPage(answer) PROVE RegretInv'
  <2>1. PICK ends, posts : /\ ends = (answer \in {Unanswered, {}} \/ job.page + 1 = MaxPages)
                           /\ posts = IF answer = Unanswered THEN job.posts ELSE job.posts \cup answer
    OBVIOUS
  <2>2. PICK page, failed : page = (IF ends THEN MaxPages ELSE job.page + 1)
                            /\ failed = (job.failed \/ answer = Unanswered)
    OBVIOUS
  <2>3. PICK r : r = [job EXCEPT !.page = page, !.posts = posts, !.indeed = posts, !.failed = failed]
    OBVIOUS
  <2>4. job' = r /\ job.pc = "indeed" /\ UNCHANGED <<regret, reviews>>
    BY <1>6, <2>1, <2>2, <2>3 DEF FetchIndeedPage
  <2>5. posts \subseteq Posts
    BY <1>6, <2>1, <2>4 DEF RegretInv
  <2>6. DOMAIN job = {"pc", "left", "key", "existing", "ratings", "simplyhired", "page", "posts", "indeed", "failed"}
    BY <2>4 DEF RegretInv
  <2>7. /\ r.pc = "indeed" /\ r.left = job.left /\ r.key = job.key
        /\ r.existing = job.existing /\ r.ratings = job.ratings /\ r.simplyhired = job.simplyhired
        /\ r.posts = posts /\ r.indeed = posts /\ DOMAIN r = DOMAIN job
    BY <2>3, <2>4, <2>6
  <2> QED
    BY <2>4, <2>5, <2>6, <2>7 DEF RegretInv, AtHand, AnswerTyped
<1>7. CASE SkipIndeed
  <2>1. job.pc = "indeed" /\ UNCHANGED <<regret, reviews>>
    BY <1>7 DEF SkipIndeed
  <2>2. DOMAIN job = {"pc", "left", "key", "existing", "ratings", "simplyhired", "page", "posts", "indeed", "failed"}
    BY <2>1 DEF RegretInv
  <2>3. /\ job'.pc = "saving" /\ job'.left = job.left /\ job'.key = job.key
        /\ job'.existing = job.existing /\ job'.ratings = job.ratings /\ job'.simplyhired = job.simplyhired
        /\ job'.posts = job.posts /\ job'.indeed = Unanswered
    BY <1>7, <2>2 DEF SkipIndeed
  <2> QED
    BY <2>1, <2>3 DEF RegretInv, AtHand, AnswerTyped
<1>8. CASE IndeedRead
  <2>1. job.pc = "indeed" /\ UNCHANGED <<regret, reviews>>
    BY <1>8 DEF IndeedRead
  <2>2. DOMAIN job = {"pc", "left", "key", "existing", "ratings", "simplyhired", "page", "posts", "indeed", "failed"}
    BY <2>1 DEF RegretInv
  <2>3. /\ job'.pc = "saving" /\ job'.left = job.left /\ job'.key = job.key
        /\ job'.existing = job.existing /\ job'.ratings = job.ratings /\ job'.simplyhired = job.simplyhired
        /\ job'.posts = job.posts /\ job'.indeed = job.indeed
    BY <1>8, <2>2 DEF IndeedRead
  <2> QED
    BY <2>1, <2>3 DEF RegretInv, AtHand, AnswerTyped
<1>9. CASE SaveEmployer
  <2>1. PICK key : key = job.key
    OBVIOUS
  <2>2. /\ job.pc = "saving" /\ key \in Keys /\ job.ratings \in Ratings \cup {Unanswered}
        /\ AnswerTyped(job.simplyhired) /\ AnswerTyped(job.indeed) /\ job.left \subseteq Employers
    BY <1>9, <2>1 DEF SaveEmployer, RegretInv, AtHand
  <2>3. job'.pc = "next" /\ job'.left = job.left
    BY <1>9 DEF SaveEmployer
  <2>4. DOMAIN regret' = Keys /\ \A k \in Keys : regret'[k] # NoProfile =>
          regret'[k].score \in 0..100 /\ regret'[k].count \in Nat
    BY <1>9, <2>1, <2>2, ScoresAreScores DEF SaveEmployer, RegretInv
  <2>5. DOMAIN reviews' = Keys /\ \A k \in Keys :
          DOMAIN reviews'[k] = Sources /\ \A s \in Sources : reviews'[k][s] \subseteq Posts
    BY <1>9, <2>1, <2>2 DEF SaveEmployer, RegretInv, AnswerTyped, Replaced, SimplyHiredStored
  <2> QED
    BY <2>2, <2>3, <2>4, <2>5 DEF RegretInv, AtHand
<1>10. CASE EmployerFails
  <2>1. UNCHANGED <<regret, reviews>> /\ (job'.pc = "idle" \/ (job'.pc = "next" /\ job'.left = job.left))
        /\ job.pc # "idle"
    BY <1>10 DEF EmployerFails, NoJob
  <2> QED
    BY <2>1 DEF RegretInv, AtHand
<1>11. CASE Reconfigure
  BY <1>11 DEF Reconfigure, RegretInv
<1> QED
  BY <1>1, <1>2, <1>3, <1>4, <1>5, <1>6, <1>7, <1>8, <1>9, <1>10, <1>11 DEF RegretNext

LEMMA RegretTyped == RegretInv => RegretTypeOK
BY DEF RegretInv, RegretTypeOK

\* The score of an employer changes only by a page that was read: a failed month
\* takes away nothing that was known.
THEOREM FailuresTakeNothing == RegretSpec => FailureKeepsScore
<1>1. ASSUME RegretInv, [RegretNext]_regretVars,
             NEW k \in Keys, regret'[k] # regret[k], regret[k] # NoProfile
      PROVE  job.ratings # Unanswered
  <2>1. SaveEmployer
    BY <1>1 DEF RegretNext, regretVars, StartMonth, MonthDone, SkipIndeed, IndeedRead, EmployerFails,
                Reconfigure, FetchRatings, FetchReviews, FetchIndeedPage
  <2>2. job.pc = "saving" /\ job.key = k /\ ~KeepsKnown(job.existing, job.ratings)
    BY <1>1, <2>1 DEF SaveEmployer, RegretInv
  <2>3. job.existing = regret[k]
    BY <1>1, <2>2 DEF RegretInv, AtHand
  <2> QED
    BY <1>1, <2>2, <2>3 DEF KeepsKnown
<1>2. RegretInv /\ [RegretNext]_regretVars =>
        [\A k \in Keys : regret'[k] # regret[k] /\ regret[k] # NoProfile => job.ratings # Unanswered]_regretVars
  BY <1>1
<1> QED
  BY <1>2, RegretStarts, RegretStep, PTL DEF RegretSpec, FailureKeepsScore

-------------------------------------------------------------------------------
(* The French labels of skills                                               *)

Meanings == {"none", "french", "plain"}
PassTypes == [pc : {"idle", "asking"}, pending : SUBSET Analyses, known : SUBSET Terms,
             chunks : SUBSET (SUBSET Terms), fresh : SUBSET Terms, forgot : SUBSET Terms]

(* What a pass read in the glossary is still there: nothing leaves it. What     *)
(* it means to store is named in no other pass's invariant: a key another pass  *)
(* stored first is in the glossary all the same.                               *)
LInv ==
  /\ analysed \subseteq Analyses /\ flagged \subseteq Analyses
  /\ glossary \in [Terms -> Meanings]
  /\ pass \in [Passes -> PassTypes]
  /\ \A p \in Passes : pass[p].known \subseteq InGlossary
  /\ FlaggedIsLabelled

(* The names of a set of matches are names.                                    *)
LEMMA NamesAreTerms ==
  ASSUME NEW matches \in SUBSET Analyses
  PROVE  TermsIn(matches) \subseteq Terms
  BY LabelConstants DEF TermsIn

LEMMA LInvInit == LabelInit => LInv
  BY DEF LabelInit, LInv, Meanings, PassTypes, NoPass, InGlossary, TermsIn, FlaggedIsLabelled

-----------------------------------------------------------------------------
(* The steps that leave the glossary and the flags alone: it is enough that     *)
(* the pass that moved has its type and read what the glossary holds.          *)
LEMMA OnePassMoves ==
  ASSUME LInv, NEW p \in Passes, NEW new \in PassTypes, new.known \subseteq InGlossary,
         pass' = [pass EXCEPT ![p] = new], UNCHANGED <<analysed, flagged, glossary>>
  PROVE  LInv'
  <1>1. pass' \in [Passes -> PassTypes]
    BY DEF LInv
  <1>2. InGlossary' = InGlossary
    BY DEF InGlossary
  <1>3. \A q \in Passes : pass'[q].known \subseteq InGlossary'
    BY <1>2 DEF LInv
  <1>4. FlaggedIsLabelled'
    BY <1>2 DEF LInv, FlaggedIsLabelled, TermsIn
  <1> QED
    BY <1>1, <1>3, <1>4 DEF LInv

LEMMA StartsWithWhatIsThere ==
  ASSUME LInv, NEW p \in Passes, StartPass(p)
  PROVE  LInv'
  <1>1. PICK pending \in PendingChoices :
          \E chunks \in ChunksOf(TermsIn(pending) \ InGlossary) :
            pass' = [pass EXCEPT ![p] =
              [pc |-> "asking", pending |-> pending, chunks |-> chunks,
               known |-> TermsIn(pending) \cap InGlossary, fresh |-> {}, forgot |-> {}]]
    BY DEF StartPass
  <1>2. PICK chunks \in ChunksOf(TermsIn(pending) \ InGlossary) :
          pass' = [pass EXCEPT ![p] =
            [pc |-> "asking", pending |-> pending, chunks |-> chunks,
             known |-> TermsIn(pending) \cap InGlossary, fresh |-> {}, forgot |-> {}]]
    BY <1>1
  <1>3. pending \in SUBSET Analyses
    BY DEF PendingChoices, LInv
  <1>4. TermsIn(pending) \subseteq Terms
    BY <1>3, NamesAreTerms
  <1>5. chunks \in SUBSET (SUBSET Terms)
    BY <1>4 DEF ChunksOf
  <1> DEFINE new == [pc |-> "asking", pending |-> pending, chunks |-> chunks,
                     known |-> TermsIn(pending) \cap InGlossary, fresh |-> {}, forgot |-> {}]
  <1>6. new \in PassTypes /\ new.known \subseteq InGlossary
    BY <1>3, <1>4, <1>5 DEF PassTypes
  <1> QED
    BY <1>2, <1>6, OnePassMoves DEF StartPass

LEMMA AnswersAreNames ==
  ASSUME LInv, NEW p \in Passes, NEW c \in pass[p].chunks, NEW f \in SUBSET c, ChunkAnswered(p, c, f)
  PROVE  LInv'
  <1> DEFINE new == [pass[p] EXCEPT !.chunks = @ \ {c}, !.fresh = @ \cup c, !.forgot = @ \cup f]
  <1>1. pass[p] \in PassTypes /\ c \subseteq Terms
    BY DEF LInv, PassTypes
  <1>2. new \in PassTypes /\ new.known = pass[p].known
    BY <1>1 DEF PassTypes
  <1>3. pass' = [pass EXCEPT ![p] = new]
    BY DEF ChunkAnswered
  <1>4. new.known \subseteq InGlossary
    BY <1>2 DEF LInv
  <1> HIDE DEF new
  <1> QED
    BY <1>2, <1>3, <1>4, OnePassMoves DEF ChunkAnswered

LEMMA RefusedChunk ==
  ASSUME LInv, NEW p \in Passes, NEW c \in pass[p].chunks, ChunkFailed(p, c)
  PROVE  LInv'
  <1> DEFINE new == [pass[p] EXCEPT !.chunks = @ \ {c}]
  <1>1. new \in PassTypes /\ new.known = pass[p].known
    BY DEF LInv, PassTypes
  <1>2. pass' = [pass EXCEPT ![p] = new]
    BY DEF ChunkFailed
  <1>3. new.known \subseteq InGlossary
    BY <1>1 DEF LInv
  <1> HIDE DEF new
  <1> QED
    BY <1>1, <1>2, <1>3, OnePassMoves DEF ChunkFailed

LEMMA LostPass ==
  ASSUME LInv, NEW p \in Passes, PassFails(p)
  PROVE  LInv'
  <1>1. NoPass \in PassTypes /\ NoPass.known = {}
    BY DEF NoPass, PassTypes
  <1> QED
    BY <1>1, OnePassMoves DEF PassFails

(* The commit: the glossary keeps what it had, gains what was answered, and so  *)
(* has every name of the matches flagged.                                     *)
LEMMA FlagsWithTheirLabels ==
  ASSUME LInv, NEW p \in Passes, FinishPass(p)
  PROVE  LInv'
  <1>1. glossary' \in [Terms -> Meanings]
    BY DEF FinishPass, LInv, Meanings, Kept
  <1>2. InGlossary \subseteq InGlossary' /\ pass[p].fresh \subseteq InGlossary'
    BY DEF FinishPass, LInv, InGlossary, Kept, Meanings, PassTypes
  <1>3. pass' \in [Passes -> PassTypes]
    BY DEF FinishPass, LInv, NoPass, PassTypes
  <1>4. \A q \in Passes : pass'[q].known \subseteq InGlossary'
    <2>1. \A q \in Passes : pass'[q].known \subseteq pass[q].known
      BY DEF FinishPass, LInv, NoPass
    <2> QED
      BY <1>2, <2>1 DEF LInv
  <1>5. \A m \in pass[p].pending : Complete(pass[p], m) => TermsOf[m] \subseteq InGlossary'
    BY <1>2 DEF LInv, Complete
  <1>6. FlaggedIsLabelled'
    BY <1>2, <1>5 DEF FinishPass, LInv, FlaggedIsLabelled, TermsIn
  <1>7. flagged' \subseteq Analyses /\ analysed' \subseteq Analyses
    BY DEF FinishPass, LInv, PassTypes
  <1> QED
    BY <1>1, <1>3, <1>4, <1>6, <1>7 DEF LInv

LEMMA LInvNext == LInv /\ [LabelNext]_labelVars => LInv'
  <1> SUFFICES ASSUME LInv, [LabelNext]_labelVars PROVE LInv'
    OBVIOUS
  <1>1. ASSUME NEW m \in Analyses, AnalysisStored(m) PROVE LInv'
    BY <1>1 DEF AnalysisStored, LInv, InGlossary, TermsIn, FlaggedIsLabelled
  <1>2. ASSUME NEW p \in Passes, StartPass(p) \/ FinishPass(p) \/ PassFails(p) PROVE LInv'
    BY <1>2, StartsWithWhatIsThere, FlagsWithTheirLabels, LostPass
  <1>3. ASSUME NEW p \in Passes, NEW c \in pass[p].chunks,
               ChunkFailed(p, c) \/ \E f \in SUBSET c : ChunkAnswered(p, c, f)
        PROVE  LInv'
    BY <1>3, RefusedChunk, AnswersAreNames
  <1>4. CASE UNCHANGED labelVars
    BY <1>4 DEF labelVars, LInv, InGlossary, TermsIn, FlaggedIsLabelled
  <1> QED
    BY <1>1, <1>2, <1>3, <1>4 DEF LabelNext

(* What is flagged, and what a pass is asking about, has an analysis.          *)
LabelsHeld ==
  /\ flagged \subseteq analysed /\ asked \in 0..MaxAsked
  /\ \A p \in Passes : pass[p].pending \subseteq analysed

LEMMA LabelsHeldStart == LabelInit => LabelsHeld
  BY LabelConstants DEF LabelInit, LabelsHeld, NoPass

LEMMA LabelsHeldStep == LInv /\ LabelsHeld /\ [LabelNext]_labelVars => LabelsHeld'
  <1> SUFFICES ASSUME LInv, LabelsHeld, [LabelNext]_labelVars PROVE LabelsHeld'
    OBVIOUS
  <1>0. pass \in [Passes -> PassTypes] /\ NoPass.pending = {}
    BY DEF LInv, NoPass
  <1>1. ASSUME NEW m \in Analyses, AnalysisStored(m) PROVE LabelsHeld'
    BY <1>1 DEF AnalysisStored, LabelsHeld
  <1>2. ASSUME NEW p \in Passes, StartPass(p) PROVE LabelsHeld'
    <2>0. PICK pending \in PendingChoices :
            \E chunks \in ChunksOf(TermsIn(pending) \ InGlossary) :
              /\ asked + Cardinality(chunks) <= MaxAsked /\ asked' = asked + Cardinality(chunks)
              /\ pass' = [pass EXCEPT ![p] =
                   [pc |-> "asking", pending |-> pending, chunks |-> chunks,
                    known |-> TermsIn(pending) \cap InGlossary, fresh |-> {}, forgot |-> {}]]
      BY <1>2 DEF StartPass
    <2>1. PICK chunks \in ChunksOf(TermsIn(pending) \ InGlossary) :
            /\ asked + Cardinality(chunks) <= MaxAsked /\ asked' = asked + Cardinality(chunks)
            /\ pass' = [pass EXCEPT ![p] =
                 [pc |-> "asking", pending |-> pending, chunks |-> chunks,
                  known |-> TermsIn(pending) \cap InGlossary, fresh |-> {}, forgot |-> {}]]
      BY <2>0
    <2>2. pending \subseteq analysed
      BY DEF PendingChoices
    <2>3. Cardinality(chunks) \in Nat
      <3>1. TermsIn(pending) \subseteq Terms
        BY <2>2, NamesAreTerms DEF LInv
      <3>2. chunks \subseteq SUBSET Terms
        BY <3>1 DEF ChunksOf
      <3>3. IsFiniteSet(SUBSET Terms)
        BY LabelConstants, FS_SUBSET
      <3> QED
        BY <3>2, <3>3, FS_Subset, FS_CardinalityType
    <2>4. asked' \in 0..MaxAsked
      BY <2>1, <2>3, LabelConstants DEF LabelsHeld
    <2>5. \A q \in Passes : pass'[q].pending \subseteq analysed
      BY <1>0, <2>1, <2>2 DEF LabelsHeld
    <2> QED
      BY <1>2, <2>4, <2>5 DEF StartPass, LabelsHeld
  <1>3. ASSUME NEW p \in Passes, FinishPass(p) \/ PassFails(p) PROVE LabelsHeld'
    <2>1. flagged' \subseteq flagged \cup pass[p].pending /\ analysed' = analysed /\ asked' = asked
      BY <1>3 DEF FinishPass, PassFails
    <2>2. \A q \in Passes : pass'[q].pending \subseteq analysed
      BY <1>0, <1>3 DEF FinishPass, PassFails, LabelsHeld
    <2> QED
      BY <2>1, <2>2 DEF LabelsHeld
  <1>4. ASSUME NEW p \in Passes, NEW c \in pass[p].chunks, NEW f \in SUBSET c,
               ChunkFailed(p, c) \/ ChunkAnswered(p, c, f)
        PROVE  LabelsHeld'
    <2>1. \A q \in Passes : pass'[q].pending = pass[q].pending
      BY <1>0, <1>4 DEF ChunkFailed, ChunkAnswered, PassTypes
    <2> QED
      BY <1>4, <2>1 DEF ChunkFailed, ChunkAnswered, LabelsHeld
  <1>5. CASE UNCHANGED labelVars
    BY <1>5 DEF labelVars, LabelsHeld
  <1> QED
    BY <1>1, <1>2, <1>3, <1>4, <1>5 DEF LabelNext

\* The types of the component, for the composition.
LEMMA LabelsTyped == LInv /\ LabelsHeld => LabelTypeOK
  BY DEF LInv, LabelsHeld, PassTypes, Meanings, LabelTypeOK

(* Whatever passes overlap, chunks fail and commits are lost, a match is never   *)
(* flagged while one of its names has no label (skill_labels_service.py:70-88): *)
(* the flag is what keeps every later pass from looking at it.                 *)
THEOREM FlaggedForGood == LabelSpec => []FlaggedIsLabelled
  <1>1. LInv => FlaggedIsLabelled
    BY DEF LInv
  <1> QED
    BY <1>1, LInvInit, LInvNext, PTL DEF LabelSpec

-------------------------------------------------------------------------------
(* The components side by side: each behaves as it does alone                *)

\* A step moves one component and leaves the others: it is a step of each, or none.
LEMMA OfferPartsStep ==
  ASSUME [OffersNext]_offersVars
  PROVE  /\ [MarketNext]_marketVars /\ [PreferenceNext]_preferenceVars /\ [SeniorityNext]_seniorityVars
         /\ [CrawlNext]_crawlVars /\ [IngestionNext]_ingestionVars /\ [RegretNext]_regretVars
         /\ [LabelNext]_labelVars /\ [ContentNext]_contentVars
<1>1. CASE UNCHANGED offersVars
  BY <1>1 DEF offersVars
<1>2. CASE OnlyMoves("market") /\ MarketNext
  BY <1>2 DEF OnlyMoves
<1>3. CASE OnlyMoves("preferences") /\ PreferenceNext
  BY <1>3 DEF OnlyMoves
<1>4. CASE OnlyMoves("seniority") /\ SeniorityNext
  BY <1>4 DEF OnlyMoves
<1>5. CASE OnlyMoves("crawl") /\ CrawlNext
  BY <1>5 DEF OnlyMoves
<1>6. CASE OnlyMoves("ingestion") /\ IngestionNext
  BY <1>6 DEF OnlyMoves
<1>7. CASE OnlyMoves("regret") /\ RegretNext
  BY <1>7 DEF OnlyMoves
<1>8. CASE OnlyMoves("labels") /\ LabelNext
  BY <1>8 DEF OnlyMoves
<1>9. CASE OnlyMoves("digest") /\ ContentNext
  BY <1>9 DEF OnlyMoves
<1> QED
  BY <1>1, <1>2, <1>3, <1>4, <1>5, <1>6, <1>7, <1>8, <1>9 DEF OffersNext

(* What is true of a component by itself is true of it beside the others: a      *)
(* behaviour of the composition is, for each component, one of its own.       *)
THEOREM OffersCompose ==
  OffersSpec => /\ MarketSpec /\ PreferenceSpec /\ SenioritySpec /\ CrawlSpec /\ IngestionSpec
                /\ RegretSpec /\ LabelSpec /\ ContentSpec
<1>1. OffersInit => /\ MarketInit /\ PreferenceInit /\ SeniorityInit /\ CrawlInit /\ IngestionInit
                    /\ RegretInit /\ LabelInit /\ ContentInit
  BY DEF OffersInit
<1>2. [OffersNext]_offersVars =>
         /\ [MarketNext]_marketVars /\ [PreferenceNext]_preferenceVars /\ [SeniorityNext]_seniorityVars
         /\ [CrawlNext]_crawlVars /\ [IngestionNext]_ingestionVars /\ [RegretNext]_regretVars
         /\ [LabelNext]_labelVars /\ [ContentNext]_contentVars
  BY OfferPartsStep
<1>3. OffersSpec => OffersInit /\ [][OffersNext]_offersVars
  BY DEF OffersSpec
<1> QED
  BY <1>1, <1>2, <1>3, PTL DEF MarketSpec, PreferenceSpec, SenioritySpec, CrawlSpec, IngestionSpec,
                               RegretSpec, LabelSpec, ContentSpec

(* Every component keeps its variables in the types its module declares: the rows *)
(* of the pool and what is drawn from them never hold what the code cannot read. *)
THEOREM OffersAreTyped == OffersSpec => []OffersTypeOK
<1>1. PreferenceSpec => []PreferenceTypeOK
  BY FilterStarts, FilterStep, FilterTyped, PTL DEF PreferenceSpec
<1>2. SenioritySpec => []SeniorityTypeOK
  BY SeniorityTyped, PTL DEF SenioritySpec
<1>3. CrawlSpec => []CrawlTypeOK
  BY CrawlStarts, CrawlStep, CrawlTyped, PTL DEF CrawlSpec
<1>4. IngestionSpec => []IngestionTypeOK
  BY PoolTypesStart, PoolTypesStep, PoolTyped, PTL DEF IngestionSpec
<1>5. RegretSpec => []RegretTypeOK
  BY RegretStarts, RegretStep, RegretTyped, PTL DEF RegretSpec
<1>6. LabelSpec => []LabelTypeOK
  BY LInvInit, LInvNext, LabelsHeldStart, LabelsHeldStep, LabelsTyped, PTL DEF LabelSpec
<1>7. ContentSpec => []ContentTypeOK
  BY ContentStarts, ContentStep, ContentTyped, PTL DEF ContentSpec
<1>8. CollectionTypeOK /\ DigestTypeOK /\ PreferenceTypeOK /\ SeniorityTypeOK /\ CrawlTypeOK
      /\ IngestionTypeOK /\ RegretTypeOK /\ LabelTypeOK /\ ContentTypeOK => OffersTypeOK
  BY DEF OffersTypeOK
<1> QED
  BY <1>1, <1>2, <1>3, <1>4, <1>5, <1>6, <1>7, <1>8, MarketTyped, OffersCompose, PTL

(* What the components promise, they promise together: the digest goes once a    *)
(* week and tells one story, the filter has one answer, the penalty is fair, the  *)
(* crawl knows what it missed but for two cases, an offer is ranked by its text,   *)
(* what is flagged is labelled, a failed month takes no score away.              *)
THEOREM OffersKeepTheirPromises ==
  OffersSpec => /\ [](AutoOncePerWeek /\ DigestAgrees /\ FiltersAgree /\ FairPenalty /\ MissesAreKnown
                       /\ VectorOfText /\ FlaggedIsLabelled)
                /\ FailureKeepsScore
  BY OffersCompose, DigestOnceAWeek, DigestTellsOneStory, FiltersGiveOneAnswer, PenaltiesAreFair,
     CrawlForgetsNothing, VectorsFollowTheText, FlaggedForGood, FailuresTakeNothing, PTL
===============================================================================
