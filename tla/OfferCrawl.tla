------------------------------- MODULE OfferCrawl -------------------------------
(***************************************************************************)
(* The bulk crawl of France Travail (offers/providers/france_travail.py):     *)
(* every offer created in a window of time, although one search tells at most  *)
(* a thousand of them. A window that holds more is cut by département, then in  *)
(* two, until each slice fits; a slice or a page whose calls keep failing is   *)
(* set down for the next run, and the crawl goes on.                          *)
(***************************************************************************)
EXTENDS Integers, Sequences, FiniteSets, SequencesExt

CONSTANTS
  Ads,           \* offers of the source, numbered in the order of a search
  Departements,  \* those the crawl asks for one by one
  Window,        \* <<since, until>> in seconds
  MaxPerSearch,  \* _MAX_PER_SEARCH
  PageSize,      \* _PAGE_SIZE
  MinSplit,      \* _MIN_SPLIT_SECONDS
  PageAttempts,  \* _PAGE_ATTEMPTS
  MaxRefusals,   \* bound of the checks: calls that fail or tell no total
  MaxWithdrawn   \* bound of the checks: offers taken down during the crawl

ASSUME CrawlConstants ==
  /\ Ads \subseteq Nat /\ IsFiniteSet(Ads) /\ IsFiniteSet(Departements)
  /\ {MaxPerSearch, PageSize, PageAttempts} \subseteq Nat \ {0}
  /\ Window \in Nat \X Nat /\ Window[1] <= Window[2]
  /\ {MinSplit, MaxRefusals, MaxWithdrawn} \subseteq Nat

VARIABLES
  online,   \* Ads -> <<second of creation, département>>, for those online
  slices,   \* slices and pages still to ask for, the next one first
  attempt,  \* calls of the next one that failed
  fetched,  \* offers handed to the import
  setDown,  \* failed_slices
  overCap,  \* slices too small to cut that hold more than a search tells
  refusals, withdrawn,
  untold    \* history: slices whose answer told no total

crawlVars ==
  <<online, slices, attempt, fetched, setDown, overCap, refusals, withdrawn, untold>>

Abroad == "abroad"   \* a place with no code among DEPARTEMENTS
France == "all"      \* no département filter

Slice(lo, hi, dept) == [kind |-> "slice", lo |-> lo, hi |-> hi, dept |-> dept, from |-> 0, to |-> 0]
PageOf(slice, from, to) == [slice EXCEPT !.kind = "page", !.from = from, !.to = to]

(* What the source answers: both ends of the window are included.               *)
Found(slice) ==
  {a \in DOMAIN online : /\ slice.lo <= online[a][1] /\ online[a][1] <= slice.hi
                         /\ slice.dept \in {France, online[a][2]}}
Rank(slice, a) == Cardinality({b \in Found(slice) : b <= a})

(* A page is a range of the ranks; what was counted before may be gone.          *)
Listed(slice) ==
  IF slice.kind = "slice" THEN Found(slice)
  ELSE {a \in Found(slice) : Rank(slice, a) \in slice.from..slice.to}

CrawlInit ==
  /\ online \in [Ads -> (Window[1]..Window[2]) \X (Departements \cup {Abroad})]
  /\ slices = <<Slice(Window[1], Window[2], France)>>
  /\ attempt = 0
  /\ fetched = {} /\ setDown = {} /\ overCap = {}
  /\ refusals = 0 /\ withdrawn = 0
  /\ untold = {}

Asking == slices # <<>>
Current == Head(slices)
GoesOn(more) == slices' = more \o Tail(slices) /\ attempt' = 0

-----------------------------------------------------------------------------
(* _page: a call that fails is tried again, a refused token renewed; then the    *)
(* slice, or the page, is set down.                                           *)
CallFails ==
  /\ Asking
  /\ refusals < MaxRefusals
  /\ refusals' = refusals + 1
  /\ IF attempt + 1 < PageAttempts
     THEN attempt' = attempt + 1 /\ UNCHANGED <<slices, setDown>>
     ELSE setDown' = setDown \cup {Current} /\ GoesOn(<<>>)
  /\ UNCHANGED <<online, fetched, overCap, withdrawn, untold>>

(* An error no retry can mend.                                                *)
CallRefused ==
  /\ Asking
  /\ refusals < MaxRefusals
  /\ refusals' = refusals + 1
  /\ setDown' = setDown \cup {Current}
  /\ GoesOn(<<>>)
  /\ UNCHANGED <<online, fetched, overCap, withdrawn, untold>>

Middle(slice) == (slice.lo + slice.hi) \div 2

\* The second half starts two seconds later.
HalvesApart(slice) ==
  <<[slice EXCEPT !.hi = Middle(slice)], [slice EXCEPT !.lo = Middle(slice) + 2]>>

(* The second half starts one second after the first ends.                     *)
Halves(slice) ==
  <<[slice EXCEPT !.hi = Middle(slice)], [slice EXCEPT !.lo = Middle(slice) + 1]>>

(* The pages of what the search tells, up to its cap.                          *)
Pages(slice, total) ==
  LET last == IF total < MaxPerSearch THEN total ELSE MaxPerSearch
      count == (last + PageSize - 1) \div PageSize
  IN  [n \in 1..count |->
        PageOf(slice, (n - 1) * PageSize + 1, IF n * PageSize < last THEN n * PageSize ELSE last)]

Cuttable(slice) == slice.hi - slice.lo > MinSplit

OverCap(slice) == Cardinality(Found(slice)) > MaxPerSearch

(* What a slice becomes once its total is known: only the national slice is cut   *)
(* by département, and only when the caller named none.                        *)
SubSlices(slice) ==
  IF ~OverCap(slice) THEN Pages(slice, Cardinality(Found(slice)))
  ELSE IF slice.dept = France THEN SetToSeq({Slice(slice.lo, slice.hi, d) : d \in Departements})
  ELSE IF Cuttable(slice) THEN Halves(slice)
  ELSE Pages(slice, Cardinality(Found(slice)))

(* _crawl_slice, up to its pages.                                             *)
AskTotal ==
  /\ Asking
  /\ Current.kind = "slice"
  /\ GoesOn(SubSlices(Current))
  /\ overCap' = IF OverCap(Current) /\ Current.dept # France /\ ~Cuttable(Current)
                THEN overCap \cup {Current} ELSE overCap
  /\ UNCHANGED <<online, fetched, setDown, refusals, withdrawn, untold>>

(* An answer without a usable Content-Range has no total: _crawl_slice takes it   *)
(* for an empty slice, and sets nothing down.                                  *)
TotalMissing ==
  /\ Asking
  /\ Current.kind = "slice"
  /\ refusals < MaxRefusals
  /\ refusals' = refusals + 1
  /\ untold' = untold \cup {Current}
  /\ GoesOn(<<>>)
  /\ UNCHANGED <<online, fetched, setDown, overCap, withdrawn>>

AskPage ==
  /\ Asking
  /\ Current.kind = "page"
  /\ fetched' = fetched \cup Listed(Current)
  /\ GoesOn(<<>>)
  /\ UNCHANGED <<online, setDown, overCap, refusals, withdrawn, untold>>

(* An employer takes an offer down: the pages that follow slide by one.         *)
TakenDown(a) ==
  /\ a \in DOMAIN online
  /\ withdrawn < MaxWithdrawn
  /\ withdrawn' = withdrawn + 1
  /\ online' = [b \in DOMAIN online \ {a} |-> online[b]]
  /\ UNCHANGED <<slices, attempt, fetched, setDown, overCap, refusals, untold>>

CrawlNext ==
  \/ CallFails \/ CallRefused
  \/ AskTotal \/ TotalMissing \/ AskPage
  \/ \E a \in Ads : TakenDown(a)

CrawlSpec == CrawlInit /\ [][CrawlNext]_crawlVars

-----------------------------------------------------------------------------
CrawlTypeOK ==
  /\ DOMAIN online \subseteq Ads /\ fetched \subseteq Ads
  /\ attempt \in 0..(PageAttempts - 1)
  /\ \A n \in DOMAIN slices : slices[n].kind \in {"slice", "page"}

Missed == {a \in DOMAIN online : a \notin fetched}
CoveredBy(S, a) == \E s \in S : a \in Listed(s)

(* "Every offer created in [since, until]": at the end of a crawl during which    *)
(* none was withdrawn, an offer that was not fetched is in a slice set down for    *)
(* the next run, in one that was reported over the cap, or in one of the two the   *)
(* crawl does not know it missed: a slice whose total the source did not tell,     *)
(* and, when the whole window is over the cap, a place not among the départements. *)
MissesAreKnown ==
  slices = <<>> /\ withdrawn = 0 =>
    \A a \in Missed :
      \/ CoveredBy(setDown, a)
      \/ CoveredBy(overCap, a)
      \/ CoveredBy(untold, a)
      \/ online[a][2] = Abroad /\ Cardinality(DOMAIN online) > MaxPerSearch

=============================================================================
