---------------------------- MODULE OfferPreferences ----------------------------
(***************************************************************************)
(* The filter of a candidate's search preferences, written twice in          *)
(* src/app/modules/offers/preferences.py: in SQL for the nearest offers, in  *)
(* Python for the pool in memory; and the contract labels it reads, those of  *)
(* src/app/core/contract_type.py. One state is one offer met by one set of    *)
(* preferences: the three criteria are checked one beside the other, since    *)
(* both forms of the filter are conjunctions of them.                        *)
(***************************************************************************)
EXTENDS OfferReading

CONSTANTS
  SalariesAsked   \* the annual salaries a candidate may ask for

ASSUME PreferenceConstants == SalariesAsked \subseteq Nat \ {0} /\ {"CDI", "Freelance"} \subseteq Contracts

VARIABLES
  offer,  \* a row of job_offers, as far as the filter reads it
  wish    \* an OfferPreferences

preferenceVars == <<offer, wish>>

UnknownContract == "a contract type the app does not know"
Modes == {"Sur site", "Hybride", "Full remote"}

-----------------------------------------------------------------------------
(* core/contract_type.py                                                     *)

ContractOrder == <<"CDI", "CDD", "Interim", "Alternance", "Stage", "Freelance">>

IsBareFullTime(label) == label.fullTime = "marker" /\ label.names = {}

(* The tag the candidate sees.                                               *)
ContractLabelOf(label) ==
  IF label.names # {}
  THEN LET first == CHOOSE i \in DOMAIN ContractOrder :
                      /\ ContractOrder[i] \in label.names
                      /\ \A j \in 1..(i - 1) : ContractOrder[j] \notin label.names
       IN  ContractOrder[first]
  ELSE IF IsBareFullTime(label) THEN "CDI" ELSE "none"

-----------------------------------------------------------------------------
RemoteActive(p) == p.modes # {} /\ p.modes # Modes

(* What SQL cannot tell: the caller runs MatchesRemote on the rows.            *)
NeedsPythonRemote(p) ==
  RemoteActive(p) /\ p.modes \notin {{"Full remote"}, {"Hybride", "Sur site"}}

RemoteModeOf(o) ==
  IF o.fullRemote THEN "Full remote" ELSE IF LooksHybrid(o.text) THEN "Hybride" ELSE "Sur site"

MatchesRemote(p, o) == RemoteActive(p) => RemoteModeOf(o) \in p.modes

RegionOk(p, o) ==
  \/ p.regions = {}
  \/ o.region \in p.regions
  \/ o.fullRemote
  \/ p.unknownRegion /\ o.region = Nowhere

\* "Full time" alone is left to the offers of no known contract.
ContractOkNoFullTime(p, o) ==
  p.contracts = {} \/ o.label.names = {} \/ o.label.names \cap p.contracts # {}

(* matches                                                                   *)
ContractOk(p, o) ==
  \/ p.contracts = {}
  \/ o.label.names = {} /\ ~IsBareFullTime(o.label)
  \/ o.label.names \cap p.contracts # {}
  \/ IsBareFullTime(o.label) /\ "CDI" \in p.contracts

SalaryOk(p, o) ==
  LET top == IF o.high # Unknown THEN o.high ELSE o.low
  IN  p.minSalary = Unknown \/ top = Unknown \/ "Freelance" \in o.label.names \/ top >= p.minSalary

Matches(p, o) == RegionOk(p, o) /\ ContractOk(p, o) /\ SalaryOk(p, o) /\ MatchesRemote(p, o)

(* apply: a comparison with NULL is not true, the disjunction of no LIKE is      *)
(* left out of the one around it.                                            *)
SqlBareFullTime(label) == label.fullTime \in {"marker", "pattern"} /\ label.names = {}
SqlContract(p, o) ==
  p.contracts # {} =>
    \/ o.label.names \cap p.contracts # {}
    \/ "CDI" \in p.contracts /\ SqlBareFullTime(o.label)
    \/ ~(o.label.names # {} \/ SqlBareFullTime(o.label))

SqlSalary(p, o) ==
  p.minSalary # Unknown =>
    \/ o.low = Unknown /\ o.high = Unknown
    \/ o.high # Unknown /\ o.high >= p.minSalary
    \/ o.high = Unknown /\ o.low # Unknown /\ o.low >= p.minSalary
    \/ "Freelance" \in o.label.names

SqlRemote(p, o) ==
  RemoteActive(p) =>
    /\ "Full remote" \notin p.modes => ~o.fullRemote
    /\ p.modes = {"Full remote"} => o.fullRemote

Apply(p, o) == RegionOk(p, o) /\ SqlContract(p, o) /\ SqlSalary(p, o) /\ SqlRemote(p, o)

(* JobOfferRepository.nearest: the rows of SQL, checked when SQL could not.     *)
Nearest(p, o) == Apply(p, o) /\ (NeedsPythonRemote(p) => MatchesRemote(p, o))

-----------------------------------------------------------------------------
(* The codes of France Travail's places and the breadcrumbs of Adzuna's.        *)
Digits == {Begins("75", "750"), Begins("20", "200"), Begins("97", "974"), Begins("97", "975")}
Codes == {NoCode, Code(Begins("2A", "2A0"), Begins("20", "200")), Code(Begins("2A", "2A1"), Begins("21", "210"))}
           \cup {Code(d, d) : d \in Digits}
Areas == {<< >>, <<"France", "Paris">>} \cup {<<"France", z, "a city">> : z \in Zones}

NoWords == [words |-> {}, allRemote |-> FALSE, splitDays |-> FALSE]
PlainFrance == [postal |-> NoCode, commune |-> NoCode, text |-> NoWords, salary |-> NoSalary,
                libelle |-> NoLabel, code |-> NoLabel]
PlainAdzuna == [area |-> << >>, text |-> NoWords, type |-> "none", time |-> "none",
                low |-> Unknown, high |-> Unknown]

(* Adverts that differ by place and remote work, and by contract and salary.     *)
FrancePlaced(postal, commune, a, d) ==
  FranceTravailOffer([PlainFrance EXCEPT !.postal = postal, !.commune = commune,
                        !.text.allRemote = a, !.text.splitDays = d])
AdzunaPlaced(area, a, d) ==
  AdzunaOffer([PlainAdzuna EXCEPT !.area = area, !.text.allRemote = a, !.text.splitDays = d])
PlacedOffers ==
  {FrancePlaced(p, c, a, d) : p \in Codes, c \in Codes, a \in BOOLEAN, d \in BOOLEAN}
  \cup {AdzunaPlaced(area, a, d) : area \in Areas, a \in BOOLEAN, d \in BOOLEAN}

FrancePaid(w, label, salary) ==
  FranceTravailOffer([PlainFrance EXCEPT !.text.words = w, !.libelle = label, !.salary = salary])
AdzunaPaid(w, type, time, low, high) ==
  AdzunaOffer([PlainAdzuna EXCEPT !.text.words = w, !.type = type, !.time = time,
                                  !.low = low, !.high = high])
PaidOffers ==
  {FrancePaid(w, label, salary) :
     w \in SUBSET Contracts, label \in Labels \cup {NoLabel}, salary \in SalaryLabels}
  \cup {AdzunaPaid(w, type, time, low, high) :
           w \in SUBSET Contracts, type \in {"none", "CDI", "Freelance"},
           time \in {"none", "full_time", "part_time"},
           low \in Printed \cup {Unknown}, high \in Printed \cup {Unknown}}

NoWish == [regions |-> {}, unknownRegion |-> TRUE, contracts |-> {}, modes |-> {},
           minSalary |-> Unknown]

(* A row may also date from before the guess, without a label.                  *)
PreferenceInit ==
  \/ \E o \in PlacedOffers, unknown \in BOOLEAN, regions \in SUBSET Zones, modes \in SUBSET Modes :
       /\ offer = o
       /\ wish = [NoWish EXCEPT !.regions = regions, !.unknownRegion = unknown, !.modes = modes]
  \/ \E o \in PaidOffers, minSalary \in SalariesAsked \cup {Unknown},
        contracts \in SUBSET (Contracts \cup {UnknownContract}) :
       /\ \/ offer = o
          \/ o.label = GuessContractType(o.text) /\ offer = [o EXCEPT !.label = NoLabel]
       /\ wish = [NoWish EXCEPT !.contracts = contracts, !.minSalary = minSalary]

(* The import finds the offer again, under another label.                       *)
Refreshed ==
  /\ \E label \in Labels \cup {NoLabel} : offer' = [offer EXCEPT !.label = OrGuess(label, offer.text)]
  /\ UNCHANGED wish

(* The command backfill-contract-type.                                        *)
Backfilled ==
  /\ offer.label = NoLabel
  /\ GuessContractType(offer.text) # NoLabel
  /\ offer' = [offer EXCEPT !.label = GuessContractType(offer.text)]
  /\ UNCHANGED wish

PreferenceNext == Refreshed \/ Backfilled
PreferenceSpec == PreferenceInit /\ [][PreferenceNext]_preferenceVars

-----------------------------------------------------------------------------
PreferenceTypeOK ==
  /\ offer.label \in Labels \cup {NoLabel} /\ offer.text \in Texts
  /\ offer.region \in Zones \cup {Nowhere} /\ {offer.low, offer.high} \subseteq Nat
  /\ wish.minSalary \in SalariesAsked \cup {Unknown}

(* "Each rule exists twice [...] and requires the same answer" (lines 22-25):    *)
(* the offers a candidate is analysed on are the same with pgvector and without, *)
(* but for the labels only the SQL pattern reads as full time.                 *)
SqlAgreesWithPython ==
  offer.label.fullTime # "pattern" => (Nearest(wish, offer) <=> Matches(wish, offer))

(* "agrees with the tag the candidate sees" (contract_type.py:85-88): of an     *)
(* offer that names one contract or only full time, given or guessed, the       *)
(* candidate gets the tags asked for and the offers without a tag.              *)
FilterFollowsTag ==
  wish.contracts # {} /\ wish.minSalary = Unknown /\ Cardinality(offer.label.names) <= 1 =>
    (ContractOk(wish, offer) <=> ContractLabelOf(offer.label) \in wish.contracts \cup {"none"})

(* The three readings of one offer, in SQL, in Python and on the candidate's     *)
(* screen, give one answer, whatever source the row came from and whichever way  *)
(* its label was found.                                                       *)
FiltersAgree == SqlAgreesWithPython /\ FilterFollowsTag

=============================================================================
