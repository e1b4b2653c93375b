------------------------------ MODULE OfferReading ------------------------------
(***************************************************************************)
(* How the import reads an advert (src/app/modules/offers/providers, with     *)
(* contract_type, salary, remote_work and regions of src/app/core): what of   *)
(* it reaches the row of job_offers the candidates' filters look at. A text    *)
(* is what the keyword patterns find in it.                                  *)
(***************************************************************************)
EXTENDS Integers, Sequences, FiniteSets

CONSTANTS
  Zones,              \* regions of France
  DepartementRegion,  \* departement -> region
  Contracts,          \* contract labels the checks use, among GuessOrder's
  Printed,            \* figures printed on a salary
  PlausibleFrom, PlausibleTo   \* the plausible annual salaries

ASSUME ReadingConstants ==
  /\ Contracts \subseteq {"CDI", "CDD", "Interim", "Alternance", "Stage", "Freelance"}
  /\ \A d \in DOMAIN DepartementRegion : DepartementRegion[d] \in Zones
  /\ Printed \subseteq Nat \ {0} /\ {PlausibleFrom, PlausibleTo} \subseteq Nat

Unknown == 0   \* a missing salary
Nowhere == "no region"

(* The label of an offer is free text: the contracts whose substrings it        *)
(* contains, and how it says full time: by one of the three markers, or by a    *)
(* text only the SQL pattern full_time finds, for which "_" is any character.   *)
Labels == [names : SUBSET Contracts, fullTime : {"no", "marker", "pattern"}]
NoLabel == [names |-> {}, fullTime |-> "no label"]
Named(contract) == [names |-> {contract}, fullTime |-> "no"]

(* What the patterns find in the title and the description.                    *)
Texts == [words : SUBSET Contracts, allRemote : BOOLEAN, splitDays : BOOLEAN]

-----------------------------------------------------------------------------
(* core/contract_type.py, guess_contract_type: most specific first.            *)
GuessOrder == <<"Stage", "Alternance", "Interim", "Freelance", "CDD", "CDI">>

GuessContractType(text) ==
  LET found == {i \in DOMAIN GuessOrder : GuessOrder[i] \in text.words}
  IN  IF found = {} THEN NoLabel
      ELSE Named(GuessOrder[CHOOSE i \in found : \A j \in found : i <= j])

OrGuess(given, text) == IF given = NoLabel THEN GuessContractType(text) ELSE given

(* core/remote_work.py                                                       *)
LooksFullRemote(text) == text.allRemote
LooksHybrid(text) == ~LooksFullRemote(text) /\ text.splitDays

-----------------------------------------------------------------------------
(* core/salary.py: the label is one figure or two, over a period; a month has    *)
(* 151.67 paid hours.                                                        *)
Annualized(period, figure) ==
  CASE period = "Annuel" -> figure
    [] period = "Mensuel" -> 12 * figure
    [] period = "Horaire" -> 1820 * figure + (4 * figure + 50) \div 100

Plausible(value) == PlausibleFrom <= value /\ value <= PlausibleTo
NoSalary == [period |-> "Annuel", figures |-> {}]
SalaryLabels ==
  [period : {"Annuel", "Mensuel", "Horaire"},
   figures : {F \in SUBSET Printed : Cardinality(F) \in 1..2}] \cup {NoSalary}

(* The two ends in order, or nothing when one of them is not plausible.         *)
ExtractAnnualSalary(label) ==
  LET ends == {Annualized(label.period, f) : f \in label.figures}
  IN  IF ends # {} /\ \A v \in ends : Plausible(v)
      THEN [low |-> CHOOSE v \in ends : \A w \in ends : v <= w,
            high |-> CHOOSE v \in ends : \A w \in ends : w <= v]
      ELSE [low |-> Unknown, high |-> Unknown]

-----------------------------------------------------------------------------
(* core/regions.py: a code by its first two and three characters. An INSEE code    *)
(* of Corsica begins by "2A" or "2B", and a postal code by "20"; overseas both      *)
(* take three digits. A postal code is read by its digits alone: "2A004" as        *)
(* "2004", which is of Corsica, "2A103" as "2103", which is of Bourgogne.          *)
Begins(two, three) == [two |-> two, three |-> three]
Code(begins, digits) == [begins |-> begins, digits |-> digits]
NoCode == Code(Begins("none", "none"), Begins("none", "none"))

Departement(begins) == IF begins.two = "97" THEN begins.three ELSE begins.two
RegionFrom(begins) ==
  IF Departement(begins) \in DOMAIN DepartementRegion
  THEN DepartementRegion[Departement(begins)] ELSE Nowhere

RegionFromPostalCode(code) == RegionFrom(code.digits)
RegionFromInseeCode(code) == RegionFrom(code.begins)

(* A country, a region, a city...: the first element that is a region.          *)
RegionName(element) == IF element \in Zones THEN element ELSE Nowhere
RegionFromArea(area) ==
  LET named == SelectSeq(area, LAMBDA element : RegionName(element) # Nowhere)
  IN  IF named = << >> THEN Nowhere ELSE RegionName(Head(named))

-----------------------------------------------------------------------------
(* FranceTravailProvider._normalize                                          *)
FranceTravailOffer(ad) ==
  LET region == RegionFromPostalCode(ad.postal)
      salary == ExtractAnnualSalary(ad.salary)
      given == IF ad.libelle # NoLabel THEN ad.libelle ELSE ad.code
  IN  [region |-> IF region # Nowhere THEN region ELSE RegionFromInseeCode(ad.commune),
       text |-> ad.text, fullRemote |-> LooksFullRemote(ad.text),
       label |-> OrGuess(given, ad.text), low |-> salary.low, high |-> salary.high]

(* AdzunaProvider._normalize: "permanent" or "contract", then "full_time" or      *)
(* "part_time", joined in one label; the salary is taken as it is given.          *)
AdzunaLabel(type, time) ==
  IF type = "none" /\ time = "none" THEN NoLabel
  ELSE [names |-> IF type = "none" THEN {} ELSE {type},
        fullTime |-> IF time = "full_time" THEN "marker" ELSE "no"]

AdzunaOffer(ad) ==
  [region |-> RegionFromArea(ad.area),
   text |-> ad.text, fullRemote |-> LooksFullRemote(ad.text),
   label |-> OrGuess(AdzunaLabel(ad.type, ad.time), ad.text), low |-> ad.low, high |-> ad.high]

=============================================================================
