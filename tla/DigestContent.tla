---------------------------- MODULE DigestContent ----------------------------
(***************************************************************************)
(* What a market digest says (src/app/modules/market): the skills the model *)
(* names in each offer are cleaned and counted by week (classifier.py,      *)
(* service.py), and the mail is built from the counts alone (digest.py).    *)
(* A key is the number of a skill in the order of skill_key. The wording of *)
(* the sentences is left out, and so is the order of a list once it is cut. *)
(***************************************************************************)
EXTENDS Integers, Sequences, FiniteSetsExt

CONSTANTS
  SkillNames,       \* names as the model spells them
  KeyOf,            \* skill_key of each name, or 0 for one that is dropped
  RawAnswers,       \* what the model may answer for an offer: names in order
  MaxSkills,        \* MAX_SKILLS_PER_OFFER
  TopSkills,        \* TOP_SKILLS
  EvolutionSkills,  \* EVOLUTION_SKILLS
  ActionItems,      \* ACTION_ITEMS
  MinForTrend,      \* MIN_OFFERS_FOR_TREND
  MinShare,         \* MIN_SHARE_FOR_ACTION, in percent
  MinForecast,      \* MIN_WEEKS_FOR_FORECAST
  OffersAWeek,      \* bound of the checks: offers of a week
  WeeksCounted      \* bound of the checks: weeks of the window, of 4 at most

ASSUME ContentConstants ==
  /\ IsFiniteSet(SkillNames) /\ KeyOf \in [SkillNames -> Nat]
  /\ RawAnswers \subseteq Seq(SkillNames) /\ IsFiniteSet(RawAnswers)
  /\ {MaxSkills, TopSkills, EvolutionSkills, ActionItems, MinForTrend, MinForecast}
       \subseteq Nat \ {0}
  /\ EvolutionSkills <= TopSkills
  /\ MinShare \in 0..100 /\ OffersAWeek \in Nat /\ WeeksCounted \in 0..4

VARIABLES
  cvKeys,  \* the keys has_skill finds in the candidate's profile
  counts   \* the usable weeks, oldest first: [total, with : SkillKeys -> Nat]

contentVars == <<cvKeys, counts>>

SkillKeys == {KeyOf[name] : name \in SkillNames} \ {0}

-----------------------------------------------------------------------------
(* Counting                                                                 *)

\* Counts a skill as often as the answer names it.
AsAnswered(raw) == {i \in DOMAIN raw : KeyOf[raw[i]] # 0}

(* clean_skills, as places in the answer: the first names with a key, each   *)
(* key once.                                                                *)
CleanSkills(raw) ==
  LET keyed == {i \in DOMAIN raw : KeyOf[raw[i]] # 0}
      once == {i \in keyed : \A j \in keyed : KeyOf[raw[j]] = KeyOf[raw[i]] => i <= j}
  IN  {i \in once : Cardinality({j \in once : j <= i}) <= MaxSkills}

TimesNamed(raw, k) == Cardinality({i \in CleanSkills(raw) : KeyOf[raw[i]] = k})

(* aggregate_weeks, for the offers of one family and level.                  *)
WeekTally(answers) ==
  [total |-> SumFunctionOnSet(answers, RawAnswers),
   with |-> [k \in SkillKeys |->
     SumFunctionOnSet([raw \in RawAnswers |-> answers[raw] * TimesNamed(raw, k)], RawAnswers)]]

-----------------------------------------------------------------------------
(* build_digest                                                             *)

Latest == counts[Len(counts)]

(* pct: Python rounds half to even (of the exact quotient here; the error of  *)
(* a float, which matters at a tie only, is left out).                       *)
Pct(part, whole) ==
  LET q == (100 * part) \div whole
      r == (100 * part) % whole
  IN  IF 2 * r > whole \/ (2 * r = whole /\ q % 2 = 1) THEN q + 1 ELSE q
ShareIn(week, k) == Pct(week.with[k], week.total)

(* The skills of the latest week, the most asked for first, then by key: the *)
(* first n of some of them.                                                 *)
Demanded == {k \in SkillKeys : Latest.with[k] > 0}
Ahead(j, k) ==
  \/ Latest.with[j] > Latest.with[k]
  \/ Latest.with[j] = Latest.with[k] /\ j < k
First(n, S) == {k \in S : Cardinality({j \in S : Ahead(j, k)}) < n}

NoTrend == 999  \* None: no share moves by that much
Trend(k) ==
  IF Len(counts) < 2 \/ Min({Latest.total, counts[Len(counts) - 1].total}) < MinForTrend
  THEN NoTrend
  ELSE ShareIn(Latest, k) - ShareIn(counts[Len(counts) - 1], k)

Row(k) == [key |-> k, share |-> ShareIn(Latest, k), trend |-> Trend(k), inCv |-> k \in cvKeys]
Top == {Row(k) : k \in First(TopSkills, Demanded)}

(* The share of the most asked for over the weeks, when there are two.       *)
Curve(k) == [key |-> k, points |-> [w \in DOMAIN counts |-> ShareIn(counts[w], k)]]
Evolution == IF Len(counts) < 2 THEN {} ELSE {Curve(k) : k \in First(EvolutionSkills, Demanded)}

(* The plan of action: what many offers ask for and the profile lacks.       *)
EnoughAsked(k) == 100 * Latest.with[k] >= MinShare * Latest.total
Wanted == {k \in Demanded : EnoughAsked(k) /\ k \notin cvKeys}
Actions == First(ActionItems, Wanted)

Rises(a, b, k) == b.with[k] * a.total > a.with[k] * b.total
Rising(series, k) ==
  /\ Len(series) > 2
  /\ \A w \in 2..Len(series) : Rises(series[w - 1], series[w], k)
  /\ ShareIn(Latest, k) > ShareIn(series[1], k)
Forecasts ==
  LET series == SubSeq(counts, Max({1, Len(counts) - MinForecast}), Len(counts))
  IN  IF Len(counts) < MinForecast THEN {} ELSE First(2, {k \in Demanded : Rising(series, k)})

-----------------------------------------------------------------------------
ContentInit == cvKeys \in SUBSET SkillKeys /\ counts = << >>

(* One more week is counted: how many offers got each of the answers.        *)
WeekCounted(answers) ==
  /\ Len(counts) < WeeksCounted
  /\ WeekTally(answers).total \in 1..OffersAWeek
  /\ counts' = Append(counts, WeekTally(answers))
  /\ UNCHANGED cvKeys

ContentNext == \E answers \in [RawAnswers -> 0..OffersAWeek] : WeekCounted(answers)

ContentSpec == ContentInit /\ [][ContentNext]_contentVars

-----------------------------------------------------------------------------
ContentTypeOK ==
  /\ cvKeys \subseteq SkillKeys
  /\ Len(counts) <= WeeksCounted
  /\ \A w \in DOMAIN counts : counts[w].total \in 1..OffersAWeek

(* digest.py:114-116: "Everything shown as a share is the LATEST week's, so    *)
(* the list, the action plan and the last point of each curve always agree":  *)
(* a share is one, the curve of a skill ends at its share in the list, the     *)
(* plan names no skill the list marks as known and no skill less asked for    *)
(* than one it leaves out, and no skill said to progress is shown falling.    *)
DigestAgrees ==
  counts # << >> =>
    /\ \A r \in Top : r.share <= 100 /\ (r.trend # NoTrend => r.trend \in -100..100)
    /\ \A e \in Evolution :
         \E r \in Top : r.key = e.key /\ r.share = e.points[Len(counts)]
    /\ \A r \in Top : r.key \in Actions => ~r.inCv
    /\ \A r \in Top : ~r.inCv /\ r.share > MinShare =>
         \/ r.key \in Actions
         \/ /\ Cardinality(Actions) = ActionItems
            /\ \A k \in Actions : ShareIn(Latest, k) >= r.share
    /\ \A r \in Top : r.key \in Forecasts /\ r.trend # NoTrend => r.trend >= 0
===============================================================================
