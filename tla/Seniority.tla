------------------------------- MODULE Seniority -------------------------------
(***************************************************************************)
(* The experience rules of src/app/core/seniority.py: which offers a          *)
(* candidate is never shown, and what an offer asking for other years than    *)
(* the candidate's costs the Career Score. Years are counted in months; one   *)
(* state is one candidate, month by month, before one offer.                  *)
(***************************************************************************)
EXTENDS Integers, FiniteSets

CONSTANTS
  StudentMax,     \* STUDENT_MAX_YEARS in months, as all that follow
  JuniorFrom,     \* JUNIOR_EXCLUDED_FROM_YEARS
  Reasonable,     \* _MAX_REASONABLE_YEARS
  WindowBelow, WindowAbove,
  PerYearBelow, PerYearAbove,   \* points per year
  MaxBelow, MaxAbove,           \* points
  YearsAsked,     \* figures an offer can mention, in years
  LastMonth       \* bound of the checks: months of experience a CV states

ASSUME SeniorityConstants ==
  /\ {StudentMax, JuniorFrom, Reasonable, WindowBelow, WindowAbove, LastMonth,
      PerYearBelow, PerYearAbove, MaxBelow, MaxAbove} \subseteq Nat
  /\ YearsAsked \subseteq Nat

VARIABLES
  total,     \* months the CV adds up to, or Unread
  listed,    \* the experiences of the CV
  post,      \* the offer: its contract, its title, the figures of its text
  chosen     \* the candidate asked for Stage or Alternance

seniorityVars == <<total, listed, post, chosen>>

Unread == -1
Blank == -2   \* no total on the CV
Silent == <<-1, -1>>

(* candidate_years: an absurd total is no total.                              *)
CandidateYears(t) == IF t < 0 \/ t > Reasonable THEN Unread ELSE t

(* At most two years, and either no experience or an internship on the CV.     *)
IsStudent(t, experiences) ==
  IF CandidateYears(t) = Unread THEN experiences = "none" /\ t = Blank
  ELSE CandidateYears(t) <= StudentMax /\ experiences \in {"none", "entry level"}

IsExcluded(t, experiences, p, allow) ==
  /\ CandidateYears(t) # Unread
  /\ ~IsStudent(t, experiences)
  /\ \/ ~allow /\ p.entryLevel
     \/ CandidateYears(t) >= JuniorFrom /\ p.junior

(* required_years_range: of the figures the text mentions, the largest range.    *)
RequiredRange(mentions) ==
  LET read == {m \in mentions : 12 * m[2] <= Reasonable}
  IN  IF read = {} THEN Silent
      ELSE CHOOSE m \in read :
             \A n \in read : n[2] < m[2] \/ (n[2] = m[2] /\ n[1] <= m[1])

(* Python's round: to the nearest, a half to the even.                        *)
Rounded(n, d) ==
  LET q == n \div d
      r == n % d
  IN  IF 2 * r < d \/ (2 * r = d /\ q % 2 = 0) THEN q ELSE q + 1

AtMostPoints(n, cap) == IF n <= cap THEN n ELSE cap

\* The upper window is measured from the candidate's years.
PenaltyWithoutWindow(months, required) ==
  IF months = Unread \/ required = Silent \/ 12 * required[1] <= months THEN 0
  ELSE AtMostPoints(Rounded((12 * required[1] - months) * PerYearAbove, 12), MaxAbove)

Penalty(months, required) ==
  LET low == 12 * required[1]
      high == 12 * required[2]
  IN  IF months = Unread \/ required = Silent THEN 0
      ELSE IF high < months - WindowBelow
           THEN AtMostPoints(Rounded((months - WindowBelow - high) * PerYearBelow, 12), MaxBelow)
      ELSE IF low > months + WindowAbove
           THEN AtMostPoints(Rounded((low - months - WindowAbove) * PerYearAbove, 12), MaxAbove)
      ELSE 0

-----------------------------------------------------------------------------
Ranges == {r \in YearsAsked \X YearsAsked : r[1] <= r[2]}

SeniorityInit ==
  /\ total \in {Blank, Unread, 0}
  /\ listed \in {"none", "entry level", "other"}
  /\ chosen \in BOOLEAN
  /\ \E entry, junior \in BOOLEAN, mentions \in SUBSET Ranges :
       /\ Cardinality(mentions) <= 2
       /\ post = [entryLevel |-> entry, junior |-> junior, mentions |-> mentions]

(* The candidate imports a newer CV: more experience, never less listed.        *)
MonthGoesBy ==
  /\ total >= 0 /\ total < LastMonth
  /\ total' = total + 1
  /\ listed' \in {listed} \cup (IF listed = "none" THEN {"entry level", "other"} ELSE {})
  /\ UNCHANGED <<post, chosen>>

SeniorityNext == MonthGoesBy
SenioritySpec == SeniorityInit /\ [][SeniorityNext]_seniorityVars

-----------------------------------------------------------------------------
SeniorityTypeOK == total \in Blank..LastMonth /\ post.mentions \subseteq Ranges

(* career_score_penalty's docstring, over any text: nothing as soon as the       *)
(* range asked for touches the window, never more than the cap, and a candidate   *)
(* one month further from the window never loses fewer points.                 *)
Asked == RequiredRange(post.mentions)
FairPenalty ==
  LET months == CandidateYears(total)
      touches == /\ 12 * Asked[1] <= months + WindowAbove
                 /\ 12 * Asked[2] >= months - WindowBelow
      points == Penalty(months, Asked)
  IN  months # Unread /\ Asked # Silent =>
        /\ touches => points = 0
        /\ 12 * Asked[1] > months => points <= MaxAbove
        /\ 12 * Asked[2] < months => points <= MaxBelow
        /\ months > 0 /\ 12 * Asked[1] > months + WindowAbove =>
             Penalty(months - 1, Asked) >= points
        /\ months < Reasonable /\ 12 * Asked[2] < months - WindowBelow =>
             Penalty(months + 1, Asked) >= points

=============================================================================
