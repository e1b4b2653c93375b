---------------------------- MODULE RegretIndex ----------------------------
(***************************************************************************)
(* The Regret Index: once a month every known employer is looked up again, *)
(* its rating and two sources of reviews, each of which may fail, and what *)
(* is stored about the employer is replaced. The code is complete and      *)
(* tested but its job is not registered at this commit.                    *)
(* Sources: matching/regret_jobs.py, regret_service.py,                    *)
(* simplyhired_gateway.py, indeed_gateway.py.                              *)
(***************************************************************************)
EXTENDS Integers, FiniteSets

CONSTANTS
    Employers,       \* company names as the offers spell them
    Folded,          \* fold, as a function from names to keys
    Ratings,         \* what a rating page may say: [tenths, reviews]
    Posts,           \* reviews a page may hold
    Unanswered,      \* a fetch that failed
    NoProfile,       \* no row
    MinReviews,      \* REGRET_MIN_REVIEWS
    MaxPages,        \* INDEED_REVIEWS_MAX_PAGES_PER_COMPANY
    Months           \* BOUND: monthly runs

ASSUME RegretAssumption ==
    /\ MinReviews \in Nat /\ MaxPages \in Nat \ {0}
    /\ \A r \in Ratings : r # Unanswered => r.tenths \in Int /\ r.reviews \in Nat

VARIABLES
    regret,          \* per key: the profile row, or NoProfile
    reviews,         \* per key and source: the stored reviews
    indeedOn,        \* Bright Data is configured
    job,             \* the monthly job: employers left, and the one at hand
    month

regretVars == <<regret, reviews, indeedOn, job, month>>

Keys == {Folded[n] : n \in Employers}
Sources == {"simplyhired", "indeed"}
NoJob == [pc |-> "idle", left |-> {}]

\* A plausible bug: the page is trusted to rate between 0 and 5.
Unclamped(n) == n

Clamped(n) == IF n < 0 THEN 0 ELSE IF n > 100 THEN 100 ELSE n

\* round((5 - rating) / 5 * 100): exact on ratings of one decimal.
ScoreOf(tenths) == Clamped(100 - 2 * tenths)

\* _profile_values
Unavailable(count) == [available |-> FALSE, score |-> 0, count |-> count, tenths |-> 0]
ProfileValues(ratings) ==
    IF ratings = Unanswered THEN Unavailable(0)
    ELSE IF ratings.reviews < MinReviews
         THEN [Unavailable(ratings.reviews) EXCEPT !.tenths = ratings.tenths]
         ELSE [available |-> TRUE, score |-> ScoreOf(ratings.tenths),
               count |-> ratings.reviews, tenths |-> ratings.tenths]

RegretInit ==
    /\ regret = [k \in Keys |-> NoProfile]
    /\ reviews = [k \in Keys |-> [s \in Sources |-> {}]]
    /\ indeedOn \in BOOLEAN
    /\ job = NoJob /\ month = 0

\* list_distinct_company_names: distinct as they are spelled.
StartMonth ==
    /\ job.pc = "idle" /\ month < Months
    /\ month' = month + 1
    /\ job' = [pc |-> "next", left |-> Employers]
    /\ UNCHANGED <<regret, reviews, indeedOn>>

\* One employer, in a session of its own: the row is read, the page fetched.
FetchRatings(n, ratings) ==
    /\ job.pc = "next" /\ n \in job.left
    /\ job' = [pc |-> "ratings", left |-> job.left \ {n}, key |-> Folded[n],
               existing |-> regret[Folded[n]], ratings |-> ratings]
    /\ UNCHANGED <<regret, reviews, indeedOn, month>>

MonthDone ==
    /\ job.pc = "next" /\ job.left = {}
    /\ job' = NoJob
    /\ UNCHANGED <<regret, reviews, indeedOn, month>>

\* simplyhired reviews: a failed fetch is Unanswered, a 404 an empty set.
FetchReviews(answer) ==
    /\ job.pc = "ratings"
    /\ job' = [pc |-> "indeed", left |-> job.left, key |-> job.key, existing |-> job.existing,
               ratings |-> job.ratings, simplyhired |-> answer,
               page |-> 0, posts |-> {}, indeed |-> Unanswered, failed |-> FALSE]
    /\ UNCHANGED <<regret, reviews, indeedOn, month>>

\* Indeed page by page: a failed or empty page ends the list as it is.
FetchIndeedPage(answer) ==
    /\ job.pc = "indeed" /\ indeedOn /\ job.page < MaxPages
    /\ LET ends == answer \in {Unanswered, {}} \/ job.page + 1 = MaxPages
           posts == IF answer = Unanswered THEN job.posts ELSE job.posts \cup answer
       IN job' = [job EXCEPT !.page = IF ends THEN MaxPages ELSE @ + 1, !.posts = posts,
                             !.indeed = posts, !.failed = @ \/ answer = Unanswered]
    /\ UNCHANGED <<regret, reviews, indeedOn, month>>

\* Indeed raised, or is not configured: the source is not attempted.
SkipIndeed ==
    /\ job.pc = "indeed" /\ (~indeedOn \/ job.page < MaxPages)
    /\ job' = [job EXCEPT !.pc = "saving", !.indeed = Unanswered]
    /\ UNCHANGED <<regret, reviews, indeedOn, month>>

IndeedRead ==
    /\ job.pc = "indeed" /\ indeedOn /\ job.page = MaxPages
    /\ job' = [job EXCEPT !.pc = "saving"]
    /\ UNCHANGED <<regret, reviews, indeedOn, month>>

Replaced(old, fetched) == IF fetched = Unanswered THEN old ELSE fetched

SimplyHiredStored(old, fetched) == Replaced(old, fetched)

\* A plausible bug: a failed fetch is a result like any other.
AlwaysStored(existing, ratings) == FALSE

\* The early return: what is known is kept when the page cannot be read.
KeepsKnown(existing, ratings) == ratings = Unanswered /\ existing # NoProfile

\* One commit per employer.
SaveEmployer ==
    /\ job.pc = "saving"
    /\ reviews' = [reviews EXCEPT ![job.key] =
                     [s \in Sources |-> IF s = "indeed" THEN Replaced(@[s], job.indeed)
                                        ELSE SimplyHiredStored(@[s], job.simplyhired)]]
    /\ regret' = IF KeepsKnown(job.existing, job.ratings) THEN regret
                 ELSE [regret EXCEPT ![job.key] = ProfileValues(job.ratings)]
    /\ job' = [pc |-> "next", left |-> job.left]
    /\ UNCHANGED <<indeedOn, month>>

\* An exception, or a restart of the process: nothing of it is stored.
EmployerFails ==
    /\ job.pc \in {"ratings", "indeed", "saving"}
    /\ \/ job' = [pc |-> "next", left |-> job.left]
       \/ job' = NoJob
    /\ UNCHANGED <<regret, reviews, indeedOn, month>>

Reconfigure ==
    /\ job.pc = "idle" /\ indeedOn' = ~indeedOn
    /\ UNCHANGED <<regret, reviews, job, month>>

RegretNext ==
    \/ StartMonth \/ MonthDone \/ SkipIndeed \/ IndeedRead \/ SaveEmployer \/ EmployerFails \/ Reconfigure
    \/ \E n \in Employers, r \in Ratings \cup {Unanswered} : FetchRatings(n, r)
    \/ \E a \in (SUBSET Posts) \cup {Unanswered} : FetchReviews(a) \/ FetchIndeedPage(a)

RegretSpec == RegretInit /\ [][RegretNext]_regretVars

----------------------------------------------------------------------------
(* The profiles, the reviews and the job have their types.                 *)
RegretTypeOK ==
    /\ \A k \in Keys : regret[k] # NoProfile => regret[k].score \in 0..100 /\ regret[k].count \in Nat
    /\ \A k \in Keys, s \in Sources : reviews[k][s] \subseteq Posts
    /\ job.pc \in {"idle", "next", "ratings", "indeed", "saving"}

(* A page that could not be read takes no known score away                 *)
(* (regret_service.py:100-113).                                            *)
FailureKeepsScore ==
    [][\A k \in Keys : regret'[k] # regret[k] /\ regret[k] # NoProfile => job.ratings # Unanswered]_regretVars

(* The same of Indeed: "a skipped or failed fetch on either side leaves    *)
(* that source's rows exactly as they were" (regret_service.py:151-152).   *)
FailureKeepsEverySource ==
    [][\A k \in Keys : reviews'[k]["indeed"] # reviews[k]["indeed"] => ~job.failed]_regretVars
=============================================================================
