--------------------------- MODULE CvOptimisation ---------------------------
(***************************************************************************)
(* "Adapter mon CV pour cette offre": the variant of one candidate's CV    *)
(* for one match, generated inside the request that asks for it, cached in *)
(* a row with a unique key, confirmed by the candidate, and regenerated    *)
(* when it still holds internal skill names.                               *)
(* Sources: matching/cv_optimization_service.py, cv_optimization_gateway.py*)
(* and routes/v1/cv_optimization_routes.py.                                *)
(***************************************************************************)
EXTENDS Naturals, Sequences, FiniteSets, SequencesExt

CONSTANTS
    Requests,        \* POST requests that may be open at once
    Cvs,             \* CVs: [skills: a sequence, jobs: a sequence of lines]
    Answers,         \* answers of the model, see AnswerOk
    OldSkills,       \* an internal name an old row was stored with
    Snake,           \* the skill names that contain an underscore
    Readable,        \* clean_skill_label, as a function on skill names
    NoBullet,        \* a bullet without original_text
    Resembles,       \* pairs <<line, text>> whose similarity is 0.8 or more
    CallAttempts,    \* attempts of one call (3)
    MaxCalls         \* BOUND: calls to the model

IsSequence(s) == s \in Seq(ToSet(s))

ASSUME CvConstants ==
    /\ IsFiniteSet(Requests)
    /\ \A c \in Cvs \cup Answers :
         /\ IsSequence(c.skills) /\ IsSequence(c.jobs)
         /\ \A i \in DOMAIN c.jobs : IsSequence(c.jobs[i])
    /\ IsSequence(OldSkills)
    /\ \A c \in Cvs : \A i \in DOMAIN c.jobs : \A line \in ToSet(c.jobs[i]) :
         <<line, line>> \in Resembles /\ <<line, NoBullet>> \notin Resembles
    /\ CallAttempts \in Nat \ {0} /\ MaxCalls \in Nat

VARIABLES
    cv,              \* the candidate's profile
    variant,         \* the row of the match, or NoVariant
    madeFrom,        \* the CVs its skills and its jobs were made from
    offerThere,      \* the offer is still in the pool
    asking,          \* per request: what it is doing, the CV and the row it read
    calls,           \* answers the model was paid for
    generated,       \* a generation was stored
    onScreen,        \* the variant the candidate last saw
    kept             \* the variant the candidate confirmed

cvVars == <<cv, variant, madeFrom, offerThere, asking, calls, generated, onScreen, kept>>

NoVariant == [row |-> "none"]
NoCv == [row |-> "none"]
Quiet0 == [pc |-> "idle", of |-> NoCv, saw |-> NoVariant, tries |-> 0]

----------------------------------------------------------------------------
(* What is made of an answer.                                              *)

Bullet(text, original) == [text |-> text, original |-> original]
Unchanged(lines) == [i \in 1..Len(lines) |-> Bullet(lines[i], NoBullet)]

\* _is_covered: some bullet's text, or the original of its rewrite, is similar
\* enough to the line: another line of the same job may be.
IsCovered(line, bullets) ==
    \E b \in ToSet(bullets) : \E text \in {b.text, b.original} : <<line, text>> \in Resembles

\* What a sequence holds at some of its positions, in order.
ElementsAt(s, positions) ==
    [n \in 1..Cardinality(positions) |->
        s[CHOOSE i \in positions : Cardinality({j \in positions : j <= i}) = n]]

\* The lines of a real list (two or more) the model left out.
LeftOut(lines, bullets) ==
    IF Len(lines) < 2 THEN <<>>
    ELSE ElementsAt(lines, {i \in DOMAIN lines : ~IsCovered(lines[i], bullets)})

\* A plausible bug: the model's bullets are taken as they are.
BulletsAsAnswered(lines, bullets) ==
    IF bullets = <<>> THEN Unchanged(lines) ELSE bullets

\* One experience: the model's bullets and what they left out, or the CV's.
ReconcileOne(lines, bullets) ==
    IF bullets = <<>> THEN Unchanged(lines)
    ELSE bullets \o Unchanged(LeftOut(lines, bullets))

\* By position: a missing answer is the CV's own, an extra one is ignored.
ReconcileExperiences(jobs, answered) ==
    [i \in 1..Len(jobs) |->
        ReconcileOne(jobs[i], IF i \in DOMAIN answered THEN answered[i] ELSE <<>>)]

AddedNames(skills, answered) ==
    LET names == [i \in DOMAIN answered |-> Readable[answered[i]]]
    IN  ElementsAt(names, {i \in DOMAIN names : names[i] \notin ToSet(skills)})

FirstOfEach(names) ==
    ElementsAt(names, {i \in DOMAIN names : \A j \in 1..(i - 1) : names[j] # names[i]})

\* Every skill of the CV as it is, then each new one once.
ReconcileSkills(skills, answered) == skills \o FirstOfEach(AddedNames(skills, answered))

\* has_technical_skill_labels
HasTechnicalLabels(row) == ~row.confirmed /\ ToSet(row.skills) \cap Snake # {}

Content(row) == [skills |-> row.skills, jobs |-> row.jobs]
Made(mine, answer) == [skills |-> ReconcileSkills(mine.skills, answer.skills),
                       jobs |-> ReconcileExperiences(mine.jobs, answer.jobs)]

----------------------------------------------------------------------------
OldRows(c) ==
    {[skills |-> c.skills \o OldSkills, jobs |-> ReconcileExperiences(c.jobs, <<>>),
      confirmed |-> FALSE]}

CvInit ==
    /\ cv \in Cvs
    /\ variant \in {NoVariant} \cup OldRows(cv)
    /\ madeFrom = [skills |-> cv, jobs |-> cv]
    /\ offerThere = TRUE
    /\ asking = [r \in Requests |-> Quiet0]
    /\ calls = 0 /\ generated = FALSE
    /\ onScreen = NoVariant
    /\ kept = NoVariant

Served(row) == onScreen' = Content(row)

\* get_or_generate, up to the call: the row is served, or the model is asked.
Generate(r) ==
    /\ asking[r].pc = "idle" /\ offerThere
    /\ IF variant # NoVariant /\ ~HasTechnicalLabels(variant)
       THEN Served(variant) /\ UNCHANGED asking
       ELSE /\ calls + Cardinality({q \in Requests : asking[q].pc = "calling"}) < MaxCalls
            /\ asking' = [asking EXCEPT ![r] =
                            [pc |-> "calling", of |-> cv, saw |-> variant, tries |-> 1]]
            /\ UNCHANGED onScreen
    /\ UNCHANGED <<cv, variant, madeFrom, offerThere, calls, generated, kept>>

\* GET: an old row counts as not generated yet.
GetVariant ==
    /\ variant # NoVariant /\ ~HasTechnicalLabels(variant)
    /\ Served(variant)
    /\ UNCHANGED <<cv, variant, madeFrom, offerThere, asking, calls, generated, kept>>

\* _call_openai_sync: a refused attempt, and the end of the attempts.
CallFails(r) ==
    /\ asking[r].pc = "calling"
    /\ asking' = IF asking[r].tries < CallAttempts
                 THEN [asking EXCEPT ![r].tries = @ + 1]
                 ELSE [asking EXCEPT ![r] = Quiet0]
    /\ UNCHANGED <<cv, variant, madeFrom, offerThere, calls, generated, onScreen, kept>>

\* The answer is paid for and unreadable: 502, nothing stored.
Unreadable(r) ==
    /\ asking[r].pc = "calling"
    /\ asking' = [asking EXCEPT ![r] = Quiet0]
    /\ calls' = calls + 1
    /\ UNCHANGED <<cv, variant, madeFrom, offerThere, generated, onScreen, kept>>

\* repository.update writes the columns that differ from what was read.
ColumnChanged(seen, now, new) == IF new = seen THEN now ELSE new
UpdatedSource(saw, new, mine) ==
    [skills |-> IF new.skills = saw.skills THEN madeFrom.skills ELSE mine,
     jobs |-> IF new.jobs = saw.jobs THEN madeFrom.jobs ELSE mine]
UpdatedRow(saw, new) ==
    [skills |-> ColumnChanged(saw.skills, variant.skills, new.skills),
     jobs |-> ColumnChanged(saw.jobs, variant.jobs, new.jobs),
     confirmed |-> variant.confirmed]

\* The object the request answers with: what it read and what it made.
Store(r, answer) ==
    LET saw == asking[r].saw
        mine == asking[r].of
        new == Made(mine, answer)
    IN /\ asking[r].pc = "calling"
       /\ asking' = [asking EXCEPT ![r] = Quiet0]
       /\ calls' = calls + 1
       /\ \/ saw # NoVariant
             /\ variant' = UpdatedRow(saw, new) /\ madeFrom' = UpdatedSource(saw, new, mine)
             /\ onScreen' = new /\ generated' = TRUE
          \/ saw = NoVariant /\ variant = NoVariant
             /\ variant' = [skills |-> new.skills, jobs |-> new.jobs, confirmed |-> FALSE]
             /\ madeFrom' = [skills |-> mine, jobs |-> mine]
             /\ onScreen' = new /\ generated' = TRUE
          \/ saw = NoVariant /\ variant # NoVariant      \* candidate_match_id is unique
             /\ UNCHANGED <<variant, madeFrom, generated, onScreen>>
       /\ UNCHANGED <<cv, offerThere, kept>>

\* "Créer cette variante de CV"
ConfirmVariant ==
    /\ variant # NoVariant /\ onScreen # NoVariant
    /\ variant' = [variant EXCEPT !.confirmed = TRUE]
    /\ kept' = IF variant.confirmed THEN kept ELSE onScreen
    /\ UNCHANGED <<cv, madeFrom, offerThere, asking, calls, generated, onScreen>>

\* A new import, or the wizard, replaces the profile; the variant stays.
CvReplaced ==
    /\ cv' \in Cvs \ {cv}
    /\ UNCHANGED <<variant, madeFrom, offerThere, asking, calls, generated, onScreen, kept>>

OfferPurged ==
    /\ offerThere /\ offerThere' = FALSE
    /\ UNCHANGED <<cv, variant, madeFrom, asking, calls, generated, onScreen, kept>>

CvNext ==
    \/ \E r \in Requests : Generate(r) \/ CallFails(r) \/ Unreadable(r)
    \/ \E r \in Requests, a \in Answers : Store(r, a)
    \/ GetVariant \/ ConfirmVariant \/ CvReplaced \/ OfferPurged

CvSpec == CvInit /\ [][CvNext]_cvVars

----------------------------------------------------------------------------
(* The variant row, the requests and the counters have their types.        *)
CvTypeOK ==
    /\ calls \in 0..MaxCalls
    /\ variant # NoVariant => variant.confirmed \in BOOLEAN
    /\ cv \in Cvs /\ DOMAIN madeFrom = {"skills", "jobs"} /\ \A c \in DOMAIN madeFrom : madeFrom[c] \in Cvs
    /\ \A r \in Requests :
         /\ asking[r].pc \in {"idle", "calling"} /\ asking[r].tries \in 0..CallAttempts
         /\ asking[r].of \in Cvs \cup {NoCv}

(* Whatever the model answers, however many requests race and whenever the *)
(* profile is replaced, each stored column keeps everything of the CV it   *)
(* was made from: every skill, every job at its place, and for every line  *)
(* of a listed job a bullet similar to it (a list of one line may be       *)
(* rewritten). That bullet may be another line's: two lines that look      *)
(* alike may share one (_reconcile_experiences, _reconcile_skills).        *)
NothingLost ==
    variant # NoVariant =>
        LET mine == madeFrom.jobs.jobs
        IN  /\ ToSet(madeFrom.skills.skills) \subseteq ToSet(variant.skills)
            /\ Len(variant.jobs) = Len(mine)
            /\ \A i \in DOMAIN mine :
                  \/ Len(mine[i]) = 1 /\ variant.jobs[i] # <<>>
                  \/ \A line \in ToSet(mine[i]) : IsCovered(line, variant.jobs[i])

(* What the candidate confirmed is what the row keeps                      *)
(* (cv_optimization_models.py:30-33: "decided to keep it").                *)
KeptIsStored == variant # NoVariant /\ variant.confirmed => Content(variant) = kept

(* Once a generation is stored, opening the page never pays for another    *)
(* (cv_optimization_service.py:13-15: "every later request for the same    *)
(* match returns instantly from the DB"); calls already under way aside.   *)
PaidOnce == [][generated => \A r \in Requests : asking[r].pc = "idle" => asking'[r].pc = "idle"]_cvVars
=============================================================================
