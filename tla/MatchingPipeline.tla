------------------------- MODULE MatchingPipeline -------------------------
(***************************************************************************)
(* The matching pipeline of src/app/modules/matching: every (candidate,    *)
(* offer) pair is shortlisted by a matching run, goes through two OpenAI   *)
(* batches (the cheap pre-filter, then the full analysis) and ends scored  *)
(* or filtered out.                                                        *)
(*                                                                         *)
(* Five kinds of process share one database: the matching runs (the 08:00  *)
(* sync and the run that follows a sign-up), the submitters (the interval  *)
(* job, and the call the sync makes when it ends), the poller, the         *)
(* requests that import a CV, complete onboarding or delete an account,    *)
(* and OpenAI.  A database transaction of a job is a read step, the        *)
(* network calls it makes, and a commit step: what other processes commit  *)
(* in between is what makes this code hard.                                *)
(*                                                                         *)
(* Writes follow SQLAlchemy's unit of work: an UPDATE carries only the     *)
(* columns whose new value differs from the value that was LOADED, and an  *)
(* UPDATE of a row that is gone raises and undoes the whole transaction.   *)
(***************************************************************************)
EXTENDS Integers, FiniteSets

CONSTANTS
    Profiles,     \* candidate profiles
    Offers,       \* job offers in the pool
    Runs,         \* the matching runs there are, of "sync" and "onboard"
    Submitters,   \* concurrent callers of submit_pending
    BatchIds,     \* OpenAI batches that may exist at the same time (a bound)
    NoBatch,      \* batch_id IS NULL
    NoProfile,    \* a run that is between two profiles
    MaxAttempts,  \* MATCHING_MAX_ATTEMPTS
    MaxOffers,    \* MATCHING_MAX_OFFERS_PER_CANDIDATE
    PoolSize,     \* MATCHING_PREFILTER_POOL_SIZE
    MaxRequests,  \* MATCHING_BATCH_MAX_REQUESTS
    Excludable,   \* offers the seniority rule may exclude for a candidate
    Deletable,    \* profiles whose account may be deleted (a bound)
    MaxImports,   \* bound: CV imports after the first, per profile
    MaxCrashes,   \* bound: restarts of the server process
    MailCap,      \* bound: first-matches emails are counted up to MailCap
    AskCap        \* bound: requests are counted up to AskCap (0: not counted)

ASSUME PipelineConstants ==
    /\ NoBatch \notin BatchIds
    /\ NoProfile \notin Profiles
    /\ MaxAttempts \in Nat \ {0}
    /\ MaxOffers \in Nat \ {0}
    /\ PoolSize \in Nat \ {0}
    /\ MaxRequests \in Nat \ {0}
    /\ MaxImports \in Nat
    /\ MaxCrashes \in Nat
    /\ MailCap \in Nat \ {0}
    /\ AskCap \in Nat
    /\ Runs \subseteq {"sync", "onboard"}
    /\ Excludable \subseteq Offers
    /\ Deletable \subseteq Profiles
    /\ IsFiniteSet(Profiles) /\ IsFiniteSet(Offers)

VARIABLES
    rows,        \* the candidate_matches table, one possible row per pair
    batches,     \* what is known of each OpenAI batch
    profile,     \* status of the candidate_profiles row, "gone" once deleted
    cv,          \* version of the CV text (raw_text)
    emb,         \* CV version the cached embedding was computed from
    sub,         \* the submitters
    poll,        \* the poller
    run,         \* the matching runs
    onboarding,  \* profiles whose first run is queued as a background task
    deleting,    \* profiles whose matches were purged, row not yet deleted
    mails,       \* first-matches emails written to the outbox, per profile, and
                 \* whether the "ready" one could not be written
    cues,        \* profiles ever announced by MatchesScored
    asked,       \* history: requests accepted since the pair was queued or dropped
    stale,       \* history: pairs written by a transaction that had loaded another row
    extra,       \* history: pairs with a request beside another one, or lost
    crashes      \* restarts so far

vars == <<rows, batches, profile, cv, emb, sub, poll, run, onboarding,
          deleting, mails, cues, asked, stale, extra, crashes>>

-----------------------------------------------------------------------------
(* The data *)

Pairs == Profiles \X Offers
Owner(r) == r[1]
PairsOf(p) == {r \in Pairs : Owner(r) = p}

Stages == {"prefilter", "analysis"}

\* MatchStatus, plus "absent" for a pair that has no row.
Statuses == {"absent", "shortlisted", "placeholder", "pending", "scored",
             "filtered_out"}
VisibleStatuses == {"placeholder", "pending", "scored"}

\* Variant for the mutation runs: the rows shown as placeholders are forgotten.
StageSkipsPlaceholders(stage) == IF stage = "prefilter" THEN {"shortlisted"} ELSE {"pending"}

\* The statuses a stage picks its rows from.
StageStatuses(stage) == IF stage = "prefilter" THEN {"shortlisted", "placeholder"}
                                               ELSE {"pending"}
InPipeline == {"shortlisted", "placeholder", "pending"}

Row == [status : Statuses, batch : BatchIds \cup {NoBatch}, attempts : Nat]
NoRow == [status |-> "absent", batch |-> NoBatch, attempts |-> 0]
NoRows == [r \in Pairs |-> NoRow]
Present(table) == {r \in Pairs : table[r].status # "absent"}

(* A batch is "sent" once OpenAI has accepted it and while the transaction  *)
(* that records it is open, "submitted" and then "ended" when it is in      *)
(* matching_batches, and an "orphan" when that transaction never committed: *)
(* OpenAI evaluates it, nobody polls it.                                    *)
Batch == [state : {"free", "sent", "submitted", "ended", "orphan"},
          stage : Stages, pairs : SUBSET Pairs]
FreeBatch == [state |-> "free", stage |-> "prefilter", pairs |-> {}]
Recorded == {b \in BatchIds : batches[b].state \in {"submitted", "ended"}}

NoEmb == -1
Versions == 0..MaxImports

IdleSub(stage) == [pc |-> "ready", stage |-> stage, todo |-> {}, built |-> {},
                   dropped |-> {}, sent |-> {}, dead |-> {}]
IdlePoll == [pc |-> "idle", batch |-> NoBatch, snap |-> NoRows, dead |-> {},
             brief |-> {}]
IdleRun == [pc |-> "idle", todo |-> {}, cv |-> [p \in Profiles |-> 0],
            emb |-> [p \in Profiles |-> NoEmb], who |-> NoProfile,
            changed |-> FALSE, embedding |-> NoEmb, snap |-> NoRows, dead |-> {}]

Least(m, n) == IF m <= n THEN m ELSE n

\* The outcomes of ranking S and keeping the n best of it.
Best(n, S) == {T \in SUBSET S : Cardinality(T) = Least(n, Cardinality(S))}

\* BaseRepository.update: only the columns that differ from what was loaded.
Update(current, loaded, new) ==
    [status   |-> IF new.status # loaded.status THEN new.status ELSE current.status,
     batch    |-> IF new.batch # loaded.batch THEN new.batch ELSE current.batch,
     attempts |-> IF new.attempts # loaded.attempts THEN new.attempts
                                                    ELSE current.attempts]

More(n) == Least(n + 1, MailCap)

Init ==
    /\ rows = NoRows
    /\ batches = [b \in BatchIds |-> FreeBatch]
    /\ profile = [p \in Profiles |-> "draft"]
    /\ cv = [p \in Profiles |-> 0]
    /\ emb = [p \in Profiles |-> NoEmb]
    /\ sub = [s \in Submitters |-> IdleSub("prefilter")]
    /\ poll = IdlePoll
    /\ run = [w \in Runs |-> IdleRun]
    /\ onboarding = {}
    /\ deleting = {}
    /\ mails = [p \in Profiles |-> [zero |-> 0, ready |-> 0, lost |-> FALSE]]
    /\ cues = {}
    /\ asked = [r \in Pairs |-> 0]
    /\ stale = {}
    /\ extra = {}
    /\ crashes = 0

-----------------------------------------------------------------------------
(* Requests: the CV and onboarding *)

\* A new CV replaces the text and clears the cached embedding.
ImportCv(p) ==
    /\ profile[p] # "gone"
    /\ cv[p] < MaxImports
    /\ cv' = [cv EXCEPT ![p] = @ + 1]
    /\ emb' = [emb EXCEPT ![p] = NoEmb]
    /\ UNCHANGED <<rows, batches, profile, sub, poll, run, onboarding,
                   deleting, mails, cues, asked, stale, extra, crashes>>

\* The preferences step ends onboarding, once, and queues the first run.
CompleteOnboarding(p) ==
    /\ profile[p] = "draft"
    /\ profile' = [profile EXCEPT ![p] = "complete"]
    /\ onboarding' = onboarding \cup {p}
    /\ UNCHANGED <<rows, batches, cv, emb, sub, poll, run, deleting, mails,
                   cues, asked, stale, extra, crashes>>

-----------------------------------------------------------------------------
(* Matching runs *)

\* The profiles a run has loaded: their CV and embedding are read here, once.
Load(todo) ==
    [IdleRun EXCEPT
        !.pc = "open", !.todo = todo,
        !.cv = [p \in Profiles |-> IF p \in todo THEN cv[p] ELSE 0],
        !.emb = [p \in Profiles |-> IF p \in todo THEN emb[p] ELSE NoEmb]]

\* 08:00: every complete profile is loaded before the first one is handled.
SyncStart ==
    /\ "sync" \in Runs
    /\ run["sync"].pc = "idle"
    /\ \E p \in Profiles : profile[p] = "complete"
    /\ run' = [run EXCEPT !["sync"] = Load({p \in Profiles : profile[p] = "complete"})]
    /\ UNCHANGED <<rows, batches, profile, cv, emb, sub, poll, onboarding,
                   deleting, mails, cues, asked, stale, extra, crashes>>

\* The background task of a sign-up; it does nothing for a deleted profile.
OnboardStart(p) ==
    /\ "onboard" \in Runs
    /\ run["onboard"].pc = "idle"
    /\ p \in onboarding
    /\ onboarding' = onboarding \ {p}
    /\ run' = IF profile[p] = "gone" THEN run
                                     ELSE [run EXCEPT !["onboard"] = Load({p})]
    /\ UNCHANGED <<rows, batches, profile, cv, emb, sub, poll, deleting, mails,
                   cues, asked, stale, extra, crashes>>

(* One profile: a missing embedding means a new CV; it is asked for over   *)
(* the network (best effort) from the CV text that was loaded, then the    *)
(* candidate's rows are read.                                              *)
RunRead(w, p) ==
    /\ run[w].pc = "open"
    /\ p \in run[w].todo
    /\ \E embedding \in IF run[w].emb[p] = NoEmb THEN {run[w].cv[p], NoEmb}
                                                 ELSE {run[w].emb[p]} :
         run' = [run EXCEPT
                   ![w].pc = "read", ![w].who = p,
                   ![w].changed = (run[w].emb[p] = NoEmb),
                   ![w].embedding = embedding,
                   ![w].snap = [r \in Pairs |-> IF Owner(r) = p THEN rows[r] ELSE NoRow]]
    /\ UNCHANGED <<rows, batches, profile, cv, emb, sub, poll, onboarding,
                   deleting, mails, cues, asked, stale, extra, crashes>>

\* The embedding this run computed, flushed and committed with its rows.
StoresEmbedding(w) == run[w].changed /\ run[w].embedding # NoEmb

Decision == [hidden : SUBSET Pairs, dropped : SUBSET Pairs,
             queued : SUBSET Pairs, first : SUBSET Pairs]
Touched(d) == d.hidden \cup d.dropped \cup d.queued

\* _record for the queued and dropped pairs, the hiding update for the others.
Target(w, d, r) ==
    LET old == run[w].snap[r] IN
    IF r \in d.queued
      THEN [NoRow EXCEPT !.status = IF old.status \in VisibleStatuses \/ r \in d.first
                                      THEN "placeholder" ELSE "shortlisted"]
    ELSE IF r \in d.dropped THEN [NoRow EXCEPT !.status = "filtered_out"]
    ELSE [old EXCEPT !.status = "filtered_out", !.batch = NoBatch]

\* A loaded row was deleted since, or a new one was inserted by someone else.
RunConflict(w, d) ==
    \/ Touched(d) \cap run[w].dead # {}
    \/ Touched(d) \cap (Present(rows) \ Present(run[w].snap)) # {}
    \/ StoresEmbedding(w) /\ profile[run[w].who] = "gone"

\* Variant for the mutation runs: the end of the sign-up run forgets whose it was.
NextForgetsWho(w, d) ==
    IF w = "onboard" /\ d.queued = {} THEN [IdleRun EXCEPT !.pc = "notify"] ELSE IdleRun

\* The next profile of the sync; the end of the sign-up run.
RunNext(w, d) ==
    LET left == run[w].todo \ {run[w].who} IN
    IF left # {}
      THEN [run[w] EXCEPT !.pc = "open", !.todo = left, !.who = NoProfile,
                          !.changed = FALSE, !.embedding = NoEmb, !.snap = NoRows, !.dead = {},
                          !.cv = [p \in Profiles |-> IF p \in left THEN @[p] ELSE 0],
                          !.emb = [p \in Profiles |-> IF p \in left THEN @[p] ELSE NoEmb]]
    ELSE IF w = "onboard" /\ d.queued = {}
      THEN [IdleRun EXCEPT !.pc = "notify", !.who = run[w].who]
    ELSE IdleRun

\* The end of _run_for_profile: everything it decided, in one commit.
RunCommit(w, d) ==
    /\ ~RunConflict(w, d)
    /\ rows' = [r \in Pairs |->
                  IF r \notin Touched(d) THEN rows[r]
                  ELSE IF r \notin Present(run[w].snap) THEN Target(w, d, r)
                  ELSE Update(rows[r], run[w].snap[r], Target(w, d, r))]
    /\ asked' = [r \in Pairs |-> IF r \in d.queued \cup d.dropped THEN 0 ELSE asked[r]]
    /\ stale' = stale \cup {r \in Touched(d) \cap Present(run[w].snap) :
                              rows[r] # run[w].snap[r]}
    /\ run' = [run EXCEPT ![w] = RunNext(w, d)]
    /\ emb' = IF StoresEmbedding(w) THEN [emb EXCEPT ![run[w].who] = run[w].embedding]
                                    ELSE emb
    /\ UNCHANGED <<batches, profile, cv, sub, poll, onboarding, deleting,
                   mails, cues, extra, crashes>>

\* The exception ends the whole sync; the sign-up run only logs it.
RunAbort(w, d) ==
    /\ RunConflict(w, d)
    /\ run' = [run EXCEPT ![w] = IdleRun]
    /\ UNCHANGED <<rows, batches, profile, cv, emb, sub, poll, onboarding,
                   deleting, mails, cues, asked, stale, extra, crashes>>

(* What a run decides for the profile it handles: which offers the         *)
(* seniority rule excludes, which ones are recent and fit the preferences. *)
(* Excluded rows on file are hidden unless the candidate acted on them,    *)
(* excluded candidates are recorded as dropped and never evaluated, the    *)
(* closest of the others are queued; the first of them are shown straight  *)
(* away when nothing was on file.                                          *)
RunDecide(w) ==
    /\ run[w].pc = "read"
    /\ LET mine == PairsOf(run[w].who)
           existing == Present(run[w].snap)
       IN  \E excluded \in SUBSET {r \in mine : r[2] \in Excludable},
              fresh \in SUBSET mine :
             LET candidates == IF run[w].changed THEN fresh ELSE fresh \ existing
                 pool == candidates \ excluded
             IN  \E hidden \in SUBSET {r \in (excluded \cap existing) \ candidates :
                                          run[w].snap[r].status # "filtered_out"},
                    queued \in Best(PoolSize, IF run[w].embedding = NoEmb THEN {} ELSE pool) :
                 \E first \in Best(MaxOffers, IF existing = {} THEN queued ELSE {}) :
                   LET d == [hidden |-> hidden, dropped |-> candidates \cap excluded,
                             queued |-> queued, first |-> first]
                   IN  RunCommit(w, d) \/ RunAbort(w, d)

\* The counters of a candidate once the email of that kind is in the outbox.
Written(mail, kind) == IF kind = "zero" THEN [mail EXCEPT !.zero = More(@)]
                                        ELSE [mail EXCEPT !.ready = More(@)]

(* send_first_matches_email: nothing for a deleted profile.  It is best     *)
(* effort: for any of the others it may fail, which is logged and leaves   *)
(* the results as they are; `lost` remembers that the "ready" one did.     *)
SendFirstMatches(kind, to) ==
    \E failed \in SUBSET to :
      mails' = [p \in Profiles |->
                  IF p \notin to \/ profile[p] = "gone" THEN mails[p]
                  ELSE IF p \in failed THEN [mails[p] EXCEPT !.lost = @ \/ kind = "ready"]
                  ELSE Written(mails[p], kind)]

\* Nothing to evaluate for a new profile: it is told so, in a second commit.
OnboardNotify ==
    /\ "onboard" \in Runs
    /\ run["onboard"].pc = "notify"
    /\ SendFirstMatches("zero", {run["onboard"].who})
    /\ run' = [run EXCEPT !["onboard"] = IdleRun]
    /\ UNCHANGED <<rows, batches, profile, cv, emb, sub, poll, onboarding,
                   deleting, cues, asked, stale, extra, crashes>>

-----------------------------------------------------------------------------
(* Submitting *)

\* list_unbatched
Waiting(stage) == {r \in Pairs : /\ rows[r].status \in StageStatuses(stage)
                                 /\ rows[r].batch = NoBatch
                                 /\ rows[r].attempts < MaxAttempts}

(* submit_pending takes the two stages in order; a stage without a waiting *)
(* row is skipped, and a pass that finds none at all changes nothing.      *)
(* The rows of the stage are read; those whose profile is gone are dropped,*)
(* the others get a request.                                               *)
SubmitRead(s) ==
    /\ sub[s].pc = "ready"
    /\ LET stage == IF sub[s].stage = "prefilter" /\ Waiting("prefilter") = {}
                      THEN "analysis" ELSE sub[s].stage
           waiting == Waiting(stage)
           built == {r \in waiting : profile[Owner(r)] # "gone"}
       IN  /\ waiting # {} \/ sub[s].stage = "analysis"
           /\ sub' = [sub EXCEPT ![s] =
                 IF waiting = {} THEN IdleSub("prefilter")
                 ELSE [IdleSub(stage) EXCEPT !.pc = "sending", !.built = built,
                           !.todo = {Owner(r) : r \in built}, !.dropped = waiting \ built]]
    /\ UNCHANGED <<rows, batches, profile, cv, emb, poll, run, onboarding,
                   deleting, mails, cues, asked, stale, extra, crashes>>

\* The stage that follows, or the end of the call.
After(stage) == IF stage = "prefilter" THEN "analysis" ELSE "prefilter"

\* Whole candidates are packed, in some order, while their requests fit.
RequestsOf(s, C) == {r \in sub[s].built : Owner(r) \in C}
Fits(s, C) == Cardinality(RequestsOf(s, C)) <= MaxRequests
Chunks(s) == {C \in (SUBSET sub[s].todo) \ {{}} :
                /\ Fits(s, C) \/ Cardinality(C) = 1
                /\ C = sub[s].todo \/ \E p \in sub[s].todo \ C : ~Fits(s, C \cup {p})}

SentPairs(s) == UNION {batches[b].pairs : b \in sub[s].sent}

\* OpenAI accepts a chunk.
SubmitSend(s, b) ==
    /\ sub[s].pc = "sending"
    /\ batches[b].state = "free"
    /\ \E C \in Chunks(s) :
         /\ batches' = [batches EXCEPT ![b] = [state |-> "sent", stage |-> sub[s].stage,
                                               pairs |-> RequestsOf(s, C)]]
         /\ sub' = [sub EXCEPT ![s].todo = @ \ C, ![s].sent = @ \cup {b}]
         /\ asked' = [r \in Pairs |-> IF r \in RequestsOf(s, C)
                                        THEN Least(asked[r] + 1, AskCap) ELSE asked[r]]
         /\ extra' = extra \cup {r \in RequestsOf(s, C) :
              \/ r \notin Waiting(sub[s].stage)
              \/ \E t \in Submitters : r \in SentPairs(t)}
    /\ UNCHANGED <<rows, profile, cv, emb, poll, run, onboarding, deleting,
                   mails, cues, stale, crashes>>

\* OpenAI refuses it (AppError): its rows wait for the next submission.
SubmitRefused(s) ==
    /\ sub[s].pc = "sending"
    /\ \E C \in Chunks(s) : sub' = [sub EXCEPT ![s].todo = @ \ C]
    /\ UNCHANGED <<rows, batches, profile, cv, emb, poll, run, onboarding,
                   deleting, mails, cues, asked, stale, extra, crashes>>

\* matching_batches gets one row for each chunk OpenAI accepted.
Recording(s) == [b \in BatchIds |-> IF b \in sub[s].sent
                   THEN [batches[b] EXCEPT !.state = "submitted"] ELSE batches[b]]
SubmitTouches(s) == SentPairs(s) \cup sub[s].dropped

\* One commit for the stage: the batches, their rows' batch_id, the drops.
SubmitCommit(s) ==
    /\ sub[s].pc = "sending"
    /\ sub[s].todo = {}
    /\ SubmitTouches(s) \cap sub[s].dead = {}
    /\ rows' = [r \in Pairs |->
                  IF r \in sub[s].dropped THEN [rows[r] EXCEPT !.status = "filtered_out"]
                  ELSE IF r \in SentPairs(s)
                    THEN [rows[r] EXCEPT !.batch = CHOOSE b \in sub[s].sent :
                                                      r \in batches[b].pairs]
                  ELSE rows[r]]
    /\ stale' = stale \cup (SubmitTouches(s) \ Waiting(sub[s].stage))
    /\ batches' = Recording(s)
    /\ sub' = [sub EXCEPT ![s] = IdleSub(After(sub[s].stage))]
    /\ UNCHANGED <<profile, cv, emb, poll, run, onboarding, deleting, mails,
                   cues, asked, extra, crashes>>

Orphaned(lost) == [b \in BatchIds |-> IF b \in lost
                     THEN [batches[b] EXCEPT !.state = "orphan"] ELSE batches[b]]

\* A row it updates was deleted since: the exception undoes the whole stage.
SubmitAbort(s) ==
    /\ sub[s].pc = "sending"
    /\ SubmitTouches(s) \cap sub[s].dead # {}
    /\ batches' = Orphaned(sub[s].sent)
    /\ extra' = extra \cup SentPairs(s)
    /\ sub' = [sub EXCEPT ![s] = IdleSub("prefilter")]
    /\ UNCHANGED <<rows, profile, cv, emb, poll, run, onboarding, deleting,
                   mails, cues, asked, stale, crashes>>

-----------------------------------------------------------------------------
(* OpenAI *)

RemoteEnd(b) ==
    /\ batches[b].state = "submitted"
    /\ batches' = [batches EXCEPT ![b].state = "ended"]
    /\ UNCHANGED <<rows, profile, cv, emb, sub, poll, run, onboarding,
                   deleting, mails, cues, asked, stale, extra, crashes>>

\* A batch nobody asks about runs and is forgotten.
RemoteForget(b) ==
    /\ batches[b].state = "orphan"
    /\ batches' = [batches EXCEPT ![b] = FreeBatch]
    /\ UNCHANGED <<rows, profile, cv, emb, sub, poll, run, onboarding,
                   deleting, mails, cues, asked, stale, extra, crashes>>

-----------------------------------------------------------------------------
(* Polling *)

\* A batch that ended is downloaded and its rows are read.
PollRead(b) ==
    /\ poll.pc = "idle"
    /\ batches[b].state = "ended"
    /\ poll' = [poll EXCEPT
                  !.pc = "read", !.batch = b,
                  !.snap = [r \in Pairs |-> IF rows[r].batch = b THEN rows[r] ELSE NoRow]]
    /\ UNCHANGED <<rows, batches, profile, cv, emb, sub, run, onboarding,
                   deleting, mails, cues, asked, stale, extra, crashes>>

PollRows == Present(poll.snap)
PollStage == batches[poll.batch].stage

\* Variant for the mutation runs: results are applied to rows that are gone.
ReadingGoneRows == poll.pc = "read"

\* Every row that was read is still there when the results are written.
PollReading == poll.pc = "read" /\ poll.dead = {}

\* Variants for the mutation runs.
FailureKeepsBatch(row) ==
    [row EXCEPT !.status = IF row.attempts + 1 >= MaxAttempts THEN "filtered_out" ELSE @,
                !.attempts = @ + 1]
FailureNotCounted(row) ==
    [row EXCEPT !.status = IF row.attempts + 1 >= MaxAttempts THEN "filtered_out" ELSE @,
                !.batch = NoBatch]
FailureOnceMore(row) ==
    [row EXCEPT !.status = IF row.attempts + 1 > MaxAttempts THEN "filtered_out" ELSE @,
                !.batch = NoBatch, !.attempts = @ + 1]

\* _register_failure: back to the queue, or given up on.
Failure(row) ==
    [status   |-> IF row.attempts + 1 >= MaxAttempts THEN "filtered_out" ELSE row.status,
     batch    |-> NoBatch,
     attempts |-> row.attempts + 1]
Outcome(row, status) == [row EXCEPT !.status = status, !.batch = NoBatch]

(* A failed or analysed row is updated from what was loaded.  A row that   *)
(* got a pre-filter score is first updated with it, which reads it again:  *)
(* its outcome is written over the current row.                            *)
Retried(r) == Update(rows[r], poll.snap[r], Failure(poll.snap[r]))
Analysed(r) == Update(rows[r], poll.snap[r], Outcome(poll.snap[r], "scored"))
Ranked(r, status) == Outcome(rows[r], status)

\* The commit of one batch: its rows updated, the batch closed.
PollApply(result) ==
    /\ rows' = [r \in Pairs |-> IF r \in PollRows THEN result[r] ELSE rows[r]]
    /\ stale' = stale \cup {r \in PollRows : rows[r] # poll.snap[r]}
    /\ batches' = [batches EXCEPT ![poll.batch] = FreeBatch]

(* Pre-filter: `failed` have no usable result, `good` reach the threshold, *)
(* the best MaxOffers of each candidate are kept.                          *)
PollPrefilter ==
    /\ PollReading
    /\ PollStage = "prefilter"
    /\ \E failed \in SUBSET PollRows : \E good \in SUBSET (PollRows \ failed) :
       \E keep \in SUBSET good :
         /\ \A p \in Profiles : keep \cap PairsOf(p) \in Best(MaxOffers, good \cap PairsOf(p))
         /\ PollApply([r \in PollRows |->
              IF r \in failed THEN Retried(r)
              ELSE Ranked(r, IF r \in keep THEN "pending" ELSE "filtered_out")])
         /\ SendFirstMatches("zero",
              {p \in Profiles : /\ PairsOf(p) \cap (PollRows \ failed) # {}
                                /\ PairsOf(p) \cap keep = {}
                                /\ PairsOf(p) \cap failed = {}
                                /\ \E r \in PollRows \cap PairsOf(p) :
                                      poll.snap[r].status = "placeholder"})
    /\ poll' = [IdlePoll EXCEPT !.brief = poll.brief]
    /\ UNCHANGED <<profile, cv, emb, sub, run, onboarding, deleting, cues,
                   asked, extra, crashes>>

\* Variant for the mutation runs: every visible row counts, not the scored ones.
NothingOnScreen(p, fresh) == \A r \in PairsOf(p) \ fresh : rows'[r].status \notin VisibleStatuses

\* None of the candidate's scored rows is older than this batch's results.
Newcomer(p, fresh) == \A r \in PairsOf(p) \ fresh : rows'[r].status # "scored"

(* Analysis: a candidate without any scored row but the new ones gets the  *)
(* first-matches email, the others are put on the brief list.              *)
PollAnalysis ==
    /\ PollReading
    /\ PollStage = "analysis"
    /\ \E failed \in SUBSET PollRows :
         LET fresh == PollRows \ failed
             owners == {Owner(r) : r \in fresh}
         IN  /\ PollApply([r \in PollRows |->
                  IF r \in failed THEN Retried(r) ELSE Analysed(r)])
             /\ SendFirstMatches("ready", {p \in owners : Newcomer(p, fresh)})
             /\ poll' = [IdlePoll EXCEPT !.brief =
                           poll.brief \cup {p \in owners : ~Newcomer(p, fresh)}]
    /\ UNCHANGED <<profile, cv, emb, sub, run, onboarding, deleting, cues,
                   asked, extra, crashes>>

\* A row of the batch was deleted since it was read: the pass ends there.
PollAbort ==
    /\ poll.pc = "read"
    /\ poll.dead # {}
    /\ poll' = IdlePoll
    /\ UNCHANGED <<rows, batches, profile, cv, emb, sub, run, onboarding,
                   deleting, mails, cues, asked, stale, extra, crashes>>

\* End of a pass: one MatchesScored for every candidate it is news to.
PollFinish ==
    /\ poll.pc = "idle"
    /\ poll.brief # {}
    /\ cues' = cues \cup poll.brief
    /\ poll' = IdlePoll
    /\ UNCHANGED <<rows, batches, profile, cv, emb, sub, run, onboarding,
                   deleting, mails, asked, stale, extra, crashes>>

-----------------------------------------------------------------------------
(* Account deletion, and restarts *)

(* CandidateProfileDeleting: the matches go first, in their own commit.  A  *)
(* row that exists later for the same pair is another row: `dead` keeps     *)
(* which of the rows an open transaction has loaded are gone.               *)
PurgeMatches(p) ==
    /\ p \in Deletable \ deleting
    /\ profile[p] # "gone"
    /\ rows' = [r \in Pairs |-> IF Owner(r) = p THEN NoRow ELSE rows[r]]
    /\ deleting' = deleting \cup {p}
    /\ poll' = [poll EXCEPT !.dead = @ \cup (PairsOf(p) \cap PollRows)]
    /\ sub' = [s \in Submitters |-> [sub[s] EXCEPT !.dead = @ \cup
                  (PairsOf(p) \cap (sub[s].built \cup sub[s].dropped))]]
    /\ run' = [w \in Runs |-> [run[w] EXCEPT !.dead = @ \cup
                  (PairsOf(p) \cap Present(run[w].snap))]]
    /\ UNCHANGED <<batches, profile, cv, emb, onboarding, mails, cues, asked,
                   stale, extra, crashes>>

\* Then the profile row.
DeleteProfile(p) ==
    /\ p \in deleting
    /\ profile' = [profile EXCEPT ![p] = "gone"]
    /\ deleting' = deleting \ {p}
    /\ UNCHANGED <<rows, batches, cv, emb, sub, poll, run, onboarding, mails,
                   cues, asked, stale, extra, crashes>>

\* The process dies: open transactions and background tasks are lost.
Crash ==
    /\ crashes < MaxCrashes
    /\ crashes' = crashes + 1
    /\ batches' = Orphaned(UNION {sub[s].sent : s \in Submitters})
    /\ extra' = extra \cup UNION {SentPairs(s) : s \in Submitters}
    /\ sub' = [s \in Submitters |-> IdleSub("prefilter")]
    /\ poll' = IdlePoll
    /\ run' = [w \in Runs |-> IdleRun]
    /\ onboarding' = {}
    /\ deleting' = {}
    /\ UNCHANGED <<rows, profile, cv, emb, mails, cues, asked, stale>>

-----------------------------------------------------------------------------

Next ==
    \/ \E p \in Profiles : \/ ImportCv(p) \/ CompleteOnboarding(p) \/ OnboardStart(p)
                           \/ PurgeMatches(p) \/ DeleteProfile(p)
    \/ SyncStart
    \/ \E w \in Runs : (\E p \in Profiles : RunRead(w, p)) \/ RunDecide(w)
    \/ OnboardNotify
    \/ \E s \in Submitters : \/ SubmitRead(s) \/ SubmitRefused(s)
                             \/ SubmitCommit(s) \/ SubmitAbort(s)
                             \/ \E b \in BatchIds : SubmitSend(s, b)
    \/ \E b \in BatchIds : RemoteEnd(b) \/ RemoteForget(b) \/ PollRead(b)
    \/ PollPrefilter \/ PollAnalysis \/ PollAbort \/ PollFinish
    \/ Crash

Spec == Init /\ [][Next]_vars

(* The jobs are scheduled for ever (every 10 or 15 minutes, every day), so *)
(* each of their steps is taken if it can be taken again and again; OpenAI *)
(* ends what it accepted and does not refuse a candidate's rows for ever.  *)
(* Nothing is asked of the outcomes, of the candidates or of crashes.      *)
RunStep(w) == \/ w = "sync" /\ SyncStart
              \/ w = "onboard" /\ (OnboardNotify \/ \E p \in Profiles : OnboardStart(p))
              \/ (\E p \in Profiles : RunRead(w, p)) \/ RunDecide(w)
SubmitStep(s) == \/ SubmitRead(s) \/ SubmitRefused(s) \/ SubmitCommit(s) \/ SubmitAbort(s)
                 \/ \E b \in BatchIds : SubmitSend(s, b)
SendsFor(s, p) == \E b \in BatchIds : SubmitSend(s, b) /\ p \in sub[s].todo \ sub'[s].todo
PollStep == \/ \E b \in BatchIds : PollRead(b)
            \/ PollPrefilter \/ PollAnalysis \/ PollAbort \/ PollFinish
RemoteStep == \E b \in BatchIds : RemoteEnd(b) \/ RemoteForget(b)

Fairness ==
    /\ \A w \in Runs : SF_vars(RunStep(w))
    /\ \A s \in Submitters : /\ SF_vars(SubmitStep(s))
                             /\ \A p \in Profiles : SF_vars(SendsFor(s, p))
    /\ SF_vars(PollStep)
    /\ SF_vars(RemoteStep)

FairSpec == Spec /\ Fairness

-----------------------------------------------------------------------------
(* Properties *)

Submission == [pc : {"ready", "sending"}, stage : Stages, todo : SUBSET Profiles,
               built : SUBSET Pairs, dropped : SUBSET Pairs, sent : SUBSET BatchIds,
               dead : SUBSET Pairs]
Polling == [pc : {"idle", "read"}, batch : BatchIds \cup {NoBatch},
            snap : [Pairs -> Row], dead : SUBSET Pairs, brief : SUBSET Profiles]
Running == [pc : {"idle", "open", "read", "notify"}, todo : SUBSET Profiles,
            cv : [Profiles -> Versions], emb : [Profiles -> Versions \cup {NoEmb}],
            who : Profiles \cup {NoProfile}, changed : BOOLEAN,
            embedding : Versions \cup {NoEmb}, snap : [Pairs -> Row],
            dead : SUBSET Pairs]

\* Every variable has its type; a run that has read rows read a profile's.
TypeOK ==
    /\ rows \in [Pairs -> Row]
    /\ batches \in [BatchIds -> Batch]
    /\ profile \in [Profiles -> {"draft", "complete", "gone"}]
    /\ cv \in [Profiles -> Versions]
    /\ emb \in [Profiles -> Versions \cup {NoEmb}]
    /\ sub \in [Submitters -> Submission]
    /\ poll \in Polling
    /\ poll.pc = "read" => poll.batch \in BatchIds
    /\ run \in [Runs -> Running]
    /\ \A w \in Runs : run[w].pc \in {"read", "notify"} => run[w].who \in Profiles
    /\ onboarding \subseteq Profiles
    /\ deleting \subseteq Profiles
    /\ mails \in [Profiles -> [zero : 0..MailCap, ready : 0..MailCap, lost : BOOLEAN]]
    /\ cues \subseteq Profiles
    /\ asked \in [Pairs -> 0..AskCap]
    /\ stale \subseteq Pairs
    /\ extra \subseteq Pairs
    /\ crashes \in 0..MaxCrashes

(* A row that points at a batch points at one the database still lists as  *)
(* submitted: the next poll will find it.  A row whose batch was closed,   *)
(* never recorded or lost in a crash would be submitted by nobody          *)
(* (batch_id is not NULL) and polled by nobody.                            *)
NoRowStranded == \A r \in Pairs : rows[r].batch # NoBatch => rows[r].batch \in Recorded

(* A candidate is only ever cued for the daily brief (MatchesScored) after *)
(* it was their turn for the first-matches email: it is in the outbox, or  *)
(* its writing failed, which was logged.  The brief never takes its place  *)
(* otherwise, in whatever order the batches come back.                     *)
FirstMailDone(p) == mails[p].ready > 0 \/ mails[p].lost
BriefComesAfterFirstMail ==
    \A p \in cues \cup poll.brief : profile[p] # "gone" => FirstMailDone(p)

(* What makes NoRowStranded hold, step after step: the sent batches of an  *)
(* open submission are its own, and the rows it loaded are there unless it *)
(* knows they are gone; the batch being polled is listed as ended, and the *)
(* poller has loaded every row that points at it.                          *)
AbsentUnbatched == \A r \in Pairs : rows[r].status = "absent" => rows[r].batch = NoBatch
SubmitterOwns ==
    \A s \in Submitters :
       /\ \A b \in sub[s].sent : /\ batches[b].state = "sent"
                                 /\ batches[b].pairs \subseteq sub[s].built
       /\ sub[s].built \ sub[s].dead \subseteq Present(rows)
       /\ \A t \in Submitters \ {s} : sub[s].sent \cap sub[t].sent = {}
PollerOwns ==
    poll.pc = "read" =>
       /\ batches[poll.batch].state = "ended"
       /\ \A r \in PollRows : poll.snap[r].batch = poll.batch
       /\ \A r \in Pairs : rows[r].batch = poll.batch => r \in PollRows
Ownership == /\ TypeOK /\ NoRowStranded
             /\ AbsentUnbatched /\ SubmitterOwns /\ PollerOwns

(* What makes PollOnlyUpdates hold: the rows the poller has loaded are     *)
(* there, but for those it knows are gone.                                 *)
PollerHolds == PollRows \ poll.dead \subseteq Present(rows)

(* What makes BriefComesAfterFirstMail hold: whoever has a scored row had  *)
(* their turn for the email.                                               *)
ScoredWasMailed ==
    \A r \in Pairs : rows[r].status = "scored" =>
       profile[Owner(r)] = "gone" \/ FirstMailDone(Owner(r))
MailedFirst == TypeOK /\ BriefComesAfterFirstMail /\ ScoredWasMailed

(* A row waiting for its next request has attempts left: list_unbatched    *)
(* would never pick it again otherwise.  The only row that can be left     *)
(* without is one that a transaction wrote after another had changed it:   *)
(* the columns it did not mean to change stay those of the other.          *)
NoRowExhausted ==
    \A r \in Pairs \ stale : rows[r].status \in InPipeline /\ rows[r].batch = NoBatch
                               => rows[r].attempts < MaxAttempts

(* Whatever fails, a pair costs at most MATCHING_MAX_ATTEMPTS + 1 requests *)
(* before it leaves the pipeline: the attempts counter is shared by the    *)
(* two stages and survives the promotion from one to the other.  The only  *)
(* other requests are those sent beside another one for the same pair, or  *)
(* lost with the transaction that sent them.                               *)
BoundedRequests == \A r \in Pairs \ (stale \cup extra) : asked[r] <= MaxAttempts + 1

(* What makes NoRowExhausted hold, row by row: one that waits for a        *)
(* request or for its answer has attempts left, and is at the stage of the *)
(* batch it waits for; a submission sends the rows of one stage, once.     *)
AttemptsLeft ==
    \A r \in Pairs \ stale :
       /\ rows[r].status \in InPipeline \/ rows[r].batch # NoBatch
            => rows[r].attempts < MaxAttempts
       /\ rows[r].batch # NoBatch
            => rows[r].status \in StageStatuses(batches[rows[r].batch].stage)
SendsOnce ==
    \A s \in Submitters :
       /\ sub[s].pc = "ready" => sub[s].built = {} /\ sub[s].sent = {}
       /\ \A b \in sub[s].sent : batches[b].stage = sub[s].stage
       /\ \A r \in SentPairs(s) : Owner(r) \notin sub[s].todo
RetryInv == Ownership /\ SendsOnce /\ AttemptsLeft

(* What makes BoundedRequests hold: every request of a row in the pipeline *)
(* is an attempt, but the one under way and the one that promoted the row  *)
(* to its analysis.                                                        *)
Promoted(r) == IF rows[r].status = "pending" THEN 1 ELSE 0
UnderWay(r) == rows[r].batch # NoBatch \/ \E s \in Submitters : r \in SentPairs(s)
RequestsCounted ==
    \A r \in Pairs \ (stale \cup extra) :
       rows[r].status \in InPipeline =>
          asked[r] <= rows[r].attempts + Promoted(r) + (IF UnderWay(r) THEN 1 ELSE 0)
BoundInv == RequestsCounted /\ BoundedRequests

\* The pair is not being evaluated by two batches of the same stage at once.
NeverEvaluatedTwice ==
    \A b, c \in BatchIds :
       b # c /\ batches[b].state # "free" /\ batches[c].state # "free"
       /\ batches[b].stage = batches[c].stage
       => batches[b].pairs \cap batches[c].pairs = {}

\* The cached embedding is the one of the CV on file.
EmbeddingCurrent == \A p \in Profiles : emb[p] \in {NoEmb, cv[p]}

\* A deleted account owns nothing any more.
DeletionComplete == \A r \in Pairs : profile[Owner(r)] = "gone" => rows[r] = NoRow

(* The poll only applies results to rows that still exist: a row purged    *)
(* while its request was at OpenAI does not come back with the result.     *)
PollOnlyUpdates == [][poll' # poll => Present(rows') \subseteq Present(rows)]_vars

(* Every pair that enters the pipeline leaves it, or is left without       *)
(* attempts (NoRowExhausted says when).                                    *)
Exhausted(r) == rows[r].batch = NoBatch /\ rows[r].attempts >= MaxAttempts
EveryPairSettles ==
    \A r \in Pairs : rows[r].status \in InPipeline
                        ~> rows[r].status \notin InPipeline \/ Exhausted(r)
=============================================================================
