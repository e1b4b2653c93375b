------------------------ MODULE MatchingPipelineProofs ------------------------
(***************************************************************************)
(* The matching pipeline: its types and the order of its two mails, who owns a *)
(* row of the table, and what its attempts counter promises, for every set of  *)
(* profiles, offers and submitters and every value of the settings.           *)
(***************************************************************************)
EXTENDS MatchingPipeline, TLAPS

LEMMA UpdateType ==
    ASSUME NEW a \in Row, NEW b \in Row, NEW c \in Row
    PROVE  Update(a, b, c) \in Row
  BY DEF Update, Row

LEMMA NoRowType == NoRow \in Row /\ NoRows \in [Pairs -> Row]
  BY DEF NoRow, NoRows, Row, Statuses

\* A run's target for a row it touches is a row.
LEMMA TargetType ==
    ASSUME TypeOK, NEW w \in Runs, NEW d \in Decision, NEW r \in Pairs
    PROVE  Target(w, d, r) \in Row
  <1>1. run[w].snap[r] \in Row
    BY DEF TypeOK, Running
  <1>2. \A s \in Statuses : [NoRow EXCEPT !.status = s] \in Row
    BY DEF NoRow, Row
  <1>3. [run[w].snap[r] EXCEPT !.status = "filtered_out", !.batch = NoBatch] \in Row
    BY <1>1 DEF Row, Statuses
  <1> QED BY <1>2, <1>3 DEF Target, Statuses

LEMMA IdleTypes ==
    /\ \A stage \in Stages : IdleSub(stage) \in Submission
    /\ IdlePoll \in Polling
    /\ IdleRun \in Running
    /\ FreeBatch \in Batch
  BY PipelineConstants, NoRowType
  DEF IdleSub, IdlePoll, IdleRun, FreeBatch, Submission, Polling, Running, Batch, Stages,
      Versions, NoEmb

LEMMA TypeInit == Init => TypeOK
  BY PipelineConstants, NoRowType, IdleTypes
  DEF Init, TypeOK, Versions, NoEmb, Stages, IdlePoll, IdleRun

LEMMA LoadType == ASSUME TypeOK, NEW todo \in SUBSET Profiles
                  PROVE  Load(todo) \in Running
  <1>1. 0 \in Versions
    BY PipelineConstants DEF Versions
  <1>2. /\ [p \in Profiles |-> IF p \in todo THEN cv[p] ELSE 0] \in [Profiles -> Versions]
        /\ [p \in Profiles |-> IF p \in todo THEN emb[p] ELSE NoEmb]
              \in [Profiles -> Versions \cup {NoEmb}]
    BY <1>1 DEF TypeOK
  <1> QED BY <1>2, IdleTypes DEF Load, Running

LEMMA TypeRequests ==
    ASSUME TypeOK, NEW p \in Profiles,
           ImportCv(p) \/ CompleteOnboarding(p) \/ OnboardStart(p) \/ DeleteProfile(p)
    PROVE  TypeOK'
  <1>1. CASE ImportCv(p)
    BY <1>1, PipelineConstants DEF TypeOK, ImportCv, Versions, NoEmb
  <1>2. CASE CompleteOnboarding(p)
    BY <1>2 DEF TypeOK, CompleteOnboarding
  <1>3. CASE OnboardStart(p)
    <2>1. Load({p}) \in Running /\ Load({p}).pc = "open"
      BY LoadType, IdleTypes DEF Load, IdleRun
    <2>2. run' \in [Runs -> Running]
      BY <1>3, <2>1 DEF TypeOK, OnboardStart
    <2>3. \A w \in Runs : run'[w].pc \in {"read", "notify"} => run'[w].who \in Profiles
      BY <1>3, <2>1 DEF TypeOK, OnboardStart
    <2> QED BY <1>3, <2>2, <2>3 DEF TypeOK, OnboardStart
  <1>4. CASE DeleteProfile(p)
    BY <1>4 DEF TypeOK, DeleteProfile
  <1> QED BY <1>1, <1>2, <1>3, <1>4

LEMMA TypeSyncStart == TypeOK /\ SyncStart => TypeOK'
  <1> SUFFICES ASSUME TypeOK, SyncStart PROVE TypeOK'
    OBVIOUS
  <1> DEFINE loaded == Load({p \in Profiles : profile[p] = "complete"})
  <1>1. loaded \in Running /\ loaded.pc = "open"
    BY LoadType, IdleTypes DEF Load, IdleRun
  <1>2. run' = [run EXCEPT !["sync"] = loaded] /\ "sync" \in Runs
    BY DEF SyncStart
  <1> HIDE DEF loaded
  <1>3. run' \in [Runs -> Running]
    BY <1>1, <1>2 DEF TypeOK
  <1>4. \A w \in Runs : run'[w].pc \in {"read", "notify"} => run'[w].who \in Profiles
    BY <1>1, <1>2 DEF TypeOK
  <1> QED BY <1>3, <1>4 DEF TypeOK, SyncStart

LEMMA MailType ==
    ASSUME TypeOK, NEW kind, NEW to, SendFirstMatches(kind, to)
    PROVE  mails' \in [Profiles -> [zero : 0..MailCap, ready : 0..MailCap, lost : BOOLEAN]]
  <1>1. \A n \in 0..MailCap : More(n) \in 0..MailCap
    BY PipelineConstants DEF More, Least
  <1>2. \A m \in [zero : 0..MailCap, ready : 0..MailCap, lost : BOOLEAN] :
            /\ [m EXCEPT !.zero = More(@)] \in [zero : 0..MailCap, ready : 0..MailCap, lost : BOOLEAN]
            /\ [m EXCEPT !.ready = More(@)] \in [zero : 0..MailCap, ready : 0..MailCap, lost : BOOLEAN]
            /\ [m EXCEPT !.lost = @ \/ kind = "ready"]
                  \in [zero : 0..MailCap, ready : 0..MailCap, lost : BOOLEAN]
    BY <1>1
  <1>3. \A p \in Profiles : mails[p] \in [zero : 0..MailCap, ready : 0..MailCap, lost : BOOLEAN]
    BY DEF TypeOK
  <1> QED BY <1>2, <1>3 DEF SendFirstMatches, Written

\* What the history sets are made of.
LEMMA HistoryTypes ==
    ASSUME TypeOK
    PROVE  /\ \A s \in Submitters : SentPairs(s) \subseteq Pairs /\ SubmitTouches(s) \subseteq Pairs
           /\ \A s \in Submitters : \A C : RequestsOf(s, C) \subseteq Pairs
           /\ \A d \in Decision : Touched(d) \subseteq Pairs
           /\ PollRows \subseteq Pairs
  <1>1. \A s \in Submitters : SentPairs(s) \subseteq Pairs /\ sub[s].dropped \subseteq Pairs
                              /\ sub[s].built \subseteq Pairs
    BY DEF TypeOK, Submission, Batch, SentPairs
  <1> QED BY <1>1 DEF SubmitTouches, RequestsOf, Decision, Touched, PollRows, Present

LEMMA TypeOnboardNotify == TypeOK /\ OnboardNotify => TypeOK'
  <1> SUFFICES ASSUME TypeOK, OnboardNotify PROVE TypeOK'
    OBVIOUS
  <1>1. mails' \in [Profiles -> [zero : 0..MailCap, ready : 0..MailCap, lost : BOOLEAN]]
    BY MailType DEF OnboardNotify
  <1>2. IdleRun \in Running /\ IdleRun.pc = "idle"
    BY IdleTypes DEF IdleRun
  <1>3. run' \in [Runs -> Running]
    BY <1>2 DEF TypeOK, OnboardNotify
  <1>4. \A w \in Runs : run'[w].pc \in {"read", "notify"} => run'[w].who \in Profiles
    BY <1>2 DEF TypeOK, OnboardNotify
  <1> QED BY <1>1, <1>3, <1>4 DEF TypeOK, OnboardNotify

LEMMA TypeRunRead ==
    ASSUME TypeOK, NEW w \in Runs, NEW p \in Profiles, RunRead(w, p)
    PROVE  TypeOK'
  <1>1. run[w] \in Running
    BY DEF TypeOK
  <1>2. [r \in Pairs |-> IF Owner(r) = p THEN rows[r] ELSE NoRow] \in [Pairs -> Row]
    BY NoRowType DEF TypeOK
  <1>3. PICK e \in Versions \cup {NoEmb} :
          run' = [run EXCEPT
                   ![w].pc = "read", ![w].who = p,
                   ![w].changed = (run[w].emb[p] = NoEmb),
                   ![w].embedding = e,
                   ![w].snap = [r \in Pairs |-> IF Owner(r) = p THEN rows[r] ELSE NoRow]]
    BY <1>1 DEF RunRead, Running
  <1>4. run'[w] = [run[w] EXCEPT
                   !.pc = "read", !.who = p,
                   !.changed = (run[w].emb[p] = NoEmb),
                   !.embedding = e,
                   !.snap = [r \in Pairs |-> IF Owner(r) = p THEN rows[r] ELSE NoRow]]
    BY <1>3 DEF TypeOK
  <1>5. run'[w] \in Running
    BY <1>1, <1>2, <1>4 DEF Running
  <1>6. run'[w].who = p
    BY <1>1, <1>4 DEF Running
  <1>7. \A v \in Runs \ {w} : run'[v] = run[v]
    BY <1>3 DEF TypeOK
  <1>8. run' \in [Runs -> Running]
    BY <1>3, <1>5, <1>7 DEF TypeOK
  <1>9. \A v \in Runs : run'[v].pc \in {"read", "notify"} => run'[v].who \in Profiles
    BY <1>6, <1>7 DEF TypeOK
  <1> QED BY <1>8, <1>9 DEF TypeOK, RunRead

\* What RunDecide decides is a Decision about pairs.
LEMMA RunDecideCases ==
    ASSUME TypeOK, NEW w \in Runs, RunDecide(w)
    PROVE  \E d \in Decision : /\ Touched(d) \subseteq PairsOf(run[w].who)
                               /\ RunCommit(w, d) \/ RunAbort(w, d)
  <1>1. \A n, S : \A T \in Best(n, S) : T \subseteq S
    BY DEF Best
  <1>2. PairsOf(run[w].who) \subseteq Pairs /\ Present(run[w].snap) \subseteq Pairs
    BY DEF PairsOf, Present
  <1> QED BY <1>1, <1>2 DEF RunDecide, Decision, Touched

LEMMA RunNextType ==
    ASSUME TypeOK, NEW w \in Runs, NEW d \in Decision, run[w].pc = "read"
    PROVE  /\ RunNext(w, d) \in Running
           /\ RunNext(w, d).pc \in {"read", "notify"} => RunNext(w, d).who \in Profiles
           /\ RunNext(w, d).pc # "read"
  <1> DEFINE left == run[w].todo \ {run[w].who}
  <1>1. run[w] \in Running /\ run[w].who \in Profiles
    BY DEF TypeOK
  <1>2. 0 \in Versions
    BY PipelineConstants DEF Versions
  <1>3. /\ [p \in Profiles |-> IF p \in left THEN run[w].cv[p] ELSE 0] \in [Profiles -> Versions]
        /\ [p \in Profiles |-> IF p \in left THEN run[w].emb[p] ELSE NoEmb]
              \in [Profiles -> Versions \cup {NoEmb}]
    BY <1>1, <1>2 DEF Running
  <1>4. CASE left # {}
    <2>1. RunNext(w, d) =
            [run[w] EXCEPT !.pc = "open", !.todo = left, !.who = NoProfile,
                 !.changed = FALSE, !.embedding = NoEmb, !.snap = NoRows, !.dead = {},
                 !.cv = [p \in Profiles |-> IF p \in left THEN @[p] ELSE 0],
                 !.emb = [p \in Profiles |-> IF p \in left THEN @[p] ELSE NoEmb]]
      BY <1>4 DEF RunNext
    <2>2. RunNext(w, d) =
            [run[w] EXCEPT !.pc = "open", !.todo = left, !.who = NoProfile,
                 !.changed = FALSE, !.embedding = NoEmb, !.snap = NoRows, !.dead = {},
                 !.cv = [p \in Profiles |-> IF p \in left THEN run[w].cv[p] ELSE 0],
                 !.emb = [p \in Profiles |-> IF p \in left THEN run[w].emb[p] ELSE NoEmb]]
      BY <2>1, <1>1 DEF Running
    <2> HIDE DEF left
    <2>3. left \in SUBSET Profiles
      BY <1>1 DEF Running, left
    <2> QED BY <2>2, <2>3, <1>1, <1>3, NoRowType DEF Running
  <1>5. CASE left = {}
    BY <1>1, <1>5, IdleTypes DEF RunNext, IdleRun, Running
  <1> QED BY <1>4, <1>5

LEMMA TypeRunDecide ==
    ASSUME TypeOK, NEW w \in Runs, RunDecide(w)
    PROVE  TypeOK'
  <1>1. PICK d \in Decision : RunCommit(w, d) \/ RunAbort(w, d)
    BY RunDecideCases
  <1>2. run[w].pc = "read" /\ run[w] \in Running
    BY DEF RunDecide, TypeOK
  <1>3. CASE RunCommit(w, d)
    <2>1. /\ RunNext(w, d) \in Running
          /\ RunNext(w, d).pc \in {"read", "notify"} => RunNext(w, d).who \in Profiles
      BY <1>2, RunNextType
    <2>2. rows' \in [Pairs -> Row]
      <3>1. \A r \in Pairs : rows[r] \in Row /\ run[w].snap[r] \in Row /\ Target(w, d, r) \in Row
        BY <1>2, TargetType DEF TypeOK, Running
      <3> QED BY <1>3, <3>1, UpdateType DEF RunCommit
    <2>3. emb' \in [Profiles -> Versions \cup {NoEmb}]
      BY <1>2, <1>3 DEF RunCommit, TypeOK, Running
    <2>4. asked' \in [Pairs -> 0..AskCap]
      BY <1>3, PipelineConstants DEF RunCommit, TypeOK
    <2>5. /\ run' \in [Runs -> Running]
          /\ \A v \in Runs : run'[v].pc \in {"read", "notify"} => run'[v].who \in Profiles
      BY <1>3, <2>1 DEF RunCommit, TypeOK
    <2>6. stale' \subseteq Pairs
      BY <1>3, HistoryTypes DEF RunCommit, TypeOK
    <2> QED BY <1>3, <2>2, <2>3, <2>4, <2>5, <2>6 DEF RunCommit, TypeOK
  <1>4. CASE RunAbort(w, d)
    <2>1. IdleRun \in Running /\ IdleRun.pc = "idle"
      BY IdleTypes DEF IdleRun
    <2>2. /\ run' \in [Runs -> Running]
          /\ \A v \in Runs : run'[v].pc \in {"read", "notify"} => run'[v].who \in Profiles
      BY <1>4, <2>1 DEF RunAbort, TypeOK
    <2> QED BY <1>4, <2>2 DEF RunAbort, TypeOK
  <1> QED BY <1>1, <1>3, <1>4

LEMMA TypeSubmit ==
    ASSUME TypeOK, NEW s \in Submitters, SubmitStep(s)
    PROVE  TypeOK'
  <1>1. sub[s] \in Submission
    BY DEF TypeOK
  <1>2. \A stage \in Stages : IdleSub(stage) \in Submission /\ After(stage) \in Stages
    BY IdleTypes DEF After, Stages
  <1>3. "prefilter" \in Stages /\ "analysis" \in Stages
    BY DEF Stages
  <1>4. CASE SubmitRead(s)
    <2> DEFINE stage == IF sub[s].stage = "prefilter" /\ Waiting("prefilter") = {}
                          THEN "analysis" ELSE sub[s].stage
               waiting == Waiting(stage)
               built == {r \in waiting : profile[Owner(r)] # "gone"}
               next == IF waiting = {} THEN IdleSub("prefilter")
                       ELSE [IdleSub(stage) EXCEPT !.pc = "sending", !.built = built,
                               !.todo = {Owner(r) : r \in built}, !.dropped = waiting \ built]
    <2>1. stage \in Stages
      BY <1>1, <1>3 DEF Submission
    <2>2. waiting \subseteq Pairs /\ built \subseteq waiting
      BY DEF Waiting
    <2>3. \A r \in Pairs : Owner(r) \in Profiles
      BY DEF Pairs, Owner
    <2>4. sub' = [sub EXCEPT ![s] = next]
      BY <1>4 DEF SubmitRead
    <2>5. {Owner(r) : r \in built} \subseteq Profiles
      BY <2>2, <2>3
    <2> HIDE DEF stage, waiting, built
    <2>6. next \in Submission
      BY <1>2, <1>3, <2>1, <2>2, <2>5 DEF Submission, IdleSub
    <2> HIDE DEF next
    <2>7. sub' \in [Submitters -> Submission]
      BY <2>4, <2>6 DEF TypeOK
    <2> QED BY <1>4, <2>7 DEF SubmitRead, TypeOK
  <1>5. CASE SubmitRefused(s)
    <2>1. PICK C : sub' = [sub EXCEPT ![s].todo = @ \ C]
      BY <1>5 DEF SubmitRefused
    <2>2. sub' \in [Submitters -> Submission]
      BY <1>1, <2>1 DEF TypeOK, Submission
    <2> QED BY <1>5, <2>2 DEF SubmitRefused, TypeOK
  <1>6. CASE SubmitCommit(s)
    <2>1. rows' \in [Pairs -> Row]
      <3>1. \A r \in Pairs : rows[r] \in Row
        BY DEF TypeOK
      <3>2. \A r \in Pairs : r \in SentPairs(s) =>
              (CHOOSE b \in sub[s].sent : r \in batches[b].pairs) \in BatchIds
        BY <1>1 DEF SentPairs, Submission
      <3>3. \A row \in Row : /\ [row EXCEPT !.status = "filtered_out"] \in Row
                            /\ \A b \in BatchIds : [row EXCEPT !.batch = b] \in Row
        BY DEF Row, Statuses
      <3> QED BY <1>6, <3>1, <3>2, <3>3 DEF SubmitCommit
    <2>2. batches' \in [BatchIds -> Batch]
      <3>1. \A b \in BatchIds : [batches[b] EXCEPT !.state = "submitted"] \in Batch
        BY DEF TypeOK, Batch
      <3> QED BY <1>6, <3>1 DEF SubmitCommit, Recording, TypeOK
    <2>3. sub' \in [Submitters -> Submission]
      <3>1. IdleSub(After(sub[s].stage)) \in Submission
        BY <1>1, <1>2 DEF Submission
      <3> QED BY <1>6, <3>1 DEF SubmitCommit, TypeOK
    <2>4. stale' \subseteq Pairs
      BY <1>6, HistoryTypes DEF SubmitCommit, TypeOK
    <2> QED BY <1>6, <2>1, <2>2, <2>3, <2>4 DEF SubmitCommit, TypeOK
  <1>7. CASE SubmitAbort(s)
    <2>1. batches' \in [BatchIds -> Batch]
      BY <1>7 DEF SubmitAbort, Orphaned, TypeOK, Batch
    <2>2. sub' \in [Submitters -> Submission]
      BY <1>2, <1>3, <1>7 DEF SubmitAbort, TypeOK
    <2>3. extra' \subseteq Pairs
      BY <1>7, HistoryTypes DEF SubmitAbort, TypeOK
    <2> QED BY <1>7, <2>1, <2>2, <2>3 DEF SubmitAbort, TypeOK
  <1>8. ASSUME NEW b \in BatchIds, SubmitSend(s, b) PROVE TypeOK'
    <2>1. PICK C :
            /\ batches' = [batches EXCEPT ![b] = [state |-> "sent", stage |-> sub[s].stage,
                                                  pairs |-> RequestsOf(s, C)]]
            /\ sub' = [sub EXCEPT ![s].todo = @ \ C, ![s].sent = @ \cup {b}]
            /\ asked' = [r \in Pairs |-> IF r \in RequestsOf(s, C)
                                           THEN Least(asked[r] + 1, AskCap) ELSE asked[r]]
      BY <1>8 DEF SubmitSend
    <2>2. RequestsOf(s, C) \subseteq Pairs
      BY <1>1 DEF RequestsOf, Submission
    <2>3. batches' \in [BatchIds -> Batch]
      BY <1>1, <2>1, <2>2 DEF TypeOK, Batch, Submission
    <2>4. sub' \in [Submitters -> Submission]
      BY <1>1, <1>8, <2>1 DEF TypeOK, Submission
    <2>5. asked' \in [Pairs -> 0..AskCap]
      <3>1. \A n \in 0..AskCap : Least(n + 1, AskCap) \in 0..AskCap
        BY PipelineConstants DEF Least
      <3> QED BY <2>1, <3>1 DEF TypeOK
    <2>6. extra' \subseteq Pairs
      BY <1>8, HistoryTypes DEF SubmitSend, TypeOK
    <2> QED BY <1>8, <2>3, <2>4, <2>5, <2>6 DEF SubmitSend, TypeOK
  <1> QED BY <1>4, <1>5, <1>6, <1>7, <1>8 DEF SubmitStep

LEMMA TypeRemote == TypeOK /\ RemoteStep => TypeOK'
  <1> SUFFICES ASSUME TypeOK, NEW b \in BatchIds, RemoteEnd(b) \/ RemoteForget(b)
               PROVE  TypeOK'
    BY DEF RemoteStep
  <1>1. batches' \in [BatchIds -> Batch]
    <2>1. [batches[b] EXCEPT !.state = "ended"] \in Batch
      BY DEF TypeOK, Batch
    <2>2. CASE RemoteEnd(b)
      <3>1. batches' = [batches EXCEPT ![b] = [batches[b] EXCEPT !.state = "ended"]]
        BY <2>2 DEF RemoteEnd, TypeOK
      <3> QED BY <3>1, <2>1 DEF TypeOK
    <2>3. CASE RemoteForget(b)
      BY <2>3, IdleTypes DEF RemoteForget, TypeOK
    <2> QED BY <2>2, <2>3
  <1> QED BY <1>1 DEF RemoteEnd, RemoteForget, TypeOK

\* The rows a poll writes are rows, whatever the results.
LEMMA PollApplyType ==
    ASSUME TypeOK, NEW result \in [PollRows -> Row], PollApply(result), poll.pc = "read"
    PROVE  rows' \in [Pairs -> Row] /\ batches' \in [BatchIds -> Batch]
  <1>1. \A r \in Pairs : rows[r] \in Row /\ poll.snap[r] \in Row
    BY DEF TypeOK, Polling
  <1>2. rows' \in [Pairs -> Row]
    BY <1>1, UpdateType DEF PollApply
  <1>3. batches' \in [BatchIds -> Batch]
    BY IdleTypes DEF PollApply, TypeOK
  <1> QED BY <1>2, <1>3

\* Whatever the outcome, what the poll writes to a row it read is a row.
LEMMA ResultTypes ==
    ASSUME TypeOK, NEW r \in PollRows
    PROVE  /\ Retried(r) \in Row /\ Analysed(r) \in Row
           /\ \A status \in Statuses : Ranked(r, status) \in Row
  <1>1. poll.snap[r] \in Row /\ rows[r] \in Row
    BY DEF TypeOK, Polling, PollRows, Present
  <1>2. poll.snap[r].attempts + 1 \in Nat
    BY <1>1 DEF Row
  <1>3. Failure(poll.snap[r]) \in Row
    BY <1>1, <1>2 DEF Failure, Row, Statuses
  <1>4. \A status \in Statuses, row \in Row : Outcome(row, status) \in Row
    BY DEF Outcome, Row
  <1> QED BY <1>1, <1>3, <1>4, UpdateType DEF Retried, Analysed, Ranked, Statuses

\* The three ways a poll leaves the "read" state keep the type of the poller.
LEMMA PollIdleType ==
    ASSUME TypeOK, NEW B \in SUBSET Profiles
    PROVE  /\ [IdlePoll EXCEPT !.brief = B] \in Polling
           /\ [IdlePoll EXCEPT !.brief = B].pc = "idle"
  BY IdleTypes DEF IdlePoll, Polling

LEMMA TypePollPrefilter == TypeOK /\ PollPrefilter => TypeOK'
  <1> SUFFICES ASSUME TypeOK, PollPrefilter PROVE TypeOK'
    OBVIOUS
  <1>1. poll.pc = "read" /\ poll \in Polling
    BY DEF PollPrefilter, PollReading, TypeOK
  <1>2. PICK failed \in SUBSET PollRows, keep \in SUBSET PollRows :
          /\ PollApply([r \in PollRows |->
                IF r \in failed THEN Retried(r)
                ELSE Ranked(r, IF r \in keep THEN "pending" ELSE "filtered_out")])
          /\ \E to : SendFirstMatches("zero", to)
    BY DEF PollPrefilter
  <1>3. PICK to : SendFirstMatches("zero", to)
    BY <1>2
  <1>4. [r \in PollRows |-> IF r \in failed THEN Retried(r)
            ELSE Ranked(r, IF r \in keep THEN "pending" ELSE "filtered_out")]
          \in [PollRows -> Row]
    BY ResultTypes DEF Statuses
  <1>5. rows' \in [Pairs -> Row] /\ batches' \in [BatchIds -> Batch]
    BY <1>1, <1>2, <1>4, PollApplyType
  <1>6. mails' \in [Profiles -> [zero : 0..MailCap, ready : 0..MailCap, lost : BOOLEAN]]
    BY <1>3, MailType
  <1>7. poll' \in Polling /\ poll'.pc = "idle"
    BY <1>1, PollIdleType DEF PollPrefilter, Polling
  <1>8. stale' \subseteq Pairs
    BY HistoryTypes DEF PollPrefilter, PollApply, TypeOK
  <1> QED BY <1>5, <1>6, <1>7, <1>8 DEF PollPrefilter, TypeOK

LEMMA TypePollAnalysis == TypeOK /\ PollAnalysis => TypeOK'
  <1> SUFFICES ASSUME TypeOK, PollAnalysis PROVE TypeOK'
    OBVIOUS
  <1>1. poll.pc = "read" /\ poll \in Polling
    BY DEF PollAnalysis, PollReading, TypeOK
  <1>2. PICK failed \in SUBSET PollRows :
          /\ PollApply([r \in PollRows |-> IF r \in failed THEN Retried(r) ELSE Analysed(r)])
          /\ \E to : SendFirstMatches("ready", to)
          /\ \E brief \in SUBSET {Owner(r) : r \in PollRows} :
                poll' = [IdlePoll EXCEPT !.brief = poll.brief \cup brief]
    BY DEF PollAnalysis
  <1>3. PICK to : SendFirstMatches("ready", to)
    BY <1>2
  <1>9. PICK brief \in SUBSET {Owner(r) : r \in PollRows} :
          poll' = [IdlePoll EXCEPT !.brief = poll.brief \cup brief]
    BY <1>2
  <1>4. [r \in PollRows |-> IF r \in failed THEN Retried(r) ELSE Analysed(r)] \in [PollRows -> Row]
    BY ResultTypes DEF Statuses
  <1>5. rows' \in [Pairs -> Row] /\ batches' \in [BatchIds -> Batch]
    BY <1>1, <1>2, <1>4, PollApplyType
  <1>6. mails' \in [Profiles -> [zero : 0..MailCap, ready : 0..MailCap, lost : BOOLEAN]]
    BY <1>3, MailType
  <1>7. brief \subseteq Profiles
    BY DEF PollRows, Present, Pairs, Owner
  <1>8. poll' \in Polling /\ poll'.pc = "idle"
    BY <1>1, <1>9, <1>7, PollIdleType DEF Polling
  <1>10. stale' \subseteq Pairs
    BY HistoryTypes DEF PollAnalysis, PollApply, TypeOK
  <1> QED BY <1>5, <1>6, <1>8, <1>10 DEF PollAnalysis, TypeOK

LEMMA TypePollOthers ==
    TypeOK /\ (PollAbort \/ PollFinish \/ \E b \in BatchIds : PollRead(b)) => TypeOK'
  <1> SUFFICES ASSUME TypeOK, PollAbort \/ PollFinish \/ \E b \in BatchIds : PollRead(b)
               PROVE  TypeOK'
    OBVIOUS
  <1>1. poll \in Polling /\ IdlePoll \in Polling /\ IdlePoll.pc = "idle"
    BY IdleTypes DEF TypeOK, IdlePoll
  <1>2. CASE PollAbort
    BY <1>1, <1>2 DEF PollAbort, TypeOK
  <1>3. CASE PollFinish
    BY <1>1, <1>3 DEF PollFinish, TypeOK, Polling
  <1>4. ASSUME NEW b \in BatchIds, PollRead(b) PROVE TypeOK'
    <2>1. [r \in Pairs |-> IF rows[r].batch = b THEN rows[r] ELSE NoRow] \in [Pairs -> Row]
      BY NoRowType DEF TypeOK
    <2>2. poll' \in Polling /\ poll'.batch \in BatchIds
      BY <1>1, <1>4, <2>1 DEF PollRead, Polling
    <2> QED BY <1>4, <2>2 DEF PollRead, TypeOK
  <1> QED BY <1>2, <1>3, <1>4

LEMMA RunningDead ==
    ASSUME NEW R \in Running, NEW D \in SUBSET Pairs,
           NEW S, S = [R EXCEPT !.dead = R.dead \cup D]
    PROVE  S \in Running /\ S.pc = R.pc /\ S.who = R.who
  BY DEF Running

LEMMA TypePurge ==
    ASSUME TypeOK, NEW p \in Profiles, PurgeMatches(p)
    PROVE  TypeOK'
  <1>1. PairsOf(p) \subseteq Pairs
    BY DEF PairsOf
  <1>2. rows' \in [Pairs -> Row]
    BY NoRowType DEF PurgeMatches, TypeOK
  <1>3. poll' \in Polling /\ poll'.pc = poll.pc /\ poll'.batch = poll.batch
    BY <1>1 DEF PurgeMatches, TypeOK, Polling
  <1>4. sub' \in [Submitters -> Submission]
    <2>1. \A s \in Submitters, D \in SUBSET Pairs :
             [sub[s] EXCEPT !.dead = sub[s].dead \cup D] \in Submission
      BY DEF TypeOK, Submission
    <2>2. \A s \in Submitters : sub'[s] = [sub[s] EXCEPT !.dead = sub[s].dead \cup
                  (PairsOf(p) \cap (sub[s].built \cup sub[s].dropped))]
      BY DEF PurgeMatches
    <2>3. \A s \in Submitters : sub'[s] \in Submission
      BY <1>1, <2>1, <2>2
    <2> QED BY <2>3 DEF PurgeMatches
  <1>5. ASSUME NEW w \in Runs
        PROVE  run'[w] \in Running /\ run'[w].pc = run[w].pc /\ run'[w].who = run[w].who
    <2> DEFINE D == PairsOf(p) \cap Present(run[w].snap)
    <2>1. D \in SUBSET Pairs
      BY <1>1
    <2>2. run'[w] = [run[w] EXCEPT !.dead = run[w].dead \cup D]
      BY DEF PurgeMatches
    <2>3. run[w] \in Running
      BY DEF TypeOK
    <2> HIDE DEF D
    <2> QED BY <2>1, <2>2, <2>3, RunningDead
  <1>6. run' \in [Runs -> Running]
    BY <1>5 DEF PurgeMatches
  <1> QED BY <1>2, <1>3, <1>4, <1>5, <1>6 DEF PurgeMatches, TypeOK

LEMMA TypeCrash == TypeOK /\ Crash => TypeOK'
  <1> SUFFICES ASSUME TypeOK, Crash PROVE TypeOK'
    OBVIOUS
  <1>1. batches' \in [BatchIds -> Batch]
    BY DEF Crash, Orphaned, TypeOK, Batch
  <1>2. crashes' \in 0..MaxCrashes
    BY PipelineConstants DEF Crash, TypeOK
  <1>3. "prefilter" \in Stages /\ IdlePoll.pc = "idle" /\ IdleRun.pc = "idle"
    BY DEF Stages, IdlePoll, IdleRun
  <1>4. sub' \in [Submitters -> Submission] /\ poll' \in Polling /\ run' \in [Runs -> Running]
    BY <1>3, IdleTypes DEF Crash
  <1>5. extra' \subseteq Pairs
    BY HistoryTypes DEF Crash, TypeOK
  <1> QED BY <1>1, <1>2, <1>3, <1>4, <1>5 DEF Crash, TypeOK

LEMMA TypeNext == TypeOK /\ [Next]_vars => TypeOK'
  <1> SUFFICES ASSUME TypeOK, [Next]_vars PROVE TypeOK'
    OBVIOUS
  <1>1. CASE \E p \in Profiles : \/ ImportCv(p) \/ CompleteOnboarding(p) \/ OnboardStart(p)
                                \/ PurgeMatches(p) \/ DeleteProfile(p)
    BY <1>1, TypeRequests, TypePurge
  <1>2. CASE SyncStart \/ OnboardNotify
    BY <1>2, TypeSyncStart, TypeOnboardNotify
  <1>3. CASE \E w \in Runs : (\E p \in Profiles : RunRead(w, p)) \/ RunDecide(w)
    BY <1>3, TypeRunRead, TypeRunDecide
  <1>4. CASE \E s \in Submitters : SubmitStep(s)
    BY <1>4, TypeSubmit
  <1>5. CASE RemoteStep
    BY <1>5, TypeRemote
  <1>6. CASE PollStep
    BY <1>6, TypePollPrefilter, TypePollAnalysis, TypePollOthers DEF PollStep
  <1>7. CASE Crash
    BY <1>7, TypeCrash
  <1>8. CASE UNCHANGED vars
    BY <1>8 DEF vars, TypeOK
  <1> QED BY <1>1, <1>2, <1>3, <1>4, <1>5, <1>6, <1>7, <1>8
          DEF Next, SubmitStep, RemoteStep, PollStep

(* The types hold for every number of profiles, offers, submitters and     *)
(* batches: in particular the attempts counter stays a natural number and  *)
(* every batch_id is NULL or a batch.                                      *)
THEOREM TypeCorrect == Spec => []TypeOK
  BY TypeInit, TypeNext, PTL DEF Spec

-------------------------------------------------------------------------------
(* The poll that puts a candidate on the brief list saw a row scored earlier:*)
(* whoever has a scored row had their turn for the email. Only PollAnalysis  *)
(* can disturb that, and it restores it in the same commit.                  *)

LEMMA MailInit == Init => MailedFirst
  <1> SUFFICES ASSUME Init PROVE MailedFirst
    OBVIOUS
  <1>1. TypeOK
    BY TypeInit
  <1>2. BriefComesAfterFirstMail /\ ScoredWasMailed
    BY DEF Init, BriefComesAfterFirstMail, ScoredWasMailed, IdlePoll, NoRows, NoRow
  <1> QED BY <1>1, <1>2 DEF MailedFirst

\* Emails are never taken back, and whoever's turn it is had their turn.
LEMMA MailsGrow ==
    ASSUME TypeOK, NEW kind \in {"zero", "ready"}, NEW to, SendFirstMatches(kind, to)
    PROVE  /\ \A p \in Profiles : FirstMailDone(p) => FirstMailDone(p)'
           /\ kind = "ready" =>
                \A p \in Profiles \cap to : profile[p] = "gone" \/ FirstMailDone(p)'
  <1>1. \A n \in 0..MailCap : More(n) > 0
    BY PipelineConstants DEF More, Least
  <1>2. \A p \in Profiles : mails[p] \in [zero : 0..MailCap, ready : 0..MailCap, lost : BOOLEAN]
    BY DEF TypeOK
  <1>3. PICK failed \in SUBSET to :
          mails' = [p \in Profiles |->
                      IF p \notin to \/ profile[p] = "gone" THEN mails[p]
                      ELSE IF p \in failed THEN [mails[p] EXCEPT !.lost = @ \/ kind = "ready"]
                      ELSE Written(mails[p], kind)]
    BY DEF SendFirstMatches
  <1>4. \A p \in Profiles : mails[p].lost \in BOOLEAN /\ mails[p].ready \in 0..MailCap
    BY <1>2
  <1>5. ASSUME NEW p \in Profiles
        PROVE  /\ mails[p].ready > 0 => mails'[p].ready > 0
               /\ mails[p].lost => mails'[p].lost
               /\ kind = "ready" /\ p \in to =>
                    profile[p] = "gone" \/ mails'[p].ready > 0 \/ mails'[p].lost
    <2>1. CASE p \notin to \/ profile[p] = "gone"
      BY <1>3, <2>1
    <2>2. CASE p \in failed /\ p \in to /\ profile[p] # "gone"
      <3>1. mails'[p] = [mails[p] EXCEPT !.lost = @ \/ kind = "ready"]
        BY <1>3, <2>2
      <3>2. /\ mails'[p].ready = mails[p].ready
            /\ mails'[p].lost = (mails[p].lost \/ kind = "ready")
        BY <1>2, <3>1
      <3> QED BY <1>4, <3>2
    <2>3. CASE p \notin failed /\ p \in to /\ profile[p] # "gone"
      <3>1. mails'[p] = Written(mails[p], kind)
        BY <1>3, <2>3
      <3> QED BY <1>1, <1>2, <3>1 DEF Written
    <2> QED BY <2>1, <2>2, <2>3
  <1> QED BY <1>5 DEF FirstMailDone

\* The actions that write something these two properties are about.
LEMMA MailWriters ==
    ASSUME [Next]_vars
    PROVE  \/ UNCHANGED <<rows, poll, profile, mails, cues>>
           \/ \E p \in Profiles : CompleteOnboarding(p) \/ DeleteProfile(p) \/ PurgeMatches(p)
           \/ \E w \in Runs : RunDecide(w)
           \/ OnboardNotify
           \/ \E s \in Submitters : SubmitCommit(s)
           \/ \E b \in BatchIds : PollRead(b)
           \/ PollPrefilter \/ PollAnalysis \/ PollAbort \/ PollFinish \/ Crash
  <1>1. \A p \in Profiles : ImportCv(p) \/ OnboardStart(p)
                              => UNCHANGED <<rows, poll, profile, mails, cues>>
    BY DEF ImportCv, OnboardStart
  <1>2. SyncStart \/ (\E w \in Runs, p \in Profiles : RunRead(w, p))
                              => UNCHANGED <<rows, poll, profile, mails, cues>>
    BY DEF SyncStart, RunRead
  <1>3. \A s \in Submitters : SubmitRead(s) \/ SubmitRefused(s) \/ SubmitAbort(s)
                              => UNCHANGED <<rows, poll, profile, mails, cues>>
    BY DEF SubmitRead, SubmitRefused, SubmitAbort
  <1>4. \A s \in Submitters, b \in BatchIds : SubmitSend(s, b)
                              => UNCHANGED <<rows, poll, profile, mails, cues>>
    BY DEF SubmitSend
  <1>5. \A b \in BatchIds : RemoteEnd(b) \/ RemoteForget(b)
                              => UNCHANGED <<rows, poll, profile, mails, cues>>
    BY DEF RemoteEnd, RemoteForget
  <1>6. UNCHANGED vars => UNCHANGED <<rows, poll, profile, mails, cues>>
    BY DEF vars
  <1> QED BY <1>1, <1>2, <1>3, <1>4, <1>5, <1>6 DEF Next

\* What the runs' commit leaves alone.
LEMMA MailRunFrame ==
    ASSUME TypeOK, NEW w \in Runs, RunDecide(w)
    PROVE  UNCHANGED <<poll, profile, mails, cues>>
  BY RunDecideCases DEF RunCommit, RunAbort

\* A deleted profile does not come back.
LEMMA GoneStays ==
    ASSUME TypeOK, [Next]_vars, NEW p \in Profiles, profile[p] = "gone"
    PROVE  profile'[p] = "gone"
  <1>1. CASE \E q \in Profiles : CompleteOnboarding(q) \/ DeleteProfile(q) \/ PurgeMatches(q)
    BY <1>1 DEF TypeOK, CompleteOnboarding, DeleteProfile, PurgeMatches
  <1>2. CASE \E w \in Runs : RunDecide(w)
    BY <1>2, MailRunFrame
  <1>3. CASE \/ OnboardNotify \/ \E s \in Submitters : SubmitCommit(s)
             \/ \E b \in BatchIds : PollRead(b)
    BY <1>3 DEF OnboardNotify, SubmitCommit, PollRead
  <1>4. CASE PollPrefilter \/ PollAnalysis
    BY <1>4 DEF PollPrefilter, PollAnalysis
  <1>5. CASE PollAbort \/ PollFinish \/ Crash
    BY <1>5 DEF PollAbort, PollFinish, Crash
  <1> QED BY <1>1, <1>2, <1>3, <1>4, <1>5, MailWriters

\* A step that scores nothing, cues no one new and takes no email back.
LEMMA MailFrame ==
    ASSUME MailedFirst,
           \A p \in Profiles : profile[p] = "gone" => profile'[p] = "gone",
           \A r \in Pairs : rows'[r].status = "scored" => rows[r].status = "scored",
           \A p \in Profiles : FirstMailDone(p) => FirstMailDone(p)',
           cues' \cup poll'.brief \subseteq cues \cup poll.brief
    PROVE  (BriefComesAfterFirstMail /\ ScoredWasMailed)'
  <1>1. cues \cup poll.brief \subseteq Profiles
    BY DEF MailedFirst, TypeOK, Polling
  <1>2. \A r \in Pairs : Owner(r) \in Profiles
    BY DEF Pairs, Owner
  <1>3. BriefComesAfterFirstMail'
    BY <1>1 DEF MailedFirst, BriefComesAfterFirstMail
  <1>4. ScoredWasMailed'
    BY <1>2 DEF MailedFirst, ScoredWasMailed
  <1> QED BY <1>3, <1>4

LEMMA MailRunDecide ==
    ASSUME TypeOK, NEW w \in Runs, RunDecide(w), NEW r \in Pairs,
           rows'[r].status = "scored"
    PROVE  rows[r].status = "scored"
  <1>1. PICK d \in Decision : RunCommit(w, d) \/ RunAbort(w, d)
    BY RunDecideCases
  <1>2. run[w].snap[r] \in Row
    BY DEF TypeOK, Running
  <1>3. Target(w, d, r).status # "scored"
    BY <1>2 DEF Target, NoRow, Row
  <1> QED BY <1>1, <1>3 DEF RunCommit, RunAbort, Update

LEMMA MailOthers ==
    ASSUME MailedFirst, [Next]_vars, ~PollPrefilter, ~PollAnalysis
    PROVE  (BriefComesAfterFirstMail /\ ScoredWasMailed)'
  <1>0. TypeOK
    BY DEF MailedFirst
  <1>1. \A p \in Profiles : profile[p] = "gone" => profile'[p] = "gone"
    BY <1>0, GoneStays
  <1>2. ASSUME NEW r \in Pairs, rows'[r].status = "scored" PROVE rows[r].status = "scored"
    <2>1. CASE \E w \in Runs : RunDecide(w)
      BY <1>0, <1>2, <2>1, MailRunDecide
    <2>2. CASE \E s \in Submitters : SubmitCommit(s)
      <3>1. rows[r] \in Row
        BY <1>0 DEF TypeOK
      <3> QED BY <1>2, <2>2, <3>1 DEF SubmitCommit, Row
    <2>3. CASE \E p \in Profiles : PurgeMatches(p)
      BY <1>2, <2>3 DEF PurgeMatches, NoRow
    <2>4. CASE \/ \E p \in Profiles : CompleteOnboarding(p) \/ DeleteProfile(p)
               \/ OnboardNotify \/ PollAbort \/ PollFinish \/ Crash
               \/ \E b \in BatchIds : PollRead(b)
      BY <1>2, <2>4 DEF CompleteOnboarding, DeleteProfile, OnboardNotify, PollAbort,
                        PollFinish, Crash, PollRead
    <2> QED BY <1>2, <2>1, <2>2, <2>3, <2>4, MailWriters
  <1>3. \A p \in Profiles : FirstMailDone(p) => FirstMailDone(p)'
    <2>1. CASE OnboardNotify
      BY <1>0, <2>1, MailsGrow DEF OnboardNotify
    <2>2. CASE \E w \in Runs : RunDecide(w)
      BY <1>0, <2>2, MailRunFrame DEF FirstMailDone
    <2>3. CASE \/ \E p \in Profiles : \/ CompleteOnboarding(p) \/ DeleteProfile(p)
                                      \/ PurgeMatches(p)
               \/ \E s \in Submitters : SubmitCommit(s)
               \/ PollAbort \/ PollFinish \/ Crash
               \/ \E b \in BatchIds : PollRead(b)
      BY <2>3 DEF CompleteOnboarding, DeleteProfile, PurgeMatches, SubmitCommit, PollAbort,
                  PollFinish, Crash, PollRead, FirstMailDone
    <2> QED BY <2>1, <2>2, <2>3, MailWriters DEF FirstMailDone
  <1>4. cues' \cup poll'.brief \subseteq cues \cup poll.brief
    <2>1. poll \in Polling
      BY <1>0 DEF TypeOK
    <2>2. CASE PollFinish \/ PollAbort \/ Crash
      BY <2>2 DEF PollFinish, PollAbort, Crash, IdlePoll
    <2>3. CASE \E w \in Runs : RunDecide(w)
      BY <1>0, <2>3, MailRunFrame
    <2>4. CASE \/ \E p \in Profiles : CompleteOnboarding(p) \/ DeleteProfile(p)
               \/ OnboardNotify \/ \E s \in Submitters : SubmitCommit(s)
      BY <2>4 DEF CompleteOnboarding, DeleteProfile, OnboardNotify, SubmitCommit
    <2>5. CASE \/ \E p \in Profiles : PurgeMatches(p)
               \/ \E b \in BatchIds : PollRead(b)
      BY <2>1, <2>5 DEF PurgeMatches, PollRead, Polling
    <2> QED BY <2>2, <2>3, <2>4, <2>5, MailWriters
  <1> QED BY <1>1, <1>2, <1>3, <1>4, MailFrame

\* Applying a result leaves a row scored only if the result, or the row, is.
LEMMA ScoredByApply ==
    ASSUME TypeOK, NEW result, PollApply(result), NEW r \in Pairs,
           rows'[r].status = "scored",
           r \in PollRows => result[r].status # "scored" \/ result[r] = Retried(r)
    PROVE  rows[r].status = "scored"
  <1>1. CASE r \notin PollRows
    BY <1>1 DEF PollApply
  <1>2. CASE r \in PollRows
    <2>1. rows'[r] = result[r]
      BY <1>2 DEF PollApply
    <2>2. Retried(r).status = "scored" => rows[r].status = "scored"
      BY DEF Retried, Failure, Update
    <2> QED BY <1>2, <2>1, <2>2
  <1> QED BY <1>1, <1>2

LEMMA MailPrefilter ==
    ASSUME MailedFirst, PollPrefilter
    PROVE  (BriefComesAfterFirstMail /\ ScoredWasMailed)'
  <1>0. TypeOK
    BY DEF MailedFirst
  <1> DEFINE told(failed, keep) ==
               {p \in Profiles : /\ PairsOf(p) \cap (PollRows \ failed) # {}
                                 /\ PairsOf(p) \cap keep = {}
                                 /\ PairsOf(p) \cap failed = {}
                                 /\ \E r \in PollRows \cap PairsOf(p) :
                                       poll.snap[r].status = "placeholder"}
  <1>1. PICK failed, keep :
          /\ PollApply([r \in PollRows |->
               IF r \in failed THEN Retried(r)
               ELSE Ranked(r, IF r \in keep THEN "pending" ELSE "filtered_out")])
          /\ SendFirstMatches("zero", told(failed, keep))
    BY DEF PollPrefilter
  <1> DEFINE result == [r \in PollRows |->
               IF r \in failed THEN Retried(r)
               ELSE Ranked(r, IF r \in keep THEN "pending" ELSE "filtered_out")]
  <1>2. ASSUME NEW r \in PollRows
        PROVE  result[r].status # "scored" \/ result[r] = Retried(r)
    <2>1. rows[r] \in Row
      BY <1>0 DEF TypeOK, PollRows, Present
    <2>2. \A status : Ranked(r, status).status = status
      BY <2>1 DEF Ranked, Outcome, Row
    <2>3. CASE r \in failed
      BY <2>3
    <2>4. CASE r \notin failed
      <3>1. result[r] = Ranked(r, IF r \in keep THEN "pending" ELSE "filtered_out")
        BY <2>4
      <3> QED BY <2>2, <3>1
    <2> QED BY <2>3, <2>4
  <1>3. PollApply(result)
    BY <1>1
  <1> HIDE DEF result
  <1>4. \A r \in Pairs : rows'[r].status = "scored" => rows[r].status = "scored"
    BY <1>0, <1>2, <1>3, ScoredByApply
  <1>5. \A p \in Profiles : FirstMailDone(p) => FirstMailDone(p)'
    BY <1>0, <1>1, MailsGrow
  <1>6. profile' = profile /\ cues' \cup poll'.brief \subseteq cues \cup poll.brief
    BY DEF PollPrefilter, IdlePoll
  <1> QED BY <1>4, <1>5, <1>6, MailFrame

LEMMA MailAnalysis ==
    ASSUME MailedFirst, PollAnalysis
    PROVE  (BriefComesAfterFirstMail /\ ScoredWasMailed)'
  <1>0. TypeOK
    BY DEF MailedFirst
  <1> DEFINE result(failed) == [r \in PollRows |-> IF r \in failed THEN Retried(r) ELSE Analysed(r)]
             fresh(failed) == PollRows \ failed
             owners(failed) == {Owner(r) : r \in fresh(failed)}
             newcomers(failed) == {p \in owners(failed) :
                Newcomer(p, fresh(failed))}
  <1>1. PICK failed \in SUBSET PollRows :
          /\ PollApply(result(failed))
          /\ SendFirstMatches("ready", newcomers(failed))
          /\ poll'.brief = poll.brief \cup (owners(failed) \ newcomers(failed))
    BY DEF PollAnalysis, IdlePoll
  <1>2. \A r \in Pairs : Owner(r) \in Profiles /\ r \in PairsOf(Owner(r))
    BY DEF Pairs, Owner, PairsOf
  <1>3. ASSUME NEW r \in Pairs \ fresh(failed), rows'[r].status = "scored"
        PROVE  rows[r].status = "scored"
    <2>1. r \in PollRows => result(failed)[r] = Retried(r)
      OBVIOUS
    <2> HIDE DEF result
    <2> QED BY <1>0, <1>1, <1>3, <2>1, ScoredByApply
  <1>4. profile' = profile /\ cues' = cues
    BY DEF PollAnalysis
  <1>5. \A p \in Profiles : FirstMailDone(p) => FirstMailDone(p)'
    BY <1>0, <1>1, MailsGrow
  <1>6. \A p \in newcomers(failed) \cap Profiles : profile[p] = "gone" \/ FirstMailDone(p)'
    BY <1>0, <1>1, MailsGrow
  <1> HIDE DEF result, newcomers
  <1>7. ASSUME NEW p \in owners(failed) \ newcomers(failed)
        PROVE  p \in Profiles /\ (profile[p] = "gone" \/ FirstMailDone(p)')
    <2>1. p \in Profiles
      BY <1>2 DEF PollRows, Present
    <2>2. PICK r \in PairsOf(p) \ fresh(failed) : rows'[r].status = "scored"
      BY DEF newcomers, Newcomer
    <2>3. r \in Pairs /\ Owner(r) = p
      BY DEF PairsOf
    <2>4. rows[r].status = "scored"
      BY <1>3, <2>2, <2>3
    <2> QED BY <1>5, <2>1, <2>3, <2>4 DEF MailedFirst, ScoredWasMailed
  <1>8. ScoredWasMailed'
    <2> SUFFICES ASSUME NEW r \in Pairs, rows'[r].status = "scored"
                 PROVE  profile[Owner(r)] = "gone" \/ FirstMailDone(Owner(r))'
      BY <1>4 DEF ScoredWasMailed
    <2>1. CASE r \in fresh(failed)
      BY <1>2, <1>6, <1>7, <2>1
    <2>2. CASE r \notin fresh(failed)
      BY <1>2, <1>3, <1>5, <2>2 DEF MailedFirst, ScoredWasMailed
    <2> QED BY <2>1, <2>2
  <1>9. BriefComesAfterFirstMail'
    <2>1. cues \cup poll.brief \subseteq Profiles
      BY <1>0 DEF TypeOK, Polling
    <2> QED BY <1>1, <1>4, <1>5, <1>7, <2>1 DEF MailedFirst, BriefComesAfterFirstMail
  <1> QED BY <1>8, <1>9

LEMMA MailNext == MailedFirst /\ [Next]_vars => MailedFirst'
  <1> SUFFICES ASSUME MailedFirst, [Next]_vars PROVE MailedFirst'
    OBVIOUS
  <1>1. TypeOK'
    BY TypeNext DEF MailedFirst
  <1>2. (BriefComesAfterFirstMail /\ ScoredWasMailed)'
    BY MailPrefilter, MailAnalysis, MailOthers
  <1> QED BY <1>1, <1>2 DEF MailedFirst

(* However polls, runs, deletions and crashes interleave, MatchesScored is *)
(* only published for a candidate whose first-matches email is written, or *)
(* failed to be.                                                           *)
THEOREM BriefAfterMail == Spec => []BriefComesAfterFirstMail
  <1>1. MailedFirst => BriefComesAfterFirstMail
    BY DEF MailedFirst
  <1> QED BY <1>1, MailInit, MailNext, PTL DEF Spec

-------------------------------------------------------------------------------
(* NoRowStranded: the four parts Ownership adds to the types are what the    *)
(* submitters, the poller and the table know of each other.                  *)

\* What a step proves about Ownership beyond the types.
Owned == NoRowStranded /\ AbsentUnbatched /\ SubmitterOwns /\ PollerOwns

LEMMA OwnershipParts == Ownership <=> TypeOK /\ Owned
  BY DEF Ownership, Owned

LEMMA OwnInit == Init => Ownership
  <1> SUFFICES ASSUME Init PROVE Ownership
    OBVIOUS
  <1>1. TypeOK
    BY TypeInit
  <1>2. Owned
    BY DEF Init, Owned, NoRowStranded, AbsentUnbatched, SubmitterOwns, PollerOwns, NoRows,
           NoRow, IdleSub, IdlePoll, Present
  <1> QED BY <1>1, <1>2, OwnershipParts

\* A step of anyone else may only clear batch_id, and makes no row absent.
LEMMA OwnRows ==
    ASSUME Ownership, UNCHANGED <<batches, sub, poll>>,
           \A r \in Pairs :
              /\ rows'[r].batch \in {NoBatch, rows[r].batch}
              /\ rows'[r].status = "absent" => rows[r].status = "absent"
    PROVE  Owned'
  <1>1. NoRowStranded'
    BY DEF Ownership, NoRowStranded, Recorded
  <1>2. AbsentUnbatched'
    BY DEF Ownership, AbsentUnbatched
  <1>3. Present(rows) \subseteq Present(rows')
    BY DEF Present
  <1>4. SubmitterOwns'
    BY <1>3 DEF Ownership, SubmitterOwns
  <1>5. PollerOwns'
    <2>1. NoBatch # poll.batch \/ poll.pc # "read"
      BY PipelineConstants DEF Ownership, TypeOK
    <2> QED BY <2>1 DEF Ownership, PollerOwns, PollRows
  <1> QED BY <1>1, <1>2, <1>4, <1>5 DEF Owned

LEMMA OwnRunDecide ==
    ASSUME Ownership, NEW w \in Runs, RunDecide(w)
    PROVE  Owned'
  <1>0. TypeOK
    BY DEF Ownership
  <1>1. PICK d \in Decision : RunCommit(w, d) \/ RunAbort(w, d)
    BY <1>0, RunDecideCases
  <1>2. CASE RunAbort(w, d)
    BY <1>2, OwnRows DEF RunAbort
  <1>3. CASE RunCommit(w, d)
    <2>1. \A r \in Pairs : run[w].snap[r] \in Row /\ rows[r] \in Row
      BY <1>0 DEF TypeOK, Running
    <2>2. ASSUME NEW r \in Pairs
          PROVE  /\ Target(w, d, r).batch = NoBatch
                 /\ Target(w, d, r).status # "absent"
      BY <2>1 DEF Target, NoRow, Row
    <2>3. \A r \in Pairs :
              /\ rows'[r].batch \in {NoBatch, rows[r].batch}
              /\ rows'[r].status = "absent" => rows[r].status = "absent"
      BY <1>3, <2>2 DEF RunCommit, Update
    <2> QED BY <1>3, <2>3, OwnRows DEF RunCommit
  <1> QED BY <1>1, <1>2, <1>3

\* The steps that write neither rows, batches, submitters nor the poller.
LEMMA OwnOthers ==
    ASSUME Ownership,
           \/ \E p \in Profiles : ImportCv(p) \/ CompleteOnboarding(p) \/ OnboardStart(p)
                                   \/ DeleteProfile(p)
           \/ SyncStart \/ OnboardNotify
           \/ \E w \in Runs, p \in Profiles : RunRead(w, p)
           \/ UNCHANGED vars
    PROVE  Owned'
  <1>1. UNCHANGED <<rows, batches, sub, poll>>
    BY DEF ImportCv, CompleteOnboarding, OnboardStart, DeleteProfile, SyncStart,
           OnboardNotify, RunRead, vars
  <1> QED BY <1>1, OwnRows

LEMMA OwnSubmitRead ==
    ASSUME Ownership, NEW s \in Submitters, SubmitRead(s) \/ SubmitRefused(s)
    PROVE  Owned'
  <1>1. UNCHANGED <<rows, batches, poll>>
    BY DEF SubmitRead, SubmitRefused
  <1>2. sub \in [Submitters -> Submission]
    BY DEF Ownership, TypeOK
  <1>3. \/ sub'[s].sent = sub[s].sent /\ sub'[s].built = sub[s].built /\ sub'[s].dead = sub[s].dead
        \/ sub'[s].sent = {} /\ sub'[s].built \subseteq Present(rows)
    <2>1. CASE SubmitRead(s)
      <3>1. \A stage : Waiting(stage) \subseteq Present(rows)
        BY DEF Waiting, Present, StageStatuses
      <3> QED BY <1>2, <2>1, <3>1 DEF SubmitRead, IdleSub
    <2>2. CASE SubmitRefused(s)
      BY <1>2, <2>2 DEF SubmitRefused, Submission
    <2> QED BY <2>1, <2>2
  <1>4. \A t \in Submitters \ {s} : sub'[t] = sub[t]
    BY <1>2 DEF SubmitRead, SubmitRefused
  <1>5. SubmitterOwns'
    BY <1>1, <1>3, <1>4 DEF Ownership, SubmitterOwns
  <1> QED BY <1>1, <1>5
          DEF Ownership, Owned, NoRowStranded, Recorded, AbsentUnbatched, PollerOwns, PollRows

LEMMA OwnSubmitSend ==
    ASSUME Ownership, NEW s \in Submitters, NEW b \in BatchIds, SubmitSend(s, b)
    PROVE  Owned'
  <1>1. PICK C :
          /\ batches' = [batches EXCEPT ![b] = [state |-> "sent", stage |-> sub[s].stage,
                                                pairs |-> RequestsOf(s, C)]]
          /\ sub' = [sub EXCEPT ![s].todo = @ \ C, ![s].sent = @ \cup {b}]
    BY DEF SubmitSend
  <1>2. sub \in [Submitters -> Submission] /\ batches \in [BatchIds -> Batch]
    BY DEF Ownership, TypeOK
  <1>3. UNCHANGED <<rows, poll>> /\ batches[b].state = "free"
    BY DEF SubmitSend
  <1>4. \A c \in BatchIds \ {b} : batches'[c] = batches[c]
    BY <1>1, <1>2
  <1>5. batches'[b].state = "sent" /\ batches'[b].pairs \subseteq sub[s].built
    BY <1>1, <1>2 DEF RequestsOf
  <1>6. /\ sub'[s].sent = sub[s].sent \cup {b}
        /\ sub'[s].built = sub[s].built /\ sub'[s].dead = sub[s].dead
    BY <1>1, <1>2 DEF Submission
  <1>7. \A t \in Submitters \ {s} : sub'[t] = sub[t]
    BY <1>1, <1>2
  <1>8. \A t \in Submitters : b \notin sub[t].sent /\ sub[t].sent \subseteq BatchIds
    BY <1>2, <1>3 DEF Ownership, SubmitterOwns, Submission
  <1>9. SubmitterOwns'
    BY <1>3, <1>4, <1>5, <1>6, <1>7, <1>8 DEF Ownership, SubmitterOwns
  <1>10. NoRowStranded' /\ AbsentUnbatched'
    BY <1>2, <1>3, <1>4 DEF Ownership, NoRowStranded, AbsentUnbatched, Recorded
  <1>11. PollerOwns'
    BY <1>3, <1>4 DEF Ownership, TypeOK, PollerOwns, PollRows
  <1> QED BY <1>9, <1>10, <1>11 DEF Owned

LEMMA OwnSubmitCommit ==
    ASSUME Ownership, NEW s \in Submitters, SubmitCommit(s)
    PROVE  Owned'
  <1>1. /\ sub \in [Submitters -> Submission] /\ batches \in [BatchIds -> Batch]
        /\ rows \in [Pairs -> Row]
    BY DEF Ownership, TypeOK
  <1>2. \A c \in BatchIds : IF c \in sub[s].sent THEN batches'[c].state = "submitted"
                                                 ELSE batches'[c] = batches[c]
    BY <1>1 DEF SubmitCommit, Recording, Batch
  <1>3. /\ sub'[s].sent = {} /\ sub'[s].built = {}
        /\ \A t \in Submitters \ {s} : sub'[t] = sub[t]
    BY <1>1 DEF SubmitCommit, IdleSub
  <1>4. sub[s].sent \subseteq BatchIds /\ \A c \in sub[s].sent : batches[c].state = "sent"
    BY <1>1 DEF Ownership, SubmitterOwns, Submission
  <1>5. ASSUME NEW r \in Pairs
        PROVE  \/ rows'[r].batch \in sub[s].sent /\ rows'[r].status # "absent"
               \/ /\ rows'[r].batch = rows[r].batch
                  /\ rows'[r].status = "absent" => rows[r].status = "absent"
    <2>1. CASE r \in sub[s].dropped
      BY <1>1, <2>1 DEF SubmitCommit, Row
    <2>2. CASE r \notin sub[s].dropped /\ r \in SentPairs(s)
      <3>1. rows[r].status # "absent"
        BY <2>2 DEF SubmitCommit, SubmitTouches, SentPairs, Ownership, SubmitterOwns, Present
      <3>2. (CHOOSE b \in sub[s].sent : r \in batches[b].pairs) \in sub[s].sent
        BY <2>2 DEF SentPairs
      <3>3. rows'[r] = [rows[r] EXCEPT !.batch = CHOOSE b \in sub[s].sent :
                                                       r \in batches[b].pairs]
        BY <2>2 DEF SubmitCommit
      <3> QED BY <1>1, <3>1, <3>2, <3>3 DEF Row
    <2>3. CASE r \notin sub[s].dropped /\ r \notin SentPairs(s)
      BY <2>3 DEF SubmitCommit
    <2> QED BY <2>1, <2>2, <2>3
  <1>6. NoRowStranded'
    BY <1>2, <1>4, <1>5 DEF Ownership, NoRowStranded, Recorded
  <1>7. AbsentUnbatched'
    BY <1>5 DEF Ownership, AbsentUnbatched
  <1>8. Present(rows) \subseteq Present(rows')
    BY <1>5 DEF Present
  <1>9. SubmitterOwns'
    <2>1. \A t \in Submitters \ {s} : sub[t].sent \subseteq BatchIds
      BY <1>1 DEF Submission
    <2>2. \A t \in Submitters \ {s} : \A b \in sub[t].sent : batches'[b] = batches[b]
      BY <1>2, <2>1 DEF Ownership, SubmitterOwns
    <2> QED BY <1>3, <1>8, <2>2 DEF Ownership, SubmitterOwns
  <1>10. PollerOwns'
    <2>1. poll' = poll /\ (poll.pc = "read" => poll.batch \in BatchIds \ sub[s].sent)
      BY <1>4 DEF SubmitCommit, Ownership, TypeOK, PollerOwns
    <2> QED BY <1>2, <1>5, <2>1 DEF Ownership, PollerOwns, PollRows
  <1> QED BY <1>6, <1>7, <1>9, <1>10 DEF Owned

\* Sent batches are lost with the transaction that would have recorded them.
LEMMA OwnOrphans ==
    ASSUME Ownership, NEW L \in SUBSET Submitters,
           batches' = Orphaned(UNION {sub[s].sent : s \in L}),
           \A s \in L : sub'[s].sent = {} /\ sub'[s].built = {},
           \A s \in Submitters \ L : sub'[s] = sub[s],
           rows' = rows, poll' = poll \/ poll'.pc = "idle"
    PROVE  Owned'
  <1> DEFINE lost == UNION {sub[s].sent : s \in L}
  <1>1. batches' = Orphaned(lost)
    OBVIOUS
  <1>2. batches \in [BatchIds -> Batch] /\ sub \in [Submitters -> Submission]
    BY DEF Ownership, TypeOK
  <1>3. lost \subseteq BatchIds /\ \A c \in lost : batches[c].state = "sent"
    BY <1>2 DEF Ownership, SubmitterOwns, Submission
  <1>4. \A s \in Submitters \ L : sub[s].sent \cap lost = {}
    BY DEF Ownership, SubmitterOwns
  <1> HIDE DEF lost
  <1>5. \A c \in BatchIds \ lost : batches'[c] = batches[c]
    BY <1>1 DEF Orphaned
  <1>6. NoRowStranded' /\ AbsentUnbatched'
    BY <1>3, <1>5 DEF Ownership, NoRowStranded, AbsentUnbatched, Recorded
  <1>7. SubmitterOwns'
    <2>1. \A s \in Submitters \ L : sub[s].sent \subseteq BatchIds \ lost
      BY <1>2, <1>4 DEF Submission
    <2> QED BY <1>5, <2>1 DEF Ownership, SubmitterOwns, Present
  <1>8. PollerOwns'
    BY <1>3, <1>5 DEF Ownership, TypeOK, PollerOwns, PollRows
  <1> QED BY <1>6, <1>7, <1>8 DEF Owned

LEMMA OwnSubmitAbort ==
    ASSUME Ownership, NEW s \in Submitters, SubmitAbort(s)
    PROVE  Owned'
  <1>1. sub \in [Submitters -> Submission]
    BY DEF Ownership, TypeOK
  <1>2. /\ sub'[s].sent = {} /\ sub'[s].built = {}
        /\ \A t \in Submitters \ {s} : sub'[t] = sub[t]
    BY <1>1 DEF SubmitAbort, IdleSub
  <1>3. PICK L \in SUBSET Submitters : L = {s}
    OBVIOUS
  <1>4. sub[s].sent = UNION {sub[t].sent : t \in L}
    BY <1>3
  <1> QED BY <1>2, <1>3, <1>4, OwnOrphans DEF SubmitAbort

LEMMA OwnCrash == Ownership /\ Crash => Owned'
  <1> SUFFICES ASSUME Ownership, Crash PROVE Owned'
    OBVIOUS
  <1>1. \A s \in Submitters : sub'[s].sent = {} /\ sub'[s].built = {}
    BY DEF Crash, IdleSub
  <1>2. poll'.pc = "idle" /\ rows' = rows
    BY DEF Crash, IdlePoll
  <1>3. batches' = Orphaned(UNION {sub[s].sent : s \in Submitters})
    BY DEF Crash
  <1> QED BY <1>1, <1>2, <1>3, OwnOrphans

LEMMA OwnRemote == Ownership /\ RemoteStep => Owned'
  <1> SUFFICES ASSUME Ownership, NEW b \in BatchIds, RemoteEnd(b) \/ RemoteForget(b)
               PROVE  Owned'
    BY DEF RemoteStep
  <1>1. /\ batches \in [BatchIds -> Batch] /\ UNCHANGED <<rows, sub, poll>>
        /\ \A c \in BatchIds \ {b} : batches'[c] = batches[c]
    BY DEF Ownership, TypeOK, RemoteEnd, RemoteForget
  <1>2. \/ batches[b].state = "submitted" /\ batches'[b].state = "ended"
        \/ batches[b].state = "orphan"
    BY <1>1 DEF RemoteEnd, RemoteForget, Batch
  <1>3. NoRowStranded' /\ AbsentUnbatched'
    BY <1>1, <1>2 DEF Ownership, NoRowStranded, AbsentUnbatched, Recorded
  <1>4. SubmitterOwns'
    <2>1. \A s \in Submitters : sub[s].sent \subseteq BatchIds \ {b}
      BY <1>2 DEF Ownership, TypeOK, Submission, SubmitterOwns
    <2> QED BY <1>1, <2>1 DEF Ownership, SubmitterOwns, Present
  <1>5. PollerOwns'
    BY <1>1, <1>2 DEF Ownership, TypeOK, PollerOwns, PollRows
  <1> QED BY <1>3, <1>4, <1>5 DEF Owned

\* The poll clears batch_id of every row of the batch it closes.
LEMMA OwnPollApply ==
    ASSUME Ownership, PollReading, NEW result, PollApply(result),
           \A r \in PollRows : /\ result[r].batch = NoBatch
                               /\ result[r].status = "absent" => rows[r].status = "absent",
           poll'.pc = "idle", UNCHANGED sub
    PROVE  Owned'
  <1>1. /\ poll.batch \in BatchIds /\ batches[poll.batch].state = "ended"
        /\ batches \in [BatchIds -> Batch] /\ poll.batch # NoBatch
    BY PipelineConstants DEF Ownership, TypeOK, PollerOwns, PollReading
  <1>2. \A c \in BatchIds \ {poll.batch} : batches'[c] = batches[c]
    BY <1>1 DEF PollApply
  <1>3. ASSUME NEW r \in PollRows
        PROVE  /\ rows'[r].batch = NoBatch
               /\ rows'[r].status = "absent" => rows[r].status = "absent"
    <2>1. poll.snap[r].batch = poll.batch /\ r \in Pairs
      BY DEF Ownership, PollerOwns, PollReading, PollRows, Present
    <2> QED BY <1>1, <2>1 DEF PollApply, Update
  <1>4. \A r \in Pairs \ PollRows : rows'[r] = rows[r] /\ rows[r].batch # poll.batch
    BY DEF PollApply, Ownership, PollerOwns, PollReading
  <1>5. NoRowStranded'
    BY <1>2, <1>3, <1>4 DEF Ownership, NoRowStranded, Recorded
  <1>6. AbsentUnbatched'
    BY <1>3, <1>4 DEF Ownership, AbsentUnbatched
  <1>7. Present(rows) \subseteq Present(rows')
    BY <1>3, <1>4 DEF Present
  <1>8. SubmitterOwns'
    <2>1. \A s \in Submitters : sub[s].sent \subseteq BatchIds \ {poll.batch}
      BY <1>1 DEF Ownership, TypeOK, Submission, SubmitterOwns
    <2> QED BY <1>2, <1>7, <2>1 DEF Ownership, SubmitterOwns
  <1> QED BY <1>5, <1>6, <1>8 DEF Owned, PollerOwns

LEMMA OutcomeClears ==
    ASSUME Ownership, PollReading, NEW r \in PollRows
    PROVE  /\ Retried(r).batch = NoBatch /\ Analysed(r).batch = NoBatch
           /\ Retried(r).status = "absent" => rows[r].status = "absent"
           /\ Analysed(r).status = "absent" => rows[r].status = "absent"
           /\ \A status : Ranked(r, status).batch = NoBatch /\ Ranked(r, status).status = status
  <1>1. /\ poll.snap[r] \in Row /\ rows[r] \in Row
        /\ poll.snap[r].status # "absent"
    BY DEF Ownership, TypeOK, Polling, PollRows, Present
  <1>2. poll.snap[r].batch # NoBatch
    BY PipelineConstants DEF Ownership, TypeOK, PollerOwns, PollReading
  <1>3. /\ Failure(poll.snap[r]).batch = NoBatch /\ Failure(poll.snap[r]).status # "absent"
        /\ Outcome(poll.snap[r], "scored").batch = NoBatch
        /\ Outcome(poll.snap[r], "scored").status = "scored"
        /\ \A status : /\ Outcome(rows[r], status).batch = NoBatch
                       /\ Outcome(rows[r], status).status = status
    BY <1>1 DEF Failure, Outcome, Row
  <1> QED BY <1>2, <1>3 DEF Retried, Analysed, Ranked, Update

LEMMA OwnPollResults == Ownership /\ (PollPrefilter \/ PollAnalysis) => Owned'
  <1> SUFFICES ASSUME Ownership, PollPrefilter \/ PollAnalysis PROVE Owned'
    OBVIOUS
  <1>1. TypeOK /\ poll \in Polling
    BY DEF Ownership, TypeOK
  <1>2. poll'.pc = "idle" /\ UNCHANGED sub /\ PollReading
    BY DEF PollPrefilter, PollAnalysis, IdlePoll
  <1>3. CASE PollPrefilter
    <2>1. PICK failed, keep :
            PollApply([r \in PollRows |->
              IF r \in failed THEN Retried(r)
              ELSE Ranked(r, IF r \in keep THEN "pending" ELSE "filtered_out")])
      BY <1>3 DEF PollPrefilter
    <2> QED BY <1>1, <1>2, <2>1, OutcomeClears, OwnPollApply
  <1>4. CASE PollAnalysis
    <2>1. PICK failed :
            PollApply([r \in PollRows |-> IF r \in failed THEN Retried(r) ELSE Analysed(r)])
      BY <1>4 DEF PollAnalysis
    <2> QED BY <1>1, <1>2, <2>1, OutcomeClears, OwnPollApply
  <1> QED BY <1>3, <1>4

LEMMA OwnPollOthers ==
    ASSUME Ownership, PollAbort \/ PollFinish \/ \E b \in BatchIds : PollRead(b)
    PROVE  Owned'
  <1>1. UNCHANGED <<rows, batches, sub>> /\ poll \in Polling
    BY DEF PollAbort, PollFinish, PollRead, Ownership, TypeOK
  <1>2. NoRowStranded' /\ AbsentUnbatched' /\ SubmitterOwns'
    BY <1>1 DEF Ownership, NoRowStranded, AbsentUnbatched, Recorded, SubmitterOwns, Present
  <1>3. CASE PollAbort \/ PollFinish
    BY <1>2, <1>3 DEF PollAbort, PollFinish, IdlePoll, Owned, PollerOwns
  <1>4. ASSUME NEW b \in BatchIds, PollRead(b) PROVE Owned'
    <2>1. /\ poll'.batch = b
          /\ poll'.snap = [r \in Pairs |-> IF rows[r].batch = b THEN rows[r] ELSE NoRow]
          /\ batches[b].state = "ended"
      BY <1>1, <1>4 DEF PollRead, Polling
    <2>2. \A r \in Pairs : rows[r].batch = b => rows[r].status # "absent"
      BY PipelineConstants DEF Ownership, AbsentUnbatched
    <2>3. Present(poll'.snap) = {r \in Pairs : rows[r].batch = b}
      BY <2>1, <2>2 DEF Present, NoRow
    <2>4. PollerOwns'
      BY <1>1, <2>1, <2>3 DEF PollerOwns, PollRows
    <2> QED BY <1>2, <2>4 DEF Owned
  <1> QED BY <1>3, <1>4

\* The purged rows are gone for everyone who had loaded them.
LEMMA OwnPurge ==
    ASSUME Ownership, NEW p \in Profiles, PurgeMatches(p)
    PROVE  Owned'
  <1>1. /\ \A r \in Pairs : rows'[r] = IF Owner(r) = p THEN NoRow ELSE rows[r]
        /\ batches' = batches
    BY DEF PurgeMatches
  <1>2. poll'.pc = poll.pc /\ poll'.batch = poll.batch /\ poll'.snap = poll.snap
    BY DEF PurgeMatches, Ownership, TypeOK, Polling
  <1>3. ASSUME NEW s \in Submitters
        PROVE  /\ sub'[s].sent = sub[s].sent /\ sub'[s].built = sub[s].built
               /\ sub'[s].built \ sub'[s].dead \subseteq {r \in sub[s].built \ sub[s].dead :
                                                             r \notin PairsOf(p)}
    <2>1. sub[s] \in Submission
      BY DEF Ownership, TypeOK
    <2>2. sub'[s] = [sub[s] EXCEPT !.dead = sub[s].dead \cup
                       (PairsOf(p) \cap (sub[s].built \cup sub[s].dropped))]
      BY DEF PurgeMatches
    <2>3. /\ sub'[s].sent = sub[s].sent /\ sub'[s].built = sub[s].built
          /\ sub'[s].dead = sub[s].dead \cup
                       (PairsOf(p) \cap (sub[s].built \cup sub[s].dropped))
      BY <2>1, <2>2 DEF Submission
    <2> QED BY <2>3
  <1>4. NoRowStranded' /\ AbsentUnbatched'
    BY <1>1 DEF Ownership, NoRowStranded, AbsentUnbatched, Recorded, NoRow
  <1>5. SubmitterOwns'
    <2>1. \A r \in Present(rows) \ PairsOf(p) : r \in Present(rows')
      BY <1>1 DEF Present, PairsOf
    <2>2. ASSUME NEW s \in Submitters
          PROVE  sub'[s].built \ sub'[s].dead \subseteq Present(rows')
      BY <1>3, <2>1 DEF Ownership, SubmitterOwns
    <2> QED BY <1>1, <1>3, <2>2 DEF Ownership, SubmitterOwns
  <1>6. PollerOwns'
    <2>1. poll.pc = "read" => poll.batch # NoBatch
      BY PipelineConstants DEF Ownership, TypeOK
    <2> QED BY <1>1, <1>2, <2>1 DEF Ownership, PollerOwns, PollRows, NoRow
  <1> QED BY <1>4, <1>5, <1>6 DEF Owned

LEMMA OwnNext == Ownership /\ [Next]_vars => Ownership'
  <1> SUFFICES ASSUME Ownership, [Next]_vars PROVE Ownership'
    OBVIOUS
  <1>1. TypeOK'
    BY TypeNext DEF Ownership
  <1>2. Owned'
    <2>1. CASE \E p \in Profiles : PurgeMatches(p)
      BY <2>1, OwnPurge
    <2>2. CASE \E w \in Runs : RunDecide(w)
      BY <2>2, OwnRunDecide
    <2>3. CASE \E s \in Submitters : SubmitStep(s)
      BY <2>3, OwnSubmitRead, OwnSubmitSend, OwnSubmitCommit, OwnSubmitAbort DEF SubmitStep
    <2>4. CASE RemoteStep
      BY <2>4, OwnRemote
    <2>5. CASE PollStep
      BY <2>5, OwnPollResults, OwnPollOthers DEF PollStep
    <2>6. CASE Crash
      BY <2>6, OwnCrash
    <2>7. CASE \/ \E p \in Profiles : ImportCv(p) \/ CompleteOnboarding(p) \/ OnboardStart(p)
                                       \/ DeleteProfile(p)
               \/ SyncStart \/ OnboardNotify
               \/ \E w \in Runs, p \in Profiles : RunRead(w, p)
               \/ UNCHANGED vars
      BY <2>7, OwnOthers
    <2> QED BY <2>1, <2>2, <2>3, <2>4, <2>5, <2>6, <2>7
            DEF Next, SubmitStep, RemoteStep, PollStep
  <1> QED BY <1>1, <1>2, OwnershipParts, PTL

(* However runs, submitters, the poller, OpenAI, deletions and crashes     *)
(* interleave, a row that waits for a batch waits for one the database     *)
(* lists: submit_pending and poll_batches lose track of no row.            *)
THEOREM NothingStranded == Spec => []NoRowStranded
  <1>1. Ownership => NoRowStranded
    BY DEF Ownership
  <1> QED BY <1>1, OwnInit, OwnNext, PTL DEF Spec

-----------------------------------------------------------------------------
(* No result brings a purged row back: PollOnlyUpdates, from the fact that *)
(* the poller knows which of the rows it has loaded are gone.              *)

LEMMA HoldsInit == Init => PollerHolds
  BY DEF Init, PollerHolds, PollRows, Present, IdlePoll, NoRows, NoRow

\* A step that leaves the poller alone and makes no row absent.
LEMMA HoldsRows ==
    ASSUME PollerHolds, UNCHANGED poll,
           \A r \in Pairs : rows'[r].status = "absent" => rows[r].status = "absent"
    PROVE  PollerHolds'
  BY DEF PollerHolds, PollRows, Present

\* What a run commits hides, drops or queues rows, and removes none.
LEMMA HoldsRunDecide ==
    ASSUME TypeOK, PollerHolds, NEW w \in Runs, RunDecide(w)
    PROVE  PollerHolds' /\ UNCHANGED poll
  <1>1. PICK d \in Decision : RunCommit(w, d) \/ RunAbort(w, d)
    BY RunDecideCases
  <1>2. CASE RunAbort(w, d)
    BY <1>2, HoldsRows DEF RunAbort
  <1>3. CASE RunCommit(w, d)
    <2>1. \A r \in Pairs : run[w].snap[r] \in Row /\ rows[r] \in Row
      BY DEF TypeOK, Running
    <2>2. ASSUME NEW r \in Pairs
          PROVE  Target(w, d, r).status # "absent"
      BY <2>1 DEF Target, NoRow, Row
    <2>3. \A r \in Pairs : rows'[r].status = "absent" => rows[r].status = "absent"
      BY <1>3, <2>2 DEF RunCommit, Update
    <2> QED BY <1>3, <2>3, HoldsRows DEF RunCommit
  <1> QED BY <1>1, <1>2, <1>3

LEMMA HoldsSubmit ==
    ASSUME TypeOK, PollerHolds, NEW s \in Submitters, SubmitStep(s)
    PROVE  PollerHolds' /\ UNCHANGED poll
  <1>1. CASE ~SubmitCommit(s)
    <2>1. UNCHANGED <<rows, poll>>
      BY <1>1 DEF SubmitStep, SubmitRead, SubmitRefused, SubmitAbort, SubmitSend
    <2> QED BY <2>1, HoldsRows
  <1>2. CASE SubmitCommit(s)
    <2>1. \A r \in Pairs : rows[r] \in Row
      BY DEF TypeOK
    <2>2. \A r \in Pairs : rows'[r].status = "absent" => rows[r].status = "absent"
      BY <1>2, <2>1 DEF SubmitCommit, Row
    <2> QED BY <1>2, <2>2, HoldsRows DEF SubmitCommit
  <1> QED BY <1>1, <1>2

\* The results of a batch update rows that are there, and insert none.
LEMMA ResultsUpdate ==
    ASSUME TypeOK, PollerHolds, PollReading, NEW result, PollApply(result)
    PROVE  Present(rows') \subseteq Present(rows)
  <1>1. PollRows \subseteq Present(rows)
    BY DEF PollerHolds, PollReading
  <1>2. \A r \in Pairs \ PollRows : rows'[r] = rows[r]
    BY DEF PollApply
  <1> QED BY <1>1, <1>2 DEF Present

LEMMA HoldsPoll ==
    ASSUME TypeOK, PollerHolds, PollStep
    PROVE  PollerHolds' /\ Present(rows') \subseteq Present(rows)
  <1>1. poll \in Polling
    BY DEF TypeOK
  <1>2. CASE PollPrefilter \/ PollAnalysis
    <2>1. PollReading /\ \E result : PollApply(result)
      BY <1>2 DEF PollPrefilter, PollAnalysis
    <2>2. poll'.snap = NoRows
      BY <1>2 DEF PollPrefilter, PollAnalysis, IdlePoll
    <2>3. PollerHolds'
      BY <2>2 DEF PollerHolds, PollRows, Present, NoRows, NoRow
    <2> QED BY <2>1, <2>3, ResultsUpdate
  <1>3. CASE PollAbort \/ PollFinish
    <2>1. poll'.snap = NoRows /\ rows' = rows
      BY <1>3 DEF PollAbort, PollFinish, IdlePoll
    <2> QED BY <2>1 DEF PollerHolds, PollRows, Present, NoRows, NoRow
  <1>4. ASSUME NEW b \in BatchIds, PollRead(b)
        PROVE  PollerHolds' /\ rows' = rows
    <2>1. /\ rows' = rows
          /\ poll'.snap = [r \in Pairs |-> IF rows[r].batch = b THEN rows[r] ELSE NoRow]
      BY <1>1, <1>4 DEF PollRead, Polling
    <2> QED BY <2>1 DEF PollerHolds, PollRows, Present, NoRow
  <1> QED BY <1>2, <1>3, <1>4 DEF PollStep

\* The poller is told which of its rows a purge removed.
LEMMA HoldsPurge ==
    ASSUME TypeOK, PollerHolds, NEW p \in Profiles, PurgeMatches(p)
    PROVE  PollerHolds' /\ Present(rows') \subseteq Present(rows)
  <1>1. \A r \in Pairs : rows'[r] = IF Owner(r) = p THEN NoRow ELSE rows[r]
    BY DEF PurgeMatches
  <1>2. /\ poll'.snap = poll.snap
        /\ poll'.dead = poll.dead \cup (PairsOf(p) \cap PollRows)
    BY DEF PurgeMatches, TypeOK, Polling
  <1> QED BY <1>1, <1>2 DEF PollerHolds, PollRows, Present, PairsOf, NoRow

LEMMA HoldsCrash ==
    ASSUME Crash
    PROVE  PollerHolds' /\ Present(rows') \subseteq Present(rows)
  BY DEF Crash, PollerHolds, PollRows, Present, IdlePoll, NoRows, NoRow

LEMMA HoldsNext ==
    TypeOK /\ PollerHolds /\ [Next]_vars =>
       PollerHolds' /\ (poll' # poll => Present(rows') \subseteq Present(rows))
  <1> SUFFICES ASSUME TypeOK, PollerHolds, [Next]_vars
               PROVE  PollerHolds' /\ (poll' # poll => Present(rows') \subseteq Present(rows))
    OBVIOUS
  <1>1. CASE \E p \in Profiles : PurgeMatches(p)
    BY <1>1, HoldsPurge
  <1>2. CASE \E w \in Runs : RunDecide(w)
    BY <1>2, HoldsRunDecide
  <1>3. CASE \E s \in Submitters : SubmitStep(s)
    BY <1>3, HoldsSubmit
  <1>4. CASE PollStep
    BY <1>4, HoldsPoll
  <1>5. CASE Crash
    BY <1>5, HoldsCrash
  <1>6. CASE \/ \E p \in Profiles : ImportCv(p) \/ CompleteOnboarding(p) \/ OnboardStart(p)
                                     \/ DeleteProfile(p)
             \/ SyncStart \/ OnboardNotify
             \/ \E w \in Runs, p \in Profiles : RunRead(w, p)
             \/ RemoteStep
             \/ UNCHANGED vars
    <2>1. UNCHANGED <<rows, poll>>
      BY <1>6 DEF ImportCv, CompleteOnboarding, OnboardStart, DeleteProfile, SyncStart,
             OnboardNotify, RunRead, RemoteStep, RemoteEnd, RemoteForget, vars
    <2> QED BY <2>1, HoldsRows
  <1> QED BY <1>1, <1>2, <1>3, <1>4, <1>5, <1>6
          DEF Next, SubmitStep, RemoteStep, PollStep

(* Whatever a deletion purges while a request is at OpenAI, no step of the *)
(* poller brings it back: its results are only applied to rows that exist. *)
THEOREM ResultsOnlyUpdate == Spec => PollOnlyUpdates
  <1>1. TypeOK /\ PollerHolds /\ [Next]_vars =>
           PollerHolds' /\ [poll' # poll => Present(rows') \subseteq Present(rows)]_vars
    BY HoldsNext
  <1>2. Spec => []TypeOK
    BY TypeCorrect
  <1> QED BY <1>1, <1>2, HoldsInit, PTL DEF Spec, PollOnlyUpdates

-------------------------------------------------------------------------------
(* The attempts counter: no row waits for ever with its attempts used up,    *)
(* and no pair costs more requests than the attempts allow, but for the rows *)
(* that two transactions wrote (stale) and the requests sent beside another  *)
(* one or lost (extra). RetryInv, and BoundInv on top, are inductive.        *)

LEMMA RetryInit == Init => SendsOnce /\ AttemptsLeft
  BY PipelineConstants
  DEF Init, SendsOnce, AttemptsLeft, SentPairs, IdleSub, NoRows, NoRow, InPipeline

LEMMA StagesInPipeline == \A stage : StageStatuses(stage) \subseteq InPipeline
  BY DEF StageStatuses, InPipeline

(* What a run writes to a row it read as it is: a queued or dropped pair    *)
(* starts afresh, a hidden one leaves.                                      *)
LEMMA RunWrites ==
    ASSUME TypeOK, NEW w \in Runs, RunDecide(w), NEW r \in Pairs \ stale'
    PROVE  \/ rows'[r] = rows[r] /\ asked'[r] = asked[r]
           \/ rows'[r].batch = NoBatch /\ rows'[r].attempts = 0 /\ asked'[r] = 0
           \/ /\ rows'[r].batch = NoBatch /\ rows'[r].status = "filtered_out"
              /\ asked'[r] = asked[r]
  <1>1. PICK d \in Decision : RunCommit(w, d) \/ RunAbort(w, d)
    BY RunDecideCases
  <1>2. CASE RunAbort(w, d)
    BY <1>2 DEF RunAbort
  <1>3. CASE RunCommit(w, d) /\ r \notin Touched(d)
    BY <1>3 DEF RunCommit, Touched
  <1>4. CASE RunCommit(w, d) /\ r \in Touched(d)
    <2>1. run[w].snap[r] \in Row
      BY DEF TypeOK, Running
    <2>2. \/ rows'[r] = Target(w, d, r)
          \/ /\ rows'[r] = Update(rows[r], run[w].snap[r], Target(w, d, r))
             /\ run[w].snap[r] = rows[r]
      BY <1>4 DEF RunCommit
    <2>3. /\ rows'[r].status = Target(w, d, r).status
          /\ rows'[r].batch = Target(w, d, r).batch
          /\ rows'[r].attempts = Target(w, d, r).attempts
      BY <2>2 DEF Update
    <2>4. asked'[r] = IF r \in d.queued \cup d.dropped THEN 0 ELSE asked[r]
      BY <1>4 DEF RunCommit
    <2>5. CASE r \in d.queued \cup d.dropped
      <3>1. Target(w, d, r).batch = NoBatch /\ Target(w, d, r).attempts = 0
        BY <2>5 DEF Target, NoRow
      <3> QED BY <2>3, <2>4, <2>5, <3>1
    <2>6. CASE r \notin d.queued \cup d.dropped
      <3>1. Target(w, d, r) = [run[w].snap[r] EXCEPT !.status = "filtered_out", !.batch = NoBatch]
        BY <2>6 DEF Target
      <3>2. Target(w, d, r).status = "filtered_out" /\ Target(w, d, r).batch = NoBatch
        BY <2>1, <3>1 DEF Row
      <3> QED BY <2>3, <2>4, <2>6, <3>2
    <2> QED BY <2>5, <2>6
  <1> QED BY <1>1, <1>2, <1>3, <1>4

(* What the results of a batch write to a row read as it is: a failed one  *)
(* keeps its status and uses an attempt up, or is given up on; the others  *)
(* leave their stage.                                                      *)
LEMMA PollWrites ==
    ASSUME Ownership, PollPrefilter \/ PollAnalysis, NEW r \in Pairs \ stale'
    PROVE  /\ rows[r].batch # poll.batch => rows'[r] = rows[r]
           /\ rows[r].batch = poll.batch =>
                \/ /\ rows'[r].batch = NoBatch
                   /\ rows'[r].attempts = rows[r].attempts + 1
                   /\ rows'[r].status = IF rows[r].attempts + 1 >= MaxAttempts
                                          THEN "filtered_out" ELSE rows[r].status
                \/ /\ rows'[r].batch = NoBatch /\ rows'[r].attempts = rows[r].attempts
                   /\ \/ rows'[r].status \in {"scored", "filtered_out"}
                      \/ rows'[r].status = "pending" /\ PollStage = "prefilter"
  <1>0. TypeOK /\ poll.pc = "read" /\ poll.batch \in BatchIds
    BY DEF Ownership, TypeOK, PollPrefilter, PollAnalysis, PollReading
  <1>1. PICK failed \in SUBSET PollRows, keep \in SUBSET PollRows :
           \/ PollStage = "prefilter" /\
              PollApply([q \in PollRows |-> IF q \in failed THEN Retried(q)
                           ELSE Ranked(q, IF q \in keep THEN "pending" ELSE "filtered_out")])
           \/ PollApply([q \in PollRows |-> IF q \in failed THEN Retried(q) ELSE Analysed(q)])
    <2>1. CASE PollPrefilter
      <3>1. PICK failed \in SUBSET PollRows :
              \E good \in SUBSET (PollRows \ failed) : \E keep \in SUBSET good :
                PollApply([q \in PollRows |-> IF q \in failed THEN Retried(q)
                           ELSE Ranked(q, IF q \in keep THEN "pending" ELSE "filtered_out")])
        BY <2>1 DEF PollPrefilter
      <3>2. PICK keep \in SUBSET PollRows :
                PollApply([q \in PollRows |-> IF q \in failed THEN Retried(q)
                           ELSE Ranked(q, IF q \in keep THEN "pending" ELSE "filtered_out")])
        BY <3>1
      <3>3. PollStage = "prefilter"
        BY <2>1 DEF PollPrefilter
      <3> QED BY <3>2, <3>3
    <2>2. CASE PollAnalysis
      <3>1. PICK failed \in SUBSET PollRows :
                PollApply([q \in PollRows |-> IF q \in failed THEN Retried(q) ELSE Analysed(q)])
        BY <2>2 DEF PollAnalysis
      <3> QED BY <3>1
    <2> QED BY <2>1, <2>2
  <1>2. rows[r] \in Row
    BY <1>0 DEF TypeOK
  <1>3. CASE r \notin PollRows
    <2>1. rows'[r] = rows[r]
      BY <1>1, <1>3 DEF PollApply
    <2>2. rows[r].batch # poll.batch
      BY <1>0, <1>3 DEF Ownership, PollerOwns
    <2> QED BY <2>1, <2>2
  <1>4. CASE r \in PollRows
    <2>1. poll.snap[r] = rows[r]
      BY <1>1, <1>4 DEF PollApply
    <2>2. rows[r].batch = poll.batch /\ rows[r].batch # NoBatch
      BY <1>0, <1>4, <2>1, PipelineConstants DEF Ownership, PollerOwns
    <2>3. CASE rows'[r] = Retried(r)
      BY <1>2, <2>1, <2>2, <2>3 DEF Retried, Failure, Update, Row
    <2>4. CASE rows'[r] = Analysed(r)
      BY <1>2, <2>1, <2>2, <2>4 DEF Analysed, Outcome, Update, Row
    <2>5. CASE /\ PollStage = "prefilter"
               /\ \E status \in {"pending", "filtered_out"} : rows'[r] = Ranked(r, status)
      BY <1>2, <2>1, <2>2, <2>5 DEF Ranked, Outcome, Row
    <2>6. \/ rows'[r] = Retried(r) \/ rows'[r] = Analysed(r)
          \/ /\ PollStage = "prefilter"
             /\ \E status \in {"pending", "filtered_out"} : rows'[r] = Ranked(r, status)
      BY <1>1, <1>4 DEF PollApply
    <2> QED BY <2>2, <2>3, <2>4, <2>5, <2>6
  <1> QED BY <1>3, <1>4

(* A row a step leaves alone, in a batch of the same stage; one that leaves *)
(* its batch with attempts left or out of the pipeline; one that enters a   *)
(* batch of its stage.                                                      *)
LEMMA AttemptsFrame ==
    ASSUME AttemptsLeft, stale \subseteq stale',
           \A r \in Pairs \ stale' :
              \/ /\ rows'[r] = rows[r]
                 /\ rows[r].batch # NoBatch =>
                       batches'[rows[r].batch].stage = batches[rows[r].batch].stage
              \/ /\ rows'[r].batch = NoBatch
                 /\ rows'[r].status \notin InPipeline \/ rows'[r].attempts < MaxAttempts
              \/ /\ rows'[r].attempts < MaxAttempts
                 /\ rows'[r].status \in StageStatuses(batches'[rows'[r].batch].stage)
    PROVE  AttemptsLeft'
  BY DEF AttemptsLeft, StageStatuses

\* A recorded batch keeps its stage until it is polled.
LEMMA StageKept ==
    ASSUME Ownership, NEW r \in Pairs, rows[r].batch # NoBatch,
           \A b \in Recorded : batches'[b].stage = batches[b].stage
    PROVE  batches'[rows[r].batch].stage = batches[rows[r].batch].stage
  BY DEF Ownership, NoRowStranded

LEMMA AttemptsCommit ==
    ASSUME RetryInv, NEW s \in Submitters, SubmitCommit(s)
    PROVE  AttemptsLeft'
  <1>0. /\ TypeOK /\ rows \in [Pairs -> Row] /\ sub[s] \in Submission
        /\ batches \in [BatchIds -> Batch]
    BY DEF RetryInv, Ownership, TypeOK
  <1>1. \A b \in BatchIds : batches'[b].stage = batches[b].stage
    BY <1>0 DEF SubmitCommit, Recording, Batch
  <1>2. ASSUME NEW r \in Pairs \ stale'
        PROVE  \/ /\ rows'[r] = rows[r]
                  /\ rows[r].batch # NoBatch =>
                        batches'[rows[r].batch].stage = batches[rows[r].batch].stage
               \/ rows'[r].batch = NoBatch /\ rows'[r].status \notin InPipeline
               \/ /\ rows'[r].attempts < MaxAttempts
                  /\ rows'[r].status \in StageStatuses(batches'[rows'[r].batch].stage)
    <2>1. CASE r \notin SubmitTouches(s)
      <3>1. rows'[r] = rows[r]
        BY <2>1 DEF SubmitCommit, SubmitTouches
      <3>2. rows[r].batch # NoBatch => rows[r].batch \in BatchIds
        BY DEF RetryInv, Ownership, NoRowStranded, Recorded
      <3> QED BY <1>1, <3>1, <3>2
    <2>2. CASE r \in SubmitTouches(s)
      <3>1. r \in Waiting(sub[s].stage)
        BY <2>2 DEF SubmitCommit
      <3>2. CASE r \in sub[s].dropped
        <4>1. rows'[r] = [rows[r] EXCEPT !.status = "filtered_out"]
          BY <3>2 DEF SubmitCommit
        <4>2. rows'[r].batch = NoBatch /\ rows'[r].status = "filtered_out"
          BY <1>0, <3>1, <4>1 DEF Row, Waiting
        <4> QED BY <4>2 DEF InPipeline
      <3>3. CASE r \notin sub[s].dropped
        <4>1. r \in SentPairs(s)
          BY <2>2, <3>3 DEF SubmitTouches
        <4>2. PICK b \in sub[s].sent : rows'[r] = [rows[r] EXCEPT !.batch = b]
          <5>1. (CHOOSE c \in sub[s].sent : r \in batches[c].pairs) \in sub[s].sent
            BY <4>1 DEF SentPairs
          <5>2. rows'[r] = [rows[r] EXCEPT !.batch =
                               CHOOSE c \in sub[s].sent : r \in batches[c].pairs]
            BY <3>3, <4>1 DEF SubmitCommit
          <5> QED BY <5>1, <5>2
        <4>3. /\ rows'[r].attempts < MaxAttempts
              /\ rows'[r].status \in StageStatuses(sub[s].stage) /\ rows'[r].batch = b
          BY <1>0, <3>1, <4>2 DEF Row, Waiting
        <4>4. batches'[b].stage = sub[s].stage
          BY <1>0, <1>1 DEF RetryInv, SendsOnce, Submission
        <4> QED BY <4>3, <4>4
      <3> QED BY <3>2, <3>3
    <2> QED BY <2>1, <2>2
  <1>3. stale \subseteq stale'
    BY DEF SubmitCommit
  <1> QED BY <1>2, <1>3, AttemptsFrame DEF RetryInv

LEMMA AttemptsPoll ==
    ASSUME RetryInv, PollPrefilter \/ PollAnalysis
    PROVE  AttemptsLeft'
  <1>1. /\ batches' = [batches EXCEPT ![poll.batch] = FreeBatch]
        /\ stale \subseteq stale' /\ batches \in [BatchIds -> Batch]
    BY DEF PollPrefilter, PollAnalysis, PollApply, RetryInv, Ownership, TypeOK
  <1>2. poll.batch # NoBatch
    BY PipelineConstants DEF PollPrefilter, PollAnalysis, PollReading, RetryInv, Ownership, TypeOK
  <1>3. ASSUME NEW r \in Pairs \ stale'
        PROVE  \/ /\ rows'[r] = rows[r]
                  /\ rows[r].batch # NoBatch =>
                        batches'[rows[r].batch].stage = batches[rows[r].batch].stage
               \/ /\ rows'[r].batch = NoBatch
                  /\ rows'[r].status \notin InPipeline \/ rows'[r].attempts < MaxAttempts
    <2>1. rows[r].attempts \in Nat
      BY DEF RetryInv, Ownership, TypeOK, Row
    <2>2. CASE rows[r].batch # poll.batch
      <3>1. rows'[r] = rows[r]
        BY <2>2, PollWrites DEF RetryInv
      <3>2. rows[r].batch # NoBatch => rows[r].batch \in BatchIds
        BY DEF RetryInv, Ownership, NoRowStranded, Recorded
      <3> QED BY <1>1, <2>2, <3>1, <3>2
    <2>3. CASE rows[r].batch = poll.batch
      <3>1. rows[r].attempts < MaxAttempts
        BY <1>1, <1>2, <2>3 DEF RetryInv, AttemptsLeft
      <3>2. \/ /\ rows'[r].batch = NoBatch
               /\ rows'[r].attempts = rows[r].attempts + 1
               /\ rows'[r].status = IF rows[r].attempts + 1 >= MaxAttempts
                                      THEN "filtered_out" ELSE rows[r].status
            \/ rows'[r].batch = NoBatch /\ rows'[r].attempts = rows[r].attempts
        BY <2>3, PollWrites DEF RetryInv
      <3> QED BY <2>1, <3>1, <3>2, PipelineConstants DEF InPipeline
    <2> QED BY <2>2, <2>3
  <1> QED BY <1>1, <1>3, AttemptsFrame DEF RetryInv

LEMMA AttemptsOthers ==
    ASSUME RetryInv, [Next]_vars, ~ \E s \in Submitters : SubmitCommit(s),
           ~PollPrefilter, ~PollAnalysis
    PROVE  AttemptsLeft'
  <1>0. /\ TypeOK /\ Ownership /\ AttemptsLeft /\ MaxAttempts > 0
        /\ batches \in [BatchIds -> Batch]
    BY PipelineConstants DEF RetryInv, Ownership, TypeOK
  <1>1. CASE \E w \in Runs : RunDecide(w)
    <2>1. PICK w \in Runs : RunDecide(w)
      BY <1>1
    <2>2. batches' = batches /\ stale \subseteq stale'
      BY <1>0, <2>1, RunDecideCases DEF RunCommit, RunAbort
    <2>3. \A r \in Pairs \ stale' :
             \/ rows'[r] = rows[r]
             \/ rows'[r].batch = NoBatch /\ rows'[r].attempts < MaxAttempts
             \/ rows'[r].batch = NoBatch /\ rows'[r].status \notin InPipeline
      BY <1>0, <2>1, RunWrites DEF InPipeline
    <2> QED BY <1>0, <2>2, <2>3, AttemptsFrame
  <1>2. CASE \E p \in Profiles : PurgeMatches(p)
    <2>1. /\ batches' = batches /\ stale' = stale
          /\ \A r \in Pairs : rows'[r] = rows[r] \/ (rows'[r].batch = NoBatch /\ rows'[r].attempts = 0)
      BY <1>2 DEF PurgeMatches, NoRow
    <2> QED BY <1>0, <2>1, AttemptsFrame
  <1>3. CASE \/ Crash \/ RemoteStep
             \/ \E s \in Submitters : SubmitAbort(s) \/ \E b \in BatchIds : SubmitSend(s, b)
    <2>1. rows' = rows /\ stale' = stale
      BY <1>3 DEF Crash, RemoteStep, RemoteEnd, RemoteForget, SubmitAbort, SubmitSend
    <2>2. \A b \in Recorded : batches'[b].stage = batches[b].stage
      <3>1. \A b \in BatchIds : [batches[b] EXCEPT !.state = "orphan"].stage = batches[b].stage
        BY <1>0 DEF Batch
      <3>2. CASE Crash
        BY <3>1, <3>2 DEF Crash, Orphaned, Recorded
      <3>3. CASE RemoteStep
        BY <1>0, <3>3 DEF RemoteStep, RemoteEnd, RemoteForget, Recorded, Batch
      <3>4. CASE \E s \in Submitters : SubmitAbort(s)
        BY <3>1, <3>4 DEF SubmitAbort, Orphaned, Recorded
      <3>5. CASE \E s \in Submitters : \E b \in BatchIds : SubmitSend(s, b)
        BY <1>0, <3>5 DEF SubmitSend, Recorded
      <3> QED BY <1>3, <3>2, <3>3, <3>4, <3>5
    <2> QED BY <1>0, <2>1, <2>2, StageKept, AttemptsFrame
  <1>4. CASE \/ \E p \in Profiles : ImportCv(p) \/ CompleteOnboarding(p) \/ OnboardStart(p)
                                     \/ DeleteProfile(p)
             \/ SyncStart \/ OnboardNotify
             \/ \E w \in Runs, p \in Profiles : RunRead(w, p)
             \/ \E s \in Submitters : SubmitRead(s) \/ SubmitRefused(s)
             \/ \E b \in BatchIds : PollRead(b)
             \/ PollAbort \/ PollFinish
             \/ UNCHANGED vars
    <2>1. UNCHANGED <<rows, batches, stale>>
      BY <1>4 DEF ImportCv, CompleteOnboarding, OnboardStart, DeleteProfile, SyncStart,
             OnboardNotify, RunRead, SubmitRead, SubmitRefused, PollRead, PollAbort,
             PollFinish, vars
    <2> QED BY <1>0, <2>1, AttemptsFrame
  <1> QED BY <1>1, <1>2, <1>3, <1>4 DEF Next, RemoteStep

\* The requests of a submission whose batches a step leaves alone.
LEMMA SentSame ==
    ASSUME NEW s \in Submitters, sub'[s].sent = sub[s].sent,
           \A b \in sub[s].sent : batches'[b].pairs = batches[b].pairs
    PROVE  SentPairs(s)' = SentPairs(s)
  BY DEF SentPairs

\* A batch of an open submission is nobody else's.
LEMMA SentAlone ==
    ASSUME Ownership, NEW s \in Submitters, NEW b \in sub[s].sent
    PROVE  /\ b \in BatchIds /\ batches[b].state = "sent"
           /\ \A t \in Submitters \ {s} : b \notin sub[t].sent
  BY DEF Ownership, SubmitterOwns, TypeOK, Submission

(* What a step does to the other submissions: nothing; their batches keep  *)
(* their pairs and stage, and so do those of the submission itself.        *)
LEMMA SendsFrame ==
    ASSUME Ownership, SendsOnce,
           \A s \in Submitters :
              \/ sub'[s].built = {} /\ sub'[s].sent = {}
              \/ sub'[s].sent = {} /\ sub'[s].pc # "ready"
              \/ /\ sub'[s].sent = sub[s].sent /\ sub'[s].stage = sub[s].stage
                 /\ sub'[s].pc = sub[s].pc /\ sub'[s].built = sub[s].built
                 /\ sub'[s].todo \subseteq sub[s].todo
                 /\ \A b \in sub[s].sent : /\ batches'[b].pairs = batches[b].pairs
                                           /\ batches'[b].stage = batches[b].stage
    PROVE  SendsOnce'
  <1> SUFFICES ASSUME NEW s \in Submitters
               PROVE  /\ sub'[s].pc = "ready" => sub'[s].built = {} /\ sub'[s].sent = {}
                      /\ \A b \in sub'[s].sent : batches'[b].stage = sub'[s].stage
                      /\ \A r \in SentPairs(s)' : Owner(r) \notin sub'[s].todo
    BY DEF SendsOnce
  <1>1. CASE sub'[s].sent = {} /\ (sub'[s].built = {} \/ sub'[s].pc # "ready")
    BY <1>1 DEF SentPairs
  <1>2. CASE /\ sub'[s].sent = sub[s].sent /\ sub'[s].stage = sub[s].stage
             /\ sub'[s].pc = sub[s].pc /\ sub'[s].built = sub[s].built
             /\ sub'[s].todo \subseteq sub[s].todo
             /\ \A b \in sub[s].sent : /\ batches'[b].pairs = batches[b].pairs
                                       /\ batches'[b].stage = batches[b].stage
    <2>1. SentPairs(s)' = SentPairs(s)
      BY <1>2, SentSame
    <2> QED BY <1>2, <2>1 DEF SendsOnce
  <1> QED BY <1>1, <1>2

\* An accepted chunk: its requests are the submission's, their owners are done with.
LEMMA SendAdds ==
    ASSUME Ownership, NEW s \in Submitters, NEW b \in BatchIds, SubmitSend(s, b)
    PROVE  \E C :
       /\ sub' = [sub EXCEPT ![s].todo = @ \ C, ![s].sent = @ \cup {b}]
       /\ batches' = [batches EXCEPT ![b] = [state |-> "sent", stage |-> sub[s].stage,
                                             pairs |-> RequestsOf(s, C)]]
       /\ asked' = [r \in Pairs |-> IF r \in RequestsOf(s, C)
                                      THEN Least(asked[r] + 1, AskCap) ELSE asked[r]]
       /\ \A r \in RequestsOf(s, C) \ extra' :
             r \in Waiting(sub[s].stage) /\ \A t \in Submitters : r \notin SentPairs(t)
       /\ SentPairs(s)' = SentPairs(s) \cup RequestsOf(s, C)
       /\ \A t \in Submitters \ {s} : SentPairs(t)' = SentPairs(t) /\ sub'[t] = sub[t]
       /\ sub'[s] = [sub[s] EXCEPT !.todo = @ \ C, !.sent = @ \cup {b}]
       /\ \A c \in BatchIds \ {b} : batches'[c] = batches[c]
  <1>0. /\ TypeOK /\ sub \in [Submitters -> Submission] /\ batches \in [BatchIds -> Batch]
        /\ batches[b].state = "free"
    BY DEF Ownership, TypeOK, SubmitSend
  <1>1. PICK C :
          /\ sub' = [sub EXCEPT ![s].todo = @ \ C, ![s].sent = @ \cup {b}]
          /\ batches' = [batches EXCEPT ![b] = [state |-> "sent", stage |-> sub[s].stage,
                                                pairs |-> RequestsOf(s, C)]]
          /\ asked' = [r \in Pairs |-> IF r \in RequestsOf(s, C)
                                         THEN Least(asked[r] + 1, AskCap) ELSE asked[r]]
          /\ extra' = extra \cup {r \in RequestsOf(s, C) :
               \/ r \notin Waiting(sub[s].stage)
               \/ \E t \in Submitters : r \in SentPairs(t)}
    BY DEF SubmitSend
  <1>2. sub'[s] = [sub[s] EXCEPT !.todo = @ \ C, !.sent = @ \cup {b}]
    BY <1>0, <1>1
  <1>3. sub'[s].sent = sub[s].sent \cup {b} /\ \A t \in Submitters \ {s} : sub'[t] = sub[t]
    BY <1>0, <1>1, <1>2 DEF Submission
  <1>4. \A t \in Submitters : b \notin sub[t].sent /\ sub[t].sent \subseteq BatchIds
    BY <1>0, SentAlone DEF Submission
  <1>5. \A c \in BatchIds \ {b} : batches'[c] = batches[c]
    BY <1>0, <1>1
  <1>6. \A t \in Submitters \ {s} : SentPairs(t)' = SentPairs(t)
    BY <1>3, <1>4, <1>5, SentSame
  <1>7. batches'[b].pairs = RequestsOf(s, C)
    BY <1>0, <1>1
  <1>8. SentPairs(s)' = SentPairs(s) \cup RequestsOf(s, C)
    BY <1>3, <1>4, <1>5, <1>7 DEF SentPairs
  <1> HIDE DEF SentPairs, RequestsOf
  <1> QED BY <1>1, <1>2, <1>3, <1>5, <1>6, <1>8

LEMMA SendsSubmit ==
    ASSUME RetryInv, NEW s \in Submitters, SubmitStep(s)
    PROVE  SendsOnce'
  <1>0. /\ TypeOK /\ Ownership /\ SendsOnce /\ sub \in [Submitters -> Submission]
        /\ batches \in [BatchIds -> Batch]
    BY DEF RetryInv, Ownership, TypeOK
  <1>1. CASE SubmitRead(s)
    <2>1. batches' = batches /\ \A t \in Submitters \ {s} : sub'[t] = sub[t]
      BY <1>0, <1>1 DEF SubmitRead
    <2>2. sub'[s].sent = {} /\ (sub'[s].built = {} \/ sub'[s].pc # "ready")
      BY <1>0, <1>1 DEF SubmitRead, IdleSub
    <2> QED BY <1>0, <2>1, <2>2, SendsFrame
  <1>2. CASE SubmitRefused(s)
    <2>1. batches' = batches /\ \A t \in Submitters \ {s} : sub'[t] = sub[t]
      BY <1>0, <1>2 DEF SubmitRefused
    <2>2. PICK C : sub'[s] = [sub[s] EXCEPT !.todo = @ \ C]
      BY <1>0, <1>2 DEF SubmitRefused
    <2>3. /\ sub'[s].sent = sub[s].sent /\ sub'[s].stage = sub[s].stage
          /\ sub'[s].pc = sub[s].pc /\ sub'[s].built = sub[s].built
          /\ sub'[s].todo \subseteq sub[s].todo
      BY <1>0, <2>2 DEF Submission
    <2> QED BY <1>0, <2>1, <2>3, SendsFrame
  <1>3. CASE SubmitCommit(s)
    <2>1. \A t \in Submitters \ {s} : sub'[t] = sub[t]
      BY <1>0, <1>3 DEF SubmitCommit
    <2>2. sub'[s].sent = {} /\ sub'[s].built = {}
      BY <1>0, <1>3 DEF SubmitCommit, IdleSub
    <2>3. \A b \in BatchIds : /\ batches'[b].pairs = batches[b].pairs
                              /\ batches'[b].stage = batches[b].stage
      BY <1>0, <1>3 DEF SubmitCommit, Recording, Batch
    <2>4. \A t \in Submitters : sub[t].sent \subseteq BatchIds
      BY <1>0 DEF Submission
    <2> QED BY <1>0, <2>1, <2>2, <2>3, <2>4, SendsFrame
  <1>4. CASE SubmitAbort(s)
    <2>1. \A t \in Submitters \ {s} : sub'[t] = sub[t]
      BY <1>0, <1>4 DEF SubmitAbort
    <2>2. sub'[s].sent = {} /\ sub'[s].built = {}
      BY <1>0, <1>4 DEF SubmitAbort, IdleSub
    <2>3. \A b \in BatchIds : /\ batches'[b].pairs = batches[b].pairs
                              /\ batches'[b].stage = batches[b].stage
      BY <1>0, <1>4 DEF SubmitAbort, Orphaned, Batch
    <2>4. \A t \in Submitters : sub[t].sent \subseteq BatchIds
      BY <1>0 DEF Submission
    <2> QED BY <1>0, <2>1, <2>2, <2>3, <2>4, SendsFrame
  <1>5. ASSUME NEW b \in BatchIds, SubmitSend(s, b) PROVE SendsOnce'
    <2>1. PICK C :
       /\ SentPairs(s)' = SentPairs(s) \cup RequestsOf(s, C)
       /\ \A t \in Submitters \ {s} : SentPairs(t)' = SentPairs(t) /\ sub'[t] = sub[t]
       /\ sub'[s] = [sub[s] EXCEPT !.todo = @ \ C, !.sent = @ \cup {b}]
       /\ batches' = [batches EXCEPT ![b] = [state |-> "sent", stage |-> sub[s].stage,
                                             pairs |-> RequestsOf(s, C)]]
       /\ \A c \in BatchIds \ {b} : batches'[c] = batches[c]
      BY <1>0, <1>5, SendAdds
    <2>2. /\ sub'[s].pc = sub[s].pc /\ sub'[s].stage = sub[s].stage
          /\ sub'[s].sent = sub[s].sent \cup {b} /\ sub'[s].todo = sub[s].todo \ C
          /\ sub[s].pc = "sending"
      <3>1. sub[s].pc = "sending" /\ sub[s] \in Submission
        BY <1>0, <1>5 DEF SubmitSend
      <3> QED BY <2>1, <3>1 DEF Submission
    <2>3. batches'[b].stage = sub[s].stage
      BY <1>0, <2>1
    <2>4. \A t \in Submitters : b \notin sub[t].sent /\ sub[t].sent \subseteq BatchIds
      BY <1>0, <1>5, SentAlone DEF Submission, SubmitSend
    <2>5. \A r \in RequestsOf(s, C) : Owner(r) \in C
      BY DEF RequestsOf
    <2>6. ASSUME NEW t \in Submitters
          PROVE  /\ sub'[t].pc = "ready" => sub'[t].built = {} /\ sub'[t].sent = {}
                 /\ \A c \in sub'[t].sent : batches'[c].stage = sub'[t].stage
                 /\ \A r \in SentPairs(t)' : Owner(r) \notin sub'[t].todo
      <3>1. CASE t = s
        BY <1>0, <2>1, <2>2, <2>3, <2>4, <2>5, <3>1 DEF SendsOnce
      <3>2. CASE t # s
        BY <1>0, <2>1, <2>4, <3>2 DEF SendsOnce
      <3> QED BY <3>1, <3>2
    <2> QED BY <2>6 DEF SendsOnce
  <1> QED BY <1>1, <1>2, <1>3, <1>4, <1>5 DEF SubmitStep

LEMMA SendsOthers ==
    ASSUME RetryInv, [Next]_vars, ~ \E s \in Submitters : SubmitStep(s)
    PROVE  SendsOnce'
  <1>0. /\ TypeOK /\ Ownership /\ SendsOnce /\ sub \in [Submitters -> Submission]
        /\ batches \in [BatchIds -> Batch]
    BY DEF RetryInv, Ownership, TypeOK
  <1>1. CASE Crash
    BY <1>0, <1>1, SendsFrame DEF Crash, IdleSub
  <1>2. CASE \E p \in Profiles : PurgeMatches(p)
    <2>1. batches' = batches
      BY <1>2 DEF PurgeMatches
    <2>2. \A s \in Submitters :
             /\ sub'[s].sent = sub[s].sent /\ sub'[s].stage = sub[s].stage
             /\ sub'[s].pc = sub[s].pc /\ sub'[s].built = sub[s].built
             /\ sub'[s].todo = sub[s].todo
      BY <1>0, <1>2 DEF PurgeMatches, Submission
    <2> QED BY <1>0, <2>1, <2>2, SendsFrame
  <1>3. CASE RemoteStep \/ PollPrefilter \/ PollAnalysis
    <2>1. sub' = sub
      BY <1>3 DEF RemoteStep, RemoteEnd, RemoteForget, PollPrefilter, PollAnalysis
    <2>2. \A s \in Submitters : \A b \in sub[s].sent :
             batches'[b].pairs = batches[b].pairs /\ batches'[b].stage = batches[b].stage
      <3>1. CASE RemoteStep
        BY <1>0, <3>1, SentAlone DEF RemoteStep, RemoteEnd, RemoteForget, Batch
      <3>2. CASE PollPrefilter \/ PollAnalysis
        <4>1. batches' = [batches EXCEPT ![poll.batch] = FreeBatch] /\ poll.pc = "read"
          BY <3>2 DEF PollPrefilter, PollAnalysis, PollApply, PollReading
        <4>2. batches[poll.batch].state = "ended"
          BY <1>0, <4>1 DEF Ownership, PollerOwns
        <4> QED BY <1>0, <4>1, <4>2, SentAlone
      <3> QED BY <1>3, <3>1, <3>2
    <2> QED BY <1>0, <2>1, <2>2, SendsFrame
  <1>4. CASE UNCHANGED <<sub, batches>>
    BY <1>0, <1>4, SendsFrame
  <1>5. CASE \E w \in Runs : RunDecide(w)
    BY <1>0, <1>4, <1>5, RunDecideCases DEF RunCommit, RunAbort
  <1>6. CASE \/ \E p \in Profiles : ImportCv(p) \/ CompleteOnboarding(p) \/ OnboardStart(p)
                                     \/ DeleteProfile(p)
             \/ SyncStart \/ OnboardNotify
             \/ \E w \in Runs, p \in Profiles : RunRead(w, p)
             \/ \E b \in BatchIds : PollRead(b)
             \/ PollAbort \/ PollFinish
             \/ UNCHANGED vars
    BY <1>4, <1>6 DEF ImportCv, CompleteOnboarding, OnboardStart, DeleteProfile, SyncStart,
             OnboardNotify, RunRead, PollRead, PollAbort, PollFinish, vars
  <1> QED BY <1>1, <1>2, <1>3, <1>5, <1>6 DEF Next, SubmitStep, RemoteStep

LEMMA RetryNext == RetryInv /\ [Next]_vars => RetryInv'
  <1> SUFFICES ASSUME RetryInv, [Next]_vars PROVE RetryInv'
    OBVIOUS
  <1>1. Ownership'
    BY OwnNext DEF RetryInv
  <1>2. SendsOnce'
    BY SendsSubmit, SendsOthers
  <1>3. AttemptsLeft'
    BY AttemptsCommit, AttemptsPoll, AttemptsOthers
  <1> QED BY <1>1, <1>2, <1>3 DEF RetryInv

LEMMA RetryAlways == Spec => []RetryInv
  <1>1. Init => RetryInv
    BY OwnInit, RetryInit DEF RetryInv
  <1> QED BY <1>1, RetryNext, PTL DEF Spec

(* Whatever fails, is imported, deleted or restarted, and however many     *)
(* submit: a row waiting for its next request can still be listed for it,  *)
(* unless two transactions wrote it from overlapping reads.                *)
THEOREM RetriesLeft == Spec => []NoRowExhausted
  <1>1. RetryInv => NoRowExhausted
    BY DEF RetryInv, AttemptsLeft, NoRowExhausted
  <1> QED BY <1>1, RetryAlways, PTL

LEMMA BoundInit == Init => BoundInv
  BY PipelineConstants
  DEF Init, BoundInv, RequestsCounted, BoundedRequests, NoRows, NoRow, InPipeline

\* What the counts are compared with are numbers.
LEMMA CountTypes ==
    ASSUME TypeOK, NEW r \in Pairs
    PROVE  /\ asked[r] \in Nat /\ rows[r].attempts \in Nat /\ rows[r] \in Row
           /\ Promoted(r) \in {0, 1}
  BY PipelineConstants DEF TypeOK, Row, Promoted

(* A pair a step leaves alone, restarts, takes out of the pipeline, counts *)
(* an attempt for, or sends a request of while none is under way.          *)
LEMMA CountFrame ==
    ASSUME TypeOK, TypeOK', BoundInv, AttemptsLeft,
           stale \subseteq stale', extra \subseteq extra',
           \A r \in Pairs \ (stale' \cup extra') :
              \/ /\ rows'[r] = rows[r] /\ asked'[r] = asked[r]
                 /\ UnderWay(r) => UnderWay(r)'
              \/ /\ rows'[r].status = rows[r].status /\ rows'[r].attempts = rows[r].attempts
                 /\ asked'[r] = asked[r] /\ UnderWay(r)'
              \/ asked'[r] = 0
              \/ asked'[r] = asked[r] /\ rows'[r].status \notin InPipeline
              \/ /\ asked'[r] = asked[r] /\ rows[r].status \in InPipeline
                 /\ rows'[r].attempts + Promoted(r)' >= rows[r].attempts + Promoted(r) + 1
              \/ /\ asked'[r] <= asked[r] + 1 /\ rows'[r] = rows[r]
                 /\ ~UnderWay(r) /\ UnderWay(r)'
                 /\ rows[r].status \in InPipeline
    PROVE  BoundInv'
  <1> SUFFICES ASSUME NEW r \in Pairs \ (stale' \cup extra')
               PROVE  /\ rows'[r].status \in InPipeline =>
                            asked'[r] <= rows'[r].attempts + Promoted(r)'
                                           + (IF UnderWay(r)' THEN 1 ELSE 0)
                      /\ asked'[r] <= MaxAttempts + 1
    BY DEF BoundInv, RequestsCounted, BoundedRequests
  <1>1. /\ asked[r] \in Nat /\ rows[r].attempts \in Nat /\ Promoted(r) \in {0, 1}
        /\ asked'[r] \in Nat /\ rows'[r].attempts \in Nat /\ Promoted(r)' \in {0, 1}
        /\ MaxAttempts \in Nat \ {0}
    <2>1. asked[r] \in Nat /\ rows[r].attempts \in Nat /\ Promoted(r) \in {0, 1}
      BY CountTypes
    <2>2. asked'[r] \in Nat /\ rows'[r].attempts \in Nat
      BY PipelineConstants DEF TypeOK, Row
    <2> QED BY <2>1, <2>2, PipelineConstants DEF Promoted
  <1>2. /\ rows[r].status \in InPipeline =>
              asked[r] <= rows[r].attempts + Promoted(r) + (IF UnderWay(r) THEN 1 ELSE 0)
        /\ asked[r] <= MaxAttempts + 1
    BY DEF BoundInv, RequestsCounted, BoundedRequests
  <1>3. rows[r].status \in InPipeline => rows[r].attempts < MaxAttempts
    BY DEF AttemptsLeft
  <1>4. CASE rows'[r].status = rows[r].status
    <2>1. Promoted(r)' = Promoted(r)
      BY <1>4 DEF Promoted
    <2>2. CASE asked'[r] = asked[r] /\ rows'[r].attempts = rows[r].attempts
               /\ (UnderWay(r) => UnderWay(r)')
      BY <1>1, <1>2, <1>4, <2>1, <2>2
    <2>3. CASE /\ asked'[r] <= asked[r] + 1 /\ rows'[r].attempts = rows[r].attempts
               /\ ~UnderWay(r) /\ UnderWay(r)' /\ rows[r].status \in InPipeline
      BY <1>1, <1>2, <1>3, <2>1, <2>3
    <2>4. CASE asked'[r] = 0
      BY <1>1, <2>4
    <2>5. CASE asked'[r] = asked[r] /\ rows'[r].status \notin InPipeline
      BY <1>2, <2>5
    <2>6. CASE /\ asked'[r] = asked[r] /\ rows[r].status \in InPipeline
               /\ rows'[r].attempts + Promoted(r)' >= rows[r].attempts + Promoted(r) + 1
      BY <1>1, <1>2, <2>6
    <2> QED BY <1>4, <2>2, <2>3, <2>4, <2>5, <2>6
  <1>5. CASE rows'[r].status # rows[r].status
    <2>1. CASE asked'[r] = 0
      BY <1>1, <2>1
    <2>2. CASE asked'[r] = asked[r] /\ rows'[r].status \notin InPipeline
      BY <1>2, <2>2
    <2>3. CASE /\ asked'[r] = asked[r] /\ rows[r].status \in InPipeline
               /\ rows'[r].attempts + Promoted(r)' >= rows[r].attempts + Promoted(r) + 1
      BY <1>1, <1>2, <2>3
    <2> QED BY <1>5, <2>1, <2>2, <2>3
  <1> QED BY <1>4, <1>5

\* What a step that leaves the submissions and their batches alone leaves under way.
LEMMA WayKept ==
    ASSUME NEW r \in Pairs, rows'[r].batch = rows[r].batch,
           \A s \in Submitters : r \in SentPairs(s) => r \in SentPairs(s)' \/ r \in extra',
           r \notin extra'
    PROVE  UnderWay(r) => UnderWay(r)'
  BY DEF UnderWay

LEMMA CountSubmit ==
    ASSUME RetryInv, BoundInv, TypeOK', NEW s \in Submitters, SubmitStep(s)
    PROVE  BoundInv'
  <1>0. /\ TypeOK /\ Ownership /\ SendsOnce /\ AttemptsLeft
        /\ sub \in [Submitters -> Submission] /\ batches \in [BatchIds -> Batch]
        /\ \A t \in Submitters : sub[t].sent \subseteq BatchIds
    BY DEF RetryInv, Ownership, TypeOK, Submission
  <1>1. CASE SubmitRead(s)
    <2>1. UNCHANGED <<rows, batches, asked, stale, extra>> /\ sub[s].sent = {}
      BY <1>0, <1>1 DEF SubmitRead, SendsOnce
    <2>2. \A t \in Submitters \ {s} : sub'[t] = sub[t]
      BY <1>0, <1>1 DEF SubmitRead
    <2>3. \A t \in Submitters : SentPairs(t) \subseteq SentPairs(t)'
      <3>1. SentPairs(s) = {}
        BY <2>1 DEF SentPairs
      <3> QED BY <2>1, <2>2, <3>1, SentSame
    <2> QED BY <1>0, <2>1, <2>3, WayKept, CountFrame
  <1>2. CASE SubmitRefused(s)
    <2>1. UNCHANGED <<rows, batches, asked, stale, extra>>
      BY <1>2 DEF SubmitRefused
    <2>2. \A t \in Submitters : sub'[t].sent = sub[t].sent
      BY <1>0, <1>2 DEF SubmitRefused, Submission
    <2>3. \A t \in Submitters : SentPairs(t)' = SentPairs(t)
      BY <2>1, <2>2, SentSame
    <2> QED BY <1>0, <2>1, <2>3, WayKept, CountFrame
  <1>3. CASE SubmitAbort(s)
    <2>1. /\ UNCHANGED <<rows, asked, stale>> /\ extra' = extra \cup SentPairs(s)
          /\ \A t \in Submitters \ {s} : sub'[t] = sub[t]
      BY <1>0, <1>3 DEF SubmitAbort
    <2>2. \A b \in BatchIds : batches'[b].pairs = batches[b].pairs
      BY <1>0, <1>3 DEF SubmitAbort, Orphaned, Batch
    <2>3. \A t \in Submitters \ {s} : SentPairs(t)' = SentPairs(t)
      BY <1>0, <2>1, <2>2, SentSame
    <2> QED BY <1>0, <2>1, <2>3, WayKept, CountFrame
  <1>4. CASE SubmitCommit(s)
    <2>1. /\ UNCHANGED <<asked, extra>> /\ stale' = stale \cup (SubmitTouches(s) \ Waiting(sub[s].stage))
          /\ \A t \in Submitters \ {s} : sub'[t] = sub[t]
      BY <1>0, <1>4 DEF SubmitCommit
    <2>2. \A b \in BatchIds : batches'[b].pairs = batches[b].pairs
      BY <1>0, <1>4 DEF SubmitCommit, Recording, Batch
    <2>3. \A t \in Submitters \ {s} : SentPairs(t)' = SentPairs(t)
      BY <1>0, <2>1, <2>2, SentSame
    <2>4. ASSUME NEW r \in Pairs \ (stale' \cup extra')
          PROVE  \/ /\ rows'[r] = rows[r] /\ asked'[r] = asked[r]
                    /\ UnderWay(r) => UnderWay(r)'
                 \/ /\ rows'[r].status = rows[r].status /\ rows'[r].attempts = rows[r].attempts
                    /\ asked'[r] = asked[r] /\ UnderWay(r)'
                 \/ asked'[r] = asked[r] /\ rows'[r].status \notin InPipeline
      <3>0. rows[r] \in Row
        BY <1>0 DEF TypeOK
      <3>1. CASE r \in sub[s].dropped
        <4>1. rows'[r].status = "filtered_out"
          BY <1>4, <3>0, <3>1 DEF SubmitCommit, Row
        <4> QED BY <2>1, <4>1 DEF InPipeline
      <3>2. CASE r \notin sub[s].dropped /\ r \in SentPairs(s)
        <4>1. PICK b \in sub[s].sent : rows'[r] = [rows[r] EXCEPT !.batch = b]
          <5>1. (CHOOSE c \in sub[s].sent : r \in batches[c].pairs) \in sub[s].sent
            BY <3>2 DEF SentPairs
          <5>2. rows'[r] = [rows[r] EXCEPT !.batch =
                               CHOOSE c \in sub[s].sent : r \in batches[c].pairs]
            BY <1>4, <3>2 DEF SubmitCommit
          <5> QED BY <5>1, <5>2
        <4>2. /\ rows'[r].status = rows[r].status /\ rows'[r].attempts = rows[r].attempts
              /\ rows'[r].batch = b /\ b # NoBatch
          BY <1>0, <3>0, <4>1, PipelineConstants DEF Row
        <4> QED BY <2>1, <4>2 DEF UnderWay
      <3>3. CASE r \notin sub[s].dropped /\ r \notin SentPairs(s)
        <4>1. rows'[r] = rows[r]
          BY <1>4, <3>3 DEF SubmitCommit
        <4> QED BY <2>1, <2>3, <3>3, <4>1 DEF UnderWay
      <3> QED BY <3>1, <3>2, <3>3
    <2> QED BY <1>0, <2>1, <2>4, CountFrame
  <1>5. ASSUME NEW b \in BatchIds, SubmitSend(s, b) PROVE BoundInv'
    <2>1. PICK C :
       /\ asked' = [r \in Pairs |-> IF r \in RequestsOf(s, C)
                                      THEN Least(asked[r] + 1, AskCap) ELSE asked[r]]
       /\ \A r \in RequestsOf(s, C) \ extra' :
             r \in Waiting(sub[s].stage) /\ \A t \in Submitters : r \notin SentPairs(t)
       /\ SentPairs(s)' = SentPairs(s) \cup RequestsOf(s, C)
       /\ \A t \in Submitters \ {s} : SentPairs(t)' = SentPairs(t)
      BY <1>0, <1>5, SendAdds
    <2>2. rows' = rows /\ stale' = stale /\ extra \subseteq extra'
      BY <1>5 DEF SubmitSend
    <2>3. ASSUME NEW r \in Pairs \ (stale' \cup extra')
          PROVE  \/ /\ rows'[r] = rows[r] /\ asked'[r] = asked[r]
                    /\ UnderWay(r) => UnderWay(r)'
                 \/ /\ asked'[r] <= asked[r] + 1 /\ rows'[r] = rows[r]
                    /\ ~UnderWay(r) /\ UnderWay(r)'
                    /\ rows[r].status \in InPipeline
      <3>1. CASE r \notin RequestsOf(s, C)
        <4>1. UnderWay(r) => UnderWay(r)'
          BY <2>1, <2>2 DEF UnderWay
        <4> QED BY <2>1, <2>2, <3>1, <4>1
      <3>2. CASE r \in RequestsOf(s, C)
        <4>1. r \in Waiting(sub[s].stage) /\ \A t \in Submitters : r \notin SentPairs(t)
          BY <2>1, <3>2
        <4>2. ~UnderWay(r) /\ rows[r].status \in InPipeline
          BY <4>1, StagesInPipeline DEF UnderWay, Waiting
        <4>3. UnderWay(r)'
          BY <2>1, <3>2 DEF UnderWay
        <4>4. asked'[r] = Least(asked[r] + 1, AskCap) /\ asked[r] \in Nat
          BY <1>0, <2>1, <3>2, CountTypes
        <4>5. asked'[r] <= asked[r] + 1
          BY <4>4, PipelineConstants DEF Least
        <4> QED BY <2>2, <4>2, <4>3, <4>5
      <3> QED BY <3>1, <3>2
    <2> QED BY <1>0, <2>2, <2>3, CountFrame
  <1> QED BY <1>1, <1>2, <1>3, <1>4, <1>5 DEF SubmitStep

LEMMA CountPoll ==
    ASSUME RetryInv, BoundInv, TypeOK', PollPrefilter \/ PollAnalysis
    PROVE  BoundInv'
  <1>0. /\ TypeOK /\ Ownership /\ AttemptsLeft /\ sub \in [Submitters -> Submission]
        /\ batches \in [BatchIds -> Batch]
        /\ poll.batch \in BatchIds /\ poll.batch # NoBatch /\ poll.pc = "read"
    BY PipelineConstants
    DEF RetryInv, Ownership, TypeOK, PollPrefilter, PollAnalysis, PollReading
  <1>1. /\ UNCHANGED <<sub, asked, extra>> /\ stale \subseteq stale'
        /\ batches' = [batches EXCEPT ![poll.batch] = FreeBatch]
    BY DEF PollPrefilter, PollAnalysis, PollApply
  <1>2. \A s \in Submitters : SentPairs(s)' = SentPairs(s)
    <2>1. batches[poll.batch].state = "ended"
      BY <1>0 DEF Ownership, PollerOwns
    <2>2. \A s \in Submitters : \A b \in sub[s].sent : batches'[b] = batches[b]
      BY <1>0, <1>1, <2>1, SentAlone
    <2> QED BY <1>1, <2>2, SentSame
  <1>3. ASSUME NEW r \in Pairs \ (stale' \cup extra')
        PROVE  \/ /\ rows'[r] = rows[r] /\ asked'[r] = asked[r]
                  /\ UnderWay(r) => UnderWay(r)'
               \/ asked'[r] = asked[r] /\ rows'[r].status \notin InPipeline
               \/ /\ asked'[r] = asked[r] /\ rows[r].status \in InPipeline
                  /\ rows'[r].attempts + Promoted(r)' >= rows[r].attempts + Promoted(r) + 1
    <2>1. CASE rows[r].batch # poll.batch
      <3>1. rows'[r] = rows[r]
        BY <1>0, <2>1, PollWrites
      <3> QED BY <1>1, <1>2, <3>1 DEF UnderWay
    <2>2. CASE rows[r].batch = poll.batch
      <3>1. rows[r].status \in StageStatuses(PollStage) /\ rows[r].attempts \in Nat
        BY <1>0, <1>1, <2>2, CountTypes DEF AttemptsLeft, PollStage
      <3>2. rows[r].status \in InPipeline
        BY <3>1, StagesInPipeline
      <3>3. CASE /\ rows'[r].attempts = rows[r].attempts + 1
                 /\ rows'[r].status \in {"filtered_out", rows[r].status}
        <4>1. CASE rows'[r].status = rows[r].status
          <5>1. Promoted(r)' = Promoted(r)
            BY <4>1 DEF Promoted
          <5>2. Promoted(r) \in {0, 1}
            BY <1>0, CountTypes
          <5>3. rows'[r].attempts + Promoted(r)' >= rows[r].attempts + Promoted(r) + 1
            BY <3>1, <3>3, <5>1, <5>2
          <5> QED BY <1>1, <3>2, <5>3
        <4>2. CASE rows'[r].status = "filtered_out"
          BY <1>1, <4>2 DEF InPipeline
        <4> QED BY <3>3, <4>1, <4>2
      <3>4. CASE rows'[r].status \in {"scored", "filtered_out"}
        BY <1>1, <3>4 DEF InPipeline
      <3>5. CASE /\ rows'[r].attempts = rows[r].attempts
                 /\ rows'[r].status = "pending" /\ PollStage = "prefilter"
        <4>1. Promoted(r) = 0 /\ Promoted(r)' = 1
          BY <3>1, <3>5 DEF Promoted, StageStatuses
        <4>2. rows'[r].attempts + Promoted(r)' >= rows[r].attempts + Promoted(r) + 1
          BY <3>1, <3>5, <4>1
        <4> QED BY <1>1, <3>2, <4>2
      <3>6. \/ /\ rows'[r].batch = NoBatch
               /\ rows'[r].attempts = rows[r].attempts + 1
               /\ rows'[r].status = IF rows[r].attempts + 1 >= MaxAttempts
                                      THEN "filtered_out" ELSE rows[r].status
            \/ /\ rows'[r].batch = NoBatch /\ rows'[r].attempts = rows[r].attempts
               /\ \/ rows'[r].status \in {"scored", "filtered_out"}
                  \/ rows'[r].status = "pending" /\ PollStage = "prefilter"
        BY <1>0, <2>2, PollWrites
      <3> QED BY <3>3, <3>4, <3>5, <3>6
    <2> QED BY <2>1, <2>2
  <1> QED BY <1>0, <1>1, <1>3, CountFrame

LEMMA CountOthers ==
    ASSUME RetryInv, BoundInv, TypeOK', [Next]_vars, ~ \E s \in Submitters : SubmitStep(s),
           ~PollPrefilter, ~PollAnalysis
    PROVE  BoundInv'
  <1>0. /\ TypeOK /\ Ownership /\ AttemptsLeft /\ batches \in [BatchIds -> Batch]
        /\ sub \in [Submitters -> Submission]
    BY DEF RetryInv, Ownership, TypeOK
  <1>1. CASE \E w \in Runs : RunDecide(w)
    <2>1. PICK w \in Runs : RunDecide(w)
      BY <1>1
    <2>2. UNCHANGED <<sub, batches, extra>> /\ stale \subseteq stale'
      BY <1>0, <2>1, RunDecideCases DEF RunCommit, RunAbort
    <2>3. \A s \in Submitters : SentPairs(s)' = SentPairs(s)
      BY <2>2, SentSame
    <2>4. \A r \in Pairs \ stale' :
             \/ rows'[r] = rows[r] /\ asked'[r] = asked[r]
             \/ asked'[r] = 0
             \/ asked'[r] = asked[r] /\ rows'[r].status \notin InPipeline
      BY <1>0, <2>1, RunWrites DEF InPipeline
    <2>5. \A r \in Pairs : rows'[r] = rows[r] => (UnderWay(r) => UnderWay(r)')
      BY <2>3 DEF UnderWay
    <2> QED BY <1>0, <2>2, <2>4, <2>5, CountFrame
  <1>2. CASE \E p \in Profiles : PurgeMatches(p)
    <2>1. /\ UNCHANGED <<batches, asked, stale, extra>>
          /\ \A r \in Pairs : rows'[r] = rows[r] \/ rows'[r].status = "absent"
      BY <1>2 DEF PurgeMatches, NoRow
    <2>2. \A s \in Submitters : sub'[s].sent = sub[s].sent
      BY <1>0, <1>2 DEF PurgeMatches, Submission
    <2>3. \A s \in Submitters : SentPairs(s)' = SentPairs(s)
      BY <2>1, <2>2, SentSame
    <2>4. \A r \in Pairs : rows'[r] = rows[r] => (UnderWay(r) => UnderWay(r)')
      BY <2>3 DEF UnderWay
    <2>5. "absent" \notin InPipeline
      BY DEF InPipeline
    <2> QED BY <1>0, <2>1, <2>4, <2>5, CountFrame
  <1>3. CASE Crash
    <2>1. /\ UNCHANGED <<rows, asked, stale>> /\ extra \subseteq extra'
          /\ \A s \in Submitters : SentPairs(s) \subseteq extra'
      BY <1>3 DEF Crash
    <2>2. \A r \in Pairs \ extra' : UnderWay(r) => UnderWay(r)'
      BY <2>1 DEF UnderWay
    <2> QED BY <1>0, <2>1, <2>2, CountFrame
  <1>4. CASE RemoteStep
    <2>1. UNCHANGED <<rows, sub, asked, stale, extra>>
      BY <1>4 DEF RemoteStep, RemoteEnd, RemoteForget
    <2>2. \A s \in Submitters : \A b \in sub[s].sent : batches'[b].pairs = batches[b].pairs
      BY <1>0, <1>4, SentAlone DEF RemoteStep, RemoteEnd, RemoteForget, Batch
    <2>3. \A s \in Submitters : SentPairs(s)' = SentPairs(s)
      BY <2>1, <2>2, SentSame
    <2> QED BY <1>0, <2>1, <2>3, WayKept, CountFrame
  <1>5. CASE \/ \E p \in Profiles : ImportCv(p) \/ CompleteOnboarding(p) \/ OnboardStart(p)
                                     \/ DeleteProfile(p)
             \/ SyncStart \/ OnboardNotify
             \/ \E w \in Runs, p \in Profiles : RunRead(w, p)
             \/ \E b \in BatchIds : PollRead(b)
             \/ PollAbort \/ PollFinish
             \/ UNCHANGED vars
    <2>1. UNCHANGED <<rows, sub, batches, asked, stale, extra>>
      BY <1>5 DEF ImportCv, CompleteOnboarding, OnboardStart, DeleteProfile, SyncStart,
             OnboardNotify, RunRead, PollRead, PollAbort, PollFinish, vars
    <2>2. \A s \in Submitters : SentPairs(s)' = SentPairs(s)
      BY <2>1, SentSame
    <2> QED BY <1>0, <2>1, <2>2, WayKept, CountFrame
  <1> QED BY <1>1, <1>2, <1>3, <1>4, <1>5 DEF Next, SubmitStep, RemoteStep

(* Whatever fails, is imported, deleted or restarted, and however many     *)
(* submit: a pair costs at most one request more than MATCHING_MAX_ATTEMPTS*)
(* before it leaves the pipeline, but for the requests sent beside another *)
(* one or lost, and for the rows two transactions wrote.                   *)
THEOREM RequestsBounded == Spec => []BoundedRequests
  <1>1. RetryInv /\ BoundInv /\ [Next]_vars => BoundInv'
    <2> SUFFICES ASSUME RetryInv, BoundInv, [Next]_vars PROVE BoundInv'
      OBVIOUS
    <2>1. TypeOK'
      BY TypeNext DEF RetryInv, Ownership
    <2> QED BY <2>1, CountSubmit, CountPoll, CountOthers
  <1>2. BoundInv => BoundedRequests
    BY DEF BoundInv
  <1> QED BY <1>1, <1>2, BoundInit, RetryAlways, PTL DEF Spec
===============================================================================
