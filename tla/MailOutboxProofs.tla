--------------------------- MODULE MailOutboxProofs ---------------------------
(***************************************************************************)
(* For any number of mails and any settings, the queue keeps its promise    *)
(* (MailDelivery) and bounds what it asks of the transport.  Accounts is     *)
(* inductive; each action gets one lemma.                                   *)
(***************************************************************************)
EXTENDS MailOutbox, TLAPS

LEMMA SessionIntro ==
    ASSUME NEW S \in SUBSET Mails, NEW f \in [S -> Row]
    PROVE  f \in Sessions
  BY Zenon DEF Sessions

LEMMA SessionElim ==
    ASSUME NEW f \in Sessions
    PROVE  /\ f \in [DOMAIN f -> Row]
           /\ DOMAIN f \in SUBSET Mails
  <1>1. PICK S \in SUBSET Mails : f \in [S -> Row]
    BY Zenon DEF Sessions
  <1> QED BY <1>1

LEMMA EmptySession == NoRows \in Sessions
  <1>1. NoRows \in [{} -> Row]
    BY DEF NoRows
  <1> QED BY <1>1, SessionIntro

LEMMA AccountsInit == Init => Accounts
  <1> SUFFICES ASSUME Init PROVE Accounts
    OBVIOUS
  <1>1. TypeOK
    BY OutboxConstants, EmptySession DEF Init, TypeOK, Row, Statuses, Absent, Idle
  <1>2. WorkerHoldsPending /\ RowsTellTheTruth
    BY DEF Init, WorkerHoldsPending, RowsTellTheTruth, Idle, NoRows, Pending
  <1>3. AttemptsLeft
    BY OutboxConstants DEF Init, AttemptsLeft, Absent
  <1>4. CallsCounted
    BY DEF Init, CallsCounted, InSession, Absent, Idle, NoRows
  <1> QED BY <1>1, <1>2, <1>3, <1>4 DEF Accounts

LEMMA AccountsEnqueue ==
    ASSUME Accounts, NEW S \in SUBSET Mails, Enqueue(S)
    PROVE  Accounts'
  <1> USE DEF Accounts, Enqueue
  <1>0. \A m \in Mails : m \in S => outbox[m].status = "absent"
    OBVIOUS
  <1>1. TypeOK'
    BY OutboxConstants DEF TypeOK, Row, Statuses
  <1>2. WorkerHoldsPending'
    BY <1>0 DEF WorkerHoldsPending, Pending
  <1>3. RowsTellTheTruth'
    <2> SUFFICES ASSUME NEW m \in DOMAIN flush.rows
                 PROVE  outbox'[m] = outbox[m]
      BY DEF RowsTellTheTruth
    <2> QED BY <1>0 DEF WorkerHoldsPending, Pending
  <1>4. AttemptsLeft'
    BY OutboxConstants DEF AttemptsLeft
  <1>5. CallsCounted'
    <2> SUFFICES ASSUME NEW m \in Mails
                 PROVE  outbox'[m].attempts = outbox[m].attempts
      BY DEF CallsCounted, InSession
    <2> QED BY <1>0 DEF AttemptsLeft
  <1> QED BY <1>1, <1>2, <1>3, <1>4, <1>5

LEMMA AccountsList == Accounts /\ List => Accounts'
  <1> SUFFICES ASSUME Accounts, List PROVE Accounts'
    OBVIOUS
  <1> USE DEF Accounts, List
  <1>0. Oldest(Pending, BatchSize) \subseteq Pending
    BY DEF Oldest
  <1>1. TypeOK'
    BY <1>0, EmptySession DEF TypeOK, Pending
  <1>2. WorkerHoldsPending' /\ RowsTellTheTruth'
    BY <1>0 DEF WorkerHoldsPending, RowsTellTheTruth, NoRows, Pending
  <1>3. AttemptsLeft'
    BY DEF AttemptsLeft
  <1>4. CallsCounted'
    BY <1>0 DEF CallsCounted, InSession, NoRows, WorkerHoldsPending
  <1> QED BY <1>1, <1>2, <1>3, <1>4

\* What one call of the transport leaves behind, whatever it answered.
LEMMA AccountsWritten ==
    ASSUME Accounts, NEW m \in Mails, NEW row \in Row, Turn(m), Written(m, row),
           row.attempts = outbox[m].attempts + 1,
           row.status # "absent",
           row.status = "pending" => row.attempts < MaxAttempts,
           row.status = "failed" => row.attempts >= MaxAttempts,
           row.status = "sent" => m \in arrived' \/ ~Configured,
           arrived' \subseteq Mails, arrived \subseteq arrived',
           reported' \subseteq Mails,
           calls' = [calls EXCEPT ![m] = @ + 1],
           UNCHANGED <<outbox, lost>>
    PROVE  Accounts'
  <1> DEFINE D == DOMAIN flush.rows \union {m}
  <1>1. /\ flush' = [flush EXCEPT !.todo = flush.todo \ {m},
                      !.rows = [k \in D |-> IF k = m THEN row ELSE flush.rows[k]]]
        /\ m \in flush.todo
    BY DEF Written, Turn
  <1>2. /\ flush \in [running: BOOLEAN, todo: SUBSET Mails, rows: Sessions]
        /\ outbox \in [Mails -> Row]
        /\ calls \in [Mails -> Nat]
        /\ lost \in Nat
    BY OutboxConstants DEF Accounts, TypeOK
  <1>3. flush.rows \in [DOMAIN flush.rows -> Row] /\ DOMAIN flush.rows \in SUBSET Mails
    BY <1>2, SessionElim
  <1>4. [k \in D |-> IF k = m THEN row ELSE flush.rows[k]] \in [D -> Row]
    BY <1>3
  <1>5. [k \in D |-> IF k = m THEN row ELSE flush.rows[k]] \in Sessions
    BY <1>3, <1>4, SessionIntro
  <1>6. /\ flush'.running = flush.running
        /\ flush'.todo = flush.todo \ {m}
        /\ flush'.rows = [k \in D |-> IF k = m THEN row ELSE flush.rows[k]]
        /\ flush' \in [running: BOOLEAN, todo: SUBSET Mails, rows: Sessions]
    BY <1>1, <1>2, <1>5
  <1>7. DOMAIN flush'.rows = D /\ flush'.rows[m] = row
    BY <1>6
  <1>8. m \notin DOMAIN flush.rows /\ flush.running
    BY <1>1 DEF Accounts, WorkerHoldsPending
  <1>9. TypeOK'
    BY <1>6, <1>2 DEF Accounts, TypeOK
  <1>10. WorkerHoldsPending'
    BY <1>1, <1>6, <1>7, <1>8 DEF Accounts, WorkerHoldsPending, Pending
  <1>11. RowsTellTheTruth'
    <2> SUFFICES ASSUME NEW k \in DOMAIN flush'.rows
                 PROVE  /\ flush'.rows[k].attempts = outbox[k].attempts + 1
                        /\ flush'.rows[k].status # "absent"
                        /\ flush'.rows[k].status = "pending" => flush'.rows[k].attempts < MaxAttempts
                        /\ flush'.rows[k].status = "failed" => flush'.rows[k].attempts >= MaxAttempts
                        /\ flush'.rows[k].status = "sent" => k \in arrived' \/ ~Configured
      BY DEF RowsTellTheTruth
    <2>1. CASE k = m
      BY <2>1, <1>7
    <2>2. CASE k # m
      BY <2>2, <1>6, <1>7 DEF Accounts, RowsTellTheTruth
    <2> QED BY <2>1, <2>2
  <1>12. AttemptsLeft'
    BY DEF Accounts, AttemptsLeft
  <1>13. CallsCounted'
    <2> SUFFICES ASSUME NEW k \in Mails
                 PROVE  /\ outbox[k].attempts + InSession(k)' <= calls'[k]
                        /\ calls'[k] <= outbox[k].attempts + InSession(k)' + lost
      BY DEF CallsCounted
    <2>0. outbox[k].attempts \in Nat /\ calls[k] \in Nat
      BY <1>2, OutboxConstants DEF Row
    <2>1. CASE k = m
      BY <2>0, <2>1, <1>2, <1>7, <1>8 DEF Accounts, CallsCounted, InSession
    <2>2. CASE k # m
      BY <2>0, <2>2, <1>2, <1>7 DEF Accounts, CallsCounted, InSession
    <2> QED BY <2>1, <2>2
  <1> QED BY <1>9, <1>10, <1>11, <1>12, <1>13 DEF Accounts

\* A pending mail has an attempt left, so its counter stays in range.
LEMMA NextAttempt ==
    ASSUME Accounts, NEW m \in Mails, Turn(m)
    PROVE  /\ outbox[m].status = "pending"
           /\ outbox[m].attempts + 1 \in 0..MaxAttempts
  BY OutboxConstants DEF Accounts, TypeOK, Row, Turn, WorkerHoldsPending, Pending, AttemptsLeft

LEMMA AccountsSendOk ==
    ASSUME Accounts, NEW m \in Mails, SendOk(m)
    PROVE  Accounts'
  <1>1. Turn(m) /\ Written(m, SentRow(m))
    BY DEF SendOk
  <1>2. SentRow(m) \in Row
    BY <1>1, NextAttempt DEF SentRow, Row, Statuses
  <1>3. arrived \subseteq Mails /\ reported \subseteq Mails
    BY DEF Accounts, TypeOK
  <1> QED BY <1>1, <1>2, <1>3, AccountsWritten DEF SendOk, SentRow

LEMMA AccountsSendFails ==
    ASSUME Accounts, NEW m \in Mails, SendFails(m)
    PROVE  Accounts'
  <1>1. Turn(m) /\ Written(m, FailedRow(m))
    BY DEF SendFails
  <1>2. FailedRow(m) \in Row
    BY <1>1, NextAttempt DEF FailedRow, Row, Statuses
  <1>3. /\ arrived \subseteq Mails /\ arrived' \subseteq Mails
        /\ arrived \subseteq arrived' /\ reported' \subseteq Mails
    BY DEF Accounts, TypeOK, SendFails
  <1>4. /\ FailedRow(m).status = "pending" => FailedRow(m).attempts < MaxAttempts
        /\ FailedRow(m).status = "failed" => FailedRow(m).attempts >= MaxAttempts
    BY <1>1, NextAttempt, OutboxConstants DEF FailedRow
  <1>5. /\ FailedRow(m).status \notin {"absent", "sent"}
        /\ FailedRow(m).attempts = outbox[m].attempts + 1
    BY DEF FailedRow
  <1> QED BY <1>1, <1>2, <1>3, <1>4, <1>5, AccountsWritten DEF SendFails

LEMMA AccountsCommit == Accounts /\ Commit => Accounts'
  <1> SUFFICES ASSUME Accounts, Commit PROVE Accounts'
    OBVIOUS
  <1>0. /\ \A m \in DOMAIN flush.rows : m \in Mails /\ flush.rows[m] \in Row
        /\ outbox \in [Mails -> Row]
        /\ calls \in [Mails -> Nat] /\ lost \in Nat
    BY OutboxConstants, SessionElim DEF Accounts, TypeOK
  <1>1. outbox' \in [Mails -> Row]
    BY <1>0 DEF Commit
  <1>2. flush'.running = FALSE /\ flush'.todo = {} /\ DOMAIN flush'.rows = {}
    BY DEF Commit, Idle, NoRows
  <1>3. TypeOK'
    <2>1. flush' \in [running: BOOLEAN, todo: SUBSET Mails, rows: Sessions]
      BY EmptySession DEF Commit, Idle
    <2> QED BY <1>1, <2>1 DEF Accounts, TypeOK, Commit
  <1>4. WorkerHoldsPending' /\ RowsTellTheTruth'
    BY <1>2 DEF WorkerHoldsPending, RowsTellTheTruth
  <1>5. AttemptsLeft'
    <2> SUFFICES ASSUME NEW m \in Mails
                 PROVE /\ outbox'[m].status = "absent" => outbox'[m].attempts = 0
                       /\ outbox'[m].status = "pending" => outbox'[m].attempts < MaxAttempts
                       /\ outbox'[m].status = "failed" => outbox'[m].attempts >= MaxAttempts
      BY DEF AttemptsLeft
    <2> QED BY DEF Accounts, Commit, AttemptsLeft, RowsTellTheTruth
  <1>6. CallsCounted'
    <2> SUFFICES ASSUME NEW m \in Mails
                 PROVE  /\ outbox'[m].attempts + 0 <= calls[m]
                        /\ calls[m] <= outbox'[m].attempts + 0 + lost
      BY <1>2 DEF CallsCounted, InSession, Commit
    <2>0. outbox[m].attempts \in Nat
      BY <1>0 DEF Row
    <2>1. CASE m \in DOMAIN flush.rows
      BY <2>0, <2>1, <1>0 DEF Accounts, Commit, CallsCounted, InSession, RowsTellTheTruth
    <2>2. CASE m \notin DOMAIN flush.rows
      BY <2>0, <2>2, <1>0 DEF Accounts, Commit, CallsCounted, InSession
    <2> QED BY <2>1, <2>2
  <1> QED BY <1>3, <1>4, <1>5, <1>6 DEF Accounts

LEMMA AccountsLose == Accounts /\ LoseFlush => Accounts'
  <1> SUFFICES ASSUME Accounts, LoseFlush PROVE Accounts'
    OBVIOUS
  <1>1. flush'.running = FALSE /\ flush'.todo = {} /\ DOMAIN flush'.rows = {}
    BY DEF LoseFlush, Idle, NoRows
  <1>2. TypeOK'
    <2>1. flush' \in [running: BOOLEAN, todo: SUBSET Mails, rows: Sessions]
      BY EmptySession DEF LoseFlush, Idle
    <2> QED BY <2>1, OutboxConstants DEF Accounts, TypeOK, LoseFlush
  <1>3. WorkerHoldsPending' /\ RowsTellTheTruth'
    BY <1>1 DEF WorkerHoldsPending, RowsTellTheTruth
  <1>4. AttemptsLeft'
    BY DEF Accounts, AttemptsLeft, LoseFlush
  <1>5. CallsCounted'
    <2> SUFFICES ASSUME NEW m \in Mails
                 PROVE  /\ outbox[m].attempts + 0 <= calls[m]
                        /\ calls[m] <= outbox[m].attempts + 0 + (lost + 1)
      BY <1>1 DEF CallsCounted, InSession, LoseFlush
    <2>0. outbox[m].attempts \in Nat /\ calls[m] \in Nat /\ lost \in Nat
      BY OutboxConstants DEF Accounts, TypeOK, Row
    <2> QED BY <2>0 DEF Accounts, CallsCounted, InSession
  <1> QED BY <1>2, <1>3, <1>4, <1>5 DEF Accounts

LEMMA AccountsNext == Accounts /\ [Next]_vars => Accounts'
  <1> SUFFICES ASSUME Accounts, [Next]_vars PROVE Accounts'
    OBVIOUS
  <1>1. CASE \E S \in SUBSET Mails \ {{}} : Enqueue(S)
    BY <1>1, AccountsEnqueue
  <1>2. CASE List
    BY <1>2, AccountsList
  <1>3. CASE \E m \in Mails : SendOk(m) \/ SendFails(m)
    BY <1>3, AccountsSendOk, AccountsSendFails
  <1>4. CASE Commit
    BY <1>4, AccountsCommit
  <1>5. CASE LoseFlush
    BY <1>5, AccountsLose
  <1>6. CASE UNCHANGED vars
    BY <1>6 DEF vars, Accounts, TypeOK, WorkerHoldsPending, Pending, RowsTellTheTruth,
                AttemptsLeft, CallsCounted, InSession
  <1> QED BY <1>1, <1>2, <1>3, <1>4, <1>5, <1>6 DEF Next

LEMMA AccountsAlways == Spec => []Accounts
  <1> QED BY AccountsInit, AccountsNext, PTL DEF Spec

(* However many batches are lost, each one costs a mail at most one call     *)
(* beyond MAIL_MAX_ATTEMPTS.                                                *)
THEOREM CallsAreBounded == Spec => []CallsBounded
  <1>1. Accounts => CallsBounded
    <2> SUFFICES ASSUME Accounts, NEW m \in Mails
                 PROVE  calls[m] <= MaxAttempts + lost
      BY DEF CallsBounded
    <2>0. /\ outbox[m].attempts \in 0..MaxAttempts
          /\ calls[m] \in Nat /\ lost \in Nat
      BY OutboxConstants DEF Accounts, TypeOK, Row
    <2>1. CASE m \in DOMAIN flush.rows
      BY <2>0, <2>1, OutboxConstants DEF Accounts, WorkerHoldsPending, Pending, AttemptsLeft,
         CallsCounted, InSession
    <2>2. CASE m \notin DOMAIN flush.rows
      BY <2>0, <2>2, OutboxConstants DEF Accounts, CallsCounted, InSession
    <2> QED BY <2>1, <2>2
  <1> QED BY <1>1, AccountsAlways, PTL

(* A mail given up was refused MAIL_MAX_ATTEMPTS times.                      *)
THEOREM GivenUpLate == Spec => []GivesUpLate
  <1>1. Accounts => GivesUpLate
    <2> SUFFICES ASSUME Accounts, NEW m \in Mails, outbox[m].status = "failed"
                 PROVE  calls[m] >= MaxAttempts
      BY DEF GivesUpLate
    <2>0. outbox[m].attempts \in 0..MaxAttempts /\ calls[m] \in Nat
      BY OutboxConstants DEF Accounts, TypeOK, Row
    <2> QED BY <2>0, OutboxConstants DEF Accounts, AttemptsLeft, CallsCounted, InSession
  <1> QED BY <1>1, AccountsAlways, PTL

-----------------------------------------------------------------------------
(* The refinement: what the worker has done to its session is invisible      *)
(* until the commit, except that a mail may already have arrived.            *)
LEMMA PromiseInit == Init => Delivery!Init
  BY DEF Init, Delivery!Init, Absent

LEMMA SendArrives ==
    ASSUME Accounts, NEW m \in Mails, Turn(m), UNCHANGED outbox,
           arrived' \in {arrived, arrived \union {m}}
    PROVE  Delivery!Arrive(m) \/ UNCHANGED Delivery!vars
  <1>1. outbox[m].status = "pending"
    BY NextAttempt
  <1> QED BY <1>1 DEF Delivery!Arrive, Delivery!vars

LEMMA CommitSettles ==
    ASSUME Accounts, Commit
    PROVE  \E handled, abandoned \in SUBSET Mails : Delivery!Settle(handled, abandoned)
  <1> DEFINE H == {m \in DOMAIN flush.rows : flush.rows[m].status = "sent"}
             F == {m \in DOMAIN flush.rows : flush.rows[m].status = "failed"}
  <1>1. DOMAIN flush.rows \subseteq Pending /\ Pending \subseteq Mails
    BY DEF Accounts, WorkerHoldsPending, Pending
  <1>2. H \in SUBSET Mails /\ F \in SUBSET Mails /\ H \intersect F = {}
    BY <1>1
  <1>3. \A m \in H \union F : outbox[m].status = "pending"
    BY <1>1 DEF Pending
  <1>4. \A m \in H : Delivery!Handled(m)
    BY DEF Accounts, RowsTellTheTruth, Delivery!Handled
  <1>5. \A m \in Mails :
          outbox'[m].status = IF m \in H THEN "sent"
                              ELSE IF m \in F THEN "failed" ELSE outbox[m].status
    <2> TAKE m \in Mails
    <2>1. CASE m \in DOMAIN flush.rows
      <3>1. outbox'[m] = flush.rows[m] /\ outbox[m].status = "pending"
        BY <2>1, <1>1 DEF Commit, Pending
      <3>2. flush.rows[m].status \in {"pending", "sent", "failed"}
        <4>1. flush.rows[m] \in Row
          BY <2>1, SessionElim DEF Accounts, TypeOK
        <4>2. flush.rows[m].status # "absent"
          BY <2>1 DEF Accounts, RowsTellTheTruth
        <4> QED BY <4>1, <4>2 DEF Row, Statuses
      <3> QED BY <2>1, <3>1, <3>2
    <2>2. CASE m \notin DOMAIN flush.rows
      BY <2>2 DEF Commit
    <2> QED BY <2>1, <2>2
  <1>6. Delivery!Settle(H, F)
    BY <1>2, <1>3, <1>4, <1>5 DEF Delivery!Settle, Commit
  <1> HIDE DEF H, F
  <1> QED BY <1>2, <1>6 DEF Delivery!Settle

LEMMA PromiseStep == Accounts /\ [Next]_vars => [Delivery!Next]_(Delivery!vars)
  <1> SUFFICES ASSUME Accounts, [Next]_vars
               PROVE  Delivery!Next \/ UNCHANGED Delivery!vars
    OBVIOUS
  <1>1. ASSUME NEW S \in SUBSET Mails, Enqueue(S) PROVE Delivery!Accept(S)
    BY <1>1 DEF Enqueue, Delivery!Accept
  <1>2. CASE \E S \in SUBSET Mails \ {{}} : Enqueue(S)
    BY <1>1, <1>2 DEF Delivery!Next
  <1>3. CASE List \/ LoseFlush
    BY <1>3 DEF List, LoseFlush, Delivery!vars
  <1>4. CASE \E m \in Mails : SendOk(m) \/ SendFails(m)
    BY <1>4, SendArrives DEF SendOk, SendFails, Delivery!Next
  <1>5. CASE Commit
    BY <1>5, CommitSettles DEF Delivery!Next
  <1>6. CASE UNCHANGED vars
    BY <1>6 DEF vars, Delivery!vars
  <1> QED BY <1>2, <1>3, <1>4, <1>5, <1>6 DEF Next

(* The queue implements the delivery its callers rely on: nothing is dropped *)
(* before it is settled, and sent means the provider took it.                *)
THEOREM KeepsThePromise == Spec => Promise
  <1> QED BY PromiseInit, PromiseStep, AccountsAlways, PTL DEF Spec, Promise, Delivery!Spec
===============================================================================
