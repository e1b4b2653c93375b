------------------------------ MODULE MailOutbox ------------------------------
(***************************************************************************)
(* The mail queue of src/app/modules/mailer: callers write mails in their   *)
(* own transaction, and one scheduled worker lists the oldest pending ones, *)
(* hands them to the transport one after the other and commits the outcome  *)
(* of the whole batch at its end.                                           *)
(***************************************************************************)
EXTENDS Naturals, FiniteSets

CONSTANTS
  N,            \* number of mails ever written; a mail is its rank in created_at
  BatchSize,    \* MAIL_QUEUE_BATCH_SIZE
  MaxAttempts,  \* MAIL_MAX_ATTEMPTS
  Configured,   \* transports.is_configured()
  MaxLost       \* bound of the checks: flushes lost to a restart or a failed commit

ASSUME OutboxConstants ==
  /\ N \in Nat
  /\ BatchSize \in Nat \ {0}
  /\ MaxAttempts \in Nat \ {0}
  /\ Configured \in BOOLEAN
  /\ MaxLost \in Nat

Mails == 1..N

VARIABLES
  outbox,   \* the committed rows of email_messages
  flush,    \* the worker: the batch it still has to send, the rows of its session
  calls,    \* how many times the transport was called for each mail (history)
  arrived,  \* the mails the provider delivered at least once (history)
  reported, \* the mails an incident "mail:gave_up" was opened for
  lost      \* flushes lost so far

vars == <<outbox, flush, calls, arrived, reported, lost>>

Statuses == {"absent", "pending", "sent", "failed"}
Row == [status: Statuses, attempts: 0..MaxAttempts]
\* The rows a session may have written, and not committed yet.
Sessions == UNION {[S -> Row] : S \in SUBSET Mails}

Absent == [status |-> "absent", attempts |-> 0]
NoRows == [m \in {} |-> Absent]
Idle == [running |-> FALSE, todo |-> {}, rows |-> NoRows]

Pending == {m \in Mails : outbox[m].status = "pending"}

\* A slip a check must notice: a batch that is not full is left waiting.
OnlyFullBatches(S, n) ==
  IF Cardinality(S) < n THEN {} ELSE {m \in S : Cardinality({k \in S : k < m}) < n}

(* The n oldest of S.                                                       *)
Oldest(S, n) == {m \in S : Cardinality({k \in S : k < m}) < n}

Init ==
  /\ outbox = [m \in Mails |-> Absent]
  /\ flush = Idle
  /\ calls = [m \in Mails |-> 0]
  /\ arrived = {}
  /\ reported = {}
  /\ lost = 0

(***************************************************************************)
(* MailerService.enqueue: one transaction of a caller (a registration, a    *)
(* brief, an announcement to many) commits with the mails it wrote.         *)
(***************************************************************************)
Enqueue(S) ==
  /\ \A m \in S : outbox[m].status = "absent"
  /\ outbox' = [m \in Mails |->
                  IF m \in S THEN [status |-> "pending", attempts |-> 0] ELSE outbox[m]]
  /\ UNCHANGED <<flush, calls, arrived, reported, lost>>

(***************************************************************************)
(* MailerService.process_pending, called by the job flush_mail_queue: the   *)
(* scheduler runs one instance of it at a time.                             *)
(***************************************************************************)
List ==
  /\ ~flush.running
  /\ Pending # {}
  /\ flush' = [running |-> TRUE, todo |-> Oldest(Pending, BatchSize), rows |-> NoRows]
  /\ UNCHANGED <<outbox, calls, arrived, reported, lost>>

(* The message whose turn it is: the batch is sent oldest first.            *)
Turn(m) == m \in flush.todo /\ \A k \in flush.todo : m <= k

Written(m, row) ==
  flush' = [flush EXCEPT !.todo = @ \ {m},
              !.rows = [k \in DOMAIN @ \union {m} |-> IF k = m THEN row ELSE @[k]]]

SentRow(m) == [status |-> "sent", attempts |-> outbox[m].attempts + 1]

\* Slips a check must notice: a mail counts as sent whatever the transport did,
\* is given up one attempt early, its attempts are not counted.
SentWhateverHappens(m) == SentRow(m)

FailedOneEarly(m) ==
  [status |-> IF outbox[m].attempts + 2 >= MaxAttempts THEN "failed" ELSE "pending",
   attempts |-> outbox[m].attempts + 1]

FailedNotCounted(m) ==
  [status |-> IF outbox[m].attempts + 1 >= MaxAttempts THEN "failed" ELSE "pending",
   attempts |-> outbox[m].attempts]

FailedRow(m) ==
  [status |-> IF outbox[m].attempts + 1 >= MaxAttempts THEN "failed" ELSE "pending",
   attempts |-> outbox[m].attempts + 1]

(* send_email returned: the provider took the mail, or none is configured.  *)
SendOk(m) ==
  /\ Turn(m)
  /\ Written(m, SentRow(m))
  /\ calls' = [calls EXCEPT ![m] = @ + 1]
  /\ arrived' = IF Configured THEN arrived \union {m} ELSE arrived
  /\ UNCHANGED <<outbox, reported, lost>>

(* send_email raised.  The provider may still have taken the mail (the       *)
(* answer was lost).  Giving up opens an incident in a transaction of its    *)
(* own, best effort.                                                        *)
SendFails(m) ==
  /\ Configured
  /\ Turn(m)
  /\ Written(m, FailedRow(m))
  /\ calls' = [calls EXCEPT ![m] = @ + 1]
  /\ arrived' \in {arrived, arrived \union {m}}
  /\ reported' \in {reported,
                    IF FailedRow(m).status = "failed" THEN reported \union {m} ELSE reported}
  /\ UNCHANGED <<outbox, lost>>

(* The one commit at the end of the batch.                                  *)
Commit ==
  /\ flush.running
  /\ flush.todo = {}
  /\ outbox' = [m \in Mails |->
                  IF m \in DOMAIN flush.rows THEN flush.rows[m] ELSE outbox[m]]
  /\ flush' = Idle
  /\ UNCHANGED <<calls, arrived, reported, lost>>

(* The process restarts, or the commit raises: nothing of the batch is kept. *)
LoseFlush ==
  /\ flush.running
  /\ lost < MaxLost
  /\ lost' = lost + 1
  /\ flush' = Idle
  /\ UNCHANGED <<outbox, calls, arrived, reported>>

Next ==
  \/ \E S \in SUBSET Mails \ {{}} : Enqueue(S)
  \/ List
  \/ \E m \in Mails : SendOk(m) \/ SendFails(m)
  \/ Commit
  \/ LoseFlush

(* The job runs every MAIL_QUEUE_INTERVAL_MINUTES and each call of the       *)
(* transport returns or raises (both transports set a timeout).             *)
Fairness ==
  /\ WF_vars(List)
  /\ WF_vars(\E m \in Mails : SendOk(m) \/ SendFails(m))
  /\ WF_vars(Commit)

Spec == Init /\ [][Next]_vars
FairSpec == Spec /\ Fairness

-----------------------------------------------------------------------------
TypeOK ==
  /\ outbox \in [Mails -> Row]
  /\ flush \in [running: BOOLEAN, todo: SUBSET Mails, rows: Sessions]
  /\ calls \in [Mails -> Nat]
  /\ arrived \subseteq Mails
  /\ reported \subseteq Mails
  /\ lost \in 0..MaxLost

(* The transport is called for one mail at most MAIL_MAX_ATTEMPTS times,     *)
(* plus once for each flush that was lost after calling it: the counter of   *)
(* attempts is committed with the batch (service.py:44-83), so a lost batch   *)
(* forgets it, and only by one.                                             *)
CallsBounded == \A m \in Mails : calls[m] <= MaxAttempts + lost

(* A mail is given up only after that many calls really failed to confirm    *)
(* it: no lost flush and no other mail's failure uses up its attempts        *)
(* (service.py:56).                                                          *)
GivesUpLate ==
  \A m \in Mails : outbox[m].status = "failed" => calls[m] >= MaxAttempts

(* What the three properties rest on.  The worker only holds pending mails,   *)
(* each one either still to send or already written, one attempt further     *)
(* than the committed row; a call is counted by the committed row, by the    *)
(* session, or by a flush that was lost.                                     *)
InSession(m) == IF m \in DOMAIN flush.rows THEN 1 ELSE 0

WorkerHoldsPending ==
  /\ flush.todo \subseteq Pending
  /\ DOMAIN flush.rows \subseteq Pending
  /\ flush.todo \intersect DOMAIN flush.rows = {}
  /\ ~flush.running => flush.todo = {} /\ DOMAIN flush.rows = {}

RowsTellTheTruth == \A m \in DOMAIN flush.rows :
  /\ flush.rows[m].attempts = outbox[m].attempts + 1
  /\ flush.rows[m].status # "absent"
  /\ flush.rows[m].status = "pending" => flush.rows[m].attempts < MaxAttempts
  /\ flush.rows[m].status = "failed" => flush.rows[m].attempts >= MaxAttempts
  /\ flush.rows[m].status = "sent" => m \in arrived \/ ~Configured

AttemptsLeft == \A m \in Mails :
  /\ outbox[m].status = "absent" => outbox[m].attempts = 0
  /\ outbox[m].status = "pending" => outbox[m].attempts < MaxAttempts
  /\ outbox[m].status = "failed" => outbox[m].attempts >= MaxAttempts

CallsCounted == \A m \in Mails :
  /\ outbox[m].attempts + InSession(m) <= calls[m]
  /\ calls[m] <= outbox[m].attempts + InSession(m) + lost

Accounts == /\ TypeOK
            /\ WorkerHoldsPending
            /\ RowsTellTheTruth
            /\ AttemptsLeft
            /\ CallsCounted

(* What callers rely on: the queue implements MailDelivery.                  *)
Delivery == INSTANCE MailDelivery WITH
  fate <- [m \in Mails |-> outbox[m].status]
Promise == Delivery!Spec

(* Every queued mail ends up sent or given up, however many mails in front   *)
(* of it keep failing: the oldest-first batch (repository.py:12-18) cannot   *)
(* be filled for ever by mails nobody accepts.                               *)
EveryMailSettles == \A m \in Mails :
  outbox[m].status = "pending" ~> outbox[m].status \in {"sent", "failed"}

===============================================================================
