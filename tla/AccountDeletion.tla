---------------------------- MODULE AccountDeletion ----------------------------
(***************************************************************************)
(* The deletion of one account: AuthService.delete_account emits             *)
(* UserDeletionRequested on the event bus of src/app/core/events.py, every    *)
(* listener purges its module's data in a transaction of its own, the bus     *)
(* waits for all of them and raises the first failure, and only then is the   *)
(* row of the user deleted. A request can fail at any step, be lost in a      *)
(* restart, be sent again or be sent twice at once.                           *)
(***************************************************************************)
EXTENDS Naturals, FiniteSets

CONSTANTS
  DeleteRequests,  \* requests that can be in progress at the same time
  MaxFaults        \* bound of the checks: purges and commits that fail, restarts

ASSUME DeletionConstants == MaxFaults \in Nat /\ IsFiniteSet(DeleteRequests)

VARIABLES
  account,   \* the row of users exists
  data,      \* what is stored about it
  deleting,  \* DeleteRequests -> step of the request and result of each listener
  farewells, \* confirmation mails committed with the deletion of the row
  faults

deletionVars == <<account, data, deleting, farewells, faults>>

Stored == {"matches", "profile", "cv files", "page views", "brief ledger", "market"}

(* The modules that listen, and the data each of them purges; matching does   *)
(* so on the event the cv module emits in its turn. No listener of            *)
(* src/app/modules knows the tables of the market module.                     *)
Listeners == {"cv", "monitoring", "notifications"}
PurgedBy(l) ==
  CASE l = "cv" -> {"matches", "profile", "cv files"}
    [] l = "monitoring" -> {"page views"}
    [] l = "notifications" -> {"brief ledger"}
Purged == UNION {PurgedBy(l) : l \in Listeners}

MatchesHaveProfile(d) == "matches" \in d => "profile" \in d

Stages == {"none", "running", "matches", "row", "files", "ok", "failed"}
NoDeletion == [step |-> "idle", result |-> [l \in Listeners |-> "none"]]

DeletionInit ==
  /\ account = TRUE
  /\ data \in {d \in SUBSET Stored : MatchesHaveProfile(d)}
  /\ deleting = [r \in DeleteRequests |-> NoDeletion]
  /\ farewells = 0
  /\ faults = 0

Step(r) == deleting[r].step
At(r, l, stage) == deleting[r].step = "purging" /\ deleting[r].result[l] = stage
MoveTo(r, l, stage) == deleting' = [deleting EXCEPT ![r].result[l] = stage]
Fault == faults < MaxFaults /\ faults' = faults + 1

(* The candidate uses the application, on no page while a deletion runs.      *)
Uses ==
  /\ account
  /\ \A r \in DeleteRequests : Step(r) = "idle"
  /\ \E d \in Stored : data' = data \cup {d}
  /\ MatchesHaveProfile(data')
  /\ UNCHANGED <<account, deleting, farewells, faults>>

(* The signed-in owner types the address again; an admin is refused.          *)
AskDeletion(r) ==
  /\ account
  /\ Step(r) = "idle"
  /\ deleting' = [deleting EXCEPT ![r] =
       [step |-> "purging", result |-> [l \in Listeners |-> "running"]]]
  /\ UNCHANGED <<account, data, farewells, faults>>

-----------------------------------------------------------------------------
(* The listeners                                                             *)

(* monitoring and notifications: one transaction each.                        *)
PurgeRows(r, l) ==
  /\ l # "cv"
  /\ At(r, l, "running")
  /\ data' = data \ PurgedBy(l)
  /\ MoveTo(r, l, "ok")
  /\ UNCHANGED <<account, farewells, faults>>

(* cv: the matches first, then the profile, then the uploaded files; a retry   *)
(* that finds no profile goes straight to the files.                          *)
FindProfile(r) ==
  /\ At(r, "cv", "running")
  /\ MoveTo(r, "cv", IF "profile" \in data THEN "matches" ELSE "files")
  /\ UNCHANGED <<account, data, farewells, faults>>

PurgeMatches(r) ==
  /\ At(r, "cv", "matches")
  /\ data' = data \ {"matches"}
  /\ MoveTo(r, "cv", "row")
  /\ UNCHANGED <<account, farewells, faults>>

DeleteProfile(r) ==
  /\ At(r, "cv", "row")
  /\ data' = data \ {"profile"}
  /\ MoveTo(r, "cv", "files")
  /\ UNCHANGED <<account, farewells, faults>>

DeleteFiles(r) ==
  /\ At(r, "cv", "files")
  /\ data' = data \ {"cv files"}
  /\ MoveTo(r, "cv", "ok")
  /\ UNCHANGED <<account, farewells, faults>>

PurgeFails(r, l) ==
  /\ deleting[r].step = "purging"
  /\ deleting[r].result[l] \in {"running", "matches", "row", "files"}
  /\ Fault
  /\ MoveTo(r, l, "failed")
  /\ UNCHANGED <<account, data, farewells>>

-----------------------------------------------------------------------------
(* The emitter                                                               *)

Settled(results) == \A l \in Listeners : results[l] \in {"ok", "failed"}

\* The bus only logs the failures.
Logged(results) == TRUE

(* EventBus.emit(raise_on_error=True) returns without raising.                *)
Emitted(results) == \A l \in Listeners : results[l] # "failed"

AllFinished(r) ==
  /\ Step(r) = "purging"
  /\ Settled(deleting[r].result)
  /\ deleting' = [deleting EXCEPT ![r] =
       IF Emitted(@.result) THEN [@ EXCEPT !.step = "row"] ELSE NoDeletion]
  /\ UNCHANGED <<account, data, farewells, faults>>

(* The row and the confirmation mail are one commit; the second of two         *)
(* requests deletes nothing and mails again.                                  *)
DeleteRow(r) ==
  /\ Step(r) = "row"
  /\ account' = FALSE
  /\ farewells' = farewells + 1
  /\ deleting' = [deleting EXCEPT ![r] = NoDeletion]
  /\ UNCHANGED <<data, faults>>

RowFails(r) ==
  /\ Step(r) = "row"
  /\ Fault
  /\ deleting' = [deleting EXCEPT ![r] = NoDeletion]
  /\ UNCHANGED <<account, data, farewells>>

Restart ==
  /\ Fault
  /\ deleting' = [r \in DeleteRequests |-> NoDeletion]
  /\ UNCHANGED <<account, data, farewells>>

RequestStep(r) ==
  \/ AskDeletion(r)
  \/ \E l \in Listeners : PurgeRows(r, l) \/ PurgeFails(r, l)
  \/ FindProfile(r) \/ PurgeMatches(r) \/ DeleteProfile(r) \/ DeleteFiles(r)
  \/ AllFinished(r) \/ DeleteRow(r) \/ RowFails(r)

DeletionNext == Uses \/ Restart \/ \E r \in DeleteRequests : RequestStep(r)

DeletionSpec == DeletionInit /\ [][DeletionNext]_deletionVars

-----------------------------------------------------------------------------
DeletionTypeOK ==
  /\ account \in BOOLEAN
  /\ data \in SUBSET Stored
  /\ deleting \in [DeleteRequests -> [step : {"idle", "purging", "row"},
                                      result : [Listeners -> Stages]]]
  /\ farewells \in 0..Cardinality(DeleteRequests)
  /\ faults \in 0..MaxFaults

(* What delete_account promises, step for step: whatever purge fails, whatever *)
(* is retried, sent twice or lost in a restart, the row of the user is deleted  *)
(* only when nothing a listening module answers for is left.                   *)
Promise == INSTANCE AccountPromise WITH
  Answered <- Purged, present <- account, kept <- data \cap Purged
RowGoesLast == Promise!PromiseSpec

(* "Permanently deletes the account and everything it owns. Every module        *)
(* purges its own data."                                                       *)
NothingOutlivesTheAccount == ~account => data = {}

=============================================================================
