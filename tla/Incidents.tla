------------------------------- MODULE Incidents -------------------------------
(***************************************************************************)
(* The incident groups of src/app/modules/monitoring/incidents.py: one row   *)
(* per fingerprint, read and then written back by requests, by the event     *)
(* listener, by the admin and by the account purge, each in a transaction of *)
(* its own and none of them locking the row. The ORM writes back only the    *)
(* columns whose value differs from the one it read.                         *)
(***************************************************************************)
EXTENDS Naturals, FiniteSets

CONSTANTS
  Fingerprints,     \* groups
  Reporters,        \* accounts an occurrence can be reported under
  IncidentSessions, \* database sessions at work at the same time
  UsersKept,        \* _MAX_USERS
  StampsKept,       \* _MAX_OCCURRENCES
  MaxReports        \* bound of the checks: occurrences of one group

ASSUME IncidentConstants ==
  /\ UsersKept \in Nat \ {0}
  /\ StampsKept \in Nat \ {0}
  /\ MaxReports \in Nat

VARIABLES
  groups,    \* Fingerprints -> row, or NoGroup
  sessions,  \* IncidentSessions -> what each has read and means to write
  reported   \* Fingerprints -> how many occurrences were reported (history)

incidentVars == <<groups, sessions, reported>>

NoGroup == [status |-> "none", closed |-> FALSE, count |-> 0, users |-> {}, stamps |-> 0]
Anonymous == "anonymous"
IdleSession == [op |-> "idle", seen |-> NoGroup]
Statuses == {"new", "in_progress", "resolved"}
Exists(row) == row.status # "none"

IncidentInit ==
  /\ groups = [f \in Fingerprints |-> NoGroup]
  /\ sessions = [s \in IncidentSessions |-> IdleSession]
  /\ reported = [f \in Fingerprints |-> 0]

AtMost(n, cap) == IF n < cap THEN n ELSE cap

\* A visitor without an account is listed like another.
ListAnyone(users, u) == IF Cardinality(users) < UsersKept THEN users \cup {u} ELSE users

ListUser(users, u) ==
  IF u # Anonymous /\ Cardinality(users) < UsersKept THEN users \cup {u} ELSE users

-----------------------------------------------------------------------------
(* An occurrence: IncidentService.record                                     *)

(* The row as the session leaves it, from the row it read.                   *)
FirstOccurrence(u) ==
  [status |-> "new", closed |-> FALSE, count |-> 1, users |-> {u} \ {Anonymous}, stamps |-> 1]

\* The list of stamps is not cut.
UncutOccurrence(seen, u) ==
  [seen EXCEPT !.count = @ + 1, !.stamps = @ + 1, !.users = ListUser(@, u),
               !.status = IF @ = "resolved" THEN "new" ELSE @, !.closed = FALSE]

NextOccurrence(seen, u) ==
  [seen EXCEPT !.count = @ + 1,
               !.stamps = AtMost(@ + 1, StampsKept),
               !.users = ListUser(@, u),
               !.status = IF @ = "resolved" THEN "new" ELSE @,
               !.closed = IF seen.status = "resolved" THEN FALSE ELSE @]

(* What a flush makes of the row in the table: the columns of `new` that      *)
(* differ from the ones read and those stamped with the time, the others as   *)
(* they are by now.                                                          *)
Flushed(row, seen, new, timed) ==
  [c \in DOMAIN row |-> IF c \in timed \/ new[c] # seen[c] THEN new[c] ELSE row[c]]

Busy(s, op) == sessions[s].op = op
SessionEnds(s) == sessions' = [sessions EXCEPT ![s] = IdleSession]

ReportRead(s, f, u) ==
  /\ Busy(s, "idle")
  /\ reported[f] < MaxReports
  /\ reported' = [reported EXCEPT ![f] = @ + 1]
  /\ sessions' = [sessions EXCEPT ![s] = [op |-> "report", seen |-> groups[f], group |-> f, user |-> u]]
  /\ UNCHANGED groups

(* The first occurrence of a group may find that another session inserted it: *)
(* the unique fingerprint refuses the second row, whose occurrence is lost.   *)
ReportWrite(s) ==
  /\ Busy(s, "report")
  /\ LET seen == sessions[s].seen
         f == sessions[s].group
         u == sessions[s].user
     IN  groups' =
           [groups EXCEPT ![f] =
              IF Exists(seen) THEN Flushed(@, seen, NextOccurrence(seen, u), {"stamps"})
              ELSE IF Exists(@) THEN @ ELSE FirstOccurrence(u)]
  /\ SessionEnds(s)
  /\ UNCHANGED reported

-----------------------------------------------------------------------------
(* The admin: IncidentService.set_status                                     *)

StatusRead(s, f) ==
  /\ Busy(s, "idle")
  /\ Exists(groups[f])
  /\ sessions' = [sessions EXCEPT ![s] = [op |-> "status", seen |-> groups[f], group |-> f]]
  /\ UNCHANGED <<groups, reported>>

StatusWrite(s, status) ==
  /\ Busy(s, "status")
  /\ LET seen == sessions[s].seen
     IN  groups' = [groups EXCEPT ![sessions[s].group] =
           Flushed(@, seen, [seen EXCEPT !.status = status, !.closed = (status = "resolved")],
                   IF status = "resolved" THEN {"closed"} ELSE {})]
  /\ SessionEnds(s)
  /\ UNCHANGED reported

-----------------------------------------------------------------------------
(* The purge of an account: purge_monitoring_data, over every group           *)

ForgetRead(s, u) ==
  /\ Busy(s, "idle")
  /\ \E f \in Fingerprints : u \in groups[f].users
  /\ sessions' = [sessions EXCEPT ![s] = [op |-> "forget", seen |-> groups, user |-> u]]
  /\ UNCHANGED <<groups, reported>>

ForgetWrite(s) ==
  /\ Busy(s, "forget")
  /\ LET seen == sessions[s].seen
         u == sessions[s].user
     IN  groups' = [f \in Fingerprints |->
           Flushed(groups[f], seen[f], [seen[f] EXCEPT !.users = @ \ {u}], {})]
  /\ SessionEnds(s)
  /\ UNCHANGED reported

IncidentNext ==
  \E s \in IncidentSessions :
    \/ \E f \in Fingerprints, u \in Reporters \cup {Anonymous} : ReportRead(s, f, u)
    \/ ReportWrite(s)
    \/ \E f \in Fingerprints : StatusRead(s, f)
    \/ \E status \in Statuses : StatusWrite(s, status)
    \/ \E u \in Reporters : ForgetRead(s, u)
    \/ ForgetWrite(s)

IncidentSpec == IncidentInit /\ [][IncidentNext]_incidentVars

-----------------------------------------------------------------------------
IncidentTypeOK ==
  /\ \A f \in Fingerprints :
       /\ groups[f].status \in Statuses \cup {"none"}
       /\ groups[f].closed \in BOOLEAN
       /\ groups[f].count \in 0..MaxReports
       /\ groups[f].users \subseteq Reporters
  /\ \A s \in IncidentSessions : sessions[s].op \in {"idle", "report", "status", "forget"}
  /\ reported \in [Fingerprints -> 0..MaxReports]

(* However the sessions overlap -- an occurrence can be lost, the count of a   *)
(* group can even go back --, what a row shows stays credible: the stamps it   *)
(* keeps are those of its count up to the cap, it never counts an occurrence   *)
(* nobody reported, and the list of users never outgrows its cap.              *)
GroupsAreCredible ==
  \A f \in Fingerprints :
    /\ groups[f].stamps = AtMost(groups[f].count, StampsKept)
    /\ groups[f].count <= reported[f]
    /\ Cardinality(groups[f].users) <= UsersKept

=============================================================================
