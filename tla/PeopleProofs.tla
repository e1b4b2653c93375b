----------------------------- MODULE PeopleProofs -----------------------------
(***************************************************************************)
(* The components that act on what people store or send: incidents, the      *)
(* announcements, the dashboard, the rewriting of a CV, the rate limiter and *)
(* the graph of modules; then, with those of AccountProofs, the ten of them  *)
(* side by side, which have the properties of each.                          *)
(***************************************************************************)
EXTENDS People, AccountProofs, SequenceTheorems

-------------------------------------------------------------------------------
(* Incidents: the users a group of reports names                             *)

(* What a row is, in the table or as a session read it: the stamps are those  *)
(* of its count, and the users are not too many.                             *)
Columns == {"status", "closed", "count", "users", "stamps"}
CredibleRow(row) ==
  /\ DOMAIN row = Columns
  /\ row.status \in Statuses \cup {"none"} /\ row.closed \in BOOLEAN
  /\ row.count \in Nat /\ row.stamps = AtMost(row.count, StampsKept)
  /\ row.users \subseteq Reporters /\ IsFiniteSet(row.users)
  /\ Cardinality(row.users) <= UsersKept

(* A session that reports read fewer occurrences than were reported: its own   *)
(* was counted after it read.                                                *)
SessionMeans(s) ==
  LET x == sessions[s]
  IN  /\ DOMAIN x = CASE x.op = "idle" -> {"op", "seen"}
                      [] x.op = "report" -> {"op", "seen", "group", "user"}
                      [] x.op = "status" -> {"op", "seen", "group"}
                      [] x.op = "forget" -> {"op", "seen", "user"}
      /\ x.op = "report" =>
           /\ x.group \in Fingerprints /\ x.user \in Reporters \cup {Anonymous}
           /\ CredibleRow(x.seen) /\ x.seen.count < reported[x.group]
      /\ x.op = "status" => x.group \in Fingerprints /\ CredibleRow(x.seen)
      /\ x.op = "forget" => \A f \in Fingerprints : CredibleRow(x.seen[f])

IncInv ==
  /\ DOMAIN groups = Fingerprints
  /\ sessions = [s \in IncidentSessions |-> sessions[s]]
  /\ reported \in [Fingerprints -> 0..MaxReports]
  /\ \A f \in Fingerprints : CredibleRow(groups[f]) /\ groups[f].count <= reported[f]
  /\ \A s \in IncidentSessions :
       sessions[s].op \in {"idle", "report", "status", "forget"} /\ SessionMeans(s)

LEMMA AtMostType == \A n \in Nat, cap \in Nat : AtMost(n, cap) \in Nat
  BY DEF AtMost

LEMMA StampsFollow ==
  \A n \in Nat : AtMost(AtMost(n, StampsKept) + 1, StampsKept) = AtMost(n + 1, StampsKept)
  BY IncidentConstants DEF AtMost

\* A row is written column by column, and only the columns that changed.
LEMMA ColumnsFlushed ==
  ASSUME NEW row, NEW seen, NEW new, NEW timed, DOMAIN row = Columns
  PROVE  /\ DOMAIN Flushed(row, seen, new, timed) = Columns
         /\ \A c \in Columns : Flushed(row, seen, new, timed)[c] =
              IF c \in timed \/ new[c] # seen[c] THEN new[c] ELSE row[c]
  BY DEF Flushed

\* Listing one more user respects the cap.
LEMMA UserListed ==
  ASSUME NEW named, named \subseteq Reporters, IsFiniteSet(named),
         Cardinality(named) <= UsersKept, NEW u \in Reporters \cup {Anonymous}
  PROVE  /\ ListUser(named, u) \subseteq Reporters /\ IsFiniteSet(ListUser(named, u))
         /\ Cardinality(ListUser(named, u)) <= UsersKept
  <1>1. CASE u # Anonymous /\ Cardinality(named) < UsersKept
    <2>1. ListUser(named, u) = named \cup {u}
      BY <1>1 DEF ListUser
    <2>2. IsFiniteSet(named \cup {u}) /\ Cardinality(named) \in Nat
          /\ Cardinality(named \cup {u}) = IF u \in named THEN Cardinality(named)
                                           ELSE Cardinality(named) + 1
      BY FS_AddElement, FS_CardinalityType
    <2> QED BY <1>1, <2>1, <2>2, IncidentConstants
  <1>2. CASE ~(u # Anonymous /\ Cardinality(named) < UsersKept)
    BY <1>2 DEF ListUser
  <1> QED BY <1>1, <1>2

\* What a report makes of the row it finds.
LEMMA ReportedRow ==
  ASSUME NEW row, CredibleRow(row), NEW seen, CredibleRow(seen),
         NEW u \in Reporters \cup {Anonymous}
  PROVE  /\ CredibleRow(Flushed(row, seen, NextOccurrence(seen, u), {"stamps"}))
         /\ Flushed(row, seen, NextOccurrence(seen, u), {"stamps"}).count = seen.count + 1
  <1> DEFINE new == NextOccurrence(seen, u)
             out == Flushed(row, seen, new, {"stamps"})
  <1>1. /\ new.count = seen.count + 1 /\ new.stamps = AtMost(seen.stamps + 1, StampsKept)
        /\ new.users = ListUser(seen.users, u)
        /\ new.status \in {seen.status, "new"}
        /\ new.closed \in {seen.closed, FALSE}
    BY DEF NextOccurrence, CredibleRow, Columns
  <1>2. /\ ListUser(seen.users, u) \subseteq Reporters /\ IsFiniteSet(ListUser(seen.users, u))
        /\ Cardinality(ListUser(seen.users, u)) <= UsersKept
    BY UserListed DEF CredibleRow
  <1> HIDE DEF new
  <1>3. /\ DOMAIN out = Columns
        /\ out.count = new.count /\ out.stamps = new.stamps
        /\ out.users \in {new.users, row.users} /\ out.status \in {new.status, row.status}
        /\ out.closed \in {new.closed, row.closed}
    BY <1>1, ColumnsFlushed DEF CredibleRow, Columns
  <1> HIDE DEF out
  <1>4. out.stamps = AtMost(out.count, StampsKept)
    BY <1>1, <1>3, StampsFollow DEF CredibleRow
  <1>5. CredibleRow(out)
    <2>1. out.count \in Nat /\ DOMAIN out = Columns /\ out.stamps = AtMost(out.count, StampsKept)
      BY <1>1, <1>3, <1>4 DEF CredibleRow
    <2>2. out.status \in Statuses \cup {"none"} /\ out.closed \in BOOLEAN
      BY <1>1, <1>3 DEF CredibleRow, Statuses
    <2>3. out.users \subseteq Reporters /\ IsFiniteSet(out.users) /\ Cardinality(out.users) <= UsersKept
      BY <1>1, <1>2, <1>3 DEF CredibleRow
    <2> QED BY <2>1, <2>2, <2>3 DEF CredibleRow
  <1> QED BY <1>1, <1>3, <1>5 DEF out, new

\* Neither the admin nor the purge of an account touches the count.
LEMMA OtherRow ==
  ASSUME NEW row, CredibleRow(row), NEW seen, CredibleRow(seen), NEW new, NEW timed,
         timed \in {{}, {"closed"}}, new.count = seen.count, new.stamps = seen.stamps,
         new.users \subseteq seen.users, new.status \in Statuses \cup {"none"},
         new.closed \in BOOLEAN
  PROVE  /\ CredibleRow(Flushed(row, seen, new, timed))
         /\ Flushed(row, seen, new, timed).count = row.count
  <1> DEFINE out == Flushed(row, seen, new, timed)
  <1>1. IsFiniteSet(new.users) /\ Cardinality(new.users) <= UsersKept
    <2>1. IsFiniteSet(new.users) /\ Cardinality(new.users) <= Cardinality(seen.users)
      BY FS_Subset DEF CredibleRow
    <2>2. Cardinality(new.users) \in Nat /\ Cardinality(seen.users) \in Nat
      BY <2>1, FS_CardinalityType DEF CredibleRow
    <2> QED BY <2>1, <2>2, IncidentConstants DEF CredibleRow
  <1>2. /\ DOMAIN out = Columns /\ out.count = row.count /\ out.stamps = row.stamps
        /\ out.users \in {new.users, row.users} /\ out.status \in {new.status, row.status}
        /\ out.closed \in {new.closed, row.closed}
    BY ColumnsFlushed DEF CredibleRow, Columns
  <1> HIDE DEF out
  <1>3. CredibleRow(out)
    BY <1>1, <1>2 DEF CredibleRow
  <1> QED BY <1>2, <1>3 DEF out

LEMMA NoGroupCredible == CredibleRow(NoGroup)
  BY FS_EmptySet, IncidentConstants DEF CredibleRow, NoGroup, Columns, AtMost

LEMMA FirstCredible ==
  ASSUME NEW u \in Reporters \cup {Anonymous}
  PROVE  CredibleRow(FirstOccurrence(u)) /\ FirstOccurrence(u).count = 1
  <1>1. IsFiniteSet({u} \ {Anonymous}) /\ Cardinality({u} \ {Anonymous}) <= 1
    <2>1. IsFiniteSet({u}) /\ Cardinality({u}) = 1
      BY FS_Singleton
    <2> QED BY <2>1, FS_Subset
  <1>2. Cardinality({u} \ {Anonymous}) \in Nat
    BY <1>1, FS_CardinalityType
  <1>3. 1 = AtMost(1, StampsKept)
    BY IncidentConstants DEF AtMost
  <1> DEFINE out == FirstOccurrence(u)
  <1>4. /\ DOMAIN out = Columns /\ out.status = "new" /\ out.closed = FALSE /\ out.count = 1
        /\ out.users = {u} \ {Anonymous} /\ out.stamps = 1
    BY DEF FirstOccurrence, Columns
  <1> HIDE DEF out
  <1>5. CredibleRow(out)
    <2>1. out.users \subseteq Reporters /\ IsFiniteSet(out.users) /\ Cardinality(out.users) <= UsersKept
      BY <1>1, <1>2, <1>4, IncidentConstants
    <2>2. out.count \in Nat /\ out.stamps = AtMost(out.count, StampsKept)
      BY <1>3, <1>4
    <2>3. out.status \in Statuses \cup {"none"} /\ out.closed \in BOOLEAN
      BY <1>4 DEF Statuses
    <2> QED BY <1>4, <2>1, <2>2, <2>3 DEF CredibleRow
  <1> QED BY <1>4, <1>5 DEF out

-----------------------------------------------------------------------------
LEMMA IncInit == IncidentInit => IncInv
  BY NoGroupCredible, IncidentConstants
     DEF IncidentInit, IncInv, SessionMeans, IdleSession, NoGroup

\* A session that ends leaves nothing to say.
LEMMA IdleMeans ==
  ASSUME NEW s \in IncidentSessions, sessions[s] = IdleSession
  PROVE  sessions[s].op = "idle" /\ SessionMeans(s)
  BY DEF IdleSession, SessionMeans

\* The sessions that do not move keep their meaning: reports only add up.
LEMMA OthersMean ==
  ASSUME IncInv, NEW s \in IncidentSessions, NEW x, sessions' = [sessions EXCEPT ![s] = x],
         reported' \in [Fingerprints -> 0..MaxReports],
         \A f \in Fingerprints : reported[f] <= reported'[f],
         NEW t \in IncidentSessions, t # s
  PROVE  sessions'[t].op \in {"idle", "report", "status", "forget"} /\ SessionMeans(t)'
  <1>1. sessions'[t] = sessions[t]
    BY DEF IncInv
  <1>2. sessions[t].op = "report" =>
          /\ sessions[t].group \in Fingerprints
          /\ sessions[t].seen.count \in Nat /\ sessions[t].seen.count < reported[sessions[t].group]
    BY DEF IncInv, SessionMeans, CredibleRow
  <1>3. \A f \in Fingerprints : reported[f] \in Nat /\ reported'[f] \in Nat
    BY IncidentConstants DEF IncInv
  <1>4. sessions[t].op = "report" => sessions[t].seen.count < reported'[sessions[t].group]
    BY <1>2, <1>3
  <1> QED BY <1>1, <1>4 DEF IncInv, SessionMeans

\* A step that leaves the rows as they are, or credible and counting no more
\* than what was reported, and one session with a meaning.
LEMMA IncKept ==
  ASSUME IncInv, NEW s \in IncidentSessions, NEW x, sessions' = [sessions EXCEPT ![s] = x],
         reported' \in [Fingerprints -> 0..MaxReports],
         \A f \in Fingerprints : reported[f] <= reported'[f],
         x.op \in {"idle", "report", "status", "forget"}, SessionMeans(s)',
         DOMAIN groups' = Fingerprints,
         \A f \in Fingerprints : CredibleRow(groups'[f]) /\ groups'[f].count <= reported'[f]
  PROVE  IncInv'
  <1>1. sessions' = [t \in IncidentSessions |-> sessions'[t]] /\ sessions'[s] = x
    BY DEF IncInv
  <1>2. \A t \in IncidentSessions :
          sessions'[t].op \in {"idle", "report", "status", "forget"} /\ SessionMeans(t)'
    BY <1>1, OthersMean
  <1> QED BY <1>1, <1>2 DEF IncInv

LEMMA IncEnds ==
  ASSUME IncInv, NEW s \in IncidentSessions, SessionEnds(s), reported' = reported,
         DOMAIN groups' = Fingerprints,
         \A f \in Fingerprints : CredibleRow(groups'[f]) /\ groups'[f].count <= reported[f]
  PROVE  IncInv'
  <1>1. sessions'[s] = IdleSession
    BY DEF SessionEnds, IncInv
  <1>2. SessionMeans(s)'
    BY <1>1 DEF SessionMeans, IdleSession
  <1>3. IdleSession.op = "idle"
    BY DEF IdleSession
  <1>4. \A f \in Fingerprints : reported[f] \in Nat
    BY IncidentConstants DEF IncInv
  <1>5. /\ reported' \in [Fingerprints -> 0..MaxReports]
        /\ \A f \in Fingerprints : reported[f] <= reported'[f]
    BY <1>4 DEF IncInv
  <1> QED BY <1>2, <1>3, <1>5, IncKept DEF SessionEnds

LEMMA IncReads ==
  ASSUME IncInv, NEW s \in IncidentSessions, NEW x, sessions' = [sessions EXCEPT ![s] = x],
         UNCHANGED <<groups, reported>>,
         x.op \in {"status", "forget"}, SessionMeans(s)'
  PROVE  IncInv'
  <1>1. \A f \in Fingerprints : reported[f] \in Nat
    BY IncidentConstants DEF IncInv
  <1>2. /\ reported' \in [Fingerprints -> 0..MaxReports]
        /\ \A f \in Fingerprints : reported[f] <= reported'[f]
    BY <1>1 DEF IncInv
  <1>3. /\ DOMAIN groups' = Fingerprints
        /\ \A f \in Fingerprints : CredibleRow(groups'[f]) /\ groups'[f].count <= reported'[f]
    BY DEF IncInv
  <1> QED BY <1>2, <1>3, IncKept

LEMMA IncReport ==
  ASSUME IncInv, NEW s \in IncidentSessions, ReportWrite(s)
  PROVE  IncInv'
  <1> DEFINE seen == sessions[s].seen
             u == sessions[s].user
             old == groups[sessions[s].group]
             row == IF Exists(seen) THEN Flushed(old, seen, NextOccurrence(seen, u), {"stamps"})
                    ELSE IF Exists(old) THEN old ELSE FirstOccurrence(u)
  <1>1. PICK f \in Fingerprints : f = sessions[s].group
    BY DEF ReportWrite, Busy, IncInv, SessionMeans
  <1>2. /\ u \in Reporters \cup {Anonymous} /\ CredibleRow(seen) /\ seen.count < reported[f]
        /\ seen.count \in Nat /\ reported[f] \in Nat
        /\ CredibleRow(old) /\ old.count <= reported[f] /\ old.count \in Nat
    BY <1>1, IncidentConstants DEF ReportWrite, Busy, IncInv, SessionMeans, CredibleRow
  <1>3. groups' = [groups EXCEPT ![f] = row]
    BY <1>1 DEF ReportWrite
  <1>4. CredibleRow(row) /\ row.count <= reported[f]
    <2> HIDE DEF seen, u, old
    <2>1. CASE Exists(seen)
      <3>1. row = Flushed(old, seen, NextOccurrence(seen, u), {"stamps"})
        BY <2>1
      <3>2. /\ CredibleRow(Flushed(old, seen, NextOccurrence(seen, u), {"stamps"}))
            /\ Flushed(old, seen, NextOccurrence(seen, u), {"stamps"}).count = seen.count + 1
        BY <1>2, ReportedRow
      <3> HIDE DEF row
      <3>3. CredibleRow(row) /\ row.count = seen.count + 1
        BY <3>1, <3>2
      <3> QED BY <1>2, <3>3
    <2>2. CASE ~Exists(seen) /\ Exists(old)
      BY <1>2, <2>2
    <2>3. CASE ~Exists(seen) /\ ~Exists(old)
      BY <1>2, <2>3, FirstCredible
    <2> QED BY <2>1, <2>2, <2>3
  <1> HIDE DEF row
  <1>5. /\ DOMAIN groups' = Fingerprints
        /\ \A g \in Fingerprints : CredibleRow(groups'[g]) /\ groups'[g].count <= reported[g]
    BY <1>3, <1>4 DEF IncInv
  <1> QED BY <1>5, IncEnds DEF ReportWrite

LEMMA IncStatus ==
  ASSUME IncInv, NEW s \in IncidentSessions, NEW status \in Statuses, StatusWrite(s, status)
  PROVE  IncInv'
  <1> DEFINE seen == sessions[s].seen
             new == [seen EXCEPT !.status = status, !.closed = (status = "resolved")]
             timed == IF status = "resolved" THEN {"closed"} ELSE {}
  <1>1. PICK f \in Fingerprints : f = sessions[s].group
    BY DEF StatusWrite, Busy, IncInv, SessionMeans
  <1>2. PICK row : row = Flushed(groups[f], seen, new, timed)
    OBVIOUS
  <1>3. groups' = [groups EXCEPT ![f] = row]
    BY <1>1, <1>2 DEF StatusWrite
  <1>4. CredibleRow(seen) /\ CredibleRow(groups[f])
    BY DEF StatusWrite, Busy, IncInv, SessionMeans
  <1>5. /\ new.count = seen.count /\ new.stamps = seen.stamps /\ new.users = seen.users
        /\ new.status = status /\ new.closed \in BOOLEAN /\ timed \in {{}, {"closed"}}
    BY <1>4 DEF CredibleRow, Columns
  <1> HIDE DEF new, timed, seen
  <1>6. CredibleRow(row) /\ row.count = groups[f].count
    <2>1. /\ new.count = seen.count /\ new.stamps = seen.stamps /\ new.users \subseteq seen.users
          /\ new.status \in Statuses \cup {"none"} /\ new.closed \in BOOLEAN
          /\ timed \in {{}, {"closed"}}
      BY <1>5
    <2>2. /\ CredibleRow(Flushed(groups[f], seen, new, timed))
          /\ Flushed(groups[f], seen, new, timed).count = groups[f].count
      BY <1>4, <2>1, OtherRow
    <2> QED BY <1>2, <2>2
  <1>7. /\ DOMAIN groups' = Fingerprints
        /\ \A g \in Fingerprints : CredibleRow(groups'[g]) /\ groups'[g].count <= reported[g]
    BY <1>3, <1>6 DEF IncInv
  <1> QED BY <1>7, IncEnds DEF StatusWrite

LEMMA IncForget ==
  ASSUME IncInv, NEW s \in IncidentSessions, ForgetWrite(s)
  PROVE  IncInv'
  <1> DEFINE seen == sessions[s].seen
             u == sessions[s].user
  <1>1. ASSUME NEW f \in Fingerprints
        PROVE  CredibleRow(groups'[f]) /\ groups'[f].count <= reported[f]
    <2> DEFINE new == [seen[f] EXCEPT !.users = @ \ {u}]
    <2>1. CredibleRow(seen[f]) /\ CredibleRow(groups[f])
      BY DEF ForgetWrite, Busy, IncInv, SessionMeans
    <2>2. groups'[f] = Flushed(groups[f], seen[f], new, {})
      BY DEF ForgetWrite
    <2>3. /\ new.count = seen[f].count /\ new.stamps = seen[f].stamps
          /\ new.users \subseteq seen[f].users
          /\ new.status \in Statuses \cup {"none"} /\ new.closed \in BOOLEAN
      BY <2>1 DEF CredibleRow, Columns
    <2> HIDE DEF new, seen
    <2>4. CredibleRow(groups'[f]) /\ groups'[f].count = groups[f].count
      BY <2>1, <2>2, <2>3, OtherRow
    <2> QED BY <2>4 DEF IncInv
  <1>2. DOMAIN groups' = Fingerprints
    BY DEF ForgetWrite
  <1> QED BY <1>1, <1>2, IncEnds DEF ForgetWrite

LEMMA IncReportRead ==
  ASSUME IncInv, NEW s \in IncidentSessions, NEW f \in Fingerprints,
         NEW u \in Reporters \cup {Anonymous}, ReportRead(s, f, u)
  PROVE  IncInv'
  <1> DEFINE x == [op |-> "report", seen |-> groups[f], group |-> f, user |-> u]
  <1>1. /\ sessions' = [sessions EXCEPT ![s] = x] /\ sessions'[s] = x
        /\ groups' = groups
    BY DEF ReportRead, IncInv
  <1>2. /\ reported' \in [Fingerprints -> 0..MaxReports]
        /\ reported'[f] = reported[f] + 1
        /\ \A g \in Fingerprints : reported[g] \in Nat /\ reported[g] <= reported'[g]
    BY IncidentConstants DEF ReportRead, IncInv
  <1>3. CredibleRow(groups[f]) /\ groups[f].count <= reported[f] /\ groups[f].count \in Nat
    BY DEF IncInv, CredibleRow
  <1>4. groups[f].count < reported'[f]
    BY <1>2, <1>3
  <1>5. SessionMeans(s)'
    BY <1>1, <1>3, <1>4 DEF SessionMeans
  <1>6. /\ DOMAIN groups' = Fingerprints
        /\ \A g \in Fingerprints : CredibleRow(groups'[g]) /\ groups'[g].count <= reported'[g]
    <2>1. \A g \in Fingerprints : groups[g].count \in Nat /\ reported'[g] \in Nat
      BY <1>2, IncidentConstants DEF IncInv, CredibleRow
    <2> QED BY <1>1, <1>2, <2>1 DEF IncInv
  <1>7. x.op = "report"
    OBVIOUS
  <1> HIDE DEF x
  <1> QED BY <1>1, <1>2, <1>5, <1>6, <1>7, IncKept

LEMMA IncNext == IncInv /\ [IncidentNext]_incidentVars => IncInv'
  <1> SUFFICES ASSUME IncInv, [IncidentNext]_incidentVars PROVE IncInv'
    OBVIOUS
  <1>1. ASSUME NEW s \in IncidentSessions, NEW f \in Fingerprints,
               NEW u \in Reporters \cup {Anonymous}, ReportRead(s, f, u)
        PROVE  IncInv'
    BY <1>1, IncReportRead
  <1>2. ASSUME NEW s \in IncidentSessions, ReportWrite(s) PROVE IncInv'
    BY <1>2, IncReport
  <1>3. ASSUME NEW s \in IncidentSessions, NEW f \in Fingerprints, StatusRead(s, f)
        PROVE  IncInv'
    <2> DEFINE x == [op |-> "status", seen |-> groups[f], group |-> f]
    <2>1. sessions' = [sessions EXCEPT ![s] = x] /\ sessions'[s] = x
      BY <1>3 DEF StatusRead, IncInv
    <2>2. SessionMeans(s)'
      BY <2>1 DEF SessionMeans, IncInv
    <2>3. x.op = "status"
      OBVIOUS
    <2> HIDE DEF x
    <2> QED BY <1>3, <2>1, <2>2, <2>3, IncReads DEF StatusRead
  <1>4. ASSUME NEW s \in IncidentSessions, NEW status \in Statuses, StatusWrite(s, status)
        PROVE  IncInv'
    BY <1>4, IncStatus
  <1>5. ASSUME NEW s \in IncidentSessions, NEW u \in Reporters, ForgetRead(s, u)
        PROVE  IncInv'
    <2> DEFINE x == [op |-> "forget", seen |-> groups, user |-> u]
    <2>1. sessions' = [sessions EXCEPT ![s] = x] /\ sessions'[s] = x
      BY <1>5 DEF ForgetRead, IncInv
    <2>2. SessionMeans(s)'
      BY <2>1 DEF SessionMeans, IncInv
    <2>3. x.op = "forget"
      OBVIOUS
    <2> HIDE DEF x
    <2> QED BY <1>5, <2>1, <2>2, <2>3, IncReads DEF ForgetRead
  <1>6. ASSUME NEW s \in IncidentSessions, ForgetWrite(s) PROVE IncInv'
    BY <1>6, IncForget
  <1>7. CASE UNCHANGED incidentVars
    BY <1>7 DEF incidentVars, IncInv, SessionMeans
  <1> QED BY <1>1, <1>2, <1>3, <1>4, <1>5, <1>6, <1>7 DEF IncidentNext

LEMMA IncAlways == IncidentSpec => []IncInv
  <1> QED BY IncInit, IncNext, PTL DEF IncidentSpec

(* However the sessions of the listener, the admin and the purge overlap, the  *)
(* rows of the incident groups stay credible.                                *)
THEOREM CredibleGroups == IncidentSpec => []GroupsAreCredible
  <1>1. IncInv => GroupsAreCredible
    BY DEF IncInv, CredibleRow, GroupsAreCredible
  <1> QED BY <1>1, IncAlways, PTL

\* The types of the component, for the composition.
LEMMA IncTyped == IncInv => IncidentTypeOK
  <1> SUFFICES ASSUME IncInv PROVE IncidentTypeOK
    OBVIOUS
  <1>1. \A f \in Fingerprints : groups[f].count \in 0..MaxReports
    <2>1. \A f \in Fingerprints : reported[f] \in 0..MaxReports /\ groups[f].count \in Nat
      BY DEF IncInv, CredibleRow
    <2> QED BY <2>1, IncidentConstants DEF IncInv
  <1> QED BY <1>1 DEF IncInv, CredibleRow, IncidentTypeOK

-------------------------------------------------------------------------------
(* Announcements: what was tested is what is sent                            *)

(* What an admin's request knows: a test of its content was made, an audience  *)
(* is on the screen, and whoever had left the list when it began is on the     *)
(* opt-outs it read, unless the account went meanwhile -- and then it is no    *)
(* member any more.                                                          *)
SendingMeans(a) ==
  LET x == sending[a]
  IN  /\ x.step # "idle" =>
           <<a, x.content>> \in everTested /\ shown[a].audience \in AllAudiences
      /\ x.step = "opt-outs" => x.asked \cap members \subseteq left
      /\ x.step = "audience" => x.asked \cap members \subseteq x.out
      /\ x.step = "commit" => x.to \cap x.asked = {}

AnnInv ==
  /\ AnnouncementTypeOK
  /\ DOMAIN sending = Admins /\ DOMAIN shown = Admins
  /\ \A a \in Admins : shown[a] = NothingShown \/ shown[a].audience \in AllAudiences
  /\ \A a \in Admins : SendingMeans(a)

LEMMA AnnInit == AnnouncementInit => AnnInv
  BY DEF AnnouncementInit, AnnInv, SendingMeans, NotSending, NothingShown, AnnouncementTypeOK

LEMMA AudienceIsMembers ==
  \A key \in AllAudiences : AudienceMembers(key) \subseteq members
  BY DEF AudienceMembers, AllAudiences

\* What happens to the accounts: an opt-out is only lost with its account.
AccountsMove ==
  /\ members' \subseteq members /\ active' = active /\ applied' \subseteq withCv'
  /\ withCv' \cup verified' \cup left' \subseteq members' /\ left \cap members' \subseteq left'

\* An admin's request moves on; the others keep what they know.
LEMMA AnnMoves ==
  ASSUME AnnInv, NEW a \in Admins, NEW x, sending' = [sending EXCEPT ![a] = x],
         UNCHANGED <<audienceVars, everTested, tests>>, SendingMeans(a)',
         x.step \in {"idle", "opt-outs", "audience", "commit"},
         shown' = shown \/ shown' = [shown EXCEPT ![a] = NothingShown]
  PROVE  AnnInv'
  <1>1. \A b \in Admins : b # a => sending'[b] = sending[b] /\ shown'[b] = shown[b]
    BY DEF AnnInv
  <1>2. \A b \in Admins : SendingMeans(b)'
    BY <1>1 DEF AnnInv, SendingMeans, audienceVars
  <1>3. DOMAIN sending' = Admins /\ DOMAIN shown' = Admins /\ sending'[a] = x
    BY DEF AnnInv
  <1>4. \A b \in Admins : shown'[b] \in {shown[b], NothingShown}
    BY DEF AnnInv
  <1>5. AnnouncementTypeOK'
    <2>1. \A b \in Admins : sending'[b].step \in {"idle", "opt-outs", "audience", "commit"}
      BY <1>1, <1>3 DEF AnnInv, AnnouncementTypeOK
    <2>2. \A b \in Admins : shown'[b].audience \in Audiences \cup {"none"} /\ shown'[b].to \subseteq Members
      BY <1>4 DEF AnnInv, AnnouncementTypeOK, NothingShown
    <2> QED BY <2>1, <2>2 DEF AnnInv, AnnouncementTypeOK, audienceVars
  <1> QED BY <1>2, <1>3, <1>4, <1>5 DEF AnnInv

\* Nobody's request moves.
LEMMA AnnStays ==
  ASSUME AnnInv, UNCHANGED <<sending, shown>>, AccountsMove,
         everTested \subseteq everTested', tests' \subseteq everTested'
  PROVE  AnnInv'
  <1>1. AnnouncementTypeOK'
    BY DEF AnnInv, AnnouncementTypeOK, AccountsMove
  <1>2. \A a \in Admins : SendingMeans(a)'
    BY DEF AnnInv, SendingMeans, AccountsMove
  <1> QED BY <1>1, <1>2 DEF AnnInv

LEMMA AnnAudience ==
  ASSUME AnnInv, NEW a \in Admins, ReadAudience(a)
  PROVE  AnnInv'
  <1> DEFINE to == Recipients(AudienceMembers(shown[a].audience), sending[a].out)
             go == [step |-> "commit", content |-> sending[a].content, asked |-> sending[a].asked,
                    to |-> to]
  <1>1. PICK x \in {NotSending, go} : sending' = [sending EXCEPT ![a] = x]
    BY DEF ReadAudience
  <1>2. sending'[a] = x /\ UNCHANGED <<audienceVars, everTested, tests, shown>>
    BY <1>1 DEF ReadAudience, AnnInv
  <1>3. to \cap sending[a].asked = {}
    <2>1. /\ shown[a].audience \in AllAudiences /\ sending[a].asked \cap members \subseteq sending[a].out
      BY DEF ReadAudience, AnnInv, SendingMeans
    <2> QED BY <2>1, AudienceIsMembers DEF Recipients
  <1>4. <<a, sending[a].content>> \in everTested /\ shown[a].audience \in AllAudiences
    BY DEF ReadAudience, AnnInv, SendingMeans
  <1> HIDE DEF to
  <1>5. SendingMeans(a)' /\ x.step \in {"idle", "commit"}
    BY <1>1, <1>2, <1>3, <1>4 DEF SendingMeans, NotSending
  <1> QED BY <1>1, <1>2, <1>5, AnnMoves

LEMMA AnnNext == AnnInv /\ [AnnouncementNext]_announcementVars => AnnInv'
  <1> SUFFICES ASSUME AnnInv, [AnnouncementNext]_announcementVars PROVE AnnInv'
    OBVIOUS
  <1>0. /\ tests \subseteq everTested /\ applied \subseteq withCv
        /\ withCv \cup verified \cup left \subseteq members
    BY DEF AnnInv, AnnouncementTypeOK
  <1>1. ASSUME NEW u \in Members, MemberStep(u) \/ Unsubscribe(u) \/ Remind(u) PROVE AnnInv'
    <2>1. sending' = sending /\ shown' = shown /\ everTested' = everTested /\ tests' = tests
      BY <1>1 DEF MemberStep, Unsubscribe, Remind
    <2>2. CASE MemberStep(u)
      <3>1. AccountsMove
        BY <1>0, <2>2 DEF MemberStep, AccountsMove
      <3> QED BY <1>0, <2>1, <3>1, AnnStays
    <2>3. CASE Unsubscribe(u) \/ Remind(u)
      <3>1. AccountsMove
        BY <1>0, <2>3 DEF Unsubscribe, Remind, AccountsMove, audienceVars
      <3> QED BY <1>0, <2>1, <3>1, AnnStays
    <2> QED BY <1>1, <2>2, <2>3
  <1>2. ASSUME NEW a \in Admins, NEW c \in Contents, SendTest(a, c) \/ TestExpires(a, c)
        PROVE  AnnInv'
    <2>1. /\ sending' = sending /\ shown' = shown /\ everTested \subseteq everTested'
          /\ tests' \subseteq everTested' /\ UNCHANGED audienceVars
      BY <1>0, <1>2 DEF SendTest, TestExpires
    <2>2. AccountsMove
      BY <1>0, <2>1 DEF AccountsMove, audienceVars
    <2> QED BY <2>1, <2>2, AnnStays
  <1>3. ASSUME NEW a \in Admins, NEW key \in Audiences, ShowAudience(a, key) PROVE AnnInv'
    <2>1. /\ shown' = [shown EXCEPT ![a] = [audience |-> key, to |-> AudienceMembers(key) \ left]]
          /\ UNCHANGED <<sending, everTested, tests, members, active, verified, withCv, applied, left>>
      BY <1>3 DEF ShowAudience, audienceVars
    <2>2. AudienceMembers(key) \subseteq Members
      BY AudienceIsMembers, AudienceAssumption DEF AnnInv, AnnouncementTypeOK
    <2>3. PICK to \in SUBSET Members : shown' = [shown EXCEPT ![a] = [audience |-> key, to |-> to]]
      BY <2>1, <2>2
    <2>4. /\ DOMAIN shown' = Admins /\ shown'[a].audience = key /\ shown'[a].to = to
          /\ \A b \in Admins : b # a => shown'[b] = shown[b]
      BY <2>3 DEF AnnInv
    <2>5. AnnouncementTypeOK'
      BY <2>1, <2>4 DEF AnnInv, AnnouncementTypeOK
    <2>6. \A b \in Admins : SendingMeans(b)'
      BY <2>1, <2>4, AudienceAssumption DEF AnnInv, SendingMeans
    <2> QED BY <2>1, <2>4, <2>5, <2>6, AudienceAssumption DEF AnnInv
  <1>4. ASSUME NEW a \in Admins, NEW c \in Contents, AskToSend(a, c) PROVE AnnInv'
    <2> DEFINE x == [step |-> "opt-outs", content |-> c, asked |-> left]
    <2>1. sending' = [sending EXCEPT ![a] = x] /\ sending'[a] = x
      BY <1>4 DEF AskToSend, AnnInv
    <2>2. SendingMeans(a)'
      BY <1>4, <2>1 DEF AskToSend, SendingMeans, Tested, AnnInv, AnnouncementTypeOK, audienceVars
    <2>3. x.step = "opt-outs"
      OBVIOUS
    <2> HIDE DEF x
    <2> QED BY <1>4, <2>1, <2>2, <2>3, AnnMoves DEF AskToSend
  <1>5. ASSUME NEW a \in Admins, ReadOptOuts(a) PROVE AnnInv'
    <2> DEFINE x == [step |-> "audience", content |-> sending[a].content,
                     asked |-> sending[a].asked, out |-> left]
    <2>1. sending' = [sending EXCEPT ![a] = x] /\ sending'[a] = x
      BY <1>5 DEF ReadOptOuts, AnnInv
    <2>2. SendingMeans(a)'
      BY <1>5, <2>1 DEF ReadOptOuts, SendingMeans, AnnInv, audienceVars
    <2>3. x.step = "audience"
      OBVIOUS
    <2> HIDE DEF x
    <2> QED BY <1>5, <2>1, <2>2, <2>3, AnnMoves DEF ReadOptOuts
  <1>6. ASSUME NEW a \in Admins, ReadAudience(a) PROVE AnnInv'
    BY <1>6, AnnAudience
  <1>7. ASSUME NEW a \in Admins, CommitSend(a) PROVE AnnInv'
    <2>1. sending' = [sending EXCEPT ![a] = NotSending] /\ sending'[a] = NotSending
      BY <1>7 DEF CommitSend, AnnInv
    <2>2. SendingMeans(a)' /\ NotSending.step = "idle"
      BY <2>1 DEF SendingMeans, NotSending
    <2> QED BY <1>7, <2>1, <2>2, AnnMoves DEF CommitSend
  <1>8. CASE UNCHANGED announcementVars
    BY <1>8 DEF announcementVars, audienceVars, AnnInv, SendingMeans, AnnouncementTypeOK
  <1> QED BY <1>1, <1>2, <1>3, <1>4, <1>5, <1>6, <1>7, <1>8 DEF AnnouncementNext

(* An announcement leaves after a test of its content, and never to somebody   *)
(* who had left the list when it was asked for, for any number of members and *)
(* admins at work.                                                           *)
THEOREM AnnouncedAsAsked == AnnouncementSpec => SentAsAsked
  <1>1. /\ AnnInv /\ [AnnouncementNext]_announcementVars
        => [\A a \in Admins : Leaves(a) =>
              /\ <<a, sending[a].content>> \in everTested
              /\ mailed' \cap sending[a].asked = {}]_announcementVars
    <2> SUFFICES ASSUME AnnInv, AnnouncementNext, NEW a \in Admins, Leaves(a)
                 PROVE  /\ <<a, sending[a].content>> \in everTested
                        /\ mailed' \cap sending[a].asked = {}
      OBVIOUS
    <2>1. SendingMeans(a)
      BY DEF AnnInv
    <2>2. CASE CommitSend(a)
      BY <2>1, <2>2 DEF CommitSend, SendingMeans
    <2>3. CASE ~CommitSend(a)
      <3>1. sending'[a] = sending[a] \/ sending[a].step # "commit"
        BY <2>3 DEF AnnouncementNext, MemberStep, Unsubscribe, Remind, SendTest, TestExpires,
             AskToSend, ShowAudience, ReadOptOuts, ReadAudience, CommitSend, AnnInv
      <3> QED BY <3>1 DEF Leaves
    <2> QED BY <2>2, <2>3
  <1> QED BY <1>1, AnnInit, AnnNext, PTL DEF AnnouncementSpec, SentAsAsked

-------------------------------------------------------------------------------
(* The dashboard: ten offers a day                                           *)

(* The days a match was shown or is about to be.                              *)
Showing == {t \in Tabs : tab[t].pc = "showing"}
Days(o) == shownOn[o] \cup {tab[t].at : t \in {s \in Showing : o \in tab[s].top}}

(* A match bears a day it was shown, if it was: the only one, unless requests of *)
(* two days both found it never shown.  Those two are a day and the next.      *)
MatchMeans(o) ==
  /\ mtch[o].status \in {"pending", "scored"}
  /\ mtch[o].firstShown \in 0..today
  /\ mtch[o].applied \in {"not_applied", "applied"}
  /\ mtch[o].firstShown = Never => shownOn[o] = {}
  /\ mtch[o].firstShown # Never => mtch[o].firstShown \in shownOn[o]
  /\ o \notin raced => shownOn[o] \subseteq {mtch[o].firstShown}
  /\ \E d \in Nat : Days(o) \subseteq {d, d + 1}

(* A request that is about to show a match found it unstamped, or stamped on    *)
(* its own day; who else found it unstamped stamps the same day.               *)
TabMeans(t) ==
  /\ tab[t].pc \in {"idle", "showing", "applying"}
  /\ tab[t].pc = "applying" => tab[t].offer \in Offered
  /\ tab[t].pc = "showing" =>
       /\ tab[t].at \in 1..today /\ tab[t].at >= today - 1
       /\ tab[t].fresh \subseteq tab[t].top /\ tab[t].top \subseteq Offered
       /\ \A o \in tab[t].fresh \ raced : mtch[o].firstShown \in {Never, tab[t].at}
       /\ \A o \in tab[t].top \ tab[t].fresh :
            mtch[o].firstShown # Never /\ (o \notin raced => mtch[o].firstShown = tab[t].at)
AgreeOnDay(s, t) == \A o \in (tab[s].fresh \cap tab[t].fresh) \ raced : tab[s].at = tab[t].at

MatchRow(m) == DOMAIN m = {"status", "grade", "firstShown", "applied", "corrected"}

OInv ==
  /\ today \in 1..LastDayShown
  /\ DOMAIN mtch = Offered /\ DOMAIN tab = Tabs /\ DOMAIN shownOn = Offered
  /\ \A o \in Offered : MatchRow(mtch[o]) /\ MatchMeans(o)
  /\ \A t \in Tabs : TabMeans(t)
  /\ \A s, t \in Showing : AgreeOnDay(s, t)

LEMMA OppInitially == OppInit => OInv
  <1> SUFFICES ASSUME OppInit PROVE OInv
    OBVIOUS
  <1>1. Showing = {}
    BY DEF OppInit, Showing, NoRequest
  <1>2. \A o \in Offered : Days(o) = {}
    BY <1>1 DEF OppInit, Days
  <1>3. \A o \in Offered : Days(o) \subseteq {0, 0 + 1}
    BY <1>2
  <1> QED
    BY <1>1, <1>3, OppAssumption DEF OppInit, OInv, MatchRow, MatchMeans, TabMeans, NoRequest, Never

KeepsStamp(o) ==
  /\ MatchRow(mtch'[o]) /\ mtch'[o].firstShown = mtch[o].firstShown
  /\ mtch'[o].status \in {"pending", "scored"}
  /\ mtch'[o].applied \in {"not_applied", "applied"}

KeepsTab(t) ==
  \/ tab'[t] = tab[t]
  \/ tab'[t] = NoRequest
  \/ tab'[t].pc = "applying" /\ tab'[t].offer \in Offered

\* A request that shows something did before.
LEMMA ShowingShrinks ==
  ASSUME \A t \in Tabs : KeepsTab(t)
  PROVE  \A t \in Showing' : t \in Showing /\ tab'[t] = tab[t]
  BY DEF Showing, KeepsTab, NoRequest

\* Whatever leaves the stamps and the days alone leaves their meaning alone.
LEMMA StampsStay ==
  ASSUME OInv, UNCHANGED <<today, shownOn, raced>>, DOMAIN mtch' = Offered, DOMAIN tab' = Tabs,
         \A o \in Offered : KeepsStamp(o), \A t \in Tabs : KeepsTab(t)
  PROVE  OInv'
  <1>1. ASSUME NEW o \in Offered PROVE MatchMeans(o)'
    <2>1. Days(o)' \subseteq Days(o)
      BY ShowingShrinks DEF Days
    <2>2. MatchMeans(o)
      BY DEF OInv
    <2>3. PICK d \in Nat : Days(o) \subseteq {d, d + 1}
      BY <2>2 DEF MatchMeans
    <2>4. \E e \in Nat : Days(o)' \subseteq {e, e + 1}
      BY <2>1, <2>3
    <2> QED
      BY <2>2, <2>4 DEF MatchMeans, KeepsStamp
  <1>2. ASSUME NEW t \in Tabs PROVE TabMeans(t)'
    <2>1. CASE tab'[t] = tab[t]
      BY <2>1 DEF OInv, TabMeans, KeepsStamp
    <2>2. CASE tab'[t] # tab[t]
      BY <2>2 DEF TabMeans, NoRequest, KeepsTab
    <2> QED BY <2>1, <2>2
  <1>3. \A s, t \in Showing' : AgreeOnDay(s, t)'
    BY ShowingShrinks DEF OInv, AgreeOnDay
  <1> QED BY <1>1, <1>2, <1>3 DEF OInv, KeepsStamp

LEMMA OppOpens ==
  ASSUME OInv, NEW t \in Tabs, OpenDashboard(t)
  PROVE  OInv'
  <1>1. PICK top \in Tops(mtch, today), fresh \in SUBSET Offered :
          /\ fresh = {o \in top : mtch[o].firstShown = Never}
          /\ tab' = [tab EXCEPT ![t] = [pc |-> "showing", at |-> today, top |-> top, fresh |-> fresh]]
          /\ raced' = raced \cup (fresh \cap AlsoFresh(t))
    BY DEF OpenDashboard, Tops
  <1>2. top \subseteq Offered /\ \A o \in top : Eligible(mtch[o], today)
    BY DEF Tops
  <1>3. \A o \in top : mtch[o].firstShown = Never \/ mtch[o].firstShown = today
    BY <1>2 DEF Eligible, OInv, MatchMeans, Never
  <1>4. UNCHANGED <<today, mtch, shownOn>> /\ raced \subseteq raced' /\ tab[t].pc = "idle" /\ DOMAIN tab = Tabs
    BY <1>1 DEF OpenDashboard, OInv
  <1>5. /\ tab'[t].pc = "showing" /\ tab'[t].at = today /\ tab'[t].top = top /\ tab'[t].fresh = fresh
        /\ \A u \in Tabs : u # t => tab'[u] = tab[u]
    BY <1>1, <1>4
  <1>6. Showing' = Showing \cup {t} /\ t \notin Showing
    BY <1>4, <1>5 DEF Showing
  <1>7. today \in Nat /\ today >= 1
    BY OppAssumption DEF OInv
  <1>8. TabMeans(t)'
    BY <1>1, <1>2, <1>3, <1>4, <1>5, <1>7 DEF TabMeans, Never
  <1>9. ASSUME NEW u \in Tabs, u # t PROVE TabMeans(u)'
    BY <1>4, <1>5, <1>9 DEF OInv, TabMeans
  <1>10. ASSUME NEW s \in Showing, NEW o \in (tab[s].fresh \cap fresh) \ raced' PROVE tab[s].at = today
    BY <1>1, <1>6, <1>10 DEF AlsoFresh, Showing
  <1>11. \A s, u \in Showing' : AgreeOnDay(s, u)'
    <2>1. ASSUME NEW s \in Showing, NEW u \in Showing PROVE AgreeOnDay(s, u)'
      <3>1. s \in Tabs /\ u \in Tabs /\ s # t /\ u # t /\ AgreeOnDay(s, u)
        BY <1>6 DEF OInv, Showing
      <3> QED
        BY <1>4, <1>5, <3>1 DEF AgreeOnDay
    <2>2. ASSUME NEW s \in Showing PROVE AgreeOnDay(s, t)' /\ AgreeOnDay(t, s)'
      <3>1. s \in Tabs /\ s # t
        BY <1>6 DEF Showing
      <3> QED
        BY <1>5, <1>10, <3>1 DEF AgreeOnDay
    <2>3. AgreeOnDay(t, t)'
      BY DEF AgreeOnDay
    <2> QED BY <1>6, <2>1, <2>2, <2>3
  <1>12. ASSUME NEW o \in Offered PROVE \E d \in Nat : Days(o)' \subseteq {d, d + 1}
    <2>1. MatchMeans(o)
      BY DEF OInv
    <2>2. PICK d \in Nat : Days(o) \subseteq {d, d + 1}
      BY <2>1 DEF MatchMeans
    <2>3. Days(o)' \subseteq Days(o) \cup (IF o \in top THEN {today} ELSE {})
      <3>1. \A s \in Showing : s \in Tabs /\ tab'[s] = tab[s]
        BY <1>5, <1>6 DEF Showing
      <3> QED
        BY <1>4, <1>5, <1>6, <3>1 DEF Days
    <2>4. CASE o \notin top
      BY <2>2, <2>3, <2>4
    <2>5. CASE o \in top /\ mtch[o].firstShown = today
      <3>1. today \in Days(o)
        BY <1>7, <2>1, <2>5 DEF MatchMeans, Days, Never
      <3> QED BY <2>2, <2>3, <3>1
    <2>6. CASE mtch[o].firstShown = Never
      <3>1. shownOn[o] = {}
        BY <2>1, <2>6 DEF MatchMeans
      <3>2. \A s \in Showing : tab[s].at \in 1..today /\ tab[s].at >= today - 1
        BY DEF OInv, TabMeans, Showing
      <3>3. \A day \in Days(o) : day \in {today - 1, today}
        BY <1>7, <3>1, <3>2 DEF Days
      <3>4. Days(o)' \subseteq {today - 1, (today - 1) + 1}
        BY <1>7, <2>3, <3>3
      <3> QED BY <1>7, <3>4
    <2> QED BY <1>3, <2>4, <2>5, <2>6
  <1>13. \A o \in Offered : MatchMeans(o)'
    BY <1>4, <1>12 DEF OInv, MatchMeans
  <1>14. DOMAIN tab' = Tabs
    BY <1>1, <1>4
  <1> QED BY <1>4, <1>8, <1>9, <1>11, <1>13, <1>14 DEF OInv

\* What a request read of the stamps is still so when it shows, or was raced.
LEMMA OppShows ==
  ASSUME OInv, NEW t \in Tabs, ShowDashboard(t)
  PROVE  OInv'
  <1>1. /\ TabMeans(t) /\ tab[t].pc = "showing" /\ t \in Showing
        /\ UNCHANGED <<today, raced>> /\ DOMAIN tab = Tabs
    BY DEF OInv, ShowDashboard, Showing
  <1>2. \A o \in Offered :
          /\ mtch'[o] = IF o \in tab[t].fresh THEN [mtch[o] EXCEPT !.firstShown = tab[t].at]
                        ELSE mtch[o]
          /\ shownOn'[o] = IF o \in tab[t].top THEN shownOn[o] \cup {tab[t].at} ELSE shownOn[o]
    BY DEF ShowDashboard
  <1>3. tab' = [tab EXCEPT ![t] = NoRequest] /\ \A u \in Tabs : KeepsTab(u)
    BY <1>1 DEF ShowDashboard, KeepsTab
  <1>4. \A u \in Showing' : u \in Showing /\ u \in Tabs /\ tab'[u] = tab[u]
    BY <1>3, ShowingShrinks DEF Showing
  <1>5. /\ tab[t].at \in 1..today /\ tab[t].at # Never /\ tab[t].fresh \subseteq tab[t].top
        /\ tab[t].top \subseteq Offered
    BY <1>1 DEF TabMeans, Never
  <1>6. ASSUME NEW o \in Offered PROVE MatchRow(mtch'[o]) /\ MatchMeans(o)'
    <2>0. MatchRow(mtch[o]) /\ MatchMeans(o)
      BY DEF OInv
    <2>1. PICK d \in Nat : Days(o) \subseteq {d, d + 1}
      BY <2>0 DEF MatchMeans
    <2>2. Days(o)' \subseteq Days(o)
      <3>1. shownOn'[o] \subseteq Days(o)
        BY <1>1, <1>2 DEF Days
      <3>2. \A u \in Showing' : o \in tab'[u].top => tab'[u].at \in Days(o)
        BY <1>4 DEF Days
      <3> QED BY <3>1, <3>2 DEF Days
    <2>3. \E e \in Nat : Days(o)' \subseteq {e, e + 1}
      BY <2>1, <2>2
    <2>4. CASE o \in tab[t].fresh
      <3>1. /\ MatchRow(mtch'[o]) /\ mtch'[o].firstShown = tab[t].at
            /\ mtch'[o].status = mtch[o].status /\ mtch'[o].applied = mtch[o].applied
        BY <1>2, <2>0, <2>4 DEF MatchRow
      <3>2. shownOn'[o] = shownOn[o] \cup {tab[t].at}
        BY <1>2, <1>5, <2>4
      <3>3. o \notin raced => shownOn[o] \subseteq {tab[t].at}
        BY <1>1, <2>0, <2>4 DEF TabMeans, MatchMeans
      <3> QED BY <1>1, <1>5, <2>0, <2>3, <3>1, <3>2, <3>3 DEF MatchMeans
    <2>5. CASE o \in tab[t].top \ tab[t].fresh
      <3>1. /\ mtch'[o] = mtch[o] /\ mtch[o].firstShown # Never
            /\ o \notin raced => mtch[o].firstShown = tab[t].at
        BY <1>1, <1>2, <2>5 DEF TabMeans
      <3>2. shownOn'[o] = shownOn[o] \cup {tab[t].at}
        BY <1>2, <2>5
      <3> QED BY <1>1, <2>0, <2>3, <3>1, <3>2 DEF MatchMeans
    <2>6. CASE o \notin tab[t].top
      BY <1>1, <1>2, <1>5, <2>0, <2>3, <2>6 DEF MatchMeans
    <2> QED BY <2>4, <2>5, <2>6
  <1>7. ASSUME NEW u \in Tabs PROVE TabMeans(u)'
    <2>1. CASE u = t
      BY <1>1, <1>3, <2>1 DEF TabMeans, NoRequest
    <2>2. CASE u # t /\ tab[u].pc # "showing"
      BY <1>1, <1>3, <2>2 DEF TabMeans, OInv
    <2>3. CASE u # t /\ u \in Showing
      <3>1. tab'[u] = tab[u] /\ TabMeans(u) /\ AgreeOnDay(t, u) /\ tab[u].pc = "showing"
        BY <1>1, <1>3, <2>3 DEF OInv, Showing
      <3>2. tab[u].top \subseteq Offered /\ tab[u].fresh \subseteq tab[u].top
        BY <3>1 DEF TabMeans
      <3>3. \A o \in Offered : mtch'[o].firstShown = IF o \in tab[t].fresh THEN tab[t].at
                                                      ELSE mtch[o].firstShown
        BY <1>2 DEF OInv, MatchRow
      <3>4. ASSUME NEW o \in tab[u].fresh \ raced PROVE mtch'[o].firstShown \in {Never, tab[u].at}
        BY <3>1, <3>2, <3>3, <3>4 DEF TabMeans, AgreeOnDay
      <3>5. ASSUME NEW o \in tab[u].top \ tab[u].fresh
            PROVE  mtch'[o].firstShown # Never /\ (o \notin raced => mtch'[o].firstShown = tab[u].at)
        <4>1. mtch[o].firstShown # Never /\ (o \notin raced => mtch[o].firstShown = tab[u].at)
          BY <3>1, <3>5 DEF TabMeans
        <4>2. o \in tab[t].fresh \ raced => mtch[o].firstShown \in {Never, tab[t].at}
          BY <1>1 DEF TabMeans
        <4> QED BY <1>5, <3>2, <3>3, <3>5, <4>1, <4>2
      <3> QED BY <1>1, <3>1, <3>2, <3>4, <3>5 DEF TabMeans
    <2> QED BY <2>1, <2>2, <2>3 DEF Showing
  <1>8. \A s, u \in Showing' : AgreeOnDay(s, u)'
    BY <1>1, <1>4 DEF AgreeOnDay, OInv
  <1>9. DOMAIN mtch' = Offered /\ DOMAIN tab' = Tabs /\ DOMAIN shownOn' = Offered
    BY <1>1, <1>3 DEF ShowDashboard, OInv
  <1> QED BY <1>1, <1>6, <1>7, <1>8, <1>9 DEF OInv

LEMMA OppNextDay == OInv /\ NextDay => OInv'
  <1> SUFFICES ASSUME OInv, NextDay PROVE OInv'
    OBVIOUS
  <1>1. today' = today + 1 /\ today' \in 1..LastDayShown /\ today \in Nat
    BY OppAssumption DEF NextDay, OInv
  <1>2. \A d \in 0..today : d \in 0..today'
    BY <1>1 DEF OInv
  <1>3. \A d \in 1..today : d \in 1..today'
    BY <1>1 DEF OInv
  <1>4. UNCHANGED <<mtch, tab, shownOn, raced>> /\ Showing' = Showing
    BY DEF NextDay, Showing
  <1>5. \A o \in Offered : MatchMeans(o)'
    <2>1. \A o \in Offered : Days(o)' = Days(o)
      BY <1>4 DEF Days
    <2> QED BY <1>2, <1>4, <2>1 DEF OInv, MatchMeans
  <1>6. ASSUME NEW t \in Tabs PROVE TabMeans(t)'
    <2>1. TabMeans(t) /\ (tab[t].pc = "showing" => tab[t].at = today)
      BY DEF OInv, NextDay
    <2> QED BY <1>1, <1>3, <1>4, <2>1 DEF TabMeans
  <1>7. \A s, t \in Showing' : AgreeOnDay(s, t)'
    BY <1>4 DEF OInv, AgreeOnDay
  <1> QED BY <1>1, <1>4, <1>5, <1>6, <1>7 DEF OInv

LEMMA OppSteps == OInv /\ [OppNext]_oppVars => OInv'
  <1> SUFFICES ASSUME OInv, [OppNext]_oppVars PROVE OInv'
    OBVIOUS
  <1>0. \A o \in Offered : /\ MatchRow(mtch[o]) /\ mtch[o].status \in {"pending", "scored"}
                           /\ mtch[o].applied \in {"not_applied", "applied"}
    BY DEF OInv, MatchMeans
  <1>1. ASSUME NEW t \in Tabs, OpenDashboard(t) PROVE OInv'
    BY <1>1, OppOpens
  <1>2. ASSUME NEW t \in Tabs, ShowDashboard(t) PROVE OInv'
    BY <1>2, OppShows
  <1>3. ASSUME NEW t \in Tabs, MarkApplied(t) PROVE OInv'
    <2>1. UNCHANGED <<today, shownOn, raced>> /\ tab' = [tab EXCEPT ![t] = NoRequest]
      BY <1>3 DEF MarkApplied
    <2>2. \/ mtch' = mtch
          \/ mtch' = [mtch EXCEPT ![tab[t].offer] = [mtch[tab[t].offer] EXCEPT !.applied = "applied"]]
      BY <1>3 DEF MarkApplied
    <2>3. DOMAIN mtch' = Offered
      BY <2>2 DEF OInv
    <2>4. \A o \in Offered :
            \/ mtch'[o] = mtch[o]
            \/ mtch'[o] = [mtch[o] EXCEPT !.applied = "applied"]
      BY <2>2 DEF OInv
    <2>5. ASSUME NEW o \in Offered PROVE KeepsStamp(o)
      <3>1. CASE mtch'[o] = mtch[o]
        BY <1>0, <3>1 DEF KeepsStamp
      <3>2. CASE mtch'[o] = [mtch[o] EXCEPT !.applied = "applied"]
        BY <1>0, <3>2 DEF KeepsStamp, MatchRow
      <3> QED BY <2>4, <3>1, <3>2
    <2>6. DOMAIN tab' = Tabs /\ \A u \in Tabs : KeepsTab(u)
      BY <2>1 DEF OInv, KeepsTab
    <2> QED BY <2>1, <2>3, <2>5, <2>6, StampsStay
  <1>4. ASSUME NEW t \in Tabs, NEW o \in Offered, ClickOffer(t, o) PROVE OInv'
    <2>1. UNCHANGED <<today, shownOn, raced, mtch>> /\ DOMAIN tab' = Tabs /\ DOMAIN mtch = Offered
      BY <1>4 DEF ClickOffer, OInv
    <2>2. \A u \in Tabs : KeepsTab(u)
      BY <1>4 DEF ClickOffer, OInv, KeepsTab
    <2>3. \A p \in Offered : KeepsStamp(p)
      BY <1>0, <2>1 DEF KeepsStamp
    <2> QED BY <2>1, <2>2, <2>3, StampsStay
  <1>5. ASSUME NEW t \in Tabs, NEW o \in Offered, NEW s \in {"not_applied", "applied"},
               DeclareStatus(t, o, s)
        PROVE  OInv'
    <2>1. UNCHANGED <<today, shownOn, raced, tab>> /\ DOMAIN tab = Tabs /\ DOMAIN mtch' = Offered
      BY <1>5 DEF DeclareStatus, OInv
    <2>2. \A p \in Offered :
            \/ mtch'[p] = mtch[p]
            \/ mtch'[p] = [mtch[p] EXCEPT !.applied = s, !.corrected = TRUE]
      BY <1>5 DEF DeclareStatus, OInv
    <2>3. ASSUME NEW p \in Offered PROVE KeepsStamp(p)
      <3>1. CASE mtch'[p] = mtch[p]
        BY <1>0, <3>1 DEF KeepsStamp
      <3>2. CASE mtch'[p] = [mtch[p] EXCEPT !.applied = s, !.corrected = TRUE]
        BY <1>0, <3>2 DEF KeepsStamp, MatchRow
      <3> QED BY <2>2, <3>1, <3>2
    <2>4. \A u \in Tabs : KeepsTab(u)
      BY <2>1 DEF KeepsTab
    <2> QED BY <2>1, <2>3, <2>4, StampsStay
  <1>6. ASSUME NEW o \in Offered, Analysed(o) PROVE OInv'
    <2>1. UNCHANGED <<today, shownOn, raced, tab>> /\ DOMAIN tab = Tabs /\ DOMAIN mtch' = Offered
      BY <1>6 DEF Analysed, OInv
    <2>2. \A p \in Offered :
            \/ mtch'[p] = mtch[p]
            \/ \E g \in Grades : mtch'[p] = [mtch[p] EXCEPT !.status = "scored", !.grade = g]
      BY <1>6 DEF Analysed, OInv
    <2>3. ASSUME NEW p \in Offered PROVE KeepsStamp(p)
      <3>1. CASE mtch'[p] = mtch[p]
        BY <1>0, <3>1 DEF KeepsStamp
      <3>2. ASSUME NEW g \in Grades, mtch'[p] = [mtch[p] EXCEPT !.status = "scored", !.grade = g]
            PROVE  KeepsStamp(p)
        BY <1>0, <3>2 DEF KeepsStamp, MatchRow
      <3> QED BY <2>2, <3>1, <3>2
    <2>4. \A u \in Tabs : KeepsTab(u)
      BY <2>1 DEF KeepsTab
    <2> QED BY <2>1, <2>3, <2>4, StampsStay
  <1>7. ASSUME NEW o \in Offered, OfferLeaves(o) PROVE OInv'
    <2>1. UNCHANGED <<today, shownOn, raced, mtch, tab>> /\ DOMAIN tab = Tabs /\ DOMAIN mtch = Offered
      BY <1>7 DEF OfferLeaves, OInv
    <2>2. (\A p \in Offered : KeepsStamp(p)) /\ \A u \in Tabs : KeepsTab(u)
      BY <1>0, <2>1 DEF KeepsStamp, KeepsTab
    <2> QED BY <2>1, <2>2, StampsStay
  <1>8. CASE NextDay
    BY <1>8, OppNextDay
  <1>9. CASE UNCHANGED oppVars
    <2>1. UNCHANGED <<today, shownOn, raced, mtch, tab>> /\ DOMAIN tab = Tabs /\ DOMAIN mtch = Offered
      BY <1>9 DEF oppVars, OInv
    <2>2. (\A p \in Offered : KeepsStamp(p)) /\ \A u \in Tabs : KeepsTab(u)
      BY <1>0, <2>1 DEF KeepsStamp, KeepsTab
    <2> QED BY <2>1, <2>2, StampsStay
  <1> QED BY <1>1, <1>2, <1>3, <1>4, <1>5, <1>6, <1>7, <1>8, <1>9 DEF OppNext

(* An offer is on the dashboard of one calendar day only, however long its     *)
(* analysis takes and however the candidate's requests overlap, unless        *)
(* midnight fell between two that both found it unstamped: then on two.        *)
THEOREM DashboardOfOneDay == OppSpec => []ShownOneDay
  <1>1. OInv => ShownOneDay
    <2> SUFFICES ASSUME OInv, NEW o \in Offered
                 PROVE  Cardinality(shownOn[o]) <= IF o \in raced THEN 2 ELSE 1
      BY DEF ShownOneDay
    <2>1. MatchMeans(o)
      BY DEF OInv
    <2>2. CASE o \notin raced
      <3>1. shownOn[o] \in SUBSET {mtch[o].firstShown}
        BY <2>1, <2>2 DEF MatchMeans
      <3>2. IsFiniteSet({mtch[o].firstShown}) /\ Cardinality({mtch[o].firstShown}) = 1
        BY FS_Singleton
      <3>3. Cardinality(shownOn[o]) <= Cardinality({mtch[o].firstShown})
        BY <3>1, <3>2, FS_Subset
      <3> QED BY <2>2, <3>2, <3>3
    <2>3. CASE o \in raced
      <3>1. PICK d \in Nat : shownOn[o] \subseteq {d, d + 1}
        BY <2>1 DEF MatchMeans, Days
      <3>2. PICK pair : pair = {d, d + 1}
        OBVIOUS
      <3>3. IsFiniteSet(pair) /\ Cardinality(pair) = 2
        <4>1. IsFiniteSet({d}) /\ Cardinality({d}) = 1
          BY FS_Singleton
        <4>2. pair = {d} \cup {d + 1}
          BY <3>2
        <4>3. d + 1 \notin {d}
          OBVIOUS
        <4>4. IsFiniteSet({d} \cup {d + 1}) /\ Cardinality({d} \cup {d + 1}) = Cardinality({d}) + 1
          BY <4>1, <4>3, FS_AddElement
        <4> QED BY <4>1, <4>2, <4>4
      <3>4. Cardinality(shownOn[o]) <= Cardinality(pair)
        BY <3>1, <3>2, <3>3, FS_Subset
      <3> QED BY <2>3, <3>3, <3>4
    <2> QED BY <2>2, <2>3
  <1> QED BY <1>1, OppSteps, OppInitially, PTL DEF OppSpec

(* The types, which hold however many tabs are open.                          *)
MatchTypes(day) ==
  [status : {"pending", "scored"}, grade : Grades \cup {0}, firstShown : 0..day,
   applied : {"not_applied", "applied"}, corrected : BOOLEAN]
TabTypes(t) ==
  /\ tab[t].pc \in {"idle", "showing", "applying"}
  /\ tab[t].pc = "applying" => tab[t].offer \in Offered
  /\ tab[t].pc = "showing" => tab[t].at \in 1..today
OppTypes ==
  /\ today \in 1..LastDayShown
  /\ mtch \in [Offered -> MatchTypes(today)]
  /\ shownOn \in [Offered -> SUBSET (1..today)]
  /\ raced \subseteq Offered
  /\ DOMAIN tab = Tabs /\ \A t \in Tabs : TabTypes(t)

LEMMA OppTypesStart == OppInit => OppTypes
  BY OppAssumption DEF OppInit, OppTypes, MatchTypes, TabTypes, NoRequest, Never

LEMMA OppTypesStep == OppTypes /\ [OppNext]_oppVars => OppTypes'
  <1> SUFFICES ASSUME OppTypes, [OppNext]_oppVars PROVE OppTypes'
    OBVIOUS
  <1>0. NoRequest.pc = "idle" /\ LastDayShown \in Nat
    BY OppAssumption DEF NoRequest
  (* The steps within a day: the rows keep their types, the tabs theirs.        *)
  <1>1. ASSUME today' = today, raced' \subseteq Offered, mtch' \in [Offered -> MatchTypes(today)],
               shownOn' \in [Offered -> SUBSET (1..today)],
               DOMAIN tab' = Tabs, \A t \in Tabs : TabTypes(t)'
        PROVE  OppTypes'
    BY <1>1 DEF OppTypes, MatchTypes
  <1>2. ASSUME NEW t \in Tabs, OpenDashboard(t) PROVE OppTypes'
    <2>1. PICK top \in Tops(mtch, today), fresh \in SUBSET Offered :
            /\ fresh = {o \in top : mtch[o].firstShown = Never}
            /\ tab' = [tab EXCEPT ![t] = [pc |-> "showing", at |-> today, top |-> top, fresh |-> fresh]]
            /\ raced' = raced \cup (fresh \cap AlsoFresh(t))
      BY <1>2 DEF OpenDashboard, Tops
    <2> DEFINE shows == [pc |-> "showing", at |-> today, top |-> top, fresh |-> fresh]
    <2>2. shows.pc = "showing" /\ shows.at = today
      OBVIOUS
    <2> HIDE DEF shows
    <2>3. DOMAIN tab' = Tabs /\ \A u \in Tabs : tab'[u] = IF u = t THEN shows ELSE tab[u]
      BY <2>1 DEF OppTypes, shows
    <2>4. UNCHANGED <<today, mtch, shownOn>>
      BY <1>2 DEF OpenDashboard
    <2>5. today \in 1..today
      BY <1>0 DEF OppTypes
    <2>6. \A u \in Tabs : TabTypes(u)'
      BY <2>2, <2>3, <2>4, <2>5 DEF OppTypes, TabTypes
    <2>7. raced' \subseteq Offered
      BY <2>1 DEF OppTypes
    <2> QED
      BY <1>1, <2>3, <2>4, <2>6, <2>7 DEF OppTypes
  <1>3. ASSUME NEW t \in Tabs, ShowDashboard(t) PROVE OppTypes'
    <2>1. tab[t].at \in 1..today /\ today \in Nat
      BY <1>0, <1>3 DEF ShowDashboard, OppTypes, TabTypes
    <2>2. mtch' \in [Offered -> MatchTypes(today)]
      BY <1>3, <2>1 DEF ShowDashboard, OppTypes, MatchTypes
    <2>3. shownOn' \in [Offered -> SUBSET (1..today)]
      BY <1>3, <2>1 DEF ShowDashboard, OppTypes
    <2>4. DOMAIN tab' = Tabs /\ \A u \in Tabs : TabTypes(u)'
      BY <1>0, <1>3 DEF ShowDashboard, OppTypes, TabTypes
    <2> QED
      BY <1>1, <1>3, <2>2, <2>3, <2>4 DEF ShowDashboard, OppTypes
  <1>4. ASSUME NEW t \in Tabs, MarkApplied(t) PROVE OppTypes'
    <2>1. mtch' \in [Offered -> MatchTypes(today)]
      BY <1>4 DEF MarkApplied, OppTypes, MatchTypes
    <2>2. DOMAIN tab' = Tabs /\ \A u \in Tabs : TabTypes(u)'
      BY <1>0, <1>4 DEF MarkApplied, OppTypes, TabTypes
    <2> QED
      BY <1>1, <1>4, <2>1, <2>2 DEF MarkApplied, OppTypes
  <1>5. ASSUME NEW t \in Tabs, NEW o \in Offered, ClickOffer(t, o) PROVE OppTypes'
    <2>1. DOMAIN tab' = Tabs /\ \A u \in Tabs : tab'[u] = tab[u] \/ (tab'[u].pc = "applying" /\ tab'[u].offer = o)
      BY <1>5 DEF ClickOffer, OppTypes
    <2>2. \A u \in Tabs : TabTypes(u)'
      BY <1>5, <2>1 DEF ClickOffer, OppTypes, TabTypes
    <2> QED
      BY <1>1, <1>5, <2>1, <2>2 DEF ClickOffer, OppTypes
  <1>6. ASSUME NEW t \in Tabs, NEW o \in Offered, NEW s \in {"not_applied", "applied"},
               DeclareStatus(t, o, s)
        PROVE  OppTypes'
    <2>1. mtch' \in [Offered -> MatchTypes(today)]
      BY <1>6 DEF DeclareStatus, OppTypes, MatchTypes
    <2>2. UNCHANGED <<today, tab, shownOn, raced>>
      BY <1>6 DEF DeclareStatus
    <2> QED
      BY <1>1, <2>1, <2>2 DEF OppTypes, TabTypes
  <1>7. ASSUME NEW o \in Offered, Analysed(o) PROVE OppTypes'
    <2>1. mtch' \in [Offered -> MatchTypes(today)]
      <3>1. PICK g \in Grades : mtch' = [mtch EXCEPT ![o].status = "scored", ![o].grade = g]
        BY <1>7 DEF Analysed
      <3> QED
        BY <3>1 DEF OppTypes, MatchTypes
    <2>2. UNCHANGED <<today, tab, shownOn, raced>>
      BY <1>7 DEF Analysed
    <2> QED
      BY <1>1, <2>1, <2>2 DEF OppTypes, TabTypes
  <1>8. CASE (\E o \in Offered : OfferLeaves(o)) \/ UNCHANGED oppVars
    BY <1>1, <1>8 DEF OfferLeaves, oppVars, OppTypes, TabTypes
  <1>9. CASE NextDay
    <2>1. today' \in 1..LastDayShown /\ 0..today \subseteq 0..today' /\ 1..today \subseteq 1..today'
      BY <1>0, <1>9 DEF NextDay, OppTypes
    <2>2. UNCHANGED <<mtch, tab, shownOn, raced>>
      BY <1>9 DEF NextDay
    <2>3. MatchTypes(today) \subseteq MatchTypes(today')
      BY <2>1 DEF MatchTypes
    <2>4. mtch' \in [Offered -> MatchTypes(today')] /\ shownOn' \in [Offered -> SUBSET (1..today')]
      BY <2>1, <2>2, <2>3 DEF OppTypes
    <2> QED
      BY <2>1, <2>2, <2>4 DEF OppTypes, TabTypes
  <1> QED
    BY <1>2, <1>3, <1>4, <1>5, <1>6, <1>7, <1>8, <1>9 DEF OppNext

\* The types of the component, for the composition.
LEMMA OppTyped == OppTypes => OppTypeOK
  <1>1. \A m \in MatchTypes(today) :
          /\ m.status \in {"pending", "scored"} /\ m.firstShown \in 0..today
          /\ m.applied \in {"not_applied", "applied"}
    BY DEF MatchTypes
  <1> QED BY <1>1 DEF OppTypes, TabTypes, OppTypeOK

-------------------------------------------------------------------------------
(* The rewriting of a CV for an offer loses nothing of it                    *)

(* Some positions of a sequence are ranked from 1 on, each once, so what is  *)
(* at one of them is in what is taken.                                       *)
LEMMA ElementsAreTaken ==
  ASSUME NEW s, IsSequence(s), NEW P \in SUBSET DOMAIN s
  PROVE  /\ IsSequence(ElementsAt(s, P))
         /\ \A i \in P : s[i] \in ToSet(ElementsAt(s, P))
<1>1. DOMAIN s = 1..Len(s) /\ Len(s) \in Nat
  BY DEF IsSequence
<1>2. IsFiniteSet(P) /\ Cardinality(P) \in Nat
  <2>1. IsFiniteSet(1..Len(s))
    BY <1>1, FS_Interval
  <2> QED
    BY <1>1, <2>1, FS_Subset, FS_CardinalityType
<1>3. PICK T : T = ElementsAt(s, P)
  OBVIOUS
<1>4. DOMAIN T = 1..Cardinality(P) /\ T \in Seq(ToSet(T))
  <2>1. T = [n \in 1..Cardinality(P) |-> T[n]] /\ DOMAIN T = 1..Cardinality(P)
    BY <1>3 DEF ElementsAt
  <2>2. \A n \in 1..Cardinality(P) : T[n] \in ToSet(T)
    BY <2>1 DEF ToSet
  <2> QED
    BY <1>2, <2>1, <2>2
<1>5. ASSUME NEW i \in P PROVE s[i] \in ToSet(T)
  <2> DEFINE Below(k) == {j \in P : j <= k}
  <2>1. P \subseteq Nat
    BY <1>1
  <2>2. \A k \in P : IsFiniteSet(Below(k)) /\ Cardinality(Below(k)) \in Nat
    BY <1>2, FS_Subset, FS_CardinalityType
  <2>3. Cardinality(Below(i)) \in 1..Cardinality(P)
    <3>1. Cardinality(Below(i)) <= Cardinality(P)
      BY <1>2, FS_Subset
    <3>2. i \in Below(i)
      BY <2>1
    <3>3. Cardinality(Below(i)) # 0
      BY <2>2, <3>2, FS_EmptySet
    <3> QED
      BY <1>2, <2>2, <3>1, <3>3
  <2>4. ASSUME NEW k \in P, Cardinality(Below(k)) = Cardinality(Below(i)) PROVE k = i
    <3>1. ASSUME NEW x \in P, NEW y \in P, x < y PROVE Cardinality(Below(x)) # Cardinality(Below(y))
      <4>1. Below(x) \subseteq Below(y) /\ y \in Below(y) /\ y \notin Below(x)
        BY <2>1, <3>1
      <4> HIDE DEF Below
      <4> QED
        BY <2>2, <4>1, FS_Subset
    <3> QED
      BY <2>1, <2>4, <3>1
  <2>5. T[Cardinality(Below(i))] = s[i]
    <3>1. (CHOOSE k \in P : Cardinality({j \in P : j <= k}) = Cardinality(Below(i))) = i
      BY <2>4
    <3> QED
      BY <1>3, <2>3, <3>1 DEF ElementsAt
  <2> QED
    BY <1>4, <2>3, <2>5 DEF ToSet
<1> QED
  BY <1>3, <1>4, <1>5 DEF IsSequence

\* Both parts of a concatenation are in it.
LEMMA BothPartsStay ==
  ASSUME NEW s, NEW t, IsSequence(s), IsSequence(t)
  PROVE  IsSequence(s \o t) /\ ToSet(s \o t) = ToSet(s) \cup ToSet(t) /\ (s # <<>> => s \o t # <<>>)
<1>1. PICK u : u = s \o t
  OBVIOUS
<1>2. s \in Seq(ToSet(s) \cup ToSet(t)) /\ t \in Seq(ToSet(s) \cup ToSet(t))
  BY DEF IsSequence
<1>3. /\ u \in Seq(ToSet(s) \cup ToSet(t)) /\ Len(u) = Len(s) + Len(t)
      /\ \A i \in 1..Len(u) : u[i] = IF i <= Len(s) THEN s[i] ELSE t[i - Len(s)]
  BY <1>1, <1>2
<1>4. DOMAIN s = 1..Len(s) /\ DOMAIN t = 1..Len(t) /\ DOMAIN u = 1..Len(u) /\ Len(s) \in Nat /\ Len(t) \in Nat
  BY <1>2, <1>3
<1>5. ToSet(s) \subseteq ToSet(u)
  <2>1. \A i \in 1..Len(s) : i \in 1..Len(u) /\ u[i] = s[i]
    BY <1>3, <1>4
  <2> QED
    BY <1>4, <2>1 DEF ToSet
<1>6. ToSet(t) \subseteq ToSet(u)
  <2>1. \A i \in 1..Len(t) : Len(s) + i \in 1..Len(u) /\ u[Len(s) + i] = t[i]
    BY <1>3, <1>4
  <2> QED
    BY <1>4, <2>1 DEF ToSet
<1>7. ToSet(u) \subseteq ToSet(s) \cup ToSet(t)
  BY <1>3 DEF ToSet
<1>8. ToSet(u) = ToSet(s) \cup ToSet(t)
  BY <1>5, <1>6, <1>7
<1>9. s # <<>> => u # <<>>
  BY <1>2, <1>3, <1>4
<1> QED
  BY <1>1, <1>3, <1>8, <1>9 DEF IsSequence

(* What a variant keeps of a CV.                                             *)
KeepsSkills(skills, mine) == IsSequence(skills) /\ ToSet(mine) \subseteq ToSet(skills)
KeepsJobs(jobs, mine) ==
  /\ DOMAIN jobs = DOMAIN mine /\ Len(jobs) = Len(mine)
  /\ \A i \in DOMAIN mine :
       \/ Len(mine[i]) = 1 /\ jobs[i] # <<>>
       \/ \A line \in ToSet(mine[i]) : IsCovered(line, jobs[i])
KeepsCv(row, from) ==
  /\ row = [skills |-> row.skills, jobs |-> row.jobs, confirmed |-> row.confirmed]
  /\ KeepsSkills(row.skills, from.skills.skills) /\ KeepsJobs(row.jobs, from.jobs.jobs)
  /\ row.confirmed \in BOOLEAN

LEMMA SkillsAreKept ==
  ASSUME NEW skills, NEW given, IsSequence(skills), IsSequence(given)
  PROVE  KeepsSkills(ReconcileSkills(skills, given), skills)
<1>1. PICK names : names = [i \in DOMAIN given |-> Readable[given[i]]]
  OBVIOUS
<1>2. IsSequence(names)
  <2>1. DOMAIN given = 1..Len(given) /\ Len(given) \in Nat
    BY DEF IsSequence
  <2>2. DOMAIN names = 1..Len(given) /\ \A i \in 1..Len(given) : names[i] \in ToSet(names)
    BY <1>1, <2>1 DEF ToSet
  <2>3. names = [i \in 1..Len(given) |-> names[i]]
    BY <1>1, <2>1
  <2> QED
    BY <2>1, <2>2, <2>3 DEF IsSequence
<1>3. PICK new : new = AddedNames(skills, given)
  OBVIOUS
<1>4. IsSequence(new)
  BY <1>1, <1>2, <1>3, ElementsAreTaken DEF AddedNames
<1>5. IsSequence(FirstOfEach(new))
  BY <1>4, ElementsAreTaken DEF FirstOfEach
<1> QED
  BY <1>3, <1>5, BothPartsStay DEF ReconcileSkills, KeepsSkills

\* A line is similar to itself.
SelfSimilar(lines) == \A line \in ToSet(lines) : <<line, line>> \in Resembles

LEMMA LinesAsTheyAre ==
  ASSUME NEW lines, IsSequence(lines)
  PROVE  /\ IsSequence(Unchanged(lines))
         /\ SelfSimilar(lines) => \A line \in ToSet(lines) : IsCovered(line, Unchanged(lines))
         /\ lines # <<>> => Unchanged(lines) # <<>>
<1>1. DOMAIN lines = 1..Len(lines) /\ Len(lines) \in Nat
  BY DEF IsSequence
<1>2. PICK U : U = Unchanged(lines)
  OBVIOUS
<1>3. /\ U = [i \in 1..Len(lines) |-> U[i]] /\ DOMAIN U = 1..Len(lines)
      /\ \A i \in 1..Len(lines) : U[i].text = lines[i]
  BY <1>2 DEF Unchanged, Bullet
<1>4. \A i \in 1..Len(lines) : U[i] \in ToSet(U)
  BY <1>3 DEF ToSet
<1>5. IsSequence(U)
  BY <1>1, <1>3, <1>4 DEF IsSequence
<1>6. SelfSimilar(lines) => \A line \in ToSet(lines) : IsCovered(line, U)
  BY <1>1, <1>3, <1>4 DEF IsCovered, SelfSimilar, ToSet
<1>7. lines # <<>> => U # <<>>
  <2>1. lines # <<>> => Len(lines) # 0
    BY DEF IsSequence
  <2>2. U = <<>> => DOMAIN U = {}
    OBVIOUS
  <2> QED
    BY <1>1, <1>3, <2>1, <2>2
<1> QED
  BY <1>2, <1>5, <1>6, <1>7

(* One job: the rewritten bullets and the lines they left out cover its lines.    *)
LEMMA JobIsKept ==
  ASSUME NEW lines, NEW bullets, IsSequence(lines), IsSequence(bullets), SelfSimilar(lines)
  PROVE  LET taken == ReconcileOne(lines, bullets)
         IN  \/ Len(lines) = 1 /\ taken # <<>>
             \/ \A line \in ToSet(lines) : IsCovered(line, taken)
<1>1. CASE bullets = <<>>
  BY <1>1, LinesAsTheyAre DEF ReconcileOne
<1>2. CASE bullets # <<>> /\ Len(lines) < 2
  <2>1. LeftOut(lines, bullets) = <<>>
    BY <1>2 DEF LeftOut
  <2>2. IsSequence(<<>>)
    BY DEF IsSequence
  <2>3. ReconcileOne(lines, bullets) # <<>>
    BY <1>2, <2>1, <2>2, LinesAsTheyAre, BothPartsStay DEF ReconcileOne
  <2>4. Len(lines) = 1 \/ ToSet(lines) = {}
    <3>1. DOMAIN lines = 1..Len(lines) /\ Len(lines) \in Nat
      BY DEF IsSequence
    <3>2. CASE Len(lines) = 0
      <4>1. 1..Len(lines) = {}
        BY <3>2
      <4> QED
        BY <3>1, <4>1 DEF ToSet
    <3> QED
      BY <1>2, <3>1, <3>2
  <2> QED
    BY <2>3, <2>4
<1>3. CASE bullets # <<>> /\ ~(Len(lines) < 2)
  <2>1. PICK P : P = {i \in DOMAIN lines : ~IsCovered(lines[i], bullets)}
    OBVIOUS
  <2>2. PICK out : out = ElementsAt(lines, P)
    OBVIOUS
  <2>3. IsSequence(out) /\ \A i \in P : lines[i] \in ToSet(out)
    BY <2>1, <2>2, ElementsAreTaken
  <2>4. PICK taken : taken = bullets \o Unchanged(out)
    OBVIOUS
  <2>5. ReconcileOne(lines, bullets) = taken
    BY <1>3, <2>1, <2>2, <2>4 DEF ReconcileOne, LeftOut
  <2>6. ToSet(taken) = ToSet(bullets) \cup ToSet(Unchanged(out))
    BY <2>3, <2>4, LinesAsTheyAre, BothPartsStay
  <2>7. \A line \in ToSet(out) \cap ToSet(lines) : IsCovered(line, Unchanged(out))
    <3>1. DOMAIN out = 1..Len(out)
      BY <2>3 DEF IsSequence
    <3>2. \A n \in 1..Len(out) : Unchanged(out)[n] \in ToSet(Unchanged(out)) /\ Unchanged(out)[n].text = out[n]
      BY DEF Unchanged, Bullet, ToSet
    <3> QED
      BY <3>1, <3>2 DEF IsCovered, SelfSimilar, ToSet
  <2>8. \A line : IsCovered(line, bullets) \/ IsCovered(line, Unchanged(out)) => IsCovered(line, taken)
    BY <2>6 DEF IsCovered
  <2>9. ASSUME NEW i \in DOMAIN lines PROVE IsCovered(lines[i], taken)
    <3>1. lines[i] \in ToSet(lines)
      BY DEF ToSet
    <3> QED
      BY <2>1, <2>3, <2>7, <2>8, <3>1
  <2>10. \A line \in ToSet(lines) : IsCovered(line, taken)
    BY <2>9 DEF ToSet
  <2> QED
    BY <2>5, <2>10
<1> QED
  BY <1>1, <1>2, <1>3

LEMMA JobsAreKept ==
  ASSUME NEW jobs, NEW given, IsSequence(jobs), \A i \in DOMAIN jobs : IsSequence(jobs[i]) /\ SelfSimilar(jobs[i]),
         \A i \in DOMAIN given : IsSequence(given[i])
  PROVE  KeepsJobs(ReconcileExperiences(jobs, given), jobs)
<1>1. DOMAIN jobs = 1..Len(jobs) /\ Len(jobs) \in Nat
  BY DEF IsSequence
<1>2. PICK R : R = ReconcileExperiences(jobs, given)
  OBVIOUS
<1>3. R = [i \in 1..Len(jobs) |-> R[i]] /\ DOMAIN R = 1..Len(jobs)
  BY <1>2 DEF ReconcileExperiences
<1>4. Len(R) = Len(jobs)
  <2>1. R \in Seq({R[i] : i \in 1..Len(jobs)})
    BY <1>1, <1>3
  <2> QED
    BY <1>1, <1>3, <2>1
<1>5. IsSequence(<<>>)
  BY DEF IsSequence
<1>6. \A i \in DOMAIN jobs :
        LET bullets == IF i \in DOMAIN given THEN given[i] ELSE <<>>
        IN  IsSequence(bullets) /\ R[i] = ReconcileOne(jobs[i], bullets)
  BY <1>1, <1>2, <1>5 DEF ReconcileExperiences
<1> QED
  BY <1>1, <1>2, <1>3, <1>4, <1>6, JobIsKept DEF KeepsJobs

-------------------------------------------------------------------------------
Calling == {r \in Requests : asking[r].pc = "calling"}

(* A request that read a row still finds one: rows are never taken away here.    *)
(* Each call under way is among those the model may still be paid for.          *)
CvInv ==
  /\ cv \in Cvs
  /\ madeFrom.skills \in Cvs /\ madeFrom.jobs \in Cvs /\ DOMAIN madeFrom = {"skills", "jobs"}
  /\ variant # NoVariant => KeepsCv(variant, madeFrom)
  /\ DOMAIN asking = Requests
  /\ \A r \in Requests :
       /\ DOMAIN asking[r] = {"pc", "of", "saw", "tries"}
       /\ asking[r].of \in Cvs \cup {NoCv} /\ (asking[r].pc = "calling" => asking[r].of \in Cvs)
       /\ asking[r].pc \in {"idle", "calling"} /\ asking[r].tries \in 0..CallAttempts
       /\ asking[r].saw # NoVariant => variant # NoVariant
  /\ calls \in Nat /\ calls + Cardinality(Calling) <= MaxCalls

LEMMA ARowIsNoNoVariant ==
  ASSUME NEW row, NEW mine, KeepsCv(row, mine)
  PROVE  row # NoVariant
<1>1. "skills" \in DOMAIN row /\ "skills" \notin DOMAIN NoVariant
  BY DEF KeepsCv, NoVariant
<1> QED
  BY <1>1

LEMMA CvStarts == CvInit => CvInv
<1> SUFFICES ASSUME CvInit PROVE CvInv
  OBVIOUS
<1>1. Calling = {} /\ Cardinality(Calling) = 0
  <2>1. Calling = {}
    BY DEF CvInit, Calling, Quiet0
  <2> QED
    BY <2>1, FS_EmptySet
<1>2. ASSUME variant # NoVariant PROVE KeepsCv(variant, madeFrom)
  <2>1. PICK c : c = cv /\ c \in Cvs
    BY DEF CvInit
  <2>2. variant = [skills |-> c.skills \o OldSkills, jobs |-> ReconcileExperiences(c.jobs, <<>>),
                   confirmed |-> FALSE]
    BY <1>2, <2>1 DEF CvInit, OldRows
  <2>3. KeepsSkills(c.skills \o OldSkills, c.skills)
    BY <2>1, CvConstants, BothPartsStay DEF KeepsSkills
  <2>4. KeepsJobs(ReconcileExperiences(c.jobs, <<>>), c.jobs)
    <3>1. \A i \in DOMAIN <<>> : IsSequence(<<>>[i])
      OBVIOUS
    <3>2. IsSequence(c.jobs) /\ \A i \in DOMAIN c.jobs : IsSequence(c.jobs[i]) /\ SelfSimilar(c.jobs[i])
      BY <2>1, CvConstants DEF SelfSimilar
    <3>3. PICK none : none = <<>> /\ \A i \in DOMAIN none : IsSequence(none[i])
      BY <3>1
    <3> QED
      BY <3>2, <3>3, JobsAreKept
  <2>5. madeFrom.skills = c /\ madeFrom.jobs = c
    <3>1. madeFrom = [skills |-> cv, jobs |-> cv]
      BY DEF CvInit
    <3> QED
      BY <2>1, <3>1
  <2> QED
    BY <2>2, <2>3, <2>4, <2>5 DEF KeepsCv
<1> QED
  BY <1>1, <1>2, CvConstants DEF CvInit, CvInv, Quiet0

(* What is made of an answer keeps the CV.                                    *)
LEMMA AnswersAreReconciled ==
  ASSUME NEW c \in Cvs, NEW a \in Answers
  PROVE  KeepsSkills(Made(c, a).skills, c.skills) /\ KeepsJobs(Made(c, a).jobs, c.jobs)
<1>1. KeepsSkills(ReconcileSkills(c.skills, a.skills), c.skills)
  BY CvConstants, SkillsAreKept
<1>2. KeepsJobs(ReconcileExperiences(c.jobs, a.jobs), c.jobs)
  BY CvConstants, JobsAreKept DEF SelfSimilar
<1> QED
  BY <1>1, <1>2 DEF Made

\* The calls under way when one request moves.
LEMMA CallsUnderWay ==
  ASSUME CvInv, NEW r \in Requests, NEW x, asking' = [asking EXCEPT ![r] = x]
  PROVE  /\ IsFiniteSet(Calling) /\ Cardinality(Calling) \in Nat /\ Cardinality(Calling') \in Nat
         /\ asking[r].pc = "calling" /\ x.pc = "calling" => Calling' = Calling
         /\ asking[r].pc = "idle" /\ x.pc = "calling" => Cardinality(Calling') = Cardinality(Calling) + 1
         /\ asking[r].pc = "calling" /\ x.pc = "idle" => Cardinality(Calling') = Cardinality(Calling) - 1
<1>1. IsFiniteSet(Calling) /\ Cardinality(Calling) \in Nat
  BY CvConstants, FS_Subset, FS_CardinalityType DEF Calling
<1>2. IsFiniteSet(Calling') /\ Cardinality(Calling') \in Nat
  BY CvConstants, FS_Subset, FS_CardinalityType DEF Calling
<1>3. DOMAIN asking = Requests
  BY DEF CvInv
<1>4. CASE asking[r].pc = "calling" /\ x.pc = "calling"
  <2>1. Calling' = Calling
    BY <1>3, <1>4 DEF Calling
  <2> QED
    BY <1>1, <1>2, <1>4, <2>1
<1>5. CASE asking[r].pc = "idle" /\ x.pc = "calling"
  <2>1. Calling' = Calling \cup {r} /\ r \notin Calling
    BY <1>3, <1>5 DEF Calling
  <2> QED
    BY <1>1, <1>2, <1>5, <2>1, FS_AddElement
<1>6. CASE asking[r].pc = "calling" /\ x.pc = "idle"
  <2>1. Calling' = Calling \ {r} /\ r \in Calling
    BY <1>3, <1>6 DEF Calling
  <2> QED
    BY <1>1, <1>2, <1>6, <2>1, FS_RemoveElement
<1> QED
  BY <1>1, <1>2, <1>4, <1>5, <1>6

LEMMA CvStep == CvInv /\ [CvNext]_cvVars => CvInv'
<1> SUFFICES ASSUME CvInv, [CvNext]_cvVars PROVE CvInv'
  OBVIOUS
<1> USE CvConstants
<1>1. ASSUME NEW r \in Requests, Generate(r) PROVE CvInv'
  <2>1. CASE UNCHANGED asking
    <3>1. Calling' = Calling
      BY <2>1 DEF Calling
    <3> QED
      BY <1>1, <2>1, <3>1 DEF CvInv, Generate
  <2>2. CASE ~UNCHANGED asking
    <3>1. PICK x : x = [pc |-> "calling", of |-> cv, saw |-> variant, tries |-> 1]
      OBVIOUS
    <3>2. /\ asking' = [asking EXCEPT ![r] = x] /\ asking[r].pc = "idle" /\ x.pc = "calling"
          /\ DOMAIN x = {"pc", "of", "saw", "tries"} /\ x.saw = variant /\ x.of = cv /\ x.tries \in 0..CallAttempts
          /\ calls + Cardinality({q \in Requests : asking[q].pc = "calling"}) < MaxCalls
          /\ UNCHANGED <<cv, variant, madeFrom, calls>>
      BY <1>1, <2>2, <3>1 DEF Generate
    <3>3. calls + Cardinality(Calling) < MaxCalls
      BY <3>2 DEF Calling
    <3>4. Cardinality(Calling') = Cardinality(Calling) + 1 /\ Cardinality(Calling) \in Nat
      BY <3>2, CallsUnderWay
    <3>5. calls' + Cardinality(Calling)' <= MaxCalls
      BY <3>2, <3>3, <3>4 DEF CvInv
    <3> QED
      BY <3>2, <3>5 DEF CvInv
  <2> QED
    BY <2>1, <2>2
<1>2. ASSUME NEW r \in Requests, CallFails(r) PROVE CvInv'
  <2>1. PICK x : /\ asking' = [asking EXCEPT ![r] = x]
                 /\ \/ asking[r].tries < CallAttempts /\ x = [asking[r] EXCEPT !.tries = @ + 1]
                    \/ x = Quiet0
    BY <1>2 DEF CallFails
  <2>2. /\ DOMAIN x = {"pc", "of", "saw", "tries"} /\ x.pc \in {"idle", "calling"}
        /\ x.of \in Cvs \cup {NoCv} /\ (x.pc = "calling" => x.of \in Cvs)
        /\ x.tries \in 0..CallAttempts /\ (x.saw # NoVariant => variant # NoVariant)
    <3>1. CASE x = Quiet0
      BY <3>1 DEF Quiet0
    <3>2. CASE asking[r].tries < CallAttempts /\ x = [asking[r] EXCEPT !.tries = @ + 1]
      BY <3>2 DEF CvInv
    <3> QED
      BY <2>1, <3>1, <3>2
  <2>3. UNCHANGED <<cv, variant, madeFrom, calls>> /\ asking[r].pc = "calling"
    BY <1>2 DEF CallFails
  <2>4. calls' + Cardinality(Calling') <= MaxCalls
    <3>1. CASE x.pc = "calling"
      <4>1. Calling' = Calling
        BY <2>1, <2>2, <2>3, <3>1, CallsUnderWay DEF CvInv
      <4> QED
        BY <2>3, <4>1 DEF CvInv
    <3>2. CASE x.pc = "idle"
      <4>1. Cardinality(Calling') = Cardinality(Calling) - 1 /\ Cardinality(Calling) \in Nat
        BY <2>1, <2>2, <2>3, <3>2, CallsUnderWay DEF CvInv
      <4>2. calls \in Nat /\ MaxCalls \in Nat /\ calls + Cardinality(Calling) <= MaxCalls
        BY CvConstants DEF CvInv
      <4> QED
        BY <2>3, <4>1, <4>2
    <3> QED
      BY <2>2, <3>1, <3>2
  <2> QED
    BY <2>1, <2>2, <2>3, <2>4 DEF CvInv
<1>3. ASSUME NEW r \in Requests, asking' = [asking EXCEPT ![r] = Quiet0], asking[r].pc = "calling",
             calls' = calls + 1, cv' = cv,
             variant # NoVariant => variant' # NoVariant,
             madeFrom'.skills \in Cvs, madeFrom'.jobs \in Cvs, DOMAIN madeFrom' = {"skills", "jobs"},
             variant' # NoVariant => KeepsCv(variant', madeFrom')
      PROVE  CvInv'
  <2>1. PICK x : x = Quiet0
    OBVIOUS
  <2>2. /\ DOMAIN x = {"pc", "of", "saw", "tries"} /\ x.pc = "idle" /\ x.of = NoCv
        /\ x.tries \in 0..CallAttempts /\ x.saw = NoVariant /\ asking' = [asking EXCEPT ![r] = x]
    BY <1>3, <2>1 DEF Quiet0
  <2>3. Cardinality(Calling') = Cardinality(Calling) - 1 /\ Cardinality(Calling) \in Nat
    BY <1>3, <2>2, CallsUnderWay
  <2>4. calls' \in Nat /\ calls' + Cardinality(Calling)' <= MaxCalls
    BY <1>3, <2>3 DEF CvInv
  <2> QED
    BY <1>3, <2>2, <2>4 DEF CvInv
<1>4. ASSUME NEW r \in Requests, Unreadable(r) PROVE CvInv'
  BY <1>3, <1>4 DEF Unreadable, CvInv
<1>5. ASSUME NEW r \in Requests, NEW a \in Answers, Store(r, a) PROVE CvInv'
  <2>1. PICK mine : mine = asking[r].of /\ mine \in Cvs
    BY <1>5 DEF Store, CvInv
  <2>2. PICK new : new = Made(mine, a)
    OBVIOUS
  <2>3. KeepsSkills(new.skills, mine.skills) /\ KeepsJobs(new.jobs, mine.jobs)
    BY <2>1, <2>2, AnswersAreReconciled
  <2>4. /\ asking' = [asking EXCEPT ![r] = Quiet0] /\ asking[r].pc = "calling"
        /\ calls' = calls + 1 /\ cv' = cv
        /\ \/ /\ asking[r].saw # NoVariant /\ variant' = UpdatedRow(asking[r].saw, new)
              /\ madeFrom' = UpdatedSource(asking[r].saw, new, mine)
           \/ /\ variant' = [skills |-> new.skills, jobs |-> new.jobs, confirmed |-> FALSE]
              /\ madeFrom' = [skills |-> mine, jobs |-> mine]
           \/ variant' = variant /\ madeFrom' = madeFrom
    BY <1>5, <2>1, <2>2 DEF Store
  <2>5. madeFrom'.skills \in Cvs /\ madeFrom'.jobs \in Cvs /\ DOMAIN madeFrom' = {"skills", "jobs"}
    BY <2>1, <2>4 DEF CvInv, UpdatedSource
  <2>6. ASSUME KeepsCv(variant', madeFrom') PROVE CvInv'
    BY <1>3, <2>4, <2>5, <2>6, ARowIsNoNoVariant
  <2>7. CASE /\ asking[r].saw # NoVariant /\ variant' = UpdatedRow(asking[r].saw, new)
             /\ madeFrom' = UpdatedSource(asking[r].saw, new, mine)
    <3>1. KeepsCv(variant, madeFrom)
      BY <2>7 DEF CvInv
    <3>2. KeepsCv(variant', madeFrom')
      BY <2>3, <2>7, <3>1 DEF KeepsCv, UpdatedRow, UpdatedSource, ColumnChanged
    <3> QED
      BY <2>6, <3>2
  <2>8. CASE /\ variant' = [skills |-> new.skills, jobs |-> new.jobs, confirmed |-> FALSE]
             /\ madeFrom' = [skills |-> mine, jobs |-> mine]
    <3>1. KeepsCv(variant', madeFrom')
      BY <2>3, <2>8 DEF KeepsCv
    <3> QED
      BY <2>6, <3>1
  <2>9. CASE variant' = variant /\ madeFrom' = madeFrom
    BY <1>3, <2>4, <2>5, <2>9 DEF CvInv
  <2> QED
    BY <2>4, <2>7, <2>8, <2>9
<1>6. CASE ConfirmVariant
  <2>1. KeepsCv(variant, madeFrom) /\ variant' = [variant EXCEPT !.confirmed = TRUE]
        /\ UNCHANGED <<cv, madeFrom, asking, calls>>
    BY <1>6 DEF ConfirmVariant, CvInv
  <2>2. PICK row : row = variant'
    OBVIOUS
  <2>3. KeepsCv(row, madeFrom)
    <3>1. /\ row = [skills |-> row.skills, jobs |-> row.jobs, confirmed |-> row.confirmed]
          /\ row.skills = variant.skills /\ row.jobs = variant.jobs /\ row.confirmed = TRUE
      BY <2>1, <2>2 DEF KeepsCv
    <3> QED
      BY <2>1, <3>1 DEF KeepsCv
  <2>4. Calling' = Calling
    BY <2>1 DEF Calling
  <2> QED
    BY <2>1, <2>2, <2>3, <2>4, ARowIsNoNoVariant DEF CvInv
<1>7. CASE GetVariant \/ CvReplaced \/ OfferPurged \/ UNCHANGED cvVars
  <2>1. UNCHANGED <<variant, madeFrom, asking, calls>> /\ cv' \in Cvs
    BY <1>7 DEF GetVariant, CvReplaced, OfferPurged, cvVars, CvInv
  <2>2. Calling' = Calling
    BY <2>1 DEF Calling
  <2> QED
    BY <2>1, <2>2 DEF CvInv
<1> QED
  BY <1>1, <1>2, <1>4, <1>5, <1>6, <1>7 DEF CvNext

LEMMA CvTyped == CvInv => CvTypeOK
<1> SUFFICES ASSUME CvInv PROVE CvTypeOK
  OBVIOUS
<1>1. Cardinality(Calling) \in Nat
  BY CvConstants, FS_Subset, FS_CardinalityType DEF Calling
<1> QED
  BY <1>1, CvConstants DEF CvInv, CvTypeOK, KeepsCv, KeepsJobs

(* Whatever the model answers, and however many requests store their answers at  *)
(* once, no job, no line of a listed job and no skill of the CV is missing from  *)
(* the stored variant.                                                       *)
THEOREM VariantsLoseNothing == CvSpec => []NothingLost
<1>1. CvInv => NothingLost
  BY DEF CvInv, NothingLost, KeepsCv, KeepsSkills, KeepsJobs
<1> QED
  BY <1>1, CvStarts, CvStep, PTL DEF CvSpec

-------------------------------------------------------------------------------
(* The rate limiter                                                          *)

(* The requests between their two round trips, and those of them that will be   *)
(* let through.                                                              *)
OpenHits == {c \in Callers : hit[c].pc # "idle"}
WillPass == {c \in Callers : hit[c].pc # "idle" /\ hit[c].count <= Times}

RateTyped ==
  /\ backend \in {"redis", "memory"}
  /\ second \in 0..Clock /\ restarts \in 0..MaxRestarts /\ answered \in Nat /\ admitted \in Nat
  /\ DOMAIN counter = {"count", "end"} /\ counter.count \in Nat /\ counter.end \in 0..NoExpiry
  /\ DOMAIN hit = Callers
  /\ \A c \in Callers : hit[c].pc \in {"idle", "expiring"} /\ hit[c].count \in Nat

(* A hit under way keeps the key it counted in, and each hit let through, or     *)
(* about to be, took one of the first Times values of that key's count.         *)
RateInv ==
  /\ RateTyped
  /\ ~InRedis => (\A c \in Callers : hit[c].pc = "idle") /\ counter.end # NoExpiry
  /\ \A c \in Callers : hit[c].pc # "idle" => Alive(counter)
  /\ counter.count <= answered + Cardinality(OpenHits) + restarts
  /\ answered + Cardinality(OpenHits) <= Hits
  /\ admitted + Cardinality(WillPass) <= counter.count
  /\ admitted + Cardinality(WillPass) <= Times

LEMMA HitsAreFinite ==
  /\ IsFiniteSet(OpenHits) /\ Cardinality(OpenHits) \in Nat
  /\ IsFiniteSet(WillPass) /\ Cardinality(WillPass) \in Nat
<1>1. IsFiniteSet(OpenHits) /\ IsFiniteSet(WillPass)
  BY RateAssumption, FS_Subset DEF OpenHits, WillPass
<1> QED
  BY <1>1, FS_CardinalityType

\* Where no hit is under way the two sets are empty.
LEMMA NobodyHits ==
  ASSUME \A c \in Callers : hit[c].pc = "idle"
  PROVE  Cardinality(OpenHits) = 0 /\ Cardinality(WillPass) = 0
<1>1. OpenHits = {} /\ WillPass = {}
  BY DEF OpenHits, WillPass
<1> QED
  BY <1>1, FS_EmptySet

LEMMA RateStarts == RateInit => RateInv
<1> SUFFICES ASSUME RateInit PROVE RateInv
  OBVIOUS
<1>1. Cardinality(OpenHits) = 0 /\ Cardinality(WillPass) = 0
  BY NobodyHits DEF RateInit, NoHit
<1> QED
  BY <1>1, RateAssumption DEF RateInit, RateInv, RateTyped, NoKey, NoHit, NoExpiry, InRedis

LEMMA RateInMemory == RateInv /\ MemoryHit => RateInv'
<1> SUFFICES ASSUME RateInv, MemoryHit PROVE RateInv'
  OBVIOUS
<1>1. (\A c \in Callers : hit[c].pc = "idle") /\ UNCHANGED <<backend, second, hit, restarts>>
  BY DEF RateInv, MemoryHit
<1>2. Cardinality(OpenHits) = 0 /\ Cardinality(WillPass) = 0
  BY <1>1, NobodyHits
<1>3. Cardinality(OpenHits)' = 0 /\ Cardinality(WillPass)' = 0
  BY <1>1, <1>2 DEF OpenHits, WillPass
<1>4. PICK count, end, expired :
        /\ counter' = [count |-> count, end |-> end] /\ expired \in BOOLEAN
        /\ count = IF expired THEN 1 ELSE counter.count + 1
        /\ end = IF expired THEN second + Window ELSE counter.end
        /\ admitted' = (IF expired THEN 0 ELSE admitted) + (IF Allowed(count) THEN 1 ELSE 0)
        /\ answered' = answered + 1 /\ answered < Hits
  BY DEF MemoryHit, Answer
<1>5. /\ counter'.count = count /\ counter'.end = end /\ DOMAIN counter' = {"count", "end"}
  BY <1>4
<1> QED
  BY <1>1, <1>2, <1>3, <1>4, <1>5, RateAssumption
  DEF RateInv, RateTyped, NoExpiry, InRedis, Allowed, MemoryHit

\* The hit that starts is one more of those under way, and of those that will
\* pass when its count is within the budget.
LEMMA HitStarts ==
  ASSUME NEW c \in Callers, hit[c].pc = "idle", DOMAIN hit = Callers,
         NEW h, hit' = [hit EXCEPT ![c] = h], h.pc = "expiring"
  PROVE  /\ Cardinality(OpenHits)' = Cardinality(OpenHits) + 1
         /\ Cardinality(WillPass)' = Cardinality(WillPass) + (IF h.count <= Times THEN 1 ELSE 0)
<1>1. OpenHits' = OpenHits \cup {c} /\ c \notin OpenHits /\ c \notin WillPass
  BY DEF OpenHits, WillPass
<1>2. WillPass' = IF h.count <= Times THEN WillPass \cup {c} ELSE WillPass
  BY DEF WillPass
<1>3. Cardinality(OpenHits \cup {c}) = Cardinality(OpenHits) + 1
  BY <1>1, HitsAreFinite, FS_AddElement
<1>4. Cardinality(WillPass \cup {c}) = Cardinality(WillPass) + 1
  BY <1>1, HitsAreFinite, FS_AddElement
<1> QED
  BY <1>1, <1>2, <1>3, <1>4, HitsAreFinite

\* The hit that ends, answered or killed, is one less.
LEMMA HitEnds ==
  ASSUME NEW c \in Callers, hit[c].pc # "idle", DOMAIN hit = Callers,
         hit' = [hit EXCEPT ![c] = NoHit]
  PROVE  /\ Cardinality(OpenHits)' = Cardinality(OpenHits) - 1
         /\ Cardinality(WillPass)' = Cardinality(WillPass) - (IF hit[c].count <= Times THEN 1 ELSE 0)
<1>1. OpenHits' = OpenHits \ {c} /\ c \in OpenHits /\ (c \in WillPass <=> hit[c].count <= Times)
  BY DEF OpenHits, WillPass, NoHit
<1>2. WillPass' = WillPass \ {c}
  BY DEF WillPass, NoHit
<1>3. Cardinality(OpenHits \ {c}) = Cardinality(OpenHits) - 1
  BY <1>1, HitsAreFinite, FS_RemoveElement
<1>4. Cardinality(WillPass \ {c}) = IF c \in WillPass THEN Cardinality(WillPass) - 1 ELSE Cardinality(WillPass)
  BY HitsAreFinite, FS_RemoveElement
<1> QED
  BY <1>1, <1>2, <1>3, <1>4, HitsAreFinite

LEMMA RateCounts ==
  ASSUME RateInv, NEW c \in Callers, RedisIncr(c)
  PROVE  RateInv'
<1> USE RateAssumption DEF RateInv, RateTyped
<1>1. PICK key : key = Now(counter)
  OBVIOUS
<1>2. /\ key.count \in Nat /\ key.end \in 0..NoExpiry
      /\ key.count # 0 => key = counter /\ Alive(counter)
      /\ key.count = 0 => ~Alive(counter)
  BY <1>1 DEF Now, NoKey, Alive, NoExpiry
<1>3. PICK new : new = [count |-> key.count + 1, end |-> IF key.count = 0 THEN NoExpiry ELSE key.end]
  OBVIOUS
<1>4. /\ new.count = key.count + 1 /\ new.end = (IF key.count = 0 THEN NoExpiry ELSE key.end)
      /\ DOMAIN new = {"count", "end"}
  BY <1>3
<1>5. /\ InRedis /\ hit[c].pc = "idle" /\ answered + Cardinality(OpenHits) < Hits /\ counter' = new
      /\ UNCHANGED <<backend, second, restarts>>
  BY <1>1, <1>3 DEF RedisIncr, InFlight, OpenHits
<1>6. new.end > second /\ new.count > 0 /\ new.end \in 0..NoExpiry /\ Alive(counter)'
  BY <1>2, <1>4, <1>5 DEF NoExpiry, Alive
<1>7. key.count = 0 => Cardinality(OpenHits) = 0 /\ Cardinality(WillPass) = 0
  BY <1>2, NobodyHits
<1>8. \/ /\ answered' = answered /\ admitted' = (IF new.count = 1 THEN 0 ELSE admitted)
         /\ hit' = [hit EXCEPT ![c] = [pc |-> "expiring", count |-> new.count, ttl |-> Window]]
      \/ /\ new.count # 1 /\ hit' = hit /\ answered' = answered + 1
         /\ admitted' = admitted + (IF new.count <= Times THEN 1 ELSE 0)
  BY <1>1, <1>2, <1>4 DEF RedisIncr, MustSetExpiry, Answer, Allowed
<1>9. CASE /\ answered' = answered /\ admitted' = (IF new.count = 1 THEN 0 ELSE admitted)
           /\ hit' = [hit EXCEPT ![c] = [pc |-> "expiring", count |-> new.count, ttl |-> Window]]
  <2>1. PICK h : h = [pc |-> "expiring", count |-> new.count, ttl |-> Window]
    OBVIOUS
  <2>2. h.pc = "expiring" /\ h.count = new.count /\ hit' = [hit EXCEPT ![c] = h]
    BY <1>9, <2>1
  <2>3. /\ Cardinality(OpenHits)' = Cardinality(OpenHits) + 1
        /\ Cardinality(WillPass)' = Cardinality(WillPass) + (IF new.count <= Times THEN 1 ELSE 0)
    BY <1>5, <2>2, HitStarts
  <2>4. DOMAIN hit' = Callers /\ \A d \in Callers : hit'[d].pc \in {"idle", "expiring"} /\ hit'[d].count \in Nat
    BY <1>2, <1>4, <2>2
  <2>5. CASE key.count = 0
    BY <1>2, <1>4, <1>5, <1>6, <1>7, <1>9, <2>3, <2>4, <2>5, HitsAreFinite DEF InRedis
  <2>6. CASE key.count # 0
    BY <1>2, <1>4, <1>5, <1>6, <1>9, <2>3, <2>4, <2>6, HitsAreFinite DEF InRedis
  <2> QED
    BY <2>5, <2>6
<1>10. CASE /\ new.count # 1 /\ hit' = hit /\ answered' = answered + 1
            /\ admitted' = admitted + (IF new.count <= Times THEN 1 ELSE 0)
  <2>1. Cardinality(OpenHits)' = Cardinality(OpenHits) /\ Cardinality(WillPass)' = Cardinality(WillPass)
    BY <1>10 DEF OpenHits, WillPass
  <2>2. key = counter
    BY <1>2, <1>4, <1>10
  <2> QED
    BY <1>2, <1>4, <1>5, <1>6, <1>10, <2>1, <2>2, HitsAreFinite DEF InRedis
<1> QED
  BY <1>8, <1>9, <1>10

LEMMA RateExpires ==
  ASSUME RateInv, NEW c \in Callers, RedisExpire(c) \/ Killed(c)
  PROVE  RateInv'
<1> USE RateAssumption DEF RateInv, RateTyped
<1>1. hit[c].pc # "idle" /\ hit' = [hit EXCEPT ![c] = NoHit] /\ UNCHANGED <<backend, second>>
  BY DEF RedisExpire, Killed
<1>2. /\ Cardinality(OpenHits)' = Cardinality(OpenHits) - 1
      /\ Cardinality(WillPass)' = Cardinality(WillPass) - (IF hit[c].count <= Times THEN 1 ELSE 0)
  BY <1>1, HitEnds
<1>3. \A d \in Callers : /\ hit'[d].pc \in {"idle", "expiring"} /\ hit'[d].count \in Nat
                         /\ hit'[d].pc # "idle" => hit[d].pc # "idle"
  BY <1>1 DEF NoHit
<1>4. /\ counter'.count = counter.count /\ DOMAIN counter' = {"count", "end"}
      /\ counter'.end \in 0..NoExpiry /\ Alive(counter)'
  <2>1. Alive(counter) /\ (counter' = [counter EXCEPT !.end = second + Window] \/ counter' = counter)
    BY <1>1 DEF RedisExpire, Killed
  <2>2. CASE counter' = [counter EXCEPT !.end = second + Window]
    <3>1. counter'.count = counter.count /\ DOMAIN counter' = {"count", "end"} /\ counter'.end = second + Window
      BY <2>2
    <3> QED
      BY <1>1, <2>1, <3>1 DEF Alive, NoExpiry
  <2>3. CASE counter' = counter
    BY <1>1, <2>1, <2>3 DEF Alive
  <2> QED
    BY <2>1, <2>2, <2>3
<1>5. InRedis /\ InRedis'
  BY <1>1 DEF InRedis
<1>6. \/ /\ answered' = answered + 1 /\ restarts' = restarts
         /\ admitted' = admitted + (IF hit[c].count <= Times THEN 1 ELSE 0)
      \/ /\ answered' = answered /\ restarts' = restarts + 1 /\ restarts < MaxRestarts
         /\ admitted' = admitted
  BY DEF RedisExpire, Killed, Answer, Allowed
<1>7. DOMAIN hit' = Callers
  BY <1>1
<1> QED
  BY <1>1, <1>2, <1>3, <1>4, <1>5, <1>6, <1>7, HitsAreFinite

LEMMA RateClock == RateInv /\ SecondPasses => RateInv'
<1> SUFFICES ASSUME RateInv, SecondPasses PROVE RateInv'
  OBVIOUS
<1>1. OpenHits' = OpenHits /\ WillPass' = WillPass
  BY DEF SecondPasses, OpenHits, WillPass
<1> QED
  BY <1>1, RateAssumption DEF SecondPasses, RateInv, RateTyped, InRedis

LEMMA RateSteps == RateInv /\ [RateNext]_rateVars => RateInv'
<1>1. ASSUME RateInv, UNCHANGED rateVars PROVE RateInv'
  <2>1. OpenHits' = OpenHits /\ WillPass' = WillPass
    BY <1>1 DEF rateVars, OpenHits, WillPass
  <2> QED
    BY <1>1, <2>1 DEF rateVars, RateInv, RateTyped, InRedis, Alive
<1> QED
  BY <1>1, RateInMemory, RateCounts, RateExpires, RateClock DEF RateNext

LEMMA RateRetypes == RateInv => RateTypeOK
  BY RateAssumption, HitsAreFinite DEF RateInv, RateTyped, RateTypeOK

(* No more than Times requests pass while one key lives, and an answer given     *)
(* while no hit is under way leaves a key that expires: with either store,       *)
(* whatever processes die between their round trips, for any budget and window. *)
THEOREM BudgetHolds == RateSpec => LimitsAndForgets
<1>1. RateInv => admitted <= Times
  BY RateAssumption, HitsAreFinite DEF RateInv, RateTyped
<1>2. ASSUME RateInv, [RateNext]_rateVars, answered' > answered, \A c \in Callers : hit'[c].pc = "idle"
      PROVE  counter'.end # NoExpiry
  <2> USE RateAssumption DEF RateInv, RateTyped
  <2>1. CASE MemoryHit
    BY <1>2, <2>1 DEF MemoryHit, NoExpiry
  <2>2. ASSUME NEW c \in Callers, RedisIncr(c) PROVE counter'.end # NoExpiry
    BY <1>2, <2>2 DEF RedisIncr, MustSetExpiry
  <2>3. ASSUME NEW c \in Callers, RedisExpire(c) PROVE counter'.end # NoExpiry
    BY <1>2, <2>3 DEF RedisExpire, NoExpiry
  <2>4. CASE SecondPasses \/ UNCHANGED rateVars \/ \E c \in Callers : Killed(c)
    BY <1>2, <2>4 DEF SecondPasses, rateVars, Killed
  <2> QED
    BY <1>2, <2>1, <2>2, <2>3, <2>4 DEF RateNext
<1> QED
  BY <1>1, <1>2, RateStarts, RateSteps, PTL DEF RateSpec, LimitsAndForgets

-------------------------------------------------------------------------------
(* The order in which the modules start                                      *)

Deps(n) == ToSet(dependsOn[n])
Black(n) == colour[n] = "black"

Frames == [node : Names, left : Seq(Names \cup {Ghost})]
PathTyped == path \in Seq(Frames)

(* The path follows the dependencies and names a module once: it is the gray     *)
(* modules. Of a module on it, a dependency is still to look at, done, or the    *)
(* next on the path.                                                          *)
GrayPath ==
  /\ \A n \in Names : colour[n] = "gray" <=> \E i \in 1..Len(path) : path[i].node = n
  /\ \A i, j \in 1..Len(path) : path[i].node = path[j].node => i = j
LeftAreDeps == \A i \in 1..Len(path) : ToSet(path[i].left) \subseteq Deps(path[i].node)
NextIsDep == \A i, j \in 1..Len(path) : j = i + 1 => path[j].node \in Deps(path[i].node)
RestIsDone ==
  \A i \in 1..Len(path) : \A d \in Deps(path[i].node) :
    \/ d \in ToSet(path[i].left)
    \/ Black(d)
    \/ \E j \in 1..Len(path) : j = i + 1 /\ d = path[j].node
PathFollows == GrayPath /\ LeftAreDeps /\ NextIsDep /\ RestIsDone

(* What is done depends on what is done only, and closes no cycle.            *)
DoneIsAcyclic ==
  /\ \A n \in Names : Black(n) => \A d \in Deps(n) : d \in Names /\ Black(d)
  /\ \A S \in SUBSET Names :
       S # {} /\ (\A n \in S : Black(n)) => \E a \in S : \A b \in S : b \notin Deps(a)

GInv ==
  /\ \A n \in Names : dependsOn[n] \in Seq(Names \cup {Ghost})
  /\ DOMAIN colour = Names /\ \A n \in Names : colour[n] \in {"white", "gray", "black"}
  /\ PathTyped /\ PathFollows /\ DoneIsAcyclic
  /\ startUp \in {"checking", "ready", "circular", "unknown dependency"}
  /\ startUp \in {"checking", "ready"} => ~Unknown
  /\ startUp = "ready" => \A n \in Names : Black(n)
  /\ startUp = "circular" => Circular

LEMMA GraphStarts == GraphInit => GInv
<1> SUFFICES ASSUME GraphInit PROVE GInv
  OBVIOUS
<1>1. path = <<>> /\ Len(path) = 0 /\ \A n \in Names : colour[n] = "white"
  BY DEF GraphInit
<1>2. PathTyped /\ PathFollows
  BY <1>1 DEF PathTyped, Frames, PathFollows, GrayPath, LeftAreDeps, NextIsDep, RestIsDone
<1>3. DoneIsAcyclic
  BY <1>1 DEF DoneIsAcyclic, Black
<1>4. ASSUME NEW n \in Names PROVE dependsOn[n] \in Seq(Names \cup {Ghost})
  <2>1. dependsOn[n] \in Declarations
    BY DEF GraphInit
  <2>2. PICK k \in 0..2 : dependsOn[n] \in [1..k -> Names \cup {Ghost}]
    BY <2>1 DEF Declarations
  <2> QED
    BY <2>2
<1> QED
  BY <1>1, <1>2, <1>3, <1>4 DEF GraphInit, GInv

LEMMA GraphVisits ==
  ASSUME GInv, NEW n \in Names, StartVisit(n)
  PROVE  GInv'
<1>1. /\ path = <<>> /\ path' = <<[node |-> n, left |-> dependsOn[n]]>> /\ colour[n] = "white"
      /\ colour' = [colour EXCEPT ![n] = "gray"] /\ UNCHANGED <<dependsOn, startUp>>
  BY DEF StartVisit, Entering
<1>2. /\ Len(path) = 0 /\ Len(path') = 1 /\ path'[1].node = n /\ path'[1].left = dependsOn[n]
  BY <1>1
<1>3. \A m \in Names : Black(m)' <=> Black(m)
  BY <1>1 DEF GInv, Black
<1>4. PathTyped'
  <2>1. PICK v : v = [node |-> n, left |-> dependsOn[n]]
    OBVIOUS
  <2>2. v \in Frames
    BY <2>1 DEF Frames, GInv
  <2> QED
    BY <1>1, <2>1, <2>2 DEF PathTyped
<1>5. PathFollows'
  <2>1. \A m \in Names : colour'[m] = "gray" <=> m = n
    <3>1. \A m \in Names : colour[m] = "gray" => \E i \in 1..Len(path) : path[i].node = m
      BY DEF GInv, PathFollows, GrayPath, LeftAreDeps, NextIsDep, RestIsDone
    <3>2. \A m \in Names : colour[m] # "gray"
      <4>1. 1..Len(path) = {}
        BY <1>2
      <4> QED
        BY <3>1, <4>1
    <3> QED
      BY <1>1, <3>2 DEF GInv
  <2> QED
    BY <1>1, <1>2, <2>1 DEF PathFollows, GrayPath, LeftAreDeps, NextIsDep, RestIsDone, Deps
<1>6. DoneIsAcyclic'
  <2>1. \A m \in Names : Deps(m)' = Deps(m)
    BY <1>1 DEF Deps
  <2>2. DoneIsAcyclic
    BY DEF GInv
  <2> QED
    BY <1>3, <2>1, <2>2 DEF DoneIsAcyclic
<1>7. (Unknown' <=> Unknown) /\ (Circular' <=> Circular)
  BY <1>1 DEF Unknown, Circular, Edge
<1> QED
  BY <1>1, <1>3, <1>4, <1>5, <1>6, <1>7 DEF GInv, StartVisit

\* What the parts of the invariant say, for the steps that look into the path.
LEMMA OnThePath ==
  ASSUME GInv
  PROVE  /\ path \in Seq(Frames) /\ Len(path) \in Nat
         /\ \A i \in 1..Len(path) :
              /\ path[i] \in Frames /\ DOMAIN path[i] = {"node", "left"}
              /\ path[i].node \in Names /\ path[i].left \in Seq(Names \cup {Ghost})
              /\ colour[path[i].node] = "gray"
<1>0. path \in Seq(Frames)
  BY DEF GInv, PathTyped
<1>1. path \in Seq(Frames) /\ Len(path) \in Nat
  BY <1>0, LenProperties
<1>2. \A i \in 1..Len(path) : path[i] \in Frames
  BY <1>1
<1>3. \A v \in Frames : DOMAIN v = {"node", "left"} /\ v.node \in Names /\ v.left \in Seq(Names \cup {Ghost})
  BY DEF Frames
<1>4. \A i \in 1..Len(path) : colour[path[i].node] = "gray"
  BY <1>2, <1>3 DEF GInv, PathFollows, GrayPath, LeftAreDeps, NextIsDep, RestIsDone
<1> QED
  BY <1>1, <1>2, <1>3, <1>4

\* The list of a module without its first dependency.
LEMMA Remaining ==
  ASSUME NEW S, NEW s \in Seq(S), s # <<>>
  PROVE  /\ Head(s) \in S /\ Tail(s) \in Seq(S)
         /\ ToSet(s) = {Head(s)} \cup ToSet(Tail(s))
<1>1. Head(s) \in S /\ Tail(s) \in Seq(S) /\ Len(s) \in Nat \ {0} /\ Head(s) = s[1]
  BY HeadTailProperties
<1>2. Len(Tail(s)) = Len(s) - 1 /\ \A i \in 1..Len(Tail(s)) : Tail(s)[i] = s[i + 1]
  BY HeadTailProperties
<1>3. DOMAIN s = 1..Len(s) /\ DOMAIN Tail(s) = 1..(Len(s) - 1)
  BY <1>1, <1>2
<1>4. ASSUME NEW i \in 1..Len(s), i # 1 PROVE i - 1 \in 1..Len(Tail(s)) /\ s[i] = Tail(s)[i - 1]
  BY <1>1, <1>2, <1>4
<1>5. \A d \in ToSet(s) : d = Head(s) \/ d \in ToSet(Tail(s))
  <2>1. ASSUME NEW d \in ToSet(s) PROVE d = Head(s) \/ d \in ToSet(Tail(s))
    <3>1. PICK i \in 1..Len(s) : d = s[i]
      BY <1>3 DEF ToSet
    <3>2. CASE i = 1
      BY <1>1, <3>1, <3>2
    <3>3. CASE i # 1
      BY <1>2, <1>3, <1>4, <3>1, <3>3 DEF ToSet
    <3> QED
      BY <3>2, <3>3
  <2> QED
    BY <2>1
<1>6. \A d \in ToSet(Tail(s)) : d \in ToSet(s)
  BY <1>1, <1>2, <1>3 DEF ToSet
<1> QED
  BY <1>1, <1>3, <1>5, <1>6 DEF ToSet

\* A gray dependency of the module on top: the path from it to the top is a cycle.
LEMMA GrayIsACycle ==
  ASSUME GInv, path # <<>>, NEW d \in Deps(path[Len(path)].node), d \in Names, colour[d] = "gray"
  PROVE  Circular
<1>0. Len(path) \in 1..Len(path) /\ Len(path) \in Nat
  BY OnThePath, EmptySeq
<1>1. PICK j \in 1..Len(path) : path[j].node = d
  BY DEF GInv, PathFollows, GrayPath, LeftAreDeps, NextIsDep, RestIsDone
<1>2. PICK S : S = {path[i].node : i \in j..Len(path)}
  OBVIOUS
<1>3. S \in SUBSET Names /\ S # {}
  BY <1>0, <1>1, <1>2, OnThePath
<1>4. ASSUME NEW a \in S PROVE \E b \in S : b \in Deps(a)
  <2>1. PICK i \in j..Len(path) : a = path[i].node
    BY <1>2
  <2>2. CASE i = Len(path)
    BY <1>0, <1>1, <1>2, <2>1, <2>2
  <2>3. CASE i # Len(path)
    <3>1. i \in 1..Len(path) /\ i + 1 \in 1..Len(path) /\ i + 1 \in j..Len(path)
      BY <1>0, <2>3
    <3>2. path[i + 1].node \in Deps(path[i].node)
      BY <3>1 DEF GInv, PathFollows, GrayPath, LeftAreDeps, NextIsDep, RestIsDone
    <3> QED
      BY <1>2, <2>1, <3>1, <3>2
  <2> QED
    BY <2>2, <2>3
<1> QED
  BY <1>3, <1>4 DEF Circular, Edge, Deps

\* The path once the first dependency left to its top is taken from the list.
LEMMA TopLooks ==
  ASSUME GInv, path # <<>>, Top.left # <<>>
  PROVE  LET L == Len(path)
             rest == [path EXCEPT ![L].left = Tail(Top.left)]
         IN  /\ L \in 1..L /\ L \in Nat /\ Head(path[L].left) \in Names \cup {Ghost}
             /\ rest \in Seq(Frames) /\ Len(rest) = L
             /\ \A i \in 1..L : rest[i].node = path[i].node
             /\ \A i \in 1..L : i # L => rest[i] = path[i]
             /\ ToSet(path[L].left) = {Head(path[L].left)} \cup ToSet(rest[L].left)
<1> DEFINE L == Len(path)
<1>1. L \in 1..L /\ L \in Nat
  BY OnThePath, EmptySeq
<1>2. path[L] \in Frames /\ DOMAIN path[L] = {"node", "left"} /\ path[L].left \in Seq(Names \cup {Ghost})
  BY <1>1, OnThePath
<1>3. PICK top : top = [path[L] EXCEPT !.left = Tail(path[L].left)]
  OBVIOUS
<1>4. top.node = path[L].node /\ top.left = Tail(path[L].left)
  BY <1>2, <1>3
<1>5. /\ Head(path[L].left) \in Names \cup {Ghost} /\ Tail(path[L].left) \in Seq(Names \cup {Ghost})
      /\ ToSet(path[L].left) = {Head(path[L].left)} \cup ToSet(top.left)
  <2>1. path[L].left # <<>>
    BY DEF Top
  <2> QED
    BY <1>2, <1>4, <2>1, Remaining
<1>6. top \in Frames
  BY <1>2, <1>3, <1>5 DEF Frames
<1>7. PICK rest : rest = [path EXCEPT ![L] = top]
  OBVIOUS
<1>8. rest = [path EXCEPT ![L].left = Tail(Top.left)]
  BY <1>3, <1>7 DEF Top
<1>9. path \in Seq(Frames)
  BY OnThePath
<1>10. rest \in Seq(Frames) /\ Len(rest) = L /\ rest[L] = top /\ \A i \in 1..L : i # L => rest[i] = path[i]
  BY <1>1, <1>6, <1>7, <1>9, ExceptSeq
<1> QED
  BY <1>1, <1>4, <1>5, <1>8, <1>10

LEMMA GraphLooks ==
  ASSUME GInv, LookAt
  PROVE  GInv'
<1>0. PICK L : L = Len(path)
  OBVIOUS
<1> DEFINE dep == Head(path[L].left)
<1>1. PICK rest : rest = [path EXCEPT ![L].left = Tail(Top.left)]
  OBVIOUS
<1>2. path # <<>> /\ Top.left # <<>> /\ startUp = "checking" /\ UNCHANGED dependsOn /\ ~Unknown
  BY DEF LookAt, GInv
<1>3. /\ L \in 1..L /\ L \in Nat /\ dep \in Names \cup {Ghost}
      /\ rest \in Seq(Frames) /\ Len(rest) = L
      /\ \A i \in 1..L : rest[i].node = path[i].node
      /\ \A i \in 1..L : i # L => rest[i] = path[i]
      /\ ToSet(path[L].left) = {dep} \cup ToSet(rest[L].left)
  BY <1>0, <1>1, <1>2, TopLooks
<1>4. dep \in Deps(path[L].node) /\ dep \in Names
  <2>1. dep \in Deps(path[L].node)
    BY <1>0, <1>3 DEF GInv, PathFollows, GrayPath, LeftAreDeps, NextIsDep, RestIsDone
  <2>2. path[L].node \in Names
    BY <1>0, <1>3, OnThePath
  <2> QED
    BY <1>2, <1>3, <2>1, <2>2 DEF Unknown, Deps
<1>5. (Unknown' <=> Unknown) /\ (Circular' <=> Circular) /\ \A n : Deps(n)' = Deps(n)
  BY <1>2 DEF Unknown, Circular, Edge, Deps
\* What the path was.
<1>6. /\ \A n \in Names : colour[n] = "gray" <=> \E i \in 1..L : path[i].node = n
      /\ \A i, j \in 1..L : path[i].node = path[j].node => i = j
  BY <1>0 DEF GInv, PathFollows, GrayPath, LeftAreDeps, NextIsDep, RestIsDone
<1>7. \A i \in 1..L : ToSet(path[i].left) \subseteq Deps(path[i].node)
  BY <1>0 DEF GInv, PathFollows, GrayPath, LeftAreDeps, NextIsDep, RestIsDone
<1>8. \A i, j \in 1..L : j = i + 1 => path[j].node \in Deps(path[i].node)
  BY <1>0 DEF GInv, PathFollows, GrayPath, LeftAreDeps, NextIsDep, RestIsDone
<1>9. ASSUME NEW i \in 1..L, NEW d \in Deps(path[i].node)
      PROVE  d \in ToSet(path[i].left) \/ Black(d) \/ \E j \in 1..L : j = i + 1 /\ d = path[j].node
  BY <1>0, <1>9 DEF GInv, PathFollows, RestIsDone
<1>10. DoneIsAcyclic /\ path \in Seq(Frames)
  BY DEF GInv, PathTyped
<1>11. ASSUME \A n \in Names : Black(n)' <=> Black(n) PROVE DoneIsAcyclic'
  BY <1>5, <1>10, <1>11 DEF DoneIsAcyclic
<1>12. CASE colour[dep] = "gray"
  <2>1. startUp' = "circular" /\ UNCHANGED <<colour, path>>
    BY <1>0, <1>12 DEF LookAt, ClosesACycle, Top
  <2>2. Circular
    BY <1>0, <1>2, <1>4, <1>12, GrayIsACycle
  <2>3. PathTyped' /\ PathFollows'
    <3>1. GrayPath' /\ LeftAreDeps' /\ NextIsDep'
      BY <1>5, <2>1 DEF GInv, PathFollows, GrayPath, LeftAreDeps, NextIsDep
    <3>2. RestIsDone'
      <4>1. RestIsDone /\ \A n : Black(n)' <=> Black(n)
        BY <2>1 DEF GInv, PathFollows, Black
      <4> QED
        BY <1>5, <2>1, <4>1 DEF RestIsDone
    <3> QED
      BY <1>10, <2>1, <3>1, <3>2 DEF PathFollows, PathTyped
  <2>4. DoneIsAcyclic'
    BY <1>11, <2>1 DEF Black
  <2> QED
    BY <1>2, <1>5, <2>1, <2>2, <2>3, <2>4 DEF GInv
<1>13. CASE colour[dep] = "white"
  <2>1. PICK e : e = [node |-> dep, left |-> dependsOn[dep]]
    OBVIOUS
  <2>2. path' = Append(rest, e) /\ colour' = [colour EXCEPT ![dep] = "gray"] /\ startUp' = startUp
    BY <1>0, <1>1, <1>13, <2>1 DEF LookAt, ClosesACycle, Top, Entering
  <2>3. e \in Frames /\ e.node = dep /\ e.left = dependsOn[dep]
    BY <1>4, <2>1 DEF Frames, GInv
  <2>4. /\ path' \in Seq(Frames) /\ Len(path') = L + 1 /\ path'[L + 1] = e
        /\ \A i \in 1..L : path'[i] = rest[i]
    BY <1>3, <2>2, <2>3, AppendProperties
  <2>5. \A n \in Names : (Black(n)' <=> Black(n)) /\ (colour'[n] = "gray" <=> colour[n] = "gray" \/ n = dep)
    BY <1>4, <1>13, <2>2 DEF GInv, Black
  <2>6. \A i \in 1..L : /\ path'[i].node = path[i].node
                        /\ i # L => path'[i].left = path[i].left
                        /\ i = L => ToSet(path'[i].left) \cup {dep} = ToSet(path[i].left)
    BY <1>3, <2>4
  <2>7. path'[L + 1].node = dep /\ ToSet(path'[L + 1].left) = Deps(dep)
    BY <2>3, <2>4 DEF Deps
  <2>8. \A i \in 1..(L + 1) : i \in 1..L \/ i = L + 1
    BY <1>3
  <2>9. \A i \in 1..L : i \in 1..(L + 1) /\ path[i].node # dep
    BY <1>0, <1>3, <1>13, OnThePath
  <2>10. L + 1 \in 1..(L + 1) /\ L + 1 \notin 1..L
    BY <1>3
  <2>11. ASSUME NEW n \in Names
         PROVE  colour'[n] = "gray" <=> \E i \in 1..(L + 1) : path'[i].node = n
    BY <1>6, <2>5, <2>6, <2>7, <2>8, <2>9, <2>10
  <2>12. ASSUME NEW i \in 1..(L + 1), NEW j \in 1..(L + 1), path'[i].node = path'[j].node
         PROVE  i = j
    BY <1>6, <2>6, <2>7, <2>8, <2>9, <2>12
  <2>13. ASSUME NEW i \in 1..(L + 1) PROVE ToSet(path'[i].left) \subseteq Deps(path'[i].node)
    <3>1. CASE i = L + 1
      BY <2>7, <3>1
    <3>2. CASE i \in 1..L
      BY <1>7, <2>6, <3>2
    <3> QED
      BY <2>8, <3>1, <3>2
  <2>14. ASSUME NEW i \in 1..(L + 1), NEW j \in 1..(L + 1), j = i + 1
         PROVE  path'[j].node \in Deps(path'[i].node)
    <3>1. i \in 1..L
      BY <1>3, <2>14
    <3>2. CASE i = L
      BY <1>4, <2>6, <2>7, <2>14, <3>1, <3>2
    <3>3. CASE i # L
      <4>1. j \in 1..L
        BY <1>3, <2>14, <3>1, <3>3
      <4> QED
        BY <1>8, <2>6, <2>14, <3>1, <4>1
    <3> QED
      BY <3>2, <3>3
  <2>15. ASSUME NEW i \in 1..(L + 1), NEW d \in Deps(path'[i].node)
         PROVE  d \in ToSet(path'[i].left) \/ Black(d) \/ \E j \in 1..(L + 1) : j = i + 1 /\ d = path'[j].node
    <3>1. CASE i = L + 1
      BY <2>7, <2>15, <3>1
    <3>2. CASE i \in 1..L
      <4>1. d \in Deps(path[i].node)
        BY <2>6, <2>15, <3>2
      <4>2. CASE d \in ToSet(path[i].left)
        BY <1>3, <2>6, <2>7, <2>10, <3>2, <4>2
      <4>3. CASE \E j \in 1..L : j = i + 1 /\ d = path[j].node
        BY <2>6, <2>9, <4>3
      <4> QED
        BY <1>9, <3>2, <4>1, <4>2, <4>3
    <3> QED
      BY <2>8, <3>1, <3>2
  <2>16. \A i \in 1..(L + 1) : \A d \in Deps(path'[i].node) : Black(d) => Black(d)'
    <3>1. \A d : Black(d) => d # dep
      BY <1>13 DEF Black
    <3> QED
      BY <2>2, <3>1 DEF Black
  <2>17. PathFollows'
    <3>1. GrayPath' /\ LeftAreDeps' /\ NextIsDep'
      BY <1>5, <2>4, <2>11, <2>12, <2>13, <2>14 DEF GrayPath, LeftAreDeps, NextIsDep
    <3>2. RestIsDone'
      BY <1>5, <2>4, <2>15, <2>16 DEF RestIsDone
    <3> QED
      BY <3>1, <3>2 DEF PathFollows
  <2>18. PathTyped' /\ DoneIsAcyclic'
    BY <1>11, <2>4, <2>5 DEF PathTyped
  <2> QED
    BY <1>2, <1>4, <1>5, <2>2, <2>5, <2>17, <2>18 DEF GInv
<1>14. CASE colour[dep] = "black"
  <2>1. path' = rest /\ UNCHANGED <<colour, startUp>>
    BY <1>0, <1>1, <1>14 DEF LookAt, ClosesACycle, Top
  <2>2. \A i \in 1..L : /\ path'[i].node = path[i].node
                        /\ i # L => path'[i].left = path[i].left
                        /\ i = L => ToSet(path'[i].left) \cup {dep} = ToSet(path[i].left)
    BY <1>3, <2>1
  <2>3. \A i \in 1..L : ToSet(path'[i].left) \subseteq ToSet(path[i].left)
    BY <2>2
  <2>4. ASSUME NEW i \in 1..L, NEW d \in Deps(path[i].node)
        PROVE  d \in ToSet(path'[i].left) \/ Black(d) \/ \E j \in 1..L : j = i + 1 /\ d = path'[j].node
    <3>1. CASE d \in ToSet(path[i].left)
      BY <1>14, <2>2, <3>1 DEF Black
    <3>2. CASE \E j \in 1..L : j = i + 1 /\ d = path[j].node
      BY <2>2, <3>2
    <3> QED
      BY <1>9, <3>1, <3>2
  <2>5. Len(path') = L /\ \A n : Black(n)' <=> Black(n)
    BY <1>3, <2>1 DEF Black
  <2>6. PathFollows'
    <3>1. \A i \in 1..L : ToSet(path'[i].left) \subseteq Deps(path'[i].node)
      BY <1>7, <2>2, <2>3
    <3>2. \A i, j \in 1..L : j = i + 1 => path'[j].node \in Deps(path'[i].node)
      BY <1>8, <2>2
    <3>3. /\ \A n \in Names : colour'[n] = "gray" <=> \E i \in 1..L : path'[i].node = n
          /\ \A i, j \in 1..L : path'[i].node = path'[j].node => i = j
      BY <1>6, <2>1, <2>2
    <3>4. \A i \in 1..L : \A d \in Deps(path'[i].node) :
             d \in ToSet(path'[i].left) \/ Black(d) \/ \E j \in 1..L : j = i + 1 /\ d = path'[j].node
      BY <2>2, <2>4
    <3> QED
      <4>1. GrayPath' /\ LeftAreDeps' /\ NextIsDep'
        BY <1>5, <2>5, <3>1, <3>2, <3>3 DEF GrayPath, LeftAreDeps, NextIsDep
      <4>2. RestIsDone'
        BY <1>5, <2>5, <3>4 DEF RestIsDone
      <4> QED
        BY <4>1, <4>2 DEF PathFollows
  <2>7. PathTyped' /\ DoneIsAcyclic'
    BY <1>3, <1>11, <2>1, <2>5 DEF PathTyped
  <2> QED
    BY <1>2, <1>5, <2>1, <2>5, <2>6, <2>7 DEF GInv
<1> QED
  BY <1>4, <1>12, <1>13, <1>14 DEF GInv

\* The module on top is done: so is all it depends on, and nothing done before
\* depends on it.
LEMMA GraphLeaves ==
  ASSUME GInv, LeaveNode
  PROVE  GInv'
<1>0. PICK L : L = Len(path)
  OBVIOUS
<1>1. PICK n : n = path[L].node
  OBVIOUS
<1>2. /\ path # <<>> /\ path[L].left = <<>> /\ startUp = "checking" /\ UNCHANGED <<dependsOn, startUp>>
      /\ ~Unknown /\ colour' = [colour EXCEPT ![n] = "black"] /\ path' = SubSeq(path, 1, L - 1)
  BY <1>0, <1>1 DEF LeaveNode, Top, GInv
<1>3. L \in 1..L /\ L \in Nat /\ path \in Seq(Frames) /\ n \in Names /\ colour[n] = "gray"
  BY <1>0, <1>1, <1>2, OnThePath, EmptySeq
<1>4. (Unknown' <=> Unknown) /\ (Circular' <=> Circular) /\ \A m : Deps(m)' = Deps(m)
  BY <1>2 DEF Unknown, Circular, Edge, Deps
<1>5. /\ \A m \in Names : colour[m] = "gray" <=> \E i \in 1..L : path[i].node = m
      /\ \A i, j \in 1..L : path[i].node = path[j].node => i = j
  BY <1>0 DEF GInv, PathFollows, GrayPath
<1>6. \A i \in 1..L : ToSet(path[i].left) \subseteq Deps(path[i].node)
  BY <1>0 DEF GInv, PathFollows, LeftAreDeps
<1>7. \A i, j \in 1..L : j = i + 1 => path[j].node \in Deps(path[i].node)
  BY <1>0 DEF GInv, PathFollows, NextIsDep
<1>8. \A i \in 1..L : \A d \in Deps(path[i].node) :
        d \in ToSet(path[i].left) \/ Black(d) \/ \E j \in 1..L : j = i + 1 /\ d = path[j].node
  BY <1>0 DEF GInv, PathFollows, RestIsDone
<1>9. \A d \in Deps(n) : d \in Names /\ Black(d)
  <2>1. ToSet(path[L].left) = {}
    BY <1>2 DEF ToSet
  <2>2. L + 1 \notin 1..L
    BY <1>3
  <2>3. \A d \in Deps(n) : Black(d)
    BY <1>1, <1>3, <1>8, <2>1, <2>2
  <2>4. dependsOn[n] \in Seq(Names \cup {Ghost})
    BY <1>3 DEF GInv
  <2>5. \A d \in Deps(n) : d \in Names \cup {Ghost}
    BY <2>4 DEF Deps, ToSet
  <2> QED
    BY <1>2, <1>3, <2>3, <2>5 DEF Unknown, Deps
<1>10. \A m \in Names : Black(m)' <=> Black(m) \/ m = n
  BY <1>2, <1>3 DEF GInv, Black
<1>11. /\ path' \in Seq(Frames) /\ Len(path') = L - 1 /\ L - 1 \in Nat
       /\ \A i \in 1..(L - 1) : path'[i] = path[i] /\ i \in 1..L
  BY <1>0, <1>2, <1>3, SubSeqProperties
<1>12. PathFollows'
  <2>1. \A i \in 1..(L - 1) : path[i].node # n
    BY <1>1, <1>3, <1>5, <1>11
  <2>2. \A i \in 1..L : i \in 1..(L - 1) \/ i = L
    BY <1>3
  <2>3. GrayPath'
    <3>1. \A m \in Names : colour'[m] = "gray" <=> colour[m] = "gray" /\ m # n
      BY <1>2 DEF GInv
    <3>2. ASSUME NEW m \in Names
          PROVE  colour'[m] = "gray" <=> \E i \in 1..(L - 1) : path'[i].node = m
      BY <1>1, <1>5, <1>11, <2>1, <2>2, <3>1
    <3> QED
      BY <1>5, <1>11, <3>2 DEF GrayPath
  <2>4. LeftAreDeps' /\ NextIsDep'
    <3>1. \A i \in 1..(L - 1) : ToSet(path'[i].left) \subseteq Deps(path'[i].node)
      BY <1>6, <1>11
    <3>2. \A i, j \in 1..(L - 1) : j = i + 1 => path'[j].node \in Deps(path'[i].node)
      BY <1>7, <1>11
    <3> QED
      BY <1>4, <1>11, <3>1, <3>2 DEF LeftAreDeps, NextIsDep
  <2>5. RestIsDone'
    <3>1. ASSUME NEW i \in 1..(L - 1), NEW d \in Deps(path[i].node)
          PROVE  d \in ToSet(path[i].left) \/ Black(d)' \/ \E j \in 1..(L - 1) : j = i + 1 /\ d = path'[j].node
      <4>1. CASE Black(d)
        BY <1>2, <4>1 DEF Black, GInv
      <4>2. ASSUME NEW j \in 1..L, j = i + 1, d = path[j].node, j = L PROVE Black(d)'
        BY <1>1, <1>3, <1>10, <4>2
      <4>3. ASSUME NEW j \in 1..L, j = i + 1, d = path[j].node, j # L
            PROVE  \E k \in 1..(L - 1) : k = i + 1 /\ d = path'[k].node
        BY <1>11, <2>2, <4>3
      <4> QED
        BY <1>8, <1>11, <4>1, <4>2, <4>3
    <3> QED
      BY <1>4, <1>11, <3>1 DEF RestIsDone
  <2> QED
    BY <2>3, <2>4, <2>5 DEF PathFollows
<1>13. DoneIsAcyclic'
  <2>1. /\ \A m \in Names : Black(m) => \A d \in Deps(m) : d \in Names /\ Black(d)
        /\ \A S \in SUBSET Names :
             S # {} /\ (\A m \in S : Black(m)) => \E a \in S : \A b \in S : b \notin Deps(a)
    BY DEF GInv, DoneIsAcyclic
  <2>2. ~Black(n)
    BY <1>3 DEF Black
  <2>3. ASSUME NEW m \in Names, Black(m)', NEW d \in Deps(m) PROVE d \in Names /\ Black(d)'
    BY <1>9, <1>10, <2>1, <2>3
  <2>4. ASSUME NEW S \in SUBSET Names, S # {}, \A m \in S : Black(m)'
        PROVE  \E a \in S : \A b \in S : b \notin Deps(a)
    <3>1. CASE S \ {n} = {}
      BY <1>9, <2>2, <2>4, <3>1
    <3>2. CASE S \ {n} # {}
      <4>1. PICK T : T = S \ {n}
        OBVIOUS
      <4>2. T \in SUBSET Names /\ T # {} /\ \A m \in T : Black(m)
        BY <1>10, <2>4, <3>2, <4>1
      <4>3. PICK a \in T : \A b \in T : b \notin Deps(a)
        BY <2>1, <4>2
      <4>4. n \notin Deps(a)
        BY <2>1, <2>2, <4>2
      <4> QED
        BY <4>1, <4>3, <4>4
    <3> QED
      BY <3>1, <3>2
  <2> QED
    BY <1>4, <2>3, <2>4 DEF DoneIsAcyclic
<1>14. PathTyped'
  BY <1>11 DEF PathTyped
<1> QED
  BY <1>2, <1>3, <1>4, <1>12, <1>13, <1>14 DEF GInv

LEMMA GraphReady == GInv /\ Ready => GInv'
<1> SUFFICES ASSUME GInv, Ready PROVE GInv'
  OBVIOUS
<1>1. startUp = "checking" /\ startUp' = "ready" /\ UNCHANGED <<dependsOn, colour, path>>
      /\ \A n \in Names : Black(n)
  BY DEF Ready, Black
<1>2. (Unknown' <=> Unknown) /\ (\A m : Deps(m)' = Deps(m)) /\ (\A m : Black(m)' <=> Black(m))
  BY <1>1 DEF Unknown, Deps, Black
<1>3. DoneIsAcyclic' /\ PathTyped'
  BY <1>1, <1>2 DEF GInv, DoneIsAcyclic, PathTyped
<1>4. PathFollows'
  <2>1. GrayPath /\ LeftAreDeps /\ NextIsDep /\ RestIsDone
    BY DEF GInv, PathFollows
  <2>2. GrayPath' /\ LeftAreDeps' /\ NextIsDep'
    BY <1>1, <1>2, <2>1 DEF GrayPath, LeftAreDeps, NextIsDep
  <2>3. RestIsDone'
    BY <1>1, <1>2, <2>1 DEF RestIsDone
  <2> QED
    BY <2>2, <2>3 DEF PathFollows
<1> QED
  BY <1>1, <1>2, <1>3, <1>4 DEF GInv

LEMMA GraphRests == GInv /\ UNCHANGED graphVars => GInv'
<1> SUFFICES ASSUME GInv, UNCHANGED graphVars PROVE GInv'
  OBVIOUS
<1>1. UNCHANGED <<dependsOn, colour, path, startUp>>
  BY DEF graphVars
<1>2. /\ (Unknown' <=> Unknown) /\ (Circular' <=> Circular)
      /\ (\A m : Deps(m)' = Deps(m)) /\ (\A m : Black(m)' <=> Black(m))
  BY <1>1 DEF Unknown, Circular, Edge, Deps, Black
<1>3. DoneIsAcyclic' /\ PathTyped'
  BY <1>1, <1>2 DEF GInv, DoneIsAcyclic, PathTyped
<1>4. PathFollows'
  <2>1. GrayPath /\ LeftAreDeps /\ NextIsDep /\ RestIsDone
    BY DEF GInv, PathFollows
  <2>2. GrayPath' /\ LeftAreDeps' /\ NextIsDep'
    BY <1>1, <1>2, <2>1 DEF GrayPath, LeftAreDeps, NextIsDep
  <2>3. RestIsDone'
    BY <1>1, <1>2, <2>1 DEF RestIsDone
  <2> QED
    BY <2>2, <2>3 DEF PathFollows
<1> QED
  BY <1>1, <1>2, <1>3, <1>4 DEF GInv

LEMMA GraphInvariant == GraphSpec => []GInv
<1>1. GInv /\ [GraphNext]_graphVars => GInv'
  BY GraphVisits, GraphLooks, GraphLeaves, GraphReady, GraphRests DEF GraphNext
<1> QED
  BY <1>1, GraphStarts, PTL DEF GraphSpec

LEMMA GraphTyped == GInv => GraphTypeOK
<1> SUFFICES ASSUME GInv PROVE GraphTypeOK
  OBVIOUS
<1>1. \A n \in Names : colour[n] = "gray" <=> \E i \in 1..Len(path) : path[i].node = n
  BY DEF GInv, PathFollows, GrayPath
<1>2. DOMAIN path = 1..Len(path) /\ \A i \in 1..Len(path) : path[i].node \in Names
  BY OnThePath
<1> QED
  <2>1. {n \in Names : colour[n] = "gray"} = {path[i].node : i \in DOMAIN path}
    BY <1>1, <1>2
  <2> QED
    BY <2>1 DEF GInv, GraphTypeOK

(* The application starts on exactly the graphs without a cycle and without an    *)
(* unknown name, however many the modules and in whatever order they are visited: *)
(* what the walk has finished has no cycle, and a gray dependency closes one.     *)
THEOREM StartsOnAcyclicGraphs == GraphSpec => []StartsIffAcyclic
<1>1. GInv => StartsIffAcyclic
  <2> SUFFICES ASSUME GInv PROVE StartsIffAcyclic
    OBVIOUS
  <2>1. CASE startUp = "ready"
    <3>1. ASSUME NEW S \in SUBSET Names, S # {} PROVE \E a \in S : \A b \in S : ~Edge(a, b)
      BY <2>1, <3>1 DEF GInv, DoneIsAcyclic, Edge, Deps
    <3> QED
      BY <2>1, <3>1 DEF GInv, StartsIffAcyclic, Circular
  <2> QED
    BY <2>1 DEF GInv, StartsIffAcyclic
<1> QED
  BY <1>1, GraphInvariant, PTL

-------------------------------------------------------------------------------
(* The components side by side: each behaves as it does alone                *)

PeoplePartsStart ==
  /\ IncidentInit /\ AnnouncementInit /\ DeletionInit /\ AccountInit /\ WizardInit
  /\ CvInit /\ OppInit /\ RateInit /\ GraphInit /\ ScreensInit

\* A step moves one component and leaves the others: it is a step of each, or none.
LEMMA PeoplePartsStep ==
  ASSUME [PeopleNext]_peopleVars
  PROVE  /\ [IncidentNext]_incidentVars /\ [AnnouncementNext]_announcementVars
         /\ [DeletionNext]_deletionVars /\ [AccountNext]_accountVars /\ [WizardNext]_wizardVars
         /\ [CvNext]_cvVars /\ [OppNext]_oppVars /\ [RateNext]_rateVars /\ [GraphNext]_graphVars
         /\ [ScreensNext]_screenVars
<1>1. CASE UNCHANGED peopleVars
  BY <1>1 DEF peopleVars
<1>2. CASE Alone("incidents") /\ IncidentNext
  BY <1>2 DEF Alone
<1>3. CASE Alone("announcements") /\ AnnouncementNext
  BY <1>3 DEF Alone
<1>4. CASE Alone("deletion") /\ DeletionNext
  BY <1>4 DEF Alone
<1>5. CASE Alone("accounts") /\ AccountNext
  BY <1>5 DEF Alone
<1>6. CASE Alone("profile") /\ WizardNext
  BY <1>6 DEF Alone
<1>7. CASE Alone("variants") /\ CvNext
  BY <1>7 DEF Alone
<1>8. CASE Alone("opportunities") /\ OppNext
  BY <1>8 DEF Alone
<1>9. CASE Alone("rates") /\ RateNext
  BY <1>9 DEF Alone
<1>10. CASE Alone("graph") /\ GraphNext
  BY <1>10 DEF Alone
<1>11. CASE Alone("screens") /\ ScreensNext
  BY <1>11 DEF Alone
<1> QED
  BY <1>1, <1>2, <1>3, <1>4, <1>5, <1>6, <1>7, <1>8, <1>9, <1>10, <1>11 DEF PeopleNext

(* What is true of a component by itself is true of it beside the others: a      *)
(* behaviour of the composition is, for each component, one of its own.       *)
THEOREM PeopleCompose ==
  PeopleSpec => /\ IncidentSpec /\ AnnouncementSpec /\ DeletionSpec /\ AccountSpec /\ WizardSpec
                /\ CvSpec /\ OppSpec /\ RateSpec /\ GraphSpec /\ ScreensSpec
<1>1. PeopleInit => PeoplePartsStart
  BY DEF PeopleInit, PeoplePartsStart
<1>2. [PeopleNext]_peopleVars =>
         /\ [IncidentNext]_incidentVars /\ [AnnouncementNext]_announcementVars
         /\ [DeletionNext]_deletionVars /\ [AccountNext]_accountVars /\ [WizardNext]_wizardVars
         /\ [CvNext]_cvVars /\ [OppNext]_oppVars /\ [RateNext]_rateVars /\ [GraphNext]_graphVars
         /\ [ScreensNext]_screenVars
  BY PeoplePartsStep
<1>3. PeopleSpec => PeopleInit /\ [][PeopleNext]_peopleVars
  BY DEF PeopleSpec
<1> QED
  BY <1>1, <1>2, <1>3, PTL DEF PeoplePartsStart, IncidentSpec, AnnouncementSpec, DeletionSpec, AccountSpec,
     WizardSpec, CvSpec, OppSpec, RateSpec, GraphSpec, ScreensSpec

(* Every component keeps its variables in the types its module declares, whatever *)
(* the requests, the restarts and the calls that fail.                        *)
THEOREM PeopleAreTyped == PeopleSpec => []PeopleTypeOK
<1>1. IncidentSpec => []IncidentTypeOK
  BY IncAlways, IncTyped, PTL
<1>2. AnnouncementSpec => []AnnouncementTypeOK
  <2>1. AnnInv => AnnouncementTypeOK
    BY DEF AnnInv
  <2> QED
    BY <2>1, AnnInit, AnnNext, PTL DEF AnnouncementSpec
<1>3. DeletionSpec => []DeletionTypeOK
  BY DInvInit, DInvNext, FarewellsStart, FarewellsStep, DeletionTyped, PTL DEF DeletionSpec
<1>4. AccountSpec => []AccountTypeOK
  BY AccountsStart, AccountsStep, AccountTyped, PTL DEF AccountSpec
<1>5. WizardSpec => []WizardTypeOK
  BY WizardInvariant, WizardTyped, PTL
<1>6. CvSpec => []CvTypeOK
  BY CvStarts, CvStep, CvTyped, PTL DEF CvSpec
<1>7. OppSpec => []OppTypeOK
  BY OppTypesStart, OppTypesStep, OppTyped, PTL DEF OppSpec
<1>8. RateSpec => []RateTypeOK
  BY RateStarts, RateSteps, RateRetypes, PTL DEF RateSpec
<1>9. GraphSpec => []GraphTypeOK
  BY GraphInvariant, GraphTyped, PTL
<1>10. ScreensSpec => []ScreenTypeOK
  <2>1. ScreenInv => ScreenTypeOK
    BY DEF ScreenInv
  <2> QED
    BY <2>1, ScreensStart, ScreensStep, PTL DEF ScreensSpec
<1>11. IncidentTypeOK /\ AnnouncementTypeOK /\ DeletionTypeOK /\ AccountTypeOK /\ WizardTypeOK
       /\ CvTypeOK /\ OppTypeOK /\ RateTypeOK /\ GraphTypeOK /\ ScreenTypeOK => PeopleTypeOK
  BY DEF PeopleTypeOK
<1> QED
  BY <1>1, <1>2, <1>3, <1>4, <1>5, <1>6, <1>7, <1>8, <1>9, <1>10, <1>11, PeopleCompose, PTL

(* The figures of the admin screens that must agree do, at any moment, whatever   *)
(* the other modules wrote in the tables the queries of stats.py read.        *)
THEOREM ScreensTellTheSame == PeopleSpec => []ScreensTellOneStory
<1>1. ScreensAgree => ScreensTellOneStory
  BY DEF ScreensTellOneStory
<1> QED
  BY <1>1, ScreensTell, PeopleCompose, PTL

(* What the components promise, they promise together: a group of reports names   *)
(* credible people, a lead is invited once, the file is the one of the profile, a  *)
(* variant loses nothing of the CV, an offer is shown one day, only an acyclic     *)
(* graph starts, an announcement goes to whom it was shown for, the row of an     *)
(* account goes last, the limits hold.                                         *)
THEOREM PeopleKeepTheirPromises ==
  PeopleSpec => /\ [](GroupsAreCredible /\ InvitedOnceEach /\ FileIsTheProfile /\ NothingLost
                       /\ ShownOneDay /\ StartsIffAcyclic)
                /\ SentAsAsked /\ RowGoesLast /\ LimitsAndForgets
  BY PeopleCompose, CredibleGroups, LeadsInvitedOnce, FilesFollowTheProfile, VariantsLoseNothing,
     DashboardOfOneDay, StartsOnAcyclicGraphs, AnnouncedAsAsked, DeletionKeepsPromise, BudgetHolds, PTL
===============================================================================
