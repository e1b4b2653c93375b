---------------------------- MODULE AccountProofs -----------------------------
(***************************************************************************)
(* What is stored of a candidate: accounts and invitations, the profile and  *)
(* its file, what the deletion of the account takes away, and what the admin   *)
(* screens say of it all.                                                    *)
(***************************************************************************)
EXTENDS Accounts, AccountDeletion, CvProfile, AdminStatistics, CountingProofs

-------------------------------------------------------------------------------
(* Accounts: sign-in by Google or by code, leads and their invitations       *)

\* The first of some accounts is one of them.
LEMMA FirstIsOne ==
  ASSUME NEW S \in SUBSET AccountIds, S # {}
  PROVE  FirstOf(S) \in S
<1>1. S \subseteq Nat
  BY AccountConstants DEF AccountIds
<1>2. \E i \in S : \A j \in S : i <= j
  BY <1>1, LeastNumber
<1> QED
  BY <1>2 DEF FirstOf

(* A row of users as this module writes it, and what the requests carry of one.  *)
UserRow(row) ==
  /\ DOMAIN row = {"email", "password", "verified", "google"}
  /\ row.email \in Spellings /\ row.verified \in BOOLEAN

RequestMeans(q) ==
  /\ requests[q].op = "register" => requests[q].email \in Spellings
  /\ requests[q].op = "google" => /\ requests[q].email \in Spellings
                                  /\ Here(requests[q].seen) => UserRow(requests[q].seen)
  /\ requests[q].op \in {"google link", "verify", "password"} => UserRow(requests[q].seen)
  /\ requests[q].op = "password" =>
       UserRow(requests[q].new) /\ requests[q].new.email = requests[q].seen.email

ImportTyped(m) ==
  /\ imports[m].step \in {"idle", "next", "create", "insert", "invite"}
  /\ imports[m].step # "idle" =>
       DOMAIN imports[m] = {"step", "todo", "seen", "lead", "id"} /\ imports[m].todo \subseteq leads
  /\ imports[m].step \in {"create", "insert", "invite"} => imports[m].lead \in leads
  /\ imports[m].step = "invite" => imports[m].id \in AccountIds /\ users[imports[m].id] # NoUser

(* Nobody has used this address yet.                                         *)
Unused(e) == e \notin signedUp

(* An account nobody has used was opened by an import, under the folded address; *)
(* the import that opened it, one only, is about to invite, or has done so.       *)
UnusedAreInvited ==
  \A i \in AccountIds : Here(users[i]) /\ Unused(FoldedSpelling[users[i].email]) =>
    /\ FoldedSpelling[users[i].email] = users[i].email
    /\ kills = 0 => users[i].email \in invited \/ \E m \in Importers : imports[m].step = "invite" /\ imports[m].id = i
PendingInvitations ==
  /\ \A m \in Importers : imports[m].step = "invite" =>
       /\ Here(users[imports[m].id]) => users[imports[m].id].email = imports[m].lead
       /\ Unused(imports[m].lead) => Here(users[imports[m].id]) /\ invitations[imports[m].lead] = 0
  /\ \A m, n \in Importers : m # n /\ imports[m].step = "invite" /\ imports[n].step = "invite"
       => imports[m].id # imports[n].id
InvitedHaveAccounts ==
  \A e \in Leads : Unused(e) =>
    /\ invitations[e] \in {0, 1}
    /\ invitations[e] = 1 => \E i \in AccountIds : Here(users[i]) /\ users[i].email = e

AccInv ==
  /\ DOMAIN users = AccountIds /\ DOMAIN requests = AuthRequests
  /\ DOMAIN imports = Importers /\ DOMAIN invitations = Leads
  /\ leads \subseteq Leads /\ invited \subseteq leads /\ kills \in Nat
  /\ \A i \in AccountIds : Here(users[i]) => UserRow(users[i])
  /\ \A i, j \in AccountIds : Here(users[i]) /\ Here(users[j]) /\ users[i].email = users[j].email => i = j
  /\ \A q \in AuthRequests : RequestMeans(q)
  /\ \A m \in Importers : ImportTyped(m)
  /\ UnusedAreInvited /\ PendingInvitations /\ InvitedHaveAccounts

\* A lead is the folded form of its own spelling.
LEMMA LeadsAreFolded == \A e \in Leads : e \in Spellings /\ FoldedSpelling[e] = e
BY AccountConstants DEF Leads

LEMMA RowsAreHere == \A row : UserRow(row) => Here(row)
<1>1. DOMAIN NoUser = {"email"} /\ DOMAIN Deleted = {"email"}
  BY DEF NoUser, Deleted
<1> QED
  BY <1>1 DEF UserRow, Here

LEMMA AccountsStart == AccountInit => AccInv
<1> SUFFICES ASSUME AccountInit PROVE AccInv
  OBVIOUS
<1>1. \A i \in AccountIds : users[i] = NoUser /\ ~Here(users[i])
  BY DEF AccountInit, Here
<1>2. \A m \in Importers : imports[m].step = "idle"
  BY DEF AccountInit, ImportIdle
<1>3. \A q \in AuthRequests : requests[q].op = "idle"
  BY DEF AccountInit, NoRequestYet
<1>4. UnusedAreInvited /\ PendingInvitations /\ InvitedHaveAccounts
  BY <1>1, <1>2 DEF AccountInit, UnusedAreInvited, PendingInvitations, InvitedHaveAccounts
<1> QED
  BY <1>1, <1>2, <1>3, <1>4 DEF AccountInit, AccInv, RequestMeans, ImportTyped

-----------------------------------------------------------------------------
(* What the requests do to the accounts: they keep their addresses, or open one  *)
(* for an address that counts as used from then on.                           *)

KeepsAddress(i) ==
  /\ Here(users'[i]) <=> Here(users[i])
  /\ users'[i] = NoUser <=> users[i] = NoUser
  /\ Here(users[i]) => UserRow(users'[i]) /\ users'[i].email = users[i].email

LEMMA AddressesStay ==
  ASSUME AccInv, DOMAIN users' = AccountIds, DOMAIN requests' = AuthRequests,
         \A i \in AccountIds : KeepsAddress(i),
         signedUp \subseteq signedUp', UNCHANGED leadVars, \A q \in AuthRequests : RequestMeans(q)'
  PROVE  AccInv'
<1>1. UNCHANGED <<leads, invited, imports, invitations, kills>>
  BY DEF leadVars
<1>2. \A e : Unused(e)' => Unused(e)
  BY DEF Unused
<1>3. \A m \in Importers : ImportTyped(m)'
  BY <1>1 DEF AccInv, ImportTyped, KeepsAddress
<1>4. UnusedAreInvited'
  BY <1>1, <1>2 DEF AccInv, UnusedAreInvited, KeepsAddress
<1>5. PendingInvitations'
  <2>1. \A m \in Importers : imports[m].step = "invite" => imports[m].id \in AccountIds
    BY DEF AccInv, ImportTyped
  <2> QED
    BY <1>1, <1>2, <2>1 DEF AccInv, PendingInvitations, KeepsAddress
<1>6. InvitedHaveAccounts'
  BY <1>1, <1>2 DEF AccInv, InvitedHaveAccounts, KeepsAddress
<1> QED
  BY <1>1, <1>3, <1>4, <1>5, <1>6 DEF AccInv, KeepsAddress

\* An UPDATE writes the columns of one row but the address, which no request changes.
LEMMA UpdatesKeepAddresses ==
  ASSUME AccInv, NEW i, NEW seen, NEW new, UserRow(seen), UserRow(new), new.email = seen.email,
         users' = Updated(i, seen, new)
  PROVE  DOMAIN users' = AccountIds /\ \A j \in AccountIds : KeepsAddress(j)
<1>1. DOMAIN users' = AccountIds
  BY DEF AccInv, Updated
<1>2. ASSUME NEW j \in AccountIds PROVE KeepsAddress(j)
  <2>1. CASE j = i /\ Here(users[j])
    <3>1. PICK row : row = [c \in DOMAIN new |-> IF new[c] # seen[c] THEN new[c] ELSE users[j][c]]
      OBVIOUS
    <3>2. users'[j] = row
      BY <2>1, <3>1 DEF Updated, AccInv
    <3>3. UserRow(users[j])
      BY <2>1 DEF AccInv
    <3>4. UserRow(row) /\ row.email = users[j].email
      BY <3>1, <3>3 DEF UserRow
    <3>5. Here(row)
      BY <3>4, RowsAreHere
    <3> QED
      BY <2>1, <3>2, <3>4, <3>5 DEF KeepsAddress, Here
  <2>2. CASE ~(j = i /\ Here(users[j]))
    <3>1. users'[j] = users[j]
      BY <2>2 DEF Updated, AccInv
    <3> QED
      BY <3>1 DEF KeepsAddress, AccInv
  <2> QED
    BY <2>1, <2>2
<1> QED
  BY <1>1, <1>2

\* A new row takes an id nobody had.
LEMMA IdsAreNew ==
  ASSUME AccInv, Fresh # {}, NEW row, UserRow(row), users' = [users EXCEPT ![NewId] = row]
  PROVE  /\ NewId \in AccountIds /\ users[NewId] = NoUser /\ DOMAIN users' = AccountIds
         /\ users'[NewId] = row /\ Here(row) /\ ~Here(users[NewId])
         /\ \A i \in AccountIds : i # NewId => users'[i] = users[i]
<1>1. Fresh \in SUBSET AccountIds /\ \A i \in Fresh : users[i] = NoUser
  BY DEF Fresh
<1>2. NewId \in Fresh
  BY <1>1, FirstIsOne DEF NewId
<1> QED
  BY <1>1, <1>2, RowsAreHere DEF AccInv, Here

LEMMA AccountOpens ==
  ASSUME AccInv, Fresh # {}, NEW row, UserRow(row), Inserts(row), users' = [users EXCEPT ![NewId] = row],
         DOMAIN requests' = AuthRequests, \A q \in AuthRequests : RequestMeans(q)',
         signedUp' = signedUp \cup {FoldedSpelling[row.email]}, UNCHANGED leadVars
  PROVE  AccInv'
<1>0. PICK new : new = NewId
  OBVIOUS
<1>1. /\ new \in AccountIds /\ users[new] = NoUser /\ DOMAIN users' = AccountIds
      /\ users'[new] = row /\ Here(row) /\ ~Here(users[new])
      /\ \A i \in AccountIds : i # new => users'[i] = users[i]
  BY <1>0, IdsAreNew
<1>2. UNCHANGED <<leads, invited, imports, invitations, kills>>
  BY DEF leadVars
<1>3. (\A e : Unused(e)' => Unused(e)) /\ ~Unused(FoldedSpelling[row.email])'
  BY DEF Unused
<1>4. \A i \in AccountIds : Here(users[i]) => users[i].email # row.email
  BY DEF Inserts, Exact
<1>5. \A m \in Importers : ImportTyped(m)' /\ (imports[m].step = "invite" => imports[m].id # new)
  <2>1. \A m \in Importers : imports[m].step = "invite" => imports[m].id # new /\ imports[m].id \in AccountIds
    BY <1>1 DEF AccInv, ImportTyped
  <2>2. row # NoUser
    BY <1>1 DEF Here
  <2> QED
    BY <1>1, <1>2, <2>1, <2>2 DEF AccInv, ImportTyped
<1>6. UnusedAreInvited'
  BY <1>1, <1>2, <1>3 DEF AccInv, UnusedAreInvited
<1>7. PendingInvitations'
  <2>1. \A m \in Importers : imports[m].step = "invite" => imports[m].id \in AccountIds
    BY DEF AccInv, ImportTyped
  <2> QED
    BY <1>1, <1>2, <1>3, <1>5, <2>1 DEF AccInv, PendingInvitations
<1>8. InvitedHaveAccounts'
  BY <1>1, <1>2, <1>3 DEF AccInv, InvitedHaveAccounts
<1> QED
  BY <1>1, <1>2, <1>4, <1>5, <1>6, <1>7, <1>8 DEF AccInv

\* The request that moves is the only one whose state changes.
LEMMA OneRequestMoves ==
  ASSUME AccInv, NEW q \in AuthRequests, NEW request, requests' = [requests EXCEPT ![q] = request],
         RequestMeans(q)'
  PROVE  DOMAIN requests' = AuthRequests /\ \A p \in AuthRequests : RequestMeans(p)'
<1>1. \A p \in AuthRequests : p # q => RequestMeans(p)'
  BY DEF AccInv, RequestMeans
<1> QED
  BY <1>1 DEF AccInv

LEMMA OnlyReads ==
  ASSUME AccInv, NEW q \in AuthRequests, NEW request, requests' = [requests EXCEPT ![q] = request],
         RequestMeans(q)', UNCHANGED <<users, leadVars>>, signedUp \subseteq signedUp'
  PROVE  AccInv'
<1>1. \A i \in AccountIds : KeepsAddress(i)
  BY DEF AccInv, KeepsAddress
<1>2. DOMAIN requests' = AuthRequests /\ \A p \in AuthRequests : RequestMeans(p)'
  BY OneRequestMoves
<1>3. DOMAIN users' = AccountIds
  BY DEF AccInv
<1> QED
  BY <1>1, <1>2, <1>3, AddressesStay

LEMMA OnlyUpdates ==
  ASSUME AccInv, NEW q \in AuthRequests, NEW request, requests' = [requests EXCEPT ![q] = request],
         RequestMeans(q)', NEW i, NEW seen, NEW new, UserRow(seen), UserRow(new), new.email = seen.email,
         users' = Updated(i, seen, new), UNCHANGED leadVars, signedUp \subseteq signedUp'
  PROVE  AccInv'
<1>1. DOMAIN users' = AccountIds /\ \A j \in AccountIds : KeepsAddress(j)
  BY UpdatesKeepAddresses
<1>2. DOMAIN requests' = AuthRequests /\ \A p \in AuthRequests : RequestMeans(p)'
  BY OneRequestMoves
<1> QED
  BY <1>1, <1>2, AddressesStay

\* A request that ends carries nothing.
LEMMA RequestEnds ==
  ASSUME AccInv, NEW q \in AuthRequests, requests' = [requests EXCEPT ![q] = NoRequestYet]
  PROVE  RequestMeans(q)'
BY DEF AccInv, RequestMeans, NoRequestYet

LEMMA RequestsRead ==
  ASSUME AccInv, NEW q \in AuthRequests,
         \/ \E e \in Spellings : RegisterRead(q, e) \/ GoogleRead(q, e)
         \/ \E i \in AccountIds : ResetRead(q, i) \/ ChangeRead(q, i) \/ VerifyRead(q, i)
         \/ RegisteredEvent(q)
  PROVE  AccInv'
<1>1. ASSUME NEW e \in Spellings, RegisterRead(q, e) PROVE AccInv'
  <2>1. PICK r : r = [op |-> "register", email |-> e]
    OBVIOUS
  <2>2. requests' = [requests EXCEPT ![q] = r] /\ UNCHANGED <<users, signedUp, leadVars>>
    BY <1>1, <2>1 DEF RegisterRead, Reads
  <2>3. RequestMeans(q)'
    BY <2>1, <2>2 DEF AccInv, RequestMeans
  <2> QED
    BY <2>2, <2>3, OnlyReads
<1>2. ASSUME NEW e \in Spellings, GoogleRead(q, e) PROVE AccInv'
  <2>1. PICK seen : seen = IF Exact(users, e) = {} THEN NoUser ELSE users[FirstOf(Exact(users, e))]
    OBVIOUS
  <2>2. PICK r : r = [op |-> "google", email |-> e, id |-> Exact(users, e), seen |-> seen]
    OBVIOUS
  <2>3. requests' = [requests EXCEPT ![q] = r] /\ UNCHANGED <<users, signedUp, leadVars>>
    BY <1>2, <2>1, <2>2 DEF GoogleRead, Reads
  <2>4. Here(seen) => UserRow(seen)
    <3>1. CASE Exact(users, e) = {}
      BY <2>1, <3>1 DEF Here
    <3>2. CASE Exact(users, e) # {}
      <4>1. Exact(users, e) \in SUBSET AccountIds
        BY DEF Exact
      <4>2. FirstOf(Exact(users, e)) \in AccountIds
        BY <3>2, <4>1, FirstIsOne
      <4> QED
        BY <2>1, <3>2, <4>2 DEF AccInv
    <3> QED
      BY <3>1, <3>2
  <2>5. RequestMeans(q)'
    BY <2>2, <2>3, <2>4 DEF AccInv, RequestMeans
  <2> QED
    BY <2>3, <2>5, OnlyReads
<1>3. ASSUME NEW i \in AccountIds, ResetRead(q, i) PROVE AccInv'
  <2>1. PICK new : new = [users[i] EXCEPT !.password = TRUE, !.verified = TRUE]
    OBVIOUS
  <2>2. PICK r : r = [op |-> "password", id |-> i, seen |-> users[i], new |-> new]
    OBVIOUS
  <2>3. requests' = [requests EXCEPT ![q] = r] /\ UNCHANGED <<users, signedUp, leadVars>>
    BY <1>3, <2>1, <2>2 DEF ResetRead, Reads
  <2>4. UserRow(users[i])
    BY <1>3 DEF ResetRead, AccInv
  <2>5. UserRow(new) /\ new.email = users[i].email
    BY <2>1, <2>4 DEF UserRow
  <2>6. r.op = "password" /\ r.seen = users[i] /\ r.new = new
    BY <2>2
  <2>7. RequestMeans(q)'
    BY <2>3, <2>4, <2>5, <2>6 DEF AccInv, RequestMeans
  <2> QED
    BY <2>3, <2>7, OnlyReads
<1>4. ASSUME NEW i \in AccountIds, ChangeRead(q, i) PROVE AccInv'
  <2>2. PICK r : r = [op |-> "password", id |-> i, seen |-> users[i], new |-> users[i]]
    OBVIOUS
  <2>3. requests' = [requests EXCEPT ![q] = r] /\ UNCHANGED <<users, signedUp, leadVars>>
    BY <1>4, <2>2 DEF ChangeRead, Reads
  <2>4. UserRow(users[i])
    BY <1>4 DEF ChangeRead, AccInv
  <2>5. RequestMeans(q)'
    BY <2>2, <2>3, <2>4 DEF AccInv, RequestMeans
  <2> QED
    BY <2>3, <2>5, OnlyReads
<1>5. ASSUME NEW i \in AccountIds, VerifyRead(q, i) PROVE AccInv'
  <2>2. PICK r : r = [op |-> "verify", id |-> i, seen |-> users[i]]
    OBVIOUS
  <2>3. requests' = [requests EXCEPT ![q] = r] /\ UNCHANGED <<users, signedUp, leadVars>>
    BY <1>5, <2>2 DEF VerifyRead, Reads
  <2>4. UserRow(users[i])
    BY <1>5 DEF VerifyRead, AccInv
  <2>5. RequestMeans(q)'
    BY <2>2, <2>3, <2>4 DEF AccInv, RequestMeans
  <2> QED
    BY <2>3, <2>5, OnlyReads
<1>6. CASE RegisteredEvent(q)
  <2>1. requests' = [requests EXCEPT ![q] = NoRequestYet] /\ UNCHANGED <<users, signedUp, leadVars>>
    BY <1>6 DEF RegisteredEvent, Ends
  <2> QED
    BY <2>1, RequestEnds, OnlyReads
<1> QED
  BY <1>1, <1>2, <1>3, <1>4, <1>5, <1>6

LEMMA RequestsUpdate ==
  ASSUME AccInv, NEW q \in AuthRequests,
         GoogleClaims(q) \/ GoogleLinks(q) \/ PasswordCommit(q) \/ VerifyCommit(q)
  PROVE  AccInv'
<1>0. RequestMeans(q)
  BY DEF AccInv
<1>1. CASE GoogleClaims(q)
  <2>1. PICK seen, i : seen = requests[q].seen /\ i = FirstOf(requests[q].id)
    OBVIOUS
  <2>2. PICK claimed : claimed = IF seen.verified THEN seen ELSE [seen EXCEPT !.verified = TRUE, !.password = FALSE]
    OBVIOUS
  <2>3. UserRow(seen)
    BY <1>0, <1>1, <2>1 DEF GoogleClaims, RequestMeans
  <2>4. UserRow(claimed) /\ claimed.email = seen.email
    BY <2>2, <2>3 DEF UserRow
  <2>5. PICK link : link = [op |-> "google link", id |-> i, seen |-> claimed]
    OBVIOUS
  <2>6. PICK r : r = IF Here(users[i]) THEN link ELSE NoRequestYet
    OBVIOUS
  <2>7. /\ users' = Updated(i, seen, claimed) /\ requests' = [requests EXCEPT ![q] = r]
        /\ signedUp \subseteq signedUp' /\ UNCHANGED leadVars
    BY <1>1, <2>1, <2>2, <2>5, <2>6 DEF GoogleClaims
  <2>8. RequestMeans(q)'
    <3>1. link.op = "google link" /\ link.seen = claimed
      BY <2>5
    <3>2. CASE r = link
      BY <2>4, <2>7, <3>1, <3>2 DEF AccInv, RequestMeans
    <3>3. CASE r = NoRequestYet
      BY <2>7, <3>3, RequestEnds
    <3> QED
      BY <2>6, <3>2, <3>3
  <2> QED
    BY <2>3, <2>4, <2>7, <2>8, OnlyUpdates
<1>2. CASE GoogleLinks(q)
  <2>1. PICK seen, new : seen = requests[q].seen /\ new = [requests[q].seen EXCEPT !.google = TRUE]
    OBVIOUS
  <2>2. UserRow(seen)
    BY <1>0, <1>2, <2>1 DEF GoogleLinks, RequestMeans
  <2>3. UserRow(new) /\ new.email = seen.email
    BY <2>1, <2>2 DEF UserRow
  <2>4. /\ users' = Updated(requests[q].id, seen, new) /\ requests' = [requests EXCEPT ![q] = NoRequestYet]
        /\ signedUp' = signedUp /\ UNCHANGED leadVars
    BY <1>2, <2>1 DEF GoogleLinks, Ends
  <2> QED
    BY <2>2, <2>3, <2>4, RequestEnds, OnlyUpdates
<1>3. CASE VerifyCommit(q)
  <2>1. PICK seen, new : seen = requests[q].seen /\ new = [requests[q].seen EXCEPT !.verified = TRUE]
    OBVIOUS
  <2>2. UserRow(seen)
    BY <1>0, <1>3, <2>1 DEF VerifyCommit, RequestMeans
  <2>3. UserRow(new) /\ new.email = seen.email
    BY <2>1, <2>2 DEF UserRow
  <2>4. /\ users' = Updated(requests[q].id, seen, new) /\ requests' = [requests EXCEPT ![q] = NoRequestYet]
        /\ signedUp' = signedUp /\ UNCHANGED leadVars
    BY <1>3, <2>1 DEF VerifyCommit, Ends
  <2> QED
    BY <2>2, <2>3, <2>4, RequestEnds, OnlyUpdates
<1>4. CASE PasswordCommit(q)
  <2>1. PICK i, seen, new : i = requests[q].id /\ seen = requests[q].seen /\ new = requests[q].new
    OBVIOUS
  <2>2. UserRow(seen) /\ UserRow(new) /\ new.email = seen.email
    BY <1>0, <1>4, <2>1 DEF PasswordCommit, RequestMeans
  <2>3. PICK table : table = Updated(i, seen, new)
    OBVIOUS
  <2>4. /\ users' = [users EXCEPT ![i] = IF Here(@) THEN [table[i] EXCEPT !.password = TRUE] ELSE @]
        /\ requests' = [requests EXCEPT ![q] = NoRequestYet] /\ UNCHANGED leadVars
        /\ signedUp \subseteq signedUp'
    BY <1>4, <2>1, <2>3 DEF PasswordCommit, Ends
  <2>5. ASSUME NEW j \in AccountIds PROVE KeepsAddress(j)
    <3>1. CASE j = i /\ Here(users[j])
      <4>1. PICK row : row = [c \in DOMAIN new |-> IF new[c] # seen[c] THEN new[c] ELSE users[j][c]]
        OBVIOUS
      <4>2. UserRow(users[j])
        BY <3>1 DEF AccInv
      <4>3. UserRow(row) /\ row.email = users[j].email
        BY <2>2, <4>1, <4>2 DEF UserRow
      <4>4. table[j] = row
        BY <2>3, <3>1, <4>1 DEF Updated, AccInv
      <4>5. PICK written : written = [row EXCEPT !.password = TRUE]
        OBVIOUS
      <4>6. UserRow(written) /\ written.email = users[j].email
        BY <4>3, <4>5 DEF UserRow
      <4>7. users'[j] = written
        BY <2>4, <3>1, <4>4, <4>5 DEF AccInv
      <4> QED
        BY <3>1, <4>6, <4>7, RowsAreHere DEF KeepsAddress, Here
    <3>2. CASE ~(j = i /\ Here(users[j]))
      <4>1. users'[j] = users[j]
        BY <2>4, <3>2 DEF AccInv
      <4> QED
        BY <4>1 DEF KeepsAddress, AccInv
    <3> QED
      BY <3>1, <3>2
  <2>6. DOMAIN users' = AccountIds
    BY <2>4 DEF AccInv
  <2>7. DOMAIN requests' = AuthRequests /\ \A p \in AuthRequests : RequestMeans(p)'
    BY <2>4, RequestEnds, OneRequestMoves
  <2> QED
    BY <2>4, <2>5, <2>6, <2>7, AddressesStay
<1> QED
  BY <1>1, <1>2, <1>3, <1>4

LEMMA RequestsOpen ==
  ASSUME AccInv, NEW q \in AuthRequests, RegisterCommit(q) \/ GoogleCreates(q)
  PROVE  AccInv'
<1>0. RequestMeans(q)
  BY DEF AccInv
<1>1. PICK row : row = IF requests[q].op = "register" THEN Row(requests[q].email, TRUE, FALSE, FALSE)
                       ELSE Row(requests[q].email, FALSE, TRUE, TRUE)
  OBVIOUS
<1>2. requests[q].op \in {"register", "google"} /\ requests[q].email \in Spellings
  BY <1>0 DEF RequestMeans, RegisterCommit, GoogleCreates
<1>3. UserRow(row)
  BY <1>1, <1>2 DEF Row, UserRow
<1>4. PICK r : r = [op |-> "announce", id |-> NewId]
  OBVIOUS
<1>5. Fresh # {} /\ UNCHANGED leadVars
  BY DEF RegisterCommit, GoogleCreates
<1>6. CASE Inserts(row)
  <2>1. /\ users' = [users EXCEPT ![NewId] = row] /\ signedUp' = signedUp \cup {FoldedSpelling[row.email]}
        /\ requests' = [requests EXCEPT ![q] = r]
    BY <1>1, <1>4, <1>6 DEF RegisterCommit, GoogleCreates
  <2>2. RequestMeans(q)'
    BY <1>4, <2>1 DEF AccInv, RequestMeans
  <2>3. DOMAIN requests' = AuthRequests /\ \A p \in AuthRequests : RequestMeans(p)'
    BY <2>1, <2>2, OneRequestMoves
  <2> QED
    BY <1>3, <1>5, <1>6, <2>1, <2>3, AccountOpens
<1>7. CASE ~Inserts(row)
  <2>1. requests' = [requests EXCEPT ![q] = NoRequestYet] /\ UNCHANGED <<users, signedUp>>
    BY <1>1, <1>7 DEF RegisterCommit, GoogleCreates, Ends
  <2> QED
    BY <1>5, <2>1, RequestEnds, OnlyReads
<1> QED
  BY <1>6, <1>7

\* A link touches no account; a capture adds an address to the waitlist.
LEMMA LinksAndCaptures ==
  ASSUME AccInv,
         \/ \E i \in AccountIds, kind \in {"reset", "verify"} : MailLink(i, kind)
         \/ \E e \in Spellings : CaptureLead(e)
  PROVE  AccInv'
<1>1. /\ UNCHANGED <<users, requests, invited, imports, invitations, signedUp, kills>>
      /\ leads \subseteq leads' /\ leads' \subseteq Leads
  BY DEF AccInv, MailLink, CaptureLead, leadVars, Leads
<1>2. \A q \in AuthRequests : RequestMeans(q)'
  BY <1>1 DEF AccInv, RequestMeans
<1>3. \A m \in Importers : ImportTyped(m)'
  BY <1>1 DEF AccInv, ImportTyped
<1>4. UnusedAreInvited'
  BY <1>1 DEF AccInv, UnusedAreInvited, Unused
<1>5. PendingInvitations'
  BY <1>1 DEF AccInv, PendingInvitations, Unused
<1>6. InvitedHaveAccounts'
  BY <1>1 DEF AccInv, InvitedHaveAccounts, Unused
<1> QED
  BY <1>1, <1>2, <1>3, <1>4, <1>5, <1>6 DEF AccInv

\* Only an account somebody used is deleted.
LEMMA AccountGoesUsed ==
  ASSUME AccInv, NEW i \in AccountIds, RemoveAccount(i)
  PROVE  AccInv'
<1>1. /\ Here(users[i]) /\ ~Unused(FoldedSpelling[users[i].email])
      /\ UNCHANGED <<requests, signedUp, leads, invited, imports, invitations, kills>>
  BY DEF RemoveAccount, Unused, leadVars
<1>2. DOMAIN users' = AccountIds /\ ~Here(users'[i]) /\ \A j \in AccountIds : j # i => users'[j] = users[j]
  BY DEF RemoveAccount, Here, AccInv
<1>3. users'[i] # NoUser
  <2>1. users'[i] = Deleted /\ Deleted # NoUser
    <3>1. Deleted.email = "deleted" /\ NoUser.email = "none"
      BY DEF Deleted, NoUser
    <3> QED
      BY <3>1 DEF RemoveAccount, AccInv
  <2> QED
    BY <2>1
<1>4. \A e : Unused(e)' <=> Unused(e)
  BY <1>1 DEF Unused
<1>5. \A q \in AuthRequests : RequestMeans(q)'
  BY <1>1 DEF AccInv, RequestMeans
<1>6. \A m \in Importers : ImportTyped(m)'
  BY <1>1, <1>2, <1>3 DEF AccInv, ImportTyped
<1>7. UnusedAreInvited'
  BY <1>1, <1>2, <1>4 DEF AccInv, UnusedAreInvited
<1>8. PendingInvitations'
  <2>1. ASSUME NEW m \in Importers, imports[m].step = "invite", Unused(imports[m].lead)
        PROVE  imports[m].id # i
    <3>1. users[imports[m].id].email = imports[m].lead /\ imports[m].lead \in Leads
      BY <2>1 DEF AccInv, PendingInvitations, ImportTyped
    <3> QED
      BY <1>1, <2>1, <3>1, LeadsAreFolded
  <2>2. \A m \in Importers : imports[m].step = "invite" => imports[m].id \in AccountIds
    BY DEF AccInv, ImportTyped
  <2> QED
    BY <1>1, <1>2, <1>4, <2>1, <2>2 DEF AccInv, PendingInvitations
<1>9. InvitedHaveAccounts'
  <2>1. \A e \in Leads : Unused(e) => e # users[i].email
    BY <1>1, LeadsAreFolded
  <2> QED
    BY <1>1, <1>2, <1>4, <2>1 DEF AccInv, InvitedHaveAccounts
<1> QED
  BY <1>1, <1>2, <1>5, <1>6, <1>7, <1>8, <1>9 DEF AccInv

-----------------------------------------------------------------------------
(* What the imports do.                                                      *)

\* A run that reads, skips or stops; a run stopped before its mail was killed.
LEMMA ImportMoves ==
  ASSUME AccInv, NEW m \in Importers, NEW progress, imports' = [imports EXCEPT ![m] = progress],
         ImportTyped(m)', progress.step # "invite",
         kills' = kills \/ (kills' = kills + 1 /\ kills' # 0),
         imports[m].step # "invite" \/ kills' # 0,
         UNCHANGED <<users, requests, leads, invited, invitations, signedUp>>
  PROVE  AccInv'
<1>1. imports'[m] = progress /\ DOMAIN imports' = Importers /\ \A n \in Importers : n # m => imports'[n] = imports[n]
  BY DEF AccInv
<1>2. \A n \in Importers : ImportTyped(n)'
  BY <1>1 DEF AccInv, ImportTyped
<1>3. UnusedAreInvited'
  <2>1. kills' = 0 => kills = 0 /\ imports[m].step # "invite"
    BY DEF AccInv
  <2> QED
    BY <1>1, <2>1 DEF AccInv, UnusedAreInvited, Unused
<1>4. PendingInvitations'
  BY <1>1 DEF AccInv, PendingInvitations, Unused
<1>5. InvitedHaveAccounts' /\ \A q \in AuthRequests : RequestMeans(q)'
  BY DEF AccInv, InvitedHaveAccounts, Unused, RequestMeans
<1> QED
  BY <1>1, <1>2, <1>3, <1>4, <1>5 DEF AccInv

LEMMA ImportsRead ==
  ASSUME AccInv, NEW m \in Importers,
         \/ ImportStart(m) \/ ImportLook(m) \/ ImportEnds(m) \/ ImportKilled(m)
         \/ \E e \in Leads : ImportLead(m, e)
  PROVE  AccInv'
<1>0. ImportTyped(m)
  BY DEF AccInv
<1>1. CASE ImportStart(m)
  <2>1. PICK r : r = [step |-> "next", todo |-> leads, seen |-> invited, lead |-> "none", id |-> 0]
    OBVIOUS
  <2>2. r.step = "next" /\ r.todo = leads /\ DOMAIN r = {"step", "todo", "seen", "lead", "id"}
    BY <2>1
  <2>3. /\ imports' = [imports EXCEPT ![m] = r] /\ imports[m].step = "idle"
        /\ UNCHANGED <<users, requests, leads, invited, invitations, signedUp, kills>>
    BY <1>1, <2>1 DEF ImportStart, Import
  <2>4. ImportTyped(m)'
    BY <2>2, <2>3 DEF AccInv, ImportTyped
  <2> QED
    BY <2>2, <2>3, <2>4, ImportMoves
<1>2. ASSUME ImportEnds(m) \/ ImportKilled(m) PROVE AccInv'
  <2>1. PICK r : r = ImportIdle
    OBVIOUS
  <2>2. r.step = "idle"
    BY <2>1 DEF ImportIdle
  <2>3. /\ imports' = [imports EXCEPT ![m] = r]
        /\ UNCHANGED <<users, requests, leads, invited, invitations, signedUp>>
    BY <1>2, <2>1 DEF ImportEnds, ImportKilled, Import
  <2>4. kills' = kills \/ (kills' = kills + 1 /\ kills' # 0)
    BY <1>2 DEF ImportEnds, ImportKilled, AccInv
  <2>5. imports[m].step # "invite" \/ kills' # 0
    BY <1>2 DEF ImportEnds, ImportKilled, AccInv
  <2>6. ImportTyped(m)'
    BY <2>2, <2>3 DEF AccInv, ImportTyped
  <2> QED
    BY <2>2, <2>3, <2>4, <2>5, <2>6, ImportMoves
<1>3. CASE ImportLook(m)
  <2>1. DOMAIN imports[m] = {"step", "todo", "seen", "lead", "id"} /\ imports[m].todo \subseteq leads
        /\ imports[m].lead \in leads
    BY <1>0, <1>3 DEF ImportLook, ImportTyped
  <2>2. PICK r : r = IF HasAccount(imports[m].lead) THEN Skipped(m) ELSE [imports[m] EXCEPT !.step = "insert"]
    OBVIOUS
  <2>3. r.step \in {"next", "insert"} /\ r.todo \subseteq leads /\ r.lead = imports[m].lead
        /\ DOMAIN r = {"step", "todo", "seen", "lead", "id"}
    <3>1. CASE r = Skipped(m)
      BY <2>1, <3>1 DEF Skipped
    <3>2. CASE r = [imports[m] EXCEPT !.step = "insert"]
      BY <2>1, <3>2
    <3> QED
      BY <2>2, <3>1, <3>2
  <2>4. /\ imports' = [imports EXCEPT ![m] = r] /\ imports[m].step = "create"
        /\ UNCHANGED <<users, requests, leads, invited, invitations, signedUp, kills>>
    BY <1>3, <2>2 DEF ImportLook, Import
  <2>5. imports'[m] = r /\ r.step # "invite" /\ imports[m].step # "invite"
    BY <2>3, <2>4 DEF AccInv
  <2>6. ImportTyped(m)'
    BY <2>1, <2>3, <2>4, <2>5 DEF ImportTyped
  <2> QED
    BY <2>4, <2>5, <2>6, ImportMoves
<1>4. ASSUME NEW e \in Leads, ImportLead(m, e) PROVE AccInv'
  <2>1. DOMAIN imports[m] = {"step", "todo", "seen", "lead", "id"} /\ imports[m].todo \subseteq leads
        /\ e \in leads
    BY <1>0, <1>4 DEF ImportLead, ImportTyped
  <2>2. PICK r : r = IF e \in imports[m].seen \/ HasAccount(e) THEN [imports[m] EXCEPT !.todo = @ \ {e}]
                     ELSE [imports[m] EXCEPT !.step = "create", !.lead = e]
    OBVIOUS
  <2>3. /\ r.step \in {"next", "create"} /\ r.todo \subseteq leads /\ (r.step = "create" => r.lead = e)
        /\ DOMAIN r = {"step", "todo", "seen", "lead", "id"}
    <3>1. CASE r = [imports[m] EXCEPT !.todo = @ \ {e}]
      BY <1>4, <2>1, <3>1 DEF ImportLead
    <3>2. CASE r = [imports[m] EXCEPT !.step = "create", !.lead = e]
      BY <2>1, <3>2
    <3> QED
      BY <2>2, <3>1, <3>2
  <2>4. /\ imports' = [imports EXCEPT ![m] = r] /\ imports[m].step = "next"
        /\ UNCHANGED <<users, requests, leads, invited, invitations, signedUp, kills>>
    BY <1>4, <2>2 DEF ImportLead, Import
  <2>5. imports'[m] = r /\ r.step # "invite" /\ imports[m].step # "invite"
    BY <2>3, <2>4 DEF AccInv
  <2>6. ImportTyped(m)'
    BY <2>1, <2>3, <2>4, <2>5 DEF ImportTyped
  <2> QED
    BY <2>4, <2>5, <2>6, ImportMoves
<1> QED
  BY <1>1, <1>2, <1>3, <1>4

\* The account an import opens is under an address nobody has, hence never invited.
LEMMA ImportOpens ==
  ASSUME AccInv, NEW m \in Importers, ImportCreate(m)
  PROVE  AccInv'
<1>0. /\ DOMAIN imports[m] = {"step", "todo", "seen", "lead", "id"} /\ imports[m].todo \subseteq leads
      /\ imports[m].lead \in leads /\ imports[m].step = "insert"
  BY DEF AccInv, ImportTyped, ImportCreate
<1>1. PICK lead, new : lead = imports[m].lead /\ new = NewId
  OBVIOUS
<1>2. lead \in Leads /\ lead \in Spellings /\ FoldedSpelling[lead] = lead
  BY <1>0, <1>1, LeadsAreFolded DEF AccInv
<1>3. PICK row : row = Row(lead, FALSE, FALSE, FALSE)
  OBVIOUS
<1>4. UserRow(row) /\ row.email = lead
  BY <1>2, <1>3 DEF Row, UserRow
<1>5. CASE Inserts(row)
  <2>1. PICK r : r = [imports[m] EXCEPT !.step = "invite", !.id = new]
    OBVIOUS
  <2>2. /\ r.step = "invite" /\ r.id = new /\ r.lead = lead /\ r.todo \subseteq leads
        /\ DOMAIN r = {"step", "todo", "seen", "lead", "id"}
    BY <1>0, <1>1, <2>1
  <2>3. /\ users' = [users EXCEPT ![NewId] = row] /\ imports' = [imports EXCEPT ![m] = r] /\ Fresh # {}
        /\ UNCHANGED <<requests, leads, invited, invitations, signedUp, kills>>
    BY <1>1, <1>3, <1>5, <2>1 DEF ImportCreate, Import
  <2>4. /\ new \in AccountIds /\ users[new] = NoUser /\ DOMAIN users' = AccountIds
        /\ users'[new] = row /\ Here(row) /\ ~Here(users[new])
        /\ \A i \in AccountIds : i # new => users'[i] = users[i]
    BY <1>1, <1>4, <2>3, IdsAreNew
  <2>5. /\ imports'[m] = r /\ DOMAIN imports' = Importers
        /\ \A n \in Importers : n # m => imports'[n] = imports[n]
    BY <2>3 DEF AccInv
  <2>6. \A i \in AccountIds : Here(users[i]) => users[i].email # lead
    BY <1>4, <1>5 DEF Inserts, Exact
  <2>7. \A n \in Importers : imports[n].step = "invite" => imports[n].id \in AccountIds /\ imports[n].id # new
    BY <2>4 DEF AccInv, ImportTyped
  <2>8. row # NoUser
    BY <2>4 DEF Here
  <2>9. \A n \in Importers : ImportTyped(n)'
    <3>1. ImportTyped(m)'
      BY <1>0, <1>1, <2>2, <2>3, <2>4, <2>5, <2>8 DEF ImportTyped
    <3>2. ASSUME NEW n \in Importers, n # m PROVE ImportTyped(n)'
      BY <2>3, <2>4, <2>5, <2>7, <3>2 DEF AccInv, ImportTyped
    <3> QED
      BY <3>1, <3>2
  <2>10. \A e : Unused(e)' <=> Unused(e)
    BY <2>3 DEF Unused
  <2>11. UnusedAreInvited'
    <3>1. \A i \in AccountIds : (\E n \in Importers : imports[n].step = "invite" /\ imports[n].id = i)
            => \E n \in Importers : imports'[n].step = "invite" /\ imports'[n].id = i
      BY <1>0, <2>5
    <3> QED
      BY <1>2, <1>4, <2>2, <2>3, <2>4, <2>5, <2>10, <3>1 DEF AccInv, UnusedAreInvited
  <2>12. PendingInvitations'
    <3>1. Unused(lead) => invitations[lead] = 0
      BY <1>2, <2>6 DEF AccInv, InvitedHaveAccounts
    <3> QED
      BY <1>4, <2>2, <2>3, <2>4, <2>5, <2>7, <2>10, <3>1 DEF AccInv, PendingInvitations
  <2>13. InvitedHaveAccounts'
    BY <2>3, <2>4, <2>10 DEF AccInv, InvitedHaveAccounts
  <2>14. \A q \in AuthRequests : RequestMeans(q)'
    BY <2>3 DEF AccInv, RequestMeans
  <2> QED
    BY <1>4, <2>3, <2>4, <2>5, <2>6, <2>9, <2>11, <2>12, <2>13, <2>14 DEF AccInv
<1>6. CASE ~Inserts(row)
  <2>1. PICK r : r = ImportIdle
    OBVIOUS
  <2>2. r.step = "idle"
    BY <2>1 DEF ImportIdle
  <2>3. /\ imports' = [imports EXCEPT ![m] = r] /\ imports[m].step = "insert"
        /\ UNCHANGED <<users, requests, leads, invited, invitations, signedUp, kills>>
    BY <1>1, <1>3, <1>6, <2>1 DEF ImportCreate, Import
  <2>4. ImportTyped(m)'
    BY <2>2, <2>3 DEF AccInv, ImportTyped
  <2> QED
    BY <2>2, <2>3, <2>4, ImportMoves
<1> QED
  BY <1>5, <1>6

\* The one invitation of a lead, and the record of it.
LEMMA ImportInvites ==
  ASSUME AccInv, NEW m \in Importers, ImportInvite(m)
  PROVE  AccInv'
<1>0. /\ DOMAIN imports[m] = {"step", "todo", "seen", "lead", "id"} /\ imports[m].todo \subseteq leads
      /\ imports[m].lead \in leads /\ imports[m].step = "invite" /\ imports[m].id \in AccountIds
  BY DEF AccInv, ImportTyped, ImportInvite
<1>1. PICK lead, i : lead = imports[m].lead /\ i = imports[m].id
  OBVIOUS
<1>2. lead \in Leads /\ lead \in leads
  BY <1>0, <1>1 DEF AccInv
<1>3. PICK r : r = Skipped(m)
  OBVIOUS
<1>4. r.step = "next" /\ r.todo \subseteq leads /\ DOMAIN r = {"step", "todo", "seen", "lead", "id"}
  BY <1>0, <1>3 DEF Skipped
<1>5. imports' = [imports EXCEPT ![m] = r] /\ UNCHANGED <<users, requests, leads, signedUp, kills>>
  BY <1>3 DEF ImportInvite, Import
<1>6. /\ imports'[m] = r /\ DOMAIN imports' = Importers
      /\ \A n \in Importers : n # m => imports'[n] = imports[n]
  BY <1>5 DEF AccInv
<1>7. \A n \in Importers : ImportTyped(n)'
  BY <1>4, <1>5, <1>6 DEF AccInv, ImportTyped
<1>8. \A e : Unused(e)' <=> Unused(e)
  BY <1>5 DEF Unused
<1>9. \A q \in AuthRequests : RequestMeans(q)'
  BY <1>5 DEF AccInv, RequestMeans
<1>10. Here(users[i]) => users[i].email = lead
  BY <1>0, <1>1 DEF AccInv, PendingInvitations
<1>11. Unused(lead) => Here(users[i]) /\ invitations[lead] = 0
  BY <1>0, <1>1 DEF AccInv, PendingInvitations
<1>12. CASE Here(users[i])
  <2>1. invited' = invited \cup {lead} /\ invitations' = [invitations EXCEPT ![lead] = @ + 1]
    BY <1>1, <1>12 DEF ImportInvite
  <2>2. /\ DOMAIN invitations' = Leads /\ invitations'[lead] = invitations[lead] + 1
        /\ \A e \in Leads : e # lead => invitations'[e] = invitations[e]
    BY <1>2, <2>1 DEF AccInv
  <2>3. UnusedAreInvited'
    <3>1. ASSUME NEW j \in AccountIds, Here(users[j]),
                 users[j].email \in invited \/ \E n \in Importers : imports[n].step = "invite" /\ imports[n].id = j
          PROVE  users[j].email \in invited' \/ \E n \in Importers : imports'[n].step = "invite" /\ imports'[n].id = j
      <4>1. CASE j = i
        BY <1>10, <2>1, <3>1, <4>1
      <4>2. CASE j # i
        BY <1>1, <1>6, <2>1, <3>1, <4>2
      <4> QED
        BY <4>1, <4>2
    <3> QED
      BY <1>5, <1>8, <3>1 DEF AccInv, UnusedAreInvited
  <2>4. PendingInvitations'
    <3>1. ASSUME NEW n \in Importers, n # m, imports[n].step = "invite", Unused(imports[n].lead)
          PROVE  imports[n].lead # lead
      <4>1. /\ Here(users[imports[n].id]) /\ users[imports[n].id].email = imports[n].lead
            /\ imports[n].id \in AccountIds /\ imports[n].id # i
        BY <1>0, <1>1, <3>1 DEF AccInv, PendingInvitations, ImportTyped
      <4> QED
        BY <1>0, <1>1, <1>10, <1>12, <4>1 DEF AccInv
    <3>2. \A n \in Importers : imports[n].step = "invite" => imports[n].lead \in Leads
      BY DEF AccInv, ImportTyped
    <3> QED
      BY <1>4, <1>5, <1>6, <1>8, <2>2, <3>1, <3>2 DEF AccInv, PendingInvitations
  <2>5. InvitedHaveAccounts'
    BY <1>0, <1>1, <1>5, <1>8, <1>10, <1>11, <1>12, <2>2 DEF AccInv, InvitedHaveAccounts
  <2> QED
    BY <1>2, <1>5, <1>6, <1>7, <1>9, <2>1, <2>2, <2>3, <2>4, <2>5 DEF AccInv
<1>13. CASE ~Here(users[i])
  <2>1. UNCHANGED <<invited, invitations>>
    BY <1>1, <1>13 DEF ImportInvite
  <2>2. UnusedAreInvited'
    <3>1. ASSUME NEW j \in AccountIds, Here(users[j]),
                 \E n \in Importers : imports[n].step = "invite" /\ imports[n].id = j
          PROVE  \E n \in Importers : imports'[n].step = "invite" /\ imports'[n].id = j
      BY <1>1, <1>6, <1>13, <3>1
    <3> QED
      BY <1>5, <1>8, <2>1, <3>1 DEF AccInv, UnusedAreInvited
  <2>3. PendingInvitations'
    BY <1>4, <1>5, <1>6, <1>8, <2>1 DEF AccInv, PendingInvitations
  <2>4. InvitedHaveAccounts'
    BY <1>5, <1>8, <2>1 DEF AccInv, InvitedHaveAccounts
  <2> QED
    BY <1>5, <1>6, <1>7, <1>9, <2>1, <2>2, <2>3, <2>4 DEF AccInv
<1> QED
  BY <1>12, <1>13

\* Every step of the accounts and of the waitlist keeps the invariant.
LEMMA AccountsStep ==
  ASSUME AccInv, [AccountNext]_accountVars
  PROVE  AccInv'
<1>1. CASE UNCHANGED accountVars
  <2>1. UNCHANGED <<users, requests, leads, invited, imports, invitations, signedUp, kills>>
    BY <1>1 DEF accountVars
  <2>2. (\A q \in AuthRequests : RequestMeans(q)') /\ (\A m \in Importers : ImportTyped(m)')
    BY <2>1 DEF AccInv, RequestMeans, ImportTyped
  <2>3. UnusedAreInvited' /\ PendingInvitations' /\ InvitedHaveAccounts'
    BY <2>1 DEF AccInv, UnusedAreInvited, PendingInvitations, InvitedHaveAccounts, Unused
  <2> QED
    BY <2>1, <2>2, <2>3 DEF AccInv
<1>2. ASSUME NEW q \in AuthRequests, RequestNext(q) PROVE AccInv'
  BY <1>2, RequestsRead, RequestsUpdate, RequestsOpen DEF RequestNext
<1>3. ASSUME NEW i \in AccountIds, RemoveAccount(i) \/ \E kind \in {"reset", "verify"} : MailLink(i, kind)
      PROVE  AccInv'
  BY <1>3, AccountGoesUsed, LinksAndCaptures
<1>4. CASE LeadNext
  <2>1. CASE \E e \in Spellings : CaptureLead(e)
    BY <2>1, LinksAndCaptures
  <2>2. ASSUME NEW m \in Importers,
               \/ ImportStart(m) \/ ImportLook(m) \/ ImportEnds(m) \/ ImportKilled(m)
               \/ ImportCreate(m) \/ ImportInvite(m)
               \/ \E e \in Leads : ImportLead(m, e)
        PROVE  AccInv'
    BY <2>2, ImportsRead, ImportOpens, ImportInvites
  <2> QED
    BY <1>4, <2>1, <2>2 DEF LeadNext
<1> QED
  BY <1>1, <1>2, <1>3, <1>4 DEF AccountNext

LEMMA AccountTyped == AccInv => AccountTypeOK
<1> SUFFICES ASSUME AccInv PROVE AccountTypeOK
  OBVIOUS
<1>1. NoUser.email = "none" /\ Deleted.email = "deleted"
  BY DEF NoUser, Deleted
<1>2. ASSUME NEW i \in AccountIds, NEW j \in AccountIds, i # j, Here(users[i])
      PROVE  users[i].email # users[j].email
  <2>1. users[i].email \in Spellings
    BY <1>2 DEF AccInv, UserRow
  <2>2. CASE Here(users[j])
    BY <1>2, <2>2 DEF AccInv
  <2>3. CASE ~Here(users[j])
    BY <1>1, <2>1, <2>3, AccountConstants DEF Here
  <2> QED
    BY <2>2, <2>3
<1>3. \A i \in AccountIds : Here(users[i]) => users[i].email \in Spellings /\ users[i].verified \in BOOLEAN
  BY DEF AccInv, UserRow
<1>4. \A m \in Importers : imports[m].step \in {"idle", "next", "create", "insert", "invite"}
  BY DEF AccInv, ImportTyped
<1> QED
  BY <1>2, <1>3, <1>4 DEF AccInv, AccountTypeOK

\* Whatever imports overlap or are killed, a lead nobody has used yet is invited
\* once, and, unless one was killed, an account an import opened is invited or
\* about to be.
THEOREM LeadsInvitedOnce == AccountSpec => []InvitedOnceEach
<1>1. AccInv => InvitedOnceEach
  <2>1. ASSUME AccInv, NEW e \in Leads, e \notin signedUp PROVE invitations[e] <= 1
    BY <2>1 DEF AccInv, InvitedHaveAccounts, Unused
  <2> QED
    BY <2>1 DEF AccInv, UnusedAreInvited, Unused, InvitedOnceEach
<1> QED
  BY <1>1, AccountsStart, AccountsStep, PTL DEF AccountSpec

-------------------------------------------------------------------------------
(* The profile and the file of its CV                                        *)

(* What a request has done so far: it has a CV to store, it read the row, it    *)
(* holds the row from its flush to its commit.                               *)
Importing(q) == wizard[q].op \in {"parsed", "read", "written", "saved"}
HasRead(q) == wizard[q].op \in {"read", "written", "saved", "verification", "preferences"}
HoldsRow(q) == wizard[q].op \in {"written", "saved"}

\* A row of candidate_profiles, in the table or as a request read it.
WizRow(row) ==
  /\ DOMAIN row = {"status", "matched", "text", "name", "availability", "date", "notice"}
  /\ row.status \in {"none", "draft", "complete"}
  /\ row.text \in 0..uploads
  /\ row.availability \in {"immediate", "date", "notice"}

(* Each import brings a version of its own, which is not yet that of the row.   *)
VersionOf(q) ==
  /\ "op" \in DOMAIN wizard[q] /\ wizard[q].version \in 1..uploads /\ wizard[q].kind \in Kinds
  /\ wizard[q].version # profile.text
  /\ HasRead(q) => wizard[q].version # wizard[q].seen.text

\* The only file on disk is that of one version of the CV.
OnlyFile(text) == \E kind \in Kinds : files = [k \in Kinds |-> IF k = kind THEN text ELSE 0]

(* The request that saved its file holds the row until its commit, so no other   *)
(* import can replace the file in between; when nobody is there and no commit   *)
(* was lost, the file is that of the row.                                     *)
WizInv ==
  /\ uploads \in 0..MaxUploads /\ lost \in 0..MaxLostCommits /\ fired \in Nat
  /\ DOMAIN wizard = WizardRequests
  /\ WizRow(profile)
  /\ rowLock \in WizardRequests \cup {Unlocked}
  /\ files \in [Kinds -> 0..MaxUploads]
  /\ \A q \in WizardRequests :
       /\ Importing(q) => VersionOf(q)
       /\ HasRead(q) => WizRow(wizard[q].seen)
       /\ HoldsRow(q) <=> rowLock = q
       /\ wizard[q].op = "saved" => OnlyFile(wizard[q].version)
       /\ \A r \in WizardRequests \ {q} :
            Importing(q) /\ Importing(r) => wizard[q].version # wizard[r].version
  /\ lost = 0 /\ (\A q \in WizardRequests : wizard[q].op # "saved") => OnlyFile(profile.text)

LEMMA WizardInvariant == WizardSpec => []WizInv
<1> USE WizardConstants DEF Kinds, Unlocked, HasRead, HoldsRow, Importing
<1>1. WizardInit => WizInv
  <2> SUFFICES ASSUME WizardInit PROVE WizInv
    OBVIOUS
  <2> USE DEF WizardInit, Resting
  <2>1. WizRow(profile)
    BY DEF WizRow, NoProfile
  <2>2. OnlyFile(profile.text)
    BY DEF OnlyFile, NoProfile
  <2> QED
    BY <2>1, <2>2 DEF WizInv
<1>2. ASSUME WizInv, WizardNext PROVE WizInv'
  <2>1. PICK q \in WizardRequests : WizardStep(q)
    BY <1>2 DEF WizardNext
  <2> USE DEF WizInv, Doing, Becomes, Resting
  <2>2. ASSUME NEW upload \in Uploads, ImportParses(q, upload) PROVE WizInv'
    <3>1. PICK w : w = [op |-> "parsed", version |-> uploads + 1, kind |-> upload[1], name |-> upload[2]]
      OBVIOUS
    <3>2. /\ wizard' = [wizard EXCEPT ![q] = w] /\ uploads' = uploads + 1 /\ uploads < MaxUploads
          /\ UNCHANGED <<profile, files, rowLock, fired, lost>> /\ wizard[q].op = "idle"
          /\ "op" \in DOMAIN w /\ w.op = "parsed" /\ w.version = uploads + 1 /\ w.kind \in Kinds
      BY <2>2, <3>1 DEF ImportParses
    <3>3. WizRow(profile)' /\ profile.text \in 0..uploads
      BY <1>2, <3>2 DEF WizRow
    <3>4. \A r \in WizardRequests : HasRead(r)' => WizRow(wizard[r].seen)'
      BY <1>2, <3>2 DEF WizRow
    <3>5. \A r \in WizardRequests : Importing(r)' => VersionOf(r)'
      BY <1>2, <3>2, <3>3 DEF VersionOf
    <3>6. \A r \in WizardRequests : Importing(r) => wizard[r].version \in 1..uploads
      BY <1>2 DEF VersionOf
    <3>7. \A text : OnlyFile(text)' <=> OnlyFile(text)
      BY <3>2 DEF OnlyFile
    <3> QED
      BY <1>2, <3>2, <3>3, <3>4, <3>5, <3>6, <3>7
  <2>3. ASSUME \/ ImportFails(q)
               \/ ImportLosesCommit(q)
        PROVE WizInv'
    <3>1. /\ wizard' = [wizard EXCEPT ![q] = Resting] /\ Importing(q)
          /\ UNCHANGED <<profile, files, uploads, fired>> /\ lost' \in 0..MaxLostCommits
          /\ \/ wizard[q].op = "parsed" /\ UNCHANGED <<rowLock, lost>>
             \/ wizard[q].op = "saved" /\ rowLock' = Unlocked /\ lost' # 0
      BY <1>2, <2>3 DEF ImportFails, ImportLosesCommit
    <3>2. \A row : WizRow(row) => WizRow(row)'
      BY <3>1 DEF WizRow
    <3>3. \A r \in WizardRequests : HasRead(r)' => WizRow(wizard[r].seen)'
      BY <1>2, <3>1 DEF WizRow
    <3>4. \A r \in WizardRequests : Importing(r)' => VersionOf(r)'
      BY <1>2, <3>1 DEF VersionOf
    <3>5. WizRow(profile)'
      BY <1>2, <3>1 DEF WizRow
    <3>6. \A text : OnlyFile(text)' <=> OnlyFile(text)
      BY <3>1 DEF OnlyFile
    <3> QED
      BY <1>2, <3>1, <3>3, <3>4, <3>5, <3>6
  <2>4. ASSUME ImportReads(q) PROVE WizInv'
    <3>1. PICK w : w = [op |-> "read", version |-> wizard[q].version, kind |-> wizard[q].kind,
                        name |-> wizard[q].name, seen |-> profile]
      OBVIOUS
    <3>2. /\ wizard' = [wizard EXCEPT ![q] = w] /\ wizard[q].op = "parsed"
          /\ UNCHANGED <<profile, files, rowLock, uploads, fired, lost>>
          /\ "op" \in DOMAIN w /\ w.op = "read" /\ w.version = wizard[q].version /\ w.kind = wizard[q].kind /\ w.seen = profile
      BY <2>4, <3>1 DEF ImportReads
    <3>3. \A r \in WizardRequests : HasRead(r)' => WizRow(wizard[r].seen)'
      BY <1>2, <3>2 DEF WizRow
    <3>4. \A r \in WizardRequests : Importing(r)' => VersionOf(r)'
      BY <1>2, <3>2 DEF VersionOf
    <3>5. WizRow(profile)'
      BY <1>2, <3>2 DEF WizRow
    <3>6. \A text : OnlyFile(text)' <=> OnlyFile(text)
      BY <3>2 DEF OnlyFile
    <3> QED
      BY <1>2, <3>2, <3>3, <3>4, <3>5, <3>6
  <2>5. ASSUME ImportWrites(q), wizard' = [wizard EXCEPT ![q] = Resting], rowLock' = rowLock PROVE WizInv'
    <3>2. wizard[q].op = "read" /\ UNCHANGED <<profile, files, uploads, fired, lost>>
      BY <2>5 DEF ImportWrites
    <3>3. \A r \in WizardRequests : HasRead(r)' => WizRow(wizard[r].seen)'
      BY <1>2, <3>2, <2>5 DEF WizRow
    <3>4. \A r \in WizardRequests : Importing(r)' => VersionOf(r)'
      BY <1>2, <3>2, <2>5 DEF VersionOf
    <3>5. WizRow(profile)'
      BY <1>2, <3>2, <2>5 DEF WizRow
    <3>6. \A text : OnlyFile(text)' <=> OnlyFile(text)
      BY <3>2 DEF OnlyFile
    <3> QED
      BY <1>2, <2>5, <3>2, <3>3, <3>4, <3>5, <3>6
  <2>6. ASSUME ImportWrites(q), rowLock' = q PROVE WizInv'
    <3>1. PICK w : w = [wizard[q] EXCEPT !.op = "written"]
      OBVIOUS
    <3>2. /\ wizard' = [wizard EXCEPT ![q] = w] /\ wizard[q].op = "read" /\ rowLock = Unlocked
          /\ UNCHANGED <<profile, files, uploads, fired, lost>>
          /\ "op" \in DOMAIN w /\ w.op = "written" /\ w.version = wizard[q].version /\ w.kind = wizard[q].kind
          /\ w.seen = wizard[q].seen
      BY <1>2, <2>6, <3>1 DEF ImportWrites, VersionOf
    <3>3. \A r \in WizardRequests : HasRead(r)' => WizRow(wizard[r].seen)'
      <4>1. \A r \in WizardRequests : HasRead(r)' => HasRead(r) /\ wizard'[r].seen = wizard[r].seen
        BY <1>2, <3>2
      <4>2. \A row : WizRow(row) => WizRow(row)'
        BY <3>2 DEF WizRow
      <4> QED
        BY <1>2, <4>1, <4>2
    <3>4. \A r \in WizardRequests : Importing(r)' => VersionOf(r)'
      BY <1>2, <3>2 DEF VersionOf
    <3>5. WizRow(profile)'
      BY <1>2, <3>2 DEF WizRow
    <3>6. \A text : OnlyFile(text)' <=> OnlyFile(text)
      BY <3>2 DEF OnlyFile
    <3> QED
      BY <1>2, <2>6, <3>2, <3>3, <3>4, <3>5, <3>6
  <2>7. ASSUME NEW op \in {"verification", "preferences"}, WizardReads(q, op) PROVE WizInv'
    <3>1. PICK w : w = [op |-> op, seen |-> profile]
      OBVIOUS
    <3>2. /\ wizard' = [wizard EXCEPT ![q] = w] /\ wizard[q].op = "idle"
          /\ UNCHANGED <<profile, files, rowLock, uploads, fired, lost>>
          /\ w.op = op /\ w.seen = profile
      BY <2>7, <3>1 DEF WizardReads
    <3>3. \A r \in WizardRequests : HasRead(r)' => WizRow(wizard[r].seen)'
      BY <1>2, <3>2 DEF WizRow
    <3>4. \A r \in WizardRequests : Importing(r)' => VersionOf(r)'
      BY <1>2, <3>2 DEF VersionOf
    <3>5. WizRow(profile)'
      BY <1>2, <3>2 DEF WizRow
    <3>6. \A text : OnlyFile(text)' <=> OnlyFile(text)
      BY <3>2 DEF OnlyFile
    <3> QED
      BY <1>2, <3>2, <3>3, <3>4, <3>5, <3>6
  <2>8. ASSUME ImportSaves(q) PROVE WizInv'
    <3>1. PICK w : w = [wizard[q] EXCEPT !.op = "saved"]
      OBVIOUS
    <3>2. /\ wizard' = [wizard EXCEPT ![q] = w] /\ wizard[q].op = "written" /\ rowLock = q
          /\ UNCHANGED <<profile, rowLock, uploads, fired, lost>>
          /\ "op" \in DOMAIN w /\ w.op = "saved" /\ w.version = wizard[q].version /\ w.kind = wizard[q].kind
          /\ w.seen = wizard[q].seen
          /\ files' = [k \in Kinds |-> IF k = w.kind THEN w.version ELSE 0]
      BY <1>2, <2>8, <3>1 DEF ImportSaves, VersionOf
    <3>3. \A r \in WizardRequests : HasRead(r)' => WizRow(wizard[r].seen)'
      BY <1>2, <3>2 DEF WizRow
    <3>4. \A r \in WizardRequests : Importing(r)' => VersionOf(r)'
      BY <1>2, <3>2 DEF VersionOf
    <3>5. WizRow(profile)'
      BY <1>2, <3>2 DEF WizRow
    <3>6. OnlyFile(w.version)' /\ files' \in [Kinds -> 0..MaxUploads]
      BY <1>2, <3>2 DEF OnlyFile, VersionOf
    <3>7. \A r \in WizardRequests : wizard'[r].op = "saved" => r = q
      BY <1>2, <3>2
    <3> QED
      BY <1>2, <3>2, <3>3, <3>4, <3>5, <3>6, <3>7
  <2>9. ASSUME ImportCommits(q) PROVE WizInv'
    <3>2. /\ wizard' = [wizard EXCEPT ![q] = Resting] /\ wizard[q].op = "saved" /\ rowLock = q /\ rowLock' = Unlocked
          /\ profile' = Changed(profile, wizard[q].seen, Imported(wizard[q].seen, wizard[q]))
          /\ UNCHANGED <<files, uploads, fired, lost>>
      BY <1>2, <2>9 DEF ImportCommits
    <3>7. WizRow(wizard[q].seen) /\ VersionOf(q) /\ HasRead(q)
      BY <1>2, <3>2
    <3>9. PICK new : new = Imported(wizard[q].seen, wizard[q])
      OBVIOUS
    <3>10. WizRow(new) /\ new.text = wizard[q].version
      BY <3>7, <3>9 DEF WizRow, Imported, VersionOf
    <3>5. WizRow(profile)' /\ profile'.text = wizard[q].version
      BY <1>2, <3>2, <3>7, <3>9, <3>10 DEF WizRow, Changed, VersionOf
    <3>3. \A r \in WizardRequests : HasRead(r)' => WizRow(wizard[r].seen)'
      BY <1>2, <3>2 DEF WizRow
    <3>4. \A r \in WizardRequests : Importing(r)' => VersionOf(r)'
      BY <1>2, <3>2, <3>5 DEF VersionOf
    <3>6. \A text : OnlyFile(text)' <=> OnlyFile(text)
      BY <3>2 DEF OnlyFile
    <3>8. OnlyFile(wizard[q].version)
      BY <1>2, <3>2
    <3> QED
      BY <1>2, <3>2, <3>3, <3>4, <3>5, <3>6, <3>8
  <2>10. ASSUME ApplyVerification(q) \/ ApplyPreferences(q) PROVE WizInv'
    <3>1. HasRead(q) /\ ~Importing(q)
      BY <2>10 DEF ApplyVerification, ApplyPreferences
    <3>2. /\ wizard' = [wizard EXCEPT ![q] = Resting]
          /\ UNCHANGED <<files, rowLock, uploads, lost>> /\ fired' \in Nat
      BY <1>2, <2>10 DEF ApplyVerification, ApplyPreferences, WizardCommits
    <3>3. PICK new : /\ profile' = Changed(profile, wizard[q].seen, new)
                     /\ \/ \E form \in Forms : new = Verified(wizard[q].seen, form)
                        \/ new = [wizard[q].seen EXCEPT !.status = "complete", !.matched = TRUE]
      BY <2>10 DEF ApplyVerification, ApplyPreferences, WizardCommits
    <3>4. WizRow(new) /\ new.text = wizard[q].seen.text
      <4>1. WizRow(wizard[q].seen)
        BY <1>2, <3>1
      <4>2. CASE new = [wizard[q].seen EXCEPT !.status = "complete", !.matched = TRUE]
        BY <4>1, <4>2 DEF WizRow
      <4>3. CASE \E form \in Forms : new = Verified(wizard[q].seen, form)
        BY <4>1, <4>3, WizardConstants DEF WizRow, Verified, Form
      <4> QED
        BY <3>3, <4>2, <4>3
    <3>5. WizRow(profile)' /\ profile'.text = profile.text
      BY <1>2, <3>2, <3>3, <3>4 DEF WizRow, Changed
    <3>6. \A r \in WizardRequests : HasRead(r)' => WizRow(wizard[r].seen)'
      BY <1>2, <3>2 DEF WizRow
    <3>7. \A r \in WizardRequests : Importing(r)' => VersionOf(r)'
      BY <1>2, <3>2, <3>5 DEF VersionOf
    <3>8. \A text : OnlyFile(text)' <=> OnlyFile(text)
      BY <3>2 DEF OnlyFile
    <3> QED
      BY <1>2, <3>1, <3>2, <3>5, <3>6, <3>7, <3>8
  <2>11. ASSUME ImportWrites(q) PROVE WizInv'
    BY <2>5, <2>6, <2>11 DEF ImportWrites
  <2> QED
    BY <2>1, <2>2, <2>3, <2>4, <2>7, <2>8, <2>9, <2>10, <2>11 DEF WizardStep
<1>3. ASSUME WizInv, UNCHANGED wizardVars PROVE WizInv'
  <2> USE <1>3 DEF wizardVars, WizInv
  <2>1. (\A row : WizRow(row) => WizRow(row)') /\ (\A text : OnlyFile(text)' <=> OnlyFile(text))
    BY DEF WizRow, OnlyFile
  <2>2. WizRow(profile)' /\ \A r \in WizardRequests : HasRead(r)' => WizRow(wizard[r].seen)'
    BY DEF WizRow
  <2>3. \A r \in WizardRequests : Importing(r)' => VersionOf(r)'
    BY DEF VersionOf
  <2> QED
    BY <2>1, <2>2, <2>3
<1> QED
  BY <1>1, <1>2, <1>3, PTL DEF WizardSpec

(* Whichever imports and wizard steps of one candidate overlap, the file on disk *)
(* is that of the CV the profile was made of, once the row is free again, as    *)
(* long as no commit failed after its file was saved.                          *)
THEOREM FilesFollowTheProfile == WizardSpec => []FileIsTheProfile
<1>1. WizInv => FileIsTheProfile
  BY WizardConstants DEF WizInv, FileIsTheProfile, OnlyFile, HoldsRow, Unlocked
<1> QED
  BY <1>1, WizardInvariant, PTL

LEMMA WizardTyped == WizInv => WizardTypeOK
BY DEF WizInv, WizRow, WizardTypeOK

-------------------------------------------------------------------------------
(* The deletion of an account does what AccountPromise states                *)

RequestSet == [step : {"idle", "purging", "row"}, result : [Listeners -> Stages]]

(* What the stage of a listener says of the data: nothing is stored again      *)
(* while a request runs, so what its listeners removed stays removed.         *)
StageMeans(l, stage, d) ==
  /\ l = "cv" /\ stage = "row" => "matches" \notin d
  /\ l = "cv" /\ stage = "files" => "matches" \notin d /\ "profile" \notin d
  /\ stage = "ok" => d \cap PurgedBy(l) = {}

DeletionMeans(request, d) ==
  /\ request.step # "idle" => \A l \in Listeners : StageMeans(l, request.result[l], d)
  /\ request.step = "row" => \A l \in Listeners : request.result[l] = "ok"

DInv ==
  /\ account \in BOOLEAN
  /\ data \in SUBSET Stored
  /\ deleting \in [DeleteRequests -> RequestSet]
  /\ MatchesHaveProfile(data)
  /\ \A r \in DeleteRequests : DeletionMeans(deleting[r], data)

-----------------------------------------------------------------------------
(* Losing data never contradicts a request.                                  *)
LEMMA LosingKeepsMeaning ==
  ASSUME NEW request \in RequestSet, NEW d, NEW e \in SUBSET d, DeletionMeans(request, d)
  PROVE  DeletionMeans(request, e)
  BY DEF DeletionMeans, StageMeans

(* A request that moves one listener to a stage that is true of the data.     *)
LEMMA StageIsTrue ==
  ASSUME NEW request \in RequestSet, NEW d, NEW l \in Listeners, NEW stage \in Stages,
         DeletionMeans(request, d), request.step = "purging", StageMeans(l, stage, d)
  PROVE  /\ [request EXCEPT !.result[l] = stage] \in RequestSet
         /\ DeletionMeans([request EXCEPT !.result[l] = stage], d)
  <1> DEFINE new == [request EXCEPT !.result[l] = stage]
  <1>1. new \in RequestSet /\ new.step = "purging"
    BY DEF RequestSet
  <1>2. \A k \in Listeners : new.result[k] = IF k = l THEN stage ELSE request.result[k]
    BY DEF RequestSet
  <1>3. \A k \in Listeners : StageMeans(k, new.result[k], d)
    BY <1>2 DEF DeletionMeans
  <1> QED
    BY <1>1, <1>3 DEF DeletionMeans

(* The requests that do not move keep their meaning, with the data or less.    *)
LEMMA OneMoves ==
  ASSUME DInv, NEW r \in DeleteRequests, NEW new \in RequestSet, NEW e \in SUBSET data,
         MatchesHaveProfile(e), DeletionMeans(new, e)
  PROVE  /\ [deleting EXCEPT ![r] = new] \in [DeleteRequests -> RequestSet]
         /\ e \in SUBSET Stored
         /\ \A q \in DeleteRequests : DeletionMeans([deleting EXCEPT ![r] = new][q], e)
  <1>1. \A q \in DeleteRequests : DeletionMeans(deleting[q], e)
    BY LosingKeepsMeaning DEF DInv
  <1> QED
    BY <1>1 DEF DInv

LEMMA NoRequestMeans ==
  NoDeletion \in RequestSet /\ \A d : DeletionMeans(NoDeletion, d)
  BY DEF NoDeletion, RequestSet, Stages, DeletionMeans

LEMMA DInvInit == DeletionInit => DInv
  BY NoRequestMeans DEF DeletionInit, DInv

-----------------------------------------------------------------------------
(* Every step keeps the invariant.                                           *)
LEMMA DInvNext == DInv /\ [DeletionNext]_deletionVars => DInv'
  <1> SUFFICES ASSUME DInv, [DeletionNext]_deletionVars PROVE DInv'
    OBVIOUS
  <1> USE DEF DInv
  <1>1. CASE Uses
    <2>1. \A r \in DeleteRequests : DeletionMeans(deleting[r], data')
      BY <1>1 DEF Uses, Step, DeletionMeans
    <2> QED
      BY <1>1, <2>1 DEF Uses
  <1>2. CASE Restart
    BY <1>2, NoRequestMeans DEF Restart
  <1>3. ASSUME NEW r \in DeleteRequests, AskDeletion(r) PROVE DInv'
    <2> DEFINE new == [step |-> "purging", result |-> [l \in Listeners |-> "running"]]
    <2>1. new \in RequestSet /\ DeletionMeans(new, data)
      BY DEF RequestSet, Stages, DeletionMeans, StageMeans
    <2>2. deleting' = [deleting EXCEPT ![r] = new] /\ UNCHANGED <<account, data>>
      BY <1>3 DEF AskDeletion
    <2> QED
      BY <2>1, <2>2, OneMoves
  <1>4. ASSUME NEW r \in DeleteRequests, NEW l \in Listeners, NEW stage \in Stages,
               deleting[r].step = "purging", MoveTo(r, l, stage), account' = account,
               data' \in SUBSET data, MatchesHaveProfile(data'), StageMeans(l, stage, data')
        PROVE  DInv'
    <2> DEFINE new == [deleting[r] EXCEPT !.result[l] = stage]
    <2>0. deleting[r] \in RequestSet
      OBVIOUS
    <2>1. DeletionMeans(deleting[r], data')
      BY <1>4, <2>0, LosingKeepsMeaning
    <2>2. new \in RequestSet /\ DeletionMeans(new, data')
      BY <1>4, <2>0, <2>1, StageIsTrue
    <2>3. deleting' = [deleting EXCEPT ![r] = new]
      BY <1>4 DEF MoveTo
    <2> QED
      BY <1>4, <2>2, <2>3, OneMoves
  <1>5. ASSUME NEW r \in DeleteRequests, NEW l \in Listeners, PurgeRows(r, l) PROVE DInv'
    <2>1. /\ "ok" \in Stages /\ deleting[r].step = "purging" /\ MoveTo(r, l, "ok")
          /\ account' = account /\ data' = data \ PurgedBy(l)
      BY <1>5 DEF PurgeRows, At, Stages
    <2>2. MatchesHaveProfile(data')
      BY <1>5, <2>1 DEF PurgeRows, PurgedBy, Listeners, MatchesHaveProfile
    <2>3. StageMeans(l, "ok", data')
      BY <2>1 DEF StageMeans
    <2> QED
      BY <1>4, <2>1, <2>2, <2>3
  <1>6. ASSUME NEW r \in DeleteRequests, NEW l \in Listeners, PurgeFails(r, l) PROVE DInv'
    <2>1. /\ "failed" \in Stages /\ deleting[r].step = "purging" /\ MoveTo(r, l, "failed")
          /\ account' = account /\ data' = data
      BY <1>6 DEF PurgeFails, Stages
    <2>2. StageMeans(l, "failed", data')
      BY DEF StageMeans
    <2> QED
      BY <1>4, <2>1, <2>2
  <1>7. ASSUME NEW r \in DeleteRequests, FindProfile(r) PROVE DInv'
    <2> DEFINE stage == IF "profile" \in data THEN "matches" ELSE "files"
    <2>1. /\ "cv" \in Listeners /\ stage \in Stages /\ deleting[r].step = "purging"
          /\ MoveTo(r, "cv", stage) /\ account' = account /\ data' = data
      BY <1>7 DEF FindProfile, At, Stages, Listeners
    <2>2. StageMeans("cv", stage, data')
      BY <2>1 DEF StageMeans, MatchesHaveProfile
    <2> QED
      BY <1>4, <2>1, <2>2
  <1>8. ASSUME NEW r \in DeleteRequests, PurgeMatches(r) PROVE DInv'
    <2>1. /\ "cv" \in Listeners /\ "row" \in Stages /\ deleting[r].step = "purging"
          /\ MoveTo(r, "cv", "row") /\ account' = account /\ data' = data \ {"matches"}
      BY <1>8 DEF PurgeMatches, At, Stages, Listeners
    <2>2. StageMeans("cv", "row", data') /\ MatchesHaveProfile(data')
      BY <2>1 DEF StageMeans, MatchesHaveProfile
    <2> QED
      BY <1>4, <2>1, <2>2
  <1>9. ASSUME NEW r \in DeleteRequests, DeleteProfile(r) PROVE DInv'
    <2>1. /\ "cv" \in Listeners /\ "files" \in Stages /\ deleting[r].step = "purging"
          /\ deleting[r].result["cv"] = "row"
          /\ MoveTo(r, "cv", "files") /\ account' = account /\ data' = data \ {"profile"}
      BY <1>9 DEF DeleteProfile, At, Stages, Listeners
    <2>2. "matches" \notin data
      BY <2>1 DEF DeletionMeans, StageMeans
    <2>3. StageMeans("cv", "files", data') /\ MatchesHaveProfile(data')
      BY <2>1, <2>2 DEF StageMeans, MatchesHaveProfile
    <2> QED
      BY <1>4, <2>1, <2>3
  <1>10. ASSUME NEW r \in DeleteRequests, DeleteFiles(r) PROVE DInv'
    <2>1. /\ "cv" \in Listeners /\ "ok" \in Stages /\ deleting[r].step = "purging"
          /\ deleting[r].result["cv"] = "files"
          /\ MoveTo(r, "cv", "ok") /\ account' = account /\ data' = data \ {"cv files"}
      BY <1>10 DEF DeleteFiles, At, Stages, Listeners
    <2>2. "matches" \notin data /\ "profile" \notin data
      BY <2>1 DEF DeletionMeans, StageMeans
    <2>3. StageMeans("cv", "ok", data') /\ MatchesHaveProfile(data')
      BY <2>1, <2>2 DEF StageMeans, MatchesHaveProfile, PurgedBy
    <2> QED
      BY <1>4, <2>1, <2>3
  <1>11. ASSUME NEW r \in DeleteRequests, AllFinished(r) PROVE DInv'
    <2> DEFINE new == IF Emitted(deleting[r].result)
                        THEN [deleting[r] EXCEPT !.step = "row"] ELSE NoDeletion
    <2>1. /\ deleting[r] \in RequestSet /\ deleting[r].step = "purging"
          /\ deleting' = [deleting EXCEPT ![r] = new] /\ UNCHANGED <<account, data>>
      BY <1>11 DEF AllFinished, Step
    <2>2. Emitted(deleting[r].result) => \A l \in Listeners : deleting[r].result[l] = "ok"
      BY <1>11 DEF AllFinished, Settled, Emitted
    <2>3. new \in RequestSet
      BY <2>1, NoRequestMeans DEF RequestSet
    <2>4. DeletionMeans(new, data)
      <3>1. CASE Emitted(deleting[r].result)
        BY <3>1, <2>1, <2>2 DEF DeletionMeans, RequestSet
      <3>2. CASE ~Emitted(deleting[r].result)
        BY <3>2, NoRequestMeans
      <3> QED
        BY <3>1, <3>2
    <2> QED
      BY <2>1, <2>3, <2>4, OneMoves
  <1>12. ASSUME NEW r \in DeleteRequests, DeleteRow(r) \/ RowFails(r) PROVE DInv'
    <2>1. /\ deleting' = [deleting EXCEPT ![r] = NoDeletion] /\ data' = data
          /\ account' \in BOOLEAN
      BY <1>12 DEF DeleteRow, RowFails
    <2> QED
      BY <2>1, NoRequestMeans, OneMoves
  <1>13. CASE UNCHANGED deletionVars
    BY <1>13 DEF deletionVars
  <1> QED
    BY <1>1, <1>2, <1>3, <1>5, <1>6, <1>7, <1>8, <1>9, <1>10, <1>11, <1>12, <1>13
    DEF DeletionNext, RequestStep

LEMMA DeletionInvariant == DeletionSpec => []DInv
  BY DInvInit, DInvNext, PTL DEF DeletionSpec

-----------------------------------------------------------------------------
(* Every step is one of the promise, or changes nothing of it.                *)
LEMMA StepKeepsPromise ==
  DInv /\ [DeletionNext]_deletionVars =>
    [Promise!PromiseNext]_(Promise!promiseVars)
  <1> SUFFICES ASSUME DInv, [DeletionNext]_deletionVars
               PROVE  [Promise!PromiseNext]_(Promise!promiseVars)
    OBVIOUS
  <1> DEFINE kept == data \cap Purged
  <1>0. kept \in SUBSET Purged
    OBVIOUS
  <1>1. CASE Uses
    <2>1. account /\ kept' \in SUBSET Purged /\ kept \subseteq kept' /\ UNCHANGED account
      BY <1>1 DEF Uses
    <2> QED
      BY <2>1 DEF Promise!PromiseNext, Promise!Gains
  <1>2. ASSUME data' \in SUBSET data, UNCHANGED account
        PROVE  [Promise!PromiseNext]_(Promise!promiseVars)
    BY <1>2 DEF Promise!PromiseNext, Promise!Loses
  <1>3. CASE Restart \/ UNCHANGED deletionVars
    BY <1>2, <1>3 DEF Restart, deletionVars
  <1>4. ASSUME NEW r \in DeleteRequests, RequestStep(r), ~DeleteRow(r)
        PROVE  [Promise!PromiseNext]_(Promise!promiseVars)
    <2>1. data' \in SUBSET data /\ UNCHANGED account
      BY <1>4 DEF RequestStep, AskDeletion, PurgeRows, PurgeFails, FindProfile, PurgeMatches,
                  DeleteProfile, DeleteFiles, AllFinished, RowFails
    <2> QED
      BY <1>2, <2>1
  <1>5. ASSUME NEW r \in DeleteRequests, DeleteRow(r)
        PROVE  [Promise!PromiseNext]_(Promise!promiseVars)
    <2>1. \A l \in Listeners : data \cap PurgedBy(l) = {}
      BY <1>5 DEF DeleteRow, Step, DInv, DeletionMeans, StageMeans
    <2>2. kept = {}
      BY <2>1 DEF Purged
    <2>3. account' = FALSE /\ data' = data /\ account \in BOOLEAN
      BY <1>5 DEF DeleteRow, DInv
    <2>4. CASE account
      BY <2>2, <2>3, <2>4 DEF Promise!PromiseNext, Promise!Goes
    <2>5. CASE ~account
      BY <2>3, <2>5, <1>2
    <2> QED
      BY <2>4, <2>5
  <1> QED
    BY <1>1, <1>3, <1>4, <1>5 DEF DeletionNext

(* For any number of concurrent requests, failures and restarts, the row of the *)
(* user goes last: the code implements AccountPromise.                         *)
THEOREM DeletionKeepsPromise == DeletionSpec => RowGoesLast
  <1>1. DeletionInit => Promise!PromiseInit
    BY DEF DeletionInit, Promise!PromiseInit
  <1> QED
    BY <1>1, DeletionInvariant, StepKeepsPromise, PTL
    DEF DeletionSpec, RowGoesLast, Promise!PromiseSpec

(* A confirmation is only mailed once the account is gone, and then no request  *)
(* begins: one confirmation at most for each of those that were running.      *)
OpenRequests == {r \in DeleteRequests : deleting[r].step # "idle"}
FarewellInv ==
  /\ farewells \in Nat /\ faults \in 0..MaxFaults
  /\ account => farewells = 0
  /\ farewells + Cardinality(OpenRequests) <= Cardinality(DeleteRequests)

LEMMA OpenAreFew ==
  /\ IsFiniteSet(OpenRequests) /\ Cardinality(OpenRequests) \in Nat
  /\ Cardinality(DeleteRequests) \in Nat
  /\ Cardinality(OpenRequests) <= Cardinality(DeleteRequests)
  BY DeletionConstants, FS_Subset, FS_CardinalityType DEF OpenRequests

LEMMA FarewellsStart == DeletionInit => FarewellInv
  <1> SUFFICES ASSUME DeletionInit PROVE FarewellInv
    OBVIOUS
  <1>1. farewells = 0 /\ faults = 0 /\ MaxFaults \in Nat
    BY DeletionConstants DEF DeletionInit
  <1> QED
    BY <1>1, OpenAreFew DEF FarewellInv

LEMMA FarewellsStep == DInv /\ FarewellInv /\ [DeletionNext]_deletionVars => FarewellInv'
  <1> SUFFICES ASSUME DInv, FarewellInv, [DeletionNext]_deletionVars PROVE FarewellInv'
    OBVIOUS
  <1>1. /\ IsFiniteSet(OpenRequests) /\ Cardinality(OpenRequests) \in Nat
        /\ Cardinality(OpenRequests') \in Nat /\ Cardinality(DeleteRequests) \in Nat
        /\ Cardinality(OpenRequests') <= Cardinality(DeleteRequests)
    <2>1. OpenRequests' \subseteq DeleteRequests
      BY DEF OpenRequests
    <2> QED
      BY <2>1, OpenAreFew, DeletionConstants, FS_Subset, FS_CardinalityType
  <1>2. MaxFaults \in Nat /\ deleting \in [DeleteRequests -> RequestSet]
    BY DeletionConstants DEF DInv
  <1>3. NoDeletion.step = "idle"
    BY DEF NoDeletion
  (* Most steps open no request and mail nothing.                               *)
  <1>4. ASSUME OpenRequests' \subseteq OpenRequests, farewells' = farewells, account' = account,
               faults' \in 0..MaxFaults
        PROVE  FarewellInv'
    <2>1. Cardinality(OpenRequests') <= Cardinality(OpenRequests)
      BY <1>1, <1>4, FS_Subset
    <2> QED
      BY <1>1, <1>4, <2>1 DEF FarewellInv
  <1>5. (faults < MaxFaults /\ faults' = faults + 1) \/ faults' = faults => faults' \in 0..MaxFaults
    BY <1>2 DEF FarewellInv
  <1>6. CASE Uses \/ Restart \/ UNCHANGED deletionVars
    <2>1. OpenRequests' \subseteq OpenRequests
      BY <1>3, <1>6 DEF Uses, Restart, deletionVars, OpenRequests
    <2>2. farewells' = farewells /\ faults' \in 0..MaxFaults
      BY <1>5, <1>6 DEF Uses, Restart, Fault, deletionVars
    <2>3. account' = account
      BY <1>6 DEF Uses, Restart, deletionVars
    <2> QED
      BY <1>4, <2>1, <2>2, <2>3
  <1>7. ASSUME NEW r \in DeleteRequests, AskDeletion(r) PROVE FarewellInv'
    <2>1. account /\ farewells' = farewells /\ faults' = faults
      BY <1>7 DEF AskDeletion
    <2> QED
      BY <1>1, <2>1 DEF FarewellInv
  <1>8. ASSUME NEW r \in DeleteRequests, DeleteRow(r) PROVE FarewellInv'
    <2>1. /\ farewells' = farewells + 1 /\ faults' = faults /\ account' = FALSE
          /\ r \in OpenRequests /\ OpenRequests' = OpenRequests \ {r}
      BY <1>2, <1>3, <1>8 DEF DeleteRow, Step, OpenRequests
    <2>2. Cardinality(OpenRequests') = Cardinality(OpenRequests) - 1
      BY <1>1, <2>1, FS_RemoveElement
    <2> QED
      BY <1>1, <2>1, <2>2 DEF FarewellInv
  <1>9. ASSUME NEW r \in DeleteRequests, RequestStep(r), ~AskDeletion(r), ~DeleteRow(r) PROVE FarewellInv'
    <2>1. /\ farewells' = farewells /\ account' = account /\ deleting[r].step # "idle"
          /\ (faults < MaxFaults /\ faults' = faults + 1) \/ faults' = faults
      BY <1>9 DEF RequestStep, PurgeRows, PurgeFails, FindProfile, PurgeMatches, DeleteProfile, DeleteFiles,
                  AllFinished, RowFails, At, Step, Fault
    <2>2. \A q \in DeleteRequests : q # r => deleting'[q] = deleting[q]
      BY <1>2, <1>9 DEF RequestStep, PurgeRows, PurgeFails, FindProfile, PurgeMatches, DeleteProfile, DeleteFiles,
                        AllFinished, RowFails, MoveTo
    <2>3. OpenRequests' \subseteq OpenRequests
      BY <2>1, <2>2 DEF OpenRequests
    <2> QED
      BY <1>4, <1>5, <2>1, <2>3
  <1> QED
    BY <1>6, <1>7, <1>8, <1>9 DEF DeletionNext

\* The types of the component, for the composition.
LEMMA DeletionTyped == DInv /\ FarewellInv => DeletionTypeOK
  <1> SUFFICES ASSUME DInv, FarewellInv PROVE DeletionTypeOK
    OBVIOUS
  <1>1. farewells \in 0..Cardinality(DeleteRequests)
    BY OpenAreFew DEF FarewellInv
  <1> QED
    BY <1>1 DEF DInv, FarewellInv, RequestSet, DeletionTypeOK

-------------------------------------------------------------------------------
(* The admin screens                                                         *)

UsageRow == [detailed : BOOLEAN, at : Nat, eur : Nat]

(* What the tables know of each other: no file without its account, no pair    *)
(* and no tailored CV without a file, no analysis without a pre-filter; a page *)
(* view is from an account, or from one deleted while it was under way.       *)
Known(f) == people[f] # Absent \/ f \in outlived
ScreenInv ==
  /\ ScreenTypeOK
  /\ \A f \in Folk : folders[f] # Absent => people[f] # Absent
  /\ \A p \in Folk \X Positions : pairs[p] # Absent \/ tailored[p] # Absent => folders[p[1]] # Absent
  /\ \A p \in Pairs : /\ pairs[p].updated <= now
                      /\ pairs[p].status \in {"pending", "scored"} => pairs[p].prefiltered
  /\ IsFiniteSet(visits) /\ \A v \in visits : v.who \in Folk /\ v.at \in Nat /\ Known(v.who)
  /\ \A f \in opening : Known(f)
  /\ IsFiniteSet(stamps)
  /\ IsFiniteSet(usage) /\ usage \subseteq UsageRow

LEMMA AbsentIsNoRow ==
  /\ \A row \in PersonRow : row # Absent
  /\ \A row \in FolderRow : row # Absent
  /\ \A row \in PairRow : row # Absent
  /\ \A row \in TailoredRow : row # Absent
  BY ScreenConstants

LEMMA ScreensStart == ScreensInit => ScreenInv
<1> SUFFICES ASSUME ScreensInit PROVE ScreenInv
  OBVIOUS
<1>1. PICK old \in BOOLEAN :
       /\ people = [f \in Folk |->
            IF old THEN [at |-> 0, verified |-> TRUE, google |-> FALSE, admin |-> FALSE, active |-> TRUE]
            ELSE Absent]
       /\ folders = [f \in Folk |->
            IF old THEN [status |-> "complete", checked |-> TRUE] ELSE Absent]
       /\ wants = [f \in Folk |-> IF old THEN {"email"} ELSE Absent]
       /\ pairs = [p \in Folk \X Positions |->
            IF old THEN [NewPair("scored") EXCEPT !.prefiltered = TRUE] ELSE Absent]
  BY DEF ScreensInit
<1>2. /\ now = 0 /\ tailored = [p \in Folk \X Positions |-> Absent]
      /\ opening = {} /\ visits = {} /\ outlived = {} /\ stamps = {} /\ usage = {} /\ submitted = {}
      /\ jobRuns = [j \in ScreenJobs |-> "never"] /\ mails = [pending |-> 0, failed |-> 0]
      /\ events = 0
  BY DEF ScreensInit
<1>3. PICK row : row = [NewPair("scored") EXCEPT !.prefiltered = TRUE]
  OBVIOUS
<1>4. /\ row \in PairRow /\ row.status = "scored" /\ row.prefiltered = TRUE
      /\ row.created = 0 /\ row.computed = 0 /\ row.updated = 0
  BY <1>2, <1>3 DEF NewPair, PairRow
<1>5. people \in [Folk -> {Absent} \union PersonRow]
  BY <1>1 DEF PersonRow
<1>6. folders \in [Folk -> {Absent} \union FolderRow]
  BY <1>1 DEF FolderRow
<1>7. wants \in [Folk -> {Absent} \union SUBSET Channels]
  BY <1>1 DEF Channels
<1>8. pairs \in [Folk \X Positions -> {Absent} \union PairRow]
  BY <1>1, <1>3, <1>4
<1>9. \A p \in Pairs : pairs[p] = row /\ old
  BY <1>1, <1>3 DEF Pairs
<1>10. ScreenTypeOK
  BY <1>2, <1>4, <1>5, <1>6, <1>7, <1>8, <1>9, ScreenConstants DEF ScreenTypeOK
<1>11. \A f \in Folk : folders[f] # Absent => people[f] # Absent
  <2>1. [at |-> 0, verified |-> TRUE, google |-> FALSE, admin |-> FALSE, active |-> TRUE] \in PersonRow
    BY DEF PersonRow
  <2> QED
    BY <1>1, <2>1, AbsentIsNoRow
<1>12. \A p \in Folk \X Positions : pairs[p] # Absent \/ tailored[p] # Absent => folders[p[1]] # Absent
  <2>1. [status |-> "complete", checked |-> TRUE] \in FolderRow
    BY DEF FolderRow
  <2> QED
    BY <1>1, <1>2, <2>1, AbsentIsNoRow
<1> QED
  BY <1>2, <1>4, <1>9, <1>10, <1>11, <1>12, FS_EmptySet DEF ScreenInv, Known

\* The clock and the bounds, when a table changes.
Counted == now' = now /\ events' \in 0..MaxEvents

LEMMA PersonChanges ==
  ASSUME ScreenInv, Counted, NEW f \in Folk, NEW row \in PersonRow,
         people' = [people EXCEPT ![f] = row],
         UNCHANGED <<folders, wants, pairs, tailored, views, stamps, usage, jobRuns, submitted, mails>>
  PROVE  ScreenInv'
<1> USE DEF views, Known
<1>1. people \in [Folk -> {Absent} \union PersonRow]
  BY DEF ScreenInv, ScreenTypeOK
<1>2. /\ people' \in [Folk -> {Absent} \union PersonRow]
      /\ \A g \in Folk : people[g] # Absent => people'[g] # Absent
  BY <1>1, AbsentIsNoRow
<1>3. Pairs' = Pairs
  BY DEF Pairs
<1>4. ScreenTypeOK'
  BY <1>2, <1>3 DEF ScreenInv, ScreenTypeOK, Counted
<1> QED
  BY <1>2, <1>3, <1>4 DEF ScreenInv, Counted

LEMMA PairChanges ==
  ASSUME ScreenInv, Counted, NEW p \in Folk \X Positions, NEW new \in PairRow,
         PairBecomes(p, new), folders[p[1]] # Absent,
         new.created <= new.computed, new.computed <= now,
         new.status \in {"pending", "scored"} => new.prefiltered
  PROVE  ScreenInv'
<1> USE DEF views, Known
<1>1. PICK row : row = [new EXCEPT !.updated = now]
  OBVIOUS
<1>2. now \in Nat /\ pairs \in [Folk \X Positions -> {Absent} \union PairRow]
  BY ScreenConstants DEF ScreenInv, ScreenTypeOK
<1>3. /\ row \in PairRow /\ row.updated = now /\ row.created = new.created
      /\ row.computed = new.computed /\ row.status = new.status /\ row.prefiltered = new.prefiltered
  BY <1>1, <1>2 DEF PairRow
<1>4. /\ pairs' = [pairs EXCEPT ![p] = row]
      /\ UNCHANGED <<folders, people, wants, tailored, views, stamps, usage, jobRuns, submitted, mails>>
  BY <1>1 DEF PairBecomes
<1>5. pairs' \in [Folk \X Positions -> {Absent} \union PairRow]
  BY <1>2, <1>3, <1>4
<1>6. \A q \in Pairs' : pairs'[q] = row \/ (q \in Pairs /\ pairs'[q] = pairs[q])
  BY <1>2, <1>4 DEF Pairs
<1>7. \A q \in Pairs' : pairs'[q].created <= pairs'[q].computed /\ pairs'[q].computed <= pairs'[q].updated
  BY <1>3, <1>6 DEF ScreenInv, ScreenTypeOK
<1>8. ScreenTypeOK'
  BY <1>4, <1>5, <1>7 DEF ScreenInv, ScreenTypeOK, Counted
<1>9. \A q \in Pairs' : /\ pairs'[q].updated <= now
                        /\ pairs'[q].status \in {"pending", "scored"} => pairs'[q].prefiltered
  BY <1>2, <1>3, <1>6 DEF ScreenInv
<1>10. \A q \in Folk \X Positions : pairs'[q] # Absent \/ tailored'[q] # Absent => folders'[q[1]] # Absent
  BY <1>2, <1>4 DEF ScreenInv
<1> QED
  BY <1>4, <1>8, <1>9, <1>10 DEF ScreenInv, Counted

LEMMA PairsMove ==
  ASSUME ScreenInv, Counted, NEW p \in DOMAIN pairs,
         Records(p) \/ Prefilters(p) \/ Analyses(p) \/ Applies(p)
  PROVE  ScreenInv'
<1>1. now \in Nat /\ pairs \in [Folk \X Positions -> {Absent} \union PairRow] /\ p \in Folk \X Positions
  BY ScreenConstants DEF ScreenInv, ScreenTypeOK
<1>2. CASE p \notin Pairs /\ Records(p)
  <2>1. PICK s \in {"filtered_out", "placeholder"} : PairBecomes(p, NewPair(s))
    BY <1>2 DEF Records
  <2>2. PICK new : new = NewPair(s)
    OBVIOUS
  <2>3. new \in PairRow /\ new.created = now /\ new.computed = now /\ new.status = s
    BY <1>1, <2>2 DEF NewPair, PairRow
  <2>4. folders[p[1]] # Absent
    BY <1>2 DEF Records
  <2> QED
    BY <1>1, <2>1, <2>2, <2>3, <2>4, PairChanges
<1>3. CASE p \in Pairs
  <2>1. PICK old \in PairRow : old = pairs[p]
    BY <1>1, <1>3 DEF Pairs
  <2>2. /\ old.created \in Nat /\ old.computed \in Nat /\ old.updated \in Nat
        /\ old.created <= old.computed /\ old.computed <= old.updated /\ old.updated <= now
        /\ old.status \in {"pending", "scored"} => old.prefiltered
    BY <1>3, <2>1 DEF ScreenInv, ScreenTypeOK, PairRow
  <2>3. old.computed <= now
    BY <1>1, <2>2
  <2>4. folders[p[1]] # Absent
    BY <1>1, <1>3 DEF ScreenInv, Pairs
  <2>5. CASE Records(p)
    <3>1. PICK new : new = [old EXCEPT !.status = "placeholder", !.prefiltered = FALSE]
      OBVIOUS
    <3>2. new \in PairRow /\ new.created = old.created /\ new.computed = old.computed /\ new.status = "placeholder"
      BY <3>1 DEF PairRow
    <3>3. PairBecomes(p, new)
      BY <1>3, <2>1, <2>5, <3>1 DEF Records
    <3> QED
      BY <1>1, <2>2, <2>3, <2>4, <3>2, <3>3, PairChanges
  <2>6. CASE Prefilters(p)
    <3>1. PICK s \in {"filtered_out", "pending"} :
            PairBecomes(p, [pairs[p] EXCEPT !.status = s, !.prefiltered = TRUE])
      BY <2>6 DEF Prefilters
    <3>2. PICK new : new = [old EXCEPT !.status = s, !.prefiltered = TRUE]
      OBVIOUS
    <3>3. new \in PairRow /\ new.created = old.created /\ new.computed = old.computed /\ new.prefiltered = TRUE
      BY <3>2 DEF PairRow
    <3> QED
      BY <1>1, <2>1, <2>2, <2>3, <2>4, <3>1, <3>2, <3>3, PairChanges
  <2>7. CASE Analyses(p)
    <3>1. PICK new : new = [old EXCEPT !.status = "scored", !.computed = now]
      OBVIOUS
    <3>2. /\ new \in PairRow /\ new.created = old.created /\ new.computed = now
          /\ new.prefiltered = old.prefiltered
      BY <1>1, <3>1 DEF PairRow
    <3>3. PairBecomes(p, new) /\ old.status = "pending"
      BY <2>1, <2>7, <3>1 DEF Analyses
    <3> QED
      BY <1>1, <2>2, <2>3, <2>4, <3>2, <3>3, PairChanges
  <2>8. CASE Applies(p)
    <3>1. PICK a \in {"not_applied", "applied", "interview"} :
            PairBecomes(p, [pairs[p] EXCEPT !.application = a, !.appliedAt = now])
      BY <2>8 DEF Applies
    <3>2. PICK new : new = [old EXCEPT !.application = a, !.appliedAt = now]
      OBVIOUS
    <3>3. /\ new \in PairRow /\ new.created = old.created /\ new.computed = old.computed
          /\ new.prefiltered = old.prefiltered /\ new.status = old.status
      BY <1>1, <3>2 DEF PairRow
    <3> QED
      BY <1>1, <2>1, <2>2, <2>3, <2>4, <3>1, <3>2, <3>3, PairChanges
  <2> QED
    BY <2>5, <2>6, <2>7, <2>8
<1> QED
  BY <1>2, <1>3 DEF Prefilters, Analyses, Applies

LEMMA AccountMoves ==
  ASSUME ScreenInv, Counted, NEW f \in Folk
  PROVE  /\ \A mode \in {"password", "google", "admin"} : SignsUp(f, mode) => ScreenInv'
         /\ Confirms(f) => ScreenInv'
         /\ Onboards(f) => ScreenInv'
         /\ Disables(f) => ScreenInv'
         /\ Opens(f) => ScreenInv'
         /\ Visits(f) => ScreenInv'
         /\ AccountGoes(f) => ScreenInv'
         /\ \A channels \in {{}, {"email"}, {"email", "discord"}} :
              (Chooses(f, channels) => ScreenInv') /\ (Briefed(f, channels) => ScreenInv')
<1> USE DEF views, Known
<1>1. /\ now \in Nat /\ people \in [Folk -> {Absent} \union PersonRow]
      /\ folders \in [Folk -> {Absent} \union FolderRow]
      /\ wants \in [Folk -> {Absent} \union SUBSET Channels]
      /\ pairs \in [Folk \X Positions -> {Absent} \union PairRow]
      /\ tailored \in [Folk \X Positions -> {Absent} \union TailoredRow]
  BY ScreenConstants DEF ScreenInv, ScreenTypeOK
<1>2. ASSUME NEW mode \in {"password", "google", "admin"}, SignsUp(f, mode) PROVE ScreenInv'
  <2>1. PICK row : row = [at |-> now, verified |-> mode # "password",
                          google |-> mode = "google", admin |-> mode = "admin", active |-> TRUE]
    OBVIOUS
  <2>2. row \in PersonRow
    BY <1>1, <2>1 DEF PersonRow
  <2> QED
    BY <1>2, <2>1, <2>2, PersonChanges DEF SignsUp
<1>3. ASSUME Confirms(f) PROVE ScreenInv'
  <2>1. PICK row : row = [people[f] EXCEPT !.verified = TRUE]
    OBVIOUS
  <2>2. row \in PersonRow
    BY <1>1, <1>3, <2>1 DEF Confirms, Registered, PersonRow
  <2>3. people' = [people EXCEPT ![f] = row]
    BY <1>1, <1>3, <2>1 DEF Confirms
  <2> QED
    BY <1>3, <2>2, <2>3, PersonChanges DEF Confirms
<1>4. ASSUME Onboards(f) PROVE ScreenInv'
  <2>1. PICK row : row = IF folders[f] = Absent THEN [status |-> "draft", checked |-> FALSE]
                         ELSE IF ~folders[f].checked THEN [folders[f] EXCEPT !.checked = TRUE]
                         ELSE [folders[f] EXCEPT !.status = "complete"]
    OBVIOUS
  <2>2. row \in FolderRow
    <3>1. folders[f] \in {Absent} \union FolderRow
      BY <1>1
    <3> QED
      BY <2>1, <3>1 DEF FolderRow
  <2>3. folders' = [folders EXCEPT ![f] = row]
    BY <1>1, <1>4, <2>1 DEF Onboards
  <2>4. people[f] # Absent
    BY <1>4 DEF Onboards, RealUsers, Registered
  <2>5. UNCHANGED <<people, wants, pairs, tailored, views, stamps, usage, jobRuns, submitted, mails>>
    BY <1>4 DEF Onboards
  <2>6. folders' \in [Folk -> {Absent} \union FolderRow]
    BY <1>1, <2>2, <2>3
  <2>7. \A g \in Folk : /\ folders[g] # Absent => folders'[g] # Absent
                        /\ folders'[g] # Absent => people[g] # Absent
    BY <1>1, <2>2, <2>3, <2>4, AbsentIsNoRow DEF ScreenInv
  <2>8. Pairs' = Pairs
    BY <2>5 DEF Pairs
  <2>9. ScreenTypeOK'
    BY <2>5, <2>6, <2>8 DEF ScreenInv, ScreenTypeOK, Counted
  <2>10. \A p \in Folk \X Positions : pairs'[p] # Absent \/ tailored'[p] # Absent => folders'[p[1]] # Absent
    BY <2>5, <2>7 DEF ScreenInv
  <2> QED
    BY <2>5, <2>7, <2>8, <2>9, <2>10 DEF ScreenInv, Counted
<1>5. ASSUME Opens(f) \/ Visits(f) PROVE ScreenInv'
  <2>1. UNCHANGED <<people, folders, wants, pairs, tailored, outlived, stamps, usage, jobRuns, submitted, mails>>
    BY <1>5 DEF Opens, Visits
  <2>2. Pairs' = Pairs
    BY <2>1 DEF Pairs
  <2>3. opening' \subseteq opening \union {f} /\ Known(f)
    BY <1>5 DEF Opens, Visits, RealUsers, Registered, ScreenInv
  <2>4. visits' = visits \/ visits' = visits \union {[who |-> f, at |-> now]}
    BY <1>5 DEF Opens, Visits
  <2>5. IsFiniteSet(visits') /\ \A v \in visits' : v.who \in Folk /\ v.at \in Nat /\ Known(v.who)
    <3>1. IsFiniteSet(visits')
      BY <2>4, FS_AddElement DEF ScreenInv
    <3>2. PICK row : row = [who |-> f, at |-> now]
      OBVIOUS
    <3>3. row.who = f /\ row.at = now
      BY <3>2
    <3>4. \A v \in visits' : v \in visits \/ v = row
      BY <2>4, <3>2
    <3>5. \A v \in visits : v.who \in Folk /\ v.at \in Nat /\ (people[v.who] # Absent \/ v.who \in outlived)
      BY DEF ScreenInv
    <3> QED
      BY <1>1, <2>3, <3>1, <3>3, <3>4, <3>5
  <2>6. opening' \subseteq Folk /\ \A g \in opening' : Known(g)
    BY <2>3 DEF ScreenInv, ScreenTypeOK
  <2>7. ScreenTypeOK'
    BY <2>1, <2>2, <2>6 DEF ScreenInv, ScreenTypeOK, Counted
  <2> QED
    BY <2>1, <2>2, <2>5, <2>6, <2>7 DEF ScreenInv, Counted
<1>6. ASSUME AccountGoes(f) PROVE ScreenInv'
  <2>1. /\ people' = [people EXCEPT ![f] = Absent] /\ folders' = [folders EXCEPT ![f] = Absent]
        /\ wants' = [wants EXCEPT ![f] = Absent]
        /\ pairs' = [p \in Folk \X Positions |-> IF p[1] = f THEN Absent ELSE pairs[p]]
        /\ tailored' = [p \in Folk \X Positions |-> IF p[1] = f THEN Absent ELSE tailored[p]]
        /\ visits' = {v \in visits : v.who # f} /\ opening' = opening
        /\ outlived' = IF f \in opening THEN outlived \union {f} ELSE outlived
        /\ UNCHANGED <<stamps, usage, jobRuns, submitted, mails>>
    BY <1>1, <1>6 DEF AccountGoes
  <2>2. \A p \in Pairs' : p \in Pairs /\ pairs'[p] = pairs[p]
    BY <1>1, <2>1 DEF Pairs
  <2>3. /\ people' \in [Folk -> {Absent} \union PersonRow]
        /\ folders' \in [Folk -> {Absent} \union FolderRow]
        /\ wants' \in [Folk -> {Absent} \union SUBSET Channels]
        /\ pairs' \in [Folk \X Positions -> {Absent} \union PairRow]
        /\ tailored' \in [Folk \X Positions -> {Absent} \union TailoredRow]
    BY <1>1, <2>1
  <2>4. ScreenTypeOK'
    BY <2>1, <2>2, <2>3 DEF ScreenInv, ScreenTypeOK, Counted
  <2>5. \A g \in Folk : folders'[g] # Absent => people'[g] # Absent
    BY <1>1, <2>1 DEF ScreenInv
  <2>6. \A p \in Folk \X Positions : pairs'[p] # Absent \/ tailored'[p] # Absent => folders'[p[1]] # Absent
    BY <1>1, <2>1 DEF ScreenInv
  <2>7. \A g \in Folk : Known(g) /\ (g # f \/ g \in opening) => people'[g] # Absent \/ g \in outlived'
    BY <1>1, <2>1
  <2>8. \A v \in visits' : v.who \in Folk /\ v.at \in Nat /\ Known(v.who)'
    BY <2>1, <2>7 DEF ScreenInv
  <2>9. \A g \in opening' : Known(g)'
    BY <2>1, <2>7 DEF ScreenInv, ScreenTypeOK
  <2>10. IsFiniteSet(visits')
    BY <2>1, FS_Subset DEF ScreenInv
  <2> QED
    BY <2>1, <2>2, <2>4, <2>5, <2>6, <2>8, <2>9, <2>10 DEF ScreenInv, Counted
<1>7. ASSUME NEW channels \in {{}, {"email"}, {"email", "discord"}}, Chooses(f, channels)
      PROVE  ScreenInv'
  <2>1. /\ wants' = [wants EXCEPT ![f] = channels]
        /\ UNCHANGED <<people, folders, pairs, tailored, views, stamps, usage, jobRuns, submitted, mails>>
    BY <1>7 DEF Chooses
  <2>2. Pairs' = Pairs /\ channels \in SUBSET Channels
    BY <2>1 DEF Pairs, Channels
  <2>3. wants' \in [Folk -> {Absent} \union SUBSET Channels]
    BY <1>1, <2>1, <2>2
  <2>4. ScreenTypeOK'
    BY <2>1, <2>2, <2>3 DEF ScreenInv, ScreenTypeOK, Counted
  <2> QED
    BY <2>1, <2>2, <2>4 DEF ScreenInv, Counted
<1>8. ASSUME NEW channels \in {{}, {"email"}, {"email", "discord"}}, Briefed(f, channels)
      PROVE  ScreenInv'
  <2>1. UNCHANGED <<people, folders, wants, pairs, tailored, views, stamps, usage, jobRuns, submitted, mails>>
    BY <1>8 DEF Briefed
  <2>2. Pairs' = Pairs
    BY <2>1 DEF Pairs
  <2>3. ScreenTypeOK'
    BY <2>1, <2>2 DEF ScreenInv, ScreenTypeOK, Counted
  <2> QED
    BY <2>1, <2>2, <2>3 DEF ScreenInv, Counted
<1>9. ASSUME Disables(f) PROVE ScreenInv'
  <2>1. PICK row : row = [people[f] EXCEPT !.active = ~@]
    OBVIOUS
  <2>2. row \in PersonRow
    BY <1>1, <1>9, <2>1 DEF Disables, Registered, PersonRow
  <2>3. people' = [people EXCEPT ![f] = row]
    BY <1>1, <1>9, <2>1 DEF Disables
  <2> QED
    BY <1>9, <2>2, <2>3, PersonChanges DEF Disables
<1> QED
  BY <1>2, <1>3, <1>4, <1>5, <1>6, <1>7, <1>8, <1>9

LEMMA TailoredMoves ==
  ASSUME ScreenInv, Counted, NEW p \in DOMAIN pairs, Tailors(p)
  PROVE  ScreenInv'
<1> USE DEF views, Known
<1>1. /\ now \in Nat /\ p \in Folk \X Positions
      /\ tailored \in [Folk \X Positions -> {Absent} \union TailoredRow]
  BY ScreenConstants DEF ScreenInv, ScreenTypeOK
<1>2. PICK row : row = IF tailored[p] = Absent THEN [at |-> now, kept |-> FALSE]
                       ELSE [tailored[p] EXCEPT !.kept = TRUE]
  OBVIOUS
<1>3. row \in TailoredRow
  <2>1. tailored[p] \in {Absent} \union TailoredRow
    BY <1>1
  <2> QED
    BY <1>1, <1>2, <2>1 DEF TailoredRow
<1>4. /\ tailored' = [tailored EXCEPT ![p] = row]
      /\ UNCHANGED <<people, folders, wants, pairs, views, stamps, usage, jobRuns, submitted, mails>>
  BY <1>1, <1>2 DEF Tailors
<1>5. tailored' \in [Folk \X Positions -> {Absent} \union TailoredRow] /\ Pairs' = Pairs
  BY <1>1, <1>3, <1>4 DEF Pairs
<1>6. ScreenTypeOK'
  BY <1>4, <1>5 DEF ScreenInv, ScreenTypeOK, Counted
<1>7. folders[p[1]] # Absent
  BY <1>1 DEF Tailors, Pairs, ScreenInv
<1>8. \A q \in Folk \X Positions : pairs'[q] # Absent \/ tailored'[q] # Absent => folders'[q[1]] # Absent
  BY <1>1, <1>4, <1>7 DEF ScreenInv
<1> QED
  BY <1>4, <1>5, <1>6, <1>8 DEF ScreenInv, Counted

LEMMA TechnicalMoves ==
  ASSUME ScreenInv, Counted,
         \/ Reports("whatsapp")
         \/ \E detailed \in BOOLEAN : Spends(detailed)
         \/ \E j \in ScreenJobs, how \in {"ok", "error"} : JobEnds(j, how)
         \/ Restarts \/ BatchMoves \/ MailMoves
  PROVE  ScreenInv'
<1> USE DEF views, Known
<1>1. /\ now \in Nat /\ mails \in [pending : Nat, failed : Nat] /\ submitted \subseteq 0..now
      /\ jobRuns \in [ScreenJobs -> {"never", "ok", "error"}]
  BY ScreenConstants DEF ScreenInv, ScreenTypeOK
<1>2. UNCHANGED <<people, folders, wants, pairs, tailored, views>> /\ Pairs' = Pairs
  BY DEF Reports, Spends, JobEnds, Restarts, BatchMoves, MailMoves, Pairs
<1>3. IsFiniteSet(stamps') /\ IsFiniteSet(usage') /\ usage' \subseteq UsageRow
  <2>1. UNCHANGED stamps \/ stamps' = stamps \union {[channel |-> "whatsapp", at |-> now]}
    BY DEF Reports, Spends, JobEnds, Restarts, BatchMoves, MailMoves
  <2>2. UNCHANGED usage \/ \E detailed \in BOOLEAN :
                             usage' = usage \union {[detailed |-> detailed, at |-> now, eur |-> 1]}
    BY DEF Reports, Spends, JobEnds, Restarts, BatchMoves, MailMoves
  <2>3. IsFiniteSet(stamps')
    BY <2>1, FS_AddElement DEF ScreenInv
  <2>4. \A detailed \in BOOLEAN : [detailed |-> detailed, at |-> now, eur |-> 1] \in UsageRow
    BY <1>1 DEF UsageRow
  <2> QED
    BY <2>2, <2>3, <2>4, FS_AddElement DEF ScreenInv
<1>4. jobRuns' \in [ScreenJobs -> {"never", "ok", "error"}]
  BY <1>1 DEF Reports, Spends, JobEnds, Restarts, BatchMoves, MailMoves
<1>5. submitted' \subseteq 0..now
  <2>1. submitted' \subseteq submitted \union {now}
    BY DEF Reports, Spends, JobEnds, Restarts, BatchMoves, MailMoves
  <2> QED
    BY <1>1, <2>1
<1>6. mails' \in [pending : Nat, failed : Nat]
  <2>1. UNCHANGED mails \/ MailMoves
    BY DEF Reports, Spends, JobEnds, Restarts, BatchMoves
  <2> QED
    BY <1>1, <2>1 DEF MailMoves
<1>7. ScreenTypeOK'
  BY <1>1, <1>2, <1>4, <1>5, <1>6 DEF ScreenInv, ScreenTypeOK, Counted
<1> QED
  BY <1>2, <1>3, <1>7 DEF ScreenInv, Counted

LEMMA ScreensStep == ScreenInv /\ [ScreensNext]_screenVars => ScreenInv'
<1> SUFFICES ASSUME ScreenInv, [ScreensNext]_screenVars PROVE ScreenInv'
  OBVIOUS
<1> USE DEF views, Known
<1>1. /\ events \in Nat /\ MaxEvents \in Nat /\ events <= MaxEvents
      /\ now \in 0..LastTick /\ LastTick \in Nat
  BY ScreenConstants DEF ScreenInv, ScreenTypeOK
<1>2. ASSUME events < MaxEvents, events' = events + 1, UNCHANGED now PROVE Counted
  BY <1>1, <1>2 DEF Counted
<1>3. CASE /\ events < MaxEvents /\ events' = events + 1 /\ UNCHANGED now
           /\ AccountChanges \/ TechnicalChanges
  <2>1. CASE AccountChanges
    BY <1>2, <1>3, <2>1, AccountMoves, PairsMove, TailoredMoves DEF AccountChanges
  <2>2. CASE TechnicalChanges
    BY <1>2, <1>3, <2>2, TechnicalMoves DEF TechnicalChanges
  <2> QED
    BY <1>3, <2>1, <2>2
<1>4. CASE ClockTicks
  <2>1. /\ now' \in 0..LastTick /\ now' = now + 1
        /\ UNCHANGED <<people, folders, wants, pairs, tailored, views, stamps, usage, jobRuns,
                       submitted, mails, events>>
    BY <1>1, <1>4 DEF ClockTicks
  <2>2. Pairs' = Pairs
    BY <2>1 DEF Pairs
  <2>3. submitted' \subseteq 0..now'
    BY <1>1, <2>1 DEF ScreenInv, ScreenTypeOK
  <2>4. ScreenTypeOK'
    BY <2>1, <2>2, <2>3 DEF ScreenInv, ScreenTypeOK
  <2>5. \A p \in Pairs' : /\ pairs'[p].updated <= now'
                          /\ pairs'[p].status \in {"pending", "scored"} => pairs'[p].prefiltered
    <3>1. \A p \in Pairs : pairs[p].updated \in Nat /\ pairs[p].updated <= now
      BY DEF ScreenInv, ScreenTypeOK, Pairs, PairRow
    <3> QED
      BY <1>1, <2>1, <2>2, <3>1 DEF ScreenInv
  <2> QED
    BY <2>1, <2>2, <2>4, <2>5 DEF ScreenInv
<1>5. CASE UNCHANGED screenVars
  BY <1>5 DEF screenVars, ScreenInv, ScreenTypeOK, Pairs
<1> QED
  BY <1>3, <1>4, <1>5 DEF ScreensNext

\* What the list of users says of an account, and the finite tables it counts.
LEMMA ListFacts ==
  ASSUME ScreenInv
  PROVE  /\ now \in Nat
         /\ IsFiniteSet(RealUsers) /\ RealUsers \subseteq Folk
         /\ IsFiniteSet(Pairs) /\ Pairs \subseteq Folk \X Positions
         /\ IsFiniteSet(Folk \X Positions)
         /\ \A p \in Pairs : p[1] \in Folk /\ p[2] \in Positions /\ folders[p[1]] # Absent
         /\ \A f \in RealUsers :
              /\ people[f] \in PersonRow
              /\ UserRows[f].admin = people[f].admin
              /\ UserRows[f].verified = people[f].verified
              /\ UserRows[f].mode = IF people[f].google THEN "google" ELSE "password"
              /\ UserRows[f].alerts <=> ChannelsOf(f) # {}
              /\ UserRows[f].profile = "none" <=> folders[f] = Absent
              /\ UserRows[f].profile = "complete" <=>
                   folders[f] # Absent /\ folders[f].status = "complete"
<1>1. now \in Nat /\ people \in [Folk -> {Absent} \union PersonRow]
      /\ pairs \in [Folk \X Positions -> {Absent} \union PairRow]
  BY ScreenConstants DEF ScreenInv, ScreenTypeOK
<1>2. IsFiniteSet(Folk \X Positions)
  BY ScreenConstants, FS_Product
<1>3. RealUsers \subseteq Folk /\ Pairs \subseteq Folk \X Positions
  BY <1>1 DEF RealUsers, Registered, Pairs
<1>4. IsFiniteSet(RealUsers) /\ IsFiniteSet(Pairs)
  BY <1>2, <1>3, ScreenConstants, FS_Subset
<1>5. \A p \in Pairs : p[1] \in Folk /\ p[2] \in Positions /\ folders[p[1]] # Absent
  BY <1>3 DEF ScreenInv, Pairs
<1>6. ASSUME NEW f \in RealUsers
      PROVE  /\ people[f] \in PersonRow
             /\ UserRows[f].admin = people[f].admin
             /\ UserRows[f].verified = people[f].verified
             /\ UserRows[f].mode = IF people[f].google THEN "google" ELSE "password"
             /\ UserRows[f].alerts <=> ChannelsOf(f) # {}
             /\ UserRows[f].profile = "none" <=> folders[f] = Absent
             /\ UserRows[f].profile = "complete" <=>
                  folders[f] # Absent /\ folders[f].status = "complete"
  BY <1>1, <1>3 DEF UserRows, RealUsers, Registered
<1> QED
  BY <1>1, <1>2, <1>3, <1>4, <1>5, <1>6

\* A user's count of applications is positive when an application names them.
LEMMA CountedApplicants ==
  ASSUME ScreenInv, NEW f \in RealUsers
  PROVE  /\ UserRows[f].applications \in Nat
         /\ UserRows[f].applications > 0 <=> f \in Applicants
         /\ UserRows[f].applications = 0 <=> f \notin Applicants
<1> DEFINE mine == {p \in AppliedPairs : p[1] = f}
<1>1. f \in Folk /\ AppliedPairs \subseteq Pairs /\ mine \subseteq Pairs
  BY ListFacts DEF AppliedPairs
<1>2. IsFiniteSet(mine) /\ Cardinality(mine) \in Nat
  BY <1>1, ListFacts, FS_Subset, FS_CardinalityType
<1>3. Cardinality(mine) = 0 <=> mine = {}
  BY <1>2, FS_EmptySet
<1>4. UserRows[f].applications = IF folders[f] = Absent THEN 0 ELSE Cardinality(mine)
  BY DEF UserRows
<1>5. f \in Applicants <=> mine # {} /\ folders[f] # Absent
  BY <1>1 DEF Applicants
<1> HIDE DEF mine
<1> QED
  BY <1>2, <1>3, <1>4, <1>5

\* The last view of an account, in the list of users.
LEMMA LastSeen ==
  ASSUME ScreenInv, NEW f \in Folk
  PROVE  LET dates == {v.at : v \in {w \in visits : w.who = f}} \union {-1}
         IN  dates \subseteq Int /\ Max(dates) \in dates /\ \A d \in dates : Max(dates) >= d
<1> DEFINE mine == {w \in visits : w.who = f}
           at == [w \in mine |-> w.at]
           dates == {v.at : v \in mine} \union {-1}
<1>1. IsFiniteSet(mine) /\ \A w \in mine : at[w] \in Nat
  BY FS_Subset DEF ScreenInv
<1>2. dates = {at[w] : w \in mine} \union {-1}
  OBVIOUS
<1> HIDE DEF mine, at, dates
<1>3. IsFiniteSet(dates) /\ dates \subseteq Int /\ dates # {}
  <2>1. IsFiniteSet({at[w] : w \in mine})
    BY <1>1, FiniteImage
  <2>2. IsFiniteSet(dates)
    BY <1>2, <2>1, FS_AddElement
  <2> QED
    BY <1>1, <1>2, <2>2
<1>4. \E d \in dates : \A e \in dates : d >= e
  BY <1>3, LargestOfFew
<1>5. Max(dates) \in dates /\ \A d \in dates : Max(dates) >= d
  BY <1>4 DEF Max
<1> QED
  BY <1>3, <1>5 DEF dates, mine

LEMMA TilesDoAgree == ScreenInv => TilesAgree
<1> SUFFICES ASSUME ScreenInv PROVE TilesAgree
  OBVIOUS
<1>1. ChannelsConfigured["none"] = Cardinality({f \in RealUsers : ~UserRows[f].alerts})
  <2>1. ChannelsConfigured["none"] = Cardinality({f \in RealUsers : ChannelsOf(f) = {}})
    BY DEF ChannelsConfigured
  <2>2. {f \in RealUsers : ChannelsOf(f) = {}} = {f \in RealUsers : ~UserRows[f].alerts}
    BY ListFacts
  <2> QED
    BY <2>1, <2>2
<1> DEFINE complete(f) == folders[f] # Absent /\ folders[f].status = "complete"
           listed == {f \in RealUsers : UserRows[f].profile = "complete"}
           hidden == {f \in Disabled : complete(f)}
<1>2. ProfilesComplete = Cardinality(listed) + Cardinality(hidden)
  <2>1. {f \in Folk : complete(f)} = listed \union hidden
    BY ListFacts DEF ScreenInv, Disabled, Registered
  <2>2. listed \intersect hidden = {}
    BY DEF Disabled
  <2>3. IsFiniteSet(listed) /\ IsFiniteSet(hidden)
    <3>1. hidden \subseteq Folk /\ listed \subseteq Folk
      BY ListFacts DEF Disabled, Registered
    <3> HIDE DEF hidden, listed
    <3> QED
      BY <3>1, ScreenConstants, FS_Subset
  <2>4. ProfilesComplete = Cardinality(listed \union hidden)
    BY <2>1 DEF ProfilesComplete
  <2> HIDE DEF hidden, listed
  <2>5. Cardinality(listed \union hidden)
          = Cardinality(listed) + Cardinality(hidden) - Cardinality(listed \intersect hidden)
    BY <2>3, FS_Union
  <2>6. Cardinality(listed \intersect hidden) = 0
    BY <2>2, FS_EmptySet
  <2>7. Cardinality(listed) \in Nat /\ Cardinality(hidden) \in Nat
    BY <2>3, FS_CardinalityType
  <2> QED
    BY <2>4, <2>5, <2>6, <2>7
<1>3. ActiveUsers(CostSpan) \subseteq RealUsers \union Disabled \union outlived
  BY DEF ActiveUsers, ScreenInv, Known, Disabled, Registered
<1>4. ASSUME NEW f \in ActiveUsers(CostSpan) \intersect RealUsers
      PROVE  UserRows[f].seen >= Since(CostSpan)
  <2> DEFINE dates == {v.at : v \in {w \in visits : w.who = f}} \union {-1}
  <2>1. PICK v \in visits : v.who = f /\ v.at >= Since(CostSpan)
    BY DEF ActiveUsers
  <2>2. v.at \in dates /\ v.at \in Nat /\ dates \subseteq Int
    BY <2>1 DEF ScreenInv
  <2>3. Max(dates) \in dates /\ \A d \in dates : Max(dates) >= d
    <3>1. f \in Folk
      BY ListFacts
    <3> QED
      BY <3>1, LastSeen
  <2>4. UserRows[f].seen = Max(dates)
    BY DEF UserRows
  <2>5. Since(CostSpan) \in Int
    BY ListFacts, ScreenConstants DEF Since
  <2> HIDE DEF dates
  <2>6. Max(dates) >= v.at /\ Max(dates) \in Int
    BY <2>2, <2>3
  <2> QED
    BY <2>1, <2>2, <2>4, <2>5, <2>6
<1> QED
  BY <1>1, <1>2, <1>3, <1>4 DEF TilesAgree

LEMMA FunnelDoesAgree == ScreenInv => FunnelAgrees
<1> SUFFICES ASSUME ScreenInv PROVE FunnelAgrees
  OBVIOUS
<1> DEFINE mine == {f \in RealUsers : ~UserRows[f].admin}
<1>1. mine = Candidates
  BY ListFacts DEF Candidates
<1>2. /\ Funnel[2] = {f \in Candidates : people[f].verified}
      /\ Funnel[3] = WithProfile
      /\ Funnel[4] = {f \in WithProfile : folders[f].checked}
      /\ Funnel[6] = Applicants \intersect Candidates
      /\ Funnel[7] = {p[1] : p \in {q \in DOMAIN tailored : tailored[q] # Absent}} \intersect Candidates
  BY DEF Funnel
<1>3. Funnel[3] = {f \in mine : UserRows[f].profile # "none"}
  BY <1>1, <1>2, ListFacts DEF WithProfile, Candidates
<1>4. Funnel[4] \subseteq Funnel[3]
  BY <1>2
<1>5. Funnel[6] = {f \in mine : UserRows[f].applications > 0}
  BY <1>1, <1>2, CountedApplicants DEF Candidates
<1>6. ASSUME NEW p \in TailoredOf(CostSpan) PROVE p[1] \in Funnel[7] \intersect Funnel[3]
  <2>1. DOMAIN tailored = Folk \X Positions
    BY DEF ScreenInv, ScreenTypeOK
  <2>2. p \in Folk \X Positions /\ tailored[p] # Absent /\ p[1] \in Candidates
    BY <2>1 DEF TailoredOf
  <2>3. folders[p[1]] # Absent
    BY <2>2 DEF ScreenInv
  <2> QED
    BY <1>2, <2>1, <2>2, <2>3 DEF WithProfile
<1>7. Unverified = mine \ Funnel[2]
  BY <1>1, <1>2 DEF Unverified
<1>8. \A mode \in DOMAIN SignupModes : SignupModes[mode] = {f \in mine : UserRows[f].mode = mode}
  <2>1. DOMAIN SignupModes = {"password", "google"}
    BY DEF SignupModes
  <2>2. \A f \in Candidates : people[f].google \in BOOLEAN
    BY ListFacts DEF Candidates, PersonRow
  <2>3. ASSUME NEW mode \in {"password", "google"}, NEW f \in Candidates
        PROVE  (people[f].google <=> mode = "google") <=> UserRows[f].mode = mode
    BY <2>2, ListFacts DEF Candidates
  <2>4. ASSUME NEW mode \in {"password", "google"}
        PROVE  SignupModes[mode] = {f \in mine : UserRows[f].mode = mode}
    BY <1>1, <2>3 DEF SignupModes
  <2> QED
    BY <2>1, <2>4
<1> HIDE DEF mine
<1> QED
  BY <1>3, <1>4, <1>5, <1>6, <1>7, <1>8 DEF FunnelAgrees, mine

\* A list cut to its length is full, or leaves nothing out.
LEMMA FirstsFill ==
  ASSUME NEW S, IsFiniteSet(S), NEW score, NEW length \in Nat, NEW T \in Firsts(S, score, length)
  PROVE  /\ T \subseteq S
         /\ T = S \/ Cardinality(T) = length
         /\ Cardinality(S) <= length => T = S
<1>1. /\ T \in SUBSET S
      /\ Cardinality(T) = IF Cardinality(S) < length THEN Cardinality(S) ELSE length
  BY DEF Firsts
<1>2. Cardinality(S) \in Nat /\ (Cardinality(S) = Cardinality(T) => S = T)
  BY <1>1, FS_Subset, FS_CardinalityType
<1> QED
  BY <1>1, <1>2

LEMMA FollowedAreThoseStuck == ScreenInv => FollowedAreStuck
<1> SUFFICES ASSUME ScreenInv PROVE FollowedAreStuck
  OBVIOUS
<1>1. ASSUME NEW f \in RealUsers, ~UserRows[f].admin
      PROVE  f \in Stuck <=> \/ ~UserRows[f].verified \/ UserRows[f].profile = "none"
                             \/ UserRows[f].applications = 0 /\ now - people[f].at > FollowDays * DayTicks
  <2>1. f \in Candidates
    BY <1>1, ListFacts DEF Candidates
  <2>2. f \in Stuck <=> Stage(f) # "moving"
    BY <2>1 DEF Stuck
  <2>3. Stage(f) # "moving" <=>
          \/ ~people[f].verified \/ folders[f] = Absent
          \/ f \notin Applicants /\ now - people[f].at > FollowDays * DayTicks
    BY DEF Stage
  <2> QED
    BY <2>2, <2>3, CountedApplicants, ListFacts
<1>2. IsFiniteSet(Stuck) /\ FollowMax \in Nat
  <2>1. Stuck \subseteq RealUsers
    BY DEF Stuck, Candidates
  <2> QED
    BY <2>1, ListFacts, FS_Subset, ScreenConstants
<1> DEFINE at == [f \in Stuck |-> people[f].at]
<1>3. ASSUME NEW list \in ToFollow
      PROVE  /\ Cardinality(Stuck) <= FollowMax => list = Stuck
             /\ \A f \in RealUsers \ list, g \in list :
                  /\ UserRows[f].applications = 0 /\ now - people[f].at > FollowDays * DayTicks
                  /\ ~UserRows[f].admin
                  => people[f].at <= people[g].at
  <2>1. list \in Firsts(Stuck, at, FollowMax)
    BY DEF ToFollow
  <2> HIDE DEF at
  <2>2. Cardinality(Stuck) <= FollowMax => list = Stuck
    BY <1>2, <2>1, FirstsFill
  <2>3. list \in SUBSET Stuck /\ \A g \in list, f \in Stuck \ list : at[g] >= at[f]
    BY <2>1 DEF Firsts
  <2>4. ASSUME NEW f \in RealUsers \ list, NEW g \in list, UserRows[f].applications = 0,
               now - people[f].at > FollowDays * DayTicks, ~UserRows[f].admin
        PROVE  people[f].at <= people[g].at
    <3>1. f \in Stuck \ list
      BY <1>1, <2>4
    <3>2. at[g] >= at[f]
      BY <2>3, <3>1
    <3>3. at[f] = people[f].at /\ at[g] = people[g].at
      BY <2>3, <3>1 DEF at
    <3>4. people[f].at \in Nat /\ people[g].at \in Nat
      BY <2>3, ListFacts DEF Stuck, Candidates, PersonRow
    <3> QED
      BY <3>2, <3>3, <3>4
  <2> QED
    BY <2>2, <2>4
<1> QED
  BY <1>1, <1>3 DEF FollowedAreStuck

LEMMA MatchingDoesAgree == ScreenInv => MatchingAgrees
<1> SUFFICES ASSUME ScreenInv PROVE MatchingAgrees
  OBVIOUS
<1>1. AnalysedPairs(Since(1)) \subseteq PassedPairs
  BY DEF AnalysedPairs, PassedPairs, PrefilteredPairs, Touched, ScreenInv
<1>2. ExcludedPairs \intersect PrefilteredPairs = {}
  BY DEF ExcludedPairs, PrefilteredPairs
<1> QED
  BY <1>1, <1>2 DEF MatchingAgrees

\* The pairs of one offer are as many as their accounts.
LEMMA OneAccountEach ==
  ASSUME NEW S \in SUBSET (Folk \X Positions), NEW W, IsFiniteSet(W), \A p \in S : p[1] \in W, NEW o
  PROVE  Cardinality({p \in S : p[2] = o}) <= Cardinality(W)
<1> DEFINE these == {p \in S : p[2] = o}
           first == [p \in these |-> p[1]]
<1>1. \A p, q \in these : p[1] = q[1] => p = q
  <2>1. \A p \in these : p \in Folk \X Positions /\ p[2] = o
    OBVIOUS
  <2> QED
    BY <2>1
<1>2. first \in Injection(these, W)
  BY <1>1 DEF Injection, IsInjective
<1> HIDE DEF first, these
<1>3. Cardinality(these) <= Cardinality(W)
  BY <1>2, FS_Injection
<1> QED
  BY <1>3 DEF these

\* The list of the offers named most often is full, or names them all.
LEMMA MostOftenFills ==
  ASSUME NEW S, IsFiniteSet(S), NEW T \in MostOften(S)
  PROVE  /\ T \subseteq {p[2] : p \in S}
         /\ T = {p[2] : p \in S} \/ Cardinality(T) = TopOffers
         /\ \A o \in T : HowOften(S)[o] = Cardinality({p \in S : p[2] = o})
<1> DEFINE offers == {p[2] : p \in S}
           second == [p \in S |-> p[2]]
<1>1. IsFiniteSet(offers)
  <2>1. second \in Surjection(S, offers)
    BY DEF Surjection
  <2> HIDE DEF second, offers
  <2> QED
    BY <2>1, FS_Surjection
<1>2. DOMAIN HowOften(S) = offers /\ \A o \in offers : HowOften(S)[o] = Cardinality({p \in S : p[2] = o})
  BY DEF HowOften
<1> HIDE DEF offers
<1>3. T \in Firsts(offers, HowOften(S), TopOffers)
  BY <1>2 DEF MostOften
<1>4. T \subseteq offers /\ (T = offers \/ Cardinality(T) = TopOffers)
  BY <1>1, <1>3, FirstsFill, ScreenConstants
<1> QED
  BY <1>2, <1>4 DEF offers

LEMMA OffersDoAgree == ScreenInv => OffersAgree
<1> SUFFICES ASSUME ScreenInv PROVE OffersAgree
  OBVIOUS
<1> DEFINE applied == ApplicationsOf(SignupSpan)
           made == TailoredOf(SignupSpan)
           kept == KeptOf(SignupSpan)
           who == {f \in RealUsers : UserRows[f].applications > 0} \union (Applicants \intersect Disabled)
<1>1. applied \subseteq AppliedPairs /\ applied \subseteq Pairs
  BY DEF ApplicationsOf, AppliedPairs
<1>2. applied \subseteq Folk \X Positions /\ IsFiniteSet(applied)
  BY <1>1, ListFacts, FS_Subset
<1>3. made \subseteq Folk \X Positions
  BY DEF TailoredOf, ScreenInv, ScreenTypeOK
<1>4. IsFiniteSet(made) /\ kept \subseteq made
  BY <1>3, ListFacts, FS_Subset DEF KeptOf
<1>5. IsFiniteSet(who)
  <2>1. who \subseteq Folk
    BY ListFacts DEF Disabled, Registered
  <2> HIDE DEF who
  <2> QED
    BY <2>1, ScreenConstants, FS_Subset
<1>6. ASSUME NEW p \in applied PROVE p[1] \in who
  <2>1. p \in AppliedPairs /\ p \in Pairs /\ p[1] \in Folk /\ folders[p[1]] # Absent
    BY <1>1, ListFacts
  <2>2. p[1] \in RealUsers \/ p[1] \in Disabled
    BY <2>1 DEF ScreenInv, Registered, Disabled
  <2>3. p[1] \in Applicants
    BY <2>1 DEF Applicants
  <2> QED
    BY <2>2, <2>3, CountedApplicants
<1>7. Funnel[7] = {p[1] : p \in {q \in DOMAIN tailored : tailored[q] # Absent}} \intersect Candidates
  BY DEF Funnel
<1>8. IsFiniteSet(Funnel[7]) /\ \A p \in made : p[1] \in Funnel[7]
  <2>1. Funnel[7] \subseteq RealUsers
    BY <1>7 DEF Candidates
  <2>2. \A p \in made : p[1] \in Funnel[7]
    BY <1>7 DEF TailoredOf
  <2> QED
    BY <2>1, <2>2, ListFacts, FS_Subset
<1> HIDE DEF applied, made, kept, who
<1>9. ASSUME NEW top \in TopApplied(SignupSpan)
      PROVE  /\ \A o \in DOMAIN top : top[o] <= Cardinality(who)
             /\ DOMAIN top = {p[2] : p \in applied} \/ Cardinality(DOMAIN top) = TopOffers
  <2>1. PICK T \in MostOften(applied) : top = [o \in T |-> HowOften(applied)[o]]
    BY DEF TopApplied, applied
  <2>2. DOMAIN top = T /\ \A o \in T : top[o] = Cardinality({p \in applied : p[2] = o})
    BY <1>2, <2>1, MostOftenFills
  <2>3. \A o \in T : Cardinality({p \in applied : p[2] = o}) <= Cardinality(who)
    BY <1>2, <1>5, <1>6, OneAccountEach
  <2> QED
    BY <1>2, <2>1, <2>2, <2>3, MostOftenFills
<1>10. ASSUME NEW top \in TopTailored(SignupSpan), NEW o \in DOMAIN top
       PROVE  top[o].kept <= top[o].generated /\ top[o].generated <= Cardinality(Funnel[7])
  <2>1. PICK T \in MostOften(made) :
          top = [q \in T |-> [generated |-> HowOften(made)[q],
                              kept |-> Cardinality({p \in kept : p[2] = q})]]
    BY DEF TopTailored, made, kept
  <2>2. /\ top[o].generated = Cardinality({p \in made : p[2] = o})
        /\ top[o].kept = Cardinality({p \in kept : p[2] = o})
    BY <1>4, <2>1, MostOftenFills
  <2>3. {p \in kept : p[2] = o} \subseteq {p \in made : p[2] = o} /\ IsFiniteSet({p \in made : p[2] = o})
    BY <1>4, FS_Subset
  <2>4. Cardinality({p \in kept : p[2] = o}) <= Cardinality({p \in made : p[2] = o})
    BY <2>3, FS_Subset
  <2>5. Cardinality({p \in made : p[2] = o}) <= Cardinality(Funnel[7])
    BY <1>3, <1>8, OneAccountEach
  <2> QED
    BY <2>2, <2>4, <2>5
<1> QED
  BY <1>9, <1>10 DEF OffersAgree, applied, who

LEMMA CostsDoAgree == ScreenInv => CostsAgree
<1> SUFFICES ASSUME ScreenInv PROVE CostsAgree
  OBVIOUS
<1>1. /\ now \in Nat /\ DayTicks \in Nat /\ DayTicks > 0 /\ CostSpan \in Nat /\ CostSpan > 0
      /\ IsFiniteSet(usage) /\ \A u \in usage : u.at \in Nat /\ u.eur \in Nat /\ u.detailed \in BOOLEAN
  BY ListFacts, ScreenConstants DEF ScreenInv, UsageRow
<1>2. Today(now) \in Nat /\ \A u \in usage : Today(u.at) \in Nat
  BY <1>1, Quotient DEF Today
<1> DEFINE eur == [u \in usage |-> u.eur]
<1>3. \A S : Euros(S) = SumFunctionOnSet(eur, S)
  BY DEF Euros
<1>4. \A u \in usage : eur[u] \in Nat
  BY <1>1
<1> HIDE DEF eur
<1>5. CostToday <= CostOf(1)
  <2> DEFINE day == {u \in usage : Today(u.at) = Today(now)}
             last == {u \in usage : u.at >= Since(1)}
  <2>1. ASSUME NEW u \in day PROVE u \in last
    <3>1. now \div DayTicks <= (u.at \div DayTicks) + 0
      BY <1>2 DEF Today
    <3>2. u.at >= now - (0 + 1) * DayTicks
      BY <1>1, <3>1, PeriodsApart
    <3> QED
      BY <1>1, <3>2 DEF Since
  <2>2. day \in SUBSET last /\ IsFiniteSet(last) /\ \A u \in last : eur[u] \in Nat
    BY <1>1, <1>4, <2>1, FS_Subset
  <2> HIDE DEF day, last
  <2>3. SumFunctionOnSet(eur, day) <= SumFunctionOnSet(eur, last)
    BY <2>2, SumsOfParts
  <2> QED
    BY <1>3, <2>3 DEF CostToday, CostOf, day, last
<1>6. SumFunction([d \in DOMAIN CostDaily(CostSpan) |->
                     CostDaily(CostSpan)[d].detailed + CostDaily(CostSpan)[d].prefilter])
        <= CostOf(CostSpan)
  <2> DEFINE days == (Today(now) - CostSpan + 1)..Today(now)
             period == {u \in usage : u.at >= Since(CostSpan)}
             used == [d \in days |-> {u \in usage : Today(u.at) = d}]
             cost == [d \in days |-> CostDaily(CostSpan)[d].detailed + CostDaily(CostSpan)[d].prefilter]
  <2>1. /\ DOMAIN CostDaily(CostSpan) = days
        /\ \A d \in days :
             /\ CostDaily(CostSpan)[d].detailed = Euros({u \in usage : Today(u.at) = d /\ u.detailed})
             /\ CostDaily(CostSpan)[d].prefilter = Euros({u \in usage : Today(u.at) = d /\ ~u.detailed})
    BY DEF CostDaily
  <2>2. IsFiniteSet(days) /\ IsFiniteSet(period) /\ \A u \in period : eur[u] \in Nat
    <3>1. Today(now) \in Int /\ Today(now) - CostSpan + 1 \in Int
      BY <1>1, <1>2
    <3>2. IsFiniteSet(days)
      BY <3>1, FS_Interval
    <3>3. IsFiniteSet(period)
      BY <1>1, FS_Subset
    <3> QED
      BY <1>4, <3>2, <3>3
  <2>3. ASSUME NEW d \in days, NEW u \in used[d] PROVE u \in period
    <3>1. u \in usage /\ Today(u.at) = d /\ d >= Today(now) - CostSpan + 1
      BY <1>1, <1>2
    <3>2. PICK n \in Nat : CostSpan = n + 1
      <4>1. CostSpan - 1 \in Nat /\ CostSpan = (CostSpan - 1) + 1
        BY <1>1
      <4> QED
        BY <4>1
    <3>3. now \div DayTicks <= (u.at \div DayTicks) + n
      BY <1>1, <1>2, <3>1, <3>2 DEF Today
    <3>4. u.at >= now - CostSpan * DayTicks
      BY <1>1, <3>1, <3>2, <3>3, PeriodsApart
    <3> QED
      BY <3>1, <3>4 DEF Since
  <2>4. used \in [days -> SUBSET period]
    BY <2>3
  <2>5. \A d, e \in days : d # e => used[d] \intersect used[e] = {}
    OBVIOUS
  <2>6. ASSUME NEW d \in days PROVE cost[d] = SumFunctionOnSet(eur, used[d])
    <3> DEFINE part == {u \in usage : Today(u.at) = d /\ u.detailed}
               rest == {u \in usage : Today(u.at) = d /\ ~u.detailed}
    <3>1. part \in SUBSET used[d] /\ used[d] \ part = rest
      OBVIOUS
    <3>2. IsFiniteSet(used[d]) /\ \A u \in used[d] : eur[u] \in Nat
      BY <2>2, <2>4, FS_Subset
    <3>3. cost[d] = SumFunctionOnSet(eur, part) + SumFunctionOnSet(eur, rest)
      BY <1>3, <2>1
    <3> HIDE DEF part, rest, cost, used
    <3> QED
      BY <3>1, <3>2, <3>3, SumsSplit
  <2>7. DOMAIN cost = days
    OBVIOUS
  <2> HIDE DEF days, period, used, cost
  <2>8. SumFunctionOnSet(cost, days) <= SumFunctionOnSet(eur, period)
    BY <2>2, <2>4, <2>5, <2>6, SumsOfGroups
  <2>9. SumFunction(cost) <= CostOf(CostSpan)
    BY <1>3, <2>7, <2>8 DEF SumFunction, CostOf, period
  <2> QED
    BY <2>1, <2>9 DEF cost
<1> QED
  BY <1>5, <1>6 DEF CostsAgree

LEMMA SignupsDoAgree == ScreenInv => SignupsAgree
<1> SUFFICES ASSUME ScreenInv PROVE SignupsAgree
  OBVIOUS
<1> DEFINE days == (Today(now) - SignupSpan + 1)..Today(now)
           new == UsersNew(SignupSpan)
           came == [d \in days |-> {f \in RealUsers : Today(people[f].at) = d}]
           one == [f \in RealUsers |-> 1]
<1>1. /\ now \in Nat /\ DayTicks \in Nat /\ DayTicks > 0 /\ SignupSpan \in Nat /\ SignupSpan > 0
      /\ IsFiniteSet(RealUsers) /\ \A f \in RealUsers : people[f].at \in Nat
  BY ListFacts, ScreenConstants DEF PersonRow
<1>2. Today(now) \in Nat /\ \A f \in RealUsers : Today(people[f].at) \in Nat
  BY <1>1, Quotient DEF Today
<1>3. IsFiniteSet(days) /\ IsFiniteSet(new) /\ new \subseteq RealUsers /\ \A f \in RealUsers : one[f] = 1
  <2>1. Today(now) \in Int /\ Today(now) - SignupSpan + 1 \in Int
    BY <1>1, <1>2
  <2>2. IsFiniteSet(days)
    BY <2>1, FS_Interval
  <2>3. IsFiniteSet(new) /\ new \subseteq RealUsers
    BY <1>1, FS_Subset DEF UsersNew
  <2> QED
    BY <2>2, <2>3
<1>4. ASSUME NEW d \in days, NEW f \in came[d] PROVE f \in new
  <2>1. f \in RealUsers /\ Today(people[f].at) = d /\ d >= Today(now) - SignupSpan + 1
    BY <1>1, <1>2
  <2>2. PICK n \in Nat : SignupSpan = n + 1
    <3>1. SignupSpan - 1 \in Nat /\ SignupSpan = (SignupSpan - 1) + 1
      BY <1>1
    <3> QED
      BY <3>1
  <2>3. now \div DayTicks <= (people[f].at \div DayTicks) + n
    BY <1>1, <1>2, <2>1, <2>2 DEF Today
  <2>4. people[f].at >= now - SignupSpan * DayTicks
    BY <1>1, <2>1, <2>2, <2>3, PeriodsApart
  <2> QED
    BY <2>1, <2>4 DEF Since, UsersNew
<1>5. came \in [days -> SUBSET new]
  BY <1>4
<1>6. \A d, e \in days : d # e => came[d] \intersect came[e] = {}
  OBVIOUS
<1>7. SignupDays(SignupSpan) = [d \in days |-> Cardinality(came[d])]
  BY DEF SignupDays
<1> HIDE DEF days, new, came, one
<1>8. \A A \in SUBSET RealUsers : SumFunctionOnSet(one, A) = Cardinality(A)
  BY <1>1, <1>3, SumsOfOnes
<1>9. \A d \in days : SignupDays(SignupSpan)[d] = SumFunctionOnSet(one, came[d])
  BY <1>3, <1>5, <1>7, <1>8
<1>10. \A f \in new : one[f] \in Nat
  BY <1>3
<1>11. SumFunctionOnSet(SignupDays(SignupSpan), days) <= SumFunctionOnSet(one, new)
  BY <1>3, <1>5, <1>6, <1>9, <1>10, SumsOfGroups
<1>12. SumFunction(SignupDays(SignupSpan)) <= Cardinality(new)
  BY <1>3, <1>7, <1>8, <1>11 DEF SumFunction
<1> QED
  BY <1>12 DEF SignupsAgree, new

LEMMA GreenDoesAgree == ScreenInv => GreenIsFine
<1> SUFFICES ASSUME ScreenInv, {SchedulerCard, OpenAiCard, WhatsappCard, MailCard} = {"ok"}
             PROVE  /\ \A j \in ScreenJobs : jobRuns[j] # "error"
                    /\ \A at \in submitted : now - at <= BadTicks
                    /\ FailedToday("whatsapp") = 0 /\ mails.failed = 0
  BY DEF GreenIsFine
<1>1. SchedulerCard = "ok" /\ OpenAiCard = "ok" /\ WhatsappCard = "ok" /\ MailCard = "ok"
  OBVIOUS
<1>2. \A j \in ScreenJobs : jobRuns[j] # "error"
  BY <1>1 DEF SchedulerCard
<1>3. ASSUME NEW at \in submitted PROVE now - at <= BadTicks
  <2> DEFINE ages == {now - b : b \in submitted} \union {0}
  <2>1. now \in Nat /\ submitted \subseteq 0..now /\ BadTicks \in Nat /\ WarnTicks \in Nat
    BY ScreenConstants DEF ScreenInv, ScreenTypeOK
  <2>2. ages \in SUBSET (0..now) /\ now - at \in ages
    BY <2>1
  <2>3. \E s \in ages : \A r \in ages : r <= s
    BY <2>1, <2>2, LargestNumber
  <2>4. \E s \in ages : \A r \in ages : s >= r
    BY <2>2, <2>3
  <2>5. Max(ages) \in ages /\ \A r \in ages : Max(ages) >= r
    <3> HIDE DEF ages
    <3> QED
      BY <2>4 DEF Max
  <2>6. OpenAiCard = IF Max(ages) > BadTicks THEN "bad" ELSE IF Max(ages) > WarnTicks THEN "warn" ELSE "ok"
    BY DEF OpenAiCard
  <2>7. ~(Max(ages) > BadTicks)
    BY <1>1, <2>6
  <2>8. Max(ages) \in Int /\ now - at \in Int
    BY <2>2, <2>5
  <2> HIDE DEF ages
  <2> QED
    BY <2>1, <2>2, <2>5, <2>7, <2>8
<1>4. FailedToday("whatsapp") = 0
  <2> DEFINE today == {s \in stamps : Today(s.at) = Today(now) /\ s.channel = "whatsapp"}
  <2>1. IsFiniteSet(today)
    BY FS_Subset DEF ScreenInv
  <2>2. FailedToday("whatsapp") = Cardinality(today) /\ Cardinality(today) \in Nat
    BY <2>1, FS_CardinalityType DEF FailedToday
  <2>3. ~(FailedToday("whatsapp") > 0)
    BY <1>1 DEF WhatsappCard
  <2> QED
    BY <2>2, <2>3
<1>5. mails.failed = 0
  <2>1. mails.failed \in Nat
    BY DEF ScreenInv, ScreenTypeOK
  <2>2. ~(mails.failed > 0)
    BY <1>1 DEF MailCard
  <2> QED
    BY <2>1, <2>2
<1> QED
  BY <1>2, <1>3, <1>4, <1>5

THEOREM ScreensTell == ScreensSpec => []ScreensAgree
<1>1. ScreenInv => ScreensAgree
  BY TilesDoAgree, FunnelDoesAgree, FollowedAreThoseStuck, MatchingDoesAgree, OffersDoAgree,
     CostsDoAgree, SignupsDoAgree, GreenDoesAgree DEF ScreensAgree
<1> QED
  BY ScreensStart, ScreensStep, <1>1, PTL DEF ScreensSpec
===============================================================================
