-------------------------------- MODULE Accounts --------------------------------
(***************************************************************************)
(* The accounts of src/app/modules/auth and the waitlist of                  *)
(* src/app/modules/leads. A request reads the row of a user, then writes the  *)
(* columns it changed in a commit of its own; nothing locks the row. The      *)
(* address is unique as it is spelled; the waitlist, and only the waitlist,    *)
(* folds its case.                                                            *)
(***************************************************************************)
EXTENDS Naturals, FiniteSets

CONSTANTS
  Spellings,      \* addresses as typed
  FoldedSpelling, \* the lower-case spelling of each
  AuthRequests,   \* requests in progress at the same time
  Importers,      \* runs of `import-leads --apply`
  MaxAccounts,    \* bound of the checks: rows of users ever inserted
  MaxKills        \* bound of the checks: imports killed

ASSUME AccountConstants ==
  /\ FoldedSpelling \in [Spellings -> Spellings]
  /\ \A e \in Spellings : FoldedSpelling[FoldedSpelling[e]] = FoldedSpelling[e]
  /\ "none" \notin Spellings /\ "deleted" \notin Spellings
  /\ MaxAccounts \in Nat
  /\ MaxKills \in Nat

VARIABLES
  users,      \* AccountIds -> row of users, or NoUser
  links,      \* <<kind, account>>: signed links mailed to its address
  settings,   \* accounts with default notification preferences
  requests,   \* AuthRequests -> what each has read and is about to commit
  leads,      \* waitlist: addresses with a row
  invited,    \* those with invited_at
  imports,    \* Importers -> progress of the run
  invitations,\* addresses -> invitations mailed (history)
  signedUp,   \* folded addresses somebody signed up or in with (history)
  kills

accountVars == <<users, links, settings, requests, leads, invited, imports, invitations,
                 signedUp, kills>>
leadVars == <<leads, invited, imports, invitations, kills>>

AccountIds == 1..MaxAccounts
NoUser == [email |-> "none"]
Deleted == [email |-> "deleted"]
Here(row) == row \notin {NoUser, Deleted}
Exact(table, e) == {i \in AccountIds : Here(table[i]) /\ table[i].email = e}
Folded(table, e) ==
  {i \in AccountIds : Here(table[i]) /\ FoldedSpelling[table[i].email] = FoldedSpelling[e]}
Fresh == {i \in AccountIds : users[i] = NoUser}
FirstOf(S) == CHOOSE i \in S : \A j \in S : i <= j

Row(e, password, verified, google) ==
  [email |-> e, password |-> password, verified |-> verified, google |-> google]

NoRequestYet == [op |-> "idle"]
Leads == {FoldedSpelling[e] : e \in Spellings}
ImportIdle == [step |-> "idle"]

AccountInit ==
  /\ users = [i \in AccountIds |-> NoUser]
  /\ links = {} /\ settings = {}
  /\ requests = [q \in AuthRequests |-> NoRequestYet]
  /\ leads = {} /\ invited = {}
  /\ imports = [m \in Importers |-> ImportIdle]
  /\ invitations = [e \in Leads |-> 0]
  /\ signedUp = {}
  /\ kills = 0

-----------------------------------------------------------------------------
(* One request: read, then commit                                            *)

Reads(q, request) ==
  /\ requests[q] = NoRequestYet
  /\ requests' = [requests EXCEPT ![q] = request]
  /\ UNCHANGED <<users, links, settings, signedUp, leadVars>>

Ends(q) == requests' = [requests EXCEPT ![q] = NoRequestYet]

(* The columns of `new` that differ from the ones read; a row deleted         *)
(* meanwhile makes the UPDATE fail and the request with it.                   *)
Updated(i, seen, new) ==
  [users EXCEPT ![i] = IF Here(@) THEN [c \in DOMAIN new |-> IF new[c] # seen[c] THEN new[c] ELSE @[c]]
                       ELSE @]

(* An INSERT, refused when the spelling is taken by now. Ids are never reused: *)
(* a link names the row it was made for.                                      *)
Inserts(row) == Exact(users, row.email) = {}
NewId == FirstOf(Fresh)

RegisterRead(q, e) ==
  /\ Exact(users, e) = {}
  /\ Reads(q, [op |-> "register", email |-> e])

(* The account and its verification mail are one commit; the event that gives  *)
(* it its preferences comes after, and its failure is only logged.             *)
RegisterCommit(q) ==
  /\ requests[q].op = "register"
  /\ Fresh # {}
  /\ LET row == Row(requests[q].email, TRUE, FALSE, FALSE)
     IN  IF Inserts(row)
         THEN /\ users' = [users EXCEPT ![NewId] = row]
              /\ links' = links \cup {<<"verify", NewId>>}
              /\ signedUp' = signedUp \cup {FoldedSpelling[row.email]}
              /\ requests' = [requests EXCEPT ![q] = [op |-> "announce", id |-> NewId]]
         ELSE Ends(q) /\ UNCHANGED <<users, links, signedUp>>
  /\ UNCHANGED <<settings, leadVars>>

RegisteredEvent(q) ==
  /\ requests[q].op = "announce"
  /\ \/ settings' = settings \cup {requests[q].id}
     \/ UNCHANGED settings
  /\ Ends(q)
  /\ UNCHANGED <<users, links, signedUp, leadVars>>

(* Continuer avec Google: by the exact spelling. An unconfirmed account is      *)
(* confirmed and loses the password it was created with, in a first commit.     *)
GoogleRead(q, e) ==
  Reads(q, [op |-> "google", email |-> e, id |-> Exact(users, e),
            seen |-> IF Exact(users, e) = {} THEN NoUser ELSE users[FirstOf(Exact(users, e))]])

GoogleClaims(q) ==
  /\ requests[q].op = "google"
  /\ Here(requests[q].seen)
  /\ LET seen == requests[q].seen
         i == FirstOf(requests[q].id)
         claimed == IF seen.verified THEN seen
                    ELSE [seen EXCEPT !.verified = TRUE, !.password = FALSE]
     IN  /\ users' = Updated(i, seen, claimed)
         /\ requests' = [requests EXCEPT ![q] =
              IF Here(users[i]) THEN [op |-> "google link", id |-> i, seen |-> claimed] ELSE NoRequestYet]
         /\ signedUp' = signedUp \cup {FoldedSpelling[seen.email]}
  /\ UNCHANGED <<links, settings, leadVars>>

GoogleLinks(q) ==
  /\ requests[q].op = "google link"
  /\ users' = Updated(requests[q].id, requests[q].seen, [requests[q].seen EXCEPT !.google = TRUE])
  /\ Ends(q)
  /\ UNCHANGED <<links, settings, signedUp, leadVars>>

GoogleCreates(q) ==
  /\ requests[q].op = "google"
  /\ ~Here(requests[q].seen)
  /\ Fresh # {}
  /\ LET row == Row(requests[q].email, FALSE, TRUE, TRUE)
     IN  IF Inserts(row)
         THEN /\ users' = [users EXCEPT ![NewId] = row]
              /\ signedUp' = signedUp \cup {FoldedSpelling[row.email]}
              /\ requests' = [requests EXCEPT ![q] = [op |-> "announce", id |-> NewId]]
         ELSE Ends(q) /\ UNCHANGED <<users, signedUp>>
  /\ UNCHANGED <<links, settings, leadVars>>

(* A link by mail: a reset on demand, a verification again (asked for by the    *)
(* owner, or by an admin: AuthGateway.queue_verification_email).                *)
MailLink(i, kind) ==
  /\ Here(users[i])
  /\ kind = "verify" => ~users[i].verified
  /\ links' = links \cup {<<kind, i>>}
  /\ UNCHANGED <<users, settings, requests, signedUp, leadVars>>

(* A password through a link, or changed by somebody who knows the current one. *)
ResetRead(q, i) ==
  /\ <<"reset", i>> \in links /\ Here(users[i])
  /\ Reads(q, [op |-> "password", id |-> i, seen |-> users[i],
               new |-> [users[i] EXCEPT !.password = TRUE, !.verified = TRUE]])

ChangeRead(q, i) ==
  /\ Here(users[i]) /\ users[i].password
  /\ Reads(q, [op |-> "password", id |-> i, seen |-> users[i], new |-> users[i]])

(* The hash is always a new one: the column is written whatever was read.       *)
PasswordCommit(q) ==
  /\ requests[q].op = "password"
  /\ LET i == requests[q].id
         row == Updated(i, requests[q].seen, requests[q].new)[i]
     IN  users' = [users EXCEPT ![i] = IF Here(@) THEN [row EXCEPT !.password = TRUE] ELSE @]
  /\ signedUp' = IF Here(users[requests[q].id])
                   THEN signedUp \cup {FoldedSpelling[requests[q].seen.email]} ELSE signedUp
  /\ Ends(q)
  /\ UNCHANGED <<links, settings, leadVars>>

VerifyRead(q, i) ==
  /\ <<"verify", i>> \in links /\ Here(users[i]) /\ ~users[i].verified
  /\ Reads(q, [op |-> "verify", id |-> i, seen |-> users[i]])

VerifyCommit(q) ==
  /\ requests[q].op = "verify"
  /\ users' = Updated(requests[q].id, requests[q].seen, [requests[q].seen EXCEPT !.verified = TRUE])
  /\ Ends(q)
  /\ UNCHANGED <<links, settings, signedUp, leadVars>>

(* The last commit of AccountDeletion: somebody signed in asked for it.         *)
RemoveAccount(i) ==
  /\ Here(users[i])
  /\ FoldedSpelling[users[i].email] \in signedUp
  /\ users' = [users EXCEPT ![i] = Deleted]
  /\ settings' = settings \ {i}
  /\ UNCHANGED <<links, requests, signedUp, leadVars>>

-----------------------------------------------------------------------------
(* The waitlist                                                              *)

(* A known address is a no-op; of two captures at once, the second is refused  *)
(* by the unique address.                                                     *)
CaptureLead(e) ==
  /\ leads' = leads \cup {FoldedSpelling[e]}
  /\ UNCHANGED <<users, links, settings, requests, invited, imports, invitations, signedUp, kills>>

Import(m, progress) == imports' = [imports EXCEPT ![m] = progress]
Skipped(m) == [imports[m] EXCEPT !.step = "next", !.todo = @ \ {imports[m].lead}]

(* import_leads reads the whole waitlist once, invited_at included.            *)
ImportStart(m) ==
  /\ imports[m].step = "idle"
  /\ leads # {}
  /\ Import(m, [step |-> "next", todo |-> leads, seen |-> invited, lead |-> "none", id |-> 0])
  /\ UNCHANGED <<users, links, settings, requests, leads, invited, invitations, signedUp, kills>>

HasAccount(e) == Folded(users, e) # {}

(* Skipped when invited or when the address has an account in any spelling.    *)
ImportLead(m, e) ==
  /\ imports[m].step = "next"
  /\ e \in imports[m].todo
  /\ Import(m, IF e \in imports[m].seen \/ HasAccount(e)
                 THEN [imports[m] EXCEPT !.todo = @ \ {e}]
                 ELSE [imports[m] EXCEPT !.step = "create", !.lead = e])
  /\ UNCHANGED <<users, links, settings, requests, leads, invited, invitations, signedUp, kills>>

(* create_invited_account looks once more before it inserts ...                 *)
ImportLook(m) ==
  /\ imports[m].step = "create"
  /\ Import(m, IF HasAccount(imports[m].lead) THEN Skipped(m)
                 ELSE [imports[m] EXCEPT !.step = "insert"])
  /\ UNCHANGED <<users, links, settings, requests, leads, invited, invitations, signedUp, kills>>

(* ... and commits the account alone; a spelling taken in between ends the run. *)
ImportCreate(m) ==
  /\ imports[m].step = "insert"
  /\ Fresh # {}
  /\ LET row == Row(imports[m].lead, FALSE, FALSE, FALSE)
     IN  IF Inserts(row)
         THEN /\ users' = [users EXCEPT ![NewId] = row]
              /\ settings' = settings \cup {NewId}
              /\ Import(m, [imports[m] EXCEPT !.step = "invite", !.id = NewId])
         ELSE /\ Import(m, ImportIdle)
              /\ UNCHANGED <<users, settings>>
  /\ UNCHANGED <<links, requests, leads, invited, invitations, signedUp, kills>>

\* The mail goes out and nothing remembers it.
InvitesUnrecorded(m) ==
  /\ imports[m].step = "invite"
  /\ links' = links \cup {<<"reset", imports[m].id>>}
  /\ invitations' = [invitations EXCEPT ![imports[m].lead] = @ + 1]
  /\ Import(m, Skipped(m))
  /\ UNCHANGED <<users, settings, requests, leads, invited, signedUp, kills>>

(* The mail and invited_at are a second commit; no link for an account that is  *)
(* gone by then.                                                               *)
ImportInvite(m) ==
  /\ imports[m].step = "invite"
  /\ LET e == imports[m].lead
         i == imports[m].id
     IN  IF Here(users[i])
         THEN /\ links' = links \cup {<<"reset", i>>}
              /\ invited' = invited \cup {e}
              /\ invitations' = [invitations EXCEPT ![e] = @ + 1]
         ELSE UNCHANGED <<links, invited, invitations>>
  /\ Import(m, Skipped(m))
  /\ UNCHANGED <<users, settings, requests, leads, signedUp, kills>>

ImportEnds(m) ==
  /\ imports[m].step = "next"
  /\ imports[m].todo = {}
  /\ Import(m, ImportIdle)
  /\ UNCHANGED <<users, links, settings, requests, leads, invited, invitations, signedUp, kills>>

ImportKilled(m) ==
  /\ imports[m].step # "idle"
  /\ kills < MaxKills
  /\ kills' = kills + 1
  /\ Import(m, ImportIdle)
  /\ UNCHANGED <<users, links, settings, requests, leads, invited, invitations, signedUp>>

-----------------------------------------------------------------------------
RequestNext(q) ==
  \/ \E e \in Spellings : RegisterRead(q, e) \/ GoogleRead(q, e)
  \/ \E i \in AccountIds : ResetRead(q, i) \/ ChangeRead(q, i) \/ VerifyRead(q, i)
  \/ RegisterCommit(q) \/ RegisteredEvent(q) \/ GoogleClaims(q) \/ GoogleLinks(q)
  \/ GoogleCreates(q) \/ PasswordCommit(q) \/ VerifyCommit(q)

LeadNext ==
  \/ \E e \in Spellings : CaptureLead(e)
  \/ \E m \in Importers :
       \/ ImportStart(m) \/ ImportLook(m) \/ ImportCreate(m) \/ ImportInvite(m) \/ ImportEnds(m) \/ ImportKilled(m)
       \/ \E e \in Leads : ImportLead(m, e)

AccountNext ==
  \/ \E q \in AuthRequests : RequestNext(q)
  \/ \E i \in AccountIds :
       RemoveAccount(i) \/ \E kind \in {"reset", "verify"} : MailLink(i, kind)
  \/ LeadNext

AccountSpec == AccountInit /\ [][AccountNext]_accountVars

-----------------------------------------------------------------------------
AccountTypeOK ==
  /\ \A i \in AccountIds :
       Here(users[i]) => users[i].email \in Spellings /\ users[i].verified \in BOOLEAN
  /\ \A i, j \in AccountIds : i # j /\ Here(users[i]) => users[i].email # users[j].email
  /\ invited \subseteq leads /\ leads \subseteq Leads
  /\ \A m \in Importers : imports[m].step \in {"idle", "next", "create", "insert", "invite"}

(* Whatever imports overlap or are killed: "the launch invitation is queued at    *)
(* most once per lead" -- until the account it opened is deleted, when a lead      *)
(* whose run read it before could be invited again; and, unless an import was      *)
(* killed, no lead is forgotten: an account that an import opened and nobody has   *)
(* used yet is invited, or an import is about to do it.                          *)
InvitedOnceEach ==
  /\ \A e \in Leads : e \notin signedUp => invitations[e] <= 1
  /\ kills = 0 =>
       \A i \in AccountIds :
         Here(users[i]) /\ FoldedSpelling[users[i].email] \notin signedUp =>
           \/ users[i].email \in invited
           \/ \E m \in Importers : imports[m].step = "invite" /\ imports[m].id = i

(* "There is exactly one account per email in this system, full stop."           *)
OneAccountPerAddress == \A e \in Spellings : Cardinality(Folded(users, e)) <= 1

(* "A confirmed account keeps its password."                                     *)
ConfirmedKeepsPassword ==
  [][\A i \in AccountIds :
       Here(users[i]) /\ Here(users'[i]) /\ users[i].verified /\ users[i].password
         => users'[i].password]_accountVars

=============================================================================
