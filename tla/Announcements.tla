----------------------------- MODULE Announcements -----------------------------
(***************************************************************************)
(* E-mails an admin sends to a group of accounts                             *)
(* (src/app/modules/monitoring/announcements.py), the reminders to one       *)
(* account (accounts.py) and the link by which an account leaves the list.   *)
(***************************************************************************)
EXTENDS Naturals, FiniteSets

CONSTANTS
  Members,   \* accounts
  Admins,
  Contents,  \* subject and body, as one content hash tells them apart
  Audiences  \* the audiences tried, among AllAudiences

VARIABLES
  members,     \* accounts that exist
  active,      \* those not disabled by hand
  verified,    \* those with a confirmed address
  withCv,      \* those with a profile
  applied,     \* those with an application on a match
  left,        \* AnnouncementOptOut
  tests,       \* <<admin, content>> tested less than TEST_VALIDITY ago
  everTested,  \* <<admin, content>> tested at some time (history)
  shown,       \* Admins -> the audience and the recipients on the admin's screen
  sending,     \* Admins -> the request in progress
  mailed       \* the recipients of the last message committed (history)

audienceVars == <<members, active, verified, withCv, applied, left>>
announcementVars == <<audienceVars, tests, everTested, shown, sending, mailed>>

AllAudiences == {"verified", "unverified", "no_cv", "never_applied", "all"}
ASSUME AudienceAssumption == Audiences \subseteq AllAudiences
NothingShown == [audience |-> "none", to |-> {}]
NotSending == [step |-> "idle"]

AnnouncementInit ==
  /\ members = Members
  /\ active \in {Members} \cup {Members \ {u} : u \in Members}
  /\ verified = {} /\ withCv = {} /\ applied = {} /\ left = {}
  /\ tests = {} /\ everTested = {}
  /\ shown = [a \in Admins |-> NothingShown]
  /\ sending = [a \in Admins |-> NotSending]
  /\ mailed = {}

-----------------------------------------------------------------------------
(* audience_members                                                          *)
AudienceMembers(key) ==
  LET users == members \cap active
      confirmed == users \cap verified
  IN  CASE key = "all" -> users
        [] key = "unverified" -> users \ verified
        [] key = "verified" -> confirmed
        [] key = "no_cv" -> confirmed \ withCv
        [] key = "never_applied" -> (confirmed \cap withCv) \ applied

(* What the members do meanwhile; the purge of an account takes its opt-out.  *)
MemberStep(u) ==
  /\ u \in members
  /\ \/ verified' = verified \cup {u} /\ UNCHANGED <<members, withCv, applied, left>>
     \/ withCv' = withCv \cup {u} /\ UNCHANGED <<members, verified, applied, left>>
     \/ u \in withCv /\ applied' = applied \cup {u} /\ UNCHANGED <<members, verified, withCv, left>>
     \/ /\ members' = members \ {u} /\ left' = left \ {u} /\ verified' = verified \ {u}
        /\ withCv' = withCv \ {u} /\ applied' = applied \ {u}
  /\ UNCHANGED <<active, tests, everTested, shown, sending, mailed>>

(* The signed link at the bottom of a message works without signing in, for   *)
(* as long as the account exists; a second click changes nothing.             *)
Unsubscribe(u) ==
  /\ u \in members
  /\ left' = left \cup {u}
  /\ UNCHANGED <<members, active, verified, withCv, applied, tests, everTested, shown, sending,
                 mailed>>

-----------------------------------------------------------------------------
(* The admin's requests                                                      *)

SendTest(a, c) ==
  /\ tests' = tests \cup {<<a, c>>}
  /\ everTested' = everTested \cup {<<a, c>>}
  /\ UNCHANGED <<audienceVars, shown, sending, mailed>>

TestExpires(a, c) ==
  /\ <<a, c>> \in tests
  /\ tests' = tests \ {<<a, c>>}
  /\ UNCHANGED <<audienceVars, everTested, shown, sending, mailed>>

(* audience_counts: what the admin sees and confirms is the number.           *)
ShowAudience(a, key) ==
  /\ shown' = [shown EXCEPT ![a] = [audience |-> key, to |-> AudienceMembers(key) \ left]]
  /\ UNCHANGED <<audienceVars, tests, everTested, sending, mailed>>

Tested(a, c) == <<a, c>> \in tests

(* send_announcement: the test, then the opt-outs, then the audience, are     *)
(* three reads; the mails and the row are one commit.                        *)
AskToSend(a, c) ==
  /\ sending[a].step = "idle"
  /\ shown[a] # NothingShown
  /\ Tested(a, c)
  /\ sending' = [sending EXCEPT ![a] = [step |-> "opt-outs", content |-> c, asked |-> left]]
  /\ UNCHANGED <<audienceVars, tests, everTested, shown, mailed>>

ReadOptOuts(a) ==
  /\ sending[a].step = "opt-outs"
  /\ sending' = [sending EXCEPT ![a] =
       [step |-> "audience", content |-> @.content, asked |-> @.asked, out |-> left]]
  /\ UNCHANGED <<audienceVars, tests, everTested, shown, mailed>>

\* Mails the whole audience.
Everybody(users, out) == users

Recipients(users, out) == users \ out

ReadAudience(a) ==
  /\ sending[a].step = "audience"
  /\ LET to == Recipients(AudienceMembers(shown[a].audience), sending[a].out)
     IN  sending' = [sending EXCEPT ![a] =
           IF Cardinality(to) # Cardinality(shown[a].to) THEN NotSending
           ELSE [step |-> "commit", content |-> @.content, asked |-> @.asked, to |-> to]]
  /\ UNCHANGED <<audienceVars, tests, everTested, shown, mailed>>

CommitSend(a) ==
  /\ sending[a].step = "commit"
  /\ mailed' = sending[a].to
  /\ sending' = [sending EXCEPT ![a] = NotSending]
  /\ shown' = [shown EXCEPT ![a] = NothingShown]
  /\ UNCHANGED <<audienceVars, tests, everTested>>

(* run_action("reminder"): refused for a disabled account or one that left    *)
(* the list; what is read is committed with the mail an instant later.        *)
Remind(u) ==
  /\ u \in members \cap active
  /\ ~(u \in left)
  /\ mailed' = {u}
  /\ UNCHANGED <<audienceVars, tests, everTested, shown, sending>>

AnnouncementNext ==
  \/ \E u \in Members : MemberStep(u) \/ Unsubscribe(u) \/ Remind(u)
  \/ \E a \in Admins :
       \/ \E c \in Contents : SendTest(a, c) \/ TestExpires(a, c) \/ AskToSend(a, c)
       \/ \E key \in Audiences : ShowAudience(a, key)
       \/ ReadOptOuts(a) \/ ReadAudience(a) \/ CommitSend(a)

AnnouncementSpec == AnnouncementInit /\ [][AnnouncementNext]_announcementVars

-----------------------------------------------------------------------------
AnnouncementTypeOK ==
  /\ members \subseteq Members /\ active \subseteq Members
  /\ applied \subseteq withCv /\ withCv \cup verified \cup left \subseteq members
  /\ tests \subseteq everTested
  /\ \A a \in Admins : shown[a].audience \in Audiences \cup {"none"} /\ shown[a].to \subseteq Members
  /\ \A a \in Admins : sending[a].step \in {"idle", "opt-outs", "audience", "commit"}

(* An announcement leaves only after a test of the very same content by the    *)
(* same admin, and never to somebody who had left the list when it was asked   *)
(* for, whoever joins or leaves the audience while it is prepared.             *)
Leaves(a) == sending[a].step = "commit" /\ sending'[a].step = "idle"
SentAsAsked ==
  [][\A a \in Admins : Leaves(a) =>
        /\ <<a, sending[a].content>> \in everTested
        /\ mailed' \cap sending[a].asked = {}]_announcementVars

(* The docstring of announcements.py asks for a fresh confirmation of a changed *)
(* list; the code compares only its size.                                      *)
ConfirmedListOnly ==
  [][\A a \in Admins : Leaves(a) => mailed' = shown[a].to]_announcementVars

=============================================================================
