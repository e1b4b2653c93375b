----------------------------- MODULE MailDelivery -----------------------------
(***************************************************************************)
(* What the outbox (src/app/modules/mailer) promises to the code that       *)
(* writes a mail into it: the mail is kept until it is settled, it is       *)
(* settled as sent only after it reached the provider, and once settled it  *)
(* is never sent again.  Nothing is promised about the order, and a mail    *)
(* may arrive several times before it is settled.                           *)
(***************************************************************************)
CONSTANTS
  Mails,       \* the rows of email_messages
  Configured   \* whether MAIL_PROVIDER has its credentials

VARIABLES
  fate,        \* Mails -> the status of the row, "absent" before it is written
  arrived      \* the mails the provider delivered at least once

vars == <<fate, arrived>>

Fates == {"absent", "pending", "sent", "failed"}

(* Without credentials a mail is only logged, and counts as handled.        *)
Handled(m) == m \in arrived \/ ~Configured

Init ==
  /\ fate = [m \in Mails |-> "absent"]
  /\ arrived = {}

(* A transaction of a caller wrote these mails.                             *)
Accept(S) ==
  /\ \A m \in S : fate[m] = "absent"
  /\ fate' = [m \in Mails |-> IF m \in S THEN "pending" ELSE fate[m]]
  /\ UNCHANGED arrived

Arrive(m) ==
  /\ fate[m] = "pending"
  /\ arrived' = arrived \union {m}
  /\ UNCHANGED fate

(* One transaction of the worker settles what it handled and what it gave up. *)
Settle(handled, abandoned) ==
  /\ handled \intersect abandoned = {}
  /\ \A m \in handled \union abandoned : fate[m] = "pending"
  /\ \A m \in handled : Handled(m)
  /\ fate' = [m \in Mails |-> IF m \in handled THEN "sent"
                              ELSE IF m \in abandoned THEN "failed" ELSE fate[m]]
  /\ UNCHANGED arrived

Next ==
  \/ \E S \in SUBSET Mails : Accept(S)
  \/ \E m \in Mails : Arrive(m)
  \/ \E handled, abandoned \in SUBSET Mails : Settle(handled, abandoned)

Spec == Init /\ [][Next]_vars
===============================================================================
