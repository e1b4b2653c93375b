---------------------------- MODULE MCMailOutbox ----------------------------
(* Three mails, batches of two: the third one waits behind two that may      *)
(* fail, and a batch may be full or not.                                    *)
EXTENDS MailOutbox

ThreeMails == 3
PairsOfMails == 2
=============================================================================
