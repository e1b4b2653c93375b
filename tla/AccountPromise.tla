---------------------------- MODULE AccountPromise ----------------------------
(***************************************************************************)
(* What AuthService.delete_account promises: the account goes last, once     *)
(* nothing that another module answers for is left of it.                    *)
(***************************************************************************)
CONSTANT Answered   \* data some module purges when an account is deleted

VARIABLES
  present,   \* the account exists
  kept       \* the answered data it still has

promiseVars == <<present, kept>>

PromiseInit == present = TRUE /\ kept \in SUBSET Answered

(* The account is in use.                                                    *)
Gains == present /\ kept' \in SUBSET Answered /\ kept \subseteq kept' /\ UNCHANGED present

(* Data goes, as many times and in whatever order it takes.                  *)
Loses == kept' \in SUBSET kept /\ UNCHANGED present

Goes == present /\ kept = {} /\ present' = FALSE /\ UNCHANGED kept

PromiseNext == Gains \/ Loses \/ Goes

PromiseSpec == PromiseInit /\ [][PromiseNext]_promiseVars

=============================================================================
