------------------------- MODULE MCAccountDeletion -------------------------
(* One account and what it leaves, for TLC.                                  *)
EXTENDS AccountDeletion
=============================================================================
