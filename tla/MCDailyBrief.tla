---------------------------- MODULE MCDailyBrief ----------------------------
(* Two candidates, one match or two each, for TLC.                          *)
EXTENDS DailyBrief

CONSTANTS u1, u2

OwnerAlternate == [m \in Matches |-> IF m % 2 = 1 THEN u1 ELSE u2]
OwnerOne == [m \in Matches |-> u1]
=============================================================================
