-------------------------- MODULE MCCvOptimisation --------------------------
(* A candidate one of whose skills is written with an underscore, for TLC.   *)
EXTENDS CvOptimisation

CONSTANTS L1, Plain, Snk

OneCv == {[skills |-> <<Plain, Snk>>, jobs |-> << <<L1>> >>]}
NothingAdded == {[skills |-> << >>, jobs |-> << >>]}
Same == {<<L1, L1>>}
NoOldSkill == << >>
OneUnderscore == {Snk}
AsTheyAre == [s \in {Plain, Snk} |-> s]
=============================================================================
