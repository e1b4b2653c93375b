------------------------ MODULE MCMatchingPipeline ------------------------
(* Model values and symmetry for TLC.                                      *)
EXTENDS MatchingPipeline, TLC

\* Batch ids are interchangeable, none is named in the model (an offer is, in
\* Excludable).
Symmetry == Permutations(BatchIds)
=============================================================================
