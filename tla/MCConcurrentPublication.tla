------------------------- MODULE MCConcurrentPublication -------------------------
(* A run id of its own for each pipeline.  The pipelines differ in nothing else. *)
EXTENDS ConcurrentPublication, TLC

OwnRunIds == [p \in Pipelines |-> p]
Symmetry  == Permutations(Pipelines)
================================================================================
