----------------------------- MODULE MCValidationRun ----------------------------
(* Two runs of the harness, which nothing but their mode tells apart. *)
EXTENDS ValidationRun, TLC

CONSTANTS R1, R2

MCRuns  == {R1, R2}
SameRun == Permutations(MCRuns)
=================================================================================
