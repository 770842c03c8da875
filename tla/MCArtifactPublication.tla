-------------------------- MODULE MCArtifactPublication -------------------------
(* Run ids for ArtifactPublication: a fresh one per attempt, or one that is set  *)
(* in the environment and used by every attempt.                                 *)
EXTENDS ArtifactPublication

FreshRunIds == [a \in 1 .. MaxAttempts |-> a]
FixedRunId  == [a \in 1 .. MaxAttempts |-> 0]
=================================================================================
