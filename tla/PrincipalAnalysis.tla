--------------------------- MODULE PrincipalAnalysis ---------------------------
(***************************************************************************)
(* A principal whose policies are edited, and the detector run on it from  *)
(* time to time: its report is of the policies as they were.               *)
(***************************************************************************)
EXTENDS IdentityFindings

CONSTANT Statements  \* the statements a policy may hold

VARIABLES
  attached,  \* attached_policies and inline_policies
  examined,  \* the policies at the last analysis
  reported   \* its findings

vars == <<attached, examined, reported>>

Init == attached = {} /\ examined = {} /\ reported = {}

Attach(s) == attached' = attached \cup {s} /\ UNCHANGED <<examined, reported>>

Detach(s) == attached' = attached \ {s} /\ UNCHANGED <<examined, reported>>

\* mutant: every granted action is a vector of its own
RunAnalysisByAction ==
  /\ examined' = attached /\ UNCHANGED attached
  /\ reported' = {Escalation(a) : a \in Named(attached, "Allow")}

\* mutant: findings of an earlier analysis stay
RunAnalysisAppending ==
  examined' = attached /\ reported' = reported \cup Analyze(attached) /\ UNCHANGED attached

RunAnalysis ==
  examined' = attached /\ reported' = Analyze(attached) /\ UNCHANGED attached

Next ==
  \/ \E s \in Statements : Attach(s) \/ Detach(s)
  \/ RunAnalysis

Spec == Init /\ [][Next]_vars
--------------------------------------------------------------------------------
(* Properties *)

TypeOK ==
  /\ attached \subseteq Statements /\ examined \subseteq Statements
  /\ reported \subseteq {Wildcard} \cup {Escalation(v) : v \in Vectors}

FoundVectors == {f.action : f \in {f \in reported : f.kind = "escalation"}}

Literal(statements) ==
  /\ \A s \in statements : s.effect = "Allow"
  /\ {"iam:*", "*:*"} \cap Named(statements, "Allow") = {}

\* Where policies only allow, and name actions one by one or all with "*", the detector
\* finds what the principal can really use to escalate: nothing more and nothing less.
ExactOnLiteralPolicies == Literal(examined) => FoundVectors = Reachable(examined)

\* "Computes resolved permissions accounting for permission boundaries, SCPs,
\* identity-based policies, and resource-based policies"
\* (docs/development/cloudgraphguard-integration.md:24): no finding for what is denied.
FindingsAreEffective == FoundVectors \subseteq Reachable(examined)

\* "Detects well-known AWS IAM privilege escalation vectors" (escalation.py:3): whoever
\* is allowed iam:* holds eight of the nine.
VectorsFound == Reachable(examined) \subseteq FoundVectors
================================================================================
