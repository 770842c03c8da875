---------------------------- MODULE IdentityFindings ----------------------------
(***************************************************************************)
(* PrivilegeEscalationDetector (cloudgraphguard/analysis/escalation.py):   *)
(* which findings the policies of a principal give, and, as a reference,   *)
(* what those policies really permit.                                      *)
(*                                                                         *)
(* A statement is [effect, actions]: attached and inline policies are one  *)
(* set of statements, and letter case is left out, as the code does.       *)
(* Resources and conditions, which the code never reads, are left out too. *)
(* Scores are in tenths of a point.                                        *)
(***************************************************************************)
EXTENDS Integers, FiniteSets

IamVectors == {"iam:PassRole", "iam:AttachUserPolicy", "iam:AttachRolePolicy",
  "iam:PutUserPolicy", "iam:PutRolePolicy", "iam:CreatePolicyVersion",
  "iam:SetDefaultPolicyVersion", "iam:UpdateAssumeRolePolicy"}

\* PrivilegeEscalationVector
Vectors == IamVectors \cup {"sts:AssumeRole"}

\* ESCALATION_SIGNATURES
Signature(v) == IF v = "iam:PassRole" THEN {v, "ec2:RunInstances"} ELSE {v}

Actions == UNION {Signature(v) : v \in Vectors}

Named(statements, effect) == UNION {s.actions : s \in {s \in statements : s.effect = effect}}

\* mutant: one action of a signature is enough
MatchesAny(v, granted) == \E a \in Signature(v) : a \in granted \/ "*" \in granted

Matches(v, granted) == \A a \in Signature(v) : a \in granted \/ "*" \in granted

Escalation(v) ==
  LET score == IF v = "sts:AssumeRole" THEN 700 ELSE 850
  IN [kind |-> "escalation", action |-> v, score |-> score,
      severity |-> IF score < 850 THEN "high" ELSE "critical"]

Wildcard == [kind |-> "wildcard", action |-> "*", score |-> 950, severity |-> "critical"]

\* analyze_principal
Analyze(statements) ==
  LET granted == Named(statements, "Allow")
  IN {f \in {Wildcard} : granted \cap {"*", "*:*"} # {}}
     \cup {Escalation(v) : v \in {v \in Vectors : Matches(v, granted)}}
--------------------------------------------------------------------------------
(* What IAM permits: an explicit Deny wins, and a wildcard covers its service. *)

Covers(pattern) ==
  IF pattern \in {"*", "*:*"} THEN Actions
  ELSE IF pattern = "iam:*" THEN IamVectors
  ELSE {pattern} \cap Actions

Effective(statements) ==
  LET All(effect) == UNION {Covers(p) : p \in Named(statements, effect)}
  IN All("Allow") \ All("Deny")

Reachable(statements) == {v \in Vectors : Signature(v) \subseteq Effective(statements)}
================================================================================
