--------------------------- MODULE MCDomainAnalysis ---------------------------
(***************************************************************************)
(* DomainAnalysis for TLC: findings, events and bindings that meet, pass    *)
(* and miss each other, policies of every kind, incidents to save.          *)
(***************************************************************************)
EXTENDS DomainAnalysis

Detector == INSTANCE IdentityFindings
--------------------------------------------------------------------------------
(* The findings are those the detector makes of a role; two workloads have  *)
(* the same name in two namespaces, and one of them is bound to the role.   *)

Principal(name, actions) == {[origin |-> <<name, f.action>>, principal |-> name, role |-> "none",
    action |-> f.action, says |-> "other", score |-> f.score, severity |-> f.severity] :
  f \in Detector!Analyze({[effect |-> "Allow", actions |-> actions]})}

MCFindings == Principal("deployer", {"iam:PassRole", "ec2:RunInstances", "iam:AttachRolePolicy", "*:*"})

Detection(origin, kind, ns, label, stem, signs, at, severity) ==
  [origin |-> <<origin>>, kind |-> kind, ns |-> ns, label |-> label, stem |-> stem,
   pod |-> stem, signs |-> signs, at |-> at, score |-> 0, severity |-> severity]

MCDetections == {
  Detection("shell", "runtime_detection", "threatguard", "none", "web", {"shell"}, 2, "high"),
  Detection("token", "network_anomaly", "other", "none", "web", {"token", "egress"}, 1, "critical"),
  Detection("denied", "policy_violation", "threatguard", "web", "manifest", {}, 0, "critical"),
  Detection("miner", "attack_simulation", "other", "batch", "none", {}, 3, "info")}

MCBindings == {
  [identity |-> "deployer", ns |-> "threatguard", workload |-> "web"],
  [identity |-> "deployer", ns |-> "threatguard", workload |-> "none"]}
---------------------------------------------------------------------------------
\* both halves of one signature, a lone vector, the three wildcards, a Deny
Statement(effect, actions) == [effect |-> effect, actions |-> actions]

MCStatements == {
  Statement("Allow", {"iam:PassRole"}), Statement("Allow", {"ec2:RunInstances"}),
  Statement("Allow", {"sts:AssumeRole", "iam:AttachRolePolicy"}),
  Statement("Allow", {"*"}), Statement("Allow", {"*:*"}), Statement("Allow", {"iam:*"}),
  Statement("Deny", {"iam:PassRole"})}
---------------------------------------------------------------------------------
\* an incident of both domains, and one of a workload alone
Finding(id, source, kind, severity) == [id |-> id, source |-> source, kind |-> kind, severity |-> severity]

MCTemplates == {
  [severity |-> "critical", cross |-> TRUE, principal |-> "developer", workload |-> "web",
   targets |-> {"developer", "threatguard/web"},
   findings |-> {Finding(1, "cloudgraphguard", "iam_risk", "high"),
                 Finding(2, "threatguard", "runtime_detection", "critical"),
                 Finding(3, "threatguard", "admission_violation", "critical")}],
  [severity |-> "high", cross |-> FALSE, principal |-> "none", workload |-> "none",
   targets |-> {"threatguard/batch"},
   findings |-> {Finding(4, "threatguard", "runtime_detection", "high")}]}
---------------------------------------------------------------------------------
\* These findings and events keep to what the theorems assume of scores.
ASSUME MCScores == CriticalScores /\ HitsAreSevere
================================================================================
