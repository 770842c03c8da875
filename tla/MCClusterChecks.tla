----------------------------- MODULE MCClusterChecks -----------------------------
(* Three policies and four manifests, two nodes; see ClusterChecks. *)
EXTENDS ClusterChecks, TLC

CONSTANTS n1, n2, p1, p2

MCPolicies == {"privileged", "escalation", "hostpid"}
MCNegative == {"n01", "n02", "n05"}
MCPositive == {"secure"}
\* the first manifest breaks two policies, as 01-privileged-pod.yaml does
MCBreaks   == [m \in MCNegative \cup MCPositive |->
  CASE m = "n01" -> {"privileged", "escalation"} [] m = "n02" -> {"hostpid"}
    [] m = "n05" -> {"escalation"} [] OTHER -> {}]
MCPolicyOf == "n01" :> "privileged" @@ "n02" :> "hostpid" @@ "n05" :> "escalation"

MCNodes == {n1, n2}
MCTracing == {p1, p2}

\* the diagnosis treats tracing policies alike: none is named, chosen or counted first
PolicySymmetry == Permutations(MCTracing)
================================================================================
