----------------------------- MODULE AdmissionCheck -----------------------------
(***************************************************************************)
(* The admission check: live against the webhook (admission/live_check.py), *)
(* offline through OPA (admission/validator.py, opa_client.py), and the     *)
(* verdict that "threatguard admission validate" takes from the same       *)
(* offline report.  Constraints are installed and removed, the webhook     *)
(* comes and goes and commands fail while the manifests are tried.         *)
(***************************************************************************)
EXTENDS Integers, FiniteSets

CONSTANTS
  Policies,    \* constraints, and the Rego packages of the same names
  Negative,    \* insecure manifests on disk
  Positive,    \* compliant manifests on disk; offline knows one of them
  Breaks,      \* manifest -> policies that it breaks
  PolicyOf,    \* validator.POLICIES: manifest -> package, for those it lists
  MaxFaults    \* bound: failing commands, and changes of the cluster

\* the manifests are the files of two directories
AdmissionAssumption ==
  /\ IsFiniteSet(Negative) /\ IsFiniteSet(Positive) /\ Negative \cap Positive = {}
  /\ Breaks \in [Negative \cup Positive -> SUBSET Policies]
  /\ DOMAIN PolicyOf \subseteq Negative /\ MaxFaults \in Nat

Manifests == Negative \cup Positive
Outcomes == {"policy_denied", "unexpectedly_allowed", "execution_error", "allowed", "positive_rejected"}

VARIABLES
  active,   \* constraints installed in the cluster
  webhook,  \* "up", "ignored" (down, failurePolicy Ignore), "failing" (down, Fail)
  defined,  \* packages that opa finds under src/
  matching, \* packages whose message contains the expected text
  mode, pc,
  outcome,  \* manifest -> outcome, for those tried
  code,     \* exit code; -1 before the end
  judged,   \* manifest -> the policies that the webhook or OPA found broken
  faults

cluster == <<active, webhook>>
vars == <<active, webhook, defined, matching, mode, pc, outcome, code, judged, faults>>

Init ==
  /\ active \in SUBSET Policies /\ webhook \in {"up", "ignored"}
  /\ defined \in {Policies} \cup {Policies \ {p} : p \in Policies} /\ matching \in SUBSET Policies
  /\ mode \in {"live", "offline"} /\ pc = "start"
  /\ outcome = <<>> /\ judged = <<>> /\ code = -1 /\ faults = 0

End(exit) == pc' = "done" /\ code' = exit

\* gatekeeper_is_live; offline, opa or a file can be missing (FileNotFoundError)
Start ==
  /\ pc = "start"
  /\ \/ pc' = "try" /\ UNCHANGED <<code, faults>>
     \/ End(2) /\ faults < MaxFaults /\ faults' = faults + 1
  /\ UNCHANGED <<active, webhook, defined, matching, mode, outcome, judged>>

\* mutant: any refusal of a manifest is a denial
ClassifyAnyFailure(m, reply) ==
  IF m \in Negative THEN IF reply = "accepted" THEN "unexpectedly_allowed" ELSE "policy_denied"
  ELSE IF reply = "accepted" THEN "allowed" ELSE "positive_rejected"

\* classify_negative, classify_positive
Classify(m, reply) ==
  CASE reply = "accepted" -> IF m \in Negative THEN "unexpectedly_allowed" ELSE "allowed"
    [] reply = "denied"   -> IF m \in Negative THEN "policy_denied" ELSE "positive_rejected"
    [] OTHER              -> "execution_error"

\* kubectl apply --dry-run=server: what the API server answers now
Reply(m) ==
  CASE webhook = "failing" -> "error"
    [] webhook = "up" /\ Breaks[m] \cap active # {} -> "denied"
    [] OTHER -> "accepted"

Extend(f, m, value) == [x \in DOMAIN f \cup {m} |-> IF x = m THEN value ELSE f[x]]

\* run_live: the negative manifests, then the positive ones
TryLive(m) ==
  /\ mode = "live" /\ pc = "try" /\ m \in Manifests \ DOMAIN outcome
  /\ m \in Positive => Negative \subseteq DOMAIN outcome
  /\ \/ outcome' = Extend(outcome, m, Classify(m, Reply(m))) /\ UNCHANGED faults
     \/ /\ faults < MaxFaults /\ faults' = faults + 1
        /\ outcome' = Extend(outcome, m, Classify(m, "error"))
  /\ judged' = Extend(judged, m, IF webhook = "up" THEN Breaks[m] \cap active ELSE {})
  /\ UNCHANGED <<active, webhook, defined, matching, mode, pc, code>>

\* eval_policy: a package that opa does not find has no violations
Eval(m, packages) == Breaks[m] \cap packages \cap defined

\* validate_all: a manifest that POLICIES does not list is passed over
TryOffline(m) ==
  LET found == Eval(m, IF m \in Positive THEN Policies ELSE {PolicyOf[m]})
  IN /\ mode = "offline" /\ pc = "try" /\ m \in (Positive \cup DOMAIN PolicyOf) \ DOMAIN outcome
     /\ judged' = Extend(judged, m, found)
     /\ outcome' = Extend(outcome, m,
          IF m \in Positive THEN IF found = {} THEN "allowed" ELSE "positive_rejected"
          ELSE IF found \cap matching # {} THEN "policy_denied" ELSE "unexpectedly_allowed")
     /\ UNCHANGED <<active, webhook, defined, matching, mode, pc, code, faults>>

\* an OPA error ends the offline check (RuntimeError)
OpaFails ==
  /\ mode = "offline" /\ pc = "try" /\ faults < MaxFaults
  /\ faults' = faults + 1 /\ End(1)
  /\ UNCHANGED <<active, webhook, defined, matching, mode, outcome, judged>>

Tried == IF mode = "live" THEN Manifests ELSE Positive \cup DOMAIN PolicyOf
Count(manifests, kind) == Cardinality({m \in manifests \cap DOMAIN outcome : outcome[m] = kind})

\* summarize, of the manifests tried
Total == Cardinality(Negative \cap DOMAIN outcome)
Blocked == Count(Negative, "policy_denied")
Errors == Count(Manifests, "execution_error")

Passed ==
  /\ Total > 0 /\ Positive \cap DOMAIN outcome # {}
  /\ Blocked = Total /\ Errors = 0
  /\ Count(Positive, "allowed") = Cardinality(Positive \cap DOMAIN outcome)

Summarize ==
  /\ pc = "try" /\ Tried \subseteq DOMAIN outcome /\ End(IF Passed THEN 0 ELSE 1)
  /\ UNCHANGED <<active, webhook, defined, matching, mode, outcome, judged, faults>>

\* constraints are installed and removed, the webhook comes and goes
ClusterChanges ==
  /\ mode = "live" /\ pc = "try" /\ faults < MaxFaults /\ faults' = faults + 1
  /\ active' \in SUBSET Policies /\ webhook' \in {"up", "ignored", "failing"}
  /\ cluster' # cluster
  /\ UNCHANGED <<defined, matching, mode, pc, outcome, code, judged>>

Next ==
  \/ Start \/ OpaFails \/ Summarize \/ ClusterChanges
  \/ \E m \in Manifests : TryLive(m) \/ TryOffline(m)

Spec == Init /\ [][Next]_vars

\* ManifestValidationReport.all_passed, the verdict of "threatguard admission validate":
\* a manifest is blocked whatever the message said
AllPassed ==
  /\ \A m \in Positive : outcome[m] = "allowed"
  /\ \A m \in Negative \cap DOMAIN outcome : judged[m] # {}
--------------------------------------------------------------------------------
(* Properties *)

TypeOK ==
  /\ pc \in {"start", "try", "done"} /\ code \in {-1, 0, 1, 2}
  /\ \A m \in DOMAIN outcome : outcome[m] \in
       (IF m \in Negative THEN {"policy_denied", "unexpectedly_allowed", "execution_error"}
        ELSE {"allowed", "positive_rejected", "execution_error"})

\* "no error path may be reported as successful enforcement" (test_live_check.py:1): exit
\* code 0 means that each insecure manifest tried was found to break a policy, that no
\* compliant one was, and that something was tried.
SuccessIsEnforcement ==
  code = 0 =>
    /\ Negative \cap DOMAIN judged # {} /\ Positive \cap DOMAIN judged # {}
    /\ \A m \in DOMAIN judged : judged[m] # {} <=> m \in Negative

\* The offline check cannot pass while a policy that some manifest is there to trip is
\* missing, although OPA answers for a missing package as for a compliant object.
MissingPackageFails ==
  mode = "offline" /\ code = 0 => \A m \in DOMAIN PolicyOf : PolicyOf[m] \in defined

\* A manifest "Blocked for the wrong reason" (test_manifest_validation.py:47) passes neither
\* of the two commands that judge the same offline report.
VerdictsAgree ==
  mode = "offline" /\ pc = "try" /\ Tried \subseteq DOMAIN outcome => (Passed <=> AllPassed)

\* "all negative manifests (each must trigger its mapped policy)" (validator.py:81-82)
EveryNegativeEvaluated == mode = "offline" /\ code = 0 => Negative \subseteq DOMAIN outcome
================================================================================
