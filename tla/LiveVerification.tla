---------------------------- MODULE LiveVerification ----------------------------
(***************************************************************************)
(* threatguard verify --live (cli/verify.py): the checks in their order,   *)
(* each by one command on a cluster that may have changed since the one    *)
(* before, and the exit code.  kubectl may print a warning beside what it  *)
(* answers, and _run joins the two.                                        *)
(***************************************************************************)
EXTENDS Integers, Sequences, FiniteSets

CONSTANTS MaxTroubles \* bound: commands that do not simply find what they look for

VerifyAssumption == MaxTroubles \in Nat

Order == <<"api", "nodes", "gatekeeper", "controller", "templates", "daemonset", "policies",
           "healthz", "readyz", "telemetry", "prometheus">>

\* What a command meets.  "missing": no cluster, no resource of that kind, no answer.
\* "none", "few": nothing or too little of it; "bad": there, and not well.  "alien": an
\* answer of Prometheus that is JSON of another type.
Conditions(c) ==
  CASE c \in {"api", "gatekeeper"} -> {"missing", "good"}
    [] c \in {"templates", "policies"} -> {"missing", "none", "few", "good"}
    [] c = "prometheus" -> {"missing", "none", "alien", "bad", "good"}
    [] OTHER -> {"missing", "bad", "good"}

VARIABLES
  step,    \* the check to make
  met,     \* check -> the condition that its command met
  result,  \* check -> "PASS", "FAIL", "BLOCKED"
  raised,  \* the command ended with a traceback
  warned,  \* checks whose command also printed a warning
  troubles

vars == <<step, met, result, raised, warned, troubles>>

Init == step = 1 /\ met = <<>> /\ result = <<>> /\ raised = FALSE /\ warned = {} /\ troubles = 0

\* len(out.splitlines()) against the minimum: what _run joined to the answer is a line more,
\* and "few" is one less than the minimum
Enough(condition, warning) == condition = "good" \/ (condition = "few" /\ warning)

Good(c, condition, warning) ==
  CASE c \in {"templates", "policies"} -> Enough(condition, warning)
    [] c = "nodes" -> condition = "good" /\ ~warning
    [] OTHER -> condition = "good"

Judge(c, condition, warning) ==
  IF Good(c, condition, warning) THEN "PASS"
  ELSE IF c \in {"api", "gatekeeper", "daemonset"} \/ (c = "prometheus" /\ condition = "missing")
  THEN "BLOCKED" ELSE "FAIL"

Extend(f, c, value) == [x \in DOMAIN f \cup {c} |-> IF x = c THEN value ELSE f[x]]

\* without a cluster nothing else is checked, without Gatekeeper neither its controller nor
\* its templates; the CRDs being there is no result of its own
After(c, status) ==
  CASE status = "BLOCKED" /\ c = "api" -> Len(Order) + 1
    [] status = "BLOCKED" /\ c = "gatekeeper" -> step + 3
    [] OTHER -> step + 1

\* What the command of check c met, and whether a warning came with it.
Meet(c, condition, warning) ==
  /\ (condition # "good" \/ warning) => troubles < MaxTroubles
  /\ troubles' = troubles + IF condition # "good" \/ warning THEN 1 ELSE 0
  /\ met' = Extend(met, c, condition)
  /\ warned' = IF warning THEN warned \cup {c} ELSE warned

Conclude(c, status) ==
  /\ result' = IF c = "gatekeeper" /\ status = "PASS" THEN result ELSE Extend(result, c, status)
  /\ step' = After(c, status)

\* only JSONDecodeError and KeyError are caught: a TypeError takes every result along
Check ==
  /\ step <= Len(Order)
  /\ \E condition \in Conditions(Order[step]), warning \in BOOLEAN :
       /\ Meet(Order[step], condition, warning)
       /\ IF condition = "alien" THEN raised' = TRUE /\ step' = Len(Order) + 1 /\ UNCHANGED result
          ELSE Conclude(Order[step], Judge(Order[step], condition, warning)) /\ UNCHANGED raised

Next == Check
Spec == Init /\ [][Next]_vars

Some(status) == \E c \in DOMAIN result : result[c] = status

\* mutant: what is blocked does not count
ExitLenient == IF Some("FAIL") THEN 1 ELSE 0

exit_code_for == IF Some("FAIL") THEN 1 ELSE IF Some("BLOCKED") THEN 2 ELSE 0

\* of the process: a traceback exits 1
ExitCode == IF raised THEN 1 ELSE exit_code_for
--------------------------------------------------------------------------------
(* Properties *)

Ended == step > Len(Order)
Asked == {c \in DOMAIN met : met[c] # "good"}

TypeOK ==
  /\ DOMAIN result \subseteq {Order[i] : i \in 1 .. Len(Order)} \cap DOMAIN met
  /\ \A c \in DOMAIN result : result[c] \in {"PASS", "FAIL", "BLOCKED"}
  /\ raised \in BOOLEAN /\ ExitCode \in 0 .. 2

\* "Only PASS counts as success" (docstring line 14): the exit code is 0 exactly when every
\* check was made and met what it looks for, as long as no command printed a warning.
ZeroIsHealthy ==
  Ended /\ warned = {} =>
    (ExitCode = 0 <=> Len(Order) = Cardinality(DOMAIN met) /\ Asked = {})

\* "a check whose prerequisite is missing is BLOCKED rather than passed" (docstring lines 15-16),
\* and a check that was not made follows from one that is BLOCKED.
MissingNeverPasses ==
  /\ \A c \in DOMAIN result : met[c] = "missing" => result[c] # "PASS"
  /\ Ended /\ ~raised => \A i \in 1 .. Len(Order) : Order[i] \in DOMAIN met \/ Some("BLOCKED")

\* "template(s) active in the cluster", "policy(ies) active in the cluster" (lines 293, 301)
CountsAreObjects ==
  \A c \in DOMAIN result \cap {"templates", "policies"} : result[c] = "PASS" => met[c] = "good"

\* "a check whose prerequisite is missing is BLOCKED" and exit code "2 blocked" (docstring
\* lines 15-17): with all well but for a Tetragon that is not installed the exit code is 2.
MissingIsBlocked ==
  Ended /\ warned = {} /\ Asked = {"daemonset", "policies"} /\ (\A c \in Asked : met[c] = "missing")
    => ExitCode = 2
================================================================================
