------------------------------- MODULE RiskScoring -------------------------------
(***************************************************************************)
(* RiskScoringEngine.evaluate_workload (reporting/risk.py): points for the *)
(* events of a workload, its namespace and its pod specification, added    *)
(* up, scaled and cut at 100.  The scale is 3/4, so scores are counted in  *)
(* quarter points and stay integers.                                       *)
(*                                                                         *)
(* An event here is [severity, technique, net, at]: net says that it is    *)
(* outbound traffic, at is its parsed timestamp in seconds.                *)
(***************************************************************************)
EXTENDS Naturals, Sequences, FiniteSetsExt

CONSTANTS
  TechniqueWeights, \* technique -> points, as far as the table goes
  NamespaceWeights, \* namespace -> points, as far as the table goes
  NoTechnique       \* an event without one

\* no factor takes points away
WeightAssumption ==
  /\ \A t \in DOMAIN TechniqueWeights : TechniqueWeights[t] \in Nat
  /\ \A n \in DOMAIN NamespaceWeights : NamespaceWeights[n] \in Nat

Severities == <<"INFO", "LOW", "MEDIUM", "HIGH", "CRITICAL">>
NoSpec == [given |-> FALSE, privileged |-> FALSE, host |-> FALSE, root |-> FALSE, writable |-> FALSE]

Least(a, b) == IF a < b THEN a ELSE b
Gap(a, b)   == IF a < b THEN b - a ELSE a - b
Weight(table, key, default) == IF key \in DOMAIN table THEN table[key] ELSE default

SeverityPoints(s) ==
  CASE s = "CRITICAL" -> 40 [] s = "HIGH" -> 25 [] s = "MEDIUM" -> 15 [] s = "LOW" -> 5 [] OTHER -> 0

\* mutant: the severity of the last event instead of the highest
SeverityLast(evs) ==
  (IF evs = <<>> THEN 0 ELSE SeverityPoints(evs[Len(evs)].severity)) + Least(4 * Len(evs), 16)

\* the highest severity, and 4 points for each of the first four events
Severity(evs) ==
  LET points == {SeverityPoints(evs[i].severity) : i \in 1 .. Len(evs)}
  IN Max(points \cup {0}) + Least(4 * Len(evs), 16)

\* a reference without a pod has no "/" and counts as namespace threatguard
Asset(ref) == Weight(NamespaceWeights, IF ref.pod = "" THEN "threatguard" ELSE ref.ns, 10)

PrivilegeFactors == [privileged |-> 25, host |-> 20, root |-> 15, writable |-> 10]
Factors(spec) == {f \in DOMAIN PrivilegeFactors : spec[f]}
Privilege(spec) == SumFunctionOnSet(PrivilegeFactors, Factors(spec))

Network(evs) == IF \E i \in 1 .. Len(evs) : evs[i].net THEN 20 ELSE 0

Techniques(evs) == {evs[i].technique : i \in 1 .. Len(evs)} \ {NoTechnique}
Mitre(evs) == Least(SumFunction([t \in Techniques(evs) |-> Weight(TechniqueWeights, t, 10)]), 35)

\* the list's first and last event less than two minutes apart
Burst(evs) == IF Len(evs) >= 2 /\ Gap(evs[1].at, evs[Len(evs)].at) < 120 THEN 12 ELSE 0

Breakdown(evs, ref, spec) ==
  [severity_points |-> Severity(evs), asset_criticality |-> Asset(ref),
   privilege_level |-> Privilege(spec), network_exposure |-> Network(evs),
   event_volume_clustering |-> Burst(evs), mitre_technique_weight |-> Mitre(evs)]

\* the contributors and their points: the factors that gave some, with the privileges apart
Contributors(evs, ref, spec) ==
  LET b == Breakdown(evs, ref, spec)
      telling == {f \in DOMAIN b \ {"privilege_level"} : b[f] > 0}
  IN [f \in Factors(spec) \cup telling |-> IF f \in telling THEN b[f] ELSE PrivilegeFactors[f]]

RawTotal(b) == SumFunction(b)

\* composite_risk_score in quarter points
Score(evs, ref, spec) ==
  IF evs = <<>> /\ ~spec.given THEN 0 ELSE Least(3 * RawTotal(Breakdown(evs, ref, spec)), 400)

Tier(score) ==
  IF score >= 340 THEN "CRITICAL" ELSE IF score >= 260 THEN "HIGH"
  ELSE IF score >= 140 THEN "MEDIUM" ELSE "LOW"
==================================================================================
