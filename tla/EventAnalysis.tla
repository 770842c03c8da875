------------------------------ MODULE EventAnalysis ------------------------------
(***************************************************************************)
(* What ThreatGuard makes of the events it has: detections, correlated     *)
(* incidents with their risk, the records of the incident manager, the     *)
(* dossier of a workload, the evidence package and the remediation plan.   *)
(* None of them writes what another reads while it runs, so a behaviour is *)
(* that of one; the others stay where they begin.                          *)
(***************************************************************************)
EXTENDS IncidentLifecycle, Integers

CONSTANTS
  Namespaces, Protected, RawEvents, RawFiles, Switchable,     \* see DetectionEngine
  TechniqueWeights, NamespaceWeights, NoTechnique,            \* see RiskScoring
  Events, Specs,                                              \* see IncidentCorrelation
  Pods, Pod, Matching, Pids,                                  \* see WorkloadInvestigation
  AffectedPods,                                               \* see Remediation
  Published,                                                  \* see EvidencePackage
  \* bounds of the parts
  MaxSeen, MaxEvents, MaxProcs, MaxPackages

VARIABLES
  part,
  enabled, detections, processed, status, file, given, base, judged,
  collected, spec,
  procs, alive, sent, told, arrived,
  pod, flags, seen, pc, podReply, lookups, notice, ref, playbook, executed,
  input, cluster, dirs, captured, phase, loaded, next, open, files, begun

detectionVars     == <<enabled, detections, processed, status, file, given, base, judged>>
correlationVars   == <<collected, spec>>
investigationVars == <<procs, alive, sent, told, arrived>>
remedyVars  == <<pod, flags, seen, pc, podReply, lookups, notice, ref, playbook, executed>>
packageVars == <<input, cluster, dirs, captured, phase, loaded, next, open, files, begun>>

Detection == INSTANCE DetectionEngine WITH Events <- RawEvents, Files <- RawFiles

Correlation == INSTANCE IncidentCorrelation WITH events <- collected

Investigation == INSTANCE WorkloadInvestigation WITH events <- arrived

Remedy == INSTANCE Remediation WITH Pods <- AffectedPods

Package == INSTANCE EvidencePackage WITH events <- loaded

ASSUME AnalysisAssumptions ==
  /\ Detection!EngineAssumption /\ Correlation!CorrelationAssumption
  /\ Investigation!InvestigationAssumption /\ Remedy!PodAssumption /\ Package!PackageAssumption
----------------------------------------------------------------------------------
\* the choices of a part that does not run
RemedyIdle ==
  /\ pod = CHOOSE p \in AffectedPods : TRUE
  /\ flags = [live |-> FALSE, apply |-> FALSE] /\ seen = {}
PackageIdle == cluster = "offline" /\ dirs = TRUE

AnalysisInit ==
  /\ part \in {"detection", "correlation", "lifecycle", "investigation", "remediation", "package"}
  /\ Init /\ Detection!Init /\ Investigation!Init
  /\ (part = "correlation" \/ spec = Correlation!NoSpec) /\ Correlation!Init
  /\ (part = "remediation" \/ RemedyIdle) /\ Remedy!Init
  /\ (part = "package" \/ PackageIdle) /\ Package!Init

AnalysisNext ==
  \/ /\ part = "detection" /\ Detection!Next
     /\ UNCHANGED <<part, vars, correlationVars, investigationVars, remedyVars, packageVars>>
  \/ /\ part = "correlation" /\ Correlation!Next
     /\ UNCHANGED <<part, vars, detectionVars, investigationVars, remedyVars, packageVars>>
  \/ /\ part = "lifecycle" /\ Next
     /\ UNCHANGED <<part, detectionVars, correlationVars, investigationVars, remedyVars, packageVars>>
  \/ /\ part = "investigation" /\ Investigation!Next
     /\ UNCHANGED <<part, vars, detectionVars, correlationVars, remedyVars, packageVars>>
  \/ /\ part = "remediation" /\ Remedy!Next
     /\ UNCHANGED <<part, vars, detectionVars, correlationVars, investigationVars, packageVars>>
  \/ /\ part = "package" /\ Package!Next
     /\ UNCHANGED <<part, vars, detectionVars, correlationVars, investigationVars, remedyVars>>

analysisVars ==
  <<part, vars, detectionVars, correlationVars, investigationVars, remedyVars, packageVars>>

AnalysisSpec == AnalysisInit /\ [][AnalysisNext]_analysisVars
----------------------------------------------------------------------------------
(* The properties of the parts, as their modules state them; those of the  *)
(* lifecycle are there already                                             *)

\* The types of all parts.
AnalysisTypes ==
  /\ TypeOK
  /\ Detection!TypeOK /\ Investigation!TypeOK /\ Remedy!TypeOK /\ Package!TypeOK

\* What the engine decides agrees with the table of the registry (rules.py:291) wherever it
\* decides: where the record its evidence reads is null it raises instead.  An exec and the
\* hooked execve of the same binary are judged alike (engine.py:241).
RulesAgree == Detection!AgreesWithRegistry /\ Detection!SameExecSameRule

\* A line of a file that is no JSON costs nothing but itself, and one that raises costs the
\* lines after it and none before it (engine.py:370).
IngestLosesNothing == Detection!IngestLosesNothing

\* Incidents lose, double and misfile no event, do not show in which order the events
\* were collected (correlation/kubernetes.py:40), and every point of a score has a
\* contributor (risk.py:4).
IncidentsFaithful ==
  /\ Correlation!EventsAccountedFor
  /\ Correlation!ArrivalOrderIrrelevant
  /\ Correlation!AttributionComplete

\* A further event never discounts what is known (risk.py:216).
EvidenceNeverDiscounted == Correlation!EvidenceNeverDiscounted

\* Records that arrive in order hang under the parents they name, and under a stranger only
\* if the parent left no record and its pid had been another's (investigation.py:219).
TreeIsReal == Investigation!TreeIsReal

\* Commands name the Pod's own controller where the cluster confirmed it, the ReplicaSet's name
\* without its hash where only the second lookup did not (workload_resolver.py:209), and are the
\* offline ones where the first failed; the steps of one playbook agree on the owner, and traces
\* are taken before a step that may destroy them (recommendations.py:98); the notice is about a
\* lookup that failed (main.py:230).
PlaybookGrounded ==
  /\ Remedy!AnsweredTargetsReal /\ Remedy!FailureDegradesToOffline
  /\ Remedy!OneTarget /\ Remedy!CaptureFirst
  /\ Remedy!NoticeHasReason

\* A finished package is whole and of one list of events (evidence.py:82), and calls no
\* simulated event live (evidence.py:160).
PackageHonest == Package!PackageWhole /\ Package!NeverRelabelled
==================================================================================
