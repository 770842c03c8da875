----------------------------- MODULE ClusterChecks -----------------------------
(***************************************************************************)
(* The four commands that ask a live cluster: the admission check, the     *)
(* network policy check, the diagnosis of the sensor and verify --live.    *)
(* Each is a process of its own and writes nothing that another reads, so  *)
(* a behaviour is that of one command; the others stay where they begin.   *)
(***************************************************************************)
EXTENDS Integers, FiniteSets

CONSTANTS
  Policies, Negative, Positive, Breaks, PolicyOf, \* see AdmissionCheck
  Tries,                                          \* see NetworkPolicyCheck
  Nodes, PodNode, Tracing, Probes, None,          \* see SensorDiagnosis
  \* bounds of the parts
  AdmissionFaults, NetworkFaults, NetworkRuns, SensorTroubles, VerifyTroubles

VARIABLES
  command,
  active, webhook, defined, matching, mode, pc, outcome, judged, exit, lost_calls,
  enforces, open, denied, app, objects, programmed, at, item, created, results, ready,
  status, faults, fresh, failed, runs,
  step, agent, counter, before, probed, code, since, pending, lost, lines, troubles,
  triggered, podActed, strangers,
  check, met, result, raised, warned, unwell

admissionVars == <<active, webhook, defined, matching, mode, pc, outcome, judged, exit, lost_calls>>
networkVars == <<enforces, open, denied, app, objects, programmed, at, item, created, results,
                 ready, status, faults, fresh, failed, runs>>
sensorVars == <<step, agent, counter, before, probed, code, since, pending, lost, lines,
                troubles, triggered, podActed, strangers>>
verifyVars == <<check, met, result, raised, warned, unwell>>

Admission == INSTANCE AdmissionCheck WITH MaxFaults <- AdmissionFaults, code <- exit, faults <- lost_calls

Network == INSTANCE NetworkPolicyCheck WITH
  MaxFaults <- NetworkFaults, MaxRuns <- NetworkRuns, active <- programmed, pc <- at, step <- item

Sensor == INSTANCE SensorDiagnosis WITH MaxTroubles <- SensorTroubles

Verify == INSTANCE LiveVerification WITH MaxTroubles <- VerifyTroubles, step <- check, troubles <- unwell

ASSUME CheckAssumptions ==
  /\ Admission!AdmissionAssumption /\ Network!NetworkAssumption
  /\ Sensor!DiagnosisAssumption /\ Verify!VerifyAssumption
--------------------------------------------------------------------------------
\* the choices of a command that does not run
AdmissionIdle ==
  active = {} /\ webhook = "up" /\ defined = Policies /\ matching = {} /\ mode = "live"
NetworkIdle ==
  enforces = TRUE /\ app = TRUE /\ open = Network!Cases /\ denied = Network!Cases \ Network!Allowed
SensorIdle == counter = [n \in Nodes |-> Sensor!Zero]

Init ==
  /\ command \in {"admission", "network", "sensor", "verify"}
  /\ (command = "admission" \/ AdmissionIdle) /\ Admission!Init
  /\ (command = "network" \/ NetworkIdle) /\ Network!Init
  /\ (command = "sensor" \/ SensorIdle) /\ Sensor!Init
  /\ Verify!Init

Next ==
  \/ /\ command = "admission" /\ Admission!Next
     /\ UNCHANGED <<command, networkVars, sensorVars, verifyVars>>
  \/ /\ command = "network" /\ Network!Next
     /\ UNCHANGED <<command, admissionVars, sensorVars, verifyVars>>
  \/ /\ command = "sensor" /\ Sensor!Next
     /\ UNCHANGED <<command, admissionVars, networkVars, verifyVars>>
  \/ /\ command = "verify" /\ Verify!Next
     /\ UNCHANGED <<command, admissionVars, networkVars, sensorVars>>

Spec == Init /\ [][Next]_<<command, admissionVars, networkVars, sensorVars, verifyVars>>
--------------------------------------------------------------------------------
(* The properties of the commands, as their modules state them *)

\* The admission check exits 0 only when each insecure manifest it tried met a policy it breaks
\* (live_check.py:71), whatever changed or failed in between; offline, a package that OPA
\* does not find never passes for a compliant object (opa_client.py:55).
SuccessIsEnforcement == Admission!SuccessIsEnforcement /\ Admission!MissingPackageFails

\* The verdict on a network policy is about traffic (network_check.py:241), although the
\* cluster is late and commands fail, as long as no connection fails for another reason.
SoundVerdict == Network!SoundVerdict

\* A network check that passes takes everything away again (network_check.py:120), also
\* what a killed run left, but what its own apply or delete failed at.
PassLeavesNothing == Network!PassLeavesNothing

\* When nothing else happens the diagnosis of the sensor, asked of the agent on the node of
\* the Pod, is exact (sensor_check.py:142), and a gap it reports is about this Pod, unless a
\* stranger moved the counters.
DiagnosisIsOfThePod == Sensor!ExactWhenQuiet /\ Sensor!GapIsOfThePod

\* As long as no command prints a warning, verify exits 0 exactly if all it asked was well
\* (verify.py:271); and what is missing never passes (verify.py:300).
ZeroIsHealthy == Verify!ZeroIsHealthy /\ Verify!MissingNeverPasses
================================================================================
