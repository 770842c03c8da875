------------------------------ MODULE ValidationRun ------------------------------
(***************************************************************************)
(* The 11-step harness scripts/run-security-validation.sh with the steps   *)
(* that share files: the admission check, the attack simulations, the      *)
(* telemetry and detection checks that read the run manifest, the forensic *)
(* evidence package, and the scorecard that brings admission and runtime   *)
(* evidence together.                                                      *)
(*                                                                         *)
(* Every run writes into the same artifacts/ directory, no run clears it   *)
(* when it starts, nothing locks it, and a run can be interrupted at any   *)
(* point.  Evidence therefore carries a run id, and this module asks what  *)
(* that id protects.  Every run has a run id of its own here.              *)
(*                                                                         *)
(* A manifest is reduced to what decides: its collector status ("silent"   *)
(* is a collector that is ok and captured no event), and whether the       *)
(* required scenarios all passed, some failed, or some never ran.  How the *)
(* manifest comes about is EvidencePipeline, how it reaches the disk is    *)
(* ArtifactPublication.                                                    *)
(***************************************************************************)
EXTENDS Integers

CONSTANTS
  Runs,     \* runs of the harness
  MaxAge,   \* MAX_EVIDENCE_AGE
  Horizon,  \* bound of the model: the last instant of the clock
  Absent,   \* no such file, or not read yet
  Torn,     \* a file that is open for writing: not valid JSON
  NoRun

Results    == {"PASS", "FAIL", "BLOCKED", "SKIPPED"}
Admissions == [run : Runs, mode : {"live", "offline"}, status : {"PASS", "FAIL"}]
Manifests  == [run : Runs, mode : {"live", "demo"}, at : Nat,
               collector : {"ok", "silent", "degraded", "unavailable", "not_applicable"},
               required : {"passed", "failed", "unrun"}]
Reports    == [run : Runs \cup {NoRun}, origin : {"LIVE", "SIMULATED", "UNKNOWN"}, at : Nat,
               overall : {"PASS", "FAIL", "INCOMPLETE", "STALE"}]

ASSUME ValidationAssumption ==
  /\ MaxAge \in Nat /\ Horizon \in Nat
  /\ NoRun \notin Runs /\ Absent \notin Runs \cup {NoRun}
  /\ \A f \in {Absent, Torn} : f \notin Admissions /\ f \notin Manifests /\ f \notin Reports

VARIABLES
  now,
  mode,       \* the --mode each run is started with
  disturbed,  \* runs under way that others have overlapped (history)
  pc,         \* the step a run is at: 0 before it starts, 12 when it sums up
  sub,        \* how far it is within the step
  ended,      \* runs that printed their summary or were interrupted
  failed,     \* runs with HAS_FAIL
  blocked,    \* runs with HAS_BLOCKED
  skipped,    \* runs whose step 7 was BLOCKED without running
  validated,  \* the run whose manifest step 9 recorded PASS for
  admission,  \* artifacts/admission/admission-results.json
  manifest,   \* artifacts/runtime/run-manifest.json
  report,     \* artifacts/security-report.json
  held,       \* the admission results a scorecard in progress has read
  admissions, \* what the admission check of each run found
  archive     \* artifacts/runs/<mode>-<run id>/run-manifest.json

harnessVars == <<pc, sub, ended, failed, blocked, skipped, validated>>
fileVars    == <<admission, manifest, report, held, admissions, archive>>
vars == <<now, mode, disturbed, harnessVars, fileVars>>

LastStep == 11
Summary  == 12
Active(r) == pc[r] # 0 /\ r \notin ended

TypeOK ==
  /\ now \in Nat /\ mode \in [Runs -> {"live", "demo"}]
  /\ pc \in [Runs -> 0 .. Summary] /\ sub \in [Runs -> 0 .. 2]
  /\ \A set \in {ended, failed, blocked, skipped, disturbed} : set \subseteq Runs
  /\ validated \in [Runs -> Runs \cup {NoRun}]
  /\ admission \in Admissions \cup {Absent, Torn}
  /\ manifest \in Manifests \cup {Absent}
  /\ report \in Reports \cup {Absent}
  /\ held \in [Runs -> Admissions \cup {Absent, Torn}]
  /\ admissions \in [Runs -> Admissions \cup {Absent}]
  /\ archive \in [Runs -> Manifests \cup {Absent}]

Init ==
  /\ now = 0 /\ mode \in [Runs -> {"live", "demo"}]
  /\ pc = [r \in Runs |-> 0] /\ sub = [r \in Runs |-> 0]
  /\ ended = {} /\ disturbed = {} /\ failed = {} /\ blocked = {} /\ skipped = {}
  /\ validated = [r \in Runs |-> NoRun]
  /\ admission = Absent /\ manifest = Absent /\ report = Absent
  /\ held = [r \in Runs |-> Absent]
  /\ admissions = [r \in Runs |-> Absent]
  /\ archive = [r \in Runs |-> Absent]

Tick == now < Horizon /\ now' = now + 1 /\ UNCHANGED <<mode, disturbed, harnessVars, fileVars>>

Begin(r) ==
  /\ pc[r] = 0
  /\ pc' = [pc EXCEPT ![r] = 1]
  /\ disturbed' = LET others == {q \in Runs : Active(q)}
                   IN IF others = {} THEN disturbed ELSE disturbed \cup others \cup {r}
  /\ UNCHANGED <<now, mode, sub, ended, failed, blocked, skipped, validated, fileVars>>

\* what the process of a run held is gone when it ends
Leave(r) ==
  /\ ended' = ended \cup {r}
  /\ pc' = [pc EXCEPT ![r] = Summary] /\ sub' = [sub EXCEPT ![r] = 0]
  /\ failed' = failed \ {r} /\ blocked' = blocked \ {r} /\ skipped' = skipped \ {r}
  /\ validated' = [validated EXCEPT ![r] = NoRun]
  /\ held' = [held EXCEPT ![r] = Absent]
  /\ disturbed' = disturbed \ {r}

\* interrupted: an admission file that is open stays torn
Kill(r) ==
  /\ Active(r) /\ Leave(r)
  /\ UNCHANGED <<now, mode, admission, manifest, report, admissions, archive>>
---------------------------------------------------------------------------------
(* Recording a step *)

AtStep(r, n, k) == Active(r) /\ pc[r] = n /\ sub[r] = k

\* record, once per result: FAIL and BLOCKED stick
RecordAll(r, results) ==
  /\ failed' = IF "FAIL" \in results THEN failed \cup {r} ELSE failed
  /\ blocked' = IF "BLOCKED" \in results THEN blocked \cup {r} ELSE blocked

Record(r, result) == RecordAll(r, {result})

GoTo(r, n, k) == pc' = [pc EXCEPT ![r] = n] /\ sub' = [sub EXCEPT ![r] = k]

\* record_rc
ResultOf(rc) == IF rc = 0 THEN "PASS" ELSE IF rc = 2 THEN "BLOCKED" ELSE "FAIL"

\* The checks that touch no evidence are one action where they follow each other.
\* Steps 1 to 3: cluster and gatekeeper health, which end the run when they are blocked,
\* and the rego unit tests
Prerequisites(r) ==
  /\ AtStep(r, 1, 0)
  /\ \/ mode[r] = "live" /\ Record(r, "BLOCKED") /\ GoTo(r, Summary, 0)
     \/ \E rego \in {"PASS", "FAIL", "BLOCKED"} : Record(r, rego) /\ GoTo(r, 4, 0)
  /\ UNCHANGED <<now, mode, disturbed, ended, skipped, validated, fileVars>>

\* steps 5 and 6: deployment and tetragon health, both skipped in a demo run
Deployment(r, deploy, tetragon) ==
  /\ AtStep(r, 5, 0)
  /\ mode[r] = "demo" => deploy = "SKIPPED" /\ tetragon = "SKIPPED"
  /\ mode[r] = "live" => deploy \in {"PASS", "FAIL", "BLOCKED"} /\ tetragon \in {"PASS", "BLOCKED"}
  /\ RecordAll(r, {deploy, tetragon})
  /\ GoTo(r, 7, 0)
  /\ UNCHANGED <<now, mode, disturbed, ended, skipped, validated, fileVars>>

\* step 10
Metrics(r, result) ==
  /\ AtStep(r, 10, 0)
  /\ Record(r, result)
  /\ GoTo(r, LastStep, 0)
  /\ UNCHANGED <<now, mode, disturbed, ended, skipped, validated, fileVars>>
---------------------------------------------------------------------------------
(* Step 4: the admission check *)

\* Gatekeeper or OPA is not there, or OPA fails: no results are written
AdmissionUnavailable(r) ==
  /\ AtStep(r, 4, 0)
  /\ \/ Record(r, "BLOCKED")
     \/ mode[r] = "demo" /\ Record(r, "FAIL")
  /\ GoTo(r, 5, 0)
  /\ UNCHANGED <<now, mode, disturbed, ended, skipped, validated, fileVars>>

\* write_results opens the file in place ...
AdmissionOpen(r) ==
  /\ AtStep(r, 4, 0)
  /\ admission' = Torn
  /\ GoTo(r, 4, 1)
  /\ UNCHANGED <<now, mode, disturbed, failed, blocked, ended, skipped, validated,
                 manifest, report, held, admissions, archive>>

\* ... and fills it, perhaps over what another run filled in since: then the tail of a
\* longer text may stay behind it.  PASS means that every negative
\* manifest was denied and every compliant one admitted.
AdmissionWrite(r, status) ==
  /\ AtStep(r, 4, 1)
  /\ admissions' = [admissions EXCEPT ![r] =
       [run |-> r, mode |-> IF mode[r] = "live" THEN "live" ELSE "offline", status |-> status]]
  /\ \/ admission' = admissions'[r]
     \/ admission # Torn /\ admission' = Torn
  /\ Record(r, status)
  /\ GoTo(r, 5, 0)
  /\ UNCHANGED <<now, mode, disturbed, ended, skipped, validated,
                 manifest, report, held, archive>>
---------------------------------------------------------------------------------
(* Step 7: the attack simulations *)

\* what run_pipeline publishes: without a stream no scenario is confirmed either way, and
\* no scenario passes without captured events
PipelineManifests(r) ==
  {m \in [run : {r}, mode : {mode[r]}, at : {now},
          collector : IF mode[r] = "demo" THEN {"not_applicable"}
                      ELSE {"ok", "silent", "degraded", "unavailable"},
          required : {"passed", "failed", "unrun"}] :
     /\ m.collector = "unavailable" => m.required = "unrun"
     /\ m.collector = "silent" => m.required # "passed"}

\* exit code of run_simulations.sh once the pipeline has run
SimulationExit(m) ==
  IF m.collector = "unavailable" THEN 2 ELSE IF m.required = "passed" THEN 0 ELSE 1

SimulationsSkipped(r) ==
  /\ AtStep(r, 7, 0) /\ r \in blocked /\ mode[r] = "live"
  /\ Record(r, "BLOCKED")
  /\ skipped' = skipped \cup {r}
  /\ GoTo(r, 8, 0)
  /\ UNCHANGED <<now, mode, disturbed, ended, validated, fileVars>>

SimulationsAllowed(r) == AtStep(r, 7, 0) /\ ~ (r \in blocked /\ mode[r] = "live")

\* the target pod is missing, or the pipeline dies before it publishes
SimulationsWithoutEvidence(r, rc) ==
  /\ SimulationsAllowed(r)
  /\ Record(r, ResultOf(rc))
  /\ GoTo(r, 8, 0)
  /\ UNCHANGED <<now, mode, disturbed, ended, skipped, validated, fileVars>>

Simulations(r, m) ==
  /\ SimulationsAllowed(r)
  /\ manifest' = m
  /\ archive' = [archive EXCEPT ![r] = m]
  /\ Record(r, ResultOf(SimulationExit(m)))
  /\ GoTo(r, 8, 0)
  /\ UNCHANGED <<now, mode, disturbed, ended, skipped, validated, admission, report, held, admissions>>
---------------------------------------------------------------------------------
(* Steps 8 and 9 read whatever manifest is there *)

Telemetry(r) ==
  /\ AtStep(r, 8, 0)
  /\ Record(r, IF manifest = Absent THEN "BLOCKED"
               ELSE IF manifest.mode = "live" /\ manifest.collector # "ok"
               THEN "FAIL" ELSE "PASS")
  /\ GoTo(r, 9, 0)
  /\ UNCHANGED <<now, mode, disturbed, ended, skipped, validated, fileVars>>

Detection(r) ==
  /\ AtStep(r, 9, 0)
  /\ LET result == IF manifest = Absent THEN "BLOCKED"
                   ELSE IF manifest.required = "passed" THEN "PASS" ELSE "FAIL"
     IN /\ Record(r, result)
        /\ validated' = [validated EXCEPT ![r] = IF result = "PASS" THEN manifest.run ELSE NoRun]
  /\ GoTo(r, 10, 0)
  /\ UNCHANGED <<now, mode, disturbed, ended, skipped, fileVars>>
---------------------------------------------------------------------------------
(* Step 11: evidence package and scorecard *)

\* collect-evidence.sh: the package changes no file the harness reads ...
Evidence(r) ==
  /\ AtStep(r, LastStep, 0)
  /\ GoTo(r, LastStep, 1)
  /\ UNCHANGED <<now, mode, disturbed, ended, failed, blocked, skipped, validated, fileVars>>

\* ... and when it cannot be written no scorecard is made
EvidenceFails(r) ==
  /\ AtStep(r, LastStep, 0)
  /\ Record(r, "FAIL")
  /\ GoTo(r, Summary, 0)
  /\ UNCHANGED <<now, mode, disturbed, ended, skipped, validated, fileVars>>

ScorecardReadsAdmission(r) ==
  /\ AtStep(r, LastStep, 1)
  /\ held' = [held EXCEPT ![r] = admission]
  /\ GoTo(r, LastStep, 2)
  /\ UNCHANGED <<now, mode, disturbed, failed, blocked, ended, skipped, validated,
                 admission, manifest, report, admissions, archive>>

\* mutant: evidence of different runs is accepted
IssuesIgnoreRun(adm, man) ==
  \/ adm \in {Absent, Torn}
  \/ man = Absent
  \/ man.mode = "live" /\ adm.mode # "live"

\* issues: what makes the evidence unusable
Issues(adm, man) ==
  \/ adm \in {Absent, Torn}
  \/ man = Absent
  \/ adm.run # man.run
  \/ man.mode = "live" /\ adm.mode # "live"

Overall(adm, man) ==
  IF Issues(adm, man) THEN "INCOMPLETE"
  ELSE IF now - man.at > MaxAge THEN "STALE"
  ELSE IF man.required = "unrun" THEN "INCOMPLETE"
  ELSE IF /\ adm.status = "PASS" /\ man.required = "passed"
          /\ man.collector \in {"ok", "silent", "not_applicable"} THEN "PASS"
  ELSE "FAIL"

Scorecard(adm, man) ==
  [run     |-> IF man = Absent THEN NoRun ELSE man.run,
   origin  |-> IF man = Absent THEN "UNKNOWN" ELSE IF man.mode = "live" THEN "LIVE" ELSE "SIMULATED",
   overall |-> Overall(adm, man),
   at      |-> now]

\* mutant: the result of the scorecard is not the result of the step
ScorecardWritesUnchecked(r) ==
  /\ AtStep(r, LastStep, 2)
  /\ report' = Scorecard(held[r], manifest)
  /\ held' = [held EXCEPT ![r] = Absent]
  /\ Record(r, "PASS")
  /\ GoTo(r, Summary, 0)
  /\ UNCHANGED <<now, mode, disturbed, ended, skipped, validated,
                 admission, manifest, admissions, archive>>

ScorecardWrites(r) ==
  /\ AtStep(r, LastStep, 2)
  /\ report' = Scorecard(held[r], manifest)
  /\ held' = [held EXCEPT ![r] = Absent]
  /\ Record(r, IF report'.overall = "PASS" THEN "PASS" ELSE "FAIL")
  /\ GoTo(r, Summary, 0)
  /\ UNCHANGED <<now, mode, disturbed, ended, skipped, validated,
                 admission, manifest, admissions, archive>>

\* finish
Verdict(r) ==
  IF r \in failed THEN "failed" ELSE IF r \in blocked THEN "blocked" ELSE "passed"

Finish(r) ==
  /\ AtStep(r, Summary, 0) /\ Leave(r)
  /\ UNCHANGED <<now, mode, admission, manifest, report, admissions, archive>>

Harness(r) ==
  \/ Begin(r) \/ Kill(r)
  \/ Prerequisites(r)
  \/ \E deploy, tetragon \in Results : Deployment(r, deploy, tetragon)
  \/ \E result \in {"PASS", "FAIL"} : Metrics(r, result)
  \/ AdmissionUnavailable(r) \/ AdmissionOpen(r)
  \/ \E status \in {"PASS", "FAIL"} : AdmissionWrite(r, status)
  \/ SimulationsSkipped(r)
  \/ \E rc \in {1, 2} : SimulationsWithoutEvidence(r, rc)
  \/ \E m \in PipelineManifests(r) : Simulations(r, m)
  \/ Telemetry(r) \/ Detection(r)
  \/ Evidence(r) \/ EvidenceFails(r) \/ ScorecardReadsAdmission(r) \/ ScorecardWrites(r)
  \/ Finish(r)

Next == Tick \/ \E r \in Runs : Harness(r)

Spec == Init /\ [][Next]_vars
---------------------------------------------------------------------------------
LiveAccepted == report # Absent /\ report.overall = "PASS" /\ report.origin = "LIVE"

\* The scorecard's live acceptance is about one live run, however runs overlap, die or
\* leave files behind: that run's own admission check passed against the webhook, its own
\* pipeline saw every required scenario pass on an undegraded stream, and its evidence
\* was not older than MAX_EVIDENCE_AGE when it was reported.
LiveAcceptanceIsOneRun ==
  LiveAccepted =>
    LET r == report.run IN
    /\ r \in Runs /\ mode[r] = "live"
    /\ admissions[r] # Absent /\ admissions[r].status = "PASS" /\ admissions[r].mode = "live"
    /\ archive[r] # Absent /\ archive[r].required = "passed" /\ archive[r].collector = "ok"
    /\ report.at - archive[r].at <= MaxAge

SaysPassed(r) == AtStep(r, Summary, 0) /\ Verdict(r) = "passed"

\* When no other run was under way meanwhile, a summary that says PASSED speaks of the run's own evidence,
\* not of what earlier or interrupted runs left in artifacts/: its simulations ran and all
\* required scenarios passed, the manifest it validated is its own, and the scorecard on
\* disk is its own and says PASS, LIVE only for a live run.
PassedVerdictIsOwn ==
  \A r \in Runs \ disturbed : SaysPassed(r) =>
    /\ r \notin skipped /\ validated[r] = r
    /\ admissions[r] # Absent /\ admissions[r].status = "PASS"
    /\ archive[r] # Absent /\ archive[r].required = "passed"
    /\ archive[r].collector \in {"ok", "not_applicable"}
    /\ report.run = r /\ report.overall = "PASS"
    /\ report.origin = (IF mode[r] = "live" THEN "LIVE" ELSE "SIMULATED")

\* README.md:229: a skipped check cannot become a pass.  Step 9 validates the detections of
\* the simulations, so it does not pass when they were not run.
SkippedNeverPasses ==
  \A r \in skipped : validated[r] = NoRun

\* run-security-validation.sh:95: every step passed against real evidence.
LiveVerdictOnRealEvidence ==
  \A r \in Runs : SaysPassed(r) /\ mode[r] = "live" => mode[validated[r]] = "live"
=================================================================================
