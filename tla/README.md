# TLA+ models of CloudNative ThreatGuard

ThreatGuard validates the security of a Kubernetes workload: it checks that an
admission webhook denies bad manifests, runs attack scenarios in a pod, reads
the events of the Tetragon eBPF sensor, decides which scenarios were detected,
and puts all of it into a scorecard, reports and metrics. Its central claim is
about evidence: *a result is PASS only when evidence of this run shows it*.
These modules model the parts of the code this claim depends on.

Python paths below are relative to `src/src/cloudnative_threatguard/`, others to
`src/`.

## 1. The system

| Part | State | Operations | Interacts through |
|---|---|---|---|
| Validation harness, `scripts/run-security-validation.sh`, `collect-evidence.sh` | status of 11 steps, HAS_FAIL, HAS_BLOCKED, run id | one step after the other, summary and exit code | calls all the others; everything under `artifacts/` |
| Scenario orchestrator, `simulations/run_simulations.sh`, `scenarios/_common.sh` | `scenario-results.tsv`, host clock | run each scenario, record status, exit code, start, end; pause | `kubectl exec`; the file is read by the pipeline |
| Scenario evaluation, `runtime/scenarios.py` | none | parse catalog and results, decide one scenario | called by the pipeline |
| Collector, `runtime/collector.py` | none | read, parse, deduplicate, redact the export stream | `kubectl logs` |
| Runtime pipeline, `runtime/pipeline.py` | events, outcomes, seconds waited | collect, evaluate, wait and collect again, publish | stream in; five artifacts, archive and exit code out |
| Admission check, `admission/live_check.py` (and `validator.py`, `opa_client.py` offline) | `admission-results.json` | classify each manifest, summarise, write | webhook or OPA; read by pipeline, scorecard, exporter |
| Scorecard, `reporting/scorecard.py` | `security-report.json` | read admission, manifest, events; overall status | exit code decides step 11 |
| Evidence package, `reporting/evidence.py` | forensic files | load events (or a baseline), correlate, write | reads the pipeline's artifacts |
| Metrics exporter, `observability/metrics_exporter.py`, `reporting/cross_domain_metrics.py` | none | render gauges from the files on each scrape | reads every artifact, and the cross-domain store |
| Network policy check, `runtime/network_check.py` | objects it made, results file | canary before and after deny-all, then a matrix, cleanup | cluster |
| Sensor diagnosis, `runtime/sensor_check.py` | none | compare sensor counters with the stream | cluster |
| Detection, `detection/engine.py`, `rules.py`, `mitre_mapping.py`; `runtime/events.py` | rule table | match one event, ingest a file | pipeline, evidence |
| Single-cluster correlation and risk, `correlation/kubernetes.py`, `reporting/risk.py` | none | group events by workload, score them | pipeline, evidence |
| Cross-domain correlation, `correlation/cross_domain/` | identity graph, incidents by id | map, correlate, score, deduplicate, save, load | store file read by the exporter |
| Incidents and CLI, `reporting/incidents.py`, `cli/main.py` | incidents, audit log, `cli` state file | create, update status, list | state file |
| Verification command, `cli/verify.py` | none | local and live checks, exit code | cluster, the parts it imports |
| Investigation, `reporting/investigation.py` | none | dossier and process tree of a Pod | reports |
| Remediation, `reporting/workload_resolver.py`, `recommendations.py` | none | owner of a Pod, playbook of commands | cluster, CLI |
| Attack chain, `reporting/attack_chain.py` | none | render one list of steps | reports |
| CloudGraphGuard, `cloudgraphguard/` | IAM graph | escalation vectors, paths | cross-domain correlation |
| Policies, manifests, lab scripts, dashboards | the cluster | apply | not code of this program |

What is hard, and the property that makes each part correct:

* **Clocks.** Nothing but time links a sensor event to the scenario that caused
  it. Correct: every executed scenario is given exactly its own events.
* **Late evidence.** Events arrive late, in any order, with foreign and
  malformed lines, and the stream may vanish between two collections. Correct:
  what is published as passed is backed by what is published beside it; a lost
  stream confirms nothing; the loop ends.
* **Files as the only memory.** Ten replaces make one publication; the process
  may die between any two, and readers come at any time. Correct: the manifest
  commits, everything is archived first, nothing is torn.
* **Shared `artifacts/`.** No run clears or locks it. Correct: an accepted
  result speaks of one run, whatever others left or do meanwhile.
* **A cluster that answers late or not at all.** Policies are programmed some
  time after the call, commands fail, objects of a killed run stay, counters
  belong to a node and not to a Pod. Correct: a verdict that was not earned is
  BLOCKED, never PASS; a guess is never reported as an answer.
* **Order of arrival.** Events, findings and process records come in any order.
  Correct: what is concluded does not depend on it, and more evidence never
  lowers a risk or hides a severity.
* **Two tables of one thing.** Engine and rule registry, offline report and its
  two judges, detector and what the policies permit. Correct: they agree.

`PROJECT.json` lists every hazard with its line, and the properties that would
catch it going wrong.

## 2. The modules

`ScenarioEvaluation` (pure operators) is extended by `ScenarioSchedule` and
`EvidencePipeline`. `EvidencePipeline` ends where `ArtifactPublication` begins;
`ArtifactPublication` implements the abstract `EvidenceLedger`, and
`ConcurrentPublication` is the same loop run by several processes.
`ValidationRun` takes one published manifest as a step and composes the run with
admission and scorecard. `EvidencePackage` reads what the pipeline published.

`RiskScoring` (pure) is extended by `IncidentCorrelation`; `IdentityFindings`
(pure) by `PrincipalAnalysis`, and its findings are the input of
`CrossDomainCorrelation`; `MetricsExporter` reads the file that `IncidentStore`
writes, and `DomainAnalysis` runs the two together. The `MC*` modules give constants their values and nothing else; the
`*Proofs` modules hold the theorems, each about the module it is named after and
the parts of that module.

Three modules compose. `EventAnalysis` puts what ThreatGuard makes of its events
side by side (detection, correlation, incident records, dossier, remediation,
package), `DomainAnalysis` the identity domain with the correlation, its store and
the exporter that reads it, `ClusterChecks` the four commands that question a
cluster. These parts hand each other results, but none writes what another reads
while it runs, with one exception: a scrape reads the store while incidents are
saved, and those two interleave. For the rest a behaviour chooses one part at the
start (`part`, `command`) and the others stay in their first state. That is the sum of the parts and not their product, and every
invariant is checked, and proved, of every behaviour of each part. The parts are
instances with constants of their own; what a part assumes of its constants is
assumed, under a name, by the module that composes it.

### Evidence

**ScenarioEvaluation** - `_scenario_events`, `events_in_window`,
`enforcement_observed`, `evaluate_scenario`. An event keeps its stamp, the rule
it triggers, whether it shows a kill, and the fixture's label; the detection
engine is a function of the event, so its verdict stands for paths, binaries and
addresses. Reasons are a set of names; their wording is left out.

**ScenarioSchedule** - the live loop of `run_simulations.sh`. `now` is the host
clock; an event is stamped up to `MaxSkew` away from it. `Launch`, `Step`,
`Finish`, `FinishBlocked`, `Resume` follow the loop body. Time is discrete; one
unit divides grace and pause.

**EvidencePipeline** - `run_pipeline` from the first collection to the exit
code. `Captured` is a collection with its evaluation, in one step because nothing
reads the stream in between; `Sleep`, `LeaveLoop` and `Recollect` are the loop;
`Publish` the override for a lost stream, the manifest and the exit code.
`Export` is the sensor: any line at any time.

**ArtifactPublication** - the publishing loop: `OpenTmp`, `FillTmp`, `Replace`
per artifact and directory in the code's order, `Crash` anywhere, and a reader
that takes its files in the exporter's or in the scorecard's order.

**EvidenceLedger** - what publication promises without files: an attempt is
archived, then becomes the current one; never backwards.

**ValidationRun** - the harness. Each action is a step, or a run of steps that
touch no evidence; steps that write or read shared files are split where another
process can come between: opening and filling the admission file, the package,
the scorecard's two reads. A manifest is reduced to run, mode, time, collector
status and whether the required scenarios passed. `Kill` interrupts a run
anywhere. Each run has a run id of its own; what repeated ids do is asked in
`ArtifactPublication`. `admissions` and `archive` record what each run found, to
compare with what the scorecard says of it.

**ConcurrentPublication** - the publishing loop again, for several pipelines at
once. A path leads to a file and a process holds the file, not the path, so
`Open` may truncate what another has open, `Write` may go into a file that has
been renamed, and `Replace` takes whatever is under the `.tmp` name, or raises.

**EvidencePackage** - `ForensicEvidenceCollector`: `_load_events` with its
fallback to the baseline, the capture, and seven files written in place while the
pipeline publishes; `Die` at any point. An item is its label and whether
`from_dict` accepts it; the content of a file is the events it is rendered from.

**MetricsExporter** - one scrape: the response begins, four artifacts and the
store are read one after the other, while each of them is rewritten. Without a
manifest its series remains, with an unknown origin and a collector that is not up;
events give series by the origin of those that a `RUNTIME-` rule names, and a report
by the origin of its runtime figures, if it has any; the store gives counts or
nothing.

**IncidentStore** - `load`, `create_from_cluster`, `update_status` and `save` by
processes that come one after the other or at once, and the counts of
`compute_snapshot`. `save` empties the file (`Truncate`) and fills it (`Fill`). A finding of two
incidents is counted for each of them: what is counted are pairs of both.

### Detection and correlation

**DetectionEngine** - `process_raw_event`, `ingest_file` and the registry.
Binaries, paths and function names are the classes that the matching tells
apart; `hole` is an optional record that is present and null. A rule whose
evidence reads it raises, and so does a line of JSON that is no object: `ingest_file`
ends there (`Broken`), and what it had detected stays.

**RiskScoring**, **IncidentCorrelation** - every factor, cap and tier of
`evaluate_workload`; `correlate_incidents` over a list that grows one event at a
time. A timestamp is a second and one of the three textual forms the code meets,
because they are sorted as text. Scores are counted in quarter points.

**WorkloadInvestigation** - processes fork and exit, pids are used again, rules
see some processes and their events arrive in any order; the filter of the
dossier and the tree built from its records. An event may name its parent's pid or
not (`told`; the code reads `metadata.ppid`, and its own engine writes none). A record
is known by its place among the arrivals, as the code's dictionaries know it by the
last one with its pid.

**IdentityFindings**, **PrincipalAnalysis** - the escalation detector, and beside
it a reference definition of what the policies permit; statements are attached
and detached between analyses.

**AttackGraph** - `add_node`, `add_edge` and the depth-first search of both
graphs, a recursive function over its calls, against a reference definition of the
simple paths.

**CrossDomainCorrelation** - the adapters, ingestion, `correlate`, the chain, the
risk and the incident of a cluster. An adapter stamps an event when it converts it,
whatever stamp the detection carried. Findings and events arrive in any order and
more than once; bindings are registered in between. The lists of the code are in
the order of ingestion, and so are the ids: a list is a set of events, and a
sequence only where the code sorts it. Scores are in tenths of a point.

**IncidentLifecycle** - `IncidentManager`: records with status and history, audit
log, repeated ids, refused changes; and the list of the command line, which is a
process with a state file of its own.

### Checks against a cluster

**AdmissionCheck** - both modes and the `validate` command. The Rego is a table of
the policies a manifest breaks; constraints and webhook change between two
manifests and commands fail.

**NetworkPolicyCheck** - canary, settle loop, matrix, verdict and cleanup, one
action per command, in a cluster that programs policies and removes objects late
(`Program`, `Gone`); the process may die and be run again over what it left. `failed`
records what a command of the run failed at: an object, an address, a connection.

**SensorDiagnosis** - the agent, the counters of each tracing policy before and
after, the probes, the stream, the verdict; other Pods move the counters, agents
restart, exports are late or lost. As in the code, only the policies whose counter
rose count: the restart of an agent hides the rise of one and not of another.

**LiveVerification** - the checks of `verify --live` in their order, each of which
may meet something missing, too little or unwell, or a warning beside the answer; an
answer of OPA that is JSON of another type ends the command with a traceback, and with
the exit code of a failure.

**Remediation** - the lookups of the owner of a Pod one by one, each of which may
fail; the offline inference from the name, as classes of its segments; the
playbook, its notice and its execution.

## 3. The runs

| Run | Question | Bounds |
|---|---|---|
| `schedule` | `AttributionExact` and `WindowsDisjoint`, under the documented tolerance | 3 scenarios (a neighbour on each side), one event each, skew and grace 1, pause 3, clock to 9 |
| `pipeline` | agreement of verdicts, evidence and exit code; bounded waiting; stability of passes; termination | a blocked, a detected and a benign scenario; 7 kinds of line; 4 lines exported, tail of 3, so that it overflows; waiting 3, so that the loop turns twice |
| `publication` | commit order, archive before publication, what a reader may pair, refinement of the ledger; `ArchiveImmutable` for run ids used once | 3 attempts, each of which may die anywhere: files of three ages side by side |
| `validation` | `LiveAcceptanceIsOneRun` while runs overwrite each other's files; `PassedVerdictIsOwn` of every run that nobody disturbed | 2 runs, one after the other or at once, each live or demo; age limit 0 and a clock to 1, so that evidence can be stale |
| `concurrent_publication` | what stays whole while pipelines publish at once: archives always, and each published artifact when all exits are clean (the set may be of several attempts) | 3 pipelines (one can take the name two others fight over), 2 artifacts (the manifest and one before it), any death |
| `event_analysis` | the six parts that analyse events, see below | see below |
| `cross_domain` | the identity domain, see below | see below |
| `cluster_checks` | the four commands, see below | see below |

| Property | What it says | Bounds |
|---|---|---|
| `RulesAgree` | engine and registry match alike, and the engine raises only where the record its evidence reads is null; an exec and its hooked `execve` are judged alike | every pair of 30 events |
| `IngestLosesNothing` | each line read gives what it gives alone; a line that raises costs the lines after it and none before, and nothing else costs any | every file of up to 3 of 6 lines |
| `IncidentsFaithful` | no event is lost or doubled, order of arrival does not show, every point of a score has a contributor | every list of up to 4 of 7 events, 3 specifications |
| `EvidenceNeverDiscounted` | a further event never lowers a score by more than a burst | the same |
| `HistoryIsAChain`, `AuditTellsHistory` | record, history and audit log tell one story | 2 ids, 4 audit entries: a repeated id with changes before and after |
| `TreeIsReal` | records in order: one that names its parent's pid hangs under its parent, however often a pid is used again, and under a stranger only if the parent left no record; one that does not, under the entrypoint | 3 processes over 2 pids, 2 Pods, each naming its parent's pid or not |
| `PlaybookGrounded` | a command names the controller the cluster confirmed, and where only the second lookup failed or found no Deployment the ReplicaSet's name without its hash; a failed first lookup degrades to offline, capture comes first, the notice has a reason | 12 Pods of every controller, any lookup fails |
| `PackageHonest` | a package that was finished is whole; no event becomes live | 2 packages, 5 kinds of input replaced at any time |
| `EvidenceSurvives`, `ChainIsCausal` | runtime evidence is never lost, the findings of an incident are the events of its cluster, no more and no less, each with its source's severity; chains are causal | 3 events, each converted at either of two times, 2 bindings, 1 incident |
| `EvidenceNeverLowersRisk` | what arrives between two correlations never lowers a risk | the same |
| `ExactOnLiteralPolicies` | the detector is exact on policies of literal actions | every set of 7 statements, edited between analyses |
| `PathsAreTheSimplePaths` | the search finds the simple paths, all of them and no other | every graph of 3 edges on 4 nodes, depth 2 so that it cuts |
| `StoreSound` | saved incidents accumulate while the store can be read, whatever dies; the counts agree with each other | 3 incidents, one process at a time |
| `ScrapeIsHonest` | no series of an artifact that is not called valid, but for the manifest's; what is shown as live, or demo, is exactly what was read as such in that artifact | 1 rewrite and 1 saved incident, between any two reads |
| `SuccessIsEnforcement` | success means that every manifest met a policy that it breaks, in both modes, each at its own moment | 3 policies, 4 manifests, 2 faults |
| `SoundVerdict` | the verdict on a network policy is about traffic, in a run that began with nothing and where no connection failed but for the traffic, whatever other command failed | 2 runs, 1 fault, 2 tries of 5 |
| `PassLeavesNothing` | a run that passes leaves nothing, not even what an earlier one left, but what its own apply or delete failed at | the same |
| `DiagnosisIsOfThePod` | exact when nothing else happens and the agent asked is the one on the Pod's node; a gap is about this Pod unless a stranger moved the counters | 2 nodes, 2 probes, 2 interchangeable policies (`PolicySymmetry`), 2 troubles; the agents start with counters at 0, or all at 1, so that a restart lowers them |
| `ZeroIsHealthy` | as long as no command prints a warning, exit code 0 is exactly "all asked, all well"; what is missing never passes | 3 troubles among 11 checks |

`AnalysisTypes` and `DomainTypes` are the type invariants of the composed
modules; those of the others no run asks for, because they are proved.

Why these are enough: attribution relates a scenario to its neighbours only, and
the proofs below remove the bounds on scenarios, times, attempts, runs, pipelines
and incidents. A third run adds nothing to what two can leave behind for it: the
scorecard compares the run ids of two files, and a file of any other run differs
alike. The bounded lists of the pure algorithms hold a member of each class that
the code tells apart, and two of a class where it compares members. The checks
against a cluster are bounded by faults and not by steps: each disagreement below
needs one or two. Where a run has `CHECK_DEADLOCK FALSE`, the program stops: the
loop ends, a command exits, all runs are over. Publication, for one, has a reader
that never stops.

Four runs end in a violation. Each checks one sentence of the repository against
the code (quoted, with its line, under "findings" in `PROJECT.json`):

| Run | What the text says | What the code does |
|---|---|---|
| `validation_real` | every step passed against real evidence | a live run beside a demo run says so after validating the demo's manifest |
| `concurrent_torn` | published atomically | a second pipeline truncates the `.tmp` file that the first then renames |
| `network_transient` | BLOCKED rather than a false pass | one failed connection counts as enforcement |
| `domain_order` | sorted chronologically | sorted by the time of conversion: the adapter drops the detection's own |

The modules state further sentences of the repository, quoted where they are
defined, that the code does not keep. No run asks them; TLC finds each false in a
few steps when it is named as a property of the run that holds its module. Four need
constants that show the case: two processes in `Procs` for `Accumulates`, a run id used twice for
`ArchiveOfOneAttempt`, a manifest that `PolicyOf` does not name for
`EveryNegativeEvaluated`, and a Pod whose name contains the other's in `Matching` for
`OnlyThisWorkload`.

| Module | Statement | What the code does |
|---|---|---|
| `ScenarioSchedule` | `SkewTolerated` | the capture starts without the grace: an event of the first scenario stamped slightly early is never collected |
| | `BlockedMeansNotRun` | a step inside the Pod may return 127 too; its events are ignored |
| | `TimeoutRespected` | nothing uses `timeout_seconds` |
| `ArtifactPublication` | `PublishedAtomically` | each file is, the set is not |
| | `ArchiveOfOneAttempt` | a repeated run id overwrites the archive file by file |
| `ValidationRun` | `SkippedNeverPasses` | step 9 passes on the manifest of an earlier run; the run as a whole is BLOCKED |
| `EvidencePackage` | `OneSource` | real events and the baseline in one package |
| | `AccessibleCaptured` | nothing in a new directory, and silently |
| `MetricsExporter` | `ScrapeAnswers` | a torn store ends the scrape with no series at all |
| `IncidentStore` | `Accumulates` | of two processes at once one loses its incident |
| `DetectionEngine` | `DisabledRuleIsSilent` | the engine still reports it |
| | `NoUnhandledException` | a null parent record raises, and ends `ingest_file` |
| `IncidentCorrelation` | `BurstIsABurst` | first and last of the list, in any order |
| | `TierAsCommented` | tiers from 35, 65, 85 |
| | `WithinWindow` | the window is ignored |
| | `TimelineChronological` | sorted as text |
| `WorkloadInvestigation` | `ArrivalIrrelevant` | records are taken as they arrive |
| | `NoStrangerAsParent` | the last record with the parent's pid, alive or not, when the parent left none |
| | `OnlyThisWorkload` | every name that contains the Pod's name |
| | `TreeHasLevels` | an event that names no parent's pid hangs under the entrypoint, and the engine writes none |
| `PrincipalAnalysis` | `FindingsAreEffective` | Deny is not read |
| | `VectorsFound` | `iam:*` matches none |
| `CrossDomainCorrelation` | `NothingTwice` | deduplication is by an id that is new at each conversion |
| | `NamespaceRespected` | the namespace is not compared |
| | `IsolationTargetsPod` | in a constant namespace |
| | `EscalationWeighed` | `AttachRolePolicy` weighs 25 and not 35 |
| | `AmplifierNeedsRuntime` | a denied admission is enough |
| `IncidentLifecycle` | `TransitionsPermitted` | any status after any other |
| | `CreatedIncidentsKept` | a repeated id replaces the incident |
| | `ListShowsIncidents` | nothing writes the file it lists |
| `AdmissionCheck` | `VerdictsAgree` | one command passes what the other fails |
| | `EveryNegativeEvaluated` | a manifest that the table does not list is passed over |
| `NetworkPolicyCheck` | `EveryClaimTried` | a denial is left out when its address cannot be read |
| | `BaselineBeforePolicy` | a killed run leaves its policy |
| | `FailIsReal` | the matrix does not wait for policies to settle |
| `SensorDiagnosis` | `GapMeansUnexported` | another Pod moved the counters |
| | `InconclusiveMeansUntriggered` | the probe triggered it, on another node |
| `LiveVerification` | `CountsAreObjects` | a warning is counted as an object |
| | `MissingIsBlocked` | missing TracingPolicies FAIL |
| `Remediation` | `FallbackAnnounced` | the second lookup falls back silently |
| | `AtMostTwoLookups` | four |
| | `NoDeploymentInvented` | guessed from the name when the ReplicaSet has another owner |
| | `MethodRecorded` | `live_api` for a guess |
| | `NoCommandForJobs` | the Pod of a CronJob has the shape of a Deployment's |
| | `ApplyExecutes` | nothing is executed |

**Fairness.** Only `EvidencePipeline` has any: `WF_vars(Pipeline)`. The process is
sequential, every `kubectl` call has a 60 s timeout (`collector.py:34-41`) and
`sleep` returns, so it always gets on; `Terminates` needs no more. The sensor gets no fairness: it need not
export anything. The scenario loop gets none either, because nothing bounds a
scenario. No other part loops: a check makes its commands once and ends.

## 4. The proofs

TLAPS proves the following for all values of the constants.

* **ScenarioScheduleProofs**: `ScheduleInv` is inductive. Every event is stamped
  within `MaxSkew` of its scenario's interval (`EventBounds`), recorded intervals
  are a pause apart (`LineBounds`), the phase tells how many lines there are
  (`PhaseBounds`). `WindowsDisjoint` and `AttributionExact` follow by arithmetic.
  Attribution alone is not inductive: it says nothing of the running scenario.
* **EvidencePipelineProofs**: in the loop the outcomes are the evaluation of the
  events held (`EvaluatedFromEvents`), publication is reached only by a lost
  stream, in demo mode or with the loop's condition false (`LeftForAReason`), and
  what was visible still is, until the tail overflows (`StillVisible`). From
  these: the type invariant, `PassedIsBacked`, `LostStreamConfirmsNothing`,
  `ExitMatchesManifest`, `FailedOnlyAfterFullWait`, and, with the monotonicity of
  the evaluation of attack scenarios (`AttackMonotone`), `AttackPassIsStable`.
* **ArtifactPublicationProofs**: `PublicationInv` and `ReaderInv` are inductive
  for every assignment of run ids; with `UniqueRunIds` publication implements the
  ledger, step by step: replacing the archived manifest is `Archive`, replacing
  the published one is `Commit`, everything else stutters.
  `ArchiveInv` adds what the directories of runs hold: `ArchiveImmutable` and that
  each is of one attempt (`ArchivesAreOfOneAttempt`), under `UniqueRunIds`.
* **ValidationRunProofs**: a run writes its admission results and its manifest
  once (`WrittenOnce`), so a file that names a run is what that run wrote
  (`Owned`, `ManifestOwned`), and the scorecard accepts two files only when they
  name the same run: `LiveAcceptanceIsOneRun`, for any number of overlapping runs.
  A run that no other has overlapped since it began (`disturbed` records the rest) is
  alone (`Alone`, `StaysAlone`), so what it wrote is what it reads back (`Progress`):
  `PassedVerdictIsOwn`, for any number of undisturbed and disturbed runs.
* **ConcurrentPublicationProofs**: for any number of pipelines at once, each with
  a run id of its own, `ArchiveIsOwn`: the directory of a run holds only what that
  run wrote, whole, and everything once it has ended. The invariant follows the
  files and not the names: what a pipeline holds was created under the name it is
  at (`InHand`), the shared `.tmp` names only ever lead to files created there
  (`Shared`), so nobody else's write reaches an archived file (`Own`).
  Nothing keeps the pipelines apart in the directory they share, so the invariant
  there (`OutInv`) is that of every name one of three things holds: somebody has
  failed, the name is muddled and somebody will fail over it, or it is orderly. Once
  all have ended well only the last is left: `CleanExitsLeaveWhole`.
* **ClusterChecksProofs**: one inductive invariant for each command
  (`AdmissionInv`, `VerifyInv`, `SensorInv`, `NetworkInv`), left alone by the steps
  of the others. The last one says that what a run applied and is alive it will
  remove, but what a command of it failed at (`HeldInv`); that in a run which began
  with nothing only what it applied is alive, and all of that without which it would
  be BLOCKED (`FreshInv`); that the canary policy stopped traffic, if no connection
  failed (`EnforceInv`), which cases
  were tried (`TriedInv`) and that what was recorded of them still holds
  (`RecordedInv`): a verdict is sound only by all of these together.
* **EventAnalysisProofs**: for the records of `IncidentManager` the types,
  `HistoryIsAChain` and, by giving each audit line its rank among those of its
  incident, `AuditTellsHistory`; then an invariant for each further part
  (`JudgedInv`, `IngestInv`, `ProcessInv`, `PackageInv`, `RemedyInv`). The
  incidents and scores need no more than that the collected events are distinct
  (`CollectedInv`), but their definitions do: the library's sum is recursive over a
  set, and is shown to be the number of units (`SumIsCount`: the number solves the
  recursion, and a second solution would differ first at a set of least size); the
  rank of an event in its workload is a bijection (`GroupFacts`), so no event is lost
  or doubled, and a permutation of the list only moves the places
  (`ArrivalDoesNotShow`). Every point but those of a burst grows with the events
  (`ScoreGrows`): `EvidenceNeverDiscounted`.
* **DomainAnalysisProofs**: `CorrelationInv` says that an event's id is its place
  and that a cluster is what the last `correlate` made of the bindings and events of
  that time: nothing is lost (`EvidenceSurvives`), the risk of a binding does not
  fall (`EvidenceNeverLowersRisk`), and the chain, joined from its sorted parts, is
  causal (`ChainIsCausal`). `PrincipalInv` makes the detector exact on literal
  policies. `StoredInv`, `SavedInv` and `ContentInv`, with buckets that share no
  finding, give `StoreSound`, `ScrapeInv` gives `ScrapeIsHonest`. The depth-first
  search is a recursive function of its calls; the simple paths that go on from each
  call solve its recursion, and of the calls where it answered otherwise the one with
  the longest path would have another below it: `PathsAreTheSimplePaths`.

Assumptions. Those on constants are named in the modules: `ScheduleAssumption`,
`PipelineAssumption`, `PublicationAssumption`, `ConcurrentAssumption`,
`ValidationAssumption`, `LifecycleAssumption`, `CheckAssumptions`,
`AnalysisAssumptions`, `DomainAssumptions`, `CrossDomainAssumption`. They give types
and finiteness, that a missing or torn file is no record, that the weights of the
score are not negative and that a domain score is at most 1000. Every run evaluates
those of its modules. Single theorems have hypotheses of their own:

| hypothesis | in | why |
|---|---|---|
| `UniqueRunIds` | the ledger, the archives, concurrent publication | a run id is random (`run-security-validation.sh:45`); one used twice writes an archive again |
| `Pipelines # {}` | `CleanExitsLeaveWhole` | somebody has published |
| `OneAtATime` | `StoreSound` | overlapping processes lose incidents, and no lock says otherwise |
| `CriticalScores` | `EvidenceSurvives` | `escalation.py:43-68` and `tg_adapter.py:33` give a critical score to critical findings alone |
| `HitsAreSevere` | `EvidenceNeverLowersRisk` | the same lines: an escalation scores 700 or more, a wildcard 850 |

`MCDomainAnalysis` asserts the last two of its findings and detections.

Some properties carry a condition in their own formula, and say nothing where it
fails; for all but the first, the statement without it is among those above that the
code does not keep:

| condition | in | without it |
|---|---|---|
| a grace below half the pause | `WindowsDisjoint` | a shorter pause lets windows overlap, and the script accepts one |
| `fresh`, no failed connection | `SoundVerdict` | `BaselineBeforePolicy`, `VerdictNeedsEnforcement` |
| no warning printed | `ZeroIsHealthy` | `CountsAreObjects` |
| the agent on the Pod's node, nothing else happens | `ExactWhenQuiet` | `InconclusiveMeansUntriggered`, `GapMeansUnexported` |
| records in order | `TreeIsReal` | `ArrivalIrrelevant` |
| policies that only allow, and name their actions | `ExactOnLiteralPolicies` | `FindingsAreEffective`, `VectorsFound` |

Of what the passing runs check, all but `Terminates` is proved; liveness is outside
what TLAPS proves here and stays with TLC. The four runs that end in a violation
show a behaviour, which needs no proof.

## 5. What is not modelled, and why

* Wording and layout: reasons, reports, titles, `attack_chain.py`, the sections of
  the exporter that copy numbers. No property is about them.
* `runtime/events.py` holds data classes; the modules keep the fields that verdicts
  depend on, and `EvidencePackage` whether a conversion raises. Parsing and
  redaction of an event in `collector.py` are likewise the class of the line.
* The severity and coverage counts of the scorecard, the connections, files and
  posture of a dossier, the local checks of `verify`, the MITRE table and the other
  commands of `cli/main.py`: each copies or looks up, and shares no state.
* The unused lookups of the identity registry, and CloudGraphGuard's ingestion,
  which documents name and no code implements.
* Host clock steps, a network file system, and signals other than death. A write
  of a payload is one step in `ConcurrentPublication` and two elsewhere.
* Rego policies, Kubernetes and Grafana configuration and the scripts that apply
  them: their state is the cluster's. `AdmissionCheck` has the table of what each
  manifest breaks.

Ten hazards have no property, each with its reason in `PROJECT.json`. For five of
them the code does not keep the statement that excludes them: nothing bounds a
scenario (`run_simulations.sh:82`); two demonstrations that save at once lose an
incident (`deterministic_demo.py:174`); a Deny or a service wildcard is read wrongly
(`escalation.py:35`); a store torn by a kill ends every later load
(`incident.py:274`); a run id set from outside and used twice overwrites an archive
(`pipeline.py:295`). The others the code meets as it is written, and no text of the
repository says otherwise: a pause of less than twice the grace
(`run_simulations.sh:38`), a kill that an earlier failing step hides (`_common.sh:38`), a
false alert on the benign control that arrives after the loop has ended
(`pipeline.py:236`), a burst that a late event ends (`risk.py:216`), and a package
whose collector was killed (`evidence.py:82`).

What would come next: a refinement of `IncidentStore` to an abstract register of
incidents, and the scenario results file under two orchestrators.
