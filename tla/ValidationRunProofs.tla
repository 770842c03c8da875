-------------------------- MODULE ValidationRunProofs ---------------------------
(***************************************************************************)
(* Proofs about ValidationRun for any number of runs, any age limit and    *)
(* any mixture of modes.                                                   *)
(*                                                                         *)
(* Live acceptance, with overlapping runs: a run writes its admission      *)
(* results and its manifest once (WrittenOnce), so a file that names a run *)
(* is what that run wrote (Owned, ManifestOwned), whoever overwrites what; *)
(* the scorecard accepts only two files that name the same run.            *)
(*                                                                         *)
(* The PASSED summary of a run that no other run overlapped: it is alone,  *)
(* so what it wrote is still there when it is read back (Progress).        *)
(***************************************************************************)
EXTENDS ValidationRun, TLAPS

USE ValidationAssumption

\* Admission results that name a run are what its admission check found.
Owned(f) ==
  \/ f \in {Absent, Torn}
  \/ /\ f \in Admissions /\ f = admissions[f.run]
     /\ f.mode = "live" => mode[f.run] = "live"

\* So is the manifest, which is also as PipelineManifests makes it.
ManifestOwned ==
  \/ manifest = Absent
  \/ /\ manifest \in Manifests /\ manifest = archive[manifest.run]
     /\ manifest.mode = mode[manifest.run]
     /\ manifest.required = "passed" => manifest.collector # "silent"
     /\ manifest.collector = "not_applicable" <=> manifest.mode = "demo"

\* A run writes neither before its step, and pc does not go back.
WrittenOnce ==
  \A r \in Runs : /\ pc[r] < 5 => admissions[r] = Absent
                  /\ pc[r] < 8 => archive[r] = Absent

AcceptanceInv ==
  /\ TypeOK /\ WrittenOnce
  /\ Owned(admission) /\ \A r \in Runs : Owned(held[r])
  /\ ManifestOwned
  /\ LiveAcceptanceIsOneRun

\* The steps that leave every shared file alone; a run may drop what it held, or hold
\* the admission results that are there.
Quiet ==
  /\ UNCHANGED <<mode, admission, manifest, report, admissions, archive>>
  /\ \A r \in Runs : pc'[r] >= pc[r] /\ held'[r] \in {held[r], Absent, admission}

LEMMA QuietInv ==
  ASSUME AcceptanceInv, TypeOK', Quiet
  PROVE  AcceptanceInv'
<1>1. WrittenOnce'
  BY DEF AcceptanceInv, WrittenOnce, Quiet, TypeOK
<1>2. Owned(admission)' /\ \A r \in Runs : Owned(held[r])'
  BY DEF AcceptanceInv, Quiet, Owned
<1>3. ManifestOwned'
  BY DEF AcceptanceInv, Quiet, ManifestOwned
<1>4. LiveAcceptanceIsOneRun'
  BY DEF AcceptanceInv, Quiet, LiveAcceptanceIsOneRun, LiveAccepted
<1> QED
  BY <1>1, <1>2, <1>3, <1>4 DEF AcceptanceInv

\* The actions that are quiet, but for Tick.
QuietActions(r) ==
  \/ Begin(r) \/ Kill(r) \/ Prerequisites(r)
  \/ \E deploy, tetragon \in Results : Deployment(r, deploy, tetragon)
  \/ \E result \in {"PASS", "FAIL"} : Metrics(r, result)
  \/ AdmissionUnavailable(r) \/ SimulationsSkipped(r)
  \/ \E rc \in {1, 2} : SimulationsWithoutEvidence(r, rc)
  \/ Telemetry(r) \/ Detection(r)
  \/ Evidence(r) \/ EvidenceFails(r) \/ ScorecardReadsAdmission(r) \/ Finish(r)

\* Where a run goes on: forward.
LEMMA GoToType ==
  ASSUME TypeOK, NEW r \in Runs, NEW n \in 0 .. Summary, NEW k \in 0 .. 2,
         GoTo(r, n, k), pc[r] <= n
  PROVE  /\ pc' \in [Runs -> 0 .. Summary] /\ sub' \in [Runs -> 0 .. 2]
         /\ \A q \in Runs : pc'[q] >= pc[q]
  BY DEF TypeOK, GoTo, Summary

\* record keeps to runs.
LEMMA RecordType ==
  ASSUME TypeOK, NEW r \in Runs, NEW results, RecordAll(r, results)
  PROVE  failed' \subseteq Runs /\ blocked' \subseteq Runs
  BY DEF TypeOK, RecordAll

\* A step that goes on to a later place, records a result, and touches no file.
LEMMA PlainStep ==
  ASSUME TypeOK, NEW r \in Runs, NEW n \in 0 .. Summary, NEW k \in 0 .. 2,
         GoTo(r, n, k), pc[r] <= n, NEW results, RecordAll(r, results),
         UNCHANGED <<now, mode, disturbed, ended, fileVars>>,
         skipped' \subseteq Runs, validated' \in [Runs -> Runs \cup {NoRun}]
  PROVE  TypeOK' /\ Quiet
<1>1. /\ pc' \in [Runs -> 0 .. Summary] /\ sub' \in [Runs -> 0 .. 2]
      /\ \A q \in Runs : pc'[q] >= pc[q]
  BY GoToType
<1>2. failed' \subseteq Runs /\ blocked' \subseteq Runs
  BY RecordType
<1> QED
  BY <1>1, <1>2 DEF TypeOK, Quiet, fileVars

\* Leaving takes the run to its end and out of every set.
LEMMA LeaveStep ==
  ASSUME TypeOK, NEW r \in Runs, Leave(r),
         UNCHANGED <<now, mode, admission, manifest, report, admissions, archive>>
  PROVE  TypeOK' /\ Quiet
  BY DEF TypeOK, Quiet, Leave, Summary

LEMMA QuietStep ==
  ASSUME TypeOK, NEW r \in Runs, QuietActions(r)
  PROVE  TypeOK' /\ Quiet
<1> USE DEF Record, AtStep, harnessVars, fileVars
<1>1. CASE Begin(r)
  BY <1>1 DEF Begin, TypeOK, Quiet, Summary
<1>2. CASE Kill(r)
  BY <1>2, LeaveStep DEF Kill
<1>3. CASE Prerequisites(r)
  <2>1. /\ pc[r] = 1 /\ UNCHANGED <<now, mode, disturbed, ended, skipped, validated, fileVars>>
        /\ \E n \in {4, Summary}, result \in Results : GoTo(r, n, 0) /\ RecordAll(r, {result})
    BY <1>3 DEF Prerequisites, Results
  <2>2. PICK n \in {4, Summary}, result \in Results : GoTo(r, n, 0) /\ RecordAll(r, {result})
    BY <2>1
  <2>3. n \in 0 .. Summary /\ pc[r] <= n
    BY <2>1 DEF Summary
  <2> QED
    BY <2>1, <2>2, <2>3, PlainStep DEF TypeOK
<1>4. CASE \E deploy, tetragon \in Results : Deployment(r, deploy, tetragon)
  <2>1. PICK deploy \in Results, tetragon \in Results : Deployment(r, deploy, tetragon)
    BY <1>4
  <2>2. /\ pc[r] = 5 /\ UNCHANGED <<now, mode, disturbed, ended, skipped, validated, fileVars>>
        /\ GoTo(r, 7, 0) /\ RecordAll(r, {deploy, tetragon})
    BY <2>1 DEF Deployment
  <2> QED
    BY <2>2, PlainStep DEF TypeOK, Summary
<1>5. CASE \E result \in {"PASS", "FAIL"} : Metrics(r, result)
  <2>1. PICK result \in {"PASS", "FAIL"} : Metrics(r, result)
    BY <1>5
  <2>2. /\ pc[r] = 10 /\ UNCHANGED <<now, mode, disturbed, ended, skipped, validated, fileVars>>
        /\ GoTo(r, 11, 0) /\ RecordAll(r, {result})
    BY <2>1 DEF Metrics, LastStep
  <2> QED
    BY <2>2, PlainStep DEF TypeOK, Summary
<1>6. CASE AdmissionUnavailable(r)
  <2>1. PICK result \in {"BLOCKED", "FAIL"} :
          /\ pc[r] = 4 /\ UNCHANGED <<now, mode, disturbed, ended, skipped, validated, fileVars>>
          /\ GoTo(r, 5, 0) /\ RecordAll(r, {result})
    BY <1>6 DEF AdmissionUnavailable
  <2> QED
    BY <2>1, PlainStep DEF TypeOK, Summary
<1>7. CASE SimulationsSkipped(r)
  <2>1. /\ pc[r] = 7 /\ UNCHANGED <<now, mode, disturbed, ended, validated, fileVars>>
        /\ GoTo(r, 8, 0) /\ RecordAll(r, {"BLOCKED"}) /\ skipped' = skipped \cup {r}
    BY <1>7 DEF SimulationsSkipped
  <2>2. skipped' \subseteq Runs
    BY <2>1 DEF TypeOK
  <2> QED
    BY <2>1, <2>2, PlainStep DEF TypeOK, Summary
<1>8. CASE \E rc \in {1, 2} : SimulationsWithoutEvidence(r, rc)
  <2>1. PICK rc \in {1, 2} : SimulationsWithoutEvidence(r, rc)
    BY <1>8
  <2>2. /\ pc[r] = 7 /\ UNCHANGED <<now, mode, disturbed, ended, skipped, validated, fileVars>>
        /\ GoTo(r, 8, 0) /\ RecordAll(r, {ResultOf(rc)})
    BY <2>1 DEF SimulationsWithoutEvidence, SimulationsAllowed
  <2> QED
    BY <2>2, PlainStep DEF TypeOK, Summary
<1>9. CASE Telemetry(r)
  <2>1. PICK result \in Results :
          /\ pc[r] = 8 /\ UNCHANGED <<now, mode, disturbed, ended, skipped, validated, fileVars>>
          /\ GoTo(r, 9, 0) /\ RecordAll(r, {result})
    BY <1>9 DEF Telemetry, Results
  <2> QED
    BY <2>1, PlainStep DEF TypeOK, Summary
<1>10. CASE Detection(r)
  <2>1. PICK result \in Results :
          /\ pc[r] = 9 /\ UNCHANGED <<now, mode, disturbed, ended, skipped, fileVars>>
          /\ GoTo(r, 10, 0) /\ RecordAll(r, {result})
          /\ result = "PASS" => manifest # Absent
          /\ validated' = [validated EXCEPT ![r] = IF result = "PASS" THEN manifest.run ELSE NoRun]
    BY <1>10 DEF Detection, Results
  <2>2. validated' \in [Runs -> Runs \cup {NoRun}]
    BY <2>1 DEF TypeOK, Manifests
  <2> QED
    BY <2>1, <2>2, PlainStep DEF TypeOK, Summary
<1>11. CASE Evidence(r)
  <2>1. /\ pc[r] = 11 /\ GoTo(r, 11, 1)
        /\ UNCHANGED <<now, mode, disturbed, ended, failed, blocked, skipped, validated, fileVars>>
    BY <1>11 DEF Evidence, LastStep
  <2>2. RecordAll(r, {"PASS"})
    BY <2>1 DEF RecordAll
  <2> QED
    BY <2>1, <2>2, PlainStep DEF TypeOK, Summary
<1>12. CASE EvidenceFails(r)
  <2>1. /\ pc[r] = 11 /\ GoTo(r, Summary, 0) /\ RecordAll(r, {"FAIL"})
        /\ UNCHANGED <<now, mode, disturbed, ended, skipped, validated, fileVars>>
    BY <1>12 DEF EvidenceFails, LastStep
  <2> QED
    BY <2>1, PlainStep DEF TypeOK, Summary
<1>13. CASE ScorecardReadsAdmission(r)
  BY <1>13 DEF ScorecardReadsAdmission, GoTo, TypeOK, Quiet, Summary, LastStep
<1>14. CASE Finish(r)
  BY <1>14, LeaveStep DEF Finish
<1> QED
  BY <1>1, <1>2, <1>3, <1>4, <1>5, <1>6, <1>7, <1>8, <1>9, <1>10, <1>11, <1>12, <1>13, <1>14
  DEF QuietActions
---------------------------------------------------------------------------------
(* The steps that write a shared file *)

\* A file that is open for writing names nobody.
LEMMA AdmissionOpenInv ==
  ASSUME AcceptanceInv, NEW r \in Runs, AdmissionOpen(r)
  PROVE  AcceptanceInv'
<1>1. /\ pc[r] = 4 /\ GoTo(r, 4, 1) /\ admission' = Torn
      /\ UNCHANGED <<now, mode, disturbed, ended, failed, blocked, skipped, validated,
                     manifest, report, held, admissions, archive>>
  BY DEF AdmissionOpen, AtStep
<1>2. TypeOK'
  BY <1>1 DEF AcceptanceInv, TypeOK, GoTo, Summary
<1>3. WrittenOnce'
  BY <1>1 DEF AcceptanceInv, TypeOK, WrittenOnce, GoTo
<1>4. Owned(admission)' /\ \A q \in Runs : Owned(held[q])'
  BY <1>1 DEF AcceptanceInv, Owned
<1>5. ManifestOwned'
  BY <1>1 DEF AcceptanceInv, ManifestOwned
<1>6. LiveAcceptanceIsOneRun'
  BY <1>1 DEF AcceptanceInv, LiveAcceptanceIsOneRun, LiveAccepted
<1> QED
  BY <1>2, <1>3, <1>4, <1>5, <1>6 DEF AcceptanceInv

\* The run has no results before, so no file that names it can change its meaning.
LEMMA AdmissionWriteInv ==
  ASSUME AcceptanceInv, NEW r \in Runs, NEW status \in {"PASS", "FAIL"},
         AdmissionWrite(r, status)
  PROVE  AcceptanceInv'
<1> DEFINE found == [run |-> r, mode |-> IF mode[r] = "live" THEN "live" ELSE "offline",
                     status |-> status]
<1>1. /\ pc[r] = 4 /\ GoTo(r, 5, 0) /\ RecordAll(r, {status})
      /\ admissions' = [admissions EXCEPT ![r] = found] /\ admission' \in {admissions'[r], Torn}
      /\ UNCHANGED <<now, mode, disturbed, ended, skipped, validated, manifest, report, held, archive>>
  BY DEF AdmissionWrite, AtStep, Record
<1>2. found \in Admissions /\ found.run = r /\ (found.mode = "live" => mode[r] = "live")
  BY DEF Admissions
<1> HIDE DEF found
<1>3. /\ admissions'[r] = found /\ admissions[r] = Absent
      /\ \A q \in Runs : q # r => admissions'[q] = admissions[q]
  BY <1>1 DEF AcceptanceInv, TypeOK, WrittenOnce
<1>4. TypeOK'
  <2>1. pc' \in [Runs -> 0 .. Summary] /\ sub' \in [Runs -> 0 .. 2]
    BY <1>1, GoToType DEF AcceptanceInv, TypeOK, Summary
  <2>2. failed' \subseteq Runs /\ blocked' \subseteq Runs
    BY <1>1, RecordType DEF AcceptanceInv
  <2>3. admission' \in Admissions \cup {Absent, Torn} /\ admissions' \in [Runs -> Admissions \cup {Absent}]
    BY <1>1, <1>2, <1>3 DEF AcceptanceInv, TypeOK
  <2> QED
    BY <1>1, <2>1, <2>2, <2>3 DEF AcceptanceInv, TypeOK
<1>5. WrittenOnce'
  BY <1>1, <1>3 DEF AcceptanceInv, TypeOK, WrittenOnce, GoTo
<1>6. ASSUME NEW f, Owned(f), f' = f PROVE Owned(f)'
  <2>1. CASE f \in {Absent, Torn}
    BY <1>6, <2>1 DEF Owned
  <2>2. CASE f \notin {Absent, Torn}
    <3>1. f \in Admissions /\ f.run \in Runs /\ f = admissions[f.run]
      BY <1>6, <2>2 DEF Owned, Admissions
    <3>2. f.run # r
      BY <1>3, <2>2, <3>1
    <3> QED
      BY <1>1, <1>3, <1>6, <2>2, <3>1, <3>2 DEF Owned
  <2> QED
    BY <2>1, <2>2
<1>7. Owned(admission)'
  BY <1>1, <1>2, <1>3 DEF Owned
<1>8. \A q \in Runs : Owned(held[q])'
  BY <1>1, <1>6 DEF AcceptanceInv
<1>9. ManifestOwned'
  BY <1>1 DEF AcceptanceInv, ManifestOwned
<1>10. LiveAcceptanceIsOneRun'
  <2>1. SUFFICES ASSUME LiveAccepted
                 PROVE  /\ report.run \in Runs /\ mode[report.run] = "live"
                        /\ admissions'[report.run] # Absent
                        /\ admissions'[report.run].status = "PASS"
                        /\ admissions'[report.run].mode = "live"
                        /\ archive[report.run] # Absent /\ archive[report.run].required = "passed"
                        /\ archive[report.run].collector = "ok"
                        /\ report.at - archive[report.run].at <= MaxAge
    BY <1>1 DEF LiveAcceptanceIsOneRun, LiveAccepted
  <2>2. report.run \in Runs /\ report.run # r
    BY <1>3, <2>1 DEF AcceptanceInv, LiveAcceptanceIsOneRun
  <2> QED
    BY <1>3, <2>1, <2>2 DEF AcceptanceInv, LiveAcceptanceIsOneRun
<1> QED
  BY <1>4, <1>5, <1>7, <1>8, <1>9, <1>10 DEF AcceptanceInv

\* The same for the manifest.
LEMMA SimulationsInv ==
  ASSUME AcceptanceInv, NEW r \in Runs, NEW m \in PipelineManifests(r), Simulations(r, m)
  PROVE  AcceptanceInv'
<1>1. /\ pc[r] = 7 /\ GoTo(r, 8, 0) /\ RecordAll(r, {ResultOf(SimulationExit(m))})
      /\ manifest' = m /\ archive' = [archive EXCEPT ![r] = m]
      /\ UNCHANGED <<now, mode, disturbed, ended, skipped, validated, admission, report, held, admissions>>
  BY DEF Simulations, SimulationsAllowed, AtStep, Record
<1>2. /\ m \in Manifests /\ m.run = r /\ m.mode = mode[r]
      /\ m.required = "passed" => m.collector # "silent"
      /\ m.collector = "not_applicable" <=> m.mode = "demo"
  <2>1. now \in Nat /\ mode[r] \in {"live", "demo"}
    BY DEF AcceptanceInv, TypeOK
  <2>2. /\ m \in [run : {r}, mode : {mode[r]}, at : {now},
                  collector : IF mode[r] = "demo" THEN {"not_applicable"}
                              ELSE {"ok", "silent", "degraded", "unavailable"},
                  required : {"passed", "failed", "unrun"}]
        /\ m.collector = "silent" => m.required # "passed"
    BY DEF PipelineManifests
  <2> QED
    BY <2>1, <2>2 DEF Manifests
<1>3. /\ archive'[r] = m /\ archive[r] = Absent
      /\ \A q \in Runs : q # r => archive'[q] = archive[q]
  BY <1>1 DEF AcceptanceInv, TypeOK, WrittenOnce
<1>4. TypeOK'
  <2>1. pc' \in [Runs -> 0 .. Summary] /\ sub' \in [Runs -> 0 .. 2]
    BY <1>1, GoToType DEF AcceptanceInv, TypeOK, Summary
  <2>2. failed' \subseteq Runs /\ blocked' \subseteq Runs
    BY <1>1, RecordType DEF AcceptanceInv
  <2>3. manifest' \in Manifests \cup {Absent} /\ archive' \in [Runs -> Manifests \cup {Absent}]
    BY <1>1, <1>2 DEF AcceptanceInv, TypeOK
  <2> QED
    BY <1>1, <2>1, <2>2, <2>3 DEF AcceptanceInv, TypeOK
<1>5. WrittenOnce'
  BY <1>1, <1>3 DEF AcceptanceInv, TypeOK, WrittenOnce, GoTo
<1>6. Owned(admission)' /\ \A q \in Runs : Owned(held[q])'
  BY <1>1 DEF AcceptanceInv, Owned
<1>7. ManifestOwned'
  BY <1>1, <1>2, <1>3 DEF ManifestOwned
<1>8. LiveAcceptanceIsOneRun'
  <2>1. SUFFICES ASSUME LiveAccepted
                 PROVE  /\ report.run \in Runs /\ mode[report.run] = "live"
                        /\ admissions[report.run] # Absent
                        /\ admissions[report.run].status = "PASS"
                        /\ admissions[report.run].mode = "live"
                        /\ archive'[report.run] # Absent /\ archive'[report.run].required = "passed"
                        /\ archive'[report.run].collector = "ok"
                        /\ report.at - archive'[report.run].at <= MaxAge
    BY <1>1 DEF LiveAcceptanceIsOneRun, LiveAccepted
  <2>2. report.run \in Runs /\ report.run # r
    BY <1>3, <2>1 DEF AcceptanceInv, LiveAcceptanceIsOneRun
  <2> QED
    BY <1>3, <2>1, <2>2 DEF AcceptanceInv, LiveAcceptanceIsOneRun
<1> QED
  BY <1>4, <1>5, <1>6, <1>7, <1>8 DEF AcceptanceInv

\* What the ladder of overall statuses demands of a PASS.
LEMMA PassMeans ==
  ASSUME NEW adm, NEW man, Overall(adm, man) = "PASS"
  PROVE  /\ adm \notin {Absent, Torn} /\ man # Absent /\ adm.run = man.run
         /\ man.mode = "live" => adm.mode = "live"
         /\ ~ (now - man.at > MaxAge)
         /\ adm.status = "PASS" /\ man.required = "passed"
         /\ man.collector \in {"ok", "silent", "not_applicable"}
  BY DEF Overall, Issues

\* A scorecard is a report.
LEMMA ReportType ==
  ASSUME TypeOK, NEW adm
  PROVE  Scorecard(adm, manifest) \in Reports
<1>1. manifest = Absent \/ manifest.run \in Runs
  BY DEF TypeOK, Manifests
<1>2. Overall(adm, manifest) \in {"PASS", "FAIL", "INCOMPLETE", "STALE"}
  BY DEF Overall
<1> QED
  BY <1>1, <1>2 DEF Scorecard, Reports, TypeOK

\* The scorecard accepts only an admission file and a manifest of one run.
LEMMA ScorecardWritesInv ==
  ASSUME AcceptanceInv, NEW r \in Runs, ScorecardWrites(r)
  PROVE  AcceptanceInv'
<1>1. /\ pc[r] = 11 /\ GoTo(r, Summary, 0) /\ report' = Scorecard(held[r], manifest)
      /\ held' = [held EXCEPT ![r] = Absent]
      /\ RecordAll(r, {IF report'.overall = "PASS" THEN "PASS" ELSE "FAIL"})
      /\ UNCHANGED <<now, mode, disturbed, ended, skipped, validated, admission, manifest, admissions, archive>>
  BY DEF ScorecardWrites, AtStep, Record, LastStep
<1>2. TypeOK'
  <2>1. pc' \in [Runs -> 0 .. Summary] /\ sub' \in [Runs -> 0 .. 2]
    BY <1>1, GoToType DEF AcceptanceInv, TypeOK, Summary
  <2>2. failed' \subseteq Runs /\ blocked' \subseteq Runs
    BY <1>1, RecordType DEF AcceptanceInv
  <2>3. report' \in Reports
    BY <1>1, ReportType DEF AcceptanceInv
  <2> QED
    BY <1>1, <2>1, <2>2, <2>3 DEF AcceptanceInv, TypeOK
<1>3. WrittenOnce'
  BY <1>1 DEF AcceptanceInv, TypeOK, WrittenOnce, GoTo, Summary
<1>4. Owned(admission)' /\ \A q \in Runs : Owned(held[q])'
  BY <1>1 DEF AcceptanceInv, Owned, TypeOK
<1>5. ManifestOwned'
  BY <1>1 DEF AcceptanceInv, ManifestOwned
<1>6. LiveAcceptanceIsOneRun'
  <2> DEFINE adm == held[r]
             one == manifest.run
  <2>1. SUFFICES ASSUME report'.overall = "PASS", report'.origin = "LIVE"
                 PROVE  /\ report'.run \in Runs /\ mode[report'.run] = "live"
                        /\ admissions[report'.run] # Absent
                        /\ admissions[report'.run].status = "PASS"
                        /\ admissions[report'.run].mode = "live"
                        /\ archive[report'.run] # Absent /\ archive[report'.run].required = "passed"
                        /\ archive[report'.run].collector = "ok"
                        /\ report'.at - archive[report'.run].at <= MaxAge
    BY <1>1 DEF LiveAcceptanceIsOneRun, LiveAccepted
  <2>2. /\ report'.overall = Overall(adm, manifest) /\ report'.at = now
        /\ manifest # Absent => report'.run = one
        /\ report'.origin = "LIVE" => manifest # Absent /\ manifest.mode = "live"
    BY <1>1 DEF Scorecard
  <2>3. Overall(adm, manifest) = "PASS"
    BY <2>1, <2>2
  <2>4. /\ adm \notin {Absent, Torn} /\ manifest # Absent /\ adm.run = one
        /\ manifest.mode = "live" => adm.mode = "live"
        /\ ~ (now - manifest.at > MaxAge)
        /\ adm.status = "PASS" /\ manifest.required = "passed"
        /\ manifest.collector \in {"ok", "silent", "not_applicable"}
    BY <2>3, PassMeans
  <2>5. manifest.mode = "live" /\ report'.run = one
    BY <2>1, <2>2, <2>4
  <2>6. adm = admissions[one]
    BY <2>4 DEF AcceptanceInv, Owned
  <2>7. /\ one \in Runs /\ manifest = archive[one] /\ mode[one] = "live"
        /\ manifest.collector = "ok" /\ manifest.at \in Nat
    BY <2>4, <2>5 DEF AcceptanceInv, ManifestOwned, Manifests
  <2>8. now - manifest.at <= MaxAge
    BY <2>4, <2>7 DEF AcceptanceInv, TypeOK
  <2> QED
    BY <2>2, <2>4, <2>5, <2>6, <2>7, <2>8
<1> QED
  BY <1>2, <1>3, <1>4, <1>5, <1>6 DEF AcceptanceInv

\* Time passes, or nothing happens.
LEMMA TickInv ==
  ASSUME AcceptanceInv, Tick \/ UNCHANGED vars
  PROVE  AcceptanceInv'
<1>1. now' \in Nat /\ UNCHANGED <<mode, disturbed, pc, sub, ended, failed, blocked, skipped, validated,
                                 admission, manifest, report, held, admissions, archive>>
  BY DEF AcceptanceInv, TypeOK, Tick, vars, harnessVars, fileVars
<1>2. TypeOK'
  BY <1>1 DEF AcceptanceInv, TypeOK
<1>3. Quiet
  BY <1>1 DEF AcceptanceInv, TypeOK, Quiet
<1> QED
  BY <1>2, <1>3, QuietInv

LEMMA AcceptanceInit == Init => AcceptanceInv
<1> SUFFICES ASSUME Init PROVE AcceptanceInv
  OBVIOUS
<1>1. TypeOK
  BY DEF Init, TypeOK, Summary
<1>2. WrittenOnce /\ Owned(admission) /\ (\A r \in Runs : Owned(held[r])) /\ ManifestOwned
  BY DEF Init, WrittenOnce, Owned, ManifestOwned
<1>3. LiveAcceptanceIsOneRun
  BY DEF Init, LiveAcceptanceIsOneRun, LiveAccepted
<1> QED
  BY <1>1, <1>2, <1>3 DEF AcceptanceInv

LEMMA AcceptanceNext == AcceptanceInv /\ [Next]_vars => AcceptanceInv'
<1> SUFFICES ASSUME AcceptanceInv, [Next]_vars PROVE AcceptanceInv'
  OBVIOUS
<1>1. CASE Tick \/ UNCHANGED vars
  BY <1>1, TickInv
<1>2. CASE \E r \in Runs : QuietActions(r)
  BY <1>2, QuietStep, QuietInv DEF AcceptanceInv
<1>3. CASE \E r \in Runs : AdmissionOpen(r)
  BY <1>3, AdmissionOpenInv
<1>4. CASE \E r \in Runs, status \in {"PASS", "FAIL"} : AdmissionWrite(r, status)
  BY <1>4, AdmissionWriteInv
<1>5. CASE \E r \in Runs : \E m \in PipelineManifests(r) : Simulations(r, m)
  BY <1>5, SimulationsInv
<1>6. CASE \E r \in Runs : ScorecardWrites(r)
  BY <1>6, ScorecardWritesInv
<1> QED
  BY <1>1, <1>2, <1>3, <1>4, <1>5, <1>6 DEF Next, Harness, QuietActions

\* The inductive invariant of live acceptance, overlap or not.
THEOREM AcceptanceInvariant == Spec => []AcceptanceInv
  BY AcceptanceInit, AcceptanceNext, PTL DEF Spec

\* The type invariant.
THEOREM ValidationTypes == Spec => []TypeOK
<1>1. AcceptanceInv => TypeOK
  BY DEF AcceptanceInv
<1> QED
  BY <1>1, AcceptanceInvariant, PTL

\* A live acceptance is about one live run, whatever other runs do to the files meanwhile.
THEOREM LiveAcceptance == Spec => []LiveAcceptanceIsOneRun
<1>1. AcceptanceInv => LiveAcceptanceIsOneRun
  BY DEF AcceptanceInv
<1> QED
  BY <1>1, AcceptanceInvariant, PTL
---------------------------------------------------------------------------------
(* The PASSED summary of a run that nobody overlapped *)

\* A run that is not disturbed is the only one under way.
Alone ==
  \A q, r \in Runs : Active(q) /\ Active(r) /\ r \notin disturbed => q = r

\* How far a run without FAIL or BLOCKED has come, and what is there because of it.
Progress(r) ==
  Active(r) /\ r \notin disturbed \cup failed \cup blocked =>
    /\ pc[r] >= 5 => admissions[r] # Absent /\ admissions[r].status = "PASS"
    /\ pc[r] >= 8 => manifest # Absent /\ manifest.run = r /\ manifest.required = "passed"
    /\ pc[r] >= 9 => manifest.collector \in {"ok", "not_applicable"}
    /\ pc[r] >= 10 => validated[r] = r
    /\ pc[r] = Summary => /\ report.run = r /\ report.overall = "PASS"
                          /\ report.origin = (IF mode[r] = "live" THEN "LIVE" ELSE "SIMULATED")

OwnInv ==
  AcceptanceInv /\ Alone /\ skipped \subseteq blocked /\ \A r \in Runs : Progress(r)

\* A run that is still clean was clean before, and the step recorded nothing else.
LEMMA CleanRecord ==
  ASSUME NEW r, NEW results, RecordAll(r, results), r \notin failed' \cup blocked'
  PROVE  r \notin failed \cup blocked /\ "FAIL" \notin results /\ "BLOCKED" \notin results
  BY DEF RecordAll

\* A step belongs to one run, which is under way or begins; who is disturbed stays so.
LEMMA OwnStep ==
  ASSUME TypeOK, NEW q \in Runs, Harness(q), NEW r \in Runs
  PROVE  /\ r # q => pc'[r] = pc[r] /\ (r \in ended' <=> r \in ended)
         /\ Begin(q) \/ Active(q)
         /\ Active(r)' /\ r \in disturbed => r \in disturbed'
<1> USE DEF TypeOK, AtStep, GoTo, Active
<1>1. CASE Begin(q) \/ Kill(q) \/ Finish(q)
  BY <1>1 DEF Begin, Kill, Finish, Leave
<1>2. CASE \/ Prerequisites(q)
           \/ \E deploy, tetragon \in Results : Deployment(q, deploy, tetragon)
           \/ \E result \in {"PASS", "FAIL"} : Metrics(q, result)
  BY <1>2 DEF Prerequisites, Deployment, Metrics
<1>3. CASE \/ AdmissionUnavailable(q) \/ AdmissionOpen(q)
           \/ \E status \in {"PASS", "FAIL"} : AdmissionWrite(q, status)
  BY <1>3 DEF AdmissionUnavailable, AdmissionOpen, AdmissionWrite
<1>4. CASE \/ SimulationsSkipped(q)
           \/ \E rc \in {1, 2} : SimulationsWithoutEvidence(q, rc)
           \/ \E m \in PipelineManifests(q) : Simulations(q, m)
  BY <1>4 DEF SimulationsSkipped, SimulationsWithoutEvidence, Simulations, SimulationsAllowed
<1>5. CASE Telemetry(q) \/ Detection(q)
  BY <1>5 DEF Telemetry, Detection
<1>6. CASE Evidence(q) \/ EvidenceFails(q) \/ ScorecardReadsAdmission(q) \/ ScorecardWrites(q)
  BY <1>6 DEF Evidence, EvidenceFails, ScorecardReadsAdmission, ScorecardWrites
<1> QED
  BY <1>1, <1>2, <1>3, <1>4, <1>5, <1>6 DEF Harness

\* After a step, no other run is under way but those that are disturbed.
LEMMA OthersWait ==
  ASSUME OwnInv, NEW q \in Runs, Harness(q), NEW r \in Runs, r # q, r \notin disturbed'
  PROVE  ~ Active(r)'
<1>1. SUFFICES ASSUME Active(r)' PROVE FALSE
  OBVIOUS
<1>2. Active(r) /\ r \notin disturbed /\ (Begin(q) \/ Active(q))
  BY <1>1, OwnStep DEF OwnInv, AcceptanceInv, Active
<1>3. ~ Active(q)
  BY <1>2 DEF OwnInv, Alone
<1> QED
  BY <1>2, <1>3 DEF Begin

\* Nor is any when the run of the step is not disturbed.
LEMMA StaysAlone ==
  ASSUME OwnInv, NEW q \in Runs, Harness(q), NEW r \in Runs, r # q,
         Active(q)', q \notin disturbed'
  PROVE  ~ Active(r)'
<1>1. SUFFICES ASSUME Active(r)' PROVE FALSE
  OBVIOUS
<1>2. Active(r) /\ (Begin(q) \/ Active(q)) /\ q \notin disturbed
  BY <1>1, OwnStep DEF OwnInv, AcceptanceInv, Active
<1>3. ~ Active(q)
  BY <1>2 DEF OwnInv, Alone
<1> QED
  BY <1>2, <1>3 DEF Begin

\* Step 7 that was not run leaves the run blocked.
LEMMA SkippedBlocked ==
  ASSUME OwnInv, NEW q \in Runs, Harness(q)
  PROVE  skipped' \subseteq blocked'
<1> USE DEF OwnInv, AtStep, Record, RecordAll
<1>1. CASE Begin(q) \/ Kill(q) \/ Finish(q)
  BY <1>1 DEF Begin, Kill, Finish, Leave
<1>2. CASE \/ Prerequisites(q)
           \/ \E deploy, tetragon \in Results : Deployment(q, deploy, tetragon)
           \/ \E result \in {"PASS", "FAIL"} : Metrics(q, result)
  BY <1>2 DEF Prerequisites, Deployment, Metrics
<1>3. CASE \/ AdmissionUnavailable(q) \/ AdmissionOpen(q)
           \/ \E status \in {"PASS", "FAIL"} : AdmissionWrite(q, status)
  BY <1>3 DEF AdmissionUnavailable, AdmissionOpen, AdmissionWrite
<1>4. CASE \/ SimulationsSkipped(q)
           \/ \E rc \in {1, 2} : SimulationsWithoutEvidence(q, rc)
           \/ \E m \in PipelineManifests(q) : Simulations(q, m)
  BY <1>4 DEF SimulationsSkipped, SimulationsWithoutEvidence, Simulations
<1>5. CASE Telemetry(q) \/ Detection(q)
  BY <1>5 DEF Telemetry, Detection
<1>6. CASE Evidence(q) \/ EvidenceFails(q) \/ ScorecardReadsAdmission(q) \/ ScorecardWrites(q)
  BY <1>6 DEF Evidence, EvidenceFails, ScorecardReadsAdmission, ScorecardWrites
<1> QED
  BY <1>1, <1>2, <1>3, <1>4, <1>5, <1>6 DEF Harness

\* The run's own steps: each adds the evidence the next ones rely on.
LEMMA ProgressStep ==
  ASSUME OwnInv, NEW r \in Runs, Harness(r)
  PROVE  Progress(r)'
<1> SUFFICES ASSUME Active(r)', r \notin disturbed', r \notin failed' \cup blocked'
             PROVE  /\ pc'[r] >= 5 => admissions'[r] # Absent /\ admissions'[r].status = "PASS"
                    /\ pc'[r] >= 8 => manifest' # Absent /\ manifest'.run = r /\ manifest'.required = "passed"
                    /\ pc'[r] >= 9 => manifest'.collector \in {"ok", "not_applicable"}
                    /\ pc'[r] >= 10 => validated'[r] = r
                    /\ pc'[r] = 12 => /\ report'.run = r /\ report'.overall = "PASS"
                                      /\ report'.origin = (IF mode'[r] = "live" THEN "LIVE" ELSE "SIMULATED")
  BY DEF Progress, Summary
<1>0. r \notin disturbed
  BY OwnStep DEF OwnInv, AcceptanceInv
<1> DEFINE Before == /\ pc[r] >= 5 => admissions[r] # Absent /\ admissions[r].status = "PASS"
                     /\ pc[r] >= 8 => manifest # Absent /\ manifest.run = r /\ manifest.required = "passed"
                     /\ pc[r] >= 9 => manifest.collector \in {"ok", "not_applicable"}
                     /\ pc[r] >= 10 => validated[r] = r
<1>1. Active(r) /\ r \notin failed \cup blocked => Before
  BY <1>0 DEF OwnInv, Progress
<1>2. \A n \in 0 .. Summary, k \in 0 .. 2 : GoTo(r, n, k) => pc'[r] = n
  BY DEF GoTo, OwnInv, AcceptanceInv, TypeOK
<1>3. CASE Begin(r) \/ Kill(r) \/ Finish(r)
  BY <1>3 DEF Begin, Kill, Finish, Leave, Active, OwnInv, AcceptanceInv, TypeOK
<1>4. CASE Prerequisites(r)
  <2>1. GoTo(r, 4, 0)
    BY <1>4, CleanRecord DEF Prerequisites, Record
  <2> QED
    BY <1>2, <2>1 DEF Summary
<1>5. CASE \E deploy, tetragon \in Results : Deployment(r, deploy, tetragon)
  <2>1. /\ Active(r) /\ pc[r] = 5 /\ GoTo(r, 7, 0) /\ UNCHANGED fileVars
        /\ r \notin failed \cup blocked
    BY <1>5, CleanRecord DEF Deployment, AtStep
  <2> QED
    BY <1>1, <1>2, <2>1 DEF Summary, fileVars
<1>6. CASE \E result \in {"PASS", "FAIL"} : Metrics(r, result)
  <2>1. /\ Active(r) /\ pc[r] = 10 /\ GoTo(r, 11, 0) /\ UNCHANGED <<validated, fileVars>>
        /\ r \notin failed \cup blocked
    BY <1>6, CleanRecord DEF Metrics, AtStep, Record, LastStep
  <2> QED
    BY <1>1, <1>2, <2>1 DEF Summary, fileVars
<1>7. CASE AdmissionUnavailable(r) \/ SimulationsSkipped(r) \/ EvidenceFails(r)
  BY <1>7, CleanRecord DEF AdmissionUnavailable, SimulationsSkipped, EvidenceFails, Record
<1>8. CASE \E rc \in {1, 2} : SimulationsWithoutEvidence(r, rc)
  <2>1. PICK rc \in {1, 2} : RecordAll(r, {ResultOf(rc)})
    BY <1>8 DEF SimulationsWithoutEvidence, Record
  <2>2. ResultOf(rc) \in {"FAIL", "BLOCKED"}
    BY DEF ResultOf
  <2> QED
    BY <2>1, <2>2, CleanRecord
<1>9. CASE AdmissionOpen(r)
  BY <1>2, <1>9 DEF AdmissionOpen, Summary
<1>10. CASE \E status \in {"PASS", "FAIL"} : AdmissionWrite(r, status)
  <2>1. PICK status \in {"PASS", "FAIL"} : AdmissionWrite(r, status)
    BY <1>10
  <2>2. status = "PASS" /\ GoTo(r, 5, 0)
    BY <2>1, CleanRecord DEF AdmissionWrite, Record
  <2>3. admissions'[r].status = "PASS" /\ admissions'[r] \in Admissions
    BY <2>1, <2>2 DEF AdmissionWrite, Admissions, OwnInv, AcceptanceInv, TypeOK
  <2> QED
    BY <1>2, <2>2, <2>3 DEF Summary
<1>11. CASE \E m \in PipelineManifests(r) : Simulations(r, m)
  <2>1. PICK m \in PipelineManifests(r) : Simulations(r, m)
    BY <1>11
  <2>2. /\ Active(r) /\ pc[r] = 7 /\ GoTo(r, 8, 0) /\ manifest' = m
        /\ RecordAll(r, {ResultOf(SimulationExit(m))}) /\ UNCHANGED <<admissions, validated>>
    BY <2>1 DEF Simulations, SimulationsAllowed, AtStep, Record
  <2>3. m.run = r /\ m # Absent
    BY <2>2, SimulationsInv, <2>1 DEF PipelineManifests, OwnInv, AcceptanceInv, TypeOK, Manifests
  <2>4. r \notin failed \cup blocked /\ m.required = "passed"
    BY <2>2, CleanRecord DEF ResultOf, SimulationExit
  <2> QED
    BY <1>1, <1>2, <2>2, <2>3, <2>4 DEF Summary
<1>12. CASE Telemetry(r)
  <2>1. /\ Active(r) /\ pc[r] = 8 /\ GoTo(r, 9, 0) /\ UNCHANGED <<mode, validated, fileVars>>
        /\ r \notin failed \cup blocked
        /\ manifest = Absent \/ ~ (manifest.mode = "live" /\ manifest.collector # "ok")
    BY <1>12, CleanRecord DEF Telemetry, AtStep, Record
  <2>2. manifest # Absent /\ manifest.collector \in {"ok", "not_applicable"}
    BY <1>1, <2>1 DEF OwnInv, AcceptanceInv, ManifestOwned, Manifests
  <2> QED
    BY <1>1, <1>2, <2>1, <2>2 DEF Summary, fileVars
<1>13. CASE Detection(r)
  <2>1. /\ Active(r) /\ pc[r] = 9 /\ GoTo(r, 10, 0) /\ UNCHANGED <<mode, fileVars>>
        /\ r \notin failed \cup blocked
    BY <1>13, CleanRecord DEF Detection, AtStep, Record
  <2>2. manifest # Absent /\ manifest.run = r /\ manifest.required = "passed"
    BY <1>1, <2>1
  <2>3. validated'[r] = r
    BY <1>13, <2>2 DEF Detection, OwnInv, AcceptanceInv, TypeOK
  <2> QED
    BY <1>1, <1>2, <2>1, <2>3 DEF Summary, fileVars
<1>14. CASE Evidence(r) \/ ScorecardReadsAdmission(r)
  <2>1. /\ Active(r) /\ pc[r] = 11 /\ (GoTo(r, 11, 1) \/ GoTo(r, 11, 2))
        /\ UNCHANGED <<mode, failed, blocked, validated, manifest, admissions>>
    BY <1>14 DEF Evidence, ScorecardReadsAdmission, AtStep, LastStep, fileVars
  <2> QED
    BY <1>1, <1>2, <2>1 DEF Summary
<1>15. CASE ScorecardWrites(r)
  <2>1. /\ Active(r) /\ pc[r] = 11 /\ GoTo(r, Summary, 0) /\ report' = Scorecard(held[r], manifest)
        /\ UNCHANGED <<mode, validated, manifest, admissions>>
        /\ r \notin failed \cup blocked /\ report'.overall = "PASS"
    BY <1>15, CleanRecord DEF ScorecardWrites, AtStep, Record, LastStep
  <2>2. manifest # Absent /\ manifest.run = r /\ manifest.mode = mode[r]
    BY <1>1, <2>1 DEF OwnInv, AcceptanceInv, ManifestOwned
  <2>3. report'.run = r /\ report'.origin = (IF mode[r] = "live" THEN "LIVE" ELSE "SIMULATED")
    BY <2>1, <2>2 DEF Scorecard
  <2> QED
    BY <1>1, <1>2, <2>1, <2>3 DEF Summary
<1> QED
  BY <1>3, <1>4, <1>5, <1>6, <1>7, <1>8, <1>9, <1>10, <1>11, <1>12, <1>13, <1>14, <1>15 DEF Harness

LEMMA OwnNext == OwnInv /\ [Next]_vars => OwnInv'
<1> SUFFICES ASSUME OwnInv, [Next]_vars PROVE OwnInv'
  OBVIOUS
<1>1. AcceptanceInv'
  BY AcceptanceNext DEF OwnInv
<1>2. CASE Tick \/ UNCHANGED vars
  <2>1. UNCHANGED <<mode, disturbed, pc, sub, ended, failed, blocked, skipped, validated,
                    admission, manifest, report, held, admissions, archive>>
    BY <1>2 DEF Tick, vars, harnessVars, fileVars
  <2>2. Alone' /\ skipped' \subseteq blocked'
    BY <2>1 DEF OwnInv, Alone, Active
  <2>3. \A r \in Runs : Progress(r)'
    BY <2>1 DEF OwnInv, Progress, Active
  <2> QED
    BY <1>1, <2>2, <2>3 DEF OwnInv
<1>3. CASE \E q \in Runs : Harness(q)
  <2>1. PICK q \in Runs : Harness(q)
    BY <1>3
  <2>2. Alone'
    BY <2>1, OthersWait, StaysAlone DEF Alone
  <2>3. skipped' \subseteq blocked'
    BY <2>1, SkippedBlocked
  <2>4. ASSUME NEW r \in Runs PROVE Progress(r)'
    <3>1. CASE r = q
      BY <2>1, <3>1, ProgressStep
    <3>2. CASE r # q
      <4>1. r \notin disturbed' => ~ Active(r)'
        BY <2>1, <3>2, OthersWait
      <4> QED
        BY <4>1 DEF Progress
    <3> QED
      BY <3>1, <3>2
  <2> QED
    BY <1>1, <2>2, <2>3, <2>4 DEF OwnInv
<1> QED
  BY <1>2, <1>3 DEF Next

\* A run that no other run overlapped says PASSED of its own evidence only.
THEOREM PassedIsOwn == Spec => []PassedVerdictIsOwn
<1>1. Init => OwnInv
  <2> SUFFICES ASSUME Init PROVE OwnInv
    OBVIOUS
  <2>1. AcceptanceInv
    BY AcceptanceInit
  <2> QED
    BY <2>1 DEF Init, OwnInv, Alone, Progress, Active
<1>2. OwnInv => PassedVerdictIsOwn
  <2> SUFFICES ASSUME OwnInv, NEW r \in Runs \ disturbed, SaysPassed(r)
               PROVE  /\ r \notin skipped /\ validated[r] = r
                      /\ admissions[r] # Absent /\ admissions[r].status = "PASS"
                      /\ archive[r] # Absent /\ archive[r].required = "passed"
                      /\ archive[r].collector \in {"ok", "not_applicable"}
                      /\ report.run = r /\ report.overall = "PASS"
                      /\ report.origin = (IF mode[r] = "live" THEN "LIVE" ELSE "SIMULATED")
    BY DEF PassedVerdictIsOwn
  <2>1. Active(r) /\ pc[r] = Summary /\ r \notin failed \cup blocked
    BY DEF SaysPassed, AtStep, Verdict
  <2>2. /\ admissions[r] # Absent /\ admissions[r].status = "PASS"
        /\ manifest # Absent /\ manifest.run = r /\ manifest.required = "passed"
        /\ manifest.collector \in {"ok", "not_applicable"} /\ validated[r] = r
        /\ report.run = r /\ report.overall = "PASS"
        /\ report.origin = (IF mode[r] = "live" THEN "LIVE" ELSE "SIMULATED")
    BY <2>1 DEF OwnInv, Progress, Summary
  <2>3. manifest = archive[r]
    BY <2>2 DEF OwnInv, AcceptanceInv, ManifestOwned
  <2> QED
    BY <2>1, <2>2, <2>3 DEF OwnInv
<1> QED
  BY <1>1, <1>2, OwnNext, PTL DEF Spec
=================================================================================
