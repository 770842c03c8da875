----------------------------- MODULE IncidentStore -----------------------------
(***************************************************************************)
(* The file of cross-domain incidents: UnifiedIncidentManager.load and     *)
(* save (correlation/cross_domain/models/incident.py), the processes that  *)
(* load it, add or change an incident and save it again (build_demo_       *)
(* scenario, step 6), each able to die at any point, and the counts that   *)
(* compute_snapshot (reporting/cross_domain_metrics.py) takes from it.     *)
(*                                                                         *)
(* save empties the file and then fills it.  Of two that do so at once the *)
(* last to fill writes over the other's text, whose end may stay behind it. *)
(***************************************************************************)
EXTENDS Integers, FiniteSets

CONSTANTS
  Procs,       \* processes
  Templates,   \* what create_from_cluster may give: see Incident
  MaxIncidents \* bound of the model

Severities == {"low", "medium", "high", "critical"}

\* ContributingFinding: of one of two sources, with one of four severities
StoreAssumption ==
  /\ MaxIncidents \in Nat
  /\ \A t \in Templates :
       /\ IsFiniteSet(t.findings) /\ IsFiniteSet(t.targets)
       /\ \A f \in t.findings : f.source \in {"cloudgraphguard", "threatguard"} /\ f.severity \in Severities

Statuses == {"NEW", "TRIAGED", "INVESTIGATING", "CONTAINED", "RESOLVED"}

\* a template with its id and status; findings is a set of [id, source, kind, severity]
Incident(id, t, status) ==
  [id |-> id, severity |-> t.severity, cross |-> t.cross, principal |-> t.principal,
   workload |-> t.workload, targets |-> t.targets, findings |-> t.findings, status |-> status]

Absent == [kind |-> "absent", incidents |-> {}]
Torn   == [kind |-> "torn", incidents |-> {}]
Whole(incidents) == [kind |-> "whole", incidents |-> incidents]

VARIABLES
  store,   \* cross-domain-incidents.json
  pc,      \* process -> "idle", "loaded", "changed", "writing"
  mem,     \* process -> its manager's incidents
  made,    \* incidents created so far
  saved    \* ids that some save has finished writing

storeVars == <<store, pc, mem, made, saved>>

StoreInit ==
  /\ store = Absent /\ made = 0 /\ saved = {}
  /\ pc = [p \in Procs |-> "idle"] /\ mem = [p \in Procs |-> {}]

Ids(incidents) == {i.id : i \in incidents}

\* load: no file is no incident, and a file that is no JSON ends the process
Load(p) ==
  /\ pc[p] = "idle" /\ store.kind # "torn"
  /\ pc' = [pc EXCEPT ![p] = "loaded"]
  /\ mem' = [mem EXCEPT ![p] = store.incidents]
  /\ UNCHANGED <<store, made, saved>>

\* create_from_cluster, register
Create(p, t) ==
  /\ pc[p] = "loaded" /\ made < MaxIncidents
  /\ made' = made + 1
  /\ mem' = [mem EXCEPT ![p] = @ \cup {Incident(made + 1, t, "NEW")}]
  /\ pc' = [pc EXCEPT ![p] = "changed"]
  /\ UNCHANGED <<store, saved>>

\* update_status: any status may follow any other
UpdateStatus(p, i, status) ==
  /\ pc[p] = "loaded" /\ i \in mem[p]
  /\ mem' = [mem EXCEPT ![p] = (@ \ {i}) \cup {Incident(i.id, i, status)}]
  /\ pc' = [pc EXCEPT ![p] = "changed"]
  /\ UNCHANGED <<store, made, saved>>

Truncate(p) ==
  /\ pc[p] = "changed"
  /\ store' = Torn
  /\ pc' = [pc EXCEPT ![p] = "writing"]
  /\ UNCHANGED <<mem, made, saved>>

\* mutant: only the incident of this process is written
FillOwn(p) ==
  /\ pc[p] = "writing"
  /\ store' = Whole({i \in mem[p] : i.id = made})
  /\ saved' = saved \cup Ids(mem[p])
  /\ pc' = [pc EXCEPT ![p] = "idle"] /\ mem' = [mem EXCEPT ![p] = {}]
  /\ UNCHANGED made

Fill(p) ==
  /\ pc[p] = "writing"
  /\ store' \in {Whole(mem[p])} \cup {s \in {Torn} : store.kind = "whole"}
  /\ saved' = saved \cup Ids(mem[p])
  /\ pc' = [pc EXCEPT ![p] = "idle"] /\ mem' = [mem EXCEPT ![p] = {}]
  /\ UNCHANGED made

Die(p) ==
  /\ pc[p] # "idle"
  /\ pc' = [pc EXCEPT ![p] = "idle"] /\ mem' = [mem EXCEPT ![p] = {}]
  /\ UNCHANGED <<store, made, saved>>

StoreNext ==
  \E p \in Procs :
    \/ Load(p) \/ Truncate(p) \/ Fill(p) \/ Die(p)
    \/ \E t \in Templates : Create(p, t)
    \/ \E i \in mem[p], status \in {"TRIAGED", "RESOLVED"} : UpdateStatus(p, i, status)

Spec == StoreInit /\ [][StoreNext]_storeVars
--------------------------------------------------------------------------------
(* compute_snapshot *)

Open(incidents) == {i \in incidents : i.status # "RESOLVED"}

HighRisk(incidents) == {i \in Open(incidents) : i.severity \in {"high", "critical"}}

Named(names) == names \ {"none"}

\* the findings of each incident, those of one that is resolved included
Counted(incidents) ==
  UNION {{<<i, f>> : f \in {f \in i.findings :
            ~(f.source = "threatguard" /\ f.kind = "admission_violation")}} : i \in incidents}

\* by their own severity
Bucket(incidents, source, severity) ==
  Cardinality({p \in Counted(incidents) : p[2].source = source /\ p[2].severity = severity})

Snapshot(incidents) ==
  [total      |-> Cardinality(incidents),
   open       |-> Cardinality(Open(incidents)),
   exploitable |-> Cardinality({i \in Open(incidents) : i.cross}),
   principals |-> Cardinality(Named({i.principal : i \in HighRisk(incidents)})),
   workloads  |-> Cardinality(Named({i.workload : i \in HighRisk(incidents)})),
   resources  |-> Cardinality(UNION {i.targets : i \in Open(incidents)}),
   iam        |-> [s \in Severities |-> Bucket(incidents, "cloudgraphguard", s)],
   runtime    |-> [s \in Severities |-> Bucket(incidents, "threatguard", s)]]
--------------------------------------------------------------------------------
(* Properties *)

StoreTypeOK ==
  /\ store.kind \in {"absent", "torn", "whole"}
  /\ made \in 0 .. MaxIncidents /\ saved \subseteq 1 .. made
  /\ pc \in [Procs -> {"idle", "loaded", "changed", "writing"}]
  /\ Ids(store.incidents) \subseteq 1 .. made
  /\ \A p \in Procs : pc[p] = "idle" => mem[p] = {}

\* "so the persisted collection accumulates rather than being overwritten"
\* (demo/deterministic_demo.py:170): what one save finished writing is in the file, unless
\* a process died while it wrote.
Accumulates == store.kind = "whole" => saved \subseteq Ids(store.incidents)

Total(counts) == counts["low"] + counts["medium"] + counts["high"] + counts["critical"]

\* The counts that the exporter derives fit each other, whatever was saved, resolved or
\* lost: no more principals, workloads or paths at risk than open incidents, nothing at
\* risk when every incident is resolved, and no finding that counts in two severities.
SnapshotCoherent ==
  LET n == Snapshot(store.incidents)
  IN /\ n.open <= n.total /\ n.exploitable <= n.open
     /\ n.principals <= n.open /\ n.workloads <= n.open
     /\ n.open = 0 => n.resources = 0
     /\ Total(n.iam) + Total(n.runtime) = Cardinality(Counted(store.incidents))
================================================================================
