---------------------------- MODULE IncidentLifecycle ----------------------------
(***************************************************************************)
(* IncidentManager (reporting/incidents.py): incidents under their ids,    *)
(* each with a status and a history, and an audit log beside them.  The    *)
(* command line (cli/main.py) is another process: it starts with what the  *)
(* state file holds, and lists it.                                         *)
(*                                                                         *)
(* An id is "#TG-" and six random hexadecimal digits, so any of Ids may be *)
(* drawn.  Of a history entry the statuses are kept, of an audit entry the *)
(* incident and the statuses.                                              *)
(***************************************************************************)
EXTENDS Naturals, Sequences, FiniteSets

CONSTANTS
  Ids,      \* what uuid4().hex[:6] may give
  MaxSteps  \* bound of the model: audit entries

ASSUME LifecycleAssumption == MaxSteps \in Nat

Statuses  == {"NEW", "TRIAGED", "INVESTIGATING", "CONTAINED", "RESOLVED", "FALSE_POSITIVE"}
Requests  == Statuses \cup {"CLOSED"} \* a caller may ask for anything
NoStatus  == ""

\* the next states of docs/operations/incident-response.md:25-30
Permitted == {<<"NEW", "TRIAGED">>, <<"NEW", "FALSE_POSITIVE">>,
  <<"TRIAGED", "INVESTIGATING">>, <<"TRIAGED", "FALSE_POSITIVE">>,
  <<"INVESTIGATING", "CONTAINED">>, <<"INVESTIGATING", "RESOLVED">>,
  <<"INVESTIGATING", "FALSE_POSITIVE">>, <<"CONTAINED", "RESOLVED">>,
  <<"RESOLVED", "CLOSED">>, <<"FALSE_POSITIVE", "CLOSED">>}

VARIABLES
  incidents, \* id -> [status, history]
  audit,     \* audit_log: [id, from, to]; from is NoStatus for a creation
  stateFile, \* ids in threatguard-state.json
  reply,     \* of the last call: "record", "none" or "error"
  shown,     \* ids the command line listed last
  unseen     \* history: ids that were stored, and not in that list

vars == <<incidents, audit, stateFile, reply, shown, unseen>>

Init ==
  /\ incidents = <<>> /\ audit = <<>>
  /\ stateFile = {} /\ reply = "none" /\ shown = {} /\ unseen = {}

Entry(from, to) == [from |-> from, to |-> to]
RecordAudit(id, from, to) == audit' = Append(audit, [id |-> id, from |-> from, to |-> to])

Store(id, record) ==
  incidents' = [x \in DOMAIN incidents \cup {id} |-> IF x = id THEN record ELSE incidents[x]]

\* create_incident_from_correlation: a record of that id, if any, is replaced
Create(id) ==
  /\ Len(audit) < MaxSteps
  /\ Store(id, [status |-> "NEW", history |-> <<Entry(NoStatus, "NEW")>>])
  /\ RecordAudit(id, NoStatus, "NEW")
  /\ reply' = "record"
  /\ UNCHANGED <<stateFile, shown, unseen>>

\* mutant: the entry is written from the record as it is after the change
ChangedAfter(inc, new) ==
  [status |-> new, history |-> Append(inc.history, Entry(new, new))]

Changed(inc, new) ==
  [status |-> new, history |-> Append(inc.history, Entry(inc.status, new))]

\* update_status: an unknown incident, an unknown status, a change
UpdateUnknown(id) ==
  /\ id \notin DOMAIN incidents
  /\ reply' = "none"
  /\ UNCHANGED <<incidents, audit, stateFile, shown, unseen>>

\* mutant: the audit log is written before the status is validated
UpdateInvalidLogged(id, new) ==
  /\ id \in DOMAIN incidents /\ new \notin Statuses /\ Len(audit) < MaxSteps
  /\ reply' = "error"
  /\ RecordAudit(id, incidents[id].status, new)
  /\ UNCHANGED <<incidents, stateFile, shown, unseen>>

UpdateInvalid(id, new) ==
  /\ id \in DOMAIN incidents /\ new \notin Statuses
  /\ reply' = "error"
  /\ UNCHANGED <<incidents, audit, stateFile, shown, unseen>>

UpdateStatus(id, new) ==
  /\ Len(audit) < MaxSteps
  /\ id \in DOMAIN incidents /\ new \in Statuses
  /\ incidents' = [incidents EXCEPT ![id] = Changed(@, new)]
  /\ RecordAudit(id, incidents[id].status, new)
  /\ reply' = "record"
  /\ UNCHANGED <<stateFile, shown, unseen>>

\* "threatguard incidents list": a new process with the state file's incidents.  No
\* command calls _save_state, so nothing ever writes that file.
ListIncidents ==
  /\ shown' = stateFile
  /\ unseen' = DOMAIN incidents \ stateFile
  /\ reply' = "record"
  /\ UNCHANGED <<incidents, audit, stateFile>>

Next ==
  \/ \E id \in Ids : Create(id) \/ UpdateUnknown(id)
  \/ \E id \in Ids, new \in Requests : UpdateInvalid(id, new) \/ UpdateStatus(id, new)
  \/ ListIncidents

Spec == Init /\ [][Next]_vars
----------------------------------------------------------------------------------
(* Properties *)

TypeOK ==
  /\ DOMAIN incidents \subseteq Ids
  /\ \A id \in DOMAIN incidents : incidents[id].status \in Statuses
  /\ \A k \in 1 .. Len(audit) : audit[k].id \in DOMAIN incidents
  /\ Len(audit) <= MaxSteps
  /\ reply \in {"record", "none", "error"} /\ shown \subseteq Ids /\ stateFile \subseteq Ids

\* A record's history is one chain from its creation to the status it has now.
HistoryIsAChain ==
  \A id \in DOMAIN incidents :
    LET h == incidents[id].history
    IN /\ h[1] = Entry(NoStatus, "NEW")
       /\ \A k \in 1 .. Len(h) - 1 : h[k + 1].from = h[k].to
       /\ h[Len(h)].to = incidents[id].status

\* Where the audit log speaks of an incident since it was last created, and which of these
\* entries of the log is the k-th.
Since(id) ==
  {k \in 1 .. Len(audit) :
     /\ audit[k].id = id
     /\ \A m \in k + 1 .. Len(audit) : audit[m].id = id => audit[m].from # NoStatus}
Rank(id, k) == Cardinality({m \in Since(id) : m <= k})

\* The audit log and the records never drift apart: what the log says of an
\* incident since it was last created is the incident's history, entry by entry.
AuditTellsHistory ==
  \A id \in DOMAIN incidents :
    LET h == incidents[id].history
    IN /\ Len(h) = Cardinality(Since(id))
       /\ \A k \in Since(id) : h[Rank(id, k)] = Entry(audit[k].from, audit[k].to)

\* Incidents move only as the lifecycle of docs/operations/incident-response.md:25-30
\* permits.
TransitionsPermitted ==
  \A id \in DOMAIN incidents :
    \A k \in 2 .. Len(incidents[id].history) :
      <<incidents[id].history[k].from, incidents[id].history[k].to>> \in Permitted

\* "Generates unique '#TG-xxxxxx' incident identifiers" (correlation/kubernetes.py:22):
\* every incident created is still there.
CreatedIncidentsKept ==
  Cardinality({k \in 1 .. Len(audit) : audit[k].from = NoStatus}) = Cardinality(DOMAIN incidents)

\* "List Active Correlated Incidents" (docs/operations/simulation-runbook.md:151): what
\* the command line lists when incidents were correlated are those incidents.
ListShowsIncidents == unseen = {}
==================================================================================
