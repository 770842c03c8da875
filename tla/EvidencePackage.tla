---------------------------- MODULE EvidencePackage ----------------------------
(***************************************************************************)
(* ForensicEvidenceCollector (reporting/evidence.py), which "report        *)
(* evidence" and "verify" run: load the events the runtime pipeline        *)
(* published, or a built-in baseline, and write seven files from them, in  *)
(* place and one after the other.  The pipeline publishes while it runs,   *)
(* and it can be killed at any point.                                      *)
(*                                                                         *)
(* An item of runtime-events.json is [id, mode, ok]: its label, and does   *)
(* from_dict accept it.                                                    *)
(***************************************************************************)
EXTENDS Naturals, Sequences, FiniteSets

CONSTANTS
  Published,  \* what runtime-events.json may hold: see Input
  MaxPackages \* bound of the model: packages begun

PackageAssumption ==
  /\ MaxPackages \in Nat
  /\ \A in \in Published : in.items \in Seq({in.items[k] : k \in DOMAIN in.items})

\* kind is "list", "garbage" (no JSON list) or "absent" (no file)
Input(kind, items) == [kind |-> kind, items |-> items]
Absent == Input("absent", <<>>)

\* in the order they are written
Files == <<"normalized", "incidents", "risk", "mermaid", "chains", "markdown", "html">>

Event(id, mode) == [id |-> id, mode |-> mode]

\* the baseline: an admission denial and three simulations, under the default label
Baseline == [k \in 1 .. 4 |-> Event("baseline", "unknown")]

\* from_dict
Convert(item) == Event(item.id, item.mode)

\* the events converted before the first item that raises
Prefix(items) ==
  LET bad == {k \in 1 .. Len(items) : ~items[k].ok}
      n   == IF bad = {} THEN Len(items) ELSE (CHOOSE k \in bad : \A m \in bad : k <= m) - 1
  IN [k \in 1 .. n |-> Convert(items[k])]

\* mutant: an empty list of events is accepted
LoadOrCreateEmpty(in) ==
  IF in.kind = "list" /\ Len(Prefix(in.items)) = Len(in.items) THEN Prefix(in.items)
  ELSE Prefix(in.items) \o Baseline

\* _load_or_create_events
LoadOrCreate(in) ==
  IF in.kind = "list" /\ in.items # <<>> /\ Len(Prefix(in.items)) = Len(in.items)
  THEN Prefix(in.items)
  ELSE Prefix(in.items) \o Baseline

VARIABLES
  input,     \* artifacts/runtime/runtime-events.json
  cluster,   \* "online" or "offline", as kubectl finds it
  dirs,      \* the artifact directories exist
  captured,  \* <<files>> of the last capture, <<>> when there was none
  phase,     \* "idle", "telemetry", "load", "write", "done"
  events,    \* the collector's events
  next, open, \* the file to be written, and is it truncated already
  files,     \* name -> [events, whole]
  begun

vars == <<input, cluster, dirs, captured, phase, events, next, open, files, begun>>

Init ==
  /\ input = Absent /\ cluster \in {"online", "offline"} /\ dirs \in BOOLEAN
  /\ captured = <<>> /\ phase = "idle" /\ events = <<>>
  /\ next = 1 /\ open = FALSE /\ files = <<>> /\ begun = 0

\* the pipeline replaces the file in one step; anything else may write it too
Publish ==
  /\ input' \in Published
  /\ dirs' = TRUE
  /\ UNCHANGED <<cluster, captured, phase, events, next, open, files, begun>>

\* "report evidence" captures telemetry first, "verify" does not
Begin(capture) ==
  /\ phase \in {"idle", "done"} /\ begun < MaxPackages
  /\ begun' = begun + 1
  /\ phase' = IF capture THEN "telemetry" ELSE "load"
  /\ captured' = <<>>
  /\ UNCHANGED <<input, cluster, dirs, events, next, open, files>>

\* collect_live_cluster_telemetry: the first exception ends it, silently.  The
\* directories are created by the package, which comes later; failures of kubectl
\* itself are left out.
Capture ==
  /\ phase = "telemetry"
  /\ captured' = <<IF cluster = "online" /\ dirs THEN {"gatekeeper", "tetragon"} ELSE {}>>
  /\ phase' = "load"
  /\ UNCHANGED <<input, cluster, dirs, events, next, open, files, begun>>

Load ==
  /\ phase = "load"
  /\ dirs' = TRUE
  /\ events' = LoadOrCreate(input)
  /\ phase' = "write" /\ next' = 1 /\ open' = FALSE
  /\ UNCHANGED <<input, cluster, captured, files, begun>>

Put(name, content) ==
  files' = [f \in DOMAIN files \cup {name} |-> IF f = name THEN content ELSE files[f]]

\* open(..., "w") empties the file
Truncate ==
  /\ phase = "write" /\ ~open
  /\ Put(Files[next], [events |-> <<>>, whole |-> FALSE])
  /\ open' = TRUE
  /\ UNCHANGED <<input, cluster, dirs, captured, phase, events, next, begun>>

\* mutant: every report loads the events again
FillFromInput ==
  /\ phase = "write" /\ open
  /\ Put(Files[next], [events |-> LoadOrCreate(input), whole |-> TRUE])
  /\ open' = FALSE
  /\ next' = IF next < Len(Files) THEN next + 1 ELSE next
  /\ phase' = IF next < Len(Files) THEN "write" ELSE "done"
  /\ UNCHANGED <<input, cluster, dirs, captured, events, begun>>

\* every file is rendered from the same events
Fill ==
  /\ phase = "write" /\ open
  /\ Put(Files[next], [events |-> events, whole |-> TRUE])
  /\ open' = FALSE
  /\ next' = IF next < Len(Files) THEN next + 1 ELSE next
  /\ phase' = IF next < Len(Files) THEN "write" ELSE "done"
  /\ UNCHANGED <<input, cluster, dirs, captured, events, begun>>

Crash ==
  /\ phase \notin {"idle", "done"}
  /\ phase' = "idle" /\ events' = <<>> /\ next' = 1 /\ open' = FALSE
  /\ UNCHANGED <<input, cluster, dirs, captured, files, begun>>

Next ==
  \/ Publish
  \/ \E capture \in BOOLEAN : Begin(capture)
  \/ Capture \/ Load \/ Truncate \/ Fill \/ Crash

Spec == Init /\ [][Next]_vars
--------------------------------------------------------------------------------
(* Properties *)

Elements(s) == {s[k] : k \in 1 .. Len(s)}
Written == UNION {Elements(files[f].events) : f \in DOMAIN files}

TypeOK ==
  /\ input \in Published \cup {Absent}
  /\ phase \in {"idle", "telemetry", "load", "write", "done"}
  /\ next \in 1 .. Len(Files) /\ open \in BOOLEAN /\ begun \in 0 .. MaxPackages
  /\ DOMAIN files \subseteq Elements(Files)
  /\ \A f \in DOMAIN files : files[f].whole \in BOOLEAN

\* A finished package tells one story, whatever was published or killed meanwhile: its
\* seven files are whole, and of the same events, of which there is at least one.
PackageWhole ==
  phase = "done" =>
    /\ DOMAIN files = Elements(Files)
    /\ \E es \in {files[f].events : f \in DOMAIN files} :
         es # <<>> /\ \A f \in DOMAIN files : files[f] = [events |-> es, whole |-> TRUE]

\* "a simulated event can never be reported as live capture" (runtime/events.py:63): a
\* file calls an event live only if that event was published as live.
NeverRelabelled ==
  \A e \in Written : e.mode = "live" =>
    \E in \in Published : \E item \in Elements(in.items) : item.id = e.id /\ item.mode = "live"

\* "Loads events from runtime-events.json or returns default verified simulation events"
\* (reporting/evidence.py:152): one or the other, never both in a package.
OneSource ==
  phase = "done" => Elements(events) \subseteq Elements(Baseline)
                      \/ Elements(events) \cap Elements(Baseline) = {}

\* "Captures live logs and constraint statuses from Kubernetes if accessible"
\* (reporting/evidence.py:39).
AccessibleCaptured ==
  captured # <<>> /\ cluster = "online" => captured[1] # {}
================================================================================
