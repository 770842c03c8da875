---------------------------- MODULE DetectionEngine ----------------------------
(***************************************************************************)
(* detection/engine.py turns one raw Tetragon event into at most one       *)
(* detection; detection/rules.py declares the same rules once more, with a *)
(* registry in which they can be switched off.  The engine hard-codes its  *)
(* matching, so the two tables have to agree.                              *)
(*                                                                         *)
(* Binaries are reduced to the family a rule names, paths to how they      *)
(* relate to a sensitive path, function names to the substrings the engine *)
(* looks for.  hole marks an event whose optional record (parent, cap,     *)
(* file_arg, sock_arg or evidence) is present and null.                    *)
(***************************************************************************)
EXTENDS Naturals, Sequences, FiniteSets

CONSTANTS
  Namespaces, \* namespaces events come from
  Protected,  \* protected_namespace, "" for none
  Events,     \* raw events: [shape, ns, arg, func, hole]
  Files,      \* what ingest_file may be given: sequences of events and other lines
  Switchable, \* rules that are switched on and off
  MaxSeen     \* bound of the model: events processed

RuleIds == {"R1", "R2", "R3", "R4", "R5", "R6", "R7", "K7", "K8", "K9"}
NoRule  == "none"
Raised  == "raised"
Broken  == "broken"

EngineAssumption ==
  /\ Protected \in Namespaces \cup {""}
  /\ Switchable \subseteq RuleIds /\ MaxSeen \in Nat
  /\ \A f \in Files : f \in Seq({f[k] : k \in DOMAIN f})

Families == {"shell", "netutil", "recon", "nsenter", "privesc", "miner", "pkgmgr", "app"}
Paths    == {"exact", "below", "within", "plain"}

\* register(): target_binaries of the default rules, by family
Targets == [r \in RuleIds |->
  CASE r = "R1" -> {"shell"}   [] r = "R2" -> {"netutil"}
    [] r = "R3" -> {"recon"}   [] r = "R5" -> {"nsenter", "privesc"}
    [] r = "R7" -> {"miner"}   [] r = "K7" -> {"pkgmgr"}
    [] r = "K8" -> {"nsenter"} [] OTHER -> {}]

\* rule.evaluate for an enabled rule: its binaries, then its paths, which may lie
\* anywhere in the accessed path
Matches(r, binary, path) ==
  \/ binary \in Targets[r]
  \/ r = "R4" /\ path \in {"exact", "below", "within"}

--------------------------------------------------------------------------------
(* The engine *)

OutOfScope(e) == Protected # "" /\ e.ns # Protected

\* the if-chain over the basename
ExecRule(binary) ==
  CASE binary = "shell"   -> "R1"
    [] binary = "netutil" -> "R2"
    [] binary = "recon"   -> "R3"
    [] binary \in {"nsenter", "privesc"} -> "R5"
    [] binary = "miner"   -> "R7"
    [] OTHER -> NoRule

\* _handle_process_exec; the evidence of three rules reads an optional record
HandleExec(e) ==
  LET rule == ExecRule(e.arg)
  IN IF OutOfScope(e) THEN NoRule
     ELSE IF e.hole /\ rule \in {"R1", "R2", "R5"} THEN Raised
     ELSE rule

\* mutant: an execve with no process record is passed on to the file rules
HandleKprobeNoExec(e) ==
  IF ~OutOfScope(e) /\ "file" \in e.func /\ e.arg \in {"exact", "below"} THEN "R4" ELSE NoRule

\* _handle_kprobe: execve as an exec, then files, then connections
HandleKprobe(e) ==
  IF OutOfScope(e) THEN NoRule
  ELSE IF "execve" \in e.func THEN HandleExec(e)
  ELSE IF e.hole /\ e.func \cap {"file", "connect"} # {} THEN Raised
  ELSE IF "file" \in e.func /\ e.arg \in {"exact", "below"} THEN "R4"
  ELSE IF "connect" \in e.func THEN "R6"
  ELSE NoRule

\* _handle_generic_event: a flat event names its rule, and no namespace is asked; the
\* detection writes the command into the evidence it is given
HandleFlat(e) ==
  IF e.arg \notin RuleIds THEN NoRule ELSE IF e.hole THEN Raised ELSE e.arg

\* _evaluate_raw_event; JSON that is no object has no get
Verdict(e) ==
  CASE e.shape = "exec"   -> HandleExec(e)
    [] e.shape = "kprobe" -> HandleKprobe(e)
    [] e.shape = "flat"   -> HandleFlat(e)
    [] e.shape = "scalar" -> Raised
    [] OTHER -> NoRule
--------------------------------------------------------------------------------
VARIABLES
  enabled,    \* rules switched on in the registry
  detections, \* engine.detections: [rule, event, on]; on is a history: was the rule enabled
  processed,  \* total_events_processed
  status,     \* "idle", "ingesting", "ingested"; Raised or Broken: one event, or a file of
              \* them, gave its caller an exception
  file,       \* lines ingest_file has yet to read
  given,      \* history: the whole file being, or last, ingested
  base,       \* history: detections there were before it
  judged      \* history: every event looked at, with the engine's answer

vars == <<enabled, detections, processed, status, file, given, base, judged>>

Detection(e) == [rule |-> Verdict(e), event |-> e, on |-> Verdict(e) \in enabled]

Init ==
  /\ enabled = RuleIds /\ detections = <<>> /\ processed = 0
  /\ status = "idle" /\ file = <<>> /\ given = <<>> /\ base = 0
  /\ judged = {}

\* process_raw_tetragon_event, recorded
ProcessEvent(e) ==
  /\ status \in {"idle", "ingested"} /\ processed < MaxSeen
  /\ processed' = processed + 1
  /\ status' = IF Verdict(e) = Raised THEN Raised ELSE "idle"
  /\ detections' = IF Verdict(e) \in RuleIds THEN Append(detections, Detection(e)) ELSE detections
  /\ judged' = judged \cup {<<e, Verdict(e)>>}
  /\ UNCHANGED <<enabled, file, given, base>>

Unparsed(l) == l.shape \in {"blank", "badjson"}

OpenFile(f) ==
  /\ status \in {"idle", "ingested"}
  /\ processed + Cardinality({k \in 1 .. Len(f) : ~Unparsed(f[k])}) <= MaxSeen
  /\ status' = "ingesting" /\ file' = f /\ given' = f /\ base' = Len(detections)
  /\ UNCHANGED <<enabled, detections, processed, judged>>

\* mutant: a line that is no JSON ends the file
RestNoneAfterBad(l) == IF l.shape = "badjson" THEN <<>> ELSE Tail(file)
\* a turn of ingest_file's loop: only a line that is no JSON is passed over
RestOfFile(l) == Tail(file)

Counted(l) == IF Unparsed(l) THEN 0 ELSE 1

ReadLine ==
  /\ status = "ingesting" /\ file # <<>>
  /\ LET l == Head(file) IN
     /\ processed' = processed + Counted(l)
     /\ detections' = IF Verdict(l) \in RuleIds THEN Append(detections, Detection(l)) ELSE detections
     /\ judged' = IF Unparsed(l) THEN judged ELSE judged \cup {<<l, Verdict(l)>>}
     /\ status' = IF Verdict(l) = Raised THEN Broken ELSE status
     /\ file' = RestOfFile(l)
  /\ UNCHANGED <<enabled, given, base>>

CloseFile ==
  /\ status = "ingesting" /\ file = <<>>
  /\ status' = "ingested"
  /\ UNCHANGED <<enabled, detections, processed, file, given, base, judged>>

\* enable_rule, disable_rule
SwitchRule(r) ==
  /\ status \in {"idle", "ingested"}
  /\ enabled' = (IF r \in enabled THEN enabled \ {r} ELSE enabled \cup {r})
  /\ UNCHANGED <<detections, processed, status, file, given, base, judged>>

Next ==
  \/ \E e \in Events : ProcessEvent(e)
  \/ \E f \in Files : OpenFile(f)
  \/ ReadLine \/ CloseFile
  \/ \E r \in Switchable : SwitchRule(r)

Spec == Init /\ [][Next]_vars
--------------------------------------------------------------------------------
(* Properties *)

TypeOK ==
  /\ enabled \subseteq RuleIds
  /\ \A i \in 1 .. Len(detections) : detections[i].rule \in RuleIds
  /\ processed \in 0 .. MaxSeen
  /\ status \in {"idle", "ingesting", "ingested", Raised, Broken}
  /\ base \in 0 .. Len(detections)
  /\ Len(detections) <= processed \* a detection comes from an event that was counted

\* The two rule tables agree.  What the engine reports of a binary or a file, the
\* rule of that name in rules.py matches too; and a binary of the protected
\* namespace that one of the RUNTIME rules of rules.py names is reported, or, where the
\* evidence of its rule reads a record that is null, raises.
AgreesWithRegistry ==
  \A j \in judged :
    LET e == j[1]
        rule == j[2]
        named(rules) == \E r \in rules : Matches(r, e.arg, "plain")
    IN /\ e.shape \in {"exec", "kprobe"} /\ rule \in RuleIds \ {"R6"} => Matches(rule, e.arg, e.arg)
       /\ /\ e.shape = "exec" \/ (e.shape = "kprobe" /\ "execve" \in e.func)
          /\ ~OutOfScope(e) /\ named({"R1", "R2", "R3", "R5", "R7"})
          => \/ rule \in RuleIds
             \/ rule = Raised /\ e.hole /\ named({"R1", "R2", "R5"})

\* A binary is judged alike whether the sensor reports it as an exec or through the
\* hook of a blocking policy (the comment at engine.py:237-240), so a policy that
\* kills a shell does not hide it.
SameExecSameRule ==
  \A i, j \in judged :
    /\ i[1].shape = "exec" /\ j[1].shape = "kprobe" /\ "execve" \in j[1].func
    /\ i[1].ns = j[1].ns /\ i[1].arg = j[1].arg /\ i[1].hole = j[1].hole
    => i[2] = j[2]

\* the lines of the file that are detections, and which of them line k is
Hits    == {k \in 1 .. Len(given) : Verdict(given[k]) \in RuleIds}
Rank(k) == Cardinality({m \in Hits : m <= k})
Read    == Len(given) - Len(file)

\* At every moment of an ingestion, the engine holds what each line read so far would give
\* alone, in order: a blank line and one that is no JSON cost nothing but themselves.  A
\* line that raises costs the lines after it, and is the only thing that costs any: a file
\* with no such line is read to its end, and what came before it stays.
IngestLosesNothing ==
  status \in {"ingesting", "ingested", Broken} =>
    /\ Len(detections) = base + Cardinality({k \in Hits : k <= Read})
    /\ \A k \in Hits : k <= Read =>
         LET found == detections[base + Rank(k)]
         IN found.rule = Verdict(given[k]) /\ found.event = given[k]
    /\ \A k \in 1 .. Read : Verdict(given[k]) = Raised <=> status = Broken /\ k = Read
    /\ status = "ingested" => Read = Len(given)

\* "disable_rule: Disable a rule" (rules.py:115-116): a rule that is switched off
\* gives no detection.
DisabledRuleIsSilent == \A i \in 1 .. Len(detections) : detections[i].on

\* The engine "should gracefully ignore or reject empty/corrupted dicts without
\* unhandled exceptions" (tests/integration/detection/
\* test_resilience_and_failure_modes.py:28).
NoUnhandledException == status \notin {Raised, Broken}
================================================================================
