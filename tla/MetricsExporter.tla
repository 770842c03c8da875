---------------------------- MODULE MetricsExporter ----------------------------
(***************************************************************************)
(* One scrape of the exporter (observability/metrics_exporter.py): the     *)
(* response begins before anything is read, then four artifacts and the    *)
(* incident store are read one after the other, while the pipeline, the    *)
(* admission check, the scorecard and the demo rewrite them.               *)
(*                                                                         *)
(* An artifact is [state, origins, up]: "missing", "corrupt" (no JSON),    *)
(* "alien" (JSON of another type) or "ok" and as its writers write it,     *)
(* with the origins its evidence names.  Those of the runtime events are   *)
(* the ones of its RUNTIME- events, of which there may be none; a report   *)
(* without runtime figures names none; up is the manifest's collector.     *)
(***************************************************************************)
EXTENDS Integers, Sequences

CONSTANT
  MaxRewrites  \* bound of the model: artifacts rewritten

ExporterAssumption == MaxRewrites \in Nat

\* in the order render_metrics reads them
Artifacts == <<"admission_results", "runtime_events", "run_manifest", "security_report">>
Names == {Artifacts[k] : k \in DOMAIN Artifacts}

Origins == {"live", "demo", "other"}
Artifact(state, origins, up) == [state |-> state, origins |-> origins, up |-> up]
Missing == Artifact("missing", {}, FALSE)

\* what a file of that name can name as its origins
OriginsOf(n) ==
  IF n = "runtime_events" THEN SUBSET Origins
  ELSE {{o} : o \in Origins} \cup IF n = "security_report" THEN {{}} ELSE {}

\* and hold; only a capture has a collector that is ok
Contents(n) ==
  {Artifact(s, {}, FALSE) : s \in {"missing", "corrupt", "alien"}}
  \cup {Artifact("ok", os, FALSE) : os \in OriginsOf(n)}
  \cup IF n = "run_manifest" THEN {Artifact("ok", {"live"}, TRUE)} ELSE {}

VARIABLES
  store,    \* cross-domain-incidents.json, see IncidentStore
  art,      \* name -> Artifact
  rewrites,
  read,     \* what this scrape has read so far
  body,     \* the last response: "none", "empty" or its content
  torn      \* the incident store was torn when it was read

exporterVars == <<art, rewrites, read, body, torn>>

NoBody == [kind |-> "none", valid |-> {}, series |-> {}, up |-> FALSE]

Init ==
  /\ art \in [Names -> {Missing, Artifact("ok", {"live"}, FALSE)}]
  /\ rewrites = 0 /\ read = <<>> /\ body = NoBody /\ torn = FALSE

Rewrite(n, c) ==
  /\ rewrites < MaxRewrites /\ rewrites' = rewrites + 1
  /\ art' = [art EXCEPT ![n] = c]
  /\ UNCHANGED <<store, read, body, torn>>

\* _read_artifact, and the check of its type
Valid(a) == a.state = "ok"

\* mutant: what has no label is live
LabelLive(o) == IF o = "other" THEN "live" ELSE o

\* _origin
Label(o) == IF o = "other" THEN "unknown" ELSE o

ReadNext ==
  /\ Len(read) < Len(Artifacts)
  /\ read' = Append(read, art[Artifacts[Len(read) + 1]])
  /\ UNCHANGED <<store, art, rewrites, body, torn>>

ValidReads == {k \in DOMAIN Artifacts : Valid(read[k])}

ReadOf(n) == CHOOSE k \in DOMAIN Artifacts : Artifacts[k] = n

Manifest == read[ReadOf("run_manifest")]

\* a series for every origin that a readable artifact names
Series(k) == {<<Artifacts[k], Label(o)>> : o \in read[k].origins}

\* those of the manifest are there without it: of unknown origin, its collector not up
Unread == IF Valid(Manifest) THEN {} ELSE {<<"run_manifest", "unknown">>}

Render ==
  [kind |-> "full",
   valid |-> {Artifacts[k] : k \in ValidReads},
   series |-> Unread \cup UNION {Series(k) : k \in ValidReads},
   up |-> Valid(Manifest) /\ Manifest.up]

\* _cross_domain_section: a torn store raises, with the header already sent; its gauges,
\* which have no origin, are left out
Finish ==
  /\ Len(read) = Len(Artifacts)
  /\ read' = <<>>
  /\ torn' = (store.kind = "torn")
  /\ body' = IF store.kind = "torn" THEN [NoBody EXCEPT !.kind = "empty"] ELSE Render
  /\ UNCHANGED <<store, art, rewrites>>

Next ==
  \/ \E n \in Names : \E c \in Contents(n) : Rewrite(n, c)
  \/ ReadNext \/ Finish

Spec == Init /\ [][Next]_<<store, exporterVars>>
--------------------------------------------------------------------------------
(* Properties *)

TypeOK ==
  /\ \A n \in Names : art[n] \in Contents(n)
  /\ DOMAIN art = Names /\ rewrites \in 0 .. MaxRewrites
  /\ Len(read) <= Len(Artifacts) /\ \A k \in DOMAIN read : read[k] \in Contents(Artifacts[k])
  /\ body.kind \in {"none", "empty", "full"} /\ body.valid \subseteq Names
  /\ body.series \subseteq Names \X {"live", "demo", "unknown"} /\ body.up \in BOOLEAN

\* "Missing or corrupt evidence omits the affected series and sets artifact_valid to 0, so
\* unavailable data is never displayed as a healthy zero" (metrics_exporter.py:10), with
\* artifacts that come, go and break while the scrape reads: no series of an artifact that
\* is not called valid, but for those of the manifest, which stay, of unknown origin and
\* with a collector that is not up; and admission results that are called valid have theirs.
MissingIsNotZero ==
  /\ \A s \in body.series : s[1] \in body.valid \/ s = <<"run_manifest", "unknown">>
  /\ body.up => "run_manifest" \in body.valid
  /\ \A n \in body.valid \ {"runtime_events", "security_report"} : \E s \in body.series : s[1] = n

\* What a scrape that ends shows as live, or as demo, is what it read as such in that
\* artifact, no more and no less: neither a rewrite in between nor a missing label makes
\* evidence live, and one artifact never lends its origin to another.
ShowsWhatItRead ==
  read # <<>> /\ read' = <<>> /\ body'.kind = "full" =>
    \A k \in DOMAIN Artifacts, o \in {"live", "demo"} :
      <<Artifacts[k], o>> \in body'.series <=> Valid(read[k]) /\ o \in read[k].origins

OriginsAsRead == [][ShowsWhatItRead]_exporterVars

\* The same sentence of metrics_exporter.py:10, for the incident store: evidence that
\* cannot be read never costs the rest of the scrape.
ScrapeAnswers == body.kind # "empty"
================================================================================
