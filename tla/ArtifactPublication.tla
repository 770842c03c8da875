--------------------------- MODULE ArtifactPublication --------------------------
(***************************************************************************)
(* The last part of run_pipeline (runtime/pipeline.py): five artifacts,    *)
(* the manifest last, each written first to the attempt's own directory    *)
(* artifacts/runs/<mode>-<run id> and then to artifacts/runtime, every     *)
(* time through a .tmp file and os.replace.  The process may die anywhere; *)
(* the next attempt starts over.  Meanwhile the exporter and the scorecard *)
(* read artifacts/runtime, one file after the other.                       *)
(*                                                                         *)
(* One attempt runs at a time here; what several at once do to the .tmp    *)
(* names they share is ConcurrentPublication.  A .tmp file left by a dead  *)
(* attempt is truncated when the same name is opened again, so only the    *)
(* .tmp file now being written is kept in the state.                       *)
(***************************************************************************)
EXTENDS Integers, Sequences

CONSTANTS
  MaxAttempts,  \* bound of the model: attempts of the pipeline
  RunIdOf,      \* the run id of an attempt; THREATGUARD_RUN_ID may repeat one
  Absent        \* no such file

ASSUME PublicationAssumption ==
  /\ MaxAttempts \in Nat
  /\ RunIdOf \in [1 .. MaxAttempts -> Nat]
  /\ Absent \notin [by : 1 .. MaxAttempts, bytes : {"some", "all"}]

Attempts == 1 .. MaxAttempts

\* the artifacts, numbered in the order of the dict
TetragonRaw     == 1
RuntimeEvents   == 2
IncidentReports == 3
RiskAssessment  == 4
RunManifest     == 5
Artifacts       == TetragonRaw .. RunManifest

Content == [by : Attempts, bytes : {"some", "all"}]   \* whose bytes, and whether all of them
File    == Content \cup {Absent}
RunIds  == {RunIdOf[a] : a \in Attempts}

VARIABLES
  attempt,  \* the latest attempt, 0 before the first
  phase,    \* whether it is in the publishing loop
  file,     \* the artifact it is at
  dir,      \* "archive" (run_dir) or "out" (artifacts/runtime)
  tmp,      \* the .tmp file it is writing
  archive,  \* run id -> artifact -> file
  out,      \* artifact -> file
  order,    \* what the reader reads, in this order
  seen      \* what it has read so far

writerVars == <<attempt, phase, file, dir, tmp, archive, out>>
readerVars == <<order, seen>>
vars == <<writerVars, readerVars>>

\* render_metrics reads the events before the manifest, generate_scorecard after it
ExporterOrder  == <<RuntimeEvents, RunManifest>>
ScorecardOrder == <<RunManifest, RuntimeEvents>>

TypeOK ==
  /\ attempt \in 0 .. MaxAttempts
  /\ phase \in {"idle", "publishing"} /\ (phase = "publishing" => attempt \in Attempts)
  /\ file \in Artifacts /\ dir \in {"archive", "out"}
  /\ tmp \in File
  /\ archive \in [RunIds -> [Artifacts -> File]]
  /\ out \in [Artifacts -> File]

Init ==
  /\ attempt = 0 /\ phase = "idle"
  /\ file = TetragonRaw /\ dir = "archive"
  /\ tmp = Absent
  /\ archive = [r \in RunIds |-> [f \in Artifacts |-> Absent]]
  /\ out = [f \in Artifacts |-> Absent]
  /\ order \in {ExporterOrder, ScorecardOrder} /\ seen = << >>
---------------------------------------------------------------------------------
(* The writer *)

\* mutant: the directory is named after the mode alone
ArchiveOfMode(a) == RunIdOf[1]

ArchiveOf(a) == RunIdOf[a]

\* an attempt reaches the loop with all its evidence in memory
Begin ==
  /\ phase = "idle" /\ attempt < MaxAttempts
  /\ attempt' = attempt + 1
  /\ phase' = "publishing"
  /\ file' = TetragonRaw /\ dir' = "archive"
  /\ tmp' = Absent
  /\ UNCHANGED <<archive, out, readerVars>>

\* tmp.write_text: opening truncates ...
OpenTmp ==
  /\ phase = "publishing" /\ tmp = Absent
  /\ tmp' = [by |-> attempt, bytes |-> "some"]
  /\ UNCHANGED <<attempt, phase, file, dir, archive, out, readerVars>>

\* ... and the bytes follow
FillTmp ==
  /\ phase = "publishing" /\ tmp # Absent /\ tmp.bytes = "some"
  /\ tmp' = [by |-> attempt, bytes |-> "all"]
  /\ UNCHANGED <<attempt, phase, file, dir, archive, out, readerVars>>

\* mutant: artifacts/runtime before the attempt's own directory; manifest before the rest
AdvanceToOut ==
  /\ dir' = "out"
  /\ file' = IF file # RunManifest THEN file + 1 ELSE file
  /\ phase' = IF file = RunManifest THEN "idle" ELSE "publishing"

AdvanceManifestFirst ==
  /\ dir' = IF dir = "archive" THEN "out" ELSE "archive"
  /\ file' = IF dir = "out"
             THEN IF file = TetragonRaw THEN RunManifest
                  ELSE IF file = RunManifest THEN RuntimeEvents ELSE file + 1
             ELSE file
  /\ phase' = IF dir = "out" /\ file = RiskAssessment THEN "idle" ELSE "publishing"

\* for name ...: for directory in (run_dir, out_dir): on to the next pair
Advance ==
  /\ dir' = IF dir = "archive" THEN "out" ELSE "archive"
  /\ file' = IF dir = "out" /\ file # RunManifest THEN file + 1 ELSE file
  /\ phase' = IF dir = "out" /\ file = RunManifest THEN "idle" ELSE "publishing"

\* os.replace(tmp, directory / name)
Replace ==
  /\ phase = "publishing" /\ tmp # Absent /\ tmp.bytes = "all"
  /\ \/ dir = "archive" /\ archive' = [archive EXCEPT ![ArchiveOf(attempt)][file] = tmp] /\ out' = out
     \/ dir = "out" /\ out' = [out EXCEPT ![file] = tmp] /\ archive' = archive
  /\ tmp' = Absent
  /\ Advance
  /\ UNCHANGED <<attempt, readerVars>>

\* the process is killed, or a write raises
Crash ==
  /\ phase = "publishing"
  /\ phase' = "idle"
  /\ UNCHANGED <<attempt, file, dir, tmp, archive, out, readerVars>>
---------------------------------------------------------------------------------
(* A reader of artifacts/runtime *)

ReadNext ==
  /\ Len(seen) < Len(order)
  /\ seen' = Append(seen, out[order[Len(seen) + 1]])
  /\ UNCHANGED <<writerVars, order>>

\* the next scrape, or the next report
ReadAgain ==
  /\ Len(seen) = Len(order)
  /\ seen' = << >>
  /\ order' \in {ExporterOrder, ScorecardOrder}
  /\ UNCHANGED writerVars

Next == Begin \/ OpenTmp \/ FillTmp \/ Replace \/ Crash \/ ReadNext \/ ReadAgain

Spec == Init /\ [][Next]_vars
---------------------------------------------------------------------------------
(* What a reader of the directory may rely on *)

By(f) == IF f = Absent THEN 0 ELSE f.by

\* The manifest is the commit record of a publication: when it names an attempt, no other
\* artifact next to it is older, whichever attempts died half way before or since.
ManifestCommits ==
  \A f \in Artifacts : By(out[RunManifest]) <= By(out[f])

\* What is published is never all there is: it was archived first, under the attempt's
\* own run id, and the archived file is not older than the published one.
PublishedIsArchived ==
  \A f \in Artifacts :
    out[f] # Absent => By(out[f]) <= By(archive[ArchiveOf(By(out[f]))][f])

\* A file a reader can see is never cut off, even by a crash in the middle of a write.
NoTornArtifact ==
  /\ \A f \in Artifacts : out[f] # Absent => out[f].bytes = "all"
  /\ \A r \in RunIds, f \in Artifacts : archive[r][f] # Absent => archive[r][f].bytes = "all"

\* A report that reads the manifest first never pairs it with events of an earlier
\* attempt (scorecard.py:61-62), although the files are replaced while it reads.
ScorecardNeverPairsOlderEvents ==
  order = ScorecardOrder /\ Len(seen) = 2 => By(seen[1]) <= By(seen[2])

\* Once an archive has its manifest nothing in it changes any more.
ArchiveImmutable ==
  [][\A r \in RunIds : archive[r][RunManifest] # Absent => archive'[r] = archive[r]]_vars

\* The docstring of pipeline.py: the per-run directory is immutable, so one with a manifest
\* holds the evidence of one attempt.
ArchiveOfOneAttempt ==
  \A r \in RunIds :
    archive[r][RunManifest] # Absent =>
      \A f \in Artifacts : By(archive[r][f]) = By(archive[r][RunManifest])

\* The inductive strengthening.  Nothing is newer than the attempt that runs; what the loop
\* has passed is this attempt's, what it has not reached is not.
PublicationInv ==
  /\ TypeOK
  /\ \A f \in Artifacts : By(out[f]) <= attempt
  /\ \A r \in RunIds, f \in Artifacts : By(archive[r][f]) <= attempt
  /\ tmp # Absent => tmp.by = attempt
  /\ phase = "publishing" =>
       /\ \A f \in Artifacts : f < file => By(out[f]) = attempt
       /\ dir = "out" => By(archive[ArchiveOf(attempt)][file]) = attempt
       /\ By(out[RunManifest]) < attempt
       /\ file # RunManifest \/ dir # "out" => By(archive[ArchiveOf(attempt)][RunManifest]) < attempt
  /\ ManifestCommits /\ PublishedIsArchived /\ NoTornArtifact

\* What the reader holds was in the directory when it was read, and events only get newer.
ReaderInv ==
  /\ order \in {ExporterOrder, ScorecardOrder}
  /\ seen \in Seq(File) /\ Len(seen) <= 2
  /\ order = ScorecardOrder /\ Len(seen) = 1 => By(seen[1]) <= By(out[RuntimeEvents])
  /\ ScorecardNeverPairsOlderEvents

\* The docstring of pipeline.py: the artifacts are published atomically, so those of the
\* current manifest and no others are what a reader of the directory finds.
PublishedAtomically ==
  out[RunManifest] # Absent => \A f \in Artifacts : By(out[f]) = By(out[RunManifest])
---------------------------------------------------------------------------------
(* The ledger it implements, when no run id is used twice *)

Archived == {a \in Attempts : By(archive[ArchiveOf(a)][RunManifest]) = a}

Ledger == INSTANCE EvidenceLedger WITH archived <- Archived, current <- By(out[RunManifest])

\* Publishing through files is recording an attempt and then making it current, never an
\* earlier one again (pipeline.py:303-311).
ImplementsLedger == Ledger!Spec
=================================================================================
