------------------------ MODULE ArtifactPublicationProofs -----------------------
(***************************************************************************)
(* Proofs about ArtifactPublication for every number of attempts and every *)
(* assignment of run ids: what a reader of artifacts/runtime may rely on,  *)
(* and, when no run id is used twice, that publication implements the      *)
(* evidence ledger.  PublicationInv carries both: nothing on disk is newer *)
(* than the attempt that runs, everything its loop has passed is its own,  *)
(* and the manifest comes last.                                            *)
(***************************************************************************)
EXTENDS ArtifactPublication, TLAPS

USE PublicationAssumption

\* A file is absent or the content of one attempt, and its number is a natural.
LEMMA FileFacts ==
  ASSUME NEW f \in File
  PROVE  /\ By(f) \in 0 .. MaxAttempts
         /\ f # Absent => f \in Content /\ By(f) = f.by /\ By(f) \in Attempts
  BY DEF File, Content, By, Attempts

LEMMA TypeFacts ==
  ASSUME TypeOK
  PROVE  /\ \A f \in Artifacts : out[f] \in File
         /\ \A r \in RunIds, f \in Artifacts : archive[r][f] \in File
         /\ \A a \in Attempts : ArchiveOf(a) \in RunIds
         /\ attempt \in Nat /\ tmp \in File
  BY DEF TypeOK, RunIds, ArchiveOf, Attempts

LEMMA ArtifactFacts ==
  /\ Artifacts \subseteq Int
  /\ TetragonRaw \in Artifacts /\ RuntimeEvents \in Artifacts /\ RunManifest \in Artifacts
  /\ \A f \in Artifacts : f <= RunManifest /\ (f # RunManifest => f + 1 \in Artifacts /\ f < RunManifest)
  /\ \A f, g \in Artifacts : f < g + 1 <=> (f < g \/ f = g)
  /\ \A f \in Artifacts : ~ (f < TetragonRaw)
  BY DEF Artifacts, TetragonRaw, RuntimeEvents, RunManifest

LEMMA InitInv == Init => PublicationInv /\ ReaderInv
<1> SUFFICES ASSUME Init PROVE PublicationInv /\ ReaderInv
  OBVIOUS
<1>1. TypeOK
  <2>1. attempt \in 0 .. MaxAttempts /\ phase = "idle"
    BY DEF Init
  <2>2. file \in Artifacts /\ dir \in {"archive", "out"} /\ tmp \in File
    BY ArtifactFacts DEF Init, File
  <2>3. archive \in [RunIds -> [Artifacts -> File]] /\ out \in [Artifacts -> File]
    BY DEF Init, File
  <2> QED
    BY <2>1, <2>2, <2>3 DEF TypeOK
<1>2. /\ \A f \in Artifacts : out[f] = Absent
      /\ \A r \in RunIds, f \in Artifacts : archive[r][f] = Absent
      /\ RunManifest \in Artifacts /\ RuntimeEvents \in Artifacts
  BY ArtifactFacts DEF Init
<1>3. PublicationInv
  BY <1>1, <1>2 DEF Init, PublicationInv, By, ManifestCommits, PublishedIsArchived, NoTornArtifact
<1>4. ReaderInv
  BY DEF Init, ReaderInv, ScorecardNeverPairsOlderEvents
<1> QED
  BY <1>3, <1>4

\* The step that moves a .tmp file to its name, on either side of the loop.
LEMMA ReplaceInv ==
  ASSUME PublicationInv, Replace
  PROVE  PublicationInv' /\ By(out[RuntimeEvents]) <= By(out'[RuntimeEvents])
<1>0. TypeOK /\ phase = "publishing" /\ tmp # Absent /\ tmp.bytes = "all" /\ tmp.by = attempt
  BY DEF Replace, PublicationInv
<1>1. /\ phase = "publishing" /\ tmp \in Content /\ tmp.bytes = "all" /\ tmp.by = attempt /\ By(tmp) = attempt
      /\ attempt \in Attempts /\ attempt \in Nat /\ attempt' = attempt
      /\ tmp' = Absent /\ file \in Artifacts /\ dir \in {"archive", "out"}
      /\ tmp \in File
  <2>1. tmp \in File /\ attempt \in Attempts /\ file \in Artifacts /\ dir \in {"archive", "out"}
    BY <1>0 DEF TypeOK
  <2>2. tmp \in Content /\ By(tmp) = tmp.by
    BY <1>0, <2>1, FileFacts
  <2>3. attempt' = attempt /\ tmp' = Absent
    BY DEF Replace
  <2> QED
    BY <1>0, <2>1, <2>2, <2>3 DEF Attempts
<1>2. /\ ArchiveOf(attempt) \in RunIds
      /\ \A f \in Artifacts : out[f] \in File /\ By(out[f]) \in Nat
      /\ \A r \in RunIds, f \in Artifacts : archive[r][f] \in File /\ By(archive[r][f]) \in Nat
  <2>1. \A f \in File : By(f) \in Nat
    BY FileFacts
  <2> QED
    BY <1>0, <1>1, <2>1, TypeFacts
<1>3. /\ \A f \in Artifacts : By(out[f]) <= attempt
      /\ \A r \in RunIds, f \in Artifacts : By(archive[r][f]) <= attempt
      /\ \A f \in Artifacts : f < file => By(out[f]) = attempt
      /\ By(out[RunManifest]) < attempt
      /\ dir = "out" => By(archive[ArchiveOf(attempt)][file]) = attempt
      /\ file # RunManifest \/ dir # "out" => By(archive[ArchiveOf(attempt)][RunManifest]) < attempt
      /\ ManifestCommits /\ PublishedIsArchived /\ NoTornArtifact
  BY <1>1 DEF PublicationInv
<1>4. CASE dir = "archive"
  <2>1. /\ archive' = [archive EXCEPT ![ArchiveOf(attempt)][file] = tmp] /\ out' = out
        /\ dir' = "out" /\ file' = file /\ phase' = "publishing"
    BY <1>1, <1>4 DEF Replace, Advance
  <2>2. \A r \in RunIds, f \in Artifacts :
           archive'[r][f] = IF r = ArchiveOf(attempt) /\ f = file THEN tmp ELSE archive[r][f]
    BY <1>1, <1>2, <2>1 DEF PublicationInv, TypeOK
  <2>3. TypeOK'
    <3>1. archive' \in [RunIds -> [Artifacts -> File]]
      BY <1>0, <1>1, <1>2, <2>1 DEF TypeOK
    <3> QED
      BY <1>0, <1>1, <2>1, <3>1 DEF TypeOK, File
  <2>4. ASSUME NEW r \in RunIds, NEW f \in Artifacts
        PROVE  /\ By(archive[r][f]) <= By(archive'[r][f]) /\ By(archive'[r][f]) <= attempt
               /\ By(archive'[r][f]) \in Nat
    <3>1. CASE r = ArchiveOf(attempt) /\ f = file
      <4>1. archive'[r][f] = tmp
        BY <2>2, <3>1
      <4> QED
        BY <1>1, <1>3, <4>1
    <3>2. CASE ~ (r = ArchiveOf(attempt) /\ f = file)
      <4>1. archive'[r][f] = archive[r][f] /\ By(archive[r][f]) \in Nat
        BY <1>2, <2>2, <3>2
      <4> QED
        BY <1>3, <4>1
    <3> QED
      BY <3>1, <3>2
  <2>5. PublishedIsArchived'
    <3> SUFFICES ASSUME NEW f \in Artifacts, out[f] # Absent
                 PROVE  By(out[f]) <= By(archive'[ArchiveOf(By(out[f]))][f])
      BY <2>1 DEF PublishedIsArchived, ArchiveOf
    <3>1. By(out[f]) \in Attempts /\ ArchiveOf(By(out[f])) \in RunIds
      BY <1>2, FileFacts DEF ArchiveOf, RunIds
    <3>2. By(out[f]) <= By(archive[ArchiveOf(By(out[f]))][f])
      BY <1>3 DEF PublishedIsArchived
    <3>3. /\ By(out[f]) \in Nat
          /\ By(archive[ArchiveOf(By(out[f]))][f]) \in Nat
          /\ By(archive[ArchiveOf(By(out[f]))][f]) <= By(archive'[ArchiveOf(By(out[f]))][f])
          /\ By(archive'[ArchiveOf(By(out[f]))][f]) \in Nat
      BY <1>2, <2>4, <3>1
    <3> QED
      BY <3>2, <3>3
  <2>6. NoTornArtifact'
    <3>1. \A r \in RunIds, f \in Artifacts : archive'[r][f] # Absent => archive'[r][f].bytes = "all"
      BY <1>0, <1>3, <2>2 DEF NoTornArtifact
    <3> QED
      BY <1>3, <2>1, <3>1 DEF NoTornArtifact
  <2>7. ManifestCommits' /\ By(out[RuntimeEvents]) <= By(out'[RuntimeEvents])
    <3>1. ManifestCommits'
      BY <1>3, <2>1 DEF ManifestCommits
    <3>2. By(out[RuntimeEvents]) \in Nat /\ out' = out
      BY <1>2, <2>1, ArtifactFacts
    <3>3. By(out[RuntimeEvents]) <= By(out[RuntimeEvents])
      BY <3>2
    <3> QED
      BY <3>1, <3>2, <3>3
  <2>8. /\ \A f \in Artifacts : f < file' => By(out'[f]) = attempt'
        /\ By(archive'[ArchiveOf(attempt')][file']) = attempt'
        /\ By(out'[RunManifest]) < attempt'
        /\ file' # RunManifest => By(archive'[ArchiveOf(attempt')][RunManifest]) < attempt'
        /\ \A f \in Artifacts : By(out'[f]) <= attempt'
    <3>1. archive'[ArchiveOf(attempt)][file] = tmp
      BY <1>1, <1>2, <2>2
    <3>2. file # RunManifest =>
            archive'[ArchiveOf(attempt)][RunManifest] = archive[ArchiveOf(attempt)][RunManifest]
      BY <1>2, <2>2, ArtifactFacts
    <3> QED
      BY <1>1, <1>3, <1>4, <2>1, <3>1, <3>2 DEF ArchiveOf
  <2> QED
    BY <1>1, <2>1, <2>3, <2>4, <2>5, <2>6, <2>7, <2>8 DEF PublicationInv, ArchiveOf
<1>5. CASE dir = "out"
  <2>1. /\ out' = [out EXCEPT ![file] = tmp] /\ archive' = archive
        /\ dir' = "archive"
        /\ file' = IF file # RunManifest THEN file + 1 ELSE file
        /\ phase' = IF file = RunManifest THEN "idle" ELSE "publishing"
    BY <1>1, <1>5 DEF Replace, Advance
  <2>2. \A f \in Artifacts : out'[f] = IF f = file THEN tmp ELSE out[f]
    BY <1>1, <2>1 DEF PublicationInv, TypeOK
  <2>3. TypeOK'
    <3>1. out' \in [Artifacts -> File]
      BY <1>0, <1>1, <2>1 DEF TypeOK
    <3>2. file' \in Artifacts
      BY <1>1, <2>1, ArtifactFacts
    <3> QED
      BY <1>0, <1>1, <2>1, <3>1, <3>2 DEF TypeOK, File
  <2>4. ASSUME NEW f \in Artifacts
        PROVE  By(out[f]) <= By(out'[f]) /\ By(out'[f]) <= attempt /\ By(out'[f]) \in Nat
    <3>1. CASE f = file
      BY <1>1, <1>3, <2>2, <3>1
    <3>2. CASE f # file
      BY <1>2, <1>3, <2>2, <3>2
    <3> QED
      BY <3>1, <3>2
  <2>5. PublishedIsArchived'
    <3> SUFFICES ASSUME NEW f \in Artifacts, out'[f] # Absent
                 PROVE  By(out'[f]) <= By(archive[ArchiveOf(By(out'[f]))][f])
      BY <2>1 DEF PublishedIsArchived, ArchiveOf
    <3>1. CASE f = file
      BY <1>1, <1>3, <1>5, <2>2, <3>1
    <3>2. CASE f # file
      BY <1>3, <2>2, <3>2 DEF PublishedIsArchived
    <3> QED
      BY <3>1, <3>2
  <2>6. NoTornArtifact'
    <3>1. \A f \in Artifacts : out'[f] # Absent => out'[f].bytes = "all"
      BY <1>0, <1>3, <2>2 DEF NoTornArtifact
    <3> QED
      BY <1>3, <2>1, <3>1 DEF NoTornArtifact
  <2>7. ManifestCommits'
    <3>1. CASE file = RunManifest
      <4>1. \A f \in Artifacts : By(out'[f]) = attempt
        BY <1>1, <1>3, <2>2, <3>1, ArtifactFacts
      <4>2. By(out'[RunManifest]) = attempt
        BY <4>1, ArtifactFacts
      <4>3. attempt <= attempt
        BY <1>1
      <4>4. \A f \in Artifacts : By(out'[RunManifest]) <= By(out'[f])
        BY <4>1, <4>2, <4>3
      <4> QED
        BY <4>4 DEF ManifestCommits
    <3>2. CASE file # RunManifest
      <4>1. out'[RunManifest] = out[RunManifest]
        BY <2>2, <3>2, ArtifactFacts
      <4>2. \A f \in Artifacts : By(out[RunManifest]) <= By(out[f])
        BY <1>3 DEF ManifestCommits
      <4>3. By(out[RunManifest]) \in Nat
        BY <1>2, ArtifactFacts
      <4>4. \A f \in Artifacts : By(out[f]) \in Nat /\ By(out[f]) <= By(out'[f]) /\ By(out'[f]) \in Nat
        BY <1>2, <2>4
      <4> QED
        BY <4>4, <4>1, <4>2, <4>3 DEF ManifestCommits
    <3> QED
      BY <3>1, <3>2
  <2>8. phase' = "publishing" => /\ \A f \in Artifacts : f < file' => By(out'[f]) = attempt'
                    /\ By(out'[RunManifest]) < attempt'
                    /\ By(archive[ArchiveOf(attempt')][RunManifest]) < attempt'
    <3> SUFFICES ASSUME file # RunManifest, file' = file + 1
                 PROVE  /\ \A f \in Artifacts : f < file + 1 => By(out'[f]) = attempt
                        /\ By(out'[RunManifest]) < attempt
                        /\ By(archive[ArchiveOf(attempt)][RunManifest]) < attempt
      BY <1>1, <2>1 DEF ArchiveOf
    <3>1. out'[RunManifest] = out[RunManifest]
      BY <2>2, ArtifactFacts
    <3>2. ASSUME NEW f \in Artifacts, f < file + 1 PROVE By(out'[f]) = attempt
      BY <1>1, <1>3, <2>2, <3>2, ArtifactFacts
    <3> QED
      BY <1>3, <3>1, <3>2
  <2>9. By(out[RuntimeEvents]) <= By(out'[RuntimeEvents])
    BY <2>4, ArtifactFacts
  <2>10. /\ \A f \in Artifacts : By(out'[f]) <= attempt'
         /\ \A r \in RunIds, f \in Artifacts : By(archive'[r][f]) <= attempt'
         /\ ~ (tmp' # Absent) /\ ~ (dir' = "out")
    BY <1>1, <1>3, <2>1, <2>4
  <2>11. phase' = "publishing" =>
         /\ \A f \in Artifacts : f < file' => By(out'[f]) = attempt'
         /\ By(out'[RunManifest]) < attempt'
         /\ By(archive'[ArchiveOf(attempt')][RunManifest]) < attempt'
    BY <2>1, <2>8
  <2> QED
    BY <2>3, <2>5, <2>6, <2>7, <2>9, <2>10, <2>11 DEF PublicationInv, ArchiveOf
<1> QED
  BY <1>1, <1>4, <1>5

\* A new attempt: everything on disk is older than it, and it has passed nothing yet.
LEMMA BeginInv ==
  ASSUME PublicationInv, Begin
  PROVE  PublicationInv'
<1>1. /\ TypeOK /\ attempt < MaxAttempts /\ attempt' = attempt + 1 /\ phase' = "publishing"
      /\ file' = TetragonRaw /\ dir' = "archive" /\ tmp' = Absent /\ archive' = archive /\ out' = out
  BY DEF Begin, PublicationInv
<1>2. attempt \in Nat /\ attempt' \in Attempts /\ attempt' \in 0 .. MaxAttempts
  BY <1>1 DEF TypeOK, Attempts
<1>3. TypeOK'
  BY <1>1, <1>2, ArtifactFacts DEF TypeOK, File
<1>4. /\ \A f \in Artifacts : By(out[f]) \in Nat
      /\ \A r \in RunIds, f \in Artifacts : By(archive[r][f]) \in Nat
  <2>1. \A f \in File : By(f) \in Nat
    BY FileFacts
  <2> QED
    BY <1>1, <2>1, TypeFacts
<1>5. /\ \A f \in Artifacts : By(out[f]) < attempt + 1
      /\ \A r \in RunIds, f \in Artifacts : By(archive[r][f]) < attempt + 1
  <2>1. /\ \A f \in Artifacts : By(out[f]) <= attempt
        /\ \A r \in RunIds, f \in Artifacts : By(archive[r][f]) <= attempt
    BY DEF PublicationInv
  <2> QED
    BY <1>2, <1>4, <2>1
<1>6. ArchiveOf(attempt + 1) \in RunIds
  BY <1>1, <1>2 DEF ArchiveOf, RunIds
<1>7. /\ \A f \in Artifacts : By(out'[f]) <= attempt'
      /\ \A r \in RunIds, f \in Artifacts : By(archive'[r][f]) <= attempt'
  BY <1>1, <1>2, <1>4, <1>5
<1>8. /\ \A f \in Artifacts : f < file' => By(out'[f]) = attempt'
      /\ By(out'[RunManifest]) < attempt'
      /\ By(archive'[ArchiveOf(attempt')][RunManifest]) < attempt'
      /\ dir' # "out" /\ tmp' = Absent
  BY <1>1, <1>5, <1>6, ArtifactFacts
<1>9. ManifestCommits' /\ PublishedIsArchived' /\ NoTornArtifact'
  BY <1>1 DEF PublicationInv, ManifestCommits, PublishedIsArchived, NoTornArtifact, ArchiveOf
<1> QED
  BY <1>3, <1>7, <1>8, <1>9 DEF PublicationInv, ArchiveOf

\* The two halves of writing a .tmp file, which no reader opens.
LEMMA TmpInv ==
  ASSUME PublicationInv, OpenTmp \/ FillTmp
  PROVE  PublicationInv'
<1>1. /\ TypeOK /\ phase = "publishing" /\ tmp' \in Content /\ tmp'.by = attempt
      /\ UNCHANGED <<attempt, phase, file, dir, archive, out>>
  <2>1. TypeOK /\ phase = "publishing"
    BY DEF PublicationInv, OpenTmp, FillTmp
  <2>2. attempt \in Attempts
    BY <2>1 DEF TypeOK
  <2>3. tmp' \in Content /\ tmp'.by = attempt
    BY <2>2 DEF OpenTmp, FillTmp, Content
  <2> QED
    BY <2>1, <2>3 DEF OpenTmp, FillTmp
<1>2. TypeOK'
  BY <1>1 DEF TypeOK, File
<1> QED
  BY <1>1, <1>2 DEF PublicationInv, ManifestCommits, PublishedIsArchived, NoTornArtifact, ArchiveOf

\* A dead attempt leaves the files as they are, and steps that touch no file change nothing.
LEMMA QuietInv ==
  ASSUME PublicationInv, Crash \/ UNCHANGED writerVars
  PROVE  PublicationInv'
<1>1. CASE Crash
  <2>1. phase' = "idle" /\ UNCHANGED <<attempt, file, dir, tmp, archive, out>>
    BY <1>1 DEF Crash
  <2>2. TypeOK'
    BY <2>1 DEF PublicationInv, TypeOK
  <2> QED
    BY <2>1, <2>2 DEF PublicationInv, ManifestCommits, PublishedIsArchived, NoTornArtifact
<1>2. CASE UNCHANGED writerVars
  BY <1>2 DEF PublicationInv, TypeOK, ManifestCommits, PublishedIsArchived, NoTornArtifact, writerVars, ArchiveOf
<1> QED
  BY <1>1, <1>2

\* Every step of the writer and the reader keeps the invariant.
LEMMA NextInv ==
  ASSUME PublicationInv, [Next]_vars
  PROVE  PublicationInv'
<1>1. CASE Begin
  BY <1>1, BeginInv
<1>2. CASE OpenTmp \/ FillTmp
  BY <1>2, TmpInv
<1>3. CASE Replace
  BY <1>3, ReplaceInv
<1>4. CASE Crash
  BY <1>4, QuietInv
<1>5. CASE ReadNext \/ ReadAgain \/ UNCHANGED vars
  <2>1. UNCHANGED writerVars
    BY <1>5 DEF ReadNext, ReadAgain, vars
  <2> QED
    BY <2>1, QuietInv
<1> QED
  BY <1>1, <1>2, <1>3, <1>4, <1>5 DEF Next

\* PublicationInv is an invariant for every number of attempts and every choice of run ids
\* (pipeline.py:266-311).
THEOREM PublicationInvariant == Spec => []PublicationInv
<1>1. Init => PublicationInv
  BY InitInv
<1>2. PublicationInv /\ [Next]_vars => PublicationInv'
  BY NextInv
<1> QED
  BY <1>1, <1>2, PTL DEF Spec

\* The manifest commits a publication: no artifact beside it is older (pipeline.py:303-311).
THEOREM CommitRecord == Spec => []ManifestCommits
<1>1. PublicationInv => ManifestCommits
  BY DEF PublicationInv
<1> QED
  BY <1>1, PublicationInvariant, PTL

\* Nothing is published that was not archived first (pipeline.py:306-311).
THEOREM ArchivedFirst == Spec => []PublishedIsArchived
<1>1. PublicationInv => PublishedIsArchived
  BY DEF PublicationInv
<1> QED
  BY <1>1, PublicationInvariant, PTL

\* A visible file is whole, whenever the process dies (_atomic_write, pipeline.py:90-94).
THEOREM WholeFiles == Spec => []NoTornArtifact
<1>1. PublicationInv => NoTornArtifact
  BY DEF PublicationInv
<1> QED
  BY <1>1, PublicationInvariant, PTL

\* A report that has read the manifest holds nothing newer than the events it will read.
LEMMA ReaderStep ==
  ASSUME PublicationInv, ReaderInv, [Next]_vars
  PROVE  ReaderInv'
<1>1. /\ order \in {ExporterOrder, ScorecardOrder} /\ Len(order) = 2
      /\ seen \in Seq(File) /\ Len(seen) <= 2
      /\ order = ScorecardOrder => order[1] = RunManifest /\ order[2] = RuntimeEvents
      /\ \A i \in 1 .. 2 : order[i] \in Artifacts
  <2>1. order \in {ExporterOrder, ScorecardOrder} /\ seen \in Seq(File) /\ Len(seen) <= 2
    BY DEF ReaderInv
  <2> QED
    BY <2>1, ArtifactFacts DEF ExporterOrder, ScorecardOrder
<1>2. \A f \in Artifacts : out[f] \in File /\ By(out[f]) \in Nat
  <2>1. \A f \in File : By(f) \in Nat
    BY FileFacts
  <2> QED
    BY <2>1, TypeFacts DEF PublicationInv
<1>3. CASE ReadNext
  <2>1. /\ Len(seen) < 2 /\ seen' = Append(seen, out[order[Len(seen) + 1]])
        /\ order' = order /\ out' = out /\ Len(seen) \in Nat
    BY <1>1, <1>3 DEF ReadNext, writerVars
  <2>2. out[order[Len(seen) + 1]] \in File
    BY <1>1, <1>2, <2>1
  <2>3. seen' \in Seq(File) /\ Len(seen') = Len(seen) + 1 /\ Len(seen') <= 2
    BY <1>1, <2>1, <2>2
  <2>4. CASE Len(seen) = 0
    <3>1. Len(seen') = 1 /\ seen'[1] = out[order[1]]
      BY <1>1, <2>1, <2>2, <2>3, <2>4
    <3>2. By(out[RunManifest]) <= By(out[RuntimeEvents])
      BY ArtifactFacts DEF PublicationInv, ManifestCommits
    <3>3. order = ScorecardOrder => By(seen'[1]) <= By(out[RuntimeEvents])
      BY <1>1, <3>1, <3>2
    <3> QED
      BY <1>1, <2>1, <2>3, <3>1, <3>3 DEF ReaderInv, ScorecardNeverPairsOlderEvents
  <2>5. CASE Len(seen) = 1
    <3>1. Len(seen') = 2 /\ seen'[1] = seen[1] /\ seen'[2] = out[order[2]]
      BY <1>1, <2>1, <2>2, <2>3, <2>5
    <3>2. order = ScorecardOrder => By(seen[1]) <= By(out[RuntimeEvents])
      BY <2>5 DEF ReaderInv
    <3>3. order = ScorecardOrder => By(seen'[1]) <= By(seen'[2])
      BY <1>1, <3>1, <3>2
    <3> QED
      BY <1>1, <2>1, <2>3, <3>1, <3>3 DEF ReaderInv, ScorecardNeverPairsOlderEvents
  <2>6. Len(seen) = 0 \/ Len(seen) = 1
    <3>1. ASSUME NEW n \in Nat, n < 2 PROVE n = 0 \/ n = 1
      BY <3>1
    <3> QED
      BY <2>1, <3>1
  <2> QED
    BY <2>4, <2>5, <2>6
<1>4. CASE ReadAgain
  <2>1. order' \in {ExporterOrder, ScorecardOrder} /\ seen' = << >>
    BY <1>4 DEF ReadAgain
  <2>2. seen' \in Seq(File) /\ Len(seen') = 0
    BY <2>1
  <2> QED
    BY <2>1, <2>2 DEF ReaderInv, ScorecardNeverPairsOlderEvents
<1>5. CASE Begin \/ OpenTmp \/ FillTmp \/ Replace \/ Crash \/ UNCHANGED vars
  <2>1. order' = order /\ seen' = seen
    BY <1>5 DEF Begin, OpenTmp, FillTmp, Replace, Crash, readerVars, vars
  <2>2. By(out[RuntimeEvents]) <= By(out'[RuntimeEvents])
    <3>1. CASE Replace
      BY <3>1, ReplaceInv
    <3>2. CASE ~ Replace
      <4>1. out' = out
        BY <1>5, <3>2 DEF Begin, OpenTmp, FillTmp, Crash, vars, writerVars
      <4>2. By(out[RuntimeEvents]) <= By(out[RuntimeEvents])
        BY <1>2, ArtifactFacts
      <4> QED
        BY <4>1, <4>2
    <3> QED
      BY <3>1, <3>2
  <2>3. ASSUME order = ScorecardOrder, Len(seen) = 1
        PROVE  By(seen[1]) <= By(out'[RuntimeEvents])
    <3>1. PublicationInv'
      BY NextInv
    <3>2. By(seen[1]) \in Nat /\ By(out[RuntimeEvents]) \in Nat
      <4>1. seen[1] \in File
        <5>1. seen \in Seq(File) /\ 1 \in 1 .. Len(seen)
          BY <1>1, <2>3
        <5> QED
          BY <5>1
      <4>2. \A f \in File : By(f) \in Nat
        BY FileFacts
      <4> QED
        BY <4>1, <4>2, <1>2, ArtifactFacts
    <3>3. By(out'[RuntimeEvents]) \in Nat
      <4>1. \A f \in File : By(f) \in Nat
        BY FileFacts
      <4>2. out'[RuntimeEvents] \in File
        BY <3>1, ArtifactFacts DEF PublicationInv, TypeOK
      <4> QED
        BY <4>1, <4>2
    <3>4. By(seen[1]) <= By(out[RuntimeEvents])
      BY <2>3 DEF ReaderInv
    <3> QED
      BY <2>2, <3>2, <3>3, <3>4
  <2> QED
    BY <1>1, <2>1, <2>3 DEF ReaderInv, ScorecardNeverPairsOlderEvents
<1> QED
  BY <1>3, <1>4, <1>5 DEF Next

\* Whatever a reader holds was in the directory when it was read, for every number of
\* attempts and every order of the replaces and reads (pipeline.py:303-311).
THEOREM ReaderInvariant == Spec => []ReaderInv
<1>1. Init => PublicationInv /\ ReaderInv
  BY InitInv
<1>2. PublicationInv /\ ReaderInv /\ [Next]_vars => (PublicationInv /\ ReaderInv)'
  BY NextInv, ReaderStep
<1> QED
  BY <1>1, <1>2, PTL DEF Spec

\* The scorecard's reading order is safe: the events it reports are never older than the
\* manifest it reports them under (scorecard.py:61-62).
THEOREM ReaderOrder == Spec => []ScorecardNeverPairsOlderEvents
<1>1. ReaderInv => ScorecardNeverPairsOlderEvents
  BY DEF ReaderInv
<1> QED
  BY <1>1, ReaderInvariant, PTL
---------------------------------------------------------------------------------
(* The archives, when no run id is used twice *)

UniqueRunIds == \A a, b \in Attempts : RunIdOf[a] = RunIdOf[b] => a = b

\* What is archived under a run id is of the attempt that has it, what the loop has passed is
\* there, and the manifest comes when everything else is.
ArchiveInv ==
  /\ \A a \in Attempts, f \in Artifacts : By(archive[ArchiveOf(a)][f]) \in {0, a}
  /\ phase = "publishing" =>
       \A f \in Artifacts :
         f < file \/ (f = file /\ dir = "out") => By(archive[ArchiveOf(attempt)][f]) = attempt
  /\ \A a \in Attempts :
       By(archive[ArchiveOf(a)][RunManifest]) # 0 =>
         \A f \in Artifacts : By(archive[ArchiveOf(a)][f]) = a

\* What os.replace does to the archives: one file of the running attempt's own, or nothing.
LEMMA ReplaceInArchive ==
  ASSUME UniqueRunIds, PublicationInv, Replace
  PROVE  /\ attempt \in Attempts /\ file \in Artifacts /\ dir \in {"archive", "out"}
         /\ attempt' = attempt /\ phase = "publishing" /\ By(tmp) = attempt
         /\ \A a \in Attempts, f \in Artifacts :
              archive'[ArchiveOf(a)][f] =
                IF a = attempt /\ f = file /\ dir = "archive" THEN tmp ELSE archive[ArchiveOf(a)][f]
<1>1. /\ TypeOK /\ tmp # Absent /\ tmp.by = attempt /\ phase = "publishing" /\ attempt' = attempt
  BY DEF PublicationInv, Replace
<1>2. /\ attempt \in Attempts /\ file \in Artifacts /\ dir \in {"archive", "out"}
      /\ By(tmp) = attempt
  BY <1>1 DEF TypeOK, By
<1>3. \A a \in Attempts : ArchiveOf(a) \in RunIds /\ (ArchiveOf(a) = ArchiveOf(attempt) => a = attempt)
  BY <1>1, <1>2, TypeFacts DEF UniqueRunIds, ArchiveOf
<1>4. CASE dir = "archive"
  <2>1. \A r \in RunIds, f \in Artifacts :
          archive'[r][f] = IF r = ArchiveOf(attempt) /\ f = file THEN tmp ELSE archive[r][f]
    BY <1>1, <1>2, <1>3, <1>4 DEF Replace, TypeOK
  <2> QED
    BY <1>1, <1>2, <1>3, <1>4, <2>1
<1>5. CASE dir = "out"
  <2>1. archive' = archive
    BY <1>5 DEF Replace
  <2> QED
    BY <1>1, <1>2, <1>5, <2>1
<1> QED
  BY <1>2, <1>4, <1>5

LEMMA InitArchive ==
  ASSUME Init
  PROVE  ArchiveInv
<1>1. \A a \in Attempts, f \in Artifacts : By(archive[ArchiveOf(a)][f]) = 0
  BY DEF Init, By, ArchiveOf, RunIds
<1> QED
  BY <1>1, ArtifactFacts DEF Init, ArchiveInv

LEMMA ArchiveReplace ==
  ASSUME UniqueRunIds, PublicationInv, ArchiveInv, Replace
  PROVE  ArchiveInv'
<1> DEFINE Then(a, f) == By(archive[ArchiveOf(a)][f])
           Now(a, f)  == By(archive'[ArchiveOf(a)][f])
<1>1. /\ attempt \in Attempts /\ file \in Artifacts /\ dir \in {"archive", "out"}
      /\ attempt' = attempt /\ phase = "publishing" /\ attempt \in Nat \ {0}
      /\ \A a \in Attempts, f \in Artifacts :
           Now(a, f) = IF a = attempt /\ f = file /\ dir = "archive" THEN attempt ELSE Then(a, f)
  BY ReplaceInArchive DEF Attempts
<1>2. /\ \A a \in Attempts, f \in Artifacts : Then(a, f) \in {0, a}
      /\ \A f \in Artifacts : f < file \/ (f = file /\ dir = "out") => Then(attempt, f) = attempt
      /\ \A a \in Attempts : Then(a, RunManifest) # 0 => \A f \in Artifacts : Then(a, f) = a
  BY <1>1 DEF ArchiveInv
<1>3. /\ dir' = IF dir = "archive" THEN "out" ELSE "archive"
      /\ file' = IF dir = "out" /\ file # RunManifest THEN file + 1 ELSE file
      /\ phase' = IF dir = "out" /\ file = RunManifest THEN "idle" ELSE "publishing"
  BY DEF Replace, Advance
<1> HIDE DEF Then, Now
<1>4. \A a \in Attempts, f \in Artifacts : Now(a, f) \in {0, a}
  BY <1>1, <1>2
<1>5. ASSUME phase' = "publishing", NEW f \in Artifacts, f < file' \/ (f = file' /\ dir' = "out")
      PROVE  Now(attempt, f) = attempt
  <2>1. CASE dir = "archive"
    BY <1>1, <1>2, <1>3, <1>5, <2>1
  <2>2. CASE dir = "out"
    <3>1. f < file \/ f = file
      BY <1>1, <1>3, <1>5, <2>2, ArtifactFacts
    <3> QED
      BY <1>1, <1>2, <2>2, <3>1
  <2> QED
    BY <1>1, <2>1, <2>2
<1>6. ASSUME NEW a \in Attempts, Now(a, RunManifest) # 0, NEW f \in Artifacts
      PROVE  Now(a, f) = a
  <2>1. CASE a = attempt /\ file = RunManifest /\ dir = "archive"
    BY <1>1, <1>2, <2>1, ArtifactFacts
  <2>2. CASE ~(a = attempt /\ file = RunManifest /\ dir = "archive")
    BY <1>1, <1>2, <1>6, <2>2, ArtifactFacts
  <2> QED
    BY <2>1, <2>2
<1> QED
  BY <1>1, <1>4, <1>5, <1>6 DEF ArchiveInv, Now, ArchiveOf

LEMMA ArchiveStep ==
  ASSUME UniqueRunIds, PublicationInv, ArchiveInv, [Next]_vars
  PROVE  ArchiveInv'
<1>1. CASE Replace
  BY <1>1, ArchiveReplace
<1>2. CASE Begin
  <2>1. archive' = archive /\ file' = TetragonRaw /\ dir' = "archive"
    BY <1>2 DEF Begin
  <2> QED
    BY <2>1, ArtifactFacts DEF ArchiveInv, ArchiveOf
<1>3. CASE ~Replace /\ ~Begin
  <2>1. /\ archive' = archive /\ file' = file /\ dir' = dir /\ attempt' = attempt
        /\ phase' = "publishing" => phase = "publishing"
    BY <1>3 DEF Next, OpenTmp, FillTmp, Crash, ReadNext, ReadAgain, vars, writerVars
  <2> QED
    BY <2>1 DEF ArchiveInv, ArchiveOf
<1> QED
  BY <1>1, <1>2, <1>3

LEMMA ArchiveInvariant ==
  ASSUME UniqueRunIds
  PROVE  Spec => [](PublicationInv /\ ArchiveInv)
<1>1. Init => PublicationInv /\ ArchiveInv
  BY InitInv, InitArchive
<1>2. PublicationInv /\ ArchiveInv /\ [Next]_vars => (PublicationInv /\ ArchiveInv)'
  BY NextInv, ArchiveStep
<1> QED
  BY <1>1, <1>2, PTL DEF Spec

\* An archive that has its manifest is closed: no step of this or of a later attempt, and no
\* crash, changes a file of it (docstring of pipeline.py; pipeline.py:295, 303-311).
THEOREM ArchivesAreImmutable ==
  ASSUME UniqueRunIds
  PROVE  Spec => ArchiveImmutable
<1>1. ASSUME PublicationInv, ArchiveInv, [Next]_vars
      PROVE  \A r \in RunIds : archive[r][RunManifest] # Absent => archive'[r] = archive[r]
  <2> SUFFICES ASSUME NEW r \in RunIds, archive[r][RunManifest] # Absent
               PROVE  archive'[r] = archive[r]
    OBVIOUS
  <2>1. CASE Replace
    <3>1. PICK a \in Attempts : r = ArchiveOf(a)
      BY DEF RunIds, ArchiveOf
    <3>2. By(archive[r][RunManifest]) # 0
      <4>1. archive[r][RunManifest] \in File
        BY <1>1, TypeFacts, ArtifactFacts DEF PublicationInv
      <4> QED
        BY <4>1, FileFacts DEF Attempts
    <3>3. By(archive[r][RunManifest]) = a
      BY <1>1, <3>1, <3>2, ArtifactFacts DEF ArchiveInv
    <3>4. a = attempt => dir = "out"
      <4>1. phase = "publishing" /\ attempt \in Nat /\ dir \in {"archive", "out"}
        BY <1>1, <2>1, ReplaceInArchive DEF Attempts
      <4>2. dir # "out" => By(archive[ArchiveOf(attempt)][RunManifest]) < attempt
        BY <1>1, <4>1 DEF PublicationInv
      <4> QED
        BY <3>1, <3>3, <4>1, <4>2
    <3>5. \A f \in Artifacts : archive'[r][f] = archive[r][f]
      BY <1>1, <2>1, <3>1, <3>4, ReplaceInArchive
    <3>6. archive[r] \in [Artifacts -> File] /\ archive'[r] \in [Artifacts -> File]
      <4>1. PublicationInv'
        BY <1>1, NextInv
      <4> QED
        BY <1>1, <4>1 DEF PublicationInv, TypeOK
    <3> QED
      BY <3>5, <3>6
  <2>2. CASE ~Replace
    BY <1>1, <2>2 DEF Next, Begin, OpenTmp, FillTmp, Crash, ReadNext, ReadAgain, vars, writerVars
  <2> QED
    BY <2>1, <2>2
<1> QED
  BY <1>1, ArchiveInvariant, PTL DEF Spec, ArchiveImmutable

\* ... and it is the evidence of one attempt, all of it.
THEOREM ArchivesAreOfOneAttempt ==
  ASSUME UniqueRunIds
  PROVE  Spec => []ArchiveOfOneAttempt
<1>1. ASSUME PublicationInv, ArchiveInv PROVE ArchiveOfOneAttempt
  <2> SUFFICES ASSUME NEW r \in RunIds, archive[r][RunManifest] # Absent, NEW f \in Artifacts
               PROVE  By(archive[r][f]) = By(archive[r][RunManifest])
    BY DEF ArchiveOfOneAttempt
  <2>1. PICK a \in Attempts : r = ArchiveOf(a)
    BY DEF RunIds, ArchiveOf
  <2>2. By(archive[r][RunManifest]) # 0
    <3>1. archive[r][RunManifest] \in File
      BY <1>1, TypeFacts, ArtifactFacts DEF PublicationInv
    <3> QED
      BY <3>1, FileFacts DEF Attempts
  <2> QED
    BY <1>1, <2>1, <2>2, ArtifactFacts DEF ArchiveInv
<1> QED
  BY <1>1, ArchiveInvariant, PTL
---------------------------------------------------------------------------------
(* The refinement *)

\* Moving a .tmp file to its name records the attempt (the manifest into the archive), makes
\* it current (the manifest into artifacts/runtime), or changes nothing the ledger shows.
LEMMA ReplaceRefines ==
  ASSUME UniqueRunIds, PublicationInv, Replace
  PROVE  Ledger!Next \/ (Archived' = Archived /\ By(out'[RunManifest]) = By(out[RunManifest]))
<1>1. /\ TypeOK /\ tmp \in File /\ tmp # Absent /\ tmp.by = attempt /\ By(tmp) = attempt /\ phase = "publishing"
      /\ attempt \in Attempts /\ attempt \in Nat /\ file \in Artifacts /\ dir \in {"archive", "out"}
      /\ ArchiveOf(attempt) \in RunIds /\ RunManifest \in Artifacts /\ Attempts \subseteq Nat
  <2>1. TypeOK /\ tmp # Absent /\ tmp.by = attempt /\ phase = "publishing"
    BY DEF PublicationInv, Replace
  <2>2. tmp \in File /\ attempt \in Attempts /\ file \in Artifacts /\ dir \in {"archive", "out"}
    BY <2>1 DEF TypeOK
  <2> QED
    BY <2>1, <2>2, TypeFacts, ArtifactFacts DEF By, Attempts
<1>2. \A a \in Attempts : ArchiveOf(a) \in RunIds /\ (ArchiveOf(a) = ArchiveOf(attempt) => a = attempt)
  BY <1>1, TypeFacts DEF UniqueRunIds, ArchiveOf
<1>3. CASE dir = "archive"
  <2>1. /\ out' = out
        /\ \A r \in RunIds, f \in Artifacts :
             archive'[r][f] = IF r = ArchiveOf(attempt) /\ f = file THEN tmp ELSE archive[r][f]
    BY <1>1, <1>3 DEF Replace, TypeOK
  <2>2. CASE file = RunManifest
    <3>1. By(archive[ArchiveOf(attempt)][RunManifest]) < attempt
      BY <1>1, <1>3 DEF PublicationInv
    <3>2. ASSUME NEW a \in Attempts
          PROVE  By(archive'[ArchiveOf(a)][RunManifest]) = a
                   <=> (By(archive[ArchiveOf(a)][RunManifest]) = a \/ a = attempt)
      <4>1. CASE a = attempt
        BY <1>1, <1>2, <2>1, <2>2, <4>1
      <4>2. CASE a # attempt
        BY <1>1, <1>2, <2>1, <4>2
      <4> QED
        BY <4>1, <4>2
    <3>3. Archived' = Archived \cup {attempt}
      BY <1>1, <3>2 DEF Archived, ArchiveOf
    <3>4. ASSUME NEW b \in Archived PROVE b < attempt
      <4>1. b \in Attempts /\ By(archive[ArchiveOf(b)][RunManifest]) = b
        BY DEF Archived
      <4>2. By(archive[ArchiveOf(b)][RunManifest]) <= attempt
        BY <1>1, <1>2, <4>1 DEF PublicationInv
      <4>3. b # attempt
        BY <1>1, <3>1, <4>1
      <4>4. b \in Nat /\ b <= attempt
        BY <1>1, <4>1, <4>2
      <4> QED
        BY <1>1, <4>3, <4>4
    <3>5. Ledger!Archive(attempt)
      BY <2>1, <3>3, <3>4 DEF Ledger!Archive
    <3> QED
      BY <1>1, <3>5 DEF Ledger!Next, Ledger!Attempts, Attempts
  <2>3. CASE file # RunManifest
    <3>1. \A a \in Attempts : archive'[ArchiveOf(a)][RunManifest] = archive[ArchiveOf(a)][RunManifest]
      BY <1>1, <1>2, <2>1, <2>3
    <3>2. Archived' = Archived
      BY <3>1 DEF Archived, ArchiveOf
    <3> QED
      BY <2>1, <3>2
  <2> QED
    BY <2>2, <2>3
<1>4. CASE dir = "out"
  <2>1. archive' = archive /\ \A f \in Artifacts : out'[f] = IF f = file THEN tmp ELSE out[f]
    BY <1>1, <1>4 DEF Replace, TypeOK
  <2>2. Archived' = Archived
    BY <2>1 DEF Archived, ArchiveOf
  <2>3. CASE file = RunManifest
    <3>1. By(archive[ArchiveOf(attempt)][RunManifest]) = attempt /\ By(out[RunManifest]) < attempt
      BY <1>1, <1>4, <2>3 DEF PublicationInv
    <3>2. attempt \in Archived
      BY <1>1, <3>1 DEF Archived
    <3>3. By(out'[RunManifest]) = attempt
      BY <1>1, <2>1, <2>3
    <3>4. Ledger!Commit(attempt)
      BY <2>2, <3>1, <3>2, <3>3 DEF Ledger!Commit
    <3> QED
      BY <1>1, <3>4 DEF Ledger!Next, Ledger!Attempts, Attempts
  <2>4. CASE file # RunManifest
    BY <1>1, <2>1, <2>2, <2>4
  <2> QED
    BY <2>3, <2>4
<1> QED
  BY <1>1, <1>3, <1>4

\* With no run id used twice, publishing through .tmp files, two directories and crashes is
\* recording an attempt and then making it current, never an earlier one again.
THEOREM PublicationRefinesLedger ==
  ASSUME UniqueRunIds
  PROVE  Spec => ImplementsLedger
<1>1. Init => Ledger!Init
  <2> SUFFICES ASSUME Init PROVE Ledger!Init
    OBVIOUS
  <2>1. By(out[RunManifest]) = 0
    BY ArtifactFacts DEF Init, By
  <2>2. \A a \in Attempts : By(archive[ArchiveOf(a)][RunManifest]) = 0
    BY ArtifactFacts DEF Init, By, ArchiveOf, RunIds
  <2>3. Archived = {}
    BY <2>2 DEF Archived, Attempts
  <2> QED
    BY <2>1, <2>3 DEF Ledger!Init
<1>2. PublicationInv /\ [Next]_vars => [Ledger!Next]_(Ledger!ledgerVars)
  <2> SUFFICES ASSUME PublicationInv, [Next]_vars PROVE [Ledger!Next]_(Ledger!ledgerVars)
    OBVIOUS
  <2>1. CASE Replace
    BY <2>1, ReplaceRefines DEF Ledger!ledgerVars
  <2>2. CASE ~ Replace
    <3>1. archive' = archive /\ out' = out
      BY <2>2 DEF Next, Begin, OpenTmp, FillTmp, Crash, ReadNext, ReadAgain, vars, writerVars
    <3> QED
      BY <3>1 DEF Ledger!ledgerVars, Archived, ArchiveOf
  <2> QED
    BY <2>1, <2>2
<1> QED
  BY <1>1, <1>2, PublicationInvariant, PTL DEF Spec, ImplementsLedger, Ledger!Spec
=================================================================================
