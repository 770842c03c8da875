-------------------------- MODULE ConcurrentPublication --------------------------
(***************************************************************************)
(* Several run_pipeline processes (runtime/pipeline.py) that publish at    *)
(* the same time.  Nothing locks artifacts/runtime, and the .tmp name of   *)
(* an artifact is the same for all of them: one may truncate, finish or    *)
(* rename the file that another has open.  So a name (a path) leads to a   *)
(* file, and a process holds the file, not the name.                       *)
(*                                                                         *)
(* A payload is one write: a file has nothing of it ("some"), all of it    *)
(* ("all"), or two payloads of different lengths one over the other        *)
(* ("mixed").                                                              *)
(***************************************************************************)
EXTENDS Integers

CONSTANTS
  Pipelines,  \* processes, one publication each
  RunIdOf,    \* the run id of each
  Artifacts,  \* how many artifacts there are, the manifest the last
  Absent      \* no such file

Names == 1 .. Artifacts

\* mutant: the directory is named after the mode alone
RunDirShared(p) == <<"archive", "live">>

RunDir(p)   == <<"archive", RunIdOf[p]>>
OutDir      == <<"runtime", "live">>
Directories == {OutDir} \cup {RunDir(p) : p \in Pipelines}
Paths       == {<<d, n>> : d \in Directories, n \in Names}
Files       == Pipelines \X Paths   \* a file is who created it, under which name
Payloads    == [by : Pipelines, bytes : {"some", "all", "mixed"}]

ASSUME ConcurrentAssumption ==
  /\ Artifacts \in Nat \ {0}
  /\ DOMAIN RunIdOf = Pipelines
  /\ Absent \notin Files \cup Payloads

VARIABLES
  name,     \* pipeline -> the artifact it is at
  dir,      \* pipeline -> "archive" or "out"
  status,   \* pipeline -> "open", "write", "replace" (its next call), "done", "raised", "killed"
  holds,    \* pipeline -> the file it has open
  temp,     \* path -> the file under its .tmp name
  visible,  \* path -> the file under the name itself
  content   \* file -> whose payload, and whether it is whole

vars == <<name, dir, status, holds, temp, visible, content>>

Running(p) == status[p] \in {"open", "write", "replace"}

Path(p) == <<IF dir[p] = "archive" THEN RunDir(p) ELSE OutDir, name[p]>>

Init ==
  /\ name = [p \in Pipelines |-> 1] /\ dir = [p \in Pipelines |-> "archive"]
  /\ status = [p \in Pipelines |-> "open"] /\ holds = [p \in Pipelines |-> Absent]
  /\ temp = [q \in Paths |-> Absent] /\ visible = [q \in Paths |-> Absent]
  /\ content = [f \in Files |-> Absent]
--------------------------------------------------------------------------------
\* tmp.write_text opens: a file that is there is truncated, whoever has it open
Open(p) ==
  /\ status[p] = "open"
  /\ LET file == IF temp[Path(p)] = Absent THEN <<p, Path(p)>> ELSE temp[Path(p)]
     IN /\ temp' = [temp EXCEPT ![Path(p)] = file]
        /\ holds' = [holds EXCEPT ![p] = file]
        /\ content' = [content EXCEPT ![file] = [by |-> p, bytes |-> "some"]]
  /\ status' = [status EXCEPT ![p] = "write"]
  /\ UNCHANGED <<name, dir, visible>>

\* ... and writes, wherever the file is by now
Write(p) ==
  /\ status[p] = "write"
  /\ content' = [content EXCEPT ![holds[p]] =
                   [by |-> p, bytes |-> IF @.bytes = "some" THEN "all" ELSE "mixed"]]
  /\ status' = [status EXCEPT ![p] = "replace"]
  /\ UNCHANGED <<name, dir, holds, temp, visible>>

\* for name ...: for directory in (run_dir, out_dir)
Advance(p) ==
  /\ dir' = [dir EXCEPT ![p] = IF @ = "archive" THEN "out" ELSE "archive"]
  /\ name' = [name EXCEPT ![p] = IF dir[p] = "out" /\ @ < Artifacts THEN @ + 1 ELSE @]
  /\ status' = [status EXCEPT ![p] = IF dir[p] = "out" /\ name[p] = Artifacts THEN "done" ELSE "open"]

\* mutant: a .tmp file that is gone is passed over
ReplaceLenient(p) ==
  /\ status[p] = "replace"
  /\ visible' = IF temp[Path(p)] = Absent THEN visible ELSE [visible EXCEPT ![Path(p)] = temp[Path(p)]]
  /\ temp' = [temp EXCEPT ![Path(p)] = Absent] /\ holds' = [holds EXCEPT ![p] = Absent]
  /\ Advance(p)
  /\ UNCHANGED content

\* os.replace takes whatever file the .tmp name leads to
Replace(p) ==
  /\ status[p] = "replace" /\ temp[Path(p)] # Absent
  /\ visible' = [visible EXCEPT ![Path(p)] = temp[Path(p)]]
  /\ temp' = [temp EXCEPT ![Path(p)] = Absent] /\ holds' = [holds EXCEPT ![p] = Absent]
  /\ Advance(p)
  /\ UNCHANGED content

\* FileNotFoundError, and nothing catches it
ReplaceRaises(p) ==
  /\ status[p] = "replace" /\ temp[Path(p)] = Absent
  /\ status' = [status EXCEPT ![p] = "raised"] /\ holds' = [holds EXCEPT ![p] = Absent]
  /\ UNCHANGED <<name, dir, temp, visible, content>>

Kill(p) ==
  /\ Running(p)
  /\ status' = [status EXCEPT ![p] = "killed"] /\ holds' = [holds EXCEPT ![p] = Absent]
  /\ UNCHANGED <<name, dir, temp, visible, content>>

Next == \E p \in Pipelines : Open(p) \/ Write(p) \/ Replace(p) \/ ReplaceRaises(p) \/ Kill(p)

Spec == Init /\ [][Next]_vars
--------------------------------------------------------------------------------
(* Properties *)

Whole(q) == visible[q] # Absent /\ content[visible[q]].bytes = "all"

TypeOK ==
  /\ name \in [Pipelines -> Names] /\ dir \in [Pipelines -> {"archive", "out"}]
  /\ status \in [Pipelines -> {"open", "write", "replace", "done", "raised", "killed"}]
  /\ holds \in [Pipelines -> Files \cup {Absent}]
  /\ \A p \in Pipelines : status[p] \in {"write", "replace"} <=> holds[p] # Absent
  /\ temp \in [Paths -> Files \cup {Absent}] /\ visible \in [Paths -> Files \cup {Absent}]
  /\ content \in [Files -> Payloads \cup {Absent}]

\* The directory of a run stays its own however the others interleave or die: what is in it is
\* whole and of that run, and a pipeline that ended left all of it there (pipeline.py:294-311).
ArchiveIsOwn ==
  \A p \in Pipelines, n \in Names :
    LET q == <<RunDir(p), n>>
    IN /\ visible[q] # Absent => Whole(q) /\ content[visible[q]].by = p
       /\ status[p] = "done" => visible[q] # Absent

\* A damaged publication is never silent: once every pipeline has ended and none of them
\* raised or was killed, each published artifact is whole (pipeline.py:303-311).
CleanExitsLeaveWhole ==
  (\A p \in Pipelines : status[p] = "done") => \A n \in Names : Whole(<<OutDir, n>>)

\* "published atomically" (docstring of pipeline.py, lines 12-13): a reader never finds an
\* artifact that is cut off or mixed, as long as no pipeline was killed.
PublishedWhole ==
  \A n \in Names : visible[<<OutDir, n>>] # Absent => Whole(<<OutDir, n>>)
================================================================================
