----------------------- MODULE ConcurrentPublicationProofs -----------------------
(***************************************************************************)
(* For any number of pipelines and artifacts: when each pipeline has a run *)
(* id of its own, the directory of a run holds only what that run wrote,   *)
(* whole, and everything once it has ended, however the pipelines          *)
(* interleave in the directory that they share, raise or die; and when all *)
(* of them ended well, each artifact that they share is whole too.         *)
(***************************************************************************)
EXTENDS ConcurrentPublication, TLAPS

UniqueRunIds == \A p, r \in Pipelines : RunIdOf[p] = RunIdOf[r] => p = r

RunName(p, n) == <<RunDir(p), n>>
OutName(n)    == <<OutDir, n>>

\* A name in the directory of p leads to p's own file, which is whole once it is visible,
\* and it is visible once p has gone past it.
Own(p, n) ==
  LET q == RunName(p, n)
  IN /\ temp[q] \in {Absent, <<p, q>>}
     /\ visible[q] \in {Absent, <<p, q>>}
     /\ visible[q] # Absent => content[<<p, q>>] = [by |-> p, bytes |-> "all"]
     /\ visible[q] # Absent <=>
          n < name[p] \/ (n = name[p] /\ (dir[p] = "out" \/ status[p] = "done"))

\* A pipeline holds a file of the name it is at; in its own directory it is its own.
InHand(p) ==
  /\ holds[p] # Absent => holds[p] \in Pipelines \X {Path(p)}
  /\ dir[p] = "archive" /\ status[p] \in {"write", "replace"} =>
       /\ holds[p] = <<p, Path(p)>> /\ temp[Path(p)] = holds[p]
       /\ content[holds[p]] = [by |-> p, bytes |-> IF status[p] = "write" THEN "some" ELSE "all"]
  /\ status[p] = "done" => name[p] = Artifacts /\ dir[p] = "archive"

Shared(n) == temp[OutName(n)] \in {Absent} \cup (Pipelines \X {OutName(n)})

Inv ==
  /\ TypeOK
  /\ \A p \in Pipelines, n \in Names : Own(p, n)
  /\ \A p \in Pipelines : InHand(p)
  /\ \A n \in Names : Shared(n)
--------------------------------------------------------------------------------
(* Paths *)

LEMMA DirFacts ==
  ASSUME UniqueRunIds, NEW p \in Pipelines, NEW r \in Pipelines
  PROVE  RunDir(p) # OutDir /\ (RunDir(p) = RunDir(r) => p = r)
BY DEF UniqueRunIds, RunDir, OutDir

LEMMA PathFacts ==
  ASSUME TypeOK, NEW p \in Pipelines
  PROVE  /\ Path(p) \in Paths /\ name[p] \in Names
         /\ dir[p] = "archive" => Path(p) = RunName(p, name[p])
         /\ dir[p] # "archive" => Path(p) = OutName(name[p])
BY DEF TypeOK, Path, Paths, Directories, RunName, OutName

LEMMA RunPath ==
  ASSUME NEW p \in Pipelines, NEW n \in Names
  PROVE  RunName(p, n) \in Paths
BY DEF Paths, Directories, RunName, OutName

LEMMA OutPath ==
  ASSUME NEW n \in Names
  PROVE  OutName(n) \in Paths
BY DEF Paths, Directories, OutName

\* Only its own pipeline comes to a name in the directory of a run.
LEMMA OwnPath ==
  ASSUME UniqueRunIds, TypeOK, NEW p \in Pipelines, NEW r \in Pipelines, NEW n \in Names,
         Path(r) = RunName(p, n)
  PROVE  r = p /\ dir[r] = "archive" /\ n = name[r]
<1>1. dir[r] = "archive"
  BY PathFacts, DirFacts DEF RunName, OutName
<1>2. RunName(r, name[r]) = RunName(p, n)
  BY <1>1, PathFacts
<1> QED
  BY <1>1, <1>2, DirFacts DEF RunName

\* What Inv says of a name in the directory of a run.
LEMMA OwnFacts ==
  ASSUME Inv, NEW p \in Pipelines, NEW n \in Names
  PROVE  /\ temp[RunName(p, n)] \in {Absent, <<p, RunName(p, n)>>}
         /\ n = name[p] /\ dir[p] = "archive" /\ status[p] # "done" => visible[RunName(p, n)] = Absent
<1>1. Own(p, n) /\ n \in Int
  BY DEF Inv, Names
<1> QED
  BY <1>1 DEF Own

\* The file under the .tmp name that r is at was created under that name.
LEMMA TempNamed ==
  ASSUME Inv, NEW r \in Pipelines, temp[Path(r)] # Absent
  PROVE  temp[Path(r)] \in Pipelines \X {Path(r)}
<1>1. TypeOK /\ name[r] \in Names
  BY PathFacts DEF Inv
<1>2. CASE dir[r] = "archive"
  <2>1. Path(r) = RunName(r, name[r])
    BY <1>1, <1>2, PathFacts
  <2> QED
    BY <1>1, <2>1, OwnFacts
<1>3. CASE dir[r] # "archive"
  BY <1>1, <1>3, PathFacts DEF Inv, Shared
<1> QED
  BY <1>2, <1>3
--------------------------------------------------------------------------------
(* The steps *)

LEMMA InitInv ==
  ASSUME UniqueRunIds
  PROVE  Init => Inv
<1> SUFFICES ASSUME Init PROVE Inv
  OBVIOUS
<1>1. 1 \in Names /\ \A n \in Names : n \in Nat /\ n >= 1
  BY ConcurrentAssumption DEF Names
<1>2. TypeOK
  BY <1>1 DEF Init, TypeOK
<1>3. \A p \in Pipelines, n \in Names : Own(p, n)
  <2> SUFFICES ASSUME NEW p \in Pipelines, NEW n \in Names
               PROVE  Own(p, n)
    OBVIOUS
  <2>1. temp[RunName(p, n)] = Absent /\ visible[RunName(p, n)] = Absent
    BY RunPath DEF Init
  <2>2. name[p] = 1 /\ dir[p] = "archive" /\ status[p] = "open" /\ ~(n < 1)
    BY <1>1 DEF Init
  <2> QED
    BY <2>1, <2>2 DEF Own
<1>4. \A p \in Pipelines : InHand(p)
  BY DEF Init, InHand
<1>5. \A n \in Names : Shared(n)
  BY OutPath DEF Init, Shared
<1> QED
  BY <1>2, <1>3, <1>4, <1>5 DEF Inv

LEMMA OpenInv ==
  ASSUME UniqueRunIds, Inv, NEW r \in Pipelines, Open(r)
  PROVE  Inv'
<1> DEFINE file == IF temp[Path(r)] = Absent THEN <<r, Path(r)>> ELSE temp[Path(r)]
<1>1. /\ TypeOK /\ Path(r) \in Paths /\ status[r] = "open"
      /\ temp' = [temp EXCEPT ![Path(r)] = file]
      /\ holds' = [holds EXCEPT ![r] = file]
      /\ content' = [content EXCEPT ![file] = [by |-> r, bytes |-> "some"]]
      /\ status' = [status EXCEPT ![r] = "write"]
      /\ UNCHANGED <<name, dir, visible>>
  BY PathFacts DEF Inv, Open
<1>2. file \in Pipelines \X {Path(r)}
  BY TempNamed
<1>3. file \in Files /\ file # Absent
  BY <1>1, <1>2, ConcurrentAssumption DEF Files
<1> HIDE DEF file
<1>4. \A p \in Pipelines : Path(p)' = Path(p)
  BY <1>1 DEF Path
<1>5. TypeOK'
  <2>1. [by |-> r, bytes |-> "some"] \in Payloads
    BY DEF Payloads
  <2>2. /\ temp' \in [Paths -> Files \cup {Absent}]
        /\ holds' \in [Pipelines -> Files \cup {Absent}]
        /\ content' \in [Files -> Payloads \cup {Absent}]
    BY <1>1, <1>3, <2>1 DEF TypeOK
  <2>3. \A p \in Pipelines : status'[p] \in {"write", "replace"} <=> holds'[p] # Absent
    BY <1>1, <1>3 DEF TypeOK
  <2> QED
    BY <1>1, <2>2, <2>3 DEF TypeOK
<1>6. ASSUME NEW p \in Pipelines, NEW n \in Names PROVE Own(p, n)'
  <2> DEFINE q == RunName(p, n)
  <2>0. q \in Paths /\ <<p, q>> \in Files
    BY RunPath DEF Files
  <2>1. CASE q = Path(r)
    <3>1. r = p /\ dir[r] = "archive" /\ n = name[r]
      BY <1>1, <2>1, OwnPath
    <3>2. visible[q] = Absent
      BY <1>1, <3>1, OwnFacts
    <3>3. file = <<p, q>>
      BY <2>1, <3>1, OwnFacts DEF file
    <3> QED
      BY <1>1, <2>0, <2>1, <3>1, <3>2, <3>3 DEF Inv, Own, TypeOK
  <2>2. CASE q # Path(r)
    <3>1. file # <<p, q>>
      BY <1>2, <2>2
    <3>2. temp'[q] = temp[q] /\ visible'[q] = visible[q] /\ content'[<<p, q>>] = content[<<p, q>>]
      BY <1>1, <2>0, <2>2, <3>1 DEF TypeOK
    <3>3. status'[p] = "done" <=> status[p] = "done"
      BY <1>1 DEF TypeOK
    <3> HIDE DEF q
    <3> QED
      BY <1>1, <3>2, <3>3 DEF Inv, Own, q
  <2> QED
    BY <2>1, <2>2
<1>7. ASSUME NEW p \in Pipelines PROVE InHand(p)'
  <2>1. CASE p = r
    <3>1. holds'[r] = file /\ status'[r] = "write" /\ temp'[Path(r)] = file
          /\ content'[file] = [by |-> r, bytes |-> "some"] /\ dir'[r] = dir[r]
      BY <1>1, <1>3 DEF TypeOK
    <3>2. ASSUME dir[r] = "archive" PROVE file = <<r, Path(r)>>
      <4>1. temp[Path(r)] \in {Absent, <<r, Path(r)>>}
        BY <1>1, <3>2, PathFacts, OwnFacts
      <4> QED
        BY <4>1 DEF file
    <3> QED
      BY <1>2, <1>4, <2>1, <3>1, <3>2 DEF InHand
  <2>2. CASE p # r
    <3>1. holds'[p] = holds[p] /\ status'[p] = status[p] /\ dir'[p] = dir[p] /\ name'[p] = name[p]
      BY <1>1, <2>2 DEF TypeOK
    <3>2. ASSUME dir[p] = "archive" PROVE Path(p) # Path(r)
      BY <1>1, <2>2, <3>2, PathFacts, OwnPath
    <3>3. ASSUME dir[p] = "archive", status[p] \in {"write", "replace"}
          PROVE  temp'[Path(p)] = temp[Path(p)] /\ content'[holds[p]] = content[holds[p]]
      <4>1. holds[p] = <<p, Path(p)>>
        BY <3>3 DEF Inv, InHand
      <4>0. holds[p] # file
        BY <1>2, <3>2, <3>3, <4>1
      <4>2. Path(p) \in Paths /\ holds[p] \in Files
        BY <1>1, <4>1, PathFacts DEF Files
      <4> QED
        BY <1>1, <3>2, <3>3, <4>0, <4>2 DEF TypeOK
    <3> QED
      BY <1>4, <3>1, <3>3 DEF Inv, InHand
  <2> QED
    BY <2>1, <2>2
<1>8. ASSUME NEW n \in Names PROVE Shared(n)'
  <2>1. OutName(n) \in Paths
    BY OutPath
  <2> QED
    BY <1>1, <1>2, <2>1 DEF Inv, Shared, TypeOK
<1> QED
  BY <1>5, <1>6, <1>7, <1>8 DEF Inv

LEMMA WriteInv ==
  ASSUME UniqueRunIds, Inv, NEW r \in Pipelines, Write(r)
  PROVE  Inv'
<1> DEFINE file == holds[r]
           payload == [by |-> r, bytes |-> IF content[file].bytes = "some" THEN "all" ELSE "mixed"]
<1>1. /\ TypeOK /\ Path(r) \in Paths /\ status[r] = "write"
      /\ content' = [content EXCEPT ![file] = payload]
      /\ status' = [status EXCEPT ![r] = "replace"]
      /\ UNCHANGED <<name, dir, holds, temp, visible>>
  BY PathFacts DEF Inv, Write
<1>2. file # Absent /\ file \in Files /\ file \in Pipelines \X {Path(r)}
  <2>1. file # Absent /\ file \in Files
    BY <1>1 DEF TypeOK
  <2> QED
    BY <2>1 DEF Inv, InHand
<1>3. payload \in Payloads
  BY DEF Payloads
<1>4. \A p \in Pipelines : Path(p)' = Path(p)
  BY <1>1 DEF Path
<1>5. TypeOK'
  <2> HIDE DEF payload, file
  <2>1. content' \in [Files -> Payloads \cup {Absent}]
    BY <1>1, <1>2, <1>3 DEF TypeOK
  <2>2. \A p \in Pipelines : status'[p] \in {"write", "replace"} <=> holds'[p] # Absent
    BY <1>1 DEF TypeOK
  <2> QED
    BY <1>1, <2>1, <2>2 DEF TypeOK
<1>6. ASSUME dir[r] = "archive"
      PROVE  file = <<r, Path(r)>> /\ payload = [by |-> r, bytes |-> "all"]
  <2>1. file = <<r, Path(r)>> /\ content[file] = [by |-> r, bytes |-> "some"]
    BY <1>1, <1>6 DEF Inv, InHand
  <2>2. content[file].bytes = "some"
    BY <2>1
  <2> QED
    BY <2>1, <2>2
<1> HIDE DEF payload, file
<1>7. ASSUME NEW p \in Pipelines, NEW n \in Names PROVE Own(p, n)'
  <2> DEFINE q == RunName(p, n)
  <2>0. q \in Paths /\ <<p, q>> \in Files
    BY RunPath DEF Files
  <2>1. CASE q = Path(r)
    <3>1. r = p /\ dir[r] = "archive" /\ n = name[r]
      BY <1>1, <2>1, OwnPath
    <3>2. visible[q] = Absent
      BY <1>1, <3>1, OwnFacts
    <3> QED
      BY <1>1, <2>0, <2>1, <3>1, <3>2 DEF Inv, Own, TypeOK
  <2>2. CASE q # Path(r)
    <3>1. file # <<p, q>>
      BY <1>2, <2>2
    <3>2. content'[<<p, q>>] = content[<<p, q>>]
      BY <1>1, <2>0, <3>1 DEF TypeOK
    <3>3. status'[p] = "done" <=> status[p] = "done"
      BY <1>1 DEF TypeOK
    <3> HIDE DEF q
    <3> QED
      BY <1>1, <3>2, <3>3 DEF Inv, Own, q
  <2> QED
    BY <2>1, <2>2
<1>8. ASSUME NEW p \in Pipelines PROVE InHand(p)'
  <2>1. CASE p = r
    <3>1. status'[r] = "replace" /\ content'[file] = payload /\ holds'[r] = file
      BY <1>1, <1>2 DEF TypeOK, file
    <3>2. dir[r] = "archive" => temp[Path(r)] = file
      BY <1>1 DEF Inv, InHand, file
    <3> QED
      BY <1>1, <1>2, <1>4, <1>6, <2>1, <3>1, <3>2 DEF InHand
  <2>2. CASE p # r
    <3>1. status'[p] = status[p]
      BY <1>1, <2>2 DEF TypeOK
    <3>2. ASSUME dir[p] = "archive", status[p] \in {"write", "replace"}
          PROVE  content'[holds[p]] = content[holds[p]]
      <4>1. Path(p) # Path(r)
        BY <1>1, <2>2, <3>2, PathFacts, OwnPath
      <4>2. holds[p] = <<p, Path(p)>> /\ holds[p] # file
        BY <1>2, <3>2, <4>1 DEF Inv, InHand
      <4>3. holds[p] \in Files
        BY <1>1, <4>2, PathFacts DEF Files
      <4> QED
        BY <1>1, <4>2, <4>3 DEF TypeOK
    <3> QED
      BY <1>1, <1>4, <3>1, <3>2 DEF Inv, InHand
  <2> QED
    BY <2>1, <2>2
<1>9. \A n \in Names : Shared(n)'
  BY <1>1 DEF Inv, Shared
<1> QED
  BY <1>5, <1>7, <1>8, <1>9 DEF Inv

LEMMA ReplaceInv ==
  ASSUME UniqueRunIds, Inv, NEW r \in Pipelines, Replace(r)
  PROVE  Inv'
<1>1. /\ TypeOK /\ Path(r) \in Paths /\ status[r] = "replace" /\ temp[Path(r)] # Absent
      /\ visible' = [visible EXCEPT ![Path(r)] = temp[Path(r)]]
      /\ temp' = [temp EXCEPT ![Path(r)] = Absent]
      /\ holds' = [holds EXCEPT ![r] = Absent]
      /\ UNCHANGED content
  BY PathFacts DEF Inv, Replace
<1>2. /\ dir' = [dir EXCEPT ![r] = IF @ = "archive" THEN "out" ELSE "archive"]
      /\ name' = [name EXCEPT ![r] = IF dir[r] = "out" /\ @ < Artifacts THEN @ + 1 ELSE @]
      /\ status' = [status EXCEPT ![r] = IF dir[r] = "out" /\ name[r] = Artifacts THEN "done" ELSE "open"]
  BY DEF Replace, Advance
<1>3. /\ name[r] \in Names /\ name[r] \in Nat /\ Artifacts \in Nat
      /\ name[r] < Artifacts => name[r] + 1 \in Names
      /\ dir[r] \in {"archive", "out"}
  BY <1>1, ConcurrentAssumption DEF TypeOK, Names
<1>4. /\ dir[r] = "archive" => dir'[r] = "out" /\ name'[r] = name[r] /\ status'[r] = "open"
      /\ dir[r] = "out" /\ name[r] < Artifacts =>
           dir'[r] = "archive" /\ name'[r] = name[r] + 1 /\ status'[r] = "open"
      /\ dir[r] = "out" /\ ~(name[r] < Artifacts) =>
           dir'[r] = "archive" /\ name'[r] = name[r] /\ status'[r] = "done" /\ name[r] = Artifacts
      /\ holds'[r] = Absent
  BY <1>1, <1>2, <1>3 DEF TypeOK, Names
<1>5. \A p \in Pipelines \ {r} :
        /\ dir'[p] = dir[p] /\ name'[p] = name[p] /\ status'[p] = status[p] /\ holds'[p] = holds[p]
        /\ Path(p)' = Path(p)
  BY <1>1, <1>2 DEF TypeOK, Path
<1>6. TypeOK'
  <2>1. name' \in [Pipelines -> Names] /\ dir' \in [Pipelines -> {"archive", "out"}]
    BY <1>1, <1>2, <1>3 DEF TypeOK
  <2>2. /\ status' \in [Pipelines -> {"open", "write", "replace", "done", "raised", "killed"}]
        /\ holds' \in [Pipelines -> Files \cup {Absent}]
    BY <1>1, <1>2 DEF TypeOK
  <2>3. \A p \in Pipelines : status'[p] \in {"write", "replace"} <=> holds'[p] # Absent
    BY <1>1, <1>3, <1>4, <1>5 DEF TypeOK
  <2>4. temp' \in [Paths -> Files \cup {Absent}] /\ visible' \in [Paths -> Files \cup {Absent}]
    BY <1>1 DEF TypeOK
  <2> QED
    BY <1>1, <2>1, <2>2, <2>3, <2>4 DEF TypeOK
<1>7. ASSUME NEW p \in Pipelines, NEW n \in Names PROVE Own(p, n)'
  <2> DEFINE q == RunName(p, n)
  <2>0. q \in Paths /\ n \in Nat
    BY RunPath DEF Names
  <2>1. CASE q = Path(r)
    <3>1. r = p /\ dir[r] = "archive" /\ n = name[r]
      BY <1>1, <2>1, OwnPath
    <3>2. holds[r] = <<p, q>> /\ temp[q] = <<p, q>> /\ content[<<p, q>>] = [by |-> p, bytes |-> "all"]
      BY <1>1, <2>1, <3>1 DEF Inv, InHand
    <3>3. temp'[q] = Absent /\ visible'[q] = <<p, q>> /\ visible'[q] # Absent
      BY <1>1, <2>0, <2>1, <3>2 DEF TypeOK
    <3> HIDE DEF q
    <3> QED
      BY <1>1, <1>4, <3>1, <3>2, <3>3 DEF Own, q
  <2>2. CASE q # Path(r)
    <3>1. temp'[q] = temp[q] /\ visible'[q] = visible[q]
      BY <1>1, <2>0, <2>2 DEF TypeOK
    <3>2. \/ n < name'[p] \/ (n = name'[p] /\ (dir'[p] = "out" \/ status'[p] = "done"))
          <=> n < name[p] \/ (n = name[p] /\ (dir[p] = "out" \/ status[p] = "done"))
      <4>1. CASE p # r
        BY <1>5, <4>1
      <4>2. CASE p = r /\ dir[r] = "archive"
        <5>1. n # name[r]
          BY <1>1, <2>2, <4>2, PathFacts
        <5> QED
          BY <1>4, <4>2, <5>1
      <4>3. CASE p = r /\ dir[r] = "out"
        BY <1>3, <1>4, <2>0, <4>3
      <4> QED
        BY <1>3, <4>1, <4>2, <4>3
    <3> HIDE DEF q
    <3>3. Own(p, n)
      BY DEF Inv
    <3> QED
      BY <1>1, <3>1, <3>2, <3>3 DEF Own, q
  <2> QED
    BY <2>1, <2>2
<1>8. ASSUME NEW p \in Pipelines PROVE InHand(p)'
  <2>1. CASE p = r
    BY <1>3, <1>4, <2>1 DEF InHand
  <2>2. CASE p # r
    <3>1. ASSUME dir[p] = "archive" PROVE temp'[Path(p)] = temp[Path(p)]
      <4>1. Path(p) # Path(r) /\ Path(p) \in Paths
        BY <1>1, <2>2, <3>1, PathFacts, OwnPath
      <4> QED
        BY <1>1, <4>1 DEF TypeOK
    <3> QED
      BY <1>1, <1>5, <2>2, <3>1 DEF Inv, InHand
  <2> QED
    BY <2>1, <2>2
<1>9. ASSUME NEW n \in Names PROVE Shared(n)'
  BY <1>1, OutPath DEF Inv, Shared, TypeOK
<1> QED
  BY <1>6, <1>7, <1>8, <1>9 DEF Inv

\* A pipeline that ends without a replace leaves everything as it is.
LEMMA EndInv ==
  ASSUME Inv, NEW r \in Pipelines, ReplaceRaises(r) \/ Kill(r)
  PROVE  Inv'
<1>1. PICK s \in {"raised", "killed"} :
        /\ status' = [status EXCEPT ![r] = s] /\ holds' = [holds EXCEPT ![r] = Absent]
        /\ status[r] # "done" /\ UNCHANGED <<name, dir, temp, visible, content>>
  BY DEF ReplaceRaises, Kill, Running
<1>2. \A p \in Pipelines : Path(p)' = Path(p) /\ (status'[p] = "done" <=> status[p] = "done")
  BY <1>1 DEF Inv, TypeOK, Path
<1>3. TypeOK'
  <2>1. \A p \in Pipelines : status'[p] \in {"write", "replace"} <=> holds'[p] # Absent
    BY <1>1 DEF Inv, TypeOK
  <2>2. /\ status' \in [Pipelines -> {"open", "write", "replace", "done", "raised", "killed"}]
        /\ holds' \in [Pipelines -> Files \cup {Absent}]
    BY <1>1 DEF Inv, TypeOK
  <2> QED
    BY <1>1, <2>1, <2>2 DEF Inv, TypeOK
<1>4. \A p \in Pipelines, n \in Names : Own(p, n)'
  BY <1>1, <1>2 DEF Inv, Own
<1>5. ASSUME NEW p \in Pipelines PROVE InHand(p)'
  <2>1. CASE p = r
    BY <1>1, <1>2, <2>1 DEF Inv, InHand, TypeOK
  <2>2. CASE p # r
    <3>1. status'[p] = status[p] /\ holds'[p] = holds[p]
      BY <1>1, <2>2 DEF Inv, TypeOK
    <3> QED
      BY <1>1, <1>2, <3>1 DEF Inv, InHand
  <2> QED
    BY <2>1, <2>2
<1>6. \A n \in Names : Shared(n)'
  BY <1>1 DEF Inv, Shared
<1> QED
  BY <1>3, <1>4, <1>5, <1>6 DEF Inv

LEMMA StutterInv ==
  ASSUME Inv, UNCHANGED vars
  PROVE  Inv'
BY DEF Inv, TypeOK, Own, InHand, Shared, Path, vars

LEMMA StepInv ==
  ASSUME UniqueRunIds, Inv, [Next]_vars
  PROVE  Inv'
<1>1. CASE UNCHANGED vars
  BY <1>1, StutterInv
<1>2. ASSUME NEW r \in Pipelines,
             Open(r) \/ Write(r) \/ Replace(r) \/ ReplaceRaises(r) \/ Kill(r)
      PROVE  Inv'
  BY <1>2, OpenInv, WriteInv, ReplaceInv, EndInv
<1> QED
  BY <1>1, <1>2 DEF Next

LEMMA Invariant ==
  ASSUME UniqueRunIds
  PROVE  Spec => []Inv
<1>1. Init => Inv
  BY InitInv
<1>2. Inv /\ [Next]_vars => Inv'
  BY StepInv
<1> QED
  BY <1>1, <1>2, PTL DEF Spec
--------------------------------------------------------------------------------
(* The shared directory.  Nothing keeps the pipelines apart there: what is *)
(* invariant is that a name is in order, or somebody will pay for it.      *)

Failed      == \E p \in Pipelines : status[p] \in {"raised", "killed"}
Past(p, n)  == status[p] = "done" \/ n < name[p]
AtOut(p, n) == dir[p] = "out" /\ name[p] = n /\ status[p] \in {"write", "replace"}

\* One more pipeline is at the name than there are .tmp files to rename: unless one of them
\* dies first, the last will find none.
Muddled(n) ==
  \E p \in Pipelines :
    AtOut(p, n) /\ (temp[OutName(n)] = Absent \/ \E r \in Pipelines : r # p /\ AtOut(r, n))

\* The .tmp name leads to the file of the one pipeline that is there, and what is published
\* to the whole file of one that has been.
Orderly(n) ==
  LET q == OutName(n)
  IN /\ \A p \in Pipelines : AtOut(p, n) =>
          /\ holds[p] = <<p, q>> /\ temp[q] = <<p, q>>
          /\ content[<<p, q>>] = [by |-> p, bytes |-> IF status[p] = "write" THEN "some" ELSE "all"]
     /\ temp[q] # Absent => \E p \in Pipelines : AtOut(p, n)
     /\ visible[q] # Absent =>
          \E p \in Pipelines :
            Past(p, n) /\ visible[q] = <<p, q>> /\ content[<<p, q>>] = [by |-> p, bytes |-> "all"]

\* Who has gone past a name has left something under it.
Left(n) == (\E p \in Pipelines : Past(p, n)) => visible[OutName(n)] # Absent

OutInv == \A n \in Names : Left(n) /\ (Failed \/ Muddled(n) \/ Orderly(n))

LEMMA InitOut ==
  ASSUME Init
  PROVE  OutInv
<1> SUFFICES ASSUME NEW n \in Names PROVE Left(n) /\ Orderly(n)
  BY DEF OutInv
<1>1. temp[OutName(n)] = Absent /\ visible[OutName(n)] = Absent
  BY OutPath DEF Init
<1>2. n \in Nat /\ n >= 1
  BY ConcurrentAssumption DEF Names
<1>3. ASSUME NEW p \in Pipelines PROVE ~Past(p, n) /\ ~AtOut(p, n)
  <2>1. name[p] = 1 /\ dir[p] = "archive" /\ status[p] = "open" /\ ~(n < 1)
    BY <1>2 DEF Init
  <2> QED
    BY <2>1 DEF Past, AtOut
<1> QED
  BY <1>1, <1>3 DEF Left, Orderly

\* A pipeline that is not at a name in the shared directory does not disturb it.
LEMMA Elsewhere ==
  ASSUME TypeOK, OutInv, NEW r \in Pipelines, NEW n \in Names,
         \A p \in Pipelines \ {r} : /\ name'[p] = name[p] /\ dir'[p] = dir[p]
                                    /\ status'[p] = status[p] /\ holds'[p] = holds[p],
         ~AtOut(r, n), ~AtOut(r, n)', Past(r, n)' <=> Past(r, n),
         status[r] \notin {"raised", "killed"},
         temp'[OutName(n)] = temp[OutName(n)], visible'[OutName(n)] = visible[OutName(n)],
         \A p \in Pipelines : content'[<<p, OutName(n)>>] = content[<<p, OutName(n)>>]
  PROVE  Left(n)' /\ (Failed' \/ Muddled(n)' \/ Orderly(n)')
<1>1. \A p \in Pipelines : /\ AtOut(p, n)' <=> AtOut(p, n)
                           /\ Past(p, n)' <=> Past(p, n)
  BY DEF AtOut, Past
<1>2. \A p \in Pipelines : AtOut(p, n) =>
        status'[p] = status[p] /\ holds'[p] = holds[p]
  OBVIOUS
<1>3. Left(n)'
  BY <1>1 DEF OutInv, Left
<1>4. CASE Failed
  <2>1. PICK p \in Pipelines : status[p] \in {"raised", "killed"}
    BY <1>4 DEF Failed
  <2>2. status'[p] = status[p]
    BY <2>1
  <2> QED
    BY <1>3, <2>1, <2>2 DEF Failed
<1>5. CASE Muddled(n)
  BY <1>1, <1>3, <1>5 DEF Muddled
<1>6. CASE Orderly(n)
  BY <1>1, <1>2, <1>3, <1>6 DEF Orderly
<1> QED
  BY <1>3, <1>4, <1>5, <1>6 DEF OutInv

\* A pipeline in the shared directory is at one name there, and at no other.
LEMMA AtOneName ==
  ASSUME UniqueRunIds, TypeOK, NEW r \in Pipelines, NEW n \in Names
  PROVE  Path(r) = OutName(n) <=> dir[r] = "out" /\ name[r] = n
<1>1. dir[r] \in {"archive", "out"} /\ name[r] \in Names
  BY DEF TypeOK
<1>2. CASE dir[r] = "archive"
  BY <1>2, PathFacts, DirFacts DEF RunName, OutName
<1>3. CASE dir[r] = "out"
  BY <1>3, PathFacts DEF OutName
<1> QED
  BY <1>1, <1>2, <1>3

LEMMA OpenOut ==
  ASSUME UniqueRunIds, Inv, OutInv, NEW r \in Pipelines, Open(r)
  PROVE  OutInv'
<1> DEFINE file == IF temp[Path(r)] = Absent THEN <<r, Path(r)>> ELSE temp[Path(r)]
<1>1. /\ TypeOK /\ Path(r) \in Paths /\ status[r] = "open"
      /\ temp' = [temp EXCEPT ![Path(r)] = file]
      /\ holds' = [holds EXCEPT ![r] = file]
      /\ content' = [content EXCEPT ![file] = [by |-> r, bytes |-> "some"]]
      /\ status' = [status EXCEPT ![r] = "write"]
      /\ UNCHANGED <<name, dir, visible>>
  BY PathFacts DEF Inv, Open
<1>2. file \in Pipelines \X {Path(r)}
  BY TempNamed
<1>3. file \in Files /\ file # Absent
  BY <1>1, <1>2, ConcurrentAssumption DEF Files
<1>4. ASSUME temp[Path(r)] = Absent PROVE file = <<r, Path(r)>>
  BY <1>4
<1> HIDE DEF file
<1>5. status'[r] = "write" /\ holds'[r] = file /\ temp'[Path(r)] = file
      /\ content'[file] = [by |-> r, bytes |-> "some"]
      /\ \A p \in Pipelines \ {r} : status'[p] = status[p] /\ holds'[p] = holds[p]
  BY <1>1, <1>3 DEF TypeOK
<1> SUFFICES ASSUME NEW n \in Names
             PROVE  Left(n)' /\ (Failed' \/ Muddled(n)' \/ Orderly(n)')
  BY DEF OutInv
<1> DEFINE q == OutName(n)
<1>6. q \in Paths /\ \A p \in Pipelines : <<p, q>> \in Files /\ <<p, q>> # Absent
  BY OutPath, ConcurrentAssumption DEF Files
<1>7. \A p \in Pipelines : Past(p, n)' <=> Past(p, n)
  BY <1>1, <1>5 DEF Past
<1>8. CASE Path(r) # q
  <2>1. temp'[q] = temp[q] /\ visible'[q] = visible[q]
    BY <1>1, <1>6, <1>8 DEF TypeOK
  <2>2. \A p \in Pipelines : content'[<<p, q>>] = content[<<p, q>>]
    BY <1>1, <1>2, <1>6, <1>8 DEF TypeOK
  <2>3. ~AtOut(r, n) /\ ~AtOut(r, n)'
    BY <1>1, <1>8, AtOneName DEF AtOut
  <2> HIDE DEF q
  <2> QED
    BY <1>1, <1>5, <1>7, <2>1, <2>2, <2>3, Elsewhere DEF q
<1>9. CASE Path(r) = q
  <2>1. dir[r] = "out" /\ name[r] = n /\ n \in Nat
    BY <1>1, <1>9, AtOneName DEF Names
  <2>2. ~AtOut(r, n) /\ AtOut(r, n)' /\ ~Past(r, n)
    BY <1>1, <1>5, <2>1 DEF AtOut, Past
  <2>3. \A p \in Pipelines \ {r} : AtOut(p, n)' <=> AtOut(p, n)
    BY <1>1, <1>5 DEF AtOut
  <2>4. Left(n)'
    BY <1>1, <1>7 DEF OutInv, Left
  <2>5. CASE Failed
    <3>1. PICK p \in Pipelines : status[p] \in {"raised", "killed"}
      BY <2>5 DEF Failed
    <3> QED
      BY <1>1, <1>5, <2>4, <3>1 DEF Failed
  <2>6. ASSUME NEW p \in Pipelines, AtOut(p, n) PROVE Muddled(n)'
    <3>1. p # r /\ AtOut(p, n)'
      BY <2>2, <2>3, <2>6
    <3> QED
      BY <2>2, <3>1 DEF Muddled
  <2>7. CASE Orderly(n) /\ \A p \in Pipelines : ~AtOut(p, n)
    <3>1. file = <<r, q>>
      BY <1>4, <1>9, <2>7 DEF Orderly
    <3>2. ASSUME NEW p \in Pipelines, AtOut(p, n)' PROVE p = r
      BY <2>3, <2>7, <3>2
    <3>3. ASSUME visible'[q] # Absent
          PROVE  \E p \in Pipelines :
                   /\ Past(p, n)' /\ visible'[q] = <<p, q>>
                   /\ content'[<<p, q>>] = [by |-> p, bytes |-> "all"]
      <4>1. PICK p \in Pipelines :
              /\ Past(p, n) /\ visible[q] = <<p, q>>
              /\ content[<<p, q>>] = [by |-> p, bytes |-> "all"]
        BY <1>1, <2>7, <3>3 DEF Orderly
      <4>2. p # r
        BY <2>2, <4>1
      <4>3. content'[<<p, q>>] = content[<<p, q>>]
        BY <1>1, <1>6, <3>1, <4>2 DEF TypeOK
      <4> QED
        BY <1>1, <1>7, <4>1, <4>3
    <3> HIDE DEF q
    <3>4. Orderly(n)'
      BY <1>5, <1>9, <2>2, <3>1, <3>2, <3>3 DEF Orderly, q
    <3> QED
      BY <2>4, <3>4
  <2> QED
    BY <2>4, <2>5, <2>6, <2>7 DEF OutInv, Muddled
<1> QED
  BY <1>8, <1>9

LEMMA WriteOut ==
  ASSUME UniqueRunIds, Inv, OutInv, NEW r \in Pipelines, Write(r)
  PROVE  OutInv'
<1>1. /\ TypeOK /\ Path(r) \in Paths /\ status[r] = "write"
      /\ content' = [content EXCEPT ![holds[r]] =
                       [by |-> r, bytes |-> IF content[holds[r]].bytes = "some" THEN "all" ELSE "mixed"]]
      /\ status' = [status EXCEPT ![r] = "replace"]
      /\ UNCHANGED <<name, dir, holds, temp, visible>>
  BY PathFacts DEF Inv, Write
<1>2. holds[r] \in Pipelines \X {Path(r)}
  BY <1>1 DEF Inv, InHand, TypeOK
<1>3. status'[r] = "replace" /\ \A p \in Pipelines \ {r} : status'[p] = status[p]
  BY <1>1 DEF TypeOK
<1> SUFFICES ASSUME NEW n \in Names
             PROVE  Left(n)' /\ (Failed' \/ Muddled(n)' \/ Orderly(n)')
  BY DEF OutInv
<1> DEFINE q == OutName(n)
<1>4. q \in Paths /\ \A p \in Pipelines : <<p, q>> \in Files
  BY OutPath DEF Files
<1>5. \A p \in Pipelines : /\ Past(p, n)' <=> Past(p, n)
                           /\ AtOut(p, n)' <=> AtOut(p, n)
  BY <1>1, <1>3 DEF Past, AtOut
<1>6. CASE Path(r) # q
  <2>1. \A p \in Pipelines : content'[<<p, q>>] = content[<<p, q>>]
    BY <1>1, <1>2, <1>4, <1>6 DEF TypeOK
  <2>2. ~AtOut(r, n)
    BY <1>1, <1>6, AtOneName DEF AtOut
  <2> HIDE DEF q
  <2> QED
    BY <1>1, <1>3, <1>5, <2>1, <2>2, Elsewhere DEF q
<1>7. CASE Path(r) = q
  <2>1. AtOut(r, n) /\ ~Past(r, n)
    <3>1. dir[r] = "out" /\ name[r] = n /\ n \in Nat
      BY <1>1, <1>7, AtOneName DEF Names
    <3> QED
      BY <1>1, <3>1 DEF AtOut, Past
  <2>2. Left(n)'
    BY <1>1, <1>5 DEF OutInv, Left
  <2>3. CASE Failed
    <3>1. PICK p \in Pipelines : status[p] \in {"raised", "killed"}
      BY <2>3 DEF Failed
    <3> QED
      BY <1>1, <1>3, <2>2, <3>1 DEF Failed
  <2>4. CASE Muddled(n)
    BY <1>1, <1>5, <2>2, <2>4 DEF Muddled
  <2>5. CASE Orderly(n)
    <3>1. /\ holds[r] = <<r, q>> /\ temp[q] = <<r, q>>
          /\ content[<<r, q>>] = [by |-> r, bytes |-> "some"]
      BY <1>1, <2>1, <2>5 DEF Orderly
    <3>2. content[holds[r]].bytes = "some"
      BY <3>1
    <3>3. content'[<<r, q>>] = [by |-> r, bytes |-> "all"]
      BY <1>1, <1>4, <3>1, <3>2 DEF TypeOK
    <3>4. ASSUME NEW p \in Pipelines, AtOut(p, n) PROVE p = r
      <4>1. temp[q] = <<p, q>>
        BY <2>5, <3>4 DEF Orderly
      <4> QED
        BY <3>1, <4>1
    <3>5. ASSUME visible'[q] # Absent
          PROVE  \E p \in Pipelines :
                   /\ Past(p, n)' /\ visible'[q] = <<p, q>>
                   /\ content'[<<p, q>>] = [by |-> p, bytes |-> "all"]
      <4>1. PICK p \in Pipelines :
              /\ Past(p, n) /\ visible[q] = <<p, q>>
              /\ content[<<p, q>>] = [by |-> p, bytes |-> "all"]
        BY <1>1, <2>5, <3>5 DEF Orderly
      <4>2. p # r
        BY <2>1, <4>1
      <4>3. content'[<<p, q>>] = content[<<p, q>>]
        BY <1>1, <1>4, <3>1, <4>2 DEF TypeOK
      <4> QED
        BY <1>1, <1>5, <4>1, <4>3
    <3> HIDE DEF q
    <3>6. Orderly(n)'
      BY <1>1, <1>3, <1>5, <2>1, <3>1, <3>3, <3>4, <3>5 DEF Orderly, q
    <3> QED
      BY <2>2, <3>6
  <2> QED
    BY <2>2, <2>3, <2>4, <2>5 DEF OutInv
<1> QED
  BY <1>6, <1>7

LEMMA ReplaceOut ==
  ASSUME UniqueRunIds, Inv, OutInv, NEW r \in Pipelines, Replace(r)
  PROVE  OutInv'
<1>1. /\ TypeOK /\ Path(r) \in Paths /\ status[r] = "replace" /\ temp[Path(r)] # Absent
      /\ visible' = [visible EXCEPT ![Path(r)] = temp[Path(r)]]
      /\ temp' = [temp EXCEPT ![Path(r)] = Absent]
      /\ holds' = [holds EXCEPT ![r] = Absent]
      /\ UNCHANGED content
  BY PathFacts DEF Inv, Replace
<1>2. /\ dir' = [dir EXCEPT ![r] = IF @ = "archive" THEN "out" ELSE "archive"]
      /\ name' = [name EXCEPT ![r] = IF dir[r] = "out" /\ @ < Artifacts THEN @ + 1 ELSE @]
      /\ status' = [status EXCEPT ![r] = IF dir[r] = "out" /\ name[r] = Artifacts THEN "done" ELSE "open"]
  BY DEF Replace, Advance
<1>3. \A p \in Pipelines \ {r} : /\ name'[p] = name[p] /\ dir'[p] = dir[p]
                                 /\ status'[p] = status[p] /\ holds'[p] = holds[p]
  BY <1>1, <1>2 DEF TypeOK
<1>4. /\ dir[r] \in {"archive", "out"} /\ name[r] \in Nat /\ name[r] <= Artifacts /\ Artifacts \in Nat
      /\ dir[r] = "archive" => dir'[r] = "out" /\ name'[r] = name[r] /\ status'[r] = "open"
      /\ dir[r] = "out" /\ name[r] < Artifacts => name'[r] = name[r] + 1 /\ status'[r] = "open"
      /\ dir[r] = "out" /\ ~(name[r] < Artifacts) => name[r] = Artifacts /\ status'[r] = "done"
  BY <1>1, <1>2, ConcurrentAssumption DEF TypeOK, Names
<1>5. status'[r] \in {"open", "done"}
  BY <1>4
<1> SUFFICES ASSUME NEW n \in Names
             PROVE  Left(n)' /\ (Failed' \/ Muddled(n)' \/ Orderly(n)')
  BY DEF OutInv
<1> DEFINE q == OutName(n)
<1>6. q \in Paths /\ n \in Nat /\ n <= Artifacts
  BY OutPath, ConcurrentAssumption DEF Names
<1>7. ~AtOut(r, n)'
  BY <1>5 DEF AtOut
<1>8. CASE Path(r) # q
  <2>1. temp'[q] = temp[q] /\ visible'[q] = visible[q]
    BY <1>1, <1>6, <1>8 DEF TypeOK
  <2>2. dir[r] # "out" \/ name[r] # n
    BY <1>1, <1>8, AtOneName
  <2>3. ~AtOut(r, n)
    BY <2>2 DEF AtOut
  <2>4. Past(r, n)' <=> Past(r, n)
    <3>1. CASE dir[r] = "archive"
      BY <1>1, <1>4, <3>1 DEF Past
    <3>2. CASE dir[r] = "out" /\ name[r] < Artifacts
      BY <1>1, <1>4, <1>6, <2>2, <3>2 DEF Past
    <3>3. CASE dir[r] = "out" /\ ~(name[r] < Artifacts)
      BY <1>1, <1>4, <1>6, <2>2, <3>3 DEF Past
    <3> QED
      BY <1>4, <3>1, <3>2, <3>3
  <2> HIDE DEF q
  <2> QED
    BY <1>1, <1>3, <1>7, <2>1, <2>3, <2>4, Elsewhere DEF q
<1>9. CASE Path(r) = q
  <2>1. dir[r] = "out" /\ name[r] = n
    BY <1>1, <1>9, AtOneName
  <2>2. AtOut(r, n) /\ Past(r, n)'
    <3>1. AtOut(r, n)
      BY <1>1, <2>1 DEF AtOut
    <3>2. status'[r] = "done" \/ n < name'[r]
      BY <1>4, <1>6, <2>1
    <3> QED
      BY <3>1, <3>2 DEF Past
  <2>3. \A p \in Pipelines \ {r} : AtOut(p, n)' <=> AtOut(p, n)
    BY <1>3 DEF AtOut
  <2>4. temp'[q] = Absent /\ visible'[q] = temp[q] /\ temp[q] # Absent
    BY <1>1, <1>6, <1>9 DEF TypeOK
  <2>5. Left(n)'
    BY <2>4 DEF Left
  <2>6. CASE Failed
    <3>1. PICK p \in Pipelines : status[p] \in {"raised", "killed"}
      BY <2>6 DEF Failed
    <3> QED
      BY <1>1, <1>3, <2>5, <3>1 DEF Failed
  <2>7. ASSUME NEW p \in Pipelines, AtOut(p, n), p # r PROVE Muddled(n)'
    BY <2>3, <2>4, <2>7 DEF Muddled
  <2>8. CASE Orderly(n) /\ \A p \in Pipelines : AtOut(p, n) => p = r
    <3>1. temp[q] = <<r, q>> /\ content[<<r, q>>] = [by |-> r, bytes |-> "all"]
      BY <1>1, <2>2, <2>8 DEF Orderly
    <3>2. \A p \in Pipelines : ~AtOut(p, n)'
      BY <1>7, <2>3, <2>8
    <3> HIDE DEF q
    <3>3. Orderly(n)'
      BY <1>1, <2>2, <2>4, <3>1, <3>2 DEF Orderly, q
    <3> QED
      BY <2>5, <3>3
  <2> QED
    BY <2>4, <2>5, <2>6, <2>7, <2>8 DEF OutInv, Muddled
<1> QED
  BY <1>8, <1>9

LEMMA EndOut ==
  ASSUME Inv, OutInv, NEW r \in Pipelines, ReplaceRaises(r) \/ Kill(r)
  PROVE  OutInv'
<1>1. PICK s \in {"raised", "killed"} :
        status' = [status EXCEPT ![r] = s] /\ UNCHANGED <<name, visible>>
  BY DEF ReplaceRaises, Kill
<1>2. status'[r] = s /\ status[r] # "done"
  BY <1>1 DEF ReplaceRaises, Kill, Running, Inv, TypeOK
<1>3. Failed'
  BY <1>2 DEF Failed
<1>4. \A p \in Pipelines : status'[p] = "done" => status[p] = "done"
  BY <1>1, <1>2 DEF Inv, TypeOK
<1>5. \A n \in Names : Left(n)'
  BY <1>1, <1>4 DEF OutInv, Left, Past
<1> QED
  BY <1>3, <1>5 DEF OutInv

LEMMA StepOut ==
  ASSUME UniqueRunIds, Inv, OutInv, [Next]_vars
  PROVE  OutInv'
<1>1. CASE UNCHANGED vars
  <2>1. Failed' <=> Failed
    BY <1>1 DEF vars, Failed
  <2>2. ASSUME NEW n \in Names
        PROVE  (Left(n)' <=> Left(n)) /\ (Muddled(n)' <=> Muddled(n)) /\ (Orderly(n)' <=> Orderly(n))
    <3>1. \A p \in Pipelines : (Past(p, n)' <=> Past(p, n)) /\ (AtOut(p, n)' <=> AtOut(p, n))
      BY <1>1 DEF vars, Past, AtOut
    <3>2. UNCHANGED <<status, holds, temp, visible, content>>
      BY <1>1 DEF vars
    <3> QED
      BY <3>1, <3>2 DEF Left, Muddled, Orderly
  <2> QED
    BY <2>1, <2>2 DEF OutInv
<1>2. ASSUME NEW r \in Pipelines,
             Open(r) \/ Write(r) \/ Replace(r) \/ ReplaceRaises(r) \/ Kill(r)
      PROVE  OutInv'
  BY <1>2, OpenOut, WriteOut, ReplaceOut, EndOut
<1> QED
  BY <1>1, <1>2 DEF Next
--------------------------------------------------------------------------------
(* The results *)

\* The types of paths, files and payloads (pipeline.py:294-311).
THEOREM ConcurrentTypes ==
  ASSUME UniqueRunIds
  PROVE  Spec => []TypeOK
<1>1. Inv => TypeOK
  BY DEF Inv
<1> QED
  BY <1>1, Invariant, PTL

\* The archive of a run is its own and whole, and complete once the run has ended, for any
\* number of pipelines that share artifacts/runtime (pipeline.py:295, 303-311).
THEOREM ArchivesStayOwn ==
  ASSUME UniqueRunIds
  PROVE  Spec => []ArchiveIsOwn
<1>1. ASSUME Inv PROVE ArchiveIsOwn
  <2> SUFFICES ASSUME NEW p \in Pipelines, NEW n \in Names
               PROVE  LET q == <<RunDir(p), n>>
                      IN /\ visible[q] # Absent => Whole(q) /\ content[visible[q]].by = p
                         /\ status[p] = "done" => visible[q] # Absent
    BY DEF ArchiveIsOwn
  <2> DEFINE q == RunName(p, n)
  <2>1. ASSUME visible[q] # Absent
        PROVE  Whole(q) /\ content[visible[q]].by = p
    <3>1. visible[q] = <<p, q>> /\ content[<<p, q>>] = [by |-> p, bytes |-> "all"]
      BY <1>1, <2>1 DEF Inv, Own
    <3> QED
      BY <2>1, <3>1 DEF Whole
  <2>2. ASSUME status[p] = "done"
        PROVE  visible[q] # Absent
    <3>1. name[p] = Artifacts
      BY <1>1, <2>2 DEF Inv, InHand
    <3>2. n < Artifacts \/ n = Artifacts
      BY ConcurrentAssumption DEF Names
    <3> QED
      BY <1>1, <2>2, <3>1, <3>2 DEF Inv, Own
  <2> QED
    BY <2>1, <2>2 DEF RunName
<1> QED
  BY <1>1, Invariant, PTL

\* A published artifact that is torn leaves a pipeline that fails: when at least one was
\* started and all end without an error, each published artifact is whole, of whichever
\* pipeline it is (pipeline.py:303-311).
THEOREM DamageIsNeverSilent ==
  ASSUME UniqueRunIds, Pipelines # {}
  PROVE  Spec => []CleanExitsLeaveWhole
<1>1. Init => Inv /\ OutInv
  BY InitInv, InitOut
<1>2. Inv /\ OutInv /\ [Next]_vars => (Inv /\ OutInv)'
  BY StepInv, StepOut
<1>3. ASSUME Inv, OutInv PROVE CleanExitsLeaveWhole
  <2> SUFFICES ASSUME \A p \in Pipelines : status[p] = "done", NEW n \in Names
               PROVE  Whole(OutName(n))
    BY DEF CleanExitsLeaveWhole, OutName
  <2>1. ~Failed /\ ~Muddled(n)
    BY DEF Failed, Muddled, AtOut
  <2>2. visible[OutName(n)] # Absent
    BY <1>3 DEF OutInv, Left, Past
  <2>3. Orderly(n)
    BY <1>3, <2>1 DEF OutInv
  <2>4. PICK p \in Pipelines :
          /\ visible[OutName(n)] = <<p, OutName(n)>>
          /\ content[<<p, OutName(n)>>] = [by |-> p, bytes |-> "all"]
    BY <2>2, <2>3 DEF Orderly
  <2> QED
    BY <2>2, <2>4 DEF Whole
<1> QED
  BY <1>1, <1>2, <1>3, PTL DEF Spec
================================================================================
