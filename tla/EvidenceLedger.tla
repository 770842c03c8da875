----------------------------- MODULE EvidenceLedger -----------------------------
(***************************************************************************)
(* What publishing evidence promises, without files: attempts of the       *)
(* pipeline are numbered in the order they start; an attempt may be put on *)
(* record in its own archive, and only then become the current one.  The   *)
(* current attempt never goes back to an earlier one, and the archive      *)
(* never loses an attempt.  ArtifactPublication implements this.           *)
(***************************************************************************)
EXTENDS Integers

CONSTANT MaxAttempts   \* bound of the model: attempts of the pipeline

VARIABLES
  archived,  \* attempts whose archive is complete
  current    \* the attempt whose manifest is the current one, 0 if there is none

ledgerVars == <<archived, current>>

Attempts == 1 .. MaxAttempts

Init == archived = {} /\ current = 0

Archive(a) ==
  /\ \A b \in archived : b < a
  /\ archived' = archived \cup {a}
  /\ UNCHANGED current

Commit(a) ==
  /\ a \in archived /\ current < a
  /\ current' = a
  /\ UNCHANGED archived

Next == \E a \in Attempts : Archive(a) \/ Commit(a)

Spec == Init /\ [][Next]_ledgerVars
=================================================================================
