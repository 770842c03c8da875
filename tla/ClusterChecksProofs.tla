-------------------------- MODULE ClusterChecksProofs --------------------------
(***************************************************************************)
(* The properties of the four commands that ask a live cluster, for any    *)
(* number of manifests, policies, nodes, probes, tries, faults and runs.   *)
(* Each command has its own inductive invariant; as a behaviour is that of *)
(* one command, the steps of the others leave it as it is.                 *)
(***************************************************************************)
EXTENDS ClusterChecks, FiniteSetTheorems, SequenceTheorems, TLAPS

\* The parts take Cardinality from FiniteSets, and so do the library's theorems.
LEMMA SameSetOperators ==
  \A S : /\ Admission!Cardinality(S) = Cardinality(S) /\ Verify!Cardinality(S) = Cardinality(S)
         /\ Admission!IsFiniteSet(S) = IsFiniteSet(S)
BY DEF IsFiniteSet, Admission!IsFiniteSet, Cardinality, Admission!Cardinality, Verify!Cardinality
--------------------------------------------------------------------------------
(* The admission check *)

\* What an outcome says of a manifest that was tried.
Grounded(m) ==
  /\ outcome[m] = "policy_denied" => judged[m] # {}
  /\ outcome[m] = "allowed" => judged[m] = {}
  /\ mode = "offline" /\ m \in Negative =>
       m \in DOMAIN PolicyOf /\ judged[m] \subseteq {PolicyOf[m]} \cap defined

AdmissionInv ==
  /\ DOMAIN judged = DOMAIN outcome /\ DOMAIN outcome \subseteq Admission!Manifests
  /\ \A m \in DOMAIN outcome : Grounded(m)
  /\ pc \in {"start", "try", "done"} /\ (exit # -1 => pc = "done")
  /\ exit = 0 => Admission!Passed /\ Admission!Tried \subseteq DOMAIN outcome

\* What a reply classifies as: only a denial of an insecure manifest is a denial, and only
\* a compliant one is allowed.
LEMMA ClassifyOutcome ==
  ASSUME NEW m \in Admission!Manifests, Negative \cap Positive = {}, NEW reply,
         NEW found, reply = "denied" => found # {}, reply = "accepted" => found = {}
  PROVE  LET o == Admission!Classify(m, reply)
         IN (o = "policy_denied" => found # {}) /\ (o = "allowed" => found = {})
BY DEF Admission!Classify

\* A manifest that is tried extends outcomes and judgements alike.
LEMMA GroundedExtended ==
  ASSUME AdmissionInv, NEW m \in Admission!Manifests, NEW o, NEW found,
         pc = "try", UNCHANGED <<defined, mode, pc, exit>>,
         outcome' = Admission!Extend(outcome, m, o),
         judged' = Admission!Extend(judged, m, found),
         o = "policy_denied" => found # {},
         o = "allowed" => found = {},
         mode = "offline" /\ m \in Negative =>
           m \in DOMAIN PolicyOf /\ found \subseteq {PolicyOf[m]} \cap defined
  PROVE  AdmissionInv'
<1>1. /\ DOMAIN outcome' = DOMAIN outcome \cup {m} /\ outcome'[m] = o
      /\ \A x \in DOMAIN outcome : x # m => outcome'[x] = outcome[x]
  BY DEF Admission!Extend
<1>2. /\ DOMAIN judged' = DOMAIN judged \cup {m} /\ judged'[m] = found
      /\ \A x \in DOMAIN judged : x # m => judged'[x] = judged[x]
  BY DEF Admission!Extend
<1>3. ASSUME NEW x \in DOMAIN outcome'
      PROVE  Grounded(x)'
  <2>1. CASE x = m
    BY <1>1, <1>2, <2>1 DEF Grounded
  <2>2. CASE x # m
    <3>1. Grounded(x) /\ outcome'[x] = outcome[x] /\ judged'[x] = judged[x]
      BY <1>1, <1>2, <2>2 DEF AdmissionInv
    <3> QED
      BY <3>1 DEF Grounded
  <2> QED
    BY <2>1, <2>2
<1>4. /\ DOMAIN judged' = DOMAIN outcome' /\ DOMAIN outcome' \subseteq Admission!Manifests
      /\ pc' = "try" /\ exit' = -1
  BY <1>1, <1>2 DEF AdmissionInv
<1> QED
  BY <1>3, <1>4 DEF AdmissionInv, Admission!Manifests

LEMMA AdmissionStep ==
  ASSUME Admission!AdmissionAssumption, AdmissionInv, Admission!Next
  PROVE  AdmissionInv'
<1>1. CASE Admission!Start
  BY <1>1 DEF AdmissionInv, Admission!Start, Admission!End, Grounded
<1>2. CASE Admission!OpaFails
  BY <1>2 DEF AdmissionInv, Admission!OpaFails, Admission!End, Grounded
<1>3. CASE Admission!Summarize
  <2>1. /\ UNCHANGED <<mode, outcome, judged, defined>> /\ pc' = "done"
        /\ exit' = (IF Admission!Passed THEN 0 ELSE 1) /\ Admission!Tried \subseteq DOMAIN outcome
    BY <1>3 DEF Admission!Summarize, Admission!End
  <2>2. Admission!Passed' = Admission!Passed /\ Admission!Tried' = Admission!Tried
    BY <2>1 DEF Admission!Passed, Admission!Tried, Admission!Total, Admission!Blocked,
                Admission!Errors, Admission!Count
  <2> QED
    BY <2>1, <2>2 DEF AdmissionInv, Grounded
<1>4. CASE Admission!ClusterChanges
  BY <1>4 DEF AdmissionInv, Admission!ClusterChanges, Grounded
<1>5. ASSUME NEW m \in Admission!Manifests, Admission!TryLive(m)
      PROVE  AdmissionInv'
  <2> DEFINE found == IF webhook = "up" THEN Breaks[m] \cap active ELSE {}
  <2>1. PICK reply \in {Admission!Reply(m), "error"} :
          outcome' = Admission!Extend(outcome, m, Admission!Classify(m, reply))
    BY <1>5 DEF Admission!TryLive
  <2>2. (reply = "denied" => found # {}) /\ (reply = "accepted" => found = {})
    BY <2>1 DEF Admission!Reply
  <2>3. /\ judged' = Admission!Extend(judged, m, found) /\ pc = "try" /\ mode = "live"
        /\ UNCHANGED <<defined, mode, pc, exit>>
    BY <1>5 DEF Admission!TryLive
  <2> HIDE DEF found
  <2>4. LET o == Admission!Classify(m, reply)
        IN (o = "policy_denied" => found # {}) /\ (o = "allowed" => found = {})
    BY <2>2, ClassifyOutcome DEF Admission!AdmissionAssumption
  <2> QED
    BY <2>1, <2>3, <2>4, GroundedExtended
<1>6. ASSUME NEW m \in Admission!Manifests, Admission!TryOffline(m)
      PROVE  AdmissionInv'
  <2> DEFINE found == Admission!Eval(m, IF m \in Positive THEN Policies ELSE {PolicyOf[m]})
             o == IF m \in Positive THEN IF found = {} THEN "allowed" ELSE "positive_rejected"
                  ELSE IF found \cap matching # {} THEN "policy_denied" ELSE "unexpectedly_allowed"
  <2>1. /\ outcome' = Admission!Extend(outcome, m, o) /\ judged' = Admission!Extend(judged, m, found)
        /\ pc = "try" /\ mode = "offline" /\ UNCHANGED <<defined, mode, pc, exit>>
        /\ m \in Positive \cup DOMAIN PolicyOf
    BY <1>6 DEF Admission!TryOffline
  <2>2. m \in Negative => m \in DOMAIN PolicyOf /\ found \subseteq {PolicyOf[m]} \cap defined
    BY <2>1 DEF Admission!AdmissionAssumption, Admission!Eval
  <2>3. (o = "policy_denied" => found # {}) /\ (o = "allowed" => found = {})
    OBVIOUS
  <2> HIDE DEF found, o
  <2> QED
    BY <2>1, <2>2, <2>3, GroundedExtended
<1> QED
  BY <1>1, <1>2, <1>3, <1>4, <1>5, <1>6 DEF Admission!Next

\* A count that reaches everything tried leaves nothing out (summarize).
LEMMA CountedAll ==
  ASSUME NEW S, IsFiniteSet(S), NEW kind,
         Admission!Count(S, kind) = Admission!Cardinality(S \cap DOMAIN outcome)
  PROVE  \A m \in S \cap DOMAIN outcome : outcome[m] = kind
<1> DEFINE all == S \cap DOMAIN outcome
           those == {m \in all : outcome[m] = kind}
<1>1. IsFiniteSet(all)
  BY FS_Subset
<1>2. those = all
  BY <1>1, FS_Subset, SameSetOperators, those \subseteq all DEF Admission!Count
<1> QED
  BY <1>2

\* The invariant gives what the two properties of the admission check say.
LEMMA AdmissionSafe ==
  ASSUME Admission!AdmissionAssumption, AdmissionInv
  PROVE  SuccessIsEnforcement
<1> SUFFICES ASSUME exit = 0
             PROVE  SuccessIsEnforcement
  BY DEF SuccessIsEnforcement, Admission!SuccessIsEnforcement, Admission!MissingPackageFails
<1>1. Admission!Passed /\ Admission!Tried \subseteq DOMAIN outcome
  BY DEF AdmissionInv
<1>2. \A m \in Negative \cap DOMAIN outcome : outcome[m] = "policy_denied"
  BY <1>1, CountedAll, SameSetOperators DEF Admission!AdmissionAssumption, Admission!Passed, Admission!Blocked,
                          Admission!Total
<1>3. \A m \in Positive \cap DOMAIN outcome : outcome[m] = "allowed"
  BY <1>1, CountedAll, SameSetOperators DEF Admission!AdmissionAssumption, Admission!Passed
<1>4. Negative \cap DOMAIN outcome # {} /\ Positive \cap DOMAIN outcome # {}
  <2>1. Cardinality(Negative \cap DOMAIN outcome) # 0
    BY <1>1, SameSetOperators DEF Admission!Passed, Admission!Total
  <2> QED
    BY <1>1, <2>1, FS_EmptySet DEF Admission!Passed
<1>5. Admission!SuccessIsEnforcement
  BY <1>2, <1>3, <1>4 DEF AdmissionInv, Grounded, Admission!SuccessIsEnforcement,
                          Admission!Manifests, Admission!AdmissionAssumption
<1>6. ASSUME mode = "offline", NEW m \in DOMAIN PolicyOf
      PROVE  PolicyOf[m] \in defined
  <2>1. m \in Negative \cap DOMAIN outcome
    BY <1>1, <1>6 DEF Admission!Tried, Admission!AdmissionAssumption
  <2>2. judged[m] # {} /\ judged[m] \subseteq {PolicyOf[m]} \cap defined
    BY <1>2, <1>6, <2>1 DEF AdmissionInv, Grounded
  <2> QED
    BY <2>2
<1> QED
  BY <1>5, <1>6 DEF SuccessIsEnforcement, Admission!MissingPackageFails

LEMMA AdmissionInit ==
  ASSUME Init
  PROVE  AdmissionInv
BY DEF Init, Admission!Init, AdmissionInv

\* A step of the composition is one of the admission check's, or none of its.
LEMMA AdmissionTurn ==
  ASSUME [Next]_<<command, admissionVars, networkVars, sensorVars, verifyVars>>
  PROVE  Admission!Next \/ UNCHANGED admissionVars
BY DEF Next

\* The admission check succeeds only when the policies were enforced (live_check.py:71,
\* opa_client.py:55), whatever the manifests, the policies and the number of failures.
THEOREM AdmissionIsEnforcement == Spec => []SuccessIsEnforcement
<1>1. Init => AdmissionInv
  BY AdmissionInit
<1>2. AdmissionInv /\ [Next]_<<command, admissionVars, networkVars, sensorVars, verifyVars>>
      => AdmissionInv'
  <2> SUFFICES ASSUME AdmissionInv,
                      [Next]_<<command, admissionVars, networkVars, sensorVars, verifyVars>>
               PROVE  AdmissionInv'
    OBVIOUS
  <2>1. CASE UNCHANGED admissionVars
    <3>1. UNCHANGED <<mode, pc, outcome, judged, exit, defined>>
      BY <2>1 DEF admissionVars
    <3>2. Admission!Passed' = Admission!Passed /\ Admission!Tried' = Admission!Tried
      BY <3>1 DEF Admission!Passed, Admission!Tried, Admission!Total, Admission!Blocked,
                  Admission!Errors, Admission!Count
    <3> QED
      BY <3>1, <3>2 DEF AdmissionInv, Grounded
  <2> QED
    BY <2>1, AdmissionTurn, AdmissionStep, CheckAssumptions
<1>3. AdmissionInv => SuccessIsEnforcement
  BY AdmissionSafe, CheckAssumptions
<1> QED
  BY <1>1, <1>2, <1>3, PTL DEF Spec
--------------------------------------------------------------------------------
(* verify --live *)

\* Results follow what was met: nothing passes that is missing, without a warning exactly
\* what is well passes, and a check is only left out behind one that is BLOCKED or by a
\* traceback, which some answer is the reason of.
VerifyInv ==
  /\ check \in 1 .. 12
  /\ DOMAIN met \subseteq {Verify!Order[i] : i \in 1 .. check - 1}
  /\ DOMAIN result \subseteq DOMAIN met
  /\ raised => check = 12 /\ \E c \in DOMAIN met : met[c] = "alien"
  /\ raised \/ \A c \in DOMAIN met \ DOMAIN result : met[c] = "good"
  /\ \A c \in DOMAIN result :
       /\ result[c] \in {"PASS", "FAIL", "BLOCKED"}
       /\ met[c] = "missing" => result[c] # "PASS"
       /\ warned = {} => (result[c] = "PASS" <=> met[c] = "good")
  /\ raised \/ Verify!Some("BLOCKED") \/ \A i \in 1 .. check - 1 : Verify!Order[i] \in DOMAIN met

\* The eleven checks are different ones.
LEMMA OrderOfChecks ==
  /\ Verify!Len(Verify!Order) = 11
  /\ \A i, j \in 1 .. 11 : Verify!Order[i] = Verify!Order[j] => i = j
  /\ \A i \in 1 .. 11 : (i = 1 <=> Verify!Order[i] = "api") /\ (i = 3 <=> Verify!Order[i] = "gatekeeper")
<1>1. \A i \in 1 .. 11 :
        \/ i = 1 \/ i = 2 \/ i = 3 \/ i = 4 \/ i = 5 \/ i = 6 \/ i = 7 \/ i = 8 \/ i = 9
        \/ i = 10 \/ i = 11
  OBVIOUS
<1> QED
  BY <1>1 DEF Verify!Order

\* A list without repetition has as many members as entries.
LEMMA ListedOnce ==
  ASSUME NEW n \in Nat, NEW list, \A i, j \in 1 .. n : list[i] = list[j] => i = j
  PROVE  Cardinality({list[i] : i \in 1 .. n}) = n
<1> DEFINE members == {list[i] : i \in 1 .. n}
           place == [i \in 1 .. n |-> list[i]]
<1>1. IsFiniteSet(1 .. n) /\ Cardinality(1 .. n) = n
  BY FS_Interval
<1>2. place \in Bijection(1 .. n, members)
  BY DEF Bijection, Injection, Surjection, IsInjective
<1> QED
  BY <1>1, <1>2, FS_Bijection DEF ExistsBijection

\* What a check that is made is judged.
LEMMA JudgeOutcome ==
  ASSUME NEW c, NEW condition, NEW warning \in BOOLEAN
  PROVE  LET judged_as == Verify!Judge(c, condition, warning)
         IN /\ judged_as \in {"PASS", "FAIL", "BLOCKED"}
            /\ condition = "missing" => judged_as # "PASS"
            /\ ~warning => (judged_as = "PASS" <=> condition = "good")
BY DEF Verify!Judge, Verify!Good, Verify!Enough

\* A check that ends in a traceback leaves the results as they are, and is the last.
LEMMA TracebackStep ==
  ASSUME VerifyInv, check \in 1 .. 11, NEW c, c = Verify!Order[check], c \notin DOMAIN met,
         met' = Verify!Extend(met, c, "alien"), warned' \in {warned, warned \cup {c}},
         raised' = TRUE, check' = 12, UNCHANGED result
  PROVE  VerifyInv'
<1>1. /\ DOMAIN met' = DOMAIN met \cup {c} /\ met'[c] = "alien"
      /\ \A x \in DOMAIN met : met'[x] = met[x]
  BY DEF Verify!Extend
<1>2. DOMAIN met' \subseteq {Verify!Order[i] : i \in 1 .. 11}
  BY <1>1 DEF VerifyInv
<1>3. warned' = {} => warned = {}
  OBVIOUS
<1> QED
  BY <1>1, <1>2, <1>3 DEF VerifyInv

\* A check that is concluded.
LEMMA ConcludeStep ==
  ASSUME VerifyInv, check \in 1 .. 11, NEW c, c = Verify!Order[check], c \notin DOMAIN met,
         NEW condition, NEW warning \in BOOLEAN, NEW st, st = Verify!Judge(c, condition, warning),
         met' = Verify!Extend(met, c, condition),
         warned' = (IF warning THEN warned \cup {c} ELSE warned),
         Verify!Conclude(c, st), UNCHANGED raised
  PROVE  VerifyInv'
<1>1. /\ result' = IF c = "gatekeeper" /\ st = "PASS" THEN result ELSE Verify!Extend(result, c, st)
      /\ check' = Verify!After(c, st)
  BY DEF Verify!Conclude
<1>2. ~raised /\ c \notin DOMAIN result
  BY DEF VerifyInv
<1>3. /\ st \in {"PASS", "FAIL", "BLOCKED"} /\ (condition = "missing" => st # "PASS")
      /\ ~warning => (st = "PASS" <=> condition = "good")
  BY JudgeOutcome
<1>4. c = "gatekeeper" /\ st = "PASS" => condition = "good"
  BY DEF Verify!Judge, Verify!Good
<1>5. /\ check' = check + 1 \/ (st = "BLOCKED" /\ c \in {"api", "gatekeeper"})
      /\ check' \in 1 .. 12 /\ check' > check
  BY <1>1, OrderOfChecks DEF Verify!After
<1>6. /\ DOMAIN met' = DOMAIN met \cup {c} /\ met'[c] = condition
      /\ \A x \in DOMAIN met : met'[x] = met[x]
  BY DEF Verify!Extend
<1>7. CASE c = "gatekeeper" /\ st = "PASS"
  <2>1. result' = result
    BY <1>1, <1>7
  <2>2. /\ check' = check + 1
        /\ warned' = {} => warned = {}
    BY <1>5, <1>7
  <2>3. DOMAIN met' \subseteq {Verify!Order[i] : i \in 1 .. check' - 1}
    BY <1>6, <2>2 DEF VerifyInv
  <2>4. Verify!Some("BLOCKED")' = Verify!Some("BLOCKED")
    BY <2>1 DEF Verify!Some
  <2>5. Verify!Some("BLOCKED") \/ \A i \in 1 .. check' - 1 : Verify!Order[i] \in DOMAIN met'
    <3>1. \A i \in 1 .. check : i \in 1 .. check - 1 \/ i = check
      OBVIOUS
    <3> QED
      BY <1>2, <1>6, <2>2, <3>1 DEF VerifyInv
  <2> QED
    BY <1>2, <1>4, <1>5, <1>6, <1>7, <2>1, <2>2, <2>4, <2>5, <2>3 DEF VerifyInv
<1>8. CASE ~(c = "gatekeeper" /\ st = "PASS")
  <2>1. /\ DOMAIN result' = DOMAIN result \cup {c} /\ result'[c] = st
        /\ \A x \in DOMAIN result : result'[x] = result[x]
    BY <1>1, <1>2, <1>8 DEF Verify!Extend
  <2>2. /\ DOMAIN met' \subseteq {Verify!Order[i] : i \in 1 .. check' - 1}
        /\ DOMAIN result' \subseteq DOMAIN met'
        /\ \A x \in DOMAIN met' \ DOMAIN result' : met'[x] = "good"
    <3>1. check \in 1 .. check' - 1 /\ \A i \in 1 .. check - 1 : i \in 1 .. check' - 1
      <4>1. PICK m \in 1 .. 12 : m = check'
        BY <1>5
      <4>2. PICK k \in 1 .. 11 : k = check
        OBVIOUS
      <4>3. k < m
        BY <1>5, <4>1, <4>2
      <4>4. k \in 1 .. m - 1 /\ \A i \in 1 .. k - 1 : i \in 1 .. m - 1
        BY <4>3
      <4> QED
        BY <4>1, <4>2, <4>4
    <3>2. DOMAIN met' \subseteq {Verify!Order[i] : i \in 1 .. check' - 1}
      BY <1>6, <3>1 DEF VerifyInv
    <3>3. DOMAIN result' \subseteq DOMAIN met'
      BY <1>6, <2>1 DEF VerifyInv
    <3>4. \A x \in DOMAIN met' \ DOMAIN result' : met'[x] = "good"
      BY <1>2, <1>6, <2>1 DEF VerifyInv
    <3> QED
      BY <3>2, <3>3, <3>4
  <2>3. ASSUME NEW x \in DOMAIN result'
        PROVE  /\ result'[x] \in {"PASS", "FAIL", "BLOCKED"}
               /\ met'[x] = "missing" => result'[x] # "PASS"
               /\ warned' = {} => (result'[x] = "PASS" <=> met'[x] = "good")
    <3>1. CASE x = c
      BY <1>3, <1>6, <2>1, <3>1
    <3>2. CASE x # c
      <4>1. x \in DOMAIN result /\ x \in DOMAIN met /\ (warned' = {} => warned = {})
        BY <2>1, <3>2 DEF VerifyInv
      <4> QED
        BY <1>6, <2>1, <4>1 DEF VerifyInv
    <3> QED
      BY <3>1, <3>2
  <2>4. (\A i \in 1 .. check' - 1 : Verify!Order[i] \in DOMAIN met') \/ Verify!Some("BLOCKED")'
    <3>1. CASE Verify!Some("BLOCKED")
      BY <2>1, <3>1 DEF Verify!Some
    <3>2. CASE st = "BLOCKED"
      BY <2>1, <3>2 DEF Verify!Some
    <3>3. CASE ~Verify!Some("BLOCKED") /\ st # "BLOCKED"
      <4>1. check' = check + 1 /\ \A i \in 1 .. check - 1 : Verify!Order[i] \in DOMAIN met
        BY <1>2, <1>5, <3>3 DEF VerifyInv
      <4>2. \A i \in 1 .. check : i \in 1 .. check - 1 \/ i = check
        OBVIOUS
      <4> QED
        BY <1>6, <4>1, <4>2
    <3> QED
      BY <3>1, <3>2, <3>3
  <2> QED
    BY <1>2, <1>5, <2>2, <2>3, <2>4 DEF VerifyInv
<1> QED
  BY <1>7, <1>8

LEMMA VerifyStep ==
  ASSUME VerifyInv, Verify!Check
  PROVE  VerifyInv'
<1>1. check \in 1 .. 11
  BY OrderOfChecks DEF VerifyInv, Verify!Check
<1>2. PICK c : c = Verify!Order[check]
  OBVIOUS
<1>3. PICK condition \in Verify!Conditions(c), warning \in BOOLEAN :
        /\ met' = Verify!Extend(met, c, condition)
        /\ warned' = IF warning THEN warned \cup {c} ELSE warned
        /\ IF condition = "alien" THEN raised' = TRUE /\ check' = 12 /\ UNCHANGED result
           ELSE Verify!Conclude(c, Verify!Judge(c, condition, warning)) /\ UNCHANGED raised
  BY <1>2, OrderOfChecks DEF Verify!Check, Verify!Meet
<1>4. \A i \in 1 .. check - 1 : Verify!Order[i] # c
  BY <1>1, <1>2, OrderOfChecks
<1>5. c \notin DOMAIN met
  BY <1>4 DEF VerifyInv
<1>6. CASE condition = "alien"
  BY <1>1, <1>2, <1>3, <1>5, <1>6, TracebackStep
<1>7. CASE condition # "alien"
  BY <1>1, <1>2, <1>3, <1>5, <1>7, ConcludeStep
<1> QED
  BY <1>6, <1>7

LEMMA VerifySafe ==
  ASSUME VerifyInv
  PROVE  ZeroIsHealthy
<1>1. Verify!MissingNeverPasses
  BY OrderOfChecks DEF VerifyInv, Verify!MissingNeverPasses, Verify!Ended
<1>2. ASSUME raised
      PROVE  Verify!ExitCode # 0 /\ Verify!Asked # {}
  BY <1>2 DEF VerifyInv, Verify!ExitCode, Verify!Asked
<1>3. ASSUME Verify!Ended, warned = {}, ~raised
      PROVE  /\ Verify!exit_code_for = 0 => 11 = Verify!Cardinality(DOMAIN met) /\ Verify!Asked = {}
             /\ Verify!Asked = {} => Verify!exit_code_for = 0
  <2>1. Verify!exit_code_for = 0 <=> \A c \in DOMAIN result : result[c] = "PASS"
    BY DEF VerifyInv, Verify!exit_code_for, Verify!Some
  <2>2. Verify!Asked = {} <=> \A c \in DOMAIN result : result[c] = "PASS"
    BY <1>3 DEF VerifyInv, Verify!Asked
  <2>3. ASSUME Verify!exit_code_for = 0
        PROVE  11 = Verify!Cardinality(DOMAIN met)
    <3>1. check = 12
      BY <1>3, OrderOfChecks DEF VerifyInv, Verify!Ended
    <3>2. ~Verify!Some("BLOCKED")
      BY <2>1, <2>3 DEF Verify!Some
    <3>3. PICK n \in Nat : n = 11
      OBVIOUS
    <3>4. DOMAIN met = {Verify!Order[i] : i \in 1 .. n}
      BY <1>3, <3>1, <3>2, <3>3 DEF VerifyInv
    <3>5. \A i, j \in 1 .. n : Verify!Order[i] = Verify!Order[j] => i = j
      BY <3>3, OrderOfChecks
    <3>6. Cardinality(DOMAIN met) = n
      BY <3>4, <3>5, ListedOnce
    <3> QED
      BY <3>3, <3>6, SameSetOperators
  <2> QED
    BY <2>1, <2>2, <2>3
<1>4. ~raised => Verify!ExitCode = Verify!exit_code_for
  BY DEF Verify!ExitCode
<1>5. Verify!ZeroIsHealthy
  BY <1>2, <1>3, <1>4, OrderOfChecks DEF Verify!ZeroIsHealthy
<1> QED
  BY <1>1, <1>5 DEF ZeroIsHealthy

\* As long as no command prints a warning, verify --live exits 0 exactly if all it asked was
\* well (verify.py:271); with or without one, what is missing never passes (verify.py:300).
THEOREM VerificationIsExact == Spec => []ZeroIsHealthy
<1>1. Init => VerifyInv
  BY DEF Init, Verify!Init, VerifyInv
<1>2. VerifyInv /\ [Next]_<<command, admissionVars, networkVars, sensorVars, verifyVars>>
      => VerifyInv'
  <2> SUFFICES ASSUME VerifyInv,
                      [Next]_<<command, admissionVars, networkVars, sensorVars, verifyVars>>
               PROVE  VerifyInv'
    OBVIOUS
  <2>1. CASE UNCHANGED verifyVars
    BY <2>1 DEF verifyVars, VerifyInv, Verify!Some
  <2>2. CASE Verify!Next
    BY <2>2, VerifyStep DEF Verify!Next
  <2> QED
    BY <2>1, <2>2 DEF Next
<1>3. VerifyInv => ZeroIsHealthy
  BY VerifySafe
<1> QED
  BY <1>1, <1>2, <1>3, PTL DEF Spec
--------------------------------------------------------------------------------
(* The diagnosis of the sensor *)

Readings == [Sensor!Columns -> Nat]

SensorTypes ==
  /\ step \in {"agent", "before", "since", "probe", "after", "collect-idle", "collect-moved", "done"}
  /\ step \in {"before", "since", "probe", "after"} => agent \in Nodes
  /\ counter \in [Nodes -> Readings] /\ before \in Readings
  /\ triggered \in Nat /\ troubles \in Nat /\ lines \in Nat /\ pending \in Nat
  /\ code # -1 => step = "done"
  /\ step \in {"agent", "before", "since"} => triggered = 0

\* between the two reads of the counters
Counting == step \in {"since", "probe", "after"}

\* On a quiet cluster the counters of the Pod's node never fall, and rise exactly with what
\* the probes trigger.
QuietInv ==
  agent = PodNode /\ troubles = 0 =>
    /\ Counting =>
         /\ \A c \in Sensor!Columns : counter[PodNode][c] >= before[c]
         /\ triggered > 0 <=> Sensor!Activity(before, counter[PodNode])
    /\ step \in {"collect-idle", "collect-moved"} => (step = "collect-moved" <=> triggered > 0)
    /\ step = "done" /\ code # 2 => code = Sensor!Verdict(triggered > 0, lines)

\* A stranger or the pod itself has moved the counters that are read.
Accounted == agent \in strangers \/ (agent = PodNode /\ (triggered > 0 \/ podActed))

\* Until then none has risen: a restart only lowers them.
GapInv ==
  /\ Counting /\ ~Accounted => \A c \in Sensor!Columns : counter[agent][c] <= before[c]
  /\ step = "collect-moved" \/ code = 1 => Accounted

SensorInv == SensorTypes /\ QuietInv /\ GapInv

\* What one act raises goes up by one on its node, and nothing else moves.
LEMMA MovedCounter ==
  ASSUME counter \in [Nodes -> Readings], NEW n \in Nodes, NEW effect \in Sensor!Effects
  PROVE  /\ Sensor!Moved(n, effect) \in [Nodes -> Readings]
         /\ \A c \in Sensor!Columns :
              Sensor!Moved(n, effect)[n][c] = IF c \in effect THEN counter[n][c] + 1 ELSE counter[n][c]
         /\ \A x \in Nodes : x # n => Sensor!Moved(n, effect)[x] = counter[x]
<1> DEFINE now == [c \in Sensor!Columns |-> IF c \in effect THEN counter[n][c] + 1 ELSE counter[n][c]]
<1>1. counter[n] \in Readings /\ \A c \in Sensor!Columns : counter[n][c] \in Nat
  BY DEF Readings
<1>2. Sensor!Moved(n, effect) = [counter EXCEPT ![n] = now]
  BY DEF Sensor!Moved
<1>3. /\ now \in Readings
      /\ \A c \in Sensor!Columns : now[c] = IF c \in effect THEN counter[n][c] + 1 ELSE counter[n][c]
  BY <1>1 DEF Readings
<1> HIDE DEF now
<1> QED
  BY <1>2, <1>3

\* Diagnosing: no step but the probe moves a counter.
LEMMA DiagnoseStep ==
  ASSUME Sensor!DiagnosisAssumption, SensorInv,
         \/ Sensor!FindAgent \/ Sensor!ReadBefore \/ Sensor!TakeSince \/ Sensor!ReadAfter
         \/ Sensor!Collect
  PROVE  SensorInv'
<1> USE DEF SensorInv, SensorTypes, QuietInv, GapInv, Counting, Accounted,
            Sensor!DiagnosisAssumption, Sensor!Blocked, Sensor!cluster, Sensor!history
<1>1. CASE Sensor!FindAgent
  BY <1>1 DEF Sensor!FindAgent
<1>2. CASE Sensor!ReadBefore
  <2>1. CASE Sensor!Blocked
    BY <1>2, <2>1 DEF Sensor!ReadBefore
  <2>2. CASE before' = counter[agent] /\ step' = "since" /\ UNCHANGED code
    <3>1. /\ step = "before" /\ agent \in Nodes /\ before' \in Readings
          /\ UNCHANGED <<agent, counter, triggered, troubles, lines, pending, strangers, podActed>>
      BY <1>2, <2>2 DEF Sensor!ReadBefore
    <3>2. \A c \in Sensor!Columns : counter'[agent][c] = before'[c] /\ before'[c] \in Nat
      BY <2>2, <3>1 DEF Readings
    <3>3. ~Sensor!Activity(before', counter'[agent])
      BY <3>2 DEF Sensor!Activity
    <3>4. QuietInv'
      BY <2>2, <3>1, <3>2, <3>3
    <3>5. GapInv'
      BY <2>2, <3>1, <3>2
    <3> QED
      BY <2>2, <3>1, <3>4, <3>5
  <2> QED
    BY <1>2, <2>1, <2>2 DEF Sensor!ReadBefore
<1>3. CASE Sensor!TakeSince
  BY <1>3 DEF Sensor!TakeSince
<1>4. CASE Sensor!ReadAfter
  <2>1. /\ step = "after" /\ agent \in Nodes
        /\ UNCHANGED <<agent, before, counter, triggered, troubles, lines, pending, strangers, podActed>>
    BY <1>4 DEF Sensor!ReadAfter
  <2>2. ~Accounted => ~Sensor!Activity(before, counter[agent])
    <3>1. \A c \in Sensor!Columns : counter[agent][c] \in Nat /\ before[c] \in Nat
      BY <2>1 DEF Readings
    <3> QED
      BY <2>1, <3>1 DEF Sensor!Activity
  <2> QED
    BY <1>4, <2>1, <2>2 DEF Sensor!ReadAfter
<1>5. CASE Sensor!Collect
  BY <1>5 DEF Sensor!Collect, Sensor!Verdict
<1> QED
  BY <1>1, <1>2, <1>3, <1>4, <1>5

\* What the pod does is counted on its own node.
LEMMA PodStep ==
  ASSUME Sensor!DiagnosisAssumption, SensorInv, Sensor!Probe \/ Sensor!PodActs
  PROVE  SensorInv'
<1>1. PICK effect \in Sensor!Effects :
        /\ counter' = Sensor!Moved(PodNode, effect)
        /\ pending' \in {pending, pending + 1} /\ UNCHANGED lines
        /\ \/ /\ step = "probe" /\ step' \in {"probe", "after"}
              /\ triggered' = (IF effect = {} THEN triggered ELSE triggered + 1)
              /\ UNCHANGED <<agent, before, code, troubles, podActed, strangers>>
           \/ /\ step # "done" /\ effect # {} /\ troubles' = troubles + 1
              /\ IF step \in {"agent", "before"} THEN UNCHANGED podActed ELSE podActed' = TRUE
              /\ UNCHANGED <<step, agent, before, code, triggered, strangers>>
  BY DEF Sensor!Probe, Sensor!PodActs, Sensor!ActInPod, Sensor!Trouble, Sensor!diagnosis
<1>2. /\ counter' \in [Nodes -> Readings]
      /\ \A c \in Sensor!Columns :
           counter'[PodNode][c] = IF c \in effect THEN counter[PodNode][c] + 1 ELSE counter[PodNode][c]
      /\ \A x \in Nodes : x # PodNode => counter'[x] = counter[x]
  BY <1>1, MovedCounter DEF SensorInv, SensorTypes, Sensor!DiagnosisAssumption
<1>3. SensorTypes'
  BY <1>1, <1>2 DEF SensorInv, SensorTypes
<1>4. /\ \A c \in Sensor!Columns : counter[PodNode][c] \in Nat /\ before[c] \in Nat
      /\ effect \subseteq Sensor!Columns
  BY DEF SensorInv, SensorTypes, Readings, Sensor!DiagnosisAssumption, Sensor!Effects
<1>5. QuietInv'
  <2> SUFFICES ASSUME agent' = PodNode, troubles' = 0
               PROVE  /\ Counting' =>
                           /\ \A c \in Sensor!Columns : counter'[PodNode][c] >= before'[c]
                           /\ triggered' > 0 <=> Sensor!Activity(before', counter'[PodNode])
                      /\ step' \in {"collect-idle", "collect-moved"} =>
                           (step' = "collect-moved" <=> triggered' > 0)
                      /\ step' = "done" /\ code' # 2 => code' = Sensor!Verdict(triggered' > 0, lines')
    BY DEF QuietInv
  <2>1. /\ step = "probe" /\ step' \in {"probe", "after"} /\ agent = PodNode /\ troubles = 0
        /\ triggered' = (IF effect = {} THEN triggered ELSE triggered + 1)
        /\ UNCHANGED before /\ triggered \in Nat
    BY <1>1 DEF SensorInv, SensorTypes
  <2>2. /\ \A c \in Sensor!Columns : counter[PodNode][c] >= before[c]
        /\ triggered > 0 <=> Sensor!Activity(before, counter[PodNode])
    BY <2>1 DEF SensorInv, QuietInv, Counting
  <2>3. \A c \in Sensor!Columns : counter'[PodNode][c] >= before[c]
    BY <1>2, <1>4, <2>2
  <2>4. triggered' > 0 <=> Sensor!Activity(before, counter'[PodNode])
    <3>1. CASE effect = {}
      BY <1>2, <2>1, <2>2, <3>1 DEF Sensor!Activity
    <3>2. CASE effect # {}
      <4>1. PICK c \in Sensor!Columns : c \in effect
        BY <1>4, <3>2
      <4>2. counter'[PodNode][c] > before[c]
        BY <1>2, <1>4, <2>2, <4>1
      <4> QED
        BY <2>1, <3>2, <4>2 DEF Sensor!Activity
    <3> QED
      BY <3>1, <3>2
  <2> QED
    BY <2>1, <2>3, <2>4
<1>6. GapInv'
  <2>1. Accounted => Accounted'
    BY <1>1 DEF SensorInv, SensorTypes, Accounted
  <2>2. ASSUME Counting', ~Accounted'
        PROVE  \A c \in Sensor!Columns : counter'[agent'][c] <= before'[c]
    <3>1. Counting /\ ~Accounted /\ agent \in Nodes /\ before' = before /\ agent' = agent
      BY <1>1, <2>1, <2>2 DEF SensorInv, SensorTypes, Counting
    <3>2. agent = PodNode => effect = {}
      BY <1>1, <2>2, <3>1 DEF SensorInv, SensorTypes, Accounted, Counting
    <3>3. \A c \in Sensor!Columns : counter[agent][c] <= before[c]
      BY <3>1 DEF SensorInv, GapInv
    <3>4. \A c \in Sensor!Columns : counter'[agent][c] = counter[agent][c]
      BY <1>2, <3>1, <3>2
    <3> QED
      BY <3>1, <3>3, <3>4
  <2>3. step' = "collect-moved" \/ code' = 1 => Accounted
    BY <1>1 DEF SensorInv, SensorTypes, GapInv
  <2> QED
    BY <2>1, <2>2, <2>3 DEF GapInv
<1> QED
  BY <1>3, <1>5, <1>6 DEF SensorInv

\* What others do: a stranger is remembered, a restart only lowers counters, an export moves none.
LEMMA ClusterStep ==
  ASSUME Sensor!DiagnosisAssumption, SensorInv,
         Sensor!Export \/ \E n \in Nodes : Sensor!Stranger(n) \/ Sensor!Restart(n)
  PROVE  SensorInv'
<1>1. CASE Sensor!Export
  BY <1>1 DEF Sensor!Export, Sensor!diagnosis, Sensor!history, SensorInv, SensorTypes, QuietInv,
              GapInv, Counting, Accounted
<1>2. ASSUME NEW n \in Nodes, Sensor!Stranger(n)
      PROVE  SensorInv'
  <2>1. PICK effect \in Sensor!Effects : counter' = Sensor!Moved(n, effect)
    BY <1>2 DEF Sensor!Stranger
  <2>2. /\ counter' \in [Nodes -> Readings] /\ \A x \in Nodes : x # n => counter'[x] = counter[x]
    BY <2>1, MovedCounter DEF SensorInv, SensorTypes
  <2>3. /\ step # "done" /\ troubles' = troubles + 1 /\ strangers' = strangers \cup {n}
        /\ UNCHANGED <<step, agent, before, code, pending, lines, triggered, podActed>>
    BY <1>2 DEF Sensor!Stranger, Sensor!Trouble, Sensor!diagnosis
  <2> QED
    BY <2>2, <2>3 DEF SensorInv, SensorTypes, QuietInv, GapInv, Counting, Accounted
<1>3. ASSUME NEW n \in Nodes, Sensor!Restart(n)
      PROVE  SensorInv'
  <2>1. /\ step # "done" /\ troubles' = troubles + 1
        /\ UNCHANGED <<step, agent, before, code, pending, lines, triggered, podActed, strangers>>
        /\ counter' = [counter EXCEPT ![n] = Sensor!Zero]
    BY <1>3 DEF Sensor!Restart, Sensor!Trouble, Sensor!diagnosis, Sensor!history
  <2>2. /\ Sensor!Zero \in Readings /\ \A c \in Sensor!Columns : Sensor!Zero[c] = 0
        /\ \A c \in Sensor!Columns : before[c] \in Nat
    BY DEF Sensor!Zero, Readings, SensorInv, SensorTypes
  <2>3. /\ counter' \in [Nodes -> Readings]
        /\ \A x \in Nodes : counter'[x] = counter[x]
                            \/ \A c \in Sensor!Columns : counter'[x][c] <= before[c]
    BY <2>1, <2>2 DEF SensorInv, SensorTypes
  <2> QED
    BY <2>1, <2>3 DEF SensorInv, SensorTypes, QuietInv, GapInv, Counting, Accounted
<1> QED
  BY <1>1, <1>2, <1>3

\* When nothing but the probes happens and the agent that answers is the one on the Pod's
\* node, the diagnosis is exact; and a gap is the Pod's unless a stranger moved the counters
\* (sensor_check.py:142): for any number of nodes, policies, probes and troubles.
THEOREM DiagnosisIsExact == Spec => []DiagnosisIsOfThePod
<1> USE CheckAssumptions
<1>1. Init => SensorInv
  <2> SUFFICES ASSUME Init
               PROVE  SensorInv
    OBVIOUS
  <2>1. \A start \in {0, 1} : [c \in Sensor!Columns |-> start] \in Readings
    BY DEF Readings
  <2>2. counter \in [Nodes -> Readings] /\ before \in Readings
    <3>1. PICK start \in {0, 1} :
            counter = [n \in Nodes |-> [c \in Sensor!Columns |-> start]]
      BY DEF Init, Sensor!Init
    <3>2. before = [c \in Sensor!Columns |-> 0]
      BY DEF Init, Sensor!Init, Sensor!Zero
    <3> QED
      BY <2>1, <3>1, <3>2
  <2> QED
    BY <2>2 DEF Init, Sensor!Init, SensorInv, SensorTypes, QuietInv, GapInv, Counting
<1>2. SensorInv /\ [Next]_<<command, admissionVars, networkVars, sensorVars, verifyVars>>
      => SensorInv'
  <2> SUFFICES ASSUME SensorInv,
                      [Next]_<<command, admissionVars, networkVars, sensorVars, verifyVars>>
               PROVE  SensorInv'
    OBVIOUS
  <2>1. CASE UNCHANGED sensorVars
    BY <2>1 DEF sensorVars, SensorInv, SensorTypes, QuietInv, GapInv, Counting, Accounted
  <2>2. CASE Sensor!Next
    BY <2>2, DiagnoseStep, PodStep, ClusterStep DEF Sensor!Next
  <2> QED
    BY <2>1, <2>2 DEF Next
<1>3. SensorInv => DiagnosisIsOfThePod
  BY DEF SensorInv, SensorTypes, QuietInv, GapInv, Accounted, DiagnosisIsOfThePod,
         Sensor!ExactWhenQuiet, Sensor!GapIsOfThePod, Sensor!Verdict, Sensor!DiagnosisAssumption
<1> QED
  BY <1>1, <1>2, <1>3, PTL DEF Spec
--------------------------------------------------------------------------------
(* The network policy check *)

Building == {"canary", "baseline", "policy", "settle", "probes", "case"}
CanaryObjects == {Network!Canary[i] : i \in 1 .. 3}
Blocking == CanaryObjects \cup {"canary_policy"}  \* without one of these the run is BLOCKED
ProbePods == {"egress_probe", "client", "xns_client"}
UpTo(list, n) == {list[i] : i \in 1 .. n}

\* The objects that a run has applied when it is where it is.
Applied ==
  IF at = "canary" THEN UpTo(Network!Canary, item - 1)
  ELSE IF at \in {"baseline", "policy"} THEN CanaryObjects
  ELSE IF at = "settle" THEN CanaryObjects \cup {"canary_policy"}
  ELSE IF at = "probes" THEN CanaryObjects \cup {"canary_policy"} \cup UpTo(Network!Probers, item - 1)
  ELSE Network!Objects

IsCreated(o) == \E i \in 1 .. Len(created) : created[i] = o

\* a verdict about the policy, which cleanup follows
Judged == at = "cleanup" /\ status \in {"PASS", "FAIL"}

NetworkTypes ==
  /\ objects \in [Network!Objects -> {"absent", "live", "terminating"}]
  /\ created \in Seq(Network!Objects)
  /\ at \in Building \cup {"idle", "cleanup", "done"}
  /\ item \in Nat \ {0}
  /\ (at = "canary" => item <= 4) /\ (at = "probes" => item <= 5) /\ (at = "case" => item <= 7)
  /\ denied \cap Network!Allowed = {}

\* What a run applied and is alive, the run will remove, but what a command failed at; at the
\* end nothing else is left.
HeldInv ==
  /\ at \in Building \/ Judged =>
       \A o \in Applied \ failed : objects[o] = "live" => IsCreated(o)
  /\ at = "done" /\ status = "PASS" => \A o \in Network!Objects \ failed : objects[o] # "live"

\* In a run that began with nothing, until the cleanup nothing is alive that it did not apply,
\* the objects without which it is BLOCKED are, and the probe pods when the cases are tried.
FreshInv ==
  fresh /\ at \in Building =>
    /\ \A o \in Network!Objects : objects[o] \in {"absent", "live"}
    /\ \A o \in Network!Objects \ Applied : objects[o] = "absent"
    /\ \A o \in Applied \cap Blocking : objects[o] = "live"
    /\ at = "case" => \A o \in ProbePods : objects[o] = "live"

\* The canary policy stopped traffic that flowed without it.
EnforceInv ==
  fresh /\ "connection" \notin failed /\ (at \in {"probes", "case"} \/ Judged) => enforces

\* left out, as the address of the API could not be read
LeftOut(c) == c = "api" /\ "address" \in failed

\* The cases are tried in the order of the matrix, and all of them in the end.
TriedInv ==
  /\ at \in Building \ {"case"} => DOMAIN results = {}
  /\ at = "case" => \A c \in UpTo(Network!Matrix, item - 1) : c \in DOMAIN results \/ LeftOut(c)
  /\ at = "cleanup" /\ status = "PASS" =>
       /\ \A c \in Network!Cases : c \in DOMAIN results \/ LeftOut(c)
       /\ \A c \in DOMAIN results : Network!Matched(c)

\* What was recorded of a case still holds: a policy that is programmed stays so while the
\* pod it selects lives.
RecordedInv ==
  fresh /\ "connection" \notin failed /\ (at = "case" \/ Judged) =>
    \A c \in DOMAIN results :
      /\ results[c] = "connected" => c \in open
      /\ results[c] = "failed" /\ objects["egress_probe"] = "live" => ~Network!Flows(c)

NetworkInv ==
  NetworkTypes /\ HeldInv /\ FreshInv /\ EnforceInv /\ TriedInv /\ RecordedInv

\* The lists that the check goes through, entry by entry.
LEMMA CanaryList ==
  /\ Network!Canary = <<"canary_ns", "canary_server", "canary_client">> /\ Len(Network!Canary) = 3
  /\ UpTo(Network!Canary, 0) = {} /\ CanaryObjects = UpTo(Network!Canary, 3)
  /\ CanaryObjects = {"canary_ns", "canary_server", "canary_client"}
BY DEF Network!Canary, UpTo, CanaryObjects

LEMMA ProbeList ==
  /\ Network!Probers = <<"probe_ns", "egress_probe", "client", "xns_client">> /\ Len(Network!Probers) = 4
  /\ UpTo(Network!Probers, 0) = {}
  /\ UpTo(Network!Probers, 4) = {"probe_ns", "egress_probe", "client", "xns_client"}
  /\ Network!ToSet(Tail(Network!Probers)) = ProbePods
BY DEF Network!Probers, UpTo, Network!ToSet, ProbePods

LEMMA MatrixList ==
  /\ Len(Network!Matrix) = 6 /\ UpTo(Network!Matrix, 0) = {}
  /\ UpTo(Network!Matrix, 6) = Network!Cases
  /\ \A i \in 1 .. 6 : Network!Matrix[i] \in Network!Cases
  /\ \A c \in Network!Cases : Network!Source(c) \in {"client", "xns_client", "egress_probe"}
BY DEF Network!Matrix, UpTo, Network!Cases, Network!ToSet, Network!Source

LEMMA ObjectSet ==
  /\ Network!Objects = {"canary_ns", "canary_server", "canary_client", "canary_policy",
                        "probe_ns", "egress_probe", "client", "xns_client"}
  /\ Network!Objects = CanaryObjects \cup {"canary_policy"} \cup UpTo(Network!Probers, 4)
<1>1. Network!ToSet(Network!Canary) = CanaryObjects /\ Network!ToSet(Network!Probers) = UpTo(Network!Probers, 4)
  BY CanaryList, ProbeList DEF Network!ToSet, UpTo, CanaryObjects
<1> QED
  BY <1>1, CanaryList, ProbeList DEF Network!Objects

LEMMA UpToNext ==
  ASSUME NEW list, NEW n \in Nat \ {0}
  PROVE  UpTo(list, n) = UpTo(list, n - 1) \cup {list[n]}
BY DEF UpTo

\* An object that is appended to the list of the created ones is in it, and so are the others.
LEMMA CreatedAppend ==
  ASSUME created \in Seq(Network!Objects), NEW o \in Network!Objects,
         created' = Append(created, o)
  PROVE  /\ created' \in Seq(Network!Objects)
         /\ IsCreated(o)' /\ \A x : IsCreated(x) => IsCreated(x)'
<1>1. /\ Len(created') = Len(created) + 1 /\ created'[Len(created) + 1] = o
      /\ \A i \in 1 .. Len(created) : created'[i] = created[i]
      /\ created' \in Seq(Network!Objects)
  OBVIOUS
<1>2. Len(created) \in Nat
  OBVIOUS
<1> QED
  BY <1>1, <1>2 DEF IsCreated

\* kubectl apply: what is alive afterwards is recorded, or the command failed at it.
LEMMA ApplyEffect ==
  ASSUME NetworkTypes, NEW o \in Network!Objects, NEW ok \in BOOLEAN, Network!Apply(o, ok)
  PROVE  /\ objects' \in [Network!Objects -> {"absent", "live", "terminating"}]
         /\ created' \in Seq(Network!Objects)
         /\ \A x \in Network!Objects : x # o => objects'[x] = objects[x]
         /\ failed \subseteq failed'
         /\ \A x : IsCreated(x) => IsCreated(x)'
         /\ objects'[o] = "live" => IsCreated(o)' \/ o \in failed'
         /\ objects'[o] \in {objects[o], "live"}
         /\ ok /\ objects[o] = "absent" => objects'[o] = "live"
<1>1. CASE ok /\ created' = Append(created, o) /\ Network!NoFault /\ objects[o] # "absent" /\ UNCHANGED objects
  BY <1>1, CreatedAppend DEF NetworkTypes, Network!NoFault
<1>2. CASE /\ ok /\ created' = Append(created, o) /\ Network!NoFault
           /\ objects[o] = "absent" /\ Network!CanExist(o) /\ Network!Lives(o)
  BY <1>2, CreatedAppend DEF NetworkTypes, Network!NoFault, Network!Lives
<1>3. CASE ~ok /\ ~Network!CanExist(o) /\ objects[o] = "absent" /\ UNCHANGED <<objects, created>>
           /\ Network!NoFault
  BY <1>3 DEF NetworkTypes, Network!NoFault, IsCreated
<1>4. CASE ~ok /\ Network!Fault(o) /\ UNCHANGED <<objects, created>>
  BY <1>4 DEF NetworkTypes, Network!Fault, IsCreated
<1>5. CASE ~ok /\ Network!Fault(o) /\ Network!Lives(o) /\ UNCHANGED created
  BY <1>5 DEF NetworkTypes, Network!Fault, Network!Lives, IsCreated
<1> QED
  BY <1>1, <1>2, <1>3, <1>4, <1>5 DEF Network!Apply

\* Applying the next object, whatever comes of it.
LEMMA AppliedOneMore ==
  ASSUME NetworkTypes, HeldInv, FreshInv, at \in Building,
         NEW o \in Network!Objects, NEW ok \in BOOLEAN, Network!Apply(o, ok),
         Applied \subseteq Network!Objects, o \notin Applied, ok \/ o \notin Blocking,
         at' \in Building \ {"case"}, Applied' = Applied \cup {o}, UNCHANGED fresh
  PROVE  HeldInv' /\ FreshInv'
<1>1. /\ \A x \in Network!Objects : x # o => objects'[x] = objects[x]
      /\ failed \subseteq failed'
      /\ \A x : IsCreated(x) => IsCreated(x)'
      /\ objects'[o] = "live" => IsCreated(o)' \/ o \in failed'
      /\ objects'[o] \in {objects[o], "live"}
      /\ ok /\ objects[o] = "absent" => objects'[o] = "live"
  BY ApplyEffect
<1>2. HeldInv'
  <2>1. at' # "done"
    BY DEF Building
  <2>2. ASSUME NEW x \in Applied' \ failed', objects'[x] = "live"
        PROVE  IsCreated(x)'
    <3>1. CASE x = o
      BY <1>1, <2>2, <3>1
    <3>2. CASE x # o
      <4>1. x \in Applied \ failed /\ objects[x] = "live"
        BY <1>1, <2>2, <3>2
      <4>2. IsCreated(x)
        BY <4>1 DEF HeldInv
      <4> QED
        BY <1>1, <4>2
    <3> QED
      BY <3>1, <3>2
  <2> QED
    BY <2>1, <2>2 DEF HeldInv
<1>3. FreshInv'
  <2> SUFFICES ASSUME fresh
               PROVE  /\ \A x \in Network!Objects : objects'[x] \in {"absent", "live"}
                      /\ \A x \in Network!Objects \ Applied' : objects'[x] = "absent"
                      /\ \A x \in Applied' \cap Blocking : objects'[x] = "live"
    BY DEF FreshInv
  <2>1. /\ \A x \in Network!Objects : objects[x] \in {"absent", "live"}
        /\ \A x \in Network!Objects \ Applied : objects[x] = "absent"
        /\ \A x \in Applied \cap Blocking : objects[x] = "live"
    BY DEF FreshInv
  <2> QED
    BY <1>1, <2>1
<1> QED
  BY <1>2, <1>3

\* A run that ends BLOCKED, or is killed, says nothing about the policy.
LEMMA NothingJudged ==
  ASSUME NetworkInv, at' \in {"cleanup", "idle"}, status' \in {"BLOCKED", "none"},
         item' = 1, UNCHANGED denied,
         objects' \in [Network!Objects -> {"absent", "live", "terminating"}],
         created' \in Seq(Network!Objects)
  PROVE  NetworkInv'
BY DEF NetworkInv, NetworkTypes, HeldInv, FreshInv, EnforceInv, TriedInv, RecordedInv, Judged, Building

LEMMA CanaryStep ==
  ASSUME NetworkInv, Network!CanarySetup
  PROVE  NetworkInv'
<1> DEFINE o == Network!Canary[item]
<1>1. /\ at = "canary" /\ item \in 1 .. 3 /\ UNCHANGED <<enforces, open, denied, app, programmed, results, fresh>>
      /\ \/ Network!Apply(o, TRUE) /\ item' = item + 1 /\ at' = "canary" /\ UNCHANGED status
         \/ Network!Apply(o, FALSE) /\ Network!Decide("BLOCKED")
  <2>1. at = "canary" /\ item <= 3 /\ item \in Nat \ {0}
    BY CanaryList DEF Network!CanarySetup, NetworkInv, NetworkTypes
  <2>2. item \in 1 .. 3
    BY <2>1
  <2> QED
    BY <2>1, <2>2 DEF Network!CanarySetup, Network!world
<1>2. /\ o \in Network!Objects /\ Applied = UpTo(Network!Canary, item - 1) /\ Applied \subseteq Network!Objects
      /\ o \notin Applied
  BY <1>1, CanaryList, ObjectSet DEF Applied, UpTo
<1> HIDE DEF o
<1>3. CASE Network!Apply(o, FALSE) /\ Network!Decide("BLOCKED")
  <2>1. /\ objects' \in [Network!Objects -> {"absent", "live", "terminating"}]
        /\ created' \in Seq(Network!Objects)
    BY <1>2, <1>3, ApplyEffect DEF NetworkInv
  <2> QED
    BY <1>1, <1>3, <2>1, NothingJudged DEF Network!Decide, Network!Go
<1>4. CASE Network!Apply(o, TRUE) /\ item' = item + 1 /\ at' = "canary" /\ UNCHANGED status
  <2>1. Applied' = Applied \cup {o}
    BY <1>1, <1>2, <1>4, UpToNext DEF Applied, o
  <2>2. HeldInv' /\ FreshInv'
    BY <1>1, <1>2, <1>4, <2>1, AppliedOneMore DEF NetworkInv, Building
  <2>3. /\ objects' \in [Network!Objects -> {"absent", "live", "terminating"}]
        /\ created' \in Seq(Network!Objects) /\ failed \subseteq failed'
    BY <1>2, <1>4, ApplyEffect DEF NetworkInv
  <2>4. NetworkTypes' /\ EnforceInv' /\ TriedInv' /\ RecordedInv'
    BY <1>1, <1>4, <2>3 DEF NetworkInv, NetworkTypes, EnforceInv, TriedInv, RecordedInv, Judged, Building
  <2> QED
    BY <2>2, <2>4 DEF NetworkInv
<1> QED
  BY <1>1, <1>3, <1>4

\* A query changes no object: what was applied stays as it is.
LEMMA SameApplied ==
  ASSUME NetworkInv, at \in Building, at' \in Building, Applied' = Applied,
         at' = "case" => at = "case" \/ \A o \in ProbePods : objects[o] # "absent",
         UNCHANGED <<objects, created, fresh>>, failed \subseteq failed'
  PROVE  HeldInv' /\ FreshInv'
<1>1. UNCHANGED <<objects, created>> /\ at' # "done" /\ \A x : IsCreated(x)' = IsCreated(x)
  BY DEF Building, IsCreated
<1>2. HeldInv'
  <2>1. ASSUME NEW x \in Applied' \ failed', objects'[x] = "live"
        PROVE  IsCreated(x)'
    <3>1. x \in Applied \ failed /\ objects[x] = "live"
      BY <1>1, <2>1
    <3>2. IsCreated(x)
      BY <3>1 DEF NetworkInv, HeldInv
    <3> QED
      BY <1>1, <3>2
  <2> QED
    BY <1>1, <2>1 DEF HeldInv
<1>3. FreshInv'
  <2>1. ASSUME at' = "case", fresh
        PROVE  \A o \in ProbePods : objects[o] = "live"
    <3>1. \A o \in ProbePods : o \in Network!Objects
      BY ObjectSet DEF ProbePods
    <3> QED
      BY <2>1, <3>1 DEF NetworkInv, FreshInv
  <2> QED
    BY <1>1, <2>1 DEF NetworkInv, FreshInv
<1> QED
  BY <1>2, <1>3

LEMMA CanaryReadyStep ==
  ASSUME NetworkInv, Network!CanaryReady
  PROVE  NetworkInv'
<1>1. /\ at = "canary" /\ item = 4 /\ failed \subseteq failed'
      /\ UNCHANGED <<enforces, open, denied, app, programmed, objects, created, results, fresh>>
      /\ item' = 1 /\ \/ at' = "baseline" /\ UNCHANGED status
                      \/ at' = "cleanup" /\ status' = "BLOCKED"
  BY CanaryList DEF Network!CanaryReady, Network!world, Network!Answers, Network!Fault,
        Network!NoFault, Network!Go, Network!Decide, NetworkInv, NetworkTypes
<1>2. CASE at' = "cleanup" /\ status' = "BLOCKED"
  BY <1>1, <1>2, NothingJudged DEF NetworkInv, NetworkTypes
<1>3. CASE at' = "baseline"
  <2>1. Applied' = Applied
    BY <1>1, <1>3, CanaryList DEF Applied
  <2>2. HeldInv' /\ FreshInv'
    BY <1>1, <1>3, <2>1, SameApplied DEF Building
  <2> QED
    BY <1>1, <1>3, <2>2
       DEF NetworkInv, NetworkTypes, EnforceInv, TriedInv, RecordedInv, Judged, Building
<1> QED
  BY <1>1, <1>2, <1>3

LEMMA BaselineStep ==
  ASSUME NetworkInv, Network!Baseline
  PROVE  NetworkInv'
<1>1. /\ at = "baseline" /\ failed \subseteq failed'
      /\ UNCHANGED <<enforces, open, denied, app, programmed, objects, created, results, fresh>>
      /\ item' = 1 /\ \/ at' = "policy" /\ UNCHANGED status
                      \/ at' = "cleanup" /\ status' = "BLOCKED"
  BY DEF Network!Baseline, Network!world, Network!Connects, Network!Fault,
        Network!NoFault, Network!Go, Network!Decide
<1>2. CASE at' = "cleanup" /\ status' = "BLOCKED"
  BY <1>1, <1>2, NothingJudged DEF NetworkInv, NetworkTypes
<1>3. CASE at' = "policy"
  <2>1. Applied' = Applied
    BY <1>1, <1>3 DEF Applied
  <2>2. HeldInv' /\ FreshInv'
    BY <1>1, <1>3, <2>1, SameApplied DEF Building
  <2> QED
    BY <1>1, <1>3, <2>2
       DEF NetworkInv, NetworkTypes, EnforceInv, TriedInv, RecordedInv, Judged, Building
<1> QED
  BY <1>1, <1>2, <1>3

LEMMA DenyAllStep ==
  ASSUME NetworkInv, Network!DenyAll
  PROVE  NetworkInv'
<1>1. /\ at = "policy" /\ UNCHANGED <<enforces, open, denied, app, programmed, results, fresh>>
      /\ item' = 1 /\ \/ Network!Apply("canary_policy", TRUE) /\ at' = "settle" /\ UNCHANGED status
                      \/ Network!Apply("canary_policy", FALSE) /\ at' = "cleanup" /\ status' = "BLOCKED"
  BY DEF Network!DenyAll, Network!world, Network!Go, Network!Decide
<1>2. /\ "canary_policy" \in Network!Objects /\ Applied = CanaryObjects /\ Applied \subseteq Network!Objects
      /\ "canary_policy" \notin Applied
  BY <1>1, CanaryList, ObjectSet DEF Applied
<1>3. /\ objects' \in [Network!Objects -> {"absent", "live", "terminating"}]
      /\ created' \in Seq(Network!Objects) /\ failed \subseteq failed'
  BY <1>1, <1>2, ApplyEffect DEF NetworkInv
<1>4. CASE at' = "cleanup" /\ status' = "BLOCKED"
  BY <1>1, <1>3, <1>4, NothingJudged
<1>5. CASE at' = "settle"
  <2>1. Applied' = Applied \cup {"canary_policy"} /\ Network!Apply("canary_policy", TRUE)
    BY <1>1, <1>2, <1>5 DEF Applied
  <2>2. HeldInv' /\ FreshInv'
    BY <1>1, <1>2, <1>5, <2>1, AppliedOneMore DEF NetworkInv, Building
  <2> QED
    BY <1>1, <1>3, <1>5, <2>2
       DEF NetworkInv, NetworkTypes, EnforceInv, TriedInv, RecordedInv, Judged, Building
<1> QED
  BY <1>1, <1>4, <1>5

\* Traffic that stops once the policy is there stops because of it: server and client live.
LEMMA SettleStep ==
  ASSUME NetworkInv, Network!Settle
  PROVE  NetworkInv'
<1>1. /\ at = "settle" /\ failed \subseteq failed'
      /\ UNCHANGED <<enforces, open, denied, app, programmed, objects, created, results, fresh>>
      /\ \/ at' = "probes" /\ item' = 1 /\ UNCHANGED status
            /\ ("connection" \notin failed' => ~Network!CanaryFlows)
         \/ at' = "settle" /\ item' = item + 1 /\ UNCHANGED status
         \/ at' = "cleanup" /\ item' = 1 /\ status' = "BLOCKED"
  BY DEF Network!Settle, Network!world, Network!Connects, Network!Fault,
        Network!NoFault, Network!Go, Network!Decide
<1>2. CASE at' = "cleanup" /\ item' = 1 /\ status' = "BLOCKED"
  BY <1>1, <1>2, NothingJudged DEF NetworkInv, NetworkTypes
<1>3. CASE at' = "settle" /\ item' = item + 1 /\ UNCHANGED status
  <2>1. Applied' = Applied
    BY <1>1, <1>3 DEF Applied
  <2>2. HeldInv' /\ FreshInv'
    BY <1>1, <1>3, <2>1, SameApplied DEF Building
  <2> QED
    BY <1>1, <1>3, <2>2
       DEF NetworkInv, NetworkTypes, EnforceInv, TriedInv, RecordedInv, Judged, Building
<1>4. CASE at' = "probes" /\ item' = 1 /\ UNCHANGED status
           /\ ("connection" \notin failed' => ~Network!CanaryFlows)
  <2>1. Applied' = Applied
    BY <1>1, <1>4, ProbeList DEF Applied
  <2>2. HeldInv' /\ FreshInv'
    BY <1>1, <1>4, <2>1, SameApplied DEF Building
  <2>3. ASSUME fresh, "connection" \notin failed'
        PROVE  enforces
    <3>1. \A o \in {"canary_server", "canary_client"} : o \in Blocking /\ o \in Applied
      BY <1>1, CanaryList DEF Applied, Blocking
    <3>2. \A o \in {"canary_server", "canary_client"} : objects[o] = "live"
      BY <1>1, <2>3, <3>1 DEF NetworkInv, FreshInv, Building
    <3> QED
      BY <1>4, <2>3, <3>2 DEF Network!CanaryFlows
  <2> QED
    BY <1>1, <1>4, <2>2, <2>3
       DEF NetworkInv, NetworkTypes, EnforceInv, TriedInv, RecordedInv, Judged, Building
<1> QED
  BY <1>1, <1>2, <1>3, <1>4

LEMMA ProbeSetupStep ==
  ASSUME NetworkInv, Network!ProbeSetup
  PROVE  NetworkInv'
<1> DEFINE o == Network!Probers[item]
<1>1. PICK ok \in BOOLEAN : Network!Apply(o, ok)
  BY DEF Network!ProbeSetup
<1>2. /\ at = "probes" /\ item \in 1 .. 4 /\ item' = item + 1
      /\ UNCHANGED <<enforces, open, denied, app, programmed, at, results, status, fresh>>
  <2>1. at = "probes" /\ item <= 4 /\ item \in Nat \ {0}
    BY ProbeList DEF Network!ProbeSetup, NetworkInv, NetworkTypes
  <2>2. item \in 1 .. 4
    BY <2>1
  <2> QED
    BY <2>1, <2>2 DEF Network!ProbeSetup, Network!world
<1>3. Applied = CanaryObjects \cup {"canary_policy"} \cup UpTo(Network!Probers, item - 1)
  BY <1>2 DEF Applied
<1>4. /\ o \in Network!Objects /\ Applied \subseteq Network!Objects
      /\ o \notin Applied /\ o \notin Blocking
  BY <1>2, <1>3, CanaryList, ProbeList, ObjectSet DEF UpTo, Blocking
<1> HIDE DEF o
<1>5. Applied' = Applied \cup {o}
  BY <1>2, <1>3, UpToNext DEF Applied, o
<1>6. HeldInv' /\ FreshInv' /\ failed \subseteq failed'
  BY <1>1, <1>2, <1>4, <1>5, AppliedOneMore, ApplyEffect DEF NetworkInv, Building
<1>7. /\ objects' \in [Network!Objects -> {"absent", "live", "terminating"}]
      /\ created' \in Seq(Network!Objects)
  BY <1>1, <1>4, ApplyEffect DEF NetworkInv
<1> QED
  BY <1>2, <1>6, <1>7
     DEF NetworkInv, NetworkTypes, EnforceInv, TriedInv, RecordedInv, Judged, Building

\* The cleanup of a run that reached a verdict finds everything applied.
LEMMA HeldToCleanup ==
  ASSUME NetworkInv, at \in Building, Applied = Network!Objects, at' = "cleanup",
         UNCHANGED <<objects, created>>, failed \subseteq failed'
  PROVE  HeldInv' /\ FreshInv'
<1>1. Applied' = Network!Objects /\ \A x : IsCreated(x)' = IsCreated(x)
  BY DEF Applied, IsCreated
<1>2. ASSUME NEW x \in Applied' \ failed', objects'[x] = "live"
      PROVE  IsCreated(x)'
  <2>1. x \in Applied \ failed /\ objects[x] = "live"
    BY <1>1, <1>2
  <2> QED
    BY <1>1, <2>1 DEF NetworkInv, HeldInv
<1> QED
  BY <1>2 DEF HeldInv, FreshInv, Building

LEMMA ProbesReadyStep ==
  ASSUME NetworkInv, Network!ProbesReady
  PROVE  NetworkInv'
<1>1. /\ at = "probes" /\ item = 5 /\ item' = 1 /\ failed \subseteq failed'
      /\ UNCHANGED <<enforces, open, denied, app, programmed, objects, created, results, fresh>>
      /\ \/ at' = "case" /\ UNCHANGED status /\ \A o \in ProbePods : objects[o] # "absent"
         \/ at' = "cleanup" /\ status' = "FAIL"
  BY ProbeList DEF Network!ProbesReady, Network!world, Network!Answers, Network!Fault,
        Network!NoFault, Network!Go, Network!Decide, NetworkInv, NetworkTypes
<1>2. Applied = Network!Objects /\ DOMAIN results = {}
  BY <1>1, ObjectSet DEF Applied, NetworkInv, TriedInv, Building
<1>3. fresh /\ "connection" \notin failed' => enforces
  BY <1>1 DEF NetworkInv, EnforceInv
<1>4. HeldInv' /\ FreshInv'
  <2>1. at' = "case" => Applied' = Applied
    BY <1>2 DEF Applied
  <2> QED
    BY <1>1, <1>2, <2>1, SameApplied, HeldToCleanup DEF Building
<1> QED
  BY <1>1, <1>2, <1>3, <1>4, MatrixList
     DEF NetworkInv, NetworkTypes, EnforceInv, TriedInv, RecordedInv, Judged, Building

\* A case that is tried in a run that began with nothing meets live pods: what is recorded
\* is what the policy does with its traffic.
LEMMA TryStep ==
  ASSUME NetworkInv, Network!Try
  PROVE  NetworkInv'
<1>0. PICK c : c = Network!Matrix[item]
  OBVIOUS
<1> DEFINE flows == Network!Flows(c) /\ objects[Network!Source(c)] # "absent"
<1>1. /\ at = "case" /\ item \in 1 .. 6 /\ item' = item + 1 /\ c \in Network!Cases
      /\ UNCHANGED <<enforces, open, denied, app, programmed, at, objects, created, status, fresh>>
  <2>1. at = "case" /\ item <= 6 /\ item \in Nat \ {0}
    BY MatrixList DEF Network!Try, NetworkInv, NetworkTypes
  <2>2. item \in 1 .. 6
    BY <2>1
  <2> QED
    BY <1>0, <2>1, <2>2, MatrixList DEF Network!Try, Network!world
<1>2. \/ UNCHANGED failed /\ flows /\ Network!Record(c, "connected")
      \/ UNCHANGED failed /\ ~flows /\ Network!Record(c, "failed")
      \/ failed' = failed \cup {"connection"} /\ Network!Record(c, "failed")
      \/ failed' = failed \cup {"address"} /\ c = "api" /\ UNCHANGED results
  BY <1>0 DEF Network!Try, Network!Connects, Network!Fault, Network!NoFault
<1>3. failed \subseteq failed'
  BY <1>2
<1>4. Applied' = Applied /\ Applied = Network!Objects
  BY <1>1 DEF Applied
<1>5. HeldInv' /\ FreshInv'
  BY <1>1, <1>3, <1>4, SameApplied DEF Building
<1>6. fresh => objects[Network!Source(c)] # "absent"
  BY <1>0, <1>1, MatrixList DEF NetworkInv, FreshInv, Building, ProbePods
<1>7. \A x : Network!Flows(x)' = Network!Flows(x)
  BY <1>1 DEF Network!Flows, Network!Programmed
<1>8. \A x \in UpTo(Network!Matrix, item' - 1) : x \in DOMAIN results' \/ LeftOut(x)'
  <2>1. /\ c \in DOMAIN results' \/ LeftOut(c)'
        /\ DOMAIN results \subseteq DOMAIN results'
    BY <1>2 DEF Network!Record, LeftOut
  <2>2. UpTo(Network!Matrix, item' - 1) = UpTo(Network!Matrix, item - 1) \cup {c}
    BY <1>0, <1>1, UpToNext
  <2>3. \A x \in UpTo(Network!Matrix, item - 1) : x \in DOMAIN results \/ LeftOut(x)'
    BY <1>1, <1>3 DEF NetworkInv, TriedInv, LeftOut
  <2> QED
    BY <2>1, <2>2, <2>3
<1>9. ASSUME fresh', "connection" \notin failed', NEW x \in DOMAIN results'
      PROVE  /\ results'[x] = "connected" => x \in open'
             /\ results'[x] = "failed" /\ objects'["egress_probe"] = "live" => ~Network!Flows(x)'
  <2>1. CASE x \in DOMAIN results /\ results'[x] = results[x]
    <3>1. fresh /\ "connection" \notin failed
      BY <1>1, <1>3, <1>9
    <3> QED
      BY <1>1, <1>7, <2>1, <3>1 DEF NetworkInv, RecordedInv
  <2>2. CASE ~(x \in DOMAIN results /\ results'[x] = results[x])
    <3>1. /\ x = c
          /\ \/ flows /\ results'[c] = "connected"
             \/ ~flows /\ results'[c] = "failed"
      BY <1>2, <1>9, <2>2 DEF Network!Record
    <3> QED
      BY <1>1, <1>6, <1>7, <1>9, <3>1 DEF Network!Flows
  <2> QED
    BY <2>1, <2>2
<1>10. RecordedInv'
  BY <1>9 DEF RecordedInv
<1> QED
  BY <1>1, <1>3, <1>5, <1>8, <1>10
     DEF NetworkInv, NetworkTypes, EnforceInv, TriedInv, Judged, Building

LEMMA ReportStep ==
  ASSUME NetworkInv, Network!Report
  PROVE  NetworkInv'
<1>1. /\ at = "case" /\ item = 7 /\ at' = "cleanup" /\ item' = 1
      /\ status' = (IF \A c \in DOMAIN results : Network!Matched(c) THEN "PASS" ELSE "FAIL")
      /\ UNCHANGED <<enforces, open, denied, app, programmed, objects, created, results, fresh, failed>>
  BY MatrixList DEF Network!Report, Network!world, Network!Decide, Network!Go, NetworkInv, NetworkTypes
<1>2. HeldInv' /\ FreshInv'
  BY <1>1, HeldToCleanup DEF Applied, Building
<1>3. \A x : Network!Flows(x)' = Network!Flows(x) /\ Network!Matched(x)' = Network!Matched(x)
  BY <1>1 DEF Network!Flows, Network!Programmed, Network!Matched
<1>4. \A c \in Network!Cases : c \in DOMAIN results \/ LeftOut(c)
  BY <1>1, MatrixList DEF NetworkInv, TriedInv
<1>5. TriedInv' /\ RecordedInv'
  BY <1>1, <1>3, <1>4 DEF NetworkInv, TriedInv, LeftOut, RecordedInv, Judged, Building
<1> QED
  BY <1>1, <1>2, <1>5 DEF NetworkInv, NetworkTypes, EnforceInv, Judged, Building

LEMMA StartStep ==
  ASSUME NetworkInv, Network!Start
  PROVE  NetworkInv'
<1>1. /\ DOMAIN results' = {} /\ created' = <<>> /\ item' = 1
      /\ fresh' = (\A o \in Network!Objects : objects[o] = "absent")
      /\ \/ at' = "canary" /\ status' = "none"
         \/ at' = "cleanup" /\ status' = "BLOCKED"
      /\ UNCHANGED <<enforces, open, denied, app, objects, programmed>>
  BY DEF Network!Start, Network!world, Network!Go, Network!Decide, Network!NoResult
<1>2. created' \in Seq(Network!Objects)
  BY <1>1
<1>3. CASE at' = "cleanup" /\ status' = "BLOCKED"
  BY <1>1, <1>2, <1>3, NothingJudged DEF NetworkInv, NetworkTypes
<1>4. CASE at' = "canary" /\ status' = "none"
  <2>1. Applied' = {}
    BY <1>1, <1>4, CanaryList DEF Applied
  <2>2. HeldInv' /\ FreshInv'
    BY <1>1, <1>4, <2>1 DEF HeldInv, FreshInv, Judged
  <2> QED
    BY <1>1, <1>2, <1>4, <2>2
       DEF NetworkInv, NetworkTypes, EnforceInv, TriedInv, RecordedInv, Judged, Building
<1> QED
  BY <1>1, <1>3, <1>4

LEMMA DieStep ==
  ASSUME NetworkInv, Network!Die
  PROVE  NetworkInv'
<1>1. /\ at' = "idle" /\ item' = 1 /\ status' = "none" /\ created' = <<>>
      /\ UNCHANGED <<denied, objects>>
  BY DEF Network!Die, Network!Go, Network!world
<1>2. created' \in Seq(Network!Objects)
  BY <1>1
<1> QED
  BY <1>1, <1>2, NothingJudged DEF NetworkInv, NetworkTypes

\* While the egress probe lives, its policy stays programmed.
LEMMA FlowsStopped ==
  ASSUME UNCHANGED <<enforces, open, denied>>,
         "egress_probe" \in programmed => "egress_probe" \in programmed',
         NEW c, ~Network!Flows(c)
  PROVE  ~Network!Flows(c)'
BY DEF Network!Flows, Network!Programmed

\* Nothing comes to life but by the check: what the cluster removes, and what the cleanup
\* removes, lives no longer.
LEMMA OnlyRemoved ==
  ASSUME NetworkInv, UNCHANGED <<enforces, open, denied, app, at, item, results, status, fresh>>,
         failed \subseteq failed',
         objects' \in [Network!Objects -> {"absent", "live", "terminating"}],
         created' \in Seq(Network!Objects),
         FreshInv',
         \A o \in Network!Objects :
           objects'[o] = "live" =>
             objects[o] = "live" /\ (o \notin failed' /\ IsCreated(o) => IsCreated(o)'),
         objects'["egress_probe"] = "live" /\ "egress_probe" \in programmed =>
           "egress_probe" \in programmed'
  PROVE  NetworkInv'
<1>1. "egress_probe" \in Network!Objects /\ Applied \subseteq Network!Objects /\ Applied' = Applied
  <2>1. Applied' = Applied
    BY DEF Applied
  <2>2. \A n \in Nat : n <= 3 => UpTo(Network!Canary, n) \subseteq UpTo(Network!Canary, 3)
    BY DEF UpTo
  <2>3. \A n \in Nat : n <= 4 => UpTo(Network!Probers, n) \subseteq UpTo(Network!Probers, 4)
    BY DEF UpTo
  <2> QED
    BY <2>1, <2>2, <2>3, CanaryList, ObjectSet DEF Applied, NetworkInv, NetworkTypes
<1>2. HeldInv'
  BY <1>1 DEF NetworkInv, HeldInv, Judged
<1>3. RecordedInv'
  <2> SUFFICES ASSUME fresh, "connection" \notin failed', at = "case" \/ Judged, NEW c \in DOMAIN results
               PROVE  /\ results[c] = "connected" => c \in open
                      /\ results[c] = "failed" /\ objects'["egress_probe"] = "live" =>
                           ~Network!Flows(c)'
    BY DEF RecordedInv, Judged
  <2>1. /\ results[c] = "connected" => c \in open
        /\ results[c] = "failed" /\ objects["egress_probe"] = "live" => ~Network!Flows(c)
    BY DEF NetworkInv, RecordedInv
  <2> QED
    BY <1>1, <2>1, FlowsStopped
<1>4. \A c : Network!Matched(c)' = Network!Matched(c)
  BY DEF Network!Matched
<1>5. TriedInv' /\ EnforceInv' /\ NetworkTypes'
  BY <1>4 DEF NetworkInv, NetworkTypes, TriedInv, LeftOut, EnforceInv, Judged
<1> QED
  BY <1>2, <1>3, <1>5 DEF NetworkInv

LEMMA CleanupStep ==
  ASSUME NetworkInv, Network!Cleanup
  PROVE  NetworkInv'
<1> DEFINE n == Len(created)
<1>1. /\ at = "cleanup" /\ created \in Seq(Network!Objects) /\ created # <<>>
      /\ UNCHANGED <<enforces, open, denied, app, at, item, results, status, fresh>>
      /\ created' = Network!Front(created)
      /\ programmed' = {o \in programmed : objects'[o] # "absent"}
      /\ \/ objects' = Network!Removed(Network!Last(created)) /\ UNCHANGED failed
         \/ UNCHANGED objects /\ failed' = failed \cup {Network!Last(created)}
  BY DEF Network!Cleanup, Network!world, Network!NoFault, Network!Fault, NetworkInv, NetworkTypes
<1>2. /\ n \in Nat \ {0} /\ created' \in Seq(Network!Objects) /\ Len(created') = n - 1
      /\ \A i \in 1 .. n - 1 : created'[i] = created[i]
      /\ Network!Last(created) = created[n] /\ created[n] \in Network!Objects
  <2>1. n \in Nat \ {0}
    BY <1>1
  <2>2. created' = SubSeq(created, 1, n - 1) /\ Network!Last(created) = created[n]
    BY <1>1 DEF Network!Front, Network!Last
  <2>3. created' \in Seq(Network!Objects) /\ Len(created') = n - 1
    <3>1. \A i \in 1 .. n - 1 : created[i] \in Network!Objects
      BY <1>1, <2>1
    <3> HIDE DEF n
    <3>2. 1 \in Int /\ n - 1 \in Int /\ (1 <= n - 1 \/ n - 1 = 0)
      BY <2>1
    <3> QED
      BY <2>2, <3>1, <3>2, SubSeqProperties
  <2>4. \A i \in 1 .. n - 1 : created'[i] = created[i]
    BY <1>1, <2>1, <2>2
  <2>5. created[n] \in Network!Objects
    BY <1>1, <2>1
  <2> QED
    BY <2>1, <2>2, <2>3, <2>4, <2>5
<1> DEFINE removed == Network!Removed(created[n])
<1>3. /\ removed \in [Network!Objects -> {"absent", "live", "terminating"}]
      /\ \A o \in Network!Objects : removed[o] = "live" => objects[o] = "live" /\ o # created[n]
  BY DEF Network!Removed, NetworkInv, NetworkTypes
<1> HIDE DEF removed
<1>4. objects' \in [Network!Objects -> {"absent", "live", "terminating"}]
  BY <1>1, <1>2, <1>3 DEF removed, NetworkInv, NetworkTypes
<1>5. ASSUME NEW o, IsCreated(o), o # created[n]
      PROVE  IsCreated(o)'
  BY <1>2, <1>5 DEF IsCreated
<1>6. /\ failed \subseteq failed'
      /\ \A o \in Network!Objects :
           objects'[o] = "live" =>
             objects[o] = "live" /\ (o \notin failed' /\ IsCreated(o) => IsCreated(o)')
      /\ objects'["egress_probe"] = "live" /\ "egress_probe" \in programmed =>
           "egress_probe" \in programmed'
  BY <1>1, <1>2, <1>3, <1>5 DEF removed
<1>7. FreshInv'
  BY <1>1 DEF FreshInv, Building
<1> QED
  BY <1>1, <1>2, <1>4, <1>6, <1>7, OnlyRemoved

LEMMA FinishStep ==
  ASSUME NetworkInv, Network!Finish
  PROVE  NetworkInv'
<1>1. /\ at = "cleanup" /\ created = <<>> /\ at' = "done" /\ item' = 1
      /\ UNCHANGED <<enforces, open, denied, app, objects, created, status, fresh, failed>>
  BY DEF Network!Finish, Network!Go, Network!world
<1>2. \A o : ~IsCreated(o)
  BY <1>1 DEF IsCreated
<1>3. status = "PASS" => \A o \in Network!Objects \ failed : objects[o] # "live"
  BY <1>1, <1>2 DEF NetworkInv, HeldInv, Judged, Applied
<1> QED
  BY <1>1, <1>3 DEF NetworkInv, NetworkTypes, HeldInv, FreshInv, EnforceInv, TriedInv, RecordedInv,
                    Judged, Building

LEMMA ProgramStep ==
  ASSUME NetworkInv, NEW o, Network!Program(o)
  PROVE  NetworkInv'
<1>1. /\ programmed' = programmed \cup {o}
      /\ UNCHANGED <<enforces, open, denied, app, objects, created, at, item, results, status, fresh, failed>>
  BY DEF Network!Program, Network!world
<1>2. (\A x : IsCreated(x)' = IsCreated(x)) /\ Applied' = Applied
  BY <1>1 DEF IsCreated, Applied
<1>3. FreshInv'
  BY <1>1, <1>2 DEF NetworkInv, FreshInv
<1> QED
  BY <1>1, <1>2, <1>3, OnlyRemoved DEF NetworkInv, NetworkTypes

LEMMA GoneStep ==
  ASSUME NetworkInv, NEW o \in Network!Objects, Network!Gone(o)
  PROVE  NetworkInv'
<1>1. /\ objects[o] = "terminating" /\ objects' = [objects EXCEPT ![o] = "absent"]
      /\ programmed' = programmed \ {o}
      /\ UNCHANGED <<enforces, open, denied, app, created, at, item, results, status, fresh, failed>>
  BY DEF Network!Gone, Network!world
<1>2. \A x : IsCreated(x)' = IsCreated(x)
  BY <1>1 DEF IsCreated
<1>3. /\ objects' \in [Network!Objects -> {"absent", "live", "terminating"}]
      /\ objects'[o] = "absent" /\ \A x \in Network!Objects : x # o => objects'[x] = objects[x]
  BY <1>1 DEF NetworkInv, NetworkTypes
<1>4. FreshInv'
  BY <1>1 DEF NetworkInv, FreshInv, Building
<1>5. "egress_probe" \in Network!Objects
  BY ObjectSet
<1> QED
  BY <1>1, <1>2, <1>3, <1>4, <1>5, OnlyRemoved DEF NetworkInv, NetworkTypes

LEMMA NetworkInvariant ==
  Spec => []NetworkInv
<1>1. Init => NetworkInv
  BY ObjectSet DEF Init, Network!Init, Network!NoResult, NetworkInv, NetworkTypes, HeldInv, FreshInv,
         EnforceInv, TriedInv, RecordedInv, Judged, Building
<1>2. NetworkInv /\ [Next]_<<command, admissionVars, networkVars, sensorVars, verifyVars>>
      => NetworkInv'
  <2> SUFFICES ASSUME NetworkInv,
                      [Next]_<<command, admissionVars, networkVars, sensorVars, verifyVars>>
               PROVE  NetworkInv'
    OBVIOUS
  <2>1. CASE UNCHANGED networkVars
    <3>1. UNCHANGED <<enforces, open, denied, app, objects, created, programmed, at, item, results,
                      status, fresh, failed>>
      BY <2>1 DEF networkVars
    <3>2. (\A x : IsCreated(x)' = IsCreated(x)) /\ Applied' = Applied
      BY <3>1 DEF IsCreated, Applied
    <3>3. FreshInv'
      BY <3>1, <3>2 DEF NetworkInv, FreshInv
    <3> QED
      BY <3>1, <3>2, <3>3, OnlyRemoved DEF NetworkInv, NetworkTypes
  <2>2. CASE Network!Next
    BY <2>2, StartStep, CanaryStep, CanaryReadyStep, BaselineStep, DenyAllStep, SettleStep,
       ProbeSetupStep, ProbesReadyStep, TryStep, ReportStep, CleanupStep, FinishStep, DieStep,
       ProgramStep, GoneStep DEF Network!Next
  <2> QED
    BY <2>1, <2>2 DEF Next
<1> QED
  BY <1>1, <1>2, PTL DEF Spec

\* In a run that began with nothing and in which no connection failed but for the traffic,
\* the verdict on a network policy is about traffic (network_check.py:241): whatever other
\* commands failed or timed out, and for any number of tries and runs.
THEOREM VerdictIsSound == Spec => []SoundVerdict
<1>1. NetworkInv => SoundVerdict
  <2> SUFFICES ASSUME NetworkInv, fresh, "connection" \notin failed, at = "cleanup",
                      objects["egress_probe"] = "live"
               PROVE  /\ status = "PASS" =>
                           /\ enforces
                           /\ \A c \in Network!Cases : c \in DOMAIN results \/ LeftOut(c)
                           /\ \A c \in DOMAIN results : Network!Flows(c) <=> c \in Network!Allowed
                      /\ status = "FAIL" => enforces
    BY DEF SoundVerdict, Network!SoundVerdict, LeftOut
  <2>1. status \in {"PASS", "FAIL"} => enforces
    BY DEF NetworkInv, EnforceInv, Judged
  <2>2. status = "PASS" => \A c \in Network!Cases : c \in DOMAIN results \/ LeftOut(c)
    BY DEF NetworkInv, TriedInv
  <2>3. ASSUME status = "PASS", NEW c \in DOMAIN results
        PROVE  Network!Flows(c) <=> c \in Network!Allowed
    <3>1. Network!Matched(c)
      BY <2>3 DEF NetworkInv, TriedInv
    <3>2. CASE c \in Network!Allowed
      <4>1. c \in open /\ c \notin denied
        BY <2>3, <3>1, <3>2 DEF NetworkInv, NetworkTypes, RecordedInv, Judged, Network!Matched
      <4> QED
        BY <3>2, <4>1 DEF Network!Flows, Network!Programmed
    <3>3. CASE c \notin Network!Allowed
      BY <2>3, <3>1, <3>3 DEF NetworkInv, RecordedInv, Judged, Network!Matched
    <3> QED
      BY <3>2, <3>3
  <2> QED
    BY <2>1, <2>2, <2>3
<1> QED
  BY <1>1, NetworkInvariant, PTL

\* A network check that passes leaves nothing alive (network_check.py:120), also of what
\* earlier runs left or lost, but what its own apply or delete failed at: for any number of
\* runs and failures.
THEOREM PassLeavesNoObject == Spec => []PassLeavesNothing
<1>1. NetworkInv => PassLeavesNothing
  BY DEF NetworkInv, HeldInv, PassLeavesNothing, Network!PassLeavesNothing
<1> QED
  BY <1>1, NetworkInvariant, PTL
================================================================================
