--------------------------- MODULE EventAnalysisProofs ---------------------------
(***************************************************************************)
(* For any events, any files, any cluster and any number of calls: the     *)
(* records of IncidentManager and its audit log tell one story, the two    *)
(* rule tables agree, every event is in one incident and no further one    *)
(* discounts it, a playbook rests on what the cluster answered, and a      *)
(* package is whole and honest.                                            *)
(***************************************************************************)
EXTENDS EventAnalysis, FiniteSetTheorems, TLAPS

\* A set of natural numbers that is not empty has a least one.
LEMMA LeastNatural ==
  ASSUME NEW S \in SUBSET Nat, S # {}
  PROVE  \E m \in S : \A k \in S : m <= k
<1>1. PICK m \in S : \A k \in S : ~(<<k, m>> \in OpToRel(<, Nat))
  BY NatLessThanWellFounded, WFMin
<1>2. \A k \in S : ~(k < m)
  BY <1>1 DEF OpToRel
<1> QED
  BY <1>2

\* One element more: the others stay where they are.
LEMMA Appended ==
  ASSUME NEW T, NEW s \in Seq(T), NEW e \in T
  PROVE  /\ Append(s, e) \in Seq(T)
         /\ Len(Append(s, e)) = Len(s) + 1 /\ Len(s) \in Nat
         /\ Append(s, e)[Len(s) + 1] = e /\ Append(s, e)[Len(Append(s, e))] = e
         /\ \A k \in 1 .. Len(s) : Append(s, e)[k] = s[k]
OBVIOUS

IsList(s) == \E T : s \in Seq(T)

LEMMA ListFacts ==
  ASSUME NEW s, IsList(s)
  PROVE  /\ Len(s) \in Nat
         /\ s # <<>> => Len(s) > 0 /\ Head(s) = s[1] /\ IsList(Tail(s)) /\ Len(Tail(s)) = Len(s) - 1
                        /\ \A k \in 1 .. Len(s) - 1 : Tail(s)[k] = s[k + 1]
<1>1. PICK T : s \in Seq(T)
  BY DEF IsList
<1>2. s # <<>> => Tail(s) \in Seq(T)
  BY <1>1
<1> QED
  BY <1>1, <1>2 DEF IsList

LEMMA ListMore ==
  ASSUME NEW s, IsList(s), NEW e
  PROVE  /\ IsList(Append(s, e)) /\ Len(Append(s, e)) = Len(s) + 1
         /\ Append(s, e)[Len(s) + 1] = e
         /\ \A k \in 1 .. Len(s) : Append(s, e)[k] = s[k]
<1>1. PICK T : s \in Seq(T)
  BY DEF IsList
<1>2. PICK U : U = T \cup {e}
  OBVIOUS
<1>3. s \in Seq(U) /\ e \in U
  BY <1>1, <1>2
<1> QED
  BY <1>3, Appended DEF IsList

LEMMA ListDomain ==
  ASSUME NEW s, IsList(s)
  PROVE  DOMAIN s = 1 .. Len(s) /\ Len(s) \in Nat
<1>1. PICK T : s \in Seq(T)
  BY DEF IsList
<1> QED
  BY <1>1
----------------------------------------------------------------------------------
(* The records of the incident manager and their histories *)

Entries == [from : Statuses \cup {NoStatus}, to : Statuses]
Records == [status : Statuses, history : Seq(Entries)]
Log     == [id : Ids, from : Statuses \cup {NoStatus}, to : Statuses]

\* A history that is a chain: from its creation, each entry from where the last one led.
IsChain(h, ending) ==
  /\ Len(h) > 0
  /\ h[1] = Entry(NoStatus, "NEW")
  /\ \A k \in 1 .. Len(h) - 1 : h[k + 1].from = h[k].to
  /\ h[Len(h)].to = ending

\* The types that the steps need, and the chain of every record.
Inv ==
  /\ TypeOK
  /\ incidents \in [DOMAIN incidents -> Records]
  /\ audit \in Seq(Log)
  /\ \A id \in DOMAIN incidents : IsChain(incidents[id].history, incidents[id].status)

LEMMA NewIsRecord ==
  /\ "NEW" \in Statuses
  /\ <<Entry(NoStatus, "NEW")>> \in Seq(Entries)
  /\ IsChain(<<Entry(NoStatus, "NEW")>>, "NEW")
<1>1. Entry(NoStatus, "NEW") \in Entries
  BY DEF Entry, Entries, Statuses
<1>2. Entry(NoStatus, "NEW").to = "NEW"
  BY DEF Entry
<1> DEFINE e == Entry(NoStatus, "NEW")
<1> HIDE DEF e
<1>3. e \in Entries /\ e.to = "NEW"
  BY <1>1, <1>2 DEF e
<1>4. <<e>> \in Seq(Entries) /\ Len(<<e>>) = 1 /\ <<e>>[1] = e
  BY <1>3
<1>5. IsChain(<<e>>, "NEW")
  BY <1>3, <1>4 DEF IsChain, e
<1> QED
  BY <1>4, <1>5 DEF e, Statuses

\* A change appends the one entry that continues the chain.
LEMMA ChangeContinues ==
  ASSUME NEW inc \in Records, IsChain(inc.history, inc.status), NEW new \in Statuses
  PROVE  /\ Changed(inc, new) \in Records
         /\ IsChain(Changed(inc, new).history, Changed(inc, new).status)
<1> DEFINE h == inc.history
           e == Entry(inc.status, new)
<1>1. h \in Seq(Entries) /\ inc.status \in Statuses
  BY DEF Records
<1>2. e \in Entries /\ e.from = inc.status /\ e.to = new
  BY <1>1 DEF Entry, Entries
<1>3. /\ Changed(inc, new).status = new
      /\ Changed(inc, new).history = Append(h, e)
  BY DEF Changed
<1>4. Len(h) > 0 /\ h[1] = Entry(NoStatus, "NEW") /\ h[Len(h)].to = inc.status
      /\ \A k \in 1 .. Len(h) - 1 : h[k + 1].from = h[k].to
  BY DEF IsChain
<1> DEFINE g == Append(h, e)
<1> HIDE DEF h, e
<1>5. /\ g \in Seq(Entries) /\ Len(g) = Len(h) + 1 /\ Len(h) \in Nat
      /\ \A k \in 1 .. Len(h) : g[k] = h[k]
      /\ g[Len(h) + 1] = e
  BY <1>1, <1>2
<1> HIDE DEF g
<1>6. ASSUME NEW k \in 1 .. Len(g) - 1
      PROVE  g[k + 1].from = g[k].to
  <2>1. CASE k = Len(h)
    BY <2>1, <1>2, <1>4, <1>5
  <2>2. CASE k # Len(h)
    <3>1. k \in 1 .. Len(h) - 1 /\ k + 1 \in 1 .. Len(h) /\ k \in 1 .. Len(h)
      BY <2>2, <1>5
    <3> QED
      BY <3>1, <1>4, <1>5
  <2> QED
    BY <2>1, <2>2
<1>7. IsChain(g, new)
  BY <1>2, <1>4, <1>5, <1>6 DEF IsChain
<1>8. Changed(inc, new) \in Records
  BY <1>3, <1>5 DEF Changed, Records, g, h, e
<1> QED
  BY <1>3, <1>7, <1>8 DEF g

LEMMA InitInv == Init => Inv
<1> SUFFICES ASSUME Init PROVE Inv
  OBVIOUS
<1>1. DOMAIN incidents = {} /\ incidents \in [DOMAIN incidents -> Records]
  BY DEF Init
<1>2. audit \in Seq(Log) /\ Len(audit) = 0
  BY DEF Init
<1> QED
  BY <1>1, <1>2, LifecycleAssumption DEF Init, Inv, TypeOK

LEMMA AuditStep ==
  ASSUME audit \in Seq(Log), Len(audit) <= MaxSteps, Len(audit) < MaxSteps,
         NEW D, \A k \in 1 .. Len(audit) : audit[k].id \in D,
         NEW id \in Ids \cap D, NEW from \in Statuses \cup {NoStatus}, NEW to \in Statuses,
         RecordAudit(id, from, to)
  PROVE  /\ audit' \in Seq(Log) /\ Len(audit') <= MaxSteps
         /\ \A k \in 1 .. Len(audit') : audit'[k].id \in D
<1> DEFINE a == [id |-> id, from |-> from, to |-> to]
<1>1. a \in Log /\ a.id = id
  BY DEF Log
<1>2. audit' = Append(audit, a)
  BY DEF RecordAudit
<1> HIDE DEF a
<1> QED
  BY <1>1, <1>2, LifecycleAssumption

LEMMA CreateInv ==
  ASSUME Inv, NEW id \in Ids, Create(id)
  PROVE  Inv'
<1> DEFINE new == [status |-> "NEW", history |-> <<Entry(NoStatus, "NEW")>>]
<1>1. new \in Records /\ IsChain(new.history, new.status)
  BY NewIsRecord DEF Records
<1>2. incidents' = [x \in DOMAIN incidents \cup {id} |-> IF x = id THEN new ELSE incidents[x]]
  BY DEF Create, Store
<1> HIDE DEF new
<1>3. /\ DOMAIN incidents' = DOMAIN incidents \cup {id}
      /\ \A i \in DOMAIN incidents' :
           incidents'[i] = IF i = id THEN new ELSE incidents[i]
      /\ incidents' = [i \in DOMAIN incidents' |-> incidents'[i]]
  BY <1>2
<1>4. \A i \in DOMAIN incidents : incidents[i] \in Records
  BY DEF Inv
<1>5. \A i \in DOMAIN incidents' :
        incidents'[i] \in Records /\ IsChain(incidents'[i].history, incidents'[i].status)
  BY <1>1, <1>3, <1>4 DEF Inv
<1>6. incidents' \in [DOMAIN incidents' -> Records]
  BY <1>3, <1>5
<1>7. /\ audit' \in Seq(Log) /\ Len(audit') <= MaxSteps
      /\ \A k \in 1 .. Len(audit') : audit'[k].id \in DOMAIN incidents'
  <2>1. "NEW" \in Statuses /\ RecordAudit(id, NoStatus, "NEW") /\ Len(audit) < MaxSteps
    BY NewIsRecord DEF Create
  <2>2. /\ audit \in Seq(Log) /\ Len(audit) <= MaxSteps
        /\ \A k \in 1 .. Len(audit) : audit[k].id \in DOMAIN incidents'
    BY <1>3 DEF Inv, TypeOK
  <2>3. id \in Ids \cap DOMAIN incidents'
    BY <1>3
  <2> QED
    BY <2>1, <2>2, <2>3, AuditStep
<1>8. TypeOK'
  <2>1. DOMAIN incidents' \subseteq Ids
    BY <1>3 DEF Inv, TypeOK
  <2>2. \A i \in DOMAIN incidents' : incidents'[i].status \in Statuses
    BY <1>5 DEF Records
  <2> QED
    BY <1>7, <2>1, <2>2 DEF Inv, TypeOK, Create
<1> QED
  BY <1>5, <1>6, <1>7, <1>8 DEF Inv

LEMMA UpdateInv ==
  ASSUME Inv, NEW id \in Ids, NEW new \in Requests, UpdateStatus(id, new)
  PROVE  Inv'
<1>1. /\ id \in DOMAIN incidents /\ new \in Statuses
      /\ incidents' = [incidents EXCEPT ![id] = Changed(@, new)]
      /\ RecordAudit(id, incidents[id].status, new) /\ Len(audit) < MaxSteps
  BY DEF UpdateStatus
<1>2. \A i \in DOMAIN incidents : incidents[i] \in Records
  BY DEF Inv
<1>3. /\ Changed(incidents[id], new) \in Records
      /\ IsChain(Changed(incidents[id], new).history, Changed(incidents[id], new).status)
  BY <1>1, <1>2, ChangeContinues DEF Inv
<1>4. /\ DOMAIN incidents' = DOMAIN incidents
      /\ \A i \in DOMAIN incidents :
           incidents'[i] = IF i = id THEN Changed(incidents[id], new) ELSE incidents[i]
      /\ incidents' = [i \in DOMAIN incidents' |-> incidents'[i]]
  BY <1>1 DEF Inv
<1>5. \A i \in DOMAIN incidents' :
        incidents'[i] \in Records /\ IsChain(incidents'[i].history, incidents'[i].status)
  BY <1>2, <1>3, <1>4 DEF Inv
<1>6. incidents' \in [DOMAIN incidents' -> Records]
  BY <1>4, <1>5
<1>7. /\ audit' \in Seq(Log) /\ Len(audit') <= MaxSteps
      /\ \A k \in 1 .. Len(audit') : audit'[k].id \in DOMAIN incidents'
  <2>1. incidents[id].status \in Statuses
    BY <1>1 DEF Inv, TypeOK
  <2>2. /\ audit \in Seq(Log) /\ Len(audit) <= MaxSteps
        /\ \A k \in 1 .. Len(audit) : audit[k].id \in DOMAIN incidents'
    BY <1>4 DEF Inv, TypeOK
  <2>3. id \in Ids \cap DOMAIN incidents'
    BY <1>1, <1>4
  <2> QED
    BY <1>1, <2>1, <2>2, <2>3, AuditStep
<1>8. TypeOK'
  <2>1. DOMAIN incidents' \subseteq Ids
    BY <1>4 DEF Inv, TypeOK
  <2>2. \A i \in DOMAIN incidents' : incidents'[i].status \in Statuses
    BY <1>5 DEF Records
  <2> QED
    BY <1>7, <2>1, <2>2 DEF Inv, TypeOK, UpdateStatus
<1> QED
  BY <1>5, <1>6, <1>7, <1>8 DEF Inv

LEMMA StepInv ==
  ASSUME Inv, [Next]_vars
  PROVE  Inv'
<1>1. ASSUME NEW id \in Ids, Create(id) PROVE Inv'
  BY <1>1, CreateInv
<1>2. ASSUME NEW id \in Ids, NEW new \in Requests, UpdateStatus(id, new) PROVE Inv'
  BY <1>2, UpdateInv
<1>3. ASSUME UNCHANGED <<incidents, audit>>, shown' \subseteq Ids, stateFile' \subseteq Ids,
             reply' \in {"record", "none", "error"}
      PROVE  Inv'
  BY <1>3 DEF Inv, TypeOK
<1>4. ASSUME NEW id \in Ids, UpdateUnknown(id) PROVE Inv'
  BY <1>3, <1>4 DEF UpdateUnknown, Inv, TypeOK
<1>5. ASSUME NEW id \in Ids, NEW new \in Requests, UpdateInvalid(id, new) PROVE Inv'
  BY <1>3, <1>5 DEF UpdateInvalid, Inv, TypeOK
<1>6. CASE ListIncidents
  BY <1>3, <1>6 DEF ListIncidents, Inv, TypeOK
<1>7. CASE UNCHANGED vars
  BY <1>3, <1>7 DEF vars, Inv, TypeOK
<1> QED
  BY <1>1, <1>2, <1>4, <1>5, <1>6, <1>7 DEF Next

\* The inductive invariant.
LEMMA Invariant == Spec => []Inv
<1>1. Init => Inv
  BY InitInv
<1>2. Inv /\ [Next]_vars => Inv'
  BY StepInv
<1> QED
  BY <1>1, <1>2, PTL DEF Spec

\* The types of records, audit log and list (reporting/incidents.py).
THEOREM LifecycleTypes == Spec => []TypeOK
<1>1. Inv => TypeOK
  BY DEF Inv
<1> QED
  BY <1>1, Invariant, PTL

\* Whatever changes are made or refused, and however often an id is drawn again, the history
\* of every record is one chain from its creation to its status (update_status).
THEOREM HistoriesAreChains == Spec => []HistoryIsAChain
<1>1. Inv => HistoryIsAChain
  BY DEF Inv, HistoryIsAChain, IsChain
<1> QED
  BY <1>1, Invariant, PTL
----------------------------------------------------------------------------------
(* The audit log and the histories *)

\* The log as it is after one more entry.
LEMMA LogFacts ==
  ASSUME audit \in Seq(Log), NEW id \in Ids, NEW from \in Statuses \cup {NoStatus},
         NEW to \in Statuses, RecordAudit(id, from, to)
  PROVE  /\ Len(audit) \in Nat /\ Len(audit') = Len(audit) + 1
         /\ \A k \in 1 .. Len(audit) : audit'[k] = audit[k]
         /\ audit'[Len(audit) + 1].id = id
         /\ audit'[Len(audit) + 1].from = from /\ audit'[Len(audit) + 1].to = to
<1> DEFINE a == [id |-> id, from |-> from, to |-> to]
<1>1. a \in Log /\ a.id = id /\ a.from = from /\ a.to = to
  BY DEF Log
<1>2. audit' = Append(audit, a)
  BY DEF RecordAudit
<1> HIDE DEF a
<1>3. Len(audit) \in Nat /\ Len(audit') = Len(audit) + 1
  BY <1>1, <1>2
<1>4. /\ \A k \in 1 .. Len(audit) : audit'[k] = audit[k]
      /\ audit'[Len(audit) + 1] = a
  BY <1>1, <1>2
<1> QED
  BY <1>1, <1>3, <1>4

\* The entries that Since names can be counted, and so can those up to one of them.
LEMMA RankBounds ==
  ASSUME audit \in Seq(Log), NEW id
  PROVE  /\ IsFiniteSet(Since(id)) /\ Cardinality(Since(id)) \in Nat
         /\ \A k \in Since(id) : Rank(id, k) \in 1 .. Cardinality(Since(id))
<1>1. IsFiniteSet(1 .. Len(audit))
  BY FS_Interval
<1>2. Since(id) \in SUBSET (1 .. Len(audit))
  BY DEF Since
<1>3. IsFiniteSet(Since(id)) /\ Cardinality(Since(id)) \in Nat
  BY <1>1, <1>2, FS_Subset, FS_CardinalityType
<1>4. ASSUME NEW k \in Since(id)
      PROVE  Rank(id, k) \in 1 .. Cardinality(Since(id))
  <2> DEFINE upTo == {m \in Since(id) : m <= k}
  <2>1. upTo \in SUBSET Since(id) /\ k \in upTo
    BY <1>2
  <2>2. /\ IsFiniteSet(upTo) /\ Cardinality(upTo) \in Nat
        /\ Cardinality(upTo) <= Cardinality(Since(id))
    BY <1>3, <2>1, FS_Subset, FS_CardinalityType
  <2>3. Cardinality(upTo) # 0
    BY <2>1, <2>2, FS_EmptySet
  <2>4. Rank(id, k) = Cardinality(upTo)
    BY DEF Rank
  <2> HIDE DEF upTo
  <2> QED
    BY <1>3, <2>2, <2>3, <2>4
<1> QED
  BY <1>3, <1>4

\* An entry about another incident.
LEMMA OtherEntry ==
  ASSUME audit \in Seq(Log), NEW id \in Ids, NEW from \in Statuses \cup {NoStatus},
         NEW to \in Statuses, RecordAudit(id, from, to), NEW i \in Ids, i # id
  PROVE  /\ Since(i)' = Since(i)
         /\ \A k \in Since(i) : Rank(i, k)' = Rank(i, k) /\ audit'[k] = audit[k]
<1>1. PICK n : n = Len(audit)
  OBVIOUS
<1>2. /\ n \in Nat /\ Len(audit') = n + 1 /\ audit'[n + 1].id = id
      /\ \A k \in 1 .. n : audit'[k] = audit[k]
  BY <1>1, LogFacts
<1>3. ASSUME NEW k PROVE k \in Since(i)' <=> k \in Since(i)
  <2>1. CASE k \in 1 .. n
    <3>1. ASSUME NEW m \in k + 1 .. n + 1
          PROVE  (audit'[m].id = i => audit'[m].from # NoStatus)
                   <=> (m \in k + 1 .. n => (audit[m].id = i => audit[m].from # NoStatus))
      <4>1. CASE m = n + 1
        BY <1>2, <2>1, <4>1
      <4>2. CASE m # n + 1
        <5>1. m \in k + 1 .. n /\ m \in 1 .. n
          BY <1>2, <2>1, <4>2
        <5> QED
          BY <1>2, <5>1
      <4> QED
        BY <4>1, <4>2
    <3>2. \A m \in k + 1 .. n : m \in k + 1 .. n + 1
      BY <1>2, <2>1
    <3>3. k \in 1 .. n + 1 /\ audit'[k] = audit[k]
      BY <1>2, <2>1
    <3> QED
      BY <1>1, <1>2, <2>1, <3>1, <3>2, <3>3 DEF Since
  <2>2. CASE k \notin 1 .. n
    <3>1. k \notin Since(i)
      BY <1>1, <2>2 DEF Since
    <3>2. k \in 1 .. n + 1 => k = n + 1
      BY <1>2, <2>2
    <3> QED
      BY <1>2, <3>1, <3>2 DEF Since
  <2> QED
    BY <2>1, <2>2
<1>4. Since(i)' = Since(i)
  BY <1>3
<1> QED
  BY <1>1, <1>2, <1>4 DEF Rank, Since

\* A creation is the only entry that counts from then on.
LEMMA CreationEntry ==
  ASSUME audit \in Seq(Log), NEW id \in Ids, NEW to \in Statuses, RecordAudit(id, NoStatus, to),
         NEW n, n = Len(audit)
  PROVE  /\ Since(id)' = {n + 1} /\ Rank(id, n + 1)' = 1
         /\ audit'[n + 1].from = NoStatus /\ audit'[n + 1].to = to
<1>1. /\ n \in Nat /\ Len(audit') = n + 1
      /\ audit'[n + 1].id = id /\ audit'[n + 1].from = NoStatus /\ audit'[n + 1].to = to
  BY LogFacts
<1>2. n + 1 \in Since(id)'
  <2>1. n + 1 \in 1 .. n + 1 /\ \A m \in n + 1 + 1 .. n + 1 : FALSE
    BY <1>1
  <2> QED
    BY <1>1, <2>1 DEF Since
<1>3. ASSUME NEW k \in Since(id)', k # n + 1 PROVE FALSE
  <2>1. k \in 1 .. n + 1
    BY <1>1, <1>3 DEF Since
  <2>2. n + 1 \in k + 1 .. n + 1
    BY <1>1, <1>3, <2>1
  <2> QED
    BY <1>1, <1>3, <2>2 DEF Since
<1>4. Since(id)' = {n + 1}
  BY <1>2, <1>3
<1>5. {m \in {n + 1} : m <= n + 1} = {n + 1}
  BY <1>1
<1>6. Rank(id, n + 1)' = Cardinality({n + 1})
  BY <1>4, <1>5 DEF Rank
<1> QED
  BY <1>1, <1>4, <1>6, FS_Singleton

\* A change is one entry more, after all that count.
LEMMA ChangeEntry ==
  ASSUME audit \in Seq(Log), NEW id \in Ids, NEW from \in Statuses, NEW to \in Statuses,
         RecordAudit(id, from, to), NEW n, n = Len(audit)
  PROVE  /\ Since(id)' = Since(id) \cup {n + 1}
         /\ Cardinality(Since(id)') = Cardinality(Since(id)) + 1
         /\ \A k \in Since(id) : Rank(id, k)' = Rank(id, k) /\ audit'[k] = audit[k]
         /\ Rank(id, n + 1)' = Cardinality(Since(id)) + 1
         /\ audit'[n + 1].from = from /\ audit'[n + 1].to = to
<1>1. /\ n \in Nat /\ Len(audit') = n + 1
      /\ audit'[n + 1].id = id /\ audit'[n + 1].from = from /\ audit'[n + 1].to = to
      /\ \A k \in 1 .. n : audit'[k] = audit[k]
  <2>1. from \in Statuses \cup {NoStatus}
    OBVIOUS
  <2> QED
    BY <2>1, LogFacts
<1>2. from # NoStatus
  BY DEF Statuses, NoStatus
<1>3. Since(id) \subseteq 1 .. n
  BY DEF Since
<1>4. n + 1 \in Since(id)'
  <2>1. n + 1 \in 1 .. n + 1 /\ \A m \in n + 1 + 1 .. n + 1 : FALSE
    BY <1>1
  <2> QED
    BY <1>1, <2>1 DEF Since
<1>5. ASSUME NEW k, k # n + 1 PROVE k \in Since(id)' <=> k \in Since(id)
  <2>1. CASE k \in 1 .. n
    <3>1. ASSUME NEW m \in k + 1 .. n + 1
          PROVE  (audit'[m].id = id => audit'[m].from # NoStatus)
                   <=> (m \in k + 1 .. n => (audit[m].id = id => audit[m].from # NoStatus))
      <4>1. CASE m = n + 1
        BY <1>1, <1>2, <2>1, <4>1
      <4>2. CASE m # n + 1
        <5>1. m \in k + 1 .. n /\ m \in 1 .. n
          BY <1>1, <2>1, <4>2
        <5> QED
          BY <1>1, <5>1
      <4> QED
        BY <4>1, <4>2
    <3>2. \A m \in k + 1 .. n : m \in k + 1 .. n + 1
      BY <1>1, <2>1
    <3>3. k \in 1 .. n + 1 /\ audit'[k] = audit[k]
      BY <1>1, <2>1
    <3> QED
      BY <1>1, <2>1, <3>1, <3>2, <3>3 DEF Since
  <2>2. CASE k \notin 1 .. n
    <3>1. k \notin 1 .. n + 1
      BY <1>1, <1>5, <2>2
    <3> QED
      BY <1>1, <1>3, <2>2, <3>1 DEF Since
  <2> QED
    BY <2>1, <2>2
<1>6. Since(id)' = Since(id) \cup {n + 1}
  BY <1>4, <1>5
<1>7. n + 1 \notin Since(id)
  BY <1>1, <1>3
<1>8. Cardinality(Since(id)') = Cardinality(Since(id)) + 1
  BY <1>6, <1>7, RankBounds, FS_AddElement
<1>9. ASSUME NEW k \in Since(id)
      PROVE  Rank(id, k)' = Rank(id, k) /\ audit'[k] = audit[k]
  <2>1. ~(n + 1 <= k) /\ k \in 1 .. n
    BY <1>1, <1>3
  <2>2. {m \in Since(id)' : m <= k} = {m \in Since(id) : m <= k}
    BY <1>6, <2>1
  <2> QED
    BY <1>1, <2>1, <2>2 DEF Rank
<1>10. Rank(id, n + 1)' = Cardinality(Since(id)')
  <2>1. \A m \in Since(id)' : m <= n + 1
    BY <1>1, <1>3, <1>6
  <2>2. {m \in Since(id)' : m <= n + 1} = Since(id)'
    BY <2>1
  <2> QED
    BY <2>2 DEF Rank
<1> QED
  BY <1>1, <1>6, <1>8, <1>9, <1>10

LEMMA AuditCreate ==
  ASSUME Inv, AuditTellsHistory, NEW id \in Ids, Create(id)
  PROVE  AuditTellsHistory'
<1> DEFINE first == Entry(NoStatus, "NEW")
<1>1. /\ DOMAIN incidents' = DOMAIN incidents \cup {id}
      /\ \A i \in DOMAIN incidents' :
           incidents'[i] = IF i = id THEN [status |-> "NEW", history |-> <<first>>] ELSE incidents[i]
      /\ RecordAudit(id, NoStatus, "NEW")
  BY DEF Create, Store
<1>2. audit \in Seq(Log) /\ DOMAIN incidents \subseteq Ids /\ "NEW" \in Statuses
  BY NewIsRecord DEF Inv, TypeOK
<1> HIDE DEF first
<1> SUFFICES ASSUME NEW i \in DOMAIN incidents'
             PROVE  /\ Len(incidents'[i].history) = Cardinality(Since(i)')
                    /\ \A k \in Since(i)' :
                         incidents'[i].history[Rank(i, k)'] = Entry(audit'[k].from, audit'[k].to)
  BY DEF AuditTellsHistory
<1>3. CASE i = id
  <2>1. incidents'[i].history = <<first>>
    BY <1>1, <1>3
  <2>2. PICK n : n = Len(audit)
    OBVIOUS
  <2>3. /\ Since(i)' = {n + 1} /\ Rank(i, n + 1)' = 1
        /\ Entry(audit'[n + 1].from, audit'[n + 1].to) = first
    BY <1>1, <1>2, <1>3, <2>2, CreationEntry DEF first
  <2>4. Cardinality(Since(i)') = 1
    BY <2>3, FS_Singleton
  <2> QED
    BY <2>1, <2>3, <2>4
<1>4. CASE i # id
  <2>1. i \in DOMAIN incidents /\ i \in Ids /\ incidents'[i] = incidents[i]
    BY <1>1, <1>2, <1>4
  <2>2. Since(i)' = Since(i) /\ \A k \in Since(i) : Rank(i, k)' = Rank(i, k) /\ audit'[k] = audit[k]
    BY <1>1, <1>2, <1>4, <2>1, OtherEntry
  <2> QED
    BY <2>1, <2>2 DEF AuditTellsHistory
<1> QED
  BY <1>3, <1>4

LEMMA AuditUpdate ==
  ASSUME Inv, AuditTellsHistory, NEW id \in Ids, NEW new \in Requests, UpdateStatus(id, new)
  PROVE  AuditTellsHistory'
<1> DEFINE h == incidents[id].history
           e == Entry(incidents[id].status, new)
<1>1. /\ id \in DOMAIN incidents /\ new \in Statuses
      /\ DOMAIN incidents' = DOMAIN incidents
      /\ \A i \in DOMAIN incidents : i # id => incidents'[i] = incidents[i]
      /\ incidents'[id].history = Append(h, e)
      /\ RecordAudit(id, incidents[id].status, new)
  BY DEF UpdateStatus, Changed, Inv
<1>2. /\ audit \in Seq(Log) /\ DOMAIN incidents \subseteq Ids
      /\ incidents[id].status \in Statuses /\ h \in Seq(Entries) /\ e \in Entries
  BY <1>1 DEF Inv, TypeOK, Records, Entry, Entries
<1>3. e = Entry(incidents[id].status, new)
  OBVIOUS
<1> HIDE DEF h, e
<1> SUFFICES ASSUME NEW i \in DOMAIN incidents
             PROVE  /\ Len(incidents'[i].history) = Cardinality(Since(i)')
                    /\ \A k \in Since(i)' :
                         incidents'[i].history[Rank(i, k)'] = Entry(audit'[k].from, audit'[k].to)
  BY <1>1 DEF AuditTellsHistory
<1>4. CASE i = id
  <2>1. PICK n : n = Len(audit)
    OBVIOUS
  <2>2. /\ Since(id)' = Since(id) \cup {n + 1}
        /\ Cardinality(Since(id)') = Cardinality(Since(id)) + 1
        /\ \A k \in Since(id) : Rank(id, k)' = Rank(id, k) /\ audit'[k] = audit[k]
        /\ Rank(id, n + 1)' = Cardinality(Since(id)) + 1
        /\ Entry(audit'[n + 1].from, audit'[n + 1].to) = e
    BY <1>1, <1>2, <1>3, <2>1, ChangeEntry
  <2>3. /\ Len(h) = Cardinality(Since(id))
        /\ \A k \in Since(id) : h[Rank(id, k)] = Entry(audit[k].from, audit[k].to)
    BY <1>1 DEF AuditTellsHistory, h
  <2>4. \A k \in Since(id) : Rank(id, k) \in 1 .. Len(h)
    BY <1>2, <2>3, RankBounds
  <2> DEFINE g == Append(h, e)
  <2>5. /\ Len(g) = Len(h) + 1 /\ g[Len(h) + 1] = e
        /\ \A k \in 1 .. Len(h) : g[k] = h[k]
    BY <1>2
  <2> HIDE DEF g
  <2>6. ASSUME NEW k \in Since(id)'
        PROVE  g[Rank(id, k)'] = Entry(audit'[k].from, audit'[k].to)
    <3>1. CASE k = n + 1
      BY <2>2, <2>3, <2>5, <3>1
    <3>2. CASE k \in Since(id)
      BY <2>2, <2>3, <2>4, <2>5, <3>2
    <3> QED
      BY <2>2, <2>6, <3>1, <3>2
  <2> QED
    BY <1>1, <1>4, <2>2, <2>3, <2>5, <2>6 DEF g
<1>5. CASE i # id
  <2>1. i \in Ids /\ incidents'[i] = incidents[i]
    BY <1>1, <1>2, <1>5
  <2>2. Since(i)' = Since(i) /\ \A k \in Since(i) : Rank(i, k)' = Rank(i, k) /\ audit'[k] = audit[k]
    BY <1>1, <1>2, <1>5, <2>1, OtherEntry
  <2> QED
    BY <2>1, <2>2 DEF AuditTellsHistory
<1> QED
  BY <1>4, <1>5

LEMMA AuditStepTells ==
  ASSUME Inv, AuditTellsHistory, [Next]_vars
  PROVE  AuditTellsHistory'
<1>1. ASSUME NEW id \in Ids, Create(id) PROVE AuditTellsHistory'
  BY <1>1, AuditCreate
<1>2. ASSUME NEW id \in Ids, NEW new \in Requests, UpdateStatus(id, new) PROVE AuditTellsHistory'
  BY <1>2, AuditUpdate
<1>3. ASSUME UNCHANGED <<incidents, audit>> PROVE AuditTellsHistory'
  BY <1>3 DEF AuditTellsHistory, Since, Rank
<1>4. CASE ~UNCHANGED <<incidents, audit>>
  BY <1>1, <1>2, <1>4 DEF Next, UpdateUnknown, UpdateInvalid, ListIncidents, vars
<1> QED
  BY <1>3, <1>4

\* The audit log and the records never drift apart, however often an id is drawn again and
\* whichever changes are refused (_record_audit and update_status).
THEOREM AuditAndHistoryAgree == Spec => []AuditTellsHistory
<1>1. Init => Inv /\ AuditTellsHistory
  BY InitInv DEF Init, AuditTellsHistory
<1>2. Inv /\ AuditTellsHistory /\ [Next]_vars => (Inv /\ AuditTellsHistory)'
  BY StepInv, AuditStepTells
<1> QED
  BY <1>1, <1>2, PTL DEF Spec
----------------------------------------------------------------------------------
(* The rules *)

\* The engine's answer to each event is kept beside it.
JudgedInv == \A j \in judged : \E e : j = <<e, Detection!Verdict(e)>>

LEMMA RulesStep ==
  ASSUME JudgedInv, [AnalysisNext]_analysisVars
  PROVE  JudgedInv'
<1>1. CASE judged' = judged
  BY <1>1 DEF JudgedInv
<1>2. CASE \E e : judged' = judged \cup {<<e, Detection!Verdict(e)>>}
  BY <1>2 DEF JudgedInv
<1>3. \/ judged' = judged
      \/ \E e : judged' = judged \cup {<<e, Detection!Verdict(e)>>}
  <2>1. CASE UNCHANGED detectionVars
    BY <2>1 DEF detectionVars
  <2>2. ASSUME NEW e \in RawEvents, Detection!ProcessEvent(e)
        PROVE  \E d : judged' = judged \cup {<<d, Detection!Verdict(d)>>}
    BY <2>2 DEF Detection!ProcessEvent
  <2>3. ASSUME Detection!ReadLine
        PROVE  judged' = judged \/ \E d : judged' = judged \cup {<<d, Detection!Verdict(d)>>}
    BY <2>3 DEF Detection!ReadLine
  <2>4. ASSUME \/ \E f \in RawFiles : Detection!OpenFile(f)
               \/ Detection!CloseFile
               \/ \E r \in Switchable : Detection!SwitchRule(r)
        PROVE  judged' = judged
    BY <2>4 DEF Detection!OpenFile, Detection!CloseFile, Detection!SwitchRule
  <2>5. CASE Detection!Next
    BY <2>2, <2>3, <2>4, <2>5 DEF Detection!Next
  <2> QED
    BY <2>1, <2>5 DEF AnalysisNext, analysisVars
<1> QED
  BY <1>1, <1>2, <1>3

\* What the two handlers answer in the protected namespace.
LEMMA ExecVerdict ==
  ASSUME NEW e, e.shape = "exec" \/ (e.shape = "kprobe" /\ "execve" \in e.func)
  PROVE  Detection!Verdict(e) = Detection!HandleExec(e)
<1>1. CASE e.shape = "exec"
  BY <1>1 DEF Detection!Verdict
<1>2. CASE e.shape = "kprobe" /\ "execve" \in e.func
  BY <1>2 DEF Detection!Verdict, Detection!HandleKprobe, Detection!HandleExec, Detection!NoRule
<1> QED
  BY <1>1, <1>2

LEMMA ExecRuleMatches ==
  ASSUME NEW binary
  PROVE  LET rule == Detection!ExecRule(binary)
         IN /\ rule \in Detection!RuleIds => Detection!Matches(rule, binary, binary)
            /\ rule \in {"R1", "R2", "R5"} =>
                 \E r \in {"R1", "R2", "R5"} : Detection!Matches(r, binary, "plain")
            /\ (\E r \in {"R1", "R2", "R3", "R5", "R7"} : Detection!Matches(r, binary, "plain"))
                 => rule \in Detection!RuleIds
<1> USE DEF Detection!ExecRule, Detection!Matches, Detection!Targets, Detection!RuleIds, Detection!NoRule
<1>1. CASE binary = "shell"
  BY <1>1
<1>2. CASE binary = "netutil"
  BY <1>2
<1>3. CASE binary = "recon"
  BY <1>3
<1>4. CASE binary \in {"nsenter", "privesc"}
  BY <1>4
<1>5. CASE binary = "miner"
  BY <1>5
<1>6. CASE binary \notin {"shell", "netutil", "recon", "nsenter", "privesc", "miner"}
  <2>1. Detection!ExecRule(binary) = "none"
    BY <1>6
  <2>2. \A r \in {"R1", "R2", "R3", "R5", "R7"} : ~Detection!Matches(r, binary, "plain")
    BY <1>6
  <2> QED
    BY <2>1, <2>2
<1> QED
  BY <1>1, <1>2, <1>3, <1>4, <1>5, <1>6

\* For whatever the sensor reports: the engine and the registry agree wherever the engine
\* does not raise for want of a record its evidence reads, and an exec and the hooked execve
\* of the same binary are judged alike (engine.py:241, rules.py:291).
THEOREM RulesAgreeAlways == AnalysisSpec => []RulesAgree
<1>1. AnalysisInit => JudgedInv
  BY DEF AnalysisInit, Detection!Init, JudgedInv
<1>2. JudgedInv /\ [AnalysisNext]_analysisVars => JudgedInv'
  BY RulesStep
<1>3. ASSUME JudgedInv PROVE Detection!AgreesWithRegistry
  <2> SUFFICES ASSUME NEW e, <<e, Detection!Verdict(e)>> \in judged
               PROVE  LET rule == Detection!Verdict(e)
                      IN /\ e.shape \in {"exec", "kprobe"} /\ rule \in Detection!RuleIds \ {"R6"} =>
                              Detection!Matches(rule, e.arg, e.arg)
                         /\ /\ e.shape = "exec" \/ (e.shape = "kprobe" /\ "execve" \in e.func)
                            /\ ~Detection!OutOfScope(e)
                            /\ \E r \in {"R1", "R2", "R3", "R5", "R7"} : Detection!Matches(r, e.arg, "plain")
                            => \/ rule \in Detection!RuleIds
                               \/ /\ rule = Detection!Raised /\ e.hole
                                  /\ \E r \in {"R1", "R2", "R5"} : Detection!Matches(r, e.arg, "plain")
    BY <1>3 DEF JudgedInv, Detection!AgreesWithRegistry
  <2> DEFINE rule == Detection!Verdict(e)
  <2>1. CASE e.shape = "exec" \/ (e.shape = "kprobe" /\ "execve" \in e.func)
    <3>1. rule = Detection!HandleExec(e)
      BY <2>1, ExecVerdict
    <3>2. rule \in Detection!RuleIds => rule = Detection!ExecRule(e.arg)
      BY <3>1 DEF Detection!HandleExec, Detection!RuleIds, Detection!NoRule, Detection!Raised
    <3>3. ~Detection!OutOfScope(e) =>
            \/ rule = Detection!ExecRule(e.arg)
            \/ rule = Detection!Raised /\ e.hole /\ Detection!ExecRule(e.arg) \in {"R1", "R2", "R5"}
      BY <3>1 DEF Detection!HandleExec
    <3> HIDE DEF rule
    <3> QED
      BY <3>2, <3>3, ExecRuleMatches DEF rule
  <2>2. CASE e.shape = "kprobe" /\ "execve" \notin e.func
    <3>1. rule = Detection!HandleKprobe(e)
      BY <2>2 DEF Detection!Verdict
    <3>2. rule \in Detection!RuleIds \ {"R6"} => rule = "R4" /\ e.arg \in {"exact", "below"}
      BY <2>2, <3>1 DEF Detection!HandleKprobe, Detection!RuleIds, Detection!NoRule, Detection!Raised
    <3> HIDE DEF rule
    <3> QED
      BY <2>2, <3>2 DEF rule, Detection!Matches
  <2>3. CASE e.shape \notin {"exec", "kprobe"}
    BY <2>3
  <2> QED
    BY <2>1, <2>2, <2>3
<1>4. ASSUME JudgedInv PROVE Detection!SameExecSameRule
  <2> SUFFICES ASSUME NEW e, NEW f, <<e, Detection!Verdict(e)>> \in judged,
                      e.shape = "exec", f.shape = "kprobe", "execve" \in f.func,
                      e.ns = f.ns, e.arg = f.arg, e.hole = f.hole
               PROVE  Detection!Verdict(e) = Detection!Verdict(f)
    BY <1>4 DEF JudgedInv, Detection!SameExecSameRule
  <2>1. Detection!HandleExec(e) = Detection!HandleExec(f)
    BY DEF Detection!HandleExec, Detection!OutOfScope
  <2> QED
    BY <2>1, ExecVerdict
<1>5. JudgedInv => RulesAgree
  BY <1>3, <1>4 DEF RulesAgree
<1> QED
  BY <1>1, <1>2, <1>5, PTL DEF AnalysisSpec
----------------------------------------------------------------------------------
(* The files of events *)

\* The detections of the first n lines of the file are there, each at its place.
UpTo(n)  == {m \in Detection!Hits : m <= n}
Found(n) ==
  /\ Len(detections) = base + Cardinality(UpTo(n))
  /\ \A k \in UpTo(n) :
       /\ detections[base + Detection!Rank(k)].rule = Detection!Verdict(given[k])
       /\ detections[base + Detection!Rank(k)].event = given[k]

\* the lines after the n-th that are events
Ahead(n) == {k \in 1 .. Len(given) : n < k /\ ~Detection!Unparsed(given[k])}

ReadUpTo(n) ==
  /\ Len(file) = Len(given) - n
  /\ \A k \in 1 .. Len(file) : file[k] = given[n + k]
  /\ processed + Cardinality(Ahead(n)) <= MaxSeen

\* Of the first n lines only the last may have raised, and it has if the file broke there.
RaisedAt(n) ==
  \A k \in 1 .. n :
    Detection!Verdict(given[k]) = Detection!Raised <=> status = Detection!Broken /\ k = n

Ingesting == status \in {"ingesting", "ingested", Detection!Broken}

IngestInv ==
  /\ IsList(detections) /\ IsList(given) /\ IsList(file)
  /\ base \in Nat /\ processed \in Nat
  /\ base <= Len(detections) /\ Len(detections) <= processed /\ processed <= MaxSeen
  /\ \A k \in 1 .. Len(detections) : detections[k].rule \in Detection!RuleIds
  /\ status \in {"idle", "ingesting", "ingested", Detection!Raised, Detection!Broken}
  /\ Ingesting => \E n \in 0 .. Len(given) : Found(n) /\ ReadUpTo(n) /\ RaisedAt(n)
  /\ status = "ingested" => file = <<>>

LEMMA DetectionFields ==
  ASSUME NEW e
  PROVE  Detection!Detection(e).rule = Detection!Verdict(e) /\ Detection!Detection(e).event = e
BY DEF Detection!Detection

\* A line that is no event is no detection.
LEMMA CountedFacts ==
  ASSUME NEW l
  PROVE  /\ Detection!Verdict(l) \in Detection!RuleIds => ~Detection!Unparsed(l)
         /\ Detection!Counted(l) = IF Detection!Unparsed(l) THEN 0 ELSE 1
<1>1. Detection!Unparsed(l) => Detection!Verdict(l) = Detection!NoRule
  BY DEF Detection!Unparsed, Detection!Verdict
<1> QED
  BY <1>1 DEF Detection!Counted, Detection!RuleIds, Detection!NoRule

LEMMA RankIsCount == \A k : Detection!Rank(k) = Cardinality(UpTo(k))
BY DEF Detection!Rank, UpTo, Detection!Cardinality, Cardinality, Detection!IsFiniteSet, IsFiniteSet

\* The ranks of the first n lines, and of the one after.
LEMMA RankFacts ==
  ASSUME IsList(given), NEW n \in 0 .. Len(given)
  PROVE  /\ IsFiniteSet(UpTo(n)) /\ Cardinality(UpTo(n)) \in Nat
         /\ \A k \in UpTo(n) : Detection!Rank(k) \in 1 .. Cardinality(UpTo(n))
         /\ n = 0 => UpTo(n) = {}
         /\ n + 1 \in Detection!Hits =>
              /\ UpTo(n + 1) = UpTo(n) \cup {n + 1}
              /\ Cardinality(UpTo(n + 1)) = Cardinality(UpTo(n)) + 1
              /\ Detection!Rank(n + 1) = Cardinality(UpTo(n)) + 1
         /\ n + 1 \notin Detection!Hits => UpTo(n + 1) = UpTo(n)
<1>1. PICK len \in Nat : len = Len(given)
  BY ListFacts
<1>2. Detection!Hits \subseteq 1 .. len /\ IsFiniteSet(1 .. len) /\ n \in Nat
  BY <1>1, FS_Interval DEF Detection!Hits
<1> DEFINE hits == Detection!Hits
<1>3. \A m \in hits : m \in Int /\ 1 <= m
  BY <1>2
<1>4. \A i : UpTo(i) = {m \in hits : m <= i}
  BY DEF UpTo
<1>5. IsFiniteSet(Detection!Hits)
  BY <1>2, FS_Subset
<1>6. \A m \in Int : IsFiniteSet(UpTo(m)) /\ UpTo(m) \subseteq Detection!Hits
  BY <1>5, FS_Subset DEF UpTo
<1>7. IsFiniteSet(UpTo(n)) /\ Cardinality(UpTo(n)) \in Nat
  BY <1>2, <1>6, FS_CardinalityType
<1>8. ASSUME NEW k \in UpTo(n) PROVE Detection!Rank(k) \in 1 .. Cardinality(UpTo(n))
  <2>1. k \in 1 .. len /\ k \in Detection!Hits /\ k <= n
    BY <1>2 DEF UpTo
  <2>2. Detection!Rank(k) = Cardinality(UpTo(k))
    BY RankIsCount
  <2>3. k \in UpTo(k)
    BY <2>1 DEF UpTo
  <2>4. UpTo(k) \subseteq UpTo(n)
    <3>1. k \in Int /\ k <= n /\ n \in Int
      BY <1>2, <2>1
    <3> HIDE DEF hits
    <3>2. ASSUME NEW m \in hits, m <= k PROVE m <= n
      BY <1>3, <3>1, <3>2
    <3> QED
      BY <1>4, <3>2
  <2>5. Cardinality(UpTo(k)) <= Cardinality(UpTo(n)) /\ IsFiniteSet(UpTo(k))
    BY <1>7, <2>4, FS_Subset
  <2>6. Cardinality(UpTo(k)) \in Nat /\ Cardinality(UpTo(k)) # 0
    BY <2>3, <2>5, FS_CardinalityType, FS_EmptySet
  <2> QED
    BY <1>7, <2>2, <2>5, <2>6
<1>9. n = 0 => UpTo(n) = {}
  <2> HIDE DEF hits
  <2> QED
    BY <1>3, <1>4
<1>10. \A m \in hits : m <= n + 1 <=> m <= n \/ m = n + 1
  <2> HIDE DEF hits
  <2> QED
    BY <1>2, <1>3
<1>11. ASSUME n + 1 \in Detection!Hits
      PROVE  /\ UpTo(n + 1) = UpTo(n) \cup {n + 1}
             /\ Cardinality(UpTo(n + 1)) = Cardinality(UpTo(n)) + 1
             /\ Detection!Rank(n + 1) = Cardinality(UpTo(n)) + 1
  <2>1. UpTo(n + 1) = UpTo(n) \cup {n + 1} /\ n + 1 \notin UpTo(n)
    <3>1. n + 1 \in hits /\ ~(n + 1 <= n)
      BY <1>2, <1>11
    <3> HIDE DEF hits
    <3> QED
      BY <1>4, <1>10, <3>1
  <2>2. Cardinality(UpTo(n + 1)) = Cardinality(UpTo(n)) + 1
    BY <1>7, <2>1, FS_AddElement
  <2>3. Detection!Rank(n + 1) = Cardinality(UpTo(n + 1))
    BY RankIsCount
  <2> QED
    BY <2>1, <2>2, <2>3
<1>12. n + 1 \notin Detection!Hits => UpTo(n + 1) = UpTo(n)
  <2>1. n + 1 \notin hits => UpTo(n + 1) = UpTo(n)
    <3> HIDE DEF hits
    <3> QED
      BY <1>4, <1>10
  <2> QED
    BY <2>1
<1> QED
  BY <1>7, <1>8, <1>9, <1>11, <1>12

LEMMA AheadFacts ==
  ASSUME IsList(given), NEW n \in 0 .. Len(given), n < Len(given)
  PROVE  /\ Cardinality(Ahead(n)) \in Nat /\ Cardinality(Ahead(n + 1)) \in Nat
         /\ Cardinality(Ahead(n)) =
              Cardinality(Ahead(n + 1)) + IF Detection!Unparsed(given[n + 1]) THEN 0 ELSE 1
<1>1. PICK len \in Nat : len = Len(given)
  BY ListFacts
<1>2. IsFiniteSet(1 .. len)
  BY FS_Interval
<1>3. \A m \in Int : Ahead(m) \subseteq 1 .. len
  BY <1>1 DEF Ahead
<1>4. /\ IsFiniteSet(Ahead(n)) /\ Cardinality(Ahead(n)) \in Nat
      /\ IsFiniteSet(Ahead(n + 1)) /\ Cardinality(Ahead(n + 1)) \in Nat
  BY <1>1, <1>2, <1>3, FS_Subset, FS_CardinalityType
<1>5. CASE Detection!Unparsed(given[n + 1])
  <2>1. Ahead(n) = Ahead(n + 1)
    BY <1>1, <1>5 DEF Ahead
  <2> QED
    BY <1>4, <1>5, <2>1
<1>6. CASE ~Detection!Unparsed(given[n + 1])
  <2>1. Ahead(n) = Ahead(n + 1) \cup {n + 1} /\ n + 1 \notin Ahead(n + 1)
    BY <1>1, <1>6 DEF Ahead
  <2>2. Cardinality(Ahead(n)) = Cardinality(Ahead(n + 1)) + 1
    BY <1>4, <2>1, FS_AddElement
  <2> QED
    BY <1>4, <1>6, <2>2
<1> QED
  BY <1>4, <1>5, <1>6

\* A detection more, for a line that is one.
LEMMA FoundMore ==
  ASSUME IsList(given), IsList(detections), base \in Nat,
         NEW n \in 0 .. Len(given), n < Len(given), Found(n),
         NEW l, l = given[n + 1],
         UNCHANGED <<given, base>>,
         detections' = IF Detection!Verdict(l) \in Detection!RuleIds
                       THEN Append(detections, Detection!Detection(l)) ELSE detections
  PROVE  Found(n + 1)'
<1>1. PICK len \in Nat : len = Len(given)
  BY ListFacts
<1>2. n \in Nat /\ n + 1 \in 1 .. len
  BY <1>1
<1>3. \A i : UpTo(i)' = UpTo(i) /\ Detection!Rank(i)' = Detection!Rank(i)
  <2>1. Detection!Hits' = Detection!Hits
    BY DEF Detection!Hits
  <2>2. \A i : UpTo(i)' = UpTo(i)
    BY <2>1 DEF UpTo
  <2>3. \A i : Detection!Rank(i)' = Detection!Rank(i)
    BY <2>1 DEF Detection!Rank
  <2> QED
    BY <2>2, <2>3
<1>4. /\ IsFiniteSet(UpTo(n)) /\ Cardinality(UpTo(n)) \in Nat
      /\ \A k \in UpTo(n) : Detection!Rank(k) \in 1 .. Cardinality(UpTo(n))
      /\ n + 1 \in Detection!Hits =>
           /\ UpTo(n + 1) = UpTo(n) \cup {n + 1}
           /\ Cardinality(UpTo(n + 1)) = Cardinality(UpTo(n)) + 1
           /\ Detection!Rank(n + 1) = Cardinality(UpTo(n)) + 1
      /\ n + 1 \notin Detection!Hits => UpTo(n + 1) = UpTo(n)
  BY RankFacts
<1>5. n + 1 \in Detection!Hits <=> Detection!Verdict(l) \in Detection!RuleIds
  BY <1>1, <1>2 DEF Detection!Hits
<1>6. CASE Detection!Verdict(l) \notin Detection!RuleIds
  BY <1>3, <1>4, <1>5, <1>6 DEF Found
<1>7. CASE Detection!Verdict(l) \in Detection!RuleIds
  <2> DEFINE d == Detection!Detection(l)
             c == Cardinality(UpTo(n))
  <2>1. d.rule = Detection!Verdict(l) /\ d.event = l
    BY DetectionFields
  <2>2. /\ Len(detections') = Len(detections) + 1
        /\ detections'[Len(detections) + 1] = d
        /\ \A k \in 1 .. Len(detections) : detections'[k] = detections[k]
    BY <1>7, ListMore
  <2>3. Len(detections) = base + c
    BY DEF Found
  <2>4. Len(detections') = base + Cardinality(UpTo(n + 1))
    <3> HIDE DEF c
    <3>1. Cardinality(UpTo(n + 1)) = c + 1 /\ c \in Nat
      BY <1>4, <1>5, <1>7 DEF c
    <3> QED
      BY <2>2, <2>3, <3>1
  <2>5. ASSUME NEW k \in UpTo(n + 1)
        PROVE  /\ detections'[base + Detection!Rank(k)].rule = Detection!Verdict(given[k])
               /\ detections'[base + Detection!Rank(k)].event = given[k]
    <3>1. CASE k \in UpTo(n)
      <4>1. /\ detections[base + Detection!Rank(k)].rule = Detection!Verdict(given[k])
            /\ detections[base + Detection!Rank(k)].event = given[k]
        BY <3>1 DEF Found
      <4>2. PICK r \in 1 .. c : r = Detection!Rank(k)
        BY <1>4, <3>1
      <4>3. base + r \in 1 .. Len(detections)
        <5> HIDE DEF c
        <5>1. c \in Nat
          BY <1>4 DEF c
        <5> QED
          BY <2>3, <4>2, <5>1
      <4>4. detections'[base + Detection!Rank(k)] = detections[base + Detection!Rank(k)]
        BY <2>2, <4>2, <4>3
      <4> QED
        BY <4>1, <4>4
    <3>2. CASE k = n + 1
      <4>1. Detection!Rank(k) = c + 1 /\ c \in Nat
        BY <1>4, <1>5, <1>7, <3>2
      <4>2. base + Detection!Rank(k) = Len(detections) + 1
        <5> HIDE DEF c
        <5> QED
          BY <2>3, <4>1
      <4> QED
        BY <2>1, <2>2, <3>2, <4>2
    <3> QED
      BY <1>4, <1>5, <1>7, <3>1, <3>2
  <2> QED
    BY <1>3, <2>4, <2>5 DEF Found
<1> QED
  BY <1>6, <1>7

LEMMA ReadLineStep ==
  ASSUME IngestInv, Detection!ReadLine
  PROVE  IngestInv'
<1>1. PICK l : l = Head(file)
  OBVIOUS
<1>2. /\ status = "ingesting" /\ file # <<>>
      /\ processed' = processed + Detection!Counted(l)
      /\ detections' = IF Detection!Verdict(l) \in Detection!RuleIds
                       THEN Append(detections, Detection!Detection(l)) ELSE detections
      /\ status' = IF Detection!Verdict(l) = Detection!Raised THEN Detection!Broken ELSE status
      /\ file' = Tail(file) /\ UNCHANGED <<given, base>>
  BY <1>1 DEF Detection!ReadLine, Detection!RestOfFile
<1>3. /\ IsList(detections) /\ IsList(given) /\ IsList(file)
      /\ base \in Nat /\ processed \in Nat
      /\ base <= Len(detections) /\ Len(detections) <= processed /\ processed <= MaxSeen
      /\ \A k \in 1 .. Len(detections) : detections[k].rule \in Detection!RuleIds
  BY DEF IngestInv
<1>4. PICK n \in 0 .. Len(given) : Found(n) /\ ReadUpTo(n) /\ RaisedAt(n)
  BY <1>2 DEF IngestInv, Ingesting
<1>5. /\ Len(given) \in Nat /\ Len(file) \in Nat /\ Len(detections) \in Nat
      /\ Len(file) > 0 /\ Head(file) = file[1] /\ IsList(Tail(file)) /\ Len(Tail(file)) = Len(file) - 1
      /\ \A k \in 1 .. Len(file) - 1 : Tail(file)[k] = file[k + 1]
  BY <1>2, <1>3, ListFacts
<1>6. Len(file) = Len(given) - n /\ n < Len(given) /\ n \in Nat
  BY <1>4, <1>5 DEF ReadUpTo
<1>7. l = given[n + 1]
  <2>1. 1 \in 1 .. Len(file)
    BY <1>5
  <2> QED
    BY <1>1, <1>4, <1>5, <2>1 DEF ReadUpTo
<1>8. Found(n + 1)'
  BY <1>2, <1>3, <1>4, <1>6, <1>7, FoundMore
<1>9. ReadUpTo(n + 1)'
  <2>1. Len(file') = Len(given') - (n + 1)
    BY <1>2, <1>5, <1>6
  <2>2. ASSUME NEW k \in 1 .. Len(file') PROVE file'[k] = given'[(n + 1) + k]
    <3>1. k \in 1 .. Len(file) - 1 /\ k + 1 \in 1 .. Len(file) /\ n + (k + 1) = (n + 1) + k
      BY <1>2, <1>5, <1>6
    <3>2. file[k + 1] = given[n + (k + 1)]
      BY <1>4, <3>1 DEF ReadUpTo
    <3> QED
      BY <1>2, <1>5, <3>1, <3>2
  <2>3. processed' + Cardinality(Ahead(n + 1)') <= MaxSeen
    <3>1. Ahead(n + 1)' = Ahead(n + 1)
      BY <1>2 DEF Ahead
    <3>2. PICK c, d \in Nat : c = Cardinality(Ahead(n)) /\ d = Cardinality(Ahead(n + 1))
      BY <1>3, <1>6, AheadFacts
    <3>3. c = d + Detection!Counted(l)
      BY <1>3, <1>6, <1>7, <3>2, AheadFacts, CountedFacts
    <3>4. processed + c <= MaxSeen
      BY <1>4, <3>2 DEF ReadUpTo
    <3>5. Detection!Counted(l) \in Nat /\ MaxSeen \in Nat
      <4>1. Detection!Counted(l) = 0 \/ Detection!Counted(l) = 1
        BY CountedFacts
      <4>2. MaxSeen \in Nat
        BY AnalysisAssumptions DEF Detection!EngineAssumption
      <4> QED
        BY <4>1, <4>2
    <3> QED
      BY <1>2, <1>3, <3>1, <3>2, <3>3, <3>4, <3>5
  <2> QED
    BY <2>1, <2>2, <2>3 DEF ReadUpTo
<1>10. /\ IsList(detections') /\ IsList(given') /\ IsList(file')
       /\ base' \in Nat /\ base' <= Len(detections')
       /\ processed' \in Nat /\ Len(detections') <= processed'
       /\ \A k \in 1 .. Len(detections') : detections'[k].rule \in Detection!RuleIds
  <2>1. IsList(given') /\ IsList(file') /\ base' \in Nat
    BY <1>2, <1>3, <1>5
  <2>2. Detection!Counted(l) \in {0, 1}
    BY CountedFacts
  <2>3. CASE Detection!Verdict(l) \notin Detection!RuleIds
    BY <1>2, <1>3, <1>5, <2>1, <2>2, <2>3
  <2>4. CASE Detection!Verdict(l) \in Detection!RuleIds
    <3>1. Detection!Counted(l) = 1
      BY <2>4, CountedFacts
    <3>2. /\ IsList(detections') /\ Len(detections') = Len(detections) + 1
          /\ detections'[Len(detections) + 1] = Detection!Detection(l)
          /\ \A k \in 1 .. Len(detections) : detections'[k] = detections[k]
      BY <1>2, <1>3, <2>4, ListMore
    <3>3. \A k \in 1 .. Len(detections') : k \in 1 .. Len(detections) \/ k = Len(detections) + 1
      BY <1>5, <3>2
    <3>4. Detection!Detection(l).rule \in Detection!RuleIds
      BY <2>4, DetectionFields
    <3>5. \A k \in 1 .. Len(detections') : detections'[k].rule \in Detection!RuleIds
      BY <1>3, <3>2, <3>3, <3>4
    <3> QED
      BY <1>2, <1>3, <1>5, <2>1, <3>1, <3>2, <3>5
  <2> QED
    BY <2>3, <2>4
<1>11. processed' <= MaxSeen
  <2>1. Cardinality(Ahead(n + 1)') \in Nat
    <3>1. Ahead(n + 1)' = Ahead(n + 1)
      BY <1>2 DEF Ahead
    <3> QED
      BY <1>3, <1>6, <3>1, AheadFacts
  <2>2. processed' + Cardinality(Ahead(n + 1)') <= MaxSeen
    BY <1>9 DEF ReadUpTo
  <2>3. MaxSeen \in Nat
    BY AnalysisAssumptions DEF Detection!EngineAssumption
  <2> QED
    BY <1>10, <2>1, <2>2, <2>3
<1>12. n + 1 \in 0 .. Len(given')
  BY <1>2, <1>5, <1>6
<1>13. status' \in {"ingesting", Detection!Broken} /\ status' # "ingested"
  BY <1>2 DEF Detection!Broken
<1>14. RaisedAt(n + 1)'
  <2>1. \A k \in 1 .. n : Detection!Verdict(given[k]) # Detection!Raised
    BY <1>2, <1>4 DEF RaisedAt, Detection!Broken
  <2>2. status' = Detection!Broken <=> Detection!Verdict(given[n + 1]) = Detection!Raised
    BY <1>2, <1>7 DEF Detection!Broken
  <2>3. \A k \in 1 .. n + 1 : (k \in 1 .. n /\ k # n + 1) \/ k = n + 1
    BY <1>6
  <2>4. given' = given
    BY <1>2
  <2> QED
    BY <2>1, <2>2, <2>3, <2>4 DEF RaisedAt
<1>15. \E m \in 0 .. Len(given') : Found(m)' /\ ReadUpTo(m)' /\ RaisedAt(m)'
  BY <1>8, <1>9, <1>12, <1>14
<1> QED
  BY <1>10, <1>11, <1>13, <1>15 DEF IngestInv

LEMMA ProcessEventStep ==
  ASSUME IngestInv, NEW e, Detection!ProcessEvent(e)
  PROVE  IngestInv'
<1>1. /\ processed < MaxSeen /\ processed' = processed + 1
      /\ status' \in {"idle", Detection!Raised}
      /\ detections' = IF Detection!Verdict(e) \in Detection!RuleIds
                       THEN Append(detections, Detection!Detection(e)) ELSE detections
      /\ UNCHANGED <<file, given, base>>
  BY DEF Detection!ProcessEvent
<1>2. /\ IsList(detections) /\ IsList(given) /\ IsList(file)
      /\ base \in Nat /\ processed \in Nat /\ Len(detections) \in Nat
      /\ base <= Len(detections) /\ Len(detections) <= processed /\ processed <= MaxSeen
      /\ \A k \in 1 .. Len(detections) : detections[k].rule \in Detection!RuleIds
      /\ MaxSeen \in Nat
  BY ListFacts, AnalysisAssumptions DEF IngestInv, Detection!EngineAssumption
<1>3. ~Ingesting' /\ status' # "ingested"
  BY <1>1 DEF Ingesting, Detection!Raised, Detection!Broken
<1>4. CASE Detection!Verdict(e) \notin Detection!RuleIds
  BY <1>1, <1>2, <1>3, <1>4 DEF IngestInv
<1>5. CASE Detection!Verdict(e) \in Detection!RuleIds
  <2>1. /\ IsList(detections') /\ Len(detections') = Len(detections) + 1
        /\ detections'[Len(detections) + 1] = Detection!Detection(e)
        /\ \A k \in 1 .. Len(detections) : detections'[k] = detections[k]
    BY <1>1, <1>2, <1>5, ListMore
  <2>2. \A k \in 1 .. Len(detections') : k \in 1 .. Len(detections) \/ k = Len(detections) + 1
    BY <1>2, <2>1
  <2>3. Detection!Detection(e).rule \in Detection!RuleIds
    BY <1>5, DetectionFields
  <2>4. \A k \in 1 .. Len(detections') : detections'[k].rule \in Detection!RuleIds
    BY <1>2, <2>1, <2>2, <2>3
  <2>5. base' <= Len(detections') /\ Len(detections') <= processed' /\ processed' <= MaxSeen
        /\ processed' \in Nat
    BY <1>1, <1>2, <2>1
  <2> QED
    BY <1>1, <1>2, <1>3, <2>1, <2>4, <2>5 DEF IngestInv
<1> QED
  BY <1>4, <1>5

LEMMA OpenFileStep ==
  ASSUME IngestInv, NEW f \in RawFiles, Detection!OpenFile(f)
  PROVE  IngestInv'
<1>1. /\ status' = "ingesting" /\ file' = f /\ given' = f /\ base' = Len(detections)
      /\ UNCHANGED <<detections, processed>>
      /\ processed + Cardinality({k \in 1 .. Len(f) : ~Detection!Unparsed(f[k])}) <= MaxSeen
  BY DEF Detection!OpenFile, Detection!Cardinality, Cardinality, Detection!IsFiniteSet, IsFiniteSet
<1>2. IsList(f)
  BY AnalysisAssumptions DEF Detection!EngineAssumption, IsList
<1>3. Len(f) \in Nat /\ Len(detections) \in Nat
  BY <1>2, ListFacts DEF IngestInv
<1>4. Ahead(0)' = {k \in 1 .. Len(f) : ~Detection!Unparsed(f[k])}
  BY <1>1, <1>3 DEF Ahead
<1>5. ReadUpTo(0)'
  <2>1. \A k \in 1 .. Len(f) : 0 + k = k
    BY <1>3
  <2> QED
    BY <1>1, <1>3, <1>4, <2>1 DEF ReadUpTo
<1>6. Found(0)'
  <2>1. UpTo(0)' = {}
    BY <1>1, <1>3 DEF UpTo, Detection!Hits
  <2>2. Cardinality(UpTo(0)') = 0
    BY <2>1, FS_EmptySet
  <2>3. Len(detections') = base' + 0
    BY <1>1, <1>3
  <2> QED
    BY <2>1, <2>2, <2>3 DEF Found
<1>7. \E n \in 0 .. Len(given') : Found(n)' /\ ReadUpTo(n)' /\ RaisedAt(n)'
  <2>1. RaisedAt(0)'
    BY DEF RaisedAt
  <2> QED
    BY <1>1, <1>3, <1>5, <1>6, <2>1
<1> QED
  BY <1>1, <1>2, <1>3, <1>7 DEF IngestInv

LEMMA IngestStep ==
  ASSUME IngestInv, [AnalysisNext]_analysisVars
  PROVE  IngestInv'
<1>1. ASSUME UNCHANGED <<detections, processed, file, given, base>>,
             \/ UNCHANGED status
             \/ status = "ingesting" /\ status' = "ingested" /\ file = <<>>
      PROVE  IngestInv'
  <2>1. \A n : (Found(n)' <=> Found(n)) /\ (ReadUpTo(n)' <=> ReadUpTo(n))
    BY <1>1 DEF Found, ReadUpTo, UpTo, Ahead, Detection!Hits, Detection!Rank
  <2>2. \A n : RaisedAt(n)' <=> RaisedAt(n)
    BY <1>1 DEF RaisedAt, Detection!Broken
  <2>3. CASE UNCHANGED status
    BY <1>1, <2>1, <2>2, <2>3 DEF IngestInv, Ingesting
  <2>4. CASE status = "ingesting" /\ status' = "ingested" /\ file = <<>>
    BY <1>1, <2>1, <2>2, <2>4 DEF IngestInv, Ingesting
  <2> QED
    BY <1>1, <2>3, <2>4
<1>2. CASE UNCHANGED detectionVars
  <2>1. UNCHANGED <<detections, processed, file, given, base>> /\ UNCHANGED status
    BY <1>2 DEF detectionVars
  <2> QED
    BY <1>1, <2>1
<1>3. CASE \E r \in Switchable : Detection!SwitchRule(r)
  <2>1. UNCHANGED <<detections, processed, file, given, base>> /\ UNCHANGED status
    BY <1>3 DEF Detection!SwitchRule
  <2> QED
    BY <1>1, <2>1
<1>4. CASE Detection!CloseFile
  <2>1. /\ UNCHANGED <<detections, processed, file, given, base>>
        /\ status = "ingesting" /\ file = <<>> /\ status' = "ingested"
    BY <1>4 DEF Detection!CloseFile
  <2> QED
    BY <1>1, <2>1
<1>5. Detection!Next => IngestInv'
  BY <1>3, <1>4, ReadLineStep, ProcessEventStep, OpenFileStep DEF Detection!Next
<1> QED
  BY <1>2, <1>5 DEF AnalysisNext, analysisVars

LEMMA IngestStarts == AnalysisInit => IngestInv
<1> SUFFICES ASSUME AnalysisInit PROVE IngestInv
  OBVIOUS
<1>1. /\ detections = <<>> /\ processed = 0 /\ status = "idle" /\ file = <<>> /\ given = <<>>
      /\ base = 0
  BY DEF AnalysisInit, Detection!Init
<1>2. IsList(<<>>) /\ Len(<<>>) = 0
  <2>1. <<>> \in Seq({})
    OBVIOUS
  <2> QED
    BY <2>1 DEF IsList
<1>3. MaxSeen \in Nat
  BY AnalysisAssumptions DEF Detection!EngineAssumption
<1> QED
  BY <1>1, <1>2, <1>3 DEF IngestInv, Ingesting, Detection!Broken

\* At every moment of reading any file the engine holds what each line read so far would
\* give alone, in order, and only a line that raises keeps the rest of a file from being
\* read (detection/engine.py:370).
THEOREM IngestionLosesNothing == AnalysisSpec => []IngestLosesNothing
<1>1. AnalysisInit => IngestInv
  BY IngestStarts
<1>2. IngestInv /\ [AnalysisNext]_analysisVars => IngestInv'
  BY IngestStep
<1>3. ASSUME IngestInv PROVE IngestLosesNothing
  <2> SUFFICES ASSUME Ingesting PROVE
               /\ Len(detections) = base + Cardinality(UpTo(Detection!Read))
               /\ \A k \in Detection!Hits : k <= Detection!Read =>
                    LET d == detections[base + Detection!Rank(k)]
                    IN d.rule = Detection!Verdict(given[k]) /\ d.event = given[k]
               /\ RaisedAt(Detection!Read)
               /\ status = "ingested" => Detection!Read = Len(given)
    BY DEF IngestLosesNothing, Detection!IngestLosesNothing, Ingesting, UpTo, RaisedAt,
           Detection!Cardinality, Cardinality, Detection!IsFiniteSet, IsFiniteSet
  <2>1. PICK n \in 0 .. Len(given) : Found(n) /\ ReadUpTo(n) /\ RaisedAt(n)
    BY <1>3 DEF IngestInv
  <2>2. Len(given) \in Nat /\ Len(file) \in Nat /\ Len(<<>>) = 0
    BY <1>3, ListFacts DEF IngestInv
  <2>3. Detection!Read = n
    BY <2>1, <2>2 DEF ReadUpTo, Detection!Read
  <2>4. status = "ingested" => Detection!Read = Len(given)
    BY <1>3, <2>2 DEF IngestInv, Detection!Read
  <2> QED
    BY <2>1, <2>3, <2>4 DEF Found, UpTo
<1> QED
  BY <1>1, <1>2, <1>3, PTL DEF AnalysisSpec
----------------------------------------------------------------------------------
(* The process tree *)

\* A set of positions has a last one, and Max is it.
LEMMA LastPosition ==
  ASSUME NEW n \in Nat, NEW S \in SUBSET (1 .. n), S # {}
  PROVE  Investigation!Max(S) \in S /\ \A j \in S : j <= Investigation!Max(S)
<1> DEFINE D == {n - j : j \in S}
<1>1. D \in SUBSET Nat /\ D # {}
  <2>1. \A j \in S : n - j \in Nat
    OBVIOUS
  <2> QED
    BY <2>1
<1>2. PICK m \in D : \A d \in D : m <= d
  BY <1>1, LeastNatural
<1>3. PICK last \in S : m = n - last
  OBVIOUS
<1>4. \A j \in S : last >= j
  <2>1. \A j \in S : n - last <= n - j
    BY <1>2, <1>3
  <2> QED
    BY <2>1
<1>5. Investigation!Max(S) \in S /\ \A j \in S : Investigation!Max(S) >= j
  BY <1>3, <1>4 DEF Investigation!Max
<1> QED
  BY <1>5

\* A pid is that of the process that was alive when a child of it was forked, and of none
\* that started between the two.
ProcessInv ==
  /\ IsList(procs) /\ IsList(arrived)
  /\ alive \subseteq 1 .. Len(procs) /\ sent \subseteq 1 .. Len(procs) /\ told \subseteq sent
  /\ \A k \in 1 .. Len(arrived) : arrived[k] \in sent
  /\ \A p \in 1 .. Len(procs) :
       /\ procs[p].pid \in Pids /\ procs[p].parent \in 0 .. p - 1
       /\ procs[p].parent # 0 =>
            \A r \in 1 .. p : procs[p].parent < r => procs[r].pid # procs[procs[p].parent].pid
  /\ \A a \in alive, r \in 1 .. Len(procs) : a < r => procs[r].pid # procs[a].pid

LEMMA ForkStep ==
  ASSUME ProcessInv,
         NEW p_pod, NEW pid \in Pids, NEW parent \in {0} \cup alive, NEW detected \in BOOLEAN,
         NEW names \in BOOLEAN, Investigation!Fork(p_pod, pid, parent, detected, names)
  PROVE  ProcessInv'
<1>1. PICK n \in Nat : n = Len(procs)
  BY ListFacts DEF ProcessInv
<1> DEFINE new == [pod |-> p_pod, pid |-> pid, parent |-> parent]
<1>2. /\ \A a \in alive : procs[a].pid # pid
      /\ procs' = Append(procs, new) /\ alive' = alive \cup {n + 1}
      /\ sent' \in {sent, sent \cup {n + 1}} /\ told' \subseteq sent' /\ arrived' = arrived
  <2>1. told \subseteq sent
    BY DEF ProcessInv
  <2> QED
    BY <1>1, <2>1 DEF Investigation!Fork
<1>3. new.pid = pid /\ new.parent = parent
  OBVIOUS
<1> HIDE DEF new
<1>4. /\ IsList(procs') /\ Len(procs') = n + 1 /\ procs'[n + 1] = new
      /\ \A k \in 1 .. n : procs'[k] = procs[k]
  BY <1>1, <1>2, ListMore DEF ProcessInv
<1>5. parent \in 0 .. n /\ alive \subseteq 1 .. n /\ sent \subseteq 1 .. n
  BY <1>1 DEF ProcessInv
<1>6. ASSUME NEW p \in 1 .. n + 1
      PROVE  /\ procs'[p].pid \in Pids /\ procs'[p].parent \in 0 .. p - 1
             /\ procs'[p].parent # 0 =>
                  \A r \in 1 .. p :
                    procs'[p].parent < r => procs'[r].pid # procs'[procs'[p].parent].pid
  <2>1. CASE p \in 1 .. n
    <3>1. /\ procs[p].pid \in Pids /\ procs[p].parent \in 0 .. p - 1
          /\ procs[p].parent # 0 =>
               \A r \in 1 .. p : procs[p].parent < r => procs[r].pid # procs[procs[p].parent].pid
      BY <1>1, <2>1 DEF ProcessInv
    <3>2. procs'[p] = procs[p] /\ \A r \in 1 .. p : procs'[r] = procs[r]
      BY <1>4, <2>1
    <3>3. procs[p].parent # 0 => procs'[procs[p].parent] = procs[procs[p].parent]
      BY <1>4, <2>1, <3>1
    <3> QED
      BY <3>1, <3>2, <3>3
  <2>2. CASE p = n + 1
    <3>1. procs'[p].pid = pid /\ procs'[p].parent = parent
      BY <1>3, <1>4, <2>2
    <3>2. ASSUME parent # 0, NEW r \in 1 .. p, parent < r
          PROVE  procs'[r].pid # procs'[parent].pid
      <4>1. parent \in alive /\ parent \in 1 .. n /\ procs'[parent] = procs[parent]
        BY <1>4, <1>5, <3>2
      <4>2. CASE r = n + 1
        BY <1>2, <1>3, <1>4, <4>1, <4>2
      <4>3. CASE r # n + 1
        <5>1. r \in 1 .. n /\ procs'[r] = procs[r]
          BY <1>4, <2>2, <4>3
        <5> QED
          BY <1>1, <3>2, <4>1, <5>1 DEF ProcessInv
      <4> QED
        BY <4>2, <4>3
    <3>3. parent \in 0 .. p - 1
      BY <1>5, <2>2
    <3> QED
      BY <3>1, <3>2, <3>3
  <2> QED
    BY <2>1, <2>2
<1>7. ASSUME NEW a \in alive', NEW r \in 1 .. n + 1, a < r
      PROVE  procs'[r].pid # procs'[a].pid
  <2>1. a \in alive /\ a \in 1 .. n /\ procs'[a] = procs[a]
    <3>1. a \in alive \/ a = n + 1
      BY <1>2, <1>7
    <3>2. CASE a = n + 1
      BY <1>7, <3>2
    <3>3. CASE a \in alive
      BY <1>4, <1>5, <3>3
    <3> QED
      BY <3>1, <3>2, <3>3
  <2>2. CASE r = n + 1
    BY <1>2, <1>3, <1>4, <2>1, <2>2
  <2>3. CASE r # n + 1
    <3>1. r \in 1 .. n /\ procs'[r] = procs[r]
      BY <1>4, <2>3
    <3> QED
      BY <1>1, <1>7, <2>1, <3>1 DEF ProcessInv
  <2> QED
    BY <2>2, <2>3
<1>8. /\ alive' \subseteq 1 .. n + 1 /\ sent' \subseteq 1 .. n + 1 /\ told' \subseteq sent'
      /\ \A k \in 1 .. Len(arrived') : arrived'[k] \in sent'
  BY <1>2, <1>5 DEF ProcessInv
<1>9. IsList(arrived')
  BY <1>2 DEF ProcessInv
<1> QED
  BY <1>4, <1>6, <1>7, <1>8, <1>9 DEF ProcessInv

LEMMA ProcessStep ==
  ASSUME ProcessInv, [AnalysisNext]_analysisVars
  PROVE  ProcessInv'
<1>1. CASE UNCHANGED investigationVars
  <2>1. procs' = procs /\ alive' = alive /\ sent' = sent /\ told' = told /\ arrived' = arrived
    BY <1>1 DEF investigationVars
  <2> QED
    BY <2>1 DEF ProcessInv
<1>2. ASSUME NEW p, Investigation!Exit(p) PROVE ProcessInv'
  <2>1. /\ alive' \subseteq alive /\ procs' = procs /\ sent' = sent /\ told' = told
        /\ arrived' = arrived
    BY <1>2 DEF Investigation!Exit
  <2> QED
    BY <2>1 DEF ProcessInv
<1>3. ASSUME NEW p, Investigation!Arrive(p) PROVE ProcessInv'
  <2>1. /\ p \in sent /\ arrived' = Append(arrived, p)
        /\ alive' = alive /\ procs' = procs /\ sent' = sent /\ told' = told
    BY <1>3 DEF Investigation!Arrive
  <2>2. IsList(arrived) /\ Len(arrived) \in Nat
    BY ListFacts DEF ProcessInv
  <2>3. /\ IsList(arrived') /\ Len(arrived') = Len(arrived) + 1
        /\ arrived'[Len(arrived) + 1] = p
        /\ \A k \in 1 .. Len(arrived) : arrived'[k] = arrived[k]
    BY <2>1, <2>2, ListMore
  <2>4. \A k \in 1 .. Len(arrived') : k \in 1 .. Len(arrived) \/ k = Len(arrived) + 1
    BY <2>2, <2>3
  <2>5. \A k \in 1 .. Len(arrived') : arrived'[k] \in sent
    BY <2>1, <2>3, <2>4 DEF ProcessInv
  <2> QED
    BY <2>1, <2>3, <2>5 DEF ProcessInv
<1>4. Investigation!Next => ProcessInv'
  BY <1>2, <1>3, ForkStep DEF Investigation!Next
<1> QED
  BY <1>1, <1>4 DEF AnalysisNext, analysisVars

LEMMA ProcessesStart == AnalysisInit => ProcessInv
<1> SUFFICES ASSUME AnalysisInit PROVE ProcessInv
  OBVIOUS
<1>1. procs = <<>> /\ alive = {} /\ sent = {} /\ told = {} /\ arrived = <<>>
  BY DEF AnalysisInit, Investigation!Init
<1>2. IsList(<<>>) /\ Len(<<>>) = 0
  <2>1. <<>> \in Seq({})
    OBVIOUS
  <2> QED
    BY <2>1 DEF IsList
<1> QED
  BY <1>1, <1>2 DEF ProcessInv

\* The records that a record may hang under.
Earlier(k) ==
  {j \in Investigation!Records :
     j <= k /\ Investigation!Pid(arrived[j]) = Investigation!Ppid(arrived[k])}

\* A record hangs under the last of them, which is never the record itself.
LEMMA ParentFacts ==
  ASSUME ProcessInv, NEW k \in Investigation!Records
  PROVE  /\ k \in 1 .. Len(arrived) /\ Len(arrived) \in Nat
         /\ arrived[k] \in 1 .. Len(procs) /\ Len(procs) \in Nat
         /\ k \notin Earlier(k)
         /\ Earlier(k) = {} => Investigation!Parent(k) = 0
         /\ Earlier(k) # {} =>
              /\ Investigation!Parent(k) \in Earlier(k)
              /\ \A j \in Earlier(k) : j <= Investigation!Parent(k)
         /\ Investigation!Parent(k) \in 0 .. k - 1
<1>1. PICK n \in Nat : n = Len(arrived)
  BY ListFacts DEF ProcessInv
<1>2. k \in 1 .. n /\ Earlier(k) \subseteq 1 .. n
  BY <1>1 DEF Earlier, Investigation!Records
<1>3. arrived[k] \in 1 .. Len(procs) /\ Len(procs) \in Nat
  BY <1>1, <1>2, ListFacts DEF ProcessInv
<1>4. k \notin Earlier(k)
  <2>1. PICK p \in 1 .. Len(procs) : p = arrived[k]
    BY <1>3
  <2>2. /\ procs[p].pid \in Pids /\ procs[p].parent \in 0 .. p - 1
        /\ procs[p].parent # 0 =>
             \A r \in 1 .. p : procs[p].parent < r => procs[r].pid # procs[procs[p].parent].pid
    BY DEF ProcessInv
  <2>3. procs[p].parent < p /\ p \in 1 .. p
    BY <1>3, <2>2
  <2>4. 1 \notin Pids
    BY AnalysisAssumptions DEF Investigation!InvestigationAssumption
  <2>5. Investigation!Pid(p) # Investigation!Ppid(p)
    BY <2>2, <2>3, <2>4 DEF Investigation!Pid, Investigation!Ppid
  <2> QED
    BY <2>1, <2>5 DEF Earlier
<1>5. Investigation!Parent(k) = IF Earlier(k) = {} THEN 0 ELSE Investigation!Max(Earlier(k))
  BY DEF Investigation!Parent, Earlier
<1>6. Earlier(k) # {} =>
        /\ Investigation!Parent(k) \in Earlier(k)
        /\ \A j \in Earlier(k) : j <= Investigation!Parent(k)
  BY <1>2, <1>5, LastPosition
<1>7. Investigation!Parent(k) \in 0 .. k - 1
  <2>1. CASE Earlier(k) = {}
    BY <1>2, <1>5, <2>1
  <2>2. CASE Earlier(k) # {}
    <3>1. Investigation!Parent(k) \in 1 .. n /\ Investigation!Parent(k) <= k
      BY <1>2, <1>6, <2>2 DEF Earlier
    <3>2. Investigation!Parent(k) # k
      BY <1>4, <1>6, <2>2
    <3> QED
      BY <1>2, <3>1, <3>2
  <2> QED
    BY <2>1, <2>2
<1> QED
  BY <1>1, <1>2, <1>3, <1>4, <1>5, <1>6, <1>7

\* A record that names the pid of a parent q hangs under q if that is recorded, and else under
\* the last one before q that had its pid, or the entrypoint.
LEMMA NamedParent ==
  ASSUME ProcessInv, Investigation!InOrder, NEW k \in Investigation!Records,
         NEW p \in 1 .. Len(procs), p = arrived[k],
         NEW q, q = procs[p].parent, q # 0, Investigation!Ppid(p) = procs[q].pid
  PROVE  LET node == Investigation!Shown(k)
         IN /\ q \in Investigation!Recorded => node = q
            /\ node \notin {0, q} => node < q /\ Investigation!Pid(node) = procs[q].pid
<1>1. /\ k \in 1 .. Len(arrived) /\ Len(arrived) \in Nat /\ Len(procs) \in Nat
      /\ Earlier(k) = {} => Investigation!Parent(k) = 0
      /\ Earlier(k) # {} =>
           /\ Investigation!Parent(k) \in Earlier(k)
           /\ \A j \in Earlier(k) : j <= Investigation!Parent(k)
  BY ParentFacts
<1>2. q \in 1 .. p - 1 /\ \A r \in 1 .. p : q < r => procs[r].pid # procs[q].pid
  BY DEF ProcessInv
<1>3. q \in 1 .. Len(procs) /\ q < p
  BY <1>1, <1>2
<1>4. \A i \in Investigation!Records : i \in 1 .. Len(arrived) /\ arrived[i] \in 1 .. Len(procs)
  BY ParentFacts
<1>5. PICK m : m = Investigation!Parent(k)
  OBVIOUS
<1>6. CASE Earlier(k) # {}
  <2>1. /\ m \in Investigation!Records /\ m <= k /\ procs[arrived[m]].pid = procs[q].pid
        /\ \A j \in Earlier(k) : j <= m
    BY <1>1, <1>5, <1>6 DEF Earlier, Investigation!Pid
  <2>2. PICK a \in 1 .. Len(procs) : a = arrived[m]
    BY <1>4, <2>1
  <2>3. m \in 1 .. Len(arrived)
    BY <1>4, <2>1
  <2>4. Investigation!Shown(k) = a
    <3>1. m # 0
      BY <1>1, <2>3
    <3> QED
      BY <1>5, <2>2, <3>1 DEF Investigation!Shown
  <2>5. a <= p
    <3>1. CASE m = k
      BY <1>1, <2>2, <3>1
    <3>2. CASE m < k
      <4>1. a < p
        BY <2>1, <2>2, <3>2 DEF Investigation!InOrder
      <4> QED
        BY <1>1, <4>1
    <3> QED
      BY <1>1, <2>1, <2>3, <3>1, <3>2
  <2>6. ~(q < a)
    <3>1. a \in 1 .. p
      BY <1>1, <2>5
    <3> QED
      BY <1>2, <2>1, <2>2, <3>1
  <2>7. a # q => a < q
    BY <1>1, <1>3, <2>6
  <2>8. ASSUME q \in Investigation!Recorded PROVE a = q
    <3>1. PICK j \in Investigation!Records : q = arrived[j]
      BY <2>8 DEF Investigation!Recorded
    <3>2. j \in 1 .. Len(arrived)
      BY <1>4, <3>1
    <3>3. j <= k
      <4>1. k < j => p < q
        BY <3>1 DEF Investigation!InOrder
      <4> QED
        BY <1>1, <1>3, <3>2, <4>1
    <3>4. j <= m
      BY <2>1, <3>1, <3>3 DEF Earlier, Investigation!Pid
    <3>5. j < m => q < a
      BY <2>1, <2>2, <3>1 DEF Investigation!InOrder
    <3>6. j = m
      BY <1>1, <2>3, <2>6, <3>2, <3>4, <3>5
    <3> QED
      BY <2>2, <3>1, <3>6
  <2>9. Investigation!Pid(a) = procs[q].pid
    BY <2>1, <2>2 DEF Investigation!Pid
  <2> QED
    BY <2>4, <2>7, <2>8, <2>9
<1>7. CASE Earlier(k) = {}
  <2>1. Investigation!Shown(k) = 0
    BY <1>1, <1>7 DEF Investigation!Shown
  <2>2. q \notin Investigation!Recorded
    <3> SUFFICES ASSUME q \in Investigation!Recorded PROVE FALSE
      OBVIOUS
    <3>1. PICK j \in Investigation!Records : q = arrived[j]
      BY DEF Investigation!Recorded
    <3>2. j \in 1 .. Len(arrived)
      BY <1>4, <3>1
    <3>3. k < j => p < q
      BY <3>1 DEF Investigation!InOrder
    <3>4. j <= k
      BY <1>1, <1>3, <3>2, <3>3
    <3>5. j \in Earlier(k)
      BY <3>1, <3>4 DEF Earlier, Investigation!Pid
    <3> QED
      BY <1>7, <3>5
  <2> QED
    BY <2>1, <2>2
<1> QED
  BY <1>6, <1>7

\* A record that names no parent, or the entrypoint, hangs under the entrypoint.
LEMMA UnnamedParent ==
  ASSUME ProcessInv, NEW k \in Investigation!Records, Investigation!Ppid(arrived[k]) = 1
  PROVE  Investigation!Shown(k) = 0
<1>1. ASSUME NEW j \in Earlier(k) PROVE FALSE
  <2>1. j \in Investigation!Records /\ Investigation!Pid(arrived[j]) = 1
    BY DEF Earlier
  <2>2. arrived[j] \in 1 .. Len(procs)
    BY <2>1, ParentFacts
  <2>3. procs[arrived[j]].pid \in Pids
    BY <2>2 DEF ProcessInv
  <2> QED
    BY <2>1, <2>3, AnalysisAssumptions DEF Investigation!Pid, Investigation!InvestigationAssumption
<1>2. Investigation!Parent(k) = 0
  BY <1>1, ParentFacts
<1> QED
  BY <1>2 DEF Investigation!Shown

\* Whichever records name the pid of their parents and however often one is used again:
\* records in order hang under the parents they name if those are recorded too, and under a
\* stranger only if not and the stranger had the parent's pid before it
\* (reporting/investigation.py:191).
THEOREM TreesAreReal == AnalysisSpec => []TreeIsReal
<1>1. ProcessInv /\ [AnalysisNext]_analysisVars => ProcessInv'
  BY ProcessStep
<1>2. ASSUME ProcessInv PROVE TreeIsReal
  <2> SUFFICES ASSUME Investigation!InOrder, NEW k \in Investigation!Records,
                      NEW p, p = arrived[k], NEW q, q = procs[p].parent
               PROVE  LET node == Investigation!Shown(k)
                      IN /\ p \notin told => node = 0
                         /\ p \in told /\ q \in Investigation!Recorded \cup {0} => node = q
                         /\ node \notin {0, q} =>
                              /\ q \notin Investigation!Recorded
                              /\ node < q /\ Investigation!Pid(node) = Investigation!Pid(q)
    BY DEF TreeIsReal, Investigation!TreeIsReal
  <2>1. p \in 1 .. Len(procs)
    BY <1>2, ParentFacts
  <2>2. CASE p \notin told \/ q = 0
    <3>1. Investigation!Ppid(p) = 1
      BY <2>2 DEF Investigation!Ppid
    <3>2. Investigation!Shown(k) = 0
      BY <1>2, <3>1, UnnamedParent
    <3> QED
      BY <2>2, <3>2
  <2>3. CASE p \in told /\ q # 0
    <3>1. Investigation!Ppid(p) = procs[q].pid
      BY <2>3 DEF Investigation!Ppid, Investigation!Pid
    <3>2. /\ q \in Investigation!Recorded => Investigation!Shown(k) = q
          /\ Investigation!Shown(k) \notin {0, q} =>
               /\ Investigation!Shown(k) < q
               /\ Investigation!Pid(Investigation!Shown(k)) = procs[q].pid
      BY <1>2, <2>1, <2>3, <3>1, NamedParent
    <3> QED
      BY <2>3, <3>2 DEF Investigation!Pid
  <2> QED
    BY <2>2, <2>3
<1> QED
  BY <1>1, <1>2, ProcessesStart, PTL DEF AnalysisSpec
----------------------------------------------------------------------------------
(* The evidence package *)

\* An event is labelled live only if one of that id was published so.
Backed(e) ==
  e.mode = "live" =>
    \E in \in Published : \E item \in Package!Elements(in.items) : item.id = e.id /\ item.mode = "live"
AllBacked(es) == \A k \in 1 .. Len(es) : Backed(es[k])

Complete(name) ==
  name \in DOMAIN files /\ files[name] = [events |-> loaded, whole |-> TRUE]

PackageInv ==
  /\ input \in Published \cup {Package!Absent}
  /\ AllBacked(loaded)
  /\ DOMAIN files \subseteq Package!Elements(Package!Files)
  /\ \A f \in DOMAIN files : AllBacked(files[f].events)
  /\ phase = "write" =>
       /\ loaded # <<>> /\ next \in 1 .. 7
       /\ \A k \in 1 .. 7 : k < next => Complete(Package!Files[k])
  /\ phase = "done" => loaded # <<>> /\ \A k \in 1 .. 7 : Complete(Package!Files[k])

\* The events that a file is converted to before the first item that raises are some of its
\* items, under their own labels.
LEMMA PrefixFacts ==
  ASSUME NEW T, NEW items \in Seq(T)
  PROVE  \E n \in 0 .. Len(items) :
           /\ Package!Prefix(items) = [k \in 1 .. n |-> Package!Convert(items[k])]
           /\ Package!Prefix(items) \in Seq({Package!Convert(items[k]) : k \in 1 .. n})
           /\ Len(Package!Prefix(items)) = n
<1> DEFINE bad == {k \in 1 .. Len(items) : ~items[k].ok}
           n   == IF bad = {} THEN Len(items) ELSE (CHOOSE k \in bad : \A m \in bad : k <= m) - 1
<1>1. n \in 0 .. Len(items)
  <2>1. Len(items) \in Nat /\ bad \in SUBSET Nat
    OBVIOUS
  <2>2. CASE bad = {}
    BY <2>1, <2>2
  <2>3. CASE bad # {}
    <3>1. PICK c \in bad : c = (CHOOSE k \in bad : \A m \in bad : k <= m)
      BY <2>1, <2>3, LeastNatural
    <3>2. c \in 1 .. Len(items)
      OBVIOUS
    <3>3. n = c - 1
      BY <2>3, <3>1
    <3> HIDE DEF n, bad
    <3> QED
      BY <2>1, <3>2, <3>3
  <2> QED
    BY <2>2, <2>3
<1>2. Package!Prefix(items) = [k \in 1 .. n |-> Package!Convert(items[k])]
  BY DEF Package!Prefix
<1> HIDE DEF n
<1>3. [k \in 1 .. n |-> Package!Convert(items[k])] \in Seq({Package!Convert(items[k]) : k \in 1 .. n})
      /\ Len([k \in 1 .. n |-> Package!Convert(items[k])]) = n
  BY <1>1
<1> QED
  BY <1>1, <1>2, <1>3

\* Loading gives at least one event, and labels none of them live that was not published so.
LEMMA LoadFacts ==
  ASSUME NEW in \in Published \cup {Package!Absent}
  PROVE  Package!LoadOrCreate(in) # <<>> /\ AllBacked(Package!LoadOrCreate(in))
<1>1. PICK T : in.items \in Seq(T)
  <2>1. CASE in \in Published
    BY <2>1, AnalysisAssumptions DEF Package!PackageAssumption
  <2>2. CASE in = Package!Absent
    <3>1. in.items = <<>>
      BY <2>2 DEF Package!Absent, Package!Input
    <3> QED
      BY <3>1
  <2> QED
    BY <2>1, <2>2
<1> DEFINE items == in.items
           pre   == Package!Prefix(items)
<1>2. PICK n \in 0 .. Len(items) :
        /\ pre = [k \in 1 .. n |-> Package!Convert(items[k])]
        /\ pre \in Seq({Package!Convert(items[k]) : k \in 1 .. n}) /\ Len(pre) = n
  BY <1>1, PrefixFacts
<1>3. Len(items) \in Nat
  BY <1>1
<1>4. ASSUME NEW k \in 1 .. n PROVE Backed(pre[k])
  <2>1. pre[k] = [id |-> items[k].id, mode |-> items[k].mode]
    BY <1>2 DEF Package!Convert, Package!Event
  <2>2. pre[k].id = items[k].id /\ pre[k].mode = items[k].mode
    BY <2>1
  <2>3. k \in 1 .. Len(items)
    BY <1>3
  <2>4. in \in Published
    <3>1. in = Package!Absent => Len(items) = 0
      BY DEF Package!Absent, Package!Input
    <3> QED
      BY <1>3, <2>3, <3>1
  <2>5. items[k] \in Package!Elements(items)
    BY <2>3 DEF Package!Elements
  <2> QED
    BY <2>2, <2>4, <2>5 DEF Backed
<1> DEFINE basis == Package!Baseline
<1>5. /\ basis \in Seq({Package!Event("baseline", "unknown")}) /\ Len(basis) = 4
      /\ \A k \in 1 .. 4 : basis[k].mode = "unknown"
  BY DEF Package!Baseline, Package!Event
<1>6. \A k \in 1 .. 4 : Backed(basis[k])
  BY <1>5 DEF Backed
<1> DEFINE S == {Package!Convert(items[k]) : k \in 1 .. n} \cup {Package!Event("baseline", "unknown")}
<1> HIDE DEF basis, pre, items
<1>7. /\ pre \o basis \in Seq(S) /\ Len(pre \o basis) = n + 4
      /\ \A k \in 1 .. n + 4 : (pre \o basis)[k] = IF k <= n THEN pre[k] ELSE basis[k - n]
  <2>1. pre \in Seq(S) /\ basis \in Seq(S)
    BY <1>2, <1>5
  <2>2. n \in Nat /\ Len(pre) = n /\ Len(basis) = 4
    BY <1>2, <1>5
  <2> HIDE DEF S
  <2>3. /\ pre \o basis \in Seq(S) /\ Len(pre \o basis) = Len(pre) + Len(basis)
        /\ \A k \in 1 .. Len(pre) + Len(basis) :
             (pre \o basis)[k] = IF k <= Len(pre) THEN pre[k] ELSE basis[k - Len(pre)]
    BY <2>1
  <2> QED
    BY <2>2, <2>3
<1>8. AllBacked(pre \o basis) /\ pre \o basis # <<>>
  <2>1. ASSUME NEW k \in 1 .. n + 4 PROVE Backed((pre \o basis)[k])
    <3>1. CASE k <= n
      <4>1. k \in 1 .. n /\ (pre \o basis)[k] = pre[k]
        BY <1>7, <3>1
      <4> QED
        BY <1>4, <4>1
    <3>2. CASE ~(k <= n)
      <4>1. k - n \in 1 .. 4 /\ (pre \o basis)[k] = basis[k - n]
        BY <1>7, <3>2
      <4> QED
        BY <1>6, <4>1
    <3> QED
      BY <3>1, <3>2
  <2>2. n \in Nat /\ Len(pre \o basis) = n + 4
    BY <1>2, <1>7
  <2>3. Len(pre \o basis) # 0 /\ Len(<<>>) = 0
    BY <2>2
  <2>4. pre \o basis # <<>>
    BY <2>3
  <2>5. AllBacked(pre \o basis)
    BY <2>1, <2>2 DEF AllBacked
  <2> QED
    BY <2>4, <2>5
<1>9. ASSUME items # <<>>, Len(pre) = Len(items)
      PROVE  AllBacked(pre) /\ pre # <<>>
  <2>1. n > 0
    BY <1>1, <1>2, <1>9 DEF items
  <2>2. n \in Nat /\ Len(pre) = n
    BY <1>2
  <2>3. pre # <<>>
    <3>1. Len(<<>>) = 0
      OBVIOUS
    <3> QED
      BY <2>1, <2>2, <3>1
  <2>4. AllBacked(pre)
    BY <1>4, <2>2 DEF AllBacked
  <2> QED
    BY <2>3, <2>4
<1>10. \/ Package!LoadOrCreate(in) = pre \o basis
       \/ items # <<>> /\ Len(pre) = Len(items) /\ Package!LoadOrCreate(in) = pre
  BY DEF Package!LoadOrCreate, pre, basis, items
<1> QED
  BY <1>8, <1>9, <1>10

LEMMA FileNames ==
  /\ Len(Package!Files) = 7
  /\ \A j, k \in 1 .. 7 : Package!Files[j] = Package!Files[k] => j = k
  /\ \A k \in 1 .. 7 : Package!Files[k] \in Package!Elements(Package!Files)
BY DEF Package!Files, Package!Elements

\* What is put into a file, and that the others stay.
LEMMA PutFacts ==
  ASSUME NEW f, NEW content, Package!Put(f, content)
  PROVE  /\ DOMAIN files' = DOMAIN files \cup {f}
         /\ files'[f] = content
         /\ \A g \in DOMAIN files : g # f => files'[g] = files[g]
BY DEF Package!Put

LEMMA PackageWrites ==
  ASSUME PackageInv, Package!Truncate \/ Package!Fill
  PROVE  PackageInv'
<1>1. /\ phase = "write" /\ loaded' = loaded /\ input' = input
      /\ loaded # <<>> /\ next \in 1 .. 7
      /\ \A k \in 1 .. 7 : k < next => Complete(Package!Files[k])
      /\ Package!Files[next] \in Package!Elements(Package!Files)
  BY FileNames DEF PackageInv, Package!Truncate, Package!Fill
<1>2. CASE Package!Truncate
  <2> DEFINE empty == [events |-> <<>>, whole |-> FALSE]
  <2>1. /\ DOMAIN files' = DOMAIN files \cup {Package!Files[next]}
        /\ files'[Package!Files[next]] = empty
        /\ \A g \in DOMAIN files : g # Package!Files[next] => files'[g] = files[g]
        /\ phase' = phase /\ next' = next
    BY <1>2, PutFacts DEF Package!Truncate
  <2>2. empty.events = <<>> /\ AllBacked(<<>>)
    BY DEF AllBacked
  <2>3. ASSUME NEW k \in 1 .. 7, k < next PROVE Complete(Package!Files[k])'
    <3>1. Package!Files[k] # Package!Files[next]
      BY <1>1, <2>3, FileNames
    <3> QED
      BY <1>1, <2>1, <2>3, <3>1 DEF Complete
  <2>4. \A f \in DOMAIN files' : AllBacked(files'[f].events)
    BY <2>1, <2>2 DEF PackageInv
  <2> QED
    BY <1>1, <2>1, <2>3, <2>4 DEF PackageInv, AllBacked
<1>3. CASE Package!Fill
  <2> DEFINE full == [events |-> loaded, whole |-> TRUE]
  <2>1. /\ DOMAIN files' = DOMAIN files \cup {Package!Files[next]}
        /\ files'[Package!Files[next]] = full
        /\ \A g \in DOMAIN files : g # Package!Files[next] => files'[g] = files[g]
        /\ next' = IF next < 7 THEN next + 1 ELSE next
        /\ phase' = IF next < 7 THEN "write" ELSE "done"
    BY <1>3, PutFacts, FileNames DEF Package!Fill
  <2>2. full.events = loaded
    OBVIOUS
  <2>3. ASSUME NEW k \in 1 .. 7, k < next + 1 PROVE Complete(Package!Files[k])'
    <3>1. CASE Package!Files[k] = Package!Files[next]
      BY <1>1, <2>1, <3>1 DEF Complete
    <3>2. CASE Package!Files[k] # Package!Files[next]
      BY <1>1, <2>1, <2>3, <3>2 DEF Complete
    <3> QED
      BY <3>1, <3>2
  <2>4. \A f \in DOMAIN files' : AllBacked(files'[f].events)
    BY <2>1, <2>2 DEF PackageInv
  <2>5. CASE next < 7
    BY <1>1, <2>1, <2>3, <2>4, <2>5 DEF PackageInv, AllBacked
  <2>6. CASE ~(next < 7)
    <3>1. next = 7 /\ phase' = "done"
      BY <1>1, <2>1, <2>6
    <3>2. \A k \in 1 .. 7 : Complete(Package!Files[k])'
      BY <2>3, <3>1
    <3> QED
      BY <1>1, <2>1, <2>4, <3>1, <3>2 DEF PackageInv, AllBacked
  <2> QED
    BY <2>5, <2>6
<1> QED
  BY <1>2, <1>3

LEMMA PackageStep ==
  ASSUME PackageInv, [AnalysisNext]_analysisVars
  PROVE  PackageInv'
<1>1. CASE UNCHANGED packageVars
  BY <1>1 DEF packageVars, PackageInv, Complete, AllBacked
<1>2. ASSUME Package!Publish \/ (\E capture \in BOOLEAN : Package!Begin(capture)) \/ Package!Capture
      PROVE  PackageInv'
  <2>1. /\ input' \in Published \cup {Package!Absent} /\ loaded' = loaded /\ files' = files
        /\ next' = next
        /\ phase' = phase \/ phase' \in {"telemetry", "load"}
    BY <1>2 DEF Package!Publish, Package!Begin, Package!Capture, PackageInv
  <2> QED
    BY <2>1 DEF PackageInv, Complete, AllBacked
<1>3. CASE Package!Load
  <2>1. /\ loaded' = Package!LoadOrCreate(input) /\ files' = files /\ input' = input
        /\ next' = 1 /\ phase' = "write" /\ input \in Published \cup {Package!Absent}
    BY <1>3 DEF Package!Load, PackageInv
  <2>2. loaded' # <<>> /\ AllBacked(loaded')
    BY <2>1, LoadFacts
  <2>3. \A k \in 1 .. 7 : ~(k < 1)
    OBVIOUS
  <2> QED
    BY <2>1, <2>2, <2>3 DEF PackageInv, AllBacked
<1>4. CASE Package!Truncate \/ Package!Fill
  BY <1>4, PackageWrites
<1>5. CASE Package!Crash
  <2>1. loaded' = <<>> /\ files' = files /\ input' = input /\ phase' = "idle"
    BY <1>5 DEF Package!Crash
  <2>2. AllBacked(<<>>)
    BY DEF AllBacked
  <2> QED
    BY <2>1, <2>2 DEF PackageInv, AllBacked
<1>6. UNCHANGED packageVars \/ Package!Next
  BY DEF AnalysisNext, analysisVars
<1> QED
  BY <1>1, <1>2, <1>3, <1>4, <1>5, <1>6 DEF Package!Next

LEMMA PackageStarts == AnalysisInit => PackageInv
<1> SUFFICES ASSUME AnalysisInit PROVE PackageInv
  OBVIOUS
<1>1. input = Package!Absent /\ loaded = <<>> /\ files = <<>> /\ phase = "idle"
  BY DEF AnalysisInit, Package!Init
<1>2. DOMAIN files = {} /\ AllBacked(loaded)
  BY <1>1 DEF AllBacked
<1> QED
  BY <1>1, <1>2 DEF PackageInv

\* A finished package is seven whole files of the same events, whatever was published and
\* whoever was killed meanwhile, and no event in any file is called live that was not
\* published so (reporting/evidence.py:82, 152, 160).
THEOREM PackagesAreHonest == AnalysisSpec => []PackageHonest
<1>1. AnalysisInit => PackageInv
  BY PackageStarts
<1>2. PackageInv /\ [AnalysisNext]_analysisVars => PackageInv'
  BY PackageStep
<1>3. ASSUME PackageInv PROVE Package!PackageWhole
  <2> SUFFICES ASSUME phase = "done"
               PROVE  /\ DOMAIN files = Package!Elements(Package!Files)
                      /\ \E es \in {files[f].events : f \in DOMAIN files} :
                           es # <<>> /\ \A f \in DOMAIN files : files[f] = [events |-> es, whole |-> TRUE]
    BY DEF Package!PackageWhole
  <2>1. /\ loaded # <<>> /\ \A k \in 1 .. 7 : Complete(Package!Files[k])
        /\ DOMAIN files \subseteq Package!Elements(Package!Files)
    BY <1>3 DEF PackageInv
  <2>2. Package!Elements(Package!Files) = {Package!Files[k] : k \in 1 .. 7}
    BY FileNames DEF Package!Elements
  <2>3. DOMAIN files = Package!Elements(Package!Files)
        /\ \A f \in DOMAIN files : files[f] = [events |-> loaded, whole |-> TRUE]
    <3>1. ASSUME NEW f \in Package!Elements(Package!Files) PROVE Complete(f)
      <4>1. PICK k \in 1 .. 7 : f = Package!Files[k]
        BY <2>2
      <4> QED
        BY <2>1, <4>1
    <3> QED
      BY <2>1, <3>1 DEF Complete
  <2>4. Package!Files[1] \in DOMAIN files
    BY <2>1 DEF Complete
  <2>5. files[Package!Files[1]].events = loaded
    BY <2>3, <2>4
  <2> QED
    BY <2>1, <2>3, <2>4, <2>5
<1>4. ASSUME PackageInv PROVE Package!NeverRelabelled
  BY <1>4 DEF PackageInv, AllBacked, Backed, Package!NeverRelabelled, Package!Written, Package!Elements
<1>5. PackageInv => PackageHonest
  BY <1>3, <1>4 DEF PackageHonest
<1> QED
  BY <1>1, <1>2, <1>5, PTL DEF AnalysisSpec
----------------------------------------------------------------------------------
(* The playbook of a workload *)

\* the controller that commands for an owner name, if any
Named(r) == IF r.manual THEN Remedy!NoTarget ELSE r.owner

Origins  == {"", "live_api", "pod_name_pattern"}
Outcomes == {"", "success", "failed"}

\* What the resolver returns: an owner is named only when it can be restarted.
Sound(r) ==
  /\ r = [owner |-> r.owner, from |-> r.from, manual |-> r.manual, status |-> r.status]
  /\ r.manual \in BOOLEAN /\ r.from \in Origins
  /\ ~r.manual => r.owner.kind \in Remedy!Restartable

LEMMA ManualSound ==
  ASSUME NEW owner, NEW from \in Origins
  PROVE  LET r == Remedy!Manual(owner, from) IN Sound(r) /\ r.status = "" /\ r.manual
BY DEF Remedy!Manual, Sound

LEMMA OwnedSound ==
  ASSUME NEW owner, NEW from \in Origins, owner.kind \in Remedy!Restartable
  PROVE  LET r == Remedy!Owned(owner, from)
         IN Sound(r) /\ r.status = "" /\ ~r.manual /\ r.owner = owner
BY DEF Remedy!Owned, Sound

LEMMA SoundFacts ==
  ASSUME NEW r, Sound(r)
  PROVE  /\ Remedy!Target(r) = Named(r)
         /\ (IF ~r.manual THEN r.owner ELSE Remedy!NoTarget) = Named(r)
BY DEF Named, Sound, Remedy!Target

\* The status is only written down.
LEMMA StatusSound ==
  ASSUME NEW r, Sound(r), NEW wanted
  PROVE  LET q == [r EXCEPT !.status = wanted]
         IN Sound(q) /\ q.status = wanted /\ q.manual = r.manual /\ q.owner = r.owner
<1> DEFINE q == [r EXCEPT !.status = wanted]
<1>1. q = [owner |-> r.owner, from |-> r.from, manual |-> r.manual, status |-> wanted]
  BY DEF Sound
<1> HIDE DEF q
<1>2. q.owner = r.owner /\ q.from = r.from /\ q.manual = r.manual /\ q.status = wanted
  BY <1>1
<1>3. Sound(q)
  BY <1>1, <1>2 DEF Sound
<1> QED
  BY <1>2, <1>3 DEF q

\* The shape of a Pod's name decides without any lookup.
LEMMA PatternSound ==
  ASSUME NEW name
  PROVE  Sound(Remedy!NamingPattern(name)) /\ Remedy!NamingPattern(name).status = ""
<1>1. /\ Remedy!Ref("Deployment", Remedy!Front(Remedy!Front(name))).kind \in Remedy!Restartable
      /\ Remedy!Ref("StatefulSet", Remedy!Front(name)).kind \in Remedy!Restartable
  BY DEF Remedy!Ref, Remedy!Restartable
<1>2. "" \in Origins /\ "pod_name_pattern" \in Origins
  BY DEF Origins
<1> QED
  BY <1>1, <1>2, ManualSound, OwnedSound DEF Remedy!NamingPattern

\* What the references of a Pod give: an owner that is named is the only reference, and
\* restartable, or the Deployment of that ReplicaSet: the one above it, or its name without
\* the hash.
LEMMA ReferencesSound ==
  ASSUME NEW refs, NEW heard, NEW from \in Origins
  PROVE  LET r == Remedy!FromReferences(refs, heard, from)
         IN /\ Sound(r)
            /\ ~r.manual =>
                 /\ ~(Len(refs) > 1)
                 /\ \/ refs[1].kind \in Remedy!Restartable /\ r.owner = refs[1]
                    \/ /\ refs[1].kind = "ReplicaSet" /\ refs[1].name # Remedy!NoName
                       /\ Remedy!DeploymentAbove(heard) # Remedy!NoName =>
                            r.owner = Remedy!Ref("Deployment", Remedy!DeploymentAbove(heard))
                       /\ Remedy!DeploymentAbove(heard) = Remedy!NoName =>
                            /\ Remedy!HashStripped(refs[1].name) # Remedy!NoName
                            /\ r.owner = Remedy!Ref("Deployment", Remedy!HashStripped(refs[1].name))
<1> DEFINE r == Remedy!FromReferences(refs, heard, from)
           owner == refs[1]
           dep(name) == Remedy!Ref("Deployment", name)
<1>1. "" \in Origins /\ "live_api" \in Origins
  BY DEF Origins
<1>2. CASE Len(refs) > 1 \/ owner.kind = "" \/ owner.name = Remedy!NoName
  <2>1. r = Remedy!Manual(Remedy!NoTarget, "")
    BY <1>2 DEF Remedy!FromReferences
  <2> HIDE DEF r, owner
  <2>2. Sound(r) /\ r.manual
    BY <1>1, <2>1, ManualSound
  <2> QED
    BY <2>2 DEF r
<1>3. CASE ~(Len(refs) > 1 \/ owner.kind = "" \/ owner.name = Remedy!NoName)
  <2>1. CASE owner.kind = "ReplicaSet"
    <3>1. r = Remedy!FromReplicaSet(owner, heard, from)
      BY <1>3, <2>1 DEF Remedy!FromReferences, Remedy!RunOnce, Remedy!Restartable
    <3>2. \A name : dep(name).kind \in Remedy!Restartable
      BY DEF Remedy!Ref, Remedy!Restartable
    <3> DEFINE above == Remedy!DeploymentAbove(heard)
    <3>3. \/ above # Remedy!NoName /\ r = Remedy!Owned(dep(above), "live_api")
          \/ /\ above = Remedy!NoName
             /\ \/ /\ r = Remedy!Owned(dep(Remedy!HashStripped(owner.name)), from)
                   /\ Remedy!HashStripped(owner.name) # Remedy!NoName
                \/ r = Remedy!Manual(owner, from)
      BY <3>1 DEF Remedy!FromReplicaSet
    <3> HIDE DEF r, above, dep
    <3>4. /\ Sound(r) /\ (above # Remedy!NoName => r.owner = dep(above))
          /\ above = Remedy!NoName /\ ~r.manual =>
               /\ Remedy!HashStripped(owner.name) # Remedy!NoName
               /\ r.owner = dep(Remedy!HashStripped(owner.name))
      <4>1. CASE above # Remedy!NoName /\ r = Remedy!Owned(dep(above), "live_api")
        <5>1. PICK d : d = dep(above)
          OBVIOUS
        <5>2. d.kind \in Remedy!Restartable
          BY <3>2, <5>1
        <5> QED
          BY <1>1, <4>1, <5>1, <5>2, OwnedSound
      <4>2. CASE /\ r = Remedy!Owned(dep(Remedy!HashStripped(owner.name)), from)
                 /\ Remedy!HashStripped(owner.name) # Remedy!NoName /\ above = Remedy!NoName
        BY <3>2, <4>2, OwnedSound
      <4>3. CASE r = Remedy!Manual(owner, from) /\ above = Remedy!NoName
        BY <4>3, ManualSound
      <4> QED
        BY <3>3, <4>1, <4>2, <4>3
    <3> QED
      BY <1>3, <2>1, <3>4 DEF r, above, dep
  <2>2. CASE owner.kind # "ReplicaSet"
    <3>1. \/ r = Remedy!Owned(owner, from) /\ owner.kind \in Remedy!Restartable
          \/ r = Remedy!Manual(owner, from)
      BY <1>3, <2>2 DEF Remedy!FromReferences, Remedy!RunOnce, Remedy!Restartable
    <3> HIDE DEF r, owner
    <3>2. Sound(r) /\ (~r.manual => r.owner = owner /\ owner.kind \in Remedy!Restartable)
      <4>1. CASE r = Remedy!Owned(owner, from) /\ owner.kind \in Remedy!Restartable
        BY <4>1, OwnedSound
      <4>2. CASE r = Remedy!Manual(owner, from)
        BY <4>2, ManualSound
      <4> QED
        BY <3>1, <4>1, <4>2
    <3> QED
      BY <1>3, <3>2 DEF r, owner
  <2> QED
    BY <2>1, <2>2
<1> QED
  BY <1>2, <1>3

\* The steps of a playbook: those that act name one controller, or are all left to a
\* person; capturing traces is the first.
Steps(target) ==
  {Remedy!Advice("capture"), Remedy!Advice("cordon"), Remedy!Advice("harden"),
   Remedy!Step("quarantine", target), Remedy!Step("revoke", target), Remedy!Step("drain", target)}
Begun(s, target) ==
  /\ s \in Seq(Steps(target)) /\ Len(s) >= 1
  /\ \A k \in 2 .. Len(s) : s[k].action # "capture"

LEMMA BegunMore ==
  ASSUME NEW target, NEW s, Begun(s, target),
         NEW t \in Seq({e \in Steps(target) : e.action # "capture"})
  PROVE  Begun(s \o t, target)
<1>1. PICK S : S = Steps(target)
  OBVIOUS
<1>2. s \in Seq(S) /\ t \in Seq({e \in S : e.action # "capture"}) /\ Len(s) >= 1
      /\ \A k \in 2 .. Len(s) : s[k].action # "capture"
  BY <1>1 DEF Begun
<1>3. t \in Seq(S) /\ \A k \in 1 .. Len(t) : t[k].action # "capture"
  BY <1>2
<1>4. s \o t \in Seq(S) /\ Len(s \o t) = Len(s) + Len(t)
      /\ \A k \in 1 .. Len(s) + Len(t) : (s \o t)[k] = IF k <= Len(s) THEN s[k] ELSE t[k - Len(s)]
  BY <1>2, <1>3
<1>5. ASSUME NEW k \in 2 .. Len(s) + Len(t) PROVE (s \o t)[k].action # "capture"
  <2>1. CASE k <= Len(s)
    BY <1>2, <1>4, <2>1
  <2>2. CASE ~(k <= Len(s))
    <3>1. k - Len(s) \in 1 .. Len(t)
      BY <1>2, <1>3, <2>2
    <3> QED
      BY <1>2, <1>3, <1>4, <2>2, <3>1
  <2> QED
    BY <2>1, <2>2
<1> QED
  BY <1>1, <1>2, <1>3, <1>4, <1>5 DEF Begun

LEMMA PlaybookBegun ==
  ASSUME NEW r, Sound(r), NEW groups
  PROVE  Begun(Remedy!Playbook(r, groups), Named(r))
<1>1. PICK target : target = Named(r)
  OBVIOUS
<1>2. PICK T : T = {e \in Steps(target) : e.action # "capture"}
  OBVIOUS
<1>3. /\ Remedy!Advice("cordon") \in T /\ Remedy!Advice("harden") \in T
      /\ Remedy!Step("quarantine", target) \in T /\ Remedy!Step("revoke", target) \in T
      /\ Remedy!Step("drain", target) \in T
  BY <1>2 DEF Steps, Remedy!Advice, Remedy!Step
<1>4. Remedy!Quarantine(r) = Remedy!Step("quarantine", target) /\ Remedy!Target(r) = target
  BY <1>1, SoundFacts DEF Remedy!Quarantine
<1>5. Begun(<<Remedy!Advice("capture")>>, target)
  BY DEF Begun, Steps
<1> DEFINE A == IF "network" \in groups THEN <<Remedy!Step("quarantine", target)>> ELSE <<>>
           B == IF "credential" \in groups THEN <<Remedy!Step("revoke", target)>> ELSE <<>>
           C == IF "escape" \in groups THEN <<Remedy!Advice("cordon")>> ELSE <<>>
           D == <<Remedy!Step("drain", target), Remedy!Advice("harden")>>
<1>6. A \in Seq(T) /\ B \in Seq(T) /\ C \in Seq(T) /\ D \in Seq(T)
  BY <1>3
<1>7. Remedy!Playbook(r, groups) = <<Remedy!Advice("capture")>> \o A \o B \o C \o D
  BY <1>4 DEF Remedy!Playbook
<1> HIDE DEF A, B, C, D
<1>8. Begun(<<Remedy!Advice("capture")>> \o A \o B \o C \o D, target)
  BY <1>2, <1>5, <1>6, BegunMore
<1> QED
  BY <1>1, <1>7, <1>8

\* The steps that act, and the others.
LEMMA StepFacts ==
  ASSUME NEW target, NEW e \in Steps(target)
  PROVE  /\ e.action \in {"quarantine", "revoke", "drain"} =>
              e.target = target /\ e.review = Remedy!Step("drain", target).review
         /\ e.action \notin {"quarantine", "revoke", "drain"} => e.target = Remedy!NoTarget
BY DEF Steps, Remedy!Step, Remedy!Advice

\* what the engine resolves with a client
AskedOwner(name, heard, rsReply) == Remedy!Resolve(name, TRUE, heard, rsReply)

\* What the playbook rests on once it is written.
Settled ==
  \/ ref = Remedy!NamingPattern(pod.name)
  \/ ref = [Remedy!NamingPattern(pod.name) EXCEPT !.status = "failed"]
  \/ /\ ref = AskedOwner(pod.name, Remedy!Answer(pod.owners), Remedy!Unasked)
     /\ ~Remedy!AsksReplicaSet(Remedy!Answer(pod.owners)) /\ pod.name # Remedy!NoName
  \/ /\ Remedy!AsksReplicaSet(Remedy!Answer(pod.owners)) /\ pod.name # Remedy!NoName
     /\ \/ /\ ref = AskedOwner(pod.name, Remedy!Answer(pod.owners), Remedy!Answer(pod.above))
           /\ lookups[Len(lookups)][2] = TRUE
        \/ /\ ref = AskedOwner(pod.name, Remedy!Answer(pod.owners), Remedy!Failure)
           /\ lookups[Len(lookups)][2] = FALSE

RemedyInv ==
  /\ pod \in AffectedPods
  /\ lookups \in Seq({"Pod", "ReplicaSet"} \X BOOLEAN)
  /\ pc \in {"probe", "probe_rs", "resolve", "resolve_rs", "show", "done"}
  /\ Sound(ref) /\ ref.status \in Outcomes
  /\ pc \in {"probe_rs", "resolve_rs"} =>
       /\ podReply = Remedy!Answer(pod.owners) /\ Remedy!AsksReplicaSet(podReply)
       /\ pod.name # Remedy!NoName
  /\ pc \in {"show", "done"} => playbook = Remedy!Playbook(ref, seen) /\ Settled
  /\ pc \notin {"show", "done"} => playbook = <<>>
  /\ notice => \E k \in 1 .. Len(lookups) : lookups[k] = <<"Pod", FALSE>>
\* What the engine resolves from the replies it may get.
LEMMA ResolveOfflineFacts ==
  ASSUME NEW name, NEW live, NEW podReply_1, NEW rsReply, ~live \/ name = Remedy!NoName
  PROVE  Remedy!Resolve(name, live, podReply_1, rsReply) = Remedy!NamingPattern(name)
BY DEF Remedy!Resolve

LEMMA ResolveFailed ==
  ASSUME NEW name, name # Remedy!NoName, NEW rsReply
  PROVE  AskedOwner(name, Remedy!Failure, rsReply)
           = [Remedy!NamingPattern(name) EXCEPT !.status = "failed"]
BY DEF AskedOwner, Remedy!Resolve, Remedy!Failure

LEMMA ResolveAnswered ==
  ASSUME NEW name, NEW refs, NEW rsReply, name # Remedy!NoName,
         NEW q, q = AskedOwner(name, Remedy!Answer(refs), rsReply),
         NEW r, r = Remedy!FromReferences(refs, rsReply, "live_api")
  PROVE  /\ Sound(q) /\ q.status = "success"
         /\ ~q.manual => refs # <<>> /\ ~r.manual /\ q.owner = r.owner
<1> "live_api" \in Origins
  BY DEF Origins
<1>1. Sound(r)
  BY ReferencesSound
<1>2. PICK none : none = Remedy!Manual(Remedy!NoTarget, "live_api") /\ Sound(none) /\ none.manual
  BY ManualSound
<1>3. \/ refs = <<>> /\ q = [none EXCEPT !.status = "success"]
      \/ refs # <<>> /\ q = [r EXCEPT !.status = "success"]
  BY <1>2 DEF AskedOwner, Remedy!Resolve, Remedy!Answer
<1>4. CASE refs = <<>> /\ q = [none EXCEPT !.status = "success"]
  <2>1. Sound(none) /\ q = [none EXCEPT !.status = "success"]
    BY <1>2, <1>4
  <2>2. Sound(q) /\ q.status = "success" /\ q.manual = none.manual
    BY <2>1, StatusSound
  <2> QED
    BY <1>2, <2>2
<1>5. CASE refs # <<>> /\ q = [r EXCEPT !.status = "success"]
  <2>1. Sound(q) /\ q.status = "success" /\ q.manual = r.manual /\ q.owner = r.owner
    BY <1>1, <1>5, StatusSound
  <2> QED
    BY <1>5, <2>1
<1> QED
  BY <1>3, <1>4, <1>5

\* A lookup is remembered, and those before it.
LEMMA LookedUp ==
  ASSUME lookups \in Seq({"Pod", "ReplicaSet"} \X BOOLEAN),
         NEW kind \in {"Pod", "ReplicaSet"}, NEW ok \in BOOLEAN,
         lookups' = Append(lookups, <<kind, ok>>)
  PROVE  /\ lookups' \in Seq({"Pod", "ReplicaSet"} \X BOOLEAN)
         /\ Len(lookups') = Len(lookups) + 1 /\ Len(lookups) \in Nat
         /\ lookups'[Len(lookups')] = <<kind, ok>>
         /\ \A k \in 1 .. Len(lookups) : lookups'[k] = lookups[k]
<1>1. <<kind, ok>> \in {"Pod", "ReplicaSet"} \X BOOLEAN
  OBVIOUS
<1> QED
  BY <1>1, Appended

LEMMA RemedyStep ==
  ASSUME RemedyInv, [AnalysisNext]_analysisVars
  PROVE  RemedyInv'
<1>1. CASE UNCHANGED remedyVars
  BY <1>1 DEF remedyVars, RemedyInv, Settled
<1> DEFINE Reason == \E k \in 1 .. Len(lookups) : lookups[k] = <<"Pod", FALSE>>
           replied == Remedy!Answer(pod.owners)
<1>2. ASSUME NEW found, Remedy!Conclude(found),
             lookups' \in Seq({"Pod", "ReplicaSet"} \X BOOLEAN),
             pc \in {"probe", "probe_rs"} /\ found.status = "failed" => Reason',
             Reason => Reason',
             pod' = pod, seen' = seen,
             Sound(found), found.status \in Outcomes,
             pc \in {"resolve", "resolve_rs"} /\ ref' = found => Settled'
      PROVE  RemedyInv'
  <2>1. CASE /\ pc \in {"probe", "probe_rs"} /\ pc' = "resolve"
             /\ notice' = (found.status = "failed")
             /\ UNCHANGED <<ref, playbook>>
    <3>1. notice' => Reason'
      BY <1>2, <2>1
    <3>2. playbook' = <<>> /\ pod' \in AffectedPods
      BY <1>2, <2>1 DEF RemedyInv
    <3> QED
      BY <1>2, <2>1, <3>1, <3>2 DEF RemedyInv
  <2>2. CASE /\ pc \in {"resolve", "resolve_rs"} /\ pc' = "show"
             /\ ref' = found /\ playbook' = Remedy!Playbook(found, seen)
             /\ UNCHANGED <<notice, podReply>>
    <3>1. notice' => Reason'
      BY <1>2, <2>2 DEF RemedyInv
    <3>2. Settled' /\ playbook' = Remedy!Playbook(ref', seen') /\ pod' \in AffectedPods
      BY <1>2, <2>2 DEF RemedyInv
    <3> QED
      BY <1>2, <2>2, <3>1, <3>2 DEF RemedyInv
  <2> QED
    BY <1>2, <2>1, <2>2 DEF Remedy!Conclude
<1>3. CASE Remedy!ResolveOffline
  <2> DEFINE found == Remedy!Resolve(pod.name, flags.live, Remedy!Unasked, Remedy!Unasked)
  <2>1. found = Remedy!NamingPattern(pod.name) /\ found.status = "" /\ Sound(found)
    <3>1. ~flags.live \/ pod.name = Remedy!NoName
      BY <1>3 DEF Remedy!ResolveOffline
    <3>2. found = Remedy!NamingPattern(pod.name)
      BY <3>1, ResolveOfflineFacts
    <3> QED
      BY <3>2, PatternSound
  <2>2. /\ Remedy!Conclude(found) /\ UNCHANGED <<pod, flags, seen, lookups>>
    BY <1>3 DEF Remedy!ResolveOffline
  <2> HIDE DEF found
  <2>3. found.status \in Outcomes
    BY <2>1 DEF Outcomes
  <2>4. ref' = found => Settled'
    BY <2>1, <2>2 DEF Settled
  <2>5. lookups' \in Seq({"Pod", "ReplicaSet"} \X BOOLEAN)
    BY <2>2 DEF RemedyInv
  <2> QED
    BY <1>2, <2>1, <2>2, <2>4, <2>5, <2>3
<1>4. ASSUME NEW heard \in {Remedy!Failure, Remedy!Answer(pod.owners)}, Remedy!LookUpPod(heard)
      PROVE  RemedyInv'
  <2>1. /\ pc \in {"probe", "resolve"} /\ pod.name # Remedy!NoName
        /\ lookups' = Append(lookups, <<"Pod", heard.ok>>) /\ UNCHANGED <<pod, flags, seen>>
        /\ heard.ok \in BOOLEAN
    <3>1. heard.ok = TRUE \/ heard.ok = FALSE
      BY <1>4 DEF Remedy!Failure, Remedy!Answer
    <3> QED
      BY <1>4, <3>1 DEF Remedy!LookUpPod
  <2>2. /\ lookups' \in Seq({"Pod", "ReplicaSet"} \X BOOLEAN)
        /\ Len(lookups') = Len(lookups) + 1 /\ Len(lookups) \in Nat
        /\ lookups'[Len(lookups')] = <<"Pod", heard.ok>>
        /\ \A k \in 1 .. Len(lookups) : lookups'[k] = lookups[k]
    BY <2>1, LookedUp DEF RemedyInv
  <2>3. Reason => Reason'
    <3>1. \A k \in 1 .. Len(lookups) : k \in 1 .. Len(lookups') /\ lookups'[k] = lookups[k]
      BY <2>2
    <3> QED
      BY <3>1
  <2>4. CASE Remedy!AsksReplicaSet(heard)
    <3>1. heard = replied
      BY <1>4, <2>4 DEF Remedy!AsksReplicaSet, Remedy!Failure
    <3>2. /\ pc' \in {"probe_rs", "resolve_rs"} /\ podReply' = heard
          /\ UNCHANGED <<notice, ref, playbook>>
      BY <1>4, <2>4 DEF Remedy!LookUpPod
    <3>3. playbook' = <<>> /\ pod' \in AffectedPods
      BY <2>1, <3>2 DEF RemedyInv
    <3>4. notice' => Reason'
      BY <2>3, <3>2 DEF RemedyInv
    <3>5. podReply' = replied' /\ Remedy!AsksReplicaSet(podReply')
      BY <2>1, <2>4, <3>1, <3>2
    <3> QED
      BY <2>1, <2>2, <3>2, <3>3, <3>4, <3>5 DEF RemedyInv
  <2>5. CASE ~Remedy!AsksReplicaSet(heard)
    <3> DEFINE found == AskedOwner(pod.name, heard, Remedy!Unasked)
    <3>1. Remedy!Conclude(found)
      BY <1>4, <2>5 DEF AskedOwner, Remedy!LookUpPod
    <3>2. CASE heard = Remedy!Failure
      <4>1. found = [Remedy!NamingPattern(pod.name) EXCEPT !.status = "failed"]
        BY <2>1, <3>2, ResolveFailed
      <4>2. Reason'
        <5>1. Len(lookups') \in 1 .. Len(lookups') /\ <<"Pod", heard.ok>> = <<"Pod", FALSE>>
          BY <2>2, <3>2 DEF Remedy!Failure
        <5> QED
          BY <2>2, <5>1
      <4> HIDE DEF found
      <4>3. ref' = found => Settled'
        BY <2>1, <4>1 DEF Settled
      <4>4. Sound(found) /\ found.status \in Outcomes
        BY <4>1, PatternSound, StatusSound DEF Outcomes
      <4> QED
        BY <1>2, <2>1, <2>2, <3>1, <4>2, <4>3, <4>4
    <3>3. CASE heard = replied
      <4>1. found = AskedOwner(pod.name, Remedy!Answer(pod.owners), Remedy!Unasked)
        BY <3>3
      <4>2. LET q == AskedOwner(pod.name, Remedy!Answer(pod.owners), Remedy!Unasked)
            IN Sound(q) /\ q.status = "success"
        <5>1. pod.name # Remedy!NoName
          BY <2>1
        <5> QED
          BY <5>1, ResolveAnswered
      <4> HIDE DEF found
      <4>3. ref' = found => Settled'
        BY <2>1, <2>5, <3>3, <4>1 DEF Settled
      <4>4. found.status \in Outcomes
        BY <4>1, <4>2 DEF Outcomes
      <4> QED
        BY <1>2, <2>1, <2>2, <2>3, <3>1, <4>1, <4>2, <4>3, <4>4
    <3> QED
      BY <1>4, <3>2, <3>3
  <2> QED
    BY <2>4, <2>5
<1>5. ASSUME NEW heard \in {Remedy!Failure, Remedy!Answer(pod.above)}, Remedy!LookUpReplicaSet(heard)
      PROVE  RemedyInv'
  <2> DEFINE found == AskedOwner(pod.name, replied, heard)
  <2>1. /\ podReply = replied /\ Remedy!AsksReplicaSet(replied) /\ pod.name # Remedy!NoName
        /\ lookups' = Append(lookups, <<"ReplicaSet", heard.ok>>) /\ UNCHANGED <<pod, flags, seen>>
        /\ heard.ok \in BOOLEAN
    <3>1. heard.ok = TRUE \/ heard.ok = FALSE
      BY <1>5 DEF Remedy!Failure, Remedy!Answer
    <3>2. pc \in {"probe_rs", "resolve_rs"}
      BY <1>5 DEF Remedy!LookUpReplicaSet
    <3>3. podReply = replied /\ Remedy!AsksReplicaSet(replied) /\ pod.name # Remedy!NoName
      BY <3>2 DEF RemedyInv
    <3> QED
      BY <1>5, <3>1, <3>3 DEF Remedy!LookUpReplicaSet
  <2>2. /\ lookups' \in Seq({"Pod", "ReplicaSet"} \X BOOLEAN)
        /\ Len(lookups') = Len(lookups) + 1 /\ Len(lookups) \in Nat
        /\ lookups'[Len(lookups')] = <<"ReplicaSet", heard.ok>>
        /\ \A k \in 1 .. Len(lookups) : lookups'[k] = lookups[k]
    BY <2>1, LookedUp DEF RemedyInv
  <2>3. Reason => Reason'
    <3>1. \A k \in 1 .. Len(lookups) : k \in 1 .. Len(lookups') /\ lookups'[k] = lookups[k]
      BY <2>2
    <3> QED
      BY <3>1
  <2>4. Remedy!Conclude(found)
    BY <1>5, <2>1 DEF AskedOwner, Remedy!LookUpReplicaSet
  <2>5. Sound(found) /\ found.status = "success"
    <3>1. pod.name # Remedy!NoName
      BY <2>1
    <3> QED
      BY <3>1, ResolveAnswered
  <2>6. /\ heard = Remedy!Failure => lookups'[Len(lookups')][2] = FALSE
        /\ heard = Remedy!Answer(pod.above) => lookups'[Len(lookups')][2] = TRUE
    BY <2>2 DEF Remedy!Failure, Remedy!Answer
  <2>7. ref' = found => Settled'
    <3>1. found = AskedOwner(pod.name, Remedy!Answer(pod.owners), heard)
      OBVIOUS
    <3> HIDE DEF found
    <3> QED
      BY <1>5, <2>1, <2>6, <3>1 DEF Settled
  <2> HIDE DEF found
  <2>8. found.status \in Outcomes
    BY <2>5 DEF Outcomes
  <2> QED
    BY <1>2, <2>1, <2>2, <2>3, <2>4, <2>5, <2>7, <2>8
<1>6. CASE Remedy!Show
  <2>1. pc = "show" /\ pc' = "done" /\ UNCHANGED <<pod, seen, lookups, notice, ref, playbook>>
    BY <1>6 DEF Remedy!Show
  <2> QED
    BY <2>1 DEF RemedyInv, Settled
<1>7. UNCHANGED remedyVars \/ Remedy!Next
  BY DEF AnalysisNext, analysisVars
<1> QED
  BY <1>1, <1>3, <1>4, <1>5, <1>6, <1>7 DEF Remedy!Next

LEMMA RemedyStarts == AnalysisInit => RemedyInv
<1> SUFFICES ASSUME AnalysisInit PROVE RemedyInv
  OBVIOUS
<1>1. /\ pod \in AffectedPods /\ lookups = <<>> /\ playbook = <<>> /\ notice = FALSE
      /\ pc = IF flags.live THEN "probe" ELSE "resolve"
      /\ ref = Remedy!Manual(Remedy!NoTarget, "")
  BY DEF AnalysisInit, Remedy!Init, Remedy!NoRef
<1>2. pc \in {"probe", "resolve"}
  BY <1>1
<1>3. Sound(ref) /\ ref.status \in Outcomes
  BY <1>1, ManualSound DEF Outcomes, Origins
<1>4. lookups \in Seq({"Pod", "ReplicaSet"} \X BOOLEAN)
  <2>1. <<>> \in Seq({"Pod", "ReplicaSet"} \X BOOLEAN)
    OBVIOUS
  <2> QED
    BY <1>1, <2>1
<1> QED
  BY <1>1, <1>2, <1>4, <1>3 DEF RemedyInv

\* whom commands may name once the lookup of the Pod has answered
Grounded(target) ==
  /\ Len(pod.owners) = 1
  /\ Remedy!Confirmed => target = Remedy!Controller
  /\ ~Remedy!Confirmed =>
       /\ Remedy!HashStripped(pod.owners[1].name) # Remedy!NoName
       /\ target = Remedy!Ref("Deployment", Remedy!HashStripped(pod.owners[1].name))

\* What the cluster answered is what a named owner rests on.
LEMMA AnsweredGrounded ==
  ASSUME RemedyInv, NEW rsReply, pod.name # Remedy!NoName,
         ref = AskedOwner(pod.name, Remedy!Answer(pod.owners), rsReply),
         LET asks == Remedy!AsksReplicaSet(Remedy!Answer(pod.owners))
         IN \/ ~asks
            \/ asks /\ rsReply = Remedy!Answer(pod.above) /\ lookups[Len(lookups)][2] = TRUE
            \/ asks /\ rsReply = Remedy!Failure /\ lookups[Len(lookups)][2] = FALSE
  PROVE  Sound(ref) /\ ref.status = "success" /\ (~ref.manual => Grounded(ref.owner))
<1> DEFINE above == Remedy!DeploymentAbove(rsReply)
           owner == pod.owners[1]
<1>1. PICK r : r = Remedy!FromReferences(pod.owners, rsReply, "live_api")
  OBVIOUS
<1>2. /\ Sound(ref) /\ ref.status = "success"
      /\ ~ref.manual => pod.owners # <<>> /\ ~r.manual /\ ref.owner = r.owner
  BY <1>1, ResolveAnswered
<1>3. ~r.manual =>
        /\ ~(Len(pod.owners) > 1)
        /\ \/ owner.kind \in Remedy!Restartable /\ r.owner = owner
           \/ /\ owner.kind = "ReplicaSet" /\ owner.name # Remedy!NoName
              /\ above # Remedy!NoName => r.owner = Remedy!Ref("Deployment", above)
              /\ above = Remedy!NoName =>
                   /\ Remedy!HashStripped(owner.name) # Remedy!NoName
                   /\ r.owner = Remedy!Ref("Deployment", Remedy!HashStripped(owner.name))
  <2>1. "live_api" \in Origins
    BY DEF Origins
  <2> QED
    BY <1>1, <2>1, ReferencesSound
<1>4. ASSUME ~ref.manual PROVE Grounded(ref.owner)
  <2>1. Len(pod.owners) = 1
    <3>1. PICK T : pod.owners \in Seq(T)
      BY AnalysisAssumptions DEF RemedyInv, Remedy!PodAssumption
    <3>2. pod.owners # <<>> /\ ~(Len(pod.owners) > 1)
      BY <1>2, <1>3, <1>4
    <3>3. PICK n \in Nat : n = Len(pod.owners)
      BY <3>1
    <3>4. n # 0 /\ ~(n > 1)
      BY <3>1, <3>2, <3>3
    <3>5. n = 1
      BY <3>4
    <3> QED
      BY <3>3, <3>5
  <2> HIDE DEF above
  <2>2. CASE owner.kind \in Remedy!Restartable /\ r.owner = owner
    <3>1. Remedy!Confirmed /\ Remedy!Controller = owner
      BY <2>1, <2>2 DEF Remedy!Confirmed, Remedy!Controller, Remedy!Restartable
    <3> QED
      BY <1>2, <1>4, <2>1, <2>2, <3>1 DEF Grounded
  <2>3. CASE /\ owner.kind = "ReplicaSet" /\ owner.name # Remedy!NoName
             /\ above # Remedy!NoName => r.owner = Remedy!Ref("Deployment", above)
             /\ above = Remedy!NoName =>
                  /\ Remedy!HashStripped(owner.name) # Remedy!NoName
                  /\ r.owner = Remedy!Ref("Deployment", Remedy!HashStripped(owner.name))
    <3>1. Remedy!AsksReplicaSet(Remedy!Answer(pod.owners))
      BY <2>1, <2>3 DEF Remedy!AsksReplicaSet, Remedy!Answer
    <3>2. Len(lookups) - 0 = Len(lookups)
      BY DEF RemedyInv
    <3>3. Remedy!Confirmed <=>
            lookups[Len(lookups)][2] /\ Remedy!DeploymentAbove(Remedy!Answer(pod.above)) # Remedy!NoName
      BY <2>3, <3>2 DEF Remedy!Confirmed, Remedy!RestsOn
    <3>4. CASE rsReply = Remedy!Answer(pod.above) /\ lookups[Len(lookups)][2] = TRUE
      <4>1. /\ Remedy!Confirmed <=> above # Remedy!NoName
            /\ Remedy!Controller = Remedy!Ref("Deployment", above)
        BY <2>1, <2>3, <3>3, <3>4 DEF above, Remedy!Controller
      <4> QED
        BY <1>2, <1>4, <2>1, <2>3, <4>1 DEF Grounded
    <3>5. CASE rsReply = Remedy!Failure /\ lookups[Len(lookups)][2] = FALSE
      <4>1. above = Remedy!NoName
        BY <3>5 DEF above, Remedy!DeploymentAbove, Remedy!Failure
      <4>2. ~Remedy!Confirmed
        BY <3>3, <3>5
      <4> QED
        BY <1>2, <1>4, <2>1, <2>3, <4>1, <4>2 DEF Grounded
    <3> QED
      BY <3>1, <3>4, <3>5
  <2> QED
    BY <1>2, <1>3, <1>4, <2>2, <2>3
<1> QED
  BY <1>2, <1>4

\* What is settled is sound: a failed lookup leaves the pattern of the name, and an
\* answered one an owner that rests on it, or none.
LEMMA SettledFacts ==
  ASSUME RemedyInv, pc \in {"show", "done"}
  PROVE  /\ Sound(ref) /\ playbook = Remedy!Playbook(ref, seen)
         /\ ref.status = "failed" =>
              LET r == Remedy!NamingPattern(pod.name) IN ref.owner = r.owner /\ ref.manual = r.manual
         /\ ref.status = "success" /\ Named(ref) # Remedy!NoTarget => Grounded(Named(ref))
<1> DEFINE pattern == Remedy!NamingPattern(pod.name)
<1>1. Settled /\ playbook = Remedy!Playbook(ref, seen)
  BY DEF RemedyInv
<1>2. Sound(pattern) /\ pattern.status = ""
  BY PatternSound
<1>3. CASE ref = pattern
  BY <1>1, <1>2, <1>3
<1>4. CASE ref = [pattern EXCEPT !.status = "failed"]
  <2>1. Sound(ref) /\ ref.status = "failed" /\ ref.manual = pattern.manual /\ ref.owner = pattern.owner
    BY <1>2, <1>4, StatusSound
  <2> QED
    BY <1>1, <2>1
<1>5. CASE ~(ref = pattern \/ ref = [pattern EXCEPT !.status = "failed"])
  <2>1. Sound(ref) /\ ref.status = "success" /\ (~ref.manual => Grounded(ref.owner))
    BY <1>1, <1>5, AnsweredGrounded DEF Settled
  <2> QED
    BY <1>1, <2>1 DEF Named
<1> QED
  BY <1>3, <1>4, <1>5

\* Whichever lookups answer: commands name the Pod's own controller where the cluster
\* confirmed it, the ReplicaSet's name without its hash where only the second lookup did not,
\* and are those of the offline command where the first failed; the steps agree on the owner,
\* traces are taken first, and the notice is about a lookup that failed
\* (reporting/workload_resolver.py:209, reporting/recommendations.py:98, cli/main.py:230).
THEOREM PlaybooksAreGrounded == AnalysisSpec => []PlaybookGrounded
<1>1. RemedyInv /\ [AnalysisNext]_analysisVars => RemedyInv'
  BY RemedyStep
<1>2. ASSUME RemedyInv PROVE PlaybookGrounded
  <2>1. CASE pc \notin {"show", "done"}
    <3>1. playbook = <<>> /\ Len(playbook) = 0 /\ ~Remedy!Resolved
      BY <1>2, <2>1 DEF RemedyInv, Remedy!Resolved
    <3> QED
      <4>1. 1 .. Len(playbook) = {}
        BY <3>1
      <4>2. Remedy!OneTarget /\ Remedy!CaptureFirst
        BY <4>1 DEF Remedy!OneTarget, Remedy!CaptureFirst
      <4>3. Remedy!AnsweredTargetsReal /\ Remedy!FailureDegradesToOffline
        BY <3>1 DEF Remedy!AnsweredTargetsReal, Remedy!FailureDegradesToOffline
      <4>4. Remedy!NoticeHasReason
        BY <1>2 DEF RemedyInv, Remedy!NoticeHasReason
      <4> QED
        BY <4>2, <4>3, <4>4 DEF PlaybookGrounded
  <2>2. CASE pc \in {"show", "done"}
    <3>1. /\ Sound(ref) /\ playbook = Remedy!Playbook(ref, seen)
          /\ ref.status = "failed" =>
               LET r == Remedy!NamingPattern(pod.name) IN ref.owner = r.owner /\ ref.manual = r.manual
          /\ ref.status = "success" /\ Named(ref) # Remedy!NoTarget => Grounded(Named(ref))
      BY <1>2, <2>2, SettledFacts
    <3>2. Begun(playbook, Named(ref))
      BY <3>1, PlaybookBegun
    <3>3. ASSUME NEW k \in 1 .. Len(playbook)
          PROVE  /\ playbook[k] \in Steps(Named(ref))
                 /\ playbook[k].action = "capture" => k = 1
                 /\ playbook[k].target \in {Named(ref), Remedy!NoTarget}
                 /\ playbook[k].action \in {"quarantine", "revoke", "drain"} =>
                      /\ playbook[k].target = Named(ref)
                      /\ playbook[k].review = Remedy!Step("drain", Named(ref)).review
      <4>1. PICK target, S : target = Named(ref) /\ S = Steps(target)
        OBVIOUS
      <4>2. playbook \in Seq(S) /\ \A j \in 2 .. Len(playbook) : playbook[j].action # "capture"
        BY <3>2, <4>1 DEF Begun
      <4>3. playbook[k] \in S /\ (playbook[k].action = "capture" => k = 1)
        BY <4>2
      <4> QED
        BY <4>1, <4>3, StepFacts
    <3>4. Remedy!AnsweredTargetsReal
      <4> SUFFICES ASSUME ref.status = "success", NEW k \in Remedy!Automatic
                   PROVE  Grounded(playbook[k].target)
        BY DEF Remedy!AnsweredTargetsReal, Grounded
      <4>1. k \in 1 .. Len(playbook) /\ playbook[k].target # Remedy!NoTarget
        BY DEF Remedy!Automatic
      <4>2. playbook[k].target = Named(ref)
        BY <3>3, <4>1
      <4> QED
        BY <3>1, <4>1, <4>2
    <3>5. Remedy!FailureDegradesToOffline
      <4> SUFFICES ASSUME ref.status = "failed"
                   PROVE  playbook = Remedy!Playbook(Remedy!NamingPattern(pod.name), seen)
        BY DEF Remedy!FailureDegradesToOffline, Remedy!Resolve
      <4>1. PICK r : r = Remedy!NamingPattern(pod.name)
        OBVIOUS
      <4>2. ref.owner = r.owner /\ ref.manual = r.manual
        BY <3>1, <4>1
      <4>3. Remedy!Playbook(ref, seen) = Remedy!Playbook(r, seen)
        BY <4>2 DEF Remedy!Playbook, Remedy!Quarantine, Remedy!Target
      <4> QED
        BY <3>1, <4>1, <4>3
    <3>6. Remedy!OneTarget
      BY <3>3 DEF Remedy!OneTarget
    <3>7. Remedy!CaptureFirst
      <4>1. ASSUME NEW k \in 1 .. Len(playbook), playbook[k].action = "capture",
                   NEW j \in 1 .. k - 1
            PROVE  FALSE
        BY <3>3, <4>1
      <4> QED
        BY <4>1 DEF Remedy!CaptureFirst
    <3>8. Remedy!NoticeHasReason
      BY <1>2 DEF RemedyInv, Remedy!NoticeHasReason
    <3> QED
      BY <3>4, <3>5, <3>6, <3>7, <3>8 DEF PlaybookGrounded
  <2> QED
    BY <2>1, <2>2
<1> QED
  BY <1>1, <1>2, RemedyStarts, PTL DEF AnalysisSpec
----------------------------------------------------------------------------------
(* Sums *)

\* The size of an interval from one.
LEMMA IntervalSize ==
  ASSUME NEW n \in Nat
  PROVE  IsFiniteSet(1 .. n) /\ Cardinality(1 .. n) = n
<1>1. IsFiniteSet(1 .. n) /\ Cardinality(1 .. n) = IF 1 > n THEN 0 ELSE n - 1 + 1
  BY FS_Interval
<1> QED
  BY <1>1

\* The points of the values of f over s, one by one.
Units(f, s) == UNION {{x} \X (1 .. f[x]) : x \in s}

Counted(f, s) == IsFiniteSet(s) /\ \A x \in s : f[x] \in Nat

\* An element has as many units as its value, a finite set finitely many.
LEMMA UnitsOf ==
  ASSUME NEW f, NEW x, f[x] \in Nat
  PROVE  IsFiniteSet({x} \X (1 .. f[x])) /\ Cardinality({x} \X (1 .. f[x])) = f[x]
<1>1. PICK n \in Nat : n = f[x]
  OBVIOUS
<1>2. IsFiniteSet({x}) /\ Cardinality({x}) = 1
  BY FS_Singleton
<1>3. IsFiniteSet(1 .. n) /\ Cardinality(1 .. n) = n
  BY IntervalSize
<1>4. PICK one, many : one = {x} /\ many = 1 .. n
  OBVIOUS
<1>5. IsFiniteSet(one \X many) /\ Cardinality(one \X many) = Cardinality(one) * Cardinality(many)
  BY <1>2, <1>3, <1>4, FS_Product
<1>6. Cardinality(one \X many) = n
  BY <1>2, <1>3, <1>4, <1>5
<1> QED
  BY <1>1, <1>4, <1>5, <1>6

LEMMA UnitsFinite ==
  ASSUME NEW f, NEW s, Counted(f, s)
  PROVE  IsFiniteSet(Units(f, s)) /\ Cardinality(Units(f, s)) \in Nat
<1> DEFINE Of(x) == {x} \X (1 .. f[x])
<1>1. IsFiniteSet({Of(x) : x \in s})
  <2>1. PICK pieces : pieces = [x \in s |-> Of(x)]
    OBVIOUS
  <2>2. pieces \in Surjection(s, {Of(x) : x \in s})
    BY <2>1 DEF Surjection
  <2> QED
    BY <2>2, FS_Surjection DEF Counted
<1>2. \A x \in s : IsFiniteSet(Of(x))
  BY UnitsOf DEF Counted
<1>3. \A T \in {Of(x) : x \in s} : IsFiniteSet(T)
  BY <1>2
<1>4. IsFiniteSet(UNION {Of(x) : x \in s})
  BY <1>1, <1>3, FS_UNION
<1> QED
  BY <1>4, FS_CardinalityType DEF Units

\* One element more, and its value more.
LEMMA UnitsMore ==
  ASSUME NEW f, NEW s, Counted(f, s), NEW x \in s
  PROVE  /\ Counted(f, s \ {x})
         /\ Cardinality(Units(f, s)) = f[x] + Cardinality(Units(f, s \ {x}))
<1>1. Counted(f, s \ {x})
  BY FS_RemoveElement DEF Counted
<1> DEFINE A == {x} \X (1 .. f[x])
           B == Units(f, s \ {x})
<1>2. IsFiniteSet(A) /\ Cardinality(A) = f[x] /\ f[x] \in Nat
  BY UnitsOf DEF Counted
<1>3. IsFiniteSet(B) /\ Cardinality(B) \in Nat
  BY <1>1, UnitsFinite
<1>4. A \cap B = {}
  BY DEF Units
<1>5. Units(f, s) = A \cup B
  BY DEF Units
<1>6. Cardinality(A \cup B) = Cardinality(A) + Cardinality(B) - Cardinality(A \cap B)
  BY <1>2, <1>3, FS_Union
<1>7. Cardinality(A \cap B) = 0
  BY <1>4, FS_EmptySet
<1> QED
  BY <1>1, <1>2, <1>3, <1>5, <1>6, <1>7

\* The recursion of the library's sum.
IsSum(g, f, S) ==
  g = [s \in SUBSET S |->
         IF s = {} THEN 0 ELSE LET x == CHOOSE x \in s : TRUE IN f[x] + g[s \ {x}]]

\* What the library computes: the value of that recursion at the set.
LEMMA SumIsRecursive ==
  ASSUME NEW f, NEW S
  PROVE  Correlation!SumFunctionOnSet(f, S) = (CHOOSE g : IsSum(g, f, S))[S]
BY DEF Correlation!SumFunctionOnSet, Correlation!FoldFunctionOnSet, Correlation!MapThenFoldSet, IsSum

\* The solution of that recursion is the number of units: it is one, and two solutions would
\* differ first at a set of least size.
LEMMA SumIsCount ==
  ASSUME NEW f, NEW S, Counted(f, S)
  PROVE  Correlation!SumFunctionOnSet(f, S) = Cardinality(Units(f, S))
<1>1. \A s \in SUBSET S : Counted(f, s)
  BY FS_Subset DEF Counted
<1>2. PICK sum : sum = [s \in SUBSET S |-> Cardinality(Units(f, s))]
  OBVIOUS
<1>3. \A s \in SUBSET S : s # {} =>
        LET x == CHOOSE x \in s : TRUE
        IN x \in s /\ s \ {x} \in SUBSET S /\ sum[s] = f[x] + sum[s \ {x}]
  <2> SUFFICES ASSUME NEW s \in SUBSET S, s # {}, NEW x, x = CHOOSE y \in s : TRUE
               PROVE  x \in s /\ s \ {x} \in SUBSET S /\ sum[s] = f[x] + sum[s \ {x}]
    OBVIOUS
  <2>1. x \in s /\ s \ {x} \in SUBSET S
    OBVIOUS
  <2>2. Counted(f, s)
    BY <1>1
  <2>3. \A y \in s : Cardinality(Units(f, s)) = f[y] + Cardinality(Units(f, s \ {y}))
    BY ONLY <2>2, UnitsMore
  <2> QED
    BY <1>2, <2>1, <2>3
<1>4. sum[{}] = 0
  <2>1. Units(f, {}) = {}
    BY DEF Units
  <2> QED
    BY <1>2, <2>1, FS_EmptySet
<1>5. IsSum(sum, f, S)
  <2>1. \A s \in SUBSET S :
          sum[s] = IF s = {} THEN 0 ELSE LET x == CHOOSE x \in s : TRUE IN f[x] + sum[s \ {x}]
    BY <1>3, <1>4
  <2>2. sum = [s \in SUBSET S |-> sum[s]]
    BY <1>2
  <2> QED
    BY <2>1, <2>2 DEF IsSum
<1>6. ASSUME NEW g, IsSum(g, f, S) PROVE g[S] = sum[S]
  <2> DEFINE Sizes == {Cardinality(s) : s \in {t \in SUBSET S : g[t] # sum[t]}}
  <2>1. \A s \in SUBSET S : IsFiniteSet(s) /\ Cardinality(s) \in Nat
    BY <1>1, FS_CardinalityType DEF Counted
  <2>2. SUFFICES ASSUME Sizes # {} PROVE FALSE
    OBVIOUS
  <2>3. Sizes \in SUBSET Nat
    BY <2>1
  <2>4. PICK m \in Sizes : \A k \in Sizes : m <= k
    BY <2>2, <2>3, LeastNatural
  <2>5. PICK s \in SUBSET S : g[s] # sum[s] /\ m = Cardinality(s)
    OBVIOUS
  <2>6. g[s] = IF s = {} THEN 0 ELSE LET x == CHOOSE x \in s : TRUE IN f[x] + g[s \ {x}]
    BY <1>6, <2>5 DEF IsSum
  <2>7. s # {}
    BY <1>4, <2>5, <2>6
  <2>8. PICK x : x = CHOOSE y \in s : TRUE
    OBVIOUS
  <2>9. x \in s /\ s \ {x} \in SUBSET S /\ sum[s] = f[x] + sum[s \ {x}]
    BY <1>3, <2>7, <2>8
  <2>10. g[s \ {x}] # sum[s \ {x}]
    BY <2>5, <2>6, <2>7, <2>8, <2>9
  <2>11. Cardinality(s \ {x}) \in Sizes
    BY <2>9, <2>10
  <2>12. Cardinality(s \ {x}) = Cardinality(s) - 1
    BY <2>1, <2>5, <2>9, FS_RemoveElement
  <2>13. m <= Cardinality(s) - 1 /\ m = Cardinality(s) /\ m \in Nat
    BY <2>3, <2>4, <2>5, <2>11, <2>12
  <2> QED
    BY <2>13
<1>7. IsSum(CHOOSE g : IsSum(g, f, S), f, S)
  BY <1>5
<1>8. Correlation!SumFunctionOnSet(f, S) = sum[S]
  BY <1>6, <1>7, SumIsRecursive
<1> QED
  BY <1>2, <1>8

\* The sum over one element more, and over a larger set of larger values.
LEMMA SumMore ==
  ASSUME NEW f, NEW s, Counted(f, s), NEW x, x \notin s, f[x] \in Nat
  PROVE  /\ Counted(f, s \cup {x})
         /\ Correlation!SumFunctionOnSet(f, s) \in Nat
         /\ Correlation!SumFunctionOnSet(f, s \cup {x}) = Correlation!SumFunctionOnSet(f, s) + f[x]
<1>1. PICK t : t = s \cup {x}
  OBVIOUS
<1>2. Counted(f, t)
  BY <1>1, FS_AddElement DEF Counted
<1>3. x \in t /\ t \ {x} = s
  BY <1>1
<1>4. Cardinality(Units(f, t)) = f[x] + Cardinality(Units(f, s))
  BY <1>2, <1>3, UnitsMore
<1>5. Cardinality(Units(f, s)) \in Nat
  BY UnitsFinite
<1>6. /\ Correlation!SumFunctionOnSet(f, s) = Cardinality(Units(f, s))
      /\ Correlation!SumFunctionOnSet(f, t) = Cardinality(Units(f, t))
  BY <1>2, SumIsCount
<1> QED
  BY <1>1, <1>2, <1>4, <1>5, <1>6

LEMMA SumGrows ==
  ASSUME NEW f, NEW s, NEW g, NEW t, Counted(g, t), s \subseteq t,
         \A x \in s : f[x] \in Nat /\ f[x] <= g[x]
  PROVE  /\ Counted(f, s)
         /\ Correlation!SumFunctionOnSet(f, s) \in Nat /\ Correlation!SumFunctionOnSet(g, t) \in Nat
         /\ Correlation!SumFunctionOnSet(f, s) <= Correlation!SumFunctionOnSet(g, t)
<1>1. Counted(f, s)
  BY FS_Subset DEF Counted
<1>2. Units(f, s) \subseteq Units(g, t)
  <2> SUFFICES ASSUME NEW x \in s, NEW k \in 1 .. f[x]
               PROVE  x \in t /\ k \in 1 .. g[x]
    BY DEF Units
  <2>1. f[x] \in Nat /\ g[x] \in Nat /\ f[x] <= g[x]
    BY DEF Counted
  <2> QED
    BY <2>1
<1>3. /\ IsFiniteSet(Units(g, t)) /\ Cardinality(Units(g, t)) \in Nat
      /\ Cardinality(Units(f, s)) \in Nat
  BY <1>1, UnitsFinite
<1>4. Cardinality(Units(f, s)) <= Cardinality(Units(g, t))
  BY <1>2, <1>3, FS_Subset
<1> QED
  BY <1>1, <1>3, <1>4, SumIsCount

----------------------------------------------------------------------------------
(* The events of a workload, sorted *)

\* A list of events with the moment they bear.
Stamped(evs) == IsList(evs) /\ \A i \in 1 .. Len(evs) : evs[i].stamp.sec \in Nat

\* The events of a workload up to one, and the event of a rank.
Upto(evs, w, i) == {j \in Correlation!Places(evs, w) : Correlation!Precedes(evs, j, i)}
Place(evs, w, r) == CHOOSE i \in Correlation!Places(evs, w) : Cardinality(Upto(evs, w, i)) = r

\* A group holds, at each rank, the event of that rank.
LEMMA GroupIsPlaced ==
  ASSUME NEW evs, NEW w
  PROVE  Correlation!Group(evs, w)
           = [r \in 1 .. Cardinality(Correlation!Places(evs, w)) |-> evs[Place(evs, w, r)]]
BY DEF Correlation!Group, Upto, Place, Correlation!Cardinality, Cardinality,
       Correlation!IsFiniteSet, IsFiniteSet

\* The order of the timestamps as texts is one of numbers.
LEMMA TextOrderNat ==
  ASSUME NEW stamp, stamp.sec \in Nat
  PROVE  Correlation!TextOrder(stamp) \in Nat
<1>1. PICK late \in {0, 1, 2} :
        late = CASE stamp.form = "plus" -> 0 [] stamp.form = "frac" -> 1 [] OTHER -> 2
  OBVIOUS
<1>2. Correlation!TextOrder(stamp) = 3 * stamp.sec + late
  BY <1>1 DEF Correlation!TextOrder
<1> QED
  BY <1>1, <1>2

\* Of two events of a list one precedes the other, and with it all that precedes it.
LEMMA PrecedesOrders ==
  ASSUME NEW evs, Stamped(evs), NEW w,
         NEW i \in Correlation!Places(evs, w), NEW j \in Correlation!Places(evs, w)
  PROVE  /\ i \in 1 .. Len(evs) /\ i \in Upto(evs, w, i)
         /\ i # j => \/ Upto(evs, w, i) \subseteq Upto(evs, w, j) /\ j \notin Upto(evs, w, i)
                     \/ Upto(evs, w, j) \subseteq Upto(evs, w, i) /\ i \notin Upto(evs, w, j)
<1> DEFINE at == Correlation!Places(evs, w)
           key(k) == Correlation!TextOrder(evs[k].stamp)
<1>1. at \subseteq 1 .. Len(evs) /\ Len(evs) \in Nat
  BY ListFacts DEF Stamped, Correlation!Places
<1>2. \A k \in at : k \in Nat /\ key(k) \in Nat
  BY <1>1, TextOrderNat DEF Stamped
<1>3. PICK text : text = [k \in at |-> key(k)]
  OBVIOUS
<1>4. \A h, k \in at : Correlation!Precedes(evs, h, k)
                         <=> text[h] < text[k] \/ (text[h] = text[k] /\ h <= k)
  BY <1>3 DEF Correlation!Precedes
<1>5. \A k \in at : k \in Nat /\ text[k] \in Nat
  BY <1>2, <1>3
<1>6. \A k \in at : Upto(evs, w, k) = {h \in at : text[h] < text[k] \/ (text[h] = text[k] /\ h <= k)}
  BY <1>4 DEF Upto
<1> HIDE DEF at, key
<1>7. i \in at /\ j \in at
  BY DEF at
<1>8. i \in Upto(evs, w, i)
  BY <1>5, <1>6, <1>7
<1>9. ASSUME NEW x \in at, NEW y \in at, text[x] < text[y] \/ (text[x] = text[y] /\ x < y)
      PROVE  Upto(evs, w, x) \subseteq Upto(evs, w, y) /\ y \notin Upto(evs, w, x)
  <2>1. y \notin Upto(evs, w, x)
    BY <1>5, <1>6, <1>9
  <2> SUFFICES ASSUME NEW h \in Upto(evs, w, x) PROVE h \in Upto(evs, w, y)
    BY <2>1
  <2>2. h \in at /\ (text[h] < text[x] \/ (text[h] = text[x] /\ h <= x))
    BY <1>6
  <2>3. text[h] \in Nat /\ text[x] \in Nat /\ text[y] \in Nat /\ h \in Nat /\ x \in Nat /\ y \in Nat
    BY <1>5, <2>2
  <2>4. text[h] < text[y] \/ (text[h] = text[y] /\ h <= y)
    BY <1>9, <2>2, <2>3
  <2> QED
    BY <1>6, <2>2, <2>4
<1>10. i # j => \/ text[i] < text[j] \/ (text[i] = text[j] /\ i < j)
                \/ text[j] < text[i] \/ (text[j] = text[i] /\ j < i)
  BY <1>5, <1>7
<1>11. i \in 1 .. Len(evs)
  BY <1>1, <1>7
<1> QED
  BY <1>7, <1>8, <1>9, <1>10, <1>11

\* The group holds the events of the workload, each at one place.
LEMMA GroupFacts ==
  ASSUME NEW evs, Stamped(evs), NEW w
  PROVE  LET at == Correlation!Places(evs, w)
             n  == Cardinality(at)
         IN /\ at \subseteq 1 .. Len(evs) /\ Len(evs) \in Nat /\ IsFiniteSet(at) /\ n \in Nat
            /\ \A i \in at : /\ Cardinality(Upto(evs, w, i)) \in 1 .. n
                             /\ Place(evs, w, Cardinality(Upto(evs, w, i))) = i
            /\ \A r \in 1 .. n : /\ Place(evs, w, r) \in at
                                 /\ Cardinality(Upto(evs, w, Place(evs, w, r))) = r
            /\ IsList(Correlation!Group(evs, w)) /\ Len(Correlation!Group(evs, w)) = n
            /\ \A r \in 1 .. n : Correlation!Group(evs, w)[r] = evs[Place(evs, w, r)]
<1> DEFINE at == Correlation!Places(evs, w)
           n  == Cardinality(at)
           rank(i) == Cardinality(Upto(evs, w, i))
<1>1. at \subseteq 1 .. Len(evs) /\ Len(evs) \in Nat /\ IsFiniteSet(at) /\ n \in Nat
  <2>1. at \subseteq 1 .. Len(evs) /\ Len(evs) \in Nat
    BY ListFacts DEF Stamped, Correlation!Places
  <2>2. IsFiniteSet(1 .. Len(evs))
    BY <2>1, IntervalSize
  <2> QED
    BY <2>1, <2>2, FS_Subset, FS_CardinalityType
<1>2. \A i \in at : IsFiniteSet(Upto(evs, w, i)) /\ rank(i) \in 1 .. n
  <2> SUFFICES ASSUME NEW i \in at
               PROVE  IsFiniteSet(Upto(evs, w, i)) /\ rank(i) \in 1 .. n
    OBVIOUS
  <2>1. Upto(evs, w, i) \in SUBSET at /\ i \in Upto(evs, w, i)
    BY PrecedesOrders DEF Upto
  <2>2. IsFiniteSet(Upto(evs, w, i)) /\ rank(i) <= n
    BY <1>1, <2>1, FS_Subset
  <2>3. rank(i) \in Nat /\ rank(i) # 0
    BY <2>1, <2>2, FS_CardinalityType, FS_EmptySet
  <2> QED
    BY <1>1, <2>2, <2>3
<1>3. ASSUME NEW i \in at, NEW j \in at, Upto(evs, w, i) \subseteq Upto(evs, w, j),
             j \notin Upto(evs, w, i)
      PROVE  rank(i) # rank(j)
  <2>1. j \in Upto(evs, w, j)
    BY PrecedesOrders
  <2> QED
    BY <1>2, <1>3, <2>1, FS_Subset
<1>4. \A i, j \in at : rank(i) = rank(j) => i = j
  BY <1>3, PrecedesOrders
<1>5. PICK place : place = [i \in at |-> rank(i)]
  OBVIOUS
<1>6. place \in Injection(at, 1 .. n)
  BY <1>2, <1>4, <1>5 DEF Injection, IsInjective
<1>7. IsFiniteSet(1 .. n) /\ Cardinality(1 .. n) = n
  BY <1>1, IntervalSize
<1>8. place \in Surjection(at, 1 .. n)
  BY <1>6, <1>7, FS_Injection
<1>9. \A r \in 1 .. n : \E i \in at : rank(i) = r
  BY <1>5, <1>8 DEF Surjection
<1>10. \A r \in 1 .. n : Place(evs, w, r) \in at /\ rank(Place(evs, w, r)) = r
  <2> SUFFICES ASSUME NEW r \in 1 .. n
               PROVE  Place(evs, w, r) \in at /\ rank(Place(evs, w, r)) = r
    OBVIOUS
  <2>1. \E i \in at : rank(i) = r
    BY <1>9
  <2> QED
    BY <2>1, Zenon DEF Place
<1>11. \A i \in at : Place(evs, w, rank(i)) = i
  BY <1>2, <1>4, <1>10
<1>12. Correlation!Group(evs, w) = [r \in 1 .. n |-> evs[Place(evs, w, r)]]
  BY GroupIsPlaced
<1>13. PICK U : U = {evs[Place(evs, w, r)] : r \in 1 .. n}
  OBVIOUS
<1>14. Correlation!Group(evs, w) \in Seq(U) /\ Len(Correlation!Group(evs, w)) = n
  BY <1>1, <1>12, <1>13
<1>15. \A r \in 1 .. n : Correlation!Group(evs, w)[r] = evs[Place(evs, w, r)]
  BY <1>12
<1> QED
  BY <1>1, <1>2, <1>10, <1>11, <1>14, <1>15 DEF IsList

----------------------------------------------------------------------------------
(* Every event is in one incident, and once *)

\* The instance counts with the same operator.
LEMMA SameCount == \A S : Correlation!Cardinality(S) = Cardinality(S)
BY DEF Correlation!Cardinality, Cardinality, Correlation!IsFiniteSet, IsFiniteSet

\* What the composition assumes of the events and of the weights.
LEMMA EventFacts ==
  /\ \A e \in Events : e.stamp.sec \in Nat /\ \E k \in 1 .. 5 : e.severity = Correlation!Severities[k]
  /\ \A t \in DOMAIN TechniqueWeights : TechniqueWeights[t] \in Nat
  /\ \A n \in DOMAIN NamespaceWeights : NamespaceWeights[n] \in Nat
<1>1. Correlation!ToSet(Correlation!Severities) = {Correlation!Severities[k] : k \in 1 .. 5}
  BY DEF Correlation!ToSet, Correlation!Severities
<1> QED
  BY <1>1, AnalysisAssumptions DEF Correlation!CorrelationAssumption, Correlation!WeightAssumption

\* The list holds events, none of them twice.
CollectedInv ==
  /\ collected \in Seq(Events)
  /\ \A i, j \in 1 .. Len(collected) : collected[i] = collected[j] => i = j

\* Each step collects one event that is new.
LEMMA CollectedStep ==
  ASSUME CollectedInv, [AnalysisNext]_analysisVars
  PROVE  CollectedInv'
<1>1. CASE UNCHANGED correlationVars
  BY <1>1 DEF correlationVars, CollectedInv
<1>2. ASSUME NEW e \in Events, Correlation!Collect(e) PROVE CollectedInv'
  <2>1. collected' = Append(collected, e) /\ \A i \in 1 .. Len(collected) : collected[i] # e
    BY <1>2 DEF Correlation!Collect, Correlation!Contains
  <2>2. /\ collected' \in Seq(Events) /\ Len(collected') = Len(collected) + 1 /\ Len(collected) \in Nat
        /\ collected'[Len(collected) + 1] = e
        /\ \A k \in 1 .. Len(collected) : collected'[k] = collected[k]
    BY <2>1, Appended DEF CollectedInv
  <2>3. ASSUME NEW i \in 1 .. Len(collected'), NEW j \in 1 .. Len(collected'),
               collected'[i] = collected'[j]
        PROVE  i = j
    <3>1. (i \in 1 .. Len(collected) \/ i = Len(collected) + 1)
          /\ (j \in 1 .. Len(collected) \/ j = Len(collected) + 1)
      BY <2>2, <2>3
    <3> QED
      BY <2>1, <2>2, <2>3, <3>1 DEF CollectedInv
  <2> QED
    BY <2>2, <2>3 DEF CollectedInv
<1> QED
  BY <1>1, <1>2 DEF AnalysisNext, analysisVars, Correlation!Next

LEMMA CollectedHolds == AnalysisSpec => []CollectedInv
<1>1. AnalysisInit => CollectedInv
  BY DEF AnalysisInit, Correlation!Init, CollectedInv
<1> QED
  BY <1>1, CollectedStep, PTL DEF AnalysisSpec

\* The collected events are a list of known severities and moments.
LEMMA EventList ==
  ASSUME NEW evs \in Seq(Events)
  PROVE  Stamped(evs) /\ Len(evs) \in Nat /\ \A i \in 1 .. Len(evs) : evs[i] \in Events
<1>1. Len(evs) \in Nat /\ \A i \in 1 .. Len(evs) : evs[i] \in Events
  OBVIOUS
<1> QED
  BY <1>1, EventFacts DEF Stamped, IsList

\* An incident of a list of events.
LEMMA IncidentFacts ==
  ASSUME NEW evs \in Seq(Events), NEW i \in 1 .. Len(evs),
         NEW w, w = Correlation!Workload(evs[i])
  PROVE  /\ w \in Correlation!Grouped(evs) /\ i \in Correlation!Places(evs, w)
         /\ Correlation!CorrelateIncidents(evs)[w].events = Correlation!Group(evs, w)
         /\ Correlation!CorrelateIncidents(evs)[w].severity
              = Correlation!Highest(Correlation!Group(evs, w))
<1>1. w \in Correlation!Grouped(evs) /\ i \in Correlation!Places(evs, w)
  BY DEF Correlation!Grouped, Correlation!Places
<1>2. Correlation!CorrelateIncidents(evs)[w] = Correlation!Incident(Correlation!Group(evs, w))
  BY <1>1 DEF Correlation!CorrelateIncidents
<1> QED
  BY <1>1, <1>2 DEF Correlation!Incident

\* The incident of an event's workload holds it once.
LEMMA EachEventOnce ==
  ASSUME CollectedInv, NEW i \in 1 .. Len(collected),
         NEW g, g = Correlation!Group(collected, Correlation!Workload(collected[i]))
  PROVE  Cardinality({k \in 1 .. Len(g) : g[k] = collected[i]}) = 1
<1>1. PICK at, n, r :
        /\ at = Correlation!Places(collected, Correlation!Workload(collected[i]))
        /\ n = Cardinality(at)
        /\ r = Cardinality(Upto(collected, Correlation!Workload(collected[i]), i))
  OBVIOUS
<1>2. PICK place : place = [k \in 1 .. n |-> Place(collected, Correlation!Workload(collected[i]), k)]
  OBVIOUS
<1>3. Stamped(collected)
  BY EventList DEF CollectedInv
<1>4. i \in at
  BY <1>1 DEF Correlation!Places
<1>5. /\ at \subseteq 1 .. Len(collected) /\ n \in Nat
      /\ r \in 1 .. n /\ place[r] = i
      /\ \A k \in 1 .. n : place[k] \in at /\ g[k] = collected[place[k]]
      /\ \A k \in 1 .. n : place[k] = i => k = r
      /\ Len(g) = n
  <2>1. at \subseteq 1 .. Len(collected) /\ n \in Nat /\ r \in 1 .. n /\ Len(g) = n
    BY <1>1, <1>3, <1>4, GroupFacts
  <2>2. Place(collected, Correlation!Workload(collected[i]), r) = i
    BY <1>1, <1>3, <1>4, GroupFacts
  <2>3. \A k \in 1 .. n :
          LET p == Place(collected, Correlation!Workload(collected[i]), k)
          IN /\ p \in at /\ g[k] = collected[p]
             /\ Cardinality(Upto(collected, Correlation!Workload(collected[i]), p)) = k
    BY <1>1, <1>3, GroupFacts
  <2> QED
    BY <1>1, <1>2, <2>1, <2>2, <2>3
<1>6. {k \in 1 .. Len(g) : g[k] = collected[i]} = {r}
  <2>1. \A k \in 1 .. n : g[k] = collected[i] <=> k = r
    BY <1>5 DEF CollectedInv
  <2> QED
    BY <1>5, <2>1
<1> QED
  BY <1>6, FS_Singleton

\* The severities are ordered as their points are.
LEMMA SeverityOrder ==
  ASSUME NEW j \in 1 .. 5, NEW k \in 1 .. 5
  PROVE  /\ Correlation!SeverityPoints(Correlation!Severities[j]) \in Nat
         /\ j <= k => Correlation!SeverityPoints(Correlation!Severities[j])
                        <= Correlation!SeverityPoints(Correlation!Severities[k])
         /\ Correlation!Severities[j] = Correlation!Severities[k] => j = k
<1>1. PICK points : points = [h \in 1 .. 5 |-> Correlation!SeverityPoints(Correlation!Severities[h])]
  OBVIOUS
<1>2. points[1] = 0 /\ points[2] = 5 /\ points[3] = 15 /\ points[4] = 25 /\ points[5] = 40
  BY <1>1 DEF Correlation!Severities, Correlation!SeverityPoints
<1>3. (j = 1 \/ j = 2 \/ j = 3 \/ j = 4 \/ j = 5) /\ (k = 1 \/ k = 2 \/ k = 3 \/ k = 4 \/ k = 5)
  OBVIOUS
<1>4. points[j] \in Nat /\ (j <= k => points[j] <= points[k])
  BY <1>2, <1>3
<1>5. Correlation!Severities[j] = Correlation!Severities[k] => j = k
  BY <1>3 DEF Correlation!Severities
<1> QED
  BY <1>1, <1>4, <1>5

\* A set of numbers with a bound has a greatest one, which Max finds.
LEMMA Greatest ==
  ASSUME NEW n \in Nat, NEW S \in SUBSET Nat, S # {}, \A j \in S : j <= n
  PROVE  Correlation!Max(S) \in S /\ \A j \in S : j <= Correlation!Max(S)
<1>1. PICK above : above = {n - j : j \in S}
  OBVIOUS
<1>2. above \in SUBSET Nat /\ above # {}
  <2>1. \A j \in S : n - j \in Nat
    OBVIOUS
  <2> QED
    BY <1>1, <2>1
<1>3. PICK m \in above : \A d \in above : m <= d
  BY <1>2, LeastNatural
<1>4. PICK last \in S : m = n - last
  BY <1>1
<1>5. \A j \in S : last >= j
  <2>1. \A j \in S : n - last <= n - j
    BY <1>1, <1>3, <1>4
  <2> QED
    BY <2>1
<1>6. Correlation!Max(S) \in S /\ \A j \in S : Correlation!Max(S) >= j
  BY <1>5 DEF Correlation!Max
<1> QED
  BY <1>6

\* The severity of a group is that of none of its events less.
LEMMA HighestFacts ==
  ASSUME NEW g, IsList(g), \A k \in 1 .. Len(g) : \E h \in 1 .. 5 : g[k].severity = Correlation!Severities[h],
         NEW i \in 1 .. Len(g)
  PROVE  Correlation!SeverityPoints(Correlation!Highest(g)) >= Correlation!SeverityPoints(g[i].severity)
<1> DEFINE index(s) == CHOOSE k \in 1 .. Len(Correlation!Severities) : Correlation!Severities[k] = s
           S == {index("LOW")} \cup {index(g[k].severity) : k \in 1 .. Len(g)}
<1>1. Len(Correlation!Severities) = 5
  BY DEF Correlation!Severities
<1>2. \A h \in 1 .. 5 : index(Correlation!Severities[h]) = h
  <2> SUFFICES ASSUME NEW h \in 1 .. 5 PROVE index(Correlation!Severities[h]) = h
    OBVIOUS
  <2>1. \A k \in 1 .. 5 : Correlation!Severities[k] = Correlation!Severities[h] => k = h
    BY SeverityOrder
  <2> QED
    BY <1>1, <2>1
<1>3. Correlation!Severities[2] = "LOW"
  BY DEF Correlation!Severities
<1>4. PICK h \in 1 .. 5 : g[i].severity = Correlation!Severities[h]
  OBVIOUS
<1>5. Correlation!Highest(g) = Correlation!Severities[Correlation!Max(S)]
  BY DEF Correlation!Highest
<1> HIDE DEF index
<1>6. \A j \in S : j \in Nat /\ j <= 5 /\ j \in 1 .. 5
  <2>1. index("LOW") \in 1 .. 5
    BY <1>2, <1>3
  <2>2. \A k \in 1 .. Len(g) : index(g[k].severity) \in 1 .. 5
    BY <1>2
  <2>3. \A j \in S : j \in 1 .. 5
    BY <2>1, <2>2
  <2>4. \A j \in 1 .. 5 : j \in Nat /\ j <= 5
    OBVIOUS
  <2> QED
    BY <2>3, <2>4, Zenon
<1>7. h \in S
  BY <1>2, <1>4
<1>8. PICK m \in 1 .. 5 : m = Correlation!Max(S) /\ h <= m
  <2>1. PICK T : T = S
    OBVIOUS
  <2>2. T \in SUBSET Nat /\ T # {} /\ \A j \in T : j <= 5
    BY <1>6, <1>7, <2>1
  <2>3. Correlation!Max(T) \in T /\ \A j \in T : j <= Correlation!Max(T)
    BY <2>2, Greatest
  <2> QED
    BY <1>6, <1>7, <2>1, <2>3
<1>9. /\ Correlation!SeverityPoints(Correlation!Severities[h]) \in Nat
      /\ Correlation!SeverityPoints(Correlation!Severities[m]) \in Nat
      /\ Correlation!SeverityPoints(Correlation!Severities[h])
           <= Correlation!SeverityPoints(Correlation!Severities[m])
  BY <1>8, SeverityOrder
<1> QED
  BY <1>4, <1>5, <1>8, <1>9

\* A map that is injective and onto keeps the size.
LEMMA IsBijection ==
  ASSUME NEW S, NEW T, IsFiniteSet(S), NEW f \in [S -> T],
         \A x, y \in S : f[x] = f[y] => x = y,
         \A y \in T : \E x \in S : f[x] = y
  PROVE  IsFiniteSet(T) /\ Cardinality(T) = Cardinality(S)
<1>1. f \in Bijection(S, T)
  BY DEF Bijection, Injection, Surjection, IsInjective
<1>2. ExistsBijection(S, T)
  BY <1>1 DEF ExistsBijection
<1> QED
  BY <1>2, FS_Bijection

\* A list has finitely many workloads.
LEMMA WorkloadsFinite ==
  ASSUME NEW evs \in Seq(Events)
  PROVE  IsFiniteSet(Correlation!Grouped(evs))
<1>1. Len(evs) \in Nat /\ IsFiniteSet(1 .. Len(evs))
  BY IntervalSize
<1>2. PICK of : of = [i \in 1 .. Len(evs) |-> Correlation!Workload(evs[i])]
  OBVIOUS
<1>3. of \in Surjection(1 .. Len(evs), Correlation!Grouped(evs))
  BY <1>2 DEF Surjection, Correlation!Grouped
<1> QED
  BY <1>1, <1>3, FS_Surjection

\* An event goes to its rank in the group of its workload, and every place is such a rank.
LEMMA NoneLostOrAdded ==
  ASSUME NEW evs \in Seq(Events),
         NEW sizes, sizes = [r \in Correlation!Grouped(evs) |-> Len(Correlation!Group(evs, r))]
  PROVE  Correlation!SumFunction(sizes) = Len(evs)
<1> DEFINE T == Units(sizes, Correlation!Grouped(evs))
<1>1. Stamped(evs) /\ Len(evs) \in Nat
  BY EventList
<1>2. \A r \in Correlation!Grouped(evs) :
        sizes[r] = Cardinality(Correlation!Places(evs, r)) /\ sizes[r] \in Nat
  BY <1>1, GroupFacts
<1>3. Counted(sizes, Correlation!Grouped(evs))
  BY <1>2, WorkloadsFinite DEF Counted
<1>4. PICK rank : rank = [i \in 1 .. Len(evs) |->
                           <<Correlation!Workload(evs[i]),
                             Cardinality(Upto(evs, Correlation!Workload(evs[i]), i))>>]
  OBVIOUS
<1>5. \A i \in 1 .. Len(evs) : /\ Correlation!Workload(evs[i]) \in Correlation!Grouped(evs)
                               /\ i \in Correlation!Places(evs, Correlation!Workload(evs[i]))
  BY DEF Correlation!Grouped, Correlation!Places
<1>6. rank \in [1 .. Len(evs) -> T]
  <2> SUFFICES ASSUME NEW i \in 1 .. Len(evs) PROVE rank[i] \in T
    BY <1>4
  <2>1. PICK r : r = Correlation!Workload(evs[i])
    OBVIOUS
  <2>2. r \in Correlation!Grouped(evs) /\ i \in Correlation!Places(evs, r)
    BY <1>5, <2>1
  <2>3. Cardinality(Upto(evs, r, i)) \in 1 .. sizes[r]
    BY <1>1, <1>2, <2>2, GroupFacts
  <2> QED
    BY <1>4, <2>1, <2>2, <2>3 DEF Units
<1>7. ASSUME NEW i \in 1 .. Len(evs), NEW j \in 1 .. Len(evs), rank[i] = rank[j]
      PROVE  i = j
  <2>1. PICK r : r = Correlation!Workload(evs[i])
    OBVIOUS
  <2>2. r = Correlation!Workload(evs[j]) /\ Cardinality(Upto(evs, r, i)) = Cardinality(Upto(evs, r, j))
    BY <1>4, <1>7, <2>1
  <2>3. i \in Correlation!Places(evs, r) /\ j \in Correlation!Places(evs, r)
    BY <1>5, <2>1, <2>2
  <2>4. /\ Place(evs, r, Cardinality(Upto(evs, r, i))) = i
        /\ Place(evs, r, Cardinality(Upto(evs, r, j))) = j
    BY <1>1, <2>3, GroupFacts
  <2> QED
    BY <2>2, <2>4
<1>8. ASSUME NEW u \in T PROVE \E i \in 1 .. Len(evs) : rank[i] = u
  <2>1. PICK r \in Correlation!Grouped(evs), k \in Nat : k \in 1 .. sizes[r] /\ u = <<r, k>>
    BY <1>2 DEF Units
  <2>2. PICK i : i = Place(evs, r, k)
    OBVIOUS
  <2>3. k \in 1 .. Cardinality(Correlation!Places(evs, r))
    BY <1>2, <2>1
  <2>4. i \in Correlation!Places(evs, r) /\ Cardinality(Upto(evs, r, i)) = k
    BY <1>1, <2>2, <2>3, GroupFacts
  <2>5. i \in 1 .. Len(evs) /\ Correlation!Workload(evs[i]) = r
    BY <2>4 DEF Correlation!Places
  <2> QED
    BY <1>4, <2>1, <2>4, <2>5
<1>9. Cardinality(T) = Cardinality(1 .. Len(evs)) /\ Cardinality(1 .. Len(evs)) = Len(evs)
  <2>1. IsFiniteSet(1 .. Len(evs)) /\ Cardinality(1 .. Len(evs)) = Len(evs)
    BY <1>1, IntervalSize
  <2> HIDE DEF T
  <2> QED
    BY <1>6, <1>7, <1>8, <2>1, IsBijection
<1>10. DOMAIN sizes = Correlation!Grouped(evs)
  OBVIOUS
<1>11. Correlation!SumFunction(sizes) = Correlation!SumFunctionOnSet(sizes, Correlation!Grouped(evs))
  BY <1>10 DEF Correlation!SumFunction
<1> QED
  BY <1>3, <1>9, <1>11, SumIsCount

\* Correlation loses, doubles and misfiles nothing.
LEMMA AllAccountedFor ==
  ASSUME CollectedInv
  PROVE  Correlation!EventsAccountedFor
<1>1. collected \in Seq(Events)
  BY DEF CollectedInv
<1>2. ASSUME NEW i \in 1 .. Len(collected)
      PROVE  LET inc == Correlation!Incidents[Correlation!Workload(collected[i])]
             IN /\ Correlation!Cardinality({k \in 1 .. Len(inc.events) : inc.events[k] = collected[i]}) = 1
                /\ Correlation!SeverityPoints(inc.severity)
                     >= Correlation!SeverityPoints(collected[i].severity)
  <2>1. PICK r, g : r = Correlation!Workload(collected[i]) /\ g = Correlation!Group(collected, r)
    OBVIOUS
  <2>2. /\ i \in Correlation!Places(collected, r)
        /\ Correlation!Incidents[r].events = g
        /\ Correlation!Incidents[r].severity = Correlation!Highest(g)
    BY <1>1, <2>1, IncidentFacts DEF Correlation!Incidents
  <2>3. Cardinality({k \in 1 .. Len(g) : g[k] = collected[i]}) = 1
    BY <2>1, EachEventOnce
  <2>4. Stamped(collected) /\ \A k \in 1 .. Len(collected) : collected[k] \in Events
    BY <1>1, EventList
  <2>5. PICK n : n = Cardinality(Correlation!Places(collected, r))
    OBVIOUS
  <2>6. /\ IsList(g) /\ Len(g) = n
        /\ \A k \in 1 .. n : g[k] = collected[Place(collected, r, k)]
                             /\ Place(collected, r, k) \in Correlation!Places(collected, r)
    BY <2>1, <2>4, <2>5, GroupFacts
  <2>7. PICK k \in 1 .. n : g[k] = collected[i]
    <3>1. /\ Cardinality(Upto(collected, r, i)) \in 1 .. n
          /\ Place(collected, r, Cardinality(Upto(collected, r, i))) = i
      BY <2>2, <2>4, <2>5, GroupFacts
    <3> QED
      BY <2>6, <3>1
  <2>8. \A h \in 1 .. Len(g) : \E m \in 1 .. 5 : g[h].severity = Correlation!Severities[m]
    <3>1. \A h \in 1 .. n : g[h] \in Events
      BY <2>4, <2>6 DEF Correlation!Places
    <3> QED
      BY <2>6, <3>1, EventFacts
  <2>9. Correlation!SeverityPoints(Correlation!Highest(g)) >= Correlation!SeverityPoints(g[k].severity)
    BY <2>6, <2>7, <2>8, HighestFacts
  <2> QED
    BY <2>1, <2>2, <2>3, <2>7, <2>9, SameCount
<1>3. Correlation!SumFunction([r \in DOMAIN Correlation!Incidents |-> Len(Correlation!Incidents[r].events)])
        = Len(collected)
  <2>1. DOMAIN Correlation!Incidents = Correlation!Grouped(collected)
    BY DEF Correlation!Incidents, Correlation!CorrelateIncidents
  <2>2. \A r \in Correlation!Grouped(collected) :
          Correlation!Incidents[r].events = Correlation!Group(collected, r)
    BY DEF Correlation!Incidents, Correlation!CorrelateIncidents, Correlation!Incident
  <2>3. [r \in DOMAIN Correlation!Incidents |-> Len(Correlation!Incidents[r].events)]
          = [r \in Correlation!Grouped(collected) |-> Len(Correlation!Group(collected, r))]
    BY <2>1, <2>2
  <2> QED
    BY <1>1, <2>3, NoneLostOrAdded
<1> QED
  BY <1>2, <1>3 DEF Correlation!EventsAccountedFor

----------------------------------------------------------------------------------
(* The order of arrival *)

\* Another order of arrival of the same events.
Permutes(p, n) == p \in [1 .. n -> 1 .. n] /\ \A i, j \in 1 .. n : i # j => p[i] # p[j]
Permuted(evs, p) == [i \in 1 .. Len(evs) |-> evs[p[i]]]

\* No two events of the workload have the same timestamp.
DistinctTimes(evs, r) ==
  \A i, j \in Correlation!Places(evs, r) : i # j =>
    Correlation!TextOrder(evs[i].stamp) # Correlation!TextOrder(evs[j].stamp)

\* A permutation leaves no place out.
LEMMA PermutesOnto ==
  ASSUME NEW n \in Nat, NEW p, Permutes(p, n)
  PROVE  \A k \in 1 .. n : \E i \in 1 .. n : p[i] = k
<1>1. IsFiniteSet(1 .. n)
  BY IntervalSize
<1>2. p \in Injection(1 .. n, 1 .. n)
  BY DEF Injection, IsInjective, Permutes
<1>3. p \in Surjection(1 .. n, 1 .. n)
  BY <1>1, <1>2, FS_Injection
<1> QED
  BY <1>3 DEF Surjection

\* A permutation of a list: the places of a workload are those that lead to its places.
LEMMA PermutedGroup ==
  ASSUME NEW evs \in Seq(Events), NEW n, n = Len(evs),
         NEW p, Permutes(p, n), NEW other, other = Permuted(evs, p),
         NEW r, DistinctTimes(evs, r)
  PROVE  Correlation!Group(other, r) = Correlation!Group(evs, r)
<1> DEFINE at == Correlation!Places(evs, r)
           from == Correlation!Places(other, r)
<1>1. n \in Nat /\ Stamped(evs) /\ \A i \in 1 .. n : evs[i] \in Events
  BY EventList
<1>2. other \in Seq(Events) /\ Len(other) = n /\ Stamped(other)
  <2>1. other \in Seq(Events) /\ Len(other) = n
    <3>1. \A i \in 1 .. n : evs[p[i]] \in Events
      BY <1>1 DEF Permutes
    <3>2. PICK h : h = [i \in 1 .. n |-> evs[p[i]]]
      OBVIOUS
    <3>3. h \in [1 .. n -> Events]
      BY <3>1, <3>2
    <3>4. h \in Seq(Events) /\ Len(h) = n
      BY <1>1, <3>3
    <3> QED
      BY <3>2, <3>4 DEF Permuted
  <2> QED
    BY <2>1, EventList
<1>3. at = {i \in 1 .. n : Correlation!Workload(evs[i]) = r}
  BY DEF Correlation!Places
<1>4. from = {i \in 1 .. n : p[i] \in at}
  BY <1>2, <1>3 DEF Correlation!Places, Permutes, Permuted
<1>5. \A k \in 1 .. n : \E i \in 1 .. n : p[i] = k
  BY <1>1, PermutesOnto
\* as many places lead to a set of places as it has
<1>6. ASSUME NEW S \in SUBSET (1 .. n)
      PROVE  Cardinality({i \in 1 .. n : p[i] \in S}) = Cardinality(S)
  <2>1. PICK B : B = {i \in 1 .. n : p[i] \in S}
    OBVIOUS
  <2>2. IsFiniteSet(B)
    BY <1>1, <2>1, IntervalSize, FS_Subset
  <2>3. PICK lead : lead = [i \in B |-> p[i]]
    OBVIOUS
  <2>4. lead \in [B -> S] /\ \A x, y \in B : lead[x] = lead[y] => x = y
    BY <2>1, <2>3 DEF Permutes
  <2>5. \A k \in S : \E i \in B : lead[i] = k
    BY <1>5, <2>1, <2>3
  <2>6. Cardinality(S) = Cardinality(B)
    BY ONLY <2>2, <2>4, <2>5, IsBijection
  <2> QED
    BY <2>1, <2>6
<1>7. ASSUME NEW i \in from
      PROVE  Upto(other, r, i) = {j \in 1 .. n : p[j] \in Upto(evs, r, p[i])}
  <2>1. i \in 1 .. n /\ p[i] \in at
    BY <1>4
  <2>2. ASSUME NEW j \in from
        PROVE  Correlation!Precedes(other, j, i) <=> Correlation!Precedes(evs, p[j], p[i])
    <3>1. j \in 1 .. n /\ p[j] \in at
      BY <1>4, <2>2
    <3>2. other[i] = evs[p[i]] /\ other[j] = evs[p[j]]
      BY <2>1, <3>1 DEF Permuted
    <3>3. PICK a, b : a = Correlation!TextOrder(evs[p[j]].stamp) /\ b = Correlation!TextOrder(evs[p[i]].stamp)
      OBVIOUS
    <3>4. a \in Nat /\ b \in Nat
      <4>1. p[i] \in 1 .. n /\ p[j] \in 1 .. n
        BY <1>3, <2>1, <3>1
      <4>2. evs[p[i]].stamp.sec \in Nat /\ evs[p[j]].stamp.sec \in Nat
        BY <1>1, <4>1 DEF Stamped
      <4> QED
        BY <3>3, <4>2, TextOrderNat
    <3>5. Correlation!Precedes(other, j, i) <=> a < b \/ (a = b /\ j <= i)
      BY <3>2, <3>3 DEF Correlation!Precedes
    <3>6. Correlation!Precedes(evs, p[j], p[i]) <=> a < b \/ (a = b /\ p[j] <= p[i])
      BY <3>3 DEF Correlation!Precedes
    <3>7. CASE i = j
      <4>1. i \in Nat /\ p[i] \in Nat
        BY <1>1, <2>1 DEF Permutes
      <4> QED
        BY <3>5, <3>6, <3>7, <4>1
    <3>8. CASE i # j
      <4>1. a # b
        BY <2>1, <3>1, <3>3, <3>8 DEF Permutes, DistinctTimes
      <4> QED
        BY <3>5, <3>6, <4>1
    <3> QED
      BY <3>7, <3>8
  <2>3. Upto(other, r, i) = {j \in from : Correlation!Precedes(evs, p[j], p[i])}
    BY <2>2 DEF Upto
  <2>4. Upto(evs, r, p[i]) = {k \in at : Correlation!Precedes(evs, k, p[i])}
    BY DEF Upto
  <2> HIDE DEF at, from
  <2> QED
    BY <1>4, <2>3, <2>4
<1>8. Cardinality(from) = Cardinality(at)
  BY <1>3, <1>4, <1>6
<1>9. ASSUME NEW i \in from
      PROVE  Cardinality(Upto(other, r, i)) = Cardinality(Upto(evs, r, p[i]))
  <2>1. Upto(evs, r, p[i]) \in SUBSET (1 .. n)
    BY <1>3 DEF Upto
  <2> QED
    BY <1>6, <1>7, <1>9, <2>1
<1>10. \A k \in 1 .. Cardinality(at) : other[Place(other, r, k)] = evs[Place(evs, r, k)]
  <2> SUFFICES ASSUME NEW k \in 1 .. Cardinality(at)
               PROVE  other[Place(other, r, k)] = evs[Place(evs, r, k)]
    OBVIOUS
  <2>1. PICK i : i = Place(other, r, k)
    OBVIOUS
  <2>2. i \in from /\ Cardinality(Upto(other, r, i)) = k
    <3>1. k \in 1 .. Cardinality(from)
      BY <1>8
    <3> QED
      BY <1>2, <2>1, <3>1, GroupFacts
  <2>3. i \in 1 .. n /\ p[i] \in at /\ Cardinality(Upto(evs, r, p[i])) = k
    BY <1>4, <1>9, <2>2
  <2>4. Place(evs, r, k) = p[i]
    BY <1>1, <2>3, GroupFacts
  <2> QED
    BY <2>1, <2>3, <2>4 DEF Permuted
<1> QED
  BY <1>8, <1>10, GroupIsPlaced

\* No two events of a workload with one timestamp: then the order of arrival does not show.
LEMMA ArrivalDoesNotShow ==
  ASSUME CollectedInv
  PROVE  Correlation!ArrivalOrderIrrelevant
<1>1. collected \in Seq(Events)
  BY DEF CollectedInv
<1>2. SUFFICES ASSUME
        \A i, j \in 1 .. Len(collected) :
          i # j /\ Correlation!Workload(collected[i]) = Correlation!Workload(collected[j])
          => Correlation!TextOrder(collected[i].stamp) # Correlation!TextOrder(collected[j].stamp),
        NEW p, Permutes(p, Len(collected))
      PROVE Correlation!CorrelateIncidents(Permuted(collected, p)) = Correlation!Incidents
  BY DEF Correlation!ArrivalOrderIrrelevant, Permutes, Permuted
<1>3. PICK other, n : other = Permuted(collected, p) /\ n = Len(collected)
  OBVIOUS
<1>4. \A r : Correlation!Group(other, r) = Correlation!Group(collected, r)
  <2> SUFFICES ASSUME NEW r PROVE Correlation!Group(other, r) = Correlation!Group(collected, r)
    OBVIOUS
  <2>1. DistinctTimes(collected, r)
    BY <1>2 DEF Correlation!Places, DistinctTimes
  <2>2. Permutes(p, n)
    BY <1>2, <1>3
  <2> QED
    BY <1>1, <1>3, <2>1, <2>2, PermutedGroup
<1>5. Correlation!Grouped(other) = Correlation!Grouped(collected)
  <2>1. n \in Nat /\ Permutes(p, n)
    BY <1>1, <1>2, <1>3
  <2>2. \A k \in 1 .. n : \E i \in 1 .. n : p[i] = k
    BY <2>1, PermutesOnto
  <2>3. Len(other) = n /\ \A i \in 1 .. n : other[i] = collected[p[i]] /\ p[i] \in 1 .. n
    BY <1>3, <2>1 DEF Permutes, Permuted
  <2>4. \A i \in 1 .. n : Correlation!Workload(other[i]) = Correlation!Workload(collected[p[i]])
    BY <2>3
  <2>5. /\ Correlation!Grouped(other) = {Correlation!Workload(other[i]) : i \in 1 .. n}
        /\ Correlation!Grouped(collected) = {Correlation!Workload(collected[i]) : i \in 1 .. n}
    BY <1>3, <2>3 DEF Correlation!Grouped
  <2>6. \A k \in 1 .. n : \E i \in 1 .. n : Correlation!Workload(collected[k]) = Correlation!Workload(other[i])
    BY <2>2, <2>4
  <2> QED
    BY <2>3, <2>4, <2>5, <2>6
<1> QED
  BY <1>3, <1>4, <1>5 DEF Correlation!Incidents, Correlation!CorrelateIncidents

----------------------------------------------------------------------------------
(* The score *)

\* The sum that the points of the model are.
Sum(f, s) == Correlation!SumFunctionOnSet(f, s)

\* Sums of the same values, over two sets with nothing in common, and without the zeros.
LEMMA SumSame ==
  ASSUME NEW f, NEW g, NEW s, Counted(f, s), \A x \in s : g[x] = f[x]
  PROVE  Counted(g, s) /\ Sum(g, s) = Sum(f, s)
<1>1. Counted(g, s) /\ Units(g, s) = Units(f, s)
  BY DEF Counted, Units
<1> QED
  BY <1>1, SumIsCount DEF Sum

LEMMA SumOfTwo ==
  ASSUME NEW f, NEW s, NEW t, Counted(f, s), Counted(f, t), s \cap t = {}
  PROVE  /\ Counted(f, s \cup t) /\ Sum(f, s) \in Nat /\ Sum(f, t) \in Nat
         /\ Sum(f, s \cup t) = Sum(f, s) + Sum(f, t)
<1>1. Counted(f, s \cup t)
  BY FS_Union DEF Counted
<1>2. Units(f, s \cup t) = Units(f, s) \cup Units(f, t)
  BY DEF Units
<1>3. Units(f, s) \cap Units(f, t) = {}
  BY DEF Units
<1>4. /\ IsFiniteSet(Units(f, s)) /\ Cardinality(Units(f, s)) \in Nat
      /\ IsFiniteSet(Units(f, t)) /\ Cardinality(Units(f, t)) \in Nat
  BY UnitsFinite
<1>5. PICK A, B : A = Units(f, s) /\ B = Units(f, t)
  OBVIOUS
<1>6. Cardinality(A \cup B) = Cardinality(A) + Cardinality(B) - Cardinality(A \cap B)
  BY <1>4, <1>5, FS_Union
<1>7. Cardinality(A \cap B) = 0
  BY <1>3, <1>5, FS_EmptySet
<1>8. Cardinality(Units(f, s \cup t)) = Cardinality(Units(f, s)) + Cardinality(Units(f, t))
  BY <1>2, <1>4, <1>5, <1>6, <1>7
<1>9. /\ Sum(f, s) = Cardinality(Units(f, s)) /\ Sum(f, t) = Cardinality(Units(f, t))
      /\ Sum(f, s \cup t) = Cardinality(Units(f, s \cup t))
  BY <1>1, SumIsCount DEF Sum
<1> QED
  BY <1>1, <1>4, <1>8, <1>9

LEMMA SumOfTelling ==
  ASSUME NEW f, NEW s, Counted(f, s), NEW t, t = {x \in s : f[x] > 0}
  PROVE  Counted(f, t) /\ Sum(f, t) = Sum(f, s)
<1>1. t \in SUBSET s
  OBVIOUS
<1>2. Counted(f, t)
  BY <1>1, FS_Subset DEF Counted
<1>3. ASSUME NEW x \in s, NEW k \in 1 .. f[x] PROVE x \in t
  <2>1. f[x] \in Nat
    BY DEF Counted
  <2> QED
    BY <1>3, <2>1
<1>4. Units(f, t) = Units(f, s)
  BY <1>1, <1>3 DEF Units
<1> QED
  BY <1>2, <1>4, SumIsCount DEF Sum

\* A cap keeps the order.
LEMMA CappedFacts ==
  ASSUME NEW a \in Nat, NEW b \in Nat, NEW cap \in Nat, a <= b
  PROVE  Correlation!Least(a, cap) \in Nat /\ Correlation!Least(a, cap) <= Correlation!Least(b, cap)
BY DEF Correlation!Least

\* The points of one severity, and the most of them.
LEMMA PointsOfSeverity ==
  ASSUME NEW s
  PROVE  Correlation!SeverityPoints(s) \in Nat /\ Correlation!SeverityPoints(s) <= 40
BY DEF Correlation!SeverityPoints

\* The severities of a list in points, of which the highest counts.
PointsIn(evs) == {Correlation!SeverityPoints(evs[i].severity) : i \in 1 .. Len(evs)}

LEMMA SeverityFacts ==
  ASSUME NEW evs, IsList(evs)
  PROVE  /\ \E top \in Nat :
              /\ top \in PointsIn(evs) \cup {0} /\ \A k \in PointsIn(evs) \cup {0} : k <= top
              /\ Correlation!Severity(evs) = top + Correlation!Least(4 * Len(evs), 16)
         /\ Correlation!Severity(evs) \in Nat /\ Len(evs) \in Nat
<1>1. PICK S : S = PointsIn(evs) \cup {0}
  OBVIOUS
<1>2. S \in SUBSET Nat /\ S # {} /\ \A k \in S : k <= 40
  BY <1>1, PointsOfSeverity DEF PointsIn
<1>3. Correlation!Max(S) \in S /\ \A k \in S : k <= Correlation!Max(S)
  BY <1>2, Greatest
<1>4. Len(evs) \in Nat
  BY ListFacts
<1>5. 4 * Len(evs) \in Nat /\ 16 \in Nat
  BY <1>4
<1>6. Correlation!Least(4 * Len(evs), 16) \in Nat
  BY <1>5 DEF Correlation!Least
<1>7. Correlation!Severity(evs) = Correlation!Max(S) + Correlation!Least(4 * Len(evs), 16)
  BY <1>1 DEF Correlation!Severity, PointsIn
<1>8. PICK top \in Nat : top = Correlation!Max(S)
  BY <1>2, <1>3
<1>9. Correlation!Severity(evs) \in Nat
  BY <1>6, <1>7, <1>8
<1> QED
  BY <1>1, <1>3, <1>4, <1>7, <1>8, <1>9

\* The techniques and their weights.
Weights(evs) ==
  [t \in Correlation!Techniques(evs) |-> Correlation!Weight(TechniqueWeights, t, 10)]

\* The weights of the techniques are finitely many numbers.
LEMMA WeightsCounted ==
  ASSUME NEW evs, IsList(evs)
  PROVE  /\ Counted(Weights(evs), Correlation!Techniques(evs))
         /\ Correlation!Mitre(evs) = Correlation!Least(Sum(Weights(evs), Correlation!Techniques(evs)), 35)
         /\ Sum(Weights(evs), Correlation!Techniques(evs)) \in Nat
<1>1. Len(evs) \in Nat /\ IsFiniteSet(1 .. Len(evs))
  BY ListFacts, IntervalSize
<1>2. PICK all : all = {evs[i].technique : i \in 1 .. Len(evs)}
  OBVIOUS
<1>3. PICK of : of = [i \in 1 .. Len(evs) |-> evs[i].technique]
  OBVIOUS
<1>4. of \in Surjection(1 .. Len(evs), all)
  BY <1>2, <1>3 DEF Surjection
<1>5. IsFiniteSet(all)
  BY <1>1, <1>4, FS_Surjection
<1>6. Correlation!Techniques(evs) \in SUBSET all
  BY <1>2 DEF Correlation!Techniques
<1>7. IsFiniteSet(Correlation!Techniques(evs))
  BY <1>5, <1>6, FS_Subset
<1>8. \A t : Correlation!Weight(TechniqueWeights, t, 10) \in Nat
  BY EventFacts DEF Correlation!Weight
<1>9. Counted(Weights(evs), Correlation!Techniques(evs))
  BY <1>7, <1>8 DEF Counted, Weights
<1>10. Correlation!Mitre(evs) = Correlation!Least(Sum(Weights(evs), Correlation!Techniques(evs)), 35)
  <2>1. DOMAIN Weights(evs) = Correlation!Techniques(evs)
    BY DEF Weights
  <2> QED
    BY <2>1 DEF Correlation!Mitre, Correlation!SumFunction, Sum, Weights
<1>11. Sum(Weights(evs), Correlation!Techniques(evs)) \in Nat
  BY <1>9, SumIsCount, UnitsFinite DEF Sum
<1> QED
  BY <1>9, <1>10, <1>11

\* A few elements are a finite set.
LEMMA FewFinite ==
  ASSUME NEW a, NEW b, NEW c, NEW d, NEW e, NEW f
  PROVE  IsFiniteSet({a, b, c, d}) /\ IsFiniteSet({a, b, c, d, e, f})
<1>1. IsFiniteSet({a} \cup {b}) /\ IsFiniteSet({c} \cup {d}) /\ IsFiniteSet({e} \cup {f})
  BY FS_Singleton, FS_Union
<1>2. IsFiniteSet(({a} \cup {b}) \cup ({c} \cup {d}))
  BY <1>1, FS_Union
<1>3. IsFiniteSet((({a} \cup {b}) \cup ({c} \cup {d})) \cup ({e} \cup {f}))
  BY <1>1, <1>2, FS_Union
<1>4. /\ {a, b, c, d} = ({a} \cup {b}) \cup ({c} \cup {d})
      /\ {a, b, c, d, e, f} = (({a} \cup {b}) \cup ({c} \cup {d})) \cup ({e} \cup {f})
  OBVIOUS
<1> QED
  BY <1>2, <1>3, <1>4

\* The six fields of a breakdown (risk.py:91-98).
Fields == {"severity_points", "asset_criticality", "privilege_level", "network_exposure",
           "event_volume_clustering", "mitre_technique_weight"}

LEMMA PrivilegesCounted ==
  ASSUME NEW s
  PROVE  /\ Counted(Correlation!PrivilegeFactors, Correlation!Factors(s))
         /\ Correlation!Factors(s) \subseteq {"privileged", "host", "root", "writable"}
         /\ Correlation!Privilege(s) = Sum(Correlation!PrivilegeFactors, Correlation!Factors(s))
         /\ Correlation!Privilege(s) \in Nat
<1>1. PICK all : all = {"privileged", "host", "root", "writable"}
  OBVIOUS
<1>2. DOMAIN Correlation!PrivilegeFactors = all
      /\ \A f \in all : Correlation!PrivilegeFactors[f] \in Nat
  BY <1>1 DEF Correlation!PrivilegeFactors
<1>3. IsFiniteSet(all)
  BY <1>1, FewFinite
<1>4. Correlation!Factors(s) \in SUBSET all
  BY <1>2 DEF Correlation!Factors
<1>5. Counted(Correlation!PrivilegeFactors, Correlation!Factors(s))
  BY <1>2, <1>3, <1>4, FS_Subset DEF Counted
<1>6. Correlation!Privilege(s) = Sum(Correlation!PrivilegeFactors, Correlation!Factors(s))
  BY DEF Correlation!Privilege, Sum
<1>7. Correlation!Privilege(s) \in Nat
  BY <1>5, <1>6, SumIsCount, UnitsFinite DEF Sum
<1> QED
  BY <1>1, <1>4, <1>5, <1>6, <1>7

\* Every field of a breakdown holds points.
LEMMA BreakdownCounted ==
  ASSUME NEW evs, IsList(evs), NEW r, NEW s,
         NEW b, b = Correlation!Breakdown(evs, r, s)
  PROVE  /\ DOMAIN b = Fields /\ Counted(b, Fields)
         /\ b.severity_points = Correlation!Severity(evs)
         /\ b.asset_criticality = Correlation!Asset(r)
         /\ b.privilege_level = Correlation!Privilege(s)
         /\ b.network_exposure = Correlation!Network(evs)
         /\ b.event_volume_clustering = Correlation!Burst(evs)
         /\ b.mitre_technique_weight = Correlation!Mitre(evs)
         /\ Correlation!Burst(evs) \in {0, 12}
         /\ Correlation!RawTotal(b) = Sum(b, Fields)
<1>1. Correlation!Severity(evs) \in Nat
  BY SeverityFacts
<1>2. Correlation!Asset(r) \in Nat
  BY EventFacts DEF Correlation!Asset, Correlation!Weight
<1>3. Correlation!Privilege(s) \in Nat
  BY PrivilegesCounted
<1>4. Correlation!Network(evs) \in Nat
  BY DEF Correlation!Network
<1>5. Correlation!Burst(evs) \in {0, 12}
  BY DEF Correlation!Burst
<1>6. Correlation!Mitre(evs) \in Nat
  BY WeightsCounted DEF Correlation!Least
<1>7. IsFiniteSet(Fields)
  BY FewFinite DEF Fields
<1>8. DOMAIN b = Fields
  BY DEF Correlation!Breakdown, Fields
<1>9. /\ b.severity_points = Correlation!Severity(evs)
      /\ b.asset_criticality = Correlation!Asset(r)
      /\ b.privilege_level = Correlation!Privilege(s)
      /\ b.network_exposure = Correlation!Network(evs)
      /\ b.event_volume_clustering = Correlation!Burst(evs)
      /\ b.mitre_technique_weight = Correlation!Mitre(evs)
  BY DEF Correlation!Breakdown
<1>10. \A f \in Fields : b[f] \in Nat
  BY <1>1, <1>2, <1>3, <1>4, <1>5, <1>6, <1>9 DEF Fields
<1>11. Correlation!RawTotal(b) = Sum(b, Fields)
  BY <1>8 DEF Correlation!RawTotal, Correlation!SumFunction, Sum
<1> QED
  BY <1>5, <1>7, <1>8, <1>9, <1>10, <1>11 DEF Counted

\* Every point of the total is that of a contributor.
LEMMA AllAttributed ==
  ASSUME NEW evs, IsList(evs), NEW r, NEW s
  PROVE  Correlation!SumFunction(Correlation!Contributors(evs, r, s))
           = Correlation!RawTotal(Correlation!Breakdown(evs, r, s))
<1>1. PICK b, c : b = Correlation!Breakdown(evs, r, s) /\ c = Correlation!Contributors(evs, r, s)
  OBVIOUS
<1>2. PICK F, T, others :
        /\ F = Correlation!Factors(s) /\ others = Fields \ {"privilege_level"}
        /\ T = {f \in others : b[f] > 0}
  OBVIOUS
<1>3. DOMAIN b = Fields /\ Counted(b, Fields) /\ b.privilege_level = Correlation!Privilege(s)
      /\ Correlation!RawTotal(b) = Sum(b, Fields)
  BY <1>1, BreakdownCounted
<1>4. /\ Counted(Correlation!PrivilegeFactors, F)
      /\ F \subseteq {"privileged", "host", "root", "writable"}
      /\ Correlation!Privilege(s) = Sum(Correlation!PrivilegeFactors, F)
      /\ Correlation!Privilege(s) \in Nat
  BY <1>2, PrivilegesCounted
<1>5. F \cap T = {}
  BY <1>2, <1>4 DEF Fields
<1>6. c = [f \in F \cup T |-> IF f \in T THEN b[f] ELSE Correlation!PrivilegeFactors[f]]
  BY <1>1, <1>2, <1>3 DEF Correlation!Contributors
<1>7. DOMAIN c = F \cup T /\ (\A f \in T : c[f] = b[f])
      /\ \A f \in F : c[f] = Correlation!PrivilegeFactors[f]
  BY <1>5, <1>6
<1>8. Counted(b, others)
  BY <1>2, <1>3, FS_Subset DEF Counted
<1>9. Counted(b, T) /\ Sum(b, T) = Sum(b, others)
  BY <1>2, <1>8, SumOfTelling
<1>10. Counted(c, T) /\ Sum(c, T) = Sum(b, T)
  BY <1>7, <1>9, SumSame
<1>11. Counted(c, F) /\ Sum(c, F) = Sum(Correlation!PrivilegeFactors, F)
  BY <1>4, <1>7, SumSame
<1>12. Sum(c, F \cup T) = Sum(c, F) + Sum(c, T) /\ Sum(c, T) \in Nat
  BY <1>5, <1>10, <1>11, SumOfTwo
<1>13. Sum(b, Fields) = Sum(b, others) + b.privilege_level
  <2>1. Fields = others \cup {"privilege_level"} /\ "privilege_level" \notin others
    BY <1>2 DEF Fields
  <2>2. b["privilege_level"] \in Nat
    BY <1>3, <1>4
  <2> QED
    BY <1>8, <2>1, <2>2, SumMore DEF Sum
<1>14. Correlation!SumFunction(c) = Sum(c, F \cup T)
  BY <1>7 DEF Correlation!SumFunction, Sum
<1> QED
  BY <1>1, <1>3, <1>4, <1>9, <1>10, <1>11, <1>12, <1>13, <1>14

\* Parsing a stamp leaves the list a list.
LEMMA ParsedList ==
  ASSUME NEW evs, Len(evs) \in Nat
  PROVE  IsList(Correlation!Parsed(evs)) /\ Len(Correlation!Parsed(evs)) = Len(evs)
<1>1. PICK n \in Nat : n = Len(evs)
  OBVIOUS
<1>2. PICK as, U : as = Correlation!Parsed(evs) /\ U = {as[i] : i \in 1 .. n}
  OBVIOUS
<1>3. DOMAIN as = 1 .. n /\ as = [i \in 1 .. n |-> as[i]]
  BY <1>1, <1>2 DEF Correlation!Parsed
<1>4. as \in Seq(U) /\ Len(as) = n
  BY <1>2, <1>3
<1> QED
  BY <1>1, <1>2, <1>4 DEF IsList

\* Every point of the score of the collected events is attributed.
LEMMA AttributionHolds ==
  ASSUME CollectedInv
  PROVE  Correlation!AttributionComplete
<1>1. Len(collected) \in Nat
  BY DEF CollectedInv
<1>2. IsList(Correlation!Parsed(collected))
  BY <1>1, ParsedList
<1> QED
  BY <1>2, AllAttributed DEF Correlation!AttributionComplete

\* Correlation loses, doubles and misfiles no event (correlation/kubernetes.py:28), does not
\* show in which order events without a common timestamp arrived (kubernetes.py:40), and
\* attributes every point of a score (risk.py:4).
THEOREM IncidentsAreFaithful == AnalysisSpec => []IncidentsFaithful
<1>1. CollectedInv => IncidentsFaithful
  BY AllAccountedFor, ArrivalDoesNotShow, AttributionHolds DEF IncidentsFaithful
<1> QED
  BY <1>1, CollectedHolds, PTL
----------------------------------------------------------------------------------
(* More evidence *)

\* What is known of the one list is known of the other.
Covers(more, evs) ==
  Len(evs) <= Len(more) /\ \A i \in 1 .. Len(evs) : \E j \in 1 .. Len(more) : more[j] = evs[i]

\* More events: no fewer points for the severity and for the techniques.
LEMMA SeverityGrows ==
  ASSUME NEW evs, IsList(evs), NEW more, IsList(more), Covers(more, evs)
  PROVE  Correlation!Severity(evs) <= Correlation!Severity(more)
<1>1. PICK top \in Nat : /\ top \in PointsIn(evs) \cup {0}
                         /\ Correlation!Severity(evs) = top + Correlation!Least(4 * Len(evs), 16)
  BY SeverityFacts
<1>2. PICK high \in Nat : /\ \A k \in PointsIn(more) \cup {0} : k <= high
                          /\ Correlation!Severity(more) = high + Correlation!Least(4 * Len(more), 16)
  BY SeverityFacts
<1>3. top \in PointsIn(more) \cup {0}
  BY <1>1 DEF PointsIn, Covers
<1>4. top <= high
  BY <1>2, <1>3
<1>5. Len(evs) \in Nat /\ Len(more) \in Nat /\ Len(evs) <= Len(more)
  BY SeverityFacts DEF Covers
<1>6. PICK a \in Nat, b \in Nat : a = 4 * Len(evs) /\ b = 4 * Len(more) /\ a <= b
  <2>1. 4 * Len(evs) \in Nat /\ 4 * Len(more) \in Nat /\ 4 * Len(evs) <= 4 * Len(more)
    BY <1>5
  <2> QED
    BY <2>1
<1>7. Correlation!Least(a, 16) \in Nat /\ Correlation!Least(b, 16) \in Nat
      /\ Correlation!Least(a, 16) <= Correlation!Least(b, 16)
  BY CappedFacts, <1>6 DEF Correlation!Least
<1> QED
  BY <1>1, <1>2, <1>4, <1>6, <1>7

LEMMA MitreGrows ==
  ASSUME NEW evs, IsList(evs), NEW more, IsList(more), Covers(more, evs)
  PROVE  Correlation!Mitre(evs) \in Nat /\ Correlation!Mitre(evs) <= Correlation!Mitre(more)
<1>1. Correlation!Techniques(evs) \subseteq Correlation!Techniques(more)
  BY DEF Correlation!Techniques, Covers
<1>2. \A t \in Correlation!Techniques(evs) : Weights(evs)[t] = Weights(more)[t]
  BY <1>1 DEF Weights
<1>3. PICK f, S, g, T : /\ f = Weights(evs) /\ S = Correlation!Techniques(evs)
                        /\ g = Weights(more) /\ T = Correlation!Techniques(more)
  OBVIOUS
<1>4. /\ Counted(f, S) /\ Correlation!Mitre(evs) = Correlation!Least(Sum(f, S), 35) /\ Sum(f, S) \in Nat
      /\ Counted(g, T) /\ Correlation!Mitre(more) = Correlation!Least(Sum(g, T), 35) /\ Sum(g, T) \in Nat
  BY <1>3, WeightsCounted
<1>5. \A t \in S : f[t] \in Nat /\ f[t] <= g[t]
  <2>1. \A t \in S : f[t] \in Nat /\ f[t] = g[t]
    BY <1>2, <1>3, <1>4 DEF Counted
  <2> QED
    BY <2>1
<1>6. Sum(f, S) <= Sum(g, T)
  BY <1>1, <1>3, <1>4, <1>5, SumGrows DEF Sum
<1> QED
  BY <1>4, <1>6, CappedFacts

\* The total falls by no more than the points of a burst.
LEMMA TotalGrows ==
  ASSUME NEW evs, IsList(evs), NEW more, IsList(more), Covers(more, evs), NEW r, NEW s
  PROVE  LET a == Correlation!RawTotal(Correlation!Breakdown(evs, r, s))
             b == Correlation!RawTotal(Correlation!Breakdown(more, r, s))
         IN a \in Nat /\ b \in Nat /\ a <= b + 12
<1>1. PICK x, y : x = Correlation!Breakdown(evs, r, s) /\ y = Correlation!Breakdown(more, r, s)
  OBVIOUS
<1>2. PICK others, all : all = Fields /\ others = Fields \ {"event_volume_clustering"}
  OBVIOUS
<1>3. /\ Counted(x, all) /\ x.event_volume_clustering \in {0, 12} /\ Correlation!RawTotal(x) = Sum(x, all)
      /\ Counted(y, all) /\ y.event_volume_clustering \in {0, 12} /\ Correlation!RawTotal(y) = Sum(y, all)
  BY <1>1, <1>2, BreakdownCounted
<1>4. Counted(x, others) /\ Counted(y, others)
  BY <1>2, <1>3, FS_Subset DEF Counted
<1>5. all = others \cup {"event_volume_clustering"} /\ "event_volume_clustering" \notin others
  BY <1>2 DEF Fields
<1>6. /\ Sum(x, all) = Sum(x, others) + x.event_volume_clustering /\ Sum(x, others) \in Nat
      /\ Sum(y, all) = Sum(y, others) + y.event_volume_clustering /\ Sum(y, others) \in Nat
  <2>1. x["event_volume_clustering"] \in Nat /\ y["event_volume_clustering"] \in Nat
    BY <1>3
  <2> QED
    BY <1>4, <1>5, <2>1, SumMore DEF Sum
<1>7. \A f \in others : x[f] \in Nat /\ x[f] <= y[f]
  <2>1. x.severity_points <= y.severity_points
    BY <1>1, BreakdownCounted, SeverityGrows
  <2>2. x.asset_criticality = y.asset_criticality /\ x.privilege_level = y.privilege_level
    BY <1>1, BreakdownCounted
  <2>3. x.network_exposure <= y.network_exposure
    <3>1. Correlation!Network(evs) <= Correlation!Network(more)
      BY DEF Correlation!Network, Covers
    <3> QED
      BY <1>1, <3>1, BreakdownCounted
  <2>4. x.mitre_technique_weight <= y.mitre_technique_weight
    BY <1>1, BreakdownCounted, MitreGrows
  <2>5. \A f \in others : x[f] \in Nat /\ y[f] \in Nat
    BY <1>4 DEF Counted
  <2>6. others = {"severity_points", "asset_criticality", "privilege_level", "network_exposure",
                  "mitre_technique_weight"}
    BY <1>2 DEF Fields
  <2> QED
    BY <2>1, <2>2, <2>3, <2>4, <2>5, <2>6
<1>8. Sum(x, others) <= Sum(y, others)
  BY <1>4, <1>7, SumGrows DEF Sum
<1>9. PICK m \in Nat, n \in Nat : m = Sum(x, others) /\ n = Sum(y, others) /\ m <= n
  BY <1>6, <1>8
<1> QED
  BY <1>1, <1>3, <1>6, <1>9

\* More events: a score that falls by no more than the points of a burst.
LEMMA ScoreGrows ==
  ASSUME NEW evs, IsList(evs), NEW more, IsList(more), Covers(more, evs), NEW r, NEW s
  PROVE  Correlation!Score(more, r, s) + 3 * 12 >= Correlation!Score(evs, r, s)
<1>1. PICK a \in Nat, b \in Nat :
        /\ a = Correlation!RawTotal(Correlation!Breakdown(evs, r, s))
        /\ b = Correlation!RawTotal(Correlation!Breakdown(more, r, s))
        /\ a <= b + 12
  BY TotalGrows
<1>2. evs # <<>> => more # <<>>
  <2>1. Len(evs) \in Nat /\ Len(more) \in Nat /\ (evs # <<>> => Len(evs) > 0)
    BY ListFacts
  <2>2. Len(<<>>) = 0
    OBVIOUS
  <2> QED
    BY <2>1, <2>2 DEF Covers
<1>3. /\ Correlation!Score(evs, r, s) = IF evs = <<>> /\ ~s.given THEN 0 ELSE Correlation!Least(3 * a, 400)
      /\ Correlation!Score(more, r, s) = IF more = <<>> /\ ~s.given THEN 0 ELSE Correlation!Least(3 * b, 400)
  BY <1>1 DEF Correlation!Score
<1>4. /\ Correlation!Least(3 * b, 400) \in Nat
      /\ Correlation!Least(3 * b, 400) + 3 * 12 >= Correlation!Least(3 * a, 400)
  BY <1>1 DEF Correlation!Least
<1> QED
  BY <1>2, <1>3, <1>4

\* Lists of more events remain so when their stamps are parsed.
LEMMA ParsedCovers ==
  ASSUME NEW evs, IsList(evs), NEW more, IsList(more), Covers(more, evs)
  PROVE  /\ IsList(Correlation!Parsed(evs)) /\ IsList(Correlation!Parsed(more))
         /\ Covers(Correlation!Parsed(more), Correlation!Parsed(evs))
<1>1. Len(evs) \in Nat /\ Len(more) \in Nat
  BY ListFacts
<1>2. /\ IsList(Correlation!Parsed(evs)) /\ Len(Correlation!Parsed(evs)) = Len(evs)
      /\ IsList(Correlation!Parsed(more)) /\ Len(Correlation!Parsed(more)) = Len(more)
  BY <1>1, ParsedList
<1>3. ASSUME NEW i \in 1 .. Len(evs)
      PROVE  \E j \in 1 .. Len(more) : Correlation!Parsed(more)[j] = Correlation!Parsed(evs)[i]
  <2>1. PICK j \in 1 .. Len(more) : more[j] = evs[i]
    BY <1>3 DEF Covers
  <2> QED
    BY <2>1 DEF Correlation!Parsed
<1> QED
  BY <1>2, <1>3 DEF Covers

\* The events of a workload are still its events when the list goes on.
LEMMA GroupCovers ==
  ASSUME NEW evs \in Seq(Events), NEW more \in Seq(Events), Len(evs) <= Len(more),
         \A i \in 1 .. Len(evs) : more[i] = evs[i], NEW r
  PROVE  /\ IsList(Correlation!Group(evs, r)) /\ IsList(Correlation!Group(more, r))
         /\ Covers(Correlation!Group(more, r), Correlation!Group(evs, r))
<1>1. PICK g, h, at, to :
        /\ g = Correlation!Group(evs, r) /\ at = Correlation!Places(evs, r)
        /\ h = Correlation!Group(more, r) /\ to = Correlation!Places(more, r)
  OBVIOUS
<1>2. Stamped(evs) /\ Stamped(more) /\ Len(evs) \in Nat /\ Len(more) \in Nat
  BY EventList
<1>3. /\ at \subseteq 1 .. Len(evs) /\ IsList(g) /\ Len(g) = Cardinality(at)
      /\ IsList(h) /\ Len(h) = Cardinality(to) /\ IsFiniteSet(to) /\ Cardinality(at) \in Nat
  BY <1>1, <1>2, GroupFacts
<1>4. at \in SUBSET to
  <2>1. \A i \in 1 .. Len(evs) : i \in 1 .. Len(more)
    BY <1>2
  <2> QED
    BY <1>1, <2>1 DEF Correlation!Places
<1>5. Len(g) <= Len(h)
  BY <1>3, <1>4, FS_Subset
<1>6. ASSUME NEW k \in 1 .. Len(g) PROVE \E j \in 1 .. Len(h) : h[j] = g[k]
  <2>1. PICK i : i = Place(evs, r, k)
    OBVIOUS
  <2>2. i \in at /\ g[k] = evs[i]
    BY <1>1, <1>2, <1>3, <2>1, GroupFacts
  <2>3. i \in to /\ more[i] = evs[i]
    BY <1>3, <1>4, <2>2
  <2>4. PICK j : j = Cardinality(Upto(more, r, i))
    OBVIOUS
  <2>5. j \in 1 .. Len(h) /\ Place(more, r, j) = i
    BY <1>1, <1>2, <1>3, <2>3, <2>4, GroupFacts
  <2>6. h[j] = more[i]
    BY <1>1, <1>2, <1>3, <2>5, GroupFacts
  <2> QED
    BY <2>2, <2>3, <2>5, <2>6
<1> QED
  BY <1>1, <1>3, <1>5, <1>6 DEF Covers

\* A further event lowers no score, that of the workload or of one of its incidents, by more
\* than the points of a burst, which it may end (risk.py:213).
THEOREM EvidenceIsNeverDiscounted == AnalysisSpec => EvidenceNeverDiscounted
<1>1. CollectedInv /\ CollectedInv' /\ [AnalysisNext]_analysisVars =>
        [Correlation!KeepsScores]_(Correlation!vars)
  <2> SUFFICES ASSUME CollectedInv, CollectedInv', [AnalysisNext]_analysisVars,
                      ~UNCHANGED Correlation!vars
               PROVE  Correlation!KeepsScores
    OBVIOUS
  <2>1. PICK e \in Events : Correlation!Collect(e)
    BY DEF AnalysisNext, analysisVars, correlationVars, Correlation!vars, Correlation!Next
  <2>2. collected \in Seq(Events) /\ collected' = Append(collected, e)
    BY <2>1 DEF Correlation!Collect, CollectedInv
  <2>3. PICK evs, more : evs = collected /\ more = collected'
    OBVIOUS
  <2>4. /\ evs \in Seq(Events) /\ more \in Seq(Events) /\ Len(more) = Len(evs) + 1 /\ Len(evs) \in Nat
        /\ \A i \in 1 .. Len(evs) : more[i] = evs[i]
    BY <2>2, <2>3, Appended
  <2>5. IsList(evs) /\ IsList(more) /\ Len(evs) <= Len(more)
    BY <2>4 DEF IsList
  <2>6. Covers(more, evs)
    <3>1. \A i \in 1 .. Len(evs) : i \in 1 .. Len(more)
      BY <2>4
    <3> QED
      BY <2>4, <2>5, <3>1 DEF Covers
  <2>7. Correlation!ScoreOf(more) + 3 * 12 >= Correlation!ScoreOf(evs)
    BY <2>5, <2>6, ParsedCovers, ScoreGrows DEF Correlation!ScoreOf
  <2>8. ASSUME NEW r
        PROVE  Correlation!ScoreOf(Correlation!Group(more, r)) + 3 * 12
                 >= Correlation!ScoreOf(Correlation!Group(evs, r))
    <3>1. PICK g, h : g = Correlation!Group(evs, r) /\ h = Correlation!Group(more, r)
      OBVIOUS
    <3>2. IsList(g) /\ IsList(h) /\ Covers(h, g)
      BY <2>4, <2>5, <3>1, GroupCovers
    <3>3. Correlation!ScoreOf(h) + 3 * 12 >= Correlation!ScoreOf(g)
      BY <3>2, ParsedCovers, ScoreGrows DEF Correlation!ScoreOf
    <3> QED
      BY <3>1, <3>3
  <2> QED
    BY <2>3, <2>7, <2>8 DEF Correlation!KeepsScores
<1> QED
  BY <1>1, CollectedHolds, PTL
     DEF AnalysisSpec, EvidenceNeverDiscounted, Correlation!EvidenceNeverDiscounted

----------------------------------------------------------------------------------
(* The types of all parts *)

\* What the package's steps keep beside PackageInv.
PackageTypes ==
  /\ phase \in {"idle", "telemetry", "load", "write", "done"}
  /\ next \in 1 .. 7 /\ open \in BOOLEAN /\ begun \in 0 .. MaxPackages
  /\ \A f \in DOMAIN files : files[f].whole \in BOOLEAN

LEMMA PackageTypesStep ==
  ASSUME PackageTypes, [AnalysisNext]_analysisVars
  PROVE  PackageTypes'
<1>1. CASE UNCHANGED packageVars
  BY <1>1 DEF packageVars, PackageTypes
<1>2. CASE Package!Publish \/ Package!Capture
  BY <1>2 DEF Package!Publish, Package!Capture, PackageTypes
<1>3. ASSUME NEW capture \in BOOLEAN, Package!Begin(capture) PROVE PackageTypes'
  <2>1. /\ begun < MaxPackages /\ begun' = begun + 1 /\ phase' \in {"telemetry", "load"}
        /\ next' = next /\ open' = open /\ files' = files
    BY <1>3 DEF Package!Begin
  <2>2. begun' \in 0 .. MaxPackages
    BY <2>1, AnalysisAssumptions DEF PackageTypes, Package!PackageAssumption
  <2> QED
    BY <2>1, <2>2 DEF PackageTypes
<1>4. CASE Package!Load \/ Package!Crash
  <2>1. next' = 1 /\ open' = FALSE /\ phase' \in {"write", "idle"} /\ UNCHANGED <<files, begun>>
    BY <1>4 DEF Package!Load, Package!Crash
  <2>2. phase' \in {"idle", "telemetry", "load", "write", "done"}
    BY <2>1
  <2>3. next' \in 1 .. 7
    BY <2>1
  <2>4. open' \in BOOLEAN
    BY <2>1, Zenon
  <2>5. begun' \in 0 .. MaxPackages /\ \A f \in DOMAIN files' : files'[f].whole \in BOOLEAN
    <3>1. begun \in 0 .. MaxPackages /\ \A f \in DOMAIN files : files[f].whole \in BOOLEAN
      BY DEF PackageTypes
    <3> QED
      BY <2>1, <3>1
  <2> QED
    BY <2>2, <2>3, <2>4, <2>5 DEF PackageTypes
<1>5. ASSUME NEW f, NEW content, Package!Put(f, content), content.whole \in BOOLEAN
      PROVE  \A g \in DOMAIN files' : files'[g].whole \in BOOLEAN
  <2>1. /\ DOMAIN files' = DOMAIN files \cup {f}
        /\ files'[f] = content
        /\ \A g \in DOMAIN files : g # f => files'[g] = files[g]
    BY <1>5, PutFacts
  <2>2. \A g \in DOMAIN files : files[g].whole \in BOOLEAN
    BY DEF PackageTypes
  <2> SUFFICES ASSUME NEW g \in DOMAIN files' PROVE files'[g].whole \in BOOLEAN
    OBVIOUS
  <2>3. CASE g = f
    BY <1>5, <2>1, <2>3, Zenon
  <2>4. CASE g # f
    <3>1. g \in DOMAIN files /\ files'[g] = files[g]
      BY <2>1, <2>4
    <3> QED
      BY <2>2, <3>1, Zenon
  <2> QED
    BY <2>3, <2>4
<1>6. CASE Package!Truncate
  <2>1. PICK content : content = [events |-> <<>>, whole |-> FALSE]
    OBVIOUS
  <2>2. /\ Package!Put(Package!Files[next], content) /\ content.whole \in BOOLEAN
        /\ open' = TRUE /\ UNCHANGED <<phase, next, begun>>
    BY <1>6, <2>1 DEF Package!Truncate
  <2>3. \A g \in DOMAIN files' : files'[g].whole \in BOOLEAN
    BY <1>5, <2>2
  <2> QED
    BY <2>2, <2>3 DEF PackageTypes
<1>7. CASE Package!Fill
  <2>1. PICK content : content = [events |-> loaded, whole |-> TRUE]
    OBVIOUS
  <2>2. /\ Package!Put(Package!Files[next], content) /\ content.whole \in BOOLEAN
        /\ open' = FALSE /\ begun' = begun
        /\ next' = (IF next < 7 THEN next + 1 ELSE next) /\ phase' \in {"write", "done"}
    BY <1>7, <2>1, FileNames DEF Package!Fill
  <2>3. \A g \in DOMAIN files' : files'[g].whole \in BOOLEAN
    BY <1>5, <2>2
  <2>4. next' \in 1 .. 7
    BY <2>2 DEF PackageTypes
  <2> QED
    BY <2>2, <2>3, <2>4 DEF PackageTypes
<1> QED
  BY <1>1, <1>2, <1>3, <1>4, <1>6, <1>7 DEF AnalysisNext, analysisVars, Package!Next

LEMMA EnabledStep ==
  ASSUME enabled \subseteq Detection!RuleIds, [AnalysisNext]_analysisVars
  PROVE  (enabled \subseteq Detection!RuleIds)'
<1>1. ASSUME NEW r \in Switchable, Detection!SwitchRule(r)
      PROVE  enabled' \subseteq Detection!RuleIds
  <2>1. r \in Detection!RuleIds
    BY AnalysisAssumptions DEF Detection!EngineAssumption
  <2> QED
    BY <1>1, <2>1 DEF Detection!SwitchRule
<1>2. CASE \/ UNCHANGED detectionVars
           \/ \E e \in RawEvents : Detection!ProcessEvent(e)
           \/ \E f \in RawFiles : Detection!OpenFile(f)
           \/ Detection!ReadLine \/ Detection!CloseFile
  BY <1>2 DEF detectionVars, Detection!ProcessEvent, Detection!OpenFile, Detection!ReadLine,
              Detection!CloseFile
<1> QED
  BY <1>1, <1>2 DEF AnalysisNext, analysisVars, Detection!Next

\* The composition runs the incident manager as it is.
LEMMA LifecycleRuns == AnalysisSpec => Spec
<1>1. AnalysisInit => Init
  BY DEF AnalysisInit
<1>2. [AnalysisNext]_analysisVars => [Next]_vars
  BY DEF AnalysisNext, analysisVars
<1> QED
  BY <1>1, <1>2, PTL DEF AnalysisSpec, Spec

\* Every part stays within its types; among them, that a detection comes of an event that was
\* counted, that every process record hangs under an earlier one, and that an owner is named
\* only when it can be restarted.
THEOREM AnalysisTypesHold == AnalysisSpec => []AnalysisTypes
<1>1. AnalysisSpec => []TypeOK
  BY LifecycleRuns, LifecycleTypes, PTL
<1>2. AnalysisSpec => []IngestInv
  BY IngestStarts, IngestStep, PTL DEF AnalysisSpec
<1>3. AnalysisSpec => []ProcessInv
  BY ProcessesStart, ProcessStep, PTL DEF AnalysisSpec
<1>4. AnalysisSpec => []RemedyInv
  BY RemedyStarts, RemedyStep, PTL DEF AnalysisSpec
<1>5. AnalysisSpec => []PackageInv
  BY PackageStarts, PackageStep, PTL DEF AnalysisSpec
<1>6. AnalysisSpec => []PackageTypes
  <2>1. AnalysisInit => PackageTypes
    <3> SUFFICES ASSUME AnalysisInit PROVE PackageTypes
      OBVIOUS
    <3>1. phase = "idle" /\ next = 1 /\ open = FALSE /\ begun = 0 /\ files = <<>>
      BY DEF AnalysisInit, Package!Init
    <3>2. DOMAIN files = {} /\ 0 \in 0 .. MaxPackages
      BY <3>1, AnalysisAssumptions DEF Package!PackageAssumption
    <3>3. phase \in {"idle", "telemetry", "load", "write", "done"} /\ next \in 1 .. 7
      BY <3>1
    <3>4. open \in BOOLEAN
      BY <3>1, Zenon
    <3>5. \A f \in DOMAIN files : files[f].whole \in BOOLEAN
      BY <3>2
    <3> QED
      BY <3>1, <3>2, <3>3, <3>4, <3>5 DEF PackageTypes
  <2> QED
    BY <2>1, PackageTypesStep, PTL DEF AnalysisSpec
<1>7. AnalysisSpec => [](enabled \subseteq Detection!RuleIds)
  <2>1. AnalysisInit => enabled \subseteq Detection!RuleIds
    BY DEF AnalysisInit, Detection!Init
  <2> QED
    BY <2>1, EnabledStep, PTL DEF AnalysisSpec
<1>8. ASSUME IngestInv, enabled \subseteq Detection!RuleIds PROVE Detection!TypeOK
  <2>1. Len(detections) \in Nat /\ MaxSeen \in Nat
    BY <1>8, ListFacts, AnalysisAssumptions DEF IngestInv, Detection!EngineAssumption
  <2> QED
    BY <1>8, <2>1 DEF IngestInv, Detection!TypeOK
<1>9. ASSUME ProcessInv PROVE Investigation!TypeOK
  <2>1. DOMAIN procs = 1 .. Len(procs) /\ DOMAIN arrived = 1 .. Len(arrived)
    BY <1>9, ListDomain DEF ProcessInv
  <2>2. alive \cup sent \subseteq DOMAIN procs /\ Investigation!ToSet(arrived) \subseteq sent
    BY <1>9, <2>1 DEF ProcessInv, Investigation!ToSet
  <2>3. \A k \in Investigation!Records : Investigation!Parent(k) \in 0 .. k - 1
    BY <1>9, ParentFacts
  <2>4. told \subseteq sent
    BY <1>9 DEF ProcessInv
  <2> QED
    BY <2>2, <2>3, <2>4 DEF Investigation!TypeOK
<1>10. RemedyInv => Remedy!TypeOK
  BY DEF RemedyInv, Sound, Origins, Outcomes, Remedy!TypeOK
<1>11. PackageInv /\ PackageTypes => Package!TypeOK
  BY FileNames DEF PackageInv, PackageTypes, Package!TypeOK
<1> QED
  BY <1>1, <1>2, <1>3, <1>4, <1>5, <1>6, <1>7, <1>8, <1>9, <1>10, <1>11, PTL DEF AnalysisTypes
==================================================================================
