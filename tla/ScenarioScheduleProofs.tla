------------------------- MODULE ScenarioScheduleProofs -------------------------
(***************************************************************************)
(* Proofs about ScenarioSchedule for every catalog size, grace, pause,     *)
(* skew and number of events.  The argument: ScheduleInv bounds the stamp  *)
(* of every event by its own scenario's interval, and separates recorded   *)
(* intervals by a pause; arithmetic on Tolerable does the rest.            *)
(***************************************************************************)
EXTENDS ScenarioSchedule, TLAPS

Line == [status : {"executed", "blocked"},
         exit : StepCodes \cup {EXIT_PREREQ, EXIT_NOT_FOUND}, start : Nat, end : Nat]

USE ScheduleAssumption

\* What TypeOK says of one line and of one event.
LEMMA TypeFacts ==
  ASSUME TypeOK
  PROVE  /\ Len(results) \in Nat /\ DOMAIN results = 1 .. Len(results)
         /\ \A i \in 1 .. Len(results) :
              /\ results[i].start \in Nat /\ results[i].end \in Nat
              /\ results[i].status \in {"executed", "blocked"}
         /\ \A e \in events : e.owner \in 1 .. N /\ e.at \in Int
<1>1. results \in Seq(Line)
  BY DEF TypeOK, Line
<1>2. \A i \in 1 .. Len(results) : results[i] \in Line
  BY <1>1
<1> QED
  BY <1>1, <1>2 DEF TypeOK, Line

\* The file is empty and nothing has been seen when the script starts.
LEMMA InitInv == Init => ScheduleInv
  BY DEF Init, ScheduleInv, TypeOK, EventBounds, LineBounds, PhaseBounds,
         Phases, StepCodes, EXIT_KILLED, Current

\* A line is appended by Record alone, and with it everything the running scenario
\* caused passes from the bounds of the running interval to those of the recorded one.
LEMMA RecordInv ==
  ASSUME ScheduleInv, phase = "running",
         NEW code \in StepCodes \cup {EXIT_PREREQ, EXIT_NOT_FOUND}, Record(code)
  PROVE  ScheduleInv'
<1> DEFINE line == [status |-> RunStatus(code), exit |-> code, start |-> started, end |-> now]
<1>1. line \in Line
  BY DEF ScheduleInv, TypeOK, Line, RunStatus
<1>2. /\ results' = Append(results, line) /\ phase' = "pause"
      /\ UNCHANGED <<now, since, started, rc, events>>
  BY DEF Record
<1>3. /\ results \in Seq(Line) /\ results' \in Seq(Line)
      /\ Len(results') = Len(results) + 1 /\ Len(results) \in Nat
      /\ results'[Len(results) + 1] = line
      /\ \A i \in 1 .. Len(results) : results'[i] = results[i]
  BY <1>1, <1>2 DEF ScheduleInv, TypeOK, Line
<1>4. TypeOK'
  BY <1>2, <1>3 DEF ScheduleInv, TypeOK, Line, Phases
<1>5. EventBounds'
  <2> SUFFICES ASSUME NEW e \in events
               PROVE  /\ e.owner \in 1 .. Len(results')
                      /\ results'[e.owner].start - MaxSkew <= e.at
                      /\ e.at <= results'[e.owner].end + MaxSkew
    BY <1>2 DEF EventBounds
  <2>1. \/ /\ e.owner \in 1 .. Len(results)
           /\ results[e.owner].start - MaxSkew <= e.at
           /\ e.at <= results[e.owner].end + MaxSkew
        \/ /\ e.owner = Len(results) + 1
           /\ started - MaxSkew <= e.at /\ e.at <= now + MaxSkew
    BY DEF ScheduleInv, EventBounds, Current
  <2> QED
    BY <1>3, <2>1
<1>6. LineBounds'
  <2>1. /\ started <= now /\ started \in Nat /\ now \in Nat
        /\ \A i \in 1 .. Len(results) : results[i].end + Pause <= started
        /\ \A i \in 1 .. Len(results) : results[i].start <= results[i].end /\ results[i].end <= now
        /\ \A i, j \in 1 .. Len(results) : i < j => results[i].end + Pause <= results[j].start
    BY DEF ScheduleInv, LineBounds, TypeOK
  <2>2. /\ line.start = started /\ line.end = now
        /\ \A i \in 1 .. Len(results') : i \in 1 .. Len(results) \/ i = Len(results) + 1
    BY <1>3
  <2> HIDE DEF line
  <2>3. \A i \in 1 .. Len(results') : results'[i].start <= results'[i].end /\ results'[i].end <= now
    BY <1>3, <2>1, <2>2
  <2>4. ASSUME NEW i \in 1 .. Len(results'), NEW j \in 1 .. Len(results'), i < j
        PROVE  results'[i].end + Pause <= results'[j].start
    <3>1. i \in 1 .. Len(results)
      BY <1>3, <2>4
    <3>2. CASE j \in 1 .. Len(results)
      BY <1>3, <2>1, <2>4, <3>1, <3>2
    <3>3. CASE j = Len(results) + 1
      BY <1>3, <2>1, <2>2, <3>1, <3>3
    <3> QED
      BY <2>2, <3>2, <3>3
  <2> QED
    BY <1>2, <2>1, <2>3, <2>4 DEF LineBounds
<1>7. PhaseBounds'
  BY <1>2, <1>3 DEF ScheduleInv, PhaseBounds, TypeOK
<1> QED
  BY <1>4, <1>5, <1>6, <1>7 DEF ScheduleInv

\* The last recorded end is the latest.
LEMMA LastEnd ==
  ASSUME ScheduleInv, NEW i \in 1 .. Len(results)
  PROVE  /\ Len(results) \in 1 .. Len(results)
         /\ results[i].end <= results[Len(results)].end
<1>1. /\ Len(results) \in Nat
      /\ \A j \in 1 .. Len(results) : results[j].start \in Nat /\ results[j].end \in Nat
  BY TypeFacts DEF ScheduleInv
<1>2. /\ \A j, k \in 1 .. Len(results) : j < k => results[j].end + Pause <= results[k].start
      /\ \A j \in 1 .. Len(results) : results[j].start <= results[j].end
  BY DEF ScheduleInv, LineBounds
<1>3. CASE i = Len(results)
  BY <1>1, <1>3
<1>4. CASE i < Len(results)
  <2>1. results[i].end + Pause <= results[Len(results)].start
    BY <1>1, <1>2, <1>4
  <2>2. results[Len(results)].start <= results[Len(results)].end
    BY <1>1, <1>2, <1>4
  <2> QED
    BY <1>1, <1>4, <2>1, <2>2
<1> QED
  BY <1>1, <1>3, <1>4

LEMMA NextInv == ScheduleInv /\ [Next]_vars => ScheduleInv'
<1> SUFFICES ASSUME ScheduleInv, [Next]_vars PROVE ScheduleInv'
  OBVIOUS
<1>0. /\ Len(results) \in Nat
      /\ \A i \in 1 .. Len(results) : results[i].start \in Nat /\ results[i].end \in Nat
      /\ \A e \in events : e.owner \in 1 .. N /\ e.at \in Int
  BY TypeFacts DEF ScheduleInv
<1>a. \A i \in 1 .. Len(results) :
           Len(results) \in 1 .. Len(results) /\ results[i].end <= results[Len(results)].end
  BY LastEnd
<1>b. ASSUME Resume PROVE ScheduleInv'
  <2>1. /\ phase = "pause" /\ now >= results[Len(results)].end + Pause
        /\ UNCHANGED <<now, since, started, rc, results, events>>
        /\ phase' \in {"evaluate", "next"}
        /\ phase' = "evaluate" <=> Len(results) = N
    BY <1>b DEF Resume
  <2>2. Len(results) \in 1 .. N /\ now \in Nat
    BY <2>1 DEF ScheduleInv, TypeOK, PhaseBounds
  <2>3. \A i \in 1 .. Len(results) : results[i].end + Pause <= now
    BY <1>0, <1>a, <2>1, <2>2
  <2>4. TypeOK'
    BY <2>1 DEF ScheduleInv, TypeOK, Phases
  <2>5. EventBounds'
    BY <2>1 DEF ScheduleInv, EventBounds, Current
  <2>6. LineBounds'
    BY <2>1, <2>3 DEF ScheduleInv, LineBounds
  <2>7. PhaseBounds'
    BY <2>1, <2>2 DEF ScheduleInv, PhaseBounds
  <2> QED
    BY <2>4, <2>5, <2>6, <2>7 DEF ScheduleInv
<1>1. CASE Tick
  <2>1. now' = now + 1 /\ now \in Nat /\ UNCHANGED <<phase, since, started, rc, results, events>>
    BY <1>1 DEF Tick, ScheduleInv, TypeOK
  <2>2. TypeOK'
    BY <2>1 DEF ScheduleInv, TypeOK
  <2>3. EventBounds'
    BY <1>0, <2>1 DEF ScheduleInv, EventBounds, Current
  <2>4. LineBounds'
    <3>1. started \in Nat /\ LineBounds
      BY DEF ScheduleInv, TypeOK
    <3> QED
      BY <1>0, <2>1, <3>1 DEF LineBounds
  <2>5. PhaseBounds'
    BY <2>1 DEF ScheduleInv, PhaseBounds
  <2> QED
    BY <2>2, <2>3, <2>4, <2>5 DEF ScheduleInv
<1>2. CASE Begin
  <2>1. /\ results' = << >> /\ phase' = "next" /\ phase = "begin" /\ events = {} /\ since' = now
        /\ now \in Nat /\ started <= now /\ UNCHANGED <<now, started, rc, events>>
    BY <1>2 DEF Begin, ScheduleInv, PhaseBounds, LineBounds, TypeOK
  <2>2. TypeOK'
    BY <2>1 DEF ScheduleInv, TypeOK, Phases
  <2> QED
    BY <2>1, <2>2 DEF ScheduleInv, EventBounds, LineBounds, PhaseBounds
<1>3. CASE Launch
  <2>1. /\ phase = "next" /\ phase' = "running" /\ started' = now /\ rc' = 0 /\ now \in Nat
        /\ UNCHANGED <<now, since, results, events>>
    BY <1>3 DEF Launch, ScheduleInv, TypeOK
  <2>2. TypeOK'
    BY <2>1 DEF ScheduleInv, TypeOK, Phases, StepCodes
  <2>3. EventBounds'
    BY <2>1 DEF ScheduleInv, EventBounds
  <2>4. LineBounds'
    BY <2>1 DEF ScheduleInv, LineBounds
  <2>5. PhaseBounds'
    BY <2>1 DEF ScheduleInv, PhaseBounds
  <2> QED
    BY <2>2, <2>3, <2>4, <2>5 DEF ScheduleInv
<1>4. ASSUME NEW code \in StepCodes, NEW skew \in -MaxSkew .. MaxSkew, Step(code, skew)
      PROVE  ScheduleInv'
  <2> DEFINE e == [owner |-> Current, at |-> now + skew]
  <2>1. /\ events' = events \cup {e} \/ events' = events
        /\ rc' = IF rc = 0 THEN code ELSE rc
        /\ phase = "running" /\ UNCHANGED <<now, phase, since, started, results>>
    BY <1>4 DEF Step
  <2>2. /\ e.owner = Current /\ e.at = now + skew /\ e.owner \in 1 .. N /\ e.at \in Int
        /\ e \in [owner : 1 .. N, at : Int]
        /\ started \in Nat /\ now \in Nat /\ started <= now /\ rc \in StepCodes
    BY <1>0, <2>1 DEF ScheduleInv, TypeOK, PhaseBounds, LineBounds, Current
  <2>3. started - MaxSkew <= e.at /\ e.at <= now + MaxSkew
    BY <2>2
  <2> HIDE DEF e
  <2>4. TypeOK'
    BY <1>4, <2>1, <2>2 DEF ScheduleInv, TypeOK
  <2>5. EventBounds'
    <3>1. \A f \in events' : f \in events \/ f = e
      BY <2>1
    <3> QED
      BY <2>1, <2>2, <2>3, <3>1 DEF ScheduleInv, EventBounds, Current
  <2>6. LineBounds' /\ PhaseBounds'
    BY <2>1 DEF ScheduleInv, LineBounds, PhaseBounds
  <2> QED
    BY <2>4, <2>5, <2>6 DEF ScheduleInv
<1>5. CASE Finish
  <2>1. phase = "running" /\ Record(rc) /\ rc \in StepCodes
    BY <1>5 DEF Finish, ScheduleInv, TypeOK
  <2> QED
    BY <2>1, RecordInv
<1>6. ASSUME NEW code \in {EXIT_PREREQ, EXIT_NOT_FOUND}, FinishBlocked(code)
      PROVE  ScheduleInv'
  BY <1>6, RecordInv DEF FinishBlocked
<1>7. CASE UNCHANGED vars
  <2>1. UNCHANGED <<now, phase, since, started, rc, results, events>>
    BY <1>7 DEF vars
  <2>2. TypeOK'
    BY <2>1 DEF ScheduleInv, TypeOK
  <2>3. EventBounds'
    BY <2>1 DEF ScheduleInv, EventBounds, Current
  <2>4. LineBounds' /\ PhaseBounds'
    BY <2>1 DEF ScheduleInv, LineBounds, PhaseBounds
  <2> QED
    BY <2>2, <2>3, <2>4 DEF ScheduleInv
<1> QED
  BY <1>1, <1>2, <1>3, <1>4, <1>5, <1>6, <1>b, <1>7 DEF Next

\* Type correctness and the bounds, for every value of the constants.
THEOREM ScheduleInvariant == Spec => []ScheduleInv
  BY InitInv, NextInv, PTL DEF Spec

\* A stamp at most MaxSkew after an end that lies a pause before a start is not within
\* Grace of that start.
LEMMA PauseSeparates ==
  ASSUME NEW end \in Nat, NEW start \in Nat, NEW at \in Int, Tolerable,
         end + Pause <= start
  PROVE  /\ at <= end + MaxSkew => at < start - Grace
         /\ start - MaxSkew <= at => end + Grace < at
  BY DEF Tolerable

\* Windows widened by a grace below half the pause never overlap.
THEOREM DisjointWindows == Spec => []WindowsDisjoint
<1>1. ScheduleInv => WindowsDisjoint
  <2> SUFFICES ASSUME ScheduleInv, 2 * Grace < Pause,
                      NEW i \in 1 .. Len(results), NEW j \in 1 .. Len(results), i < j
               PROVE  results[i].end + Grace < results[j].start - Grace
    BY DEF WindowsDisjoint
  <2>1. results[i].end \in Nat /\ results[j].start \in Nat
    BY TypeFacts DEF ScheduleInv
  <2>2. results[i].end + Pause <= results[j].start
    BY DEF ScheduleInv, LineBounds
  <2> QED
    BY <2>1, <2>2
<1> QED
  BY <1>1, ScheduleInvariant, PTL

\* Under the tolerance the comment states, attribution by clock is attribution by cause.
THEOREM ExactAttribution == Spec => []AttributionExact
<1>1. ScheduleInv => AttributionExact
  <2> SUFFICES ASSUME ScheduleInv, Tolerable, NEW i \in 1 .. Len(results),
                      results[i].status = "executed"
               PROVE  Window(i) = EventsOf(i)
    BY DEF AttributionExact
  <2>1. /\ Len(results) \in Nat /\ DOMAIN results = 1 .. Len(results)
        /\ \A j \in 1 .. Len(results) :
              /\ results[j].start \in Nat /\ results[j].end \in Nat
              /\ results[j].status \in {"executed", "blocked"}
        /\ \A e \in events : e.owner \in 1 .. N /\ e.at \in Int
        /\ started \in Nat /\ now \in Nat
    BY TypeFacts DEF ScheduleInv, TypeOK
  <2>0. results[i].start \in Nat /\ results[i].end \in Nat
    BY <2>1
  <2>2. MaxSkew <= Grace /\ 2 * Grace < Pause
    BY DEF Tolerable
  <2>3. ASSUME NEW e \in events
        PROVE  \/ /\ e.owner \in 1 .. Len(results)
                  /\ results[e.owner].start - MaxSkew <= e.at
                  /\ e.at <= results[e.owner].end + MaxSkew
               \/ /\ phase = "running" /\ e.owner = Len(results) + 1
                  /\ started - MaxSkew <= e.at /\ e.at <= now + MaxSkew
    BY DEF ScheduleInv, EventBounds, Current
  <2>4. /\ \A j, k \in 1 .. Len(results) : j < k => results[j].end + Pause <= results[k].start
        /\ phase = "running" => \A j \in 1 .. Len(results) : results[j].end + Pause <= started
        /\ \A j \in 1 .. Len(results) : results[j].start <= results[j].end
    BY DEF ScheduleInv, LineBounds
  <2>5. Window(i) = EventsOf(i)
    <3>1. Window(i) = {e \in events : results[i].start - Grace <= e.at /\ e.at <= results[i].end + Grace}
      BY <2>1 DEF Window, ScenarioEvents, EventsInWindow
    <3>2. ASSUME NEW e \in events, e.owner = i
          PROVE  results[i].start - Grace <= e.at /\ e.at <= results[i].end + Grace
      <4>1. results[i].start - MaxSkew <= e.at /\ e.at <= results[i].end + MaxSkew
        BY <2>1, <2>3, <3>2
      <4> QED
        BY <2>1, <2>2, <4>1
    <3>3. ASSUME NEW e \in events, results[i].start - Grace <= e.at, e.at <= results[i].end + Grace
          PROVE  e.owner = i
      <4>1. ASSUME phase = "running", e.owner = Len(results) + 1 PROVE FALSE
        <5>1. started - MaxSkew <= e.at /\ results[i].end + Pause <= started
          BY <2>1, <2>3, <2>4, <4>1
        <5> QED
          BY <2>1, <2>2, <3>3, <5>1
      <4>2. ASSUME e.owner \in 1 .. Len(results), e.owner < i PROVE FALSE
        <5>0. results[e.owner].start \in Nat /\ results[e.owner].end \in Nat /\ e.at \in Int
          BY <2>1, <4>2
        <5>1. e.at <= results[e.owner].end + MaxSkew
          BY <2>1, <2>3, <4>2
        <5>2. results[e.owner].end + Pause <= results[i].start
          BY <2>4, <4>2
        <5>3. e.at < results[i].start - Grace
          BY <2>0, <5>0, <5>1, <5>2, PauseSeparates
        <5> QED
          BY <2>0, <3>3, <5>0, <5>3
      <4>3. ASSUME e.owner \in 1 .. Len(results), e.owner > i PROVE FALSE
        <5>0. results[e.owner].start \in Nat /\ results[e.owner].end \in Nat /\ e.at \in Int
          BY <2>1, <4>3
        <5>1. results[e.owner].start - MaxSkew <= e.at
          BY <2>1, <2>3, <4>3
        <5>2. results[i].end + Pause <= results[e.owner].start
          BY <2>4, <4>3
        <5>3. results[i].end + Grace < e.at
          BY <2>0, <5>0, <5>1, <5>2, PauseSeparates
        <5> QED
          BY <2>0, <3>3, <5>0, <5>3
      <4> QED
        BY <2>1, <2>3, <4>1, <4>2, <4>3
    <3> QED
      BY <3>1, <3>2, <3>3 DEF EventsOf
  <2> QED
    BY <2>5
<1> QED
  BY <1>1, ScheduleInvariant, PTL
=================================================================================
