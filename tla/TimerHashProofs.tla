-------------------------- MODULE TimerHashProofs ---------------------------
(***************************************************************************)
(* Theorems about TimerManager for every set of timers, every bound on     *)
(* time and on modify, and everything callbacks may return: the links are  *)
(* consistent, the sleep covers what waits, and the queue and its loop     *)
(* implement TimerService.  Theorems about HashMap for every finite or     *)
(* infinite set of elements, every hash and every range of sizes: chains   *)
(* and count are right, only expand loses elements, and iterators miss     *)
(* none.                                                                   *)
(***************************************************************************)
EXTENDS TimerManager, HashMap, Lemmas

-----------------------------------------------------------------------------
(* The inductive invariant. *)

\* The timer is the one whose callback is on the stack.
Runs(t) == running /\ t = cur

\* The map holds each timer that waits, once, and nothing else; the list holds
\* the idles that have not run.
Linked ==
    /\ IsInjective(map) /\ IsInjective(list)
    /\ \A t \in Timer : t \in ToSet(map) <=> kind[t] = "timer" /\ ~Runs(t)
    /\ \A t \in Timer : t \in ToSet(list) <=> kind[t] = "idle" /\ ~Runs(t)

\* What runs is of the kind the phase of the loop calls, and outside loop_i
\* nothing runs and cur is reset, so that remove and modify spare no timer.
Phases ==
    /\ running =>
        /\ cur \in Timer /\ pc \in {"idle1", "timers", "idle2"}
        /\ kind[cur] = IF pc = "timers" THEN "timer" ELSE "idle"
    /\ pc \in {"out", "check", "asleep"} => cur = None

Ordered == Ascending(map, expires)

\* From the moment expires is fixed, only what the second idle loop sets may
\* come before it; when loop_i has returned, no idle is left.
Covered ==
    /\ pc \in {"idle2", "check", "asleep"} =>
          \A t \in Queued \ late : wake <= expires[t]
    /\ pc \in {"check", "asleep"} => list = <<>>
    /\ pc = "asleep" => curtime < wake

\* What was due when loop read the clock still is.
Clocks == curtime <= clock

IInv == TypeOK /\ Linked /\ Phases /\ Ordered /\ Covered /\ Clocks

-----------------------------------------------------------------------------
(* The operators of the model. *)

LEMMA TimeType == MaxTime \in Nat /\ Time \subseteq Nat /\ Time \subseteq Int /\ 0 \in Time
  BY TimerAssumption DEF Time

\* Keys that agree on the elements order them alike.
LEMMA AscendingSame ==
    ASSUME NEW s, NEW key, NEW new, \A x \in ToSet(s) : new[x] = key[x],
           Ascending(s, key)
    PROVE  Ascending(s, new)
  BY DEF Ascending, ToSet

\* map::insert with a new expiry.
LEMMA InsertProps ==
    ASSUME NEW q \in Seq(Timer), NEW t \in Timer \ ToSet(q), NEW e \in Time,
           expires \in [Timer -> Time], IsInjective(q), Ascending(q, expires)
    PROVE  /\ Insert(q, t, e) \in Seq(Timer)
           /\ ToSet(Insert(q, t, e)) = ToSet(q) \cup {t}
           /\ IsInjective(Insert(q, t, e))
           /\ Ascending(Insert(q, t, e), [expires EXCEPT ![t] = e])
  <1> DEFINE p == 1 + Cardinality({i \in DOMAIN q : expires[q[i]] <= e})
             new == [expires EXCEPT ![t] = e]
  <1>1. \A x \in ToSet(q) : x \in Timer /\ expires[x] \in Int /\ new[x] = expires[x]
    BY SetOfSeq, TimeType
  <1>2. new[t] = e /\ e \in Int /\ t \in Timer
    BY TimeType
  <1>3. p \in 1..(Len(q) + 1) /\ Ascending(InsertAt(q, p, t), new)
    <2> HIDE DEF new
    <2> QED BY <1>1, <1>2, InsertAscending
  <1>4. Insert(q, t, e) = InsertAt(q, p, t)
    BY DEF Insert
  <1> HIDE DEF p
  <1> QED BY <1>2, <1>3, <1>4, InsertAtProps, InsertAtSet, InsertAtInjective

-----------------------------------------------------------------------------
(* IInv is inductive. *)

LEMMA InitIInv == Init => IInv
  <1> SUFFICES ASSUME Init PROVE IInv
    OBVIOUS
  <1> USE DEF Init
  <1>1. TypeOK
    <2>1. map \in Seq(Timer) /\ list \in Seq(Timer)
      BY EmptySeq
    <2>2. 0 \in 0..MaxModify /\ 0 \in Time
      BY TimeType, TimerAssumption
    <2>3. /\ kind \in [Timer -> {"new", "timer", "idle", "ran", "freed"}]
          /\ expires \in [Timer -> Time]
      BY <2>2
    <2> QED BY <2>1, <2>2, <2>3 DEF TypeOK
  <1>2. Linked
    BY SetOfEmpty DEF Linked
  <1>3. Phases /\ Covered /\ Clocks
    BY DEF Phases, Covered, Clocks
  <1>4. Ordered
    BY DEF Ordered, Ascending
  <1> QED BY <1>1, <1>2, <1>3, <1>4 DEF IInv

\* Calls of the client.
LEMMA ScheduleIInv ==
    ASSUME IInv, NEW t \in Timer, NEW e \in Time, Schedule(t, e),
           UNCHANGED <<cur, running, pc, curtime, wake, clock>>
    PROVE  IInv'
  <1> USE DEF Schedule, IInv
  <1>1. t \notin ToSet(map) /\ t \notin ToSet(list)
    BY DEF Linked
  <1>2. /\ map' \in Seq(Timer) /\ ToSet(map') = ToSet(map) \cup {t}
        /\ IsInjective(map') /\ Ascending(map', expires')
    BY <1>1, InsertProps DEF TypeOK, Linked, Ordered
  <1>3. TypeOK'
    BY <1>2 DEF TypeOK, Touch
  <1>4. Linked'
    <2>1. \A u \in Timer : Runs(u)' = Runs(u) /\ (u # t => kind'[u] = kind[u])
      BY DEF TypeOK, Runs
    <2>2. kind'[t] = "timer" /\ ~Runs(t)
      BY DEF TypeOK, Runs, Phases
    <2> QED BY <1>1, <1>2, <2>1, <2>2 DEF Linked
  <1>5. Phases'
    BY DEF Phases, TypeOK
  <1>6. Covered'
    <2>1. pc = "idle2" => late' = late \cup {t}
      BY DEF Touch
    <2>2. pc \notin {"check", "asleep"}
      BY DEF ClientRuns, Phases
    <2>3. \A u \in Timer : u # t => expires'[u] = expires[u]
      BY DEF TypeOK
    <2>4. Queued \subseteq Timer
      BY SetOfSeq DEF Queued, TypeOK
    <2> QED BY <1>2, <2>1, <2>2, <2>3, <2>4 DEF Covered, Queued
  <1> QED BY <1>2, <1>3, <1>4, <1>5, <1>6 DEF Ordered, Clocks

LEMMA IdleIInv ==
    ASSUME IInv, NEW t \in Timer, Idle(t),
           UNCHANGED <<cur, running, pc, curtime, wake, clock>>
    PROVE  IInv'
  <1> USE DEF Idle, IInv
  <1>1. t \notin ToSet(map) /\ t \notin ToSet(list)
    BY DEF Linked
  <1>2. list' \in Seq(Timer) /\ ToSet(list') = ToSet(list) \cup {t} /\ IsInjective(list')
    BY <1>1, AppendProps DEF TypeOK, Linked
  <1>3. TypeOK'
    BY <1>2 DEF TypeOK
  <1>4. Linked'
    <2>1. \A u \in Timer : Runs(u)' = Runs(u) /\ (u # t => kind'[u] = kind[u])
      BY DEF TypeOK, Runs
    <2>2. kind'[t] = "idle" /\ ~Runs(t)
      BY DEF TypeOK, Runs, Phases
    <2> QED BY <1>1, <1>2, <2>1, <2>2 DEF Linked
  <1>5. Phases'
    BY DEF Phases, TypeOK
  <1>6. Covered'
    BY DEF ClientRuns, Phases, Covered, Queued
  <1> QED BY <1>3, <1>4, <1>5, <1>6 DEF Ordered, Clocks

LEMMA ModifyIInv ==
    ASSUME IInv, NEW t \in Timer, NEW e \in Time, Modify(t, e),
           UNCHANGED <<cur, running, pc, curtime, wake, clock>>
    PROVE  IInv'
  <1> USE DEF Modify, IInv
  <1>1. map' \in Seq(Timer) /\ ToSet(map') = ToSet(map) /\ IsInjective(map')
        /\ Ascending(map', expires')
    <2>1. CASE t = cur /\ UNCHANGED map
      <3>1. t \notin ToSet(map)
        BY <2>1, TimerAssumption DEF Linked, Runs, Phases, ClientRuns
      <3>2. \A x \in ToSet(map) : expires'[x] = expires[x]
        BY <3>1, SetOfSeq DEF TypeOK
      <3> QED BY <2>1, <3>2, AscendingSame DEF TypeOK, Linked, Ordered
    <2>2. CASE t # cur /\ map' = Insert(RemoveFirst(map, t), t, e)
      <3> DEFINE q == RemoveFirst(map, t)
      <3>1. /\ q \in Seq(Timer) /\ ToSet(q) = ToSet(map) \ {t}
            /\ IsInjective(q) /\ Ascending(q, expires)
        BY RemoveFirstProps DEF TypeOK, Linked, Ordered
      <3>2. t \in ToSet(map)
        BY <2>2 DEF Linked, Runs
      <3> HIDE DEF q
      <3>3. /\ Insert(q, t, e) \in Seq(Timer)
            /\ ToSet(Insert(q, t, e)) = ToSet(q) \cup {t}
            /\ IsInjective(Insert(q, t, e))
            /\ Ascending(Insert(q, t, e), [expires EXCEPT ![t] = e])
        BY <3>1, InsertProps DEF TypeOK
      <3> QED BY <2>2, <3>1, <3>2, <3>3 DEF q
    <2> QED BY <2>1, <2>2
  <1>2. TypeOK'
    <2>1. modified' \in 0..MaxModify
      BY TimerAssumption DEF TypeOK
    <2> QED BY <1>1, <2>1 DEF TypeOK, Touch
  <1>3. Linked'
    BY <1>1 DEF Linked, Runs
  <1>4. Phases'
    BY DEF Phases
  <1>5. Covered'
    <2>1. pc = "idle2" => late' = late \cup {t}
      BY DEF Touch
    <2>2. pc \notin {"check", "asleep"}
      BY DEF ClientRuns, Phases
    <2>3. \A u \in Timer : u # t => expires'[u] = expires[u]
      BY DEF TypeOK
    <2>4. Queued \subseteq Timer
      BY SetOfSeq DEF Queued, TypeOK
    <2> QED BY <1>1, <2>1, <2>2, <2>3, <2>4 DEF Covered, Queued
  <1> QED BY <1>1, <1>2, <1>3, <1>4, <1>5 DEF Ordered, Clocks

LEMMA RemoveTimerIInv ==
    ASSUME IInv, NEW t \in Timer, RemoveTimer(t),
           UNCHANGED <<cur, running, pc, curtime, wake, clock>>
    PROVE  IInv'
  <1> USE DEF RemoveTimer, IInv
  <1>1. /\ map' \in Seq(Timer) /\ ToSet(map') = ToSet(map) \ {t}
        /\ IsInjective(map') /\ Ascending(map', expires)
    BY RemoveFirstProps DEF TypeOK, Linked, Ordered
  <1>2. list' \in Seq(Timer) /\ ToSet(list') = ToSet(list) \ {t} /\ IsInjective(list')
    BY RemoveFirstProps DEF TypeOK, Linked
  <1>3. TypeOK'
    BY <1>1, <1>2 DEF TypeOK
  <1>4. Linked'
    <2>1. \A u \in Timer : Runs(u)' = Runs(u) /\ (u # t => kind'[u] = kind[u])
      BY DEF TypeOK, Runs
    <2>2. kind'[t] = "freed"
      BY DEF TypeOK
    <2> QED BY <1>1, <1>2, <2>1, <2>2 DEF Linked
  <1>5. Phases'
    BY DEF Phases, TypeOK
  <1>6. Covered'
    BY <1>1 DEF ClientRuns, Phases, Covered, Queued
  <1> QED BY <1>1, <1>3, <1>4, <1>5, <1>6 DEF Ordered, Clocks

\* Callbacks start.
LEMMA RunIdleIInv == ASSUME IInv, RunIdle PROVE IInv'
  <1> USE DEF RunIdle, IInv
  <1>1. /\ cur' \in ToSet(list) /\ cur' \in Timer /\ list' \in Seq(Timer)
        /\ ToSet(list') = ToSet(list) \ {cur'} /\ IsInjective(list')
    BY TailProps DEF TypeOK, Linked
  <1>2. TypeOK'
    BY <1>1 DEF TypeOK
  <1>3. kind[cur'] = "idle"
    BY <1>1 DEF Linked
  <1>4. Linked'
    BY <1>1, <1>3 DEF Linked, Runs
  <1>5. Phases'
    BY <1>1, <1>3 DEF Phases
  <1>6. Covered'
    BY DEF Covered, Queued
  <1> QED BY <1>2, <1>4, <1>5, <1>6 DEF Ordered, Clocks

LEMMA DispatchIInv == ASSUME IInv, Dispatch PROVE IInv'
  <1> USE DEF Dispatch, IInv
  <1>1. /\ cur' \in ToSet(map) /\ cur' \in Timer /\ map' \in Seq(Timer)
        /\ ToSet(map') = ToSet(map) \ {cur'} /\ IsInjective(map')
        /\ Ascending(map', expires)
    BY TailProps DEF TypeOK, Linked, Ordered, FrontDue
  <1>2. TypeOK'
    BY <1>1 DEF TypeOK
  <1>3. kind[cur'] = "timer"
    BY <1>1 DEF Linked
  <1>4. Linked'
    BY <1>1, <1>3 DEF Linked, Runs
  <1>5. Phases'
    BY <1>1, <1>3 DEF Phases
  <1>6. Covered'
    BY DEF Covered
  <1> QED BY <1>1, <1>2, <1>4, <1>5, <1>6 DEF Ordered, Clocks

\* Callbacks return.
LEMMA IdleReturnIInv == ASSUME IInv, IdleReturn PROVE IInv'
  <1> USE DEF IdleReturn, IInv
  <1>1. cur \in Timer
    BY DEF Phases
  <1>2. TypeOK'
    BY <1>1 DEF TypeOK
  <1>3. Linked'
    <2>1. kind'[cur] = "ran" /\ \A u \in Timer : u # cur => kind'[u] = kind[u]
      BY <1>1 DEF TypeOK
    <2>2. cur \notin ToSet(map) /\ cur \notin ToSet(list)
      BY <1>1 DEF Linked, Runs
    <2> QED BY <2>1, <2>2 DEF Linked, Runs
  <1>4. Phases'
    BY DEF Phases
  <1>5. Covered'
    BY DEF Covered, Queued
  <1> QED BY <1>2, <1>3, <1>4, <1>5 DEF Ordered, Clocks

LEMMA TimerEndsIInv == ASSUME IInv, TimerEnds PROVE IInv'
  <1> USE DEF TimerEnds, IInv
  <1>1. cur \in Timer
    BY DEF Phases
  <1>2. TypeOK'
    BY <1>1 DEF TypeOK
  <1>3. Linked'
    <2>1. kind'[cur] = "freed" /\ \A u \in Timer : u # cur => kind'[u] = kind[u]
      BY <1>1 DEF TypeOK
    <2>2. cur \notin ToSet(map) /\ cur \notin ToSet(list)
      BY <1>1 DEF Linked, Runs
    <2> QED BY <2>1, <2>2 DEF Linked, Runs
  <1>4. Phases'
    BY DEF Phases
  <1>5. Covered'
    BY DEF Covered, Queued
  <1> QED BY <1>2, <1>3, <1>4, <1>5 DEF Ordered, Clocks

LEMMA RearmIInv == ASSUME IInv, NEW d \in Delay, Rearm(d) PROVE IInv'
  <1> USE DEF Rearm, IInv
  <1>1. cur \in Timer /\ pc = "timers"
    BY DEF Phases
  <1>2. cur \notin ToSet(map) /\ cur \notin ToSet(list)
    BY <1>1 DEF Linked, Runs
  <1>3. /\ map' \in Seq(Timer) /\ ToSet(map') = ToSet(map) \cup {cur}
        /\ IsInjective(map') /\ Ascending(map', expires')
    <2>1. expires' = [expires EXCEPT ![cur] = expires[cur] + d]
      OBVIOUS
    <2>2. cur \in Timer \ ToSet(map) /\ expires[cur] + d \in Time
      BY <1>1, <1>2
    <2>3. /\ map \in Seq(Timer) /\ expires \in [Timer -> Time]
          /\ IsInjective(map) /\ Ascending(map, expires)
      BY DEF TypeOK, Linked, Ordered
    <2>4. map' = Insert(map, cur, expires[cur] + d)
      OBVIOUS
    <2> HIDE DEF Rearm, IInv
    <2> QED BY <2>1, <2>2, <2>3, <2>4, InsertProps
  <1>4. TypeOK'
    BY <1>1, <1>3 DEF TypeOK
  <1>5. Linked'
    BY <1>1, <1>2, <1>3 DEF Linked, Runs
  <1>6. Phases' /\ Covered'
    BY <1>1 DEF Phases, Covered
  <1> QED BY <1>3, <1>4, <1>5, <1>6 DEF Ordered, Clocks

LEMMA ApplyAgainIInv == ASSUME IInv, NEW d \in Delay, ApplyAgain(d) PROVE IInv'
  <1> USE DEF ApplyAgain, IInv
  <1>1. cur \in Timer /\ pc = "timers"
    BY DEF Phases
  <1>2. cur \notin ToSet(map)
    BY <1>1 DEF Linked, Runs
  <1>3. expires[cur] + d \in Time
    BY <1>1, TimerAssumption DEF TypeOK, Time
  <1>4. TypeOK'
    BY <1>1, <1>3 DEF TypeOK
  <1>5. Linked'
    BY DEF Linked, Runs
  <1>6. Ordered'
    <2>1. \A x \in ToSet(map) : expires'[x] = expires[x]
      BY <1>1, <1>2, SetOfSeq DEF TypeOK
    <2> QED BY <2>1, AscendingSame DEF Ordered
  <1>7. Phases' /\ Covered'
    BY <1>1 DEF Phases, Covered
  <1> QED BY <1>4, <1>5, <1>6, <1>7 DEF Clocks

\* No timer is due, and the front of the map is the one that expires first.
LEMMA NoneDueIInv == ASSUME IInv, NoneDue PROVE IInv'
  <1> USE DEF NoneDue, IInv, queue
  <1>1. map # <<>> =>
          /\ Head(map) \in ToSet(map) /\ Head(map) \in Timer
          /\ \A x \in ToSet(map) : x # Head(map) => expires[Head(map)] <= expires[x]
    BY TailProps DEF TypeOK, Linked, Ordered
  <1>2. TypeOK'
    BY <1>1 DEF TypeOK, FirstExpiry
  <1>3. Linked'
    BY DEF Linked, Runs
  <1>4. Phases'
    BY DEF Phases
  <1>5. Covered'
    <2>1. map = <<>> => Queued = {}
      BY SetOfEmpty DEF Queued
    <2>2. \A t \in Queued : wake' <= expires[t]
      <3> SUFFICES ASSUME NEW t \in Queued PROVE wake' <= expires[t]
        OBVIOUS
      <3>1. map # <<>> /\ wake' = expires[Head(map)] /\ expires[Head(map)] \in Int
        BY <2>1, <1>1, TimeType DEF FirstExpiry, TypeOK
      <3> QED BY <3>1, <1>1 DEF Queued
    <2> QED BY <2>2 DEF Covered, Queued
  <1> QED BY <1>2, <1>3, <1>4, <1>5 DEF Ordered, Clocks

\* The steps that move loop on, and the clock.
LEMMA PhaseIInv ==
    ASSUME IInv,
           Loop \/ IdleDone \/ LoopIReturns \/ Sleep \/ OnceMore \/ Awake \/ Tick
    PROVE  IInv'
  <1> USE DEF IInv
  <1>0. Clocks'
    <2>1. curtime \in Nat /\ clock \in Nat
      BY TimeType DEF TypeOK
    <2> QED BY <2>1 DEF Loop, IdleDone, LoopIReturns, Sleep, OnceMore, Awake, Tick, Clocks
  <1>1. CASE Loop
    BY <1>0, <1>1, TimerAssumption
       DEF Loop, TypeOK, Linked, Runs, Phases, Ordered, Covered, queue, Queued
  <1>2. CASE IdleDone
    BY <1>0, <1>2, TimerAssumption
       DEF IdleDone, TypeOK, Linked, Runs, Phases, Ordered, Covered, queue, Queued
  <1>3. CASE LoopIReturns
    BY <1>0, <1>3, TimerAssumption
       DEF LoopIReturns, TypeOK, Linked, Runs, Phases, Ordered, Covered, queue, Queued
  <1>4. CASE Sleep
    <2>1. curtime' < wake'
      BY <1>0, <1>4, TimerAssumption DEF Sleep, TypeOK, Time, Never
    <2> QED BY <1>0, <1>4, <2>1
       DEF Sleep, TypeOK, Linked, Runs, Phases, Ordered, Covered, queue, Queued
  <1>5. CASE OnceMore
    BY <1>0, <1>5 DEF OnceMore, TypeOK, Linked, Runs, Phases, Ordered, Covered, Queued
  <1>6. CASE Awake
    BY <1>0, <1>6 DEF Awake, TypeOK, Linked, Runs, Phases, Ordered, Covered, Queued
  <1>7. CASE Tick
    <2>1. clock' \in Time
      BY <1>0, <1>7, TimerAssumption DEF Tick, TypeOK, Time
    <2> QED BY <1>0, <1>7, <2>1
       DEF Tick, TypeOK, Linked, Runs, Phases, Ordered, Covered, queue, Queued
  <1> QED BY <1>1, <1>2, <1>3, <1>4, <1>5, <1>6, <1>7

LEMMA NextIInv == IInv /\ [Next]_vars => IInv'
  <1> SUFFICES ASSUME IInv, [Next]_vars PROVE IInv'
    OBVIOUS
  <1>1. CASE Client
    <2>1. UNCHANGED <<cur, running, pc, curtime, wake, clock>>
      BY <1>1 DEF Client
    <2>2. PICK t \in Timer :
             Idle(t) \/ RemoveTimer(t) \/ \E e \in Time : Schedule(t, e) \/ Modify(t, e)
      BY <1>1 DEF Client
    <2> QED BY <2>1, <2>2, IdleIInv, RemoveTimerIInv, ScheduleIInv, ModifyIInv
  <1>2. CASE Progress
    BY <1>2, RunIdleIInv, IdleReturnIInv, DispatchIInv, TimerEndsIInv, RearmIInv,
       ApplyAgainIInv, NoneDueIInv, PhaseIInv DEF Progress
  <1>3. CASE Awake \/ Tick
    BY <1>3, PhaseIInv
  <1>4. CASE UNCHANGED vars
    BY <1>4 DEF vars, IInv, TypeOK, Linked, Runs, Phases, Ordered, Covered, Clocks, Queued
  <1> QED BY <1>1, <1>2, <1>3, <1>4 DEF Next

\* Whatever callbacks schedule, modify and remove, the links, the order of the
\* map and the expiry loop_i has fixed stay consistent.
THEOREM InvTheorem == Spec => []IInv
  BY InitIInv, NextIInv, PTL DEF Spec

-----------------------------------------------------------------------------
(* What follows from it. *)

LEMMA InvLinkedOnce == IInv => LinkedOnce
  <1> SUFFICES ASSUME IInv PROVE LinkedOnce
    OBVIOUS
  <1>1. TypeOK /\ Linked /\ Phases
    BY DEF IInv
  <1>2. ASSUME NEW t \in Timer
        PROVE  /\ Waiting(t, map) = IF kind[t] = "timer" /\ ~Runs(t) THEN 1 ELSE 0
               /\ Waiting(t, list) = IF kind[t] = "idle" /\ ~Runs(t) THEN 1 ELSE 0
               /\ Runs(t) => kind[t] \in {"timer", "idle"}
    <2>1. Waiting(t, map) = IF t \in ToSet(map) THEN 1 ELSE 0
      BY <1>1, OccursOnce DEF Waiting, TypeOK, Linked
    <2>2. Waiting(t, list) = IF t \in ToSet(list) THEN 1 ELSE 0
      BY <1>1, OccursOnce DEF Waiting, TypeOK, Linked
    <2>3. Runs(t) => kind[t] \in {"timer", "idle"}
      BY <1>1 DEF Phases, Runs
    <2> QED BY <1>1, <2>1, <2>2, <2>3 DEF Linked
  <1> QED BY <1>1, <1>2 DEF LinkedOnce, Runs

\* Every timer is linked exactly once, in the container of its kind, unless it
\* runs; what was deleted or has run is linked nowhere.
THEOREM LinkedTheorem == Spec => []LinkedOnce
  BY InvTheorem, InvLinkedOnce, PTL

LEMMA InvSleepCovers == IInv => SleepCovers
  <1> SUFFICES ASSUME IInv, pc = "asleep", NEW t \in Queued \ late
               PROVE  expires[t] > curtime /\ wake <= expires[t]
    BY DEF IInv, Covered, SleepCovers
  <1>1. wake <= expires[t] /\ curtime < wake
    BY DEF IInv, Covered
  <1>2. t \in Timer
    BY SetOfSeq DEF IInv, TypeOK, Queued
  <1>3. expires[t] \in Int /\ curtime \in Int
    BY <1>2, TimeType DEF IInv, TypeOK
  <1>4. wake \in Int
    BY TimeType DEF IInv, TypeOK, Never
  <1> QED BY <1>1, <1>3, <1>4

\* When the caller sleeps, no idle waits and no timer expires before it wakes,
\* those apart that were set during the second idle loop.
THEOREM SleepTheorem == Spec => []SleepCovers
  BY InvTheorem, InvSleepCovers, PTL

-----------------------------------------------------------------------------
(* TimerManager implements TimerService. *)

LEMMA InitService == Init => Service!Init
  <1> SUFFICES ASSUME Init PROVE Service!Init
    OBVIOUS
  <1>1. Queued = {} /\ ~running /\ clock = 0
    BY SetOfEmpty DEF Init, Queued
  <1> QED BY <1>1 DEF Service!Init, pending, active

\* What a step that leaves the queue alone does to the waiting timers.
LEMMA PendingSame ==
    ASSUME IInv, Queued' = Queued, \A t \in Queued : expires'[t] = expires[t]
    PROVE  pending' = pending
  BY DEF pending

\* A step that changes how one timer waits, as the abstract steps say it.
LEMMA PendingExcept ==
    ASSUME NEW t \in Timer,
           \A u \in Timer : u # t =>
              /\ (u \in Queued') <=> (u \in Queued)
              /\ expires'[u] = expires[u]
    PROVE  pending' = [pending EXCEPT ![t] = pending'[t]]
  BY DEF pending

LEMMA ScheduleService ==
    ASSUME IInv, NEW t \in Timer, NEW e \in Time, Schedule(t, e),
           UNCHANGED <<cur, running, pc, curtime, wake, clock>>
    PROVE  Service!Set(t)
  <1> USE DEF Schedule, IInv
  <1>1. t \notin ToSet(map)
    BY DEF Linked
  <1>2. ToSet(map') = ToSet(map) \cup {t}
    BY <1>1, InsertProps DEF TypeOK, Linked, Ordered
  <1>3. pending'[t] = e /\ e \in Nat
    BY <1>2, TimeType DEF pending, Queued, TypeOK
  <1>4. pending' = [pending EXCEPT ![t] = pending'[t]]
    BY <1>2, PendingExcept DEF Queued, TypeOK
  <1>5. t # active /\ active' = active
    BY TimerAssumption DEF active, Phases, TypeOK
  <1> QED BY <1>3, <1>4, <1>5 DEF Service!Set

\* The running timer is in no queue: modify of it changes nothing that waits.
LEMMA ModifyService ==
    ASSUME IInv, NEW t \in Timer, NEW e \in Time, Modify(t, e),
           UNCHANGED <<cur, running, pc, curtime, wake, clock>>
    PROVE  Service!Set(t) \/ UNCHANGED <<pending, active, clock>>
  <1> USE DEF Modify, IInv
  <1>1. active' = active
    BY DEF active
  <1>2. CASE t = cur /\ UNCHANGED map
    <2>1. t \notin Queued
      BY <1>2, TimerAssumption DEF Linked, Runs, Phases, ClientRuns, Queued
    <2>2. Queued' = Queued /\ \A u \in Queued : expires'[u] = expires[u]
      BY <1>2, <2>1, SetOfSeq DEF TypeOK, Queued
    <2> QED BY <1>1, <2>2, PendingSame
  <1>3. CASE t # cur /\ map' = Insert(RemoveFirst(map, t), t, e)
    <2> DEFINE q == RemoveFirst(map, t)
    <2>1. /\ q \in Seq(Timer) /\ ToSet(q) = ToSet(map) \ {t}
          /\ IsInjective(q) /\ Ascending(q, expires)
      BY RemoveFirstProps DEF TypeOK, Linked, Ordered
    <2> HIDE DEF q
    <2>2. ToSet(Insert(q, t, e)) = ToSet(q) \cup {t}
      BY <2>1, InsertProps DEF TypeOK
    <2>3. Queued' = Queued \cup {t}
      BY <1>3, <2>1, <2>2 DEF q, Queued
    <2>4. pending'[t] = e /\ e \in Nat
      BY <2>3, TimeType DEF pending, TypeOK
    <2>5. pending' = [pending EXCEPT ![t] = pending'[t]]
      BY <2>3, PendingExcept DEF TypeOK
    <2>6. t # active
      BY <1>3, TimerAssumption DEF active
    <2> QED BY <1>1, <2>4, <2>5, <2>6 DEF Service!Set
  <1> QED BY <1>2, <1>3

LEMMA RemoveTimerService ==
    ASSUME IInv, NEW t \in Timer, RemoveTimer(t),
           UNCHANGED <<cur, running, pc, curtime, wake, clock>>
    PROVE  Service!Cancel(t)
  <1> USE DEF RemoveTimer, IInv
  <1>1. ToSet(map') = ToSet(map) \ {t}
    BY RemoveFirstProps DEF TypeOK, Linked
  <1>2. pending'[t] = None
    BY <1>1 DEF pending, Queued
  <1>3. pending' = [pending EXCEPT ![t] = pending'[t]]
    BY <1>1, PendingExcept DEF Queued
  <1>4. active' = active
    BY DEF active, Phases, TypeOK
  <1> QED BY <1>2, <1>3, <1>4 DEF Service!Cancel

\* dispatch fires the front of the map, which no other timer is before.
LEMMA DispatchService ==
    ASSUME IInv, Dispatch
    PROVE  \E t \in Timer : Service!Fire(t)
  <1> USE DEF Dispatch, IInv
  <1>1. /\ cur' \in ToSet(map) /\ cur' \in Timer
        /\ ToSet(map') = ToSet(map) \ {cur'}
        /\ \A x \in ToSet(map) : x # cur' => expires[cur'] <= expires[x]
    BY TailProps DEF TypeOK, Linked, Ordered, FrontDue
  <1>2. kind[cur'] = "timer"
    BY <1>1 DEF Linked
  <1>3. active = None /\ active' = cur'
    BY <1>2 DEF active
  <1>4. expires[cur'] <= clock /\ expires[cur'] \in Nat
    <2>1. expires[cur'] <= curtime /\ curtime <= clock
      BY DEF FrontDue, Due, Clocks
    <2>2. expires[cur'] \in Nat /\ curtime \in Nat /\ clock \in Nat
      BY <1>1, TimeType DEF TypeOK
    <2> QED BY <2>1, <2>2
  <1>5. pending[cur'] = expires[cur']
    BY <1>1 DEF pending, Queued
  <1>6. \A u \in Timer : pending[u] # None => pending[cur'] <= pending[u]
    BY <1>1, <1>4, <1>5 DEF pending, Queued
  <1>7. pending'[cur'] = None
    BY <1>1 DEF pending, Queued
  <1>8. pending' = [pending EXCEPT ![cur'] = None]
    BY <1>1, <1>7, PendingExcept DEF Queued
  <1>9. pending[cur'] # None
    BY <1>1, <1>5, TimerAssumption DEF TypeOK, Time
  <1> QED BY <1>1, <1>3, <1>4, <1>5, <1>6, <1>8, <1>9 DEF Service!Fire

\* A callback of a timer returns.
LEMMA ReturnService ==
    ASSUME IInv, TimerEnds \/ \E d \in Delay : Rearm(d)
    PROVE  \E t \in Timer : Service!Return(t)
  <1>1. running /\ cur \in Timer /\ kind[cur] = "timer" /\ ~running' /\ UNCHANGED clock
    BY DEF IInv, Phases, TimerEnds, Rearm
  <1>2. cur \notin ToSet(map)
    BY <1>1 DEF IInv, Linked, Runs
  <1>3. active = cur /\ active' = None
    BY <1>1 DEF active
  <1>4. ASSUME NEW u \in Timer, u # cur
        PROVE  (u \in Queued' <=> u \in Queued) /\ expires'[u] = expires[u]
    <2>1. CASE TimerEnds
      BY <2>1 DEF TimerEnds, Queued
    <2>2. CASE \E d \in Delay : Rearm(d)
      <3>1. PICK d \in Delay : Rearm(d)
        BY <2>2
      <3>2. ToSet(map') = ToSet(map) \cup {cur}
        BY <1>1, <1>2, <3>1, InsertProps DEF IInv, TypeOK, Linked, Ordered, Rearm
      <3>3. expires'[u] = expires[u]
        BY <1>4, <3>1 DEF IInv, TypeOK, Rearm
      <3> QED BY <1>4, <3>2, <3>3 DEF Queued
    <2> QED BY <2>1, <2>2
  <1>5. pending' = [pending EXCEPT ![cur] = pending'[cur]]
    BY <1>1, <1>4, PendingExcept
  <1>6. pending'[cur] = None \/ pending'[cur] \in Nat
    <2>1. expires' \in [Timer -> Time]
      BY <1>1 DEF IInv, TypeOK, TimerEnds, Rearm
    <2> QED BY <1>1, <2>1, TimeType DEF pending
  <1> QED BY <1>1, <1>3, <1>5, <1>6 DEF Service!Return

\* Everything else loop does is of no concern to the client.
LEMMA StutterService ==
    ASSUME IInv,
           \/ Loop \/ RunIdle \/ IdleReturn \/ IdleDone \/ NoneDue
           \/ \E d \in Delay : ApplyAgain(d)
           \/ LoopIReturns \/ Sleep \/ OnceMore \/ Awake
    PROVE  UNCHANGED <<pending, active, clock>>
  <1> USE DEF IInv
  <1>1. CASE Loop \/ IdleDone \/ NoneDue \/ LoopIReturns \/ Sleep \/ OnceMore \/ Awake
    <2>1. ~running /\ ~running' /\ UNCHANGED <<map, expires, clock>>
      BY <1>1 DEF Loop, IdleDone, NoneDue, LoopIReturns, Sleep, OnceMore, Awake, Phases,
                  queue
    <2> QED BY <2>1 DEF pending, active, Queued
  <1>2. CASE RunIdle
    <2>1. Head(list) \in ToSet(list) /\ Head(list) \in Timer
      BY <1>2, TailProps DEF RunIdle, TypeOK, Linked
    <2>2. kind[Head(list)] = "idle"
      BY <2>1 DEF Linked
    <2> QED BY <1>2, <2>2 DEF RunIdle, pending, active, Queued
  <1>3. CASE IdleReturn
    BY <1>3 DEF IdleReturn, pending, active, Queued
  <1>4. CASE \E d \in Delay : ApplyAgain(d)
    <2>1. cur \in Timer /\ cur \notin ToSet(map) /\ Queued' = Queued
      BY <1>4 DEF ApplyAgain, Phases, Linked, Runs, Queued
    <2>2. \A t \in Queued : expires'[t] = expires[t]
      BY <1>4, <2>1, SetOfSeq DEF ApplyAgain, TypeOK, Queued
    <2>3. UNCHANGED <<active, clock>>
      BY <1>4 DEF ApplyAgain, active
    <2> QED BY <2>1, <2>2, <2>3, PendingSame
  <1> QED BY <1>1, <1>2, <1>3, <1>4

LEMMA NextService == IInv /\ [Next]_vars => [Service!Next]_<<pending, active, clock>>
  <1> SUFFICES ASSUME IInv, [Next]_vars
               PROVE  [Service!Next]_<<pending, active, clock>>
    OBVIOUS
  <1>1. CASE Client
    <2>1. UNCHANGED <<cur, running, pc, curtime, wake, clock>>
      BY <1>1 DEF Client
    <2>2. PICK t \in Timer :
             Idle(t) \/ RemoveTimer(t) \/ \E e \in Time : Schedule(t, e) \/ Modify(t, e)
      BY <1>1 DEF Client
    <2>3. CASE Idle(t)
      <3>1. UNCHANGED <<pending, active>>
        BY <2>1, <2>3 DEF Idle, IInv, Phases, TypeOK, pending, active, Queued
      <3> QED BY <2>1, <3>1
    <2>4. CASE RemoveTimer(t)
      BY <2>1, <2>4, RemoveTimerService DEF Service!Next
    <2>5. CASE \E e \in Time : Schedule(t, e)
      BY <2>1, <2>5, ScheduleService DEF Service!Next
    <2>6. CASE \E e \in Time : Modify(t, e)
      BY <2>1, <2>6, ModifyService DEF Service!Next
    <2> QED BY <2>2, <2>3, <2>4, <2>5, <2>6
  <1>2. CASE Progress
    <2>1. CASE Dispatch
      BY <2>1, DispatchService DEF Service!Next
    <2>2. CASE TimerEnds \/ \E d \in Delay : Rearm(d)
      BY <2>2, ReturnService DEF Service!Next
    <2>3. CASE ~Dispatch /\ ~(TimerEnds \/ \E d \in Delay : Rearm(d))
      BY <1>2, <2>3, StutterService DEF Progress
    <2> QED BY <2>1, <2>2, <2>3
  <1>3. CASE Awake
    BY <1>3, StutterService
  <1>4. CASE Tick
    <2>1. clock' > clock
      BY <1>4, TimeType DEF Tick, IInv, TypeOK
    <2>2. UNCHANGED <<pending, active>>
      BY <1>4 DEF Tick, queue, pending, active, Queued
    <2> QED BY <2>1, <2>2 DEF Service!Next, Service!Tick
  <1>5. CASE UNCHANGED vars
    BY <1>5 DEF vars, pending, active, Queued
  <1> QED BY <1>1, <1>2, <1>3, <1>4, <1>5 DEF Next

\* The map, the list and loop implement TimerService: one callback runs at a
\* time, never early, and always that of the earliest timer that waits.
THEOREM RefinementTheorem == Spec => ServiceSpec
  <1>1. Init => Service!Init
    BY InitService
  <1>2. IInv /\ [Next]_vars => [Service!Next]_(Service!vars)
    BY NextService DEF Service!vars
  <1> QED BY <1>1, <1>2, InvTheorem, PTL DEF Spec, ServiceSpec, Service!Spec

-----------------------------------------------------------------------------
(* HashMap: recursive functions, which must be shown to exist. *)

\* A recursion over D that goes from x to d[x], where a bounded measure is less, and
\* ends in stop; and what solves it.
Falls(D, V, G, d, R, stop, m, K) ==
    /\ K \in Nat
    /\ \A x \in D : m[x] \in 0..K /\ R[x] \in V
    /\ \A x \in D, v \in V : G[<<x, v>>] \in V
    /\ \A x \in D : x \in stop \/ (d[x] \in D /\ m[d[x]] < m[x])

Solves(f, D, V, G, d, R, stop) ==
    f \in [D -> V] /\ \A x \in D : f[x] = IF x \in stop THEN R[x] ELSE G[<<x, f[d[x]]>>]

\* A recursion that falls has a solution.
LEMMA RecursionExists ==
    ASSUME NEW D, NEW V, NEW G, NEW d, NEW R, NEW stop, NEW m, NEW K,
           Falls(D, V, G, d, R, stop, m, K)
    PROVE  \E f : Solves(f, D, V, G, d, R, stop)
  <1>0. /\ K \in Nat
        /\ \A x \in D : m[x] \in 0..K /\ R[x] \in V
        /\ \A x \in D, v \in V : G[<<x, v>>] \in V
        /\ \A x \in D : x \in stop \/ (d[x] \in D /\ m[d[x]] < m[x])
    BY DEF Falls
  <1> DEFINE Value(f, x) == IF x \in stop THEN R[x] ELSE G[<<x, f[d[x]]>>]
             Upto(f, k) == \A x \in D : m[x] <= k => f[x] = Value(f, x)
             S == {k \in Nat : \E f \in [D -> V] : Upto(f, k)}
  <1>1. 0 \in S
    <2> DEFINE f == [x \in D |-> R[x]]
    <2>1. f \in [D -> V]
      BY <1>0
    <2>2. ASSUME NEW x \in D, m[x] <= 0 PROVE f[x] = Value(f, x)
      <3>1. x \in stop
        BY <1>0, <2>2
      <3> QED BY <3>1
    <2> QED BY <2>1, <2>2
  <1>2. ASSUME NEW k \in 0..(K - 1), k \in S PROVE k + 1 \in S
    <2>1. PICK f \in [D -> V] : Upto(f, k)
      BY <1>2
    <2> DEFINE h == [x \in D |-> Value(f, x)]
    <2>2. h \in [D -> V]
      <3> SUFFICES ASSUME NEW x \in D PROVE Value(f, x) \in V
        OBVIOUS
      <3> QED BY <1>0, <2>1
    <2>3. ASSUME NEW x \in D, m[x] <= k + 1 PROVE h[x] = Value(h, x)
      <3>1. CASE x \in stop
        BY <3>1
      <3>2. CASE x \notin stop
        <4>1. d[x] \in D /\ m[d[x]] <= k
          BY <1>0, <2>3, <3>2
        <4>2. f[d[x]] = Value(f, d[x])
          BY <2>1, <4>1
        <4>3. h[d[x]] = f[d[x]]
          BY <4>1, <4>2
        <4> QED BY <3>2, <4>3
      <3> QED BY <3>1, <3>2
    <2>4. Upto(h, k + 1)
      BY <2>3
    <2> HIDE DEF h, Upto
    <2> QED BY <2>2, <2>4
  <1>3. \A k \in 0..K : k \in S
    <2> HIDE DEF S
    <2> QED BY <1>0, <1>1, <1>2, IntervalInduction
  <1>4. PICK f \in [D -> V] : Upto(f, K)
    BY <1>0, <1>3
  <1>5. \A x \in D : f[x] = Value(f, x)
    BY <1>0, <1>4
  <1> QED BY <1>5 DEF Solves

\* The powers of two.
LEMMA PowerIs ==
    /\ Power[0] = 1
    /\ \A o \in Nat : Power[o] \in Nat \ {0} /\ Power[o + 1] = 2 * Power[o]
  <1> DEFINE Is(f, n) == /\ f \in [0..n -> Nat]
                         /\ \A o \in 0..n : f[o] = IF o = 0 THEN 1 ELSE 2 * f[o - 1]
  <1>1. ASSUME NEW n \in Nat PROVE \E f : Is(f, n)
    <2> DEFINE D == 0..n
               G == [w \in D \X Nat |-> 2 * w[2]]
               d == [o \in D |-> o - 1]
               R == [o \in D |-> 1]
               m == [o \in D |-> o]
               stop == {0}
    <2>1. \A x \in D : m[x] \in 0..n /\ R[x] \in Nat
      OBVIOUS
    <2>2. \A x \in D, v \in Nat : G[<<x, v>>] \in Nat
      OBVIOUS
    <2>3. \A x \in D : x \in stop \/ (d[x] \in D /\ m[d[x]] < m[x])
      OBVIOUS
    <2> HIDE DEF D, G, d, R, m, stop
    <2>4. Falls(D, Nat, G, d, R, stop, m, n)
      BY <2>1, <2>2, <2>3 DEF Falls
    <2>6. PICK f : Solves(f, D, Nat, G, d, R, stop)
      BY <2>4, RecursionExists
    <2>7. f \in [D -> Nat] /\ \A x \in D : f[x] = IF x \in stop THEN R[x] ELSE G[<<x, f[d[x]]>>]
      BY <2>6 DEF Solves
    <2>5. ASSUME NEW o \in 0..n PROVE f[o] = IF o = 0 THEN 1 ELSE 2 * f[o - 1]
      <3>1. CASE o = 0
        BY <2>7, <3>1 DEF D, R, stop
      <3>2. CASE o # 0
        <4>1. d[o] = o - 1 /\ o - 1 \in D
          BY <3>2 DEF D, d
        <4>2. f[o] = G[<<o, f[o - 1]>>]
          BY <2>7, <3>2, <4>1 DEF D, stop
        <4>3. f[o - 1] \in Nat /\ o \in D
          BY <2>7, <4>1 DEF D
        <4> QED BY <3>2, <4>2, <4>3 DEF G
      <3> QED BY <3>1, <3>2
    <2> QED BY <2>5, <2>7 DEF D
  <1>2. ASSUME NEW n \in Nat, NEW k \in 0..n, NEW f, NEW g, Is(f, n), Is(g, k)
        PROVE  \A o \in 0..k : f[o] = g[o]
    <2> DEFINE S == {o \in 0..k : f[o] = g[o]}
    <2>1. 0 \in S
      BY <1>2
    <2>2. ASSUME NEW i \in 0..(k - 1), i \in S PROVE i + 1 \in S
      <3>1. i + 1 \in 0..n /\ i + 1 \in 0..k /\ i + 1 # 0 /\ (i + 1) - 1 = i
        OBVIOUS
      <3>2. f[i + 1] = 2 * f[i]
        BY <1>2, <3>1
      <3>3. g[i + 1] = 2 * g[i]
        BY <1>2, <3>1
      <3> QED BY <2>2, <3>1, <3>2, <3>3
    <2>3. \A o \in 0..k : o \in S
      <3> HIDE DEF S
      <3> QED BY <2>1, <2>2, IntervalInduction
    <2> QED BY <2>3
  <1> DEFINE Sol(n) == CHOOSE f : Is(f, n)
             P == [n \in Nat |-> Sol(n)[n]]
  <1>3. ASSUME NEW n \in Nat PROVE Is(Sol(n), n)
    <2> HIDE DEF Is
    <2> QED BY <1>1
  <1> HIDE DEF Sol
  <1>4. P[0] = 1
    BY <1>3
  <1>5. ASSUME NEW n \in Nat PROVE P[n + 1] = 2 * P[n] /\ P[n] \in Nat
    <2>1. Is(Sol(n), n) /\ Is(Sol(n + 1), n + 1)
      BY <1>3
    <2>2. Sol(n + 1)[n] = Sol(n)[n]
      <3>1. n + 1 \in Nat /\ n \in 0..(n + 1) /\ n \in 0..n
        OBVIOUS
      <3>2. \A o \in 0..n : Sol(n + 1)[o] = Sol(n)[o]
        <4> HIDE DEF Is
        <4> QED BY <1>2, <2>1, <3>1
      <3> QED BY <3>1, <3>2
    <2>3. Sol(n + 1)[n + 1] = 2 * Sol(n + 1)[n]
      BY <2>1
    <2>4. Sol(n)[n] \in Nat
      BY <2>1
    <2> QED BY <2>2, <2>3, <2>4
  <1>6. P = [o \in Nat |-> IF o = 0 THEN 1 ELSE 2 * P[o - 1]]
    <2>1. ASSUME NEW o \in Nat PROVE P[o] = IF o = 0 THEN 1 ELSE 2 * P[o - 1]
      <3>1. CASE o = 0
        BY <1>4, <3>1
      <3>2. CASE o # 0
        <4>1. o - 1 \in Nat /\ (o - 1) + 1 = o
          BY <3>2
        <4>2. P[(o - 1) + 1] = 2 * P[o - 1]
          BY <1>5, <4>1
        <4> HIDE DEF P
        <4> QED BY <3>2, <4>1, <4>2
      <3> QED BY <3>1, <3>2
    <2>2. \A o \in Nat : P[o] = IF o = 0 THEN 1 ELSE 2 * P[o - 1]
      BY <2>1
    <2>3. P = [n \in Nat |-> P[n]]
      OBVIOUS
    <2> HIDE DEF P
    <2> QED BY <2>2, <2>3
  <1> HIDE DEF P
  <1>7. Power = [o \in Nat |-> IF o = 0 THEN 1 ELSE 2 * Power[o - 1]]
    BY <1>6, Zenon DEF Power
  <1>8. Power[0] = 1 /\ \A o \in Nat : Power[o + 1] = 2 * Power[o]
    <2>1. \A o \in Nat : Power[o] = IF o = 0 THEN 1 ELSE 2 * Power[o - 1]
      BY <1>7
    <2> QED BY <2>1
  <1>9. ASSUME NEW o \in Nat PROVE Power[o] \in Nat \ {0}
    <2> DEFINE S == {i \in Nat : Power[i] \in Nat \ {0}}
    <2>1. 0 \in S /\ \A i \in 0..(o - 1) : i \in S => i + 1 \in S
      BY <1>8
    <2>2. \A i \in 0..o : i \in S
      <3> HIDE DEF S
      <3> QED BY <2>1, IntervalInduction
    <2> QED BY <2>2
  <1> QED BY <1>8, <1>9

\* order: the bits it shifts out and the entry it adds are natural numbers.
LEMMA ShiftedIs ==
    \A n \in Nat :
        /\ Shifted[n] \in Nat
        /\ Shifted[n] = IF n > 255 THEN 8 + Shifted[n \div 256] ELSE ordertab[n]
  <1>0. \A n \in Nat : n > 255 => n \div 256 \in Nat /\ n \div 256 < n
    OBVIOUS
  <1>1. \A n \in 0..255 : ordertab[n] \in Nat
    BY DEF ordertab
  <1> DEFINE Is(f, n) ==
        /\ f \in [0..n -> Nat]
        /\ \A o \in 0..n : f[o] = IF o > 255 THEN 8 + f[o \div 256] ELSE ordertab[o]
  <1>2. ASSUME NEW n \in Nat PROVE \E f : Is(f, n)
    <2> DEFINE D == 0..n
               G == [w \in D \X Nat |-> 8 + w[2]]
               d == [o \in D |-> o \div 256]
               R == [o \in D |-> IF o > 255 THEN 0 ELSE ordertab[o]]
               m == [o \in D |-> o]
               stop == {o \in D : o <= 255}
    <2>1. \A x \in D : m[x] \in 0..n /\ R[x] \in Nat
      BY <1>1
    <2>2. \A x \in D, v \in Nat : G[<<x, v>>] \in Nat
      OBVIOUS
    <2>3. \A x \in D : x \in stop \/ (d[x] \in D /\ m[d[x]] < m[x])
      <3>1. ASSUME NEW x \in D, x > 255 PROVE d[x] \in D /\ m[d[x]] < m[x]
        <4>1. x \div 256 \in D /\ x \div 256 < x
          BY <1>0, <3>1
        <4> QED BY <4>1
      <3> QED BY <3>1
    <2> HIDE DEF D, G, d, R, m, stop
    <2>4. Falls(D, Nat, G, d, R, stop, m, n)
      BY <2>1, <2>2, <2>3 DEF Falls
    <2>5. PICK f : Solves(f, D, Nat, G, d, R, stop)
      BY <2>4, RecursionExists
    <2>6. f \in [D -> Nat] /\ \A x \in D : f[x] = IF x \in stop THEN R[x] ELSE G[<<x, f[d[x]]>>]
      BY <2>5 DEF Solves
    <2>7. ASSUME NEW o \in 0..n
          PROVE  f[o] = IF o > 255 THEN 8 + f[o \div 256] ELSE ordertab[o]
      <3>1. CASE o <= 255
        <4>1. o \in D /\ o \in stop /\ R[o] = ordertab[o]
          BY <3>1 DEF D, stop, R
        <4>2. f[o] = ordertab[o]
          BY <2>6, <4>1
        <4>3. ~(o > 255)
          BY <3>1
        <4> QED BY <4>2, <4>3
      <3>2. CASE o > 255
        <4>1. o \in D /\ o \notin stop /\ d[o] = o \div 256 /\ o \div 256 \in D
          BY <1>0, <3>2 DEF D, stop, d
        <4>2. f[o] = G[<<o, f[o \div 256]>>] /\ f[o \div 256] \in Nat
          BY <2>6, <4>1
        <4> QED BY <3>2, <4>1, <4>2 DEF G
      <3> QED BY <3>1, <3>2
    <2> QED BY <2>6, <2>7 DEF D
  <1>3. ASSUME NEW n \in Nat, NEW k \in 0..n, NEW f, NEW g, Is(f, n), Is(g, k)
        PROVE  f[k] = g[k]
    <2> DEFINE S == {o \in 0..k : \A i \in 0..o : f[i] = g[i]}
    <2>1. 0 \in S
      BY <1>3
    <2>2. ASSUME NEW i \in 0..(k - 1), i \in S PROVE i + 1 \in S
      <3>1. i + 1 \in 0..n /\ i + 1 \in 0..k
        OBVIOUS
      <3>2. f[i + 1] = g[i + 1]
        <4>1. CASE i + 1 <= 255
          BY <1>3, <3>1, <4>1
        <4>2. CASE i + 1 > 255
          <5>1. (i + 1) \div 256 \in 0..i
            BY <1>0, <3>1, <4>2
          <5>2. f[(i + 1) \div 256] = g[(i + 1) \div 256]
            BY <2>2, <5>1
          <5>3. f[i + 1] = 8 + f[(i + 1) \div 256] /\ g[i + 1] = 8 + g[(i + 1) \div 256]
            BY <1>3, <3>1, <4>2
          <5> QED BY <5>2, <5>3
        <4> QED BY <4>1, <4>2
      <3> QED BY <2>2, <3>1, <3>2
    <2>3. \A o \in 0..k : o \in S
      <3> HIDE DEF S
      <3> QED BY <2>1, <2>2, IntervalInduction
    <2>4. k \in S /\ k \in 0..k
      BY <2>3
    <2> QED BY <2>4
  <1> DEFINE Sol(n) == CHOOSE f : Is(f, n)
             P == [n \in Nat |-> Sol(n)[n]]
  <1>4. ASSUME NEW n \in Nat PROVE Is(Sol(n), n)
    <2> HIDE DEF Is
    <2> QED BY <1>2
  <1> HIDE DEF Sol
  <1>5. ASSUME NEW n \in Nat
        PROVE  P[n] = IF n > 255 THEN 8 + P[n \div 256] ELSE ordertab[n]
    <2>1. Is(Sol(n), n) /\ n \in 0..n
      BY <1>4
    <2>2. Sol(n)[n] = IF n > 255 THEN 8 + Sol(n)[n \div 256] ELSE ordertab[n]
      BY <2>1
    <2>3. ASSUME n > 255 PROVE Sol(n)[n \div 256] = P[n \div 256]
      <3> DEFINE q == n \div 256
      <3>1. q \in Nat /\ q \in 0..n
        BY <1>0, <2>3
      <3> HIDE DEF q
      <3>2. Is(Sol(q), q)
        BY <1>4, <3>1
      <3>3. Sol(n)[q] = Sol(q)[q]
        <4> HIDE DEF Is
        <4> QED BY <1>3, <2>1, <3>1, <3>2
      <3>4. P[q] = Sol(q)[q]
        BY <3>1
      <3> QED BY <3>3, <3>4 DEF q
    <2>4. P[n] = Sol(n)[n]
      OBVIOUS
    <2> HIDE DEF P
    <2> QED BY <2>2, <2>3, <2>4
  <1>6. P = [n \in Nat |-> IF n > 255 THEN 8 + P[n \div 256] ELSE ordertab[n]]
    <2>1. P = [n \in Nat |-> P[n]]
      OBVIOUS
    <2> HIDE DEF P
    <2> QED BY <1>5, <2>1
  <1>7. \A n \in Nat : P[n] \in Nat
    <2> SUFFICES ASSUME NEW n \in Nat PROVE P[n] \in Nat
      OBVIOUS
    <2>1. Is(Sol(n), n) /\ n \in 0..n
      BY <1>4
    <2> QED BY <2>1
  <1> HIDE DEF P
  <1>8. Shifted = [n \in Nat |-> IF n > 255 THEN 8 + Shifted[n \div 256] ELSE ordertab[n]]
    BY <1>6, Zenon DEF Shifted
  <1>9. \A n \in Nat : Shifted[n] = IF n > 255 THEN 8 + Shifted[n \div 256] ELSE ordertab[n]
    BY <1>8
  <1>10. ASSUME NEW n \in Nat PROVE Shifted[n] \in Nat
    <2> DEFINE S == {o \in 0..n : \A i \in 0..o : Shifted[i] \in Nat}
    <2>1. 0 \in S
      BY <1>1, <1>9
    <2>2. ASSUME NEW i \in 0..(n - 1), i \in S PROVE i + 1 \in S
      <3>1. Shifted[i + 1] \in Nat
        <4>1. CASE i + 1 <= 255
          <5>1. i + 1 \in 0..255 /\ i + 1 \in Nat /\ ~(i + 1 > 255)
            BY <4>1
          <5>2. Shifted[i + 1] = ordertab[i + 1]
            BY <1>9, <5>1
          <5> QED BY <1>1, <5>1, <5>2
        <4>2. CASE i + 1 > 255
          <5>1. (i + 1) \div 256 \in 0..i
            BY <1>0, <4>2
          <5>2. Shifted[(i + 1) \div 256] \in Nat
            BY <2>2, <5>1
          <5>3. Shifted[i + 1] = 8 + Shifted[(i + 1) \div 256]
            BY <1>9, <4>2
          <5> QED BY <5>2, <5>3
        <4> QED BY <4>1, <4>2
      <3> QED BY <2>2, <3>1
    <2>3. \A o \in 0..n : o \in S
      <3> HIDE DEF S
      <3> QED BY <2>1, <2>2, IntervalInduction
    <2>4. n \in S /\ n \in 0..n
      BY <2>3
    <2> QED BY <2>4
  <1> QED BY <1>9, <1>10

\* What order starts from holds the number, or half of it and one more, and is less
\* than twice the number: the loop loses up to 255 of what it shifts out.
LEMMA ShiftedFits ==
    ASSUME NEW n \in Nat
    PROVE  /\ n + 1 <= 2 * Power[Shifted[n]]
           /\ n > 0 => Power[Shifted[n]] < 2 * n
  <1> DEFINE Fits(i) == /\ i + 1 <= 2 * Power[Shifted[i]]
                        /\ i > 0 => Power[Shifted[i]] < 2 * i
  <1>1. /\ Power[0] = 1 /\ Power[1] = 2 /\ Power[2] = 4 /\ Power[3] = 8 /\ Power[4] = 16
        /\ Power[5] = 32 /\ Power[6] = 64 /\ Power[7] = 128 /\ Power[8] = 256
    <2>1. /\ Power[0] = 1 /\ Power[0 + 1] = 2 * Power[0] /\ Power[1 + 1] = 2 * Power[1]
          /\ Power[2 + 1] = 2 * Power[2] /\ Power[3 + 1] = 2 * Power[3]
          /\ Power[4 + 1] = 2 * Power[4] /\ Power[5 + 1] = 2 * Power[5]
          /\ Power[6 + 1] = 2 * Power[6] /\ Power[7 + 1] = 2 * Power[7]
      BY PowerIs
    <2> QED BY <2>1
  <1>2. ASSUME NEW i \in 0..255 PROVE Fits(i)
    <2>1. Shifted[i] = ordertab[i]
      BY ShiftedIs
    <2>2. \/ i \in 0..1 /\ ordertab[i] = 0
          \/ i = 2 /\ ordertab[i] = 1
          \/ i \in 3..4 /\ ordertab[i] = 2
          \/ i \in 5..8 /\ ordertab[i] = 3
          \/ i \in 9..16 /\ ordertab[i] = 4
          \/ i \in 17..32 /\ ordertab[i] = 5
          \/ i \in 33..64 /\ ordertab[i] = 6
          \/ i \in 65..128 /\ ordertab[i] = 7
          \/ i \in 129..255 /\ ordertab[i] = 8
      BY DEF ordertab
    <2> QED BY <1>1, <2>1, <2>2
  \* A byte shifted out multiplies by 256.
  <1>3. ASSUME NEW o \in Nat PROVE Power[8 + o] = 256 * Power[o]
    <2> DEFINE p(k) == Power[o + k]
    <2>1. \A k \in Nat : p(k) \in Nat /\ p(k + 1) = 2 * p(k)
      <3> SUFFICES ASSUME NEW k \in Nat PROVE p(k) \in Nat /\ p(k + 1) = 2 * p(k)
        OBVIOUS
      <3>1. o + k \in Nat /\ (o + k) + 1 = o + (k + 1)
        OBVIOUS
      <3>2. Power[(o + k) + 1] = 2 * Power[o + k] /\ Power[o + k] \in Nat
        BY <3>1, PowerIs
      <3> QED BY <3>1, <3>2
    <2>2. p(0) = Power[o] /\ p(8) = Power[8 + o]
      <3>1. o + 0 = o /\ o + 8 = 8 + o
        OBVIOUS
      <3> QED BY <3>1
    <2> HIDE DEF p
    <2>3. /\ p(0) \in Nat /\ p(1) = 2 * p(0) /\ p(2) = 2 * p(1) /\ p(3) = 2 * p(2)
          /\ p(4) = 2 * p(3) /\ p(5) = 2 * p(4) /\ p(6) = 2 * p(5) /\ p(7) = 2 * p(6)
          /\ p(8) = 2 * p(7)
      <3>1. /\ p(0 + 1) = 2 * p(0) /\ p(1 + 1) = 2 * p(1) /\ p(2 + 1) = 2 * p(2)
            /\ p(3 + 1) = 2 * p(3) /\ p(4 + 1) = 2 * p(4) /\ p(5 + 1) = 2 * p(5)
            /\ p(6 + 1) = 2 * p(6) /\ p(7 + 1) = 2 * p(7) /\ p(0) \in Nat
        BY <2>1
      <3> QED BY <3>1
    <2> QED BY <2>2, <2>3
  <1> DEFINE S == {o \in 0..n : \A i \in 0..o : Fits(i)}
  <1>4. 0 \in S
    BY <1>2
  <1>5. ASSUME NEW j \in 0..(n - 1), j \in S PROVE j + 1 \in S
    <2> DEFINE i == j + 1
    <2>1. Fits(i)
      <3>1. CASE i <= 255
        <4>1. i \in 0..255
          BY <3>1
        <4> QED BY <1>2, <4>1
      <3>2. CASE i > 255
        <4> DEFINE q == i \div 256
                   r == i % 256
        <4>1. i \in Nat /\ q \in Nat /\ r \in 0..255 /\ i = 256 * q + r /\ q > 0 /\ q \in 0..j
          BY <3>2
        <4>2. Fits(q)
          <5> HIDE DEF Fits, q
          <5> QED BY <1>5, <4>1
        <4>3. Shifted[q] \in Nat /\ Shifted[i] = 8 + Shifted[q]
          BY <3>2, <4>1, ShiftedIs
        <4>4. Power[Shifted[i]] = 256 * Power[Shifted[q]] /\ Power[Shifted[q]] \in Nat
          BY <1>3, <4>3, PowerIs
        <4>5. q + 1 <= 2 * Power[Shifted[q]] /\ Power[Shifted[q]] < 2 * q
          BY <4>1, <4>2
        <4> HIDE DEF q, r, i
        <4> QED BY <4>1, <4>4, <4>5
      <3>3. i \in Nat
        OBVIOUS
      <3> QED BY <3>1, <3>2, <3>3
    <2> HIDE DEF Fits
    <2> QED BY <1>5, <2>1
  <1>6. \A o \in 0..n : o \in S
    <2> HIDE DEF S
    <2> QED BY <1>4, <1>5, IntervalInduction
  <1>7. n \in S /\ n \in 0..n
    BY <1>6
  <1> QED BY <1>7

\* order finds the least power of two that holds a number: the comment over it
\* promises that the power holds it; that no smaller one does is what the table,
\* the bytes shifted out and the last bit added make together.
THEOREM OrderTheorem ==
    \A n \in Nat \ {0} :
        /\ Order(n) \in Nat
        /\ n <= Power[Order(n)]
        /\ Order(n) > 0 => Power[Order(n) - 1] < n
  <1> SUFFICES ASSUME NEW n \in Nat \ {0}
               PROVE  /\ Order(n) \in Nat
                      /\ n <= Power[Order(n)]
                      /\ Order(n) > 0 => Power[Order(n) - 1] < n
    OBVIOUS
  <1> DEFINE s == Shifted[n]
  <1>1. s \in Nat /\ Power[s] \in Nat /\ Power[s + 1] = 2 * Power[s]
    BY ShiftedIs, PowerIs
  <1>2. n + 1 <= 2 * Power[s] /\ Power[s] < 2 * n
    BY ShiftedFits
  <1>3. Order(n) = IF Power[s] < n THEN s + 1 ELSE s
    BY DEF Order
  <1> HIDE DEF s
  <1>4. CASE Power[s] < n
    <2>1. Order(n) = s + 1 /\ (s + 1) - 1 = s
      BY <1>1, <1>3, <1>4
    <2> QED BY <1>1, <1>2, <1>4, <2>1
  <1>5. CASE ~(Power[s] < n)
    <2>1. Order(n) = s
      BY <1>3, <1>5
    <2>2. ASSUME s > 0 PROVE Power[s - 1] < n
      <3>1. s - 1 \in Nat /\ (s - 1) + 1 = s
        BY <1>1, <2>2
      <3>2. Power[(s - 1) + 1] = 2 * Power[s - 1] /\ Power[s - 1] \in Nat
        BY <3>1, PowerIs
      <3>3. Power[s] = 2 * Power[s - 1]
        BY <3>1, <3>2
      <3> QED BY <1>2, <3>2, <3>3
    <2> QED BY <1>1, <1>5, <2>1, <2>2
  <1> QED BY <1>4, <1>5

-----------------------------------------------------------------------------
(* The links of elements that have a place in a slot. *)

\* The slots and the elements are different things, and nullptr is neither.
LEMMA CellIs ==
    /\ \A s \in Slot : s \in Nat /\ s # Null /\ s \notin Elem
    /\ Null \notin Elem /\ Null \notin Slot /\ Cell = Slot \cup Elem
  <1>1. Power[MaxOrder] \in Nat
    BY PowerIs, HashMapAssumption
  <1> QED BY <1>1, HashMapAssumption DEF Cell

\* An element is in slot at[e], or in none, and further in front in it the higher rk.
First(l, at, rk) ==
    \A s \in Slot :
        IF l.first[s] = Null THEN \A e \in Elem : at[e] # s
        ELSE at[l.first[s]] = s /\ \A e \in Elem : at[e] = s => rk[e] <= rk[l.first[s]]

Behind(l, at, rk) ==
    \A e \in Elem :
        IF at[e] = Null THEN l.next[e] = Null
        ELSE IF l.next[e] = Null THEN \A f \in Elem : at[f] = at[e] => rk[e] <= rk[f]
        ELSE /\ at[l.next[e]] = at[e] /\ rk[l.next[e]] < rk[e]
             /\ \A f \in Elem : at[f] = at[e] /\ rk[f] < rk[e] => rk[f] <= rk[l.next[e]]

Ranks(at, rk, n) ==
    /\ at \in [Elem -> Slot \cup {Null}] /\ rk \in [Elem -> Nat] /\ n \in Nat
    /\ \A e \in Elem : rk[e] <= n
    /\ \A e, f \in Elem : at[e] = at[f] /\ at[e] # Null /\ rk[e] = rk[f] => e = f

\* The links l are those of elements so placed.
Strung(l, at, rk, n) ==
    l \in Lists /\ Ranks(at, rk, n) /\ First(l, at, rk) /\ Behind(l, at, rk)

Points(l, c, e) == IF c \in Slot THEN l.first[c] = e ELSE l.next[c] = e

\* Each element in a list points back at what points at it.
Backed(l, at) == \A e \in Elem : at[e] # Null => l.prev[e] \in Cell /\ Points(l, l.prev[e], e)

\* What the links are.
LEMMA LinksType ==
    ASSUME NEW l \in Lists
    PROVE  /\ \A s \in Slot : l.first[s] \in Elem \cup {Null}
           /\ \A e \in Elem : l.next[e] \in Elem \cup {Null} /\ l.prev[e] \in Cell \cup {Null}
  BY DEF Lists

\* The links k are the links l with e put in front of list s.
Put(l, k, s, e) ==
    /\ k \in Lists
    /\ \A t \in Slot : k.first[t] = IF t = s THEN e ELSE l.first[t]
    /\ \A x \in Elem : k.next[x] = IF x = e THEN l.first[s] ELSE l.next[x]

\* An element that goes to the front of a list.
LEMMA PushStrung ==
    ASSUME NEW l, NEW k, NEW at, NEW rk, NEW n, NEW s \in Slot, NEW e \in Elem,
           Strung(l, at, rk, n), at[e] = Null, Put(l, k, s, e)
    PROVE  Strung(k, [at EXCEPT ![e] = s], [rk EXCEPT ![e] = n + 1], n + 1)
  <1> DEFINE at2 == [at EXCEPT ![e] = s]
             rk2 == [rk EXCEPT ![e] = n + 1]
  <1>0. /\ k \in Lists
        /\ \A t \in Slot : k.first[t] = IF t = s THEN e ELSE l.first[t]
        /\ \A x \in Elem : k.next[x] = IF x = e THEN l.first[s] ELSE l.next[x]
    BY DEF Put
  <1>1. /\ l \in Lists /\ Ranks(at, rk, n) /\ First(l, at, rk) /\ Behind(l, at, rk)
        /\ n \in Nat /\ \A x \in Elem : at[x] \in Slot \cup {Null} /\ rk[x] \in Nat /\ rk[x] <= n
        /\ \A x, y \in Elem : at[x] = at[y] /\ at[x] # Null /\ rk[x] = rk[y] => x = y
    BY DEF Strung, Ranks
  <1>2. \A x \in Elem : /\ at2[x] = IF x = e THEN s ELSE at[x]
                        /\ rk2[x] = IF x = e THEN n + 1 ELSE rk[x]
    BY <1>1 DEF Ranks
  <1>3. at2 \in [Elem -> Slot \cup {Null}] /\ rk2 \in [Elem -> Nat]
    BY <1>1 DEF Ranks
  <1> HIDE DEF at2, rk2
  <1>4. s # Null /\ Null \notin Elem
    BY CellIs
  <1>5. \A t \in Slot : l.first[t] \in Elem \cup {Null}
    BY <1>1, LinksType
  <1>6. \A x \in Elem : l.next[x] \in Elem \cup {Null}
    BY <1>1, LinksType
  <1>7. Ranks(at2, rk2, n + 1)
    <2>1. ASSUME NEW x \in Elem PROVE rk2[x] <= n + 1
      <3>1. rk2[x] = n + 1 \/ rk2[x] = rk[x]
        BY <1>2
      <3>2. n \in Nat /\ rk[x] \in Nat /\ rk[x] <= n
        BY <1>1
      <3> QED BY <3>1, <3>2
    <2>2. ASSUME NEW x \in Elem, NEW y \in Elem, at2[x] = at2[y], at2[x] # Null, rk2[x] = rk2[y]
          PROVE  x = y
      <3>1. CASE x = e \/ y = e
        BY <1>1, <1>2, <2>2, <3>1
      <3>2. CASE x # e /\ y # e
        BY <1>1, <1>2, <2>2, <3>2
      <3> QED BY <3>1, <3>2
    <2> QED BY <1>1, <1>3, <2>1, <2>2 DEF Ranks
  <1>8. First(k, at2, rk2)
    <2> SUFFICES ASSUME NEW t \in Slot
                 PROVE  IF k.first[t] = Null THEN \A x \in Elem : at2[x] # t
                        ELSE /\ at2[k.first[t]] = t
                             /\ \A x \in Elem : at2[x] = t => rk2[x] <= rk2[k.first[t]]
      BY DEF First
    <2>1. CASE t = s
      BY <1>0, <1>1, <1>2, <1>4, <2>1
    <2>2. CASE t # s
      <3>1. CASE l.first[t] = Null
        BY <1>0, <1>1, <1>2, <2>2, <3>1 DEF First
      <3>2. CASE l.first[t] # Null
        <4>1. /\ l.first[t] \in Elem /\ at[l.first[t]] = t
              /\ \A x \in Elem : at[x] = t => rk[x] <= rk[l.first[t]]
          BY <1>1, <1>5, <3>2 DEF First
        <4>2. l.first[t] # e
          BY <4>1, CellIs
        <4> QED BY <1>0, <1>2, <2>2, <3>2, <4>1, <4>2
      <3> QED BY <3>1, <3>2
    <2> QED BY <2>1, <2>2
  <1>9. Behind(k, at2, rk2)
    <2> SUFFICES ASSUME NEW x \in Elem
                 PROVE  IF at2[x] = Null THEN k.next[x] = Null
                        ELSE IF k.next[x] = Null
                        THEN \A f \in Elem : at2[f] = at2[x] => rk2[x] <= rk2[f]
                        ELSE /\ at2[k.next[x]] = at2[x] /\ rk2[k.next[x]] < rk2[x]
                             /\ \A f \in Elem : at2[f] = at2[x] /\ rk2[f] < rk2[x] =>
                                   rk2[f] <= rk2[k.next[x]]
      BY DEF Behind
    <2>1. CASE x = e
      <3>1. k.next[x] = l.first[s] /\ at2[x] = s /\ rk2[x] = n + 1
        BY <1>0, <1>2, <2>1
      <3>2. CASE l.first[s] = Null
        <4>1. \A f \in Elem : at[f] # s
          BY <1>1, <3>2 DEF First
        <4> QED BY <1>1, <1>2, <1>4, <2>1, <3>1, <3>2, <4>1
      <3>3. CASE l.first[s] # Null
        <4>1. /\ l.first[s] \in Elem /\ at[l.first[s]] = s
              /\ \A f \in Elem : at[f] = s => rk[f] <= rk[l.first[s]]
          BY <1>1, <1>5, <3>3 DEF First
        <4>2. l.first[s] # e
          BY <1>4, <4>1
        <4> QED BY <1>1, <1>2, <1>4, <2>1, <3>1, <3>3, <4>1, <4>2
      <3> QED BY <3>2, <3>3
    <2>2. CASE x # e
      <3>1. k.next[x] = l.next[x] /\ at2[x] = at[x] /\ rk2[x] = rk[x]
        BY <1>0, <1>2, <2>2
      <3>2. CASE at[x] = Null
        BY <1>1, <3>1, <3>2 DEF Behind
      <3>3. CASE at[x] # Null /\ l.next[x] = Null
        <4>1. \A f \in Elem : at[f] = at[x] => rk[x] <= rk[f]
          BY <1>1, <3>3 DEF Behind
        <4> QED BY <1>1, <1>2, <3>1, <3>3, <4>1
      <3>4. CASE at[x] # Null /\ l.next[x] # Null
        <4>1. /\ l.next[x] \in Elem /\ at[l.next[x]] = at[x] /\ rk[l.next[x]] < rk[x]
              /\ \A f \in Elem : at[f] = at[x] /\ rk[f] < rk[x] => rk[f] <= rk[l.next[x]]
          BY <1>1, <1>6, <3>4 DEF Behind
        <4>2. l.next[x] # e
          BY <3>4, <4>1
        <4>3. \A f \in Elem : rk2[f] < rk[x] => f # e /\ rk2[f] = rk[f] /\ at2[f] = at[f]
          BY <1>1, <1>2
        <4> QED BY <1>1, <1>2, <3>1, <3>4, <4>1, <4>2, <4>3
      <3> QED BY <3>2, <3>3, <3>4
    <2> QED BY <2>1, <2>2
  <1> QED BY <1>0, <1>7, <1>8, <1>9 DEF Strung, at2, rk2

\* Just one cell points at an element that is in a list: the list or the one before.
LEMMA PointedAt ==
    ASSUME NEW l, NEW at, NEW rk, NEW n, NEW e \in Elem, Strung(l, at, rk, n), at[e] # Null
    PROVE  \E c \in Cell : Points(l, c, e)
  <1>1. /\ l \in Lists /\ Ranks(at, rk, n) /\ First(l, at, rk) /\ Behind(l, at, rk)
        /\ \A x \in Elem : at[x] \in Slot \cup {Null} /\ rk[x] \in Nat
        /\ \A x, y \in Elem : at[x] = at[y] /\ at[x] # Null /\ rk[x] = rk[y] => x = y
    BY DEF Strung, Ranks
  <1> DEFINE s == at[e]
             Over == {x \in Elem : at[x] = s /\ rk[e] < rk[x]}
  <1>2. s \in Slot /\ l.first[s] # Null /\ l.first[s] \in Elem /\ at[l.first[s]] = s
    BY <1>1, LinksType DEF First
  <1>3. CASE Over = {}
    <2>1. rk[e] <= rk[l.first[s]]
      BY <1>1, <1>2 DEF First
    <2>2. ~(rk[e] < rk[l.first[s]])
      BY <1>2, <1>3
    <2>3. l.first[s] = e
      BY <1>1, <1>2, <2>1, <2>2
    <2> QED BY <1>2, <2>3 DEF Points, Cell
  <1>4. CASE Over # {}
    <2> DEFINE R == {rk[x] : x \in Over}
    <2>1. R \subseteq Nat /\ R # {}
      BY <1>1, <1>4
    <2> HIDE DEF R
    <2>2. PICK r \in R : \A q \in R : r <= q
      BY <2>1, LeastElement
    <2>3. PICK x \in Over : r = rk[x]
      BY <2>2 DEF R
    <2>4. \A y \in Over : rk[x] <= rk[y]
      BY <2>2, <2>3 DEF R
    <2>5. x \in Elem /\ at[x] = s /\ rk[e] < rk[x]
      OBVIOUS
    <2>6. l.next[x] # Null
      <3>1. ~(rk[x] <= rk[e])
        BY <1>1, <2>5
      <3> QED BY <1>1, <1>2, <2>5, <3>1, CellIs DEF Behind
    <2>7. /\ l.next[x] \in Elem /\ at[l.next[x]] = s /\ rk[l.next[x]] < rk[x]
          /\ rk[e] <= rk[l.next[x]]
      BY <1>1, <1>2, <2>5, <2>6, CellIs, LinksType DEF Behind
    <2>8. ~(rk[e] < rk[l.next[x]])
      <3> SUFFICES ASSUME rk[e] < rk[l.next[x]] PROVE FALSE
        OBVIOUS
      <3>1. l.next[x] \in Over
        BY <2>7
      <3>2. rk[x] <= rk[l.next[x]]
        BY <2>4, <3>1
      <3> QED BY <1>1, <2>5, <2>7, <3>2
    <2>9. l.next[x] = e
      BY <1>1, <1>2, <2>7, <2>8, CellIs
    <2> QED BY <2>5, <2>9, CellIs DEF Points
  <1> QED BY <1>3, <1>4

\* What points at an element is its slot or an element in front of it there.
LEMMA PointsIs ==
    ASSUME NEW l, NEW at, NEW rk, NEW n, NEW e \in Elem, NEW c \in Cell,
           Strung(l, at, rk, n), Points(l, c, e)
    PROVE  /\ at[e] # Null
           /\ c \in Slot => c = at[e] /\ l.first[c] = e
           /\ c \in Elem => l.next[c] = e /\ at[c] = at[e] /\ rk[e] < rk[c] /\ c # e
  <1>1. /\ l \in Lists /\ Ranks(at, rk, n) /\ First(l, at, rk) /\ Behind(l, at, rk)
        /\ \A x \in Elem : rk[x] \in Nat
    BY DEF Strung, Ranks
  <1>2. CASE c \in Slot
    BY <1>1, <1>2, CellIs DEF Points, First
  <1>3. CASE c \in Elem
    <2>1. l.next[c] = e /\ e # Null
      BY <1>3, CellIs DEF Points
    <2>2. at[c] # Null
      BY <1>1, <1>3, <2>1 DEF Behind
    <2> QED BY <1>1, <1>3, <2>1, <2>2, CellIs DEF Behind
  <1> QED BY <1>2, <1>3, CellIs

\* One cell at most points at an element.
LEMMA PointedOnce ==
    ASSUME NEW l, NEW at, NEW rk, NEW n, NEW e \in Elem, NEW c \in Cell, NEW d \in Cell,
           Strung(l, at, rk, n), Points(l, c, e), Points(l, d, e)
    PROVE  c = d
  <1>1. /\ First(l, at, rk) /\ Behind(l, at, rk)
        /\ \A x \in Elem : rk[x] \in Nat
        /\ \A x, y \in Elem : at[x] = at[y] /\ at[x] # Null /\ rk[x] = rk[y] => x = y
    BY DEF Strung, Ranks
  <1>2. /\ at[e] # Null
        /\ c \in Slot => c = at[e] /\ l.first[c] = e
        /\ c \in Elem => l.next[c] = e /\ at[c] = at[e] /\ rk[e] < rk[c]
    BY PointsIs
  <1>3. /\ d \in Slot => d = at[e] /\ l.first[d] = e
        /\ d \in Elem => l.next[d] = e /\ at[d] = at[e] /\ rk[e] < rk[d]
    BY PointsIs
  <1>4. ASSUME NEW x \in Elem, NEW y \in Elem, l.next[x] = e, l.next[y] = e, at[x] = at[e],
               at[y] = at[e], rk[x] < rk[y]
        PROVE  FALSE
    <2>1. e # Null
      BY CellIs
    <2>2. rk[x] <= rk[e]
      BY <1>1, <1>2, <1>4, <2>1 DEF Behind
    <2>3. rk[e] < rk[x]
      BY <1>1, <1>2, <1>4, <2>1 DEF Behind
    <2> QED BY <1>1, <2>2, <2>3
  <1>5. ASSUME NEW x \in Elem, NEW s \in Slot, l.first[s] = e, s = at[e], at[x] = at[e],
               rk[e] < rk[x]
        PROVE  FALSE
    <2>1. rk[x] <= rk[e]
      BY <1>1, <1>5, CellIs DEF First
    <2> QED BY <1>1, <1>5, <2>1
  <1>6. CASE c \in Slot /\ d \in Slot
    BY <1>2, <1>3, <1>6
  <1>7. CASE c \in Slot /\ d \in Elem
    BY <1>2, <1>3, <1>5, <1>7
  <1>8. CASE c \in Elem /\ d \in Slot
    BY <1>2, <1>3, <1>5, <1>8
  <1>9. CASE c \in Elem /\ d \in Elem
    <2>1. ~(rk[c] < rk[d]) /\ ~(rk[d] < rk[c])
      BY <1>2, <1>3, <1>4, <1>9
    <2>2. rk[c] = rk[d]
      BY <1>1, <1>9, <2>1
    <2> QED BY <1>1, <1>2, <1>3, <1>9, <2>2
  <1> QED BY <1>6, <1>7, <1>8, <1>9, CellIs

\* The links k are the links l with e, which c points at, taken out.
Cut(l, k, c, e) ==
    /\ k \in Lists
    /\ \A t \in Slot : k.first[t] = IF t = c THEN l.next[e] ELSE l.first[t]
    /\ \A x \in Elem : k.next[x] = IF x = e THEN Null ELSE IF x = c THEN l.next[e] ELSE l.next[x]

\* An element that leaves its list: what pointed at it points at the one behind.
LEMMA CutStrung ==
    ASSUME NEW l, NEW k, NEW at, NEW rk, NEW n, NEW c \in Cell, NEW e \in Elem,
           Strung(l, at, rk, n), Points(l, c, e), Cut(l, k, c, e)
    PROVE  Strung(k, [at EXCEPT ![e] = Null], rk, n)
  <1> DEFINE at2 == [at EXCEPT ![e] = Null]
  <1>1. /\ l \in Lists /\ Ranks(at, rk, n) /\ First(l, at, rk) /\ Behind(l, at, rk)
        /\ n \in Nat /\ \A x \in Elem : at[x] \in Slot \cup {Null} /\ rk[x] \in Nat /\ rk[x] <= n
        /\ \A x, y \in Elem : at[x] = at[y] /\ at[x] # Null /\ rk[x] = rk[y] => x = y
    BY DEF Strung, Ranks
  <1>2. \A x \in Elem : at2[x] = IF x = e THEN Null ELSE at[x]
    BY <1>1 DEF Ranks
  <1>3. at2 \in [Elem -> Slot \cup {Null}]
    BY <1>1 DEF Ranks
  <1> HIDE DEF at2
  <1>4. Null \notin Elem /\ Null \notin Slot /\ Cell = Slot \cup Elem /\ \A s \in Slot : s \notin Elem
    BY CellIs
  <1>5. /\ \A t \in Slot : l.first[t] \in Elem \cup {Null}
        /\ \A x \in Elem : l.next[x] \in Elem \cup {Null}
    BY <1>1, LinksType
  <1>6. /\ at[e] # Null
        /\ c \in Slot => c = at[e] /\ l.first[c] = e
        /\ c \in Elem => l.next[c] = e /\ at[c] = at[e] /\ rk[e] < rk[c] /\ c # e
    BY PointsIs
  <1>0. /\ \A t \in Slot : k.first[t] = IF t = c THEN l.next[e] ELSE l.first[t]
        /\ \A x \in Elem :
              k.next[x] = IF x = e THEN Null ELSE IF x = c THEN l.next[e] ELSE l.next[x]
        /\ k \in Lists
    BY DEF Cut
  <1>7. \A d \in Cell : d # c => ~Points(l, d, e)
    BY PointedOnce
  <1>8. IF l.next[e] = Null THEN \A f \in Elem : at[f] = at[e] => rk[e] <= rk[f]
        ELSE /\ l.next[e] \in Elem /\ at[l.next[e]] = at[e] /\ rk[l.next[e]] < rk[e]
             /\ l.next[e] # e
             /\ \A f \in Elem : at[f] = at[e] /\ rk[f] < rk[e] => rk[f] <= rk[l.next[e]]
    <2>1. CASE l.next[e] = Null
      BY <1>1, <1>6, <2>1 DEF Behind
    <2>2. CASE l.next[e] # Null
      BY <1>1, <1>5, <1>6, <2>2 DEF Behind
    <2> QED BY <2>1, <2>2
  <1>9. ASSUME NEW f \in Elem, at2[f] # Null PROVE f # e /\ at2[f] = at[f]
    BY <1>2, <1>9
  <1>10. ASSUME NEW f \in Elem, at2[f] = at[e] PROVE f # e /\ at[f] = at[e] /\ rk[f] # rk[e]
    BY <1>1, <1>2, <1>6, <1>10
  <1>11. Ranks(at2, rk, n)
    BY <1>1, <1>3, <1>9 DEF Ranks
  <1>12. First(k, at2, rk)
    <2> SUFFICES ASSUME NEW t \in Slot
                 PROVE  IF k.first[t] = Null THEN \A x \in Elem : at2[x] # t
                        ELSE /\ at2[k.first[t]] = t
                             /\ \A x \in Elem : at2[x] = t => rk[x] <= rk[k.first[t]]
      BY DEF First
    <2>1. CASE t = c
      <3>1. k.first[t] = l.next[e] /\ t = at[e] /\ l.first[t] = e
        BY <1>0, <1>6, <2>1
      <3>2. \A x \in Elem : at2[x] = t => rk[x] < rk[e]
        <4> SUFFICES ASSUME NEW x \in Elem, at2[x] = t PROVE rk[x] < rk[e]
          OBVIOUS
        <4>1. at[x] = t /\ rk[x] # rk[e]
          BY <1>10, <3>1
        <4>2. rk[x] <= rk[e]
          BY <1>1, <1>4, <3>1, <4>1 DEF First
        <4> QED BY <1>1, <4>1, <4>2
      <3>3. CASE l.next[e] = Null
        <4> SUFFICES ASSUME NEW x \in Elem, at2[x] = t PROVE FALSE
          BY <3>1, <3>3
        <4>1. rk[x] < rk[e] /\ at[x] = at[e]
          BY <1>10, <3>1, <3>2
        <4>2. rk[e] <= rk[x]
          BY <1>8, <3>3, <4>1
        <4> QED BY <1>1, <4>1, <4>2
      <3>4. CASE l.next[e] # Null
        <4>1. at2[l.next[e]] = t
          BY <1>2, <1>8, <3>1, <3>4
        <4> QED BY <1>8, <1>10, <3>1, <3>2, <3>4, <4>1
      <3> QED BY <3>3, <3>4
    <2>2. CASE t # c
      <3>1. k.first[t] = l.first[t] /\ l.first[t] # e
        BY <1>0, <1>4, <1>7, <2>2 DEF Points
      <3>2. \A x \in Elem : at2[x] = t => at[x] = t
        BY <1>2, <1>4
      <3>3. CASE l.first[t] = Null
        BY <1>1, <3>1, <3>2, <3>3 DEF First
      <3>4. CASE l.first[t] # Null
        <4>1. /\ l.first[t] \in Elem /\ at[l.first[t]] = t
              /\ \A x \in Elem : at[x] = t => rk[x] <= rk[l.first[t]]
          BY <1>1, <1>5, <3>4 DEF First
        <4> QED BY <1>2, <3>1, <3>2, <3>4, <4>1
      <3> QED BY <3>3, <3>4
    <2> QED BY <2>1, <2>2
  <1>13. Behind(k, at2, rk)
    <2> SUFFICES ASSUME NEW x \in Elem
                 PROVE  IF at2[x] = Null THEN k.next[x] = Null
                        ELSE IF k.next[x] = Null
                        THEN \A f \in Elem : at2[f] = at2[x] => rk[x] <= rk[f]
                        ELSE /\ at2[k.next[x]] = at2[x] /\ rk[k.next[x]] < rk[x]
                             /\ \A f \in Elem : at2[f] = at2[x] /\ rk[f] < rk[x] =>
                                   rk[f] <= rk[k.next[x]]
      BY DEF Behind
    <2>1. CASE x = e
      BY <1>0, <1>2, <2>1
    <2>2. CASE x # e /\ x = c
      <3>1. k.next[x] = l.next[e] /\ l.next[x] = e /\ at[x] = at[e] /\ rk[e] < rk[x] /\ at2[x] = at[e]
        BY <1>0, <1>2, <1>6, <2>2
      <3>2. \A f \in Elem : at2[f] = at[e] /\ rk[f] < rk[x] => at[f] = at[e] /\ rk[f] < rk[e]
        <4> SUFFICES ASSUME NEW f \in Elem, at2[f] = at[e], rk[f] < rk[x]
                     PROVE  at[f] = at[e] /\ rk[f] < rk[e]
          OBVIOUS
        <4>1. at[f] = at[e] /\ rk[f] # rk[e]
          BY <1>10
        <4>2. rk[f] <= rk[e]
          BY <1>1, <1>4, <1>6, <3>1, <4>1 DEF Behind
        <4> QED BY <1>1, <4>1, <4>2
      <3>3. CASE l.next[e] = Null
        <4>1. \A f \in Elem : at[f] = at[e] => rk[e] <= rk[f]
          BY <1>8, <3>3
        <4> SUFFICES ASSUME NEW f \in Elem, at2[f] = at[e], ~(rk[x] <= rk[f]) PROVE FALSE
          BY <1>6, <3>1, <3>3
        <4>2. rk[f] < rk[x]
          BY <1>1
        <4> QED BY <1>1, <3>2, <4>1, <4>2
      <3>4. CASE l.next[e] # Null
        <4>1. at2[l.next[e]] = at[e]
          BY <1>2, <1>8, <3>4
        <4>2. rk[l.next[e]] < rk[x]
          BY <1>1, <1>8, <3>1, <3>4
        <4> QED BY <1>6, <1>8, <3>1, <3>2, <3>4, <4>1, <4>2
      <3> QED BY <3>3, <3>4
    <2>3. CASE x # e /\ x # c
      <3>1. k.next[x] = l.next[x] /\ at2[x] = at[x] /\ l.next[x] # e
        <4>1. x \in Cell /\ x \notin Slot
          BY <1>4
        <4> QED BY <1>0, <1>2, <1>7, <2>3, <4>1 DEF Points
      <3>2. CASE at[x] = Null
        BY <1>1, <3>1, <3>2 DEF Behind
      <3>3. CASE at[x] # Null /\ l.next[x] = Null
        <4>1. \A f \in Elem : at[f] = at[x] => rk[x] <= rk[f]
          BY <1>1, <3>3 DEF Behind
        <4> QED BY <1>9, <3>1, <3>3, <4>1
      <3>4. CASE at[x] # Null /\ l.next[x] # Null
        <4>1. /\ l.next[x] \in Elem /\ at[l.next[x]] = at[x] /\ rk[l.next[x]] < rk[x]
              /\ \A f \in Elem : at[f] = at[x] /\ rk[f] < rk[x] => rk[f] <= rk[l.next[x]]
          BY <1>1, <1>5, <3>4 DEF Behind
        <4>2. at2[l.next[x]] = at[x]
          BY <1>2, <3>1, <4>1
        <4> QED BY <1>9, <3>1, <3>4, <4>1, <4>2
      <3> QED BY <3>2, <3>3, <3>4
    <2> QED BY <2>1, <2>2, <2>3
  <1> QED BY <1>0, <1>11, <1>12, <1>13 DEF Strung, at2

-----------------------------------------------------------------------------
(* The operations of the lists. *)

\* Links of elements placed by at and rk, of the lists or the slists.
Sound(b, l, at, rk, n) == Strung(l, at, rk, n) /\ (b => Backed(l, at))

\* The list operations: what they do to each link.
LEMMA ListPushIs ==
    ASSUME NEW l \in Lists, NEW s \in Slot, NEW e \in Elem
    PROVE  /\ Put(l, ListPushFront(l, s, e), s, e)
           /\ l.first[s] # e =>
                \A x \in Elem : ListPushFront(l, s, e).prev[x] =
                    IF x = e THEN s ELSE IF x = l.first[s] THEN e ELSE l.prev[x]
  <1> DEFINE b == Back(l, l.first[s], e)
             k == ListPushFront(l, s, e)
  <1>1. /\ l.first \in [Slot -> Elem \cup {Null}] /\ l.next \in [Elem -> Elem \cup {Null}]
        /\ l.prev \in [Elem -> Cell \cup {Null}]
    BY DEF Lists
  <1>2. /\ b \in Lists /\ b.first = l.first /\ b.next = l.next
        /\ \A x \in Elem : b.prev[x] = IF x = l.first[s] THEN e ELSE l.prev[x]
    <2>1. CASE l.first[s] = Null
      BY <1>1, <2>1, CellIs DEF Back
    <2>2. CASE l.first[s] # Null
      <3>1. b = [l EXCEPT !.prev[l.first[s]] = e]
        BY <2>2 DEF Back
      <3>2. b = [first |-> l.first, next |-> l.next, prev |-> [l.prev EXCEPT ![l.first[s]] = e]]
        BY <3>1 DEF Lists
      <3>3. [l.prev EXCEPT ![l.first[s]] = e] \in [Elem -> Cell \cup {Null}]
        BY <1>1, CellIs
      <3> QED BY <1>1, <3>2, <3>3 DEF Lists
    <2> QED BY <2>1, <2>2
  <1> HIDE DEF b
  <1>3. k = [first |-> [b.first EXCEPT ![s] = e], next |-> [b.next EXCEPT ![e] = l.first[s]],
             prev |-> [b.prev EXCEPT ![e] = s]]
    <2>1. k = [b EXCEPT !.next[e] = l.first[s], !.first[s] = e, !.prev[e] = s]
      BY DEF ListPushFront, b
    <2> QED BY <1>2, <2>1 DEF Lists
  <1> HIDE DEF k
  <1>4. k \in Lists
    BY <1>1, <1>2, <1>3, CellIs DEF Lists
  <1>5. \A t \in Slot : k.first[t] = IF t = s THEN e ELSE l.first[t]
    BY <1>1, <1>2, <1>3
  <1>6. \A x \in Elem : k.next[x] = IF x = e THEN l.first[s] ELSE l.next[x]
    BY <1>1, <1>2, <1>3
  <1>7. \A x \in Elem : k.prev[x] = IF x = e THEN s ELSE IF x = l.first[s] THEN e ELSE l.prev[x]
    <2>1. b.prev \in [Elem -> Cell \cup {Null}]
      BY <1>2 DEF Lists
    <2> QED BY <1>2, <1>3, <2>1
  <1> QED BY <1>4, <1>5, <1>6, <1>7 DEF Put, k

\* slist::push_front sets the same links forward.
LEMMA SlistPushIs ==
    ASSUME NEW l \in Lists, NEW s \in Slot, NEW e \in Elem
    PROVE  Put(l, SlistPushFront(l, s, e), s, e)
  <1> DEFINE k == SlistPushFront(l, s, e)
  <1>1. /\ l.first \in [Slot -> Elem \cup {Null}] /\ l.next \in [Elem -> Elem \cup {Null}]
        /\ l.prev \in [Elem -> Cell \cup {Null}]
    BY DEF Lists
  <1>2. k = [first |-> [l.first EXCEPT ![s] = e], next |-> [l.next EXCEPT ![e] = l.first[s]],
             prev |-> l.prev]
    <2>1. k = [l EXCEPT !.next[e] = l.first[s], !.first[s] = e]
      BY DEF SlistPushFront
    <2> QED BY <2>1 DEF Lists
  <1> HIDE DEF k
  <1>3. k \in Lists
    BY <1>1, <1>2 DEF Lists
  <1>4. \A t \in Slot : k.first[t] = IF t = s THEN e ELSE l.first[t]
    BY <1>1, <1>2
  <1>5. \A x \in Elem : k.next[x] = IF x = e THEN l.first[s] ELSE l.next[x]
    BY <1>1, <1>2
  <1> QED BY <1>3, <1>4, <1>5 DEF Put, k

\* Loose.
LEMMA LooseIs ==
    ASSUME NEW l \in Lists, NEW e \in Elem
    PROVE  /\ Loose(l, e) \in Lists /\ Loose(l, e).first = l.first
           /\ \A x \in Elem : /\ Loose(l, e).next[x] = IF x = e THEN Null ELSE l.next[x]
                              /\ Loose(l, e).prev[x] = IF x = e THEN Null ELSE l.prev[x]
  <1> DEFINE k == Loose(l, e)
  <1>1. /\ l.first \in [Slot -> Elem \cup {Null}] /\ l.next \in [Elem -> Elem \cup {Null}]
        /\ l.prev \in [Elem -> Cell \cup {Null}]
    BY DEF Lists
  <1>2. k = [first |-> l.first, next |-> [l.next EXCEPT ![e] = Null], prev |-> [l.prev EXCEPT ![e] = Null]]
    <2>1. k = [l EXCEPT !.next[e] = Null, !.prev[e] = Null]
      BY DEF Loose
    <2> QED BY <2>1 DEF Lists
  <1> HIDE DEF k
  <1> QED BY <1>1, <1>2 DEF Lists, k

\* Point sets one cell and nothing else.
LEMMA PointIs ==
    ASSUME NEW l \in Lists, NEW c \in Cell, NEW e \in Elem \cup {Null}
    PROVE  /\ Point(l, c, e) \in Lists /\ Point(l, c, e).prev = l.prev
           /\ \A t \in Slot : Point(l, c, e).first[t] = IF t = c THEN e ELSE l.first[t]
           /\ \A x \in Elem : Point(l, c, e).next[x] = IF x = c THEN e ELSE l.next[x]
  <1> DEFINE k == Point(l, c, e)
  <1>1. /\ l.first \in [Slot -> Elem \cup {Null}] /\ l.next \in [Elem -> Elem \cup {Null}]
        /\ l.prev \in [Elem -> Cell \cup {Null}]
    BY DEF Lists
  <1>2. CASE c \in Slot
    <2>1. k = [first |-> [l.first EXCEPT ![c] = e], next |-> l.next, prev |-> l.prev]
      BY <1>2 DEF Point, Lists
    <2>2. c \notin Elem
      BY <1>2, CellIs
    <2> HIDE DEF k
    <2> QED BY <1>1, <1>2, <2>1, <2>2 DEF Lists, k
  <1>3. CASE c \in Elem
    <2>1. k = [first |-> l.first, next |-> [l.next EXCEPT ![c] = e], prev |-> l.prev]
      BY <1>3, CellIs DEF Point, Lists
    <2>2. c \notin Slot
      BY <1>3, CellIs
    <2> HIDE DEF k
    <2> QED BY <1>1, <1>3, <2>1, <2>2 DEF Lists, k
  <1> QED BY <1>2, <1>3, CellIs

\* Back sets one link back and nothing else.
LEMMA BackIs ==
    ASSUME NEW l \in Lists, NEW e \in Elem \cup {Null}, NEW c \in Cell
    PROVE  /\ Back(l, e, c) \in Lists /\ Back(l, e, c).first = l.first /\ Back(l, e, c).next = l.next
           /\ \A x \in Elem : Back(l, e, c).prev[x] = IF x = e THEN c ELSE l.prev[x]
  <1> DEFINE k == Back(l, e, c)
  <1>1. /\ l.first \in [Slot -> Elem \cup {Null}] /\ l.next \in [Elem -> Elem \cup {Null}]
        /\ l.prev \in [Elem -> Cell \cup {Null}]
    BY DEF Lists
  <1>2. CASE e = Null
    BY <1>2, CellIs DEF Back
  <1>3. CASE e # Null
    <2>1. k = [first |-> l.first, next |-> l.next, prev |-> [l.prev EXCEPT ![e] = c]]
      BY <1>3 DEF Back, Lists
    <2> HIDE DEF k
    <2> QED BY <1>1, <1>3, <2>1 DEF Lists, k
  <1> QED BY <1>2, <1>3

\* list::remove takes the element out of the links in both directions.
LEMMA ListRemoveIs ==
    ASSUME NEW l \in Lists, NEW e \in Elem, NEW c \in Cell, c = l.prev[e], l.next[e] # e
    PROVE  /\ Cut(l, ListRemove(l, e), c, e)
           /\ \A x \in Elem : ListRemove(l, e).prev[x] =
                  IF x = e THEN Null ELSE IF x = l.next[e] THEN c ELSE l.prev[x]
  <1> DEFINE b == Back(l, l.next[e], c)
             p == Point(b, c, l.next[e])
             k == Loose(p, e)
  <1>1. k = ListRemove(l, e)
    BY DEF ListRemove
  <1>2. l.next[e] \in Elem \cup {Null}
    BY LinksType
  <1>3. /\ b \in Lists /\ b.first = l.first /\ b.next = l.next
        /\ \A x \in Elem : b.prev[x] = IF x = l.next[e] THEN c ELSE l.prev[x]
    BY <1>2, BackIs
  <1> HIDE DEF b
  <1>4. /\ p \in Lists /\ p.prev = b.prev
        /\ \A t \in Slot : p.first[t] = IF t = c THEN l.next[e] ELSE b.first[t]
        /\ \A x \in Elem : p.next[x] = IF x = c THEN l.next[e] ELSE b.next[x]
    <2>1. b \in Lists
      BY <1>3
    <2>2. PICK x \in Elem \cup {Null} : x = l.next[e]
      BY <1>2
    <2>3. p = Point(b, c, x)
      BY <2>2
    <2> HIDE DEF p
    <2> QED BY <2>1, <2>2, <2>3, PointIs
  <1> HIDE DEF p
  <1>5. /\ k \in Lists /\ k.first = p.first
        /\ \A x \in Elem : /\ k.next[x] = IF x = e THEN Null ELSE p.next[x]
                           /\ k.prev[x] = IF x = e THEN Null ELSE p.prev[x]
    BY <1>4, LooseIs
  <1> HIDE DEF k
  <1> QED BY <1>1, <1>3, <1>4, <1>5 DEF Cut

\* remove(elm, prev), of the first element or another.
LEMMA SlistRemoveAfterIs ==
    ASSUME NEW l \in Lists, NEW s \in Slot, NEW e \in Elem, NEW c \in Cell, NEW before,
           Points(l, c, e),
           IF before = Null THEN c = s ELSE before \in Elem /\ c = before
    PROVE  Cut(l, SlistRemoveAfter(l, s, e, before), c, e)
  <1>1. l.next[e] \in Elem \cup {Null}
    BY LinksType
  <1> DEFINE p == Point(l, c, l.next[e])
             k == Loose(p, e)
  <1>2. SlistRemoveAfter(l, s, e, before) = k
    <2>1. CASE before = Null
      <3>1. l.first[s] = e /\ c = s
        BY <2>1 DEF Points
      <3>2. p = [l EXCEPT !.first[s] = l.next[e]]
        BY <3>1 DEF Point
      <3>3. p = [l EXCEPT !.first[s] = l.next[@]]
        BY <3>1, <3>2 DEF Lists
      <3> HIDE DEF p
      <3> QED BY <2>1, <3>1, <3>3 DEF SlistRemoveAfter, SlistPopFront
    <2>2. CASE before # Null
      BY <2>2, CellIs DEF SlistRemoveAfter, Point
    <2> QED BY <2>1, <2>2
  <1>4. /\ p \in Lists
        /\ \A t \in Slot : p.first[t] = IF t = c THEN l.next[e] ELSE l.first[t]
        /\ \A x \in Elem : p.next[x] = IF x = c THEN l.next[e] ELSE l.next[x]
    BY <1>1, PointIs
  <1> HIDE DEF p
  <1>5. /\ k \in Lists /\ k.first = p.first
        /\ \A x \in Elem : k.next[x] = IF x = e THEN Null ELSE p.next[x]
    BY <1>4, LooseIs
  <1> HIDE DEF k
  <1> QED BY <1>2, <1>4, <1>5 DEF Cut

\* An element put in front of list s.
LEMMA PushSound ==
    ASSUME NEW l, NEW at, NEW rk, NEW n, NEW s \in Slot, NEW e \in Elem,
           Sound(fast, l, at, rk, n), at[e] = Null
    PROVE  Sound(fast, Pushed(l, s, e), [at EXCEPT ![e] = s], [rk EXCEPT ![e] = n + 1], n + 1)
  <1> DEFINE k == Pushed(l, s, e)
             at2 == [at EXCEPT ![e] = s]
  <1>1. /\ l \in Lists /\ Strung(l, at, rk, n) /\ First(l, at, rk) /\ Behind(l, at, rk)
        /\ at \in [Elem -> Slot \cup {Null}]
    BY DEF Sound, Strung, Ranks
  <1>2. \A x \in Elem : at2[x] = IF x = e THEN s ELSE at[x]
    BY <1>1
  <1>3. l.first[s] # e
    BY <1>1, CellIs DEF First
  <1>4. Put(l, k, s, e)
    BY <1>1, ListPushIs, SlistPushIs DEF Pushed
  <1>5. Strung(k, at2, [rk EXCEPT ![e] = n + 1], n + 1)
    BY <1>1, <1>4, PushStrung
  <1>6. ASSUME fast PROVE Backed(k, at2)
    <2>1. \A x \in Elem : k.prev[x] = IF x = e THEN s ELSE IF x = l.first[s] THEN e ELSE l.prev[x]
      BY <1>1, <1>3, <1>6, ListPushIs DEF Pushed
    <2>2. /\ \A t \in Slot : k.first[t] = IF t = s THEN e ELSE l.first[t]
          /\ \A x \in Elem : k.next[x] = IF x = e THEN l.first[s] ELSE l.next[x]
      BY <1>4 DEF Put
    <2> HIDE DEF k, at2
    <2> SUFFICES ASSUME NEW x \in Elem, at2[x] # Null
                 PROVE  k.prev[x] \in Cell /\ Points(k, k.prev[x], x)
      BY DEF Backed
    <2>3. CASE x = e
      BY <2>1, <2>2, <2>3, CellIs DEF Points
    <2>4. CASE x # e /\ x = l.first[s]
      BY <2>1, <2>2, <2>4, CellIs DEF Points
    <2>5. CASE x # e /\ x # l.first[s]
      <3> DEFINE c == l.prev[x]
      <3>1. k.prev[x] = c
        BY <2>1, <2>5
      <3>2. c \in Cell /\ Points(l, c, x)
        BY <1>2, <1>6, <2>5 DEF Sound, Backed
      <3> HIDE DEF c
      <3>3. CASE c \in Slot
        BY <2>2, <2>5, <3>1, <3>2, <3>3 DEF Points
      <3>4. CASE c \in Elem
        <4>1. l.next[c] = x /\ x # Null
          BY <3>2, <3>4, CellIs DEF Points
        <4>2. c # e
          BY <1>1, <4>1 DEF Behind
        <4> QED BY <2>2, <3>1, <3>2, <3>4, <4>1, <4>2, CellIs DEF Points
      <3> QED BY <3>2, <3>3, <3>4, CellIs
    <2> QED BY <2>3, <2>4, <2>5
  <1> QED BY <1>5, <1>6 DEF Sound

\* remove(elm) of a list.
LEMMA ListRemoveSound ==
    ASSUME NEW l, NEW at, NEW rk, NEW n, NEW e \in Elem, Sound(TRUE, l, at, rk, n), at[e] # Null
    PROVE  Sound(TRUE, ListRemove(l, e), [at EXCEPT ![e] = Null], rk, n)
  <1> DEFINE k == ListRemove(l, e)
             at2 == [at EXCEPT ![e] = Null]
             c == l.prev[e]
  <1>1. /\ l \in Lists /\ Strung(l, at, rk, n) /\ First(l, at, rk) /\ Behind(l, at, rk)
        /\ at \in [Elem -> Slot \cup {Null}] /\ Backed(l, at) /\ \A x \in Elem : rk[x] \in Nat
    BY DEF Sound, Strung, Ranks
  <1>2. \A x \in Elem : at2[x] = IF x = e THEN Null ELSE at[x]
    BY <1>1
  <1>3. c \in Cell /\ Points(l, c, e)
    BY <1>1 DEF Backed
  <1> HIDE DEF at2
  <1>4. l.next[e] # e
    BY <1>1, CellIs DEF Behind
  <1>5. /\ Cut(l, k, c, e)
        /\ \A x \in Elem : k.prev[x] = IF x = e THEN Null ELSE IF x = l.next[e] THEN c ELSE l.prev[x]
    BY <1>1, <1>3, <1>4, ListRemoveIs
  <1> HIDE DEF c, k
  <1>6. Strung(k, at2, rk, n)
    BY <1>1, <1>3, <1>5, CutStrung DEF at2
  <1>7. Backed(k, at2)
    <2>1. /\ \A t \in Slot : k.first[t] = IF t = c THEN l.next[e] ELSE l.first[t]
          /\ \A x \in Elem :
                k.next[x] = IF x = e THEN Null ELSE IF x = c THEN l.next[e] ELSE l.next[x]
      BY <1>5 DEF Cut
    <2>2. c # e
      BY <1>3, <1>4, CellIs DEF Points
    <2> SUFFICES ASSUME NEW x \in Elem, at2[x] # Null
                 PROVE  k.prev[x] \in Cell /\ Points(k, k.prev[x], x)
      BY DEF Backed
    <2>3. x # e /\ at[x] # Null
      BY <1>2
    <2>4. CASE x = l.next[e]
      BY <1>3, <1>5, <2>1, <2>2, <2>3, <2>4, CellIs DEF Points
    <2>5. CASE x # l.next[e]
      <3> DEFINE d == l.prev[x]
      <3>1. k.prev[x] = d /\ d \in Cell /\ Points(l, d, x)
        BY <1>1, <1>5, <2>3, <2>5 DEF Backed
      <3> HIDE DEF d
      <3>2. d # c /\ d # e
        BY <1>3, <2>3, <2>5, <3>1, CellIs DEF Points
      <3> QED BY <2>1, <3>1, <3>2, CellIs DEF Points
    <2> QED BY <2>4, <2>5
  <1> QED BY <1>6, <1>7 DEF Sound, k, at2

-----------------------------------------------------------------------------
(* Chains. *)

\* c is what the links lead through from x on.
Trace(c, l, x) ==
    /\ c \in Seq(Elem) /\ Len(c) \in Nat /\ Len(c) > 0 /\ c[1] = x
    /\ \A i \in 1..(Len(c) - 1) : c[i + 1] = l.next[c[i]]
    /\ l.next[c[Len(c)]] = Null

\* The recursion of ChainFrom.
WalkSet == (Elem \cup {Null}) \X SUBSET Elem
WalkOf(l) == CHOOSE walk : walk =
    [w \in WalkSet |-> IF w[1] = Null \/ w[1] \in w[2] THEN <<>>
                       ELSE <<w[1]>> \o walk[<<l.next[w[1]], w[2] \cup {w[1]}>>]]

\* ChainFrom is that recursion, begun with nothing seen.
LEMMA ChainFromIs ==
    ASSUME NEW l, NEW e
    PROVE  ChainFrom(l, e) = WalkOf(l)[<<e, {}>>]
  BY Zenon DEF ChainFrom, WalkOf, WalkSet

\* The recursion has a solution on the links of elements so placed.
LEMMA WalkIs ==
    ASSUME NEW l, NEW at, NEW rk, NEW n, Strung(l, at, rk, n)
    PROVE  \A w \in WalkSet :
              WalkOf(l)[w] = IF w[1] = Null \/ w[1] \in w[2] THEN <<>>
                             ELSE <<w[1]>> \o WalkOf(l)[<<l.next[w[1]], w[2] \cup {w[1]}>>]
  <1>1. /\ l \in Lists /\ Behind(l, at, rk) /\ n \in Nat
        /\ \A x \in Elem : rk[x] \in Nat /\ rk[x] <= n
    BY DEF Strung, Ranks
  <1>2. \A x \in Elem : l.next[x] \in Elem \cup {Null}
    BY <1>1, LinksType
  <1> DEFINE D == WalkSet
             V == Seq(Elem)
             next(w) == <<l.next[w[1]], w[2] \cup {w[1]}>>
             G == [v \in D \X V |-> IF v[1][1] = Null THEN <<>> ELSE <<v[1][1]>> \o v[2]]
             d == [w \in D |-> next(w)]
             R == [w \in D |-> <<>>]
             m == [w \in D |-> IF w[1] = Null THEN 0 ELSE rk[w[1]] + 1]
             stop == {w \in D : w[1] = Null \/ w[1] \in w[2]}
  <1>3. Falls(D, V, G, d, R, stop, m, n + 1)
    <2>1. ASSUME NEW x \in D PROVE m[x] \in 0..(n + 1) /\ R[x] \in V
      <3>1. m[x] = IF x[1] = Null THEN 0 ELSE rk[x[1]] + 1
        OBVIOUS
      <3>2. x[1] # Null => x[1] \in Elem
        BY DEF WalkSet
      <3>3. R[x] = <<>>
        OBVIOUS
      <3> HIDE DEF m, R, D
      <3> QED BY <1>1, <3>1, <3>2, <3>3
    <2>2. ASSUME NEW x \in D, NEW v \in V PROVE G[<<x, v>>] \in V
      <3>1. G[<<x, v>>] = IF x[1] = Null THEN <<>> ELSE <<x[1]>> \o v
        OBVIOUS
      <3>2. x[1] # Null => x[1] \in Elem
        BY DEF WalkSet
      <3> HIDE DEF G
      <3>3. x[1] # Null => <<x[1]>> \o v \in Seq(Elem)
        <4> HAVE x[1] # Null
        <4>1. <<x[1]>> \in Seq(Elem) /\ v \in Seq(Elem)
          BY <3>2
        <4> QED BY <4>1
      <3> QED BY <3>1, <3>3
    <2>3. ASSUME NEW x \in D, x \notin stop PROVE d[x] \in D /\ m[d[x]] < m[x]
      <3>1. x[1] \in Elem /\ x[2] \in SUBSET Elem
        BY <2>3 DEF WalkSet
      <3>2. l.next[x[1]] \in Elem \cup {Null} /\ x[2] \cup {x[1]} \in SUBSET Elem
        BY <1>2, <3>1
      <3>3. d[x] = next(x) /\ next(x) \in D /\ next(x)[1] = l.next[x[1]]
        BY <3>2 DEF WalkSet
      <3>4. x[1] # Null
        BY <3>1, CellIs
      <3>5. l.next[x[1]] # Null => rk[l.next[x[1]]] < rk[x[1]]
        BY <1>1, <3>1 DEF Behind
      <3>6. /\ m[x] = rk[x[1]] + 1
            /\ m[d[x]] = IF l.next[x[1]] = Null THEN 0 ELSE rk[l.next[x[1]]] + 1
        BY <3>3, <3>4
      <3> HIDE DEF m, d, D, next
      <3> QED BY <1>1, <3>1, <3>2, <3>3, <3>5, <3>6
    <2>4. \A x \in D, v \in V : G[<<x, v>>] \in V
      BY <2>2
    <2>5. \A x \in D : m[x] \in 0..(n + 1) /\ R[x] \in V
      BY <2>1
    <2>6. \A x \in D : x \in stop \/ (d[x] \in D /\ m[d[x]] < m[x])
      BY <2>3
    <2> HIDE DEF D, V, G, d, R, stop, m
    <2> QED BY <1>1, <2>4, <2>5, <2>6 DEF Falls
  <1>4. PICK f : Solves(f, D, V, G, d, R, stop)
    <2> HIDE DEF D, V, G, d, R, stop, m
    <2> QED BY <1>3, RecursionExists
  <1>5. f = [w \in WalkSet |-> IF w[1] = Null \/ w[1] \in w[2] THEN <<>>
                              ELSE <<w[1]>> \o f[<<l.next[w[1]], w[2] \cup {w[1]}>>]]
    <2>1. f \in [D -> V] /\ \A x \in D : f[x] = IF x \in stop THEN R[x] ELSE G[<<x, f[d[x]]>>]
      BY <1>4, Zenon DEF Solves
    <2>2. ASSUME NEW w \in D
          PROVE  f[w] = IF w[1] = Null \/ w[1] \in w[2] THEN <<>>
                        ELSE <<w[1]>> \o f[<<l.next[w[1]], w[2] \cup {w[1]}>>]
      <3>1. CASE w \in stop
        BY <2>1, <3>1
      <3>2. CASE w \notin stop
        <4>1. w[1] # Null /\ w[1] \notin w[2]
          BY <3>2
        <4>2. w[1] \in Elem /\ w[2] \in SUBSET Elem
          BY <4>1 DEF WalkSet
        <4>3. d[w] = next(w)
          OBVIOUS
        <4>4. next(w) \in D
          BY <1>2, <4>2 DEF WalkSet
        <4>5. f[d[w]] \in V
          BY <2>1, <4>3, <4>4
        <4>6. f[w] = G[<<w, f[d[w]]>>]
          BY <2>1, <3>2
        <4>7. G[<<w, f[d[w]]>>] = <<w[1]>> \o f[d[w]]
          <5> HIDE DEF V, d, stop, D
          <5> QED BY <4>1, <4>5
        <4> QED BY <4>1, <4>3, <4>6, <4>7
      <3> QED BY <3>1, <3>2
    <2>3. f = [w \in D |-> f[w]]
      BY <2>1
    <2> HIDE DEF V, G, d, R, stop, m
    <2> QED BY <2>2, <2>3
  <1>6. WalkOf(l) = [w \in WalkSet |-> IF w[1] = Null \/ w[1] \in w[2] THEN <<>>
                              ELSE <<w[1]>> \o WalkOf(l)[<<l.next[w[1]], w[2] \cup {w[1]}>>]]
    BY <1>5, Zenon DEF WalkOf
  <1> HIDE DEF D, V, G, d, R, stop, m
  <1> QED BY <1>6

\* An element in front of a trace.
LEMMA ConsTrace ==
    ASSUME NEW l, NEW x \in Elem, NEW c, Trace(c, l, l.next[x])
    PROVE  Trace(<<x>> \o c, l, x)
  <1>1. c \in Seq(Elem) /\ Len(c) \in Nat /\ Len(c) > 0 /\ c[1] = l.next[x]
    BY DEF Trace
  <1> DEFINE d == <<x>> \o c
  <1>2. d \in Seq(Elem) /\ Len(d) = Len(c) + 1 /\ d[1] = x
        /\ \A i \in 1..Len(c) : d[i + 1] = c[i]
    BY <1>1
  <1> HIDE DEF d
  <1>3. ASSUME NEW i \in 1..(Len(d) - 1) PROVE d[i + 1] = l.next[d[i]]
    <2>1. CASE i = 1
      BY <1>1, <1>2, <2>1
    <2>2. CASE i # 1
      <3>1. i - 1 \in 1..(Len(c) - 1) /\ (i - 1) + 1 = i /\ i - 1 \in 1..Len(c) /\ i \in 1..Len(c)
        BY <1>1, <1>2, <2>2
      <3>2. c[(i - 1) + 1] = l.next[c[i - 1]]
        BY <3>1 DEF Trace
      <3>3. d[i + 1] = c[i] /\ d[(i - 1) + 1] = c[i - 1]
        BY <1>2, <3>1
      <3> QED BY <3>1, <3>2, <3>3
    <2> QED BY <2>1, <2>2
  <1>4. l.next[d[Len(d)]] = Null
    <2>1. d[Len(c) + 1] = c[Len(c)]
      BY <1>1, <1>2
    <2> QED BY <1>2, <2>1 DEF Trace
  <1> QED BY <1>1, <1>2, <1>3, <1>4 DEF Trace, d

\* The last element of a list is a trace by itself.
LEMMA LastTrace ==
    ASSUME NEW l, NEW x \in Elem, l.next[x] = Null
    PROVE  Trace(<<x>>, l, x)
  <1>1. <<x>> \in Seq(Elem) /\ Len(<<x>>) = 1 /\ <<x>>[1] = x
    OBVIOUS
  <1> DEFINE d == <<x>>
  <1>2. d \in Seq(Elem) /\ Len(d) = 1 /\ d[1] = x
    BY <1>1
  <1> HIDE DEF d
  <1>3. Trace(d, l, x)
    BY <1>2 DEF Trace
  <1> QED BY <1>3 DEF d

\* From an element in a list on, the walk is a trace.
LEMMA WalkTrace ==
    ASSUME NEW l, NEW at, NEW rk, NEW n, Strung(l, at, rk, n)
    PROVE  \A x \in Elem : at[x] # Null => Trace(ChainFrom(l, x), l, x)
  <1>1. /\ l \in Lists /\ Behind(l, at, rk) /\ n \in Nat
        /\ \A x \in Elem : rk[x] \in Nat
    BY DEF Strung, Ranks
  <1> DEFINE New(x, past) == at[x] # Null /\ \A y \in past : rk[x] < rk[y]
             Bad == {k \in Nat : \E x \in Elem, past \in SUBSET Elem :
                        /\ rk[x] = k /\ New(x, past)
                        /\ ~Trace(WalkOf(l)[<<x, past>>], l, x)}
  <1>2. Bad = {}
    <2> SUFFICES ASSUME Bad # {} PROVE FALSE
      OBVIOUS
    <2>1. Bad \subseteq Nat
      OBVIOUS
    <2>2. PICK k \in Bad : \A j \in Bad : k <= j
      BY <2>1, LeastElement
    <2>3. PICK x \in Elem, past \in SUBSET Elem :
              rk[x] = k /\ New(x, past) /\ ~Trace(WalkOf(l)[<<x, past>>], l, x)
      OBVIOUS
    <2>4. x \notin past /\ x # Null
      BY <1>1, <2>3, CellIs
    <2> DEFINE y == l.next[x]
               more == past \cup {x}
    <2>5. WalkOf(l)[<<x, past>>] = <<x>> \o WalkOf(l)[<<y, more>>]
      <3>1. <<x, past>> \in WalkSet
        BY DEF WalkSet
      <3>2. <<x, past>>[1] = x /\ <<x, past>>[2] = past
        OBVIOUS
      <3>3. WalkOf(l)[<<x, past>>] =
                IF <<x, past>>[1] = Null \/ <<x, past>>[1] \in <<x, past>>[2] THEN <<>>
                ELSE <<(<<x, past>>[1])>> \o
                     WalkOf(l)[<<l.next[<<x, past>>[1]], <<x, past>>[2] \cup {<<x, past>>[1]}>>]
        BY <3>1, WalkIs
      <3> QED BY <2>4, <3>2, <3>3
    <2>6. CASE y = Null
      <3>1. WalkOf(l)[<<y, more>>] = <<>>
        <4>1. <<y, more>> \in WalkSet /\ <<y, more>>[1] = Null
          BY <2>6 DEF WalkSet
        <4> QED BY <4>1, WalkIs
      <3>2. <<x>> \o <<>> = <<x>>
        OBVIOUS
      <3> QED BY <2>3, <2>5, <2>6, <3>1, <3>2, LastTrace
    <2>7. CASE y # Null
      <3>1. y \in Elem /\ at[y] = at[x] /\ rk[y] < rk[x]
        BY <1>1, <2>3, <2>7, LinksType DEF Behind
      <3>2. New(y, more)
        <4>1. \A z \in past : rk[x] < rk[z] /\ z \in Elem
          BY <2>3
        <4> QED BY <1>1, <2>3, <3>1, <4>1
      <3>3. rk[y] \notin Bad
        <4>1. rk[y] \in Bad => k <= rk[y]
          BY <2>2
        <4>2. rk[y] < k /\ k \in Nat /\ rk[y] \in Nat
          BY <1>1, <2>3, <3>1
        <4> HIDE DEF Bad, y
        <4> QED BY <4>1, <4>2
      <3>4. Trace(WalkOf(l)[<<y, more>>], l, y)
        <4>1. rk[y] \in Nat /\ more \in SUBSET Elem
          BY <1>1, <3>1
        <4> HIDE DEF more, y, New
        <4> QED BY <3>1, <3>2, <3>3, <4>1
      <3> QED BY <2>3, <2>5, <3>4, ConsTrace
    <2> QED BY <2>6, <2>7
  <1> SUFFICES ASSUME NEW x \in Elem, at[x] # Null PROVE Trace(ChainFrom(l, x), l, x)
    OBVIOUS
  <1>3. New(x, {}) /\ {} \in SUBSET Elem /\ rk[x] \in Nat /\ rk[x] \notin Bad
    BY <1>1, <1>2
  <1>4. Trace(WalkOf(l)[<<x, {}>>], l, x)
    <2> HIDE DEF New
    <2> QED BY <1>3
  <1> QED BY <1>4, ChainFromIs

\* The chain of list s: the elements at s, ranked down to the end.
Follows(c, l, s, at, rk) ==
    /\ c \in Seq(Elem) /\ Len(c) \in Nat
    /\ \A i \in 1..Len(c) : at[c[i]] = s
    /\ \A x \in Elem : at[x] = s => \E i \in 1..Len(c) : c[i] = x
    /\ \A i, j \in 1..Len(c) : i < j => rk[c[j]] < rk[c[i]]
    /\ Len(c) > 0 => c[1] = l.first[s]
    /\ \A i \in 1..(Len(c) - 1) : c[i + 1] = l.next[c[i]]

\* A chain is the elements of its slot, each once, by rank.
LEMMA ChainIs ==
    ASSUME NEW l, NEW at, NEW rk, NEW n, NEW s \in Slot, Strung(l, at, rk, n)
    PROVE  Follows(Chain(l, s), l, s, at, rk)
  <1>1. /\ l \in Lists /\ Ranks(at, rk, n) /\ First(l, at, rk) /\ Behind(l, at, rk)
        /\ \A x \in Elem : rk[x] \in Nat
        /\ \A x, y \in Elem : at[x] = at[y] /\ at[x] # Null /\ rk[x] = rk[y] => x = y
    BY DEF Strung, Ranks
  <1> DEFINE c == Chain(l, s)
             x == l.first[s]
  <1>2. CASE x = Null
    <2>1. c = <<>>
      <3>1. <<Null, {}>> \in WalkSet /\ <<Null, {}>>[1] = Null
        BY DEF WalkSet
      <3>2. WalkOf(l)[<<Null, {}>>] = <<>>
        BY <3>1, WalkIs
      <3> QED BY <1>2, <3>2, ChainFromIs DEF Chain
    <2>2. \A y \in Elem : at[y] # s
      BY <1>1, <1>2 DEF First
    <2> HIDE DEF c
    <2> QED BY <2>1, <2>2 DEF Follows, c
  <1>3. CASE x # Null
    <2>1. x \in Elem /\ at[x] = s /\ \A y \in Elem : at[y] = s => rk[y] <= rk[x]
      BY <1>1, <1>3, LinksType DEF First
    <2>2. Trace(c, l, x)
      BY <2>1, WalkTrace, CellIs DEF Chain
    <2> HIDE DEF c
    <2>3. /\ c \in Seq(Elem) /\ Len(c) \in Nat /\ Len(c) > 0 /\ c[1] = x
          /\ \A i \in 1..(Len(c) - 1) : c[i + 1] = l.next[c[i]]
          /\ l.next[c[Len(c)]] = Null /\ \A i \in 1..Len(c) : c[i] \in Elem
      BY <2>2 DEF Trace
    <2>4. \A i \in 1..Len(c) : at[c[i]] = s
      <3> DEFINE S == {i \in 1..Len(c) : at[c[i]] = s}
      <3>1. 1 \in S
        BY <2>1, <2>3
      <3>2. ASSUME NEW i \in 1..(Len(c) - 1), i \in S PROVE i + 1 \in S
        <4>1. c[i + 1] = l.next[c[i]] /\ c[i + 1] \in Elem /\ c[i] \in Elem /\ at[c[i]] = s
          BY <2>3, <3>2
        <4>2. at[c[i + 1]] = s
          BY <1>1, <4>1, CellIs DEF Behind
        <4> QED BY <2>3, <4>2
      <3>3. \A i \in 1..Len(c) : i \in S
        <4> HIDE DEF S
        <4> QED BY <2>3, <3>1, <3>2, IntervalInduction
      <3> QED BY <3>3
    <2>5. \A i \in 1..(Len(c) - 1) :
             /\ rk[c[i + 1]] < rk[c[i]]
             /\ \A f \in Elem : at[f] = s /\ rk[f] < rk[c[i]] => rk[f] <= rk[c[i + 1]]
      <3> TAKE i \in 1..(Len(c) - 1)
      <3>1. c[i + 1] = l.next[c[i]] /\ c[i + 1] \in Elem /\ c[i] \in Elem /\ at[c[i]] = s
        BY <2>3, <2>4
      <3> QED BY <1>1, <3>1, CellIs DEF Behind
    <2>6. \A i, j \in 1..Len(c) : i < j => rk[c[j]] < rk[c[i]]
      <3> SUFFICES ASSUME NEW i \in 1..Len(c), i < Len(c)
                   PROVE  \A j \in 1..Len(c) : i < j => rk[c[j]] < rk[c[i]]
        BY <2>3
      <3> DEFINE S == {j \in 1..Len(c) : rk[c[j]] < rk[c[i]]}
      <3>1. i + 1 \in S
        BY <2>3, <2>5
      <3>2. ASSUME NEW j \in (i + 1)..(Len(c) - 1), j \in S PROVE j + 1 \in S
        <4>1. rk[c[j + 1]] < rk[c[j]] /\ rk[c[j]] < rk[c[i]] /\ j + 1 \in 1..Len(c) /\ j \in 1..Len(c)
          BY <2>3, <2>5, <3>2
        <4>2. rk[c[j + 1]] \in Nat /\ rk[c[j]] \in Nat /\ rk[c[i]] \in Nat
          BY <1>1, <2>3, <4>1
        <4> QED BY <4>1, <4>2
      <3>3. \A j \in (i + 1)..Len(c) : j \in S
        <4> HIDE DEF S
        <4>1. i + 1 \in Nat
          OBVIOUS
        <4> QED BY <4>1, <2>3, <3>1, <3>2, IntervalInduction
      <3> QED BY <2>3, <3>3
    <2>7. ASSUME NEW y \in Elem, at[y] = s, \A i \in 1..Len(c) : c[i] # y PROVE FALSE
      <3> DEFINE S == {i \in 1..Len(c) : rk[y] < rk[c[i]]}
      <3>1. 1 \in S
        BY <1>1, <2>1, <2>3, <2>7, CellIs
      <3>2. ASSUME NEW i \in 1..(Len(c) - 1), i \in S PROVE i + 1 \in S
        <4>1. rk[y] <= rk[c[i + 1]] /\ i + 1 \in 1..Len(c)
          BY <2>3, <2>5, <2>7, <3>2
        <4>2. rk[y] # rk[c[i + 1]]
          BY <1>1, <2>3, <2>4, <2>7, <4>1, CellIs
        <4> QED BY <1>1, <2>3, <4>1, <4>2
      <3>3. \A i \in 1..Len(c) : i \in S
        <4> HIDE DEF S
        <4> QED BY <2>3, <3>1, <3>2, IntervalInduction
      <3>4. rk[y] < rk[c[Len(c)]] /\ c[Len(c)] \in Elem /\ at[c[Len(c)]] = s
        BY <2>3, <2>4, <3>3
      <3>5. rk[c[Len(c)]] <= rk[y]
        BY <1>1, <2>3, <2>7, <3>4, CellIs DEF Behind
      <3> QED BY <1>1, <3>4, <3>5
    <2> QED BY <2>3, <2>4, <2>6, <2>7 DEF Follows, c
  <1> QED BY <1>2, <1>3

-----------------------------------------------------------------------------
(* What get and the removals find. *)

\* The recursion of Get.
FindOf(k) == CHOOSE find : find =
    [e \in Elem \cup {Null} |->
        IF e = Null THEN Null ELSE IF KeyOf[e] = k THEN e ELSE find[lists.next[e]]]

\* The recursion of get has a solution on the links of elements so placed.
LEMMA FindIs ==
    ASSUME NEW k, NEW at, NEW rk, NEW n, Strung(lists, at, rk, n)
    PROVE  \A e \in Elem \cup {Null} :
              FindOf(k)[e] = IF e = Null THEN Null
                             ELSE IF KeyOf[e] = k THEN e ELSE FindOf(k)[lists.next[e]]
  <1>1. /\ lists \in Lists /\ Behind(lists, at, rk) /\ n \in Nat
        /\ \A x \in Elem : rk[x] \in Nat /\ rk[x] <= n
    BY DEF Strung, Ranks
  <1>2. \A x \in Elem : lists.next[x] \in Elem \cup {Null}
    BY <1>1, LinksType
  <1> DEFINE D == Elem \cup {Null}
             V == Elem \cup {Null}
             G == [v \in D \X V |-> v[2]]
             d == [e \in D |-> lists.next[e]]
             R == [e \in D |-> e]
             m == [e \in D |-> IF e = Null THEN 0 ELSE rk[e] + 1]
             stop == {e \in D : e = Null \/ KeyOf[e] = k}
  <1>3. Falls(D, V, G, d, R, stop, m, n + 1)
    <2>1. ASSUME NEW x \in D PROVE m[x] \in 0..(n + 1) /\ R[x] \in V
      <3>1. m[x] = IF x = Null THEN 0 ELSE rk[x] + 1
        OBVIOUS
      <3>2. R[x] = x /\ (x # Null => x \in Elem)
        OBVIOUS
      <3> HIDE DEF m, R
      <3> QED BY <1>1, <3>1, <3>2
    <2>2. \A x \in D, v \in V : G[<<x, v>>] \in V
      OBVIOUS
    <2>3. ASSUME NEW x \in D, x \notin stop PROVE d[x] \in D /\ m[d[x]] < m[x]
      <3>1. x \in Elem /\ x # Null
        BY <2>3
      <3>2. lists.next[x] \in D /\ d[x] = lists.next[x]
        BY <1>2, <3>1
      <3>3. lists.next[x] # Null => rk[lists.next[x]] < rk[x]
        BY <1>1, <3>1 DEF Behind
      <3>4. /\ m[x] = rk[x] + 1
            /\ m[d[x]] = IF lists.next[x] = Null THEN 0 ELSE rk[lists.next[x]] + 1
        BY <3>1, <3>2
      <3> HIDE DEF m, d
      <3> QED BY <1>1, <3>1, <3>2, <3>3, <3>4
    <2>4. \A x \in D : x \in stop \/ (d[x] \in D /\ m[d[x]] < m[x])
      BY <2>3
    <2> HIDE DEF D, V, G, d, R, stop, m
    <2> QED BY <1>1, <2>1, <2>2, <2>4 DEF Falls
  <1>4. PICK f : Solves(f, D, V, G, d, R, stop)
    <2> HIDE DEF D, V, G, d, R, stop, m
    <2> QED BY <1>3, RecursionExists
  <1>5. f = [e \in Elem \cup {Null} |->
                IF e = Null THEN Null ELSE IF KeyOf[e] = k THEN e ELSE f[lists.next[e]]]
    <2>1. f \in [D -> V] /\ \A x \in D : f[x] = IF x \in stop THEN R[x] ELSE G[<<x, f[d[x]]>>]
      BY <1>4, Zenon DEF Solves
    <2>2. ASSUME NEW e \in D
          PROVE  f[e] = IF e = Null THEN Null ELSE IF KeyOf[e] = k THEN e ELSE f[lists.next[e]]
      <3>1. CASE e \in stop
        BY <2>1, <3>1
      <3>2. CASE e \notin stop
        <4>1. e # Null /\ KeyOf[e] # k /\ e \in Elem
          BY <3>2
        <4>2. d[e] = lists.next[e] /\ lists.next[e] \in D
          BY <1>2, <4>1
        <4>3. f[d[e]] \in V
          BY <2>1, <4>2
        <4>4. f[e] = G[<<e, f[d[e]]>>]
          BY <2>1, <3>2
        <4>5. G[<<e, f[d[e]]>>] = f[d[e]]
          <5> HIDE DEF V, d, stop, D
          <5> QED BY <4>3
        <4> QED BY <4>1, <4>2, <4>4, <4>5
      <3> QED BY <3>1, <3>2
    <2>3. f = [e \in D |-> f[e]]
      BY <2>1
    <2> HIDE DEF V, G, d, R, stop, m
    <2> QED BY <2>2, <2>3
  <1>6. FindOf(k) = [e \in Elem \cup {Null} |->
                IF e = Null THEN Null ELSE IF KeyOf[e] = k THEN e ELSE FindOf(k)[lists.next[e]]]
    BY <1>5, Zenon DEF FindOf
  <1> HIDE DEF D, V, G, d, R, stop, m
  <1> QED BY <1>6

\* get: the first element of the key in the list its hash leads to, if there is one.
Found(e, k, s, at, rk) ==
    IF e = Null THEN \A x \in Elem : at[x] = s => KeyOf[x] # k
    ELSE /\ e \in Elem /\ at[e] = s /\ KeyOf[e] = k
         /\ \A x \in Elem : at[x] = s /\ KeyOf[x] = k => rk[x] <= rk[e]

\* get finds the foremost element of the key in the list it looks in.
LEMMA GetIs ==
    ASSUME NEW k, NEW at, NEW rk, NEW n, Strung(lists, at, rk, n), SlotFor(k) \in Slot
    PROVE  Found(Get(k), k, SlotFor(k), at, rk)
  <1>1. /\ lists \in Lists /\ First(lists, at, rk) /\ Behind(lists, at, rk)
        /\ \A x \in Elem : rk[x] \in Nat
        /\ \A x, y \in Elem : at[x] = at[y] /\ at[x] # Null /\ rk[x] = rk[y] => x = y
    BY DEF Strung, Ranks
  <1>2. Get(k) = FindOf(k)[lists.first[SlotFor(k)]]
    BY Zenon DEF Get, FindOf
  <1> DEFINE s == SlotFor(k)
             F == FindOf(k)
             Good(x) ==
                IF F[x] = Null THEN \A y \in Elem : at[y] = at[x] /\ rk[y] <= rk[x] => KeyOf[y] # k
                ELSE /\ F[x] \in Elem /\ at[F[x]] = at[x] /\ KeyOf[F[x]] = k
                     /\ \A y \in Elem : at[y] = at[x] /\ rk[y] <= rk[x] /\ KeyOf[y] = k =>
                            rk[y] <= rk[F[x]]
             Bad == {j \in Nat : \E x \in Elem : at[x] # Null /\ rk[x] = j /\ ~Good(x)}
  <1>3. /\ F[Null] = Null
        /\ \A x \in Elem : F[x] = IF KeyOf[x] = k THEN x ELSE F[lists.next[x]]
    BY FindIs, CellIs
  <1> HIDE DEF F
  <1>4. Bad = {}
    <2> SUFFICES ASSUME Bad # {} PROVE FALSE
      OBVIOUS
    <2>1. Bad \subseteq Nat
      OBVIOUS
    <2>2. PICK j \in Bad : \A i \in Bad : j <= i
      BY <2>1, LeastElement
    <2>3. PICK x \in Elem : at[x] # Null /\ rk[x] = j /\ ~Good(x)
      OBVIOUS
    <2>4. CASE KeyOf[x] = k
      BY <1>3, <2>3, <2>4, CellIs
    <2>5. CASE KeyOf[x] # k /\ lists.next[x] = Null
      <3>1. F[x] = Null
        BY <1>3, <2>5
      <3>2. \A y \in Elem : at[y] = at[x] => rk[x] <= rk[y]
        BY <1>1, <2>3, <2>5 DEF Behind
      <3>3. \A y \in Elem : at[y] = at[x] /\ rk[y] <= rk[x] => y = x
        BY <1>1, <2>3, <3>2
      <3> QED BY <2>3, <2>5, <3>1, <3>3
    <2>6. CASE KeyOf[x] # k /\ lists.next[x] # Null
      <3> DEFINE z == lists.next[x]
      <3>1. F[x] = F[z]
        BY <1>3, <2>6
      <3>2. /\ z \in Elem /\ at[z] = at[x] /\ rk[z] < rk[x]
            /\ \A y \in Elem : at[y] = at[x] /\ rk[y] < rk[x] => rk[y] <= rk[z]
        BY <1>1, <2>3, <2>6, LinksType DEF Behind
      <3> HIDE DEF z
      <3>3. \A y \in Elem : at[y] = at[x] /\ rk[y] <= rk[x] /\ y # x => rk[y] <= rk[z]
        BY <1>1, <2>3, <3>2
      <3>4. rk[z] \notin Bad
        <4>1. rk[z] \in Bad => j <= rk[z]
          BY <2>2
        <4>2. rk[z] < j /\ j \in Nat /\ rk[z] \in Nat
          BY <1>1, <2>3, <3>2
        <4> HIDE DEF Bad
        <4> QED BY <4>1, <4>2
      <3>5. Good(z)
        <4> HIDE DEF Good
        <4> QED BY <1>1, <2>3, <3>2, <3>4
      <3>6. Good(x)
        <4>1. \A y \in Elem : at[y] = at[x] /\ rk[y] <= rk[x] /\ KeyOf[y] = k =>
                  at[y] = at[z] /\ rk[y] <= rk[z]
          BY <2>6, <3>2, <3>3
        <4> QED BY <3>1, <3>2, <3>5, <4>1
      <3> QED BY <2>3, <3>6
    <2> QED BY <2>4, <2>5, <2>6
  <1>5. CASE lists.first[s] = Null
    <2>1. \A x \in Elem : at[x] # s
      BY <1>1, <1>5 DEF First
    <2>2. Get(k) = Null
      BY <1>2, <1>3, <1>5 DEF F
    <2> QED BY <2>1, <2>2 DEF Found
  <1>6. CASE lists.first[s] # Null
    <2> DEFINE x == lists.first[s]
    <2>1. x \in Elem /\ at[x] = s /\ \A y \in Elem : at[y] = s => rk[y] <= rk[x]
      BY <1>1, <1>6, LinksType DEF First
    <2>2. Good(x)
      <3>1. at[x] # Null /\ rk[x] \in Nat /\ rk[x] \notin Bad
        BY <1>1, <1>4, <2>1, CellIs
      <3> HIDE DEF Good, x
      <3> QED BY <2>1, <3>1
    <2>3. Get(k) = F[x]
      BY <1>2 DEF F
    <2> HIDE DEF x
    <2> QED BY <2>1, <2>2, <2>3 DEF Found
  <1> QED BY <1>5, <1>6

\* b is the element in front of e in list s, Null if there is none.
Precedes(b, l, s, e, at) ==
    IF at[e] = s /\ l.first[s] # e THEN b \in Elem /\ Points(l, b, e) ELSE b = Null

\* Before: the element in front of e, unless e is the first of the list or not in it.
LEMMA BeforeIs ==
    ASSUME NEW l, NEW at, NEW rk, NEW n, NEW s \in Slot, NEW e \in Elem, Strung(l, at, rk, n)
    PROVE  Precedes(Before(l, s, e), l, s, e, at)
  <1> DEFINE c == Chain(l, s)
             b == Before(l, s, e)
  <1>1. Follows(c, l, s, at, rk)
    BY ChainIs
  <1>0. \A x \in Elem : rk[x] \in Nat
    BY DEF Strung, Ranks
  <1>2. /\ c \in Seq(Elem) /\ Len(c) \in Nat /\ \A i \in 1..Len(c) : c[i] \in Elem /\ at[c[i]] = s
        /\ \A x \in Elem : at[x] = s => \E i \in 1..Len(c) : c[i] = x
        /\ \A i, j \in 1..Len(c) : i < j => rk[c[j]] < rk[c[i]]
        /\ Len(c) > 0 => c[1] = l.first[s]
        /\ \A i \in 1..(Len(c) - 1) : c[i + 1] = l.next[c[i]]
    <2> HIDE DEF c
    <2>1. c \in Seq(Elem) /\ Len(c) \in Nat /\ \A i \in 1..Len(c) : at[c[i]] = s
      BY <1>1 DEF Follows
    <2>2. \A i \in 1..Len(c) : c[i] \in Elem
      BY <2>1
    <2> QED BY <1>1, <2>1, <2>2 DEF Follows
  <1>3. b = IF \E i \in 2..Len(c) : c[i] = e
            THEN c[CHOOSE i \in 1..Len(c) - 1 : c[i + 1] = e] ELSE Null
    BY DEF Before
  <1> HIDE DEF b, c
  <1>4. CASE at[e] = s /\ l.first[s] # e
    <2>1. PICK i \in 1..Len(c) : c[i] = e
      BY <1>2, <1>4
    <2>2. i \in 2..Len(c) /\ i - 1 \in 1..(Len(c) - 1) /\ (i - 1) + 1 = i
      BY <1>2, <1>4, <2>1
    <2>3. \E j \in 1..(Len(c) - 1) : c[j + 1] = e
      BY <2>1, <2>2
    <2>4. PICK j \in 1..(Len(c) - 1) : c[j + 1] = e /\ b = c[j]
      BY <1>3, <2>1, <2>2, <2>3
    <2>5. c[j] \in Elem /\ l.next[c[j]] = e
      BY <1>2, <2>4
    <2> QED BY <1>4, <2>4, <2>5, CellIs DEF Points, Precedes, b
  <1>5. CASE at[e] # s
    BY <1>2, <1>3, <1>5 DEF Precedes, b
  <1>6. CASE at[e] = s /\ l.first[s] = e
    <2>1. ASSUME NEW i \in 2..Len(c), c[i] = e PROVE FALSE
      <3>1. 1 \in 1..Len(c) /\ i \in 1..Len(c) /\ 1 < i /\ c[1] = e
        BY <1>2, <1>6
      <3>2. rk[e] < rk[e]
        BY <1>2, <2>1, <3>1
      <3> QED BY <1>0, <3>2
    <2> QED BY <1>3, <1>6, <2>1 DEF Precedes, b
  <1> QED BY <1>4, <1>5, <1>6

\* remove(elm, prev) of an element of list s.
LEMMA SlistRemoveSound ==
    ASSUME NEW l, NEW at, NEW rk, NEW n, NEW s \in Slot, NEW e \in Elem, Strung(l, at, rk, n),
           at[e] = s
    PROVE  Strung(SlistRemoveAfter(l, s, e, Before(l, s, e)), [at EXCEPT ![e] = Null], rk, n)
  <1> DEFINE b == Before(l, s, e)
             k == SlistRemoveAfter(l, s, e, b)
  <1>0. Precedes(b, l, s, e, at)
    BY BeforeIs
  <1>1. l \in Lists
    BY DEF Strung
  <1>2. CASE l.first[s] = e
    <2>1. b = Null
      BY <1>0, <1>2 DEF Precedes
    <2>2. s \in Cell /\ Points(l, s, e)
      BY <1>2, CellIs DEF Points
    <2> HIDE DEF b
    <2>3. Cut(l, k, s, e)
      BY <1>1, <2>1, <2>2, SlistRemoveAfterIs
    <2> HIDE DEF k
    <2> QED BY <2>2, <2>3, CutStrung DEF k, b
  <1>3. CASE l.first[s] # e
    <2>1. b \in Elem /\ Points(l, b, e)
      BY <1>0, <1>3 DEF Precedes
    <2> HIDE DEF b
    <2>2. b \in Cell /\ b # Null
      BY <2>1, CellIs
    <2>3. Cut(l, k, b, e)
      BY <1>1, <2>1, <2>2, SlistRemoveAfterIs
    <2> HIDE DEF k
    <2> QED BY <2>1, <2>2, <2>3, CutStrung DEF k, b
  <1> QED BY <1>2, <1>3

\* remove(elm): e leaves its list, but in slists only the one its key leads to.
LEMMA RemovedIs ==
    ASSUME NEW at, NEW rk, NEW n, NEW e \in Elem, Sound(fast, lists, at, rk, n), at[e] # Null,
           fast \in BOOLEAN, SlotFor(KeyOf[e]) \in Slot
    PROVE  IF fast \/ at[e] = SlotFor(KeyOf[e])
           THEN Sound(fast, Removed(e), [at EXCEPT ![e] = Null], rk, n)
           ELSE Removed(e) = lists
  <1> DEFINE s == SlotFor(KeyOf[e])
  <1>1. Strung(lists, at, rk, n)
    BY DEF Sound
  <1>5. Precedes(Before(lists, s, e), lists, s, e, at)
    BY <1>1, BeforeIs
  <1>2. CASE fast
    <2>1. fast = TRUE
      BY <1>2
    <2> QED BY <2>1, ListRemoveSound DEF Removed
  <1>3. CASE ~fast /\ at[e] = s
    <2>1. Removed(e) = SlistRemove(lists, s, e)
      BY <1>3 DEF Removed
    <2>2. lists.first[s] = e \/ Before(lists, s, e) # Null
      BY <1>3, <1>5, CellIs DEF Precedes
    <2>3. Removed(e) = SlistRemoveAfter(lists, s, e, Before(lists, s, e))
      BY <2>1, <2>2 DEF SlistRemove
    <2> HIDE DEF s
    <2>4. Strung(Removed(e), [at EXCEPT ![e] = Null], rk, n)
      BY <1>1, <1>3, <2>3, SlistRemoveSound DEF s
    <2> QED BY <1>3, <2>4 DEF Sound, s
  <1>4. CASE ~fast /\ at[e] # s
    <2>1. lists.first[s] # e
      BY <1>1, <1>4, CellIs DEF Strung, First
    <2>2. Before(lists, s, e) = Null
      BY <1>4, <1>5 DEF Precedes
    <2> QED BY <1>4, <2>1, <2>2 DEF Removed, SlistRemove
  <1> QED BY <1>2, <1>3, <1>4

\* Where an element leaves its list, the links change.
LEMMA StrungDiffers ==
    ASSUME NEW l, NEW at, NEW at2, NEW rk, NEW n, NEW e \in Elem, Strung(l, at, rk, n),
           Strung(l, at2, rk, n), at[e] # Null, at2[e] = Null
    PROVE  FALSE
  <1>1. PICK c \in Cell : Points(l, c, e)
    BY PointedAt
  <1> QED BY <1>1, PointsIs

\* What is left when the element of key k that get finds is taken out.
LEMMA WithoutKeyIs ==
    ASSUME NEW at, NEW rk, NEW n, NEW k, Sound(fast, lists, at, rk, n), fast \in BOOLEAN,
           SlotFor(k) \in Slot
    PROVE  IF Get(k) = Null THEN WithoutKey(k) = lists
           ELSE Sound(fast, WithoutKey(k), [at EXCEPT ![Get(k)] = Null], rk, n)
  <1> DEFINE e == Get(k)
             s == SlotFor(k)
  <1>1. Strung(lists, at, rk, n)
    BY DEF Sound
  <1>2. Found(e, k, s, at, rk)
    BY <1>1, GetIs
  <1>3. WithoutKey(k) = IF e = Null THEN lists
                        ELSE IF fast THEN ListRemove(lists, e)
                        ELSE SlistRemoveAfter(lists, s, e, Before(lists, s, e))
    BY DEF WithoutKey
  <1> HIDE DEF e, s
  <1>4. CASE e = Null
    BY <1>3, <1>4 DEF e
  <1>5. CASE e # Null /\ fast
    <2>1. fast = TRUE /\ e \in Elem /\ at[e] # Null
      BY <1>2, <1>5, CellIs DEF Found, s
    <2>2. Sound(fast, WithoutKey(k), [at EXCEPT ![e] = Null], rk, n)
      BY <1>3, <1>5, <2>1, ListRemoveSound
    <2> QED BY <1>5, <2>2 DEF e
  <1>6. CASE e # Null /\ ~fast
    <2>1. e \in Elem /\ at[e] = s /\ s \in Slot
      BY <1>2, <1>6 DEF Found, s
    <2>2. Strung(WithoutKey(k), [at EXCEPT ![e] = Null], rk, n)
      BY <1>1, <1>3, <1>6, <2>1, SlistRemoveSound
    <2> QED BY <1>6, <2>2 DEF e, Sound
  <1> QED BY <1>4, <1>5, <1>6

-----------------------------------------------------------------------------
(* The sizes. *)

\* More bits are a greater power.
LEMMA PowerMono ==
    ASSUME NEW o \in Nat, NEW p \in Nat, o <= p
    PROVE  Power[o] <= Power[p] /\ Power[o] \in Nat /\ Power[p] \in Nat
  <1> DEFINE S == {i \in Nat : Power[o] <= Power[i]}
  <1>1. o \in S
    BY PowerIs
  <1>2. ASSUME NEW i \in o..(p - 1), i \in S PROVE i + 1 \in S
    <2>1. i \in Nat /\ Power[i] \in Nat /\ Power[o] \in Nat /\ Power[i + 1] = 2 * Power[i]
      BY PowerIs
    <2> QED BY <1>2, <2>1
  <1>3. \A i \in o..p : i \in S
    <2> HIDE DEF S
    <2> QED BY <1>1, <1>2, IntervalInduction
  <1> QED BY <1>3, PowerIs

\* A mask is one less than a number of lists there is room for, expand gives
\* another, and no hash leads past it.
LEMMA CapacityIs ==
    ASSUME NEW c \in Capacities
    PROVE  /\ c \in Nat /\ 0..c \subseteq Slot
           /\ 2 * c + 1 < Power[MaxOrder] => 2 * c + 1 \in Capacities
           /\ \A e \in Elem : Masked(KeyOf[e], c) \in 0..c
  <1>1. PICK o \in MinOrder..MaxOrder : c = Power[o] - 1
    BY DEF Capacities
  <1>2. o \in Nat /\ MaxOrder \in Nat /\ MinOrder \in Nat /\ Slot = 0..(Power[MaxOrder] - 1)
    BY HashMapAssumption
  <1>3. /\ Power[o] \in Nat \ {0} /\ Power[MaxOrder] \in Nat \ {0} /\ Power[o] <= Power[MaxOrder]
        /\ Power[o + 1] = 2 * Power[o] /\ Power[MaxOrder + 1] = 2 * Power[MaxOrder]
    <2>1. Power[o] <= Power[MaxOrder]
      BY <1>2, PowerMono
    <2> QED BY <1>2, <2>1, PowerIs
  <1>4. ASSUME 2 * c + 1 < Power[MaxOrder] PROVE 2 * c + 1 \in Capacities
    <2>1. o # MaxOrder
      BY <1>1, <1>3, <1>4
    <2>2. o + 1 \in MinOrder..MaxOrder
      BY <1>2, <2>1
    <2>3. 2 * c + 1 = Power[o + 1] - 1
      BY <1>1, <1>3
    <2> QED BY <2>2, <2>3 DEF Capacities
  <1>5. c \in Nat
    BY <1>1, <1>3
  <1>6. ASSUME NEW e \in Elem PROVE Masked(KeyOf[e], c) \in 0..c
    <2>1. HashOf[KeyOf[e]] \in Nat
      BY HashMapAssumption
    <2>2. HashOf[KeyOf[e]] % (c + 1) \in 0..c
      <3> DEFINE m == c + 1
                 h == HashOf[KeyOf[e]]
      <3>1. m \in Nat \ {0} /\ m - 1 = c
        BY <1>5
      <3> HIDE DEF m, h
      <3>2. h % m \in 0..(m - 1)
        BY <2>1, <3>1, DivMod DEF h
      <3> QED BY <3>1, <3>2 DEF h, m
    <2> QED BY <2>2 DEF Masked
  <1>7. 0..c \subseteq Slot
    BY <1>1, <1>2, <1>3
  <1> QED BY <1>4, <1>5, <1>6, <1>7

\* Every size asked for makes a mask in range.
LEMMA InitSizeIs ==
    ASSUME NEW n \in Nat
    PROVE  InitSize(n) \in Capacities
  <1>1. Order(n) \in Nat
    BY ShiftedIs DEF Order
  <1> DEFINE q == IF Order(n) < MinOrder THEN MinOrder
                  ELSE IF Order(n) > MaxOrder THEN MaxOrder ELSE Order(n)
  <1>2. q \in MinOrder..MaxOrder
    BY <1>1, HashMapAssumption
  <1>3. InitSize(n) = Power[q] - 1
    BY DEF InitSize
  <1> QED BY <1>2, <1>3 DEF Capacities

-----------------------------------------------------------------------------
(* The inductive invariant. *)

Listed(at) == {e \in Elem : at[e] # Null}

\* Where elements are.  Those that came in after the array last grew are where get
\* looks, ahead of all others in their list, and of different keys.
Placed(at, rk) ==
    /\ \A e \in Listed(at) : at[e] \in Used
    /\ \A e \in Listed(at) :
          at[e] = SlotFor(KeyOf[e]) \/ (e \in grown /\ at[e] = Masked(KeyOf[e], capacity \div 2))
    /\ \A e, f \in Listed(at) : e # f /\ KeyOf[e] = KeyOf[f] => e \in grown \/ f \in grown
    /\ \A e, f \in Listed(at) : at[e] = at[f] /\ e \notin grown /\ f \in grown => rk[f] < rk[e]

Counted(at) == IsFiniteSet(Listed(at)) /\ count = Cardinality(Listed(at))

\* The iterator stands between what it has come to and what it has yet to come to.
Stands(at, rk) ==
    /\ it \in [list : Nat, ptr : Elem \cup {Null}]
    /\ IF it.ptr = Null THEN owed = {} /\ seen = {}
       ELSE /\ it.ptr \in Listed(at) /\ at[it.ptr] = it.list
            /\ \A e \in owed : /\ e \in Listed(at)
                               /\ it.list < at[e] \/ (at[e] = it.list /\ rk[e] < rk[it.ptr])
            /\ \A e \in seen : /\ e \in Listed(at)
                               /\ at[e] < it.list \/ (at[e] = it.list /\ rk[it.ptr] <= rk[e])

Holds(at, rk, n) ==
    /\ fast \in BOOLEAN /\ capacity \in Capacities
    /\ Sound(fast, lists, at, rk, n)
    /\ Placed(at, rk) /\ Counted(at) /\ Stands(at, rk)

HashInv == \E at, rk, n : Holds(at, rk, n)

\* What the chains hold, by the places.
LEMMA InIs ==
    ASSUME NEW at, NEW rk, NEW n, Strung(lists, at, rk, n)
    PROVE  \A s \in Slot : In(s) = {e \in Elem : at[e] = s}
  <1> SUFFICES ASSUME NEW s \in Slot PROVE In(s) = {e \in Elem : at[e] = s}
    OBVIOUS
  <1> DEFINE c == Chain(lists, s)
  <1>1. Follows(c, lists, s, at, rk)
    BY ChainIs
  <1> HIDE DEF c
  <1>2. /\ c \in Seq(Elem) /\ Len(c) \in Nat /\ DOMAIN c = 1..Len(c)
        /\ \A i \in 1..Len(c) : c[i] \in Elem /\ at[c[i]] = s
        /\ \A x \in Elem : at[x] = s => \E i \in 1..Len(c) : c[i] = x
    BY <1>1 DEF Follows
  <1>3. Range(c) = {e \in Elem : at[e] = s}
    BY <1>2 DEF Range
  <1> QED BY <1>3 DEF In, c

\* The elements in the chains are those with a place.
LEMMA ElementsIs ==
    ASSUME NEW at, NEW rk, NEW n, Strung(lists, at, rk, n), capacity \in Capacities,
           \A e \in Listed(at) : at[e] \in Used
    PROVE  Elements = Listed(at)
  <1>1. Used \subseteq Slot /\ Null \notin Slot
    BY CapacityIs, CellIs DEF Used
  <1>2. \A s \in Used : In(s) = {e \in Elem : at[e] = s}
    BY <1>1, InIs
  <1>3. ASSUME NEW e PROVE e \in Elements <=> e \in Listed(at)
    <2>1. e \in Elements <=> \E s \in Used : e \in In(s)
      BY DEF Elements
    <2>2. e \in Elements <=> \E s \in Used : e \in Elem /\ at[e] = s
      BY <1>2, <2>1
    <2>3. e \in Elements => e \in Listed(at)
      BY <1>1, <2>2 DEF Listed
    <2>4. e \in Listed(at) => e \in Elements
      BY <2>2 DEF Listed
    <2> QED BY <2>3, <2>4
  <1> QED BY <1>3

\* What the invariant says of a state, and of what the client can ask for in it.
LEMMA HoldsFacts ==
    ASSUME NEW at, NEW rk, NEW n, Holds(at, rk, n)
    PROVE  /\ Strung(lists, at, rk, n) /\ Sound(fast, lists, at, rk, n) /\ fast \in BOOLEAN
           /\ capacity \in Nat /\ Used \subseteq Slot /\ Used = 0..capacity
           /\ at \in [Elem -> Slot \cup {Null}] /\ rk \in [Elem -> Nat] /\ n \in Nat
           /\ \A e \in Elem : rk[e] <= n
           /\ \A e, f \in Elem : at[e] = at[f] /\ at[e] # Null /\ rk[e] = rk[f] => e = f
           /\ Elements = Listed(at)
           /\ \A s \in Slot : In(s) = {e \in Elem : at[e] = s}
           /\ \A e \in Elem : SlotFor(KeyOf[e]) \in Used /\ SlotFor(KeyOf[e]) \in Slot
  <1>1. Strung(lists, at, rk, n) /\ Sound(fast, lists, at, rk, n) /\ fast \in BOOLEAN
        /\ capacity \in Capacities
    BY DEF Holds, Sound
  <1>2. /\ at \in [Elem -> Slot \cup {Null}] /\ rk \in [Elem -> Nat] /\ n \in Nat
        /\ \A e \in Elem : rk[e] <= n
        /\ \A e, f \in Elem : at[e] = at[f] /\ at[e] # Null /\ rk[e] = rk[f] => e = f
    BY <1>1 DEF Strung, Ranks
  <1>3. Elements = Listed(at)
    BY <1>1, ElementsIs DEF Holds, Placed
  <1>4. \A s \in Slot : In(s) = {e \in Elem : at[e] = s}
    BY <1>1, InIs
  <1>5. capacity \in Nat /\ Used = 0..capacity /\ Used \subseteq Slot
        /\ \A e \in Elem : SlotFor(KeyOf[e]) \in Used
    BY <1>1, CapacityIs DEF Used, SlotFor
  <1> QED BY <1>1, <1>2, <1>3, <1>4, <1>5

\* The invariant is about the places alone, given those of the next state.
LEMMA ElementsNext ==
    ASSUME NEW at, NEW rk, NEW n, Strung(lists', at, rk, n), capacity' \in Capacities,
           Placed(at, rk)'
    PROVE  Elements' = Listed(at)
  <1>1. (Strung(lists, at, rk, n) /\ capacity \in Capacities
           /\ (\A e \in Listed(at) : at[e] \in Used) => Elements = Listed(at))'
    BY ElementsIs, PTL
  <1> QED BY <1>1 DEF Placed

\* A new element goes where get looks, to the front.
LEMMA PlacedPush ==
    ASSUME NEW at, NEW rk, NEW n, NEW e \in Elem, NEW s \in Slot, Placed(at, rk), s = SlotFor(KeyOf[e]),
           s \in Used, at \in [Elem -> Slot \cup {Null}], rk \in [Elem -> Nat], n \in Nat,
           \A x \in Elem : rk[x] <= n,
           \A x \in Listed(at) : KeyOf[x] = KeyOf[e] => x \in grown,
           at[e] = Null, grown' = grown \ {e}, capacity' = capacity
    PROVE  Placed([at EXCEPT ![e] = s], [rk EXCEPT ![e] = n + 1])'
  <1> DEFINE at2 == [at EXCEPT ![e] = s]
             rk2 == [rk EXCEPT ![e] = n + 1]
  <1>1. \A x \in Elem : /\ at2[x] = IF x = e THEN s ELSE at[x]
                        /\ rk2[x] = IF x = e THEN n + 1 ELSE rk[x]
    OBVIOUS
  <1> HIDE DEF at2, rk2
  <1>2. Used' = Used /\ \A x \in Elem : SlotFor(KeyOf[x])' = SlotFor(KeyOf[x])
        /\ Masked(KeyOf[x], capacity \div 2)' = Masked(KeyOf[x], capacity \div 2)
    BY DEF Used, SlotFor, Masked
  <1>3. \A x \in Elem : x \in Listed(at2) <=> x = e \/ x \in Listed(at)
    BY <1>1, CellIs DEF Listed
  <1>4. \A x \in Listed(at2) : x \in Elem
    BY DEF Listed
  <1>5. \A x \in Listed(at2) : x # e => x \in Listed(at) /\ at2[x] = at[x] /\ rk2[x] = rk[x]
    BY <1>1, <1>3, <1>4
  <1>6. \A x \in Listed(at2) : at2[x] \in Used'
    BY <1>1, <1>2, <1>3, <1>4, <1>5 DEF Placed
  <1>7. \A x \in Listed(at2) :
          at2[x] = SlotFor(KeyOf[x])' \/ (x \in grown' /\ at2[x] = Masked(KeyOf[x], capacity \div 2)')
    BY <1>1, <1>2, <1>4, <1>5 DEF Placed
  <1>8. \A x, y \in Listed(at2) : x # y /\ KeyOf[x] = KeyOf[y] => x \in grown' \/ y \in grown'
    BY <1>4, <1>5 DEF Placed
  <1>9. ASSUME NEW x \in Listed(at2), NEW y \in Listed(at2), at2[x] = at2[y], x \notin grown',
               y \in grown'
        PROVE  rk2[y] < rk2[x]
    <2>1. y # e /\ rk2[y] = rk[y] /\ y \in Listed(at) /\ y \in Elem
      BY <1>4, <1>5, <1>9
    <2>2. CASE x = e
      BY <1>1, <2>1, <2>2
    <2>3. CASE x # e
      BY <1>4, <1>5, <1>9, <2>1, <2>3 DEF Placed
    <2> QED BY <2>2, <2>3
  <1> QED BY <1>6, <1>7, <1>8, <1>9 DEF Placed, at2, rk2

\* An element that leaves.
LEMMA PlacedCut ==
    ASSUME NEW at, NEW rk, NEW g \in Elem, Placed(at, rk), at \in [Elem -> Slot \cup {Null}]
    PROVE  Placed([at EXCEPT ![g] = Null], rk)
  <1> DEFINE at2 == [at EXCEPT ![g] = Null]
  <1>1. \A x \in Listed(at2) : x \in Listed(at) /\ at2[x] = at[x]
    BY DEF Listed
  <1> HIDE DEF at2
  <1> QED BY <1>1 DEF Placed, at2

\* Nothing moves.
LEMMA PlacedSame ==
    ASSUME NEW at, NEW rk, Placed(at, rk), grown' = grown, capacity' = capacity
    PROVE  Placed(at, rk)'
  BY DEF Placed, Used, SlotFor, Masked

\* The iterator stays where it is while others move.
LEMMA StandsOn ==
    ASSUME NEW at, NEW rk, NEW at2, NEW rk2, Stands(at, rk), Iterating, Elements' = Listed(at2),
           it.ptr # Null => it.ptr \in Listed(at2),
           \A x \in Elem : x \in Listed(at) /\ x \in Listed(at2) => at2[x] = at[x] /\ rk2[x] = rk[x]
    PROVE  Stands(at2, rk2)'
  <1>1. /\ it' = it /\ owed' = owed \cap Listed(at2) /\ seen' = seen \cap Listed(at2)
    BY DEF Iterating
  <1>2. it \in [list : Nat, ptr : Elem \cup {Null}]
    BY DEF Stands
  <1>3. CASE it.ptr = Null
    BY <1>1, <1>2, <1>3 DEF Stands
  <1>4. CASE it.ptr # Null
    <2>1. /\ it.ptr \in Listed(at) /\ at[it.ptr] = it.list
          /\ \A e \in owed : /\ e \in Listed(at)
                             /\ it.list < at[e] \/ (at[e] = it.list /\ rk[e] < rk[it.ptr])
          /\ \A e \in seen : /\ e \in Listed(at)
                             /\ at[e] < it.list \/ (at[e] = it.list /\ rk[it.ptr] <= rk[e])
      BY <1>4 DEF Stands
    <2>2. \A x \in Listed(at2) : x \in Elem
      BY DEF Listed
    <2>3. it.ptr \in Listed(at2) /\ at2[it.ptr] = it.list /\ rk2[it.ptr] = rk[it.ptr]
      BY <1>4, <2>1, <2>2
    <2>4. \A e \in owed' : /\ e \in Listed(at2)
                           /\ it.list < at2[e] \/ (at2[e] = it.list /\ rk2[e] < rk2[it.ptr])
      BY <1>1, <2>1, <2>2, <2>3
    <2>5. \A e \in seen' : /\ e \in Listed(at2)
                           /\ at2[e] < it.list \/ (at2[e] = it.list /\ rk2[it.ptr] <= rk2[e])
      BY <1>1, <2>1, <2>2, <2>3
    <2> QED BY <1>1, <1>2, <1>4, <2>3, <2>4, <2>5 DEF Stands
  <1> QED BY <1>3, <1>4

\* The iterator stays and nothing moves.
LEMMA StandsSame ==
    ASSUME NEW at, NEW rk, Stands(at, rk), UNCHANGED iteration
    PROVE  Stands(at, rk)'
  BY DEF Stands, iteration

\* One more or one less is listed.
LEMMA ListedPush ==
    ASSUME NEW at, NEW e \in Elem, NEW s \in Slot, at \in [Elem -> Slot \cup {Null}], at[e] = Null,
           IsFiniteSet(Listed(at))
    PROVE  /\ Listed([at EXCEPT ![e] = s]) = Listed(at) \cup {e}
           /\ IsFiniteSet(Listed([at EXCEPT ![e] = s]))
           /\ Cardinality(Listed([at EXCEPT ![e] = s])) = Cardinality(Listed(at)) + 1
  <1>1. Listed([at EXCEPT ![e] = s]) = Listed(at) \cup {e}
    BY CellIs DEF Listed
  <1>2. e \notin Listed(at)
    BY DEF Listed
  <1> DEFINE T == Listed(at)
  <1>3. IsFiniteSet(T) /\ e \notin T
    BY <1>2
  <1> HIDE DEF T
  <1>4. IsFiniteSet(T \cup {e}) /\ Cardinality(T \cup {e}) = Cardinality(T) + 1
    BY <1>3, FS_AddElement
  <1> QED BY <1>1, <1>4 DEF T

\* One less is listed.
LEMMA ListedCut ==
    ASSUME NEW at, NEW e \in Elem, at \in [Elem -> Slot \cup {Null}], at[e] # Null,
           IsFiniteSet(Listed(at))
    PROVE  /\ Listed([at EXCEPT ![e] = Null]) = Listed(at) \ {e}
           /\ IsFiniteSet(Listed([at EXCEPT ![e] = Null]))
           /\ Cardinality(Listed([at EXCEPT ![e] = Null])) = Cardinality(Listed(at)) - 1
  <1>1. Listed([at EXCEPT ![e] = Null]) = Listed(at) \ {e}
    BY DEF Listed
  <1>2. e \in Listed(at)
    BY DEF Listed
  <1> QED BY <1>1, <1>2, FS_RemoveElement

\* Put together: the invariant after a step that changes the links and the count.
LEMMA HoldsNext ==
    ASSUME NEW at2, NEW rk2, NEW n2, fast' = fast, fast \in BOOLEAN, capacity' \in Capacities,
           Sound(fast, lists', at2, rk2, n2), Placed(at2, rk2)',
           IsFiniteSet(Listed(at2)), count' = Cardinality(Listed(at2)),
           Elements' = Listed(at2) => Stands(at2, rk2)'
    PROVE  HashInv' /\ Elements' = Listed(at2)
  <1>1. Strung(lists', at2, rk2, n2)
    BY DEF Sound
  <1>2. Elements' = Listed(at2)
    BY <1>1, ElementsNext
  <1>3. Counted(at2)'
    BY DEF Counted
  <1>4. Sound(fast, lists, at2, rk2, n2)'
    BY DEF Sound
  <1>5. Holds(at2, rk2, n2)'
    BY <1>2, <1>3, <1>4 DEF Holds
  <1> QED BY <1>2, <1>5 DEF HashInv

-----------------------------------------------------------------------------
(* HashInv is inductive. *)

\* A new element that goes to the front of the list its key leads to.
LEMMA PushInv ==
    ASSUME NEW at, NEW rk, NEW n, NEW l, NEW e \in Elem, HashInv,
           fast \in BOOLEAN, fast' = fast, capacity \in Capacities, capacity' = capacity,
           Sound(fast, l, at, rk, n), Placed(at, rk), IsFiniteSet(Listed(at)),
           \A x \in Listed(at) : KeyOf[x] = KeyOf[e] => x \in grown,
           at[e] = Null, grown' = grown \ {e}, lists' = Pushed(l, SlotFor(KeyOf[e]), e),
           count' = Cardinality(Listed(at)) + 1, Iterating,
           it.ptr # Null => it.ptr \in Listed(at),
           \E bt, bk, m : /\ Holds(bt, bk, m)
                          /\ bt[e] = Null
                          /\ \A x \in Elem : x \in Listed(bt) /\ x \in Listed(at) =>
                                at[x] = bt[x] /\ rk[x] = bk[x]
    PROVE  HashInv'
  <1> DEFINE s == SlotFor(KeyOf[e])
  <1>1. /\ at \in [Elem -> Slot \cup {Null}] /\ rk \in [Elem -> Nat] /\ n \in Nat
        /\ \A x \in Elem : rk[x] <= n
    BY DEF Sound, Strung, Ranks
  <1>2. s \in Used /\ s \in Slot
    BY CapacityIs DEF Used, SlotFor
  <1> HIDE DEF s
  <1>3. PICK bt, bk, m : /\ Holds(bt, bk, m)
                         /\ bt[e] = Null
                         /\ \A x \in Elem : x \in Listed(bt) /\ x \in Listed(at) =>
                               at[x] = bt[x] /\ rk[x] = bk[x]
    OBVIOUS
  <1>4. PICK t \in Slot : t = s
    BY <1>2
  <1> DEFINE at2 == [at EXCEPT ![e] = t]
             rk2 == [rk EXCEPT ![e] = n + 1]
  <1>5. Sound(fast, lists', at2, rk2, n + 1)
    BY <1>4, PushSound DEF s
  <1>6. Placed(at2, rk2)'
    BY <1>1, <1>2, <1>4, PlacedPush DEF s
  <1>7. /\ Listed(at2) = Listed(at) \cup {e} /\ IsFiniteSet(Listed(at2))
        /\ count' = Cardinality(Listed(at2))
    BY <1>1, ListedPush
  <1>8. \A x \in Elem : /\ at2[x] = IF x = e THEN t ELSE at[x]
                        /\ rk2[x] = IF x = e THEN n + 1 ELSE rk[x]
    BY <1>1
  <1> HIDE DEF at2, rk2
  <1>9. ASSUME Elements' = Listed(at2) PROVE Stands(at2, rk2)'
    <2>1. Stands(bt, bk)
      BY <1>3 DEF Holds
    <2>2. it.ptr # Null => it.ptr \in Listed(at2)
      BY <1>7
    <2>3. \A x \in Elem : x \in Listed(bt) /\ x \in Listed(at2) => at2[x] = bt[x] /\ rk2[x] = bk[x]
      <3> TAKE x \in Elem
      <3> HAVE x \in Listed(bt) /\ x \in Listed(at2)
      <3>1. x # e
        BY <1>3 DEF Listed
      <3> QED BY <1>3, <1>7, <1>8, <3>1
    <2> QED BY <1>9, <2>1, <2>2, <2>3, StandsOn
  <1> QED BY <1>5, <1>6, <1>7, <1>9, HoldsNext

\* What get finds tells which elements have the key: those that came in after the
\* array last grew are found, and all others of it have been moved.
LEMMA Unfound ==
    ASSUME NEW at, NEW rk, NEW n, NEW e \in Elem, Holds(at, rk, n)
    PROVE  \A x \in Listed(at) : KeyOf[x] = KeyOf[e] /\ x # Get(KeyOf[e]) => x \in grown
  <1> DEFINE k == KeyOf[e]
             s == SlotFor(k)
             g == Get(k)
  <1>1. /\ Strung(lists, at, rk, n) /\ s \in Slot /\ rk \in [Elem -> Nat]
        /\ \A x, y \in Elem : at[x] = at[y] /\ at[x] # Null /\ rk[x] = rk[y] => x = y
    BY HoldsFacts
  <1>2. Found(g, k, s, at, rk)
    BY <1>1, GetIs
  <1> HIDE DEF g
  <1> SUFFICES ASSUME NEW x \in Listed(at), KeyOf[x] = k, x # g, x \notin grown PROVE FALSE
    BY DEF g
  <1>3. x \in Elem /\ at[x] # Null
    BY DEF Listed
  <1>4. at[x] = s
    BY DEF Holds, Placed
  <1>5. g # Null
    BY <1>2, <1>3, <1>4 DEF Found
  <1>6. g \in Elem /\ at[g] = s /\ KeyOf[g] = k /\ rk[x] <= rk[g] /\ g \in Listed(at)
    BY <1>1, <1>2, <1>3, <1>4, <1>5, CellIs DEF Found, Listed
  <1>7. g \in grown
    BY <1>6 DEF Holds, Placed
  <1>8. rk[g] < rk[x]
    BY <1>4, <1>6, <1>7 DEF Holds, Placed
  <1> QED BY <1>1, <1>3, <1>6, <1>8

\* probe keeps the invariant: where get finds no element of the key, those there
\* are have been moved by expand.
LEMMA ProbeInv ==
    ASSUME HashInv, NEW e \in Elem, Probe(e)
    PROVE  HashInv'
  <1>1. PICK at, rk, n : Holds(at, rk, n)
    BY DEF HashInv
  <1>2. CASE Get(KeyOf[e]) # Null
    <2>1. UNCHANGED hashVars
      BY <1>2 DEF Probe
    <2>2. Holds(at, rk, n)'
      BY <1>1, <2>1 DEF Holds, hashVars, iteration, Placed, Counted, Stands, Used, SlotFor, Masked
    <2> QED BY <2>2 DEF HashInv
  <1>3. CASE Get(KeyOf[e]) = Null
    <2>1. /\ lists' = Pushed(lists, SlotFor(KeyOf[e]), e) /\ count' = count + 1
          /\ grown' = grown \ {e} /\ fast' = fast /\ capacity' = capacity /\ Iterating
          /\ e \notin Elements
      BY <1>3 DEF Probe
    <2>2. /\ fast \in BOOLEAN /\ capacity \in Capacities /\ Sound(fast, lists, at, rk, n)
          /\ Placed(at, rk) /\ Counted(at) /\ Stands(at, rk)
      BY <1>1 DEF Holds
    <2>3. at[e] = Null
      BY <1>1, <2>1, HoldsFacts DEF Listed
    <2>4. \A x \in Listed(at) : KeyOf[x] = KeyOf[e] => x \in grown
      BY <1>1, <1>3, Unfound, CellIs DEF Listed
    <2>5. it.ptr # Null => it.ptr \in Listed(at)
      BY <2>2 DEF Stands
    <2> QED BY <1>1, <2>1, <2>2, <2>3, <2>4, <2>5, PushInv DEF Counted
  <1> QED BY <1>2, <1>3

\* An element, not the one the iterator is at, leaves.
LEMMA CutInv ==
    ASSUME NEW at, NEW rk, NEW n, NEW g \in Elem, Holds(at, rk, n), at[g] # Null, it.ptr # g,
           Sound(fast, lists', [at EXCEPT ![g] = Null], rk, n), count' = count - 1,
           UNCHANGED <<fast, capacity, grown>>, Iterating
    PROVE  HashInv'
  <1> DEFINE at2 == [at EXCEPT ![g] = Null]
  <1>1. /\ fast \in BOOLEAN /\ capacity \in Capacities /\ Sound(fast, lists, at, rk, n)
        /\ Placed(at, rk) /\ Counted(at) /\ Stands(at, rk) /\ at \in [Elem -> Slot \cup {Null}]
    BY HoldsFacts DEF Holds
  <1>2. Placed(at2, rk)'
    <2>1. Placed(at2, rk)
      BY <1>1, PlacedCut
    <2> HIDE DEF at2
    <2> QED BY <2>1, PlacedSame
  <1>3. /\ Listed(at2) = Listed(at) \ {g} /\ IsFiniteSet(Listed(at2))
        /\ count' = Cardinality(Listed(at2))
    BY <1>1, ListedCut DEF Counted
  <1>4. \A x \in Listed(at2) : at2[x] = at[x]
    BY <1>1, <1>3 DEF Listed
  <1> HIDE DEF at2
  <1>5. ASSUME Elements' = Listed(at2) PROVE Stands(at2, rk)'
    <2>1. it.ptr # Null => it.ptr \in Listed(at2)
      BY <1>1, <1>3 DEF Stands
    <2> QED BY <1>1, <1>4, <1>5, <2>1, StandsOn
  <1>6. Sound(fast, lists', at2, rk, n)
    BY DEF at2
  <1> QED BY <1>1, <1>2, <1>3, <1>5, <1>6, HoldsNext

\* Nothing happens to the links.
LEMMA StayInv ==
    ASSUME NEW at, NEW rk, NEW n, Holds(at, rk, n), lists' = lists, count' = count,
           UNCHANGED <<fast, capacity, grown>>, Iterating
    PROVE  HashInv'
  <1>1. /\ fast \in BOOLEAN /\ capacity \in Capacities /\ Sound(fast, lists, at, rk, n)
        /\ Placed(at, rk) /\ Counted(at) /\ Stands(at, rk)
    BY DEF Holds
  <1>2. Placed(at, rk)'
    BY <1>1, PlacedSame
  <1>3. ASSUME Elements' = Listed(at) PROVE Stands(at, rk)'
    <2>1. it.ptr # Null => it.ptr \in Listed(at)
      BY <1>1 DEF Stands
    <2> QED BY <1>1, <1>3, <2>1, StandsOn
  <1> QED BY <1>1, <1>2, <1>3, HoldsNext DEF Counted

\* remove of an element keeps it, whether it finds the element or not.
LEMMA RemoveElemInv ==
    ASSUME HashInv, NEW e \in Elem, RemoveElem(e)
    PROVE  HashInv'
  <1>1. PICK at, rk, n : Holds(at, rk, n)
    BY DEF HashInv
  <1>2. /\ e \in Elements /\ it.ptr # e /\ lists' = Removed(e)
        /\ count' = IF fast \/ lists' # lists THEN count - 1 ELSE count
        /\ UNCHANGED <<fast, capacity, grown>> /\ Iterating
    BY DEF RemoveElem
  <1>3. /\ Strung(lists, at, rk, n) /\ Sound(fast, lists, at, rk, n) /\ fast \in BOOLEAN
        /\ at[e] # Null /\ SlotFor(KeyOf[e]) \in Slot /\ at \in [Elem -> Slot \cup {Null}]
    BY <1>1, <1>2, HoldsFacts DEF Listed
  <1>4. IF fast \/ at[e] = SlotFor(KeyOf[e])
        THEN Sound(fast, Removed(e), [at EXCEPT ![e] = Null], rk, n)
        ELSE Removed(e) = lists
    BY <1>3, RemovedIs
  <1>5. CASE fast \/ at[e] = SlotFor(KeyOf[e])
    <2> DEFINE at2 == [at EXCEPT ![e] = Null]
    <2>1. Sound(fast, lists', at2, rk, n)
      BY <1>2, <1>4, <1>5
    <2>2. at2[e] = Null
      BY <1>3
    <2>3. lists' # lists
      <3> HIDE DEF at2
      <3>1. Strung(lists', at2, rk, n)
        BY <2>1 DEF Sound
      <3> QED BY <1>3, <2>2, <3>1, StrungDiffers
    <2>4. count' = count - 1
      BY <1>2, <2>3
    <2> QED BY <1>1, <1>2, <1>3, <2>1, <2>4, CutInv
  <1>6. CASE ~(fast \/ at[e] = SlotFor(KeyOf[e]))
    BY <1>1, <1>2, <1>4, <1>6, StayInv
  <1> QED BY <1>5, <1>6

\* remove of a key keeps it.
LEMMA RemoveKeyInv ==
    ASSUME HashInv, NEW e \in Elem, RemoveKey(KeyOf[e])
    PROVE  HashInv'
  <1>1. PICK at, rk, n : Holds(at, rk, n)
    BY DEF HashInv
  <1> DEFINE k == KeyOf[e]
  <1>2. /\ AtEnd \/ Get(k) # it.ptr
        /\ lists' = WithoutKey(k) /\ count' = IF Get(k) = Null THEN count ELSE count - 1
        /\ UNCHANGED <<fast, capacity, grown>> /\ Iterating
    BY DEF RemoveKey
  <1>3. /\ Strung(lists, at, rk, n) /\ Sound(fast, lists, at, rk, n) /\ fast \in BOOLEAN
        /\ SlotFor(k) \in Slot
    BY <1>1, HoldsFacts
  <1>4. IF Get(k) = Null THEN WithoutKey(k) = lists
        ELSE Sound(fast, WithoutKey(k), [at EXCEPT ![Get(k)] = Null], rk, n)
    BY <1>3, WithoutKeyIs
  <1>5. Found(Get(k), k, SlotFor(k), at, rk)
    BY <1>3, GetIs
  <1>6. CASE Get(k) = Null
    BY <1>1, <1>2, <1>4, <1>6, StayInv
  <1>7. CASE Get(k) # Null
    <2>1. PICK g \in Elem : g = Get(k) /\ at[g] # Null
      BY <1>3, <1>5, <1>7, CellIs DEF Found
    <2>2. it.ptr # g
      BY <1>2, <2>1, CellIs DEF AtEnd
    <2>3. Sound(fast, lists', [at EXCEPT ![g] = Null], rk, n)
      BY <1>2, <1>4, <1>7, <2>1
    <2>4. count' = count - 1
      BY <1>2, <1>7
    <2> QED BY <1>1, <1>2, <2>1, <2>2, <2>3, <2>4, CutInv
  <1> QED BY <1>6, <1>7

\* replace keeps it: what was found of the key is gone before the new one comes.
LEMMA ReplaceInv ==
    ASSUME HashInv, NEW e \in Elem, Replace(e)
    PROVE  HashInv'
  <1>1. PICK at, rk, n : Holds(at, rk, n)
    BY DEF HashInv
  <1> DEFINE k == KeyOf[e]
  <1>2. /\ e \notin Elements /\ (AtEnd \/ Get(k) # it.ptr)
        /\ lists' = Pushed(WithoutKey(k), SlotFor(k), e)
        /\ count' = IF Get(k) = Null THEN count + 1 ELSE count
        /\ grown' = grown \ {e} /\ fast' = fast /\ capacity' = capacity /\ Iterating
    BY DEF Replace
  <1>3. /\ Strung(lists, at, rk, n) /\ Sound(fast, lists, at, rk, n) /\ fast \in BOOLEAN
        /\ SlotFor(k) \in Slot /\ at[e] = Null /\ at \in [Elem -> Slot \cup {Null}]
    BY <1>1, <1>2, HoldsFacts DEF Listed
  <1>4. IF Get(k) = Null THEN WithoutKey(k) = lists
        ELSE Sound(fast, WithoutKey(k), [at EXCEPT ![Get(k)] = Null], rk, n)
    BY <1>3, WithoutKeyIs
  <1>5. Found(Get(k), k, SlotFor(k), at, rk)
    BY <1>3, GetIs
  <1>6. /\ capacity \in Capacities /\ Placed(at, rk) /\ Counted(at) /\ Stands(at, rk)
    BY <1>1 DEF Holds
  <1>7. \A x \in Listed(at) : KeyOf[x] = k /\ x # Get(k) => x \in grown
    BY <1>1, Unfound
  <1>8. it.ptr # Null => it.ptr \in Listed(at)
    BY <1>6 DEF Stands
  <1>9. CASE Get(k) = Null
    <2>1. \A x \in Listed(at) : KeyOf[x] = k => x \in grown
      BY <1>7, <1>9, CellIs DEF Listed
    <2>2. /\ lists' = Pushed(lists, SlotFor(k), e) /\ count' = Cardinality(Listed(at)) + 1
          /\ IsFiniteSet(Listed(at))
      BY <1>2, <1>4, <1>6, <1>9 DEF Counted
    <2> QED BY <1>1, <1>2, <1>3, <1>6, <1>8, <2>1, <2>2, PushInv
  <1>10. CASE Get(k) # Null
    <2>1. PICK g \in Elem : g = Get(k) /\ at[g] # Null
      BY <1>3, <1>5, <1>10, CellIs DEF Found
    <2>2. PICK l : l = WithoutKey(k)
      OBVIOUS
    <2> DEFINE at2 == [at EXCEPT ![g] = Null]
    <2>3. Sound(fast, l, at2, rk, n)
      BY <1>4, <1>10, <2>1, <2>2
    <2>4. Placed(at2, rk)
      BY <1>3, <1>6, PlacedCut
    <2>5. /\ Listed(at2) = Listed(at) \ {g} /\ IsFiniteSet(Listed(at2))
          /\ Cardinality(Listed(at2)) = Cardinality(Listed(at)) - 1
      BY <1>3, <1>6, <2>1, ListedCut DEF Counted
    <2>6. \A x \in Elem : at2[x] = IF x = g THEN Null ELSE at[x]
      BY <1>3
    <2> HIDE DEF at2
    <2>7. \A x \in Listed(at2) : KeyOf[x] = k => x \in grown
      BY <1>7, <2>1, <2>5
    <2>8. at2[e] = Null
      BY <1>3, <2>6
    <2>9. it.ptr # Null => it.ptr \in Listed(at2)
      BY <1>2, <1>8, <2>1, <2>5 DEF AtEnd
    <2>10. count' = Cardinality(Listed(at2)) + 1
      <3>1. Cardinality(Listed(at)) \in Nat
        BY <1>6, FS_CardinalityType DEF Counted
      <3> QED BY <1>2, <1>6, <1>10, <2>5, <3>1 DEF Counted
    <2>11. \A x \in Elem : x \in Listed(at) /\ x \in Listed(at2) => at2[x] = at[x] /\ rk[x] = rk[x]
      BY <2>5, <2>6
    <2> QED BY <1>1, <1>2, <1>3, <1>6, <2>2, <2>3, <2>4, <2>5, <2>7, <2>8, <2>9, <2>10, <2>11, PushInv
  <1> QED BY <1>9, <1>10

\* No elements at all.
LEMMA NoneSound ==
    ASSUME NEW b
    PROVE  Sound(b, NoElements, [e \in Elem |-> Null], [e \in Elem |-> 0], 0)
  <1> DEFINE at == [e \in Elem |-> Null]
             rk == [e \in Elem |-> 0]
  <1>1. /\ \A e \in Elem : at[e] = Null /\ rk[e] = 0
        /\ at \in [Elem -> Slot \cup {Null}] /\ rk \in [Elem -> Nat]
    OBVIOUS
  <1> HIDE DEF at, rk
  <1>2. /\ NoElements \in Lists
        /\ \A s \in Slot : NoElements.first[s] = Null
        /\ \A e \in Elem : NoElements.next[e] = Null
    BY DEF NoElements, Lists
  <1>3. Ranks(at, rk, 0)
    BY <1>1 DEF Ranks
  <1>4. First(NoElements, at, rk)
    BY <1>1, <1>2, CellIs DEF First
  <1>5. Behind(NoElements, at, rk)
    BY <1>1, <1>2 DEF Behind
  <1>6. Backed(NoElements, at)
    BY <1>1 DEF Backed
  <1> QED BY <1>2, <1>3, <1>4, <1>5, <1>6 DEF Sound, Strung, at, rk

\* Where nothing has a place nothing is listed.
LEMMA NoneListed ==
    /\ Listed([e \in Elem |-> Null]) = {} /\ IsFiniteSet(Listed([e \in Elem |-> Null]))
    /\ Cardinality(Listed([e \in Elem |-> Null])) = 0
  <1>1. Listed([e \in Elem |-> Null]) = {}
    BY DEF Listed
  <1> QED BY <1>1, FS_EmptySet

\* Where nothing has a place nothing is misplaced.
LEMMA NonePlaced ==
    ASSUME NEW rk
    PROVE  Placed([e \in Elem |-> Null], rk)
  <1> DEFINE at == [e \in Elem |-> Null]
  <1>1. Listed(at) = {}
    BY NoneListed
  <1> HIDE DEF at
  <1> QED BY <1>1 DEF Placed, at

\* clear keeps it.
LEMMA ClearInv ==
    ASSUME HashInv, Clear
    PROVE  HashInv'
  <1>1. PICK at, rk, n : Holds(at, rk, n)
    BY DEF HashInv
  <1>2. /\ it.ptr = Null /\ lists' = NoElements /\ count' = 0
        /\ fast' = fast /\ capacity' = capacity /\ UNCHANGED iteration
    BY DEF Clear, AtEnd
  <1>3. /\ fast \in BOOLEAN /\ capacity \in Capacities /\ Stands(at, rk)
    BY <1>1 DEF Holds
  <1> DEFINE at2 == [e \in Elem |-> Null]
             rk2 == [e \in Elem |-> 0]
  <1>4. Sound(fast, lists', at2, rk2, 0)
    BY <1>2, NoneSound
  <1>5. /\ Listed(at2) = {} /\ IsFiniteSet(Listed(at2)) /\ count' = Cardinality(Listed(at2))
    BY <1>2, NoneListed
  <1> HIDE DEF at2, rk2
  <1>6. Placed(at2, rk2)'
    BY <1>5 DEF Placed
  <1>7. Stands(at2, rk2)'
    BY <1>2, <1>3 DEF Stands, iteration
  <1> QED BY <1>2, <1>3, <1>4, <1>5, <1>6, <1>7, HoldsNext

\* A map begins empty, with a mask in range.
LEMMA InitInv ==
    ASSUME HashInit
    PROVE  HashInv
  <1> DEFINE at == [e \in Elem |-> Null]
             rk == [e \in Elem |-> 0]
  <1>1. /\ fast \in BOOLEAN /\ lists = NoElements /\ count = 0
        /\ it = [list |-> 0, ptr |-> Null] /\ owed = {} /\ seen = {}
    BY DEF HashInit
  <1>2. capacity \in Capacities
    <2>1. PICK n \in Sizes : capacity = InitSize(n)
      BY DEF HashInit
    <2>2. n \in Nat
      BY HashMapAssumption
    <2> QED BY <2>1, <2>2, InitSizeIs
  <1>3. Sound(fast, lists, at, rk, 0)
    BY <1>1, NoneSound
  <1>4. Placed(at, rk)
    BY NonePlaced
  <1>5. Counted(at)
    BY <1>1, NoneListed DEF Counted
  <1> HIDE DEF at, rk
  <1>6. Stands(at, rk)
    BY <1>1 DEF Stands
  <1>7. Holds(at, rk, 0)
    BY <1>1, <1>2, <1>3, <1>4, <1>5, <1>6 DEF Holds
  <1> QED BY <1>7 DEF HashInv

-----------------------------------------------------------------------------
(* The iterator. *)

\* Where FrontFrom leads: the foremost element of the lists from s on.
Foremost(i, s, at, rk) ==
    /\ i \in [list : Nat, ptr : Elem \cup {Null}]
    /\ IF i.ptr = Null THEN \A e \in Listed(at) : at[e] < s
       ELSE /\ i.ptr \in Listed(at) /\ at[i.ptr] = i.list /\ s <= i.list
            /\ \A e \in Listed(at) : s <= at[e] =>
                  i.list < at[e] \/ (at[e] = i.list /\ rk[e] <= rk[i.ptr])

\* The least of a set of naturals.
LEMMA MinIs ==
    ASSUME NEW S, S \subseteq Nat, S # {}
    PROVE  Min(S) \in S /\ \A x \in S : Min(S) <= x
  <1>1. PICK m \in S : \A x \in S : m <= x
    BY LeastElement
  <1> QED BY <1>1 DEF Min

\* FrontFrom leads to the foremost element of the lists from s on, or there is none.
LEMMA FrontFromIs ==
    ASSUME NEW at, NEW rk, NEW n, Holds(at, rk, n), NEW s \in Nat
    PROVE  Foremost(FrontFrom(s), s, at, rk)
  <1>1. /\ Strung(lists, at, rk, n) /\ capacity \in Nat /\ Used = 0..capacity /\ Used \subseteq Slot
        /\ at \in [Elem -> Slot \cup {Null}]
    BY HoldsFacts
  <1>2. /\ lists \in Lists /\ First(lists, at, rk) /\ \A e \in Listed(at) : at[e] \in Used
    BY <1>1 DEF Strung, Holds, Placed
  <1> DEFINE full == {t \in s..capacity : lists.first[t] # Null}
  <1>3. full \subseteq Nat /\ \A t \in full : t \in Used /\ t \in Slot /\ s <= t
    BY <1>1
  <1>4. \A e \in Listed(at) : e \in Elem /\ s <= at[e] => at[e] \in full
    <2> SUFFICES ASSUME NEW e \in Listed(at), s <= at[e] PROVE at[e] \in full
      BY DEF Listed
    <2>1. e \in Elem /\ at[e] \in Used /\ at[e] \in Slot
      BY <1>1, <1>2 DEF Listed
    <2>2. lists.first[at[e]] # Null
      BY <1>2, <2>1 DEF First
    <2> QED BY <1>1, <2>1, <2>2
  <1>5. CASE full = {}
    <2>1. FrontFrom(s) = [list |-> capacity + 1, ptr |-> Null]
      BY <1>5 DEF FrontFrom
    <2>2. \A e \in Listed(at) : at[e] < s
      <3> SUFFICES ASSUME NEW e \in Listed(at) PROVE at[e] < s
        OBVIOUS
      <3>1. e \in Elem /\ at[e] \in Nat
        BY <1>1, <1>2 DEF Listed
      <3>2. ~(s <= at[e])
        BY <1>4, <1>5, <3>1
      <3> QED BY <3>1, <3>2
    <2> QED BY <1>1, <2>1, <2>2 DEF Foremost
  <1>6. CASE full # {}
    <2> DEFINE m == Min(full)
               p == lists.first[m]
    <2>1. FrontFrom(s) = [list |-> m, ptr |-> p]
      BY <1>6 DEF FrontFrom
    <2>2. m \in full /\ \A t \in full : m <= t
      <3> HIDE DEF full
      <3> QED BY <1>3, <1>6, MinIs
    <2>3. m \in Slot /\ m \in Nat /\ s <= m /\ p # Null
      BY <1>3, <2>2
    <2>4. p \in Elem
      BY <1>2, <2>3, LinksType
    <2>5. at[p] = m /\ \A e \in Elem : at[e] = m => rk[e] <= rk[p]
      BY <1>2, <2>3 DEF First
    <2>6. p \in Listed(at)
      BY <2>3, <2>4, <2>5, CellIs DEF Listed
    <2> HIDE DEF m, p, full
    <2>7. \A e \in Listed(at) : s <= at[e] => m < at[e] \/ (at[e] = m /\ rk[e] <= rk[p])
      <3> SUFFICES ASSUME NEW e \in Listed(at), s <= at[e]
                   PROVE  m < at[e] \/ (at[e] = m /\ rk[e] <= rk[p])
        OBVIOUS
      <3>1. e \in Elem
        BY DEF Listed
      <3>2. at[e] \in full /\ at[e] \in Nat
        BY <1>3, <1>4, <3>1
      <3>3. m <= at[e]
        BY <2>2, <3>2
      <3> QED BY <2>3, <2>5, <3>1, <3>2, <3>3
    <2> QED BY <2>1, <2>3, <2>4, <2>5, <2>6, <2>7, CellIs DEF Foremost
  <1> QED BY <1>5, <1>6

\* The links stay, the iterator goes elsewhere.
LEMMA StandsNext ==
    ASSUME NEW at, NEW rk, NEW n, Holds(at, rk, n), Stands(at, rk)',
           UNCHANGED <<fast, lists, capacity, count, grown>>
    PROVE  HashInv'
  <1>1. /\ fast \in BOOLEAN /\ capacity \in Capacities /\ Sound(fast, lists, at, rk, n)
        /\ Placed(at, rk) /\ IsFiniteSet(Listed(at)) /\ count = Cardinality(Listed(at))
    BY DEF Holds, Counted
  <1>2. Placed(at, rk)'
    BY <1>1, PlacedSame
  <1> QED BY <1>1, <1>2, HoldsNext

\* begin keeps the invariant: all but the foremost element are yet to come.
LEMMA BeginInv ==
    ASSUME HashInv, Begin
    PROVE  HashInv'
  <1>1. PICK at, rk, n : Holds(at, rk, n)
    BY DEF HashInv
  <1>2. /\ it' = FrontFrom(0) /\ owed' = Elements \ {it'.ptr} /\ seen' = {it'.ptr} \ {Null}
        /\ UNCHANGED <<fast, lists, capacity, count, grown>>
    BY DEF Begin
  <1>3. Foremost(it', 0, at, rk)
    BY <1>1, <1>2, FrontFromIs
  <1>4. Elements = Listed(at) /\ rk \in [Elem -> Nat] /\ Used \subseteq Slot
        /\ at \in [Elem -> Slot \cup {Null}]
        /\ \A e, f \in Elem : at[e] = at[f] /\ at[e] # Null /\ rk[e] = rk[f] => e = f
    BY <1>1, HoldsFacts
  <1>5. \A e \in Listed(at) : e \in Elem /\ at[e] # Null /\ at[e] \in Nat
    BY <1>4, CellIs DEF Listed
  <1>6. Stands(at, rk)'
    <2>1. CASE it'.ptr = Null
      <3>1. \A e \in Listed(at) : at[e] < 0
        BY <1>3, <2>1 DEF Foremost
      <3>2. Listed(at) = {}
        BY <1>5, <3>1
      <3> QED BY <1>2, <1>3, <1>4, <2>1, <3>2 DEF Stands, Foremost
    <2>2. CASE it'.ptr # Null
      <3>1. /\ it' \in [list : Nat, ptr : Elem \cup {Null}]
            /\ it'.ptr \in Listed(at) /\ at[it'.ptr] = it'.list
            /\ \A e \in Listed(at) : 0 <= at[e] =>
                  it'.list < at[e] \/ (at[e] = it'.list /\ rk[e] <= rk[it'.ptr])
        BY <1>3, <2>2 DEF Foremost
      <3>2. \A e \in owed' : /\ e \in Listed(at)
                             /\ it'.list < at[e] \/ (at[e] = it'.list /\ rk[e] < rk[it'.ptr])
        <4> SUFFICES ASSUME NEW e \in Listed(at), e # it'.ptr
                     PROVE  it'.list < at[e] \/ (at[e] = it'.list /\ rk[e] < rk[it'.ptr])
          BY <1>2, <1>4
        <4>1. it'.list < at[e] \/ (at[e] = it'.list /\ rk[e] <= rk[it'.ptr])
          BY <1>5, <3>1
        <4>2. at[e] = it'.list => rk[e] # rk[it'.ptr]
          BY <1>4, <1>5, <3>1
        <4>3. rk[e] \in Nat /\ rk[it'.ptr] \in Nat
          BY <1>4, <1>5, <3>1
        <4> QED BY <4>1, <4>2, <4>3
      <3>3. \A e \in seen' : /\ e \in Listed(at)
                             /\ at[e] < it'.list \/ (at[e] = it'.list /\ rk[it'.ptr] <= rk[e])
        BY <1>2, <1>4, <1>5, <3>1
      <3> QED BY <2>2, <3>1, <3>2, <3>3 DEF Stands
    <2> QED BY <2>1, <2>2
  <1> QED BY <1>1, <1>2, <1>6, StandsNext

\* The iterator goes to the element next in order, if there is one.
LEMMA FollowingIs ==
    ASSUME NEW at, NEW rk, NEW n, Holds(at, rk, n), it.ptr # Null, NEW j, j = Following
    PROVE  /\ j \in [list : Nat, ptr : Elem \cup {Null}]
           /\ IF j.ptr = Null
              THEN \A e \in Listed(at) : at[e] < it.list \/ (at[e] = it.list /\ rk[it.ptr] <= rk[e])
              ELSE /\ j.ptr \in Listed(at) /\ at[j.ptr] = j.list
                   /\ it.list < j.list \/ (j.list = it.list /\ rk[j.ptr] < rk[it.ptr])
                   /\ \A e \in Listed(at) :
                         \/ at[e] < it.list \/ (at[e] = it.list /\ rk[it.ptr] <= rk[e])
                         \/ j.list < at[e] \/ (at[e] = j.list /\ rk[e] <= rk[j.ptr])
  <1>1. /\ Strung(lists, at, rk, n) /\ rk \in [Elem -> Nat] /\ at \in [Elem -> Slot \cup {Null}]
    BY HoldsFacts
  <1>2. /\ it \in [list : Nat, ptr : Elem \cup {Null}] /\ it.ptr \in Listed(at) /\ it.ptr \in Elem
        /\ at[it.ptr] = it.list /\ it.list \in Nat /\ it.list # Null
    BY DEF Holds, Stands, Listed
  <1>3. lists \in Lists /\ Behind(lists, at, rk)
    BY <1>1 DEF Strung
  <1>4. \A e \in Listed(at) : e \in Elem /\ at[e] # Null /\ at[e] \in Nat /\ rk[e] \in Nat
    BY <1>1, CellIs DEF Listed
  <1> DEFINE q == lists.next[it.ptr]
  <1>5. q \in Elem \cup {Null}
    BY <1>2, <1>3, LinksType
  <1>6. CASE q # Null
    <2>1. j = [it EXCEPT !.ptr = q]
      BY <1>6 DEF Following
    <2>2. j \in [list : Nat, ptr : Elem \cup {Null}] /\ j.ptr = q /\ j.list = it.list
      BY <1>2, <1>5, <2>1
    <2>3. /\ at[q] = at[it.ptr] /\ rk[q] < rk[it.ptr]
          /\ \A f \in Elem : at[f] = at[it.ptr] /\ rk[f] < rk[it.ptr] => rk[f] <= rk[q]
      BY <1>2, <1>3, <1>6 DEF Behind
    <2>4. q \in Listed(at)
      BY <1>2, <1>5, <1>6, <2>3 DEF Listed
    <2> HIDE DEF q
    <2>5. \A e \in Listed(at) :
             \/ at[e] < it.list \/ (at[e] = it.list /\ rk[it.ptr] <= rk[e])
             \/ it.list < at[e] \/ (at[e] = it.list /\ rk[e] <= rk[q])
      BY <1>2, <1>4, <2>3
    <2> QED BY <1>2, <1>6, <2>2, <2>3, <2>4, <2>5
  <1>7. CASE q = Null
    <2>1. j = FrontFrom(it.list + 1)
      BY <1>7 DEF Following
    <2>2. Foremost(j, it.list + 1, at, rk)
      BY <1>2, <2>1, FrontFromIs
    <2>3. \A f \in Elem : at[f] = at[it.ptr] => rk[it.ptr] <= rk[f]
      BY <1>2, <1>3, <1>7 DEF Behind
    <2> HIDE DEF q
    <2>4. \A e \in Listed(at) : at[e] < it.list + 1 =>
             at[e] < it.list \/ (at[e] = it.list /\ rk[it.ptr] <= rk[e])
      BY <1>2, <1>4, <2>3
    <2>5. CASE j.ptr = Null
      BY <2>2, <2>4, <2>5 DEF Foremost
    <2>6. CASE j.ptr # Null
      <3>1. /\ j \in [list : Nat, ptr : Elem \cup {Null}]
            /\ j.ptr \in Listed(at) /\ at[j.ptr] = j.list /\ it.list + 1 <= j.list
            /\ \A e \in Listed(at) : it.list + 1 <= at[e] =>
                  j.list < at[e] \/ (at[e] = j.list /\ rk[e] <= rk[j.ptr])
        BY <2>2, <2>6 DEF Foremost
      <3>2. \A e \in Listed(at) : at[e] < it.list + 1 \/ it.list + 1 <= at[e]
        BY <1>2, <1>4
      <3>3. it.list < j.list
        BY <1>2, <3>1
      <3> QED BY <2>4, <2>6, <3>1, <3>2, <3>3
    <2> QED BY <2>5, <2>6
  <1> QED BY <1>6, <1>7

\* ++ keeps it, comes to nothing a second time, and ends when nothing is owed.
LEMMA AdvanceInv ==
    ASSUME HashInv, Advance
    PROVE  HashInv' /\ it'.ptr \notin seen /\ (it'.ptr = Null => owed = {})
  <1>1. PICK at, rk, n : Holds(at, rk, n)
    BY DEF HashInv
  <1>2. /\ it.ptr # Null /\ it' = Following
        /\ owed' = owed \ {it'.ptr} /\ seen' = IF it'.ptr = Null THEN {} ELSE seen \cup {it'.ptr}
        /\ UNCHANGED <<fast, lists, capacity, count, grown>>
    BY DEF Advance, AtEnd
  <1> DEFINE Gone(e) == at[e] < it.list \/ (at[e] = it.list /\ rk[it.ptr] <= rk[e])
             Later(e) == it.list < at[e] \/ (at[e] = it.list /\ rk[e] < rk[it.ptr])
  <1>3. /\ it \in [list : Nat, ptr : Elem \cup {Null}] /\ it.ptr \in Listed(at)
        /\ at[it.ptr] = it.list
        /\ \A e \in owed : e \in Listed(at) /\ Later(e)
        /\ \A e \in seen : e \in Listed(at) /\ Gone(e)
    BY <1>1, <1>2 DEF Holds, Stands
  <1>4. rk \in [Elem -> Nat] /\ at \in [Elem -> Slot \cup {Null}]
        /\ \A e, f \in Elem : at[e] = at[f] /\ at[e] # Null /\ rk[e] = rk[f] => e = f
    BY <1>1, HoldsFacts
  <1>5. \A e \in Listed(at) : e \in Elem /\ at[e] # Null /\ at[e] \in Nat /\ rk[e] \in Nat
    BY <1>4, CellIs DEF Listed
  <1>6. it.list \in Nat /\ rk[it.ptr] \in Nat
    BY <1>3, <1>5
  <1>7. \A e \in Listed(at) : ~(Gone(e) /\ Later(e))
    BY <1>5, <1>6
  <1>8. it' \in [list : Nat, ptr : Elem \cup {Null}]
    BY <1>1, <1>2, FollowingIs
  <1>9. CASE it'.ptr = Null
    <2>1. \A e \in Listed(at) : Gone(e)
      BY <1>1, <1>2, <1>9, FollowingIs
    <2>2. owed = {}
      BY <1>3, <1>7, <2>1
    <2>3. Null \notin seen
      BY <1>3, <1>5, CellIs
    <2>4. Stands(at, rk)'
      BY <1>2, <1>8, <1>9, <2>2 DEF Stands
    <2> QED BY <1>1, <1>2, <1>9, <2>2, <2>3, <2>4, StandsNext
  <1>10. CASE it'.ptr # Null
    <2>1. /\ it'.ptr \in Listed(at) /\ at[it'.ptr] = it'.list
          /\ it.list < it'.list \/ (it'.list = it.list /\ rk[it'.ptr] < rk[it.ptr])
          /\ \A e \in Listed(at) :
                Gone(e) \/ it'.list < at[e] \/ (at[e] = it'.list /\ rk[e] <= rk[it'.ptr])
      BY <1>1, <1>2, <1>10, FollowingIs
    <2>2. it'.ptr \notin seen
      BY <1>3, <1>5, <1>6, <2>1
    <2>3. ASSUME NEW e \in owed'
          PROVE  e \in Listed(at) /\ (it'.list < at[e] \/ (at[e] = it'.list /\ rk[e] < rk[it'.ptr]))
      <3>1. e \in Listed(at) /\ e # it'.ptr /\ ~Gone(e)
        BY <1>2, <1>3, <1>7, <2>3
      <3>2. it'.list < at[e] \/ (at[e] = it'.list /\ rk[e] <= rk[it'.ptr])
        BY <2>1, <3>1
      <3>3. at[e] = it'.list => rk[e] # rk[it'.ptr]
        BY <1>4, <1>5, <2>1, <3>1
      <3> QED BY <1>5, <2>1, <3>1, <3>2, <3>3
    <2>4. ASSUME NEW e \in seen'
          PROVE  e \in Listed(at) /\ (at[e] < it'.list \/ (at[e] = it'.list /\ rk[it'.ptr] <= rk[e]))
      <3>1. CASE e = it'.ptr
        BY <1>5, <2>1, <3>1
      <3>2. CASE e # it'.ptr
        <4>1. e \in seen
          BY <1>2, <1>10, <2>4, <3>2
        <4>2. e \in Listed(at) /\ Gone(e)
          BY <1>3, <4>1
        <4>3. /\ at[e] \in Nat /\ rk[e] \in Nat /\ it.list \in Nat /\ rk[it.ptr] \in Nat
              /\ it'.list \in Nat /\ rk[it'.ptr] \in Nat
          BY <1>5, <1>6, <2>1, <4>2
        <4> QED BY <2>1, <4>2, <4>3
      <3> QED BY <3>1, <3>2
    <2>5. Stands(at, rk)'
      BY <1>8, <1>10, <2>1, <2>3, <2>4 DEF Stands
    <2> QED BY <1>1, <1>2, <1>10, <2>2, <2>5, StandsNext
  <1> QED BY <1>9, <1>10

-----------------------------------------------------------------------------
(* expand. *)

\* The recursion of FlattenSeq.
FlatOf(c) == CHOOSE flatten : flatten =
    [i \in 1..Len(c) |-> IF i = 1 THEN c[i] ELSE flatten[i - 1] \o c[i]]

\* FlattenSeq is that recursion at the last index.
LEMMA FlattenSeqIs ==
    ASSUME NEW c, Len(c) # 0
    PROVE  FlattenSeq(c) = FlatOf(c)[Len(c)]
  BY Zenon DEF FlattenSeq, FlatOf

\* The recursion has a solution.
LEMMA FlatIs ==
    ASSUME NEW S, NEW c, NEW N \in Nat, Len(c) = N, \A i \in 1..N : c[i] \in Seq(S)
    PROVE  \A i \in 1..N : FlatOf(c)[i] = IF i = 1 THEN c[i] ELSE FlatOf(c)[i - 1] \o c[i]
  <1> DEFINE D == 1..N
             V == Seq(S)
             G == [w \in D \X V |-> w[2] \o c[w[1]]]
             d == [i \in D |-> i - 1]
             R == [i \in D |-> c[i]]
             m == [i \in D |-> i]
             stop == {1}
  <1>1. Falls(D, V, G, d, R, stop, m, N)
    <2>1. \A i \in D : m[i] \in 0..N /\ R[i] \in V
      OBVIOUS
    <2>2. ASSUME NEW i \in D, NEW v \in V PROVE G[<<i, v>>] \in V
      <3>1. G[<<i, v>>] = v \o c[i]
        OBVIOUS
      <3>2. v \in Seq(S) /\ c[i] \in Seq(S)
        OBVIOUS
      <3>3. v \o c[i] \in Seq(S)
        BY <3>2
      <3> QED BY <3>1, <3>3
    <2>3. \A i \in D : i \in stop \/ (d[i] \in D /\ m[d[i]] < m[i])
      OBVIOUS
    <2>4. \A i \in D, v \in V : G[<<i, v>>] \in V
      BY <2>2
    <2> HIDE DEF D, V, G, d, R, stop, m
    <2> QED BY <2>1, <2>3, <2>4 DEF Falls
  <1>2. PICK f : Solves(f, D, V, G, d, R, stop)
    <2> HIDE DEF D, V, G, d, R, stop, m
    <2> QED BY <1>1, RecursionExists
  <1>3. f = [i \in 1..Len(c) |-> IF i = 1 THEN c[i] ELSE f[i - 1] \o c[i]]
    <2>1. f \in [D -> V] /\ \A i \in D : f[i] = IF i \in stop THEN R[i] ELSE G[<<i, f[d[i]]>>]
      BY <1>2, Zenon DEF Solves
    <2>2. ASSUME NEW i \in D PROVE f[i] = IF i = 1 THEN c[i] ELSE f[i - 1] \o c[i]
      <3>1. CASE i = 1
        <4>1. f[i] = R[i]
          BY <2>1, <3>1
        <4> QED BY <3>1, <4>1
      <3>2. CASE i # 1
        <4>1. d[i] = i - 1 /\ i - 1 \in D
          BY <3>2
        <4>2. f[i] = G[<<i, f[i - 1]>>]
          BY <2>1, <3>2, <4>1
        <4>3. f[i - 1] \in V
          BY <2>1, <4>1
        <4>4. G[<<i, f[i - 1]>>] = f[i - 1] \o c[i]
          BY <4>3
        <4> QED BY <3>2, <4>2, <4>4
      <3> QED BY <3>1, <3>2
    <2>3. \A i \in D : f[i] = IF i = 1 THEN c[i] ELSE f[i - 1] \o c[i]
      BY <2>2
    <2>4. f = [i \in D |-> f[i]] /\ D = 1..Len(c)
      BY <2>1
    <2> HIDE DEF V, G, d, R, stop, m
    <2> QED BY <2>3, <2>4, Zenon
  <1>4. FlatOf(c) = [i \in 1..Len(c) |-> IF i = 1 THEN c[i] ELSE FlatOf(c)[i - 1] \o c[i]]
    BY <1>3, Zenon DEF FlatOf
  <1> HIDE DEF D, V, G, d, R, stop, m
  <1>5. ASSUME NEW i \in 1..N
        PROVE  FlatOf(c)[i] = IF i = 1 THEN c[i] ELSE FlatOf(c)[i - 1] \o c[i]
    <2> DEFINE g == FlatOf(c)
    <2>1. g = [j \in 1..N |-> IF j = 1 THEN c[j] ELSE g[j - 1] \o c[j]]
      BY <1>4
    <2> HIDE DEF g
    <2>2. g[i] = IF i = 1 THEN c[i] ELSE g[i - 1] \o c[i]
      BY <2>1
    <2> QED BY <2>2 DEF g
  <1> QED BY <1>5

\* c is the elements of the lists below s, each once.
Gathered(c, s, at) ==
    /\ c \in Seq(Elem) /\ Len(c) \in Nat
    /\ \A i \in 1..Len(c) : at[c[i]] \in 0..(s - 1)
    /\ \A x \in Listed(at) : at[x] < s => \E i \in 1..Len(c) : c[i] = x
    /\ \A i, j \in 1..Len(c) : i < j => c[i] # c[j]

\* One more list is gathered.
LEMMA GatheredNext ==
    ASSUME NEW at, NEW rk, NEW n, NEW l, Strung(l, at, rk, n), NEW c, NEW s \in Nat, s \in Slot,
           Gathered(c, s, at), NEW h, Follows(h, l, s, at, rk)
    PROVE  Gathered(c \o h, s + 1, at)
  <1>1. /\ at \in [Elem -> Slot \cup {Null}] /\ rk \in [Elem -> Nat]
    BY DEF Strung, Ranks
  <1>2. /\ c \in Seq(Elem) /\ h \in Seq(Elem) /\ Len(c) \in Nat /\ Len(h) \in Nat
        /\ \A i \in 1..Len(c) : c[i] \in Elem
        /\ \A i \in 1..Len(h) : h[i] \in Elem
        /\ \A i \in 1..Len(c) : at[c[i]] \in 0..(s - 1)
        /\ \A x \in Listed(at) : at[x] < s => \E i \in 1..Len(c) : c[i] = x
        /\ \A i, j \in 1..Len(c) : i < j => c[i] # c[j]
        /\ \A i \in 1..Len(h) : at[h[i]] = s
        /\ \A x \in Elem : at[x] = s => \E i \in 1..Len(h) : h[i] = x
        /\ \A i, j \in 1..Len(h) : i < j => rk[h[j]] < rk[h[i]]
    BY DEF Gathered, Follows
  <1> DEFINE u == c \o h
             p == Len(c)
             q == Len(h)
  <1>3. /\ u \in Seq(Elem) /\ Len(u) = p + q /\ Len(u) \in Nat
        /\ \A i \in 1..p : u[i] = c[i]
        /\ \A i \in (p + 1)..(p + q) : u[i] = h[i - p]
    <2>1. u \in Seq(Elem) /\ Len(u) = p + q
      BY <1>2
    <2>2. \A i \in 1..(p + q) : u[i] = IF i <= p THEN c[i] ELSE h[i - p]
      BY <1>2
    <2> HIDE DEF u
    <2> QED BY <1>2, <2>1, <2>2
  <1> HIDE DEF u
  <1>4. ASSUME NEW i \in 1..Len(u)
        PROVE  (i \in 1..p /\ u[i] = c[i]) \/ (i - p \in 1..q /\ i > p /\ u[i] = h[i - p])
    BY <1>2, <1>3
  <1> HIDE DEF p, q
  <1>5. p \in Nat /\ q \in Nat /\ p = Len(c) /\ q = Len(h)
    BY <1>2 DEF p, q
  <1>6. \A i \in 1..Len(u) : at[u[i]] \in 0..((s + 1) - 1)
    <2> TAKE i \in 1..Len(u)
    <2>1. CASE i \in 1..p /\ u[i] = c[i]
      BY <1>2, <1>5, <2>1
    <2>2. CASE i - p \in 1..q /\ u[i] = h[i - p]
      <3>1. PICK a \in 1..Len(h) : a = i - p
        BY <1>5, <2>2
      <3>2. at[u[i]] = s
        BY <1>2, <2>2, <3>1
      <3> QED BY <3>2
    <2> QED BY <1>4, <2>1, <2>2
  <1>7. \A x \in Listed(at) : at[x] < s + 1 => \E i \in 1..Len(u) : u[i] = x
    <2> TAKE x \in Listed(at)
    <2> HAVE at[x] < s + 1
    <2>1. x \in Elem /\ at[x] \in Nat
      BY <1>1, CellIs DEF Listed
    <2>2. CASE at[x] < s
      <3>1. PICK i \in 1..p : c[i] = x
        BY <1>2, <1>5, <2>2
      <3> QED BY <1>3, <1>5, <3>1
    <2>3. CASE at[x] = s
      <3>1. PICK i \in 1..q : h[i] = x
        BY <1>2, <1>5, <2>1, <2>3
      <3>2. p + i \in 1..Len(u) /\ p + i \in (p + 1)..(p + q) /\ (p + i) - p = i
        BY <1>3, <1>5
      <3> QED BY <1>3, <3>1, <3>2
    <2> QED BY <2>1, <2>2, <2>3
  <1>8. \A i, j \in 1..Len(u) : i < j => u[i] # u[j]
    <2> TAKE i \in 1..Len(u), j \in 1..Len(u)
    <2> HAVE i < j
    <2>1. CASE i \in 1..p /\ u[i] = c[i] /\ j \in 1..p /\ u[j] = c[j]
      BY <1>2, <1>5, <2>1
    <2>2. CASE i - p \in 1..q /\ u[i] = h[i - p] /\ j - p \in 1..q /\ u[j] = h[j - p]
      <3> DEFINE a == i - p
                 b == j - p
      <3>1. a \in 1..Len(h) /\ b \in 1..Len(h) /\ a < b
        BY <1>5, <2>2
      <3> HIDE DEF a, b
      <3>2. rk[h[b]] < rk[h[a]] /\ h[a] \in Elem /\ h[b] \in Elem
        BY <1>2, <3>1
      <3>3. rk[h[a]] \in Nat /\ rk[h[b]] \in Nat
        BY <1>1, <3>2
      <3>4. h[a] # h[b]
        BY <3>2, <3>3
      <3> QED BY <2>2, <3>4 DEF a, b
    <2>3. CASE i \in 1..p /\ u[i] = c[i] /\ j - p \in 1..q /\ u[j] = h[j - p]
      <3> DEFINE b == j - p
      <3>1. b \in 1..Len(h) /\ i \in 1..Len(c)
        BY <1>5, <2>3
      <3> HIDE DEF b
      <3>2. at[c[i]] \in 0..(s - 1) /\ at[h[b]] = s
        BY <1>2, <3>1
      <3>3. c[i] # h[b]
        BY <3>2
      <3> QED BY <2>3, <3>3 DEF b
    <2>4. CASE i - p \in 1..q /\ i > p /\ j \in 1..p
      BY <1>5, <2>4
    <2> QED BY <1>4, <2>1, <2>2, <2>3, <2>4
  <1> QED BY <1>3, <1>6, <1>7, <1>8 DEF Gathered, u

\* What expand goes through.
Everything == FlattenSeq([i \in 1..(capacity + 1) |-> Chain(lists, i - 1)])

\* expand goes through every element once.
LEMMA EverythingIs ==
    ASSUME NEW at, NEW rk, NEW n, Holds(at, rk, n)
    PROVE  Gathered(Everything, capacity + 1, at)
  <1>1. /\ Strung(lists, at, rk, n) /\ capacity \in Nat /\ Used = 0..capacity /\ Used \subseteq Slot
    BY HoldsFacts
  <1> DEFINE N == capacity + 1
             c == [i \in 1..N |-> Chain(lists, i - 1)]
  <1>2. N \in Nat /\ N # 0 /\ capacity = N - 1
    BY <1>1
  <1> HIDE DEF N
  <1>3. ASSUME NEW i \in 1..N
        PROVE  i - 1 \in Slot /\ i - 1 \in Nat /\ Follows(c[i], lists, i - 1, at, rk) /\ c[i] \in Seq(Elem)
    <2>1. i - 1 \in Slot /\ i - 1 \in Nat
      BY <1>1, <1>2
    <2>2. c[i] = Chain(lists, i - 1)
      OBVIOUS
    <2>3. Follows(Chain(lists, i - 1), lists, i - 1, at, rk)
      BY <1>1, <2>1, ChainIs
    <2> HIDE DEF c
    <2> QED BY <2>1, <2>2, <2>3 DEF Follows
  <1>4. Len(c) = N
    BY <1>2
  <1>5. Everything = FlatOf(c)[N]
    BY <1>2, <1>4, FlattenSeqIs DEF Everything, N
  <1> HIDE DEF c
  <1>6. \A i \in 1..N : FlatOf(c)[i] = IF i = 1 THEN c[i] ELSE FlatOf(c)[i - 1] \o c[i]
    BY <1>2, <1>3, <1>4, FlatIs
  <1>7. Gathered(<<>>, 0, at)
    <2>1. \A x \in Listed(at) : at[x] \in Nat
      BY <1>1, CellIs DEF Listed, Strung, Ranks
    <2>2. <<>> \in Seq(Elem) /\ Len(<<>>) = 0
      OBVIOUS
    <2> QED BY <2>1, <2>2 DEF Gathered
  <1> DEFINE T == {i \in Nat : Gathered(FlatOf(c)[i], i, at)}
  <1>8. 1 \in T
    <2>1. FlatOf(c)[1] = c[1] /\ 1 \in 1..N
      BY <1>2, <1>6
    <2>2. Follows(c[1], lists, 0, at, rk) /\ 0 \in Slot /\ c[1] \in Seq(Elem)
      BY <1>3, <2>1
    <2>3. Gathered(<<>> \o c[1], 0 + 1, at)
      BY <1>1, <1>7, <2>2, GatheredNext
    <2>4. <<>> \o c[1] = c[1]
      BY <2>2
    <2> QED BY <2>1, <2>3, <2>4
  <1>9. ASSUME NEW i \in 1..(N - 1), i \in T PROVE i + 1 \in T
    <2>1. i \in Nat /\ i + 1 \in 1..N /\ (i + 1) - 1 = i /\ i + 1 # 1
      BY <1>2
    <2>2. FlatOf(c)[i + 1] = FlatOf(c)[i] \o c[i + 1]
      BY <1>6, <2>1
    <2>3. Follows(c[i + 1], lists, i, at, rk) /\ i \in Slot
      BY <1>3, <2>1
    <2>4. Gathered(FlatOf(c)[i] \o c[i + 1], i + 1, at)
      BY <1>1, <1>9, <2>1, <2>3, GatheredNext
    <2>5. Gathered(FlatOf(c)[i + 1], i + 1, at)
      BY <2>2, <2>4, Zenon
    <2> QED BY <2>1, <2>5
  <1>10. \A i \in 1..N : i \in T
    <2> HIDE DEF T
    <2> QED BY <1>2, <1>8, <1>9, IntervalInduction
  <1>11. N \in T
    <2> HIDE DEF T
    <2> QED BY <1>2, <1>10
  <1> QED BY <1>5, <1>11 DEF N

\* The recursion of Expand.
MovedOf(all) == CHOOSE moved : moved =
    [n \in 0..Len(all) |->
        IF n = 0 THEN NoElements
        ELSE Pushed(moved[n - 1], Masked(KeyOf[all[n]], capacity), all[n])]

\* Pushing makes links of links.
LEMMA PushedType ==
    ASSUME NEW l \in Lists, NEW s \in Slot, NEW e \in Elem
    PROVE  Pushed(l, s, e) \in Lists
  BY ListPushIs, SlistPushIs DEF Pushed, Put

\* The recursion has a solution.
LEMMA MovedIs ==
    ASSUME NEW all \in Seq(Elem), NEW N \in Nat, Len(all) = N,
           \A e \in Elem : Masked(KeyOf[e], capacity) \in Slot
    PROVE  /\ MovedOf(all)[0] = NoElements
           /\ \A n \in 1..N :
                 MovedOf(all)[n] = Pushed(MovedOf(all)[n - 1], Masked(KeyOf[all[n]], capacity), all[n])
  <1> DEFINE D == 0..N
             V == Lists
             at(n) == Masked(KeyOf[all[n]], capacity)
             G == [w \in D \X V |-> IF w[1] = 0 THEN NoElements ELSE Pushed(w[2], at(w[1]), all[w[1]])]
             d == [n \in D |-> n - 1]
             R == [n \in D |-> NoElements]
             m == [n \in D |-> n]
             stop == {0}
  <1>0. NoElements \in Lists
    BY DEF NoElements, Lists
  <1>1. Falls(D, V, G, d, R, stop, m, N)
    <2>1. \A n \in D : m[n] \in 0..N /\ R[n] \in V
      BY <1>0
    <2>2. ASSUME NEW n \in D, NEW v \in V PROVE G[<<n, v>>] \in V
      <3>1. G[<<n, v>>] = IF n = 0 THEN NoElements ELSE Pushed(v, at(n), all[n])
        OBVIOUS
      <3>2. CASE n = 0
        BY <1>0, <3>1, <3>2
      <3>3. CASE n # 0
        <4>1. all[n] \in Elem
          BY <3>3
        <4>2. Pushed(v, at(n), all[n]) \in Lists
          BY <4>1, PushedType
        <4> QED BY <3>1, <3>3, <4>2
      <3> QED BY <3>2, <3>3
    <2>3. \A n \in D : n \in stop \/ (d[n] \in D /\ m[d[n]] < m[n])
      OBVIOUS
    <2>4. \A n \in D, v \in V : G[<<n, v>>] \in V
      BY <2>2
    <2> HIDE DEF D, V, G, d, R, stop, m
    <2> QED BY <2>1, <2>3, <2>4 DEF Falls
  <1>2. PICK f : Solves(f, D, V, G, d, R, stop)
    <2> HIDE DEF D, V, G, d, R, stop, m
    <2> QED BY <1>1, RecursionExists
  <1>3. f = [n \in 0..Len(all) |->
                IF n = 0 THEN NoElements ELSE Pushed(f[n - 1], Masked(KeyOf[all[n]], capacity), all[n])]
    <2>1. f \in [D -> V] /\ \A n \in D : f[n] = IF n \in stop THEN R[n] ELSE G[<<n, f[d[n]]>>]
      BY <1>2, Zenon DEF Solves
    <2>2. ASSUME NEW n \in D PROVE f[n] = IF n = 0 THEN NoElements ELSE Pushed(f[n - 1], at(n), all[n])
      <3>1. CASE n = 0
        <4>1. f[n] = R[n]
          BY <2>1, <3>1
        <4> QED BY <3>1, <4>1
      <3>2. CASE n # 0
        <4>1. d[n] = n - 1 /\ n - 1 \in D
          BY <3>2
        <4>2. f[n] = G[<<n, f[n - 1]>>]
          BY <2>1, <3>2, <4>1
        <4>3. f[n - 1] \in V
          BY <2>1, <4>1
        <4>4. G[<<n, f[n - 1]>>] = Pushed(f[n - 1], at(n), all[n])
          BY <3>2, <4>3
        <4> QED BY <3>2, <4>2, <4>4
      <3> QED BY <3>1, <3>2
    <2>3. \A n \in D : f[n] = IF n = 0 THEN NoElements ELSE Pushed(f[n - 1], at(n), all[n])
      BY <2>2
    <2>4. f = [n \in D |-> f[n]] /\ D = 0..Len(all)
      BY <2>1
    <2> HIDE DEF V, G, d, R, stop, m
    <2> QED BY <2>3, <2>4, Zenon
  <1> DEFINE g == MovedOf(all)
  <1>4. g = [n \in 0..Len(all) |->
                IF n = 0 THEN NoElements ELSE Pushed(g[n - 1], Masked(KeyOf[all[n]], capacity), all[n])]
    BY <1>3, Zenon DEF MovedOf
  <1> HIDE DEF D, V, G, d, R, stop, m, g, at
  <1>5. \A n \in 0..N :
           g[n] = IF n = 0 THEN NoElements ELSE Pushed(g[n - 1], Masked(KeyOf[all[n]], capacity), all[n])
    <2>1. g = [n \in 0..N |->
                IF n = 0 THEN NoElements ELSE Pushed(g[n - 1], Masked(KeyOf[all[n]], capacity), all[n])]
      BY <1>4
    <2> QED BY <2>1
  <1>6. g[0] = NoElements
    BY <1>5
  <1>7. \A n \in 1..N : g[n] = Pushed(g[n - 1], Masked(KeyOf[all[n]], capacity), all[n])
    BY <1>5
  <1> QED BY <1>6, <1>7 DEF g

\* Where the first n of all are once moved.
PlaceOf(all, n) ==
    [x \in Elem |-> IF \E j \in 1..n : all[j] = x THEN Masked(KeyOf[x], capacity) ELSE Null]

\* Moved one by one to an empty array, elements are where the old mask puts them.
LEMMA MovedSound ==
    ASSUME NEW all \in Seq(Elem), NEW N \in Nat, Len(all) = N, fast \in BOOLEAN,
           \A i, j \in 1..N : i < j => all[i] # all[j],
           \A e \in Elem : Masked(KeyOf[e], capacity) \in Slot
    PROVE  \E rk : Sound(fast, MovedOf(all)[N], PlaceOf(all, N), rk, N)
  <1> DEFINE g == MovedOf(all)
             T == {n \in Nat : \E rk : Sound(fast, g[n], PlaceOf(all, n), rk, n)}
  <1>1. /\ g[0] = NoElements
        /\ \A n \in 1..N : g[n] = Pushed(g[n - 1], Masked(KeyOf[all[n]], capacity), all[n])
    BY MovedIs
  <1> HIDE DEF g
  <1>2. 0 \in T
    <2>1. PlaceOf(all, 0) = [x \in Elem |-> Null]
      BY DEF PlaceOf
    <2>2. Sound(fast, g[0], PlaceOf(all, 0), [x \in Elem |-> 0], 0)
      BY <1>1, <2>1, NoneSound
    <2> QED BY <2>2
  <1>3. ASSUME NEW n \in 0..(N - 1), n \in T PROVE n + 1 \in T
    <2>1. PICK rk : Sound(fast, g[n], PlaceOf(all, n), rk, n)
      BY <1>3
    <2>2. n \in Nat /\ n + 1 \in 1..N /\ (n + 1) - 1 = n
      OBVIOUS
    <2>3. PICK e \in Elem : e = all[n + 1]
      BY <2>2
    <2>4. PICK s \in Slot : s = Masked(KeyOf[e], capacity)
      OBVIOUS
    <2>5. g[n + 1] = Pushed(g[n], s, e)
      BY <1>1, <2>2, <2>3, <2>4
    <2>6. ~\E j \in 1..n : all[j] = e
      BY <2>2, <2>3
    <2>7. PlaceOf(all, n)[e] = Null
      BY <2>6 DEF PlaceOf
    <2>8. PlaceOf(all, n + 1) = [PlaceOf(all, n) EXCEPT ![e] = s]
      <3>1. ASSUME NEW x \in Elem
            PROVE  PlaceOf(all, n + 1)[x] = [PlaceOf(all, n) EXCEPT ![e] = s][x]
        <4>1. PlaceOf(all, n + 1)[x] =
                 IF \E j \in 1..(n + 1) : all[j] = x THEN Masked(KeyOf[x], capacity) ELSE Null
          BY DEF PlaceOf
        <4>2. PlaceOf(all, n)[x] =
                 IF \E j \in 1..n : all[j] = x THEN Masked(KeyOf[x], capacity) ELSE Null
          BY DEF PlaceOf
        <4>3. [PlaceOf(all, n) EXCEPT ![e] = s][x] = IF x = e THEN s ELSE PlaceOf(all, n)[x]
          BY DEF PlaceOf
        <4>4. (\E j \in 1..(n + 1) : all[j] = x) <=> (x = e \/ \E j \in 1..n : all[j] = x)
          <5>1. ASSUME NEW j \in 1..(n + 1), all[j] = x PROVE x = e \/ \E i \in 1..n : all[i] = x
            <6>1. j = n + 1 \/ j \in 1..n
              BY <2>2
            <6> QED BY <2>3, <5>1, <6>1
          <5>2. x = e => \E j \in 1..(n + 1) : all[j] = x
            BY <2>2, <2>3
          <5>3. ASSUME NEW j \in 1..n, all[j] = x PROVE \E i \in 1..(n + 1) : all[i] = x
            <6>1. j \in 1..(n + 1)
              BY <2>2
            <6> QED BY <5>3, <6>1
          <5> QED BY <5>1, <5>2, <5>3
        <4> QED BY <2>4, <4>1, <4>2, <4>3, <4>4
      <3>2. DOMAIN PlaceOf(all, n + 1) = Elem /\ DOMAIN PlaceOf(all, n) = Elem
            /\ PlaceOf(all, n + 1) = [x \in Elem |-> PlaceOf(all, n + 1)[x]]
            /\ [PlaceOf(all, n) EXCEPT ![e] = s] = [x \in Elem |-> [PlaceOf(all, n) EXCEPT ![e] = s][x]]
        BY DEF PlaceOf
      <3> QED BY <3>1, <3>2
    <2> DEFINE p == PlaceOf(all, n)
    <2>9. Sound(fast, g[n], p, rk, n) /\ p[e] = Null
      BY <2>1, <2>7
    <2> HIDE DEF p
    <2>10. Sound(fast, Pushed(g[n], s, e), [p EXCEPT ![e] = s], [rk EXCEPT ![e] = n + 1], n + 1)
      BY <2>9, PushSound
    <2>11. Sound(fast, g[n + 1], PlaceOf(all, n + 1), [rk EXCEPT ![e] = n + 1], n + 1)
      BY <2>5, <2>8, <2>10 DEF p
    <2> QED BY <2>2, <2>11
  <1>4. \A n \in 0..N : n \in T
    <2> HIDE DEF T
    <2> QED BY <1>2, <1>3, IntervalInduction
  <1>5. N \in T
    <2> HIDE DEF T
    <2> QED BY <1>4
  <1> QED BY <1>5 DEF g

\* Expand, by the names above.
LEMMA ExpandIs ==
    ASSUME Expand
    PROVE  IF 2 * capacity + 1 >= Power[MaxOrder] THEN UNCHANGED hashVars
           ELSE /\ lists' = MovedOf(Everything)[Len(Everything)]
                /\ capacity' = 2 * capacity + 1
                /\ grown' = Range(Everything)
                /\ UNCHANGED <<fast, count, iteration>>
  BY Zenon DEF Expand, MovedOf, Everything

\* A step that does nothing.
LEMMA SameInv ==
    ASSUME HashInv, UNCHANGED hashVars
    PROVE  HashInv'
  <1>1. PICK at, rk, n : Holds(at, rk, n)
    BY DEF HashInv
  <1>2. Holds(at, rk, n)'
    BY <1>1 DEF Holds, hashVars, iteration, Placed, Counted, Stands, Used, SlotFor, Masked
  <1> QED BY <1>2 DEF HashInv

\* expand keeps the invariant: all elements have grown, and are placed by the mask
\* that is half of the new one.
LEMMA ExpandInv ==
    ASSUME HashInv, AtEnd, Expand
    PROVE  HashInv'
  <1>1. PICK at, rk, n : Holds(at, rk, n)
    BY DEF HashInv
  <1>2. CASE 2 * capacity + 1 >= Power[MaxOrder]
    <2>1. UNCHANGED hashVars
      BY <1>2, ExpandIs
    <2> QED BY <2>1, SameInv
  <1>3. CASE ~(2 * capacity + 1 >= Power[MaxOrder])
    <2> DEFINE all == Everything
               N == Len(all)
               c == capacity
    <2>1. /\ lists' = MovedOf(all)[N] /\ capacity' = 2 * c + 1 /\ grown' = Range(all)
          /\ fast' = fast /\ count' = count /\ UNCHANGED iteration
      BY <1>3, ExpandIs
    <2>2. /\ fast \in BOOLEAN /\ c \in Capacities /\ Placed(at, rk) /\ Stands(at, rk)
          /\ IsFiniteSet(Listed(at)) /\ count = Cardinality(Listed(at))
      BY <1>1 DEF Holds, Counted
    <2>3. /\ c \in Nat /\ 0..c \subseteq Slot /\ \A e \in Elem : Masked(KeyOf[e], c) \in 0..c
      BY <2>2, CapacityIs
    <2>4. \A e \in Elem : Masked(KeyOf[e], c) \in Slot /\ Masked(KeyOf[e], c) # Null
      BY <2>3, CellIs
    <2>5. Gathered(all, c + 1, at)
      BY <1>1, EverythingIs
    <2>6. c' \in Capacities /\ c' \div 2 = c
      <3>1. Power[MaxOrder] \in Nat
        BY HashMapAssumption, PowerIs
      <3>2. 2 * c + 1 < Power[MaxOrder]
        BY <1>3, <2>3, <3>1
      <3>3. 2 * c + 1 \in Capacities
        BY <2>2, <3>2, CapacityIs
      <3>4. (2 * c + 1) \div 2 = c
        BY <2>3
      <3> QED BY <2>1, <3>3, <3>4
    <2> HIDE DEF all
    <2>7. /\ all \in Seq(Elem) /\ N \in Nat /\ DOMAIN all = 1..N
          /\ \A i \in 1..N : all[i] \in Elem /\ at[all[i]] \in 0..((c + 1) - 1)
          /\ \A x \in Listed(at) : at[x] < c + 1 => \E i \in 1..N : all[i] = x
          /\ \A i, j \in 1..N : i < j => all[i] # all[j]
      BY <2>5 DEF Gathered
    <2>8. \A x \in Listed(at) : x \in Elem /\ \E i \in 1..N : all[i] = x
      <3> TAKE x \in Listed(at)
      <3>1. x \in Elem /\ at[x] \in 0..c
        BY <2>2 DEF Listed, Placed, Used
      <3>2. at[x] < c + 1
        BY <2>3, <3>1
      <3> QED BY <2>7, <3>1, <3>2
    <2>9. \A i \in 1..N : all[i] \in Listed(at)
      <3> TAKE i \in 1..N
      <3>1. at[all[i]] \in 0..c
        BY <2>3, <2>7
      <3>2. at[all[i]] # Null
        BY <2>3, <3>1, CellIs
      <3> QED BY <2>7, <3>2 DEF Listed
    <2>10. PICK bk : Sound(fast, MovedOf(all)[N], PlaceOf(all, N), bk, N)
      <3> HIDE DEF N
      <3>1. Len(all) = N
        BY DEF N
      <3> QED BY <2>2, <2>4, <2>7, <3>1, MovedSound
    <2>19. PICK bt : bt = PlaceOf(all, N)
      OBVIOUS
    <2>20. PICK k : k = N
      OBVIOUS
    <2>11. \A x \in Elem : bt[x] = IF x \in Listed(at) THEN Masked(KeyOf[x], c) ELSE Null
      <3> TAKE x \in Elem
      <3>1. bt[x] = IF \E j \in 1..N : all[j] = x THEN Masked(KeyOf[x], c) ELSE Null
        BY <2>19 DEF PlaceOf
      <3> QED BY <2>8, <2>9, <3>1
    <2>12. Range(all) = Listed(at)
      <3>1. Range(all) = {all[i] : i \in 1..N}
        BY <2>7 DEF Range
      <3> HIDE DEF N
      <3> QED BY <2>8, <2>9, <3>1
    <2>13. Sound(fast, lists', bt, bk, k)
      BY <2>1, <2>10, <2>19, <2>20
    <2> HIDE DEF N
    <2>14. Listed(bt) = Listed(at)
      BY <2>4, <2>11 DEF Listed
    <2>15. Placed(bt, bk)'
      <3>1. \A x \in Listed(bt) : x \in Elem /\ x \in grown' /\ bt[x] = Masked(KeyOf[x], c)
        BY <2>1, <2>11, <2>12, <2>14 DEF Listed
      <3>2. \A x \in Listed(bt) : bt[x] \in Used'
        <4> TAKE x \in Listed(bt)
        <4>1. bt[x] \in 0..c
          BY <2>3, <3>1
        <4>2. bt[x] \in 0..(2 * c + 1)
          BY <2>3, <4>1
        <4> QED BY <2>1, <4>2 DEF Used
      <3>3. \A x \in Listed(bt) : bt[x] = Masked(KeyOf[x], capacity \div 2)'
        BY <2>6, <3>1 DEF Masked
      <3> QED BY <3>1, <3>2, <3>3 DEF Placed
    <2>16. Stands(bt, bk)'
      BY <2>1, <2>2 DEF Stands, AtEnd, iteration
    <2>17. IsFiniteSet(Listed(bt)) /\ count' = Cardinality(Listed(bt))
      BY <2>1, <2>2, <2>14
    <2>18. capacity' \in Capacities
      BY <2>6
    <2> QED BY <2>1, <2>2, <2>13, <2>15, <2>16, <2>17, <2>18, HoldsNext
  <1> QED BY <1>2, <1>3

-----------------------------------------------------------------------------
(* The theorems about HashMap. *)

\* Every step keeps it.
LEMMA HashNextInv ==
    ASSUME HashInv, [HashNext]_hashVars
    PROVE  HashInv'
  <1>1. CASE UNCHANGED hashVars
    BY <1>1, SameInv
  <1>2. ASSUME NEW e \in Elem, Probe(e) \/ RemoveElem(e) \/ Replace(e) \/ RemoveKey(KeyOf[e])
        PROVE  HashInv'
    BY <1>2, ProbeInv, RemoveElemInv, ReplaceInv, RemoveKeyInv
  <1>3. CASE Clear
    BY <1>3, ClearInv
  <1>4. CASE AtEnd /\ (Expand \/ ExpandIf)
    BY <1>4, ExpandInv, SameInv DEF ExpandIf
  <1>5. CASE Begin
    BY <1>5, BeginInv
  <1>6. CASE Advance
    BY <1>6, AdvanceInv
  <1> QED BY <1>1, <1>2, <1>3, <1>4, <1>5, <1>6 DEF HashNext

\* The invariant of hashmap: in each list elements are linked in the order of their
\* ranks, are placed by the mask or, if expand moved them, by half of it, are counted,
\* and the iterator stands between those it has come to and those it has yet to.
THEOREM HashInvTheorem == HashSpec => []HashInv
  <1>1. HashInit => HashInv
    BY InitInv
  <1>2. HashInv /\ [HashNext]_hashVars => HashInv'
    BY HashNextInv
  <1> QED BY <1>1, <1>2, PTL DEF HashSpec

\* The cells in use that point at an element: there is one, and a list knows it.
LEMMA PointingIs ==
    ASSUME NEW at, NEW rk, NEW n, Holds(at, rk, n), NEW e \in Elements
    PROVE  LET pointing == {c \in Used \cup Elements :
                              IF c \in Slot THEN lists.first[c] = e ELSE lists.next[c] = e}
           IN  IF fast THEN pointing = {lists.prev[e]} ELSE \E c \in Cell : pointing = {c}
  <1>1. /\ Strung(lists, at, rk, n) /\ Sound(fast, lists, at, rk, n)
        /\ Used \subseteq Slot /\ Elements = Listed(at) /\ e \in Elem /\ at[e] # Null
        /\ \A x \in Listed(at) : x \in Elem /\ at[x] \in Used
    BY HoldsFacts DEF Listed, Holds, Placed
  <1> DEFINE P == {c \in Used \cup Elements : Points(lists, c, e)}
  <1>2. P = {c \in Used \cup Elements : IF c \in Slot THEN lists.first[c] = e ELSE lists.next[c] = e}
    BY DEF Points
  <1>3. ASSUME NEW c \in Cell, Points(lists, c, e) PROVE P = {c}
    <2>1. /\ c \in Slot => c = at[e]
          /\ c \in Elem => at[c] = at[e]
      BY <1>1, <1>3, PointsIs
    <2>2. c \in Used \cup Elements
      BY <1>1, <2>1, CellIs DEF Listed
    <2>3. \A d \in P : d \in Cell /\ Points(lists, d, e)
      BY <1>1, CellIs
    <2>4. \A d \in P : d = c
      BY <1>1, <1>3, <2>3, PointedOnce
    <2> QED BY <1>3, <2>2, <2>4
  <1> HIDE DEF P
  <1>4. PICK c \in Cell : Points(lists, c, e)
    BY <1>1, PointedAt
  <1>5. P = {c}
    BY <1>3, <1>4
  <1>6. fast => lists.prev[e] \in Cell /\ Points(lists, lists.prev[e], e)
    BY <1>1 DEF Sound, Backed
  <1>7. fast => P = {lists.prev[e]}
    BY <1>3, <1>6
  <1> QED BY <1>2, <1>5, <1>7

\* The invariant says that chains and count are right.
LEMMA InvChained == HashInv => Chained
  <1> SUFFICES ASSUME HashInv PROVE Chained
    OBVIOUS
  <1>1. PICK at, rk, n : Holds(at, rk, n)
    BY DEF HashInv
  <1>2. lists \in Lists /\ capacity \in Capacities /\ count = Cardinality(Listed(at))
    BY <1>1, HoldsFacts DEF Holds, Strung, Counted
  <1>3. /\ Used \subseteq Slot /\ Elements = Listed(at)
        /\ \A s \in Slot : In(s) = {e \in Elem : at[e] = s}
    BY <1>1, HoldsFacts
  <1>4. \A s, t \in Used : In(s) \cap In(t) # {} => s = t
    BY <1>3
  <1>5. \A e \in Elements :
           LET pointing == {c \in Used \cup Elements :
                              IF c \in Slot THEN lists.first[c] = e ELSE lists.next[c] = e}
           IN  IF fast THEN pointing = {lists.prev[e]} ELSE \E c \in Cell : pointing = {c}
    <2> TAKE e \in Elements
    <2> QED BY <1>1, PointingIs
  <1> QED BY <1>2, <1>3, <1>4, <1>5 DEF Chained

\* The invariant says that only expand loses elements.
LEMMA InvOnlyGrownLost == HashInv => OnlyGrownLost
  <1> SUFFICES ASSUME HashInv PROVE OnlyGrownLost
    OBVIOUS
  <1>1. PICK at, rk, n : Holds(at, rk, n)
    BY DEF HashInv
  <1>2. /\ Used \subseteq Slot /\ Elements = Listed(at)
        /\ \A s \in Slot : In(s) = {e \in Elem : at[e] = s}
    BY <1>1, HoldsFacts
  <1>3. /\ \A e \in Listed(at) :
             at[e] = SlotFor(KeyOf[e]) \/ (e \in grown /\ at[e] = Masked(KeyOf[e], capacity \div 2))
        /\ \A e, f \in Listed(at) : e # f /\ KeyOf[e] = KeyOf[f] => e \in grown \/ f \in grown
    BY <1>1 DEF Holds, Placed
  <1>4. ASSUME NEW s \in Used, NEW e \in In(s)
        PROVE  s = SlotFor(KeyOf[e]) \/ (e \in grown /\ s = Masked(KeyOf[e], capacity \div 2))
    <2>1. e \in Elem /\ at[e] = s /\ s # Null
      BY <1>2, <1>4, CellIs
    <2>2. e \in Listed(at)
      BY <2>1 DEF Listed
    <2> QED BY <1>3, <2>1, <2>2
  <1> QED BY <1>2, <1>3, <1>4 DEF OnlyGrownLost

\* For any elements, hashes and sizes every chain ends, no element is in two, links
\* back name the cell that points at the element, and the count is that of the
\* elements linked, through every probe, remove, replace, clear and expand.
THEOREM ChainedTheorem == HashSpec => []Chained
  BY HashInvTheorem, InvChained, PTL

\* An element get does not find was in the map while it expanded; all others are in
\* the list get looks in, one of each key.
THEOREM OnlyGrownLostTheorem == HashSpec => []OnlyGrownLost
  BY HashInvTheorem, InvOnlyGrownLost, PTL

\* No step takes the iterator back to an element, or to the end too early.
LEMMA IteratedStep ==
    ASSUME HashInv, [HashNext]_hashVars
    PROVE  [/\ it'.ptr # it.ptr => it'.ptr \notin seen
            /\ ~AtEnd /\ it'.ptr = Null => owed = {}]_hashVars
  <1> DEFINE A == /\ it'.ptr # it.ptr => it'.ptr \notin seen
                  /\ ~AtEnd /\ it'.ptr = Null => owed = {}
  <1>1. it' = it => A
    BY DEF AtEnd
  <1>2. ASSUME NEW e \in Elem, Probe(e) \/ RemoveElem(e) \/ Replace(e) \/ RemoveKey(KeyOf[e])
        PROVE  it' = it
    BY <1>2 DEF Probe, RemoveElem, Replace, RemoveKey, Iterating, hashVars, iteration
  <1>3. CASE Clear \/ Expand \/ ExpandIf
    <2>1. Expand => it' = it
      BY ExpandIs DEF hashVars, iteration
    <2> QED BY <1>1, <1>3, <2>1 DEF Clear, ExpandIf, hashVars, iteration
  <1>4. CASE Begin
    <2>1. seen = {}
      BY <1>4 DEF Begin, AtEnd, HashInv, Holds, Stands
    <2> QED BY <1>4, <2>1 DEF Begin
  <1>5. CASE Advance
    BY <1>5, AdvanceInv
  <1> QED BY <1>1, <1>2, <1>3, <1>4, <1>5 DEF HashNext

\* An iterator comes to every element that stays, and to none twice, while others are
\* inserted, removed and replaced around it (hashmap.h:328-360).
THEOREM IteratedTheorem == HashSpec => Iterated
  <1>1. HashInv /\ [HashNext]_hashVars =>
           [/\ it'.ptr # it.ptr => it'.ptr \notin seen
            /\ ~AtEnd /\ it'.ptr = Null => owed = {}]_hashVars
    BY IteratedStep
  <1>2. HashSpec => [][HashNext]_hashVars
    BY PTL DEF HashSpec
  <1> QED BY <1>1, <1>2, HashInvTheorem, PTL DEF Iterated

=============================================================================
