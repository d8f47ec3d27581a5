---------------------------- MODULE TimerManager ----------------------------
(***************************************************************************)
(* timer_manager (src/libll++/timer_manager.h, timer_manager.cpp): timers  *)
(* in a map ordered by expiry, idle callbacks in a list, and loop(), which *)
(* runs what is due and returns how long its caller may sleep.             *)
(*                                                                         *)
(* Callbacks are client code: while one runs it may call every operation,  *)
(* and so may the client between two calls of loop.  The clock advances at *)
(* any point.  The caller sleeps as test_reactor.cpp does: in the reactor, *)
(* until the time loop returned has passed or an event comes.  Times are   *)
(* milliseconds (time_prec_msec); expiries and the clock stop at MaxTime.  *)
(***************************************************************************)
EXTENDS Integers, Sequences, SequencesExt, FiniteSets

CONSTANTS
    Timer,          \* the timers a client can create (bound)
    None,           \* no timer, no time
    MaxTime,        \* the last expiry and the last instant (bound)
    Delay,          \* what callbacks return: 0 ends a timer, d > 0 re-arms it
    MaxModify       \* calls of modify (bound)

ASSUME TimerAssumption ==
    /\ None \notin Timer \cup (0..MaxTime) /\ MaxTime \in Nat
    /\ MaxModify \in Nat /\ Delay \subseteq Nat

VARIABLES
    kind,           \* "new", "timer", "idle", "ran" (an idle that ran), "freed"
    expires,        \* _expires
    map,            \* _map, in the order of the tree
    list,           \* _list
    cur,            \* _cur
    running,        \* a callback of cur is on the stack
    pc,             \* where loop is: "out" of it, in one of its phases, "asleep"
    curtime,        \* the time loop_i was called with
    wake,           \* expires of loop_i; time::max is Never
    clock,
    modified,       \* calls of modify made
    late            \* timers scheduled or modified during the second idle loop

vars == <<kind, expires, map, list, cur, running, pc, curtime, wake, clock, modified, late>>
queue == <<kind, expires, map, list, modified, late>>

Time == 0..MaxTime
Never == MaxTime + 1

Init ==
    /\ kind = [t \in Timer |-> "new"]
    /\ expires = [t \in Timer |-> 0]
    /\ map = <<>> /\ list = <<>> /\ cur = None /\ running = FALSE
    /\ pc = "out" /\ curtime = 0 /\ wake = 0 /\ clock = 0
    /\ modified = 0 /\ late = {}

-----------------------------------------------------------------------------
(* The operations of the client. *)

Queued == ToSet(map)

\* Client code runs: a callback, or the code around loop.
ClientRuns == running \/ pc = "out"

\* map::insert: after every timer that does not expire later.
Insert(q, t, e) ==
    InsertAt(q, 1 + Cardinality({i \in DOMAIN q : expires[q[i]] <= e}), t)

Touch(t) == late' = IF pc = "idle2" THEN late \cup {t} ELSE late

\* schedule and schedule_r, which adds the time of the call.
Schedule(t, e) ==
    /\ ClientRuns /\ kind[t] = "new"
    /\ kind' = [kind EXCEPT ![t] = "timer"]
    /\ expires' = [expires EXCEPT ![t] = e]
    /\ map' = Insert(map, t, e)
    /\ Touch(t)
    /\ UNCHANGED <<list, modified>>

Idle(t) ==
    /\ ClientRuns /\ kind[t] = "new"
    /\ kind' = [kind EXCEPT ![t] = "idle"]
    /\ list' = Append(list, t)
    /\ UNCHANGED <<expires, map, modified, late>>

\* Mutant of Modify: the timer keeps its place in the map.
ModifyInPlace(t, e) ==
    /\ ClientRuns /\ kind[t] = "timer" /\ e # expires[t] /\ modified < MaxModify
    /\ expires' = [expires EXCEPT ![t] = e]
    /\ modified' = modified + 1 /\ Touch(t)
    /\ UNCHANGED <<kind, map, list>>

\* modify: the running timer is in no queue, any other changes place.
Modify(t, e) ==
    /\ ClientRuns /\ kind[t] = "timer" /\ e # expires[t] /\ modified < MaxModify
    /\ expires' = [expires EXCEPT ![t] = e]
    /\ \/ t = cur /\ UNCHANGED map
       \/ t # cur /\ map' = Insert(RemoveFirst(map, t), t, e)
    /\ modified' = modified + 1 /\ Touch(t)
    /\ UNCHANGED <<kind, list>>

\* Mutant of RemoveTimer: the timer whose callback runs is freed as well.
RemoveRunning(t) ==
    /\ ClientRuns /\ kind[t] \in {"timer", "idle"}
    /\ map' = RemoveFirst(map, t) /\ list' = RemoveFirst(list, t)
    /\ kind' = [kind EXCEPT ![t] = "freed"]
    /\ UNCHANGED <<expires, modified, late>>

\* remove of a timer that waits or of an idle that has not run: unlink and
\* delete.  Of cur it does nothing.
RemoveTimer(t) ==
    /\ ClientRuns /\ kind[t] \in {"timer", "idle"} /\ t # cur
    /\ map' = RemoveFirst(map, t) /\ list' = RemoveFirst(list, t)
    /\ kind' = [kind EXCEPT ![t] = "freed"]
    /\ UNCHANGED <<expires, modified, late>>

Client ==
    /\ \E t \in Timer :
        Idle(t) \/ RemoveTimer(t) \/ \E e \in Time : Schedule(t, e) \/ Modify(t, e)
    /\ UNCHANGED <<cur, running, pc, curtime, wake, clock>>

-----------------------------------------------------------------------------
(* loop and loop_i. *)

\* Mutant of Due: one unit early.
DueSoon(t) == expires[t] <= curtime + 1
\* Mutant of Due: a timer is due once its time has passed.
DueAfter(t) == expires[t] < curtime

\* !(curtime < timer->_expires)
Due(t) == expires[t] <= curtime

FrontDue == map # <<>> /\ Due(Head(map))

\* loop reads the clock and calls loop_i.
Loop ==
    /\ pc = "out"
    /\ pc' = "idle1" /\ curtime' = clock
    /\ UNCHANGED <<queue, cur, running, wake, clock>>

\* Either idle loop takes the first callback off the list.
RunIdle ==
    /\ pc \in {"idle1", "idle2"} /\ ~running /\ list # <<>>
    /\ cur' = Head(list) /\ list' = Tail(list) /\ running' = TRUE
    /\ UNCHANGED <<kind, expires, map, modified, late, pc, curtime, wake, clock>>

\* An idle callback returns; the timer object stays allocated.
IdleReturn ==
    /\ running /\ kind[cur] = "idle"
    /\ kind' = [kind EXCEPT ![cur] = "ran"] /\ running' = FALSE
    /\ UNCHANGED <<expires, map, list, modified, late, cur, pc, curtime, wake, clock>>

\* The first idle loop ends.
IdleDone ==
    /\ pc = "idle1" /\ ~running /\ list = <<>>
    /\ pc' = "timers" /\ cur' = None
    /\ UNCHANGED <<queue, running, curtime, wake, clock>>

\* dispatch takes the front of the map off it and applies its closure.
Dispatch ==
    /\ pc = "timers" /\ ~running /\ FrontDue
    /\ cur' = Head(map) /\ map' = Tail(map) /\ running' = TRUE
    /\ UNCHANGED <<kind, expires, list, modified, late, pc, curtime, wake, clock>>

\* The closure returns d <= 0: the timer is deleted.
TimerEnds ==
    /\ running /\ kind[cur] = "timer" /\ 0 \in Delay
    /\ kind' = [kind EXCEPT ![cur] = "freed"] /\ running' = FALSE
    /\ UNCHANGED <<expires, map, list, modified, late, cur, pc, curtime, wake, clock>>

\* It returns d > 0 and the next expiry is still to come: back into the map.
Rearm(d) ==
    /\ running /\ kind[cur] = "timer" /\ d > 0
    /\ expires[cur] + d \in Time /\ expires[cur] + d > curtime
    /\ expires' = [expires EXCEPT ![cur] = @ + d]
    /\ map' = Insert(map, cur, expires[cur] + d)
    /\ running' = FALSE
    /\ UNCHANGED <<kind, list, modified, late, cur, pc, curtime, wake, clock>>

\* It returns d > 0 and the next expiry has passed too: applied once more.
ApplyAgain(d) ==
    /\ running /\ kind[cur] = "timer" /\ d > 0
    /\ expires[cur] + d <= curtime
    /\ expires' = [expires EXCEPT ![cur] = @ + d]
    /\ UNCHANGED <<kind, map, list, modified, late, cur, running, pc, curtime, wake, clock>>

\* Mutant of FirstExpiry: the last timer of the map.
LastExpiry == IF map = <<>> THEN Never ELSE expires[Last(map)]

\* What loop_i returns when no timer is due: time::max without a timer.
FirstExpiry == IF map = <<>> THEN Never ELSE expires[Head(map)]

\* No timer is due: expires is fixed before the second idle loop.
NoneDue ==
    /\ pc = "timers" /\ ~running /\ ~FrontDue
    /\ wake' = FirstExpiry
    /\ cur' = IF map = <<>> THEN None ELSE Head(map)
    /\ pc' = "idle2"
    /\ UNCHANGED <<queue, running, curtime, clock>>

\* The second idle loop ends and loop_i returns.
LoopIReturns ==
    /\ pc = "idle2" /\ ~running /\ list = <<>>
    /\ pc' = "check" /\ cur' = None
    /\ UNCHANGED <<queue, running, curtime, wake, clock>>

\* loop reads the clock again: expires is still to come, and the caller sleeps.
Sleep ==
    /\ pc = "check" /\ wake > clock
    /\ pc' = "asleep" /\ curtime' = clock
    /\ UNCHANGED <<queue, cur, running, wake, clock>>

\* Or it has passed, and loop_i is called once more.
OnceMore ==
    /\ pc = "check" /\ wake <= clock
    /\ pc' = "idle1" /\ curtime' = clock /\ late' = {}
    /\ UNCHANGED <<kind, expires, map, list, modified, cur, running, wake, clock>>

\* The wait of the caller ends: at the time loop returned, or earlier.
Awake ==
    /\ pc = "asleep" /\ pc' = "out" /\ late' = {}
    /\ UNCHANGED <<kind, expires, map, list, modified, cur, running, curtime, wake, clock>>

Timeout == wake <= clock /\ Awake

Tick ==
    /\ clock < MaxTime /\ clock' = clock + 1
    /\ UNCHANGED <<queue, cur, running, pc, curtime, wake>>

-----------------------------------------------------------------------------
\* One step of loop or the return of a callback.
Progress ==
    \/ Loop \/ RunIdle \/ IdleReturn \/ IdleDone
    \/ Dispatch \/ TimerEnds \/ \E d \in Delay : Rearm(d) \/ ApplyAgain(d)
    \/ NoneDue \/ LoopIReturns \/ Sleep \/ OnceMore

Next == Client \/ Progress \/ Awake \/ Tick

\* The caller calls loop again and again (test_reactor.cpp), callbacks return,
\* time passes and a timeout ends; events and calls of the client may not come.
Spec ==
    /\ Init /\ [][Next]_vars
    /\ WF_vars(Progress) /\ WF_vars(Timeout) /\ WF_vars(Tick)

-----------------------------------------------------------------------------
(* Properties. *)

TypeOK ==
    /\ kind \in [Timer -> {"new", "timer", "idle", "ran", "freed"}]
    /\ expires \in [Timer -> Time]
    /\ map \in Seq(Timer) /\ list \in Seq(Timer)
    /\ cur \in Timer \cup {None} /\ running \in BOOLEAN
    /\ pc \in {"out", "idle1", "timers", "idle2", "check", "asleep"}
    /\ curtime \in Time /\ wake \in Time \cup {Never} /\ clock \in Time
    /\ modified \in 0..MaxModify /\ late \subseteq Timer

Waiting(t, s) == Cardinality({i \in DOMAIN s : s[i] = t})

\* A timer is linked exactly once, in the container of its kind, unless it is
\* the one that runs; what was deleted or has run is linked nowhere.  Callbacks
\* may remove, modify and schedule anything, themselves included.
LinkedOnce == TypeOK /\
    \A t \in Timer :
        LET runs == running /\ t = cur IN
        /\ Waiting(t, map) = IF kind[t] = "timer" /\ ~runs THEN 1 ELSE 0
        /\ Waiting(t, list) = IF kind[t] = "idle" /\ ~runs THEN 1 ELSE 0
        /\ runs => kind[t] \in {"timer", "idle"}

\* When the caller sleeps no idle callback waits, and no timer expires before
\* it wakes, those set during the second idle loop apart.
SleepCovers ==
    pc = "asleep" =>
        /\ list = <<>>
        /\ \A t \in Queued \ late : expires[t] > curtime /\ wake <= expires[t]

\* The queue and the loop implement TimerService: no callback runs early, two
\* never overlap, and the earliest pending timer is always the one that runs.
pending == [t \in Timer |-> IF t \in Queued THEN expires[t] ELSE None]
active == IF running /\ kind[cur] = "timer" THEN cur ELSE None

Service == INSTANCE TimerService WITH now <- clock

ServiceSpec == Service!Spec

\* A timer whose time has come runs, is removed or is moved, and an idle
\* callback runs or is removed; again timers set in the second idle loop apart.
Served ==
    \A t \in Timer :
        /\ (t \in Queued /\ expires[t] <= clock)
              ~> (t \notin Queued \/ expires[t] > clock \/ t \in late)
        /\ (t \in ToSet(list)) ~> (t \notin ToSet(list))

\* test_reactor.cpp sleeps in the reactor for as long as loop returns
\* (test/test_reactor.cpp:77-78): no timer of the map expires before.
NoOversleep == pc = "asleep" => \A t \in Queued : wake <= expires[t]
=============================================================================
