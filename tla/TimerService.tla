---------------------------- MODULE TimerService ----------------------------
(***************************************************************************)
(* What timer_manager (src/libll++/timer_manager.h) promises its clients,  *)
(* whatever its queue looks like: one callback runs at a time, never before*)
(* its time, and always that of a timer no other pending one is earlier    *)
(* than.                                                                   *)
(***************************************************************************)
EXTENDS Integers

CONSTANTS Timer, None

VARIABLES
    pending,        \* the time each timer waits for, None when it does not wait
    active,         \* the timer whose callback runs, or None
    now

vars == <<pending, active, now>>

Init == pending = [t \in Timer |-> None] /\ active = None /\ now \in Nat

\* schedule and modify; a callback that asks to be called again.
Set(t) ==
    /\ t # active /\ pending'[t] \in Nat
    /\ pending' = [pending EXCEPT ![t] = pending'[t]]
    /\ UNCHANGED <<active, now>>

\* remove.
Cancel(t) ==
    /\ pending' = [pending EXCEPT ![t] = None]
    /\ UNCHANGED <<active, now>>

\* loop calls the timer that is due first.
Fire(t) ==
    /\ active = None
    /\ pending[t] # None /\ pending[t] <= now
    /\ \A u \in Timer : pending[u] # None => pending[t] <= pending[u]
    /\ active' = t
    /\ pending' = [pending EXCEPT ![t] = None]
    /\ UNCHANGED now

\* The callback returns: the timer is done, or waits for a later time.
Return(t) ==
    /\ active = t /\ active' = None
    /\ pending'[t] = None \/ pending'[t] \in Nat
    /\ pending' = [pending EXCEPT ![t] = pending'[t]]
    /\ UNCHANGED now

Tick == now' > now /\ UNCHANGED <<pending, active>>

Next == Tick \/ \E t \in Timer : Set(t) \/ Cancel(t) \/ Fire(t) \/ Return(t)

Spec == Init /\ [][Next]_vars
=============================================================================
