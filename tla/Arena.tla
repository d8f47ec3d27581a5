------------------------------- MODULE Arena -------------------------------
(***************************************************************************)
(* What pools (src/libll++/pool.h) promise: memory that stays with its one *)
(* owner until the owner is cleared or deleted; handlers that run once, in *)
(* the order they were connected, while that memory is still there; and    *)
(* children that go first.                                                 *)
(***************************************************************************)
EXTENDS Naturals, Sequences, SequencesExt

CONSTANTS Pool, Handler

VARIABLES
    alive,          \* the pools there are
    parent,         \* the parent of each; its own for one that has none
    given,          \* the memory each has handed out
    todo,           \* the handlers connected to each, oldest first
    running         \* the calls of handlers under way: whose, and how deep

vars == <<alive, parent, given, todo, running>>

Init ==
    /\ alive = {} /\ parent = [p \in Pool |-> p]
    /\ given = [p \in Pool |-> {}] /\ todo = [p \in Pool |-> <<>>]
    /\ running = {}

Make(p) ==
    /\ p \notin alive /\ alive' = alive \cup {p}
    /\ \E q \in alive' : parent' = [parent EXCEPT ![p] = q]
    /\ UNCHANGED <<given, todo, running>>

\* alloc and what is built on it, connect too: memory that nobody has.
Grant(p) ==
    /\ p \in alive
    /\ given[p] \subseteq given'[p]
    /\ \A q \in alive \ {p} : given'[p] \cap given[q] = {}
    /\ given' = [given EXCEPT ![p] = given'[p]]
    /\ todo' = todo \/ \E h \in Handler : todo' = [todo EXCEPT ![p] = Append(@, h)]
    /\ UNCHANGED <<alive, parent, running>>

Disconnect(p) ==
    /\ \E h \in ToSet(todo[p]) : todo' = [todo EXCEPT ![p] = RemoveFirst(@, h)]
    /\ UNCHANGED <<alive, parent, given, running>>

Childless(p) == \A q \in alive \ {p} : parent[q] # p

Innermost(r) == \A s \in running \ {r} : s.depth < r.depth

\* clear and delete call the oldest handler when the children are gone.
Run(p) ==
    /\ Childless(p) /\ todo[p] # <<>>
    /\ todo' = [todo EXCEPT ![p] = Tail(@)]
    /\ \E r \in running' \ running :
        r.pool = p /\ Innermost(r) /\ running' = running \cup {r}
    /\ UNCHANGED <<alive, parent, given>>

Return ==
    /\ \E r \in running : Innermost(r) /\ running' = running \ {r}
    /\ UNCHANGED <<alive, parent, given, todo>>

\* When there is none left the memory goes, and with delete the pool.
Release(p) ==
    /\ p \in alive /\ \A r \in running : r.pool # p
    /\ Childless(p) /\ todo[p] = <<>>
    /\ given' = [given EXCEPT ![p] = {}]
    /\ \/ UNCHANGED <<alive, parent>>
       \/ alive' = alive \ {p} /\ parent' = [parent EXCEPT ![p] = p]
    /\ UNCHANGED <<todo, running>>

Next == \E p \in Pool : Make(p) \/ Grant(p) \/ Disconnect(p) \/ Run(p) \/ Release(p) \/ Return

Spec == Init /\ [][Next]_vars
=============================================================================
