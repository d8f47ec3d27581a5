------------------------------- MODULE CList --------------------------------
(***************************************************************************)
(* The circular list of src/libll++/list.h (clist_entry and the list built *)
(* on it): the list is an entry itself, and remove leaves the links of the *)
(* entry it takes out as they are.                                         *)
(***************************************************************************)
EXTENDS Integers, Sequences

CONSTANTS
    Entry,          \* entries of the elements
    Anchor            \* the entry that is the list

Cells == Entry \cup {Anchor}
CList == [next : [Cells -> Cells], prev : [Cells -> Cells]]

\* An entry that was never linked has no links; they are its own here.
NewList == [next |-> [e \in Cells |-> e], prev |-> [e \in Cells |-> e]]

\* Mutant: the list's own entry keeps its _prev.
ForgetForward(l) == [l EXCEPT !.next[Anchor] = Anchor]

\* init: the list forgets its elements, which keep their links.
Forget(l) == [l EXCEPT !.next[Anchor] = Anchor, !.prev[Anchor] = Anchor]

\* insert_front of the list's own entry, which is push_back.
PushBack(l, e) ==
    [next |-> [l.next EXCEPT ![e] = Anchor, ![l.prev[Anchor]] = e],
     prev |-> [l.prev EXCEPT ![e] = l.prev[Anchor], ![Anchor] = e]]

\* Mutant: only the forward links close over the entry.
UnlinkForward(l, e) == [l EXCEPT !.next[l.prev[e]] = l.next[e]]

\* remove
Unlink(l, e) ==
    [next |-> [l.next EXCEPT ![l.prev[e]] = l.next[e]],
     prev |-> [l.prev EXCEPT ![l.next[e]] = l.prev[e]]]

\* What an iterator meets from e on in direction d, "next" or "prev", up to the
\* list itself: what is in every set that has e and is closed under the links.
From(l, d, e) ==
    {x \in Entry : \A S \in SUBSET Cells :
        e \in S /\ (\A y \in S \ {Anchor} : l[d][y] \in S) => x \in S}
=============================================================================
