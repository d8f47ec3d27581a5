---------------------------- MODULE ObjectStack ----------------------------
(***************************************************************************)
(* What obstack (src/libll++/obstack.h) promises: objects in memory it     *)
(* owns, apart from each other, that stay where they are until they or an  *)
(* older object are freed.                                                 *)
(***************************************************************************)
EXTENDS Integers, Sequences

VARIABLES
    live,           \* the finished objects, [at, size], oldest first
    owned           \* the cells of the obstack's chunks

vars == <<live, owned>>

Cells(o) == o.at .. o.at + o.size - 1

Init == live = <<>>

\* finish, alloc and copy: a new object where no other is.
Push ==
    /\ Len(live') = Len(live) + 1 /\ live = SubSeq(live', 1, Len(live))
    /\ \A i \in DOMAIN live : Cells(live[i]) \cap Cells(live'[Len(live')]) = {}

\* free, clear: the youngest objects go.
Pop == \E n \in 0..Len(live) : live' = SubSeq(live, 1, n)

\* Objects are in owned memory before and after; growing is a Pop of nothing.
Next ==
    /\ Push \/ Pop
    /\ \A i \in DOMAIN live' : Cells(live'[i]) \subseteq owned'

Spec == Init /\ [][Next]_vars
=============================================================================
