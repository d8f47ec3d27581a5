------------------------------ MODULE PageStore ------------------------------
(***************************************************************************)
(* What page_allocator (src/libll++/page.h) promises its clients, whatever *)
(* its bookkeeping: a page handed out owns cells of chunk memory that no   *)
(* other page owns until it is given back.  A page served by mmap owns no  *)
(* chunk cell: the operating system keeps those apart.                     *)
(***************************************************************************)
CONSTANTS Page, Cell

VARIABLE live       \* the cells each page owns, {} when it owns none

TypeOK == live \in [Page -> SUBSET Cell]

Init == live = [p \in Page |-> {}]

\* alloc: p receives cells, and none of them belongs to another page.
Take(p, cells) ==
    /\ live[p] = {}
    /\ cells # {} /\ cells \subseteq Cell
    /\ \A q \in Page : live[q] \cap cells = {}
    /\ live' = [live EXCEPT ![p] = cells]

\* free: p gives back everything it owns.
Give(p) ==
    /\ live[p] # {}
    /\ live' = [live EXCEPT ![p] = {}]

Next == \E p \in Page : Give(p) \/ Take(p, live'[p])

Spec == Init /\ [][Next]_live
=============================================================================
