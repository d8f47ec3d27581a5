--------------------------- MODULE MCPageAllocator ---------------------------
(* Model values for TLC: areas of 2^(MaxOrder - MinOrder) nodes. *)
EXTENDS PageAllocator, TLC

MCPages == [k \in 0..4 |-> 2^k]
MCSpan == [k \in 1..4 |-> 2^(k - 1)]
Symmetry == Permutations(Page) \cup Permutations(Chunk) \cup Permutations(Area)
=============================================================================
