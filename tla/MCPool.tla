------------------------------- MODULE MCPool -------------------------------
(* Pool as TLC checks it: pages of 4 cells and a large one. *)
EXTENDS Pool, TLC

CONSTANTS SmallPage, LargePage

MCPage == SmallPage \cup {LargePage}
MCCap == [pg \in MCPage |-> IF pg = LargePage THEN 8 ELSE 4]

Symmetry == Permutations(Pool) \cup Permutations(Handler) \cup Permutations(SmallPage)
=============================================================================
