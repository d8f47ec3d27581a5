------------------------------ MODULE MCSignal ------------------------------
(* Signal as TLC checks it. *)
EXTENDS Signal, TLC

Symmetry == Permutations(Entry) \cup Permutations(Closure)
=============================================================================
