------------------------------- MODULE MCMap --------------------------------
(* Map as TLC checks it: distinct keys, but for two elements that share one. *)
EXTENDS Map

CONSTANTS Shared

MCKeyOf == [n \in Node |-> IF n = Shared THEN n + 1 ELSE n]
=============================================================================
