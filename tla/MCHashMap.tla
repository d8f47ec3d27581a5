----------------------------- MODULE MCHashMap ------------------------------
(* HashMap as TLC checks it: keys that share lists under each of the masks. *)
EXTENDS HashMap

CONSTANTS e1, e2, e3, e4, e5

MCElem == {e1, e2, e3, e4, e5}
MCSlot == 0..7
MCKeyOf == (e1 :> 1) @@ (e2 :> 1) @@ (e3 :> 2) @@ (e4 :> 3) @@ (e5 :> 4)
MCHashOf == <<2, 6, 3, 14>>
MCSizes == {0, 3, 9}
=============================================================================
