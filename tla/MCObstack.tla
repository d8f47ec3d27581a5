----------------------------- MODULE MCObstack -----------------------------
(* Obstack as TLC checks it: four pages that touch, of 6, 6, 8 and 10 cells. *)
EXTENDS Obstack

MCFrom == <<0, 6, 12, 20>>
MCTo == <<6, 12, 20, 30>>
=============================================================================
