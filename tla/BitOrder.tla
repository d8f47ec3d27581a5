------------------------------ MODULE BitOrder ------------------------------
(***************************************************************************)
(* bitorder (src/libll++/bitorder.h, bitorder.cpp): for a number, how many *)
(* bits to shift 1 by for a power of two that holds it, looked up in a     *)
(* table for what fits a byte.  Numbers are those up to 2^63: for greater  *)
(* ones 1UL << r would shift by the width.                                 *)
(***************************************************************************)
EXTENDS Integers

\* Mutant of ordertab: the row of 2s is an entry too long.
ordertabShifted == [n \in 0..255 |->
    CASE n \in 0..1    -> 0
      [] n = 2         -> 1
      [] n \in 3..5    -> 2
      [] n \in 6..8    -> 3
      [] n \in 9..16   -> 4
      [] n \in 17..32  -> 5
      [] n \in 33..64  -> 6
      [] n \in 65..128 -> 7
      [] OTHER         -> 8]

\* bitorder::ordertab, as it is written down, a row for each run of equal entries.
ordertab == [n \in 0..255 |->
    CASE n \in 0..1    -> 0
      [] n = 2         -> 1
      [] n \in 3..4    -> 2
      [] n \in 5..8    -> 3
      [] n \in 9..16   -> 4
      [] n \in 17..32  -> 5
      [] n \in 33..64  -> 6
      [] n \in 65..128 -> 7
      [] OTHER         -> 8]

\* 1 << o
Power[o \in Nat] == IF o = 0 THEN 1 ELSE 2 * Power[o - 1]

\* What the loop of order comes to: the bits shifted out, a byte at a time, and
\* the entry of what is left.
Shifted[m \in Nat] == IF m > 255 THEN 8 + Shifted[m \div 256] ELSE ordertab[m]

\* bitorder::order(n); the bits shifted out may take one bit more.
Order(n) == IF Power[Shifted[n]] < n THEN Shifted[n] + 1 ELSE Shifted[n]
=============================================================================
