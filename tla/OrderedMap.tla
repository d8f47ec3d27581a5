----------------------------- MODULE OrderedMap -----------------------------
(***************************************************************************)
(* What a map promises: the elements in the order of their keys, and among *)
(* equal keys in the order insert was asked for.                           *)
(***************************************************************************)
EXTENDS Integers, Sequences, SequencesExt, FiniteSets

CONSTANTS Elem, KeyOf

VARIABLE order

Init == order = <<>>

Absent(e) == e \notin ToSet(order)

\* Behind every element whose key is not greater.
InsertAfter(e) ==
    /\ Absent(e)
    /\ order' = InsertAt(order, 1 + Cardinality({i \in DOMAIN order :
                                        KeyOf[order[i]] <= KeyOf[e]}), e)

\* Before every element whose key is not less.
InsertBefore(e) ==
    /\ Absent(e)
    /\ order' = InsertAt(order, 1 + Cardinality({i \in DOMAIN order :
                                        KeyOf[order[i]] < KeyOf[e]}), e)

\* An element gives its place to another of the same key.
Replace(i, e) ==
    /\ Absent(e) /\ KeyOf[order[i]] = KeyOf[e]
    /\ order' = [order EXCEPT ![i] = e]

RemoveElem(i) == order' = RemoveAt(order, i)

Clear == order' = <<>>

Next ==
    \/ Clear
    \/ \E e \in Elem : InsertAfter(e) \/ InsertBefore(e)
    \/ \E i \in DOMAIN order : RemoveElem(i) \/ \E e \in Elem : Replace(i, e)

Spec == Init /\ [][Next]_order
=============================================================================
