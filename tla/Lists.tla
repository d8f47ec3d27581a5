------------------------------- MODULE Lists --------------------------------
(***************************************************************************)
(* Two of the intrusive lists of src/libll++/list.h, as operators on the   *)
(* links of all elements and the first element of every list: list, whose  *)
(* entries point back at the cell that points at them, and slist, whose    *)
(* entries do not.  No operation reads the links of an element that is in  *)
(* no list, so they are cleared here when one leaves.                      *)
(***************************************************************************)
EXTENDS Integers, Sequences

CONSTANTS
    Elem,
    Null,           \* nullptr
    Slot            \* the lists

\* A cell that points at an element: _first of a list or _next of an entry.
Cell == Slot \cup Elem

Lists == [first : [Slot -> Elem \cup {Null}], next : [Elem -> Elem \cup {Null}],
          prev : [Elem -> Cell \cup {Null}]]

NoElements == [first |-> [s \in Slot |-> Null], next |-> [e \in Elem |-> Null],
               prev |-> [e \in Elem |-> Null]]

Point(l, cell, e) ==
    IF cell \in Slot THEN [l EXCEPT !.first[cell] = e] ELSE [l EXCEPT !.next[cell] = e]

Back(l, e, cell) == IF e = Null THEN l ELSE [l EXCEPT !.prev[e] = cell]

Loose(l, e) == [l EXCEPT !.next[e] = Null, !.prev[e] = Null]

\* list
ListPushFront(l, s, e) ==
    [Back(l, l.first[s], e) EXCEPT !.next[e] = l.first[s], !.first[s] = e, !.prev[e] = s]

\* Mutant: the entry behind still points back at this one.
ListRemoveForward(l, e) == Loose(Point(l, l.prev[e], l.next[e]), e)

ListRemove(l, e) == Loose(Point(Back(l, l.next[e], l.prev[e]), l.prev[e], l.next[e]), e)

\* slist
SlistPushFront(l, s, e) == [l EXCEPT !.next[e] = l.first[s], !.first[s] = e]

SlistPopFront(l, s) == Loose([l EXCEPT !.first[s] = l.next[@]], l.first[s])

\* remove(elm, prev)
SlistRemoveAfter(l, s, e, before) ==
    IF before = Null THEN SlistPopFront(l, s)
    ELSE Loose([l EXCEPT !.next[before] = l.next[e]], e)

\* The elements from e on; cut short where links lead round.
ChainFrom(l, e) ==
    LET walk[w \in (Elem \cup {Null}) \X SUBSET Elem] ==
            IF w[1] = Null \/ w[1] \in w[2] THEN <<>>
            ELSE <<w[1]>> \o walk[<<l.next[w[1]], w[2] \cup {w[1]}>>]
    IN  walk[<<e, {}>>]

Chain(l, s) == ChainFrom(l, l.first[s])

\* The element of list s in front of e, or Null.
Before(l, s, e) ==
    LET c == Chain(l, s)
    IN  IF \E i \in 2..Len(c) : c[i] = e
        THEN c[CHOOSE i \in 1..Len(c) - 1 : c[i + 1] = e] ELSE Null

\* remove(elm) looks for the one in front of elm; it may find none.
SlistRemove(l, s, e) ==
    IF l.first[s] = e \/ Before(l, s, e) # Null
    THEN SlistRemoveAfter(l, s, e, Before(l, s, e)) ELSE l
=============================================================================
