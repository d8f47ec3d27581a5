-------------------------------- MODULE Map ---------------------------------
(***************************************************************************)
(* map (src/libll++/map.h): an ordered map of intrusive elements over a    *)
(* red-black tree, which remembers its ends (__left_acc, __right_acc), and *)
(* an iterator a client keeps while elements come and go.                  *)
(*                                                                         *)
(* The client keeps to the contract of an intrusive container: it links an *)
(* element that is out of the map, removes one that is in it, replaces one *)
(* by another of the same key, and does not remove the element its         *)
(* iterator is at.                                                         *)
(***************************************************************************)
EXTENDS RBTree, SequencesExt, FiniteSets

CONSTANTS KeyOf     \* getkey_type::get_key

ASSUME MapAssumption == IsFiniteSet(Node) /\ Null \notin Node /\ KeyOf \in [Node -> Int]

VARIABLES
    tree,
    left,           \* _left of left_acc_policy
    right,          \* _right of right_acc_policy
    it,             \* the node of the client's iterator
    ahead,          \* where the iterator goes: "right", or "left" for a reverse one
    watched         \* an element the iterator has yet to visit: whichever of those
                    \* in the map when it began, until it is visited or removed

vars == <<tree, left, right, it, ahead, watched>>

Elements == {n \in Node : n = tree.root \/ tree.parent[n] # Null}

Init ==
    /\ tree = EmptyTree /\ left = Null /\ right = Null
    /\ it = Null /\ ahead = "right" /\ watched = Null

-----------------------------------------------------------------------------
(* Looking up. *)

\* The way from node n for key k; "here" where keys are equal.
Towards(k, n) ==
    IF k < KeyOf[n] THEN "left" ELSE IF k > KeyOf[n] THEN "right" ELSE "here"

Get(k) ==
    LET find[n \in Link] ==
            IF n = Null \/ Towards(k, n) = "here" THEN n
            ELSE find[tree.kid[Towards(k, n)][n]]
    IN  find[tree.root]

\* Where an element of key k goes, equal keys being passed on side equal: a way
\* down has come to node, by a link of under on side, with those turns taken.
Descent == [node : Link, under : Link, side : Side, turns : SUBSET Side]

Way(k, equal, n) == IF Towards(k, n) = "here" THEN equal ELSE Towards(k, n)

Place(k, equal) ==
    LET walk[c \in Descent] ==
            IF c.node = Null THEN c
            ELSE LET w == Way(k, equal, c.node)
                 IN  walk[[node |-> tree.kid[w][c.node], under |-> c.node,
                           side |-> w, turns |-> c.turns \cup {w}]]
    IN  walk[[node |-> tree.root, under |-> Null, side |-> "left", turns |-> {}]]

-----------------------------------------------------------------------------
(* The operations. *)

\* Mutant: only the last turn is looked at.
LinkLastTurn(e, place) ==
    /\ tree' = InsertFixup(Linked(tree, e, place.under, place.side), e)
    /\ left' = IF place.turns # {} /\ place.side = "right" THEN left ELSE e
    /\ right' = IF place.turns # {} /\ place.side = "left" THEN right ELSE e
    /\ UNCHANGED <<it, ahead, watched>>

\* An element that never went right is the new first one, and the other way round.
LinkAt(e, place) ==
    /\ tree' = InsertFixup(Linked(tree, e, place.under, place.side), e)
    /\ left' = IF "right" \in place.turns THEN left ELSE e
    /\ right' = IF "left" \in place.turns THEN right ELSE e
    /\ UNCHANGED <<it, ahead, watched>>

\* insert<true> and insert<false>.
InsertAfter(e) == e \notin Elements /\ LinkAt(e, Place(KeyOf[e], "right"))
InsertBefore(e) == e \notin Elements /\ LinkAt(e, Place(KeyOf[e], "left"))

\* probe: e is the element it would create; an element of that key stays.
Probe(e) ==
    /\ e \notin Elements
    /\ IF Get(KeyOf[e]) # Null THEN UNCHANGED vars
       ELSE LinkAt(e, Place(KeyOf[e], "right"))

\* replace(maped, new_elm)
Replace(old, e) ==
    /\ old \in Elements /\ e \notin Elements /\ KeyOf[old] = KeyOf[e] /\ it # old
    /\ tree' = RBReplace(tree, old, e)
    /\ left' = IF left = old THEN e ELSE left
    /\ right' = IF right = old THEN e ELSE right
    /\ watched' = IF watched = old THEN e ELSE watched
    /\ UNCHANGED <<it, ahead>>

\* replace(new_elm): of an element of its key, or a plain insertion.
ReplaceKey(e) ==
    /\ e \notin Elements
    /\ IF Get(KeyOf[e]) # Null THEN Replace(Get(KeyOf[e]), e)
       ELSE LinkAt(e, Place(KeyOf[e], "right"))

\* remove(elm); an end moves to the neighbour first, while elm is still linked.
RemoveElem(e) ==
    /\ e \in Elements /\ it # e
    /\ tree' = RBRemove(tree, e)
    /\ left' \in IF left = e THEN NextOf(tree, e) ELSE {left}
    /\ right' \in IF right = e THEN PrevOf(tree, e) ELSE {right}
    /\ watched' = IF watched = e THEN Null ELSE watched
    /\ UNCHANGED <<it, ahead>>

\* remove(key)
RemoveKey(k) == IF Get(k) = Null THEN UNCHANGED vars ELSE RemoveElem(Get(k))

\* init: the elements are forgotten, not freed.
Clear ==
    /\ it = Null
    /\ tree' = EmptyTree /\ left' = Null /\ right' = Null /\ watched' = Null
    /\ UNCHANGED <<it, ahead>>

-----------------------------------------------------------------------------
(* Iterators. *)

\* begin and rbegin.
Begin(s) ==
    /\ it = Null
    /\ ahead' = s
    /\ it' = IF s = "right" THEN left ELSE right
    /\ watched' \in (Elements \ {it'}) \cup {Null}
    /\ UNCHANGED <<tree, left, right>>

\* ++ of an iterator and of a reverse_iterator.
Advance ==
    /\ it # Null
    /\ it' \in IF ahead = "right" THEN NextOf(tree, it) ELSE PrevOf(tree, it)
    /\ watched' = IF watched = it' THEN Null ELSE watched
    /\ UNCHANGED <<tree, left, right, ahead>>

\* The client gives its iterator up.
Drop ==
    /\ it # Null \/ watched # Null
    /\ it' = Null /\ watched' = Null /\ ahead' = "right"
    /\ UNCHANGED <<tree, left, right>>

Next ==
    \/ \E e \in Node : \/ InsertAfter(e) \/ InsertBefore(e) \/ Probe(e) \/ ReplaceKey(e)
                       \/ RemoveElem(e) \/ \E old \in Node : Replace(old, e)
    \/ \E e \in Node : RemoveKey(KeyOf[e])
    \/ Clear \/ Advance \/ Drop \/ \E s \in Side : Begin(s)

Spec == Init /\ [][Next]_vars

-----------------------------------------------------------------------------
(* What must hold. *)

KeysFound ==
    \A k \in {KeyOf[e] : e \in Node} :
        IF \E e \in Elements : KeyOf[e] = k
        THEN Get(k) \in Elements /\ KeyOf[Get(k)] = k ELSE Get(k) = Null

\* The tree stays balanced through every order of insertions and removals: every
\* link has its parent pointer, no red node has a red child, all paths have as
\* many black nodes, the root is black, and get finds an element of a key exactly
\* when there is one.  A wrong case of insert, remove or
\* erase_color costs the bound on the depth, or loses a subtree.
RedBlack ==
    /\ tree \in Tree /\ KeysFound
    /\ ~IsRed(tree, tree.root) /\ BlackHeight(tree) # -1
    /\ tree.root # Null => tree.parent[tree.root] = Null
    /\ \A n \in Elements, s \in Side :
          LET c == tree.kid[s][n]
          IN  c # Null => /\ c \in Elements /\ tree.parent[c] = n
                          /\ ~(IsRed(tree, n) /\ IsRed(tree, c))

\* front, back and the iterators start from remembered ends: the first is the
\* least element after every operation.  The last one is the greatest, unless
\* remove took it from prev, which may have answered nullptr.
EndsRemembered ==
    /\ left = Leftmost(tree)
    /\ right \in {Rightmost(tree), Null}

\* An iterator survives the insertion, replacement and removal of other
\* elements, rotations included: what it has yet to visit is ahead of it, and it
\* ends with nothing left out.  A reverse iterator may end early, by prev.
NoneSkipped ==
    watched # Null =>
        IF it = Null THEN ahead = "left"
        ELSE LET order == InOrder(tree)
             IN  \E i, j \in DOMAIN order :
                    i < j /\ <<order[i], order[j]>> =
                        IF ahead = "right" THEN <<it, watched>> ELSE <<watched, it>>

\* The map is an OrderedMap: every operation puts the element where the order of
\* keys and the direction of insert say, and moves no other.
Ordered == INSTANCE OrderedMap WITH Elem <- Node, order <- InOrder(tree)
OrderedSpec == Ordered!Spec
=============================================================================
