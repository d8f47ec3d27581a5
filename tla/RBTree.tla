------------------------------- MODULE RBTree -------------------------------
(***************************************************************************)
(* rbtree (src/libll++/rbtree.h, rbtree.cpp): the red-black tree under the *)
(* library's maps, as operators on a record of the root and, per node, its *)
(* two links, its parent and its colour.  The code writes every case twice, *)
(* once for each side; here the side is a parameter.                       *)
(***************************************************************************)
EXTENDS Integers, Sequences, FiniteSets

CONSTANTS
    Node,           \* the nodes, members of the elements of the map
    Null            \* no node

Side == {"left", "right"}
Link == Node \cup {Null}

Tree == [root : Link, kid : [Side -> [Node -> Link]],
         parent : [Node -> Link], red : [Node -> BOOLEAN]]

Other(s) == IF s = "left" THEN "right" ELSE "left"

Blank(t, n) ==
    [t EXCEPT !.kid = [s \in Side |-> [t.kid[s] EXCEPT ![n] = Null]],
              !.parent[n] = Null, !.red[n] = FALSE]

EmptyTree ==
    [root |-> Null, kid |-> [s \in Side |-> [n \in Node |-> Null]],
     parent |-> [n \in Node |-> Null], red |-> [n \in Node |-> FALSE]]

IsRed(t, n) == n # Null /\ t.red[n]
Paint(t, n, c) == IF n = Null THEN t ELSE [t EXCEPT !.red[n] = c]
SetParent(t, n, p) == IF n = Null THEN t ELSE [t EXCEPT !.parent[n] = p]

\* The link of p that leads to n; the code looks at _left first.
SideOf(t, p, n) == IF t.kid["left"][p] = n THEN "left" ELSE "right"

\* The link that led to n, of its parent p or _root, leads to m.
Relink(t, p, n, m) ==
    IF p = Null THEN [t EXCEPT !.root = m]
    ELSE [t EXCEPT !.kid[SideOf(t, p, n)][p] = m]

-----------------------------------------------------------------------------
(* Walking. *)

\* The last node from n on towards s: _left of front, _right of back.
Extreme(t, n, s) ==
    LET down[x \in Node] == IF t.kid[s][x] = Null THEN x ELSE down[t.kid[s][x]]
    IN  IF n = Null THEN Null ELSE down[n]

\* front and back.
Leftmost(t) == Extreme(t, t.root, "left")
Rightmost(t) == Extreme(t, t.root, "right")

\* Mutant: without a child the answer is the parent, whichever side n is on.
StepToParent(t, n, s) ==
    IF t.kid[s][n] # Null THEN Extreme(t, t.kid[s][n], Other(s))
    ELSE IF t.parent[n] # Null /\ t.kid[s][t.parent[n]] = n THEN Null ELSE t.parent[n]

\* next for s = "right", prev for s = "left".
Step(t, n, s) ==
    LET climb[x \in Node] ==
            LET p == t.parent[x]
            IN  IF p # Null /\ t.kid[s][p] = x THEN climb[p] ELSE p
    IN  IF t.kid[s][n] # Null THEN Extreme(t, t.kid[s][n], Other(s)) ELSE climb[n]

\* prev first compares the parent with a local variable it has not set yet:
\* if they happen to be equal it returns nullptr.
NextOf(t, n) == {Step(t, n, "right")}
PrevOf(t, n) == {Step(t, n, "left"), Null}

-----------------------------------------------------------------------------
(* Inserting. *)

\* rotate_left and rotate_right: n goes down on side s, its other child up.
Rotate(t, n, s) ==
    LET up == t.kid[Other(s)][n]
        inner == t.kid[s][up]
        p == t.parent[n]
        turned == [t EXCEPT !.kid[Other(s)][n] = inner, !.kid[s][up] = n]
    IN  [Relink(SetParent(turned, inner, n), p, n, up)
            EXCEPT !.parent[up] = p, !.parent[n] = up]

\* Mutant: every child is hung on the left.
LinkedLeft(t, n, p, s) ==
    LET new == [Blank(t, n) EXCEPT !.parent[n] = p, !.red[n] = TRUE]
    IN  IF p = Null THEN [new EXCEPT !.root = n] ELSE [new EXCEPT !.kid["left"][p] = n]

\* link
Linked(t, n, p, s) ==
    LET new == [Blank(t, n) EXCEPT !.parent[n] = p, !.red[n] = TRUE]
    IN  IF p = Null THEN [new EXCEPT !.root = n] ELSE [new EXCEPT !.kid[s][p] = n]

\* insert: the node is red, and so may be its parent.  A pass of the loop:
InsertDone(c) == ~IsRed(c.tree, c.tree.parent[c.node])

InsertPass(c) ==
    LET t == c.tree
        p == t.parent[c.node]
        g == t.parent[p]
        s == SideOf(t, g, p)
        uncle == t.kid[Other(s)][g]
        bent == t.kid[Other(s)][p] = c.node
        straight == IF bent THEN Rotate(t, p, s) ELSE t
        mid == IF bent THEN c.node ELSE p
        low == IF bent THEN p ELSE c.node
    IN  IF IsRed(t, uncle)
        THEN [tree |-> Paint(Paint(Paint(t, uncle, FALSE), p, FALSE), g, TRUE), node |-> g]
        ELSE [tree |-> Rotate(Paint(Paint(straight, mid, FALSE), g, TRUE), g, Other(s)),
              node |-> low]

\* The loop ends: each pass but the last takes node up, so no more than Passes are made.
Passes == Cardinality(Node)

InsertFixup(tree, node) ==
    LET after[i \in 0..Passes] ==
            IF i = 0 THEN [tree |-> tree, node |-> node]
            ELSE LET c == after[i - 1] IN IF InsertDone(c) THEN c ELSE InsertPass(c)
        t == after[Passes].tree
    IN  Paint(t, t.root, FALSE)

-----------------------------------------------------------------------------
(* Removing. *)

\* erase_color: the paths through the node of c, below its parent, are one black
\* node short.
EraseDone(c) == IsRed(c.tree, c.node) \/ c.node = c.tree.root

\* A red sibling on the other side of p goes up, and a black one is there.
SiblingBlack(t, p, s) ==
    LET o == t.kid[Other(s)][p]
    IN  IF IsRed(t, o) THEN Rotate(Paint(Paint(t, o, FALSE), p, TRUE), p, s) ELSE t

\* Of the sibling's children the far one is red, when the near one was.
FarRed(t, p, s) ==
    LET o == t.kid[Other(s)][p]
    IN  IF IsRed(t, t.kid[Other(s)][o]) THEN t
        ELSE Rotate(Paint(Paint(t, t.kid[s][o], FALSE), o, TRUE), o, Other(s))

\* The sibling goes up with the colour of p, and p is the black node missing.
SiblingUp(t, p, s) ==
    LET o == t.kid[Other(s)][p]
        painted == Paint(Paint(t, o, t.red[p]), p, FALSE)
    IN  Rotate(Paint(painted, t.kid[Other(s)][o], FALSE), p, s)

ErasePass(c) ==
    LET p == c.parent
        s == SideOf(c.tree, p, c.node)
        t == SiblingBlack(c.tree, p, s)
        o == t.kid[Other(s)][p]
        up == SiblingUp(FarRed(t, p, s), p, s)
    IN  IF ~IsRed(t, t.kid["left"][o]) /\ ~IsRed(t, t.kid["right"][o])
        THEN [tree |-> Paint(t, o, TRUE), node |-> p, parent |-> t.parent[p]]
        ELSE [tree |-> up, node |-> up.root, parent |-> p]

EraseColor(tree, node, parent) ==
    LET after[i \in 0..Passes] ==
            IF i = 0 THEN [tree |-> tree, node |-> node, parent |-> parent]
            ELSE LET c == after[i - 1] IN IF EraseDone(c) THEN c ELSE ErasePass(c)
        end == after[Passes]
    IN  Paint(end.tree, end.node, FALSE)

\* The node takes the place, the links and the colour of old.
TakePlace(t, old, new) ==
    LET own == [t EXCEPT !.kid = [s \in Side |-> [t.kid[s] EXCEPT ![new] = t.kid[s][old]]],
                         !.parent[new] = t.parent[old], !.red[new] = t.red[old]]
        known == SetParent(SetParent(own, t.kid["left"][old], new), t.kid["right"][old], new)
    IN  Relink(known, t.parent[old], old, new)

\* Mutant: the child that moves up is taken to be black already.
SpliceUnrepaired(t, n) ==
    LET child == IF t.kid["left"][n] = Null THEN t.kid["right"][n] ELSE t.kid["left"][n]
    IN  Relink(SetParent(t, child, t.parent[n]), t.parent[n], n, child)

\* remove of a node with at most one child.
Splice(t, n) ==
    LET child == IF t.kid["left"][n] = Null THEN t.kid["right"][n] ELSE t.kid["left"][n]
        p == t.parent[n]
        cut == Relink(SetParent(t, child, p), p, n, child)
    IN  IF t.red[n] THEN cut ELSE EraseColor(cut, child, p)

\* remove of a node with two: its successor leaves its own place for that of old.
SpliceSuccessor(t, old) ==
    LET n == Extreme(t, t.kid["right"][old], "left")
        child == t.kid["right"][n]
        p == t.parent[n]
        cut == [SetParent(t, child, p) EXCEPT
                    !.kid[IF p = old THEN "right" ELSE "left"][p] = child]
        moved == TakePlace(cut, old, n)
    IN  IF t.red[n] THEN moved ELSE EraseColor(moved, child, IF p = old THEN n ELSE p)

\* No operation reads the links of a node that is out of the tree before link
\* has written them, so they are cleared here.
RBRemove(t, n) ==
    Blank(IF Null \in {t.kid["left"][n], t.kid["right"][n]}
          THEN Splice(t, n) ELSE SpliceSuccessor(t, n), n)

RBReplace(t, victim, new) == Blank(TakePlace(t, victim, new), victim)

-----------------------------------------------------------------------------
(* What a tree holds, and what makes it a red-black tree. *)

InOrder(t) ==
    LET in[n \in Link] ==
            IF n = Null THEN <<>> ELSE in[t.kid["left"][n]] \o <<n>> \o in[t.kid["right"][n]]
    IN  in[t.root]

\* The black nodes on every path down from n, or -1 when paths differ.
BlackHeight(t) ==
    LET height[n \in Link] ==
            IF n = Null THEN 0
            ELSE LET l == height[t.kid["left"][n]]
                     r == height[t.kid["right"][n]]
                 IN  IF l # r \/ l = -1 THEN -1 ELSE l + (IF t.red[n] THEN 0 ELSE 1)
    IN  height[t.root]
=============================================================================
