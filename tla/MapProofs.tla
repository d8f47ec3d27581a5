------------------------------ MODULE MapProofs ------------------------------
(***************************************************************************)
(* Proofs about Map and the red-black tree under it (RBTree): the tree is  *)
(* balanced and in order of keys, the ends are where the map remembers     *)
(* them, an iterator misses nothing, and the map implements OrderedMap.    *)
(*                                                                         *)
(* None of this needs a recursion over the tree.  A label of a node names  *)
(* its place in order, the edges of the stretch of places its subtree      *)
(* takes, and the black nodes below it; that a tree is in order and        *)
(* balanced is then a relation between the labels of neighbours, and each  *)
(* step of a repair, a rotation or a change of colour, is answered by a    *)
(* change of few labels.  The width of a stretch bounds the loops.  The    *)
(* recursive functions of the models, the loops of the code, are compared  *)
(* to a walk that follows single steps for as long as a measure descends.  *)
(***************************************************************************)
EXTENDS Map, Lemmas

-----------------------------------------------------------------------------
(* The fields of a tree, node by node. *)
Kid(t, s, n) == t.kid[s][n]
Up(t, n) == t.parent[n]

\* The red nodes.
Red(t) == {n \in Node : t.red[n]}

Root(t) == t.root

Dir(s) == IF s = "left" THEN -1 ELSE 1

\* r differs from t in these fields of these nodes only.
WithKid(t, d, x, y) == [t EXCEPT !.kid[d][x] = y]
WithParent(t, x, y) == [t EXCEPT !.parent[x] = y]
WithReds(t, red) == [t EXCEPT !.red = red]
WithRoot(t, y) == [t EXCEPT !.root = y]

\* The two sides, and which is the other.
LEMMA SideIs ==
    /\ Null \notin Node /\ "left" \in Side /\ "right" \in Side /\ "left" # "right"
    /\ Other("left") = "right" /\ Other("right") = "left"
    /\ Dir("left") = -1 /\ Dir("right") = 1
    /\ \A s \in Side : s = "left" \/ s = "right"
  <1>1. Null \notin Node
    BY MapAssumption
  <1>2. /\ "left" \in Side /\ "right" \in Side /\ "left" # "right"
        /\ \A s \in Side : s = "left" \/ s = "right"
    BY DEF Side
  <1>3. /\ Other("left") = "right" /\ Other("right") = "left"
        /\ Dir("left") = -1 /\ Dir("right") = 1
    BY DEF Other, Dir
  <1> QED BY <1>1, <1>2, <1>3

\* Other swaps the sides, and Dir their signs.
LEMMA OtherIs ==
    ASSUME NEW s \in Side
    PROVE  /\ Other(s) \in Side /\ Other(s) # s /\ Other(Other(s)) = s
           /\ Dir(Other(s)) = 0 - Dir(s) /\ (Dir(s) = 1 \/ Dir(s) = -1)
           /\ \A d \in Side : d = s \/ d = Other(s)
  BY SideIs

\* The fields of a tree.
LEMMA TreeType ==
    ASSUME NEW t \in Tree
    PROVE  /\ t.root \in Node \cup {Null}
           /\ t.parent \in [Node -> Node \cup {Null}] /\ t.red \in [Node -> BOOLEAN]
           /\ t.kid \in [Side -> [Node -> Node \cup {Null}]]
           /\ t = [root |-> t.root, kid |-> t.kid, parent |-> t.parent, red |-> t.red]
  BY DEF Tree, Link

\* The fields of a tree, node by node.
LEMMA FieldsType ==
    ASSUME NEW t \in Tree
    PROVE  /\ Root(t) \in Node \cup {Null}
           /\ \A n \in Node : Up(t, n) \in Node \cup {Null}
           /\ Red(t) \subseteq Node
           /\ \A n \in Node, s \in Side : Kid(t, s, n) \in Node \cup {Null}
  BY TreeType DEF Root, Up, Red, Kid

\* IsRed is membership in Red; Null is black.
LEMMA IsRedIs ==
    ASSUME NEW t, NEW n, n \in Node \cup {Null}
    PROVE  IsRed(t, n) <=> n \in Red(t)
  BY SideIs DEF IsRed, Red

\* Four fields of the right type are a tree.
LEMMA OtherTree ==
    ASSUME NEW t \in Tree, NEW kid \in [Side -> [Node -> Node \cup {Null}]],
           NEW parent \in [Node -> Node \cup {Null}], NEW root \in Node \cup {Null},
           NEW red \in [Node -> BOOLEAN]
    PROVE  [root |-> root, kid |-> kid, parent |-> parent, red |-> red] \in Tree
  BY TreeType DEF Tree, Link

\* What each assignment to a tree changes, and that it changes nothing else: a link down,
LEMMA WithKidIs ==
    ASSUME NEW t, NEW d, NEW x, NEW y,
           t \in Tree, d \in Side, x \in Node, y \in Node \cup {Null}
    PROVE  /\ WithKid(t, d, x, y) \in Tree
           /\ Root(WithKid(t, d, x, y)) = Root(t)
           /\ \A z \in Node : Up(WithKid(t, d, x, y), z) = Up(t, z)
           /\ Red(WithKid(t, d, x, y)) = Red(t)
           /\ \A e \in Side, z \in Node :
                Kid(WithKid(t, d, x, y), e, z) = IF e = d /\ z = x THEN y ELSE Kid(t, e, z)
  <1> DEFINE r == WithKid(t, d, x, y)
             k == [t.kid EXCEPT ![d][x] = y]
  <1>1. r = [t EXCEPT !.kid = k]
    BY DEF WithKid
  <1>2. k \in [Side -> [Node -> Node \cup {Null}]]
        /\ \A e \in Side, z \in Node : k[e][z] = IF e = d /\ z = x THEN y ELSE t.kid[e][z]
    BY TreeType
  <1> HIDE DEF k, r
  <1>3. r = [root |-> t.root, kid |-> k, parent |-> t.parent, red |-> t.red]
    <2>1. t = [root |-> t.root, kid |-> t.kid, parent |-> t.parent, red |-> t.red]
      BY TreeType
    <2> QED BY <1>1, <2>1
  <1>4. r \in Tree
    BY <1>2, <1>3, TreeType DEF Tree, Link
  <1>5. r.root = t.root /\ r.parent = t.parent /\ r.red = t.red /\ r.kid = k
    BY <1>3
  <1> QED BY <1>2, <1>4, <1>5 DEF r, Root, Up, Red, Kid

\* a link up,
LEMMA WithParentIs ==
    ASSUME NEW t, NEW x, NEW y,
           t \in Tree, x \in Node, y \in Node \cup {Null}
    PROVE  /\ WithParent(t, x, y) \in Tree
           /\ Root(WithParent(t, x, y)) = Root(t)
           /\ \A z \in Node : Up(WithParent(t, x, y), z) = IF z = x THEN y ELSE Up(t, z)
           /\ Red(WithParent(t, x, y)) = Red(t)
           /\ \A e \in Side, z \in Node : Kid(WithParent(t, x, y), e, z) = Kid(t, e, z)
  <1> DEFINE r == WithParent(t, x, y)
             k == [t.parent EXCEPT ![x] = y]
  <1>1. k \in [Node -> Node \cup {Null}]
        /\ \A z \in Node : k[z] = IF z = x THEN y ELSE t.parent[z]
    BY TreeType
  <1>2. r = [t EXCEPT !.parent = k]
    BY DEF WithParent
  <1> HIDE DEF k, r
  <1>3. r = [root |-> t.root, kid |-> t.kid, parent |-> k, red |-> t.red]
    <2>1. t = [root |-> t.root, kid |-> t.kid, parent |-> t.parent, red |-> t.red]
      BY TreeType
    <2> QED BY <1>2, <2>1
  <1>4. r \in Tree
    BY <1>1, <1>3, TreeType DEF Tree, Link
  <1>5. r.root = t.root /\ r.parent = k /\ r.red = t.red /\ r.kid = t.kid
    BY <1>3
  <1> QED BY <1>1, <1>4, <1>5 DEF r, Root, Up, Red, Kid

\* the colours,
LEMMA WithRedsIs ==
    ASSUME NEW t, NEW red, t \in Tree, red \in [Node -> BOOLEAN]
    PROVE  /\ WithReds(t, red) \in Tree
           /\ Root(WithReds(t, red)) = Root(t)
           /\ \A z \in Node : Up(WithReds(t, red), z) = Up(t, z)
           /\ Red(WithReds(t, red)) = {z \in Node : red[z]}
           /\ \A e \in Side, z \in Node : Kid(WithReds(t, red), e, z) = Kid(t, e, z)
  <1> DEFINE r == WithReds(t, red)
  <1>2. r = [t EXCEPT !.red = red]
    BY DEF WithReds
  <1> HIDE DEF r
  <1>3. r = [root |-> t.root, kid |-> t.kid, parent |-> t.parent, red |-> red]
    <2>1. t = [root |-> t.root, kid |-> t.kid, parent |-> t.parent, red |-> t.red]
      BY TreeType
    <2> QED BY <1>2, <2>1
  <1>4. r \in Tree
    BY <1>3, TreeType DEF Tree, Link
  <1>5. r.root = t.root /\ r.parent = t.parent /\ r.red = red /\ r.kid = t.kid
    BY <1>3
  <1> QED BY <1>4, <1>5 DEF r, Root, Up, Red, Kid

\* the root,
LEMMA WithRootIs ==
    ASSUME NEW t, NEW y,
           t \in Tree, y \in Node \cup {Null}
    PROVE  /\ WithRoot(t, y) \in Tree
           /\ Root(WithRoot(t, y)) = y
           /\ \A z \in Node : Up(WithRoot(t, y), z) = Up(t, z)
           /\ Red(WithRoot(t, y)) = Red(t)
           /\ \A e \in Side, z \in Node : Kid(WithRoot(t, y), e, z) = Kid(t, e, z)
  <1> DEFINE r == WithRoot(t, y)
  <1>1. r = [t EXCEPT !.root = y]
    BY DEF WithRoot
  <1> HIDE DEF r
  <1>3. r = [root |-> y, kid |-> t.kid, parent |-> t.parent, red |-> t.red]
    <2>1. t = [root |-> t.root, kid |-> t.kid, parent |-> t.parent, red |-> t.red]
      BY TreeType
    <2> QED BY <1>1, <2>1
  <1>4. r \in Tree
    BY <1>3, TreeType DEF Tree, Link
  <1>5. r.root = y /\ r.parent = t.parent /\ r.red = t.red /\ r.kid = t.kid
    BY <1>3
  <1> QED BY <1>4, <1>5 DEF r, Root, Up, Red, Kid

-----------------------------------------------------------------------------
(* The operators. *)

Redden(t, x) == Paint(t, x, TRUE)

\* The colour assignments of the code.
Blacken(t, x) == Paint(t, x, FALSE)

\* one colour to red,
LEMMA ReddenIs ==
    ASSUME NEW t, NEW x, t \in Tree, x \in Node
    PROVE  /\ Redden(t, x) \in Tree
           /\ Root(Redden(t, x)) = Root(t)
           /\ \A z \in Node : Up(Redden(t, x), z) = Up(t, z)
           /\ Red(Redden(t, x)) = Red(t) \cup {x}
           /\ \A e \in Side, z \in Node : Kid(Redden(t, x), e, z) = Kid(t, e, z)
  <1> DEFINE red == [t.red EXCEPT ![x] = TRUE]
  <1>1. Redden(t, x) = WithReds(t, red)
    BY SideIs DEF Paint, Redden, Blacken, WithReds
  <1>2. red \in [Node -> BOOLEAN]
    BY TreeType
  <1>3. {z \in Node : red[z]} = Red(t) \cup {x}
    BY TreeType DEF Red
  <1> DEFINE r == Redden(t, x)  w == WithReds(t, red)
  <1>4. /\ w \in Tree /\ Root(w) = Root(t) /\ Red(w) = {z \in Node : red[z]}
        /\ \A z \in Node : Up(w, z) = Up(t, z)
        /\ \A e \in Side, z \in Node : Kid(w, e, z) = Kid(t, e, z)
    BY <1>2, WithRedsIs
  <1> HIDE DEF red, r, w
  <1>5. r = w /\ Red(w) = Red(t) \cup {x}
    BY <1>1, <1>3, <1>4 DEF r, w
  <1> QED BY <1>4, <1>5 DEF r

\* one colour to black,
LEMMA BlackenIs ==
    ASSUME NEW t, NEW x, t \in Tree, x \in Node \cup {Null}
    PROVE  /\ Blacken(t, x) \in Tree
           /\ Root(Blacken(t, x)) = Root(t)
           /\ \A z \in Node : Up(Blacken(t, x), z) = Up(t, z)
           /\ Red(Blacken(t, x)) = Red(t) \ {x}
           /\ \A e \in Side, z \in Node : Kid(Blacken(t, x), e, z) = Kid(t, e, z)
  <1>1. CASE x = Null
    <2>1. Blacken(t, x) = t
      BY <1>1 DEF Paint, Blacken
    <2>2. Red(t) = Red(t) \ {x}
      BY <1>1, SideIs DEF Red
    <2> QED BY <2>1, <2>2
  <1>2. CASE x # Null
    <2> DEFINE red == [t.red EXCEPT ![x] = FALSE]
    <2>1. Blacken(t, x) = WithReds(t, red)
      BY <1>2, SideIs DEF Paint, Redden, Blacken, WithReds
    <2>2. red \in [Node -> BOOLEAN]
      BY TreeType
    <2>3. {z \in Node : red[z]} = Red(t) \ {x}
      BY <1>2, TreeType DEF Red
    <2> DEFINE r == Blacken(t, x)  w == WithReds(t, red)
    <2>4. /\ w \in Tree /\ Root(w) = Root(t) /\ Red(w) = {z \in Node : red[z]}
          /\ \A z \in Node : Up(w, z) = Up(t, z)
          /\ \A e \in Side, z \in Node : Kid(w, e, z) = Kid(t, e, z)
      BY <2>2, WithRedsIs
    <2> HIDE DEF red, r, w
    <2>5. r = w /\ Red(w) = Red(t) \ {x}
      BY <2>1, <2>3, <2>4 DEF r, w
    <2> QED BY <2>4, <2>5 DEF r
  <1> QED BY <1>1, <1>2

\* a link up of a node that may be Null,
LEMMA SetParentIs ==
    ASSUME NEW t, NEW x, NEW y,
           t \in Tree, x \in Node \cup {Null}, y \in Node \cup {Null}
    PROVE  /\ SetParent(t, x, y) \in Tree
           /\ Root(SetParent(t, x, y)) = Root(t)
           /\ \A z \in Node : Up(SetParent(t, x, y), z) = IF z = x THEN y ELSE Up(t, z)
           /\ Red(SetParent(t, x, y)) = Red(t)
           /\ \A e \in Side, z \in Node : Kid(SetParent(t, x, y), e, z) = Kid(t, e, z)
  <1>1. CASE x = Null
    <2>1. SetParent(t, x, y) = t
      BY <1>1 DEF SetParent
    <2> QED BY <1>1, <2>1, SideIs
  <1>2. CASE x # Null
    <2>1. SetParent(t, x, y) = WithParent(t, x, y) /\ x \in Node
      BY <1>2 DEF SetParent, WithParent
    <2> QED BY <2>1, WithParentIs
  <1> QED BY <1>1, <1>2

\* the side on which the code looks for a child,
LEMMA SideOfIs ==
    ASSUME NEW t, NEW p, NEW n
    PROVE  /\ SideOf(t, p, n) \in Side
           /\ SideOf(t, p, n) = IF Kid(t, "left", p) = n THEN "left" ELSE "right"
  BY SideIs DEF SideOf, Kid

\* and the link that led to a node (set_parent_child): to another one.
LEMMA RelinkIs ==
    ASSUME NEW t, NEW p, NEW n, NEW m,
           t \in Tree, p \in Node \cup {Null}, m \in Node \cup {Null}
    PROVE  /\ Relink(t, p, n, m) \in Tree
           /\ Root(Relink(t, p, n, m)) = IF p = Null THEN m ELSE Root(t)
           /\ \A z \in Node : Up(Relink(t, p, n, m), z) = Up(t, z)
           /\ Red(Relink(t, p, n, m)) = Red(t)
           /\ \A e \in Side, z \in Node :
                Kid(Relink(t, p, n, m), e, z) =
                    IF z = p /\ e = SideOf(t, p, n) THEN m ELSE Kid(t, e, z)
  <1>1. CASE p = Null
    <2>1. Relink(t, p, n, m) = WithRoot(t, m)
      BY <1>1 DEF Relink, WithRoot
    <2> QED BY <1>1, <2>1, WithRootIs, SideIs
  <1>2. CASE p # Null
    <2>1. Relink(t, p, n, m) = WithKid(t, SideOf(t, p, n), p, m) /\ p \in Node
      BY <1>2 DEF Relink, WithKid
    <2> QED BY <1>2, <2>1, WithKidIs, SideOfIs
  <1> QED BY <1>1, <1>2

\* rotate, its reads done: up rises on side o of n, inner changes hands.
Turn(t, n, s, o, up, inner, p) ==
    WithParent(WithParent(Relink(SetParent(
        WithKid(WithKid(t, o, n, inner), s, up, n), inner, n), p, n, up), up, p), n, up)

\* What a rotation assigns.
LEMMA TurnIs ==
    ASSUME NEW t, NEW n, NEW s, NEW o, NEW up, NEW inner, NEW p,
           t \in Tree, n \in Node, s \in Side, o \in Side, up \in Node,
           inner \in Node \cup {Null}, p \in Node \cup {Null}
    PROVE  /\ Turn(t, n, s, o, up, inner, p) \in Tree
           /\ Root(Turn(t, n, s, o, up, inner, p)) = IF p = Null THEN up ELSE Root(t)
           /\ Red(Turn(t, n, s, o, up, inner, p)) = Red(t)
           /\ \A x \in Node :
                   Up(Turn(t, n, s, o, up, inner, p), x) =
                     IF x = n THEN up ELSE IF x = up THEN p
                     ELSE IF x = inner THEN n ELSE Up(t, x)
           /\ \E b \in Side :
              /\ p \in Node \ {n, up} => b = SideOf(t, p, n)
              /\ \A d \in Side, x \in Node :
                Kid(Turn(t, n, s, o, up, inner, p), d, x) =
                    IF x = p /\ d = b THEN up
                    ELSE IF x = up /\ d = s THEN n
                    ELSE IF x = n /\ d = o THEN inner
                    ELSE Kid(t, d, x)
  <1> DEFINE t1 == WithKid(t, o, n, inner)
             t2 == WithKid(t1, s, up, n)
             t3 == SetParent(t2, inner, n)
             t4 == Relink(t3, p, n, up)
             t5 == WithParent(t4, up, p)
             t6 == WithParent(t5, n, up)
  <1>2. Turn(t, n, s, o, up, inner, p) = t6
    BY DEF Turn
  <1>3. /\ t1 \in Tree /\ Root(t1) = Root(t)
        /\ \A z \in Node : Up(t1, z) = Up(t, z)
        /\ Red(t1) = Red(t)
        /\ \A e \in Side, z \in Node :
             Kid(t1, e, z) = IF e = o /\ z = n THEN inner ELSE Kid(t, e, z)
    BY WithKidIs
  <1> HIDE DEF t1
  <1>4. /\ t2 \in Tree /\ Root(t2) = Root(t1)
        /\ \A z \in Node : Up(t2, z) = Up(t1, z)
        /\ Red(t2) = Red(t1)
        /\ \A e \in Side, z \in Node : Kid(t2, e, z) = IF e = s /\ z = up THEN n ELSE Kid(t1, e, z)
    <2>1. t1 \in Tree
      BY <1>3
    <2> QED BY <2>1, WithKidIs
  <1> HIDE DEF t2
  <1>5. /\ t3 \in Tree /\ Root(t3) = Root(t2)
        /\ Red(t3) = Red(t2)
        /\ \A e \in Side, z \in Node : Kid(t3, e, z) = Kid(t2, e, z)
        /\ \A z \in Node : Up(t3, z) = IF z = inner THEN n ELSE Up(t2, z)
    <2>1. t2 \in Tree
      BY <1>4
    <2> QED BY <2>1, SetParentIs
  <1> HIDE DEF t3
  <1>6. /\ t4 \in Tree
        /\ \A z \in Node : Up(t4, z) = Up(t3, z)
        /\ Red(t4) = Red(t3)
        /\ Root(t4) = IF p = Null THEN up ELSE Root(t3)
        /\ \A e \in Side, z \in Node :
             Kid(t4, e, z) = IF z = p /\ e = SideOf(t3, p, n) THEN up ELSE Kid(t3, e, z)
    <2>1. t3 \in Tree
      BY <1>5
    <2> QED BY <2>1, RelinkIs
  <1> HIDE DEF t4
  <1>7. /\ t5 \in Tree /\ Root(t5) = Root(t4)
        /\ Red(t5) = Red(t4)
        /\ \A e \in Side, z \in Node : Kid(t5, e, z) = Kid(t4, e, z)
        /\ \A z \in Node : Up(t5, z) = IF z = up THEN p ELSE Up(t4, z)
    <2>1. t4 \in Tree
      BY <1>6
    <2> QED BY <2>1, WithParentIs
  <1> HIDE DEF t5
  <1>8. /\ t6 \in Tree /\ Root(t6) = Root(t5)
        /\ Red(t6) = Red(t5)
        /\ \A e \in Side, z \in Node : Kid(t6, e, z) = Kid(t5, e, z)
        /\ \A z \in Node : Up(t6, z) = IF z = n THEN up ELSE Up(t5, z)
    <2>1. t5 \in Tree
      BY <1>7
    <2> QED BY <2>1, WithParentIs
  <1> HIDE DEF t6
  <1>9. p \in Node \ {n, up} => SideOf(t3, p, n) = SideOf(t, p, n)
    <2> SUFFICES ASSUME p \in Node \ {n, up} PROVE SideOf(t3, p, n) = SideOf(t, p, n)
      OBVIOUS
    <2>1. Kid(t3, "left", p) = Kid(t, "left", p)
      BY <1>3, <1>4, <1>5, SideIs
    <2> QED BY <2>1, SideOfIs
  <1>10. \A d \in Side, x \in Node :
                Kid(t6, d, x) =
                    IF x = p /\ d = SideOf(t3, p, n) THEN up
                    ELSE IF x = up /\ d = s THEN n
                    ELSE IF x = n /\ d = o THEN inner
                    ELSE Kid(t, d, x)
    BY <1>3, <1>4, <1>5, <1>6, <1>7, <1>8
  <1>11. /\ Red(t6) = Red(t)
         /\ \A x \in Node :
              Up(t6, x) = IF x = n THEN up ELSE IF x = up THEN p
                           ELSE IF x = inner THEN n ELSE Up(t, x)
    BY <1>3, <1>4, <1>5, <1>6, <1>7, <1>8
  <1>12. Root(t6) = IF p = Null THEN up ELSE Root(t)
    BY <1>3, <1>4, <1>5, <1>6, <1>7, <1>8
  <1>13. SideOf(t3, p, n) \in Side
    BY SideOfIs
  <1> QED BY <1>2, <1>8, <1>9, <1>10, <1>11, <1>12, <1>13

\* What becomes of each link when n goes down on side s.
LEMMA RotateIs ==
    ASSUME NEW t, NEW n, NEW s, NEW up, NEW inner, NEW p,
           t \in Tree, n \in Node, s \in Side, up \in Node, up = Kid(t, Other(s), n),
           inner = Kid(t, s, up), p = Up(t, n), p \notin {n, up}
    PROVE  /\ Rotate(t, n, s) \in Tree
           /\ Root(Rotate(t, n, s)) = IF p = Null THEN up ELSE Root(t)
           /\ Red(Rotate(t, n, s)) = Red(t)
           /\ \A x \in Node :
                   Up(Rotate(t, n, s), x) =
                     IF x = n THEN up ELSE IF x = up THEN p
                     ELSE IF x = inner THEN n ELSE Up(t, x)
           /\ \A d \in Side, x \in Node :
                Kid(Rotate(t, n, s), d, x) =
                    IF x = p /\ d = SideOf(t, p, n) THEN up
                    ELSE IF x = up /\ d = s THEN n
                    ELSE IF x = n /\ d = Other(s) THEN inner
                    ELSE Kid(t, d, x)
  <1>1. Rotate(t, n, s) = Turn(t, n, s, Other(s), up, inner, p)
    BY DEF Rotate, Turn, WithKid, WithParent, Kid, Up
  <1>2. /\ Other(s) \in Side /\ inner \in Node \cup {Null} /\ p \in Node \cup {Null}
        /\ Null \notin Node
    BY FieldsType, SideIs, OtherIs
  <1> DEFINE r == Turn(t, n, s, Other(s), up, inner, p)
  <1>3. /\ r \in Tree /\ Root(r) = IF p = Null THEN up ELSE Root(t)
        /\ Red(r) = Red(t)
        /\ \A x \in Node :
                   Up(r, x) = IF x = n THEN up ELSE IF x = up THEN p
                              ELSE IF x = inner THEN n ELSE Up(t, x)
    BY <1>2, TurnIs
  <1>4. PICK b \in Side :
              /\ p \in Node \ {n, up} => b = SideOf(t, p, n)
              /\ \A d \in Side, x \in Node :
                Kid(r, d, x) =
                    IF x = p /\ d = b THEN up
                    ELSE IF x = up /\ d = s THEN n
                    ELSE IF x = n /\ d = Other(s) THEN inner
                    ELSE Kid(t, d, x)
    BY <1>2, TurnIs
  <1> HIDE DEF r
  <1>5. \A d \in Side, x \in Node :
                Kid(r, d, x) =
                    IF x = p /\ d = SideOf(t, p, n) THEN up
                    ELSE IF x = up /\ d = s THEN n
                    ELSE IF x = n /\ d = Other(s) THEN inner
                    ELSE Kid(t, d, x)
    BY <1>2, <1>4
  <1> QED BY <1>1, <1>3, <1>5 DEF r

-----------------------------------------------------------------------------
(* The shape of a tree.  Labels say where its nodes lie: pos is the place   *)
(* of a node in the order, edge the first and the last place of its         *)
(* subtree, black the black nodes on every path below it.                   *)

Labels == [pos : [Node -> Int], edge : [Side -> [Node -> Int]], black : [Node -> Int]]

\* A label gives each node a place in order, the first and last place of its subtree,
\* and the black nodes on a way down from it.
Pos(L, n) == L.pos[n]
Edge(L, s, n) == L.edge[s][n]
Black(L, n) == L.black[n]

\* The subtree on side s of n goes from next to n to the edge of n.
Leads(t, L, n, s) ==
    IF Kid(t, s, n) = Null THEN Edge(L, s, n) = Pos(L, n)
    ELSE /\ Up(t, Kid(t, s, n)) = n
         /\ Edge(L, s, Kid(t, s, n)) = Edge(L, s, n)
         /\ Edge(L, Other(s), Kid(t, s, n)) = Pos(L, n) + Dir(s)

\* Places are distinct, and a node is within its subtree.
Placed(E, L) ==
    /\ \A m \in E, n \in E : Pos(L, m) = Pos(L, n) => m = n
    /\ \A n \in E : Edge(L, "left", n) <= Pos(L, n) /\ Pos(L, n) <= Edge(L, "right", n)

\* Links lead from a subtree to the part of it on their side, and back.
Joined(t, E, L) ==
    /\ \A n \in E, s \in Side : Kid(t, s, n) \in E \cup {Null} /\ Leads(t, L, n, s)
    /\ \A n \in E : n # Root(t) =>
         /\ Up(t, n) \in E
         /\ Kid(t, "left", Up(t, n)) = n \/ Kid(t, "right", Up(t, n)) = n

\* The root is the element nobody links to; its subtree begins at place 1.
Rooted(t, E, L) ==
    IF Root(t) = Null THEN E = {}
    ELSE Root(t) \in E /\ Up(t, Root(t)) = Null /\ Edge(L, "left", Root(t)) = 1

\* t is a search tree of the elements E, as L places them.
Shape(t, E, L) ==
    /\ t \in Tree /\ L \in Labels /\ E \subseteq Node
    /\ Placed(E, L) /\ Joined(t, E, L) /\ Rooted(t, E, L)

\* The fields of labels are integers.
LEMMA LabelType ==
    ASSUME NEW L, L \in Labels
    PROVE  /\ \A n \in Node : Pos(L, n) \in Int /\ Black(L, n) \in Int
           /\ \A s \in Side, n \in Node : Edge(L, s, n) \in Int
  BY DEF Labels, Pos, Edge, Black

\* Labels given by functions of the nodes.
LEMMA LabelsAre ==
    ASSUME NEW pos, NEW edge, NEW black, NEW L,
           pos \in [Node -> Int], edge \in [Side -> [Node -> Int]], black \in [Node -> Int],
           L = [pos |-> pos, edge |-> edge, black |-> black]
    PROVE  /\ L \in Labels
           /\ \A n \in Node : Pos(L, n) = pos[n] /\ Black(L, n) = black[n]
           /\ \A s \in Side, n \in Node : Edge(L, s, n) = edge[s][n]
  BY DEF Labels, Pos, Edge, Black

\* A node and its child: the places of the child are the node's on its side.
LEMMA ChildIs ==
    ASSUME NEW t, NEW E, NEW L, NEW n, NEW s,
           Shape(t, E, L), n \in E, s \in Side, Kid(t, s, n) # Null
    PROVE  /\ Kid(t, s, n) \in E /\ Kid(t, s, n) # n /\ Up(t, Kid(t, s, n)) = n
           /\ Kid(t, Other(s), n) # Kid(t, s, n) /\ Up(t, n) # Kid(t, s, n)
           /\ SideOf(t, n, Kid(t, s, n)) = s
           /\ Kid(t, s, n) # Root(t)
  <1> DEFINE c == Kid(t, s, n)
  <1>0. t \in Tree /\ E \subseteq Node /\ L \in Labels /\ Joined(t, E, L) /\ Rooted(t, E, L)
        /\ Placed(E, L)
    BY DEF Shape
  <1>1. c \in E /\ Up(t, c) = n /\ Edge(L, s, c) = Edge(L, s, n)
        /\ Edge(L, Other(s), c) = Pos(L, n) + Dir(s)
    BY <1>0 DEF Joined, Leads
  <1> HIDE DEF c
  <1>2. /\ Edge(L, "left", c) <= Pos(L, c) /\ Pos(L, c) <= Edge(L, "right", c)
        /\ Edge(L, "left", n) <= Pos(L, n) /\ Pos(L, n) <= Edge(L, "right", n)
        /\ Pos(L, c) \in Int /\ Pos(L, n) \in Int
        /\ Edge(L, "left", c) \in Int /\ Edge(L, "right", c) \in Int
        /\ Edge(L, "left", n) \in Int /\ Edge(L, "right", n) \in Int
    <2>1. c \in Node /\ n \in Node /\ "left" \in Side /\ "right" \in Side
      BY <1>0, <1>1, SideIs
    <2> QED BY <1>0, <1>1, <2>1, LabelType DEF Placed
  <1>3. c # n
    BY <1>1, <1>2, SideIs
  <1>4. Kid(t, Other(s), n) # c
    <2> SUFFICES ASSUME Kid(t, Other(s), n) = c PROVE FALSE
      OBVIOUS
    <2>1. Edge(L, Other(s), c) = Edge(L, Other(s), n) /\ Edge(L, s, c) = Pos(L, n) + Dir(Other(s))
      <3>1. Leads(t, L, n, Other(s)) /\ Kid(t, Other(s), n) # Null
        <4>1. Other(s) \in Side /\ Null \notin Node
          BY SideIs
        <4> QED BY <1>0, <1>1, <4>1 DEF Joined
      <3>2. Other(Other(s)) = s
        BY SideIs
      <3> QED BY <3>1, <3>2 DEF Leads
    <2> QED BY <1>1, <1>2, <2>1, SideIs
  <1>5. Up(t, n) # c
    <2> SUFFICES ASSUME Up(t, n) = c PROVE FALSE
      OBVIOUS
    <2>1. n # Root(t)
      <3>1. c # Null
        BY <1>0, <1>1, SideIs
      <3> QED BY <1>0, <3>1, SideIs DEF Rooted
    <2>2. PICK d \in Side : Kid(t, d, c) = n
      BY <1>0, <2>1, SideIs DEF Joined
    <2>3. Edge(L, d, n) = Edge(L, d, c) /\ Edge(L, Other(d), n) = Pos(L, c) + Dir(d)
      <3>1. Leads(t, L, c, d) /\ Kid(t, d, c) # Null
        BY <1>0, <1>1, <2>2, SideIs DEF Joined
      <3> QED BY <2>2, <3>1 DEF Leads
    <2>4. d = s \/ d = Other(s)
      BY OtherIs
    <2> QED BY <1>1, <1>2, <2>3, <2>4, SideIs
  <1>6. SideOf(t, n, c) = s
    BY <1>4, SideIs, SideOfIs DEF c
  <1>7. c # Root(t)
    BY <1>0, <1>1, SideIs DEF Rooted
  <1> QED BY <1>1, <1>3, <1>4, <1>5, <1>6, <1>7 DEF c

\* The parent of an element, and its side of it.
LEMMA ParentIs ==
    ASSUME NEW t, NEW E, NEW L, NEW n, Shape(t, E, L), n \in E
    PROVE  /\ n \in Node /\ Root(t) \in E
           /\ Up(t, n) = Null <=> n = Root(t)
           /\ n # Root(t) =>
                /\ Up(t, n) \in E /\ Up(t, n) # n
                /\ SideOf(t, Up(t, n), n) \in Side /\ Kid(t, SideOf(t, Up(t, n), n), Up(t, n)) = n
  <1>0. t \in Tree /\ E \subseteq Node /\ Joined(t, E, L) /\ Rooted(t, E, L)
    BY DEF Shape
  <1>1. Root(t) \in E /\ Up(t, Root(t)) = Null
    BY <1>0 DEF Rooted
  <1>2. ASSUME n # Root(t)
        PROVE  /\ Up(t, n) \in E /\ Up(t, n) # n
               /\ SideOf(t, Up(t, n), n) \in Side /\ Kid(t, SideOf(t, Up(t, n), n), Up(t, n)) = n
    <2>1. Up(t, n) \in E
      BY <1>0, <1>2 DEF Joined
    <2>2. PICK s \in Side : Kid(t, s, Up(t, n)) = n
      BY <1>0, <1>2, SideIs DEF Joined
    <2>3. n # Null
      BY <1>0, SideIs
    <2>4. SideOf(t, Up(t, n), n) = s /\ n # Up(t, n)
      BY <2>1, <2>2, <2>3, ChildIs
    <2> QED BY <2>1, <2>2, <2>4
  <1> QED BY <1>0, <1>1, <1>2, SideIs

\* The shape does not depend on the colours.
LEMMA ShapeSame ==
    ASSUME NEW t, NEW E, NEW L, NEW r, NEW M, Shape(t, E, L), r \in Tree, M \in Labels,
           Root(r) = Root(t),
           \A x \in E : Up(r, x) = Up(t, x) /\ Pos(M, x) = Pos(L, x),
           \A d \in Side, x \in E : Kid(r, d, x) = Kid(t, d, x) /\ Edge(M, d, x) = Edge(L, d, x)
    PROVE  Shape(r, E, M)
  <1>0. t \in Tree /\ E \subseteq Node /\ L \in Labels /\ Joined(t, E, L) /\ Rooted(t, E, L)
        /\ Placed(E, L)
    BY DEF Shape
  <1>1. Placed(E, M)
    BY <1>0, SideIs DEF Placed
  <1>2. ASSUME NEW n \in E, NEW s \in Side
        PROVE  Kid(r, s, n) \in E \cup {Null} /\ Leads(r, M, n, s)
    <2>1. Kid(t, s, n) \in E \cup {Null} /\ Leads(t, L, n, s)
      BY <1>0 DEF Joined
    <2>2. CASE Kid(t, s, n) = Null
      BY <2>1, <2>2 DEF Leads
    <2>3. CASE Kid(t, s, n) # Null
      <3> DEFINE c == Kid(t, s, n)
      <3>1. c \in E /\ Other(s) \in Side /\ Kid(r, s, n) = c /\ c # Null
        BY <2>1, <2>3, OtherIs
      <3>2. Up(t, c) = n /\ Edge(L, s, c) = Edge(L, s, n) /\ Edge(L, Other(s), c) = Pos(L, n) + Dir(s)
        BY <2>1, <2>3 DEF Leads
      <3> HIDE DEF c
      <3> QED BY <3>1, <3>2 DEF Leads
    <2> QED BY <2>2, <2>3
  <1>3. \A n \in E : n # Root(r) =>
           /\ Up(r, n) \in E
           /\ Kid(r, "left", Up(r, n)) = n \/ Kid(r, "right", Up(r, n)) = n
    BY <1>0, SideIs DEF Joined
  <1>4. Rooted(r, E, M)
    BY <1>0, SideIs DEF Rooted
  <1> QED BY <1>0, <1>1, <1>2, <1>3, <1>4 DEF Shape, Joined

\* The labels after n has gone down on side s and up has come up.
Turned(L, n, up, s) ==
    [pos |-> L.pos,
     edge |-> [d \in Side |-> [x \in Node |->
                 IF x = up THEN Edge(L, d, n)
                 ELSE IF x = n /\ d = Other(s) THEN Pos(L, up) + Dir(s)
                 ELSE Edge(L, d, x)]],
     black |-> L.black]

\* How a rotation moves the edges of two subtrees.
LEMMA TurnedIs ==
    ASSUME NEW L, NEW n, NEW up, NEW s, L \in Labels, n \in Node, up \in Node, s \in Side
    PROVE  /\ Turned(L, n, up, s) \in Labels
           /\ \A x \in Node : /\ Pos(Turned(L, n, up, s), x) = Pos(L, x)
                              /\ Black(Turned(L, n, up, s), x) = Black(L, x)
           /\ \A d \in Side, x \in Node :
                Edge(Turned(L, n, up, s), d, x) =
                    IF x = up THEN Edge(L, d, n)
                    ELSE IF x = n /\ d = Other(s) THEN Pos(L, up) + Dir(s)
                    ELSE Edge(L, d, x)
  <1> DEFINE edge == [d \in Side |-> [x \in Node |->
                 IF x = up THEN Edge(L, d, n)
                 ELSE IF x = n /\ d = Other(s) THEN Pos(L, up) + Dir(s)
                 ELSE Edge(L, d, x)]]
  <1>1. L.pos \in [Node -> Int] /\ L.black \in [Node -> Int]
    BY DEF Labels
  <1>2. edge \in [Side -> [Node -> Int]]
        /\ \A d \in Side, x \in Node : edge[d][x] =
                IF x = up THEN Edge(L, d, n)
                ELSE IF x = n /\ d = Other(s) THEN Pos(L, up) + Dir(s)
                ELSE Edge(L, d, x)
    BY LabelType, SideIs
  <1> HIDE DEF edge
  <1>3. Turned(L, n, up, s) = [pos |-> L.pos, edge |-> edge, black |-> L.black]
    BY DEF Turned, edge
  <1>4. /\ Turned(L, n, up, s) \in Labels
        /\ \A x \in Node : Pos(Turned(L, n, up, s), x) = L.pos[x]
                           /\ Black(Turned(L, n, up, s), x) = L.black[x]
        /\ \A d \in Side, x \in Node : Edge(Turned(L, n, up, s), d, x) = edge[d][x]
    BY <1>1, <1>2, <1>3, LabelsAre
  <1> QED BY <1>2, <1>4 DEF Pos, Black

\* Rotating moves no node in the order.
LEMMA ShapeRotate ==
    ASSUME NEW t, NEW E, NEW L, NEW n, NEW s, NEW up,
           Shape(t, E, L), n \in E, s \in Side, up = Kid(t, Other(s), n), up # Null
    PROVE  Shape(Rotate(t, n, s), E, Turned(L, n, up, s))
  <1> DEFINE r == Rotate(t, n, s)
             M == Turned(L, n, up, s)
             o == Other(s)
             inner == Kid(t, s, up)
             p == Up(t, n)
  <1>0. t \in Tree /\ E \subseteq Node /\ L \in Labels /\ Joined(t, E, L) /\ Rooted(t, E, L)
        /\ Placed(E, L)
    BY DEF Shape
  <1>1. /\ o \in Side /\ o # s /\ Other(o) = s /\ Dir(o) = 0 - Dir(s) /\ (Dir(s) = 1 \/ Dir(s) = -1)
        /\ \A d \in Side : d = s \/ d = o
    BY OtherIs
  <1>2. /\ up \in E /\ up # n /\ Up(t, up) = n /\ p # up /\ up # Root(t)
        /\ up \in Node /\ n \in Node
    BY <1>0, <1>1, ChildIs
  <1>3. /\ p = Null <=> n = Root(t)
        /\ n # Root(t) => p \in E /\ p # n /\ SideOf(t, p, n) \in Side /\ Kid(t, SideOf(t, p, n), p) = n
        /\ Root(t) \in E
    BY ParentIs
  <1>4. /\ inner \in E \cup {Null}
        /\ inner # Null => inner # up /\ Up(t, inner) = up /\ inner # n /\ inner # Root(t)
    BY <1>0, <1>2, ChildIs DEF Joined
  <1>5. p \notin {n, up} /\ Null \notin Node
    BY <1>2, <1>3, SideIs
  <1>6. /\ r \in Tree
        /\ Root(r) = IF p = Null THEN up ELSE Root(t)
        /\ \A x \in Node :
             Up(r, x) = IF x = n THEN up ELSE IF x = up THEN p
                        ELSE IF x = inner THEN n ELSE Up(t, x)
        /\ \A d \in Side, x \in Node :
             Kid(r, d, x) = IF x = p /\ d = SideOf(t, p, n) THEN up
                            ELSE IF x = up /\ d = s THEN n
                            ELSE IF x = n /\ d = o THEN inner
                            ELSE Kid(t, d, x)
    BY <1>0, <1>2, <1>5, RotateIs
  <1>7. /\ M \in Labels
        /\ \A x \in Node : Pos(M, x) = Pos(L, x)
        /\ \A d \in Side, x \in Node :
             Edge(M, d, x) = IF x = up THEN Edge(L, d, n)
                             ELSE IF x = n /\ d = o THEN Pos(L, up) + Dir(s)
                             ELSE Edge(L, d, x)
    BY <1>0, <1>2, TurnedIs
  <1>20. \A x \in E : Pos(L, x) \in Int /\ \A d \in Side : Edge(L, d, x) \in Int
    BY <1>0, LabelType
  <1>21. /\ Edge(L, o, up) = Edge(L, o, n) /\ Edge(L, s, up) = Pos(L, n) + Dir(o)
         /\ Edge(L, "left", n) <= Pos(L, n) /\ Pos(L, n) <= Edge(L, "right", n)
         /\ Edge(L, "left", up) <= Pos(L, up) /\ Pos(L, up) <= Edge(L, "right", up)
    <2>1. Leads(t, L, n, o)
      BY <1>0, <1>1 DEF Joined
    <2> QED BY <1>0, <1>1, <1>2, <2>1 DEF Leads, Placed
  <1> HIDE DEF r, M, o, inner, p
  <1>8. Placed(E, M)
    <2>1. \A x \in E, y \in E : Pos(M, x) = Pos(M, y) => x = y
      BY <1>0, <1>7 DEF Placed
    <2>2. ASSUME NEW x \in E
          PROVE  Edge(M, "left", x) <= Pos(M, x) /\ Pos(M, x) <= Edge(M, "right", x)
      <3>0. /\ Pos(L, n) \in Int /\ Pos(L, up) \in Int /\ "left" \in Side /\ "right" \in Side
            /\ Edge(L, "left", n) \in Int /\ Edge(L, "right", n) \in Int
            /\ Edge(L, "left", up) \in Int /\ Edge(L, "right", up) \in Int
            /\ x \in Node
        BY <1>0, <1>2, <1>20, SideIs
      <3>1. CASE x = up
        <4>1. CASE s = "left"
          BY <1>7, <1>21, <3>0, <3>1, <4>1, SideIs DEF o
        <4>2. CASE s = "right"
          BY <1>7, <1>21, <3>0, <3>1, <4>2, SideIs DEF o
        <4> QED BY <4>1, <4>2, SideIs
      <3>2. CASE x = n
        <4>1. CASE s = "left"
          BY <1>2, <1>7, <1>21, <3>0, <3>2, <4>1, SideIs DEF o
        <4>2. CASE s = "right"
          BY <1>2, <1>7, <1>21, <3>0, <3>2, <4>2, SideIs DEF o
        <4> QED BY <4>1, <4>2, SideIs
      <3>3. CASE x \notin {n, up}
        BY <1>0, <1>7, <3>0, <3>3 DEF Placed
      <3> QED BY <3>1, <3>2, <3>3
    <2> QED BY <2>1, <2>2 DEF Placed
  <1>9. ASSUME NEW x \in E, NEW d \in Side
        PROVE  Kid(r, d, x) \in E \cup {Null} /\ Leads(r, M, x, d)
    <2>0. /\ Kid(t, d, x) \in E \cup {Null} /\ Leads(t, L, x, d) /\ x \in Node
          /\ Leads(t, L, n, s) /\ Leads(t, L, up, s) /\ Leads(t, L, up, o)
      BY <1>0, <1>1, <1>2 DEF Joined
    <2>1. CASE x = p /\ d = SideOf(t, p, n)
      <3>1. Kid(r, d, x) = up /\ Kid(t, d, x) = n /\ x # n /\ x # up
        BY <1>0, <1>2, <1>3, <1>5, <1>6, <2>0, <2>1, SideIs
      <3>2. Up(r, up) = x /\ n # Null /\ up # Null
        BY <1>2, <1>5, <1>6, <2>1
      <3>3. /\ Edge(L, d, n) = Edge(L, d, x) /\ Edge(L, Other(d), n) = Pos(L, x) + Dir(d)
        BY <2>0, <3>1, <3>2 DEF Leads
      <3>4. /\ Edge(M, d, up) = Edge(L, d, n) /\ Edge(M, Other(d), up) = Edge(L, Other(d), n)
            /\ Edge(M, d, x) = Edge(L, d, x) /\ Pos(M, x) = Pos(L, x)
        BY <1>2, <1>7, <2>0, <3>1, OtherIs
      <3> QED BY <1>2, <3>1, <3>2, <3>3, <3>4 DEF Leads
    <2>2. CASE x = up /\ d = s
      <3>1. Kid(r, d, x) = n /\ Up(r, n) = up /\ n # Null
        BY <1>2, <1>5, <1>6, <2>2
      <3>2. /\ Edge(M, s, n) = Edge(L, s, n) /\ Edge(M, o, n) = Pos(L, up) + Dir(s)
            /\ Edge(M, s, up) = Edge(L, s, n) /\ Pos(M, up) = Pos(L, up)
        BY <1>1, <1>2, <1>7
      <3> QED BY <2>2, <3>1, <3>2 DEF Leads, o
    <2>3. CASE x = n /\ d = o
      <3>1. Kid(r, d, x) = inner
        BY <1>2, <1>5, <1>6, <2>3, <1>1
      <3>2. Edge(M, o, n) = Pos(L, up) + Dir(s) /\ Pos(M, n) = Pos(L, n)
        BY <1>1, <1>2, <1>7
      <3>3. CASE inner = Null
        <4>1. Edge(L, s, up) = Pos(L, up)
          BY <2>0, <3>3 DEF Leads, inner
        <4>2. Pos(L, n) \in Int /\ Pos(L, up) \in Int
          BY <1>2, <1>20
        <4>3. Pos(L, n) = Pos(L, up) + Dir(s)
          BY <1>1, <1>21, <4>1, <4>2
        <4> QED BY <1>4, <2>3, <3>1, <3>2, <3>3, <4>3 DEF Leads
      <3>4. CASE inner # Null
        <4>1. /\ Edge(L, s, inner) = Edge(L, s, up) /\ Edge(L, o, inner) = Pos(L, up) + Dir(s)
          BY <2>0, <3>4 DEF Leads, inner, o
        <4>2. /\ Edge(M, s, inner) = Edge(L, s, inner) /\ Edge(M, o, inner) = Edge(L, o, inner)
          BY <1>0, <1>1, <1>4, <1>7, <3>4
        <4>3. Up(r, inner) = n
          BY <1>0, <1>4, <1>6, <3>4
        <4> QED BY <1>1, <1>4, <1>21, <2>3, <3>1, <3>2, <3>4, <4>1, <4>2, <4>3 DEF Leads, o
      <3> QED BY <3>3, <3>4
    <2>4. CASE ~(x = p /\ d = SideOf(t, p, n)) /\ ~(x = up /\ d = s) /\ ~(x = n /\ d = o)
      <3> DEFINE c == Kid(t, d, x)
      <3>1. Kid(r, d, x) = c
        BY <1>6, <2>0, <2>4
      <3>2. Pos(M, x) = Pos(L, x) /\ Edge(M, d, x) = Edge(L, d, x)
        BY <1>1, <1>2, <1>7, <1>21, <2>0, <2>4
      <3>3. CASE c = Null
        BY <2>0, <3>1, <3>2, <3>3 DEF Leads
      <3>4. CASE c # Null
        <4>1. c \in E /\ Up(t, c) = x /\ SideOf(t, x, c) = d /\ c # x
          BY <3>4, ChildIs
        <4>2. Edge(L, d, c) = Edge(L, d, x) /\ Edge(L, Other(d), c) = Pos(L, x) + Dir(d)
          BY <2>0, <3>4 DEF Leads
        <4>3. c # n /\ c # up /\ c # inner
          <5>1. c # n
            BY <2>4, <4>1 DEF p
          <5>2. c # up
            <6> SUFFICES ASSUME c = up PROVE FALSE
              OBVIOUS
            <6>1. x = n /\ d = s
              BY <1>1, <1>2, <2>4, <4>1
            <6>2. Kid(t, s, n) = Kid(t, Other(s), n)
              BY <6>1 DEF c
            <6> QED BY <3>4, <6>1, <6>2, ChildIs
          <5>3. c # inner
            <6> SUFFICES ASSUME c = inner PROVE FALSE
              OBVIOUS
            <6>1. x = up /\ d = o
              BY <1>1, <1>4, <2>4, <3>4, <4>1
            <6>2. Kid(t, s, up) = Kid(t, Other(s), up) /\ Kid(t, s, up) # Null
              BY <3>4, <6>1 DEF c, inner, o
            <6> QED BY <1>2, <6>1, <6>2, ChildIs
          <5> QED BY <5>1, <5>2, <5>3
        <4> HIDE DEF c
        <4>4. Up(r, c) = x /\ Edge(M, d, c) = Edge(L, d, c) /\ Edge(M, Other(d), c) = Edge(L, Other(d), c)
          BY <1>0, <1>6, <1>7, <4>1, <4>3, OtherIs
        <4> QED BY <3>1, <3>2, <3>4, <4>1, <4>2, <4>4 DEF Leads
      <3> QED BY <3>3, <3>4
    <2> QED BY <2>1, <2>2, <2>3, <2>4
  <1>10. ASSUME NEW x \in E, x # Root(r)
         PROVE  /\ Up(r, x) \in E
                /\ Kid(r, "left", Up(r, x)) = x \/ Kid(r, "right", Up(r, x)) = x
    <2> SUFFICES Up(r, x) \in E /\ \E d \in Side : Kid(r, d, Up(r, x)) = x
      BY SideIs
    <2>1. CASE x = n
      BY <1>0, <1>2, <1>5, <1>6, <2>1
    <2>2. CASE x = up
      BY <1>0, <1>2, <1>3, <1>5, <1>6, <1>10, <2>2
    <2>3. CASE x = inner
      BY <1>0, <1>1, <1>2, <1>4, <1>5, <1>6, <2>1, <2>2, <2>3
    <2>4. CASE x \notin {n, up, inner}
      <3>1. x # Root(t) /\ x \in Node
        BY <1>0, <1>2, <1>3, <1>6, <1>10, <2>4
      <3> DEFINE u == Up(t, x)  d == SideOf(t, u, x)
      <3>2. u \in E /\ d \in Side /\ Kid(t, d, u) = x /\ u \in Node
        BY <1>0, <3>1, ParentIs
      <3> HIDE DEF u, d
      <3>3. Up(r, x) = u
        BY <1>6, <2>4, <3>1 DEF u
      <3>4. ~(u = p /\ d = SideOf(t, p, n)) /\ ~(u = up /\ d = s) /\ ~(u = n /\ d = o)
        BY <1>3, <1>5, <1>0, <2>4, <3>2 DEF inner, o
      <3>5. Kid(r, d, u) = x
        BY <1>6, <3>2, <3>4
      <3> QED BY <3>2, <3>3, <3>5
    <2> QED BY <2>1, <2>2, <2>3, <2>4
  <1>11. Rooted(r, E, M)
    <2>1. CASE p = Null
      <3>1. Root(r) = up /\ Up(r, up) = Null /\ n = Root(t)
        BY <1>2, <1>3, <1>6, <2>1
      <3>2. Edge(M, "left", up) = Edge(L, "left", n) /\ Edge(L, "left", n) = 1
        BY <1>0, <1>2, <1>3, <1>5, <1>7, <3>1, SideIs DEF Rooted
      <3> QED BY <1>2, <3>1, <3>2 DEF Rooted
    <2>2. CASE p # Null
      <3>2. Root(r) = Root(t) /\ Root(t) \in E /\ Root(t) \in Node /\ Root(t) # Null /\ Root(t) \notin {n, up, inner}
        BY <1>0, <1>2, <1>3, <1>4, <1>5, <1>6, <2>2
      <3>3. Up(t, Root(t)) = Null /\ Edge(L, "left", Root(t)) = 1
        BY <1>0, <3>2 DEF Rooted
      <3>4. Up(r, Root(t)) = Null /\ Edge(M, "left", Root(t)) = 1
        BY <1>6, <1>7, <3>2, <3>3, SideIs
      <3> QED BY <3>2, <3>4 DEF Rooted
    <2> QED BY <2>1, <2>2
  <1>12. Joined(r, E, M)
    BY <1>9, <1>10 DEF Joined
  <1> QED BY <1>0, <1>6, <1>7, <1>8, <1>11, <1>12 DEF Shape, r, M

-----------------------------------------------------------------------------
(* Colours and heights. *)

\* The black nodes on a path down from c, c included.
Height(t, L, c) == IF c = Null THEN 0 ELSE Black(L, c) + (IF c \in Red(t) THEN 0 ELSE 1)

\* All paths below a node have its number of black nodes, but for those on side
\* b of m, which are one short.
Short(n, d, m, b) == IF n = m /\ d = b THEN 1 ELSE 0

\* Ways down meet equally many black nodes, but for the one missing on side b of m.
Balanced(t, E, L, m, b) ==
    \A n \in E, d \in Side :
        Black(L, n) >= 0 /\ Height(t, L, Kid(t, d, n)) + Short(n, d, m, b) = Black(L, n)

\* No red node has a red child, but for the children of x and y itself.
Reds(t, E, x, y) ==
    \A n \in E, d \in Side :
        n \in Red(t) /\ Kid(t, d, n) \in Red(t) => n = x \/ Kid(t, d, n) = y

\* The root is black, or is x, which is about to be looked at.
RootBlack(t, x) == Root(t) \in Red(t) => Root(t) = x

\* The nodes outside X are linked to nothing.
Clean(t, X) ==
    \A n \in Node : n \notin X =>
        Up(t, n) = Null /\ n \notin Red(t) /\ \A s \in Side : Kid(t, s, n) = Null

\* The size of the subtree of n, less one.
Width(L, n) == Edge(L, "right", n) - Edge(L, "left", n)

\* Repairs move nothing.
SamePlaces(L, M) == \A x \in Node : Pos(M, x) = Pos(L, x)

\* L with b black nodes below n.
WithBlack(L, n, b) == [L EXCEPT !.black = [x \in Node |-> IF x = n THEN b ELSE Black(L, x)]]

\* WithBlack changes one count.
LEMMA WithBlackIs ==
    ASSUME NEW L, NEW n, NEW b, L \in Labels, b \in Int
    PROVE  /\ WithBlack(L, n, b) \in Labels
           /\ \A x \in Node : /\ Pos(WithBlack(L, n, b), x) = Pos(L, x)
                              /\ Black(WithBlack(L, n, b), x) = IF x = n THEN b ELSE Black(L, x)
           /\ \A d \in Side, x \in Node : Edge(WithBlack(L, n, b), d, x) = Edge(L, d, x)
  <1> DEFINE black == [x \in Node |-> IF x = n THEN b ELSE Black(L, x)]
  <1>1. L.pos \in [Node -> Int] /\ L.edge \in [Side -> [Node -> Int]]
        /\ L = [pos |-> L.pos, edge |-> L.edge, black |-> L.black]
    BY DEF Labels
  <1>2. black \in [Node -> Int] /\ \A x \in Node : black[x] = IF x = n THEN b ELSE Black(L, x)
    BY LabelType
  <1>3. WithBlack(L, n, b) = [L EXCEPT !.black = black]
    BY DEF WithBlack
  <1> HIDE DEF black
  <1>4. WithBlack(L, n, b) = [pos |-> L.pos, edge |-> L.edge, black |-> black]
    BY <1>1, <1>3
  <1> DEFINE M == WithBlack(L, n, b)
  <1> HIDE DEF M
  <1>5. M.pos = L.pos /\ M.edge = L.edge /\ M.black = black
    BY <1>4 DEF M
  <1>6. M \in Labels
    BY <1>1, <1>2, <1>4 DEF Labels, M
  <1> QED BY <1>2, <1>5, <1>6 DEF Pos, Edge, Black, M

\* What becomes of each link of a tree when n goes down.
LEMMA RotateAt ==
    ASSUME NEW t, NEW E, NEW L, NEW n, NEW s, NEW up, NEW inner, NEW p,
           Shape(t, E, L), n \in E, s \in Side, up = Kid(t, Other(s), n), up # Null,
           inner = Kid(t, s, up), p = Up(t, n)
    PROVE  /\ Rotate(t, n, s) \in Tree
           /\ up \in E /\ up # n /\ up # p /\ n # p /\ Null \notin Node
           /\ inner \in E \cup {Null} /\ inner # n /\ inner # up
           /\ Root(Rotate(t, n, s)) = IF p = Null THEN up ELSE Root(t)
           /\ p = Null <=> n = Root(t)
           /\ Red(Rotate(t, n, s)) = Red(t)
           /\ \A x \in Node :
                   Up(Rotate(t, n, s), x) =
                     IF x = n THEN up ELSE IF x = up THEN p
                     ELSE IF x = inner THEN n ELSE Up(t, x)
           /\ \A d \in Side, x \in Node :
                Kid(Rotate(t, n, s), d, x) =
                    IF x = p /\ d = SideOf(t, p, n) THEN up
                    ELSE IF x = up /\ d = s THEN n
                    ELSE IF x = n /\ d = Other(s) THEN inner
                    ELSE Kid(t, d, x)
           /\ p # Null => p \in E /\ SideOf(t, p, n) \in Side /\ Kid(t, SideOf(t, p, n), p) = n
  <1>0. t \in Tree /\ E \subseteq Node /\ Joined(t, E, L)
    BY DEF Shape
  <1>1. Other(s) \in Side
    BY OtherIs
  <1>2. /\ up \in E /\ up # n /\ Up(t, up) = n /\ p # up
        /\ up \in Node /\ n \in Node /\ Null \notin Node
    BY <1>0, <1>1, ChildIs, SideIs
  <1>3. /\ p = Null <=> n = Root(t)
        /\ p # Null => p \in E /\ p # n /\ SideOf(t, p, n) \in Side /\ Kid(t, SideOf(t, p, n), p) = n
    BY ParentIs
  <1>4. inner \in E \cup {Null} /\ inner # n /\ inner # up
    BY <1>0, <1>2, ChildIs DEF Joined
  <1>5. p \notin {n, up}
    BY <1>2, <1>3
  <1>6. /\ Rotate(t, n, s) \in Tree
        /\ Root(Rotate(t, n, s)) = IF p = Null THEN up ELSE Root(t)
        /\ Red(Rotate(t, n, s)) = Red(t)
        /\ \A x \in Node :
                   Up(Rotate(t, n, s), x) =
                     IF x = n THEN up ELSE IF x = up THEN p
                     ELSE IF x = inner THEN n ELSE Up(t, x)
        /\ \A d \in Side, x \in Node :
                Kid(Rotate(t, n, s), d, x) =
                    IF x = p /\ d = SideOf(t, p, n) THEN up
                    ELSE IF x = up /\ d = s THEN n
                    ELSE IF x = n /\ d = Other(s) THEN inner
                    ELSE Kid(t, d, x)
    BY <1>0, <1>2, <1>5, RotateIs
  <1> QED BY <1>2, <1>3, <1>4, <1>5, <1>6

\* A child has fewer nodes below it.
LEMMA ChildWidth ==
    ASSUME NEW t, NEW E, NEW L, NEW n, NEW s,
           Shape(t, E, L), n \in E, s \in Side, Kid(t, s, n) # Null
    PROVE  /\ Width(L, n) \in Int /\ Width(L, Kid(t, s, n)) \in Int
           /\ 0 <= Width(L, Kid(t, s, n)) /\ Width(L, Kid(t, s, n)) < Width(L, n)
  <1> DEFINE c == Kid(t, s, n)
  <1>0. t \in Tree /\ E \subseteq Node /\ L \in Labels /\ Joined(t, E, L) /\ Placed(E, L)
    BY DEF Shape
  <1>1. c \in E /\ Edge(L, s, c) = Edge(L, s, n)
        /\ Edge(L, Other(s), c) = Pos(L, n) + Dir(s)
    BY <1>0 DEF Joined, Leads
  <1> HIDE DEF c
  <1>2. /\ Edge(L, "left", c) <= Pos(L, c) /\ Pos(L, c) <= Edge(L, "right", c)
        /\ Edge(L, "left", n) <= Pos(L, n) /\ Pos(L, n) <= Edge(L, "right", n)
        /\ Pos(L, c) \in Int /\ Pos(L, n) \in Int
        /\ Edge(L, "left", c) \in Int /\ Edge(L, "right", c) \in Int
        /\ Edge(L, "left", n) \in Int /\ Edge(L, "right", n) \in Int
    <2>1. c \in Node /\ n \in Node /\ "left" \in Side /\ "right" \in Side
      BY <1>0, <1>1, SideIs
    <2> QED BY <1>0, <1>1, <2>1, LabelType DEF Placed
  <1>3. Width(L, n) \in Int /\ Width(L, c) \in Int /\ 0 <= Width(L, c) /\ Width(L, c) < Width(L, n)
    <2>1. CASE s = "left"
      BY <1>1, <1>2, <2>1, SideIs DEF Width
    <2>2. CASE s = "right"
      BY <1>1, <1>2, <2>2, SideIs DEF Width
    <2> QED BY <2>1, <2>2, SideIs
  <1> QED BY <1>3 DEF c

-----------------------------------------------------------------------------
(* Inserting. *)

InsertState(t, n, E, L) ==
    /\ Shape(t, E, L) /\ n \in E /\ n \in Red(t)
    /\ Balanced(t, E, L, Null, "left") /\ Reds(t, E, Null, n) /\ RootBlack(t, n) /\ Clean(t, E)

\* The node's parent is red; the grandparent, on whose side s it is, and the uncle.
Kin(t, n, p, g, s, u) ==
    /\ p = Up(t, n) /\ IsRed(t, p) /\ g = Up(t, p) /\ s = SideOf(t, g, p)
    /\ u = Kid(t, Other(s), g)

\* The node's red parent has a black parent.
LEMMA InsertAbove ==
    ASSUME NEW t, NEW E, NEW L, NEW n, NEW p, NEW g, NEW s, NEW u,
           InsertState(t, n, E, L), Kin(t, n, p, g, s, u)
    PROVE  /\ p \in E /\ g \in E /\ p # n /\ g # n /\ g # p /\ s \in Side /\ Other(s) \in Side
           /\ p \in Red(t) /\ g \notin Red(t) /\ n # Root(t) /\ p # Root(t)
           /\ Kid(t, s, g) = p /\ Kid(t, SideOf(t, p, n), p) = n /\ SideOf(t, p, n) \in Side
           /\ Null \notin Node /\ E \subseteq Node
           /\ u \in E \cup {Null} /\ u # p /\ u # g
           /\ Kid(t, Other(s), g) = u /\ Up(t, n) = p /\ Up(t, p) = g
  <1>0. /\ Shape(t, E, L) /\ n \in E /\ Reds(t, E, Null, n) /\ RootBlack(t, n)
        /\ t \in Tree /\ E \subseteq Node /\ Null \notin Node /\ n \in Red(t)
    BY SideIs DEF InsertState, Shape
  <1>1. p # Null /\ p \in Red(t)
    <2>1. p \in Node \cup {Null} /\ IsRed(t, p)
      BY <1>0, FieldsType DEF Kin
    <2> QED BY <1>0, <2>1, IsRedIs, FieldsType
  <1>2. /\ n # Root(t) /\ p \in E /\ p # n /\ Kid(t, SideOf(t, p, n), p) = n /\ SideOf(t, p, n) \in Side
    BY <1>0, <1>1, ParentIs DEF Kin
  <1>3. p # Root(t)
    BY <1>0, <1>1, <1>2 DEF RootBlack
  <1>4. g \in E /\ g # p /\ s \in Side /\ Kid(t, s, g) = p
    BY <1>0, <1>2, <1>3, ParentIs DEF Kin
  <1>5. g \notin Red(t)
    BY <1>0, <1>1, <1>2, <1>4 DEF Reds
  <1>6. g # n
    BY <1>0, <1>5
  <1>7. Other(s) \in Side /\ u \in E \cup {Null}
    <2>1. Other(s) \in Side /\ Joined(t, E, L)
      BY <1>0, <1>4, OtherIs DEF Shape
    <2> QED BY <1>4, <2>1 DEF Joined, Kin
  <1>8. Kid(t, Other(s), g) = u /\ Up(t, n) = p /\ Up(t, p) = g
    BY DEF Kin
  <1>9. u # p /\ u # g
    <2>1. Kid(t, s, g) # Null
      BY <1>0, <1>2, <1>4
    <2>2. Kid(t, Other(s), g) # Kid(t, s, g)
      BY <1>0, <1>4, <2>1, ChildIs
    <2>3. u # Null => u # g
      BY <1>0, <1>4, <1>7, <1>8, ChildIs
    <2> QED BY <1>0, <1>4, <1>8, <2>2, <2>3
  <1> QED BY <1>0, <1>1, <1>2, <1>3, <1>4, <1>5, <1>6, <1>7, <1>8, <1>9

\* A red uncle: parent and uncle turn black, and the grandparent is the red node.
LEMMA InsertUncle ==
    ASSUME NEW t, NEW E, NEW L, NEW n, NEW p, NEW g, NEW s, NEW u, NEW r,
           InsertState(t, n, E, L), Kin(t, n, p, g, s, u), IsRed(t, u),
           r = Redden(Blacken(Blacken(t, u), p), g)
    PROVE  \E M : InsertState(r, g, E, M) /\ SamePlaces(L, M)
                  /\ Width(M, g) > Width(L, n) /\ Width(M, g) \in Int /\ Width(L, n) \in Int
  <1> DEFINE M == WithBlack(L, g, Black(L, g) + 1)
             t1 == Blacken(t, u)
             t2 == Blacken(t1, p)
  <1>0. /\ Shape(t, E, L) /\ n \in E /\ Reds(t, E, Null, n) /\ RootBlack(t, n)
        /\ t \in Tree /\ E \subseteq Node /\ Null \notin Node /\ L \in Labels
        /\ Balanced(t, E, L, Null, "left") /\ Clean(t, E) /\ Joined(t, E, L)
    BY SideIs DEF InsertState, Shape
  <1>1. /\ p \in E /\ g \in E /\ p # n /\ g # n /\ g # p /\ s \in Side /\ Other(s) \in Side
        /\ p \in Red(t) /\ g \notin Red(t) /\ n # Root(t) /\ p # Root(t)
        /\ Kid(t, s, g) = p /\ Kid(t, SideOf(t, p, n), p) = n /\ SideOf(t, p, n) \in Side
        /\ Kid(t, Other(s), g) = u /\ Up(t, n) = p /\ Up(t, p) = g
    BY InsertAbove
  <1>2. u \in E /\ u # p /\ u # g /\ u \in Red(t)
    BY <1>0, IsRedIs, FieldsType, InsertAbove
  <1>3. /\ t1 \in Tree /\ Root(t1) = Root(t)
        /\ Red(t1) = Red(t) \ {u} /\ \A z \in Node : Up(t1, z) = Up(t, z)
        /\ \A e \in Side, z \in Node : Kid(t1, e, z) = Kid(t, e, z)
    BY <1>0, <1>2, ReddenIs, BlackenIs
  <1> HIDE DEF t1
  <1>4. /\ t2 \in Tree /\ Root(t2) = Root(t)
        /\ Red(t2) = Red(t1) \ {p} /\ \A z \in Node : Up(t2, z) = Up(t, z)
        /\ \A e \in Side, z \in Node : Kid(t2, e, z) = Kid(t, e, z)
    BY <1>0, <1>1, <1>3, ReddenIs, BlackenIs
  <1> HIDE DEF t2
  <1>5. /\ r \in Tree /\ Root(r) = Root(t)
        /\ Red(r) = Red(t2) \cup {g} /\ \A z \in Node : Up(r, z) = Up(t, z)
        /\ \A e \in Side, z \in Node : Kid(r, e, z) = Kid(t, e, z)
    <2>1. r = Redden(t2, g)
      BY DEF t1, t2
    <2> QED BY <1>0, <1>1, <1>4, <2>1, ReddenIs, BlackenIs
  <1>6. \A z : z \in Red(r) <=> (z = g \/ (z \in Red(t) /\ z # p /\ z # u))
    BY <1>3, <1>4, <1>5
  <1>7. \A x \in E : Black(L, x) \in Int
    BY <1>0, LabelType
  <1>8. /\ M \in Labels
        /\ \A x \in Node : /\ Pos(M, x) = Pos(L, x)
                           /\ Black(M, x) = IF x = g THEN Black(L, g) + 1 ELSE Black(L, x)
        /\ \A d \in Side, x \in Node : Edge(M, d, x) = Edge(L, d, x)
    BY <1>0, <1>1, <1>7, WithBlackIs
  <1> HIDE DEF M
  <1>9. Shape(r, E, M)
    BY <1>0, <1>5, <1>8, ShapeSame
  <1>10. ASSUME NEW x \in E, NEW d \in Side
         PROVE  Black(M, x) >= 0
                /\ Height(r, M, Kid(r, d, x)) + Short(x, d, Null, "left") = Black(M, x)
    <2> DEFINE c == Kid(t, d, x)
    <2>1. /\ Black(L, x) >= 0 /\ Height(t, L, c) = Black(L, x) /\ Short(x, d, Null, "left") = 0
          /\ c \in E \cup {Null} /\ Kid(r, d, x) = c /\ Black(L, x) \in Int
      <3>1. Short(x, d, Null, "left") = 0
        BY <1>0 DEF Short
      <3>2. Black(L, x) >= 0 /\ Height(t, L, c) + Short(x, d, Null, "left") = Black(L, x)
        BY <1>0 DEF Balanced
      <3>3. c \in E \cup {Null} /\ Kid(r, d, x) = c /\ Black(L, x) \in Int
        BY <1>0, <1>5, <1>7 DEF Joined
      <3>4. Height(t, L, c) \in Int
        BY <1>7, <3>3 DEF Height
      <3> QED BY <3>1, <3>2, <3>3, <3>4
    <2>2. c # Null => Up(t, c) = x /\ c # x
      BY <1>0, ChildIs
    <2>3. /\ Black(L, g) \in Int /\ Black(L, p) \in Int /\ Black(L, u) \in Int
          /\ Black(L, p) = Black(L, g) /\ Black(L, u) = Black(L, g) /\ Up(t, u) = g
      <3>1. Height(t, L, p) + Short(g, s, Null, "left") = Black(L, g)
        BY <1>0, <1>1 DEF Balanced
      <3>2. Height(t, L, u) + Short(g, Other(s), Null, "left") = Black(L, g)
        BY <1>0, <1>1 DEF Balanced
      <3>3. Up(t, u) = g
        BY <1>0, <1>1, <1>2, ChildIs
      <3>4. Black(L, g) \in Int /\ Black(L, p) \in Int /\ Black(L, u) \in Int
            /\ g # Null /\ p # Null /\ u # Null
        BY <1>0, <1>1, <1>2, <1>7
      <3> QED BY <1>1, <1>2, <3>1, <3>2, <3>3, <3>4 DEF Height, Short
    <2> HIDE DEF c
    <2>4. CASE c = Null
      <3>1. x # g
        BY <1>0, <1>1, <1>2, <2>4, OtherIs DEF c
      <3> QED BY <1>0, <1>8, <2>1, <2>4, <3>1 DEF Height
    <2>5. CASE c # Null
      <3>0. c \in Node /\ x \in Node /\ Black(L, c) \in Int
        BY <1>0, <1>7, <2>1, <2>5
      <3>1. Black(L, c) + (IF c \in Red(t) THEN 0 ELSE 1) = Black(L, x)
        BY <2>1, <2>5 DEF Height
      <3>2. Height(r, M, c) = Black(M, c) + (IF c \in Red(r) THEN 0 ELSE 1)
        BY <2>5 DEF Height
      <3>3. CASE c = g
        <4>1. x # g
          BY <2>2, <2>5, <3>3
        <4> QED BY <1>1, <1>6, <1>8, <2>1, <2>3, <3>0, <3>1, <3>2, <3>3, <4>1
      <3>4. CASE c \in {p, u}
        <4>1. x = g
          BY <1>1, <2>2, <2>3, <2>5, <3>4
        <4>2. Black(M, c) = Black(L, c) /\ c \notin Red(r) /\ c \in Red(t)
          BY <1>1, <1>2, <1>6, <1>8, <3>0, <3>4
        <4> QED BY <1>8, <2>1, <2>3, <3>0, <3>1, <3>2, <4>1, <4>2
      <3>5. CASE c \notin {g, p, u}
        <4>1. x # g
          <5>1. d = s \/ d = Other(s)
            BY <1>1, OtherIs
          <5> QED BY <1>1, <3>5, <5>1 DEF c
        <4>2. Black(M, c) = Black(L, c) /\ (c \in Red(r) <=> c \in Red(t))
          BY <1>6, <1>8, <3>0, <3>5
        <4> QED BY <1>8, <2>1, <3>0, <3>1, <3>2, <4>1, <4>2
      <3> QED BY <3>3, <3>4, <3>5
    <2> QED BY <2>4, <2>5
  <1>11. Reds(r, E, Null, g)
    <2> SUFFICES ASSUME NEW x \in E, NEW d \in Side, x \in Red(r),
                        Kid(r, d, x) \in Red(r), Kid(r, d, x) # g
                 PROVE  FALSE
      BY DEF Reds
    <2> DEFINE c == Kid(t, d, x)
    <2>1. Kid(r, d, x) = c /\ c \in E /\ c \in Node /\ x \in Node /\ Up(t, c) = x
      BY <1>0, <1>5, ChildIs, FieldsType
    <2>2. c \in Red(t) /\ c \notin {p, u} /\ x \notin {p, u}
      BY <1>1, <1>2, <1>6, <2>1
    <2>3. x # g
      <3>1. d = s \/ d = Other(s)
        BY <1>1, OtherIs
      <3> QED BY <1>1, <2>2, <3>1
    <2>4. x \in Red(t)
      BY <1>6, <2>1, <2>2, <2>3
    <2>5. c = n
      BY <1>0, <2>1, <2>2, <2>4 DEF Reds
    <2> QED BY <1>1, <2>1, <2>2, <2>5
  <1>12. RootBlack(r, g)
    <2> SUFFICES ASSUME Root(t) \in Red(r), Root(t) # g PROVE FALSE
      BY <1>5 DEF RootBlack
    <2>1. Root(t) \in Node
      BY <1>0, ParentIs
    <2>2. Root(t) \in Red(t)
      BY <1>6, <2>1
    <2> QED BY <1>0, <1>1, <2>2 DEF RootBlack
  <1>13. Clean(r, E)
    <2> SUFFICES ASSUME NEW x \in Node, x \notin E
                 PROVE  Up(r, x) = Null /\ x \notin Red(r) /\ \A d \in Side : Kid(r, d, x) = Null
      BY DEF Clean
    <2> QED BY <1>0, <1>1, <1>2, <1>5, <1>6 DEF Clean
  <1>14. g \in Red(r)
    BY <1>0, <1>1, <1>5
  <1>15. InsertState(r, g, E, M)
    BY <1>1, <1>9, <1>10, <1>11, <1>12, <1>13, <1>14 DEF InsertState, Balanced
  <1>16. Width(M, g) > Width(L, n) /\ Width(M, g) \in Int /\ Width(L, n) \in Int
    <2>1. Width(M, g) = Width(L, g)
      BY <1>0, <1>1, <1>8, SideIs DEF Width
    <2>2. Width(L, n) < Width(L, p) /\ Width(L, p) \in Int /\ Width(L, n) \in Int
      <3>1. Kid(t, SideOf(t, p, n), p) # Null
        BY <1>0, <1>1
      <3> QED BY <1>0, <1>1, <3>1, ChildWidth
    <2>3. Width(L, p) < Width(L, g) /\ Width(L, g) \in Int
      <3>1. Kid(t, s, g) # Null
        BY <1>0, <1>1
      <3> QED BY <1>0, <1>1, <3>1, ChildWidth
    <2> QED BY <2>1, <2>2, <2>3
  <1>17. SamePlaces(L, M)
    BY <1>8 DEF SamePlaces
  <1> QED BY <1>15, <1>16, <1>17

-----------------------------------------------------------------------------
(* Rotating, and the colours and heights. *)

\* The nodes a rotation of n to side s moves.
Lifts(t, n, s, up, inner, p) ==
    /\ up = Kid(t, Other(s), n) /\ up # Null /\ inner = Kid(t, s, up) /\ p = Up(t, n)

\* The children after a rotation.
RotatedKid(t, r, n, s, up, inner, p, x, d) ==
    \/ x = p /\ d = SideOf(t, p, n) /\ p # Null /\ x # n /\ x # up /\ Kid(r, d, x) = up
    \/ x = up /\ d = s /\ Kid(r, d, x) = n
    \/ x = up /\ d = Other(s) /\ Kid(r, d, x) = Kid(t, d, x)
    \/ x = n /\ d = Other(s) /\ Kid(r, d, x) = inner
    \/ x = n /\ d = s /\ Kid(r, d, x) = Kid(t, d, x)
    \/ x \notin {n, up} /\ Kid(t, d, x) # n /\ Kid(r, d, x) = Kid(t, d, x)

\* A rotation in a search tree: who is linked to whom after it.
LEMMA RotateKids ==
    ASSUME NEW t, NEW E, NEW L, NEW n, NEW s, NEW up, NEW inner, NEW p,
           Shape(t, E, L), n \in E, s \in Side, Lifts(t, n, s, up, inner, p)
    PROVE  /\ Rotate(t, n, s) \in Tree
           /\ Red(Rotate(t, n, s)) = Red(t)
           /\ up \in E /\ up # n /\ up # p /\ n # p /\ Null \notin Node /\ E \subseteq Node
           /\ inner \in E \cup {Null} /\ inner # n /\ inner # up
           /\ Root(Rotate(t, n, s)) = IF p = Null THEN up ELSE Root(t)
           /\ p = Null <=> n = Root(t)
           /\ p # Null => p \in E /\ SideOf(t, p, n) \in Side /\ Kid(t, SideOf(t, p, n), p) = n
           /\ Up(Rotate(t, n, s), n) = up /\ Up(Rotate(t, n, s), up) = p
           /\ \A x \in E, d \in Side : RotatedKid(t, Rotate(t, n, s), n, s, up, inner, p, x, d)
           /\ \A X : E \subseteq X /\ Clean(t, X) => Clean(Rotate(t, n, s), X)
  <1> DEFINE r == Rotate(t, n, s)
  <1>1. /\ r \in Tree
        /\ up \in E /\ up # n /\ up # p /\ n # p /\ Null \notin Node
        /\ inner \in E \cup {Null} /\ inner # n /\ inner # up
        /\ Root(r) = IF p = Null THEN up ELSE Root(t)
        /\ p = Null <=> n = Root(t)
        /\ Red(r) = Red(t)
        /\ \A x \in Node :
             Up(r, x) = IF x = n THEN up ELSE IF x = up THEN p
                        ELSE IF x = inner THEN n ELSE Up(t, x)
        /\ \A d \in Side, x \in Node :
             Kid(r, d, x) = IF x = p /\ d = SideOf(t, p, n) THEN up
                            ELSE IF x = up /\ d = s THEN n
                            ELSE IF x = n /\ d = Other(s) THEN inner
                            ELSE Kid(t, d, x)
        /\ p # Null => p \in E /\ SideOf(t, p, n) \in Side /\ Kid(t, SideOf(t, p, n), p) = n
    BY RotateAt DEF Lifts
  <1> HIDE DEF r
  <1>2. E \subseteq Node /\ Joined(t, E, L)
    BY DEF Shape
  <1>3. ASSUME NEW x \in E, NEW d \in Side
        PROVE  RotatedKid(t, r, n, s, up, inner, p, x, d)
    <2>0. x \in Node /\ (d = s \/ d = Other(s)) /\ s # Other(s)
      BY <1>2, OtherIs
    <2>1. CASE x = p /\ d = SideOf(t, p, n)
      BY <1>1, <1>2, <2>0, <2>1 DEF RotatedKid
    <2>2. CASE x = up
      BY <1>1, <2>0, <2>2 DEF RotatedKid
    <2>3. CASE x = n
      BY <1>1, <2>0, <2>3 DEF RotatedKid
    <2>4. CASE ~(x = p /\ d = SideOf(t, p, n)) /\ x # up /\ x # n
      <3>1. Kid(r, d, x) = Kid(t, d, x)
        BY <1>1, <2>0, <2>4
      <3>2. Kid(t, d, x) # n
        <4> SUFFICES ASSUME Kid(t, d, x) = n PROVE FALSE
          OBVIOUS
        <4>1. Up(t, n) = x /\ SideOf(t, x, n) = d
          <5>1. n # Null
            BY <1>1, <1>2
          <5> QED BY <5>1, ChildIs
        <4>2. p = x
          BY <4>1 DEF Lifts
        <4> QED BY <2>4, <4>1, <4>2
      <3> QED BY <2>4, <3>1, <3>2 DEF RotatedKid
    <2> QED BY <2>1, <2>2, <2>3, <2>4
  <1>4. ASSUME NEW X, E \subseteq X, Clean(t, X)
        PROVE  Clean(r, X)
    <2> SUFFICES ASSUME NEW x \in Node, x \notin X
                 PROVE  /\ Up(r, x) = Null /\ x \notin Red(r)
                        /\ \A d \in Side : Kid(r, d, x) = Null
      BY DEF Clean
    <2>1. x \notin E /\ x # n /\ x # up /\ x # p /\ x # inner
      BY <1>1, <1>4
    <2>2. Up(t, x) = Null /\ x \notin Red(t) /\ \A d \in Side : Kid(t, d, x) = Null
      BY <1>4 DEF Clean
    <2> QED BY <1>1, <2>1, <2>2
  <1>5. Up(r, n) = up /\ Up(r, up) = p
    BY <1>1, <1>2
  <1>6. \A X : E \subseteq X /\ Clean(t, X) => Clean(r, X)
    BY <1>4
  <1> QED BY <1>1, <1>2, <1>3, <1>5, <1>6 DEF r

\* Heights after a rotation.
LEMMA RotateBalanced ==
    ASSUME NEW t, NEW E, NEW L, NEW M, NEW n, NEW s, NEW up, NEW inner, NEW p, NEW m, NEW b,
           Shape(t, E, L), n \in E, s \in Side, Lifts(t, n, s, up, inner, p),
           Height(t, M, inner) + Short(n, Other(s), m, b) = Black(M, n),
           Height(t, M, Kid(t, s, n)) + Short(n, s, m, b) = Black(M, n),
           Height(t, M, n) + Short(up, s, m, b) = Black(M, up),
           Height(t, M, Kid(t, Other(s), up)) + Short(up, Other(s), m, b) = Black(M, up),
           p # Null => Height(t, M, up) + Short(p, SideOf(t, p, n), m, b) = Black(M, p),
           \A x \in E, d \in Side : x \notin {n, up} /\ Kid(t, d, x) # n =>
                Height(t, M, Kid(t, d, x)) + Short(x, d, m, b) = Black(M, x),
           \A x \in E : Black(M, x) >= 0
    PROVE  Balanced(Rotate(t, n, s), E, M, m, b)
  <1> DEFINE r == Rotate(t, n, s)
  <1>1. /\ Red(r) = Red(t)
        /\ \A x \in E, d \in Side : RotatedKid(t, r, n, s, up, inner, p, x, d)
    BY RotateKids
  <1> HIDE DEF r
  <1>2. \A c : Height(r, M, c) = Height(t, M, c)
    BY <1>1 DEF Height
  <1>3. ASSUME NEW x \in E, NEW d \in Side
        PROVE  Height(r, M, Kid(r, d, x)) + Short(x, d, m, b) = Black(M, x)
    <2>1. RotatedKid(t, r, n, s, up, inner, p, x, d)
      BY <1>1
    <2>2. CASE x = p /\ d = SideOf(t, p, n) /\ p # Null /\ Kid(r, d, x) = up
      BY <1>2, <2>2
    <2>3. CASE x = up /\ d = s /\ Kid(r, d, x) = n
      BY <1>2, <2>3
    <2>4. CASE x = up /\ d = Other(s) /\ Kid(r, d, x) = Kid(t, d, x)
      BY <1>2, <2>4
    <2>5. CASE x = n /\ d = Other(s) /\ Kid(r, d, x) = inner
      BY <1>2, <2>5
    <2>6. CASE x = n /\ d = s /\ Kid(r, d, x) = Kid(t, d, x)
      BY <1>2, <2>6
    <2>7. CASE x \notin {n, up} /\ Kid(t, d, x) # n /\ Kid(r, d, x) = Kid(t, d, x)
      BY <1>2, <2>7
    <2> QED BY <2>1, <2>2, <2>3, <2>4, <2>5, <2>6, <2>7 DEF RotatedKid
  <1> QED BY <1>3 DEF Balanced, r

\* Red nodes below one another after a rotation.
LEMMA RotateReds ==
    ASSUME NEW t, NEW E, NEW L, NEW n, NEW s, NEW up, NEW inner, NEW p, NEW a, NEW y,
           Shape(t, E, L), n \in E, s \in Side, Lifts(t, n, s, up, inner, p),
           n \in Red(t) /\ inner \in Red(t) => n = a \/ inner = y,
           n \in Red(t) /\ Kid(t, s, n) \in Red(t) => n = a \/ Kid(t, s, n) = y,
           up \in Red(t) /\ n \in Red(t) => up = a \/ n = y,
           up \in Red(t) /\ Kid(t, Other(s), up) \in Red(t) => up = a \/ Kid(t, Other(s), up) = y,
           p \in Red(t) /\ up \in Red(t) => p = a \/ up = y,
           \A x \in E, d \in Side : x \notin {n, up} /\ Kid(t, d, x) # n =>
                (x \in Red(t) /\ Kid(t, d, x) \in Red(t) => x = a \/ Kid(t, d, x) = y)
    PROVE  Reds(Rotate(t, n, s), E, a, y)
  <1> DEFINE r == Rotate(t, n, s)
  <1>1. /\ Red(r) = Red(t)
        /\ \A x \in E, d \in Side : RotatedKid(t, r, n, s, up, inner, p, x, d)
    BY RotateKids
  <1> HIDE DEF r
  <1>3. ASSUME NEW x \in E, NEW d \in Side, x \in Red(t), Kid(r, d, x) \in Red(t)
        PROVE  x = a \/ Kid(r, d, x) = y
    <2>1. RotatedKid(t, r, n, s, up, inner, p, x, d)
      BY <1>1
    <2>2. CASE x = p /\ d = SideOf(t, p, n) /\ p # Null /\ Kid(r, d, x) = up
      BY <1>3, <2>2
    <2>3. CASE x = up /\ d = s /\ Kid(r, d, x) = n
      BY <1>3, <2>3
    <2>4. CASE x = up /\ d = Other(s) /\ Kid(r, d, x) = Kid(t, d, x)
      BY <1>3, <2>4
    <2>5. CASE x = n /\ d = Other(s) /\ Kid(r, d, x) = inner
      BY <1>3, <2>5
    <2>6. CASE x = n /\ d = s /\ Kid(r, d, x) = Kid(t, d, x)
      BY <1>3, <2>6
    <2>7. CASE x \notin {n, up} /\ Kid(t, d, x) # n /\ Kid(r, d, x) = Kid(t, d, x)
      BY <1>3, <2>7
    <2> QED BY <2>1, <2>2, <2>3, <2>4, <2>5, <2>6, <2>7 DEF RotatedKid
  <1> QED BY <1>1, <1>3 DEF Reds, r

\* The height of a node, by its colour.
LEMMA HeightIs ==
    ASSUME NEW t, NEW L, NEW c
    PROVE  /\ c = Null => Height(t, L, c) = 0
           /\ c # Null /\ c \in Red(t) => Height(t, L, c) = Black(L, c) + 0
           /\ c # Null /\ c \notin Red(t) => Height(t, L, c) = Black(L, c) + 1
  BY DEF Height

\* Nothing is short.
LEMMA BalancedIs ==
    ASSUME NEW t, NEW E, NEW L, NEW n, NEW d,
           Shape(t, E, L), Balanced(t, E, L, Null, "left"), n \in E, d \in Side
    PROVE  /\ Black(L, n) \in Int /\ Black(L, n) >= 0
           /\ Height(t, L, Kid(t, d, n)) = Black(L, n)
           /\ Short(n, d, Null, "left") = 0
  <1>1. Short(n, d, Null, "left") = 0 /\ n \in Node /\ L \in Labels
        /\ Kid(t, d, n) \in E \cup {Null} /\ E \subseteq Node
    BY SideIs DEF Short, Shape, Joined
  <1>2. Height(t, L, Kid(t, d, n)) + Short(n, d, Null, "left") = Black(L, n) /\ Black(L, n) >= 0
    BY DEF Balanced
  <1>3. Height(t, L, Kid(t, d, n)) \in Int /\ Black(L, n) \in Int
    BY <1>1, LabelType DEF Height
  <1> QED BY <1>1, <1>2, <1>3

\* The node hangs on the inner side of its parent: rotated, they are in line.
LEMMA InsertBend ==
    ASSUME NEW t, NEW E, NEW L, NEW n, NEW p, NEW g, NEW s, NEW u,
           InsertState(t, n, E, L), Kin(t, n, p, g, s, u), Kid(t, Other(s), p) = n
    PROVE  \E M : /\ InsertState(Rotate(t, p, s), p, E, M) /\ SamePlaces(L, M)
                  /\ Kin(Rotate(t, p, s), p, n, g, s, u)
                  /\ Kid(Rotate(t, p, s), s, n) = p
  <1> DEFINE r == Rotate(t, p, s)
             M == Turned(L, p, n, s)
             inner == Kid(t, s, n)
  <1>0. /\ Shape(t, E, L) /\ n \in E /\ Reds(t, E, Null, n) /\ RootBlack(t, n)
        /\ t \in Tree /\ E \subseteq Node /\ Null \notin Node /\ L \in Labels
        /\ Balanced(t, E, L, Null, "left") /\ Clean(t, E) /\ Joined(t, E, L) /\ n \in Red(t)
    BY SideIs DEF InsertState, Shape
  <1>1. /\ p \in E /\ g \in E /\ p # n /\ g # n /\ g # p /\ s \in Side /\ Other(s) \in Side
        /\ p \in Red(t) /\ g \notin Red(t) /\ n # Root(t) /\ p # Root(t)
        /\ Kid(t, s, g) = p
        /\ Kid(t, Other(s), g) = u /\ Up(t, n) = p /\ Up(t, p) = g /\ u # p
    BY InsertAbove
  <1>2. Lifts(t, p, s, n, inner, g) /\ SideOf(t, g, p) = s
    BY <1>0, <1>1 DEF Lifts, Kin
  <1>3. /\ r \in Tree
        /\ Red(r) = Red(t)
        /\ inner \in E \cup {Null} /\ inner # n /\ inner # p
        /\ Root(r) = Root(t)
        /\ Up(r, p) = n /\ Up(r, n) = g
        /\ \A x \in E, d \in Side : RotatedKid(t, r, p, s, n, inner, g, x, d)
        /\ Clean(r, E)
    BY <1>0, <1>1, <1>2, RotateKids
  <1>4. Shape(r, E, M)
    BY <1>0, <1>1, ShapeRotate
  <1>5. /\ M \in Labels
        /\ \A x \in Node : Pos(M, x) = Pos(L, x) /\ Black(M, x) = Black(L, x)
    BY <1>0, <1>1, TurnedIs
  <1>6. \A x \in E, d \in Side : /\ Black(L, x) \in Int /\ Black(L, x) >= 0
                                 /\ Height(t, L, Kid(t, d, x)) = Black(L, x)
                                 /\ Short(x, d, Null, "left") = 0
    BY <1>0, BalancedIs
  <1> HIDE DEF r, M, inner
  <1>7. \A c : c \in E \cup {Null} => Height(t, M, c) = Height(t, L, c)
    BY <1>0, <1>5 DEF Height
  <1>8. Balanced(r, E, M, Null, "left")
    <2>1. Black(L, p) = Black(L, n) /\ Black(L, g) = Black(L, p)
      <3>1. Height(t, L, n) = Black(L, p) /\ Height(t, L, p) = Black(L, g)
        BY <1>1, <1>6
      <3>2. n # Null /\ p # Null /\ Black(L, n) \in Int /\ Black(L, p) \in Int
        BY <1>0, <1>1, <1>6
      <3> QED BY <1>0, <1>1, <3>1, <3>2, HeightIs
    <2>2. \A x \in E, d \in Side :
             Kid(t, d, x) \in E \cup {Null}
             /\ Height(t, M, Kid(t, d, x)) + Short(x, d, Null, "left") = Black(M, x)
      BY <1>0, <1>5, <1>6, <1>7 DEF Joined
    <2>3. Height(t, M, n) = Black(M, n) /\ Height(t, M, p) = Black(M, p)
      <3>1. n # Null /\ p # Null /\ Black(M, n) \in Int /\ Black(M, p) \in Int
        BY <1>0, <1>1, <1>5, <1>6
      <3> QED BY <1>0, <1>1, <3>1, HeightIs
    <2>4. /\ Black(M, p) = Black(M, n) /\ Black(M, g) = Black(M, p)
          /\ Black(M, p) \in Int /\ \A x \in E : Black(M, x) >= 0
      BY <1>0, <1>1, <1>5, <1>6, <2>1
    <2>5. \A x \in E, d \in Side : Short(x, d, Null, "left") = 0
      BY <1>6
    <2>6. /\ Height(t, M, inner) + Short(p, Other(s), Null, "left") = Black(M, p)
          /\ Height(t, M, p) + Short(n, s, Null, "left") = Black(M, n)
          /\ Height(t, M, n) + Short(g, s, Null, "left") = Black(M, g)
      <3>1. Height(t, M, inner) + Short(n, s, Null, "left") = Black(M, n)
        BY <1>0, <1>1, <2>2 DEF inner
      <3> QED BY <1>0, <1>1, <2>3, <2>4, <2>5, <3>1
    <2> QED BY <1>0, <1>1, <1>2, <2>2, <2>4, <2>6, RotateBalanced DEF r
  <1>9. Reds(r, E, Null, p)
    <2>1. \A x \in E, d \in Side : x \in Red(t) /\ Kid(t, d, x) \in Red(t) => Kid(t, d, x) = n
      BY <1>0 DEF Reds
    <2>2. inner \notin Red(t) /\ Kid(t, s, p) \notin Red(t) /\ Kid(t, Other(s), n) \notin Red(t)
      <3>1. inner \notin Red(t)
        BY <1>0, <1>1, <1>3, <2>1 DEF inner
      <3>2. Kid(t, s, p) # n
        <4>1. Kid(t, Other(s), p) # Null
          BY <1>0, <1>1 DEF Kin
        <4>2. Kid(t, Other(Other(s)), p) # Kid(t, Other(s), p) /\ Other(Other(s)) = s
          BY <1>0, <1>1, <4>1, ChildIs, OtherIs
        <4> QED BY <4>2
      <3>3. Kid(t, s, p) \notin Red(t)
        BY <1>1, <2>1, <3>2
      <3>4. Kid(t, Other(s), n) \notin Red(t)
        <4>1. Kid(t, Other(s), n) # Null => Kid(t, Other(s), n) # n
          BY <1>0, <1>1, ChildIs
        <4>2. n # Null
          BY <1>0
        <4> QED BY <1>0, <1>1, <2>1, <4>1, <4>2
      <3> QED BY <3>1, <3>3, <3>4
    <2>3. \A x \in E, d \in Side : x \notin {p, n} /\ Kid(t, d, x) # p =>
              (x \in Red(t) /\ Kid(t, d, x) \in Red(t) => x = Null \/ Kid(t, d, x) = p)
      <3> SUFFICES ASSUME NEW x \in E, NEW d \in Side, x \notin {p, n}, x \in Red(t),
                          Kid(t, d, x) \in Red(t)
                   PROVE  FALSE
        OBVIOUS
      <3>1. Kid(t, d, x) = n
        BY <2>1
      <3>2. Up(t, n) = x
        BY <1>0, <3>1, ChildIs
      <3> QED BY <1>1, <3>2
    <2> QED BY <1>0, <1>1, <1>2, <2>2, <2>3, RotateReds DEF r
  <1>10. RootBlack(r, p)
    BY <1>0, <1>1, <1>3 DEF RootBlack
  <1>11. InsertState(r, p, E, M)
    BY <1>1, <1>3, <1>4, <1>8, <1>9, <1>10 DEF InsertState
  <1>12. Kid(r, s, g) = n /\ Kid(r, Other(s), g) = u /\ Kid(r, s, n) = p
    <2>1. s # Other(s)
      BY <1>1, OtherIs
    <2>2. RotatedKid(t, r, p, s, n, inner, g, g, s) /\ RotatedKid(t, r, p, s, n, inner, g, g, Other(s))
          /\ RotatedKid(t, r, p, s, n, inner, g, n, s)
      BY <1>0, <1>1, <1>3
    <2>3. Kid(r, s, g) = n
      BY <1>1, <1>2, <2>2 DEF RotatedKid
    <2>4. Kid(r, Other(s), g) = u
      BY <1>1, <1>2, <2>1, <2>2 DEF RotatedKid
    <2>5. Kid(r, s, n) = p
      BY <1>1, <2>1, <2>2 DEF RotatedKid
    <2> QED BY <2>3, <2>4, <2>5
  <1>13. Kin(r, p, n, g, s, u)
    <2>1. SideOf(r, g, n) = s
      <3>1. Kid(r, s, g) # Null
        BY <1>0, <1>12
      <3> QED BY <1>1, <1>4, <1>12, <3>1, ChildIs
    <2>2. IsRed(r, n)
      <3>1. n \in Node \cup {Null} /\ n \in Red(r)
        BY <1>0, <1>3
      <3> QED BY <3>1, IsRedIs
    <2> QED BY <1>3, <1>12, <2>1, <2>2 DEF Kin
  <1>14. SamePlaces(L, M)
    BY <1>5 DEF SamePlaces
  <1> QED BY <1>11, <1>12, <1>13, <1>14 DEF r

\* In line, and with a black uncle: the grandparent goes down on the uncle's side.
LEMMA InsertTurn ==
    ASSUME NEW t, NEW E, NEW L, NEW n, NEW p, NEW g, NEW s, NEW u, NEW r,
           InsertState(t, n, E, L), Kin(t, n, p, g, s, u), Kid(t, s, p) = n, ~IsRed(t, u),
           r = Rotate(Redden(Blacken(t, p), g), g, Other(s))
    PROVE  \E M : InsertState(r, n, E, M) /\ SamePlaces(L, M) /\ ~IsRed(r, Up(r, n))
  <1> DEFINE o == Other(s)
             t1 == Blacken(t, p)
             t2 == Redden(t1, g)
             M == Turned(L, g, p, o)
             inner == Kid(t, o, p)
             q == Up(t, g)
  <1>0. /\ Shape(t, E, L) /\ n \in E /\ Reds(t, E, Null, n) /\ RootBlack(t, n)
        /\ t \in Tree /\ E \subseteq Node /\ Null \notin Node /\ L \in Labels
        /\ Balanced(t, E, L, Null, "left") /\ Clean(t, E) /\ Joined(t, E, L) /\ n \in Red(t)
    BY SideIs DEF InsertState, Shape
  <1>1. /\ p \in E /\ g \in E /\ p # n /\ g # n /\ g # p /\ s \in Side /\ o \in Side
        /\ p \in Red(t) /\ g \notin Red(t) /\ n # Root(t) /\ p # Root(t)
        /\ Kid(t, s, g) = p /\ u \in E \cup {Null} /\ u # g
        /\ Kid(t, o, g) = u /\ Up(t, n) = p /\ Up(t, p) = g /\ u # p
    BY InsertAbove
  <1>2. o # s /\ Other(o) = s
    BY <1>1, OtherIs
  <1>3. u \notin Red(t)
    BY <1>0, <1>1, IsRedIs
  <1>4. /\ t1 \in Tree /\ Root(t1) = Root(t)
        /\ Red(t1) = Red(t) \ {p} /\ \A z \in Node : Up(t1, z) = Up(t, z)
        /\ \A e \in Side, z \in Node : Kid(t1, e, z) = Kid(t, e, z)
    BY <1>0, <1>1, BlackenIs
  <1> HIDE DEF t1
  <1>5. /\ t2 \in Tree /\ Root(t2) = Root(t)
        /\ Red(t2) = (Red(t) \ {p}) \cup {g} /\ \A z \in Node : Up(t2, z) = Up(t, z)
        /\ \A e \in Side, z \in Node : Kid(t2, e, z) = Kid(t, e, z)
    BY <1>0, <1>1, <1>4, ReddenIs
  <1>6. r = Rotate(t2, g, o)
    BY DEF t1
  <1> HIDE DEF t2, o
  <1>7. Shape(t2, E, L)
    BY <1>0, <1>5, ShapeSame
  <1>8. Lifts(t2, g, o, p, inner, q)
    BY <1>0, <1>1, <1>2, <1>5 DEF Lifts
  <1>9. /\ r \in Tree
        /\ Red(r) = Red(t2)
        /\ inner \in E \cup {Null} /\ inner # g /\ inner # p
        /\ Root(r) = IF q = Null THEN p ELSE Root(t)
        /\ q = Null <=> g = Root(t)
        /\ q # Null => q \in E /\ SideOf(t2, q, g) \in Side /\ Kid(t2, SideOf(t2, q, g), q) = g
        /\ p # q /\ g # q
        /\ \A x \in E, d \in Side : RotatedKid(t2, r, g, o, p, inner, q, x, d)
        /\ Clean(r, E)
    <2>1. Clean(t2, E)
      <3> SUFFICES ASSUME NEW x \in Node, x \notin E
                   PROVE  Up(t2, x) = Null /\ x \notin Red(t2) /\ \A d \in Side : Kid(t2, d, x) = Null
        BY DEF Clean
      <3> QED BY <1>0, <1>1, <1>5 DEF Clean
    <2> QED BY <1>1, <1>5, <1>6, <1>7, <1>8, <2>1, RotateKids
  <1>10. Shape(r, E, M)
    <2>1. p = Kid(t2, Other(o), g) /\ p # Null
      BY <1>0, <1>1, <1>2, <1>5
    <2> QED BY <1>1, <1>6, <1>7, <2>1, ShapeRotate
  <1>11. /\ M \in Labels
         /\ \A x \in Node : Pos(M, x) = Pos(L, x) /\ Black(M, x) = Black(L, x)
    BY <1>0, <1>1, TurnedIs
  <1>12. \A x \in E, d \in Side : /\ Black(L, x) \in Int /\ Black(L, x) >= 0
                                  /\ Height(t, L, Kid(t, d, x)) = Black(L, x)
                                  /\ Short(x, d, Null, "left") = 0
    BY <1>0, BalancedIs
  <1> HIDE DEF M, inner, q
  <1>13. \A c : c \in E \cup {Null} /\ c # p /\ c # g => Height(t2, M, c) = Height(t, L, c)
    <2> SUFFICES ASSUME NEW c, c \in E \cup {Null}, c # p, c # g
                 PROVE  Height(t2, M, c) = Height(t, L, c)
      OBVIOUS
    <2>1. c \in Red(t2) <=> c \in Red(t)
      BY <1>5
    <2>2. c # Null => Black(M, c) = Black(L, c)
      BY <1>0, <1>11
    <2> QED BY <2>1, <2>2 DEF Height
  <1>14. /\ Black(L, p) = Black(L, g) /\ Black(L, n) = Black(L, g)
         /\ q # Null => Black(L, q) = Black(L, g) + 1
    <2>1. Height(t, L, n) = Black(L, p) /\ Height(t, L, p) = Black(L, g)
      BY <1>1, <1>12
    <2>2. n # Null /\ p # Null /\ g # Null /\ \A x \in E : Black(L, x) \in Int
      BY <1>0, <1>1, <1>12, SideIs
    <2>3. q # Null => Height(t, L, g) = Black(L, q)
      BY <1>0, <1>5, <1>9, <1>12
    <2> QED BY <1>0, <1>1, <2>1, <2>2, <2>3, HeightIs
  <1>15. Balanced(r, E, M, Null, "left")
    <2>1. \A x \in E : Black(M, x) = Black(L, x) /\ Black(M, x) >= 0 /\ Black(M, x) \in Int
      BY <1>0, <1>1, <1>11, <1>12
    <2>2. \A x \in E, d \in Side : Short(x, d, Null, "left") = 0
      BY <1>12
    <2>3. Height(t2, M, inner) + Short(g, Other(o), Null, "left") = Black(M, g)
      <3>1. Height(t2, M, inner) = Height(t, L, inner)
        BY <1>9, <1>13
      <3>2. Height(t, L, inner) = Black(L, p)
        BY <1>1, <1>12 DEF inner
      <3> QED BY <1>1, <1>2, <1>14, <2>1, <2>2, <3>1, <3>2
    <2>4. Height(t2, M, Kid(t2, o, g)) + Short(g, o, Null, "left") = Black(M, g)
      <3>1. Kid(t2, o, g) = u
        BY <1>0, <1>1, <1>5
      <3>2. Height(t2, M, u) = Height(t, L, u)
        BY <1>1, <1>13
      <3>3. Height(t, L, u) = Black(L, g)
        BY <1>1, <1>12
      <3> QED BY <1>1, <2>1, <2>2, <3>1, <3>2, <3>3
    <2>5. Height(t2, M, g) + Short(p, o, Null, "left") = Black(M, p)
      <3>1. Height(t2, M, g) = Black(M, g) + 0
        BY <1>0, <1>1, <1>5, HeightIs
      <3> QED BY <1>1, <1>14, <2>1, <2>2, <3>1
    <2>6. Height(t2, M, Kid(t2, Other(o), p)) + Short(p, Other(o), Null, "left") = Black(M, p)
      <3>1. Kid(t2, s, p) = n
        BY <1>0, <1>1, <1>5
      <3>2. Height(t2, M, n) = Black(M, n) + 0
        BY <1>0, <1>1, <1>5, HeightIs
      <3> QED BY <1>0, <1>1, <1>2, <1>14, <2>1, <2>2, <3>1, <3>2
    <2>7. q # Null => Height(t2, M, p) + Short(q, SideOf(t2, q, g), Null, "left") = Black(M, q)
      <3>1. Height(t2, M, p) = Black(M, p) + 1
        BY <1>0, <1>1, <1>5, HeightIs
      <3> QED BY <1>1, <1>9, <1>14, <2>1, <2>2, <3>1
    <2>8. ASSUME NEW x \in E, NEW d \in Side, x \notin {g, p}, Kid(t2, d, x) # g
          PROVE  Height(t2, M, Kid(t2, d, x)) + Short(x, d, Null, "left") = Black(M, x)
      <3> DEFINE c == Kid(t, d, x)
      <3>1. Kid(t2, d, x) = c /\ c \in E \cup {Null}
        BY <1>0, <1>5 DEF Joined
      <3>2. c # p
        BY <1>0, <1>1, <2>8, ChildIs
      <3>3. Height(t2, M, c) = Height(t, L, c)
        BY <1>13, <2>8, <3>1, <3>2
      <3> QED BY <1>12, <2>1, <2>2, <3>1, <3>3
    <2>9. Balanced(Rotate(t2, g, o), E, M, Null, "left")
      <3>1. g \in E /\ o \in Side /\ \A x \in E : Black(M, x) >= 0
        BY <1>1, <2>1
      <3> QED BY <1>7, <1>8, <2>3, <2>4, <2>5, <2>6, <2>7, <2>8, <3>1, RotateBalanced, SMTT(30)
    <2> QED BY <1>6, <2>9
  <1>16. Reds(r, E, Null, n)
    <2>1. \A x \in E, d \in Side : x \in Red(t) /\ Kid(t, d, x) \in Red(t) => Kid(t, d, x) = n
      BY <1>0 DEF Reds
    <2>2. inner \notin Red(t2)
      <3>1. inner # n
        <4>1. Kid(t, s, p) # Null
          BY <1>0
        <4>2. Kid(t, Other(s), p) # Kid(t, s, p)
          BY <1>0, <1>1, <4>1, ChildIs
        <4> QED BY <4>2 DEF inner, o
      <3>2. inner \notin Red(t)
        BY <1>1, <2>1, <3>1 DEF inner
      <3> QED BY <1>5, <1>9, <3>2
    <2>3. Kid(t2, o, g) \notin Red(t2) /\ p \notin Red(t2)
      BY <1>0, <1>1, <1>3, <1>5
    <2>4. \A x \in E, d \in Side : x \notin {g, p} /\ Kid(t2, d, x) # g =>
              (x \in Red(t2) /\ Kid(t2, d, x) \in Red(t2) => x = Null \/ Kid(t2, d, x) = n)
      BY <1>0, <1>5, <2>1
    <2> QED BY <1>1, <1>2, <1>6, <1>7, <1>8, <2>2, <2>3, <2>4, RotateReds
  <1>17. RootBlack(r, n)
    <2> SUFFICES Root(r) \notin Red(t2)
      BY <1>9 DEF RootBlack
    <2>1. CASE q = Null
      BY <1>1, <1>5, <1>9, <2>1
    <2>2. CASE q # Null
      BY <1>0, <1>1, <1>5, <1>9, <2>2 DEF RootBlack
    <2> QED BY <2>1, <2>2
  <1>18. Kid(r, s, p) = n
    <2>1. RotatedKid(t2, r, g, o, p, inner, q, p, s)
      BY <1>1, <1>9
    <2> QED BY <1>0, <1>1, <1>2, <1>5, <1>9, <2>1 DEF RotatedKid
  <1>19. Up(r, n) = p
    <2>1. Kid(r, s, p) # Null
      BY <1>0, <1>18
    <2> QED BY <1>1, <1>10, <1>18, <2>1, ChildIs
  <1>20. ~IsRed(r, Up(r, n))
    <2>1. p \notin Red(r) /\ p \in Node \cup {Null}
      BY <1>0, <1>1, <1>5, <1>9
    <2> QED BY <1>19, <2>1, IsRedIs
  <1>21. n \in Red(r)
    BY <1>0, <1>1, <1>5, <1>9
  <1>22. InsertState(r, n, E, M)
    BY <1>0, <1>9, <1>10, <1>15, <1>16, <1>17, <1>21 DEF InsertState
  <1>23. SamePlaces(L, M)
    BY <1>11 DEF SamePlaces
  <1> QED BY <1>20, <1>22, <1>23

\* A pass of insert.
InsertOk(c, E, L) == InsertState(c.tree, c.node, E, L)

\* A pass of insert_fixup keeps what is right, and leaves a wider subtree, or the loop.
LEMMA InsertPassIs ==
    ASSUME NEW c, NEW E, NEW L, InsertOk(c, E, L), ~InsertDone(c)
    PROVE  \E M : /\ InsertOk(InsertPass(c), E, M) /\ SamePlaces(L, M)
                  /\ \/ InsertDone(InsertPass(c))
                     \/ /\ Width(M, InsertPass(c).node) > Width(L, c.node)
                        /\ Width(M, InsertPass(c).node) \in Int /\ Width(L, c.node) \in Int
  <1> DEFINE t == c.tree  n == c.node
             p == Up(t, n)  g == Up(t, p)  s == SideOf(t, g, p)  u == Kid(t, Other(s), g)
  <1>1. InsertState(t, n, E, L) /\ Kin(t, n, p, g, s, u)
    BY DEF InsertOk, InsertDone, Kin, Up
  <1>2. CASE IsRed(t, u)
    <2> DEFINE r == Redden(Blacken(Blacken(t, u), p), g)
    <2>1. InsertPass(c) = [tree |-> r, node |-> g]
      BY <1>2, Zenon DEF InsertPass, Redden, Blacken, Up, Kid
    <2> HIDE DEF r
    <2>2. InsertPass(c).tree = r /\ InsertPass(c).node = g
      BY <2>1
    <2> HIDE DEF t, n, p, g, s, u
    <2>3. \E M : InsertState(r, g, E, M) /\ SamePlaces(L, M)
                 /\ Width(M, g) > Width(L, n) /\ Width(M, g) \in Int /\ Width(L, n) \in Int
      BY <1>1, <1>2, InsertUncle DEF r
    <2> QED BY <2>2, <2>3 DEF InsertOk, n
  <1>3. CASE ~IsRed(t, u) /\ Kid(t, Other(s), p) = n
    <2> DEFINE b == Rotate(t, p, s)
               r == Rotate(Redden(Blacken(b, n), g), g, Other(s))
    <2>1. InsertPass(c) = [tree |-> r, node |-> p]
      BY <1>3, Zenon DEF InsertPass, Redden, Blacken, Up, Kid
    <2> HIDE DEF r
    <2>2. InsertPass(c).tree = r /\ InsertPass(c).node = p
      BY <2>1
    <2> HIDE DEF t, n, p, g, s, u, b
    <2>3. PICK M : /\ InsertState(b, p, E, M) /\ SamePlaces(L, M)
                   /\ Kin(b, p, n, g, s, u) /\ Kid(b, s, n) = p
      BY <1>1, <1>3, InsertBend DEF b
    <2>4. ~IsRed(b, u)
      <3>1. Red(b) = Red(t) /\ u \in Node \cup {Null}
        <4>1. /\ Shape(t, E, L) /\ p \in E /\ s \in Side /\ n # Null
              /\ u \in E \cup {Null} /\ E \subseteq Node
          BY <1>1, InsertAbove, SideIs DEF InsertState, Shape
        <4>2. Lifts(t, p, s, n, Kid(t, s, n), Up(t, p))
          BY <1>3, <4>1 DEF Lifts
        <4> QED BY <4>1, <4>2, RotateKids DEF b
      <3> QED BY <1>3, <3>1, IsRedIs
    <2>5. PICK K : InsertState(r, p, E, K) /\ SamePlaces(M, K) /\ ~IsRed(r, Up(r, p))
      BY <2>3, <2>4, InsertTurn DEF r
    <2>6. SamePlaces(L, K)
      BY <2>3, <2>5 DEF SamePlaces
    <2> QED BY <2>2, <2>5, <2>6 DEF InsertOk, InsertDone, Up
  <1>4. CASE ~IsRed(t, u) /\ Kid(t, Other(s), p) # n
    <2> DEFINE r == Rotate(Redden(Blacken(t, p), g), g, Other(s))
    <2>1. InsertPass(c) = [tree |-> r, node |-> n]
      BY <1>4, Zenon DEF InsertPass, Redden, Blacken, Up, Kid
    <2> HIDE DEF r
    <2>2. InsertPass(c).tree = r /\ InsertPass(c).node = n
      BY <2>1
    <2> HIDE DEF t, n, p, g, s, u
    <2>3. Kid(t, s, p) = n
      <3>1. Kid(t, SideOf(t, p, n), p) = n /\ SideOf(t, p, n) \in Side /\ s \in Side
        BY <1>1, InsertAbove
      <3> QED BY <1>4, <3>1, OtherIs
    <2>4. PICK K : InsertState(r, n, E, K) /\ SamePlaces(L, K) /\ ~IsRed(r, Up(r, n))
      BY <1>1, <1>4, <2>3, InsertTurn DEF r
    <2> QED BY <2>2, <2>4 DEF InsertOk, InsertDone, Up
  <1> QED BY <1>2, <1>3, <1>4

-----------------------------------------------------------------------------
(* Loops and bounds. *)

\* K steps of G.
Iterates(f, V, G, b, K) ==
    f \in [0..K -> V] /\ f[0] = b /\ \A i \in 1..K : f[i] = G[f[i - 1]]

\* A function that iterates G exists.
LEMMA Iterate ==
    ASSUME NEW V, NEW G, NEW b, NEW K, G \in [V -> V], b \in V, K \in Nat
    PROVE  \E f : Iterates(f, V, G, b, K)
  <1> DEFINE Ok(k, f) == f \in [0..k -> V] /\ f[0] = b /\ \A i \in 1..k : f[i] = G[f[i - 1]]
             S == {k \in Nat : \E f : Ok(k, f)}
  <1>1. 0 \in S
    <2>1. Ok(0, [i \in 0..0 |-> b])
      OBVIOUS
    <2> QED BY <2>1
  <1>2. ASSUME NEW k \in 0..(K - 1), k \in S
        PROVE  k + 1 \in S
    <2>1. PICK f : Ok(k, f)
      BY <1>2
    <2> DEFINE g == [i \in 0..(k + 1) |-> IF i <= k THEN f[i] ELSE G[f[k]]]
    <2>2. k \in Nat /\ f[k] \in V /\ G[f[k]] \in V /\ f \in [0..k -> V]
      BY <2>1
    <2>3. g \in [0..(k + 1) -> V]
      BY <2>2
    <2>4. /\ \A i \in 0..k : g[i] = f[i]
          /\ g[k + 1] = G[f[k]]
      BY <2>2
    <2> HIDE DEF g
    <2>5. g[0] = b
      BY <2>1, <2>2, <2>4
    <2>6. ASSUME NEW i \in 1..(k + 1) PROVE g[i] = G[g[i - 1]]
      <3>1. CASE i = k + 1
        BY <2>2, <2>4, <3>1
      <3>2. CASE i # k + 1
        <4>1. i \in 1..k /\ i - 1 \in 0..k /\ i \in 0..k
          BY <2>2, <3>2
        <4> QED BY <2>1, <2>4, <4>1
      <3> QED BY <3>1, <3>2
    <2>7. Ok(k + 1, g)
      BY <2>3, <2>5, <2>6
    <2> QED BY <2>2, <2>7
  <1> HIDE DEF S
  <1>3. \A i \in 0..K : i \in S
    BY <1>1, <1>2, IntervalInduction
  <1>4. K \in S
    BY <1>3
  <1>5. PICK f : Ok(K, f)
    BY <1>4 DEF S
  <1> QED BY <1>5 DEF Iterates

\* A finite set of numbers has a greatest.
LEMMA GreatestElement ==
    ASSUME NEW S, IsFiniteSet(S), S # {}, S \subseteq Int
    PROVE  \E m \in S : \A x \in S : x <= m
  <1> DEFINE c == Cardinality(S)
  <1>1. c \in Nat /\ ExistsBijection(1..c, S)
    BY FS_CardinalityType
  <1>2. PICK f : f \in Bijection(1..c, S)
    BY <1>1 DEF ExistsBijection
  <1>3. f \in [1..c -> S] /\ \A x \in S : \E i \in 1..c : f[i] = x
    BY <1>2 DEF Bijection, Surjection, Injection
  <1> HIDE DEF c
  <1>4. c >= 1
    <2>1. PICK x \in S : TRUE
      OBVIOUS
    <2>2. PICK i \in 1..c : f[i] = x
      BY <1>3, <2>1
    <2> QED BY <1>1, <2>2
  <1> DEFINE T == {k \in Nat : k <= c => \E m \in S : \A i \in 1..k : f[i] <= m}
  <1>5. 1 \in T
    <2>1. f[1] \in S /\ f[1] \in Int
      <3>1. 1 \in 1..c
        BY <1>1, <1>4
      <3> QED BY <1>3, <3>1
    <2>2. \A i \in 1..1 : f[i] <= f[1]
      BY <2>1
    <2> QED BY <2>1, <2>2
  <1>6. ASSUME NEW k \in 1..(c - 1), k \in T PROVE k + 1 \in T
    <2>1. k \in Nat /\ k <= c /\ k + 1 \in 1..c
      BY <1>1, <1>6
    <2>2. PICK m \in S : \A i \in 1..k : f[i] <= m
      BY <1>6, <2>1
    <2> DEFINE w == IF f[k + 1] <= m THEN m ELSE f[k + 1]
    <2>3. w \in S /\ m <= w /\ f[k + 1] <= w /\ w \in Int /\ m \in Int
      <3>1. f[k + 1] \in S
        BY <1>3, <2>1
      <3>2. f[k + 1] \in Int /\ m \in Int
        BY <3>1, <2>2
      <3> QED BY <3>1, <3>2
    <2> HIDE DEF w
    <2>4. \A i \in 1..(k + 1) : f[i] <= w
      <3> SUFFICES ASSUME NEW i \in 1..(k + 1) PROVE f[i] <= w
        OBVIOUS
      <3>1. CASE i = k + 1
        BY <2>3, <3>1
      <3>2. CASE i # k + 1
        <4>1. i \in 1..k /\ i \in 1..c
          BY <1>1, <2>1, <3>2
        <4>2. f[i] \in Int /\ f[i] <= m
          BY <1>3, <2>2, <4>1
        <4> QED BY <2>3, <4>2
      <3> QED BY <3>1, <3>2
    <2> QED BY <2>1, <2>3, <2>4
  <1> HIDE DEF T
  <1>7. \A i \in 1..c : i \in T
    BY <1>1, <1>4, <1>5, <1>6, IntervalInduction
  <1>8. c \in T
    BY <1>1, <1>4, <1>7
  <1>9. PICK m \in S : \A i \in 1..c : f[i] <= m
    BY <1>1, <1>8 DEF T
  <1> QED BY <1>3, <1>9

-----------------------------------------------------------------------------
(* The places of a tree are 1 to the edge of its root, without a gap. *)

Highest(t, L) == IF Root(t) = Null THEN 0 ELSE Edge(L, "right", Root(t))

\* Every place and edge is a number, and a node lies between its edges.
LEMMA EdgesType ==
    ASSUME NEW t, NEW E, NEW L, NEW n, Shape(t, E, L), n \in E
    PROVE  /\ n \in Node /\ Pos(L, n) \in Int /\ Edge(L, "left", n) \in Int /\ Edge(L, "right", n) \in Int
           /\ Edge(L, "left", n) <= Pos(L, n) /\ Pos(L, n) <= Edge(L, "right", n)
           /\ Width(L, n) \in Nat
           /\ Width(L, n) = Edge(L, "right", n) - Edge(L, "left", n)
  <1>0. E \subseteq Node /\ L \in Labels /\ Placed(E, L)
    BY DEF Shape
  <1>1. n \in Node /\ Pos(L, n) \in Int /\ Edge(L, "left", n) \in Int /\ Edge(L, "right", n) \in Int
    BY <1>0, LabelType, SideIs
  <1>2. Edge(L, "left", n) <= Pos(L, n) /\ Pos(L, n) <= Edge(L, "right", n)
    BY <1>0 DEF Placed
  <1> QED BY <1>1, <1>2 DEF Width

\* The places of the two subtrees.
LEMMA ChildEdges ==
    ASSUME NEW t, NEW E, NEW L, NEW n, Shape(t, E, L), n \in E
    PROVE  /\ Kid(t, "left", n) = Null => Edge(L, "left", n) = Pos(L, n)
           /\ Kid(t, "left", n) # Null =>
                /\ Edge(L, "left", Kid(t, "left", n)) = Edge(L, "left", n)
                /\ Edge(L, "right", Kid(t, "left", n)) = Pos(L, n) - 1
           /\ Kid(t, "right", n) = Null => Edge(L, "right", n) = Pos(L, n)
           /\ Kid(t, "right", n) # Null =>
                /\ Edge(L, "left", Kid(t, "right", n)) = Pos(L, n) + 1
                /\ Edge(L, "right", Kid(t, "right", n)) = Edge(L, "right", n)
  <1>0. Leads(t, L, n, "left") /\ Leads(t, L, n, "right") /\ Pos(L, n) \in Int
    BY SideIs, EdgesType DEF Shape, Joined
  <1>1. Pos(L, n) + Dir("left") = Pos(L, n) - 1 /\ Pos(L, n) + Dir("right") = Pos(L, n) + 1
    BY <1>0, SideIs
  <1> QED BY <1>0, <1>1, SideIs DEF Leads

\* Every place within the edges of a node is that of an element.
LEMMA NoGap ==
    ASSUME NEW t, NEW E, NEW L, NEW n, Shape(t, E, L), n \in E,
           NEW i \in Edge(L, "left", n)..Edge(L, "right", n)
    PROVE  \E x \in E : Pos(L, x) = i
  <1> DEFINE Full(x) == \A j \in Edge(L, "left", x)..Edge(L, "right", x) :
                            \E y \in E : Pos(L, y) = j
             W == {Width(L, x) : x \in {y \in E : ~Full(y)}}
  <1>1. W = {}
    <2> SUFFICES ASSUME W # {} PROVE FALSE
      OBVIOUS
    <2>1. W \subseteq Nat
      BY EdgesType
    <2> HIDE DEF W
    <2>2. PICK w \in W : \A v \in W : w <= v
      BY <2>1, LeastElement
    <2>3. PICK x \in E : ~Full(x) /\ w = Width(L, x)
      BY DEF W
    <2>4. ASSUME NEW s \in Side, Kid(t, s, x) # Null
          PROVE  Kid(t, s, x) \in E /\ Full(Kid(t, s, x))
      <3> DEFINE c == Kid(t, s, x)
      <3>1. c \in E /\ Width(L, c) < w /\ Width(L, c) \in Int /\ w \in Int
        BY <2>3, <2>4, ChildIs, ChildWidth
      <3> HIDE DEF Full, c
      <3>2. Full(c)
        <4> SUFFICES ASSUME ~Full(c) PROVE FALSE
          OBVIOUS
        <4>1. Width(L, c) \in W
          BY <3>1 DEF W
        <4> QED BY <2>2, <3>1, <4>1
      <3> QED BY <3>1, <3>2 DEF c
    <2>5. PICK j \in Edge(L, "left", x)..Edge(L, "right", x) : ~\E y \in E : Pos(L, y) = j
      BY <2>3
    <2>6. /\ Pos(L, x) \in Int /\ Edge(L, "left", x) \in Int /\ Edge(L, "right", x) \in Int
          /\ Pos(L, x) # j
      BY <2>3, <2>5, EdgesType
    <2>7. CASE j < Pos(L, x)
      <3>1. Kid(t, "left", x) # Null
        <4>1. Kid(t, "left", x) = Null => Edge(L, "left", x) = Pos(L, x)
          BY ChildEdges
        <4> QED BY <2>5, <2>6, <2>7, <4>1
      <3>2. j \in Edge(L, "left", Kid(t, "left", x))..Edge(L, "right", Kid(t, "left", x))
        BY <2>5, <2>6, <2>7, <3>1, ChildEdges
      <3> QED BY <2>4, <2>5, <3>1, <3>2, SideIs
    <2>8. CASE j > Pos(L, x)
      <3>1. Kid(t, "right", x) # Null
        BY <2>5, <2>6, <2>8, ChildEdges
      <3>2. j \in Edge(L, "left", Kid(t, "right", x))..Edge(L, "right", Kid(t, "right", x))
        BY <2>5, <2>6, <2>8, <3>1, ChildEdges
      <3> QED BY <2>4, <2>5, <3>1, <3>2, SideIs
    <2> QED BY <2>5, <2>6, <2>7, <2>8
  <1>2. Full(n)
    BY <1>1
  <1> QED BY <1>2

\* A child is within the edges of its parent.
LEMMA ChildWithin ==
    ASSUME NEW t, NEW E, NEW L, NEW n, NEW s,
           Shape(t, E, L), n \in E, s \in Side, Kid(t, s, n) # Null
    PROVE  /\ Kid(t, s, n) \in E
           /\ Edge(L, "left", n) <= Edge(L, "left", Kid(t, s, n))
           /\ Edge(L, "right", Kid(t, s, n)) <= Edge(L, "right", n)
  <1>1. Kid(t, s, n) \in E
    BY ChildIs
  <1>2. /\ Edge(L, "left", n) \in Int /\ Edge(L, "right", n) \in Int /\ Pos(L, n) \in Int
        /\ Edge(L, "left", n) <= Pos(L, n) /\ Pos(L, n) <= Edge(L, "right", n)
    BY EdgesType
  <1>3. CASE s = "left"
    BY <1>1, <1>2, <1>3, ChildEdges
  <1>4. CASE s = "right"
    BY <1>1, <1>2, <1>4, ChildEdges
  <1> QED BY <1>3, <1>4, SideIs

\* The subtree of every element lies within that of the root.
LEMMA Spans ==
    ASSUME NEW t, NEW E, NEW L, Shape(t, E, L)
    PROVE  /\ Highest(t, L) \in Nat
           /\ \A n \in E : 1 <= Edge(L, "left", n) /\ Edge(L, "right", n) <= Highest(t, L)
  <1> DEFINE R == Root(t)
             N == Highest(t, L)
             Out(x) == ~(1 <= Edge(L, "left", x) /\ Edge(L, "right", x) <= N)
             W == {Width(L, x) : x \in {y \in E : Out(y)}}
  <1>0. E \subseteq Node /\ IsFiniteSet(Node) /\ Null \notin Node
    BY MapAssumption DEF Shape
  <1>1. CASE R = Null
    <2>1. E = {} /\ N = 0
      BY <1>1 DEF Shape, Rooted, Highest
    <2> QED BY <2>1
  <1>2. CASE R # Null
    <2>1. R \in E /\ N = Edge(L, "right", R) /\ Edge(L, "left", R) = 1
      BY <1>2 DEF Shape, Rooted, Highest
    <2>2. N \in Nat
      BY <2>1, EdgesType
    <2> HIDE DEF R, N
    <2>3. W = {}
      <3> SUFFICES ASSUME W # {} PROVE FALSE
        OBVIOUS
      <3>1. W \subseteq Int
        BY EdgesType
      <3>2. IsFiniteSet(W)
        <4>1. IsFiniteSet({y \in E : Out(y)})
          BY <1>0, FS_Subset
        <4> DEFINE B == {y \in E : Out(y)}
                   f == [x \in B |-> Width(L, x)]
        <4>2. f \in Surjection(B, W)
          BY DEF Surjection
        <4> HIDE DEF f, W, B
        <4>3. IsFiniteSet(B)
          BY <4>1 DEF B
        <4> QED BY <4>2, <4>3, FS_Surjection
      <3> HIDE DEF W
      <3>3. PICK w \in W : \A v \in W : v <= w
        BY <3>1, <3>2, GreatestElement
      <3>4. PICK x \in E : Out(x) /\ w = Width(L, x)
        BY DEF W
      <3>5. x # R
        BY <2>1, <2>2, <3>4
      <3> DEFINE p == Up(t, x)
      <3>6. PICK s \in Side : p \in E /\ Kid(t, s, p) = x
        BY <3>5, ParentIs DEF R
      <3>7. Width(L, x) < Width(L, p) /\ Width(L, x) \in Int /\ Width(L, p) \in Int
        BY <1>0, <3>6, ChildWidth
      <3>8. Out(p)
        <4>1. /\ Edge(L, "left", p) <= Edge(L, "left", x)
              /\ Edge(L, "right", x) <= Edge(L, "right", p)
          BY <1>0, <3>6, ChildWithin
        <4>2. /\ Edge(L, "left", p) \in Int /\ Edge(L, "right", p) \in Int
              /\ Edge(L, "left", x) \in Int /\ Edge(L, "right", x) \in Int
          BY <3>6, EdgesType
        <4> HIDE DEF p
        <4> QED BY <2>2, <3>4, <4>1, <4>2
      <3>9. Width(L, p) \in W
        BY <3>6, <3>8 DEF W
      <3> QED BY <3>3, <3>4, <3>7, <3>9
    <2>4. \A n \in E : ~Out(n)
      BY <2>3
    <2> QED BY <2>2, <2>4 DEF N
  <1> QED BY <1>1, <1>2

\* The places are those from 1 to the last.
LEMMA Places ==
    ASSUME NEW t, NEW E, NEW L, Shape(t, E, L)
    PROVE  /\ Highest(t, L) \in Nat
           /\ \A n \in E : Pos(L, n) \in 1..Highest(t, L)
           /\ \A i \in 1..Highest(t, L) : \E n \in E : Pos(L, n) = i
           /\ Highest(t, L) <= Cardinality(Node) /\ Cardinality(Node) \in Nat
  <1> DEFINE N == Highest(t, L)
  <1>0. E \subseteq Node /\ IsFiniteSet(Node) /\ Null \notin Node
    BY MapAssumption DEF Shape
  <1>1. N \in Nat /\ \A n \in E : 1 <= Edge(L, "left", n) /\ Edge(L, "right", n) <= N
    BY Spans
  <1>2. \A n \in E : Pos(L, n) \in 1..N
    <2> SUFFICES ASSUME NEW n \in E PROVE Pos(L, n) \in 1..N
      OBVIOUS
    <2>1. /\ Pos(L, n) \in Int /\ Edge(L, "left", n) \in Int /\ Edge(L, "right", n) \in Int
          /\ Edge(L, "left", n) <= Pos(L, n) /\ Pos(L, n) <= Edge(L, "right", n)
      BY EdgesType
    <2> HIDE DEF N
    <2> QED BY <1>1, <2>1
  <1>3. \A i \in 1..N : \E n \in E : Pos(L, n) = i
    <2>1. CASE Root(t) = Null
      BY <2>1 DEF Highest
    <2>2. CASE Root(t) # Null
      <3>1. Root(t) \in E /\ N = Edge(L, "right", Root(t)) /\ Edge(L, "left", Root(t)) = 1
        BY <2>2 DEF Shape, Rooted, Highest
      <3> QED BY <3>1, NoGap
    <2> QED BY <2>1, <2>2
  <1> HIDE DEF N
  <1>4. N <= Cardinality(Node) /\ Cardinality(Node) \in Nat
    <2> DEFINE f == [i \in 1..N |-> CHOOSE n \in E : Pos(L, n) = i]
    <2>1. \A i \in 1..N : f[i] \in E /\ Pos(L, f[i]) = i
      BY <1>3
    <2>2. f \in Injection(1..N, Node)
      <3>1. f \in [1..N -> Node]
        BY <1>0, <2>1
      <3>2. \A i, j \in 1..N : f[i] = f[j] => i = j
        BY <2>1
      <3> HIDE DEF f
      <3> QED BY <3>1, <3>2 DEF Injection, IsInjective
    <2>3. Cardinality(1..N) <= Cardinality(Node)
      BY <1>0, <2>2, FS_Injection
    <2>4. Cardinality(1..N) = N
      <3>1. Cardinality(1..N) = IF 1 > N THEN 0 ELSE N - 1 + 1
        BY <1>1, FS_Interval
      <3> QED BY <1>1, <3>1
    <2>5. Cardinality(Node) \in Nat
      BY <1>0, FS_CardinalityType
    <2> QED BY <2>3, <2>4, <2>5
  <1> QED BY <1>1, <1>2, <1>3, <1>4 DEF N

\* No subtree holds more nodes than there are.
LEMMA WidthBound ==
    ASSUME NEW t, NEW E, NEW L, NEW n, Shape(t, E, L), n \in E
    PROVE  Width(L, n) \in Nat /\ Passes \in Nat /\ Width(L, n) < Passes
  <1>1. /\ Highest(t, L) \in Nat /\ Highest(t, L) <= Passes /\ Passes \in Nat
        /\ 1 <= Edge(L, "left", n) /\ Edge(L, "right", n) <= Highest(t, L)
    BY Places, Spans DEF Passes
  <1>2. /\ Edge(L, "left", n) \in Int /\ Edge(L, "right", n) \in Int
        /\ Width(L, n) \in Nat
        /\ Width(L, n) = Edge(L, "right", n) - Edge(L, "left", n)
    BY EdgesType
  <1> QED BY <1>1, <1>2

-----------------------------------------------------------------------------
(* The loop of insert. *)

\* A red-black tree of the elements E.
Settled(t, E, L) ==
    /\ Shape(t, E, L) /\ Balanced(t, E, L, Null, "left") /\ Reds(t, E, Null, Null)
    /\ RootBlack(t, Null) /\ Clean(t, E)

\* A loop of bounded passes is a function of the number of passes made.
InsertAfterPass(tree0, node0) ==
    LET after[i \in 0..Passes] ==
            IF i = 0 THEN [tree |-> tree0, node |-> node0]
            ELSE LET c == after[i - 1] IN IF InsertDone(c) THEN c ELSE InsertPass(c)
    IN  after

\* However many passes are made, what InsertOk says remains.
LEMMA InsertPasses ==
    ASSUME NEW t, NEW n, NEW E, NEW L, InsertState(t, n, E, L)
    PROVE  \E f : /\ f = InsertAfterPass(t, n)
                  /\ f[0] = [tree |-> t, node |-> n]
                  /\ \A i \in 1..Passes :
                        /\ \E M : InsertOk(f[i - 1], E, M) /\ SamePlaces(L, M)
                        /\ f[i] = IF InsertDone(f[i - 1]) THEN f[i - 1] ELSE InsertPass(f[i - 1])
                  /\ \A i \in 0..Passes : \E M : InsertOk(f[i], E, M) /\ SamePlaces(L, M)
  <1> DEFINE Ok(c) == \E M : InsertOk(c, E, M) /\ SamePlaces(L, M)
             V == {c \in [tree : Tree, node : Node] : Ok(c)}
             Go(c) == IF InsertDone(c) THEN c ELSE InsertPass(c)
             G == [c \in V |-> Go(c)]
             b == [tree |-> t, node |-> n]
  <1>1. Passes \in Nat
    BY Places DEF InsertState, Passes
  <1>2. b \in V
    <2>1. b.tree = t /\ b.node = n /\ t \in Tree /\ n \in Node
      BY DEF InsertState, Shape
    <2>2. SamePlaces(L, L)
      BY DEF SamePlaces
    <2>3. InsertOk(b, E, L)
      BY <2>1 DEF InsertOk
    <2> QED BY <2>1, <2>2, <2>3
  <1>3. \A c \in V : Go(c) \in V
    <2> SUFFICES ASSUME NEW c \in V, ~InsertDone(c) PROVE InsertPass(c) \in V
      OBVIOUS
    <2>1. PICK M : InsertOk(c, E, M) /\ SamePlaces(L, M)
      OBVIOUS
    <2>2. PICK K : InsertOk(InsertPass(c), E, K) /\ SamePlaces(M, K)
      BY <2>1, InsertPassIs
    <2>3. SamePlaces(L, K)
      BY <2>1, <2>2 DEF SamePlaces
    <2>4. InsertPass(c).tree \in Tree /\ InsertPass(c).node \in Node
      BY <2>2 DEF InsertOk, InsertState, Shape
    <2>5. \E x, y : InsertPass(c) = [tree |-> x, node |-> y]
      BY Zenon DEF InsertPass
    <2>6. InsertPass(c) \in [tree : Tree, node : Node]
      BY <2>4, <2>5
    <2> QED BY <2>2, <2>3, <2>6
  <1>4. G \in [V -> V]
    BY <1>3
  <1>5. \A c \in V : G[c] = Go(c)
    OBVIOUS
  <1>6. \A c \in V : Ok(c)
    OBVIOUS
  <1> HIDE DEF G, V
  <1>7. PICK f : Iterates(f, V, G, b, Passes)
    <2> HIDE DEF b
    <2> QED BY <1>1, <1>2, <1>4, Iterate
  <1>8. \A i \in 1..Passes : f[i - 1] \in V /\ f[i] = Go(f[i - 1])
    BY <1>1, <1>5, <1>7 DEF Iterates
  <1> DEFINE h == [i \in 0..Passes |->
                     IF i = 0 THEN [tree |-> t, node |-> n]
                     ELSE LET c == f[i - 1] IN IF InsertDone(c) THEN c ELSE InsertPass(c)]
  <1>9. f = h
    <2>1. \A i \in 0..Passes : f[i] = h[i]
      BY <1>1, <1>7, <1>8 DEF Iterates
    <2>2. f = [i \in 0..Passes |-> f[i]]
      BY <1>7 DEF Iterates
    <2> QED BY <2>1, <2>2
  <1>10. \A g1 : g1 = [i \in 0..Passes |->
                     IF i = 0 THEN [tree |-> t, node |-> n]
                     ELSE LET c == g1[i - 1] IN IF InsertDone(c) THEN c ELSE InsertPass(c)]
                 => g1 = f
    <2> SUFFICES ASSUME NEW g1, g1 = [i \in 0..Passes |->
                     IF i = 0 THEN [tree |-> t, node |-> n]
                     ELSE LET c == g1[i - 1] IN IF InsertDone(c) THEN c ELSE InsertPass(c)]
                 PROVE  g1 = f
      OBVIOUS
    <2> DEFINE S == {i \in Nat : i <= Passes => g1[i] = f[i]}
    <2>1. 0 \in S
      BY <1>1, <1>7 DEF Iterates
    <2>2. ASSUME NEW i \in 0..(Passes - 1), i \in S PROVE i + 1 \in S
      <3>1. i + 1 \in 0..Passes /\ i + 1 # 0 /\ (i + 1) - 1 = i /\ i + 1 \in 1..Passes /\ i + 1 \in Nat
        BY <1>1
      <3>2. g1[i + 1] = Go(g1[i])
        BY <3>1
      <3>3. f[i + 1] = Go(f[i]) /\ g1[i] = f[i]
        BY <1>1, <1>8, <2>2, <3>1
      <3> QED BY <3>1, <3>2, <3>3
    <2> HIDE DEF S
    <2>3. \A i \in 0..Passes : i \in S
      BY <1>1, <2>1, <2>2, IntervalInduction
    <2>4. \A i \in 0..Passes : g1[i] = f[i]
      BY <1>1, <2>3 DEF S
    <2>5. g1 = [i \in 0..Passes |-> g1[i]]
      OBVIOUS
    <2>6. f = [i \in 0..Passes |-> f[i]]
      BY <1>7 DEF Iterates
    <2> QED BY <2>4, <2>5, <2>6
  <1>11. f = InsertAfterPass(t, n)
    BY <1>9, <1>10, Zenon DEF InsertAfterPass
  <1> QED BY <1>6, <1>7, <1>8, <1>11 DEF Iterates

\* At the end the parent of the node is black.
LEMMA InsertSettled ==
    ASSUME NEW t, NEW n, NEW E, NEW L, NEW r, InsertState(t, n, E, L), InsertOk(r, E, L),
           InsertDone(r)
    PROVE  Settled(Blacken(r.tree, Root(r.tree)), E, L)
  <1> DEFINE u == r.tree
             m == r.node
             R == Root(u)
             v == Blacken(u, R)
  <1>1. InsertState(u, m, E, L) /\ ~IsRed(u, Up(u, m))
    BY DEF InsertOk, InsertDone, Up
  <1> HIDE DEF u, m
  <1>2. /\ Shape(u, E, L) /\ u \in Tree /\ E \subseteq Node /\ Null \notin Node /\ m \in E
        /\ R \in Node \cup {Null} /\ L \in Labels /\ R \in E
    BY <1>1, SideIs, FieldsType, ParentIs DEF InsertState, Shape
  <1>3. /\ v \in Tree /\ Root(v) = R
        /\ \A z \in Node : Up(v, z) = Up(u, z)
        /\ Red(v) = Red(u) \ {R}
        /\ \A e \in Side, z \in Node : Kid(v, e, z) = Kid(u, e, z)
    BY <1>2, BlackenIs
  <1> HIDE DEF v, R
  <1>4. Shape(v, E, L)
    BY <1>2, <1>3, ShapeSame DEF R
  <1>5. \A x \in E, d \in Side : /\ Kid(u, d, x) # R \/ R = Null
                                 /\ Kid(u, d, x) \in E \cup {Null}
    <2>1. \A x \in E, d \in Side : Kid(u, d, x) # Null => Kid(u, d, x) # R
      BY <1>2, ChildIs DEF R
    <2>2. \A x \in E, d \in Side : Kid(u, d, x) \in E \cup {Null}
      BY <1>2 DEF Shape, Joined
    <2> QED BY <2>1, <2>2
  <1>6. Balanced(v, E, L, Null, "left")
    <2>1. Balanced(u, E, L, Null, "left")
      BY <1>1 DEF InsertState
    <2> SUFFICES ASSUME NEW x \in E, NEW d \in Side
                 PROVE  Height(v, L, Kid(v, d, x)) = Height(u, L, Kid(u, d, x))
      BY <2>1 DEF Balanced
    <2>2. Kid(v, d, x) = Kid(u, d, x)
      BY <1>2, <1>3
    <2> QED BY <1>2, <1>3, <1>5, <2>2 DEF Height
  <1>7. Reds(v, E, Null, Null)
    <2> SUFFICES ASSUME NEW x \in E, NEW d \in Side, x \in Red(v), Kid(v, d, x) \in Red(v)
                 PROVE  FALSE
      BY DEF Reds
    <2>1. x \in Red(u) /\ Kid(u, d, x) \in Red(u) /\ x \in Node
      BY <1>2, <1>3
    <2>2. Kid(u, d, x) = m
      BY <1>1, <1>2, <2>1 DEF InsertState, Reds
    <2>3. Up(u, m) = x
      BY <1>2, <2>2, ChildIs
    <2> QED BY <1>1, <2>1, <2>3, IsRedIs
  <1>8. RootBlack(v, Null)
    BY <1>3 DEF RootBlack
  <1>9. Clean(v, E)
    <2>1. Clean(u, E)
      BY <1>1 DEF InsertState
    <2> SUFFICES ASSUME NEW x \in Node, x \notin E
                 PROVE  Up(v, x) = Null /\ x \notin Red(v) /\ \A d \in Side : Kid(v, d, x) = Null
      BY DEF Clean
    <2> QED BY <1>3, <2>1 DEF Clean
  <1> QED BY <1>4, <1>6, <1>7, <1>8, <1>9 DEF Settled, v, R, u

\* insert leaves a red-black tree of the same order.
LEMMA InsertFixupIs ==
    ASSUME NEW t, NEW n, NEW E, NEW L, InsertState(t, n, E, L)
    PROVE  \E M : Settled(InsertFixup(t, n), E, M) /\ SamePlaces(L, M)
  <1>1. PICK f : /\ f = InsertAfterPass(t, n)
                 /\ f[0] = [tree |-> t, node |-> n]
                 /\ \A i \in 1..Passes :
                        /\ \E M : InsertOk(f[i - 1], E, M) /\ SamePlaces(L, M)
                        /\ f[i] = IF InsertDone(f[i - 1]) THEN f[i - 1] ELSE InsertPass(f[i - 1])
                 /\ \A i \in 0..Passes : \E M : InsertOk(f[i], E, M) /\ SamePlaces(L, M)
    BY InsertPasses
  <1>2. Passes \in Nat
    BY Places DEF InsertState, Passes
  <1> DEFINE High(i, M) == /\ InsertOk(f[i], E, M) /\ SamePlaces(L, M)
                           /\ InsertDone(f[i]) \/ Width(M, f[i].node) >= i
             S == {i \in Nat : i <= Passes => \E M : High(i, M)}
  <1>3. 0 \in S
    <2>1. PICK M : InsertOk(f[0], E, M) /\ SamePlaces(L, M)
      BY <1>1, <1>2
    <2>2. Width(M, f[0].node) >= 0
      BY <2>1, WidthBound DEF InsertOk, InsertState
    <2> QED BY <2>1, <2>2
  <1>4. ASSUME NEW i \in 0..(Passes - 1), i \in S PROVE i + 1 \in S
    <2>1. i \in Nat /\ i <= Passes /\ i + 1 \in 1..Passes /\ (i + 1) - 1 = i
      BY <1>2
    <2>2. PICK M : High(i, M)
      BY <1>4, <2>1
    <2>3. f[i + 1] = IF InsertDone(f[i]) THEN f[i] ELSE InsertPass(f[i])
      BY <1>1, <2>1
    <2>4. CASE InsertDone(f[i])
      BY <2>1, <2>2, <2>3, <2>4
    <2>5. CASE ~InsertDone(f[i])
      <3>1. PICK K : /\ InsertOk(InsertPass(f[i]), E, K) /\ SamePlaces(M, K)
                     /\ \/ InsertDone(InsertPass(f[i]))
                        \/ /\ Width(K, InsertPass(f[i]).node) > Width(M, f[i].node)
                           /\ Width(K, InsertPass(f[i]).node) \in Int
                           /\ Width(M, f[i].node) \in Int
        BY <2>2, <2>5, InsertPassIs
      <3>2. SamePlaces(L, K)
        BY <2>2, <3>1 DEF SamePlaces
      <3>3. Width(M, f[i].node) >= i
        BY <2>2, <2>5
      <3>4. f[i + 1] = InsertPass(f[i])
        BY <2>3, <2>5
      <3>5. InsertDone(f[i + 1]) \/ Width(K, f[i + 1].node) >= i + 1
        BY <2>1, <3>1, <3>3, <3>4
      <3>6. High(i + 1, K)
        BY <3>1, <3>2, <3>4, <3>5
      <3> QED BY <2>1, <3>6
    <2> QED BY <2>4, <2>5
  <1> HIDE DEF S
  <1>5. Passes \in S
    BY <1>2, <1>3, <1>4, IntervalInduction
  <1> DEFINE r == f[Passes]
  <1>6. PICK M : High(Passes, M)
    BY <1>2, <1>5 DEF S
  <1>7. InsertDone(r)
    <2>1. Width(M, r.node) < Passes /\ Width(M, r.node) \in Nat
      BY <1>6, WidthBound DEF InsertOk, InsertState
    <2> QED BY <1>2, <1>6, <2>1
  <1>8. InsertFixup(t, n) = Blacken(r.tree, Root(r.tree))
    BY <1>1, Zenon DEF InsertFixup, InsertAfterPass, Blacken, Root
  <1>9. InsertState(r.tree, r.node, E, M) /\ InsertOk(r, E, M)
    BY <1>6 DEF InsertOk
  <1> HIDE DEF r
  <1>10. Settled(Blacken(r.tree, Root(r.tree)), E, M)
    BY <1>7, <1>9, InsertSettled
  <1> QED BY <1>6, <1>8, <1>10

-----------------------------------------------------------------------------
(* Linking. *)

\* A tree given by its fields.
LEMMA RecordIs ==
    ASSUME NEW r, NEW root, NEW kid, NEW parent, NEW red,
           r = [root |-> root, kid |-> kid, parent |-> parent, red |-> red],
           root \in Node \cup {Null}, kid \in [Side -> [Node -> Node \cup {Null}]],
           parent \in [Node -> Node \cup {Null}], red \in [Node -> BOOLEAN]
    PROVE  /\ r \in Tree /\ Root(r) = root /\ Red(r) = {z \in Node : red[z]}
           /\ \A z \in Node : Up(r, z) = parent[z]
           /\ \A d \in Side, z \in Node : Kid(r, d, z) = kid[d][z]
  <1>1. r \in Tree
    BY OtherTree DEF Tree, Link
  <1>2. r.root = root /\ r.kid = kid /\ r.parent = parent /\ r.red = red
    OBVIOUS
  <1> QED BY <1>1, <1>2 DEF Root, Red, Up, Kid

\* Out of the tree, a node keeps no link.
LEMMA BlankIs ==
    ASSUME NEW t, NEW n, t \in Tree, n \in Node
    PROVE  /\ Blank(t, n) \in Tree /\ Root(Blank(t, n)) = Root(t)
           /\ Red(Blank(t, n)) = Red(t) \ {n}
           /\ \A z \in Node : Up(Blank(t, n), z) = IF z = n THEN Null ELSE Up(t, z)
           /\ \A d \in Side, z \in Node :
                Kid(Blank(t, n), d, z) = IF z = n THEN Null ELSE Kid(t, d, z)
  <1> DEFINE r == Blank(t, n)
             k == [d \in Side |-> [t.kid[d] EXCEPT ![n] = Null]]
             q == [t.parent EXCEPT ![n] = Null]
             c == [t.red EXCEPT ![n] = FALSE]
  <1>1. /\ k \in [Side -> [Node -> Node \cup {Null}]]
        /\ \A d \in Side, z \in Node : k[d][z] = IF z = n THEN Null ELSE t.kid[d][z]
    BY TreeType
  <1>2. /\ q \in [Node -> Node \cup {Null}]
        /\ \A z \in Node : q[z] = IF z = n THEN Null ELSE t.parent[z]
    BY TreeType
  <1>3. c \in [Node -> BOOLEAN] /\ {z \in Node : c[z]} = Red(t) \ {n}
    BY TreeType DEF Red
  <1>4. r = [[[t EXCEPT !.kid = k] EXCEPT !.parent = q] EXCEPT !.red = c]
    BY Zenon DEF Blank
  <1> HIDE DEF k, q, c, r
  <1>5. r = [root |-> t.root, kid |-> k, parent |-> q, red |-> c]
    <2>1. t = [root |-> t.root, kid |-> t.kid, parent |-> t.parent, red |-> t.red]
      BY TreeType
    <2> QED BY <1>4, <2>1
  <1>6. t.root \in Node \cup {Null}
    BY TreeType
  <1>7. /\ r \in Tree /\ Root(r) = t.root /\ Red(r) = {z \in Node : c[z]}
        /\ \A z \in Node : Up(r, z) = q[z]
        /\ \A d \in Side, z \in Node : Kid(r, d, z) = k[d][z]
    BY <1>1, <1>2, <1>3, <1>5, <1>6, RecordIs
  <1> QED BY <1>1, <1>2, <1>3, <1>7 DEF Root, Up, Kid, r

\* link, in steps.
Hung(t, n, p) == Redden(WithParent(Blank(t, n), n, p), n)

\* The fields that link sets in the new node.
LEMMA HungIs ==
    ASSUME NEW t, NEW n, NEW p, t \in Tree, n \in Node, p \in Node \cup {Null}
    PROVE  /\ Hung(t, n, p) \in Tree /\ Root(Hung(t, n, p)) = Root(t)
           /\ Red(Hung(t, n, p)) = Red(t) \cup {n}
           /\ \A z \in Node : Up(Hung(t, n, p), z) = IF z = n THEN p ELSE Up(t, z)
           /\ \A d \in Side, z \in Node :
                Kid(Hung(t, n, p), d, z) = IF z = n THEN Null ELSE Kid(t, d, z)
  <1> DEFINE t1 == Blank(t, n)
             t2 == WithParent(t1, n, p)
             t3 == Redden(t2, n)
  <1>1. /\ t1 \in Tree /\ Root(t1) = Root(t)
        /\ Red(t1) = Red(t) \ {n}
        /\ \A z \in Node : Up(t1, z) = IF z = n THEN Null ELSE Up(t, z)
        /\ \A d \in Side, z \in Node : Kid(t1, d, z) = IF z = n THEN Null ELSE Kid(t, d, z)
    BY BlankIs
  <1> HIDE DEF t1
  <1>2. /\ t2 \in Tree /\ Root(t2) = Root(t1)
        /\ \A z \in Node : Up(t2, z) = IF z = n THEN p ELSE Up(t1, z)
        /\ Red(t2) = Red(t1)
        /\ \A d \in Side, z \in Node : Kid(t2, d, z) = Kid(t1, d, z)
    BY <1>1, WithParentIs
  <1> HIDE DEF t2
  <1>3. /\ t3 \in Tree /\ Root(t3) = Root(t2)
        /\ \A z \in Node : Up(t3, z) = Up(t2, z)
        /\ Red(t3) = Red(t2) \cup {n}
        /\ \A d \in Side, z \in Node : Kid(t3, d, z) = Kid(t2, d, z)
    BY <1>2, ReddenIs
  <1>4. t3 = Hung(t, n, p)
    BY DEF Hung, t1, t2
  <1> HIDE DEF t3
  <1> QED BY <1>1, <1>2, <1>3, <1>4

\* What link assigns.
LEMMA LinkedIs ==
    ASSUME NEW t, NEW n, NEW p, NEW s,
           t \in Tree, n \in Node, p \in Node \cup {Null}, s \in Side
    PROVE  /\ Linked(t, n, p, s) \in Tree
           /\ Root(Linked(t, n, p, s)) = IF p = Null THEN n ELSE Root(t)
           /\ Red(Linked(t, n, p, s)) = Red(t) \cup {n}
           /\ \A z \in Node : Up(Linked(t, n, p, s), z) = IF z = n THEN p ELSE Up(t, z)
           /\ \A d \in Side, z \in Node :
                Kid(Linked(t, n, p, s), d, z) =
                    IF z = p /\ d = s THEN n ELSE IF z = n THEN Null ELSE Kid(t, d, z)
  <1> DEFINE h == Hung(t, n, p)
  <1>1. /\ h \in Tree /\ Root(h) = Root(t)
        /\ Red(h) = Red(t) \cup {n}
        /\ \A z \in Node : Up(h, z) = IF z = n THEN p ELSE Up(t, z)
        /\ \A d \in Side, z \in Node : Kid(h, d, z) = IF z = n THEN Null ELSE Kid(t, d, z)
    BY HungIs
  <1>2. h = [Blank(t, n) EXCEPT !.parent[n] = p, !.red[n] = TRUE]
    <2>1. n # Null
      BY SideIs
    <2> DEFINE b == Blank(t, n)
    <2> HIDE DEF b
    <2>2. Paint(WithParent(b, n, p), n, TRUE) = [WithParent(b, n, p) EXCEPT !.red[n] = TRUE]
      BY <2>1 DEF Paint
    <2> QED BY <2>2 DEF Hung, Redden, WithParent, b
  <1>3. CASE p = Null
    <2>1. Linked(t, n, p, s) = WithRoot(h, n)
      BY <1>2, <1>3, Zenon DEF Linked, WithRoot
    <2> HIDE DEF h
    <2> QED BY <1>1, <1>3, <2>1, WithRootIs, SideIs
  <1>4. CASE p # Null
    <2>1. Linked(t, n, p, s) = WithKid(h, s, p, n)
      BY <1>2, <1>4, Zenon DEF Linked, WithKid
    <2> HIDE DEF h
    <2>2. p \in Node
      BY <1>4
    <2> QED BY <1>1, <1>4, <2>1, <2>2, WithKidIs
  <1> QED BY <1>3, <1>4

\* Where a node goes that is hung on side s of p.
Spot(L, p, s) == IF p = Null THEN 1 ELSE IF s = "left" THEN Pos(L, p) ELSE Pos(L, p) + 1

\* The places at and behind k move up one.
Shift(v, k) == IF v >= k THEN v + 1 ELSE v

\* n takes place k; those from there on move up.
Pushed(L, M, E, n, k) == Pos(M, n) = k /\ \A x \in E : Pos(M, x) = Shift(Pos(L, x), k)

\* The labels with n at place k, under the node at j.
WithSpot(L, n, k, j) ==
    [pos |-> [x \in Node |-> IF x = n THEN k ELSE Shift(Pos(L, x), k)],
     edge |-> [d \in Side |-> [x \in Node |->
                 IF x = n THEN k
                 ELSE IF d = "left" THEN Shift(Edge(L, d, x), j + 1) ELSE Shift(Edge(L, d, x), j)]],
     black |-> [x \in Node |-> IF x = n THEN 0 ELSE Black(L, x)]]

\* How the labels move when n takes place k.
LEMMA WithSpotIs ==
    ASSUME NEW L, NEW n, NEW k, NEW j, L \in Labels, n \in Node, k \in Int, j \in Int
    PROVE  /\ WithSpot(L, n, k, j) \in Labels
           /\ \A x \in Node :
                /\ Pos(WithSpot(L, n, k, j), x) = IF x = n THEN k ELSE Shift(Pos(L, x), k)
                /\ Black(WithSpot(L, n, k, j), x) = IF x = n THEN 0 ELSE Black(L, x)
                /\ Edge(WithSpot(L, n, k, j), "left", x) =
                        IF x = n THEN k ELSE Shift(Edge(L, "left", x), j + 1)
                /\ Edge(WithSpot(L, n, k, j), "right", x) =
                        IF x = n THEN k ELSE Shift(Edge(L, "right", x), j)
  <1> DEFINE pos == [x \in Node |-> IF x = n THEN k ELSE Shift(Pos(L, x), k)]
             edge == [d \in Side |-> [x \in Node |->
                 IF x = n THEN k
                 ELSE IF d = "left" THEN Shift(Edge(L, d, x), j + 1) ELSE Shift(Edge(L, d, x), j)]]
             black == [x \in Node |-> IF x = n THEN 0 ELSE Black(L, x)]
  <1>1. pos \in [Node -> Int] /\ black \in [Node -> Int]
    BY LabelType DEF Shift
  <1>2. edge \in [Side -> [Node -> Int]]
    BY LabelType DEF Shift
  <1>3. \A x \in Node : /\ pos[x] = IF x = n THEN k ELSE Shift(Pos(L, x), k)
                        /\ black[x] = IF x = n THEN 0 ELSE Black(L, x)
    OBVIOUS
  <1>4. \A x \in Node :
          /\ edge["left"][x] = IF x = n THEN k ELSE Shift(Edge(L, "left", x), j + 1)
          /\ edge["right"][x] = IF x = n THEN k ELSE Shift(Edge(L, "right", x), j)
    BY SideIs
  <1>5. WithSpot(L, n, k, j) = [pos |-> pos, edge |-> edge, black |-> black]
    BY DEF WithSpot
  <1> HIDE DEF pos, edge, black
  <1>6. /\ WithSpot(L, n, k, j) \in Labels
        /\ \A x \in Node : Pos(WithSpot(L, n, k, j), x) = pos[x]
                           /\ Black(WithSpot(L, n, k, j), x) = black[x]
        /\ \A d \in Side, x \in Node : Edge(WithSpot(L, n, k, j), d, x) = edge[d][x]
    BY <1>1, <1>2, <1>5, LabelsAre
  <1> QED BY <1>3, <1>4, <1>6, SideIs

\* The first element.
LEMMA LinkedFirst ==
    ASSUME NEW t, NEW E, NEW L, NEW n, NEW s, NEW r,
           Settled(t, E, L), n \in Node, s \in Side, Root(t) = Null,
           r = Linked(t, n, Null, s)
    PROVE  \E M : InsertState(r, n, {n}, M) /\ Pushed(L, M, E, n, 1) /\ E = {}
  <1> DEFINE M == WithSpot(L, n, 1, 1)
  <1>1. t \in Tree /\ L \in Labels /\ E = {} /\ Null \notin Node /\ Clean(t, E)
    BY SideIs DEF Settled, Shape, Rooted
  <1>2. /\ r \in Tree /\ Root(r) = n /\ Red(r) = Red(t) \cup {n}
        /\ \A z \in Node : Up(r, z) = IF z = n THEN Null ELSE Up(t, z)
        /\ \A d \in Side, z \in Node :
             Kid(r, d, z) = IF z = Null /\ d = s THEN n ELSE IF z = n THEN Null ELSE Kid(t, d, z)
    BY <1>1, LinkedIs
  <1>3. /\ M \in Labels /\ Pos(M, n) = 1 /\ Black(M, n) = 0
        /\ \A d \in Side : Edge(M, d, n) = 1
    BY <1>1, WithSpotIs, SideIs
  <1> HIDE DEF M
  <1>4. n # Null /\ Up(r, n) = Null /\ \A d \in Side : Kid(r, d, n) = Null
    BY <1>1, <1>2
  <1>5. Placed({n}, M)
    BY <1>3, SideIs DEF Placed
  <1>6. Joined(r, {n}, M)
    BY <1>2, <1>3, <1>4 DEF Joined, Leads
  <1>7. Rooted(r, {n}, M)
    BY <1>2, <1>3, <1>4, SideIs DEF Rooted
  <1>8. Balanced(r, {n}, M, Null, "left")
    BY <1>3, <1>4 DEF Balanced, Height, Short
  <1>9. Reds(r, {n}, Null, n)
    <2>1. Red(r) \subseteq Node
      BY <1>2, FieldsType
    <2> QED BY <1>1, <1>4, <2>1 DEF Reds
  <1>10. RootBlack(r, n) /\ n \in Red(r)
    BY <1>2 DEF RootBlack
  <1>11. Clean(r, {n})
    <2> SUFFICES ASSUME NEW x \in Node, x \notin {n}
                 PROVE  Up(r, x) = Null /\ x \notin Red(r) /\ \A d \in Side : Kid(r, d, x) = Null
      BY DEF Clean
    <2>1. Up(t, x) = Null /\ x \notin Red(t) /\ \A d \in Side : Kid(t, d, x) = Null
      BY <1>1 DEF Clean
    <2> QED BY <1>1, <1>2, <2>1
  <1>12. InsertState(r, n, {n}, M)
    BY <1>2, <1>3, <1>5, <1>6, <1>7, <1>8, <1>9, <1>10, <1>11 DEF InsertState, Shape
  <1>13. Pushed(L, M, E, n, 1)
    BY <1>1, <1>3 DEF Pushed
  <1> QED BY <1>1, <1>12, <1>13

\* The order of a tree with a new leaf.
LEMMA LinkedShape ==
    ASSUME NEW t, NEW E, NEW L, NEW n, NEW p, NEW s, NEW r, NEW k, NEW M,
           Shape(t, E, L), n \in Node, n \notin E, p \in E, s \in Side, Kid(t, s, p) = Null,
           r \in Tree, Root(r) = Root(t),
           \A z \in Node : Up(r, z) = IF z = n THEN p ELSE Up(t, z),
           \A d \in Side, z \in Node :
                Kid(r, d, z) = IF z = p /\ d = s THEN n ELSE IF z = n THEN Null ELSE Kid(t, d, z),
           k = Spot(L, p, s), M = WithSpot(L, n, k, Pos(L, p))
    PROVE  Shape(r, E \cup {n}, M)
  <1> DEFINE j == Pos(L, p)
             F == E \cup {n}
  <1>0. /\ t \in Tree /\ L \in Labels /\ E \subseteq Node /\ Null \notin Node
        /\ Joined(t, E, L) /\ Rooted(t, E, L) /\ Placed(E, L) /\ n # Null /\ n # p
        /\ j \in Int /\ p \in Node /\ p # Null
    BY SideIs, EdgesType DEF Shape
  <1>1. /\ k = IF s = "left" THEN j ELSE j + 1
        /\ k \in Int
        /\ \A x \in E : Pos(L, x) = j => x = p
        /\ j >= 1
    <2>1. \A x \in E : Pos(L, x) = j => x = p
      BY <1>0 DEF Placed
    <2>2. j >= 1
      BY Places
    <2> QED BY <1>0, <2>1, <2>2 DEF Spot
  <1>2. /\ M \in Labels
        /\ Pos(M, n) = k /\ Edge(M, "left", n) = k /\ Edge(M, "right", n) = k
        /\ \A x \in E : /\ Pos(M, x) = Shift(Pos(L, x), k)
                        /\ Edge(M, "left", x) = Shift(Edge(L, "left", x), j + 1)
                        /\ Edge(M, "right", x) = Shift(Edge(L, "right", x), j)
    BY <1>0, <1>1, WithSpotIs
  <1>3. \A x \in E : /\ Pos(L, x) \in Int /\ Edge(L, "left", x) \in Int /\ Edge(L, "right", x) \in Int
                     /\ Edge(L, "left", x) <= Pos(L, x) /\ Pos(L, x) <= Edge(L, "right", x)
    BY EdgesType
  <1> HIDE DEF j
  <1>4. Placed(F, M)
    <2>1. ASSUME NEW x \in F, NEW y \in F, Pos(M, x) = Pos(M, y) PROVE x = y
      <3>1. \A z \in E : Pos(M, z) # k
        BY <1>1, <1>2, <1>3 DEF Shift
      <3>2. CASE x \in E /\ y \in E
        <4>1. Pos(L, x) = Pos(L, y)
          BY <1>1, <1>2, <1>3, <2>1, <3>2 DEF Shift
        <4> QED BY <1>0, <3>2, <4>1 DEF Placed
      <3> QED BY <1>2, <2>1, <3>1, <3>2
    <2>2. ASSUME NEW x \in F
          PROVE  Edge(M, "left", x) <= Pos(M, x) /\ Pos(M, x) <= Edge(M, "right", x)
      <3>1. CASE x = n
        BY <1>1, <1>2, <3>1
      <3>2. CASE x \in E
        BY <1>0, <1>1, <1>2, <1>3, <3>2 DEF Shift
      <3> QED BY <3>1, <3>2
    <2> QED BY <2>1, <2>2 DEF Placed
  <1>5. /\ Edge(L, s, p) = j
        /\ \A x \in E : /\ Kid(t, "left", x) \in E \cup {Null} /\ Kid(t, "right", x) \in E \cup {Null}
                        /\ Kid(t, "left", x) = Null => Edge(L, "left", x) = Pos(L, x)
                        /\ Kid(t, "right", x) = Null => Edge(L, "right", x) = Pos(L, x)
    <2>1. Edge(L, s, p) = j
      BY ChildEdges, SideIs DEF j
    <2>2. \A x \in E : Kid(t, "left", x) \in E \cup {Null} /\ Kid(t, "right", x) \in E \cup {Null}
      BY <1>0, SideIs DEF Joined
    <2>3. \A x \in E : /\ Kid(t, "left", x) = Null => Edge(L, "left", x) = Pos(L, x)
                       /\ Kid(t, "right", x) = Null => Edge(L, "right", x) = Pos(L, x)
      BY ChildEdges
    <2> QED BY <2>1, <2>2, <2>3
  <1>6. Leads(r, M, p, s)
    <2>1. Kid(r, s, p) = n /\ Up(r, n) = p
      BY <1>0
    <2>2. Edge(M, s, n) = k /\ Edge(M, Other(s), n) = k
      BY <1>2, SideIs
    <2>3. CASE s = "left"
      <3>1. Edge(M, "left", p) = k /\ Pos(M, p) + Dir("left") = k
        BY <1>0, <1>1, <1>2, <1>5, <2>3, SideIs DEF Shift, j
      <3> QED BY <1>0, <2>1, <2>2, <2>3, <3>1 DEF Leads
    <2>4. CASE s = "right"
      <3>1. Edge(M, "right", p) = k /\ Pos(M, p) + Dir("right") = k
        BY <1>0, <1>1, <1>2, <1>5, <2>4, SideIs DEF Shift, j
      <3> QED BY <1>0, <2>1, <2>2, <2>4, <3>1 DEF Leads
    <2> QED BY <2>3, <2>4, SideIs
  <1>7. ASSUME NEW x \in E, NEW d \in Side, ~(x = p /\ d = s)
        PROVE  Kid(r, d, x) = Kid(t, d, x) /\ Leads(r, M, x, d)
    <2> DEFINE c == Kid(t, d, x)
    <2>1. Kid(r, d, x) = c /\ c \in E \cup {Null}
      BY <1>0, <1>7 DEF Joined
    <2>2. /\ Pos(L, x) = j /\ d = "left" => s # "left"
          /\ Pos(L, x) = j /\ d = "right" => s # "right"
      BY <1>1, <1>7
    <2>3. CASE c = Null
      <3>1. CASE d = "left"
        <4>1. Edge(M, "left", x) = Pos(M, x)
          BY <1>0, <1>1, <1>2, <1>3, <1>5, <2>2, <2>3, <3>1, SideIs DEF Shift
        <4> QED BY <2>1, <2>3, <3>1, <4>1 DEF Leads
      <3>2. CASE d = "right"
        <4>1. Edge(M, "right", x) = Pos(M, x)
          BY <1>0, <1>1, <1>2, <1>3, <1>5, <2>2, <2>3, <3>2, SideIs DEF Shift
        <4> QED BY <2>1, <2>3, <3>2, <4>1 DEF Leads
      <3> QED BY <3>1, <3>2, SideIs
    <2>4. CASE c # Null
      <3>1. c \in E /\ c # n /\ c \in Node /\ Up(t, c) = x
        BY <1>0, <2>1, <2>4, ChildIs
      <3>2. Up(r, c) = x
        BY <3>1
      <3>3. CASE d = "left"
        <4>1. Edge(L, "left", c) = Edge(L, "left", x) /\ Edge(L, "right", c) = Pos(L, x) - 1
          BY <2>4, <3>3, ChildEdges
        <4> HIDE DEF c
        <4>2. Edge(M, "left", c) = Edge(M, "left", x)
          BY <1>2, <3>1, <4>1
        <4>3. Edge(M, "right", c) = Pos(M, x) - 1
          BY <1>0, <1>1, <1>2, <1>3, <2>2, <3>1, <3>3, <4>1, SideIs DEF Shift
        <4>4. Pos(M, x) + Dir("left") = Pos(M, x) - 1
          BY <1>1, <1>2, <1>3, SideIs DEF Shift
        <4>5. Edge(M, d, c) = Edge(M, d, x) /\ Edge(M, Other(d), c) = Pos(M, x) + Dir(d)
          BY <3>3, <4>2, <4>3, <4>4, SideIs
        <4> QED BY <2>1, <2>4, <3>2, <4>5 DEF Leads, c
      <3>4. CASE d = "right"
        <4>1. Edge(L, "right", c) = Edge(L, "right", x) /\ Edge(L, "left", c) = Pos(L, x) + 1
          BY <2>4, <3>4, ChildEdges
        <4> HIDE DEF c
        <4>2. Edge(M, "right", c) = Edge(M, "right", x)
          BY <1>2, <3>1, <4>1
        <4>3. Edge(M, "left", c) = Pos(M, x) + 1
          BY <1>0, <1>1, <1>2, <1>3, <2>2, <3>1, <3>4, <4>1, SideIs DEF Shift
        <4>4. Pos(M, x) + Dir("right") = Pos(M, x) + 1
          BY SideIs
        <4>5. Edge(M, d, c) = Edge(M, d, x) /\ Edge(M, Other(d), c) = Pos(M, x) + Dir(d)
          BY <3>4, <4>2, <4>3, <4>4, SideIs
        <4> QED BY <2>1, <2>4, <3>2, <4>5 DEF Leads, c
      <3> QED BY <3>3, <3>4, SideIs
    <2> QED BY <2>1, <2>3, <2>4
  <1>8. \A d \in Side : Kid(r, d, n) = Null /\ Leads(r, M, n, d)
    <2> SUFFICES ASSUME NEW d \in Side PROVE Kid(r, d, n) = Null /\ Leads(r, M, n, d)
      OBVIOUS
    <2>1. Kid(r, d, n) = Null
      BY <1>0
    <2>2. Edge(M, d, n) = Pos(M, n)
      BY <1>2, SideIs
    <2> QED BY <2>1, <2>2 DEF Leads
  <1>9. \A x \in F, d \in Side : Kid(r, d, x) \in F \cup {Null} /\ Leads(r, M, x, d)
    <2> SUFFICES ASSUME NEW x \in F, NEW d \in Side
                 PROVE  Kid(r, d, x) \in F \cup {Null} /\ Leads(r, M, x, d)
      OBVIOUS
    <2>1. CASE x = n
      BY <1>8, <2>1
    <2>2. CASE x = p /\ d = s
      BY <1>0, <1>6, <2>2
    <2>3. CASE x \in E /\ ~(x = p /\ d = s)
      <3>1. Kid(t, d, x) \in E \cup {Null}
        BY <1>0, <2>3 DEF Joined
      <3> QED BY <1>7, <2>3, <3>1
    <2> QED BY <2>1, <2>2, <2>3
  <1>10. \A x \in F : x # Root(r) =>
            /\ Up(r, x) \in F
            /\ Kid(r, "left", Up(r, x)) = x \/ Kid(r, "right", Up(r, x)) = x
    <2> SUFFICES ASSUME NEW x \in F, x # Root(t)
                 PROVE  /\ Up(r, x) \in F
                        /\ Kid(r, "left", Up(r, x)) = x \/ Kid(r, "right", Up(r, x)) = x
      OBVIOUS
    <2>1. CASE x = n
      BY <1>0, <2>1, SideIs
    <2>2. CASE x \in E
      <3> DEFINE w == Up(t, x)
                 d == SideOf(t, w, x)
      <3>1. w \in E /\ d \in Side /\ Kid(t, d, w) = x
        BY <2>2, ParentIs
      <3> HIDE DEF d
      <3>2. x # n /\ x # Null /\ x \in Node /\ w # n
        BY <1>0, <2>2, <3>1
      <3>3. Up(r, x) = w
        BY <3>2
      <3>4. Kid(r, d, w) = x
        BY <1>7, <3>1, <3>2
      <3> QED BY <3>1, <3>3, <3>4, SideIs
    <2> QED BY <2>1, <2>2
  <1>11. Rooted(r, F, M)
    <2>1. Root(t) \in E /\ Up(t, Root(t)) = Null /\ Edge(L, "left", Root(t)) = 1
      BY <1>0, ParentIs DEF Rooted
    <2>2. Up(r, Root(t)) = Null
      BY <1>0, <2>1
    <2>3. Edge(M, "left", Root(t)) = 1
      BY <1>0, <1>1, <1>2, <2>1 DEF Shift
    <2> QED BY <1>0, <2>1, <2>2, <2>3 DEF Rooted
  <1> QED BY <1>0, <1>2, <1>4, <1>9, <1>10, <1>11 DEF Shape, Joined

\* A free link for an element that is out of the tree.
Free(t, E, n, p, s) ==
    /\ n \in Node /\ n \notin E /\ s \in Side
    /\ IF Root(t) = Null THEN p = Null ELSE p \in E /\ Kid(t, s, p) = Null

\* A new leaf is red, and may be the child of a red node.
LEMMA LinkedState ==
    ASSUME NEW t, NEW E, NEW L, NEW n, NEW p, NEW s, NEW r,
           Settled(t, E, L), Free(t, E, n, p, s), r = Linked(t, n, p, s)
    PROVE  \E M : InsertState(r, n, E \cup {n}, M) /\ Pushed(L, M, E, n, Spot(L, p, s))
  <1>1. CASE Root(t) = Null
    <2>1. p = Null /\ n \in Node /\ s \in Side
      BY <1>1 DEF Free
    <2>2. PICK M : InsertState(r, n, {n}, M) /\ Pushed(L, M, E, n, 1) /\ E = {}
      BY <1>1, <2>1, LinkedFirst
    <2>3. E \cup {n} = {n} /\ Spot(L, p, s) = 1
      BY <2>1, <2>2 DEF Spot
    <2> QED BY <2>2, <2>3
  <1>2. CASE Root(t) # Null
    <2> DEFINE k == Spot(L, p, s)
               M == WithSpot(L, n, k, Pos(L, p))
               F == E \cup {n}
    <2>0. /\ t \in Tree /\ L \in Labels /\ E \subseteq Node /\ Null \notin Node /\ n \in Node
          /\ n \notin E /\ s \in Side /\ p \in E /\ Kid(t, s, p) = Null /\ p # Null
          /\ Shape(t, E, L) /\ Joined(t, E, L) /\ Balanced(t, E, L, Null, "left")
          /\ Reds(t, E, Null, Null) /\ RootBlack(t, Null) /\ Clean(t, E)
      BY <1>2, SideIs DEF Settled, Shape, Free
    <2>1. /\ r \in Tree /\ Root(r) = Root(t) /\ Red(r) = Red(t) \cup {n}
          /\ \A z \in Node : Up(r, z) = IF z = n THEN p ELSE Up(t, z)
          /\ \A d \in Side, z \in Node :
               Kid(r, d, z) = IF z = p /\ d = s THEN n ELSE IF z = n THEN Null ELSE Kid(t, d, z)
      <3>1. p \in Node \cup {Null}
        BY <2>0
      <3> QED BY <2>0, <3>1, LinkedIs
    <2>2. Shape(r, F, M)
      BY <2>0, <2>1, LinkedShape
    <2>3. k \in Int /\ Pos(L, p) \in Int
      BY <2>0, EdgesType DEF Spot
    <2>4. /\ M \in Labels /\ Pos(M, n) = k /\ Black(M, n) = 0
          /\ \A x \in E : Pos(M, x) = Shift(Pos(L, x), k) /\ Black(M, x) = Black(L, x)
      BY <2>0, <2>3, WithSpotIs
    <2> HIDE DEF M, k
    <2>5. \A x \in E, d \in Side : /\ Black(L, x) \in Int /\ Black(L, x) >= 0
                                   /\ Height(t, L, Kid(t, d, x)) = Black(L, x)
                                   /\ Short(x, d, Null, "left") = 0
                                   /\ Kid(t, d, x) \in E \cup {Null}
      BY <2>0, BalancedIs DEF Joined
    <2>6. n # Null
      BY <2>0
    <2>7. \A c : c \in E \cup {Null} => Height(r, M, c) = Height(t, L, c)
      BY <2>0, <2>1, <2>4 DEF Height
    <2>8. Balanced(r, F, M, Null, "left")
      <3> SUFFICES ASSUME NEW x \in F, NEW d \in Side
                   PROVE  /\ Black(M, x) >= 0
                          /\ Height(r, M, Kid(r, d, x)) + Short(x, d, Null, "left") = Black(M, x)
        BY DEF Balanced
      <3>1. CASE x = n
        <4>1. Kid(r, d, n) = Null
          BY <2>0, <2>1
        <4>2. Height(r, M, Null) = 0
          BY HeightIs
        <4>3. Short(n, d, Null, "left") = 0
          BY <2>6 DEF Short
        <4> QED BY <2>4, <3>1, <4>1, <4>2, <4>3
      <3>2. CASE x = p /\ d = s
        <4>1. Kid(r, d, x) = n
          BY <2>0, <2>1, <3>2
        <4>2. Height(r, M, n) = Black(M, n) + 0
          <5>1. n \in Red(r)
            BY <2>1
          <5> QED BY <2>6, <5>1, HeightIs
        <4>3. Black(L, x) = 0
          <5>1. Height(t, L, Null) = 0
            BY HeightIs
          <5> QED BY <2>0, <2>5, <3>2, <5>1
        <4> QED BY <2>0, <2>4, <2>5, <3>2, <4>1, <4>2, <4>3
      <3>3. CASE x \in E /\ ~(x = p /\ d = s)
        <4>1. Kid(r, d, x) = Kid(t, d, x)
          BY <2>0, <2>1, <3>3
        <4>2. Height(r, M, Kid(r, d, x)) = Black(L, x)
          BY <2>5, <2>7, <3>3, <4>1
        <4> QED BY <2>4, <2>5, <3>3, <4>2
      <3> QED BY <3>1, <3>2, <3>3
    <2>9. Reds(r, F, Null, n)
      <3> SUFFICES ASSUME NEW x \in F, NEW d \in Side, x \in Red(r), Kid(r, d, x) \in Red(r),
                          Kid(r, d, x) # n
                   PROVE  FALSE
        BY DEF Reds
      <3>1. x # n
        <4>1. Null \notin Red(r)
          BY <2>0, <2>1, FieldsType
        <4> QED BY <2>0, <2>1, <4>1
      <3>2. x \in E /\ x \in Red(t) /\ Kid(r, d, x) = Kid(t, d, x) /\ Kid(t, d, x) \in Red(t)
        BY <2>0, <2>1, <3>1
      <3>3. x = Null \/ Kid(t, d, x) = Null
        BY <2>0, <3>2 DEF Reds
      <3> QED BY <2>0, <3>2, <3>3, FieldsType
    <2>10. RootBlack(r, n)
      BY <1>2, <2>0, <2>1 DEF RootBlack
    <2>11. Clean(r, F)
      <3> SUFFICES ASSUME NEW x \in Node, x \notin F
                   PROVE  Up(r, x) = Null /\ x \notin Red(r) /\ \A d \in Side : Kid(r, d, x) = Null
        BY DEF Clean
      <3>1. Up(t, x) = Null /\ x \notin Red(t) /\ \A d \in Side : Kid(t, d, x) = Null
        BY <2>0 DEF Clean
      <3> QED BY <2>0, <2>1, <3>1
    <2>12. InsertState(r, n, F, M)
      BY <2>1, <2>2, <2>8, <2>9, <2>10, <2>11 DEF InsertState
    <2>13. Pushed(L, M, E, n, k)
      BY <2>4 DEF Pushed
    <2> QED BY <2>12, <2>13 DEF k
  <1> QED BY <1>1, <1>2

\* An element is inserted.
LEMMA InsertIs ==
    ASSUME NEW t, NEW E, NEW L, NEW n, NEW p, NEW s,
           Settled(t, E, L), Free(t, E, n, p, s)
    PROVE  \E M : /\ Settled(InsertFixup(Linked(t, n, p, s), n), E \cup {n}, M)
                  /\ Pushed(L, M, E, n, Spot(L, p, s))
  <1> DEFINE r == Linked(t, n, p, s)
             F == E \cup {n}
             k == Spot(L, p, s)
  <1>1. PICK M : InsertState(r, n, F, M) /\ Pushed(L, M, E, n, k)
    BY LinkedState
  <1>2. PICK K : Settled(InsertFixup(r, n), F, K) /\ SamePlaces(M, K)
    BY <1>1, InsertFixupIs
  <1>3. Pushed(L, K, E, n, k)
    <2>1. E \subseteq Node /\ n \in Node
      BY DEF Settled, Shape, Free
    <2> HIDE DEF k
    <2> QED BY <1>1, <1>2, <2>1 DEF Pushed, SamePlaces
  <1> QED BY <1>2, <1>3

-----------------------------------------------------------------------------
(* Removing: the paths through x, on side s of p, are one black node short. *)

ErasePlace(t, x, p, s, E, X, L) ==
    /\ Shape(t, E, L) /\ E \subseteq X /\ Clean(t, X) /\ p \in E /\ s \in Side
    /\ Kid(t, s, p) = x /\ x \notin Red(t)
    /\ Balanced(t, E, L, p, s) /\ Reds(t, E, Null, Null) /\ RootBlack(t, Null)

\* Balanced, said of one link.
LEMMA ShortIs ==
    ASSUME NEW t, NEW E, NEW L, NEW n, NEW d, NEW m, NEW b,
           Shape(t, E, L), Balanced(t, E, L, m, b), n \in E, d \in Side
    PROVE  /\ Black(L, n) \in Int /\ Black(L, n) >= 0 /\ Kid(t, d, n) \in E \cup {Null}
           /\ Height(t, L, Kid(t, d, n)) \in Int /\ Height(t, L, Kid(t, d, n)) >= 0
           /\ Height(t, L, Kid(t, d, n)) + Short(n, d, m, b) = Black(L, n)
           /\ Short(n, d, m, b) = 0 => Height(t, L, Kid(t, d, n)) = Black(L, n)
  <1>1. n \in Node /\ L \in Labels /\ Kid(t, d, n) \in E \cup {Null} /\ E \subseteq Node
        /\ Null \notin Node
    BY SideIs DEF Shape, Joined
  <1>2. /\ \A x \in E : Black(L, x) >= 0
        /\ Height(t, L, Kid(t, d, n)) + Short(n, d, m, b) = Black(L, n)
    BY DEF Balanced
  <1> DEFINE c == Kid(t, d, n)
  <1> HIDE DEF c
  <1>3. c = Null \/ c \in E
    BY <1>1 DEF c
  <1>4. Height(t, L, c) \in Int /\ Height(t, L, c) >= 0
    <2>1. CASE c = Null
      BY <2>1, HeightIs
    <2>2. CASE c \in E
      <3>1. c # Null /\ Black(L, c) \in Int /\ Black(L, c) >= 0
        BY <1>1, <1>2, <2>2, LabelType
      <3> QED BY <3>1, HeightIs
    <2> QED BY <1>3, <2>1, <2>2
  <1>5. Black(L, n) \in Int
    BY <1>1, LabelType
  <1> QED BY <1>1, <1>2, <1>4, <1>5 DEF Short, c

\* Balanced, said of the link that is a black node short.
LEMMA ShortHere ==
    ASSUME NEW t, NEW E, NEW L, NEW m, NEW b,
           Shape(t, E, L), Balanced(t, E, L, m, b), m \in E, b \in Side
    PROVE  /\ Height(t, L, Kid(t, b, m)) \in Int /\ Height(t, L, Kid(t, b, m)) >= 0
           /\ Height(t, L, Kid(t, b, m)) + 1 = Black(L, m)
           /\ Kid(t, b, m) \in E \cup {Null} /\ Black(L, m) \in Int
  <1>1. /\ Height(t, L, Kid(t, b, m)) \in Int /\ Height(t, L, Kid(t, b, m)) >= 0
        /\ Kid(t, b, m) \in E \cup {Null} /\ Black(L, m) \in Int
    BY ShortIs
  <1>2. Height(t, L, Kid(t, b, m)) + Short(m, b, m, b) = Black(L, m)
    BY DEF Balanced
  <1>3. Short(m, b, m, b) = 1
    BY DEF Short
  <1> QED BY <1>1, <1>2, <1>3

\* Short is 1 at that link only.
LEMMA ShortOf ==
    ASSUME NEW n, NEW d, NEW m, NEW b
    PROVE  /\ n = m /\ d = b => Short(n, d, m, b) = 1
           /\ ~(n = m /\ d = b) => Short(n, d, m, b) = 0
  BY DEF Short

\* All other links are balanced.
LEMMA PlaceHeights ==
    ASSUME NEW t, NEW x, NEW p, NEW s, NEW E, NEW X, NEW L, ErasePlace(t, x, p, s, E, X, L)
    PROVE  \A y \in E, d \in Side :
              /\ Black(L, y) \in Int /\ Black(L, y) >= 0 /\ Kid(t, d, y) \in E \cup {Null}
              /\ y # p \/ d # s => Height(t, L, Kid(t, d, y)) = Black(L, y)
  <1>1. Shape(t, E, L) /\ Balanced(t, E, L, p, s)
    BY DEF ErasePlace
  <1> SUFFICES ASSUME NEW y \in E, NEW d \in Side
               PROVE  /\ Black(L, y) \in Int /\ Black(L, y) >= 0 /\ Kid(t, d, y) \in E \cup {Null}
                      /\ y # p \/ d # s => Height(t, L, Kid(t, d, y)) = Black(L, y)
    OBVIOUS
  <1>2. Black(L, y) \in Int /\ Black(L, y) >= 0 /\ Kid(t, d, y) \in E \cup {Null}
    BY <1>1, ShortIs
  <1>3. ASSUME y # p \/ d # s  PROVE Height(t, L, Kid(t, d, y)) = Black(L, y)
    <2>1. Short(y, d, p, s) = 0
      BY <1>3 DEF Short
    <2> QED BY <1>1, <2>1, ShortIs
  <1> QED BY <1>2, <1>3

\* The sibling is there, and on the other side.
LEMMA SiblingIs ==
    ASSUME NEW t, NEW x, NEW p, NEW s, NEW E, NEW X, NEW L, NEW o,
           ErasePlace(t, x, p, s, E, X, L), o = Kid(t, Other(s), p)
    PROVE  /\ o \in E /\ o # Null /\ o # p /\ o # x /\ Up(t, o) = p /\ o # Root(t)
           /\ o # Up(t, p) /\ Kid(t, Other(s), p) = o
           /\ SideOf(t, p, x) = s /\ x \in E \cup {Null} /\ x # p
           /\ Other(s) \in Side /\ Other(s) # s /\ Other(Other(s)) = s
           /\ Height(t, L, x) \in Int /\ Height(t, L, x) >= 0 /\ Height(t, L, x) + 1 = Black(L, p)
           /\ Height(t, L, o) = Black(L, p) /\ Black(L, p) \in Int
           /\ Null \notin Node /\ E \subseteq Node
  <1>0. /\ Shape(t, E, L) /\ p \in E /\ s \in Side /\ Kid(t, s, p) = x
        /\ Balanced(t, E, L, p, s) /\ Null \notin Node /\ E \subseteq Node
    BY SideIs DEF ErasePlace, Shape
  <1>1. Other(s) \in Side /\ Other(s) # s /\ Other(Other(s)) = s
    BY <1>0, OtherIs
  <1>2. /\ Height(t, L, x) \in Int /\ Height(t, L, x) >= 0 /\ Height(t, L, x) + 1 = Black(L, p)
        /\ x \in E \cup {Null} /\ Black(L, p) \in Int
    <2>1. /\ Height(t, L, Kid(t, s, p)) \in Int /\ Height(t, L, Kid(t, s, p)) >= 0
          /\ Height(t, L, Kid(t, s, p)) + 1 = Black(L, p)
          /\ Kid(t, s, p) \in E \cup {Null} /\ Black(L, p) \in Int
      BY <1>0, ShortHere
    <2> QED BY <1>0, <2>1
  <1>3. Height(t, L, o) = Black(L, p) /\ o \in E \cup {Null}
    <2>1. Short(p, Other(s), p, s) = 0
      BY <1>1 DEF Short
    <2> QED BY <1>0, <1>1, <2>1, ShortIs
  <1>4. o # Null
    <2>1. Height(t, L, Null) = 0
      BY HeightIs
    <2> QED BY <1>2, <1>3, <2>1
  <1>5. o \in E /\ o # p /\ Up(t, o) = p /\ o # Root(t) /\ o # x /\ o # Up(t, p)
    BY <1>0, <1>1, <1>3, <1>4, ChildIs
  <1>6. SideOf(t, p, x) = s /\ x # p
    <2>1. CASE x = Null
      BY <1>0, <1>1, <1>4, <2>1, SideIs, SideOfIs
    <2>2. CASE x # Null
      BY <1>0, <2>2, ChildIs
    <2> QED BY <2>1, <2>2
  <1> QED BY <1>0, <1>1, <1>2, <1>3, <1>4, <1>5, <1>6

\* A red sibling: it goes up, and a black one takes its place.
LEMMA EraseRed ==
    ASSUME NEW t, NEW x, NEW p, NEW s, NEW E, NEW X, NEW L, NEW o, NEW r,
           ErasePlace(t, x, p, s, E, X, L), o = Kid(t, Other(s), p), o \in Red(t),
           r = Rotate(Redden(Blacken(t, o), p), p, s)
    PROVE  \E M : /\ ErasePlace(r, x, p, s, E, X, M) /\ SamePlaces(L, M)
                  /\ Kid(r, Other(s), p) \notin Red(r) /\ p \in Red(r)
  <1> DEFINE t1 == Blacken(t, o)
             t2 == Redden(t1, p)
             M == Turned(L, p, o, s)
             inner == Kid(t, s, o)
             q == Up(t, p)
  <1>0. /\ Shape(t, E, L) /\ p \in E /\ s \in Side /\ E \subseteq X /\ Clean(t, X)
        /\ t \in Tree /\ E \subseteq Node /\ Null \notin Node /\ L \in Labels
        /\ Balanced(t, E, L, p, s) /\ Joined(t, E, L) /\ Kid(t, s, p) = x /\ x \notin Red(t)
        /\ Reds(t, E, Null, Null) /\ RootBlack(t, Null) /\ Red(t) \subseteq Node
    BY SideIs, FieldsType DEF ErasePlace, Shape
  <1>1. /\ o \in E /\ o # Null /\ o # p /\ o # x /\ Up(t, o) = p /\ o # Root(t)
        /\ o # q /\ Kid(t, Other(s), p) = o
        /\ x \in E \cup {Null} /\ x # p
        /\ Other(s) \in Side /\ Other(s) # s
        /\ Height(t, L, x) \in Int /\ Height(t, L, x) + 1 = Black(L, p)
        /\ Height(t, L, o) = Black(L, p) /\ Black(L, p) \in Int /\ p # Null
    BY <1>0, SiblingIs
  <1>2. \A y \in E, d \in Side : y \in Red(t) => Kid(t, d, y) \notin Red(t)
    BY <1>0 DEF Reds
  <1>3. p \notin Red(t)
    BY <1>0, <1>1, <1>2
  <1>4. /\ t1 \in Tree /\ Root(t1) = Root(t)
        /\ Red(t1) = Red(t) \ {o} /\ \A z \in Node : Up(t1, z) = Up(t, z)
        /\ \A e \in Side, z \in Node : Kid(t1, e, z) = Kid(t, e, z)
    BY <1>0, <1>1, BlackenIs
  <1> HIDE DEF t1
  <1>5. /\ t2 \in Tree /\ Root(t2) = Root(t)
        /\ Red(t2) = (Red(t) \ {o}) \cup {p} /\ \A z \in Node : Up(t2, z) = Up(t, z)
        /\ \A e \in Side, z \in Node : Kid(t2, e, z) = Kid(t, e, z)
    BY <1>0, <1>1, <1>4, ReddenIs
  <1>6. r = Rotate(t2, p, s)
    BY DEF t1
  <1> HIDE DEF t2
  <1>7. Shape(t2, E, L)
    BY <1>0, <1>5, ShapeSame
  <1>8. Lifts(t2, p, s, o, inner, q)
    BY <1>0, <1>1, <1>5 DEF Lifts
  <1>9. /\ r \in Tree
        /\ Red(r) = Red(t2)
        /\ inner \in E \cup {Null} /\ inner # o /\ inner # p
        /\ Root(r) = IF q = Null THEN o ELSE Root(t)
        /\ q = Null <=> p = Root(t)
        /\ q # Null => q \in E /\ SideOf(t2, q, p) \in Side /\ Kid(t2, SideOf(t2, q, p), q) = p
        /\ p # q
        /\ \A y \in E, d \in Side : RotatedKid(t2, r, p, s, o, inner, q, y, d)
        /\ Clean(r, X)
    <2>1. Clean(t2, X)
      <3> SUFFICES ASSUME NEW y \in Node, y \notin X
                   PROVE  Up(t2, y) = Null /\ y \notin Red(t2) /\ \A d \in Side : Kid(t2, d, y) = Null
        BY DEF Clean
      <3> QED BY <1>0, <1>1, <1>5 DEF Clean
    <2> QED BY <1>0, <1>1, <1>5, <1>6, <1>7, <1>8, <2>1, RotateKids
  <1>10. Shape(r, E, M)
    <2>1. o = Kid(t2, Other(s), p) /\ o # Null
      BY <1>0, <1>1, <1>5
    <2> QED BY <1>0, <1>6, <1>7, <2>1, ShapeRotate
  <1>11. /\ M \in Labels
         /\ \A y \in Node : Pos(M, y) = Pos(L, y) /\ Black(M, y) = Black(L, y)
    BY <1>0, <1>1, TurnedIs
  <1>12. \A y \in E, d \in Side : /\ Black(L, y) \in Int /\ Black(L, y) >= 0
                                  /\ ~(y = p /\ d = s) => Height(t, L, Kid(t, d, y)) = Black(L, y)
    <2> SUFFICES ASSUME NEW y \in E, NEW d \in Side
                 PROVE  /\ Black(L, y) \in Int /\ Black(L, y) >= 0
                        /\ ~(y = p /\ d = s) => Height(t, L, Kid(t, d, y)) = Black(L, y)
      OBVIOUS
    <2>1. /\ Black(L, y) \in Int /\ Black(L, y) >= 0
          /\ Short(y, d, p, s) = 0 => Height(t, L, Kid(t, d, y)) = Black(L, y)
      BY <1>0, ShortIs
    <2> QED BY <2>1, ShortOf
  <1> HIDE DEF M, inner, q
  <1>13. \A c : c \in E \cup {Null} /\ c # p /\ c # o => Height(t2, M, c) = Height(t, L, c)
    <2> SUFFICES ASSUME NEW c, c \in E \cup {Null}, c # p, c # o
                 PROVE  Height(t2, M, c) = Height(t, L, c)
      OBVIOUS
    <2>1. c \in Red(t2) <=> c \in Red(t)
      BY <1>5
    <2>2. c # Null => Black(M, c) = Black(L, c)
      BY <1>0, <1>11
    <2> QED BY <2>1, <2>2 DEF Height
  <1>14. /\ Black(L, o) = Black(L, p)
         /\ q # Null => Black(L, q) = Black(L, p) + 1
    <2>1. Height(t, L, o) = Black(L, o) + 0
      BY <1>1, HeightIs
    <2>2. q # Null => Height(t, L, p) = Black(L, q)
      <3>1. q # Null => Kid(t, SideOf(t2, q, p), q) = p
        BY <1>0, <1>5, <1>9
      <3> QED BY <1>9, <1>12, <3>1
    <2>3. Height(t, L, p) = Black(L, p) + 1
      BY <1>1, <1>3, HeightIs
    <2>4. Black(L, o) \in Int
      BY <1>1, <1>12
    <2>5. Black(L, o) = Black(L, p)
      BY <1>1, <2>1, <2>4
    <2> QED BY <2>2, <2>3, <2>5
  <1>15. Balanced(r, E, M, p, s)
    <2>1. \A y \in E : Black(M, y) = Black(L, y) /\ Black(M, y) >= 0 /\ Black(M, y) \in Int
      BY <1>0, <1>11, <1>12
    <2>2. \A y \in E, d \in Side : /\ y = p /\ d = s => Short(y, d, p, s) = 1
                                   /\ ~(y = p /\ d = s) => Short(y, d, p, s) = 0
      BY ShortOf
    <2>3. Height(t2, M, inner) + Short(p, Other(s), p, s) = Black(M, p)
      <3>1. Height(t2, M, inner) = Height(t, L, inner)
        BY <1>9, <1>13
      <3>2. Height(t, L, inner) = Black(L, o)
        BY <1>0, <1>1, <1>12 DEF inner
      <3>3. Short(p, Other(s), p, s) = 0
        BY <1>0, <1>1, <2>2
      <3> QED BY <1>0, <1>1, <1>14, <2>1, <3>1, <3>2, <3>3
    <2>4. Height(t2, M, Kid(t2, s, p)) + Short(p, s, p, s) = Black(M, p)
      <3>1. Kid(t2, s, p) = x
        BY <1>0, <1>5
      <3>2. Height(t2, M, x) = Height(t, L, x)
        BY <1>1, <1>13
      <3>3. Short(p, s, p, s) = 1
        BY <1>0, <2>2
      <3> QED BY <1>0, <1>1, <2>1, <3>1, <3>2, <3>3
    <2>5. Height(t2, M, p) + Short(o, s, p, s) = Black(M, o)
      <3>1. Height(t2, M, p) = Black(M, p) + 0
        BY <1>1, <1>5, HeightIs
      <3>2. Short(o, s, p, s) = 0
        BY <1>0, <1>1, <2>2
      <3> QED BY <1>0, <1>1, <1>14, <2>1, <3>1, <3>2
    <2>6. Height(t2, M, Kid(t2, Other(s), o)) + Short(o, Other(s), p, s) = Black(M, o)
      <3> DEFINE c == Kid(t, Other(s), o)
      <3>1. Kid(t2, Other(s), o) = c /\ c \in E \cup {Null}
        BY <1>0, <1>1, <1>5 DEF Joined
      <3>2. c # o /\ c # p
        <4>1. c # Null => c # o /\ Up(t, o) # c
          BY <1>0, <1>1, ChildIs
        <4> QED BY <1>1, <4>1
      <3>3. Height(t, L, c) = Black(L, o)
        BY <1>0, <1>1, <1>12
      <3>4. Short(o, Other(s), p, s) = 0
        BY <1>0, <1>1, <2>2
      <3> HIDE DEF c
      <3> QED BY <1>1, <1>13, <2>1, <3>1, <3>2, <3>3, <3>4
    <2>7. q # Null => Height(t2, M, o) + Short(q, SideOf(t2, q, p), p, s) = Black(M, q)
      <3>1. Height(t2, M, o) = Black(M, o) + 1
        BY <1>1, <1>5, HeightIs
      <3>2. q # Null => Short(q, SideOf(t2, q, p), p, s) = 0
        BY <1>9, <2>2
      <3> QED BY <1>0, <1>1, <1>9, <1>14, <2>1, <3>1, <3>2
    <2>8. ASSUME NEW y \in E, NEW d \in Side, y \notin {p, o}, Kid(t2, d, y) # p
          PROVE  Height(t2, M, Kid(t2, d, y)) + Short(y, d, p, s) = Black(M, y)
      <3> DEFINE c == Kid(t, d, y)
      <3>1. Kid(t2, d, y) = c /\ c \in E \cup {Null}
        BY <1>0, <1>5 DEF Joined
      <3>2. c # o
        BY <1>0, <1>1, <2>8, ChildIs
      <3>3. Height(t2, M, c) = Height(t, L, c)
        BY <1>13, <2>8, <3>1, <3>2
      <3> QED BY <1>12, <2>1, <2>2, <2>8, <3>1, <3>3
    <2>9. Balanced(Rotate(t2, p, s), E, M, p, s)
      <3>1. p \in E /\ s \in Side /\ \A y \in E : Black(M, y) >= 0
        BY <1>0, <2>1
      <3> QED BY <1>7, <1>8, <2>3, <2>4, <2>5, <2>6, <2>7, <2>8, <3>1, RotateBalanced, ZenonT(60)
    <2> QED BY <1>6, <2>9
  <1>16. Reds(r, E, Null, Null)
    <2>1. inner \notin Red(t2) /\ x \notin Red(t2) /\ o \notin Red(t2)
      <3>1. inner \notin Red(t)
        BY <1>0, <1>1, <1>2 DEF inner
      <3> QED BY <1>0, <1>1, <1>5, <1>9, <3>1
    <2>2. Kid(t2, s, p) \notin Red(t2)
      BY <1>0, <1>5, <2>1
    <2>3. \A y \in E, d \in Side : y \notin {p, o} /\ Kid(t2, d, y) # p =>
              (y \in Red(t2) /\ Kid(t2, d, y) \in Red(t2) => y = Null \/ Kid(t2, d, y) = Null)
      BY <1>0, <1>2, <1>5
    <2> QED BY <1>0, <1>6, <1>7, <1>8, <2>1, <2>2, <2>3, RotateReds
  <1>17. RootBlack(r, Null)
    <2> SUFFICES Root(r) \notin Red(t2)
      BY <1>9 DEF RootBlack
    <2>1. CASE q = Null
      BY <1>1, <1>5, <1>9, <2>1
    <2>2. CASE q # Null
      <3>1. Root(r) = Root(t) /\ Root(t) # p
        BY <1>9, <2>2
      <3>2. Root(t) \notin Red(t)
        BY <1>0 DEF RootBlack
      <3> QED BY <1>5, <3>1, <3>2
    <2> QED BY <2>1, <2>2
  <1>18. Kid(r, s, p) = x /\ Kid(r, Other(s), p) = inner
    <2>1. /\ RotatedKid(t2, r, p, s, o, inner, q, p, s)
          /\ RotatedKid(t2, r, p, s, o, inner, q, p, Other(s))
      BY <1>0, <1>1, <1>9
    <2>2. Kid(r, s, p) = Kid(t2, s, p)
      BY <1>1, <1>9, <2>1 DEF RotatedKid
    <2>3. Kid(r, Other(s), p) = inner
      BY <1>1, <1>9, <2>1 DEF RotatedKid
    <2> QED BY <1>0, <1>5, <2>2, <2>3
  <1>19. x \notin Red(r) /\ inner \notin Red(r) /\ p \in Red(r)
    <2>1. inner \notin Red(t)
      BY <1>0, <1>1, <1>2 DEF inner
    <2> QED BY <1>0, <1>1, <1>5, <1>9, <2>1
  <1>20. ErasePlace(r, x, p, s, E, X, M)
    BY <1>0, <1>9, <1>10, <1>15, <1>16, <1>17, <1>18, <1>19 DEF ErasePlace
  <1>21. SamePlaces(L, M)
    BY <1>11 DEF SamePlaces
  <1> QED BY <1>18, <1>19, <1>20, <1>21

\* The paths through x are short: below the root all of them are, which is none.
EraseState(t, x, p, E, X, L) ==
    /\ Shape(t, E, L) /\ E \subseteq X /\ Clean(t, X)
    /\ x \in E \cup {Null} /\ p \in E \cup {Null}
    /\ Reds(t, E, x, x) /\ RootBlack(t, x)
    /\ \/ x = Root(t) /\ Balanced(t, E, L, Null, "left")
       \/ p \in E /\ \E s \in Side : Kid(t, s, p) = x /\ Balanced(t, E, L, p, s)

\* A black sibling with black children turns red, and the parent is short.
LEMMA EraseSink ==
    ASSUME NEW t, NEW x, NEW p, NEW s, NEW E, NEW X, NEW L, NEW o, NEW r, NEW q,
           ErasePlace(t, x, p, s, E, X, L), o = Kid(t, Other(s), p), o \notin Red(t),
           \A d \in Side : Kid(t, d, o) \notin Red(t),
           r = Redden(t, o), q = Up(t, p)
    PROVE  \E M : /\ EraseState(r, p, q, E, X, M) /\ SamePlaces(L, M)
                  /\ \A y \in Node : Width(M, y) = Width(L, y)
                  /\ q = Null => p = Root(r)
                  /\ q # Null => /\ Width(M, q) > Width(L, p)
                                 /\ Width(M, q) \in Int /\ Width(L, p) \in Int
                  /\ p \in Red(r) <=> p \in Red(t)
  <1> DEFINE B == Black(L, p)
             M == WithBlack(L, p, B - 1)
             e == SideOf(t, q, p)
  <1>0. /\ Shape(t, E, L) /\ p \in E /\ s \in Side /\ E \subseteq X /\ Clean(t, X)
        /\ t \in Tree /\ E \subseteq Node /\ Null \notin Node /\ L \in Labels
        /\ Balanced(t, E, L, p, s) /\ Joined(t, E, L) /\ Kid(t, s, p) = x /\ x \notin Red(t)
        /\ Reds(t, E, Null, Null) /\ RootBlack(t, Null) /\ Red(t) \subseteq Node
    BY SideIs, FieldsType DEF ErasePlace, Shape
  <1>1. /\ o \in E /\ o # Null /\ o # p /\ o # x /\ Up(t, o) = p /\ o # Root(t)
        /\ o # q /\ Kid(t, Other(s), p) = o
        /\ x \in E \cup {Null} /\ x # p
        /\ Other(s) \in Side /\ Other(s) # s
        /\ Height(t, L, x) \in Int /\ Height(t, L, x) >= 0 /\ Height(t, L, x) + 1 = B
        /\ Height(t, L, o) = B /\ B \in Int /\ p # Null
    BY <1>0, SiblingIs
  <1>2. \A y \in E, d \in Side : y \in Red(t) => Kid(t, d, y) \notin Red(t)
    BY <1>0 DEF Reds
  <1>3. /\ q = Null <=> p = Root(t)
        /\ q # Null => q \in E /\ q # p /\ e \in Side /\ Kid(t, e, q) = p
    BY <1>0, ParentIs
  <1>4. /\ r \in Tree /\ Root(r) = Root(t)
        /\ Red(r) = Red(t) \cup {o} /\ \A z \in Node : Up(r, z) = Up(t, z)
        /\ \A d \in Side, z \in Node : Kid(r, d, z) = Kid(t, d, z)
    BY <1>0, <1>1, ReddenIs
  <1>5. /\ M \in Labels
        /\ \A y \in Node : Pos(M, y) = Pos(L, y) /\ Black(M, y) = IF y = p THEN B - 1 ELSE Black(L, y)
        /\ \A d \in Side, y \in Node : Edge(M, d, y) = Edge(L, d, y)
    BY <1>0, <1>1, WithBlackIs
  <1>6. \A y \in E, d \in Side : /\ Black(L, y) \in Int /\ Black(L, y) >= 0
                                 /\ Kid(t, d, y) \in E \cup {Null}
                                 /\ ~(y = p /\ d = s) => Height(t, L, Kid(t, d, y)) = Black(L, y)
    <2> SUFFICES ASSUME NEW y \in E, NEW d \in Side
                 PROVE  /\ Black(L, y) \in Int /\ Black(L, y) >= 0
                        /\ Kid(t, d, y) \in E \cup {Null}
                        /\ ~(y = p /\ d = s) => Height(t, L, Kid(t, d, y)) = Black(L, y)
      OBVIOUS
    <2>1. /\ Black(L, y) \in Int /\ Black(L, y) >= 0 /\ Kid(t, d, y) \in E \cup {Null}
          /\ Short(y, d, p, s) = 0 => Height(t, L, Kid(t, d, y)) = Black(L, y)
      BY <1>0, ShortIs
    <2> QED BY <2>1, ShortOf
  <1> HIDE DEF M, B, e
  <1>7. Shape(r, E, M)
    BY <1>0, <1>4, <1>5, ShapeSame
  <1>8. /\ Height(r, M, o) = B - 1 /\ Height(r, M, x) = B - 1
        /\ Height(r, M, p) + 1 = Height(t, L, p) /\ Height(r, M, p) \in Int
        /\ \A c : c \in E \cup {Null} /\ c # p /\ c # o => Height(r, M, c) = Height(t, L, c)
    <2>1. \A c : c \in E \cup {Null} /\ c # p /\ c # o => Height(r, M, c) = Height(t, L, c)
      <3> SUFFICES ASSUME NEW c, c \in E \cup {Null}, c # p, c # o
                   PROVE  Height(r, M, c) = Height(t, L, c)
        OBVIOUS
      <3>1. c \in Red(r) <=> c \in Red(t)
        BY <1>4
      <3>2. c # Null => Black(M, c) = Black(L, c)
        BY <1>0, <1>5
      <3> QED BY <3>1, <3>2 DEF Height
    <2>2. Height(r, M, x) = B - 1
      <3>1. Height(r, M, x) = Height(t, L, x)
        BY <1>1, <2>1
      <3> QED BY <1>1, <3>1
    <2>3. Height(r, M, o) = B - 1
      <3>1. Height(t, L, o) = Black(L, o) + 1
        BY <1>1, HeightIs
      <3>2. Height(r, M, o) = Black(M, o) + 0
        <4>1. o \in Red(r)
          BY <1>4
        <4> QED BY <1>1, <4>1, HeightIs
      <3>3. Black(M, o) = Black(L, o) /\ Black(L, o) \in Int
        BY <1>0, <1>1, <1>5, <1>6
      <3>4. Black(L, o) = B - 1
        BY <1>1, <3>1, <3>3
      <3> QED BY <3>2, <3>3, <3>4, <1>1
    <2>4. Height(r, M, p) + 1 = Height(t, L, p) /\ Height(r, M, p) \in Int
      <3>1. Black(M, p) = B - 1 /\ p \in Node
        BY <1>0, <1>5
      <3>2. CASE p \in Red(t)
        <4>1. p \in Red(r)
          BY <1>4, <3>2
        <4>2. Height(r, M, p) = Black(M, p) + 0 /\ Height(t, L, p) = B + 0
          BY <1>1, <3>2, <4>1, HeightIs DEF B
        <4> QED BY <1>1, <3>1, <4>2
      <3>3. CASE p \notin Red(t)
        <4>1. p \notin Red(r)
          BY <1>1, <1>4, <3>3
        <4>2. Height(r, M, p) = Black(M, p) + 1 /\ Height(t, L, p) = B + 1
          BY <1>1, <3>3, <4>1, HeightIs DEF B
        <4> QED BY <1>1, <3>1, <4>2
      <3> QED BY <3>2, <3>3
    <2> QED BY <2>1, <2>2, <2>3, <2>4
  <1>9. \A y \in E : Black(M, y) \in Int /\ Black(M, y) >= 0
    BY <1>0, <1>1, <1>5, <1>6
  <1>10. \A d \in Side : Height(r, M, Kid(r, d, p)) = Black(M, p)
    <2>1. Black(M, p) = B - 1 /\ p \in Node
      BY <1>0, <1>5
    <2>2. Height(r, M, Kid(r, s, p)) = B - 1 /\ Height(r, M, Kid(r, Other(s), p)) = B - 1
      BY <1>0, <1>1, <1>4, <1>8
    <2> QED BY <1>0, <2>1, <2>2, OtherIs
  <1>11. \A y \in E, d \in Side : y # p /\ Kid(t, d, y) # p => Height(r, M, Kid(r, d, y)) = Black(M, y)
    <2> SUFFICES ASSUME NEW y \in E, NEW d \in Side, y # p, Kid(t, d, y) # p
                 PROVE  Height(r, M, Kid(r, d, y)) = Black(M, y)
      OBVIOUS
    <2> DEFINE c == Kid(t, d, y)
    <2>1. Kid(r, d, y) = c /\ c \in E \cup {Null}
      BY <1>0, <1>4, <1>6
    <2>2. c # o
      BY <1>0, <1>1, ChildIs
    <2>3. Height(t, L, c) = Black(L, y)
      BY <1>6
    <2> HIDE DEF c
    <2>4. c # p
      BY DEF c
    <2>5. Black(M, y) = Black(L, y)
      BY <1>0, <1>5
    <2> QED BY <1>8, <2>1, <2>2, <2>3, <2>4, <2>5
  <1>12. ASSUME q = Null PROVE p = Root(r) /\ Balanced(r, E, M, Null, "left")
    <2>1. p = Root(t)
      BY <1>3, <1>12
    <2>2. Balanced(r, E, M, Null, "left")
      <3> SUFFICES ASSUME NEW y \in E, NEW d \in Side
                   PROVE  Height(r, M, Kid(r, d, y)) + Short(y, d, Null, "left") = Black(M, y)
        BY <1>9 DEF Balanced
      <3>1. Short(y, d, Null, "left") = 0
        BY <1>0 DEF Short
      <3>2. Kid(t, d, y) # p
        BY <1>0, <1>1, <2>1, ChildIs
      <3>3. Height(r, M, Kid(r, d, y)) = Black(M, y)
        BY <1>10, <1>11, <3>2
      <3> QED BY <1>9, <3>1, <3>3
    <2> QED BY <1>4, <2>1, <2>2
  <1>13. ASSUME q # Null
         PROVE  Kid(r, e, q) = p /\ q \in E /\ e \in Side /\ Balanced(r, E, M, q, e)
    <2>1. Balanced(r, E, M, q, e)
      <3> SUFFICES ASSUME NEW y \in E, NEW d \in Side
                   PROVE  Height(r, M, Kid(r, d, y)) + Short(y, d, q, e) = Black(M, y)
        BY <1>9 DEF Balanced
      <3>1. CASE Kid(t, d, y) = p
        <4>1. y = q /\ d = e
          <5>1. Kid(t, d, y) # Null
            BY <1>1, <3>1
          <5>2. Up(t, Kid(t, d, y)) = y /\ SideOf(t, y, Kid(t, d, y)) = d
            BY <1>0, <5>1, ChildIs
          <5> QED BY <3>1, <5>2 DEF e
        <4>2. Short(y, d, q, e) = 1
          BY <4>1 DEF Short
        <4>3. Kid(r, d, y) = p
          BY <1>0, <1>4, <3>1
        <4>4. Height(t, L, p) = Black(L, y)
          <5>1. y # p
            BY <1>3, <1>13, <4>1
          <5> QED BY <1>6, <3>1, <5>1
        <4>5. Black(M, y) = Black(L, y)
          <5>1. y # p /\ y \in Node
            BY <1>0, <1>3, <1>13, <4>1
          <5> QED BY <1>5, <5>1
        <4> QED BY <1>8, <4>2, <4>3, <4>4, <4>5
      <3>2. CASE Kid(t, d, y) # p
        <4>1. ~(y = q /\ d = e)
          BY <1>3, <1>13, <3>2
        <4>2. Short(y, d, q, e) = 0
          BY <4>1 DEF Short
        <4>3. Height(r, M, Kid(r, d, y)) = Black(M, y)
          BY <1>10, <1>11, <3>2
        <4> QED BY <1>9, <4>2, <4>3
      <3> QED BY <3>1, <3>2
    <2>2. Kid(r, e, q) = p /\ q \in E /\ e \in Side
      BY <1>0, <1>3, <1>4, <1>13
    <2> QED BY <2>1, <2>2
  <1>14. Reds(r, E, p, p)
    <2> SUFFICES ASSUME NEW y \in E, NEW d \in Side, y \in Red(r), Kid(r, d, y) \in Red(r), y # p
                 PROVE  FALSE
      BY DEF Reds
    <2>1. Kid(r, d, y) = Kid(t, d, y)
      BY <1>0, <1>4
    <2>2. y # o
      <3>1. Kid(t, d, o) # o
        <4>1. Kid(t, d, o) # Null => Kid(t, d, o) # o
          BY <1>0, <1>1, ChildIs
        <4> QED BY <1>1, <4>1
      <3>2. Kid(t, d, o) \notin Red(t)
        OBVIOUS
      <3> QED BY <1>4, <2>1, <3>1, <3>2
    <2>3. Kid(t, d, y) # o
      BY <1>0, <1>1, ChildIs
    <2> QED BY <1>2, <1>4, <2>1, <2>2, <2>3
  <1>15. RootBlack(r, p)
    BY <1>0, <1>1, <1>4 DEF RootBlack
  <1>16. Clean(r, X)
    <2> SUFFICES ASSUME NEW y \in Node, y \notin X
                 PROVE  Up(r, y) = Null /\ y \notin Red(r) /\ \A d \in Side : Kid(r, d, y) = Null
      BY DEF Clean
    <2> QED BY <1>0, <1>1, <1>4 DEF Clean
  <1>17. EraseState(r, p, q, E, X, M)
    <2>1. q \in E \cup {Null}
      BY <1>3
    <2>2. \/ p = Root(r) /\ Balanced(r, E, M, Null, "left")
          \/ q \in E /\ \E d \in Side : Kid(r, d, q) = p /\ Balanced(r, E, M, q, d)
      BY <1>12, <1>13
    <2> QED BY <1>0, <1>7, <1>14, <1>15, <1>16, <2>1, <2>2 DEF EraseState
  <1>18. SamePlaces(L, M) /\ \A y \in Node : Width(M, y) = Width(L, y)
    BY <1>5, SideIs DEF SamePlaces, Width
  <1>19. q = Null => p = Root(r)
    BY <1>3, <1>4
  <1>20. q # Null => Width(M, q) > Width(L, p) /\ Width(M, q) \in Int /\ Width(L, p) \in Int
    <2>1. ASSUME q # Null
          PROVE  Width(L, q) > Width(L, p) /\ Width(L, q) \in Int /\ Width(L, p) \in Int
      <3>1. q \in E /\ e \in Side /\ Kid(t, e, q) = p
        BY <1>3, <2>1
      <3> QED BY <1>0, <1>1, <3>1, ChildWidth
    <2>2. q # Null => Width(M, q) = Width(L, q)
      BY <1>0, <1>3, <1>18
    <2> QED BY <2>1, <2>2
  <1>21. p \in Red(r) <=> p \in Red(t)
    BY <1>1, <1>4
  <1> QED BY <1>17, <1>18, <1>19, <1>20, <1>21

\* The sibling's far child is black and its near one red: that one takes its place.
LEMMA EraseNear ==
    ASSUME NEW t, NEW x, NEW p, NEW s, NEW E, NEW X, NEW L, NEW o, NEW m, NEW r,
           ErasePlace(t, x, p, s, E, X, L), o = Kid(t, Other(s), p), o \notin Red(t),
           m = Kid(t, s, o), m \in Red(t), Kid(t, Other(s), o) \notin Red(t),
           r = Rotate(Redden(Blacken(t, m), o), o, Other(s))
    PROVE  \E M : /\ ErasePlace(r, x, p, s, E, X, M) /\ SamePlaces(L, M)
                  /\ Kid(r, Other(s), p) = m /\ m \notin Red(r)
                  /\ Kid(r, Other(s), m) = o /\ o \in Red(r)
  <1> DEFINE w == Other(s)
             t1 == Blacken(t, m)
             t2 == Redden(t1, o)
             M == Turned(L, o, m, w)
             inner == Kid(t, w, m)
  <1>0. /\ Shape(t, E, L) /\ p \in E /\ s \in Side /\ E \subseteq X /\ Clean(t, X)
        /\ t \in Tree /\ E \subseteq Node /\ Null \notin Node /\ L \in Labels
        /\ Balanced(t, E, L, p, s) /\ Joined(t, E, L) /\ Kid(t, s, p) = x /\ x \notin Red(t)
        /\ Reds(t, E, Null, Null) /\ RootBlack(t, Null) /\ Red(t) \subseteq Node
    BY SideIs, FieldsType DEF ErasePlace, Shape
  <1>1. /\ o \in E /\ o # Null /\ o # p /\ o # x /\ Up(t, o) = p /\ o # Root(t)
        /\ Kid(t, w, p) = o /\ SideOf(t, p, o) = w
        /\ x \in E \cup {Null} /\ x # p
        /\ w \in Side /\ w # s /\ Other(w) = s
        /\ Height(t, L, o) = Black(L, p) /\ Black(L, p) \in Int /\ p # Null
    <2>1. o # Null /\ w \in Side
      BY <1>0, SiblingIs
    <2>2. SideOf(t, p, o) = w
      BY <1>0, <2>1, ChildIs
    <2> QED BY <1>0, <2>2, SiblingIs
  <1>2. \A y \in E, d \in Side : y \in Red(t) => Kid(t, d, y) \notin Red(t)
    BY <1>0 DEF Reds
  <1>3. /\ m \in E /\ m # Null /\ m # o /\ Up(t, m) = o /\ m # Root(t) /\ m # p
        /\ Kid(t, s, o) = m
    <2>1. m # Null
      BY <1>0
    <2> QED BY <1>0, <1>1, <2>1, ChildIs
  <1>4. /\ t1 \in Tree /\ Root(t1) = Root(t)
        /\ Red(t1) = Red(t) \ {m} /\ \A z \in Node : Up(t1, z) = Up(t, z)
        /\ \A e \in Side, z \in Node : Kid(t1, e, z) = Kid(t, e, z)
    BY <1>0, <1>3, BlackenIs
  <1> HIDE DEF t1
  <1>5. /\ t2 \in Tree /\ Root(t2) = Root(t)
        /\ Red(t2) = (Red(t) \ {m}) \cup {o} /\ \A z \in Node : Up(t2, z) = Up(t, z)
        /\ \A e \in Side, z \in Node : Kid(t2, e, z) = Kid(t, e, z)
    BY <1>0, <1>1, <1>4, ReddenIs
  <1>6. r = Rotate(t2, o, w)
    BY DEF t1
  <1> HIDE DEF t2, w
  <1>7. Shape(t2, E, L)
    BY <1>0, <1>5, ShapeSame
  <1>8. Lifts(t2, o, w, m, inner, p)
    BY <1>0, <1>1, <1>3, <1>5 DEF Lifts
  <1>9. /\ r \in Tree
        /\ Red(r) = Red(t2)
        /\ inner \in E \cup {Null} /\ inner # o /\ inner # m
        /\ Root(r) = Root(t)
        /\ \A y \in E, d \in Side : RotatedKid(t2, r, o, w, m, inner, p, y, d)
        /\ Clean(r, X)
    <2>1. Clean(t2, X)
      <3> SUFFICES ASSUME NEW y \in Node, y \notin X
                   PROVE  Up(t2, y) = Null /\ y \notin Red(t2) /\ \A d \in Side : Kid(t2, d, y) = Null
        BY DEF Clean
      <3> QED BY <1>0, <1>1, <1>5 DEF Clean
    <2> QED BY <1>0, <1>1, <1>5, <1>6, <1>7, <1>8, <2>1, RotateKids
  <1>10. Shape(r, E, M)
    <2>1. m = Kid(t2, Other(w), o) /\ m # Null
      BY <1>0, <1>1, <1>3, <1>5
    <2> QED BY <1>1, <1>6, <1>7, <2>1, ShapeRotate
  <1>11. /\ M \in Labels
         /\ \A y \in Node : Pos(M, y) = Pos(L, y) /\ Black(M, y) = Black(L, y)
    BY <1>0, <1>1, <1>3, TurnedIs
  <1>12. \A y \in E, d \in Side : /\ Black(L, y) \in Int /\ Black(L, y) >= 0
                                  /\ Height(t, L, Kid(t, d, y)) + Short(y, d, p, s) = Black(L, y)
                                  /\ Short(y, d, p, s) = 0 => Height(t, L, Kid(t, d, y)) = Black(L, y)
    <2> SUFFICES ASSUME NEW y \in E, NEW d \in Side
                 PROVE  /\ Black(L, y) \in Int /\ Black(L, y) >= 0
                        /\ Height(t, L, Kid(t, d, y)) + Short(y, d, p, s) = Black(L, y)
                        /\ Short(y, d, p, s) = 0 => Height(t, L, Kid(t, d, y)) = Black(L, y)
      OBVIOUS
    <2> QED BY <1>0, ShortIs
  <1> HIDE DEF M, inner
  <1>13. \A c : c \in E \cup {Null} /\ c # o /\ c # m => Height(t2, M, c) = Height(t, L, c)
    <2> SUFFICES ASSUME NEW c, c \in E \cup {Null}, c # o, c # m
                 PROVE  Height(t2, M, c) = Height(t, L, c)
      OBVIOUS
    <2>1. c \in Red(t2) <=> c \in Red(t)
      BY <1>5
    <2>2. c # Null => Black(M, c) = Black(L, c)
      BY <1>0, <1>11
    <2> QED BY <2>1, <2>2 DEF Height
  <1>14. \A y \in E, d \in Side : y # p \/ d # s => Short(y, d, p, s) = 0
    BY ShortOf
  <1>15. Black(L, m) = Black(L, o) /\ Black(L, p) = Black(L, o) + 1
    <2>1. Height(t, L, m) = Black(L, o)
      BY <1>0, <1>1, <1>3, <1>12, <1>14
    <2>2. Height(t, L, m) = Black(L, m) + 0
      BY <1>3, HeightIs
    <2>3. Height(t, L, o) = Black(L, o) + 1
      BY <1>1, HeightIs
    <2>4. Black(L, m) \in Int
      BY <1>0, <1>3, <1>12
    <2> QED BY <1>1, <2>1, <2>2, <2>3, <2>4
  <1>16. Balanced(r, E, M, p, s)
    <2>1. \A y \in E : Black(M, y) = Black(L, y) /\ Black(M, y) >= 0 /\ Black(M, y) \in Int
      BY <1>0, <1>11, <1>12
    <2>3. Height(t2, M, inner) + Short(o, Other(w), p, s) = Black(M, o)
      <3>1. Height(t2, M, inner) = Height(t, L, inner)
        BY <1>9, <1>13
      <3>2. Height(t, L, inner) = Black(L, m)
        BY <1>1, <1>3, <1>12, <1>14 DEF inner
      <3>3. Short(o, Other(w), p, s) = 0
        BY <1>0, <1>1, <1>14
      <3> QED BY <1>1, <1>15, <2>1, <3>1, <3>2, <3>3
    <2>4. Height(t2, M, Kid(t2, w, o)) + Short(o, w, p, s) = Black(M, o)
      <3> DEFINE c == Kid(t, w, o)
      <3>1. Kid(t2, w, o) = c /\ c \in E \cup {Null}
        BY <1>0, <1>1, <1>5 DEF Joined
      <3>2. c # o /\ c # m
        <4>1. c # Null => c # o
          BY <1>0, <1>1, ChildIs
        <4>2. Kid(t, s, o) # Null
          BY <1>3
        <4>3. Kid(t, Other(s), o) # Kid(t, s, o)
          BY <1>0, <1>1, <4>2, ChildIs
        <4> QED BY <1>1, <1>3, <4>1, <4>3 DEF w
      <3>3. Height(t, L, c) = Black(L, o)
        BY <1>1, <1>12, <1>14
      <3>4. Short(o, w, p, s) = 0
        BY <1>1, <1>14
      <3> HIDE DEF c
      <3> QED BY <1>1, <1>13, <2>1, <3>1, <3>2, <3>3, <3>4
    <2>5. Height(t2, M, o) + Short(m, w, p, s) = Black(M, m)
      <3>1. Height(t2, M, o) = Black(M, o) + 0
        BY <1>1, <1>5, HeightIs
      <3>2. Short(m, w, p, s) = 0
        BY <1>1, <1>3, <1>14
      <3> QED BY <1>1, <1>3, <1>15, <2>1, <3>1, <3>2
    <2>6. Height(t2, M, Kid(t2, Other(w), m)) + Short(m, Other(w), p, s) = Black(M, m)
      <3> DEFINE c == Kid(t, s, m)
      <3>1. Kid(t2, Other(w), m) = c /\ c \in E \cup {Null}
        BY <1>0, <1>1, <1>3, <1>5 DEF Joined
      <3>2. c # m /\ c # o
        <4>1. c # Null => c # m /\ Up(t, m) # c
          BY <1>0, <1>3, ChildIs
        <4> QED BY <1>1, <1>3, <4>1
      <3>3. Height(t, L, c) = Black(L, m)
        BY <1>0, <1>3, <1>12, <1>14
      <3>4. Short(m, Other(w), p, s) = 0
        BY <1>0, <1>1, <1>3, <1>14
      <3> HIDE DEF c
      <3> QED BY <1>3, <1>13, <2>1, <3>1, <3>2, <3>3, <3>4
    <2>7. p # Null => Height(t2, M, m) + Short(p, SideOf(t2, p, o), p, s) = Black(M, p)
      <3>1. Height(t2, M, m) = Black(M, m) + 1
        <4>1. m \notin Red(t2)
          BY <1>3, <1>5
        <4> QED BY <1>3, <4>1, HeightIs
      <3>2. SideOf(t2, p, o) = w
        <4>1. Kid(t2, w, p) = o
          BY <1>0, <1>1, <1>5
        <4>2. Kid(t2, w, p) # Null
          BY <1>1, <4>1
        <4>3. SideOf(t2, p, Kid(t2, w, p)) = w
          BY <1>0, <1>1, <1>7, <4>2, ChildIs
        <4> QED BY <4>1, <4>3
      <3>3. Short(p, SideOf(t2, p, o), p, s) = 0
        BY <1>0, <1>1, <1>14, <3>2
      <3> QED BY <1>0, <1>1, <1>3, <1>15, <2>1, <3>1, <3>3
    <2>8. ASSUME NEW y \in E, NEW d \in Side, y \notin {o, m}, Kid(t2, d, y) # o
          PROVE  Height(t2, M, Kid(t2, d, y)) + Short(y, d, p, s) = Black(M, y)
      <3> DEFINE c == Kid(t, d, y)
      <3>1. Kid(t2, d, y) = c /\ c \in E \cup {Null}
        BY <1>0, <1>5 DEF Joined
      <3>2. c # m
        BY <1>0, <1>3, <2>8, ChildIs
      <3>3. Height(t2, M, c) = Height(t, L, c)
        BY <1>13, <2>8, <3>1, <3>2
      <3>4. Height(t, L, c) + Short(y, d, p, s) = Black(L, y)
        BY <1>12
      <3> HIDE DEF c
      <3> QED BY <2>1, <3>1, <3>3, <3>4
    <2>9. Balanced(Rotate(t2, o, w), E, M, p, s)
      <3>1. o \in E /\ w \in Side /\ \A y \in E : Black(M, y) >= 0
        BY <1>1, <2>1
      <3> QED BY <1>7, <1>8, <2>3, <2>4, <2>5, <2>6, <2>7, <2>8, <3>1, RotateBalanced, ZenonT(60)
    <2> QED BY <1>6, <2>9
  <1>17. Reds(r, E, Null, Null)
    <2>1. inner \notin Red(t2) /\ m \notin Red(t2)
      <3>1. inner \notin Red(t)
        BY <1>0, <1>1, <1>3, <1>2 DEF inner
      <3> QED BY <1>3, <1>5, <1>9, <3>1
    <2>2. Kid(t2, w, o) \notin Red(t2)
      <3>1. Kid(t, w, o) # o
        <4>1. Kid(t, w, o) # Null => Kid(t, w, o) # o
          BY <1>0, <1>1, ChildIs
        <4> QED BY <1>1, <4>1
      <3>2. Kid(t2, w, o) = Kid(t, w, o) /\ Kid(t, w, o) \notin Red(t)
        BY <1>0, <1>1, <1>5 DEF w
      <3> QED BY <1>5, <3>1, <3>2
    <2>3. \A y \in E, d \in Side : y \notin {o, m} /\ Kid(t2, d, y) # o =>
              (y \in Red(t2) /\ Kid(t2, d, y) \in Red(t2) => y = Null \/ Kid(t2, d, y) = Null)
      BY <1>0, <1>2, <1>5
    <2>4. m \in Red(t2) /\ o \in Red(t2) => m = Null \/ o = Null
      BY <2>1
    <2> QED BY <1>1, <1>6, <1>7, <1>8, <2>1, <2>2, <2>3, <2>4, RotateReds
  <1>18. RootBlack(r, Null)
    <2>1. Root(t) \notin Red(t)
      BY <1>0, ParentIs DEF RootBlack
    <2> QED BY <1>1, <1>5, <1>9, <2>1 DEF RootBlack
  <1>19. Kid(r, s, p) = x /\ Kid(r, w, p) = m /\ Kid(r, w, m) = o
    <2>1. /\ RotatedKid(t2, r, o, w, m, inner, p, p, s)
          /\ RotatedKid(t2, r, o, w, m, inner, p, p, w)
          /\ RotatedKid(t2, r, o, w, m, inner, p, m, w)
      BY <1>0, <1>1, <1>3, <1>9
    <2>2. SideOf(t2, p, o) = w
      <3>1. Kid(t2, w, p) = o
        BY <1>0, <1>1, <1>5
      <3>2. Kid(t2, w, p) # Null
        BY <1>1, <3>1
      <3>3. SideOf(t2, p, Kid(t2, w, p)) = w
        BY <1>0, <1>1, <1>7, <3>2, ChildIs
      <3> QED BY <3>1, <3>3
    <2>3. Kid(r, s, p) = Kid(t2, s, p)
      BY <1>1, <1>3, <2>1, <2>2 DEF RotatedKid
    <2>4. Kid(r, w, p) = m
      <3>1. Kid(t2, w, p) = o
        BY <1>0, <1>1, <1>5
      <3> QED BY <1>1, <1>3, <2>1, <3>1 DEF RotatedKid
    <2>5. Kid(r, w, m) = o
      BY <1>1, <1>3, <2>1 DEF RotatedKid
    <2> QED BY <1>0, <1>5, <2>3, <2>4, <2>5
  <1>20. x \notin Red(r) /\ m \notin Red(r) /\ o \in Red(r)
    BY <1>0, <1>1, <1>3, <1>5, <1>9
  <1>21. ErasePlace(r, x, p, s, E, X, M)
    BY <1>0, <1>9, <1>10, <1>16, <1>17, <1>18, <1>19, <1>20 DEF ErasePlace
  <1>22. SamePlaces(L, M)
    BY <1>11 DEF SamePlaces
  <1> QED BY <1>19, <1>20, <1>21, <1>22 DEF w

\* A node takes the colour of another.
Copy(t, o, p) == Paint(t, o, t.red[p])

\* What copying a colour assigns.
LEMMA CopyIs ==
    ASSUME NEW t, NEW o, NEW p, t \in Tree, o \in Node, p \in Node
    PROVE  /\ Copy(t, o, p) \in Tree
           /\ Root(Copy(t, o, p)) = Root(t)
           /\ \A z \in Node : Up(Copy(t, o, p), z) = Up(t, z)
           /\ \A e \in Side, z \in Node : Kid(Copy(t, o, p), e, z) = Kid(t, e, z)
           /\ o \in Red(Copy(t, o, p)) <=> p \in Red(t)
           /\ \A z : z # o => (z \in Red(Copy(t, o, p)) <=> z \in Red(t))
  <1>1. t.red[p] \in BOOLEAN /\ (p \in Red(t) <=> t.red[p])
    BY TreeType DEF Red
  <1>2. CASE t.red[p] = TRUE
    <2>1. Copy(t, o, p) = Redden(t, o)
      BY <1>2, Zenon DEF Copy, Redden
    <2>2. p \in Red(t)
      BY <1>1, <1>2
    <2> DEFINE r == Redden(t, o)
    <2>3. /\ r \in Tree /\ Root(r) = Root(t) /\ Red(r) = Red(t) \cup {o}
          /\ \A z \in Node : Up(r, z) = Up(t, z)
          /\ \A e \in Side, z \in Node : Kid(r, e, z) = Kid(t, e, z)
      BY ReddenIs
    <2> HIDE DEF r
    <2> QED BY <2>1, <2>2, <2>3 DEF r
  <1>3. CASE t.red[p] = FALSE
    <2>1. Copy(t, o, p) = Blacken(t, o)
      BY <1>3, Zenon DEF Copy, Blacken
    <2>2. p \notin Red(t)
      BY <1>1, <1>3
    <2> DEFINE r == Blacken(t, o)
    <2>3. /\ r \in Tree /\ Root(r) = Root(t) /\ Red(r) = Red(t) \ {o}
          /\ \A z \in Node : Up(r, z) = Up(t, z)
          /\ \A e \in Side, z \in Node : Kid(r, e, z) = Kid(t, e, z)
      BY BlackenIs
    <2> HIDE DEF r
    <2> QED BY <2>1, <2>2, <2>3 DEF r
  <1> QED BY <1>1, <1>2, <1>3

\* The sibling's far child is red: the sibling goes up, and no path is short.
LEMMA EraseFar ==
    ASSUME NEW t, NEW x, NEW p, NEW s, NEW E, NEW X, NEW L, NEW o, NEW f, NEW r,
           ErasePlace(t, x, p, s, E, X, L), o = Kid(t, Other(s), p), o \notin Red(t),
           f = Kid(t, Other(s), o), f \in Red(t),
           r = Rotate(Blacken(Blacken(Copy(t, o, p), p), f), p, s)
    PROVE  \E M : EraseState(r, Root(r), p, E, X, M) /\ SamePlaces(L, M)
  <1> DEFINE t1 == Copy(t, o, p)
             t2 == Blacken(t1, p)
             t3 == Blacken(t2, f)
             B == Black(L, p)
             M0 == Turned(L, p, o, s)
             M1 == WithBlack(M0, p, B - 1)
             M == WithBlack(M1, o, B)
             inner == Kid(t, s, o)
             q == Up(t, p)
  <1>0. /\ Shape(t, E, L) /\ p \in E /\ s \in Side /\ E \subseteq X /\ Clean(t, X)
        /\ t \in Tree /\ E \subseteq Node /\ Null \notin Node /\ L \in Labels
        /\ Balanced(t, E, L, p, s) /\ Joined(t, E, L) /\ Kid(t, s, p) = x /\ x \notin Red(t)
        /\ Reds(t, E, Null, Null) /\ RootBlack(t, Null) /\ Red(t) \subseteq Node
    BY SideIs, FieldsType DEF ErasePlace, Shape
  <1>1. /\ o \in E /\ o # Null /\ o # p /\ o # x /\ Up(t, o) = p /\ o # Root(t)
        /\ o # q /\ Kid(t, Other(s), p) = o
        /\ x \in E \cup {Null} /\ x # p
        /\ Other(s) \in Side /\ Other(s) # s /\ Other(Other(s)) = s
        /\ Height(t, L, x) \in Int /\ Height(t, L, x) >= 0 /\ Height(t, L, x) + 1 = B
        /\ Height(t, L, o) = B /\ B \in Int /\ p # Null
    BY <1>0, SiblingIs
  <1>2. \A y \in E, d \in Side : y \in Red(t) => Kid(t, d, y) \notin Red(t)
    BY <1>0 DEF Reds
  <1>3. /\ f \in E /\ f # Null /\ f # o /\ Up(t, f) = o /\ f # Root(t) /\ f # p
        /\ Kid(t, Other(s), o) = f /\ inner # f /\ f # x
    <2>1. f # Null
      BY <1>0
    <2>2. f \in E /\ f # o /\ Up(t, f) = o /\ f # Root(t) /\ f # p /\ Kid(t, Other(s), o) = f
      BY <1>0, <1>1, <2>1, ChildIs
    <2>3. inner # f
      <3>1. SideOf(t, o, Kid(t, Other(s), o)) = Other(s)
        BY <1>0, <1>1, <2>1, ChildIs
      <3>2. Kid(t, s, o) # Null => SideOf(t, o, Kid(t, s, o)) = s
        BY <1>0, <1>1, ChildIs
      <3> QED BY <1>1, <2>1, <3>1, <3>2
    <2> QED BY <1>0, <2>1, <2>2, <2>3
  <1>4. /\ t1 \in Tree /\ Root(t1) = Root(t)
        /\ \A z \in Node : Up(t1, z) = Up(t, z)
        /\ \A e \in Side, z \in Node : Kid(t1, e, z) = Kid(t, e, z)
        /\ o \in Red(t1) <=> p \in Red(t)
        /\ \A z : z # o => (z \in Red(t1) <=> z \in Red(t))
    BY <1>0, <1>1, CopyIs
  <1> HIDE DEF t1
  <1>5. /\ t2 \in Tree /\ Root(t2) = Root(t)
        /\ Red(t2) = Red(t1) \ {p} /\ \A z \in Node : Up(t2, z) = Up(t, z)
        /\ \A e \in Side, z \in Node : Kid(t2, e, z) = Kid(t, e, z)
    BY <1>0, <1>4, BlackenIs
  <1> HIDE DEF t2
  <1>6. /\ t3 \in Tree /\ Root(t3) = Root(t)
        /\ Red(t3) = Red(t2) \ {f} /\ \A z \in Node : Up(t3, z) = Up(t, z)
        /\ \A e \in Side, z \in Node : Kid(t3, e, z) = Kid(t, e, z)
    BY <1>0, <1>3, <1>5, BlackenIs
  <1>7. r = Rotate(t3, p, s)
    BY DEF t1, t2
  <1> HIDE DEF t3
  <1>8. /\ p \notin Red(t3) /\ f \notin Red(t3) /\ (o \in Red(t3) <=> p \in Red(t))
        /\ \A z : z \notin {o, p, f} => (z \in Red(t3) <=> z \in Red(t))
        /\ \A z : z # o /\ z \in Red(t3) => z \in Red(t)
    BY <1>1, <1>3, <1>4, <1>5, <1>6
  <1>9. Shape(t3, E, L)
    BY <1>0, <1>6, ShapeSame
  <1>10. Lifts(t3, p, s, o, inner, q)
    BY <1>0, <1>1, <1>6 DEF Lifts
  <1>11. /\ r \in Tree
         /\ Red(r) = Red(t3)
         /\ inner \in E \cup {Null} /\ inner # o /\ inner # p
         /\ Root(r) = IF q = Null THEN o ELSE Root(t)
         /\ q = Null <=> p = Root(t)
         /\ q # Null => q \in E /\ SideOf(t3, q, p) \in Side /\ Kid(t3, SideOf(t3, q, p), q) = p
         /\ p # q
         /\ \A y \in E, d \in Side : RotatedKid(t3, r, p, s, o, inner, q, y, d)
         /\ Clean(r, X)
    <2>1. Clean(t3, X)
      <3> SUFFICES ASSUME NEW y \in Node, y \notin X
                   PROVE  Up(t3, y) = Null /\ y \notin Red(t3) /\ \A d \in Side : Kid(t3, d, y) = Null
        BY DEF Clean
      <3> QED BY <1>0, <1>1, <1>6, <1>8 DEF Clean
    <2> QED BY <1>0, <1>1, <1>6, <1>7, <1>9, <1>10, <2>1, RotateKids
  <1>12. Shape(r, E, M0)
    <2>1. o = Kid(t3, Other(s), p) /\ o # Null
      BY <1>0, <1>1, <1>6
    <2> QED BY <1>0, <1>7, <1>9, <2>1, ShapeRotate
  <1>13. /\ M0 \in Labels
         /\ \A y \in Node : Pos(M0, y) = Pos(L, y) /\ Black(M0, y) = Black(L, y)
    BY <1>0, <1>1, TurnedIs
  <1> HIDE DEF M0, B
  <1>14. /\ M1 \in Labels
         /\ \A y \in Node : /\ Pos(M1, y) = Pos(M0, y)
                            /\ Black(M1, y) = IF y = p THEN B - 1 ELSE Black(M0, y)
         /\ \A d \in Side, y \in Node : Edge(M1, d, y) = Edge(M0, d, y)
    BY <1>1, <1>13, WithBlackIs
  <1> HIDE DEF M1
  <1>15. /\ M \in Labels
         /\ \A y \in Node : /\ Pos(M, y) = Pos(M1, y)
                            /\ Black(M, y) = IF y = o THEN B ELSE Black(M1, y)
         /\ \A d \in Side, y \in Node : Edge(M, d, y) = Edge(M1, d, y)
    BY <1>1, <1>14, WithBlackIs
  <1> HIDE DEF M, inner, q
  <1>16. Shape(r, E, M)
    <2>1. \A y \in E : Pos(M, y) = Pos(M0, y)
      BY <1>0, <1>14, <1>15
    <2>2. \A d \in Side, y \in E : Edge(M, d, y) = Edge(M0, d, y)
      BY <1>0, <1>14, <1>15
    <2> QED BY <1>11, <1>12, <1>15, <2>1, <2>2, ShapeSame
  <1>17. \A y \in E, d \in Side : /\ Black(L, y) \in Int /\ Black(L, y) >= 0
                                  /\ (y # p \/ d # s) => Height(t, L, Kid(t, d, y)) = Black(L, y)
    BY PlaceHeights
  <1>18. /\ Black(M, p) = B - 1 /\ Black(M, o) = B
         /\ \A y \in E : y # p /\ y # o => Black(M, y) = Black(L, y)
         /\ \A y \in E : Black(M, y) \in Int /\ Black(M, y) >= 0
    <2>1. Black(M, p) = B - 1 /\ Black(M, o) = B
      BY <1>0, <1>1, <1>14, <1>15
    <2>2. \A y \in E : y # p /\ y # o => Black(M, y) = Black(L, y)
      BY <1>0, <1>13, <1>14, <1>15
    <2>3. \A y \in E : Black(M, y) \in Int /\ Black(M, y) >= 0
      BY <1>1, <1>17, <2>1, <2>2
    <2> QED BY <2>1, <2>2, <2>3
  <1>19. \A c : c \in E \cup {Null} /\ c # p /\ c # o /\ c # f => Height(t3, M, c) = Height(t, L, c)
    <2> SUFFICES ASSUME NEW c, c \in E \cup {Null}, c # p, c # o, c # f
                 PROVE  Height(t3, M, c) = Height(t, L, c)
      OBVIOUS
    <2>1. c \in Red(t3) <=> c \in Red(t)
      BY <1>8
    <2>2. c # Null => Black(M, c) = Black(L, c)
      BY <1>18
    <2> QED BY <2>1, <2>2 DEF Height
  <1>20. /\ Black(L, o) = B - 1
         /\ Height(t3, M, o) = Height(t, L, p)
         /\ Height(t3, M, f) = B
         /\ Height(t3, M, p) = B
    <2>1. Black(L, o) = B - 1
      <3>1. Height(t, L, o) = Black(L, o) + 1
        BY <1>1, HeightIs
      <3> QED BY <1>1, <1>17, <3>1
    <2>2. Height(t3, M, o) = Height(t, L, p)
      <3>1. CASE p \in Red(t)
        <4>1. Height(t3, M, o) = Black(M, o) + 0 /\ Height(t, L, p) = B + 0
          BY <1>1, <1>8, <3>1, HeightIs DEF B
        <4> QED BY <1>18, <4>1
      <3>2. CASE p \notin Red(t)
        <4>1. Height(t3, M, o) = Black(M, o) + 1 /\ Height(t, L, p) = B + 1
          BY <1>1, <1>8, <3>2, HeightIs DEF B
        <4> QED BY <1>18, <4>1
      <3> QED BY <3>1, <3>2
    <2>3. Height(t3, M, f) = B
      <3>1. Height(t, L, f) = Black(L, o)
        BY <1>1, <1>3, <1>17
      <3>2. Height(t, L, f) = Black(L, f) + 0
        BY <1>3, HeightIs
      <3>3. Height(t3, M, f) = Black(M, f) + 1
        BY <1>3, <1>8, HeightIs
      <3>4. Black(M, f) = Black(L, f) /\ Black(L, f) \in Int
        BY <1>3, <1>17, <1>18
      <3> QED BY <1>1, <2>1, <3>1, <3>2, <3>3, <3>4
    <2>4. Height(t3, M, p) = B
      <3>1. Height(t3, M, p) = Black(M, p) + 1
        BY <1>1, <1>8, HeightIs
      <3> QED BY <1>1, <1>18, <3>1
    <2> QED BY <2>1, <2>2, <2>3, <2>4
  <1>21. Balanced(r, E, M, Null, "left")
    <2>2. \A y \in E, d \in Side : Short(y, d, Null, "left") = 0
      BY <1>0 DEF Short
    <2>3. Height(t3, M, inner) + Short(p, Other(s), Null, "left") = Black(M, p)
      <3>1. Height(t3, M, inner) = Height(t, L, inner)
        BY <1>3, <1>11, <1>19
      <3>2. Height(t, L, inner) = Black(L, o)
        BY <1>0, <1>1, <1>17 DEF inner
      <3> QED BY <1>0, <1>1, <1>18, <1>20, <2>2, <3>1, <3>2
    <2>4. Height(t3, M, Kid(t3, s, p)) + Short(p, s, Null, "left") = Black(M, p)
      <3>1. Kid(t3, s, p) = x
        BY <1>0, <1>6
      <3>2. Height(t3, M, x) = Height(t, L, x)
        BY <1>1, <1>3, <1>19
      <3> QED BY <1>0, <1>1, <1>18, <2>2, <3>1, <3>2
    <2>5. Height(t3, M, p) + Short(o, s, Null, "left") = Black(M, o)
      BY <1>0, <1>1, <1>18, <1>20, <2>2
    <2>6. Height(t3, M, Kid(t3, Other(s), o)) + Short(o, Other(s), Null, "left") = Black(M, o)
      <3>1. Kid(t3, Other(s), o) = f
        BY <1>0, <1>1, <1>3, <1>6
      <3> QED BY <1>0, <1>1, <1>18, <1>20, <2>2, <3>1
    <2>7. q # Null => Height(t3, M, o) + Short(q, SideOf(t3, q, p), Null, "left") = Black(M, q)
      <3> SUFFICES ASSUME q # Null
                   PROVE  Height(t3, M, o) + Short(q, SideOf(t3, q, p), Null, "left") = Black(M, q)
        OBVIOUS
      <3> DEFINE e == SideOf(t3, q, p)
      <3>1. q \in E /\ e \in Side /\ Kid(t, e, q) = p /\ q # p /\ q # o
        BY <1>0, <1>1, <1>6, <1>11
      <3> HIDE DEF e
      <3>2. Height(t, L, p) = Black(L, q)
        BY <1>17, <3>1
      <3>3. Black(M, q) = Black(L, q) /\ Black(L, q) \in Int
        BY <1>17, <1>18, <3>1
      <3>4. Short(q, e, Null, "left") = 0
        BY <2>2, <3>1
      <3> QED BY <1>20, <3>2, <3>3, <3>4 DEF e
    <2>8. ASSUME NEW y \in E, NEW d \in Side, y \notin {p, o}, Kid(t3, d, y) # p
          PROVE  Height(t3, M, Kid(t3, d, y)) + Short(y, d, Null, "left") = Black(M, y)
      <3> DEFINE c == Kid(t, d, y)
      <3>1. Kid(t3, d, y) = c /\ c \in E \cup {Null}
        BY <1>0, <1>6 DEF Joined
      <3>2. c # o
        BY <1>0, <1>1, <2>8, ChildIs
      <3>3. c # f
        BY <1>0, <1>3, <2>8, ChildIs
      <3>4. Height(t3, M, c) = Height(t, L, c)
        BY <1>19, <2>8, <3>1, <3>2, <3>3
      <3> QED BY <1>17, <1>18, <2>2, <2>8, <3>1, <3>4
    <2>9. Balanced(Rotate(t3, p, s), E, M, Null, "left")
      <3>1. p \in E /\ s \in Side /\ \A y \in E : Black(M, y) >= 0
        BY <1>0, <1>18
      <3> QED BY <1>9, <1>10, <2>3, <2>4, <2>5, <2>6, <2>7, <2>8, <3>1, RotateBalanced, ZenonT(60)
    <2> QED BY <1>7, <2>9
  <1>22. Reds(r, E, Null, Null)
    <2>1. Kid(t3, Other(s), o) \notin Red(t3)
      BY <1>0, <1>1, <1>3, <1>6, <1>8
    <2>2. q \in Red(t3) => o \notin Red(t3)
      <3> SUFFICES ASSUME q \in Red(t3), o \in Red(t3) PROVE FALSE
        OBVIOUS
      <3>1. q \in Red(t) /\ p \in Red(t)
        BY <1>1, <1>8
      <3>2. q \in E /\ \E d \in Side : Kid(t, d, q) = p
        <4>1. q # Null
          BY <1>0, <3>1
        <4> QED BY <1>0, <1>6, <1>11, <4>1
      <3> QED BY <1>2, <3>1, <3>2
    <2>3. \A y \in E, d \in Side : y \notin {p, o} /\ Kid(t3, d, y) # p =>
              (y \in Red(t3) /\ Kid(t3, d, y) \in Red(t3) => y = Null \/ Kid(t3, d, y) = Null)
      <3> SUFFICES ASSUME NEW y \in E, NEW d \in Side, y \notin {p, o},
                          y \in Red(t3), Kid(t3, d, y) \in Red(t3)
                   PROVE  FALSE
        OBVIOUS
      <3>1. Kid(t3, d, y) = Kid(t, d, y)
        BY <1>0, <1>6
      <3>2. Kid(t, d, y) # o
        BY <1>0, <1>1, ChildIs
      <3> QED BY <1>2, <1>8, <3>1, <3>2
    <2> QED BY <1>0, <1>7, <1>8, <1>9, <1>10, <2>1, <2>2, <2>3, RotateReds
  <1>23. RootBlack(r, Null)
    <2>1. Root(t) \notin Red(t)
      BY <1>0, ParentIs DEF RootBlack
    <2> SUFFICES Root(r) \notin Red(t3)
      BY <1>11 DEF RootBlack
    <2>2. CASE q = Null
      BY <1>8, <1>11, <2>1, <2>2
    <2>3. CASE q # Null
      BY <1>1, <1>8, <1>11, <2>1, <2>3
    <2> QED BY <2>2, <2>3
  <1>24. EraseState(r, Root(r), p, E, X, M)
    <2>1. Reds(r, E, Root(r), Root(r)) /\ RootBlack(r, Root(r))
      <3>1. \A y \in E : y # Null
        BY <1>0
      <3>2. Null \notin Red(r)
        BY <1>0, <1>11, FieldsType
      <3>3. \A y \in E, d \in Side : ~(y \in Red(r) /\ Kid(r, d, y) \in Red(r))
        BY <1>22, <3>1, <3>2 DEF Reds
      <3> QED BY <3>3 DEF Reds, RootBlack
    <2>2. Root(r) \in E \cup {Null}
      <3>1. Root(t) \in E
        BY <1>0, ParentIs
      <3> QED BY <1>1, <1>11, <3>1
    <2> QED BY <1>0, <1>11, <1>16, <1>21, <2>1, <2>2 DEF EraseState
  <1>25. SamePlaces(L, M)
    BY <1>13, <1>14, <1>15 DEF SamePlaces
  <1> QED BY <1>24, <1>25

-----------------------------------------------------------------------------
(* A pass of the loop of remove. *)

EraseOk(c, E, X, L) == EraseState(c.tree, c.node, c.parent, E, X, L)

\* At the head of a pass of erase_color the node has a parent and a sibling.
LEMMA EraseStart ==
    ASSUME NEW c, NEW E, NEW X, NEW L, NEW t, NEW x, NEW p, NEW s,
           t = c.tree, x = c.node, p = c.parent, s = SideOf(t, p, x),
           EraseOk(c, E, X, L), ~EraseDone(c)
    PROVE  ErasePlace(t, x, p, s, E, X, L)
  <1>1. EraseState(t, x, p, E, X, L) /\ ~IsRed(t, x) /\ x # Root(t)
    BY Zenon DEF EraseOk, EraseDone, Root
  <1>2. /\ Shape(t, E, L) /\ E \subseteq X /\ Clean(t, X) /\ x \in E \cup {Null} /\ E \subseteq Node
        /\ Reds(t, E, x, x) /\ RootBlack(t, x) /\ p \in E
    BY <1>1 DEF EraseState, Shape
  <1>3. PICK d \in Side : Kid(t, d, p) = x /\ Balanced(t, E, L, p, d)
    BY <1>1 DEF EraseState
  <1>4. x \notin Red(t)
    BY <1>1, <1>2, IsRedIs
  <1>5. Reds(t, E, Null, Null) /\ RootBlack(t, Null)
    BY <1>2, <1>4 DEF Reds, RootBlack
  <1>6. ErasePlace(t, x, p, d, E, X, L)
    BY <1>2, <1>3, <1>4, <1>5 DEF ErasePlace
  <1>7. s = d
    BY <1>6, SiblingIs
  <1> QED BY <1>6, <1>7

\* A red sibling is exchanged for a black one.
LEMMA SiblingBlackIs ==
    ASSUME NEW t, NEW x, NEW p, NEW s, NEW E, NEW X, NEW L, NEW r,
           ErasePlace(t, x, p, s, E, X, L), r = SiblingBlack(t, p, s)
    PROVE  \E M : /\ ErasePlace(r, x, p, s, E, X, M) /\ SamePlaces(L, M)
                  /\ Kid(r, Other(s), p) \notin Red(r)
                  /\ p \in Red(r) \/ Width(M, p) = Width(L, p)
  <1> DEFINE o == Kid(t, Other(s), p)
  <1>1. o \in Node
    BY SiblingIs
  <1>2. IsRed(t, o) <=> o \in Red(t)
    BY <1>1, IsRedIs
  <1>3. CASE o \in Red(t)
    <2>1. r = Rotate(Redden(Blacken(t, o), p), p, s)
      BY <1>2, <1>3, Zenon DEF SiblingBlack, Redden, Blacken, Kid
    <2> HIDE DEF o
    <2>2. \E M : /\ ErasePlace(r, x, p, s, E, X, M) /\ SamePlaces(L, M)
                 /\ Kid(r, Other(s), p) \notin Red(r) /\ p \in Red(r)
      BY <1>3, <2>1, EraseRed DEF o
    <2> QED BY <2>2
  <1>4. CASE o \notin Red(t)
    <2>1. r = t
      BY <1>2, <1>4, Zenon DEF SiblingBlack, Kid
    <2>2. SamePlaces(L, L)
      BY DEF SamePlaces
    <2> QED BY <1>4, <2>1, <2>2
  <1> QED BY <1>3, <1>4

\* A red near nephew is turned to be the far one.
LEMMA FarRedIs ==
    ASSUME NEW t, NEW x, NEW p, NEW s, NEW E, NEW X, NEW L, NEW o, NEW r,
           ErasePlace(t, x, p, s, E, X, L), o = Kid(t, Other(s), p), o \notin Red(t),
           NEW d \in Side, Kid(t, d, o) \in Red(t), r = FarRed(t, p, s)
    PROVE  \E M : /\ ErasePlace(r, x, p, s, E, X, M) /\ SamePlaces(L, M)
                  /\ Kid(r, Other(s), p) \notin Red(r)
                  /\ Kid(r, Other(s), Kid(r, Other(s), p)) \in Red(r)
  <1> DEFINE f == Kid(t, Other(s), o)
             m == Kid(t, s, o)
  <1>1. /\ o \in Node /\ s \in Side /\ Other(s) \in Side /\ t \in Tree
        /\ \A e \in Side : e = s \/ e = Other(s)
    BY SiblingIs, OtherIs DEF ErasePlace, Shape
  <1>2. f \in Node \cup {Null}
    BY <1>1, FieldsType
  <1>3. IsRed(t, f) <=> f \in Red(t)
    BY <1>2, IsRedIs
  <1>4. CASE f \in Red(t)
    <2>1. r = t
      BY <1>3, <1>4, Zenon DEF FarRed, Kid
    <2>2. SamePlaces(L, L)
      BY DEF SamePlaces
    <2> QED BY <1>4, <2>1, <2>2
  <1>5. CASE f \notin Red(t)
    <2>1. m \in Red(t)
      BY <1>1, <1>5
    <2>2. r = Rotate(Redden(Blacken(t, m), o), o, Other(s))
      BY <1>3, <1>5, Zenon DEF FarRed, Redden, Blacken, Kid
    <2> HIDE DEF f, m
    <2>3. \E M : /\ ErasePlace(r, x, p, s, E, X, M) /\ SamePlaces(L, M)
                 /\ Kid(r, Other(s), p) = m /\ m \notin Red(r)
                 /\ Kid(r, Other(s), m) = o /\ o \in Red(r)
      BY <1>5, <2>1, <2>2, EraseNear DEF f, m
    <2> QED BY <2>3
  <1> QED BY <1>4, <1>5

\* With a red far nephew the missing black node is made up for.
LEMMA SiblingUpIs ==
    ASSUME NEW t, NEW x, NEW p, NEW s, NEW E, NEW X, NEW L, NEW o, NEW r,
           ErasePlace(t, x, p, s, E, X, L), o = Kid(t, Other(s), p), o \notin Red(t),
           Kid(t, Other(s), o) \in Red(t), r = SiblingUp(t, p, s)
    PROVE  \E M : EraseState(r, Root(r), p, E, X, M) /\ SamePlaces(L, M)
  <1> DEFINE f == Kid(t, Other(s), o)
  <1>1. r = Rotate(Blacken(Blacken(Copy(t, o, p), p), f), p, s)
    BY Zenon DEF SiblingUp, Blacken, Copy, Kid
  <1> HIDE DEF f
  <1> QED BY <1>1, EraseFar DEF f

\* One pass ends the loop, or the parent's subtree grows.
LEMMA ErasePassIs ==
    ASSUME NEW c, NEW E, NEW X, NEW L, EraseOk(c, E, X, L), ~EraseDone(c)
    PROVE  /\ c.parent \in E
           /\ \E M : /\ EraseOk(ErasePass(c), E, X, M) /\ SamePlaces(L, M)
                     /\ \/ EraseDone(ErasePass(c))
                        \/ /\ ErasePass(c).parent \in E
                           /\ Width(M, ErasePass(c).parent) > Width(L, c.parent)
                           /\ Width(M, ErasePass(c).parent) \in Int /\ Width(L, c.parent) \in Int
  <1> DEFINE x == c.node
             p == c.parent
             s == SideOf(c.tree, p, x)
             t == SiblingBlack(c.tree, p, s)
             o == Kid(t, Other(s), p)
             up == SiblingUp(FarRed(t, p, s), p, s)
             low == ~IsRed(t, Kid(t, "left", o)) /\ ~IsRed(t, Kid(t, "right", o))
             v == Redden(t, o)
             q == Up(t, p)
  <1>1. ErasePlace(c.tree, x, p, s, E, X, L)
    BY EraseStart
  <1>2. PICK K : /\ ErasePlace(t, x, p, s, E, X, K) /\ SamePlaces(L, K)
                 /\ Kid(t, Other(s), p) \notin Red(t)
                 /\ p \in Red(t) \/ Width(K, p) = Width(L, p)
    BY <1>1, SiblingBlackIs
  <1>3. ErasePass(c) = IF low THEN [tree |-> v, node |-> p, parent |-> q]
                       ELSE [tree |-> up, node |-> up.root, parent |-> p]
    BY Zenon DEF ErasePass, Kid, Redden, Up
  <1> HIDE DEF x, p, s, t, up
  <1>4. /\ p \in E /\ o \in Node /\ t \in Tree /\ E \subseteq Node /\ Null \notin Node
        /\ \A d \in Side : Kid(t, d, o) \in Node \cup {Null}
    <2>1. o \in E /\ p \in E /\ E \subseteq Node /\ Null \notin Node /\ t \in Tree
      BY <1>2, SiblingIs DEF ErasePlace, Shape
    <2> QED BY <2>1, FieldsType
  <1>5. low <=> \A d \in Side : Kid(t, d, o) \notin Red(t)
    BY <1>4, IsRedIs, SideIs
  <1>6. Width(L, p) \in Int
    BY <1>1, WidthBound DEF ErasePlace
  <1> HIDE DEF low
  <1>7. CASE low
    <2>1. PICK M : /\ EraseState(v, p, q, E, X, M) /\ SamePlaces(K, M)
                   /\ q = Null => p = Root(v)
                   /\ q # Null => /\ Width(M, q) > Width(K, p)
                                  /\ Width(M, q) \in Int /\ Width(K, p) \in Int
                   /\ p \in Red(v) <=> p \in Red(t)
      <3> HIDE DEF o, v, q
      <3>1. o = Kid(t, Other(s), p) /\ v = Redden(t, o) /\ q = Up(t, p)
        BY DEF o, v, q
      <3>2. o \notin Red(t) /\ \A d \in Side : Kid(t, d, o) \notin Red(t)
        BY <1>2, <1>5, <1>7, <3>1
      <3> QED BY <1>2, <3>1, <3>2, EraseSink
    <2> DEFINE r == ErasePass(c)
    <2>2. r.tree = v /\ r.node = p /\ r.parent = q
      BY <1>3, <1>7
    <2> HIDE DEF r, v, q, o
    <2>3. EraseOk(r, E, X, M) /\ SamePlaces(L, M)
      BY <1>2, <2>1, <2>2 DEF EraseOk, SamePlaces
    <2>4. EraseDone(r) \/ (q \in E /\ Width(M, q) > Width(L, p) /\ Width(M, q) \in Int)
      <3>1. CASE p \in Red(t)
        <4>1. IsRed(v, p)
          BY <1>4, <2>1, <3>1, IsRedIs
        <4> QED BY <2>2, <4>1 DEF EraseDone
      <3>2. CASE p \notin Red(t) /\ q = Null
        BY <2>1, <2>2, <3>2 DEF EraseDone, Root
      <3>3. CASE p \notin Red(t) /\ q # Null
        <4>1. q \in E
          BY <2>1, <3>3 DEF EraseState
        <4> QED BY <1>2, <2>1, <3>3, <4>1
      <3> QED BY <3>1, <3>2, <3>3
    <2>5. EraseDone(r) \/ (r.parent \in E /\ Width(M, r.parent) > Width(L, p) /\ Width(M, r.parent) \in Int)
      BY <2>2, <2>4
    <2> QED BY <1>4, <1>6, <2>3, <2>5 DEF r, p
  <1>8. CASE ~low
    <2> DEFINE w == FarRed(t, p, s)
               r == ErasePass(c)
    <2>1. PICK d \in Side : Kid(t, d, o) \in Red(t)
      BY <1>5, <1>8
    <2>2. PICK J : /\ ErasePlace(w, x, p, s, E, X, J) /\ SamePlaces(K, J)
                   /\ Kid(w, Other(s), p) \notin Red(w)
                   /\ Kid(w, Other(s), Kid(w, Other(s), p)) \in Red(w)
      <3> HIDE DEF o, w
      <3>1. o = Kid(t, Other(s), p) /\ w = FarRed(t, p, s)
        BY DEF o, w
      <3> QED BY <1>2, <2>1, <3>1, FarRedIs
    <2>3. up = SiblingUp(w, p, s)
      BY DEF up
    <2> HIDE DEF w, o
    <2>4. PICK M : EraseState(up, Root(up), p, E, X, M) /\ SamePlaces(J, M)
      BY <2>2, <2>3, SiblingUpIs
    <2>5. r.tree = up /\ r.node = Root(up) /\ r.parent = p
      <3>1. r = [tree |-> up, node |-> Root(up), parent |-> p]
        BY <1>3, <1>8, Zenon DEF Root
      <3> QED BY <3>1
    <2> HIDE DEF r
    <2>6. EraseOk(r, E, X, M) /\ SamePlaces(L, M)
      BY <1>2, <2>2, <2>4, <2>5 DEF EraseOk, SamePlaces
    <2>7. EraseDone(r)
      BY <2>5 DEF EraseDone, Root
    <2> QED BY <1>4, <2>6, <2>7 DEF r, p
  <1> QED BY <1>7, <1>8

-----------------------------------------------------------------------------
(* The loop of remove. *)

\* A red-black tree of the elements E, where those of X may have old links.
Repaired(t, E, X, L) ==
    /\ Shape(t, E, L) /\ Balanced(t, E, L, Null, "left") /\ Reds(t, E, Null, Null)
    /\ RootBlack(t, Null) /\ Clean(t, X) /\ E \subseteq X

\* When the loop is left, painting the node black repairs the tree.
LEMMA EraseSettled ==
    ASSUME NEW r, NEW E, NEW X, NEW L, NEW u, NEW x, EraseOk(r, E, X, L), EraseDone(r),
           u = r.tree, x = r.node
    PROVE  Repaired(Blacken(u, x), E, X, L)
  <1> DEFINE p == r.parent
             v == Blacken(u, x)
  <1>1. /\ EraseState(u, x, p, E, X, L)
        /\ IsRed(u, x) \/ x = Root(u)
    BY Zenon DEF EraseOk, EraseDone, Root
  <1> HIDE DEF p
  <1>2. /\ Shape(u, E, L) /\ u \in Tree /\ E \subseteq Node /\ Null \notin Node
        /\ x \in E \cup {Null} /\ p \in E \cup {Null} /\ L \in Labels
        /\ Reds(u, E, x, x) /\ RootBlack(u, x) /\ Clean(u, X) /\ E \subseteq X
    BY <1>1, SideIs DEF EraseState, Shape
  <1>3. /\ v \in Tree /\ Root(v) = Root(u)
        /\ \A z \in Node : Up(v, z) = Up(u, z)
        /\ Red(v) = Red(u) \ {x}
        /\ \A e \in Side, z \in Node : Kid(v, e, z) = Kid(u, e, z)
    BY <1>2, BlackenIs
  <1> HIDE DEF v
  <1>4. Shape(v, E, L)
    BY <1>2, <1>3, ShapeSame
  <1>5. \A y \in E, d \in Side : /\ Kid(u, d, y) \in E \cup {Null} /\ y \in Node
                                 /\ Kid(u, d, y) # Null => /\ Kid(u, d, y) # Root(u)
                                                            /\ Up(u, Kid(u, d, y)) = y
                                                            /\ SideOf(u, y, Kid(u, d, y)) = d
    <2>1. \A y \in E, d \in Side : Kid(u, d, y) # Null => /\ Kid(u, d, y) # Root(u)
                                                            /\ Up(u, Kid(u, d, y)) = y
                                                            /\ SideOf(u, y, Kid(u, d, y)) = d
      BY <1>2, ChildIs
    <2>2. \A y \in E, d \in Side : Kid(u, d, y) \in E \cup {Null}
      BY <1>2 DEF Shape, Joined
    <2> QED BY <1>2, <2>1, <2>2
  <1>6. Balanced(v, E, L, Null, "left")
    <2>1. CASE x = Root(u)
      <3>1. Balanced(u, E, L, Null, "left")
        <4>1. ASSUME p \in E, NEW s \in Side, Kid(u, s, p) = x PROVE FALSE
          <5>1. CASE x = Null
            BY <1>2, <2>1, <4>1, <5>1 DEF Shape, Rooted
          <5>2. CASE x # Null
            BY <1>5, <2>1, <4>1, <5>2
          <5> QED BY <5>1, <5>2
        <4> QED BY <1>1, <4>1 DEF EraseState
      <3> SUFFICES ASSUME NEW y \in E, NEW d \in Side
                   PROVE  Height(v, L, Kid(v, d, y)) = Height(u, L, Kid(u, d, y))
        BY <3>1 DEF Balanced
      <3>2. Kid(v, d, y) = Kid(u, d, y) /\ (Kid(u, d, y) = Null \/ Kid(u, d, y) # x)
        BY <1>3, <1>5, <2>1
      <3> QED BY <1>3, <3>2 DEF Height
    <2>2. CASE x # Root(u)
      <3>1. x \in Red(u) /\ x # Null /\ x \in Node
        <4>1. IsRed(u, x)
          BY <1>1, <2>2
        <4>2. x # Null
          BY <4>1 DEF IsRed
        <4> QED BY <1>2, <4>1, <4>2, IsRedIs
      <3>2. PICK s \in Side : p \in E /\ Kid(u, s, p) = x /\ Balanced(u, E, L, p, s)
        BY <1>1, <2>2 DEF EraseState
      <3> SUFFICES ASSUME NEW y \in E, NEW d \in Side
                   PROVE  Height(v, L, Kid(v, d, y)) + Short(y, d, Null, "left")
                            = Height(u, L, Kid(u, d, y)) + Short(y, d, p, s)
        BY <3>2 DEF Balanced
      <3>3. Kid(v, d, y) = Kid(u, d, y)
        BY <1>3, <1>5
      <3>4. Short(y, d, Null, "left") = 0
        BY <1>2 DEF Short
      <3>5. Height(u, L, Kid(u, d, y)) \in Int
        BY <1>2, <3>2, ShortIs
      <3>6. CASE Kid(u, d, y) = x
        <4>1. y = p /\ d = s
          BY <1>5, <3>1, <3>2, <3>6
        <4>2. Short(y, d, p, s) = 1
          BY <4>1 DEF Short
        <4>3. Height(v, L, x) = Black(L, x) + 1 /\ Height(u, L, x) = Black(L, x) + 0
          BY <1>3, <3>1 DEF Height
        <4>4. Black(L, x) \in Int
          BY <1>2, <3>1, LabelType
        <4> QED BY <3>3, <3>4, <3>6, <4>2, <4>3, <4>4
      <3>7. CASE Kid(u, d, y) # x
        <4>1. ~(y = p /\ d = s)
          BY <3>2, <3>7
        <4>2. Short(y, d, p, s) = 0
          BY <4>1 DEF Short
        <4>3. Height(v, L, Kid(u, d, y)) = Height(u, L, Kid(u, d, y))
          BY <1>3, <3>7 DEF Height
        <4> QED BY <3>3, <3>4, <3>5, <4>2, <4>3
      <3> QED BY <3>6, <3>7
    <2> QED BY <2>1, <2>2
  <1>7. Reds(v, E, Null, Null)
    <2> SUFFICES ASSUME NEW y \in E, NEW d \in Side, y \in Red(v), Kid(v, d, y) \in Red(v)
                 PROVE  FALSE
      BY DEF Reds
    <2>1. y \in Red(u) /\ Kid(u, d, y) \in Red(u) /\ y # x /\ Kid(u, d, y) # x
      BY <1>2, <1>3
    <2> QED BY <1>2, <2>1 DEF Reds
  <1>8. RootBlack(v, Null)
    BY <1>2, <1>3 DEF RootBlack
  <1>9. Clean(v, X)
    <2> SUFFICES ASSUME NEW y \in Node, y \notin X
                 PROVE  Up(v, y) = Null /\ y \notin Red(v) /\ \A d \in Side : Kid(v, d, y) = Null
      BY DEF Clean
    <2> QED BY <1>2, <1>3 DEF Clean
  <1> QED BY <1>2, <1>4, <1>6, <1>7, <1>8, <1>9 DEF Repaired, v

\* The passes of erase_color, as EraseColor counts them.
EraseAfterPass(tree0, node0, parent0) ==
    LET after[i \in 0..Passes] ==
            IF i = 0 THEN [tree |-> tree0, node |-> node0, parent |-> parent0]
            ELSE LET c == after[i - 1] IN IF EraseDone(c) THEN c ELSE ErasePass(c)
    IN  after

\* However many passes are made, what EraseOk says remains.
LEMMA ErasePasses ==
    ASSUME NEW t, NEW n, NEW p, NEW E, NEW X, NEW L, EraseState(t, n, p, E, X, L)
    PROVE  \E f : /\ f = EraseAfterPass(t, n, p)
                  /\ f[0] = [tree |-> t, node |-> n, parent |-> p]
                  /\ \A i \in 1..Passes :
                        /\ \E M : EraseOk(f[i - 1], E, X, M) /\ SamePlaces(L, M)
                        /\ f[i] = IF EraseDone(f[i - 1]) THEN f[i - 1] ELSE ErasePass(f[i - 1])
                  /\ \A i \in 0..Passes : \E M : EraseOk(f[i], E, X, M) /\ SamePlaces(L, M)
  <1> DEFINE Ok(c) == \E M : EraseOk(c, E, X, M) /\ SamePlaces(L, M)
             V == {c \in [tree : Tree, node : Link, parent : Link] : Ok(c)}
             Go(c) == IF EraseDone(c) THEN c ELSE ErasePass(c)
             G == [c \in V |-> Go(c)]
             b == [tree |-> t, node |-> n, parent |-> p]
  <1>1. Passes \in Nat
    BY Places DEF EraseState, Passes
  <1>2. b \in V
    <2>1. b.tree = t /\ b.node = n /\ b.parent = p /\ t \in Tree /\ n \in Link /\ p \in Link
      BY DEF EraseState, Shape, Link
    <2>2. SamePlaces(L, L)
      BY DEF SamePlaces
    <2>3. EraseOk(b, E, X, L)
      BY <2>1 DEF EraseOk
    <2> QED BY <2>1, <2>2, <2>3
  <1>3. \A c \in V : Go(c) \in V
    <2> SUFFICES ASSUME NEW c \in V, ~EraseDone(c) PROVE ErasePass(c) \in V
      OBVIOUS
    <2>1. PICK M : EraseOk(c, E, X, M) /\ SamePlaces(L, M)
      OBVIOUS
    <2>2. PICK K : EraseOk(ErasePass(c), E, X, K) /\ SamePlaces(M, K)
      BY <2>1, ErasePassIs
    <2>3. SamePlaces(L, K)
      BY <2>1, <2>2 DEF SamePlaces
    <2>4. /\ ErasePass(c).tree \in Tree /\ ErasePass(c).node \in Link
          /\ ErasePass(c).parent \in Link
      BY <2>2 DEF EraseOk, EraseState, Shape, Link
    <2>5. \E x, y, z : ErasePass(c) = [tree |-> x, node |-> y, parent |-> z]
      BY Zenon DEF ErasePass
    <2>6. ErasePass(c) \in [tree : Tree, node : Link, parent : Link]
      BY <2>4, <2>5
    <2> QED BY <2>2, <2>3, <2>6
  <1>4. G \in [V -> V]
    BY <1>3
  <1>5. \A c \in V : G[c] = Go(c)
    OBVIOUS
  <1>6. \A c \in V : Ok(c)
    OBVIOUS
  <1> HIDE DEF G, V
  <1>7. PICK f : Iterates(f, V, G, b, Passes)
    <2> HIDE DEF b
    <2> QED BY <1>1, <1>2, <1>4, Iterate
  <1>8. \A i \in 1..Passes : f[i - 1] \in V /\ f[i] = Go(f[i - 1])
    BY <1>1, <1>5, <1>7 DEF Iterates
  <1> DEFINE h == [i \in 0..Passes |->
                     IF i = 0 THEN [tree |-> t, node |-> n, parent |-> p]
                     ELSE LET c == f[i - 1] IN IF EraseDone(c) THEN c ELSE ErasePass(c)]
  <1>9. f = h
    <2>1. \A i \in 0..Passes : f[i] = h[i]
      BY <1>1, <1>7, <1>8 DEF Iterates
    <2>2. f = [i \in 0..Passes |-> f[i]]
      BY <1>7 DEF Iterates
    <2> QED BY <2>1, <2>2
  <1>10. \A g1 : g1 = [i \in 0..Passes |->
                     IF i = 0 THEN [tree |-> t, node |-> n, parent |-> p]
                     ELSE LET c == g1[i - 1] IN IF EraseDone(c) THEN c ELSE ErasePass(c)]
                 => g1 = f
    <2> SUFFICES ASSUME NEW g1, g1 = [i \in 0..Passes |->
                     IF i = 0 THEN [tree |-> t, node |-> n, parent |-> p]
                     ELSE LET c == g1[i - 1] IN IF EraseDone(c) THEN c ELSE ErasePass(c)]
                 PROVE  g1 = f
      OBVIOUS
    <2> DEFINE S == {i \in Nat : i <= Passes => g1[i] = f[i]}
    <2>1. 0 \in S
      BY <1>1, <1>7 DEF Iterates
    <2>2. ASSUME NEW i \in 0..(Passes - 1), i \in S PROVE i + 1 \in S
      <3>1. i + 1 \in 0..Passes /\ i + 1 # 0 /\ (i + 1) - 1 = i /\ i + 1 \in 1..Passes /\ i + 1 \in Nat
        BY <1>1
      <3>2. g1[i + 1] = Go(g1[i])
        BY <3>1
      <3>3. f[i + 1] = Go(f[i]) /\ g1[i] = f[i]
        BY <1>1, <1>8, <2>2, <3>1
      <3> QED BY <3>1, <3>2, <3>3
    <2> HIDE DEF S
    <2>3. \A i \in 0..Passes : i \in S
      BY <1>1, <2>1, <2>2, IntervalInduction
    <2>4. \A i \in 0..Passes : g1[i] = f[i]
      BY <1>1, <2>3 DEF S
    <2>5. g1 = [i \in 0..Passes |-> g1[i]]
      OBVIOUS
    <2>6. f = [i \in 0..Passes |-> f[i]]
      BY <1>7 DEF Iterates
    <2> QED BY <2>4, <2>5, <2>6
  <1>11. f = EraseAfterPass(t, n, p)
    BY <1>9, <1>10, Zenon DEF EraseAfterPass
  <1> QED BY <1>6, <1>7, <1>8, <1>11 DEF Iterates

\* erase_color leaves a red-black tree of the same order.
LEMMA EraseColorIs ==
    ASSUME NEW t, NEW n, NEW p, NEW E, NEW X, NEW L, EraseState(t, n, p, E, X, L)
    PROVE  \E M : Repaired(EraseColor(t, n, p), E, X, M) /\ SamePlaces(L, M)
  <1>1. PICK f : /\ f = EraseAfterPass(t, n, p)
                 /\ f[0] = [tree |-> t, node |-> n, parent |-> p]
                 /\ \A i \in 1..Passes :
                        /\ \E M : EraseOk(f[i - 1], E, X, M) /\ SamePlaces(L, M)
                        /\ f[i] = IF EraseDone(f[i - 1]) THEN f[i - 1] ELSE ErasePass(f[i - 1])
                 /\ \A i \in 0..Passes : \E M : EraseOk(f[i], E, X, M) /\ SamePlaces(L, M)
    BY ErasePasses
  <1>2. Passes \in Nat
    BY Places DEF EraseState, Passes
  <1> DEFINE High(i, M) == /\ EraseOk(f[i], E, X, M) /\ SamePlaces(L, M)
                           /\ EraseDone(f[i]) \/ (f[i].parent \in E /\ Width(M, f[i].parent) >= i)
             S == {i \in Nat : i <= Passes => \E M : High(i, M)}
  <1>3. 0 \in S
    <2>1. PICK M : EraseOk(f[0], E, X, M) /\ SamePlaces(L, M)
      BY <1>1, <1>2
    <2>2. ASSUME ~EraseDone(f[0]) PROVE f[0].parent \in E /\ Width(M, f[0].parent) >= 0
      <3>1. f[0].parent \in E
        BY <2>1, <2>2, ErasePassIs
      <3> QED BY <2>1, <3>1, WidthBound DEF EraseOk, EraseState
    <2> QED BY <2>1, <2>2
  <1>4. ASSUME NEW i \in 0..(Passes - 1), i \in S PROVE i + 1 \in S
    <2>1. i \in Nat /\ i <= Passes /\ i + 1 \in 1..Passes /\ (i + 1) - 1 = i
      BY <1>2
    <2>2. PICK M : High(i, M)
      BY <1>4, <2>1
    <2>3. f[i + 1] = IF EraseDone(f[i]) THEN f[i] ELSE ErasePass(f[i])
      BY <1>1, <2>1
    <2>4. CASE EraseDone(f[i])
      BY <2>1, <2>2, <2>3, <2>4
    <2>5. CASE ~EraseDone(f[i])
      <3>1. PICK K : /\ EraseOk(ErasePass(f[i]), E, X, K) /\ SamePlaces(M, K)
                     /\ \/ EraseDone(ErasePass(f[i]))
                        \/ /\ ErasePass(f[i]).parent \in E
                           /\ Width(K, ErasePass(f[i]).parent) > Width(M, f[i].parent)
                           /\ Width(K, ErasePass(f[i]).parent) \in Int
                           /\ Width(M, f[i].parent) \in Int
        BY <2>2, <2>5, ErasePassIs
      <3>2. SamePlaces(L, K)
        BY <2>2, <3>1 DEF SamePlaces
      <3>3. f[i].parent \in E /\ Width(M, f[i].parent) >= i
        BY <2>2, <2>5
      <3>4. f[i + 1] = ErasePass(f[i])
        BY <2>3, <2>5
      <3>5. EraseDone(f[i + 1]) \/ (f[i + 1].parent \in E /\ Width(K, f[i + 1].parent) >= i + 1)
        BY <2>1, <3>1, <3>3, <3>4
      <3>6. High(i + 1, K)
        BY <3>1, <3>2, <3>4, <3>5
      <3> QED BY <2>1, <3>6
    <2> QED BY <2>4, <2>5
  <1> HIDE DEF S
  <1>5. Passes \in S
    BY <1>2, <1>3, <1>4, IntervalInduction
  <1> DEFINE r == f[Passes]
  <1>6. PICK M : High(Passes, M)
    BY <1>2, <1>5 DEF S
  <1>7. EraseDone(r)
    <2> SUFFICES ASSUME ~EraseDone(r) PROVE FALSE
      OBVIOUS
    <2>1. Width(M, r.parent) < Passes /\ Width(M, r.parent) \in Nat
      BY <1>6, WidthBound DEF EraseOk, EraseState
    <2> QED BY <1>2, <1>6, <2>1
  <1>8. EraseColor(t, n, p) = Blacken(r.tree, r.node)
    BY <1>1, Zenon DEF EraseColor, EraseAfterPass, Blacken
  <1>9. EraseState(r.tree, r.node, r.parent, E, X, M) /\ EraseOk(r, E, X, M)
    BY <1>6 DEF EraseOk
  <1> HIDE DEF r
  <1>10. Repaired(Blacken(r.tree, r.node), E, X, M)
    BY <1>7, <1>9, EraseSettled
  <1> QED BY <1>6, <1>8, <1>10

-----------------------------------------------------------------------------
(* Walks that go on from x to G[x] until G stands still. *)

Descends(V, G, m, K) ==
    /\ G \in [V -> V] /\ K \in Nat /\ m \in [V -> 0..K]
    /\ \A x \in V : G[x] = x \/ m[G[x]] < m[x]

\* F follows G to where it stays.
Walk(F, V, G) == F \in [V -> V] /\ \A x \in V : F[x] = IF G[x] = x THEN x ELSE F[G[x]]

\* Where G descends there is such an F, although no recursion is known to end.
LEMMA WalkExists ==
    ASSUME NEW V, NEW G, NEW m, NEW K, Descends(V, G, m, K)
    PROVE  \E F : Walk(F, V, G)
  <1>1. /\ G \in [V -> V] /\ K \in Nat
        /\ \A x \in V : G[x] \in V /\ m[x] \in Int /\ 0 <= m[x] /\ m[x] <= K
        /\ \A x \in V : G[x] = x \/ m[G[x]] < m[x]
    BY DEF Descends
  <1> DEFINE Upto(F, k) == /\ F \in [V -> V]
                           /\ \A x \in V : m[x] <= k => F[x] = IF G[x] = x THEN x ELSE F[G[x]]
             S == {k \in Nat : \E F : Upto(F, k)}
  <1>2. 0 \in S
    <2> DEFINE F == [x \in V |-> x]
    <2>1. ASSUME NEW x \in V, m[x] <= 0 PROVE G[x] = x
      BY <1>1, <2>1
    <2>2. Upto(F, 0)
      BY <2>1
    <2> QED BY <2>2
  <1>3. ASSUME NEW k \in 0..(K - 1), k \in S PROVE k + 1 \in S
    <2>1. PICK F : Upto(F, k)
      BY <1>3
    <2> DEFINE J == [x \in V |-> IF m[x] <= k THEN F[x] ELSE IF G[x] = x THEN x ELSE F[G[x]]]
    <2>2. J \in [V -> V]
      BY <1>1, <2>1
    <2>3. \A x \in V : J[x] = IF m[x] <= k THEN F[x] ELSE IF G[x] = x THEN x ELSE F[G[x]]
      OBVIOUS
    <2> HIDE DEF J
    <2>4. ASSUME NEW x \in V, m[x] <= k + 1 PROVE J[x] = IF G[x] = x THEN x ELSE J[G[x]]
      <3>1. CASE G[x] = x
        BY <1>1, <2>1, <2>3, <3>1
      <3>2. CASE G[x] # x
        <4>1. m[G[x]] <= k /\ G[x] \in V
          BY <1>1, <1>3, <2>4, <3>2
        <4>2. J[G[x]] = F[G[x]]
          BY <2>3, <4>1
        <4> QED BY <1>1, <2>1, <2>3, <3>2, <4>2
      <3> QED BY <3>1, <3>2
    <2>5. Upto(J, k + 1)
      BY <2>2, <2>4
    <2>6. k + 1 \in Nat
      BY <1>1
    <2> QED BY <2>5, <2>6
  <1> HIDE DEF S
  <1>4. K \in S
    BY <1>1, <1>2, <1>3, IntervalInduction
  <1>5. PICK F : Upto(F, K)
    BY <1>4 DEF S
  <1>6. Walk(F, V, G)
    BY <1>1, <1>5 DEF Walk
  <1> QED BY <1>6

\* A walk ends where G stands still, and in every closed set it began in.
LEMMA WalkEnds ==
    ASSUME NEW V, NEW G, NEW m, NEW K, NEW F, NEW C, Descends(V, G, m, K), Walk(F, V, G),
           C \subseteq V, \A x \in C : G[x] \in C
    PROVE  \A x \in C : F[x] \in C /\ G[F[x]] = F[x]
  <1>1. /\ K \in Nat
        /\ \A x \in V : G[x] \in V /\ m[x] \in Int /\ 0 <= m[x] /\ m[x] <= K
        /\ \A x \in V : G[x] = x \/ m[G[x]] < m[x]
        /\ \A x \in V : F[x] = IF G[x] = x THEN x ELSE F[G[x]]
    BY DEF Descends, Walk
  <1> DEFINE Good(x) == F[x] \in C /\ G[F[x]] = F[x]
             S == {k \in Nat : \A x \in C : m[x] <= k => Good(x)}
  <1>2. 0 \in S
    <2>1. ASSUME NEW x \in C, m[x] <= 0 PROVE Good(x)
      <3>1. G[x] = x
        BY <1>1, <2>1
      <3> QED BY <1>1, <3>1
    <2> QED BY <2>1
  <1>3. ASSUME NEW k \in 0..(K - 1), k \in S PROVE k + 1 \in S
    <2>1. ASSUME NEW x \in C, m[x] <= k + 1 PROVE Good(x)
      <3>1. CASE G[x] = x
        BY <1>1, <3>1
      <3>2. CASE G[x] # x
        <4>1. m[G[x]] <= k /\ G[x] \in C
          BY <1>1, <1>3, <2>1, <3>2
        <4>2. Good(G[x])
          BY <1>3, <4>1
        <4> QED BY <1>1, <3>2, <4>2
      <3> QED BY <3>1, <3>2
    <2> QED BY <1>1, <2>1
  <1> HIDE DEF S
  <1>4. K \in S
    BY <1>1, <1>2, <1>3, IntervalInduction
  <1>5. \A x \in C : Good(x)
    BY <1>1, <1>4 DEF S
  <1> QED BY <1>5

\* What a function that follows the walk has at x, it has at its end.
LEMMA WalkValue ==
    ASSUME NEW V, NEW G, NEW m, NEW K, NEW F, NEW H, NEW R, Descends(V, G, m, K), Walk(F, V, G),
           \A x \in V : H[x] = IF G[x] = x THEN R[x] ELSE H[G[x]]
    PROVE  \A x \in V : H[x] = R[F[x]]
  <1>1. /\ K \in Nat
        /\ \A x \in V : G[x] \in V /\ m[x] \in Int /\ 0 <= m[x] /\ m[x] <= K
        /\ \A x \in V : G[x] = x \/ m[G[x]] < m[x]
        /\ \A x \in V : F[x] = IF G[x] = x THEN x ELSE F[G[x]]
    BY DEF Descends, Walk
  <1> DEFINE S == {k \in Nat : \A x \in V : m[x] <= k => H[x] = R[F[x]]}
  <1>2. 0 \in S
    <2>1. ASSUME NEW x \in V, m[x] <= 0 PROVE H[x] = R[F[x]]
      <3>1. G[x] = x
        BY <1>1, <2>1
      <3> QED BY <1>1, <3>1
    <2> QED BY <2>1
  <1>3. ASSUME NEW k \in 0..(K - 1), k \in S PROVE k + 1 \in S
    <2>1. ASSUME NEW x \in V, m[x] <= k + 1 PROVE H[x] = R[F[x]]
      <3>1. CASE G[x] = x
        BY <1>1, <3>1
      <3>2. CASE G[x] # x
        <4>1. m[G[x]] <= k /\ G[x] \in V
          BY <1>1, <1>3, <2>1, <3>2
        <4>2. H[G[x]] = R[F[G[x]]]
          BY <1>3, <4>1
        <4> QED BY <1>1, <3>2, <4>2
      <3> QED BY <3>1, <3>2
    <2> QED BY <1>1, <2>1
  <1> HIDE DEF S
  <1>4. K \in S
    BY <1>1, <1>2, <1>3, IntervalInduction
  <1> QED BY <1>1, <1>4 DEF S

-----------------------------------------------------------------------------
(* Walking: front, back, next and prev. *)

Down(t, s) == LET down[x \in Node] == IF t.kid[s][x] = Null THEN x ELSE down[t.kid[s][x]]
              IN  down

\* What descends on a way down, that is, the width of the subtree.
Sizes(E, L) == [x \in Node |-> IF x \in E THEN Width(L, x) ELSE 0]

DownStep(t, s) == [x \in Node |-> IF Kid(t, s, x) = Null THEN x ELSE Kid(t, s, x)]

\* leftmost and rightmost as walks.
LEMMA DownIs ==
    ASSUME NEW t, NEW s, NEW F, t \in Tree, s \in Side, Walk(F, Node, DownStep(t, s)),
           \A x \in Node : Kid(t, s, x) # x
    PROVE  \A x \in Node : Down(t, s)[x] = IF DownStep(t, s)[x] = x THEN x ELSE Down(t, s)[DownStep(t, s)[x]]
  <1> DEFINE G == DownStep(t, s)
  <1>1. \A x \in Node : /\ G[x] = IF Kid(t, s, x) = Null THEN x ELSE Kid(t, s, x)
                        /\ Kid(t, s, x) # x /\ x # Null
    BY SideIs DEF DownStep
  <1> HIDE DEF G
  <1>2. \A x \in Node : F[x] = IF Kid(t, s, x) = Null THEN x ELSE F[Kid(t, s, x)]
    BY <1>1 DEF Walk, G
  <1>3. F = [x \in Node |-> IF Kid(t, s, x) = Null THEN x ELSE F[Kid(t, s, x)]]
    <2>1. F = [x \in Node |-> F[x]]
      BY DEF Walk
    <2> QED BY <1>2, <2>1
  <1> DEFINE D == Down(t, s)
  <1>4. D = [x \in Node |-> IF Kid(t, s, x) = Null THEN x ELSE D[Kid(t, s, x)]]
    BY <1>3, Zenon DEF Down, Kid
  <1> HIDE DEF D
  <1>5. \A x \in Node : D[x] = IF Kid(t, s, x) = Null THEN x ELSE D[Kid(t, s, x)]
    BY <1>4
  <1>6. \A x \in Node : D[x] = IF G[x] = x THEN x ELSE D[G[x]]
    BY <1>1, <1>5
  <1> QED BY <1>6 DEF D, G

\* A way down one side ends.
LEMMA DownDescends ==
    ASSUME NEW t, NEW E, NEW L, NEW s, Shape(t, E, L), Clean(t, E), s \in Side
    PROVE  /\ Descends(Node, DownStep(t, s), Sizes(E, L), Passes)
           /\ \A x \in Node : Kid(t, s, x) # x /\ DownStep(t, s)[x] = IF Kid(t, s, x) = Null THEN x ELSE Kid(t, s, x)
  <1> DEFINE G == DownStep(t, s)
             m == Sizes(E, L)
  <1>1. \A x \in Node : G[x] = IF Kid(t, s, x) = Null THEN x ELSE Kid(t, s, x)
    BY DEF DownStep
  <1>2. Passes \in Nat /\ Null \notin Node /\ E \subseteq Node /\ t \in Tree
    BY Places, SideIs DEF Passes, Shape
  <1>3. \A x \in Node : Kid(t, s, x) \in Node \cup {Null}
    BY <1>2, FieldsType
  <1>4. \A x \in Node : x \notin E => Kid(t, s, x) = Null
    BY DEF Clean
  <1>5. \A x \in E : Width(L, x) \in Nat /\ Width(L, x) < Passes
    BY WidthBound
  <1>6. \A x \in E : Kid(t, s, x) # Null => /\ Kid(t, s, x) \in E /\ Kid(t, s, x) # x
                                            /\ Width(L, Kid(t, s, x)) < Width(L, x)
    BY ChildIs, ChildWidth
  <1>7. m \in [Node -> 0..Passes]
    BY <1>2, <1>5 DEF Sizes
  <1>8. \A x \in Node : m[x] = IF x \in E THEN Width(L, x) ELSE 0
    BY DEF Sizes
  <1>9. G \in [Node -> Node]
    BY <1>3 DEF DownStep
  <1> HIDE DEF G, m
  <1>10. \A x \in Node : G[x] = x \/ m[G[x]] < m[x]
    BY <1>1, <1>2, <1>4, <1>6, <1>8
  <1>11. Descends(Node, G, m, Passes)
    BY <1>2, <1>7, <1>9, <1>10 DEF Descends
  <1>12. \A x \in Node : Kid(t, s, x) # x
    BY <1>2, <1>4, <1>6
  <1> QED BY <1>1, <1>11, <1>12 DEF G, m

\* The last node on side s is the one at the edge of the subtree.
LEMMA ExtremeIs ==
    ASSUME NEW t, NEW E, NEW L, NEW n, NEW s, NEW r,
           Shape(t, E, L), Clean(t, E), n \in E, s \in Side, r = Extreme(t, n, s)
    PROVE  /\ r \in E /\ r # Null /\ Kid(t, s, r) = Null
           /\ Edge(L, s, r) = Edge(L, s, n) /\ Pos(L, r) = Edge(L, s, n)
  <1> DEFINE G == DownStep(t, s)
             m == Sizes(E, L)
             D == Down(t, s)
             C == {x \in E : Edge(L, s, x) = Edge(L, s, n)}
  <1>1. /\ Descends(Node, G, m, Passes)
        /\ \A x \in Node : Kid(t, s, x) # x /\ G[x] = IF Kid(t, s, x) = Null THEN x ELSE Kid(t, s, x)
    BY DownDescends
  <1>2. E \subseteq Node /\ t \in Tree /\ Null \notin Node
    BY SideIs DEF Shape
  <1> HIDE DEF G, m
  <1>3. PICK F : Walk(F, Node, G)
    BY <1>1, WalkExists
  <1>4. \A x \in Node : D[x] = IF G[x] = x THEN x ELSE D[G[x]]
    BY <1>1, <1>2, <1>3, DownIs DEF G
  <1> HIDE DEF D
  <1>5. \A x \in Node : D[x] = F[x]
    <2> DEFINE R == [x \in Node |-> x]
    <2>1. \A x \in Node : D[x] = IF G[x] = x THEN R[x] ELSE D[G[x]]
      BY <1>4
    <2>2. \A x \in Node : F[x] \in Node /\ R[F[x]] = F[x]
      BY <1>3 DEF Walk
    <2> HIDE DEF R
    <2>3. \A x \in Node : D[x] = R[F[x]]
      BY <1>1, <1>3, <2>1, WalkValue
    <2> QED BY <2>2, <2>3
  <1>6. \A x \in C : G[x] \in C
    <2> SUFFICES ASSUME NEW x \in C, Kid(t, s, x) # Null PROVE Kid(t, s, x) \in C
      BY <1>1, <1>2
    <2>1. Kid(t, s, x) \in E
      BY ChildIs
    <2>2. Edge(L, s, Kid(t, s, x)) = Edge(L, s, x)
      BY DEF Shape, Joined, Leads
    <2> QED BY <2>1, <2>2
  <1>7. C \subseteq Node /\ n \in C
    BY <1>2
  <1>8. F[n] \in E /\ Edge(L, s, F[n]) = Edge(L, s, n) /\ G[F[n]] = F[n]
    <2> HIDE DEF C
    <2>1. F[n] \in C /\ G[F[n]] = F[n]
      BY <1>1, <1>3, <1>6, <1>7, WalkEnds
    <2> QED BY <2>1 DEF C
  <1>9. r = F[n]
    <2>1. r = D[n]
      BY <1>2, Zenon DEF Extreme, Down, D
    <2> QED BY <1>2, <1>5, <2>1
  <1>10. Kid(t, s, r) = Null
    BY <1>1, <1>2, <1>8, <1>9
  <1>11. Pos(L, r) = Edge(L, s, r)
    BY <1>8, <1>9, <1>10 DEF Shape, Joined, Leads
  <1> QED BY <1>2, <1>8, <1>9, <1>10, <1>11

\* The loop of next and prev that climbs while it comes from side s.
Climb(t, s) ==
    LET climb[x \in Node] ==
            LET p == t.parent[x]
            IN  IF p # Null /\ t.kid[s][p] = x THEN climb[p] ELSE p
    IN  climb

ClimbStep(t, s) ==
    [x \in Node |-> IF Up(t, x) # Null /\ Kid(t, s, Up(t, x)) = x THEN Up(t, x) ELSE x]

Parents(t) == [x \in Node |-> Up(t, x)]

\* What descends on a way up, that is, the elements outside the subtree.
Rests(E, L) == [x \in Node |-> IF x \in E THEN Passes - Width(L, x) ELSE 0]

\* A way up ends.
LEMMA ClimbDescends ==
    ASSUME NEW t, NEW E, NEW L, NEW s, Shape(t, E, L), Clean(t, E), s \in Side
    PROVE  /\ Descends(Node, ClimbStep(t, s), Rests(E, L), Passes)
           /\ \A x \in Node : Up(t, x) # x /\ ClimbStep(t, s)[x] =
                 IF Up(t, x) # Null /\ Kid(t, s, Up(t, x)) = x THEN Up(t, x) ELSE x
  <1> DEFINE G == ClimbStep(t, s)
             m == Rests(E, L)
  <1>1. \A x \in Node : G[x] =
            IF Up(t, x) # Null /\ Kid(t, s, Up(t, x)) = x THEN Up(t, x) ELSE x
    BY DEF ClimbStep
  <1>2. Passes \in Nat /\ Null \notin Node /\ E \subseteq Node /\ t \in Tree
    BY Places, SideIs DEF Passes, Shape
  <1>3. \A x \in Node : Up(t, x) \in Node \cup {Null}
    BY <1>2, FieldsType
  <1>4. \A x \in Node : x \notin E => Up(t, x) = Null
    BY DEF Clean
  <1>5. \A x \in E : Width(L, x) \in Nat /\ Width(L, x) < Passes
    BY WidthBound
  <1>6. \A x \in E : Up(t, x) # Null => Up(t, x) \in E /\ Up(t, x) # x
    BY ParentIs
  <1>7. \A x \in E : Up(t, x) # Null /\ Kid(t, s, Up(t, x)) = x => Width(L, x) < Width(L, Up(t, x))
    <2> SUFFICES ASSUME NEW x \in E, Up(t, x) # Null, Kid(t, s, Up(t, x)) = x
                 PROVE  Width(L, x) < Width(L, Up(t, x))
      OBVIOUS
    <2>1. Up(t, x) \in E /\ x # Null
      BY <1>2, <1>6
    <2> QED BY <2>1, ChildWidth
  <1>8. m \in [Node -> 0..Passes]
    <2>1. \A x \in Node : (IF x \in E THEN Passes - Width(L, x) ELSE 0) \in 0..Passes
      BY <1>2, <1>5
    <2> QED BY <2>1 DEF Rests
  <1>9. \A x \in Node : m[x] = IF x \in E THEN Passes - Width(L, x) ELSE 0
    BY DEF Rests
  <1>10. G \in [Node -> Node]
    BY <1>3 DEF ClimbStep
  <1> HIDE DEF G, m
  <1>11. ASSUME NEW x \in Node, G[x] # x PROVE m[G[x]] < m[x]
    <2>1. x \in E /\ G[x] = Up(t, x) /\ Up(t, x) # Null /\ Kid(t, s, Up(t, x)) = x
      BY <1>1, <1>4, <1>11
    <2>2. Up(t, x) \in E
      BY <1>6, <2>1
    <2>3. Width(L, x) < Width(L, Up(t, x))
      BY <1>7, <2>1
    <2>4. m[x] = Passes - Width(L, x) /\ m[Up(t, x)] = Passes - Width(L, Up(t, x))
      BY <1>2, <1>9, <2>1, <2>2
    <2>5. Width(L, x) \in Nat /\ Width(L, Up(t, x)) \in Nat
      BY <1>5, <2>1, <2>2
    <2> QED BY <1>2, <2>1, <2>3, <2>4, <2>5
  <1>12. Descends(Node, G, m, Passes)
    BY <1>2, <1>8, <1>10, <1>11 DEF Descends
  <1>13. \A x \in Node : Up(t, x) # x
    BY <1>2, <1>4, <1>6
  <1> QED BY <1>1, <1>12, <1>13 DEF G, m

\* Climb as a walk.
LEMMA ClimbIs ==
    ASSUME NEW t, NEW s, NEW F, t \in Tree, s \in Side, Walk(F, Node, ClimbStep(t, s)),
           \A x \in Node : Up(t, x) # x
    PROVE  \A x \in Node : Climb(t, s)[x] = IF ClimbStep(t, s)[x] = x THEN Parents(t)[x]
                                           ELSE Climb(t, s)[ClimbStep(t, s)[x]]
  <1> DEFINE G == ClimbStep(t, s)
             up(x) == Up(t, x) # Null /\ Kid(t, s, Up(t, x)) = x
  <1>1. \A x \in Node : G[x] = IF up(x) THEN Up(t, x) ELSE x
    BY DEF ClimbStep
  <1>2. \A x \in Node : Parents(t)[x] = Up(t, x) /\ Up(t, x) # x
    BY DEF Parents
  <1>3. \A x \in Node : F[x] \in Node /\ F[x] = IF G[x] = x THEN x ELSE F[G[x]]
    BY DEF Walk
  <1> HIDE DEF G
  <1> DEFINE h == [x \in Node |-> Up(t, F[x])]
  <1>4. h = [x \in Node |-> IF up(x) THEN h[Up(t, x)] ELSE Up(t, x)]
    <2>1. \A x \in Node : up(x) => Up(t, x) \in Node
      BY FieldsType
    <2>2. \A x \in Node : Up(t, F[x]) = IF up(x) THEN Up(t, F[Up(t, x)]) ELSE Up(t, x)
      BY <1>1, <1>2, <1>3
    <2>3. \A x \in Node : h[x] = Up(t, F[x])
      OBVIOUS
    <2>4. h = [x \in Node |-> h[x]]
      OBVIOUS
    <2> HIDE DEF h
    <2>5. \A x \in Node : h[x] = IF up(x) THEN h[Up(t, x)] ELSE Up(t, x)
      BY <2>1, <2>2, <2>3
    <2> QED BY <2>4, <2>5
  <1> HIDE DEF h
  <1> DEFINE D == Climb(t, s)
  <1>5. D = [x \in Node |-> IF up(x) THEN D[Up(t, x)] ELSE Up(t, x)]
    BY <1>4, Zenon DEF Climb, Kid, Up
  <1> HIDE DEF D
  <1>6. \A x \in Node : D[x] = IF up(x) THEN D[Up(t, x)] ELSE Up(t, x)
    BY <1>5
  <1>7. \A x \in Node : D[x] = IF G[x] = x THEN Parents(t)[x] ELSE D[G[x]]
    BY <1>1, <1>2, <1>6
  <1> QED BY <1>7 DEF D, G

\* No element lies there.
Vacant(E, L, i) == \A x \in E : Pos(L, x) # i

\* next and prev lead to the neighbour.
LEMMA StepIs ==
    ASSUME NEW t, NEW E, NEW L, NEW n, NEW s, NEW r,
           Shape(t, E, L), Clean(t, E), n \in E, s \in Side, r = Step(t, n, s)
    PROVE  /\ r \in E \cup {Null}
           /\ r # Null => Pos(L, r) = Pos(L, n) + Dir(s)
           /\ r = Null => Vacant(E, L, Pos(L, n) + Dir(s))
  <1>0. /\ E \subseteq Node /\ t \in Tree /\ Null \notin Node /\ L \in Labels
        /\ Other(s) \in Side /\ Other(Other(s)) = s /\ Other(s) # s
        /\ Dir(Other(s)) = 0 - Dir(s) /\ Dir(s) \in Int
        /\ \A d \in Side : d = s \/ d = Other(s)
    BY SideIs, OtherIs DEF Shape
  <1>00. Pos(L, n) \in Int
    BY <1>0, LabelType
  <1>1. CASE Kid(t, s, n) # Null
    <2> DEFINE c == Kid(t, s, n)
    <2>1. c \in E /\ Edge(L, Other(s), c) = Pos(L, n) + Dir(s)
      BY <1>1, ChildIs DEF Shape, Joined, Leads
    <2>2. r = Extreme(t, c, Other(s))
      BY <1>1, Zenon DEF Step, Kid
    <2> HIDE DEF c
    <2>3. r \in E /\ r # Null /\ Pos(L, r) = Edge(L, Other(s), c)
      BY <1>0, <2>1, <2>2, ExtremeIs
    <2> QED BY <2>1, <2>3
  <1>2. CASE Kid(t, s, n) = Null
    <2> DEFINE G == ClimbStep(t, s)
               m == Rests(E, L)
               D == Climb(t, s)
               C == {x \in E : Edge(L, s, x) = Edge(L, s, n)}
    <2>1. /\ Descends(Node, G, m, Passes)
          /\ \A x \in Node : Up(t, x) # x /\ G[x] =
                 IF Up(t, x) # Null /\ Kid(t, s, Up(t, x)) = x THEN Up(t, x) ELSE x
      BY ClimbDescends
    <2> HIDE DEF G, m
    <2>2. PICK F : Walk(F, Node, G)
      BY <2>1, WalkExists
    <2>3. \A x \in Node : D[x] = IF G[x] = x THEN Parents(t)[x] ELSE D[G[x]]
      BY <1>0, <2>1, <2>2, ClimbIs DEF G
    <2> HIDE DEF D
    <2>4. \A x \in Node : D[x] = Parents(t)[F[x]]
      BY <2>1, <2>2, <2>3, WalkValue
    <2>5. \A x \in C : G[x] \in C
      <3> SUFFICES ASSUME NEW x \in C, Up(t, x) # Null, Kid(t, s, Up(t, x)) = x
                   PROVE  Up(t, x) \in C
        BY <1>0, <2>1
      <3>1. Up(t, x) \in E
        BY ParentIs
      <3>2. Edge(L, s, x) = Edge(L, s, Up(t, x))
        BY <1>0, <3>1 DEF Shape, Joined, Leads
      <3> QED BY <3>1, <3>2
    <2>6. C \subseteq Node /\ n \in C
      BY <1>0
    <2> DEFINE y == F[n]
    <2>7. y \in E /\ Edge(L, s, y) = Edge(L, s, n) /\ G[y] = y
      <3> HIDE DEF C
      <3>1. y \in C /\ G[y] = y
        BY <2>1, <2>2, <2>5, <2>6, WalkEnds
      <3> QED BY <3>1 DEF C
    <2>8. r = Up(t, y)
      <3>1. r = D[n]
        BY <1>2, Zenon DEF Step, Kid, Climb, D
      <3> QED BY <1>0, <2>4, <2>7, <3>1 DEF Parents
    <2> HIDE DEF y
    <2>9. Edge(L, s, n) = Pos(L, n)
      BY <1>2 DEF Shape, Joined, Leads
    <2>10. CASE r = Null
      <3> HIDE DEF C
      <3>1. y = Root(t)
        <4>1. Up(t, y) = Null
          BY <2>8, <2>10
        <4>2. Up(t, y) = Null <=> y = Root(t)
          BY <2>7, ParentIs
        <4> QED BY <4>1, <4>2
      <3>2. Root(t) # Null
        BY <1>0, <2>7, <3>1
      <3> SUFFICES ASSUME NEW x \in E, Pos(L, x) = Pos(L, n) + Dir(s) PROVE FALSE
        BY <2>10 DEF Vacant
      <3>3. Pos(L, x) \in 1..Highest(t, L) /\ Highest(t, L) = Edge(L, "right", Root(t))
        BY <3>2, Places DEF Highest
      <3>4. Edge(L, "left", Root(t)) = 1
        BY <3>2 DEF Shape, Rooted
      <3>5. Edge(L, "right", Root(t)) \in Int
        BY <2>7, <3>1, EdgesType
      <3>6. CASE s = "left"
        BY <1>00, <2>7, <2>9, <3>1, <3>3, <3>4, <3>6, SideIs
      <3>7. CASE s = "right"
        BY <1>00, <2>7, <2>9, <3>1, <3>3, <3>5, <3>7, SideIs
      <3> QED BY <3>6, <3>7, SideIs
    <2>11. CASE r # Null
      <3>1. r \in E /\ y # Root(t) /\ Kid(t, s, r) # y /\ y # Null
        BY <1>0, <2>1, <2>7, <2>8, <2>11, ParentIs
      <3>2. Kid(t, Other(s), r) = y
        BY <1>0, <2>7, <2>8, <3>1, ParentIs
      <3>3. Edge(L, s, y) = Pos(L, r) + Dir(Other(s))
        BY <1>0, <3>1, <3>2 DEF Shape, Joined, Leads
      <3>4. Pos(L, r) \in Int
        BY <1>0, <3>1, LabelType
      <3> QED BY <1>0, <1>00, <2>7, <2>9, <3>1, <3>3, <3>4
    <2> QED BY <2>10, <2>11
  <1> QED BY <1>1, <1>2

-----------------------------------------------------------------------------
(* Removing a node with at most one child. *)

\* The places behind k move down one.
Pull(v, k) == IF v > k THEN v - 1 ELSE v

\* Places behind k move down.
Pulled(L, M, E, k) == \A x \in E : Pos(M, x) = Pull(Pos(L, x), k)

\* L with place k taken out.
WithoutSpot(L, k) ==
    [pos |-> [x \in Node |-> Pull(Pos(L, x), k)],
     edge |-> [d \in Side |-> [x \in Node |->
                 IF d = "left" THEN Pull(Edge(L, d, x), k) ELSE Pull(Edge(L, d, x), k - 1)]],
     black |-> [x \in Node |-> Black(L, x)]]

\* How the labels move when place k is taken out.
LEMMA WithoutSpotIs ==
    ASSUME NEW L, NEW k, L \in Labels, k \in Int
    PROVE  /\ WithoutSpot(L, k) \in Labels
           /\ \A x \in Node :
                /\ Pos(WithoutSpot(L, k), x) = Pull(Pos(L, x), k)
                /\ Black(WithoutSpot(L, k), x) = Black(L, x)
                /\ Edge(WithoutSpot(L, k), "left", x) = Pull(Edge(L, "left", x), k)
                /\ Edge(WithoutSpot(L, k), "right", x) = Pull(Edge(L, "right", x), k - 1)
  <1> DEFINE pos == [x \in Node |-> Pull(Pos(L, x), k)]
             edge == [d \in Side |-> [x \in Node |->
                 IF d = "left" THEN Pull(Edge(L, d, x), k) ELSE Pull(Edge(L, d, x), k - 1)]]
             black == [x \in Node |-> Black(L, x)]
  <1>1. pos \in [Node -> Int] /\ black \in [Node -> Int]
    BY LabelType DEF Pull
  <1>2. edge \in [Side -> [Node -> Int]]
    BY LabelType DEF Pull
  <1>3. \A x \in Node : pos[x] = Pull(Pos(L, x), k) /\ black[x] = Black(L, x)
    OBVIOUS
  <1>4. \A x \in Node : /\ edge["left"][x] = Pull(Edge(L, "left", x), k)
                        /\ edge["right"][x] = Pull(Edge(L, "right", x), k - 1)
    BY SideIs
  <1>5. WithoutSpot(L, k) = [pos |-> pos, edge |-> edge, black |-> black]
    BY DEF WithoutSpot
  <1> HIDE DEF pos, edge, black
  <1>6. /\ WithoutSpot(L, k) \in Labels
        /\ \A x \in Node : Pos(WithoutSpot(L, k), x) = pos[x]
                           /\ Black(WithoutSpot(L, k), x) = black[x]
        /\ \A d \in Side, x \in Node : Edge(WithoutSpot(L, k), d, x) = edge[d][x]
    BY <1>1, <1>2, <1>5, LabelsAre
  <1> QED BY <1>3, <1>4, <1>6, SideIs

\* n leaves, and its child on side e takes its place; it has none on the other.
Cut(t, n, child) == Relink(SetParent(t, child, t.parent[n]), t.parent[n], n, child)

\* What taking out a node with one child at most assigns.
LEMMA CutIs ==
    ASSUME NEW t, NEW E, NEW L, NEW n, NEW child, NEW p, NEW r,
           Shape(t, E, L), n \in E, child \in E \cup {Null}, p = Up(t, n), r = Cut(t, n, child)
    PROVE  /\ r \in Tree /\ Root(r) = IF p = Null THEN child ELSE Root(t)
           /\ \A z \in Node : Up(r, z) = IF z = child THEN p ELSE Up(t, z)
           /\ Red(r) = Red(t)
           /\ \A e \in Side, z \in Node :
                Kid(r, e, z) = IF z = p /\ e = SideOf(t, p, n) THEN child ELSE Kid(t, e, z)
           /\ p \in E \cup {Null} /\ (p = Null <=> n = Root(t)) /\ p # n /\ n # Null
           /\ p # Null => SideOf(t, p, n) \in Side /\ Kid(t, SideOf(t, p, n), p) = n
  <1> DEFINE a == SetParent(t, child, p)
             b == SideOf(t, p, n)
  <1>1. t \in Tree /\ E \subseteq Node /\ Null \notin Node
    BY SideIs DEF Shape
  <1>2. /\ p \in E \cup {Null} /\ (p = Null <=> n = Root(t)) /\ p # n /\ n # Null
        /\ p # Null => b \in Side /\ Kid(t, b, p) = n
    BY <1>1, ParentIs
  <1>3. /\ a \in Tree /\ Root(a) = Root(t)
        /\ \A z \in Node : Up(a, z) = IF z = child THEN p ELSE Up(t, z)
        /\ Red(a) = Red(t)
        /\ \A e \in Side, z \in Node : Kid(a, e, z) = Kid(t, e, z)
    BY <1>1, <1>2, SetParentIs
  <1>4. r = Relink(a, p, n, child)
    BY Zenon DEF Cut, Up
  <1> HIDE DEF a
  <1>5. /\ r \in Tree /\ Root(r) = IF p = Null THEN child ELSE Root(a)
        /\ \A z \in Node : Up(r, z) = Up(a, z)
        /\ Red(r) = Red(a)
        /\ \A e \in Side, z \in Node :
             Kid(r, e, z) = IF z = p /\ e = SideOf(a, p, n) THEN child ELSE Kid(a, e, z)
    BY <1>1, <1>2, <1>3, <1>4, RelinkIs
  <1>6. p # Null => SideOf(a, p, n) = b
    BY <1>1, <1>2, <1>3, SideOfIs, SideIs
  <1> QED BY <1>1, <1>2, <1>3, <1>5, <1>6

\* A link of the tree that is left leads where it should.
LEMMA CutLeads ==
    ASSUME NEW t, NEW E, NEW L, NEW n, NEW e, NEW child, NEW p, NEW r, NEW M,
           Shape(t, E, L), n \in E, e \in Side, child = Kid(t, e, n), Kid(t, Other(e), n) = Null,
           p = Up(t, n), r = Cut(t, n, child), M = WithoutSpot(L, Pos(L, n)),
           NEW y \in E \ {n}, NEW d \in Side
    PROVE  Kid(r, d, y) \in (E \ {n}) \cup {Null} /\ Leads(r, M, y, d)
  <1>0. /\ E \subseteq Node /\ Null \notin Node /\ child \in E \cup {Null} /\ y \in Node
        /\ n \in Node /\ Pos(L, n) \in Int /\ Pos(L, y) \in Int /\ Pos(L, n) # Pos(L, y)
        /\ Kid(t, d, y) \in E \cup {Null} /\ L \in Labels
        /\ \A s \in Side, z \in E : Edge(L, s, z) \in Int
    BY SideIs, LabelType DEF Shape, Joined, Placed
  <1>1. /\ \A z \in Node : Up(r, z) = IF z = child THEN p ELSE Up(t, z)
        /\ \A s \in Side, z \in Node :
             Kid(r, s, z) = IF z = p /\ s = SideOf(t, p, n) THEN child ELSE Kid(t, s, z)
        /\ p \in E \cup {Null} /\ p # n
        /\ p # Null => SideOf(t, p, n) \in Side /\ Kid(t, SideOf(t, p, n), p) = n
    BY <1>0, CutIs
  <1>2. /\ child # Null => child # n /\ Up(t, child) = n
        /\ \A z \in E, s \in Side : Kid(t, s, z) = n => z = p /\ s = SideOf(t, p, n)
    <2>1. child # Null => child # n /\ Up(t, child) = n
      BY ChildIs
    <2>2. ASSUME NEW z \in E, NEW s \in Side, Kid(t, s, z) = n PROVE z = p /\ s = SideOf(t, p, n)
      BY <1>0, <2>2, ChildIs
    <2> QED BY <2>1, <2>2
  <1>3. \A z \in Node : /\ Pos(M, z) = Pull(Pos(L, z), Pos(L, n))
                        /\ Edge(M, "left", z) = Pull(Edge(L, "left", z), Pos(L, n))
                        /\ Edge(M, "right", z) = Pull(Edge(L, "right", z), Pos(L, n) - 1)
    BY <1>0, WithoutSpotIs
  <1>4. \A s \in Side, z \in E :
          IF Kid(t, s, z) = Null THEN Edge(L, s, z) = Pos(L, z)
          ELSE /\ Up(t, Kid(t, s, z)) = z
               /\ Edge(L, s, Kid(t, s, z)) = Edge(L, s, z)
               /\ Edge(L, Other(s), Kid(t, s, z)) = Pos(L, z) + Dir(s)
    BY DEF Shape, Joined, Leads
  <1>5. d = "left" \/ d = "right"
    BY SideIs
  <1>6. CASE ~(y = p /\ d = SideOf(t, p, n))
    <2> DEFINE c == Kid(t, d, y)
    <2>1. Kid(r, d, y) = c /\ c # n
      BY <1>0, <1>1, <1>2, <1>6
    <2>2. CASE c = Null
      <3>1. Edge(L, d, y) = Pos(L, y)
        BY <1>4, <2>2
      <3>2. Edge(M, d, y) = Pos(M, y)
        <4>1. CASE d = "left"
          BY <1>0, <1>3, <3>1, <4>1 DEF Pull
        <4>2. CASE d = "right"
          BY <1>0, <1>3, <3>1, <4>2 DEF Pull
        <4> QED BY <1>5, <4>1, <4>2
      <3> QED BY <2>1, <2>2, <3>2 DEF Leads
    <2>3. CASE c # Null
      <3>1. /\ c \in E /\ Up(t, c) = y /\ Edge(L, d, c) = Edge(L, d, y)
            /\ Edge(L, Other(d), c) = Pos(L, y) + Dir(d) /\ c \in Node
        BY <1>0, <1>4, <2>3
      <3>2. Up(r, c) = y
        BY <1>0, <1>1, <1>2, <3>1
      <3> HIDE DEF c
      <3>3. Edge(M, d, c) = Edge(M, d, y) /\ Edge(M, Other(d), c) = Pos(M, y) + Dir(d)
        <4>1. CASE d = "left"
          BY <1>0, <1>3, <3>1, <4>1, SideIs DEF Pull
        <4>2. CASE d = "right"
          BY <1>0, <1>3, <3>1, <4>2, SideIs DEF Pull
        <4> QED BY <1>5, <4>1, <4>2
      <3> QED BY <2>1, <2>3, <3>1, <3>2, <3>3 DEF Leads
    <2> QED BY <2>2, <2>3
  <1>7. CASE y = p /\ d = SideOf(t, p, n)
    <2>1. Kid(r, d, y) = child /\ Kid(t, d, y) = n /\ n # Null
      BY <1>0, <1>1, <1>7
    <2>2. Edge(L, d, n) = Edge(L, d, y) /\ Edge(L, Other(d), n) = Pos(L, y) + Dir(d)
      BY <1>4, <2>1
    <2>3. Edge(L, Other(e), n) = Pos(L, n)
      BY <1>4, OtherIs
    <2>4. Edge(L, "left", n) <= Pos(L, n) /\ Pos(L, n) <= Edge(L, "right", n)
      BY EdgesType
    <2>5. CASE child = Null
      <3>1. Edge(L, e, n) = Pos(L, n)
        BY <1>4, <2>5
      <3>2. Edge(L, "left", n) = Pos(L, n) /\ Edge(L, "right", n) = Pos(L, n)
        BY <2>3, <3>1, SideIs
      <3>3. Edge(M, d, y) = Pos(M, y)
        <4>1. CASE d = "left"
          BY <1>0, <1>3, <2>2, <3>2, <4>1, SideIs DEF Pull
        <4>2. CASE d = "right"
          BY <1>0, <1>3, <2>2, <3>2, <4>2, SideIs DEF Pull
        <4> QED BY <1>5, <4>1, <4>2
      <3> QED BY <2>1, <2>5, <3>3 DEF Leads
    <2>6. CASE child # Null
      <3>1. /\ child \in E /\ child \in Node /\ child # n /\ Up(r, child) = y
            /\ Edge(L, e, child) = Edge(L, e, n) /\ Edge(L, Other(e), child) = Pos(L, n) + Dir(e)
        BY <1>0, <1>1, <1>2, <1>4, <1>7, <2>6
      <3>2. Edge(L, "left", child) <= Edge(L, "right", child)
        <4>1. Edge(L, "left", child) <= Pos(L, child) /\ Pos(L, child) <= Edge(L, "right", child)
              /\ Pos(L, child) \in Int
          BY <3>1, EdgesType
        <4> QED BY <1>0, <3>1, <4>1, SideIs
      <3>3. Edge(M, d, child) = Edge(M, d, y) /\ Edge(M, Other(d), child) = Pos(M, y) + Dir(d)
        <4>1. CASE d = "left" /\ e = "left"
          BY <1>0, <1>3, <2>2, <2>3, <2>4, <3>1, <3>2, <4>1, SideIs DEF Pull
        <4>2. CASE d = "right" /\ e = "left"
          BY <1>0, <1>3, <2>2, <2>3, <2>4, <3>1, <3>2, <4>2, SideIs DEF Pull
        <4>3. CASE d = "left" /\ e = "right"
          BY <1>0, <1>3, <2>2, <2>3, <2>4, <3>1, <3>2, <4>3, SideIs DEF Pull
        <4>4. CASE d = "right" /\ e = "right"
          BY <1>0, <1>3, <2>2, <2>3, <2>4, <3>1, <3>2, <4>4, SideIs DEF Pull
        <4> QED BY <1>5, <4>1, <4>2, <4>3, <4>4, SideIs
      <3> QED BY <2>1, <2>6, <3>1, <3>3 DEF Leads
    <2> QED BY <2>5, <2>6
  <1> QED BY <1>6, <1>7

\* Taking out such a node leaves a search tree.
LEMMA CutShape ==
    ASSUME NEW t, NEW E, NEW L, NEW n, NEW e, NEW child, NEW p, NEW r, NEW M,
           Shape(t, E, L), n \in E, e \in Side, child = Kid(t, e, n), Kid(t, Other(e), n) = Null,
           p = Up(t, n), r = Cut(t, n, child), M = WithoutSpot(L, Pos(L, n))
    PROVE  Shape(r, E \ {n}, M) /\ child \in (E \ {n}) \cup {Null}
  <1>0. /\ E \subseteq Node /\ Null \notin Node /\ child \in E \cup {Null}
        /\ Pos(L, n) \in Int /\ L \in Labels /\ n \in Node
        /\ \A y \in E : /\ Pos(L, y) \in Int /\ Edge(L, "left", y) \in Int /\ Edge(L, "right", y) \in Int
                        /\ Edge(L, "left", y) <= Pos(L, y) /\ Pos(L, y) <= Edge(L, "right", y)
        /\ \A y \in E, z \in E : Pos(L, y) = Pos(L, z) => y = z
    BY SideIs, LabelType DEF Shape, Joined, Placed
  <1>1. /\ r \in Tree /\ Root(r) = IF p = Null THEN child ELSE Root(t)
        /\ \A z \in Node : Up(r, z) = IF z = child THEN p ELSE Up(t, z)
        /\ \A s \in Side, z \in Node :
             Kid(r, s, z) = IF z = p /\ s = SideOf(t, p, n) THEN child ELSE Kid(t, s, z)
        /\ p \in E \cup {Null} /\ p # n /\ (p = Null <=> n = Root(t)) /\ n # Null
        /\ p # Null => SideOf(t, p, n) \in Side /\ Kid(t, SideOf(t, p, n), p) = n
    BY <1>0, CutIs
  <1>2. child # Null => child # n /\ Up(t, child) = n
    BY ChildIs
  <1>3. /\ M \in Labels
        /\ \A z \in Node : /\ Pos(M, z) = Pull(Pos(L, z), Pos(L, n))
                           /\ Edge(M, "left", z) = Pull(Edge(L, "left", z), Pos(L, n))
                           /\ Edge(M, "right", z) = Pull(Edge(L, "right", z), Pos(L, n) - 1)
    BY <1>0, WithoutSpotIs
  <1>4. \A y \in E \ {n}, d \in Side : Kid(r, d, y) \in (E \ {n}) \cup {Null} /\ Leads(r, M, y, d)
    BY CutLeads
  <1>5. Placed(E \ {n}, M)
    <2>1. ASSUME NEW y \in E \ {n}, NEW z \in E \ {n}, Pos(M, y) = Pos(M, z) PROVE y = z
      <3>1. Pos(L, y) # Pos(L, n) /\ Pos(L, z) # Pos(L, n) /\ y \in Node /\ z \in Node
        BY <1>0
      <3>2. Pos(L, y) = Pos(L, z)
        BY <1>0, <1>3, <2>1, <3>1 DEF Pull
      <3> QED BY <1>0, <3>2
    <2>2. ASSUME NEW y \in E \ {n}
          PROVE  Edge(M, "left", y) <= Pos(M, y) /\ Pos(M, y) <= Edge(M, "right", y)
      <3>1. Pos(L, y) # Pos(L, n) /\ y \in Node
        BY <1>0
      <3>2. /\ Edge(L, "left", y) \in Int /\ Edge(L, "right", y) \in Int /\ Pos(L, y) \in Int
            /\ Edge(L, "left", y) <= Pos(L, y) /\ Pos(L, y) <= Edge(L, "right", y)
        BY <1>0
      <3>3. Pos(M, y) = Pull(Pos(L, y), Pos(L, n))
        BY <1>3, <3>1
      <3>4. Edge(M, "left", y) = Pull(Edge(L, "left", y), Pos(L, n))
        BY <1>3, <3>1
      <3>5. Edge(M, "right", y) = Pull(Edge(L, "right", y), Pos(L, n) - 1)
        BY <1>3, <3>1
      <3> QED BY <1>0, <3>1, <3>2, <3>3, <3>4, <3>5 DEF Pull
    <2> QED BY <2>1, <2>2 DEF Placed
  <1>6. Joined(r, E \ {n}, M)
    <2>1. ASSUME NEW y \in E \ {n}, y # Root(r)
          PROVE  /\ Up(r, y) \in E \ {n}
                 /\ Kid(r, "left", Up(r, y)) = y \/ Kid(r, "right", Up(r, y)) = y
      <3>1. CASE y = child
        <4>1. p \in E /\ Up(r, y) = p
          BY <1>0, <1>1, <2>1, <3>1
        <4>2. Kid(r, SideOf(t, p, n), p) = y
          BY <1>0, <1>1, <3>1, <4>1
        <4> QED BY <1>0, <1>1, <4>1, <4>2, SideIs
      <3>2. CASE y # child
        <4>1. y # Root(t)
          BY <1>1, <2>1
        <4>2. Up(t, y) \in E /\ SideOf(t, Up(t, y), y) \in Side
              /\ Kid(t, SideOf(t, Up(t, y), y), Up(t, y)) = y
          BY <4>1, ParentIs
        <4>3. Up(r, y) = Up(t, y) /\ y # Null
          BY <1>0, <1>1, <3>2
        <4>4. Up(t, y) # n
          <5> SUFFICES ASSUME Up(t, y) = n PROVE FALSE
            OBVIOUS
          <5>1. Kid(t, e, n) = y \/ Kid(t, Other(e), n) = y
            BY <4>2, OtherIs
          <5> QED BY <3>2, <4>3, <5>1
        <4>5. Kid(r, SideOf(t, Up(t, y), y), Up(t, y)) = y
          BY <1>0, <1>1, <4>2
        <4> QED BY <4>2, <4>3, <4>4, <4>5, SideIs
      <3> QED BY <3>1, <3>2
    <2> QED BY <1>4, <2>1 DEF Joined
  <1>7. Rooted(r, E \ {n}, M)
    <2>1. Root(t) # Null /\ Root(t) \in E /\ Up(t, Root(t)) = Null /\ Edge(L, "left", Root(t)) = 1
      BY DEF Shape, Rooted
    <2>2. 1 <= Pos(L, n)
      BY <1>0, Places
    <2>3. CASE p # Null
      <3>1. Root(r) = Root(t) /\ Root(t) # n /\ Root(t) \in Node
        BY <1>0, <1>1, <2>1, <2>3
      <3>2. Edge(M, "left", Root(t)) = 1
        BY <1>0, <1>3, <2>1, <2>2, <3>1 DEF Pull
      <3>3. Up(r, Root(t)) = Null
        BY <1>0, <1>1, <1>2, <2>1, <3>1
      <3> QED BY <2>1, <3>1, <3>2, <3>3 DEF Rooted
    <2>4. CASE p = Null /\ child = Null
      <3>1. n = Root(t) /\ Root(r) = Null
        BY <1>1, <2>4
      <3>2. Edge(L, e, n) = Pos(L, n) /\ Edge(L, Other(e), n) = Pos(L, n)
        BY <2>4, OtherIs DEF Shape, Joined, Leads
      <3>3. Edge(L, "left", n) = Pos(L, n) /\ Edge(L, "right", n) = Pos(L, n)
        BY <3>2, SideIs
      <3>4. Highest(t, L) = 1 /\ Pos(L, n) = 1
        BY <2>1, <3>1, <3>3 DEF Highest
      <3>5. \A y \in E : Pos(L, y) = 1
        <4>1. \A y \in E : Pos(L, y) \in 1..Highest(t, L)
          BY Places
        <4> QED BY <3>4, <4>1
      <3>6. E \ {n} = {}
        BY <1>0, <3>4, <3>5
      <3> QED BY <3>1, <3>6 DEF Rooted
    <2>5. CASE p = Null /\ child # Null
      <3>1. n = Root(t) /\ Root(r) = child /\ child \in E /\ child # n /\ child \in Node
        BY <1>0, <1>1, <1>2, <2>5
      <3>2. Up(r, child) = Null
        BY <1>1, <2>5, <3>1
      <3>3. Edge(L, e, child) = Edge(L, e, n) /\ Edge(L, Other(e), child) = Pos(L, n) + Dir(e)
        BY <2>5 DEF Shape, Joined, Leads
      <3>4. Edge(L, Other(e), n) = Pos(L, n)
        BY OtherIs DEF Shape, Joined, Leads
      <3>5. Edge(M, "left", child) = 1
        <4>1. CASE e = "left"
          BY <1>0, <1>3, <2>1, <2>2, <3>1, <3>3, <4>1 DEF Pull
        <4>2. CASE e = "right"
          BY <1>0, <1>3, <2>1, <2>2, <3>1, <3>3, <3>4, <4>2, SideIs DEF Pull
        <4> QED BY <4>1, <4>2, SideIs
      <3> QED BY <2>5, <3>1, <3>2, <3>5 DEF Rooted
    <2> QED BY <2>3, <2>4, <2>5
  <1>8. E \ {n} \subseteq Node /\ child \in (E \ {n}) \cup {Null}
    BY <1>0, <1>2
  <1> QED BY <1>1, <1>3, <1>5, <1>6, <1>7, <1>8 DEF Shape

\* Without n the paths through the child are one black node short, if n was black.
LEMMA CutState ==
    ASSUME NEW t, NEW E, NEW L, NEW n, NEW e, NEW child, NEW p, NEW r, NEW M,
           Settled(t, E, L), n \in E, e \in Side, child = Kid(t, e, n), Kid(t, Other(e), n) = Null,
           p = Up(t, n), r = Cut(t, n, child), M = WithoutSpot(L, Pos(L, n))
    PROVE  /\ n \in Red(t) => Repaired(r, E \ {n}, E, M)
           /\ n \notin Red(t) => EraseState(r, child, p, E \ {n}, E, M)
           /\ Pulled(L, M, E, Pos(L, n)) /\ child # n /\ p # n
  <1>0. /\ Shape(t, E, L) /\ E \subseteq Node /\ Null \notin Node /\ L \in Labels /\ n \in Node
        /\ Balanced(t, E, L, Null, "left") /\ Reds(t, E, Null, Null) /\ RootBlack(t, Null)
        /\ Clean(t, E) /\ Pos(L, n) \in Int
    BY SideIs, LabelType DEF Settled, Shape
  <1>1. Shape(r, E \ {n}, M) /\ child \in (E \ {n}) \cup {Null} /\ child \in E \cup {Null}
    BY <1>0, CutShape
  <1>2. /\ r \in Tree /\ Root(r) = IF p = Null THEN child ELSE Root(t)
        /\ \A z \in Node : Up(r, z) = IF z = child THEN p ELSE Up(t, z)
        /\ Red(r) = Red(t)
        /\ \A s \in Side, z \in Node :
             Kid(r, s, z) = IF z = p /\ s = SideOf(t, p, n) THEN child ELSE Kid(t, s, z)
        /\ p \in E \cup {Null} /\ p # n /\ (p = Null <=> n = Root(t)) /\ n # Null
        /\ p # Null => SideOf(t, p, n) \in Side /\ Kid(t, SideOf(t, p, n), p) = n
    BY <1>0, <1>1, CutIs
  <1>3. \A z \in Node : Pos(M, z) = Pull(Pos(L, z), Pos(L, n)) /\ Black(M, z) = Black(L, z)
    BY <1>0, WithoutSpotIs
  <1>4. Pulled(L, M, E, Pos(L, n))
    BY <1>0, <1>3 DEF Pulled
  <1>5. Clean(r, E)
    BY <1>0, <1>1, <1>2 DEF Clean
  <1>6. \A y \in E, d \in Side : /\ Black(L, y) >= 0 /\ Kid(t, d, y) \in E \cup {Null}
                                 /\ Height(t, L, Kid(t, d, y)) \in Int
                                 /\ Height(t, L, Kid(t, d, y)) = Black(L, y)
    <2> SUFFICES ASSUME NEW y \in E, NEW d \in Side
                 PROVE  /\ Black(L, y) >= 0 /\ Kid(t, d, y) \in E \cup {Null}
                        /\ Height(t, L, Kid(t, d, y)) \in Int
                        /\ Height(t, L, Kid(t, d, y)) = Black(L, y)
      OBVIOUS
    <2>1. Short(y, d, Null, "left") = 0
      BY <1>0 DEF Short
    <2> QED BY <1>0, <2>1, ShortIs
  <1>7. \A c : c \in E \cup {Null} => Height(r, M, c) = Height(t, L, c)
    BY <1>0, <1>2, <1>3 DEF Height
  <1>8. Height(t, L, child) = Black(L, n)
    BY <1>6
  <1>9. \A y \in E \ {n}, d \in Side :
            /\ Black(M, y) >= 0
            /\ ~(y = p /\ d = SideOf(t, p, n)) =>
                  /\ Kid(r, d, y) = Kid(t, d, y) /\ Height(r, M, Kid(r, d, y)) = Black(M, y)
            /\ y = p /\ d = SideOf(t, p, n) => Kid(r, d, y) = child
            /\ y \in Node /\ Height(r, M, Kid(r, d, y)) \in Int
    BY <1>0, <1>1, <1>2, <1>3, <1>6, <1>7
  <1>10. (Black(M, p) = Height(t, L, n) /\ Height(r, M, child) = Black(L, n)) \/ p = Null
    BY <1>0, <1>1, <1>2, <1>3, <1>6, <1>7, <1>8
  <1>11. RootBlack(r, child) /\ Reds(r, E \ {n}, child, child)
    <2>1. RootBlack(r, child)
      BY <1>0, <1>2 DEF RootBlack, Red
    <2>2. ASSUME NEW y \in E \ {n}, NEW d \in Side, y \in Red(r), Kid(r, d, y) \in Red(r)
          PROVE  y = child \/ Kid(r, d, y) = child
      <3>1. CASE y = p /\ d = SideOf(t, p, n)
        BY <1>9, <3>1
      <3>2. CASE ~(y = p /\ d = SideOf(t, p, n))
        <4>1. Kid(r, d, y) = Kid(t, d, y)
          BY <1>9, <3>2
        <4>2. y = Null \/ Kid(t, d, y) = Null
          BY <1>0, <1>2, <2>2, <4>1 DEF Reds
        <4> QED BY <1>0, <2>2, <4>1, <4>2, <1>2, <1>1 DEF Red
      <3> QED BY <3>1, <3>2
    <2> QED BY <2>1, <2>2 DEF Reds
  <1>12. CASE n \in Red(t)
    <2>1. child \notin Red(t) /\ p # Null
      <3>1. child \in Red(t) => FALSE
        BY <1>0, <1>12 DEF Reds, Red
      <3>2. n # Root(t)
        BY <1>0, <1>2, <1>12 DEF RootBlack
      <3> QED BY <1>2, <3>1, <3>2
    <2>2. Height(t, L, n) = Black(L, n)
      <3>1. Black(L, n) \in Int
        BY <1>0, LabelType
      <3>2. Height(t, L, n) = Black(L, n) + 0
        BY <1>2, <1>12 DEF Height
      <3> QED BY <3>1, <3>2
    <2>3. Balanced(r, E \ {n}, M, Null, "left")
      <3> SUFFICES ASSUME NEW y \in E \ {n}, NEW d \in Side
                   PROVE  /\ Black(M, y) >= 0
                          /\ Height(r, M, Kid(r, d, y)) + Short(y, d, Null, "left") = Black(M, y)
        BY DEF Balanced
      <3>1. Short(y, d, Null, "left") = 0
        BY <1>0 DEF Short
      <3>2. Height(r, M, Kid(r, d, y)) = Black(M, y)
        BY <1>9, <1>10, <2>1, <2>2
      <3> QED BY <1>9, <3>1, <3>2
    <2>4. Reds(r, E \ {n}, Null, Null) /\ RootBlack(r, Null)
      BY <1>2, <1>11, <2>1 DEF Reds, RootBlack
    <2> QED BY <1>1, <1>2, <1>4, <1>5, <1>12, <2>3, <2>4 DEF Repaired
  <1>13. CASE n \notin Red(t)
    <2>1. Black(L, n) \in Int
      BY <1>0, LabelType
    <2>2. Height(t, L, n) = Black(L, n) + 1
      BY <1>2, <1>13 DEF Height
    <2>3. CASE p = Null
      <3>1. Balanced(r, E \ {n}, M, Null, "left")
        <4> SUFFICES ASSUME NEW y \in E \ {n}, NEW d \in Side
                     PROVE  /\ Black(M, y) >= 0
                            /\ Height(r, M, Kid(r, d, y)) + Short(y, d, Null, "left") = Black(M, y)
          BY DEF Balanced
        <4>1. Short(y, d, Null, "left") = 0
          BY <1>0 DEF Short
        <4> QED BY <1>0, <1>9, <2>3, <4>1
      <3>2. child = Root(r)
        BY <1>2, <2>3
      <3>3. EraseState(r, child, p, E \ {n}, E, M)
        BY <1>1, <1>2, <1>5, <1>11, <3>1, <3>2, <2>3 DEF EraseState
      <3> QED BY <1>1, <1>2, <1>4, <1>13, <3>3
    <2>4. CASE p # Null
      <3> DEFINE b == SideOf(t, p, n)
      <3>0. b \in Side /\ p \in E \ {n} /\ p \in Node
        BY <1>0, <1>2, <2>4
      <3>1. Balanced(r, E \ {n}, M, p, b)
        <4> SUFFICES ASSUME NEW y \in E \ {n}, NEW d \in Side
                     PROVE  /\ Black(M, y) >= 0
                            /\ Height(r, M, Kid(r, d, y)) + Short(y, d, p, b) = Black(M, y)
          BY DEF Balanced
        <4>1. CASE y = p /\ d = b
          <5>1. Short(y, d, p, b) = 1
            BY <4>1 DEF Short
          <5> QED BY <1>9, <1>10, <2>1, <2>2, <2>4, <4>1, <5>1
        <4>2. CASE ~(y = p /\ d = b)
          <5>1. Short(y, d, p, b) = 0
            BY <4>2 DEF Short
          <5> QED BY <1>9, <4>2, <5>1
        <4> QED BY <4>1, <4>2
      <3>2. Kid(r, b, p) = child
        BY <1>9, <3>0
      <3>3. EraseState(r, child, p, E \ {n}, E, M)
        BY <1>1, <1>2, <1>5, <1>11, <3>0, <3>1, <3>2 DEF EraseState
      <3> QED BY <1>1, <1>2, <1>4, <1>13, <3>3
    <2> QED BY <2>3, <2>4
  <1> QED BY <1>12, <1>13

\* remove of a node with at most one child.
LEMMA SpliceIs ==
    ASSUME NEW t, NEW E, NEW L, NEW n, Settled(t, E, L), n \in E,
           Kid(t, "left", n) = Null \/ Kid(t, "right", n) = Null
    PROVE  \E M : Repaired(Splice(t, n), E \ {n}, E, M) /\ Pulled(L, M, E \ {n}, Pos(L, n))
  <1> DEFINE child == IF Kid(t, "left", n) = Null THEN Kid(t, "right", n) ELSE Kid(t, "left", n)
             p == Up(t, n)
             cut == Cut(t, n, child)
             M == WithoutSpot(L, Pos(L, n))
  <1>1. PICK e \in Side : child = Kid(t, e, n) /\ Kid(t, Other(e), n) = Null
    BY SideIs
  <1>2. n \in Red(t) <=> t.red[n]
    BY DEF Red, Settled, Shape
  <1>3. Splice(t, n) = IF t.red[n] THEN cut ELSE EraseColor(cut, child, p)
    BY Zenon DEF Splice, Cut, Kid, Up
  <1> HIDE DEF child, p, cut, M
  <1>4. /\ n \in Red(t) => Repaired(cut, E \ {n}, E, M)
        /\ n \notin Red(t) => EraseState(cut, child, p, E \ {n}, E, M)
        /\ Pulled(L, M, E, Pos(L, n))
    BY <1>1, CutState DEF p, cut, M
  <1>5. Pulled(L, M, E \ {n}, Pos(L, n))
    BY <1>4 DEF Pulled
  <1>6. CASE n \in Red(t)
    BY <1>2, <1>3, <1>4, <1>5, <1>6
  <1>7. CASE n \notin Red(t)
    <2>1. Splice(t, n) = EraseColor(cut, child, p)
      BY <1>2, <1>3, <1>7
    <2>2. PICK K : Repaired(EraseColor(cut, child, p), E \ {n}, E, K) /\ SamePlaces(M, K)
      BY <1>4, <1>7, EraseColorIs
    <2>3. Pulled(L, K, E \ {n}, Pos(L, n))
      BY <1>5, <2>2 DEF Pulled, SamePlaces, Repaired, Shape
    <2> QED BY <2>1, <2>2, <2>3
  <1> QED BY <1>6, <1>7

-----------------------------------------------------------------------------
(* One node in the place of another. *)

Owned(t, old, new) ==
    [t EXCEPT !.kid = [s \in Side |-> [t.kid[s] EXCEPT ![new] = t.kid[s][old]]],
              !.parent[new] = t.parent[old], !.red[new] = t.red[old]]

\* The fields replace_node copies.
LEMMA OwnedIs ==
    ASSUME NEW t, NEW old, NEW new, t \in Tree, old \in Node, new \in Node
    PROVE  /\ Owned(t, old, new) \in Tree /\ Root(Owned(t, old, new)) = Root(t)
           /\ \A z \in Node : Up(Owned(t, old, new), z) = IF z = new THEN Up(t, old) ELSE Up(t, z)
           /\ \A d \in Side, z \in Node :
                Kid(Owned(t, old, new), d, z) = IF z = new THEN Kid(t, d, old) ELSE Kid(t, d, z)
           /\ new \in Red(Owned(t, old, new)) <=> old \in Red(t)
           /\ \A z : z # new => (z \in Red(Owned(t, old, new)) <=> z \in Red(t))
  <1> DEFINE r == Owned(t, old, new)
             k == [s \in Side |-> [t.kid[s] EXCEPT ![new] = t.kid[s][old]]]
             q == [t.parent EXCEPT ![new] = t.parent[old]]
             c == [t.red EXCEPT ![new] = t.red[old]]
  <1>1. /\ k \in [Side -> [Node -> Node \cup {Null}]]
        /\ \A d \in Side, z \in Node : k[d][z] = IF z = new THEN t.kid[d][old] ELSE t.kid[d][z]
    BY TreeType
  <1>2. /\ q \in [Node -> Node \cup {Null}]
        /\ \A z \in Node : q[z] = IF z = new THEN t.parent[old] ELSE t.parent[z]
    BY TreeType
  <1>3. /\ c \in [Node -> BOOLEAN]
        /\ new \in {z \in Node : c[z]} <=> old \in Red(t)
        /\ \A z : z # new => (z \in {y \in Node : c[y]} <=> z \in Red(t))
    <2>1. t.red \in [Node -> BOOLEAN]
      BY TreeType
    <2> QED BY <2>1 DEF Red
  <1>4. r = [[[t EXCEPT !.kid = k] EXCEPT !.parent = q] EXCEPT !.red = c]
    BY Zenon DEF Owned
  <1> HIDE DEF k, q, c, r
  <1>5. r = [root |-> t.root, kid |-> k, parent |-> q, red |-> c]
    <2>1. t = [root |-> t.root, kid |-> t.kid, parent |-> t.parent, red |-> t.red]
      BY TreeType
    <2> QED BY <1>4, <2>1
  <1>6. t.root \in Node \cup {Null}
    BY TreeType
  <1>7. /\ r \in Tree /\ Root(r) = t.root /\ Red(r) = {z \in Node : c[z]}
        /\ \A z \in Node : Up(r, z) = q[z]
        /\ \A d \in Side, z \in Node : Kid(r, d, z) = k[d][z]
    BY <1>1, <1>2, <1>3, <1>5, <1>6, RecordIs
  <1> QED BY <1>1, <1>2, <1>3, <1>7 DEF Root, Up, Kid, r

\* What giving the place of old to new assigns.
LEMMA TakePlaceIs ==
    ASSUME NEW t, NEW E, NEW L, NEW old, NEW new, NEW p, NEW r, Shape(t, E, L), old \in E,
           new \in Node, new \notin E, p = Up(t, old), r = TakePlace(t, old, new)
    PROVE  /\ r \in Tree /\ Root(r) = IF p = Null THEN new ELSE Root(t)
           /\ \A z \in Node : Up(r, z) = IF z = new THEN p
                                ELSE IF z = Kid(t, "left", old) \/ z = Kid(t, "right", old) THEN new
                                ELSE Up(t, z)
           /\ \A d \in Side, z \in Node : Kid(r, d, z) =
                IF z = p /\ d = SideOf(t, p, old) THEN new
                ELSE IF z = new THEN Kid(t, d, old) ELSE Kid(t, d, z)
           /\ new \in Red(r) <=> old \in Red(t)
           /\ \A z : z # new => (z \in Red(r) <=> z \in Red(t))
           /\ p \in E \cup {Null} /\ p # old /\ p # new /\ (p = Null <=> old = Root(t))
           /\ p # Null => SideOf(t, p, old) \in Side /\ Kid(t, SideOf(t, p, old), p) = old
  <1> DEFINE a == Owned(t, old, new)
             l == Kid(t, "left", old)
             m == Kid(t, "right", old)
             b == SetParent(a, l, new)
             c == SetParent(b, m, new)
  <1>1. /\ t \in Tree /\ E \subseteq Node /\ Null \notin Node /\ old \in Node
        /\ l \in E \cup {Null} /\ m \in E \cup {Null}
    BY SideIs DEF Shape, Joined
  <1>2. /\ p \in E \cup {Null} /\ (p = Null <=> old = Root(t)) /\ p # old
        /\ p # Null => SideOf(t, p, old) \in Side /\ Kid(t, SideOf(t, p, old), p) = old
    BY <1>1, ParentIs
  <1>3. /\ a \in Tree /\ Root(a) = Root(t)
        /\ \A z \in Node : Up(a, z) = IF z = new THEN p ELSE Up(t, z)
        /\ \A d \in Side, z \in Node : Kid(a, d, z) = IF z = new THEN Kid(t, d, old) ELSE Kid(t, d, z)
        /\ new \in Red(a) <=> old \in Red(t)
        /\ \A z : z # new => (z \in Red(a) <=> z \in Red(t))
    BY <1>1, OwnedIs
  <1>4. r = Relink(c, p, old, new)
    BY Zenon DEF TakePlace, Owned, Kid, Up
  <1> HIDE DEF a, l, m
  <1>5. /\ b \in Tree /\ Root(b) = Root(a)
        /\ \A z \in Node : Up(b, z) = IF z = l THEN new ELSE Up(a, z)
        /\ Red(b) = Red(a)
        /\ \A e \in Side, z \in Node : Kid(b, e, z) = Kid(a, e, z)
    BY <1>1, <1>3, SetParentIs
  <1> HIDE DEF b
  <1>6. /\ c \in Tree /\ Root(c) = Root(b)
        /\ \A z \in Node : Up(c, z) = IF z = m THEN new ELSE Up(b, z)
        /\ Red(c) = Red(b)
        /\ \A e \in Side, z \in Node : Kid(c, e, z) = Kid(b, e, z)
    BY <1>1, <1>5, SetParentIs
  <1> HIDE DEF c
  <1>7. /\ r \in Tree /\ Root(r) = IF p = Null THEN new ELSE Root(c)
        /\ \A z \in Node : Up(r, z) = Up(c, z)
        /\ Red(r) = Red(c)
        /\ \A e \in Side, z \in Node :
             Kid(r, e, z) = IF z = p /\ e = SideOf(c, p, old) THEN new ELSE Kid(c, e, z)
    BY <1>1, <1>2, <1>4, <1>6, RelinkIs
  <1>8. p # Null => SideOf(c, p, old) = SideOf(t, p, old)
    <2> SUFFICES ASSUME p # Null PROVE Kid(c, "left", p) = Kid(t, "left", p)
      BY SideOfIs
    <2>1. p \in Node /\ p # new
      BY <1>1, <1>2
    <2> QED BY <1>3, <1>5, <1>6, <2>1, SideIs
  <1>9. l # new /\ m # new
    BY <1>1, SideIs
  <1>10. \A z \in Node : Up(r, z) = IF z = new THEN p ELSE IF z = l \/ z = m THEN new ELSE Up(t, z)
    BY <1>3, <1>5, <1>6, <1>7, <1>9
  <1>11. \A d \in Side, z \in Node : Kid(r, d, z) =
                IF z = p /\ d = SideOf(t, p, old) THEN new
                ELSE IF z = new THEN Kid(t, d, old) ELSE Kid(t, d, z)
    <2> SUFFICES ASSUME NEW d \in Side, NEW z \in Node
                 PROVE  Kid(r, d, z) = IF z = p /\ d = SideOf(t, p, old) THEN new
                                       ELSE IF z = new THEN Kid(t, d, old) ELSE Kid(t, d, z)
      OBVIOUS
    <2>1. z = p => SideOf(c, p, old) = SideOf(t, p, old)
      BY <1>1, <1>8
    <2> QED BY <1>3, <1>5, <1>6, <1>7, <2>1
  <1> QED BY <1>1, <1>2, <1>3, <1>5, <1>6, <1>7, <1>10, <1>11 DEF l, m

-----------------------------------------------------------------------------
(* A tree is the same as another when its elements are those of the other under *)
(* new names.                                                                   *)

Same(t, r, L, M, E, F, f) ==
    /\ r \in Tree /\ M \in Labels /\ F \subseteq Node
    /\ f[Null] = Null /\ \A x \in E : f[x] \in F
    /\ \A y \in F : \E x \in E : f[x] = y
    /\ \A x \in E, y \in E : f[x] = f[y] => x = y
    /\ Root(r) = f[Root(t)]
    /\ \A x \in E : /\ Up(r, f[x]) = f[Up(t, x)] /\ (f[x] \in Red(r) <=> x \in Red(t))
                    /\ Pos(M, f[x]) = Pos(L, x) /\ Black(M, f[x]) = Black(L, x)
    /\ \A d \in Side, x \in E : /\ Kid(r, d, f[x]) = f[Kid(t, d, x)]
                                /\ Edge(M, d, f[x]) = Edge(L, d, x)

\* A tree that is t with its nodes renamed is a search tree,
LEMMA SameShape ==
    ASSUME NEW t, NEW r, NEW L, NEW M, NEW E, NEW F, NEW f,
           Shape(t, E, L), Same(t, r, L, M, E, F, f)
    PROVE  Shape(r, F, M)
  <1>1. /\ E \subseteq Node /\ F \subseteq Node /\ Null \notin Node /\ f[Null] = Null
        /\ \A x \in E : f[x] \in F /\ f[x] # Null
        /\ \A y \in F : \E x \in E : f[x] = y
        /\ \A x \in E, y \in E : f[x] = f[y] => x = y
    BY SideIs DEF Same, Shape
  <1>2. /\ Root(r) = f[Root(t)]
        /\ \A x \in E : Up(r, f[x]) = f[Up(t, x)] /\ Pos(M, f[x]) = Pos(L, x)
        /\ \A d \in Side, x \in E : Kid(r, d, f[x]) = f[Kid(t, d, x)] /\ Edge(M, d, f[x]) = Edge(L, d, x)
    BY DEF Same
  <1>3. Placed(F, M)
    <2>1. ASSUME NEW a \in F, NEW b \in F, Pos(M, a) = Pos(M, b) PROVE a = b
      <3>1. PICK x \in E : f[x] = a
        BY <1>1
      <3>2. PICK y \in E : f[y] = b
        BY <1>1
      <3>3. Pos(L, x) = Pos(L, y)
        BY <1>2, <2>1, <3>1, <3>2
      <3> QED BY <3>1, <3>2, <3>3 DEF Shape, Placed
    <2>2. ASSUME NEW a \in F PROVE Edge(M, "left", a) <= Pos(M, a) /\ Pos(M, a) <= Edge(M, "right", a)
      <3>1. PICK x \in E : f[x] = a
        BY <1>1
      <3>2. Edge(L, "left", x) <= Pos(L, x) /\ Pos(L, x) <= Edge(L, "right", x)
        BY DEF Shape, Placed
      <3>3. Pos(M, a) = Pos(L, x) /\ \A d \in Side : Edge(M, d, a) = Edge(L, d, x)
        BY <1>2, <3>1
      <3> QED BY <3>2, <3>3, SideIs
    <2> QED BY <2>1, <2>2 DEF Placed
  <1>4. Joined(r, F, M)
    <2>1. ASSUME NEW a \in F, NEW d \in Side PROVE Kid(r, d, a) \in F \cup {Null} /\ Leads(r, M, a, d)
      <3>1. PICK x \in E : f[x] = a
        BY <1>1
      <3>2. Kid(t, d, x) \in E \cup {Null} /\ Leads(t, L, x, d) /\ Other(d) \in Side
        BY OtherIs DEF Shape, Joined
      <3>3. Kid(r, d, a) = f[Kid(t, d, x)] /\ Edge(M, d, a) = Edge(L, d, x) /\ Pos(M, a) = Pos(L, x)
        BY <1>2, <3>1
      <3>4. CASE Kid(t, d, x) = Null
        BY <1>1, <3>2, <3>3, <3>4 DEF Leads
      <3>5. CASE Kid(t, d, x) # Null
        <4> DEFINE c == Kid(t, d, x)
        <4>1. /\ c \in E /\ Up(t, c) = x /\ Edge(L, d, c) = Edge(L, d, x)
              /\ Edge(L, Other(d), c) = Pos(L, x) + Dir(d)
          BY <3>2, <3>5 DEF Leads
        <4> HIDE DEF c
        <4>2. /\ f[c] \in F /\ f[c] # Null /\ Up(r, f[c]) = a /\ Edge(M, d, f[c]) = Edge(L, d, c)
              /\ Edge(M, Other(d), f[c]) = Edge(L, Other(d), c)
          BY <1>1, <1>2, <3>1, <3>2, <4>1
        <4>3. Kid(r, d, a) = f[c]
          BY <3>3 DEF c
        <4> QED BY <3>3, <4>1, <4>2, <4>3 DEF Leads
      <3> QED BY <3>4, <3>5
    <2>2. ASSUME NEW a \in F, a # Root(r)
          PROVE  Up(r, a) \in F /\ (Kid(r, "left", Up(r, a)) = a \/ Kid(r, "right", Up(r, a)) = a)
      <3>1. PICK x \in E : f[x] = a
        BY <1>1
      <3>2. x # Root(t)
        BY <1>2, <2>2, <3>1
      <3>3. Up(t, x) \in E /\ (Kid(t, "left", Up(t, x)) = x \/ Kid(t, "right", Up(t, x)) = x)
        BY <3>2 DEF Shape, Joined
      <3>4. Up(r, a) = f[Up(t, x)]
        BY <1>2, <3>1
      <3>5. \A d \in Side : Kid(r, d, f[Up(t, x)]) = f[Kid(t, d, Up(t, x))]
        BY <1>2, <3>3
      <3> QED BY <1>1, <3>1, <3>3, <3>4, <3>5, SideIs
    <2> QED BY <2>1, <2>2 DEF Joined
  <1>5. Rooted(r, F, M)
    <2>1. CASE Root(t) = Null
      BY <1>1, <1>2, <2>1 DEF Shape, Rooted
    <2>2. CASE Root(t) # Null
      <3>1. Root(t) \in E /\ Up(t, Root(t)) = Null /\ Edge(L, "left", Root(t)) = 1
        BY <2>2 DEF Shape, Rooted
      <3> QED BY <1>1, <1>2, <3>1, SideIs DEF Rooted
    <2> QED BY <2>1, <2>2
  <1> QED BY <1>3, <1>4, <1>5 DEF Shape, Same

\* as balanced,
LEMMA SameBalanced ==
    ASSUME NEW t, NEW r, NEW L, NEW M, NEW E, NEW F, NEW f, NEW m, NEW b,
           Shape(t, E, L), Same(t, r, L, M, E, F, f), m \in E \cup {Null}, Balanced(t, E, L, m, b)
    PROVE  Balanced(r, F, M, f[m], b)
  <1>1. /\ E \subseteq Node /\ F \subseteq Node /\ Null \notin Node /\ f[Null] = Null
        /\ \A x \in E : f[x] \in F /\ f[x] # Null
        /\ \A y \in F : \E x \in E : f[x] = y
        /\ \A x \in E, y \in E : f[x] = f[y] => x = y
    BY SideIs DEF Same, Shape
  <1>2. /\ \A x \in E : /\ Black(M, f[x]) = Black(L, x)
                        /\ f[x] \in Red(r) <=> x \in Red(t)
        /\ \A d \in Side, x \in E : Kid(r, d, f[x]) = f[Kid(t, d, x)]
    BY DEF Same
  <1> SUFFICES ASSUME NEW a \in F, NEW d \in Side
               PROVE  Black(M, a) >= 0 /\ Height(r, M, Kid(r, d, a)) + Short(a, d, f[m], b) = Black(M, a)
    BY DEF Balanced
  <1>3. PICK x \in E : f[x] = a
    BY <1>1
  <1>4. /\ Black(L, x) >= 0 /\ Height(t, L, Kid(t, d, x)) + Short(x, d, m, b) = Black(L, x)
        /\ Kid(t, d, x) \in E \cup {Null}
    BY DEF Balanced, Shape, Joined
  <1>5. Short(a, d, f[m], b) = Short(x, d, m, b)
    BY <1>1, <1>3 DEF Short
  <1>6. Kid(r, d, a) = f[Kid(t, d, x)] /\ Black(M, a) = Black(L, x)
    BY <1>2, <1>3
  <1>7. Height(r, M, f[Kid(t, d, x)]) = Height(t, L, Kid(t, d, x))
    <2>1. CASE Kid(t, d, x) = Null
      BY <1>1, <2>1, HeightIs
    <2>2. CASE Kid(t, d, x) # Null
      BY <1>1, <1>2, <1>4, <2>2 DEF Height
    <2> QED BY <2>1, <2>2
  <1> QED BY <1>4, <1>5, <1>6, <1>7

\* and as coloured, as t.
LEMMA SameReds ==
    ASSUME NEW t, NEW r, NEW L, NEW M, NEW E, NEW F, NEW f, NEW x, NEW y,
           Shape(t, E, L), Same(t, r, L, M, E, F, f), x \in E \cup {Null}, y \in E \cup {Null}
    PROVE  /\ Reds(t, E, x, y) => Reds(r, F, f[x], f[y])
           /\ RootBlack(t, x) => RootBlack(r, f[x])
  <1>1. /\ E \subseteq Node /\ F \subseteq Node /\ Null \notin Node /\ f[Null] = Null
        /\ \A z \in F : \E v \in E : f[v] = z
        /\ Root(r) = f[Root(t)] /\ Root(t) \in E \cup {Null}
        /\ \A v \in E, d \in Side : Kid(t, d, v) \in E \cup {Null}
    BY SideIs DEF Same, Shape, Rooted, Joined
  <1>2. /\ \A v \in E : f[v] \in Red(r) <=> v \in Red(t)
        /\ \A d \in Side, v \in E : Kid(r, d, f[v]) = f[Kid(t, d, v)]
        /\ Null \notin Red(r)
    BY <1>1 DEF Same, Red
  <1>3. ASSUME Reds(t, E, x, y), NEW a \in F, NEW d \in Side, a \in Red(r), Kid(r, d, a) \in Red(r)
        PROVE  a = f[x] \/ Kid(r, d, a) = f[y]
    <2>1. PICK v \in E : f[v] = a
      BY <1>1
    <2>2. v \in Red(t) /\ Kid(r, d, a) = f[Kid(t, d, v)]
      BY <1>2, <1>3, <2>1
    <2>3. Kid(t, d, v) \in E
      BY <1>1, <1>2, <1>3, <2>2
    <2>4. Kid(t, d, v) \in Red(t)
      BY <1>2, <1>3, <2>2, <2>3
    <2>5. v = x \/ Kid(t, d, v) = y
      BY <1>3, <2>2, <2>4 DEF Reds
    <2> QED BY <2>1, <2>2, <2>5
  <1>4. RootBlack(t, x) => RootBlack(r, f[x])
    BY <1>1, <1>2 DEF RootBlack
  <1> QED BY <1>3, <1>4 DEF Reds

\* Renaming old to new.
Names(E, old, new) == [x \in E \cup {Null} |-> IF x = old THEN new ELSE x]

\* L with the labels of old given to new.
WithPlace(L, old, new) ==
    [pos |-> [x \in Node |-> IF x = new THEN Pos(L, old) ELSE Pos(L, x)],
     edge |-> [d \in Side |-> [x \in Node |-> IF x = new THEN Edge(L, d, old) ELSE Edge(L, d, x)]],
     black |-> [x \in Node |-> IF x = new THEN Black(L, old) ELSE Black(L, x)]]

\* WithPlace gives labels and takes none.
LEMMA WithPlaceIs ==
    ASSUME NEW L, NEW old, NEW new, L \in Labels, old \in Node, new \in Node
    PROVE  /\ WithPlace(L, old, new) \in Labels
           /\ \A x \in Node :
                /\ Pos(WithPlace(L, old, new), x) = IF x = new THEN Pos(L, old) ELSE Pos(L, x)
                /\ Black(WithPlace(L, old, new), x) = IF x = new THEN Black(L, old) ELSE Black(L, x)
           /\ \A d \in Side, x \in Node :
                Edge(WithPlace(L, old, new), d, x) = IF x = new THEN Edge(L, d, old) ELSE Edge(L, d, x)
  <1> DEFINE pos == [x \in Node |-> IF x = new THEN Pos(L, old) ELSE Pos(L, x)]
             edge == [d \in Side |-> [x \in Node |-> IF x = new THEN Edge(L, d, old) ELSE Edge(L, d, x)]]
             black == [x \in Node |-> IF x = new THEN Black(L, old) ELSE Black(L, x)]
             W == WithPlace(L, old, new)
  <1>1. pos \in [Node -> Int] /\ black \in [Node -> Int]
    BY LabelType
  <1>2. edge \in [Side -> [Node -> Int]]
    BY LabelType
  <1>3. \A x \in Node : /\ pos[x] = IF x = new THEN Pos(L, old) ELSE Pos(L, x)
                        /\ black[x] = IF x = new THEN Black(L, old) ELSE Black(L, x)
    OBVIOUS
  <1>4. \A d \in Side, x \in Node : edge[d][x] = IF x = new THEN Edge(L, d, old) ELSE Edge(L, d, x)
    OBVIOUS
  <1>5. W = [pos |-> pos, edge |-> edge, black |-> black]
    BY DEF WithPlace
  <1> HIDE DEF pos, edge, black, W
  <1>6. /\ W \in Labels
        /\ \A x \in Node : Pos(W, x) = pos[x] /\ Black(W, x) = black[x]
        /\ \A d \in Side, x \in Node : Edge(W, d, x) = edge[d][x]
    BY <1>1, <1>2, <1>5, LabelsAre
  <1> QED BY <1>3, <1>4, <1>6 DEF W

\* Giving a place away is a renaming.
LEMMA TakePlaceSame ==
    ASSUME NEW t, NEW E, NEW L, NEW old, NEW new, NEW r, NEW M, NEW f, NEW F,
           Shape(t, E, L), old \in E, new \in Node, new \notin E, r = TakePlace(t, old, new),
           M = WithPlace(L, old, new), F = (E \ {old}) \cup {new}, f = Names(E, old, new)
    PROVE  Same(t, r, L, M, E, F, f)
  <1> DEFINE p == Up(t, old)
             b == SideOf(t, p, old)
  <1>1. /\ r \in Tree /\ Root(r) = IF p = Null THEN new ELSE Root(t)
        /\ \A z \in Node : Up(r, z) = IF z = new THEN p
                                ELSE IF z = Kid(t, "left", old) \/ z = Kid(t, "right", old) THEN new
                                ELSE Up(t, z)
        /\ \A d \in Side, z \in Node : Kid(r, d, z) =
                IF z = p /\ d = b THEN new
                ELSE IF z = new THEN Kid(t, d, old) ELSE Kid(t, d, z)
        /\ new \in Red(r) <=> old \in Red(t)
        /\ \A z : z # new => (z \in Red(r) <=> z \in Red(t))
        /\ p \in E \cup {Null} /\ p # old /\ p # new /\ (p = Null <=> old = Root(t))
        /\ p # Null => b \in Side /\ Kid(t, b, p) = old
    BY TakePlaceIs
  <1>2. /\ E \subseteq Node /\ Null \notin Node /\ old \in Node /\ L \in Labels
        /\ \A d \in Side, x \in E : Kid(t, d, x) \in E \cup {Null}
        /\ Root(t) \in E
    BY SideIs, ParentIs DEF Shape, Joined
  <1>3. \A d \in Side, x \in E : Kid(t, d, x) # Null =>
           Kid(t, d, x) # x /\ Up(t, Kid(t, d, x)) = x /\ SideOf(t, x, Kid(t, d, x)) = d
    BY ChildIs
  <1>4. \A x \in E : x # Root(t) => /\ Up(t, x) \in E
                                    /\ Kid(t, "left", Up(t, x)) = x \/ Kid(t, "right", Up(t, x)) = x
    BY DEF Shape, Joined
  <1>5. Up(t, Root(t)) = Null
    BY <1>2, SideIs DEF Shape, Rooted
  <1>6. f[Null] = Null /\ \A x \in E : f[x] = IF x = old THEN new ELSE x
    BY <1>2 DEF Names
  <1>7. /\ M \in Labels
        /\ \A x \in Node : /\ Pos(M, x) = IF x = new THEN Pos(L, old) ELSE Pos(L, x)
                           /\ Black(M, x) = IF x = new THEN Black(L, old) ELSE Black(L, x)
        /\ \A d \in Side, x \in Node : Edge(M, d, x) = IF x = new THEN Edge(L, d, old) ELSE Edge(L, d, x)
    BY <1>2, WithPlaceIs
  <1> HIDE DEF p, b
  <1>8. /\ F \subseteq Node /\ \A x \in E : f[x] \in F
        /\ \A y \in F : \E x \in E : f[x] = y
        /\ \A x \in E, y \in E : f[x] = f[y] => x = y
    BY <1>2, <1>6
  <1>9. Root(r) = f[Root(t)]
    BY <1>1, <1>2, <1>6
  <1>10. \A x \in E : /\ f[x] \in Red(r) <=> x \in Red(t)
                      /\ Pos(M, f[x]) = Pos(L, x) /\ Black(M, f[x]) = Black(L, x)
    BY <1>1, <1>2, <1>6, <1>7
  <1>11. ASSUME NEW x \in E PROVE Up(r, f[x]) = f[Up(t, x)]
    <2>1. CASE x = old
      <3>1. Up(r, new) = p /\ f[p] = p /\ f[x] = new
        BY <1>1, <1>6, <2>1
      <3> QED BY <2>1, <3>1 DEF p
    <2>2. CASE x # old
      <3>1. f[x] = x /\ x # new /\ x \in Node /\ x # Null
        BY <1>2, <1>6, <2>2
      <3>2. x = Kid(t, "left", old) \/ x = Kid(t, "right", old) <=> Up(t, x) = old
        <4>1. x = Kid(t, "left", old) \/ x = Kid(t, "right", old) => Up(t, x) = old
          BY <1>3, <3>1, SideIs
        <4>2. Up(t, x) = old => x # Root(t)
          BY <1>2, <1>5
        <4> QED BY <1>4, <4>1, <4>2
      <3>3. Up(t, x) \in E \cup {Null}
        BY <1>4, <1>5
      <3> QED BY <1>1, <1>6, <3>1, <3>2, <3>3
    <2> QED BY <2>1, <2>2
  <1>12. ASSUME NEW d \in Side, NEW x \in E PROVE Kid(r, d, f[x]) = f[Kid(t, d, x)]
    <2>1. CASE x = old
      <3>1. Kid(r, d, new) = Kid(t, d, old) /\ f[x] = new
        BY <1>1, <1>6, <2>1
      <3>2. Kid(t, d, old) \in E \cup {Null} /\ Kid(t, d, old) # old
        BY <1>2, <1>3
      <3>3. f[Kid(t, d, old)] = Kid(t, d, old)
        BY <1>6, <3>2
      <3> QED BY <2>1, <3>1, <3>3
    <2>2. CASE x # old
      <3>1. f[x] = x /\ x # new /\ x \in Node
        BY <1>2, <1>6, <2>2
      <3>2. Kid(r, d, x) = IF x = p /\ d = b THEN new ELSE Kid(t, d, x)
        BY <1>1, <3>1
      <3>3. Kid(t, d, x) = old <=> x = p /\ d = b
        <4>1. Kid(t, d, x) = old => x = p /\ d = b
          BY <1>2, <1>3 DEF p, b
        <4>2. x = p => Kid(t, b, x) = old
          BY <1>1, <1>2
        <4> QED BY <4>1, <4>2
      <3>4. Kid(t, d, x) \in E \cup {Null}
        BY <1>2
      <3>5. f[Kid(t, d, x)] = IF Kid(t, d, x) = old THEN new ELSE Kid(t, d, x)
        BY <1>2, <1>6, <3>4
      <3> QED BY <3>1, <3>2, <3>3, <3>5
    <2> QED BY <2>1, <2>2
  <1>13. \A d \in Side, x \in E : Edge(M, d, f[x]) = Edge(L, d, x)
    BY <1>2, <1>6, <1>7
  <1> QED BY <1>1, <1>6, <1>7, <1>8, <1>9, <1>10, <1>11, <1>12, <1>13 DEF Same

\* It leaves no links to strangers,
LEMMA TakePlaceClean ==
    ASSUME NEW t, NEW E, NEW L, NEW X, NEW old, NEW new, NEW r,
           Shape(t, E, L), old \in E, new \in Node, new \notin E, r = TakePlace(t, old, new),
           Clean(t, X), E \subseteq X, new \in X
    PROVE  Clean(r, X)
  <1> DEFINE p == Up(t, old)
             b == SideOf(t, p, old)
  <1>1. /\ \A z \in Node : Up(r, z) = IF z = new THEN p
                                ELSE IF z = Kid(t, "left", old) \/ z = Kid(t, "right", old) THEN new
                                ELSE Up(t, z)
        /\ \A d \in Side, z \in Node : Kid(r, d, z) =
                IF z = p /\ d = b THEN new
                ELSE IF z = new THEN Kid(t, d, old) ELSE Kid(t, d, z)
        /\ \A z : z # new => (z \in Red(r) <=> z \in Red(t))
        /\ p \in E \cup {Null}
    BY TakePlaceIs
  <1> HIDE DEF p, b
  <1>2. Kid(t, "left", old) \in E \cup {Null} /\ Kid(t, "right", old) \in E \cup {Null} /\ Null \notin Node
    BY SideIs DEF Shape, Joined
  <1> SUFFICES ASSUME NEW z \in Node, z \notin X
               PROVE  Up(r, z) = Null /\ z \notin Red(r) /\ \A d \in Side : Kid(r, d, z) = Null
    BY DEF Clean
  <1>3. z # new /\ z # p /\ z \notin E /\ z # Null
    BY <1>1, <1>2
  <1> QED BY <1>1, <1>2, <1>3 DEF Clean

\* and what is right before it is right after it:
LEMMA TakePlaceState ==
    ASSUME NEW t, NEW E, NEW L, NEW X, NEW old, NEW new, NEW r, NEW M, NEW F,
           old \in E, new \in Node, new \notin E, new \in X, r = TakePlace(t, old, new),
           M = WithPlace(L, old, new), F = (E \ {old}) \cup {new}
    PROVE  /\ Repaired(t, E, X, L) => Repaired(r, F, X, M)
           /\ \A x, p : EraseState(t, x, p, E, X, L) /\ x # old =>
                        EraseState(r, x, IF p = old THEN new ELSE p, F, X, M)
  <1> DEFINE f == Names(E, old, new)
  <1>1. ASSUME Shape(t, E, L), Clean(t, X), E \subseteq X
        PROVE  /\ Same(t, r, L, M, E, F, f) /\ Shape(r, F, M) /\ Clean(r, X) /\ F \subseteq X
               /\ f[Null] = Null /\ \A x \in E \cup {Null} : f[x] = IF x = old THEN new ELSE x
               /\ Null \notin Node /\ E \subseteq Node
    <2>1. Same(t, r, L, M, E, F, f)
      BY <1>1, TakePlaceSame
    <2>2. Null \notin Node /\ E \subseteq Node
      BY <1>1, SideIs DEF Shape
    <2>3. f[Null] = Null /\ \A x \in E \cup {Null} : f[x] = IF x = old THEN new ELSE x
      BY <2>2 DEF Names
    <2> HIDE DEF f
    <2>4. Shape(r, F, M)
      BY <1>1, <2>1, SameShape
    <2>5. Clean(r, X)
      BY <1>1, TakePlaceClean
    <2>6. F \subseteq X
      BY <1>1
    <2> QED BY <2>1, <2>2, <2>3, <2>4, <2>5, <2>6
  <1> HIDE DEF f
  <1>2. ASSUME Repaired(t, E, X, L) PROVE Repaired(r, F, X, M)
    <2>1. /\ Shape(t, E, L) /\ Clean(t, X) /\ E \subseteq X /\ Balanced(t, E, L, Null, "left")
          /\ Reds(t, E, Null, Null) /\ RootBlack(t, Null)
      BY <1>2 DEF Repaired
    <2>2. Balanced(r, F, M, f[Null], "left")
      BY <1>1, <2>1, SameBalanced
    <2>3. Reds(r, F, f[Null], f[Null]) /\ RootBlack(r, f[Null])
      BY <1>1, <2>1, SameReds
    <2> QED BY <1>1, <2>1, <2>2, <2>3 DEF Repaired
  <1>3. ASSUME NEW x, NEW p, EraseState(t, x, p, E, X, L), x # old
        PROVE  EraseState(r, x, IF p = old THEN new ELSE p, F, X, M)
    <2>1. /\ Shape(t, E, L) /\ Clean(t, X) /\ E \subseteq X /\ x \in E \cup {Null} /\ p \in E \cup {Null}
          /\ Reds(t, E, x, x) /\ RootBlack(t, x)
          /\ \/ x = Root(t) /\ Balanced(t, E, L, Null, "left")
             \/ p \in E /\ \E s \in Side : Kid(t, s, p) = x /\ Balanced(t, E, L, p, s)
      BY <1>3 DEF EraseState
    <2>2. f[x] = x /\ f[p] = IF p = old THEN new ELSE p
      BY <1>1, <1>3, <2>1
    <2> DEFINE q == IF p = old THEN new ELSE p
    <2>3. x \in F \cup {Null} /\ q \in F \cup {Null} /\ (p \in E => q \in F)
      BY <1>3, <2>1
    <2>4. Reds(r, F, x, x) /\ RootBlack(r, x)
      BY <1>1, <2>1, <2>2, SameReds
    <2>5. CASE x = Root(t) /\ Balanced(t, E, L, Null, "left")
      <3>1. Balanced(r, F, M, f[Null], "left")
        BY <1>1, <2>1, <2>5, SameBalanced
      <3>2. x = Root(r)
        BY <1>1, <2>1, <2>2, <2>5 DEF Same
      <3> QED BY <1>1, <2>1, <2>3, <2>4, <3>1, <3>2 DEF EraseState
    <2>6. ASSUME p \in E, NEW s \in Side, Kid(t, s, p) = x, Balanced(t, E, L, p, s)
          PROVE  EraseState(r, x, q, F, X, M)
      <3>1. Balanced(r, F, M, q, s)
        BY <1>1, <2>1, <2>2, <2>6, SameBalanced
      <3>2. Kid(r, s, q) = x
        BY <1>1, <2>1, <2>2, <2>6 DEF Same
      <3> HIDE DEF q
      <3> QED BY <1>1, <2>1, <2>3, <2>4, <2>6, <3>1, <3>2 DEF EraseState
    <2> QED BY <2>1, <2>5, <2>6
  <1> QED BY <1>2, <1>3

\* in a tree repaired,
LEMMA TakePlaceRepaired ==
    ASSUME NEW t, NEW E, NEW L, NEW X, NEW old, NEW new, NEW r, NEW M, NEW F,
           old \in E, new \in Node, new \notin E, new \in X, r = TakePlace(t, old, new),
           M = WithPlace(L, old, new), F = (E \ {old}) \cup {new}, Repaired(t, E, X, L)
    PROVE  Repaired(r, F, X, M)
  BY TakePlaceState

\* and in one under repair.
LEMMA TakePlaceErase ==
    ASSUME NEW t, NEW E, NEW L, NEW X, NEW old, NEW new, NEW r, NEW M, NEW F, NEW x, NEW p, NEW q,
           old \in E, new \in Node, new \notin E, new \in X, r = TakePlace(t, old, new),
           M = WithPlace(L, old, new), F = (E \ {old}) \cup {new},
           EraseState(t, x, p, E, X, L), x # old,
           p = old => q = new, p # old => q = p
    PROVE  EraseState(r, x, q, F, X, M)
  <1>1. EraseState(r, x, IF p = old THEN new ELSE p, F, X, M)
    BY TakePlaceState
  <1> QED BY <1>1

-----------------------------------------------------------------------------
(* remove and replace. *)

\* The successor of a node with a right child has no left one.
LEMMA SuccessorIs ==
    ASSUME NEW t, NEW E, NEW L, NEW old, NEW n, NEW child, NEW p,
           Shape(t, E, L), Clean(t, E), old \in E, Kid(t, "right", old) # Null,
           n = Extreme(t, Kid(t, "right", old), "left"), child = Kid(t, "right", n), p = Up(t, n)
    PROVE  /\ n \in E /\ n # old /\ Kid(t, "left", n) = Null /\ Pos(L, n) = Pos(L, old) + 1
           /\ p \in E /\ child # old /\ Pos(L, n) \in Int /\ Pos(L, old) \in Int
           /\ Kid(t, "left", p) = n <=> p # old
  <1> DEFINE c == Kid(t, "right", old)
  <1>0. /\ E \subseteq Node /\ L \in Labels /\ Null \notin Node
        /\ \A y \in E : /\ Pos(L, y) \in Int /\ Edge(L, "left", y) \in Int /\ Edge(L, "right", y) \in Int
                        /\ Edge(L, "left", y) <= Pos(L, y) /\ Pos(L, y) <= Edge(L, "right", y)
        /\ \A y \in E, z \in E : Pos(L, y) = Pos(L, z) => y = z
    BY SideIs, LabelType DEF Shape, Placed
  <1>1. c \in E /\ Edge(L, "left", c) = Pos(L, old) + 1
    BY SideIs, ChildIs, ChildEdges
  <1>2. /\ n \in E /\ n # Null /\ Kid(t, "left", n) = Null
        /\ Edge(L, "left", n) = Edge(L, "left", c) /\ Pos(L, n) = Edge(L, "left", c)
    BY <1>1, SideIs, ExtremeIs
  <1> HIDE DEF c
  <1>3. n # old
    BY <1>0, <1>1, <1>2
  <1>4. n # Root(t)
    <2> SUFFICES ASSUME n = Root(t) PROVE FALSE
      OBVIOUS
    <2>1. Edge(L, "left", n) = 1
      BY <1>2 DEF Shape, Rooted
    <2>2. 1 <= Pos(L, old)
      BY <1>0, Places
    <2> QED BY <1>0, <1>1, <1>2, <2>1, <2>2
  <1>5. p \in E /\ (Kid(t, "left", p) = n \/ Kid(t, "right", p) = n)
    BY <1>2, <1>4 DEF Shape, Joined
  <1>6. Kid(t, "left", p) = n => p # old
    <2> SUFFICES ASSUME Kid(t, "left", p) = n, p = old PROVE FALSE
      OBVIOUS
    <2>1. Edge(L, "right", n) = Pos(L, old) - 1
      BY <1>2, <1>5, ChildEdges
    <2> QED BY <1>0, <1>1, <1>2, <2>1
  <1>7. Kid(t, "right", p) = n => p = old
    <2> SUFFICES ASSUME Kid(t, "right", p) = n PROVE p = old
      OBVIOUS
    <2>1. Edge(L, "left", n) = Pos(L, p) + 1
      BY <1>2, <1>5, ChildEdges
    <2>2. Pos(L, p) = Pos(L, old)
      BY <1>0, <1>1, <1>2, <1>5, <2>1
    <2> QED BY <1>0, <1>5, <2>2
  <1>8. child # old
    <2> SUFFICES ASSUME child = old PROVE FALSE
      OBVIOUS
    <2>1. child # Null
      BY <1>0
    <2>2. Edge(L, "left", child) = Pos(L, n) + 1
      BY <1>2, <2>1, ChildEdges
    <2> QED BY <1>0, <1>1, <1>2, <2>2
  <1> QED BY <1>0, <1>1, <1>2, <1>3, <1>5, <1>6, <1>7, <1>8

\* Taking out an element by moving its successor to its place.
LEMMA SpliceSuccessorIs ==
    ASSUME NEW t, NEW E, NEW L, NEW old, Settled(t, E, L), old \in E, Kid(t, "right", old) # Null
    PROVE  \E M : /\ Repaired(SpliceSuccessor(t, old), E \ {old}, E, M)
                  /\ Pulled(L, M, E \ {old}, Pos(L, old))
  <1> DEFINE n == Extreme(t, Kid(t, "right", old), "left")
             child == Kid(t, "right", n)
             p == Up(t, n)
             a == SetParent(t, child, p)
             cut == Cut(t, n, child)
             moved == TakePlace(cut, old, n)
             q == IF p = old THEN n ELSE p
             J == WithoutSpot(L, Pos(L, n))
             K == WithPlace(J, old, n)
             D == E \ {n}
             F == (D \ {old}) \cup {n}
  <1>0. /\ Shape(t, E, L) /\ Clean(t, E) /\ t \in Tree /\ E \subseteq Node /\ Null \notin Node
        /\ L \in Labels
    BY SideIs DEF Settled, Shape
  <1>1. /\ n \in E /\ n # old /\ Kid(t, "left", n) = Null /\ Pos(L, n) = Pos(L, old) + 1
        /\ p \in E /\ child # old /\ Pos(L, n) \in Int /\ Pos(L, old) \in Int
        /\ Kid(t, "left", p) = n <=> p # old
    BY <1>0, SuccessorIs
  <1>2. SideOf(a, p, n) = IF p = old THEN "right" ELSE "left"
    <2>1. child \in Node \cup {Null} /\ p \in Node /\ p \in Node \cup {Null}
      BY <1>0, <1>1, FieldsType, SideIs
    <2>2. Kid(a, "left", p) = Kid(t, "left", p)
      BY <1>0, <2>1, SetParentIs, SideIs
    <2> HIDE DEF a
    <2> QED BY <1>1, <2>2, SideOfIs
  <1>3. cut = [a EXCEPT !.kid[IF p = old THEN "right" ELSE "left"][p] = child]
    <2>1. p # Null
      BY <1>0, <1>1
    <2>2. cut = Relink(a, p, n, child)
      BY Zenon DEF Cut, Up
    <2> HIDE DEF a, cut, child, p, n
    <2>3. cut = [a EXCEPT !.kid[SideOf(a, p, n)][p] = child]
      BY <2>1, <2>2, Zenon DEF Relink
    <2> QED BY <1>2, <2>3, Zenon
  <1>4. SpliceSuccessor(t, old) = IF t.red[n] THEN moved ELSE EraseColor(moved, child, q)
    <2> DEFINE cut0 == [a EXCEPT !.kid[IF p = old THEN "right" ELSE "left"][p] = child]
    <2>1. SpliceSuccessor(t, old) = IF t.red[n] THEN TakePlace(cut0, old, n)
                                    ELSE EraseColor(TakePlace(cut0, old, n), child, q)
      BY Zenon DEF SpliceSuccessor, Kid, Up
    <2>2. cut = cut0
      BY <1>3
    <2> HIDE DEF cut0, cut, a, n, p, child, q
    <2> QED BY <2>1, <2>2, Zenon
  <1>5. n \in Red(t) <=> t.red[n]
    BY <1>0, <1>1 DEF Red
  <1> HIDE DEF n, child, p, a, cut, moved, q
  <1>6. Kid(t, Other("right"), n) = Null /\ "right" \in Side
    BY <1>1, SideIs
  <1>7. /\ n \in Red(t) => Repaired(cut, D, E, J)
        /\ n \notin Red(t) => EraseState(cut, child, p, D, E, J)
    BY <1>1, <1>6, CutState DEF child, p, cut
  <1>8. old \in D /\ n \in Node /\ n \notin D /\ F = E \ {old}
    BY <1>0, <1>1
  <1>9. /\ Repaired(cut, D, E, J) => Repaired(moved, F, E, K)
        /\ EraseState(cut, child, p, D, E, J) => EraseState(moved, child, q, F, E, K)
    <2>0. moved = TakePlace(cut, old, n) /\ K = WithPlace(J, old, n) /\ F = (D \ {old}) \cup {n}
      BY DEF moved
    <2>00. old \in D /\ n \in Node /\ n \notin D /\ n \in E
      BY <1>1, <1>8
    <2> HIDE DEF D, J, K, F
    <2>1. Repaired(cut, D, E, J) => Repaired(moved, F, E, K)
      BY <2>0, <2>00, TakePlaceRepaired
    <2>2. ASSUME EraseState(cut, child, p, D, E, J)
          PROVE  EraseState(moved, child, q, F, E, K)
      <3>1. (p = old => q = n) /\ (p # old => q = p)
        BY DEF q
      <3> QED BY <1>1, <2>0, <2>00, <2>2, <3>1, TakePlaceErase
    <2> QED BY <2>1, <2>2
  <1>10. Pulled(L, K, E \ {old}, Pos(L, old))
    <2> SUFFICES ASSUME NEW x \in E, x # old PROVE Pos(K, x) = Pull(Pos(L, x), Pos(L, old))
      BY DEF Pulled
    <2>1. J \in Labels /\ \A z \in Node : Pos(J, z) = Pull(Pos(L, z), Pos(L, n))
      BY <1>0, <1>1, WithoutSpotIs
    <2>2. Pos(K, x) = IF x = n THEN Pos(J, old) ELSE Pos(J, x)
      <3> HIDE DEF J
      <3> QED BY <1>0, <1>1, <2>1, WithPlaceIs
    <2> HIDE DEF J, K
    <2>3. Pos(L, x) \in Int /\ (x # n => Pos(L, x) # Pos(L, n))
      BY <1>0, <1>1, LabelType DEF Shape, Placed
    <2>4. old \in Node /\ x \in Node
      BY <1>0
    <2> QED BY <1>1, <2>1, <2>2, <2>3, <2>4 DEF Pull
  <1> HIDE DEF K, J, F, D
  <1>11. CASE n \in Red(t)
    BY <1>4, <1>5, <1>7, <1>8, <1>9, <1>10, <1>11
  <1>12. CASE n \notin Red(t)
    <2>1. SpliceSuccessor(t, old) = EraseColor(moved, child, q)
      BY <1>4, <1>5, <1>12
    <2>2. PICK M : Repaired(EraseColor(moved, child, q), F, E, M) /\ SamePlaces(K, M)
      BY <1>7, <1>9, <1>12, EraseColorIs
    <2>3. Pulled(L, M, E \ {old}, Pos(L, old))
      BY <1>0, <1>10, <2>2 DEF Pulled, SamePlaces
    <2> QED BY <1>8, <2>1, <2>2, <2>3
  <1> QED BY <1>11, <1>12

\* Clearing the links of a node that is out leaves the tree settled.
LEMMA BlankSettled ==
    ASSUME NEW t, NEW F, NEW X, NEW L, NEW n, NEW r, Repaired(t, F, X, L), n \in Node, n \notin F,
           X \subseteq F \cup {n}, r = Blank(t, n)
    PROVE  Settled(r, F, L)
  <1>1. /\ Shape(t, F, L) /\ t \in Tree /\ L \in Labels /\ F \subseteq Node /\ Null \notin Node
        /\ Balanced(t, F, L, Null, "left") /\ Reds(t, F, Null, Null) /\ RootBlack(t, Null)
        /\ Clean(t, X)
    BY SideIs DEF Repaired, Shape
  <1>2. /\ r \in Tree /\ Root(r) = Root(t) /\ Red(r) = Red(t) \ {n}
        /\ \A z \in Node : Up(r, z) = IF z = n THEN Null ELSE Up(t, z)
        /\ \A d \in Side, z \in Node : Kid(r, d, z) = IF z = n THEN Null ELSE Kid(t, d, z)
    BY <1>1, BlankIs
  <1>3. Shape(r, F, L)
    BY <1>1, <1>2, ShapeSame
  <1>4. \A x \in F, d \in Side : Kid(r, d, x) = Kid(t, d, x) /\ Kid(t, d, x) \in F \cup {Null}
    BY <1>1, <1>2 DEF Shape, Joined
  <1>5. \A z \in F \cup {Null} : (z \in Red(r) <=> z \in Red(t)) /\ Height(r, L, z) = Height(t, L, z)
    BY <1>1, <1>2 DEF Height
  <1>6. Balanced(r, F, L, Null, "left") /\ Reds(r, F, Null, Null)
    BY <1>1, <1>4, <1>5 DEF Balanced, Reds
  <1>7. RootBlack(r, Null)
    BY <1>1, <1>2 DEF RootBlack
  <1>8. Clean(r, F)
    <2> SUFFICES ASSUME NEW z \in Node, z \notin F
                 PROVE  Up(r, z) = Null /\ z \notin Red(r) /\ \A d \in Side : Kid(r, d, z) = Null
      BY DEF Clean
    <2>1. CASE z = n
      BY <1>2, <2>1
    <2>2. CASE z # n
      <3>1. z \notin X
        BY <2>2
      <3> QED BY <1>1, <1>2, <2>2, <3>1 DEF Clean
    <2> QED BY <2>1, <2>2
  <1> QED BY <1>3, <1>6, <1>7, <1>8 DEF Settled

\* remove leaves a red-black tree of the other elements, in their order.
LEMMA RBRemoveIs ==
    ASSUME NEW t, NEW E, NEW L, NEW n, Settled(t, E, L), n \in E
    PROVE  \E M : /\ Settled(RBRemove(t, n), E \ {n}, M)
                  /\ Pulled(L, M, E \ {n}, Pos(L, n))
  <1> DEFINE few == Kid(t, "left", n) = Null \/ Kid(t, "right", n) = Null
             a == IF few THEN Splice(t, n) ELSE SpliceSuccessor(t, n)
  <1>1. RBRemove(t, n) = Blank(a, n)
    <2>1. few <=> Null \in {t.kid["left"][n], t.kid["right"][n]}
      BY Zenon DEF Kid
    <2> HIDE DEF few
    <2> QED BY <2>1, Zenon DEF RBRemove
  <1>2. \E M : Repaired(a, E \ {n}, E, M) /\ Pulled(L, M, E \ {n}, Pos(L, n))
    <2>1. CASE few
      BY <2>1, SpliceIs
    <2>2. CASE ~few
      BY <2>2, SpliceSuccessorIs
    <2> QED BY <2>1, <2>2
  <1> HIDE DEF a
  <1>3. PICK M : Repaired(a, E \ {n}, E, M) /\ Pulled(L, M, E \ {n}, Pos(L, n))
    BY <1>2
  <1>4. n \in Node /\ n \notin E \ {n} /\ E \subseteq (E \ {n}) \cup {n}
    BY DEF Settled, Shape
  <1>5. Settled(Blank(a, n), E \ {n}, M)
    BY <1>3, <1>4, BlankSettled
  <1> QED BY <1>1, <1>3, <1>5

\* The element new is where old was, and no other has moved.
Renamed(L, M, E, old, new) == Pos(M, new) = Pos(L, old) /\ \A x \in E \ {old} : Pos(M, x) = Pos(L, x)

\* replace leaves the order as it was, the new element for the old.
LEMMA RBReplaceIs ==
    ASSUME NEW t, NEW E, NEW L, NEW old, NEW new, Settled(t, E, L), old \in E,
           new \in Node, new \notin E
    PROVE  \E M : /\ Settled(RBReplace(t, old, new), (E \ {old}) \cup {new}, M)
                  /\ Renamed(L, M, E, old, new)
  <1> DEFINE F == (E \ {old}) \cup {new}
             X == E \cup {new}
             M == WithPlace(L, old, new)
             a == TakePlace(t, old, new)
  <1>1. Repaired(t, E, X, L)
    <2>1. Clean(t, X)
      BY DEF Settled, Clean
    <2> QED BY <2>1 DEF Settled, Repaired
  <1>2. RBReplace(t, old, new) = Blank(a, old)
    BY Zenon DEF RBReplace
  <1>3. new \in X /\ old \in Node /\ E \subseteq Node /\ L \in Labels /\ old \notin F
        /\ X \subseteq F \cup {old}
    BY DEF Settled, Shape
  <1>4. Repaired(a, F, X, M)
    <2>1. F = (E \ {old}) \cup {new} /\ M = WithPlace(L, old, new) /\ a = TakePlace(t, old, new)
      OBVIOUS
    <2> HIDE DEF F, X, M, a
    <2> QED BY <1>1, <1>3, <2>1, TakePlaceRepaired
  <1>5. Renamed(L, M, E, old, new)
    <2>1. \A x \in Node : Pos(M, x) = IF x = new THEN Pos(L, old) ELSE Pos(L, x)
      BY <1>3, WithPlaceIs
    <2> HIDE DEF M
    <2> QED BY <1>3, <2>1 DEF Renamed
  <1> HIDE DEF F, X, M, a
  <1>6. Settled(Blank(a, old), F, M)
    BY <1>3, <1>4, BlankSettled
  <1> QED BY <1>2, <1>5, <1>6 DEF F

-----------------------------------------------------------------------------
(* What the tree holds, in order. *)

Order(t, E, L) == [i \in 1..Highest(t, L) |-> CHOOSE x \in E : Pos(L, x) = i]

\* Order lists the elements by their places.
LEMMA OrderIs ==
    ASSUME NEW t, NEW E, NEW L, NEW q, Shape(t, E, L), q = Order(t, E, L)
    PROVE  /\ q \in Seq(Node) /\ Len(q) = Highest(t, L) /\ Len(q) \in Nat /\ DOMAIN q = 1..Len(q)
           /\ \A x \in E : Pos(L, x) \in 1..Len(q) /\ q[Pos(L, x)] = x
           /\ \A i \in 1..Len(q) : q[i] \in E /\ Pos(L, q[i]) = i
           /\ ToSet(q) = E /\ IsInjective(q)
  <1>1. /\ Highest(t, L) \in Nat /\ \A x \in E : Pos(L, x) \in 1..Highest(t, L)
        /\ \A i \in 1..Highest(t, L) : \E x \in E : Pos(L, x) = i
    BY Places
  <1>2. E \subseteq Node /\ \A x \in E, y \in E : Pos(L, x) = Pos(L, y) => x = y
    BY DEF Shape, Placed
  <1>3. \A i \in 1..Highest(t, L) : q[i] \in E /\ Pos(L, q[i]) = i
    BY <1>1 DEF Order
  <1>4. q \in [1..Highest(t, L) -> Node]
    <2>1. \A i \in 1..Highest(t, L) : (CHOOSE x \in E : Pos(L, x) = i) \in Node
      BY <1>1, <1>2
    <2> QED BY <2>1 DEF Order
  <1>5. q \in Seq(Node) /\ Len(q) = Highest(t, L) /\ DOMAIN q = 1..Highest(t, L)
    BY <1>1, <1>4
  <1>6. \A x \in E : q[Pos(L, x)] = x
    BY <1>1, <1>2, <1>3
  <1>7. ToSet(q) = E
    <2>1. \A x : x \in ToSet(q) <=> \E i \in 1..Len(q) : q[i] = x
      BY <1>5, SetOfSeq
    <2> QED BY <1>1, <1>3, <1>5, <1>6, <2>1
  <1>8. IsInjective(q)
    BY <1>1, <1>3, <1>5 DEF IsInjective
  <1> QED BY <1>1, <1>3, <1>5, <1>6, <1>7, <1>8

\* A stretch of a sequence is cut at k.
LEMMA SubSeqSplit ==
    ASSUME NEW S, NEW q \in Seq(S), NEW lo \in 1..Len(q), NEW k \in lo..Len(q), NEW hi \in k..Len(q)
    PROVE  SubSeq(q, lo, hi) = SubSeq(q, lo, k - 1) \o <<q[k]>> \o SubSeq(q, k + 1, hi)
  <1>1. Len(q) \in Nat /\ lo \in 1..(Len(q) + 1) /\ k \in (lo - 1)..Len(q)
    BY LenProperties
  <1>2. SubSeq(q, lo, k) \o SubSeq(q, k + 1, hi) = SubSeq(q, lo, hi)
    BY <1>1, ConcatAdjacentSubSeq
  <1>3. SubSeq(q, lo, k) = SubSeq(q, lo, k - 1) \o <<q[k]>>
    BY SubSeqRecursiveSecond
  <1> QED BY <1>2, <1>3

\* A leaf is a tree of one.
LEMMA SingleOf == ASSUME NEW n, n \in Node PROVE <<>> \o <<n>> \o <<>> = <<n>>
  <1>1. <<n>> \in Seq(Node)
    OBVIOUS
  <1>2. <<>> \o <<n>> = <<n>> /\ <<n>> \o <<>> = <<n>>
    BY <1>1, ConcatEmptySeq
  <1> QED BY <1>2

\* The recursion of InOrder.
InOrderOf(t) ==
    LET in[n \in Link] ==
            IF n = Null THEN <<>> ELSE in[t.kid["left"][n]] \o <<n>> \o in[t.kid["right"][n]]
    IN  in

\* What it yields is the stretch of places of the subtree.
Spanned(t, E, L) ==
    [n \in Link |-> IF n = Null THEN <<>>
                    ELSE IF n \in E THEN SubSeq(Order(t, E, L), Edge(L, "left", n), Edge(L, "right", n))
                    ELSE <<n>>]

\* Those stretches satisfy the recursion,
LEMMA SpannedIs ==
    ASSUME NEW t, NEW E, NEW L, NEW f, Shape(t, E, L), Clean(t, E), f = Spanned(t, E, L)
    PROVE  f = [n \in Link |-> IF n = Null THEN <<>>
                               ELSE f[Kid(t, "left", n)] \o <<n>> \o f[Kid(t, "right", n)]]
  <1> DEFINE q == Order(t, E, L)
  <1>1. /\ q \in Seq(Node) /\ Len(q) \in Nat /\ Len(q) = Highest(t, L)
        /\ \A x \in E : Pos(L, x) \in 1..Len(q) /\ q[Pos(L, x)] = x
    BY OrderIs
  <1>2. E \subseteq Node /\ Null \notin Node /\ t \in Tree
    BY SideIs DEF Shape
  <1>3. /\ f[Null] = <<>>
        /\ \A n \in E : f[n] = SubSeq(q, Edge(L, "left", n), Edge(L, "right", n))
        /\ \A n \in Node : n \notin E => f[n] = <<n>>
        /\ f = [n \in Link |-> f[n]]
    BY <1>2 DEF Spanned, Link
  <1> HIDE DEF q
  <1>4. ASSUME NEW n \in E PROVE f[n] = f[Kid(t, "left", n)] \o <<n>> \o f[Kid(t, "right", n)]
    <2> DEFINE lo == Edge(L, "left", n)
               hi == Edge(L, "right", n)
               k == Pos(L, n)
    <2>1. k \in Int /\ lo \in Int /\ hi \in Int /\ lo <= k /\ k <= hi
      BY EdgesType
    <2>2. 1 <= lo /\ hi <= Len(q)
      BY <1>1, Spans
    <2>3. SubSeq(q, lo, hi) = SubSeq(q, lo, k - 1) \o <<q[k]>> \o SubSeq(q, k + 1, hi)
      <3>1. lo \in 1..Len(q) /\ k \in lo..Len(q) /\ hi \in k..Len(q)
        BY <1>1, <2>1, <2>2
      <3> HIDE DEF lo, k, hi
      <3> QED BY <1>1, <3>1, SubSeqSplit
    <2>4. f[Kid(t, "left", n)] = SubSeq(q, lo, k - 1)
      <3>1. CASE Kid(t, "left", n) = Null
        <4>1. lo = k
          BY <3>1, ChildEdges
        <4>2. SubSeq(q, lo, k - 1) = <<>>
          BY <2>1, <4>1, SubSeqEmpty
        <4> QED BY <1>3, <3>1, <4>2
      <3>2. CASE Kid(t, "left", n) # Null
        <4>1. /\ Kid(t, "left", n) \in E /\ Edge(L, "left", Kid(t, "left", n)) = lo
              /\ Edge(L, "right", Kid(t, "left", n)) = k - 1
          BY <3>2, SideIs, ChildIs, ChildEdges
        <4> QED BY <1>3, <4>1
      <3> QED BY <3>1, <3>2
    <2>5. f[Kid(t, "right", n)] = SubSeq(q, k + 1, hi)
      <3>1. CASE Kid(t, "right", n) = Null
        <4>1. hi = k
          BY <3>1, ChildEdges
        <4>2. SubSeq(q, k + 1, hi) = <<>>
          BY <2>1, <4>1, SubSeqEmpty
        <4> QED BY <1>3, <3>1, <4>2
      <3>2. CASE Kid(t, "right", n) # Null
        <4>1. /\ Kid(t, "right", n) \in E /\ Edge(L, "left", Kid(t, "right", n)) = k + 1
              /\ Edge(L, "right", Kid(t, "right", n)) = hi
          BY <3>2, SideIs, ChildIs, ChildEdges
        <4> QED BY <1>3, <4>1
      <3> QED BY <3>1, <3>2
    <2>6. q[k] = n /\ f[n] = SubSeq(q, lo, hi)
      BY <1>1, <1>3
    <2> QED BY <2>3, <2>4, <2>5, <2>6
  <1>5. ASSUME NEW n \in Node, n \notin E
        PROVE  f[n] = f[Kid(t, "left", n)] \o <<n>> \o f[Kid(t, "right", n)]
    <2>1. Kid(t, "left", n) = Null /\ Kid(t, "right", n) = Null
      BY <1>5, SideIs DEF Clean
    <2>2. <<>> \o <<n>> \o <<>> = <<n>>
      BY SingleOf
    <2> QED BY <1>3, <1>5, <2>1, <2>2
  <1>6. \A n \in Link : f[n] = IF n = Null THEN <<>>
                               ELSE f[Kid(t, "left", n)] \o <<n>> \o f[Kid(t, "right", n)]
    BY <1>3, <1>4, <1>5 DEF Link
  <1> QED BY <1>3, <1>6

\* and so InOrder lists the elements by their places.
LEMMA InOrderIs ==
    ASSUME NEW t, NEW E, NEW L, Shape(t, E, L), Clean(t, E)
    PROVE  InOrder(t) = Order(t, E, L)
  <1> DEFINE g == Spanned(t, E, L)
             f == InOrderOf(t)
             q == Order(t, E, L)
  <1>1. g = [n \in Link |-> IF n = Null THEN <<>>
                            ELSE g[Kid(t, "left", n)] \o <<n>> \o g[Kid(t, "right", n)]]
    BY SpannedIs
  <1>2. E \subseteq Node /\ Null \notin Node /\ t \in Tree
    BY SideIs DEF Shape
  <1>3. \A n \in E : g[n] = SubSeq(q, Edge(L, "left", n), Edge(L, "right", n))
    BY <1>2 DEF Spanned, Link
  <1> HIDE DEF g
  <1>4. f = [n \in Link |-> IF n = Null THEN <<>>
                            ELSE f[Kid(t, "left", n)] \o <<n>> \o f[Kid(t, "right", n)]]
    BY <1>1, Zenon DEF InOrderOf, Kid
  <1>5. InOrder(t) = f[Root(t)]
    BY Zenon DEF InOrder, InOrderOf, Root
  <1> HIDE DEF f
  <1>6. /\ f[Null] = <<>> /\ g[Null] = <<>>
        /\ \A n \in E : /\ f[n] = f[Kid(t, "left", n)] \o <<n>> \o f[Kid(t, "right", n)]
                        /\ g[n] = g[Kid(t, "left", n)] \o <<n>> \o g[Kid(t, "right", n)]
    <2>1. \A n \in Link : f[n] = IF n = Null THEN <<>>
                            ELSE f[Kid(t, "left", n)] \o <<n>> \o f[Kid(t, "right", n)]
      BY <1>4
    <2>2. \A n \in Link : g[n] = IF n = Null THEN <<>>
                            ELSE g[Kid(t, "left", n)] \o <<n>> \o g[Kid(t, "right", n)]
      BY <1>1
    <2> QED BY <1>2, <2>1, <2>2 DEF Link
  <1>7. Passes \in Nat /\ \A n \in E : Width(L, n) \in Nat /\ Width(L, n) < Passes
    BY Places, WidthBound DEF Passes
  <1> DEFINE S == {k \in Nat : \A n \in E : Width(L, n) < k => f[n] = g[n]}
  <1>8. 0 \in S
    BY <1>7
  <1>9. ASSUME NEW k \in 0..(Passes - 1), k \in S PROVE k + 1 \in S
    <2>1. ASSUME NEW n \in E, Width(L, n) < k + 1 PROVE f[n] = g[n]
      <3>1. ASSUME NEW d \in Side PROVE f[Kid(t, d, n)] = g[Kid(t, d, n)]
        <4>1. CASE Kid(t, d, n) = Null
          BY <1>6, <4>1
        <4>2. CASE Kid(t, d, n) # Null
          <5>1. Kid(t, d, n) \in E /\ Width(L, Kid(t, d, n)) < Width(L, n)
            BY <4>2, ChildIs, ChildWidth
          <5> QED BY <1>7, <1>9, <2>1, <5>1
        <4> QED BY <4>1, <4>2
      <3> QED BY <1>6, <3>1, SideIs
    <2> QED BY <1>7, <2>1
  <1> HIDE DEF S
  <1>10. Passes \in S
    BY <1>7, <1>8, <1>9, IntervalInduction
  <1>11. \A n \in E : f[n] = g[n]
    BY <1>7, <1>10 DEF S
  <1>12. q \in Seq(Node) /\ Len(q) = Highest(t, L)
    BY OrderIs
  <1> HIDE DEF q
  <1>13. CASE Root(t) = Null
    <2>1. Len(q) = 0
      BY <1>12, <1>13 DEF Highest
    <2> QED BY <1>5, <1>6, <1>12, <1>13, <2>1, EmptySeq DEF q
  <1>14. CASE Root(t) # Null
    <2>1. Root(t) \in E /\ Edge(L, "left", Root(t)) = 1 /\ Edge(L, "right", Root(t)) = Len(q)
      BY <1>12, <1>14 DEF Shape, Rooted, Highest
    <2>2. SubSeq(q, 1, Len(q)) = q
      BY <1>12, SubSeqFull
    <2> QED BY <1>3, <1>5, <1>11, <2>1, <2>2 DEF q
  <1> QED BY <1>13, <1>14

\* The recursion of BlackHeight.
Blacks(t) ==
    LET height[n \in Link] ==
            IF n = Null THEN 0
            ELSE LET l == height[t.kid["left"][n]]
                     r == height[t.kid["right"][n]]
                 IN  IF l # r \/ l = -1 THEN -1 ELSE l + (IF t.red[n] THEN 0 ELSE 1)
    IN  height

\* The heights a node has above those of its children.
Above(t, n, l, r) == IF l # r \/ l = -1 THEN -1 ELSE l + (IF t.red[n] THEN 0 ELSE 1)

\* What it yields for a balanced tree.
Heights(t, E, L) ==
    [n \in Link |-> IF n = Null THEN 0 ELSE IF n \in E THEN Height(t, L, n) ELSE 1]

\* The paths down from a node have the black nodes of its label.
LEMMA BlackHeightIs ==
    ASSUME NEW t, NEW E, NEW L, Settled(t, E, L)
    PROVE  BlackHeight(t) # -1
  <1> DEFINE g == Heights(t, E, L)
             f == Blacks(t)
  <1>1. /\ Shape(t, E, L) /\ Clean(t, E) /\ Balanced(t, E, L, Null, "left")
        /\ E \subseteq Node /\ Null \notin Node /\ t \in Tree /\ L \in Labels
    BY SideIs DEF Settled, Shape
  <1>2. \A n \in E, d \in Side : /\ Black(L, n) >= 0 /\ Black(L, n) \in Int
                                 /\ Kid(t, d, n) \in E \cup {Null}
                                 /\ Height(t, L, Kid(t, d, n)) = Black(L, n)
    <2> SUFFICES ASSUME NEW n \in E, NEW d \in Side
                 PROVE  /\ Black(L, n) >= 0 /\ Black(L, n) \in Int
                        /\ Kid(t, d, n) \in E \cup {Null}
                        /\ Height(t, L, Kid(t, d, n)) = Black(L, n)
      OBVIOUS
    <2>1. Short(n, d, Null, "left") = 0
      BY <1>1 DEF Short
    <2> QED BY <1>1, <2>1, ShortIs
  <1>3. \A n \in Node : n \in Red(t) <=> t.red[n]
    BY DEF Red
  <1>4. /\ g[Null] = 0 /\ \A n \in E : g[n] = Height(t, L, n)
        /\ \A n \in Node : n \notin E => g[n] = 1
        /\ g = [n \in Link |-> g[n]]
    BY <1>1 DEF Heights, Link
  <1> HIDE DEF g
  <1>5. \A n \in Link : g[n] = IF n = Null THEN 0
                               ELSE Above(t, n, g[Kid(t, "left", n)], g[Kid(t, "right", n)])
    <2>1. ASSUME NEW n \in E PROVE g[n] = Above(t, n, g[Kid(t, "left", n)], g[Kid(t, "right", n)])
      <3>1. \A d \in Side : g[Kid(t, d, n)] = Black(L, n)
        <4> SUFFICES ASSUME NEW d \in Side PROVE g[Kid(t, d, n)] = Black(L, n)
          OBVIOUS
        <4>1. CASE Kid(t, d, n) = Null
          BY <1>2, <1>4, <4>1, HeightIs
        <4>2. CASE Kid(t, d, n) # Null
          BY <1>2, <1>4, <4>2
        <4> QED BY <4>1, <4>2
      <3>2. g[Kid(t, "left", n)] = Black(L, n) /\ g[Kid(t, "right", n)] = Black(L, n)
        BY <3>1, SideIs
      <3>3. Above(t, n, Black(L, n), Black(L, n)) = Black(L, n) + (IF t.red[n] THEN 0 ELSE 1)
        <4>1. Black(L, n) # -1
          BY <1>2, SideIs
        <4> QED BY <4>1 DEF Above
      <3>4. n # Null /\ n \in Node
        BY <1>1
      <3>5. Height(t, L, n) = Black(L, n) + (IF t.red[n] THEN 0 ELSE 1)
        BY <1>3, <3>4 DEF Height
      <3> QED BY <1>4, <3>2, <3>3, <3>5
    <2>2. ASSUME NEW n \in Node, n \notin E
          PROVE  g[n] = Above(t, n, g[Kid(t, "left", n)], g[Kid(t, "right", n)])
      <3>1. Kid(t, "left", n) = Null /\ Kid(t, "right", n) = Null /\ ~t.red[n]
        BY <1>1, <1>3, <2>2, SideIs DEF Clean
      <3>2. Above(t, n, 0, 0) = 1
        BY <3>1 DEF Above
      <3> QED BY <1>4, <2>2, <3>1, <3>2
    <2> QED BY <1>1, <1>4, <2>1, <2>2 DEF Link
  <1>6. g = [n \in Link |-> IF n = Null THEN 0
                            ELSE Above(t, n, g[Kid(t, "left", n)], g[Kid(t, "right", n)])]
    BY <1>4, <1>5
  <1>7. f = [n \in Link |-> IF n = Null THEN 0
                            ELSE Above(t, n, f[Kid(t, "left", n)], f[Kid(t, "right", n)])]
    BY <1>6, Zenon DEF Blacks, Kid, Above
  <1>8. BlackHeight(t) = f[Root(t)]
    BY Zenon DEF BlackHeight, Blacks, Root
  <1> HIDE DEF f
  <1>9. /\ f[Null] = 0 /\ g[Null] = 0
        /\ \A n \in E : /\ f[n] = Above(t, n, f[Kid(t, "left", n)], f[Kid(t, "right", n)])
                        /\ g[n] = Above(t, n, g[Kid(t, "left", n)], g[Kid(t, "right", n)])
    <2>1. \A n \in Link : f[n] = IF n = Null THEN 0
                            ELSE Above(t, n, f[Kid(t, "left", n)], f[Kid(t, "right", n)])
      BY <1>7
    <2> QED BY <1>1, <1>5, <2>1 DEF Link
  <1>10. Passes \in Nat /\ \A n \in E : Width(L, n) \in Nat /\ Width(L, n) < Passes
    BY <1>1, Places, WidthBound DEF Passes
  <1> DEFINE S == {k \in Nat : \A n \in E : Width(L, n) < k => f[n] = g[n]}
  <1>11. 0 \in S
    BY <1>10
  <1>12. ASSUME NEW k \in 0..(Passes - 1), k \in S PROVE k + 1 \in S
    <2>1. ASSUME NEW n \in E, Width(L, n) < k + 1 PROVE f[n] = g[n]
      <3>1. ASSUME NEW d \in Side PROVE f[Kid(t, d, n)] = g[Kid(t, d, n)]
        <4>1. CASE Kid(t, d, n) = Null
          BY <1>9, <4>1
        <4>2. CASE Kid(t, d, n) # Null
          <5>1. Kid(t, d, n) \in E /\ Width(L, Kid(t, d, n)) < Width(L, n)
            BY <1>1, <4>2, ChildIs, ChildWidth
          <5> QED BY <1>10, <1>12, <2>1, <5>1
        <4> QED BY <4>1, <4>2
      <3> QED BY <1>9, <3>1, SideIs
    <2> QED BY <1>10, <2>1
  <1> HIDE DEF S
  <1>13. Passes \in S
    BY <1>10, <1>11, <1>12, IntervalInduction
  <1>14. \A n \in E : f[n] = g[n]
    BY <1>10, <1>13 DEF S
  <1>15. CASE Root(t) = Null
    BY <1>8, <1>9, <1>15
  <1>16. CASE Root(t) # Null
    <2>1. Root(t) \in E
      BY <1>1, <1>16 DEF Shape, Rooted
    <2>2. Height(t, L, Root(t)) >= 0 /\ Height(t, L, Root(t)) \in Int
      <3>1. Root(t) \in Node /\ Root(t) # Null
        BY <1>1, <2>1
      <3>2. Black(L, Root(t)) >= 0 /\ Black(L, Root(t)) \in Int
        BY <1>2, <2>1, SideIs
      <3> QED BY <3>1, <3>2 DEF Height
    <2> QED BY <1>4, <1>8, <1>14, <2>1, <2>2
  <1> QED BY <1>15, <1>16

-----------------------------------------------------------------------------
(* Looking up a key. *)

Sorted(E, L) == \A x \in E, y \in E : Pos(L, x) < Pos(L, y) => KeyOf[x] <= KeyOf[y]

\* Towards compares keys.
LEMMA TowardsIs ==
    ASSUME NEW k \in Int, NEW n \in Node
    PROVE  /\ KeyOf[n] \in Int
           /\ Towards(k, n) = "left" <=> k < KeyOf[n]
           /\ Towards(k, n) = "right" <=> k > KeyOf[n]
           /\ Towards(k, n) = "here" <=> k = KeyOf[n]
           /\ Towards(k, n) = "left" \/ Towards(k, n) = "right" \/ Towards(k, n) = "here"
           /\ "here" \notin Side /\ (Towards(k, n) # "here" => Towards(k, n) \in Side)
  <1>1. KeyOf[n] \in Int
    BY MapAssumption
  <1> QED BY <1>1 DEF Towards, Side

\* What is left of a subtree once it is gone into, for a walk over all links.
Spread(E, L) == [n \in Link |-> IF n = Null THEN 0 ELSE IF n \in E THEN Width(L, n) + 1 ELSE 1]

\* A subtree is narrower than the one it is in.
LEMMA SpreadIs ==
    ASSUME NEW t, NEW E, NEW L, Shape(t, E, L), Clean(t, E)
    PROVE  /\ Spread(E, L) \in [Link -> 0..(Passes + 1)] /\ Passes + 1 \in Nat
           /\ \A n \in Node, s \in Side : Kid(t, s, n) \in Link /\ Spread(E, L)[Kid(t, s, n)] < Spread(E, L)[n]
  <1>1. E \subseteq Node /\ Null \notin Node /\ t \in Tree /\ Passes \in Nat
    BY Places, SideIs DEF Shape, Passes
  <1>2. \A n \in E : Width(L, n) \in Nat /\ Width(L, n) < Passes
    BY WidthBound
  <1> DEFINE m == Spread(E, L)
  <1>3. m[Null] = 0 /\ (\A n \in E : m[n] = Width(L, n) + 1)
        /\ \A n \in Node : n \notin E => m[n] = 1
    BY <1>1 DEF Spread, Link
  <1>4. m \in [Link -> 0..(Passes + 1)]
    <2>1. \A n \in Link : (IF n = Null THEN 0 ELSE IF n \in E THEN Width(L, n) + 1 ELSE 1) \in 0..(Passes + 1)
      BY <1>1, <1>2 DEF Link
    <2> QED BY <2>1 DEF Spread
  <1> HIDE DEF m
  <1>5. ASSUME NEW n \in Node, NEW s \in Side PROVE Kid(t, s, n) \in Link /\ m[Kid(t, s, n)] < m[n]
    <2>1. Kid(t, s, n) \in Link
      BY <1>1, FieldsType DEF Link
    <2>2. CASE Kid(t, s, n) = Null
      BY <1>2, <1>3, <2>1, <2>2
    <2>3. CASE Kid(t, s, n) # Null
      <3>1. n \in E
        BY <2>3 DEF Clean
      <3>2. Kid(t, s, n) \in E /\ Width(L, Kid(t, s, n)) < Width(L, n)
        BY <2>3, <3>1, ChildIs, ChildWidth
      <3> QED BY <1>2, <1>3, <2>1, <3>1, <3>2
    <2> QED BY <2>2, <2>3
  <1> QED BY <1>1, <1>4, <1>5 DEF m

\* The loop of get_node.
Find(k) ==
    LET find[n \in Link] ==
            IF n = Null \/ Towards(k, n) = "here" THEN n
            ELSE find[tree.kid[Towards(k, n)][n]]
    IN  find

FindStep(t, k) == [n \in Link |-> IF n = Null \/ Towards(k, n) = "here" THEN n ELSE Kid(t, Towards(k, n), n)]

\* A search ends.
LEMMA FindDescends ==
    ASSUME NEW t, NEW E, NEW L, NEW k \in Int, Shape(t, E, L), Clean(t, E)
    PROVE  /\ Descends(Link, FindStep(t, k), Spread(E, L), Passes + 1)
           /\ \A n \in Link : FindStep(t, k)[n] = IF n = Null \/ Towards(k, n) = "here" THEN n
                                                  ELSE Kid(t, Towards(k, n), n)
           /\ \A n \in Node : Towards(k, n) # "here" => FindStep(t, k)[n] # n
  <1> DEFINE m == Spread(E, L)
             G == FindStep(t, k)
  <1>1. /\ m \in [Link -> 0..(Passes + 1)] /\ Passes + 1 \in Nat
        /\ \A n \in Node, s \in Side : Kid(t, s, n) \in Link /\ m[Kid(t, s, n)] < m[n]
    BY SpreadIs
  <1>2. \A n \in Link : G[n] = IF n = Null \/ Towards(k, n) = "here" THEN n
                               ELSE Kid(t, Towards(k, n), n)
    BY DEF FindStep
  <1>3. \A n \in Node : Towards(k, n) # "here" => Towards(k, n) \in Side
    BY TowardsIs
  <1>4. G \in [Link -> Link]
    BY <1>1, <1>3 DEF FindStep, Link
  <1> HIDE DEF m, G
  <1>5. ASSUME NEW n \in Link, ~(n = Null \/ Towards(k, n) = "here") PROVE m[G[n]] < m[n]
    BY <1>1, <1>2, <1>3, <1>5 DEF Link
  <1>6. \A n \in Link : G[n] = n \/ m[G[n]] < m[n]
    BY <1>2, <1>5
  <1>7. Descends(Link, G, m, Passes + 1)
    BY <1>1, <1>4, <1>6 DEF Descends
  <1>8. \A n \in Node : Towards(k, n) # "here" => G[n] # n
    <2> SUFFICES ASSUME NEW n \in Node, Towards(k, n) # "here" PROVE G[n] # n
      OBVIOUS
    <2>1. n # Null /\ n \in Link
      BY SideIs DEF Link
    <2>2. m[G[n]] < m[n] /\ m[n] \in Int
      BY <1>1, <1>5, <2>1
    <2> QED BY <2>2
  <1> QED BY <1>2, <1>7, <1>8 DEF m, G

\* get finds an element of the key, and nullptr when there is none.
LEMMA GetIs ==
    ASSUME NEW E, NEW L, NEW k \in Int, Shape(tree, E, L), Clean(tree, E), Sorted(E, L)
    PROVE  /\ Get(k) \in E \cup {Null}
           /\ Get(k) # Null => KeyOf[Get(k)] = k
           /\ Get(k) = Null => \A x \in E : KeyOf[x] # k
  <1> DEFINE G == FindStep(tree, k)
             m == Spread(E, L)
             D == Find(k)
             C == {n \in E \cup {Null} : \A x \in E : KeyOf[x] = k =>
                     n # Null /\ Edge(L, "left", n) <= Pos(L, x) /\ Pos(L, x) <= Edge(L, "right", n)}
             r == Get(k)
  <1>1. /\ E \subseteq Node /\ Null \notin Node /\ tree \in Tree /\ E \cup {Null} \subseteq Link
        /\ Root(tree) \in Link
    BY SideIs, FieldsType DEF Shape, Link
  <1>2. /\ Descends(Link, G, m, Passes + 1)
        /\ \A n \in Link : G[n] = IF n = Null \/ Towards(k, n) = "here" THEN n
                                  ELSE Kid(tree, Towards(k, n), n)
        /\ \A n \in Node : Towards(k, n) # "here" => G[n] # n
    BY FindDescends
  <1> HIDE DEF G, m
  <1>3. PICK F : Walk(F, Link, G)
    BY <1>2, WalkExists
  <1>4. \A n \in Link : F[n] = IF n = Null \/ Towards(k, n) = "here" THEN n ELSE F[Kid(tree, Towards(k, n), n)]
    <2>1. \A n \in Link : F[n] = IF G[n] = n THEN n ELSE F[G[n]]
      BY <1>3 DEF Walk
    <2> QED BY <1>2, <2>1 DEF Link
  <1>5. F = [n \in Link |-> IF n = Null \/ Towards(k, n) = "here" THEN n ELSE F[Kid(tree, Towards(k, n), n)]]
    <2>1. F = [n \in Link |-> F[n]]
      BY <1>3 DEF Walk
    <2> QED BY <1>4, <2>1
  <1>6. D = [n \in Link |-> IF n = Null \/ Towards(k, n) = "here" THEN n ELSE D[Kid(tree, Towards(k, n), n)]]
    BY <1>5, Zenon DEF Find, Kid
  <1>7. r = D[Root(tree)]
    BY Zenon DEF Get, Find, Root
  <1> HIDE DEF D
  <1>8. \A n \in Link : D[n] = F[n]
    <2> DEFINE R == [n \in Link |-> n]
    <2>1. \A n \in Link : D[n] = IF n = Null \/ Towards(k, n) = "here" THEN n ELSE D[Kid(tree, Towards(k, n), n)]
      BY <1>6
    <2>2. \A n \in Link : D[n] = IF G[n] = n THEN R[n] ELSE D[G[n]]
      BY <1>2, <2>1 DEF Link
    <2>3. \A n \in Link : F[n] \in Link /\ R[F[n]] = F[n]
      BY <1>3 DEF Walk
    <2> HIDE DEF R
    <2>4. \A n \in Link : D[n] = R[F[n]]
      BY <1>2, <1>3, <2>2, WalkValue
    <2> QED BY <2>3, <2>4
  <1>9. \A n \in C : G[n] \in C
    <2> SUFFICES ASSUME NEW n \in C, n # Null, Towards(k, n) # "here" PROVE Kid(tree, Towards(k, n), n) \in C
      BY <1>1, <1>2
    <2> DEFINE w == Towards(k, n)
               c == Kid(tree, w, n)
    <2>1. n \in E /\ n \in Node
      BY <1>1
    <2>2. /\ KeyOf[n] \in Int /\ w \in Side
          /\ w = "left" <=> k < KeyOf[n]
          /\ w = "right" <=> k > KeyOf[n]
          /\ w = "left" \/ w = "right"
      BY <2>1, TowardsIs
    <2>3. c \in E \cup {Null}
      BY <2>1, <2>2 DEF Shape, Joined
    <2>4. ASSUME NEW x \in E, KeyOf[x] = k
          PROVE  c # Null /\ Edge(L, "left", c) <= Pos(L, x) /\ Pos(L, x) <= Edge(L, "right", c)
      <3>1. Edge(L, "left", n) <= Pos(L, x) /\ Pos(L, x) <= Edge(L, "right", n)
        BY <2>4
      <3>2. Pos(L, x) \in Int /\ Pos(L, n) \in Int /\ x # n
        BY <2>1, <2>2, <2>4, EdgesType
      <3>3. Pos(L, x) # Pos(L, n)
        BY <2>1, <3>2 DEF Shape, Placed
      <3>4. CASE w = "left"
        <4>1. Pos(L, x) < Pos(L, n)
          BY <2>1, <2>2, <2>4, <3>2, <3>3, <3>4 DEF Sorted
        <4> QED BY <2>1, <3>1, <3>2, <3>4, <4>1, ChildEdges
      <3>5. CASE w = "right"
        <4>1. Pos(L, n) + 1 <= Pos(L, x)
          BY <2>1, <2>2, <2>4, <3>2, <3>3, <3>5 DEF Sorted
        <4>2. c = Kid(tree, "right", n)
          BY <3>5
        <4> HIDE DEF c
        <4>3. c # Null
          BY <2>1, <3>1, <3>2, <4>1, <4>2, ChildEdges
        <4>4. Edge(L, "left", c) = Pos(L, n) + 1 /\ Edge(L, "right", c) = Edge(L, "right", n)
          BY <2>1, <4>2, <4>3, ChildEdges
        <4> QED BY <3>1, <4>1, <4>3, <4>4
      <3> QED BY <2>2, <3>4, <3>5
    <2> HIDE DEF c
    <2> QED BY <2>3, <2>4 DEF c
  <1>10. C \subseteq Link /\ Root(tree) \in C
    <2>1. CASE Root(tree) = Null
      BY <1>1, <2>1 DEF Shape, Rooted
    <2>2. CASE Root(tree) # Null
      <3>1. /\ Root(tree) \in E /\ Edge(L, "left", Root(tree)) = 1
            /\ Highest(tree, L) = Edge(L, "right", Root(tree)) /\ Highest(tree, L) \in Nat
        BY <2>2, Places DEF Shape, Rooted, Highest
      <3>2. \A x \in E : Pos(L, x) \in 1..Highest(tree, L)
        BY Places
      <3> QED BY <1>1, <2>2, <3>1, <3>2
    <2> QED BY <2>1, <2>2
  <1>11. r \in C /\ G[r] = r
    <2> HIDE DEF C
    <2>0. C \subseteq Link /\ \A x \in C : G[x] \in C
      BY <1>9, <1>10
    <2>1. \A x \in C : F[x] \in C /\ G[F[x]] = F[x]
      BY <1>2, <1>3, <2>0, WalkEnds
    <2> QED BY <1>1, <1>7, <1>8, <1>10, <2>1
  <1> HIDE DEF r
  <1>12. r \in E \cup {Null}
    BY <1>11
  <1>13. r # Null => KeyOf[r] = k
    <2>1. ASSUME r # Null PROVE Towards(k, r) = "here" /\ r \in Node
      BY <1>1, <1>2, <1>11, <1>12, <2>1
    <2> QED BY <2>1, TowardsIs
  <1>14. r = Null => \A x \in E : KeyOf[x] # k
    BY <1>11
  <1> QED BY <1>12, <1>13, <1>14 DEF r

-----------------------------------------------------------------------------
(* Where an element goes. *)

\* What an element of key k goes behind, equal keys being passed on side equal.
Behind(k, equal, x) == IF equal = "right" THEN KeyOf[x] <= k ELSE KeyOf[x] < k

\* The first and the last place of what is below a link.
FirstOf(L, n, p, s) == IF n = Null THEN Spot(L, p, s) ELSE Edge(L, "left", n)

\* The last place of the subtree at n, or of the gap it would fill.
LastOf(L, n, p, s) == IF n = Null THEN Spot(L, p, s) - 1 ELSE Edge(L, "right", n)

\* A way down that has come to n by the link of p on side s, between what the
\* element goes behind and what it goes before.
Between(t, E, L, k, equal, n, p, s, turns) ==
    /\ n \in E \cup {Null} /\ s \in Side /\ turns \in SUBSET Side
    /\ IF p = Null THEN n = Root(t) ELSE p \in E /\ n = Kid(t, s, p)
    /\ \A x \in E : /\ Pos(L, x) < FirstOf(L, n, p, s) => Behind(k, equal, x)
                    /\ Pos(L, x) > LastOf(L, n, p, s) => ~Behind(k, equal, x)
    /\ "right" \in turns <=> FirstOf(L, n, p, s) > 1
    /\ "left" \in turns <=> LastOf(L, n, p, s) < Highest(t, L)

\* A new element turns right at those it goes behind.
LEMMA WayIs ==
    ASSUME NEW k \in Int, NEW equal \in Side, NEW n \in Node
    PROVE  /\ Way(k, equal, n) \in Side
           /\ Way(k, equal, n) = "right" <=> Behind(k, equal, n)
  BY TowardsIs, SideIs DEF Way, Behind

\* Those a new element goes behind are the first ones.
LEMMA BehindSorted ==
    ASSUME NEW E, NEW L, NEW k \in Int, NEW equal, NEW x \in E, NEW y \in E, E \subseteq Node,
           Sorted(E, L), Pos(L, x) < Pos(L, y), Behind(k, equal, y)
    PROVE  Behind(k, equal, x)
  <1>1. KeyOf[x] \in Int /\ KeyOf[y] \in Int /\ KeyOf[x] <= KeyOf[y]
    BY MapAssumption DEF Sorted
  <1> QED BY <1>1 DEF Behind

\* A turn keeps the new place between those passed.
LEMMA BetweenStep ==
    ASSUME NEW t, NEW E, NEW L, NEW k \in Int, NEW equal \in Side, NEW n, NEW p, NEW s, NEW turns, NEW w,
           Shape(t, E, L), Sorted(E, L), Between(t, E, L, k, equal, n, p, s, turns), n # Null,
           w = Way(k, equal, n)
    PROVE  Between(t, E, L, k, equal, Kid(t, w, n), n, w, turns \cup {w})
  <1> DEFINE c == Kid(t, w, n)
             lo == FirstOf(L, n, p, s)
             hi == LastOf(L, n, p, s)
             lo2 == FirstOf(L, c, n, w)
             hi2 == LastOf(L, c, n, w)
  <1>1. n \in E /\ n \in Node /\ E \subseteq Node /\ Null \notin Node
    BY SideIs DEF Between, Shape
  <1>2. w \in Side /\ (w = "right" <=> Behind(k, equal, n)) /\ (w = "left" \/ w = "right")
    BY <1>1, WayIs, SideIs
  <1>3. c \in E \cup {Null}
    BY <1>1, <1>2 DEF Shape, Joined
  <1>4. /\ Pos(L, n) \in Int /\ Edge(L, "left", n) \in Int /\ Edge(L, "right", n) \in Int
        /\ Edge(L, "left", n) <= Pos(L, n) /\ Pos(L, n) <= Edge(L, "right", n)
    BY <1>1, EdgesType
  <1>5. lo = Edge(L, "left", n) /\ hi = Edge(L, "right", n)
    BY DEF FirstOf, LastOf
  <1>6. /\ Highest(t, L) \in Nat /\ 1 <= Pos(L, n) /\ Pos(L, n) <= Highest(t, L)
        /\ \A x \in E : Pos(L, x) \in Int
    BY <1>1, Places
  <1>7. w = "left" => lo2 = lo /\ hi2 = Pos(L, n) - 1
    <2>1. ASSUME w = "left" PROVE lo2 = Edge(L, "left", n) /\ hi2 = Pos(L, n) - 1
      <3>1. c = Kid(t, "left", n)
        BY <2>1
      <3> HIDE DEF c
      <3>2. CASE c = Null
        <4>1. Edge(L, "left", n) = Pos(L, n)
          BY <1>1, <3>1, <3>2, ChildEdges
        <4>2. Spot(L, n, w) = Pos(L, n)
          BY <2>1, <1>1 DEF Spot
        <4> QED BY <3>2, <4>1, <4>2 DEF FirstOf, LastOf
      <3>3. CASE c # Null
        <4>1. Edge(L, "left", c) = Edge(L, "left", n) /\ Edge(L, "right", c) = Pos(L, n) - 1
          BY <1>1, <3>1, <3>3, ChildEdges
        <4> QED BY <3>3, <4>1 DEF FirstOf, LastOf
      <3> QED BY <3>2, <3>3
    <2> QED BY <1>5, <2>1
  <1>8. w = "right" => lo2 = Pos(L, n) + 1 /\ hi2 = hi
    <2>1. ASSUME w = "right" PROVE lo2 = Pos(L, n) + 1 /\ hi2 = Edge(L, "right", n)
      <3>1. c = Kid(t, "right", n)
        BY <2>1
      <3> HIDE DEF c
      <3>2. CASE c = Null
        <4>1. Edge(L, "right", n) = Pos(L, n)
          BY <1>1, <3>1, <3>2, ChildEdges
        <4>2. Spot(L, n, w) = Pos(L, n) + 1
          BY <2>1, <1>1, SideIs DEF Spot
        <4>3. (Pos(L, n) + 1) - 1 = Pos(L, n)
          BY <1>4
        <4> QED BY <3>2, <4>1, <4>2, <4>3 DEF FirstOf, LastOf
      <3>3. CASE c # Null
        <4>1. Edge(L, "left", c) = Pos(L, n) + 1 /\ Edge(L, "right", c) = Edge(L, "right", n)
          BY <1>1, <3>1, <3>3, ChildEdges
        <4> QED BY <3>3, <4>1 DEF FirstOf, LastOf
      <3> QED BY <3>2, <3>3
    <2> QED BY <1>5, <2>1
  <1>9. /\ turns \in SUBSET Side
        /\ \A x \in E : (Pos(L, x) < lo => Behind(k, equal, x)) /\ (Pos(L, x) > hi => ~Behind(k, equal, x))
        /\ ("right" \in turns <=> lo > 1) /\ ("left" \in turns <=> hi < Highest(t, L))
    BY DEF Between
  <1> HIDE DEF c, lo, hi, lo2, hi2
  <1>10. ASSUME NEW x \in E
         PROVE  (Pos(L, x) < lo2 => Behind(k, equal, x)) /\ (Pos(L, x) > hi2 => ~Behind(k, equal, x))
    <2>1. /\ Pos(L, x) < Pos(L, n) /\ Behind(k, equal, n) => Behind(k, equal, x)
          /\ Pos(L, n) < Pos(L, x) /\ ~Behind(k, equal, n) => ~Behind(k, equal, x)
          /\ Pos(L, x) = Pos(L, n) => x = n
      BY <1>1, BehindSorted DEF Shape, Placed
    <2> QED BY <1>2, <1>4, <1>6, <1>7, <1>8, <1>9, <2>1
  <1>11. ("right" \in turns \cup {w} <=> lo2 > 1) /\ ("left" \in turns \cup {w} <=> hi2 < Highest(t, L))
    BY <1>2, <1>4, <1>6, <1>7, <1>8, <1>9, SideIs
  <1> QED BY <1>1, <1>2, <1>3, <1>9, <1>10, <1>11 DEF Between, c, lo2, hi2

\* The descent of insert.
Descend(k, equal) ==
    LET walk[c \in Descent] ==
            IF c.node = Null THEN c
            ELSE LET w == Way(k, equal, c.node)
                 IN  walk[[node |-> tree.kid[w][c.node], under |-> c.node,
                           side |-> w, turns |-> c.turns \cup {w}]]
    IN  walk

Lower(t, k, equal, c) ==
    [node |-> Kid(t, Way(k, equal, c.node), c.node), under |-> c.node,
     side |-> Way(k, equal, c.node), turns |-> c.turns \cup {Way(k, equal, c.node)}]

DescendStep(t, k, equal) == [c \in Descent |-> IF c.node = Null THEN c ELSE Lower(t, k, equal, c)]

\* What descends on it.
Depths(E, L) == [c \in Descent |-> Spread(E, L)[c.node]]

\* A turn of the descent.
LEMMA LowerIs ==
    ASSUME NEW t, NEW k \in Int, NEW equal \in Side, NEW c \in Descent, t \in Tree, c.node # Null
    PROVE  /\ c.node \in Node /\ Lower(t, k, equal, c) \in Descent
           /\ Lower(t, k, equal, c).node = Kid(t, Way(k, equal, c.node), c.node)
           /\ Lower(t, k, equal, c).under = c.node
           /\ Lower(t, k, equal, c).side = Way(k, equal, c.node)
           /\ Lower(t, k, equal, c).turns = c.turns \cup {Way(k, equal, c.node)}
  <1> DEFINE w == Way(k, equal, c.node)
             n == Kid(t, w, c.node)
  <1>1. c.node \in Node /\ c.turns \in SUBSET Side /\ c.node \in Link
    BY DEF Descent, Link
  <1>2. w \in Side /\ n \in Link
    BY <1>1, WayIs, FieldsType DEF Link
  <1>3. Lower(t, k, equal, c) = [node |-> n, under |-> c.node, side |-> w, turns |-> c.turns \cup {w}]
    BY DEF Lower
  <1> HIDE DEF w, n
  <1> QED BY <1>1, <1>2, <1>3 DEF Descent, w, n

\* A descent ends.
LEMMA DescendDescends ==
    ASSUME NEW t, NEW E, NEW L, NEW k \in Int, NEW equal \in Side, Shape(t, E, L), Clean(t, E)
    PROVE  /\ Descends(Descent, DescendStep(t, k, equal), Depths(E, L), Passes + 1)
           /\ \A c \in Descent : DescendStep(t, k, equal)[c] = IF c.node = Null THEN c ELSE Lower(t, k, equal, c)
           /\ \A c \in Descent : c.node # Null => Lower(t, k, equal, c) # c
  <1> DEFINE m == Depths(E, L)
             G == DescendStep(t, k, equal)
             S == Spread(E, L)
             low(c) == Lower(t, k, equal, c)
  <1>1. t \in Tree
    BY DEF Shape
  <1>2. S \in [Link -> 0..(Passes + 1)] /\ Passes + 1 \in Nat
    BY SpreadIs
  <1>3. ASSUME NEW c \in Descent, c.node # Null PROVE low(c) \in Descent /\ S[low(c).node] < S[c.node]
    <2>1. /\ c.node \in Node /\ low(c) \in Descent /\ low(c).node = Kid(t, Way(k, equal, c.node), c.node)
      BY <1>1, <1>3, LowerIs
    <2>2. Way(k, equal, c.node) \in Side
      BY <2>1, WayIs
    <2> QED BY <2>1, <2>2, SpreadIs
  <1>4. \A c \in Descent : c.node \in Link
    BY DEF Descent
  <1>5. m \in [Descent -> 0..(Passes + 1)] /\ \A c \in Descent : m[c] = S[c.node]
    BY <1>2, <1>4 DEF Depths
  <1>6. \A c \in Descent : G[c] = IF c.node = Null THEN c ELSE low(c)
    BY DEF DescendStep
  <1>7. G \in [Descent -> Descent]
    BY <1>3 DEF DescendStep
  <1> HIDE DEF G, m, S, low
  <1>8. \A c \in Descent : G[c] = c \/ m[G[c]] < m[c]
    BY <1>3, <1>5, <1>6
  <1>9. Descends(Descent, G, m, Passes + 1)
    BY <1>2, <1>5, <1>7, <1>8 DEF Descends
  <1>10. \A c \in Descent : c.node # Null => low(c) # c
    <2> SUFFICES ASSUME NEW c \in Descent, c.node # Null, low(c) = c PROVE FALSE
      OBVIOUS
    <2>1. S[c.node] < S[c.node] /\ S[c.node] \in Int
      BY <1>2, <1>3, <1>4
    <2> QED BY <2>1
  <1> QED BY <1>6, <1>9, <1>10 DEF G, m, low

\* Place as a walk.
LEMMA DescendIs ==
    ASSUME NEW F, NEW k \in Int, NEW equal \in Side, tree \in Tree,
           Walk(F, Descent, DescendStep(tree, k, equal)),
           \A c \in Descent : DescendStep(tree, k, equal)[c] = IF c.node = Null THEN c ELSE Lower(tree, k, equal, c),
           \A c \in Descent : c.node # Null => Lower(tree, k, equal, c) # c
    PROVE  \A c \in Descent : Descend(k, equal)[c] = IF DescendStep(tree, k, equal)[c] = c THEN c
                              ELSE Descend(k, equal)[DescendStep(tree, k, equal)[c]]
  <1> DEFINE G == DescendStep(tree, k, equal)
             low(c) == Lower(tree, k, equal, c)
             D == Descend(k, equal)
  <1>1. \A c \in Descent : G[c] = IF c.node = Null THEN c ELSE low(c)
    OBVIOUS
  <1>2. \A c \in Descent : F[c] = IF G[c] = c THEN c ELSE F[G[c]]
    BY DEF Walk
  <1>3. F = [c \in Descent |-> F[c]]
    BY DEF Walk
  <1>4. \A c \in Descent : c.node # Null => low(c) # c
    OBVIOUS
  <1> HIDE DEF G, low
  <1>5. F = [c \in Descent |-> IF c.node = Null THEN c ELSE F[low(c)]]
    <2>1. \A c \in Descent : F[c] = IF c.node = Null THEN c ELSE F[low(c)]
      BY <1>1, <1>2, <1>4
    <2> QED BY <1>3, <2>1
  <1>6. D = [c \in Descent |-> IF c.node = Null THEN c ELSE D[low(c)]]
    BY <1>5, Zenon DEF Descend, Kid, Lower, low
  <1> HIDE DEF D
  <1>7. \A c \in Descent : D[c] = IF c.node = Null THEN c ELSE D[low(c)]
    BY <1>6
  <1>8. \A c \in Descent : D[c] = IF G[c] = c THEN c ELSE D[G[c]]
    BY <1>1, <1>4, <1>7
  <1> QED BY <1>8 DEF D, G

\* The place found is a free link between what the element goes behind and what
\* it goes before, and the turns tell whether that is an end.
LEMMA PlaceIs ==
    ASSUME NEW E, NEW L, NEW k \in Int, NEW equal \in Side, NEW e, NEW c,
           Settled(tree, E, L), Sorted(E, L), e \in Node, e \notin E, c = Place(k, equal)
    PROVE  /\ Free(tree, E, e, c.under, c.side)
           /\ Between(tree, E, L, k, equal, Null, c.under, c.side, c.turns)
  <1> DEFINE G == DescendStep(tree, k, equal)
             m == Depths(E, L)
             D == Descend(k, equal)
             on(x) == Between(tree, E, L, k, equal, x.node, x.under, x.side, x.turns)
             C == {x \in Descent : on(x)}
             start == [node |-> Root(tree), under |-> Null, side |-> "left", turns |-> {}]
  <1>0. /\ Shape(tree, E, L) /\ Clean(tree, E) /\ E \subseteq Node /\ Null \notin Node /\ tree \in Tree
        /\ Root(tree) \in Link
    BY SideIs, FieldsType DEF Settled, Shape, Link
  <1>1. /\ Descends(Descent, G, m, Passes + 1)
        /\ \A x \in Descent : G[x] = IF x.node = Null THEN x ELSE Lower(tree, k, equal, x)
        /\ \A x \in Descent : x.node # Null => Lower(tree, k, equal, x) # x
    BY <1>0, DescendDescends
  <1> HIDE DEF m
  <1>2. PICK F : Walk(F, Descent, G)
    BY <1>1, WalkExists
  <1>3. \A x \in Descent : D[x] = IF G[x] = x THEN x ELSE D[G[x]]
    BY <1>0, <1>1, <1>2, DescendIs
  <1>4. c = D[start]
    BY Zenon DEF Place, Descend, Root
  <1> HIDE DEF D, G
  <1>5. \A x \in Descent : D[x] = F[x]
    <2> DEFINE R == [x \in Descent |-> x]
    <2>1. \A x \in Descent : D[x] = IF G[x] = x THEN R[x] ELSE D[G[x]]
      BY <1>3
    <2>2. \A x \in Descent : F[x] \in Descent /\ R[F[x]] = F[x]
      BY <1>2 DEF Walk
    <2> HIDE DEF R
    <2>3. \A x \in Descent : D[x] = R[F[x]]
      BY <1>1, <1>2, <2>1, WalkValue
    <2> QED BY <2>2, <2>3
  <1>6. start \in Descent /\ start.node = Root(tree) /\ start.under = Null /\ start.side = "left"
        /\ start.turns = {}
    BY <1>0, SideIs DEF Descent, Link
  <1>7. Between(tree, E, L, k, equal, Root(tree), Null, "left", {})
    <2>1. Highest(tree, L) \in Nat /\ \A x \in E : Pos(L, x) \in 1..Highest(tree, L)
      BY <1>0, Places
    <2>2. FirstOf(L, Root(tree), Null, "left") = 1 /\ LastOf(L, Root(tree), Null, "left") = Highest(tree, L)
      <3>1. CASE Root(tree) = Null
        BY <3>1 DEF FirstOf, LastOf, Spot, Highest
      <3>2. CASE Root(tree) # Null
        <4>1. Edge(L, "left", Root(tree)) = 1
          BY <1>0, <3>2 DEF Shape, Rooted
        <4> QED BY <3>2, <4>1 DEF FirstOf, LastOf, Highest
      <3> QED BY <3>1, <3>2
    <2>3. Root(tree) \in E \cup {Null}
      BY <1>0 DEF Shape, Rooted
    <2> QED BY <2>1, <2>2, <2>3, SideIs DEF Between
  <1>8. \A x \in C : G[x] \in C
    <2> SUFFICES ASSUME NEW x \in C, x.node # Null PROVE Lower(tree, k, equal, x) \in C
      BY <1>1
    <2> DEFINE y == Lower(tree, k, equal, x)
               w == Way(k, equal, x.node)
    <2>1. /\ y \in Descent /\ y.node = Kid(tree, w, x.node) /\ y.under = x.node
          /\ y.side = w /\ y.turns = x.turns \cup {w}
      BY <1>0, LowerIs
    <2>2. on(x)
      OBVIOUS
    <2>3. Between(tree, E, L, k, equal, Kid(tree, w, x.node), x.node, w, x.turns \cup {w})
      <3>1. w = Way(k, equal, x.node)
        OBVIOUS
      <3> HIDE DEF w
      <3> QED BY <1>0, <2>2, <3>1, BetweenStep
    <2> HIDE DEF y, w
    <2> QED BY <2>1, <2>3 DEF y
  <1>9. C \subseteq Descent /\ start \in C
    <2> HIDE DEF start
    <2> QED BY <1>6, <1>7
  <1> HIDE DEF start
  <1>10. c \in C /\ G[c] = c
    <2> HIDE DEF C
    <2>1. \A x \in C : F[x] \in C /\ G[F[x]] = F[x]
      BY <1>1, <1>2, <1>8, <1>9, WalkEnds
    <2> QED BY <1>4, <1>5, <1>6, <1>9, <2>1
  <1>11. c.node = Null /\ on(c)
    BY <1>1, <1>10
  <1>12. Between(tree, E, L, k, equal, Null, c.under, c.side, c.turns)
    BY <1>11
  <1>13. Free(tree, E, e, c.under, c.side)
    <2>1. CASE c.under = Null
      <3>1. Root(tree) = Null /\ c.side \in Side
        BY <1>12, <2>1 DEF Between
      <3> QED BY <2>1, <3>1 DEF Free
    <2>2. CASE c.under # Null
      <3>1. c.under \in E /\ Kid(tree, c.side, c.under) = Null /\ c.side \in Side
        BY <1>12, <2>2 DEF Between
      <3>2. Root(tree) # Null
        BY <1>0, <3>1 DEF Shape, Rooted
      <3> QED BY <3>1, <3>2 DEF Free
    <2> QED BY <2>1, <2>2
  <1> QED BY <1>12, <1>13

-----------------------------------------------------------------------------
(* What the ends and the iterator of a map are, by the places of its elements. *)

IsFirst(E, L, n) == n \in E /\ \A x \in E : Pos(L, n) <= Pos(L, x)

IsLast(E, L, n) == n \in E /\ \A x \in E : Pos(L, x) <= Pos(L, n)

\* w is yet to come for an iterator at i.
Ahead(L, i, a, w) == IF a = "right" THEN Pos(L, i) < Pos(L, w) ELSE Pos(L, w) < Pos(L, i)

\* l and r are the ends as the map remembers them; r may be forgotten.
Ends(E, L, l, r) ==
    /\ IF E = {} THEN l = Null ELSE IsFirst(E, L, l)
    /\ r = Null \/ IsLast(E, L, r)

\* The watched element is ahead of the iterator.
Visits(E, L, i, a, w) ==
    /\ i \in E \cup {Null} /\ w \in E \cup {Null} /\ a \in Side
    /\ w # Null => IF i = Null THEN a = "left" ELSE Ahead(L, i, a, w)

\* The elements of F keep their order.
Kept(F, L, M) == \A x \in F, y \in F : Pos(M, x) < Pos(M, y) <=> Pos(L, x) < Pos(L, y)

\* Places are integers, and distinct.
LEMMA PosType ==
    ASSUME NEW t, NEW E, NEW L, Shape(t, E, L)
    PROVE  /\ E \subseteq Node /\ Null \notin E /\ L \in Labels /\ \A x \in E : Pos(L, x) \in Int
           /\ \A x \in E, y \in E : Pos(L, x) = Pos(L, y) => x = y
  BY EdgesType, SideIs DEF Shape, Placed

\* An element that was ahead stays so where order is kept.
LEMMA VisitsKept ==
    ASSUME NEW E, NEW F, NEW L, NEW M, NEW i, NEW a, NEW w, NEW v, Visits(E, L, i, a, w),
           Kept(E \cap F, L, M), i \in F \cup {Null}, v \in F \cup {Null}, v = w \/ v = Null
    PROVE  Visits(F, M, i, a, v)
  <1>1. /\ i \in E \cup {Null} /\ w \in E \cup {Null} /\ a \in Side
        /\ w # Null => IF i = Null THEN a = "left" ELSE Ahead(L, i, a, w)
    BY DEF Visits
  <1>2. ASSUME v # Null, i # Null PROVE Ahead(M, i, a, v)
    <2>1. v = w /\ v \in E \cap F /\ i \in E \cap F /\ Ahead(L, i, a, v)
      BY <1>1, <1>2
    <2> QED BY <2>1 DEF Ahead, Kept
  <1> QED BY <1>1, <1>2 DEF Visits

\* Making room keeps the order,
LEMMA PushedKept ==
    ASSUME NEW t, NEW E, NEW L, NEW M, NEW e, NEW k \in Int, Shape(t, E, L), Pushed(L, M, E, e, k)
    PROVE  /\ Kept(E, L, M)
           /\ Pos(M, e) = k
           /\ \A x \in E : /\ Pos(L, x) < k => Pos(M, x) = Pos(L, x)
                           /\ Pos(L, x) >= k => Pos(M, x) = Pos(L, x) + 1
  <1>1. \A x \in E : Pos(L, x) \in Int
    BY PosType
  <1>2. \A x \in E : /\ Pos(L, x) < k => Pos(M, x) = Pos(L, x)
                     /\ Pos(L, x) >= k => Pos(M, x) = Pos(L, x) + 1
    BY <1>1 DEF Pushed, Shift
  <1>3. Pos(M, e) = k
    BY DEF Pushed
  <1> QED BY <1>1, <1>2, <1>3 DEF Kept

\* as taking out does.
LEMMA PulledKept ==
    ASSUME NEW t, NEW E, NEW L, NEW M, NEW e, Shape(t, E, L), e \in E, Pulled(L, M, E \ {e}, Pos(L, e))
    PROVE  /\ Kept(E \ {e}, L, M)
           /\ \A x \in E \ {e} : /\ Pos(L, x) < Pos(L, e) => Pos(M, x) = Pos(L, x)
                                 /\ Pos(L, x) > Pos(L, e) => Pos(M, x) = Pos(L, x) - 1
                                 /\ Pos(L, x) # Pos(L, e)
  <1>1. \A x \in E : Pos(L, x) \in Int
    BY PosType
  <1>2. \A x \in E \ {e} : Pos(L, x) # Pos(L, e)
    BY PosType
  <1>3. \A x \in E \ {e} : /\ Pos(L, x) < Pos(L, e) => Pos(M, x) = Pos(L, x)
                           /\ Pos(L, x) > Pos(L, e) => Pos(M, x) = Pos(L, x) - 1
    BY <1>1 DEF Pulled, Pull
  <1> QED BY <1>1, <1>2, <1>3 DEF Kept

\* An element that is linked: what it is behind and before, and the ends.
LEMMA PlacedAt ==
    ASSUME NEW E, NEW L, NEW M, NEW e \in Node, NEW equal \in Side, NEW p, NEW s, NEW turns,
           NEW l, NEW r, NEW l2, NEW r2,
           Shape(tree, E, L), e \notin E, Sorted(E, L), Ends(E, L, l, r),
           Between(tree, E, L, KeyOf[e], equal, Null, p, s, turns),
           Pushed(L, M, E, e, Spot(L, p, s)),
           l2 = (IF "right" \in turns THEN l ELSE e), r2 = (IF "left" \in turns THEN r ELSE e)
    PROVE  /\ Sorted(E \cup {e}, M) /\ Ends(E \cup {e}, M, l2, r2) /\ Kept(E, L, M)
           /\ \A x \in E : Pos(L, x) < Spot(L, p, s) <=> Behind(KeyOf[e], equal, x)
           /\ Spot(L, p, s) \in 1..(Highest(tree, L) + 1)
  <1> DEFINE k == Spot(L, p, s)
             last == Highest(tree, L)
             F == E \cup {e}
  <1>1. /\ E \subseteq Node /\ Null \notin E /\ L \in Labels /\ e # Null
        /\ \A x \in E : Pos(L, x) \in Int /\ KeyOf[x] \in Int
    BY PosType, MapAssumption
  <1>2. KeyOf[e] \in Int
    BY MapAssumption
  <1>3. /\ \A x \in E : /\ Pos(L, x) < k => Behind(KeyOf[e], equal, x)
                        /\ Pos(L, x) > k - 1 => ~Behind(KeyOf[e], equal, x)
        /\ "right" \in turns <=> k > 1
        /\ "left" \in turns <=> k - 1 < last
    BY DEF Between, FirstOf, LastOf
  <1>4. /\ last \in Nat /\ \A x \in E : Pos(L, x) \in 1..last
        /\ \A i \in 1..last : \E x \in E : Pos(L, x) = i
    BY Places
  <1>5. k \in 1..(last + 1)
    <2>1. p = Null \/ p \in E
      BY DEF Between
    <2> QED BY <1>1, <1>4, <2>1 DEF Spot
  <1> HIDE DEF k, last
  <1>6. \A x \in E : Pos(L, x) < k <=> Behind(KeyOf[e], equal, x)
    BY <1>1, <1>3, <1>5
  <1>7. /\ Kept(E, L, M) /\ Pos(M, e) = k
        /\ \A x \in E : /\ Pos(L, x) < k => Pos(M, x) = Pos(L, x)
                        /\ Pos(L, x) >= k => Pos(M, x) = Pos(L, x) + 1
    BY <1>5, PushedKept DEF k
  <1>8. \A x \in E : /\ Pos(L, x) < k => KeyOf[x] <= KeyOf[e]
                     /\ Pos(L, x) >= k => KeyOf[e] <= KeyOf[x]
    BY <1>1, <1>2, <1>5, <1>6 DEF Behind
  <1>9. Sorted(F, M)
    <2> SUFFICES ASSUME NEW x \in F, NEW y \in F, Pos(M, x) < Pos(M, y) PROVE KeyOf[x] <= KeyOf[y]
      BY DEF Sorted
    <2>1. CASE x \in E /\ y \in E
      BY <1>7, <2>1 DEF Sorted, Kept
    <2>2. CASE x = e /\ y = e
      BY <1>2, <2>2
    <2>3. CASE x = e /\ y \in E
      BY <1>1, <1>5, <1>7, <1>8, <2>3
    <2>4. CASE x \in E /\ y = e
      BY <1>1, <1>5, <1>7, <1>8, <2>4
    <2> QED BY <2>1, <2>2, <2>3, <2>4
  <1>10. \A x \in E : Pos(M, x) \in Int /\ Pos(M, x) # k
    BY <1>1, <1>5, <1>7
  <1>11. IsFirst(F, M, l2)
    <2>1. CASE "right" \in turns
      <3>1. k > 1
        BY <1>3, <2>1
      <3>2. PICK y \in E : Pos(L, y) = 1
        BY <1>4, <1>5, <3>1
      <3>3. IsFirst(E, L, l)
        BY <3>2 DEF Ends
      <3>4. l \in E /\ Pos(L, l) = 1
        BY <1>4, <3>2, <3>3 DEF IsFirst
      <3>5. Pos(M, l) = 1
        BY <1>7, <3>1, <3>4
      <3>6. \A x \in E : 1 <= Pos(M, x)
        BY <1>1, <1>4, <1>5, <1>7
      <3> QED BY <1>5, <1>7, <2>1, <3>4, <3>5, <3>6 DEF IsFirst
    <2>2. CASE "right" \notin turns
      <3>1. k = 1
        BY <1>3, <1>4, <1>5, <2>2
      <3>2. \A x \in E : 1 <= Pos(M, x)
        BY <1>1, <1>4, <1>5, <1>7
      <3> QED BY <1>7, <2>2, <3>1, <3>2 DEF IsFirst
    <2> QED BY <2>1, <2>2
  <1>12. r2 = Null \/ IsLast(F, M, r2)
    <2>0. \A x \in E : Pos(M, x) <= last + 1
      BY <1>1, <1>4, <1>5, <1>7
    <2>1. CASE "left" \in turns /\ r # Null
      <3>1. k <= last /\ 1 <= last
        BY <1>3, <1>4, <1>5, <2>1
      <3>2. PICK y \in E : Pos(L, y) = last
        BY <1>4, <3>1
      <3>3. IsLast(E, L, r)
        BY <2>1 DEF Ends
      <3>4. r \in E /\ Pos(L, r) = last
        BY <1>4, <3>2, <3>3 DEF IsLast
      <3>5. Pos(M, r) = last + 1
        BY <1>4, <1>7, <3>1, <3>4
      <3> QED BY <1>4, <1>5, <1>7, <2>0, <2>1, <3>4, <3>5 DEF IsLast
    <2>2. CASE "left" \notin turns
      <3>1. k = last + 1
        BY <1>3, <1>4, <1>5, <2>2
      <3> QED BY <1>7, <2>0, <2>2, <3>1 DEF IsLast
    <2> QED BY <2>1, <2>2
  <1>13. Ends(F, M, l2, r2)
    BY <1>11, <1>12 DEF Ends
  <1> QED BY <1>5, <1>6, <1>7, <1>9, <1>13 DEF k, last

\* An element is removed: the next one is the first, or the previous one the last.
LEMMA TakenOut ==
    ASSUME NEW t, NEW E, NEW L, NEW M, NEW e, NEW l, NEW r, NEW l2, NEW r2,
           Shape(t, E, L), Clean(t, E), e \in E, Sorted(E, L), Ends(E, L, l, r),
           Pulled(L, M, E \ {e}, Pos(L, e)),
           IF l = e THEN l2 = Step(t, e, "right") ELSE l2 = l,
           IF r = e THEN r2 \in {Step(t, e, "left"), Null} ELSE r2 = r
    PROVE  Sorted(E \ {e}, M) /\ Ends(E \ {e}, M, l2, r2) /\ Kept(E \ {e}, L, M)
  <1> DEFINE F == E \ {e}
  <1>1. /\ E \subseteq Node /\ Null \notin E /\ L \in Labels
        /\ \A x \in E : Pos(L, x) \in Int /\ KeyOf[x] \in Int
        /\ \A x \in E, y \in E : Pos(L, x) = Pos(L, y) => x = y
    BY PosType, MapAssumption
  <1>2. Kept(F, L, M)
    BY PulledKept
  <1>3. Sorted(F, M)
    BY <1>2 DEF Sorted, Kept
  <1>4. \A x \in F : Pos(M, x) \in Int
    <2>1. \A x \in F : /\ Pos(L, x) < Pos(L, e) => Pos(M, x) = Pos(L, x)
                       /\ Pos(L, x) > Pos(L, e) => Pos(M, x) = Pos(L, x) - 1
                       /\ Pos(L, x) # Pos(L, e)
      BY PulledKept
    <2> QED BY <1>1, <2>1
  <1>5. \A x \in F, y \in F : Pos(M, x) <= Pos(M, y) <=> Pos(L, x) <= Pos(L, y)
    BY <1>1, <1>2, <1>4 DEF Kept
  <1>6. /\ Highest(t, L) \in Nat /\ \A x \in E : Pos(L, x) \in 1..Highest(t, L)
        /\ \A i \in 1..Highest(t, L) : \E x \in E : Pos(L, x) = i
    BY Places
  <1>7. IF F = {} THEN l2 = Null ELSE IsFirst(F, M, l2)
    <2>0. IsFirst(E, L, l)
      BY DEF Ends
    <2>1. CASE l # e
      <3>1. l \in F /\ l2 = l
        BY <2>0, <2>1 DEF IsFirst
      <3> QED BY <1>5, <2>0, <3>1 DEF IsFirst
    <2>2. CASE l = e
      <3>1. l2 = Step(t, e, "right")
        BY <2>2
      <3>2. /\ l2 \in E \cup {Null}
            /\ l2 # Null => Pos(L, l2) = Pos(L, e) + 1
            /\ l2 = Null => Vacant(E, L, Pos(L, e) + 1)
        BY <3>1, StepIs, SideIs
      <3>3. \A x \in F : Pos(L, e) + 1 <= Pos(L, x)
        BY <1>1, <2>0, <2>2 DEF IsFirst
      <3>4. CASE l2 = Null
        <4>1. \A x \in F : Pos(L, e) + 1 \in 1..Highest(t, L)
          BY <1>1, <1>6, <3>3
        <4> QED BY <1>6, <3>2, <3>4, <4>1 DEF Vacant
      <3>5. CASE l2 # Null
        <4>1. l2 \in F
          BY <1>1, <3>2, <3>5
        <4> QED BY <1>5, <3>2, <3>3, <3>5, <4>1 DEF IsFirst
      <3> QED BY <3>4, <3>5
    <2> QED BY <2>1, <2>2
  <1>8. r2 = Null \/ IsLast(F, M, r2)
    <2>0. r = Null \/ IsLast(E, L, r)
      BY DEF Ends
    <2>1. CASE r # e /\ r # Null
      <3>1. r \in F /\ r2 = r
        BY <2>0, <2>1 DEF IsLast
      <3> QED BY <1>5, <2>0, <2>1, <3>1 DEF IsLast
    <2>2. CASE r = e /\ r2 # Null
      <3>1. r2 = Step(t, e, "left")
        BY <2>2
      <3>2. r2 \in E /\ Pos(L, r2) = Pos(L, e) - 1
        BY <1>1, <2>2, <3>1, StepIs, SideIs
      <3>3. \A x \in F : Pos(L, x) <= Pos(L, e) - 1
        BY <1>1, <2>0, <2>2 DEF IsLast
      <3>4. r2 \in F
        <4>1. Pos(L, e) \in Int
          BY <1>1
        <4>2. r2 # e
          BY <3>2, <4>1
        <4> QED BY <3>2, <4>2
      <3> QED BY <1>5, <3>2, <3>3, <3>4 DEF IsLast
    <2> QED BY <2>1, <2>2
  <1> QED BY <1>2, <1>3, <1>7, <1>8 DEF Ends

\* x, renamed.
Named(x, old, new) == IF x = old THEN new ELSE x

\* An element takes the place of another of its key.
LEMMA TakenOver ==
    ASSUME NEW t, NEW E, NEW L, NEW M, NEW old, NEW new, NEW l, NEW r, NEW i, NEW a, NEW w,
           Shape(t, E, L), old \in E, new \in Node, new \notin E, KeyOf[old] = KeyOf[new],
           Renamed(L, M, E, old, new),
           Sorted(E, L), Ends(E, L, l, r), Visits(E, L, i, a, w), i # old
    PROVE  /\ Sorted((E \ {old}) \cup {new}, M)
           /\ Ends((E \ {old}) \cup {new}, M, Named(l, old, new), Named(r, old, new))
           /\ Visits((E \ {old}) \cup {new}, M, i, a, Named(w, old, new))
  <1> DEFINE F == (E \ {old}) \cup {new}
             f(x) == Named(x, old, new)
  <1>1. E \subseteq Node /\ Null \notin E /\ Null # new /\ \A x \in E : Pos(L, x) \in Int
    BY PosType, SideIs
  <1>2. \A x \in E : f(x) \in F /\ Pos(M, f(x)) = Pos(L, x) /\ KeyOf[f(x)] = KeyOf[x]
    BY DEF Named, Renamed
  <1>3. \A y \in F : \E x \in E : y = f(x)
    BY DEF Named
  <1>4. f(Null) = Null /\ \A x \in E : f(x) # Null
    BY <1>1 DEF Named
  <1>5. i \in E \cup {Null} => f(i) = i
    BY DEF Named
  <1>6. F # {} /\ E # {}
    OBVIOUS
  <1> HIDE DEF F, f
  <1>7. Sorted(F, M)
    <2> SUFFICES ASSUME NEW x \in F, NEW y \in F, Pos(M, x) < Pos(M, y) PROVE KeyOf[x] <= KeyOf[y]
      BY DEF Sorted
    <2>1. PICK x1 \in E, y1 \in E : x = f(x1) /\ y = f(y1)
      BY <1>3
    <2> QED BY <1>2, <2>1 DEF Sorted
  <1>8. IsFirst(F, M, f(l))
    <2>1. l \in E /\ \A x \in E : Pos(L, l) <= Pos(L, x)
      BY <1>6 DEF Ends, IsFirst
    <2>2. \A y \in F : Pos(M, f(l)) <= Pos(M, y)
      BY <1>2, <1>3, <2>1
    <2> QED BY <1>2, <2>1, <2>2 DEF IsFirst
  <1>9. f(r) = Null \/ IsLast(F, M, f(r))
    <2>1. CASE r = Null
      BY <1>4, <2>1
    <2>2. CASE r # Null
      <3>1. r \in E /\ \A x \in E : Pos(L, x) <= Pos(L, r)
        BY <2>2 DEF Ends, IsLast
      <3>2. \A y \in F : Pos(M, y) <= Pos(M, f(r))
        BY <1>2, <1>3, <3>1
      <3> QED BY <1>2, <3>1, <3>2 DEF IsLast
    <2> QED BY <2>1, <2>2
  <1>10. Visits(F, M, i, a, f(w))
    <2>1. /\ i \in E \cup {Null} /\ w \in E \cup {Null} /\ a \in Side
          /\ w # Null => IF i = Null THEN a = "left" ELSE Ahead(L, i, a, w)
      BY DEF Visits
    <2>2. f(i) = i
      BY <1>5, <2>1
    <2>3. i \in F \cup {Null} /\ f(w) \in F \cup {Null} /\ (f(w) # Null => w # Null)
      BY <1>2, <1>4, <2>1, <2>2
    <2>4. ASSUME w # Null, i # Null PROVE Ahead(M, i, a, f(w))
      <3>1. Pos(M, i) = Pos(L, i) /\ Pos(M, f(w)) = Pos(L, w) /\ Ahead(L, i, a, w)
        BY <1>2, <2>1, <2>2, <2>4
      <3> QED BY <3>1 DEF Ahead
    <2> QED BY <2>1, <2>3, <2>4 DEF Visits
  <1> QED BY <1>6, <1>7, <1>8, <1>9, <1>10 DEF Ends, F, f

-----------------------------------------------------------------------------
(* The invariant. *)

Holding(E, L) ==
    /\ Settled(tree, E, L) /\ Sorted(E, L) /\ Ends(E, L, left, right)
    /\ Visits(E, L, it, ahead, watched)

\* The inductive invariant.
MapInv == \E E, L : Holding(E, L)

\* The empty map has labels.
LEMMA EmptyIs ==
    \E L : /\ Settled(EmptyTree, {}, L) /\ Sorted({}, L) /\ Ends({}, L, Null, Null)
           /\ \A a \in Side : Visits({}, L, Null, a, Null)
  <1> DEFINE t == EmptyTree
             pos == [n \in Node |-> 0]
             edge == [s \in Side |-> [n \in Node |-> 0]]
             L == [pos |-> pos, edge |-> edge, black |-> pos]
             none == [n \in Node |-> Null]
             kid == [s \in Side |-> none]
             red == [n \in Node |-> FALSE]
  <1>1. pos \in [Node -> Int] /\ edge \in [Side -> [Node -> Int]]
    OBVIOUS
  <1>2. L \in Labels
    <2> HIDE DEF pos, edge
    <2> QED BY <1>1, LabelsAre
  <1>3. /\ none \in [Node -> Link] /\ kid \in [Side -> [Node -> Link]] /\ red \in [Node -> BOOLEAN]
        /\ \A n \in Node : none[n] = Null /\ ~red[n] /\ \A s \in Side : kid[s][n] = Null
    BY DEF Link
  <1>4. t = [root |-> Null, kid |-> kid, parent |-> none, red |-> red]
    BY DEF EmptyTree
  <1> HIDE DEF t, kid, none, red
  <1>5. t.root = Null /\ t.kid = kid /\ t.parent = none /\ t.red = red /\ t \in Tree
    <2>1. Null \in Link
      BY DEF Link
    <2> QED BY <1>3, <1>4, <2>1 DEF Tree
  <1>6. /\ Root(t) = Null /\ Red(t) = {}
        /\ \A n \in Node : Up(t, n) = Null /\ \A s \in Side : Kid(t, s, n) = Null
    BY <1>3, <1>5 DEF Root, Red, Up, Kid
  <1> HIDE DEF L
  <1>7. Shape(t, {}, L)
    BY <1>2, <1>5, <1>6 DEF Shape, Placed, Joined, Rooted
  <1>8. Settled(t, {}, L)
    BY <1>6, <1>7 DEF Settled, Balanced, Reds, RootBlack, Clean
  <1>9. Sorted({}, L) /\ Ends({}, L, Null, Null) /\ \A a \in Side : Visits({}, L, Null, a, Null)
    BY DEF Sorted, Ends, Visits
  <1> QED BY <1>8, <1>9 DEF t

\* The elements of the map are those of its tree.
LEMMA ElementsAre ==
    ASSUME NEW E, NEW L, Shape(tree, E, L), Clean(tree, E)
    PROVE  Elements = E
  <1>1. E \subseteq Node /\ Null \notin Node /\ Root(tree) \in E \cup {Null}
    BY SideIs DEF Shape, Rooted
  <1>2. Elements = {n \in Node : n = Root(tree) \/ Up(tree, n) # Null}
    BY DEF Elements, Root, Up
  <1>3. \A n \in E : n = Root(tree) \/ Up(tree, n) # Null
    BY ParentIs
  <1>4. \A n \in Node : n \notin E => n # Root(tree) /\ Up(tree, n) = Null
    BY <1>1 DEF Clean
  <1> QED BY <1>1, <1>2, <1>3, <1>4

\* Insertion puts an element where its key belongs, and the invariant holds again.
LEMMA LinkStep ==
    ASSUME NEW E, NEW L, NEW e \in Node, NEW equal \in Side, Holding(E, L), e \notin E,
           LinkAt(e, Place(KeyOf[e], equal))
    PROVE  \E M, k : /\ Holding(E \cup {e}, M)' /\ Pushed(L, M, E, e, k)
                     /\ k \in 1..(Highest(tree, L) + 1)
                     /\ \A x \in E : Pos(L, x) < k <=> Behind(KeyOf[e], equal, x)
  <1> DEFINE c == Place(KeyOf[e], equal)
             p == c.under
             s == c.side
             k == Spot(L, p, s)
             F == E \cup {e}
  <1>1. /\ Settled(tree, E, L) /\ Shape(tree, E, L) /\ Sorted(E, L) /\ Ends(E, L, left, right)
        /\ Visits(E, L, it, ahead, watched)
    BY DEF Holding, Settled
  <1>2. KeyOf[e] \in Int
    BY MapAssumption
  <1>3. /\ tree' = InsertFixup(Linked(tree, e, p, s), e)
        /\ left' = IF "right" \in c.turns THEN left ELSE e
        /\ right' = IF "left" \in c.turns THEN right ELSE e
        /\ it' = it /\ ahead' = ahead /\ watched' = watched
    BY Zenon DEF LinkAt
  <1>4. c = Place(KeyOf[e], equal)
    OBVIOUS
  <1> HIDE DEF c
  <1>5. Free(tree, E, e, p, s) /\ Between(tree, E, L, KeyOf[e], equal, Null, p, s, c.turns)
    BY <1>1, <1>2, <1>4, PlaceIs
  <1>6. PICK M : Settled(tree', F, M) /\ Pushed(L, M, E, e, k)
    <2> HIDE DEF p, s
    <2>1. \E M : Settled(InsertFixup(Linked(tree, e, p, s), e), F, M) /\ Pushed(L, M, E, e, k)
      BY <1>1, <1>5, InsertIs
    <2> QED BY <1>3, <2>1
  <1>7. /\ Sorted(F, M) /\ Ends(F, M, left', right') /\ Kept(E, L, M)
        /\ \A x \in E : Pos(L, x) < k <=> Behind(KeyOf[e], equal, x)
        /\ k \in 1..(Highest(tree, L) + 1)
    <2> HIDE DEF p, s
    <2> QED BY <1>1, <1>3, <1>5, <1>6, PlacedAt
  <1>8. Visits(F, M, it', ahead', watched')
    <2>1. it \in F \cup {Null} /\ watched \in F \cup {Null} /\ E \cap F = E
      BY <1>1 DEF Visits
    <2>2. Visits(F, M, it, ahead, watched)
      <3> HIDE DEF F
      <3> QED BY <1>1, <1>7, <2>1, VisitsKept
    <2> QED BY <1>3, <2>2
  <1>9. Holding(F, M)'
    BY <1>6, <1>7, <1>8 DEF Holding
  <1> HIDE DEF k
  <1> QED BY <1>6, <1>7, <1>9

\* replace gives the place of one element to another.
LEMMA ReplaceStep ==
    ASSUME NEW E, NEW L, NEW old, NEW e \in Node, Holding(E, L), Replace(old, e)
    PROVE  /\ old \in E /\ e \notin E
           /\ \E M : Holding((E \ {old}) \cup {e}, M)' /\ Renamed(L, M, E, old, e)
  <1> DEFINE F == (E \ {old}) \cup {e}
  <1>1. /\ Settled(tree, E, L) /\ Shape(tree, E, L) /\ Clean(tree, E) /\ Sorted(E, L)
        /\ Ends(E, L, left, right) /\ Visits(E, L, it, ahead, watched)
    BY DEF Holding, Settled
  <1>2. Elements = E
    BY <1>1, ElementsAre
  <1>3. /\ old \in E /\ e \notin E /\ KeyOf[old] = KeyOf[e] /\ it # old
        /\ tree' = RBReplace(tree, old, e)
        /\ left' = Named(left, old, e) /\ right' = Named(right, old, e)
        /\ watched' = Named(watched, old, e) /\ it' = it /\ ahead' = ahead
    BY <1>2, Zenon DEF Replace, Named
  <1>4. PICK M : Settled(tree', F, M) /\ Renamed(L, M, E, old, e)
    <2>1. \E M : Settled(RBReplace(tree, old, e), F, M) /\ Renamed(L, M, E, old, e)
      BY <1>1, <1>3, RBReplaceIs
    <2> QED BY <1>3, <2>1
  <1>5. Sorted(F, M) /\ Ends(F, M, left', right') /\ Visits(F, M, it', ahead', watched')
    <2>1. Sorted(F, M) /\ Ends(F, M, Named(left, old, e), Named(right, old, e))
          /\ Visits(F, M, it, ahead, Named(watched, old, e))
      BY <1>1, <1>3, <1>4, TakenOver
    <2> QED BY <1>3, <2>1
  <1>6. Holding(F, M)'
    BY <1>4, <1>5 DEF Holding
  <1> QED BY <1>3, <1>4, <1>6

\* remove takes out an element and its place.
LEMMA RemoveStep ==
    ASSUME NEW E, NEW L, NEW e, Holding(E, L), RemoveElem(e)
    PROVE  e \in E /\ \E M : Holding(E \ {e}, M)' /\ Pulled(L, M, E \ {e}, Pos(L, e))
  <1> DEFINE F == E \ {e}
  <1>1. /\ Settled(tree, E, L) /\ Shape(tree, E, L) /\ Clean(tree, E) /\ Sorted(E, L)
        /\ Ends(E, L, left, right) /\ Visits(E, L, it, ahead, watched)
    BY DEF Holding, Settled
  <1>2. Elements = E
    BY <1>1, ElementsAre
  <1>3. /\ e \in E /\ it # e /\ tree' = RBRemove(tree, e)
        /\ left' \in IF left = e THEN NextOf(tree, e) ELSE {left}
        /\ right' \in IF right = e THEN PrevOf(tree, e) ELSE {right}
        /\ watched' = IF watched = e THEN Null ELSE watched
        /\ it' = it /\ ahead' = ahead
    BY <1>2, Zenon DEF RemoveElem
  <1>4. /\ IF left = e THEN left' = Step(tree, e, "right") ELSE left' = left
        /\ IF right = e THEN right' \in {Step(tree, e, "left"), Null} ELSE right' = right
    BY <1>3, Zenon DEF NextOf, PrevOf
  <1>5. PICK M : Settled(tree', F, M) /\ Pulled(L, M, F, Pos(L, e))
    <2>1. \E M : Settled(RBRemove(tree, e), F, M) /\ Pulled(L, M, F, Pos(L, e))
      BY <1>1, <1>3, RBRemoveIs
    <2> QED BY <1>3, <2>1
  <1>6. Sorted(F, M) /\ Ends(F, M, left', right') /\ Kept(F, L, M)
    BY <1>1, <1>3, <1>4, <1>5, TakenOut
  <1>7. Visits(F, M, it', ahead', watched')
    <2>1. /\ it' \in F \cup {Null} /\ watched' \in F \cup {Null} /\ E \cap F = F
          /\ watched' = watched \/ watched' = Null
      BY <1>1, <1>3 DEF Visits
    <2>2. Visits(F, M, it, ahead, watched')
      <3>1. it \in F \cup {Null}
        BY <1>3, <2>1
      <3> HIDE DEF F
      <3> QED BY <1>1, <1>6, <2>1, <3>1, VisitsKept
    <2> QED BY <1>3, <2>2
  <1>8. Holding(F, M)'
    BY <1>5, <1>6, <1>7 DEF Holding
  <1> QED BY <1>3, <1>5, <1>8

\* The elements are those in the tree, and get finds one of a key if there is one.
LEMMA GetElement ==
    ASSUME NEW E, NEW L, NEW k \in Int, Holding(E, L)
    PROVE  /\ Elements = E
           /\ Get(k) \in E \cup {Null} /\ (Get(k) # Null => Get(k) \in E)
           /\ Get(k) # Null => KeyOf[Get(k)] = k
           /\ Get(k) = Null => \A x \in E : KeyOf[x] # k
  <1>1. Shape(tree, E, L) /\ Clean(tree, E) /\ Sorted(E, L)
    BY DEF Holding, Settled
  <1>2. Elements = E
    BY <1>1, ElementsAre
  <1>3. /\ Get(k) \in E \cup {Null}
        /\ Get(k) # Null => KeyOf[Get(k)] = k
        /\ Get(k) = Null => \A x \in E : KeyOf[x] # k
    BY <1>1, GetIs
  <1> QED BY <1>2, <1>3

\* Stuttering keeps the invariant,
LEMMA UnchangedStep ==
    ASSUME NEW E, NEW L, Holding(E, L), UNCHANGED vars
    PROVE  Holding(E, L)'
  <1>1. /\ tree' = tree /\ left' = left /\ right' = right
        /\ it' = it /\ ahead' = ahead /\ watched' = watched
    BY DEF vars
  <1> QED BY <1>1 DEF Holding

\* clear makes the map empty,
LEMMA ClearStep ==
    ASSUME NEW E, NEW L, Holding(E, L), Clear
    PROVE  \E M : Holding({}, M)'
  <1>1. /\ tree' = EmptyTree /\ left' = Null /\ right' = Null /\ watched' = Null
        /\ it' = Null /\ ahead' = ahead
    BY DEF Clear
  <1>2. PICK M : /\ Settled(EmptyTree, {}, M) /\ Sorted({}, M) /\ Ends({}, M, Null, Null)
                 /\ \A a \in Side : Visits({}, M, Null, a, Null)
    BY EmptyIs
  <1>3. ahead \in Side
    BY DEF Holding, Visits
  <1>4. Holding({}, M)'
    BY <1>1, <1>2, <1>3 DEF Holding
  <1> QED BY <1>4

\* begin and rbegin see everything ahead,
LEMMA BeginStep ==
    ASSUME NEW E, NEW L, NEW s \in Side, Holding(E, L), Begin(s)
    PROVE  Holding(E, L)'
  <1>1. /\ Settled(tree, E, L) /\ Shape(tree, E, L) /\ Clean(tree, E) /\ Sorted(E, L)
        /\ Ends(E, L, left, right)
    BY DEF Holding, Settled
  <1>2. Elements = E
    BY <1>1, ElementsAre
  <1>3. /\ ahead' = s /\ it' = (IF s = "right" THEN left ELSE right)
        /\ watched' \in (E \ {it'}) \cup {Null}
        /\ tree' = tree /\ left' = left /\ right' = right
    BY <1>2 DEF Begin
  <1>4. /\ Null \notin E /\ \A x \in E : Pos(L, x) \in Int
        /\ \A x \in E, y \in E : Pos(L, x) = Pos(L, y) => x = y
    BY <1>1, PosType
  <1>5. it' \in E \cup {Null}
    BY <1>1, <1>3 DEF Ends, IsFirst, IsLast
  <1>6. ASSUME watched' # Null
        PROVE  IF it' = Null THEN ahead' = "left" ELSE Ahead(L, it', ahead', watched')
    <2>1. watched' \in E /\ watched' # it' /\ IsFirst(E, L, left)
      BY <1>1, <1>3, <1>6 DEF Ends
    <2>2. CASE s = "right"
      <3>1. it' = left /\ left \in E /\ Pos(L, left) <= Pos(L, watched') /\ it' # Null
        BY <1>3, <1>4, <2>1, <2>2 DEF IsFirst
      <3>2. Pos(L, it') < Pos(L, watched')
        BY <1>4, <2>1, <3>1
      <3> QED BY <1>3, <2>2, <3>1, <3>2 DEF Ahead
    <2>3. CASE s = "left" /\ right = Null
      BY <1>3, <2>3, SideIs
    <2>4. CASE s = "left" /\ right # Null
      <3>1. it' = right /\ right \in E /\ Pos(L, watched') <= Pos(L, right) /\ it' # Null
        BY <1>1, <1>3, <2>1, <2>4, SideIs DEF Ends, IsLast
      <3>2. Pos(L, watched') < Pos(L, it')
        BY <1>4, <2>1, <3>1
      <3> QED BY <1>3, <2>4, <3>1, <3>2, SideIs DEF Ahead
    <2> QED BY <2>2, <2>3, <2>4, SideIs
  <1>7. Visits(E, L, it', ahead', watched')
    BY <1>3, <1>5, <1>6 DEF Visits
  <1> QED BY <1>1, <1>3, <1>7 DEF Holding

\* ++ steps to the neighbour,
LEMMA AdvanceStep ==
    ASSUME NEW E, NEW L, Holding(E, L), Advance
    PROVE  Holding(E, L)'
  <1>1. /\ Settled(tree, E, L) /\ Shape(tree, E, L) /\ Clean(tree, E) /\ Sorted(E, L)
        /\ Ends(E, L, left, right) /\ Visits(E, L, it, ahead, watched)
    BY DEF Holding, Settled
  <1>2. /\ it # Null
        /\ it' \in (IF ahead = "right" THEN NextOf(tree, it) ELSE PrevOf(tree, it))
        /\ watched' = (IF watched = it' THEN Null ELSE watched)
        /\ tree' = tree /\ left' = left /\ right' = right /\ ahead' = ahead
    BY DEF Advance
  <1>3. it \in E /\ ahead \in Side /\ watched \in E \cup {Null}
    BY <1>1, <1>2 DEF Visits
  <1>4. it' = Step(tree, it, ahead) \/ (it' = Null /\ ahead = "left")
    BY <1>2, <1>3, SideIs DEF NextOf, PrevOf
  <1>5. /\ Null \notin E /\ \A x \in E : Pos(L, x) \in Int
        /\ \A x \in E, y \in E : Pos(L, x) = Pos(L, y) => x = y
    BY <1>1, PosType
  <1>6. /\ it' \in E \cup {Null}
        /\ it' # Null => Pos(L, it') = Pos(L, it) + Dir(ahead)
        /\ it' = Null => ahead = "left" \/ Vacant(E, L, Pos(L, it) + Dir(ahead))
    <2> DEFINE r == Step(tree, it, ahead)
    <2>0. r = Step(tree, it, ahead)
      OBVIOUS
    <2> HIDE DEF r
    <2>1. /\ r \in E \cup {Null}
          /\ r # Null => Pos(L, r) = Pos(L, it) + Dir(ahead)
          /\ r = Null => Vacant(E, L, Pos(L, it) + Dir(ahead))
      BY <1>1, <1>3, <2>0, StepIs
    <2>2. it' = r \/ (it' = Null /\ ahead = "left")
      BY <1>4 DEF r
    <2> QED BY <2>1, <2>2
  <1>7. ASSUME watched' # Null
        PROVE  IF it' = Null THEN ahead = "left" ELSE Ahead(L, it', ahead, watched')
    <2>1. watched' = watched /\ watched \in E /\ watched # it' /\ Ahead(L, it, ahead, watched)
      BY <1>1, <1>2, <1>3, <1>7 DEF Visits
    <2>2. CASE ahead = "right"
      <3>1. Pos(L, it) + 1 <= Pos(L, watched)
        BY <1>3, <1>5, <2>1, <2>2 DEF Ahead
      <3>2. it' # Null
        <4>1. Highest(tree, L) \in Nat /\ Pos(L, it) + 1 \in 1..Highest(tree, L)
          BY <1>1, <1>3, <1>5, <2>1, <3>1, Places
        <4>2. \E x \in E : Pos(L, x) = Pos(L, it) + 1
          BY <1>1, <4>1, Places
        <4> QED BY <1>6, <2>2, <4>2, SideIs DEF Vacant
      <3>3. it' \in E /\ Pos(L, it') = Pos(L, it) + 1
        BY <1>6, <2>2, <3>2, SideIs
      <3>4. Pos(L, it') < Pos(L, watched)
        BY <1>3, <1>5, <2>1, <3>1, <3>3
      <3> QED BY <2>1, <2>2, <3>2, <3>4 DEF Ahead
    <2>3. CASE ahead = "left" /\ it' = Null
      BY <2>3
    <2>4. CASE ahead = "left" /\ it' # Null
      <3>1. it' \in E /\ Pos(L, it') = Pos(L, it) + (-1)
        BY <1>6, <2>4, SideIs
      <3>2. Pos(L, watched) < Pos(L, it)
        BY <2>1, <2>4, SideIs DEF Ahead
      <3>3. Pos(L, watched) < Pos(L, it')
        BY <1>3, <1>5, <2>1, <3>1, <3>2
      <3> QED BY <2>1, <2>4, <3>3, SideIs DEF Ahead
    <2> QED BY <1>3, <2>2, <2>3, <2>4, SideIs
  <1>8. Visits(E, L, it', ahead', watched')
    <2>1. watched' \in E \cup {Null}
      BY <1>2, <1>3
    <2> QED BY <1>2, <1>3, <1>6, <1>7, <2>1 DEF Visits
  <1> QED BY <1>1, <1>2, <1>8 DEF Holding

\* and an iterator may be given up.
LEMMA DropStep ==
    ASSUME NEW E, NEW L, Holding(E, L), Drop
    PROVE  Holding(E, L)'
  <1>1. /\ tree' = tree /\ left' = left /\ right' = right
        /\ it' = Null /\ watched' = Null /\ ahead' = "right"
    BY DEF Drop
  <1>2. Visits(E, L, Null, "right", Null)
    BY SideIs DEF Visits
  <1> QED BY <1>1, <1>2 DEF Holding

\* An insertion that the code may make instead of doing something else.
LEMMA StepKeeps ==
    ASSUME MapInv, [Next]_vars
    PROVE  MapInv'
  <1>0. PICK E, L : Holding(E, L)
    BY DEF MapInv
  <1>1. Elements = E /\ \A k \in Int : Get(k) # Null => Get(k) \in E
    <2>1. 0 \in Int
      OBVIOUS
    <2> QED BY <1>0, <2>1, GetElement
  <1>2. \A e \in Node : KeyOf[e] \in Int
    BY MapAssumption
  <1>3. ASSUME NEW e \in Node, NEW equal \in Side, e \notin Elements, LinkAt(e, Place(KeyOf[e], equal))
        PROVE  MapInv'
    <2>1. \E M : Holding(E \cup {e}, M)'
      BY <1>0, <1>1, <1>3, LinkStep
    <2> QED BY <2>1 DEF MapInv
  <1>4. ASSUME NEW e \in Node, NEW old, Replace(old, e) PROVE MapInv'
    <2>1. \E M : Holding((E \ {old}) \cup {e}, M)'
      BY <1>0, <1>4, ReplaceStep
    <2> QED BY <2>1 DEF MapInv
  <1>5. ASSUME NEW e, RemoveElem(e) PROVE MapInv'
    <2>1. \E M : Holding(E \ {e}, M)'
      BY <1>0, <1>5, RemoveStep
    <2> QED BY <2>1 DEF MapInv
  <1>6. CASE UNCHANGED vars
    BY <1>0, <1>6, UnchangedStep DEF MapInv
  <1>7. ASSUME NEW e \in Node, InsertAfter(e) PROVE MapInv'
    BY <1>3, <1>7, SideIs DEF InsertAfter
  <1>8. ASSUME NEW e \in Node, InsertBefore(e) PROVE MapInv'
    BY <1>3, <1>8, SideIs DEF InsertBefore
  <1>9. ASSUME NEW e \in Node, Probe(e) PROVE MapInv'
    BY <1>3, <1>6, <1>9, SideIs DEF Probe
  <1>10. ASSUME NEW e \in Node, ReplaceKey(e) PROVE MapInv'
    BY <1>3, <1>4, <1>10, SideIs DEF ReplaceKey
  <1>11. ASSUME NEW k, RemoveKey(k) PROVE MapInv'
    BY <1>5, <1>6, <1>11 DEF RemoveKey
  <1>12. CASE Clear
    BY <1>0, <1>12, ClearStep DEF MapInv
  <1>13. CASE Advance
    BY <1>0, <1>13, AdvanceStep DEF MapInv
  <1>14. CASE Drop
    BY <1>0, <1>14, DropStep DEF MapInv
  <1>15. ASSUME NEW s \in Side, Begin(s) PROVE MapInv'
    BY <1>0, <1>15, BeginStep DEF MapInv
  <1> QED BY <1>4, <1>5, <1>6, <1>7, <1>8, <1>9, <1>10, <1>11, <1>12, <1>13, <1>14, <1>15 DEF Next

\* Theorem: throughout a run, whatever is linked, replaced and removed, and however the
\* tree is rotated and repainted meanwhile, places and black counts can be given to the
\* nodes that make it a red-black search tree of the elements, the ends are where the
\* map remembers them, and the watched element is ahead of the iterator.
THEOREM MapInvTheorem == Spec => []MapInv
  <1>1. Init => MapInv
    <2> SUFFICES ASSUME Init PROVE MapInv
      OBVIOUS
    <2>1. PICK M : /\ Settled(EmptyTree, {}, M) /\ Sorted({}, M) /\ Ends({}, M, Null, Null)
                   /\ \A a \in Side : Visits({}, M, Null, a, Null)
      BY EmptyIs
    <2>2. Holding({}, M)
      BY <2>1, SideIs DEF Holding, Init
    <2> QED BY <2>2 DEF MapInv
  <1> QED BY <1>1, StepKeeps, PTL DEF Spec

\* Every key in the map is found by get.
LEMMA KeysAreFound == ASSUME MapInv PROVE KeysFound
  <1>1. PICK E, L : Holding(E, L)
    BY DEF MapInv
  <1> SUFFICES ASSUME NEW k \in {KeyOf[e] : e \in Node}
               PROVE  IF \E e \in Elements : KeyOf[e] = k
                      THEN Get(k) \in Elements /\ KeyOf[Get(k)] = k ELSE Get(k) = Null
    BY DEF KeysFound
  <1>2. k \in Int
    BY MapAssumption
  <1>3. /\ Elements = E /\ Get(k) \in E \cup {Null}
        /\ Get(k) # Null => KeyOf[Get(k)] = k
        /\ Get(k) = Null => \A x \in E : KeyOf[x] # k
    BY <1>1, <1>2, GetElement
  <1>4. Null \notin E
    BY <1>1, PosType DEF Holding, Settled
  <1> QED BY <1>3, <1>4

\* The invariant implies RedBlack,
LEMMA RedBlackHolds == ASSUME MapInv PROVE RedBlack
  <1>1. PICK E, L : Holding(E, L)
    BY DEF MapInv
  <1>2. /\ Settled(tree, E, L) /\ Shape(tree, E, L) /\ Clean(tree, E) /\ Reds(tree, E, Null, Null)
        /\ RootBlack(tree, Null) /\ tree \in Tree /\ E \subseteq Node /\ Null \notin Node
    BY <1>1, SideIs DEF Holding, Settled, Shape
  <1>3. Elements = E
    BY <1>2, ElementsAre
  <1>4. KeysFound
    BY KeysAreFound
  <1>5. Root(tree) = tree.root /\ Root(tree) \in Node \cup {Null}
    BY <1>2, FieldsType DEF Root
  <1>6. \A n \in Node \cup {Null} : IsRed(tree, n) <=> n \in Red(tree)
    BY <1>2, IsRedIs
  <1>7. ~IsRed(tree, tree.root)
    <2>1. Null \notin Red(tree)
      BY <1>2 DEF Red
    <2> QED BY <1>5, <1>6, <2>1, <1>2 DEF RootBlack
  <1>8. BlackHeight(tree) # -1
    BY <1>2, BlackHeightIs
  <1>9. tree.root # Null => tree.parent[tree.root] = Null
    BY <1>2, <1>5 DEF Shape, Rooted, Up
  <1>10. ASSUME NEW n \in Elements, NEW s \in Side
         PROVE  LET c == tree.kid[s][n]
                IN  c # Null => /\ c \in Elements /\ tree.parent[c] = n
                                /\ ~(IsRed(tree, n) /\ IsRed(tree, c))
    <2> DEFINE c == Kid(tree, s, n)
    <2>1. c = tree.kid[s][n]
      BY DEF Kid
    <2>2. ASSUME c # Null
          PROVE  /\ c \in Elements /\ tree.parent[c] = n
                 /\ ~(IsRed(tree, n) /\ IsRed(tree, c))
      <3>1. c \in E /\ Up(tree, c) = n
        BY <1>2, <1>3, <2>2, ChildIs
      <3>2. ~(n \in Red(tree) /\ c \in Red(tree))
        BY <1>2, <1>3, <2>2 DEF Reds
      <3> HIDE DEF c
      <3> QED BY <1>2, <1>3, <1>6, <3>1, <3>2 DEF Up
    <2> QED BY <2>1, <2>2
  <1> QED BY <1>2, <1>4, <1>7, <1>8, <1>9, <1>10 DEF RedBlack

\* EndsRemembered,
LEMMA EndsHold == ASSUME MapInv PROVE EndsRemembered
  <1>1. PICK E, L : Holding(E, L)
    BY DEF MapInv
  <1>2. /\ Shape(tree, E, L) /\ Clean(tree, E) /\ E \subseteq Node /\ Null \notin Node
        /\ Ends(E, L, left, right)
    BY <1>1, SideIs DEF Holding, Settled, Shape
  <1> DEFINE first == Extreme(tree, Root(tree), "left")
             last == Extreme(tree, Root(tree), "right")
  <1>3. Leftmost(tree) = first /\ Rightmost(tree) = last
    BY DEF Leftmost, Rightmost, Root
  <1>4. CASE Root(tree) = Null
    <2>1. E = {}
      BY <1>2, <1>4 DEF Shape, Rooted
    <2>2. first = Null /\ last = Null
      BY <1>4, Zenon DEF Extreme
    <2>3. left = Null /\ right = Null
      BY <1>2, <2>1 DEF Ends, IsLast
    <2> QED BY <1>3, <2>2, <2>3 DEF EndsRemembered
  <1>5. CASE Root(tree) # Null
    <2>1. /\ Root(tree) \in E /\ Edge(L, "left", Root(tree)) = 1
          /\ Edge(L, "right", Root(tree)) = Highest(tree, L)
      BY <1>2, <1>5 DEF Shape, Rooted, Highest
    <2>2. first = Extreme(tree, Root(tree), "left") /\ last = Extreme(tree, Root(tree), "right")
      OBVIOUS
    <2> HIDE DEF first, last
    <2>3. first \in E /\ Pos(L, first) = Edge(L, "left", Root(tree))
      BY <1>2, <2>1, <2>2, SideIs, ExtremeIs
    <2>4. last \in E /\ Pos(L, last) = Edge(L, "right", Root(tree))
      BY <1>2, <2>1, <2>2, SideIs, ExtremeIs
    <2>5. /\ Highest(tree, L) \in Nat /\ \A x \in E : Pos(L, x) \in 1..Highest(tree, L)
          /\ \A x \in E, y \in E : Pos(L, x) = Pos(L, y) => x = y
      BY <1>2, Places, PosType
    <2>6. left = first
      <3>1. IsFirst(E, L, left)
        BY <1>2, <2>1 DEF Ends
      <3> QED BY <2>1, <2>3, <2>5, <3>1 DEF IsFirst
    <2>7. right = Null \/ right = last
      <3>1. right = Null \/ IsLast(E, L, right)
        BY <1>2 DEF Ends
      <3> QED BY <2>1, <2>4, <2>5, <3>1 DEF IsLast
    <2> QED BY <1>3, <2>6, <2>7 DEF EndsRemembered
  <1> QED BY <1>4, <1>5

\* and NoneSkipped.
LEMMA NoneSkippedHolds == ASSUME MapInv PROVE NoneSkipped
  <1>1. PICK E, L : Holding(E, L)
    BY DEF MapInv
  <1>2. Shape(tree, E, L) /\ Clean(tree, E) /\ Visits(E, L, it, ahead, watched)
    BY <1>1 DEF Holding, Settled
  <1> DEFINE q == InOrder(tree)
  <1>3. q = Order(tree, E, L)
    BY <1>2, InOrderIs
  <1> SUFFICES ASSUME watched # Null, it # Null
               PROVE  \E i, j \in DOMAIN q :
                         i < j /\ <<q[i], q[j]>> =
                            IF ahead = "right" THEN <<it, watched>> ELSE <<watched, it>>
    BY <1>2 DEF NoneSkipped, Visits
  <1> HIDE DEF q
  <1>4. /\ DOMAIN q = 1..Len(q)
        /\ \A x \in E : Pos(L, x) \in 1..Len(q) /\ q[Pos(L, x)] = x
    BY <1>2, <1>3, OrderIs
  <1>5. it \in E /\ watched \in E /\ Ahead(L, it, ahead, watched)
    BY <1>2 DEF Visits
  <1> DEFINE i == IF ahead = "right" THEN Pos(L, it) ELSE Pos(L, watched)
             j == IF ahead = "right" THEN Pos(L, watched) ELSE Pos(L, it)
  <1>6. i \in DOMAIN q /\ j \in DOMAIN q /\ i < j
    BY <1>4, <1>5 DEF Ahead
  <1>7. <<q[i], q[j]>> = IF ahead = "right" THEN <<it, watched>> ELSE <<watched, it>>
    BY <1>4, <1>5
  <1> HIDE DEF i, j
  <1> QED BY <1>6, <1>7

\* Theorem: the tree of a map is a red-black tree in order of keys, and get finds what
\* is in it, after any insertions, replacements and removals (insert_fixup, erase_color).
THEOREM RedBlackTheorem == Spec => []RedBlack
  BY MapInvTheorem, RedBlackHolds, PTL

\* Theorem: begin() and rbegin(), which trust _left and _right, are the ends of the map,
\* although insert and remove maintain them by the turns of one descent.
THEOREM EndsRememberedTheorem == Spec => []EndsRemembered
  BY MapInvTheorem, EndsHold, PTL

\* Theorem: an iterator under which elements come and go misses none that stays.
THEOREM NoneSkippedTheorem == Spec => []NoneSkipped
  BY MapInvTheorem, NoneSkippedHolds, PTL

-----------------------------------------------------------------------------
(* The map is an OrderedMap. *)

\* q lists the elements E by their places.
Lists(q, E, L) ==
    /\ q \in Seq(Node) /\ Len(q) \in Nat /\ DOMAIN q = 1..Len(q)
    /\ \A x \in E : Pos(L, x) \in 1..Len(q) /\ q[Pos(L, x)] = x
    /\ \A i \in 1..Len(q) : q[i] \in E /\ Pos(L, q[i]) = i

\* InOrder lists the elements of a settled tree.
LEMMA OrderLists ==
    ASSUME NEW t, NEW E, NEW L, Settled(t, E, L)
    PROVE  Lists(InOrder(t), E, L) /\ Len(InOrder(t)) = Highest(t, L)
  <1> DEFINE q == InOrder(t)
  <1>1. Shape(t, E, L) /\ Clean(t, E)
    BY DEF Settled
  <1>2. q = Order(t, E, L)
    BY <1>1, InOrderIs
  <1> HIDE DEF q
  <1>3. /\ q \in Seq(Node) /\ Len(q) = Highest(t, L) /\ Len(q) \in Nat /\ DOMAIN q = 1..Len(q)
        /\ \A x \in E : Pos(L, x) \in 1..Len(q) /\ q[Pos(L, x)] = x
        /\ \A i \in 1..Len(q) : q[i] \in E /\ Pos(L, q[i]) = i
    BY <1>1, <1>2, OrderIs
  <1> QED BY <1>3 DEF Lists, q

\* Where elements go when one is put in,
LEMMA PlacePushed ==
    ASSUME NEW E, NEW L, NEW M, NEW e, NEW k \in Int, \A x \in E : Pos(L, x) \in Int,
           Pushed(L, M, E, e, k)
    PROVE  /\ Pos(M, e) = k
           /\ \A x \in E : /\ Pos(L, x) < k => Pos(M, x) = Pos(L, x)
                           /\ Pos(L, x) >= k => Pos(M, x) = Pos(L, x) + 1
  BY DEF Pushed, Shift

\* and when one is taken out.
LEMMA PlacePulled ==
    ASSUME NEW E, NEW F, NEW L, NEW M, NEW e, NEW k, NEW q, Lists(q, E, L), e \in E, k = Pos(L, e),
           \A x : x \in F <=> x \in E /\ x # e, Pulled(L, M, F, k)
    PROVE  \A x \in F : /\ Pos(L, x) < k => Pos(M, x) = Pos(L, x)
                        /\ Pos(L, x) > k => Pos(M, x) = Pos(L, x) - 1
                        /\ Pos(L, x) # k
  <1>1. \A x \in E : Pos(L, x) \in 1..Len(q) /\ q[Pos(L, x)] = x /\ Len(q) \in Nat
    BY DEF Lists
  <1>2. \A x \in F : Pos(L, x) # k
    BY <1>1
  <1> QED BY <1>1, <1>2 DEF Pulled, Pull

\* The list after an insertion,
LEMMA OrderPushed ==
    ASSUME NEW E, NEW F, NEW L, NEW M, NEW e \in Node, NEW k, NEW q, NEW q2,
           Lists(q, E, L), Lists(q2, F, M), \A x : x \in F <=> x \in E \/ x = e,
           k \in 1..(Len(q) + 1), Pushed(L, M, E, e, k)
    PROVE  q2 = InsertAt(q, k, e)
  <1>1. /\ q \in Seq(Node) /\ Len(q) \in Nat /\ DOMAIN q = 1..Len(q)
        /\ \A x \in E : Pos(L, x) \in 1..Len(q) /\ q[Pos(L, x)] = x
        /\ \A i \in 1..Len(q) : q[i] \in E /\ Pos(L, q[i]) = i
    BY DEF Lists
  <1>2. /\ q2 \in Seq(Node) /\ Len(q2) \in Nat /\ DOMAIN q2 = 1..Len(q2)
        /\ \A x \in F : Pos(M, x) \in 1..Len(q2) /\ q2[Pos(M, x)] = x
        /\ \A i \in 1..Len(q2) : q2[i] \in F /\ Pos(M, q2[i]) = i
    BY DEF Lists
  <1>3. k \in 1..(Len(q) + 1) /\ k \in Int
    BY <1>1
  <1>4. /\ Pos(M, e) = k
        /\ \A x \in E : /\ Pos(L, x) < k => Pos(M, x) = Pos(L, x)
                        /\ Pos(L, x) >= k => Pos(M, x) = Pos(L, x) + 1
    BY <1>1, <1>3, PlacePushed
  <1>5. e \in F /\ E \subseteq F
    OBVIOUS
  <1>6. Len(q2) = Len(q) + 1
    <2>1. Len(q) + 1 <= Len(q2)
      <3>1. CASE k = Len(q) + 1
        BY <1>2, <1>4, <1>5, <3>1
      <3>2. CASE k # Len(q) + 1
        <4>1. Len(q) \in 1..Len(q) /\ k <= Len(q)
          BY <1>1, <1>3, <3>2
        <4>2. q[Len(q)] \in E /\ Pos(L, q[Len(q)]) = Len(q)
          BY <1>1, <4>1
        <4>3. Pos(M, q[Len(q)]) = Len(q) + 1
          BY <1>4, <4>1, <4>2
        <4> QED BY <1>2, <1>5, <4>2, <4>3
      <3> QED BY <3>1, <3>2
    <2>2. Len(q2) <= Len(q) + 1
      <3>1. Len(q2) \in 1..Len(q2)
        BY <1>1, <1>2, <2>1
      <3>2. q2[Len(q2)] \in F /\ Pos(M, q2[Len(q2)]) = Len(q2)
        BY <1>2, <3>1
      <3>3. \A x \in F : Pos(M, x) <= Len(q) + 1
        <4>1. \A x \in E : Pos(M, x) <= Len(q) + 1
          BY <1>1, <1>3, <1>4
        <4> QED BY <1>3, <1>4, <4>1
      <3> QED BY <3>2, <3>3
    <2>9. Len(q) \in Nat /\ Len(q2) \in Nat
      BY <1>1, <1>2
    <2> QED BY <2>1, <2>2, <2>9
  <1>7. /\ InsertAt(q, k, e) \in Seq(Node) /\ Len(InsertAt(q, k, e)) = Len(q) + 1
        /\ \A j \in 1..(Len(q) + 1) :
              InsertAt(q, k, e)[j] = IF j < k THEN q[j] ELSE IF j = k THEN e ELSE q[j - 1]
    <2>1. q \in Seq(Node) /\ e \in Node /\ k \in 1..(Len(q) + 1)
      BY <1>1, <1>3
    <2> QED BY <2>1, InsertAtProps
  <1>8. ASSUME NEW j \in 1..(Len(q) + 1)
        PROVE  q2[j] = IF j < k THEN q[j] ELSE IF j = k THEN e ELSE q[j - 1]
    <2>1. CASE j < k
      <3>1. j \in 1..Len(q)
        BY <1>1, <1>3, <2>1
      <3>2. q[j] \in E /\ Pos(M, q[j]) = j
        BY <1>1, <1>4, <2>1, <3>1
      <3>3. q2[j] = q[j]
        BY <1>2, <1>5, <3>2
      <3> QED BY <2>1, <3>3
    <2>2. CASE j = k
      BY <1>2, <1>3, <1>4, <1>5, <2>2
    <2>3. CASE j > k
      <3>1. j - 1 \in 1..Len(q) /\ j - 1 >= k
        BY <1>1, <1>3, <2>3
      <3>2. q[j - 1] \in E /\ Pos(M, q[j - 1]) = (j - 1) + 1 /\ (j - 1) + 1 = j
        BY <1>1, <1>4, <3>1
      <3>3. q2[j] = q[j - 1]
        BY <1>2, <1>5, <3>2
      <3>4. ~(j < k) /\ j # k
        BY <1>3, <2>3
      <3> QED BY <3>3, <3>4
    <2> QED BY <1>3, <2>1, <2>2, <2>3
  <1>9. \A j \in 1..Len(q2) : q2[j] = InsertAt(q, k, e)[j]
    BY <1>6, <1>7, <1>8
  <1> QED BY <1>2, <1>6, <1>7, <1>9, SeqEqual

\* a removal,
LEMMA OrderPulled ==
    ASSUME NEW E, NEW F, NEW L, NEW M, NEW e, NEW k, NEW q, NEW q2,
           Lists(q, E, L), Lists(q2, F, M), \A x : x \in F <=> x \in E /\ x # e, e \in E,
           k = Pos(L, e), Pulled(L, M, F, k)
    PROVE  k \in DOMAIN q /\ q2 = RemoveAt(q, k)
  <1>1. /\ q \in Seq(Node) /\ Len(q) \in Nat /\ DOMAIN q = 1..Len(q)
        /\ \A x \in E : Pos(L, x) \in 1..Len(q) /\ q[Pos(L, x)] = x
        /\ \A i \in 1..Len(q) : q[i] \in E /\ Pos(L, q[i]) = i
    BY DEF Lists
  <1>2. /\ q2 \in Seq(Node) /\ Len(q2) \in Nat /\ DOMAIN q2 = 1..Len(q2)
        /\ \A x \in F : Pos(M, x) \in 1..Len(q2) /\ q2[Pos(M, x)] = x
        /\ \A i \in 1..Len(q2) : q2[i] \in F /\ Pos(M, q2[i]) = i
    BY DEF Lists
  <1>3. \A x \in F : /\ Pos(L, x) < k => Pos(M, x) = Pos(L, x)
                     /\ Pos(L, x) > k => Pos(M, x) = Pos(L, x) - 1
                     /\ Pos(L, x) # k
    BY <1>1, PlacePulled
  <1>4. k \in 1..Len(q) /\ F \subseteq E
    BY <1>1
  <1>5. \A i \in 1..Len(q) : i # k => q[i] \in F
    BY <1>1
  <1>6. Len(q2) = Len(q) - 1
    <2>1. \A x \in F : Pos(M, x) <= Len(q) - 1
      BY <1>1, <1>3, <1>4
    <2>2. Len(q2) <= Len(q) - 1
      <3>1. CASE Len(q2) = 0
        BY <1>1, <1>4, <3>1
      <3>2. CASE Len(q2) # 0
        <4>1. q2[Len(q2)] \in F /\ Pos(M, q2[Len(q2)]) = Len(q2)
          BY <1>2, <3>2
        <4> QED BY <2>1, <4>1
      <3> QED BY <3>1, <3>2
    <2>3. Len(q) - 1 <= Len(q2)
      <3>1. CASE Len(q) = 1
        BY <1>2, <3>1
      <3>2. CASE k = Len(q) /\ Len(q) # 1
        <4>1. Len(q) - 1 \in 1..Len(q) /\ Len(q) - 1 < k
          BY <1>1, <1>4, <3>2
        <4>2. q[Len(q) - 1] \in F /\ Pos(L, q[Len(q) - 1]) = Len(q) - 1
          BY <1>1, <1>4, <1>5, <4>1
        <4>3. Pos(M, q[Len(q) - 1]) = Len(q) - 1
          BY <1>3, <4>1, <4>2
        <4> QED BY <1>2, <4>2, <4>3
      <3>3. CASE k # Len(q)
        <4>1. Len(q) \in 1..Len(q) /\ Len(q) > k
          BY <1>1, <1>4, <3>3
        <4>2. q[Len(q)] \in F /\ Pos(L, q[Len(q)]) = Len(q)
          BY <1>1, <1>4, <1>5, <4>1
        <4>3. Pos(M, q[Len(q)]) = Len(q) - 1
          BY <1>3, <4>1, <4>2
        <4> QED BY <1>2, <4>2, <4>3
      <3> QED BY <3>1, <3>2, <3>3
    <2>9. Len(q) \in Nat /\ Len(q2) \in Nat
      BY <1>1, <1>2
    <2> QED BY <2>2, <2>3, <2>9
  <1>7. /\ RemoveAt(q, k) \in Seq(Node) /\ Len(RemoveAt(q, k)) = Len(q) - 1
        /\ \A j \in 1..(Len(q) - 1) : RemoveAt(q, k)[j] = IF j < k THEN q[j] ELSE q[j + 1]
    BY <1>1, <1>4, RemoveAtProps
  <1>8. ASSUME NEW j \in 1..(Len(q) - 1) PROVE q2[j] = IF j < k THEN q[j] ELSE q[j + 1]
    <2>1. CASE j < k
      <3>1. j \in 1..Len(q) /\ j # k
        BY <1>1, <1>4, <2>1
      <3>2. q[j] \in F /\ Pos(M, q[j]) = j
        BY <1>1, <1>3, <1>5, <2>1, <3>1
      <3>3. q2[j] = q[j]
        BY <1>2, <3>2
      <3> QED BY <2>1, <3>3
    <2>2. CASE ~(j < k)
      <3>1. j + 1 \in 1..Len(q) /\ j + 1 > k
        BY <1>1, <1>4, <2>2
      <3>2. q[j + 1] \in F /\ Pos(L, q[j + 1]) = j + 1
        BY <1>1, <1>4, <1>5, <3>1
      <3>3. Pos(M, q[j + 1]) = (j + 1) - 1 /\ (j + 1) - 1 = j
        BY <1>3, <3>1, <3>2
      <3>4. q2[j] = q[j + 1]
        BY <1>2, <3>2, <3>3
      <3> QED BY <2>2, <3>4
    <2> QED BY <2>1, <2>2
  <1>9. \A j \in 1..Len(q2) : q2[j] = RemoveAt(q, k)[j]
    BY <1>6, <1>7, <1>8
  <1>10. q2 = RemoveAt(q, k)
    BY <1>2, <1>6, <1>7, <1>9, SeqEqual
  <1> QED BY <1>1, <1>4, <1>10

\* and a replacement.
LEMMA OrderRenamed ==
    ASSUME NEW E, NEW F, NEW L, NEW M, NEW old, NEW e, NEW k, NEW q, NEW q2,
           Lists(q, E, L), Lists(q2, F, M), \A x : x \in F <=> (x \in E /\ x # old) \/ x = e,
           old \in E, k = Pos(L, old), Renamed(L, M, E, old, e)
    PROVE  k \in DOMAIN q /\ q[k] = old /\ q2 = [q EXCEPT ![k] = e]
  <1>1. /\ q \in Seq(Node) /\ Len(q) \in Nat /\ DOMAIN q = 1..Len(q)
        /\ \A x \in E : Pos(L, x) \in 1..Len(q) /\ q[Pos(L, x)] = x
        /\ \A i \in 1..Len(q) : q[i] \in E /\ Pos(L, q[i]) = i
    BY DEF Lists
  <1>2. /\ q2 \in Seq(Node) /\ Len(q2) \in Nat /\ DOMAIN q2 = 1..Len(q2)
        /\ \A x \in F : Pos(M, x) \in 1..Len(q2) /\ q2[Pos(M, x)] = x
        /\ \A i \in 1..Len(q2) : q2[i] \in F /\ Pos(M, q2[i]) = i
    BY DEF Lists
  <1>3. Pos(M, e) = k /\ \A x \in E \ {old} : Pos(M, x) = Pos(L, x)
    BY DEF Renamed
  <1>4. k \in 1..Len(q) /\ q[k] = old
    BY <1>1
  <1>5. \A i \in 1..Len(q) : Pos(M, IF i = k THEN e ELSE q[i]) = i /\ (IF i = k THEN e ELSE q[i]) \in F
    BY <1>1, <1>3, <1>4
  <1>6. \A i \in 1..Len(q) : i \in 1..Len(q2) /\ q2[i] = IF i = k THEN e ELSE q[i]
    BY <1>2, <1>5
  <1>7. \A x \in F : Pos(M, x) <= Len(q)
    <2>1. \A x \in E \ {old} : Pos(M, x) <= Len(q)
      BY <1>1, <1>3
    <2> QED BY <1>3, <1>4, <2>1
  <1>8. Len(q2) = Len(q)
    <2>1. Len(q) <= Len(q2) /\ 1 <= Len(q)
      BY <1>1, <1>2, <1>4, <1>6
    <2>2. q2[Len(q2)] \in F /\ Pos(M, q2[Len(q2)]) = Len(q2)
      BY <1>1, <1>2, <2>1
    <2>9. Len(q) \in Nat /\ Len(q2) \in Nat
      BY <1>1, <1>2
    <2> QED BY <1>7, <2>1, <2>2, <2>9
  <1>9. q2 = [i \in 1..Len(q) |-> IF i = k THEN e ELSE q[i]]
    <2>1. q2 = [i \in 1..Len(q2) |-> q2[i]]
      BY <1>2
    <2> QED BY <1>6, <1>8, <2>1
  <1>10. q2 = [q EXCEPT ![k] = e]
    BY <1>1, <1>4, <1>9
  <1> QED BY <1>1, <1>4, <1>10

\* As many elements as the new one goes behind are at the places before its own.
LEMMA CountBehind ==
    ASSUME NEW E, NEW L, NEW key \in Int, NEW equal \in Side, NEW k, NEW q, NEW B, Lists(q, E, L), k \in 1..(Len(q) + 1),
           \A x \in E : Pos(L, x) < k <=> Behind(key, equal, x),
           \A i : i \in B <=> i \in DOMAIN q /\ Behind(key, equal, q[i])
    PROVE  k = 1 + Cardinality(B)
  <1>1. /\ Len(q) \in Nat /\ DOMAIN q = 1..Len(q)
        /\ \A i \in 1..Len(q) : q[i] \in E /\ Pos(L, q[i]) = i
    BY DEF Lists
  <1>2. \A i \in 1..Len(q) : Behind(key, equal, q[i]) <=> i < k
    BY <1>1
  <1>3. B = 1..(k - 1)
    <2>1. \A i : i \in B <=> i \in 1..Len(q) /\ i < k
      BY <1>1, <1>2
    <2>2. \A i : i \in 1..(k - 1) <=> i \in 1..Len(q) /\ i < k
      BY <1>1
    <2> QED BY <2>1, <2>2
  <1>4. Cardinality(1..(k - 1)) = k - 1
    BY <1>1, FS_Interval
  <1>5. k = 1 + (k - 1)
    BY <1>1
  <1> QED BY <1>3, <1>4, <1>5

\* What the instance of OrderedMap takes from the libraries is what the map takes.
LEMMA OrderedOps ==
    ASSUME NEW q, NEW k, NEW e, NEW S
    PROVE  /\ Ordered!ToSet(q) = ToSet(q) /\ Ordered!Cardinality(S) = Cardinality(S)
           /\ Ordered!InsertAt(q, k, e) = InsertAt(q, k, e) /\ Ordered!RemoveAt(q, k) = RemoveAt(q, k)
  <1>1. Ordered!ToSet(q) = ToSet(q)
    BY DEF Ordered!ToSet, ToSet
  <1>2. Ordered!Cardinality(S) = Cardinality(S)
    BY Zenon DEF Ordered!Cardinality, Cardinality
  <1>3. Ordered!InsertAt(q, k, e) = InsertAt(q, k, e)
    BY DEF Ordered!InsertAt, InsertAt
  <1>4. Ordered!RemoveAt(q, k) = RemoveAt(q, k)
    BY DEF Ordered!RemoveAt, RemoveAt
  <1> QED BY <1>1, <1>2, <1>3, <1>4

\* The list of the map in a state of the invariant.
LEMMA OrderOfState ==
    ASSUME NEW E, NEW L, Holding(E, L)
    PROVE  /\ Lists(InOrder(tree), E, L) /\ Len(InOrder(tree)) = Highest(tree, L)
           /\ \A e : e \notin E <=> Ordered!Absent(e)
  <1> DEFINE q == InOrder(tree)
  <1>1. Lists(q, E, L) /\ Len(q) = Highest(tree, L)
    BY OrderLists DEF Holding
  <1>2. \A e : Ordered!Absent(e) <=> e \notin ToSet(q)
    BY OrderedOps DEF Ordered!Absent
  <1> HIDE DEF q
  <1>3. ToSet(q) = E
    <2>1. /\ q \in Seq(Node) /\ \A x : x \in ToSet(q) <=> \E i \in 1..Len(q) : q[i] = x
      BY <1>1, SetOfSeq DEF Lists
    <2> QED BY <1>1, <2>1 DEF Lists
  <1> QED BY <1>1, <1>2, <1>3 DEF q

\* The new state, whose elements are in the same tree.
LEMMA NewOrder ==
    ASSUME NEW E, NEW L, Holding(E, L)'
    PROVE  Lists(InOrder(tree'), E, L)
  <1>1. Settled(tree', E, L)
    BY DEF Holding
  <1> QED BY <1>1, OrderLists

\* An insertion is one into the list: insert<true> goes behind equal keys, insert<false> before.
LEMMA LinkOrdered ==
    ASSUME NEW E, NEW L, NEW e \in Node, NEW equal \in Side, Holding(E, L), e \notin E,
           LinkAt(e, Place(KeyOf[e], equal))
    PROVE  IF equal = "right" THEN Ordered!InsertAfter(e) ELSE Ordered!InsertBefore(e)
  <1>1. PICK M, k : /\ Holding(E \cup {e}, M)' /\ Pushed(L, M, E, e, k)
                    /\ k \in 1..(Highest(tree, L) + 1)
                    /\ \A x \in E : Pos(L, x) < k <=> Behind(KeyOf[e], equal, x)
    BY LinkStep
  <1> DEFINE q == InOrder(tree)
             q2 == InOrder(tree')
             F == E \cup {e}
             B == {i \in DOMAIN q : Behind(KeyOf[e], equal, q[i])}
  <1>2. Lists(q, E, L) /\ Len(q) = Highest(tree, L) /\ Ordered!Absent(e)
    BY OrderOfState
  <1>3. Lists(q2, F, M)
    BY <1>1, NewOrder
  <1>4. \A x : x \in F <=> x \in E \/ x = e
    OBVIOUS
  <1>5. q2 = InsertAt(q, k, e)
    <2> HIDE DEF q, q2, F
    <2> QED BY <1>1, <1>2, <1>3, <1>4, OrderPushed
  <1>6. k = 1 + Cardinality(B)
    <2>1. /\ k \in 1..(Len(q) + 1)
          /\ \A i : i \in B <=> i \in DOMAIN q /\ Behind(KeyOf[e], equal, q[i])
      BY <1>1, <1>2
    <2>2. /\ Lists(q, E, L) /\ \A x \in E : Pos(L, x) < k <=> Behind(KeyOf[e], equal, x)
      BY <1>1, <1>2
    <2>3. KeyOf[e] \in Int
      BY MapAssumption
    <2> HIDE DEF q, B
    <2> QED BY <2>1, <2>2, <2>3, CountBehind
  <1>9. q2 = Ordered!InsertAt(q, 1 + Ordered!Cardinality(B), e)
    <2> HIDE DEF q, q2, B
    <2> QED BY <1>5, <1>6, OrderedOps
  <1>7. CASE equal = "right"
    <2>1. B = {i \in DOMAIN q : KeyOf[q[i]] <= KeyOf[e]}
      BY <1>7 DEF Behind
    <2> HIDE DEF B
    <2> QED BY <1>2, <1>7, <1>9, <2>1, Zenon DEF Ordered!InsertAfter
  <1>8. CASE equal = "left"
    <2>1. B = {i \in DOMAIN q : KeyOf[q[i]] < KeyOf[e]}
      BY <1>8, SideIs DEF Behind
    <2>2. equal # "right"
      BY <1>8, SideIs
    <2> HIDE DEF B
    <2> QED BY <1>2, <1>9, <2>1, <2>2, Zenon DEF Ordered!InsertBefore
  <1> QED BY <1>7, <1>8, SideIs

\* A replacement is one in the list,
LEMMA ReplaceOrdered ==
    ASSUME NEW E, NEW L, NEW old, NEW e \in Node, Holding(E, L), Replace(old, e)
    PROVE  \E i \in DOMAIN InOrder(tree) : Ordered!Replace(i, e)
  <1>1. /\ old \in E /\ e \notin E
        /\ \E M : Holding((E \ {old}) \cup {e}, M)' /\ Renamed(L, M, E, old, e)
    BY ReplaceStep
  <1>2. PICK M : Holding((E \ {old}) \cup {e}, M)' /\ Renamed(L, M, E, old, e)
    BY <1>1
  <1> DEFINE q == InOrder(tree)
             q2 == InOrder(tree')
             F == (E \ {old}) \cup {e}
             k == Pos(L, old)
  <1>3. Lists(q, E, L) /\ Ordered!Absent(e)
    BY <1>1, OrderOfState
  <1>4. Lists(q2, F, M)
    BY <1>2, NewOrder
  <1>5. (\A x : x \in F <=> (x \in E /\ x # old) \/ x = e) /\ k = Pos(L, old)
    OBVIOUS
  <1>6. k \in DOMAIN q /\ q[k] = old /\ q2 = [q EXCEPT ![k] = e]
    <2> HIDE DEF q, q2, F, k
    <2> QED BY <1>1, <1>2, <1>3, <1>4, <1>5, OrderRenamed
  <1>7. KeyOf[q[k]] = KeyOf[e]
    BY <1>6 DEF Replace
  <1>8. Ordered!Replace(k, e)
    <2> HIDE DEF k
    <2> QED BY <1>3, <1>6, <1>7, Zenon DEF Ordered!Replace
  <1> QED BY <1>6, <1>8

\* as a removal is.
LEMMA RemoveOrdered ==
    ASSUME NEW E, NEW L, NEW e, Holding(E, L), RemoveElem(e)
    PROVE  \E i \in DOMAIN InOrder(tree) : Ordered!RemoveElem(i)
  <1>1. e \in E /\ \E M : Holding(E \ {e}, M)' /\ Pulled(L, M, E \ {e}, Pos(L, e))
    BY RemoveStep
  <1>2. PICK M : Holding(E \ {e}, M)' /\ Pulled(L, M, E \ {e}, Pos(L, e))
    BY <1>1
  <1> DEFINE q == InOrder(tree)
             q2 == InOrder(tree')
             F == E \ {e}
             k == Pos(L, e)
  <1>3. Lists(q, E, L)
    BY OrderOfState
  <1>4. Lists(q2, F, M)
    BY <1>2, NewOrder
  <1>5. (\A x : x \in F <=> x \in E /\ x # e) /\ k = Pos(L, e)
    OBVIOUS
  <1>6. k \in DOMAIN q /\ q2 = RemoveAt(q, k)
    <2> HIDE DEF q, q2, F, k
    <2> QED BY <1>1, <1>2, <1>3, <1>4, <1>5, OrderPulled DEF F, k
  <1>7. Ordered!RemoveElem(k)
    <2>1. q2 = Ordered!RemoveAt(q, k)
      <3> HIDE DEF q, q2, k
      <3> QED BY <1>6, OrderedOps
    <2> HIDE DEF k
    <2> QED BY <2>1, Zenon DEF Ordered!RemoveElem
  <1> QED BY <1>6, <1>7

\* The empty map has the empty list.
LEMMA EmptyOrder == InOrder(EmptyTree) = <<>>
  <1>1. PICK L : Settled(EmptyTree, {}, L)
    BY EmptyIs
  <1> DEFINE q == InOrder(EmptyTree)
  <1>2. Lists(q, {}, L)
    BY <1>1, OrderLists
  <1> HIDE DEF q
  <1>3. q \in Seq(Node) /\ Len(q) = 0
    BY <1>2 DEF Lists
  <1> QED BY <1>3, EmptySeq DEF q

\* A step of the map is a step of OrderedMap, or none.
LEMMA OrderStep ==
    ASSUME MapInv, [Next]_vars
    PROVE  [Ordered!Next]_(InOrder(tree))
  <1>0. PICK E, L : Holding(E, L)
    BY DEF MapInv
  <1> DEFINE AsBefore == InOrder(tree') = InOrder(tree)
             Good == Ordered!Next \/ AsBefore
  <1>1. Elements = E /\ \A k \in Int : Get(k) # Null => Get(k) \in E
    <2>1. 0 \in Int
      OBVIOUS
    <2> QED BY <1>0, <2>1, GetElement
  <1>2. tree' = tree => AsBefore
    OBVIOUS
  <1> HIDE DEF AsBefore
  <1>3. ASSUME NEW e \in Node, NEW equal \in Side, e \notin Elements, LinkAt(e, Place(KeyOf[e], equal))
        PROVE  Good
    <2>1. Ordered!InsertAfter(e) \/ Ordered!InsertBefore(e)
      BY <1>0, <1>1, <1>3, LinkOrdered
    <2> QED BY <2>1, Zenon DEF Ordered!Next
  <1>4. ASSUME NEW e \in Node, NEW old, Replace(old, e) PROVE Good
    <2>1. \E i \in DOMAIN InOrder(tree) : Ordered!Replace(i, e)
      BY <1>0, <1>4, ReplaceOrdered
    <2> QED BY <2>1, Zenon DEF Ordered!Next
  <1>5. ASSUME NEW e, RemoveElem(e) PROVE Good
    <2>1. \E i \in DOMAIN InOrder(tree) : Ordered!RemoveElem(i)
      BY <1>0, <1>5, RemoveOrdered
    <2> QED BY <2>1, Zenon DEF Ordered!Next
  <1>6. ASSUME UNCHANGED vars PROVE Good
    BY <1>2, <1>6 DEF vars
  <1>7. ASSUME NEW e \in Node, InsertAfter(e) PROVE Good
    BY <1>3, <1>7, SideIs DEF InsertAfter
  <1>8. ASSUME NEW e \in Node, InsertBefore(e) PROVE Good
    BY <1>3, <1>8, SideIs DEF InsertBefore
  <1>9. ASSUME NEW e \in Node, Probe(e) PROVE Good
    BY <1>3, <1>6, <1>9, SideIs DEF Probe
  <1>10. ASSUME NEW e \in Node, ReplaceKey(e) PROVE Good
    BY <1>3, <1>4, <1>10, SideIs DEF ReplaceKey
  <1>11. ASSUME NEW k, RemoveKey(k) PROVE Good
    BY <1>5, <1>6, <1>11 DEF RemoveKey
  <1>12. ASSUME Clear PROVE Good
    <2>1. tree' = EmptyTree
      BY <1>12 DEF Clear
    <2>2. InOrder(tree') = <<>>
      BY <2>1, EmptyOrder
    <2>3. Ordered!Clear
      BY <2>2, Zenon DEF Ordered!Clear
    <2> QED BY <2>3, Zenon DEF Ordered!Next
  <1>13. ASSUME Advance PROVE Good
    BY <1>2, <1>13 DEF Advance
  <1>14. ASSUME Drop PROVE Good
    BY <1>2, <1>14 DEF Drop
  <1>15. ASSUME NEW s \in Side, Begin(s) PROVE Good
    BY <1>2, <1>15 DEF Begin
  <1>16. Good
    <2> HIDE DEF Good
    <2> QED BY <1>4, <1>5, <1>6, <1>7, <1>8, <1>9, <1>10, <1>11, <1>12, <1>13, <1>14, <1>15 DEF Next
  <1>17. AsBefore => InOrder(tree)' = InOrder(tree)
    BY DEF AsBefore
  <1> QED BY <1>16, <1>17

\* Theorem: the map implements OrderedMap, the list of its elements sorted by key, by the
\* refinement that reads the tree in order.
THEOREM OrderedSpecTheorem == Spec => OrderedSpec
  <1>1. Init => Ordered!Init
    BY EmptyOrder DEF Init, Ordered!Init
  <1> QED BY <1>1, OrderStep, MapInvTheorem, PTL DEF Spec, OrderedSpec, Ordered!Spec
=============================================================================
