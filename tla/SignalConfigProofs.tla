------------------------- MODULE SignalConfigProofs -------------------------
(***************************************************************************)
(* Proofs about two components that have nothing to do with each other:    *)
(* Signal, and further down ConfigFile.                                    *)
(*                                                                         *)
(* Signal: for any slots, any depth of emissions and any order of connects *)
(* and disconnects out of the closures that are called, the list stays     *)
(* closed, every emission meets the slots due, and only an emission whose  *)
(* own slot went uses freed memory.                                        *)
(*                                                                         *)
(* A slot has a rank when it is connected, above all before it, and keeps  *)
(* it when it is disconnected.  The links are those the ranks demand, and  *)
(* where an emission stands is a matter of the ranks, not of the links,    *)
(* which change under it.                                                  *)
(***************************************************************************)
EXTENDS Signal, ConfigFile, Lemmas

Dir == {"next", "prev"}
Opposite(d) == IF d = "next" THEN "prev" ELSE "next"

Beyond(r, d, x, y) == IF d = "next" THEN r[x] < r[y] ELSE r[y] < r[x]

\* From x the link leads to the next of M, or to the list behind the last.
Goes(l, M, r, d, x) ==
    \/ l[d][x] = Anchor /\ \A z \in M : ~Beyond(r, d, x, z)
    \/ /\ l[d][x] \in M /\ Beyond(r, d, x, l[d][x])
       /\ \A z \in M : Beyond(r, d, x, z) => z = l[d][x] \/ Beyond(r, d, l[d][x], z)

\* And from the list to the first.
Starts(l, M, r, d) ==
    \/ l[d][Anchor] = Anchor /\ M = {}
    \/ /\ l[d][Anchor] \in M
       /\ \A z \in M : z = l[d][Anchor] \/ Beyond(r, d, l[d][Anchor], z)

\* The entries of l are M, in the order of their ranks.
Ordered(l, M, r) ==
    /\ l \in CList /\ M \subseteq Entry /\ r \in [Entry -> Nat]
    /\ \A x, y \in M : r[x] = r[y] => x = y
    /\ \A d \in Dir : Starts(l, M, r, d) /\ \A x \in M : Goes(l, M, r, d, x)

\* An emission has those due ahead of it and those called not; when its slot is
\* out of the list, the links of that slot still lead on.
Fits(l, M, r, own, f) ==
    /\ f.due \subseteq M
    /\ f.drains => own /\ f.dir = "next" /\ f.called \subseteq {f.at}
    /\ f.self = "in" => f.at \in M
    /\ f.self = "out" => Goes(l, M, r, f.dir, f.at)
    /\ f.self # "astray" =>
         /\ \A x \in f.due : Beyond(r, f.dir, f.at, x)
         /\ f.called \subseteq M /\ \A x \in f.called : ~Beyond(r, f.dir, f.at, x)

Emissions(st, l, M, r, own) ==
    /\ st \in Seq(Frame \cup OnceFrame)
    /\ \A i \in DOMAIN st : OfList(st[i]) => Fits(l, M, r, own, st[i])

\* What the variant that owns has allocated.
Owned(own, M) ==
    /\ own \in BOOLEAN
    /\ allocated = IF own THEN M ELSE Entry
    /\ once \in Closure \cup {None} /\ closures \subseteq Closure
    /\ own => closures = {once} \ {None}

IInv ==
    /\ \E M \in SUBSET Entry, r \in [Entry -> Nat] :
            Ordered(list, M, r) /\ Emissions(stack, list, M, r, owning) /\ Owned(owning, M)
    /\ lost \in BOOLEAN /\ LostByOwnSlot

-----------------------------------------------------------------------------
(* The list. *)

LEMMA BeyondProps ==
    ASSUME NEW r \in [Entry -> Nat], NEW d \in Dir, NEW x \in Entry, NEW y \in Entry
    PROVE  /\ ~Beyond(r, d, x, x)
           /\ ~(Beyond(r, d, x, y) /\ Beyond(r, d, y, x))
           /\ r[x] # r[y] => Beyond(r, d, x, y) \/ Beyond(r, d, y, x)
           /\ Beyond(r, Opposite(d), x, y) <=> Beyond(r, d, y, x)
           /\ Opposite(d) \in Dir /\ Opposite(Opposite(d)) = d
           /\ \A z \in Entry : Beyond(r, d, x, y) /\ Beyond(r, d, y, z) => Beyond(r, d, x, z)
  BY DEF Beyond, Opposite, Dir

LEMMA LinksType ==
    ASSUME NEW l \in CList, NEW d \in Dir
    PROVE  /\ \A x \in Cells : l[d][x] \in Cells
           /\ l[d] \in [Cells -> Cells]
  BY DEF CList, Dir

\* Back from where a link leads.
LEMMA ThereAndBack ==
    ASSUME NEW l, NEW M, NEW r, Ordered(l, M, r), NEW d \in Dir, NEW e \in M \cup {Anchor}
    PROVE  l[d][e] \in M \cup {Anchor} /\ l[Opposite(d)][l[d][e]] = e
  <1> DEFINE o == Opposite(d)  y == l[d][e]  w == l[o][y]
  <1>1. /\ M \subseteq Entry /\ r \in [Entry -> Nat] /\ Anchor \notin Entry
        /\ \A p, q \in M : r[p] = r[q] => p = q
        /\ Starts(l, M, r, d) /\ \A x \in M : Goes(l, M, r, d, x)
    BY SignalAssumption DEF Ordered
  <1>2. o \in Dir
    BY DEF Opposite, Dir
  <1>3. Starts(l, M, r, o) /\ \A x \in M : Goes(l, M, r, o, x)
    BY <1>2 DEF Ordered
  <1>4. \A p, q \in M : p = q \/ Beyond(r, d, p, q) \/ Beyond(r, d, q, p)
    BY <1>1, BeyondProps
  <1>5. \A p, q \in M : /\ ~(Beyond(r, d, p, q) /\ Beyond(r, d, q, p))
                        /\ Beyond(r, o, p, q) <=> Beyond(r, d, q, p)
    BY <1>1, BeyondProps
  <1>6. /\ \A p \in M : p # Anchor /\ ~Beyond(r, d, p, p)
        /\ l[d][e] = y /\ l[o][y] = w
    BY <1>1, BeyondProps
  <1>7. \/ y = Anchor /\ w = Anchor /\ M = {}
        \/ y = Anchor /\ w \in M /\ \A z \in M : z = w \/ Beyond(r, o, w, z)
        \/ y \in M /\ w = Anchor /\ \A z \in M : ~Beyond(r, o, y, z)
        \/ /\ y \in M /\ w \in M /\ Beyond(r, o, y, w)
           /\ \A z \in M : Beyond(r, o, y, z) => z = w \/ Beyond(r, o, w, z)
        \/ y \notin M \cup {Anchor}
    <2> HIDE DEF o
    <2> QED BY <1>3 DEF Goes, Starts
  <1>8. CASE e = Anchor
    <2>1. \/ y = Anchor /\ M = {}
          \/ y \in M /\ \A z \in M : z = y \/ Beyond(r, d, y, z)
      BY <1>1, <1>8 DEF Starts
    <2> HIDE DEF o, y, w
    <2> QED BY <1>5, <1>6, <1>7, <1>8, <2>1 DEF o
  <1>9. CASE e \in M
    <2>1. \/ y = Anchor /\ \A z \in M : ~Beyond(r, d, e, z)
          \/ /\ y \in M /\ Beyond(r, d, e, y)
             /\ \A z \in M : Beyond(r, d, e, z) => z = y \/ Beyond(r, d, y, z)
      BY <1>1, <1>9 DEF Goes
    <2> HIDE DEF o, y, w
    <2>2. y \in M \cup {Anchor} /\ w = e
      BY <1>4, <1>5, <1>6, <1>7, <1>9, <2>1
    <2> QED BY <1>6, <2>2 DEF o
  <1> QED BY <1>8, <1>9

\* An iterator meets what is beyond.
LEMMA FromIs ==
    ASSUME NEW l, NEW M, NEW r, Ordered(l, M, r), NEW d \in Dir, NEW e \in M
    PROVE  From(l, d, e) = {x \in M : x = e \/ Beyond(r, d, e, x)}
  <1> DEFINE B == {x \in M : x = e \/ Beyond(r, d, e, x)}
  <1>1. /\ M \subseteq Entry /\ r \in [Entry -> Nat] /\ Anchor \notin Entry /\ l \in CList
        /\ \A p, q \in M : r[p] = r[q] => p = q
        /\ \A x \in M : Goes(l, M, r, d, x)
    BY SignalAssumption DEF Ordered
  <1>2. From(l, d, e) \subseteq B
    <2> DEFINE S == B \cup {Anchor}
    <2>1. S \in SUBSET Cells /\ e \in S
      BY <1>1 DEF Cells
    <2>2. \A y \in S \ {Anchor} : l[d][y] \in S
      <3> SUFFICES ASSUME NEW y \in B PROVE l[d][y] \in S
        OBVIOUS
      <3>1. y \in Entry /\ e \in Entry /\ Goes(l, M, r, d, y)
        BY <1>1
      <3>2. CASE l[d][y] = Anchor
        BY <3>2
      <3>3. CASE l[d][y] \in M /\ Beyond(r, d, y, l[d][y])
        <4>1. l[d][y] \in Entry
          BY <1>1, <3>3
        <4> QED BY <1>1, <3>1, <3>3, <4>1, BeyondProps
      <3> QED BY <3>1, <3>2, <3>3 DEF Goes
    <2>3. \A x \in From(l, d, e) : x \in S /\ x \in Entry
      BY <2>1, <2>2 DEF From
    <2> QED BY <1>1, <2>3
  <1>3. B \subseteq From(l, d, e)
    <2> SUFFICES ASSUME NEW S \in SUBSET Cells, e \in S,
                        \A y \in S \ {Anchor} : l[d][y] \in S,
                        \E x \in B : x \notin S
                 PROVE  FALSE
      BY <1>1 DEF From
    <2> DEFINE far(x) == IF d = "next" THEN r[x] - r[e] ELSE r[e] - r[x]
               D == {far(x) : x \in B \ S}
    <2>1. \A x \in B : far(x) \in Nat
      BY <1>1 DEF Beyond, Dir
    <2>2. D \subseteq Nat /\ D # {}
      BY <2>1
    <2>3. PICK x \in B \ S : \A y \in B \ S : far(x) <= far(y)
      <3>1. PICK m \in D : \A n \in D : m <= n
        BY <2>2, LeastElement
      <3>2. PICK x \in B \ S : m = far(x)
        OBVIOUS
      <3>3. \A y \in B \ S : far(y) \in D
        OBVIOUS
      <3> QED BY <3>1, <3>2, <3>3
    <2> DEFINE o == Opposite(d)  p == l[o][x]
    <2>4. x # e /\ Beyond(r, d, e, x) /\ x \in M /\ x \in Entry /\ e \in Entry /\ o \in Dir
      BY <1>1, <2>3, BeyondProps
    <2>5. Goes(l, M, r, o, x)
      BY <2>4 DEF Ordered
    <2>6. Beyond(r, o, x, e)
      BY <1>1, <2>4, BeyondProps
    <2>7. p \in M /\ Beyond(r, o, x, p) /\ (e = p \/ Beyond(r, o, p, e))
      BY <2>5, <2>6 DEF Goes
    <2>8. p \in Entry /\ Beyond(r, d, p, x) /\ (p = e \/ Beyond(r, d, e, p))
      BY <1>1, <2>4, <2>7, BeyondProps
    <2>9. far(p) < far(x)
      BY <1>1, <2>4, <2>8 DEF Beyond, Dir
    <2>10. p \in S
      <3>1. p \in B
        BY <2>7, <2>8
      <3> QED BY <2>1, <2>3, <2>9, <3>1
    <2>11. l[d][p] = x
      BY <2>4, ThereAndBack, BeyondProps, <1>1
    <2> QED BY <1>1, <2>3, <2>8, <2>10, <2>11
  <1> QED BY <1>2, <1>3

LEMMA FromAnchor ==
    ASSUME NEW l, NEW d \in Dir
    PROVE  From(l, d, Anchor) = {}
  <1>1. {Anchor} \in SUBSET Cells /\ Anchor \notin Entry
    BY SignalAssumption DEF Cells
  <1> QED BY <1>1 DEF From

\* What is beyond a slot is what its links lead to.
LEMMA OnwardIs ==
    ASSUME NEW l, NEW M, NEW r, Ordered(l, M, r), NEW d \in Dir, NEW e \in Entry,
           Goes(l, M, r, d, e)
    PROVE  From(l, d, l[d][e]) = {x \in M : Beyond(r, d, e, x)}
  <1>1. M \subseteq Entry /\ r \in [Entry -> Nat]
    BY DEF Ordered
  <1>2. CASE l[d][e] = Anchor /\ \A z \in M : ~Beyond(r, d, e, z)
    BY <1>2, FromAnchor
  <1>3. CASE /\ l[d][e] \in M /\ Beyond(r, d, e, l[d][e])
             /\ \A z \in M : Beyond(r, d, e, z) => z = l[d][e] \/ Beyond(r, d, l[d][e], z)
    <2> DEFINE y == l[d][e]
    <2>1. From(l, d, y) = {x \in M : x = y \/ Beyond(r, d, y, x)}
      BY <1>3, FromIs
    <2>2. y \in Entry /\ \A x \in M : x \in Entry
      BY <1>1, <1>3
    <2>3. \A x \in M : x = y \/ Beyond(r, d, y, x) <=> Beyond(r, d, e, x)
      BY <1>1, <1>3, <2>2, BeyondProps
    <2> QED BY <2>1, <2>3
  <1> QED BY <1>2, <1>3 DEF Goes

LEMMA ConnectedIs ==
    ASSUME NEW l, NEW M, NEW r, Ordered(l, M, r)
    PROVE  From(l, "next", l.next[Anchor]) = M
  <1>1. "next" \in Dir /\ Starts(l, M, r, "next")
    BY DEF Ordered, Dir
  <1>2. CASE l["next"][Anchor] = Anchor /\ M = {}
    BY <1>1, <1>2, FromAnchor
  <1>3. CASE /\ l["next"][Anchor] \in M
             /\ \A z \in M : z = l["next"][Anchor] \/ Beyond(r, "next", l["next"][Anchor], z)
    BY <1>1, <1>3, FromIs
  <1> QED BY <1>1, <1>2, <1>3 DEF Starts

\* push_back: the slot is beyond all others.
LEMMA PushBackOrdered ==
    ASSUME NEW l, NEW M, NEW r, Ordered(l, M, r), NEW s \in Entry \ M
    PROVE  \E q \in [Entry -> Nat] :
              /\ Ordered(PushBack(l, s), M \cup {s}, q)
              /\ \A x \in Entry \ {s} : q[x] = r[x]
  <1> DEFINE t == l.prev[Anchor]
             q == [r EXCEPT ![s] = IF t = Anchor THEN 0 ELSE r[t] + 1]
             l2 == PushBack(l, s)
             N == M \cup {s}
  <1>1. /\ M \subseteq Entry /\ r \in [Entry -> Nat] /\ Anchor \notin Entry /\ l \in CList
        /\ \A x, y \in M : r[x] = r[y] => x = y
        /\ \A x \in M : x \in Entry
    BY SignalAssumption DEF Ordered
  <1>2. \/ t = Anchor /\ M = {}
        \/ t \in M /\ t \in Entry /\ \A z \in M : z = t \/ Beyond(r, "prev", t, z)
    BY <1>1 DEF Ordered, Starts, Dir
  <1>3. q \in [Entry -> Nat] /\ (\A x \in Entry \ {s} : q[x] = r[x])
    BY <1>1, <1>2
  <1>4. \A x \in M : q[x] = r[x] /\ q[x] < q[s] /\ x # s
    BY <1>1, <1>2, <1>3 DEF Beyond
  <1>5. /\ l2 \in CList
        /\ \A x \in Cells : l2["next"][x] = IF x = t THEN s ELSE IF x = s THEN Anchor ELSE l["next"][x]
        /\ \A x \in Cells : l2["prev"][x] = IF x = Anchor THEN s ELSE IF x = s THEN t ELSE l["prev"][x]
    BY <1>1, <1>2 DEF PushBack, CList, Cells
  <1>6. s \in Cells /\ Anchor \in Cells /\ s # Anchor /\ s \notin M
        /\ \A x \in M : x \in Cells /\ x # Anchor
    BY <1>1 DEF Cells
  <1> HIDE DEF q, l2
  <1>7. \A x, y \in N : q[x] = q[y] => x = y
    BY <1>1, <1>3, <1>4
  <1>8. \A d \in Dir : \A x, y \in M : Beyond(q, d, x, y) <=> Beyond(r, d, x, y)
    BY <1>4 DEF Beyond
  <1>9. \A x \in M : /\ Beyond(q, "next", x, s) /\ ~Beyond(q, "prev", x, s)
                     /\ Beyond(q, "prev", s, x) /\ ~Beyond(q, "next", s, x)
    <2>1. q[s] \in Nat /\ \A x \in M : q[x] \in Nat /\ q[x] < q[s]
      BY <1>1, <1>3, <1>4
    <2> QED BY <2>1 DEF Beyond
  <1>10. ~Beyond(q, "next", s, s) /\ ~Beyond(q, "prev", s, s)
    BY <1>3 DEF Beyond
  <1>11. Starts(l2, N, q, "next")
    <2>1. \/ l["next"][Anchor] = Anchor /\ M = {}
          \/ l["next"][Anchor] \in M
             /\ \A z \in M : z = l["next"][Anchor] \/ Beyond(r, "next", l["next"][Anchor], z)
      BY DEF Ordered, Starts, Dir
    <2>2. CASE M = {}
      BY <1>2, <1>5, <1>6, <2>2 DEF Starts
    <2>3. CASE M # {}
      <3>1. l2["next"][Anchor] = l["next"][Anchor]
        BY <1>2, <1>5, <1>6, <2>3
      <3> QED BY <1>8, <1>9, <2>1, <2>3, <3>1 DEF Starts, Dir
    <2> QED BY <2>2, <2>3
  <1>12. Starts(l2, N, q, "prev")
    BY <1>5, <1>6, <1>9 DEF Starts
  <1>13. Goes(l2, N, q, "next", s)
    BY <1>2, <1>5, <1>6, <1>9, <1>10 DEF Goes
  <1>14. Goes(l2, N, q, "prev", s)
    <2>1. l2["prev"][s] = t
      BY <1>5, <1>6
    <2>2. CASE t = Anchor /\ M = {}
      BY <1>10, <2>1, <2>2 DEF Goes
    <2>3. CASE t \in M /\ \A z \in M : z = t \/ Beyond(r, "prev", t, z)
      BY <1>8, <1>9, <1>10, <2>1, <2>3 DEF Goes, Dir
    <2> QED BY <1>2, <2>2, <2>3
  <1>15. ASSUME NEW x \in M PROVE Goes(l2, N, q, "prev", x)
    <2>1. l2["prev"][x] = l["prev"][x] /\ Goes(l, M, r, "prev", x)
      BY <1>5, <1>6, <1>1 DEF Ordered, Dir
    <2> QED BY <1>8, <1>9, <2>1 DEF Goes, Dir
  <1>16. ASSUME NEW x \in M PROVE Goes(l2, N, q, "next", x)
    <2>1. Goes(l, M, r, "next", x) /\ t \in M
      BY <1>2 DEF Ordered, Dir
    <2>2. CASE x = t
      <3>1. l2["next"][x] = s
        BY <1>5, <1>6, <2>2
      <3>2. \A z \in M : ~Beyond(q, "next", t, z)
        <4> SUFFICES ASSUME NEW z \in M PROVE ~Beyond(q, "next", t, z)
          OBVIOUS
        <4>1. z = t \/ Beyond(r, "prev", t, z)
          BY <1>2
        <4>2. q[z] \in Nat /\ q[t] \in Nat /\ q[z] = r[z] /\ q[t] = r[t]
          BY <1>1, <1>3, <1>4, <2>1
        <4> QED BY <4>1, <4>2 DEF Beyond
      <3> QED BY <1>9, <2>2, <3>1, <3>2 DEF Goes
    <2>3. CASE x # t
      <3>1. l2["next"][x] = l["next"][x]
        BY <1>5, <1>6, <2>3
      <3>2. Beyond(r, "next", x, t)
        <4>1. Beyond(r, "prev", t, x)
          BY <1>2, <2>1, <2>3
        <4> QED BY <4>1 DEF Beyond
      <3>3. l["next"][x] \in M
        BY <2>1, <3>2 DEF Goes
      <3> QED BY <1>8, <1>9, <2>1, <3>1, <3>2, <3>3 DEF Goes, Dir
    <2> QED BY <2>2, <2>3
  <1>17. \A d \in Dir : Starts(l2, N, q, d) /\ \A x \in N : Goes(l2, N, q, d, x)
    BY <1>11, <1>12, <1>13, <1>14, <1>15, <1>16 DEF Dir
  <1>18. Ordered(l2, N, q)
    BY <1>1, <1>3, <1>5, <1>7, <1>17 DEF Ordered
  <1> QED BY <1>3, <1>18 DEF l2

\* remove: the others keep their order, and the slot still leads on.
LEMMA UnlinkOrdered ==
    ASSUME NEW l, NEW M, NEW r, Ordered(l, M, r), NEW s \in M
    PROVE  /\ Ordered(Unlink(l, s), M \ {s}, r)
           /\ \A d \in Dir : Goes(Unlink(l, s), M \ {s}, r, d, s)
  <1> DEFINE l2 == Unlink(l, s)  N == M \ {s}
  <1>1. /\ M \subseteq Entry /\ r \in [Entry -> Nat] /\ Anchor \notin Entry /\ l \in CList
        /\ \A x, y \in M : r[x] = r[y] => x = y
    BY SignalAssumption DEF Ordered
  <1>2. s \in Cells /\ Anchor \in Cells /\ (\A x \in M : x \in Cells /\ x # Anchor)
    BY <1>1 DEF Cells
  <1>3. /\ l2 \in CList
        /\ \A d \in Dir : \A x \in Cells :
              l2[d][x] = IF x = l[Opposite(d)][s] THEN l[d][s] ELSE l[d][x]
    BY <1>1, <1>2 DEF Unlink, CList, Dir, Opposite
  <1> HIDE DEF l2
  <1>4. ASSUME NEW d \in Dir
        PROVE  Starts(l2, N, r, d) /\ Goes(l2, N, r, d, s) /\ \A x \in N : Goes(l2, N, r, d, x)
    <2> DEFINE o == Opposite(d)  p == l[o][s]  n == l[d][s]
    <2>1. /\ Starts(l, M, r, d) /\ \A x \in M : Goes(l, M, r, d, x)
          /\ o \in Dir /\ Opposite(o) = d
      BY <1>1, BeyondProps DEF Ordered, Opposite, Dir
    <2>2. /\ p \in M \cup {Anchor} /\ l[d][p] = s
          /\ n \in M \cup {Anchor} /\ l[o][n] = s
      <3>1. p \in M \cup {Anchor} /\ l[Opposite(o)][l[o][s]] = s
        BY <2>1, ThereAndBack
      <3>2. n \in M \cup {Anchor} /\ l[Opposite(d)][l[d][s]] = s
        BY ThereAndBack
      <3> QED BY <2>1, <3>1, <3>2
    <2>3. \A x \in M \cup {Anchor} : x # p => l[d][x] # s
      <3>1. ASSUME NEW x \in M \cup {Anchor}, l[d][x] = s PROVE x = p
        BY <3>1, ThereAndBack
      <3> QED BY <3>1
    <2>4. \A x, y \in M : ~(Beyond(r, d, x, y) /\ Beyond(r, d, y, x)) /\ ~Beyond(r, d, x, x)
      BY <1>1, BeyondProps
    <2>5. \A x, y, z \in M : Beyond(r, d, x, y) /\ Beyond(r, d, y, z) => Beyond(r, d, x, z)
      BY <1>1, BeyondProps
    <2>6. \A x \in M \cup {Anchor} : l2[d][x] = IF x = p THEN n ELSE l[d][x]
      BY <1>2, <1>3
    <2>7. \/ n = Anchor /\ \A z \in M : ~Beyond(r, d, s, z)
          \/ /\ n \in M /\ n # s /\ n # Anchor /\ Beyond(r, d, s, n)
             /\ \A z \in M : Beyond(r, d, s, z) => z = n \/ Beyond(r, d, n, z)
      BY <1>2, <2>1, <2>4 DEF Goes
    <2>8. p # s
      BY <1>2, <2>2, <2>4, <2>7
    <2>9. l2[d][s] = n
      BY <2>6, <2>8
    <2> HIDE DEF o, p, n
    <2>10. Goes(l2, N, r, d, s)
      BY <2>7, <2>9 DEF Goes
    <2>11. Starts(l2, N, r, d)
      <3>1. CASE p = Anchor
        <4>1. l2[d][Anchor] = n /\ l[d][Anchor] = s
          BY <2>2, <2>6, <3>1
        <4>2. \A z \in M : z = s \/ Beyond(r, d, s, z)
          BY <1>2, <2>1, <4>1 DEF Starts
        <4> QED BY <2>4, <2>7, <4>1, <4>2 DEF Starts
      <3>2. CASE p # Anchor
        <4>1. l2[d][Anchor] = l[d][Anchor] /\ l[d][Anchor] # s
          BY <2>3, <2>6, <3>2
        <4> QED BY <2>1, <4>1 DEF Starts
      <3> QED BY <3>1, <3>2
    <2>12. ASSUME NEW x \in N PROVE Goes(l2, N, r, d, x)
      <3>1. CASE x = p
        <4>1. l2[d][x] = n /\ l[d][x] = s
          BY <2>2, <2>6, <3>1
        <4>2. Beyond(r, d, x, s) /\ \A z \in M : Beyond(r, d, x, z) => z = s \/ Beyond(r, d, s, z)
          BY <1>2, <2>1, <4>1 DEF Goes
        <4> QED BY <2>5, <2>7, <4>1, <4>2 DEF Goes
      <3>2. CASE x # p
        <4>1. l2[d][x] = l[d][x] /\ l[d][x] # s
          BY <2>3, <2>6, <3>2
        <4> QED BY <2>1, <4>1 DEF Goes
      <3> QED BY <3>1, <3>2
    <2> QED BY <2>10, <2>11, <2>12
  <1> QED BY <1>1, <1>3, <1>4 DEF Ordered, l2

LEMMA ForgetOrdered ==
    ASSUME NEW l, NEW M, NEW r, Ordered(l, M, r)
    PROVE  Ordered(Forget(l), {}, r)
  <1>1. Forget(l) \in CList
    BY DEF Ordered, Forget, CList, Cells
  <1>2. \A d \in Dir : Forget(l)[d][Anchor] = Anchor
    BY DEF Ordered, Forget, CList, Cells, Dir
  <1> QED BY <1>1, <1>2 DEF Ordered, Starts

-----------------------------------------------------------------------------
(* The emissions. *)

LEMMA FrameIs ==
    ASSUME NEW f \in Frame \cup OnceFrame
    PROVE  /\ OfList(f) <=> f \in Frame
           /\ OfList(f) => /\ f.at \in Entry /\ f.dir \in Dir /\ f.stops \in BOOLEAN
                           /\ f.drains \in BOOLEAN /\ f.self \in {"in", "out", "astray"}
                           /\ f.due \in SUBSET Entry /\ f.called \in SUBSET Entry
  BY DEF Frame, OnceFrame, OfList, Dir

LEMMA EmissionsType ==
    ASSUME NEW l, NEW M, NEW r, NEW own, NEW st, Emissions(st, l, M, r, own)
    PROVE  /\ Len(st) \in Nat /\ DOMAIN st = 1..Len(st)
           /\ st # <<>> <=> Len(st) \in 1..Len(st)
           /\ \A i \in 1..Len(st) : /\ st[i] \in Frame \cup OnceFrame
                                    /\ OfList(st[i]) => Fits(l, M, r, own, st[i])
  <1> DEFINE F == Frame \cup OnceFrame
  <1> HIDE DEF F
  <1>1. st \in Seq(F)
    BY DEF Emissions, F
  <1>2. Len(st) \in Nat /\ DOMAIN st = 1..Len(st) /\ \A i \in 1..Len(st) : st[i] \in F
    BY <1>1, LenProperties, ElementOfSeq
  <1>3. st # <<>> <=> Len(st) # 0
    BY <1>1, EmptySeq
  <1> QED BY <1>2, <1>3 DEF Emissions, F

\* Every emission of st has become the one of to, which fits the list there is.
MovedTo(st, to, l, M, r, own) ==
    /\ DOMAIN to = DOMAIN st /\ to = [i \in DOMAIN st |-> to[i]]
    /\ \A i \in DOMAIN st : IF OfList(st[i]) THEN to[i] \in Frame /\ Fits(l, M, r, own, to[i])
                            ELSE to[i] = st[i]

LEMMA EmissionsMoved ==
    ASSUME NEW l, NEW M, NEW r, NEW own, NEW st, Emissions(st, l, M, r, own),
           NEW to, NEW k, NEW N, NEW q, MovedTo(st, to, k, N, q, own)
    PROVE  Emissions(to, k, N, q, own) /\ Len(to) = Len(st)
  <1> DEFINE F == Frame \cup OnceFrame  n == Len(st)
  <1>1. n \in Nat /\ DOMAIN st = 1..n /\ \A i \in 1..n : st[i] \in F
    BY EmissionsType
  <1>2. \A i \in 1..n : to[i] \in F /\ (OfList(to[i]) => Fits(k, N, q, own, to[i]))
    BY <1>1 DEF MovedTo
  <1> HIDE DEF F
  <1>3. to \in Seq(F) /\ Len(to) = n
    <2>1. to = [i \in 1..n |-> to[i]]
      BY <1>1 DEF MovedTo
    <2> QED BY <1>1, <1>2, <2>1, IsASeq, LenProperties
  <1> QED BY <1>1, <1>2, <1>3 DEF Emissions, F, MovedTo

LEMMA EmissionsPushed ==
    ASSUME NEW l, NEW M, NEW r, NEW own, NEW st, Emissions(st, l, M, r, own),
           NEW f \in Frame \cup OnceFrame, OfList(f) => Fits(l, M, r, own, f)
    PROVE  Emissions(Append(st, f), l, M, r, own)
  <1> DEFINE F == Frame \cup OnceFrame  n == Len(st)
  <1>1. n \in Nat /\ DOMAIN st = 1..n
        /\ \A i \in 1..n : OfList(st[i]) => Fits(l, M, r, own, st[i])
    BY EmissionsType
  <1>2. st \in Seq(F)
    BY DEF Emissions
  <1> HIDE DEF F
  <1>3. /\ Append(st, f) \in Seq(F) /\ Len(Append(st, f)) = n + 1
        /\ \A i \in 1..n : Append(st, f)[i] = st[i]
        /\ Append(st, f)[n + 1] = f
    BY <1>1, <1>2, AppendProps DEF F
  <1>4. DOMAIN Append(st, f) = 1..n + 1
    BY <1>3, LenProperties
  <1> HIDE DEF n
  <1> QED BY <1>1, <1>3, <1>4 DEF Emissions, F

LEMMA EmissionsPopped ==
    ASSUME NEW l, NEW M, NEW r, NEW own, NEW st, Emissions(st, l, M, r, own), st # <<>>
    PROVE  Emissions(SubSeq(st, 1, Len(st) - 1), l, M, r, own)
  <1> DEFINE F == Frame \cup OnceFrame  n == Len(st)  to == SubSeq(st, 1, n - 1)
  <1>1. n \in Nat /\ n >= 1 /\ DOMAIN st = 1..n
        /\ \A i \in 1..n : st[i] \in F /\ (OfList(st[i]) => Fits(l, M, r, own, st[i]))
    BY EmissionsType
  <1>2. st \in Seq(F)
    BY DEF Emissions
  <1> HIDE DEF F
  <1>3. to \in Seq(F) /\ Len(to) = n - 1 /\ \A i \in 1..n - 1 : to[i] = st[i]
    BY <1>1, <1>2, SubSeqProperties
  <1>4. DOMAIN to = 1..n - 1
    BY <1>3, LenProperties
  <1> HIDE DEF n, to
  <1>5. \A i \in 1..n - 1 : i \in 1..n
    BY <1>1
  <1>6. Emissions(to, l, M, r, own)
    BY <1>1, <1>3, <1>4, <1>5 DEF Emissions, F
  <1> QED BY <1>6 DEF n, to

LEMMA EmissionsReplaced ==
    ASSUME NEW l, NEW M, NEW r, NEW own, NEW st, Emissions(st, l, M, r, own), st # <<>>,
           NEW f \in Frame, Fits(l, M, r, own, f)
    PROVE  Emissions([st EXCEPT ![Len(st)] = f], l, M, r, own)
  <1> DEFINE F == Frame \cup OnceFrame  n == Len(st)  to == [st EXCEPT ![n] = f]
  <1>1. n \in Nat /\ n >= 1 /\ DOMAIN st = 1..n
        /\ \A i \in 1..n : st[i] \in F /\ (OfList(st[i]) => Fits(l, M, r, own, st[i]))
    BY EmissionsType
  <1>2. f \in F
    OBVIOUS
  <1> HIDE DEF F
  <1>3. to = [i \in 1..n |-> IF i = n THEN f ELSE st[i]]
    BY <1>1
  <1> HIDE DEF n, to
  <1>4. to \in Seq(F) /\ DOMAIN to = 1..n
    BY <1>1, <1>2, <1>3, IsASeq
  <1>5. Emissions(to, l, M, r, own)
    BY <1>1, <1>3, <1>4 DEF Emissions, F
  <1> QED BY <1>5 DEF n, to

\* A slot more is behind all that are called or due.
LEMMA ChangedFits ==
    ASSUME NEW l, NEW M, NEW r, NEW own, Ordered(l, M, r), NEW s \in Entry \ M,
           NEW q \in [Entry -> Nat], \A x \in Entry \ {s} : q[x] = r[x],
           NEW f \in Frame, Fits(l, M, r, own, f), NEW k
    PROVE  Changed(f) \in Frame /\ Fits(k, M \cup {s}, q, own, Changed(f))
  <1> DEFINE g == Changed(f)
  <1>1. /\ f.at \in Entry /\ f.dir \in Dir /\ f.self \in {"in", "out", "astray"}
        /\ f.due \in SUBSET Entry /\ f.called \in SUBSET Entry /\ M \subseteq Entry
    BY FrameIs DEF Frame, Dir, Ordered
  <1>2. /\ g \in Frame /\ g.at = f.at /\ g.dir = f.dir /\ g.due = f.due /\ g.called = f.called
        /\ g.drains = f.drains /\ g.self = IF f.self = "in" THEN "in" ELSE "astray"
    BY DEF Changed, Frame
  <1> HIDE DEF g
  <1>3. /\ f.due \subseteq M /\ (f.drains => own /\ f.dir = "next" /\ f.called \subseteq {f.at})
        /\ f.self = "in" => f.at \in M
        /\ f.self # "astray" => /\ \A x \in f.due : Beyond(r, f.dir, f.at, x)
                                /\ f.called \subseteq M
                                /\ \A x \in f.called : ~Beyond(r, f.dir, f.at, x)
    BY DEF Fits
  <1>4. \A x, y \in M : q[x] = r[x] /\ q[y] = r[y]
    BY <1>1
  <1>5. g.self # "astray" => /\ \A x \in g.due : Beyond(q, g.dir, g.at, x)
                             /\ g.called \subseteq M /\ g.at \in M
                             /\ \A x \in g.called : ~Beyond(q, g.dir, g.at, x)
    BY <1>2, <1>3, <1>4 DEF Beyond
  <1>6. g.self # "out"
    BY <1>2
  <1> QED BY <1>2, <1>3, <1>5, <1>6 DEF Fits, g

\* A slot less is not called any more; who stood at it goes on by its links.
LEMMA WithoutFits ==
    ASSUME NEW l, NEW M, NEW r, NEW own, NEW s \in M,
           NEW f \in Frame, Fits(l, M, r, own, f),
           NEW k, \A d \in Dir : Goes(k, M \ {s}, r, d, s)
    PROVE  Without(s, f) \in Frame /\ Fits(k, M \ {s}, r, own, Without(s, f))
  <1> DEFINE g == Without(s, f)
  <1>1. /\ f.at \in Entry /\ f.dir \in Dir /\ f.self \in {"in", "out", "astray"}
        /\ f.due \in SUBSET Entry /\ f.called \in SUBSET Entry
    BY FrameIs DEF Frame, Dir
  <1>2. /\ g \in Frame /\ g.at = f.at /\ g.dir = f.dir /\ g.due = f.due \ {s}
        /\ g.called = f.called \ {s} /\ g.drains = f.drains
        /\ g.self = IF f.self = "in" THEN (IF f.at = s THEN "out" ELSE "in") ELSE "astray"
    BY DEF Without, Changed, Frame
  <1> HIDE DEF g
  <1>3. /\ f.due \subseteq M /\ (f.drains => own /\ f.dir = "next" /\ f.called \subseteq {f.at})
        /\ f.self = "in" => f.at \in M
        /\ f.self # "astray" => /\ \A x \in f.due : Beyond(r, f.dir, f.at, x)
                                /\ f.called \subseteq M
                                /\ \A x \in f.called : ~Beyond(r, f.dir, f.at, x)
    BY DEF Fits
  <1>4. g.self = "out" => Goes(k, M \ {s}, r, g.dir, g.at)
    BY <1>1, <1>2
  <1>5. g.self = "in" => g.at \in M \ {s}
    BY <1>2, <1>3
  <1>6. g.self # "astray" => f.self # "astray"
    BY <1>2
  <1>7. g.self # "astray" => /\ \A x \in g.due : Beyond(r, g.dir, g.at, x)
                             /\ g.called \subseteq M \ {s}
                             /\ \A x \in g.called : ~Beyond(r, g.dir, g.at, x)
    BY <1>2, <1>3, <1>6
  <1> QED BY <1>2, <1>3, <1>4, <1>5, <1>7 DEF Fits, g

LEMMA EmptiedFits ==
    ASSUME NEW l, NEW M, NEW r, NEW own, NEW f \in Frame, Fits(l, M, r, own, f), NEW k
    PROVE  Emptied(f) \in Frame /\ Fits(k, {}, r, own, Emptied(f))
  <1> DEFINE g == Emptied(f)
  <1>1. /\ g \in Frame /\ g.at = f.at /\ g.dir = f.dir /\ g.due = {} /\ g.called = {}
        /\ g.drains = f.drains /\ g.self = "astray"
    BY DEF Emptied, Frame
  <1> HIDE DEF g
  <1> QED BY <1>1 DEF Fits, g

\* An emission goes on to the next slot.
Onward(f, s) == [f EXCEPT !.at = s, !.self = IF @ = "astray" THEN @ ELSE "in",
                          !.due = @ \ {s}, !.called = @ \cup {s}]

LEMMA OnwardFits ==
    ASSUME NEW l, NEW M, NEW r, NEW own, Ordered(l, M, r),
           NEW f \in Frame, Fits(l, M, r, own, f), ~f.drains,
           NEW s, s = l[f.dir][f.at], s # Anchor
    PROVE  Onward(f, s) \in Frame /\ Fits(l, M, r, own, Onward(f, s))
  <1> DEFINE g == Onward(f, s)
  <1>1. /\ f.at \in Entry /\ f.dir \in Dir /\ f.self \in {"in", "out", "astray"}
        /\ f.due \in SUBSET Entry /\ f.called \in SUBSET Entry
        /\ M \subseteq Entry /\ r \in [Entry -> Nat] /\ l \in CList
    BY FrameIs DEF Frame, Dir, Ordered
  <1>2. s \in Entry
    BY <1>1, LinksType DEF Cells
  <1>3. /\ g \in Frame /\ g.at = s /\ g.dir = f.dir /\ g.due = f.due \ {s}
        /\ g.called = f.called \cup {s} /\ g.drains = f.drains
        /\ g.self = IF f.self = "astray" THEN "astray" ELSE "in"
    BY <1>1, <1>2 DEF Onward, Frame
  <1> HIDE DEF g
  <1>4. f.due \subseteq M
    BY DEF Fits
  <1>5. ASSUME f.self = "astray" PROVE Fits(l, M, r, own, g)
    BY <1>3, <1>4, <1>5 DEF Fits
  <1>6. ASSUME f.self # "astray" PROVE Fits(l, M, r, own, g)
    <2>1. /\ \A x \in f.due : Beyond(r, f.dir, f.at, x)
          /\ f.called \subseteq M /\ \A x \in f.called : ~Beyond(r, f.dir, f.at, x)
      BY <1>6 DEF Fits
    <2>2. Goes(l, M, r, f.dir, f.at)
      BY <1>1, <1>6 DEF Fits, Ordered
    <2>3. s \in M /\ Beyond(r, f.dir, f.at, s)
          /\ \A z \in M : Beyond(r, f.dir, f.at, z) => z = s \/ Beyond(r, f.dir, s, z)
      BY <2>2 DEF Goes
    <2>4. \A x \in g.due : Beyond(r, f.dir, s, x)
      BY <1>3, <1>4, <2>1, <2>3
    <2>5. \A x \in g.called : ~Beyond(r, f.dir, s, x) /\ x \in M
      <3> SUFFICES ASSUME NEW x \in g.called PROVE ~Beyond(r, f.dir, s, x) /\ x \in M
        OBVIOUS
      <3>1. x = s \/ x \in f.called
        BY <1>3
      <3>2. x \in M /\ x \in Entry /\ (x = s \/ ~Beyond(r, f.dir, f.at, x))
        BY <1>1, <2>1, <2>3, <3>1
      <3>3. ~Beyond(r, f.dir, s, s)
        BY <1>1, <1>2 DEF Beyond
      <3>4. Beyond(r, f.dir, s, x) => Beyond(r, f.dir, f.at, x)
        BY <1>1, <1>2, <2>3, <3>2 DEF Beyond, Dir
      <3> QED BY <3>2, <3>3, <3>4
    <2> QED BY <1>3, <1>4, <1>6, <2>3, <2>4, <2>5 DEF Fits
  <1> QED BY <1>3, <1>5, <1>6 DEF g

\* The first slot is called, the others are due.
LEMMA FirstFits ==
    ASSUME NEW l, NEW M, NEW r, NEW own, Ordered(l, M, r), M # {},
           NEW f \in Frame, f.dir \in Dir, f.at = l[f.dir][Anchor], f.self = "in",
           f.due \subseteq M \ {f.at}, f.called = {f.at}, f.drains => own /\ f.dir = "next"
    PROVE  Fits(l, M, r, own, f)
  <1>1. M \subseteq Entry /\ r \in [Entry -> Nat] /\ Starts(l, M, r, f.dir)
    BY DEF Ordered
  <1>2. f.at \in M /\ \A z \in M : z = f.at \/ Beyond(r, f.dir, f.at, z)
    BY <1>1 DEF Starts
  <1>3. ~Beyond(r, f.dir, f.at, f.at)
    BY <1>1, <1>2, BeyondProps
  <1> QED BY <1>2, <1>3 DEF Fits

-----------------------------------------------------------------------------
(* The steps. *)

LEMMA InvFrom ==
    ASSUME NEW N, NEW q, N \in SUBSET Entry, q \in [Entry -> Nat],
           Ordered(list', N, q), Emissions(stack', list', N, q, owning'),
           owning' \in BOOLEAN, allocated' = IF owning' THEN N ELSE Entry,
           once' \in Closure \cup {None}, closures' \subseteq Closure,
           owning' => closures' = {once'} \ {None},
           lost' = FALSE
    PROVE  IInv'
  BY DEF IInv, Owned, LostByOwnSlot

LEMMA ConnectStep ==
    ASSUME IInv, ~lost, NEW s \in Entry, Connect(s)
    PROVE  IInv'
  <1>1. PICK M \in SUBSET Entry, r \in [Entry -> Nat] :
           Ordered(list, M, r) /\ Emissions(stack, list, M, r, owning) /\ Owned(owning, M)
    BY DEF IInv
  <1>2. Connected = M
    BY <1>1, ConnectedIs DEF Connected
  <1>3. s \notin M
    BY <1>1, <1>2 DEF Connect, Owned
  <1>4. PICK q \in [Entry -> Nat] :
           /\ Ordered(PushBack(list, s), M \cup {s}, q)
           /\ \A x \in Entry \ {s} : q[x] = r[x]
    BY <1>1, <1>3, PushBackOrdered
  <1> DEFINE N == M \cup {s}
  <1>5. list' = PushBack(list, s) /\ stack' = OnEvery(Changed)
    BY DEF Connect
  <1>6. MovedTo(stack, stack', list', N, q, owning)
    <2>1. /\ DOMAIN stack' = DOMAIN stack
          /\ stack' = [i \in DOMAIN stack |-> stack'[i]]
          /\ \A i \in DOMAIN stack :
                stack'[i] = IF OfList(stack[i]) THEN Changed(stack[i]) ELSE stack[i]
      BY <1>5 DEF OnEvery
    <2>2. ASSUME NEW i \in DOMAIN stack, OfList(stack[i])
          PROVE  Changed(stack[i]) \in Frame /\ Fits(list', N, q, owning, Changed(stack[i]))
      <3>1. stack[i] \in Frame /\ Fits(list, M, r, owning, stack[i])
        BY <1>1, <2>2, EmissionsType, FrameIs
      <3> QED BY <1>1, <1>3, <1>4, <3>1, ChangedFits
    <2> QED BY <2>1, <2>2 DEF MovedTo
  <1>7. Emissions(stack', list', N, q, owning)
    BY <1>1, <1>6, EmissionsMoved
  <1>8. /\ owning' = owning /\ once' = once /\ closures' = closures /\ lost' = FALSE
        /\ allocated' = allocated \cup {s}
    BY DEF Connect, IInv
  <1>9. allocated' = IF owning THEN N ELSE Entry
    BY <1>1, <1>8 DEF Owned
  <1>10. N \in SUBSET Entry
    OBVIOUS
  <1> HIDE DEF N
  <1>11. Ordered(list', N, q)
    BY <1>4, <1>5 DEF N
  <1> QED BY <1>1, <1>4, <1>7, <1>8, <1>9, <1>10, <1>11, InvFrom DEF Owned

LEMMA DisconnectStep ==
    ASSUME IInv, ~lost, NEW s \in Entry, Disconnect(s)
    PROVE  IInv'
  <1>1. PICK M \in SUBSET Entry, r \in [Entry -> Nat] :
           Ordered(list, M, r) /\ Emissions(stack, list, M, r, owning) /\ Owned(owning, M)
    BY DEF IInv
  <1>2. s \in M
    BY <1>1, ConnectedIs DEF Connected, Disconnect
  <1> DEFINE N == M \ {s}
  <1>3. list' = Unlink(list, s) /\ stack' = OnEvery(LAMBDA f : Without(s, f))
    BY DEF Disconnect
  <1>4. Ordered(list', N, r) /\ \A d \in Dir : Goes(list', N, r, d, s)
    BY <1>1, <1>2, <1>3, UnlinkOrdered
  <1>5. MovedTo(stack, stack', list', N, r, owning)
    <2>1. /\ DOMAIN stack' = DOMAIN stack
          /\ stack' = [i \in DOMAIN stack |-> stack'[i]]
          /\ \A i \in DOMAIN stack :
                stack'[i] = IF OfList(stack[i]) THEN Without(s, stack[i]) ELSE stack[i]
      BY <1>3 DEF OnEvery
    <2>2. ASSUME NEW i \in DOMAIN stack, OfList(stack[i])
          PROVE  Without(s, stack[i]) \in Frame /\ Fits(list', N, r, owning, Without(s, stack[i]))
      <3>1. stack[i] \in Frame /\ Fits(list, M, r, owning, stack[i])
        BY <1>1, <2>2, EmissionsType, FrameIs
      <3> QED BY <1>1, <1>2, <1>4, <3>1, WithoutFits
    <2> QED BY <2>1, <2>2 DEF MovedTo
  <1>6. Emissions(stack', list', N, r, owning)
    BY <1>1, <1>5, EmissionsMoved
  <1>7. /\ owning' = owning /\ once' = once /\ closures' = closures /\ lost' = FALSE
        /\ allocated' = IF owning THEN allocated \ {s} ELSE allocated
    BY DEF Disconnect, IInv
  <1>8. allocated' = IF owning THEN N ELSE Entry
    BY <1>1, <1>7 DEF Owned
  <1>9. N \in SUBSET Entry
    OBVIOUS
  <1> HIDE DEF N
  <1> QED BY <1>1, <1>4, <1>6, <1>7, <1>8, <1>9, InvFrom DEF Owned

LEMMA DisconnectAllStep ==
    ASSUME IInv, ~lost, DisconnectAll
    PROVE  IInv'
  <1>1. PICK M \in SUBSET Entry, r \in [Entry -> Nat] :
           Ordered(list, M, r) /\ Emissions(stack, list, M, r, owning) /\ Owned(owning, M)
    BY DEF IInv
  <1>2. Connected = M
    BY <1>1, ConnectedIs DEF Connected
  <1>3. list' = Forget(list) /\ stack' = OnEvery(Emptied)
    BY DEF DisconnectAll
  <1>4. Ordered(list', {}, r)
    BY <1>1, <1>3, ForgetOrdered
  <1>5. MovedTo(stack, stack', list', {}, r, owning)
    <2>1. /\ DOMAIN stack' = DOMAIN stack
          /\ stack' = [i \in DOMAIN stack |-> stack'[i]]
          /\ \A i \in DOMAIN stack :
                stack'[i] = IF OfList(stack[i]) THEN Emptied(stack[i]) ELSE stack[i]
      BY <1>3 DEF OnEvery
    <2>2. ASSUME NEW i \in DOMAIN stack, OfList(stack[i])
          PROVE  Emptied(stack[i]) \in Frame /\ Fits(list', {}, r, owning, Emptied(stack[i]))
      <3>1. stack[i] \in Frame /\ Fits(list, M, r, owning, stack[i])
        BY <1>1, <2>2, EmissionsType, FrameIs
      <3> QED BY <3>1, EmptiedFits
    <2> QED BY <2>1, <2>2 DEF MovedTo
  <1>6. Emissions(stack', list', {}, r, owning)
    BY <1>1, <1>5, EmissionsMoved
  <1>7. /\ owning' = owning /\ once' = once /\ closures' = closures /\ lost' = FALSE
        /\ allocated' = IF owning THEN {} ELSE Entry
    BY <1>1, <1>2 DEF DisconnectAll, IInv, Owned
  <1> QED BY <1>1, <1>4, <1>6, <1>7, InvFrom DEF Owned

\* What leaves the list alone.
LEMMA SameListStep ==
    ASSUME NEW M \in SUBSET Entry, NEW r \in [Entry -> Nat],
           Ordered(list, M, r), Owned(owning, M), ~lost,
           list' = list, owning' = owning, allocated' = allocated, once' = once,
           closures' = closures, lost' = lost,
           Emissions(stack', list, M, r, owning)
    PROVE  IInv'
  <1>1. /\ Ordered(list', M, r) /\ Emissions(stack', list', M, r, owning') /\ lost' = FALSE
        /\ owning' \in BOOLEAN /\ allocated' = IF owning' THEN M ELSE Entry
        /\ once' \in Closure \cup {None} /\ closures' \subseteq Closure
        /\ owning' => closures' = {once'} \ {None}
    BY DEF Owned, IInv
  <1> QED BY <1>1, InvFrom

LEMMA EmitStep ==
    ASSUME IInv, ~lost, NEW d \in {"next", "prev"}, NEW stops \in BOOLEAN, NEW drains \in BOOLEAN,
           Emit(d, stops, drains)
    PROVE  IInv'
  <1>1. PICK M \in SUBSET Entry, r \in [Entry -> Nat] :
           Ordered(list, M, r) /\ Emissions(stack, list, M, r, owning) /\ Owned(owning, M)
    BY DEF IInv
  <1>2. Connected = M
    BY <1>1, ConnectedIs DEF Connected
  <1> DEFINE first == list[d][Anchor]
             f == [at |-> first, dir |-> d, stops |-> stops, drains |-> drains,
                   self |-> "in", due |-> M \ {first}, called |-> {first}]
  <1>3. M # {} /\ stack' = Append(stack, f) /\ (drains => owning /\ d = "next")
    BY <1>2 DEF Emit
  <1>4. first \in M /\ d \in Dir
    BY <1>1, <1>3 DEF Ordered, Starts, Dir
  <1>5. f \in Frame /\ f \in Frame \cup OnceFrame
    BY <1>4 DEF Frame, Dir
  <1>6. Fits(list, M, r, owning, f)
    <2>1. /\ f.dir \in Dir /\ f.at = list[f.dir][Anchor] /\ f.self = "in"
          /\ f.due \subseteq M \ {f.at} /\ f.called = {f.at} /\ (f.drains => owning /\ f.dir = "next")
      BY <1>3, <1>4
    <2> HIDE DEF f
    <2> QED BY <1>1, <1>3, <1>5, <2>1, FirstFits
  <1> HIDE DEF f
  <1>7. Emissions(stack', list, M, r, owning)
    BY <1>1, <1>3, <1>5, <1>6, EmissionsPushed
  <1>8. UNCHANGED <<owning, list, allocated, once, closures, lost>>
    BY DEF Emit
  <1> QED BY <1>1, <1>7, <1>8, SameListStep

\* The signal of one closure.
LEMMA OnceStep ==
    ASSUME IInv, ~lost, (\E c \in Closure : OnceConnect(c)) \/ OnceDisconnect
    PROVE  IInv'
  <1>1. PICK M \in SUBSET Entry, r \in [Entry -> Nat] :
           Ordered(list, M, r) /\ Emissions(stack, list, M, r, owning) /\ Owned(owning, M)
    BY DEF IInv
  <1>2. owning' = owning /\ list' = list /\ allocated' = allocated /\ stack' = stack /\ lost' = FALSE
    BY DEF OnceConnect, OnceDisconnect, IInv
  <1>3. /\ once' \in Closure \cup {None} /\ closures' \subseteq Closure
        /\ owning => closures' = {once'} \ {None}
    <2>1. ASSUME NEW c \in Closure, OnceConnect(c)
          PROVE  /\ once' \in Closure \cup {None} /\ closures' \subseteq Closure
                 /\ owning => closures' = {once'} \ {None}
      BY <1>1, <2>1, SignalAssumption DEF OnceConnect, Owned
    <2>2. CASE OnceDisconnect
      BY <1>1, <2>2 DEF OnceDisconnect, Owned
    <2> QED BY <2>1, <2>2
  <1>4. /\ Ordered(list', M, r) /\ Emissions(stack', list', M, r, owning')
        /\ owning' \in BOOLEAN /\ allocated' = IF owning' THEN M ELSE Entry
    BY <1>1, <1>2 DEF Owned
  <1> QED BY <1>2, <1>3, <1>4, InvFrom

LEMMA OnceEmitStep ==
    ASSUME IInv, ~lost, OnceEmit
    PROVE  IInv'
  <1>1. PICK M \in SUBSET Entry, r \in [Entry -> Nat] :
           Ordered(list, M, r) /\ Emissions(stack, list, M, r, owning) /\ Owned(owning, M)
    BY DEF IInv
  <1> DEFINE f == [closure |-> once]
  <1>2. f \in Frame \cup OnceFrame /\ ~OfList(f)
    BY <1>1 DEF OnceEmit, Owned, OnceFrame, OfList
  <1>3. stack' = Append(stack, f) /\ UNCHANGED <<owning, list, allocated, once, closures, lost>>
    BY DEF OnceEmit
  <1> HIDE DEF f
  <1>4. Emissions(stack', list, M, r, owning)
    BY <1>1, <1>2, <1>3, EmissionsPushed
  <1> QED BY <1>1, <1>3, <1>4, SameListStep

\* An emission ends.
LEMMA EndStep ==
    ASSUME IInv, ~lost, stack # <<>>, StopHere \/ OnceReturn
    PROVE  IInv'
  <1>1. PICK M \in SUBSET Entry, r \in [Entry -> Nat] :
           Ordered(list, M, r) /\ Emissions(stack, list, M, r, owning) /\ Owned(owning, M)
    BY DEF IInv
  <1>2. stack' = Outer /\ UNCHANGED <<owning, list, allocated, once, closures, lost>>
    BY DEF StopHere, OnceReturn
  <1>3. Emissions(stack', list, M, r, owning)
    BY <1>1, <1>2, EmissionsPopped DEF Outer
  <1> QED BY <1>1, <1>2, <1>3, SameListStep

LEMMA AdvanceStep ==
    ASSUME IInv, ~lost, stack # <<>>, Advance
    PROVE  IInv'
  <1>1. PICK M \in SUBSET Entry, r \in [Entry -> Nat] :
           Ordered(list, M, r) /\ Emissions(stack, list, M, r, owning) /\ Owned(owning, M)
    BY DEF IInv
  <1>2. Top \in Frame /\ Fits(list, M, r, owning, Top) /\ ~Top.drains
    BY <1>1, EmissionsType, FrameIs DEF Advance, Top
  <1> DEFINE s == list[Top.dir][Top.at]
  <1>3. /\ stack' = IF s = Anchor THEN Outer ELSE Append(Outer, Onward(Top, s))
        /\ UNCHANGED <<owning, list, allocated, once, closures, lost>>
    BY DEF Advance, Resume, Onward
  <1>4. Emissions(Outer, list, M, r, owning)
    BY <1>1, EmissionsPopped DEF Outer
  <1>5. s # Anchor => Onward(Top, s) \in Frame /\ Fits(list, M, r, owning, Onward(Top, s))
    <2>1. PICK f : f = Top
      OBVIOUS
    <2>2. PICK x : x = s
      OBVIOUS
    <2> HIDE DEF s
    <2>3. f \in Frame /\ Fits(list, M, r, owning, f) /\ ~f.drains /\ x = list[f.dir][f.at]
      BY <1>2, <2>1, <2>2 DEF s
    <2>4. x # Anchor => Onward(f, x) \in Frame /\ Fits(list, M, r, owning, Onward(f, x))
      BY <1>1, <2>3, OnwardFits
    <2> QED BY <2>1, <2>2, <2>4
  <1> HIDE DEF s
  <1>6. s # Anchor => Emissions(Append(Outer, Onward(Top, s)), list, M, r, owning)
    BY <1>4, <1>5, EmissionsPushed
  <1>7. Emissions(stack', list, M, r, owning)
    BY <1>3, <1>4, <1>6
  <1> QED BY <1>1, <1>3, <1>7, SameListStep

\* Freed memory is used: the emission stood at a slot that is not connected.
LEMMA UseFreedStep ==
    ASSUME IInv, ~lost, stack # <<>>, UseFreed
    PROVE  IInv'
  <1>1. PICK M \in SUBSET Entry, r \in [Entry -> Nat] :
           Ordered(list, M, r) /\ Emissions(stack, list, M, r, owning) /\ Owned(owning, M)
    BY DEF IInv
  <1>2. Top \in Frame /\ Fits(list, M, r, owning, Top) /\ OfList(Top)
    BY <1>1, EmissionsType, FrameIs DEF UseFreed, Top
  <1>3. Top.at \in Entry /\ Top.at \notin M
    BY <1>1, <1>2 DEF UseFreed, Owned, Frame
  <1>4. Top.self # "in"
    BY <1>2, <1>3 DEF Fits
  <1>5. UNCHANGED <<owning, list, allocated, once, closures, stack>> /\ lost' = TRUE
    BY DEF UseFreed
  <1>6. LostByOwnSlot'
    BY <1>2, <1>4, <1>5 DEF LostByOwnSlot, Top
  <1>7. Ordered(list', M, r) /\ Emissions(stack', list', M, r, owning') /\ Owned(owning, M)'
    BY <1>1, <1>5 DEF Owned
  <1> QED BY <1>5, <1>6, <1>7 DEF IInv

\* emit_and_disconnect takes the slot it called out, and then the first left.
LEMMA DrainStep ==
    ASSUME IInv, ~lost, stack # <<>>, Drain
    PROVE  IInv'
  <1>1. PICK M \in SUBSET Entry, r \in [Entry -> Nat] :
           Ordered(list, M, r) /\ Emissions(stack, list, M, r, owning) /\ Owned(owning, M)
    BY DEF IInv
  <1> DEFINE n == Len(stack)
  <1>2. /\ Top \in Frame /\ Fits(list, M, r, owning, Top) /\ Top.drains /\ OfList(Top)
        /\ n \in DOMAIN stack /\ n \in Nat
    BY <1>1, EmissionsType, FrameIs DEF Drain, Top
  <1> DEFINE s == Top.at
             rest == Unlink(list, s)
             others == OnEvery(LAMBDA f : Without(s, f))
             top == others[n]
             first == rest.next[Anchor]
             next == [top EXCEPT !.at = first, !.self = "in", !.due = @ \ {first},
                                 !.called = @ \cup {first}]
             N == M \ {s}
  <1>3. s \in M
    BY <1>1, ConnectedIs DEF Connected, Drain
  <1>4. /\ list' = rest /\ allocated' = allocated \ {s}
        /\ stack' = IF first = Anchor THEN SubSeq(others, 1, n - 1)
                    ELSE [others EXCEPT ![n] = next]
        /\ UNCHANGED <<owning, once, closures, lost>>
    BY DEF Drain
  <1>5. Ordered(rest, N, r) /\ \A d \in Dir : Goes(rest, N, r, d, s)
    BY <1>1, <1>3, UnlinkOrdered
  <1>6. /\ DOMAIN others = DOMAIN stack
        /\ others = [i \in DOMAIN stack |-> others[i]]
        /\ \A i \in DOMAIN stack :
              others[i] = IF OfList(stack[i]) THEN Without(s, stack[i]) ELSE stack[i]
    BY DEF OnEvery
  <1>7. top = Without(s, Top)
    BY <1>2, <1>6 DEF Top
  <1>8. owning
    BY <1>2 DEF Fits
  <1> HIDE DEF others, top, rest, first, s
  <1>9. Emissions(others, rest, N, r, owning) /\ Len(others) = n
    <2>1. ASSUME NEW i \in DOMAIN stack, OfList(stack[i])
          PROVE  Without(s, stack[i]) \in Frame /\ Fits(rest, N, r, owning, Without(s, stack[i]))
      <3>1. stack[i] \in Frame /\ Fits(list, M, r, owning, stack[i])
        BY <1>1, <2>1, EmissionsType, FrameIs
      <3> QED BY <1>1, <1>3, <1>5, <3>1, WithoutFits
    <2>2. MovedTo(stack, others, rest, N, r, owning)
      BY <1>6, <2>1 DEF MovedTo
    <2> QED BY <1>1, <2>2, EmissionsMoved
  <1>10. others # <<>>
    BY <1>2, <1>9, EmptySeq
  <1>11. first \in N \cup {Anchor} /\ (first # Anchor => N # {}) /\ first = rest["next"][Anchor]
    BY <1>5 DEF Ordered, Starts, Dir, first
  <1>12. first # Anchor => next \in Frame /\ Fits(rest, N, r, owning, next)
    <2> SUFFICES ASSUME first # Anchor
                 PROVE  next \in Frame /\ Fits(rest, N, r, owning, next)
      OBVIOUS
    <2>1. /\ top \in Frame /\ top.due \subseteq N /\ top.called = {} /\ top.dir = "next"
      <3>1. Without(s, Top) \in Frame /\ Fits(rest, N, r, owning, Without(s, Top))
        BY <1>2, <1>3, <1>5, WithoutFits
      <3>2. Without(s, Top).called = Top.called \ {s} /\ Without(s, Top).dir = Top.dir
        BY <1>2 DEF Without, Frame
      <3>3. Top.called \subseteq {s} /\ Top.dir = "next"
        BY <1>2 DEF Fits, s
      <3>4. Without(s, Top).due \subseteq N
        BY <3>1 DEF Fits
      <3> QED BY <1>7, <3>1, <3>2, <3>3, <3>4
    <2>2. first \in Entry /\ first \in N
      BY <1>11
    <2>3. /\ next \in Frame /\ next.at = first /\ next.dir = "next" /\ next.self = "in"
          /\ next.due = top.due \ {first} /\ next.called = {first}
      BY <2>1, <2>2 DEF Frame
    <2> HIDE DEF next, N
    <2>4. Fits(rest, N, r, owning, next)
      <3>1. /\ next.dir \in Dir /\ next.at = rest[next.dir][Anchor] /\ next.called = {next.at}
            /\ next.due \subseteq N \ {next.at} /\ N # {}
        BY <1>11, <2>1, <2>2, <2>3 DEF Dir
      <3> QED BY <1>5, <1>8, <2>3, <3>1, FirstFits
    <2> QED BY <2>3, <2>4
  <1>13. Emissions(stack', rest, N, r, owning)
    <2> HIDE DEF next, N
    <2>1. CASE first = Anchor
      <3>1. Emissions(SubSeq(others, 1, Len(others) - 1), rest, N, r, owning)
        BY <1>9, <1>10, EmissionsPopped
      <3> QED BY <1>4, <1>9, <2>1, <3>1
    <2>2. CASE first # Anchor
      <3>1. Emissions([others EXCEPT ![Len(others)] = next], rest, N, r, owning)
        BY <1>9, <1>10, <1>12, <2>2, EmissionsReplaced
      <3> QED BY <1>4, <1>9, <2>2, <3>1
    <2> QED BY <2>1, <2>2
  <1>14. /\ owning' = owning /\ once' = once /\ closures' = closures /\ lost' = FALSE
         /\ allocated' = IF owning' THEN N ELSE Entry
    BY <1>1, <1>4, <1>8 DEF IInv, Owned
  <1>15. N \in SUBSET Entry
    OBVIOUS
  <1> HIDE DEF N
  <1>16. Ordered(list', N, r) /\ Emissions(stack', list', N, r, owning')
    BY <1>4, <1>5, <1>13, <1>14
  <1> QED BY <1>1, <1>14, <1>15, <1>16, InvFrom DEF Owned

LEMMA InvInit == Init => IInv
  <1> SUFFICES ASSUME Init PROVE IInv
    OBVIOUS
  <1> DEFINE r == [x \in Entry |-> 0]
  <1>1. r \in [Entry -> Nat]
    OBVIOUS
  <1>2. list \in CList /\ \A d \in Dir : list[d][Anchor] = Anchor
    BY DEF Init, NewList, CList, Dir, Cells
  <1> HIDE DEF r
  <1>3. Ordered(list, {}, r)
    BY <1>1, <1>2 DEF Ordered, Starts
  <1>4. Emissions(stack, list, {}, r, owning)
    <2> DEFINE F == Frame \cup OnceFrame
    <2> HIDE DEF F
    <2>1. <<>> \in Seq(F) /\ DOMAIN <<>> = {}
      BY EmptySeq
    <2> QED BY <2>1 DEF Emissions, F, Init
  <1>5. Owned(owning, {})
    BY DEF Owned, Init
  <1>6. lost = FALSE
    BY DEF Init
  <1> QED BY <1>1, <1>3, <1>4, <1>5, <1>6 DEF IInv, LostByOwnSlot

LEMMA InvStep == IInv /\ [Next]_vars => IInv'
  <1> SUFFICES ASSUME IInv, [Next]_vars PROVE IInv'
    OBVIOUS
  <1>1. CASE ~lost /\ Client
    <2>1. ASSUME NEW s \in Entry, Connect(s) \/ Disconnect(s) PROVE IInv'
      BY <1>1, <2>1, ConnectStep, DisconnectStep
    <2>2. CASE DisconnectAll
      BY <1>1, <2>2, DisconnectAllStep
    <2>3. ASSUME NEW d \in {"next", "prev"}, NEW stops \in BOOLEAN, NEW drains \in BOOLEAN,
                 Emit(d, stops, drains)
          PROVE  IInv'
      BY <1>1, <2>3, EmitStep
    <2>4. CASE (\E c \in Closure : OnceConnect(c)) \/ OnceDisconnect
      BY <1>1, <2>4, OnceStep
    <2>5. CASE OnceEmit
      BY <1>1, <2>5, OnceEmitStep
    <2> QED BY <1>1, <2>1, <2>2, <2>3, <2>4, <2>5 DEF Client
  <1>2. CASE ~lost /\ Return
    <2>1. stack # <<>>
      BY <1>2 DEF Return
    <2>2. CASE Advance
      BY <1>2, <2>1, <2>2, AdvanceStep
    <2>3. CASE StopHere \/ OnceReturn
      BY <1>2, <2>1, <2>3, EndStep
    <2>4. CASE Drain
      BY <1>2, <2>1, <2>4, DrainStep
    <2>5. CASE UseFreed
      BY <1>2, <2>1, <2>5, UseFreedStep
    <2> QED BY <1>2, <2>2, <2>3, <2>4, <2>5 DEF Return
  <1>3. CASE UNCHANGED vars
    <2>1. UNCHANGED <<owning, list, allocated, once, closures, stack, lost>>
      BY <1>3 DEF vars
    <2> QED BY <2>1 DEF IInv, Owned, LostByOwnSlot, Top
  <1> QED BY <1>1, <1>2, <1>3 DEF Next

\* The invariant of every reachable state: the links follow the ranks of the slots
\* connected, and every emission stands in their order.
THEOREM InvTheorem == Spec => []IInv
  BY InvInit, InvStep, PTL DEF Spec

\* For any slots and closures, any depth of emissions and any calls out of them, the
\* list is closed in both directions, and the variant that owns slots and closures
\* has allocated those connected and no others.
THEOREM HeldTheorem == Spec => []Held
  <1>1. IInv => Held
    <2> SUFFICES ASSUME IInv PROVE Held
      OBVIOUS
    <2>1. PICK M \in SUBSET Entry, r \in [Entry -> Nat] :
             Ordered(list, M, r) /\ Emissions(stack, list, M, r, owning) /\ Owned(owning, M)
      BY DEF IInv
    <2>2. Connected = M
      BY <2>1, ConnectedIs DEF Connected
    <2>3. TypeOK
      <3>1. list \in CList /\ allocated \subseteq Entry /\ closures \subseteq Closure
            /\ once \in Closure \cup {None}
        BY <2>1 DEF Ordered, Owned
      <3>2. \A i \in DOMAIN stack : stack[i] \in Frame \cup OnceFrame
        BY <2>1, EmissionsType
      <3> QED BY <3>1, <3>2 DEF TypeOK
    <2>4. ASSUME NEW e \in M \cup {Anchor}
          PROVE  list.prev[list.next[e]] = e /\ list.next[list.prev[e]] = e
      <3>1. list[Opposite("next")][list["next"][e]] = e
        BY <2>1, ThereAndBack DEF Dir
      <3>2. list[Opposite("prev")][list["prev"][e]] = e
        BY <2>1, ThereAndBack DEF Dir
      <3> QED BY <3>1, <3>2 DEF Opposite
    <2>5. owning => allocated = M /\ closures = {once} \ {None}
      BY <2>1 DEF Owned
    <2> QED BY <2>2, <2>3, <2>4, <2>5 DEF Held
  <1> QED BY <1>1, InvTheorem, PTL

\* Whatever closures connect, disconnect and emit while they are called, and however
\* deep, what an emission has yet to call is ahead of it and what it called is not.
THEOREM DeliveredTheorem == Spec => []Delivered
  <1>1. IInv => Delivered
    <2> SUFFICES ASSUME IInv, NEW i \in DOMAIN stack, OfList(stack[i])
                 PROVE  LET f == stack[i]
                            onward == From(list, f.dir, list[f.dir][f.at])
                        IN  f.self = "astray" \/ f.at \notin allocated \/
                            /\ f.self = "in" => f.at \in Connected
                            /\ f.due \subseteq onward
                            /\ onward \cap f.called = {}
      BY DEF Delivered
    <2>1. PICK M \in SUBSET Entry, r \in [Entry -> Nat] :
             Ordered(list, M, r) /\ Emissions(stack, list, M, r, owning) /\ Owned(owning, M)
      BY DEF IInv
    <2>2. Connected = M
      BY <2>1, ConnectedIs DEF Connected
    <2>3. PICK f : f = stack[i]
      OBVIOUS
    <2>4. f \in Frame /\ Fits(list, M, r, owning, f)
      BY <2>1, <2>3, EmissionsType, FrameIs
    <2>5. f.at \in Entry /\ f.dir \in Dir /\ f.self \in {"in", "out", "astray"}
      BY <2>4 DEF Frame, Dir
    <2>6. ASSUME f.self # "astray"
          PROVE  /\ f.self = "in" => f.at \in M
                 /\ f.due \subseteq From(list, f.dir, list[f.dir][f.at])
                 /\ From(list, f.dir, list[f.dir][f.at]) \cap f.called = {}
      <3>1. Goes(list, M, r, f.dir, f.at)
        BY <2>1, <2>4, <2>5, <2>6 DEF Fits, Ordered
      <3>2. From(list, f.dir, list[f.dir][f.at]) = {x \in M : Beyond(r, f.dir, f.at, x)}
        BY <2>1, <2>5, <3>1, OnwardIs
      <3> QED BY <2>4, <2>6, <3>2 DEF Fits
    <2> QED BY <2>2, <2>3, <2>6
  <1> QED BY <1>1, InvTheorem, PTL

\* For any slots and any order of calls, freed memory is used by no emission but one
\* whose own slot was disconnected during the call of it.
THEOREM LostTheorem == Spec => []LostByOwnSlot
  <1>1. IInv => LostByOwnSlot
    BY DEF IInv
  <1> QED BY <1>1, InvTheorem, PTL

-----------------------------------------------------------------------------
(* ConfigFile: however the files include each other and wherever loading     *)
(* stops, no file is read inside itself and descriptors are closed.  Nothing *)
(* is needed of what get_token makes of a text, so the proofs hold for any   *)
(* texts.                                                                    *)

\* _files, with places in A.
FilesIn(fs, A) == fs \in Seq([inode : Inode, at : A])

Apart(fs) == \A j, k \in DOMAIN fs : fs[j].inode = fs[k].inode => j = k

\* While something is loaded there is a file; the rest is FilesHeld.
LoaderInv ==
    /\ \E A : FilesIn(files, A)
    /\ Apart(files)
    /\ refused \in Nat /\ descriptors = Len(files) + refused
    /\ result = "loading" <=> files # <<>>

LEMMA FilesType ==
    ASSUME NEW A, NEW fs, FilesIn(fs, A)
    PROVE  /\ Len(fs) \in Nat /\ DOMAIN fs = 1..Len(fs)
           /\ fs # <<>> <=> 1 \in 1..Len(fs)
           /\ \A k \in 1..Len(fs) : fs[k].inode \in Inode /\ fs[k].at \in A
  <1> DEFINE T == [inode : Inode, at : A]
  <1>1. fs \in Seq(T)
    BY DEF FilesIn
  <1>2. \A t \in T : t.inode \in Inode /\ t.at \in A
    OBVIOUS
  <1> HIDE DEF T
  <1>3. Len(fs) \in Nat /\ DOMAIN fs = 1..Len(fs) /\ \A k \in 1..Len(fs) : fs[k] \in T
    BY <1>1, LenProperties, ElementOfSeq
  <1>4. fs # <<>> <=> Len(fs) # 0
    BY <1>1, EmptySeq
  <1> QED BY <1>2, <1>3, <1>4

\* Reading on changes a place and nothing else.
LEMMA AheadFiles ==
    ASSUME NEW A, FilesIn(files, A), files # <<>>, Apart(files), NEW at
    PROVE  /\ FilesIn(Ahead(at), A \cup {at}) /\ Apart(Ahead(at))
           /\ Len(Ahead(at)) = Len(files)
           /\ \A k \in 1..Len(files) : Ahead(at)[k].inode = files[k].inode
  <1> DEFINE T == [inode : Inode, at : A \cup {at}]
             x == [files[1] EXCEPT !.at = at]
             fs == [files EXCEPT ![1] = x]
  <1>1. Len(files) \in Nat /\ DOMAIN files = 1..Len(files) /\ 1 \in 1..Len(files)
    BY FilesType
  <1>2. \A k \in 1..Len(files) : files[k] \in [inode : Inode, at : A]
    <2> DEFINE S == [inode : Inode, at : A]
    <2>1. files \in Seq(S)
      BY DEF FilesIn
    <2> HIDE DEF S
    <2>2. \A k \in 1..Len(files) : files[k] \in S
      BY <2>1, ElementOfSeq
    <2> QED BY <2>2 DEF S
  <1>3. x \in T /\ x.inode = files[1].inode
    BY <1>1, <1>2
  <1>4. \A k \in 1..Len(files) : files[k] \in T
    BY <1>2
  <1>5. fs = Ahead(at)
    BY DEF Ahead
  <1>6. fs = [k \in 1..Len(files) |-> IF k = 1 THEN x ELSE files[k]]
    BY <1>1
  <1> HIDE DEF fs, x, T
  <1>7. fs \in Seq(T) /\ Len(fs) = Len(files) /\ DOMAIN fs = DOMAIN files
    <2>1. \A k \in 1..Len(files) : fs[k] \in T
      BY <1>3, <1>4, <1>6
    <2> QED BY <1>1, <1>6, <2>1, IsASeq, LenProperties
  <1>8. \A k \in 1..Len(files) : fs[k].inode = files[k].inode
    BY <1>3, <1>6
  <1>9. Apart(fs)
    BY <1>1, <1>7, <1>8 DEF Apart
  <1> QED BY <1>5, <1>7, <1>8, <1>9 DEF FilesIn, T

LEMMA LoaderInvInit == LoaderInit => LoaderInv
  <1> SUFFICES ASSUME LoaderInit PROVE LoaderInv
    OBVIOUS
  <1>1. FilesIn(files, {})
    <2> DEFINE T == [inode : Inode, at : {}]
    <2> HIDE DEF T
    <2>1. <<>> \in Seq(T)
      BY EmptySeq
    <2> QED BY <2>1 DEF FilesIn, LoaderInit, T
  <1> QED BY <1>1, EmptySeq DEF LoaderInit, LoaderInv, Apart

\* load opens the file it is asked for.
LEMMA LoadStep ==
    ASSUME LoaderInv, NEW name \in Names, Load(name)
    PROVE  LoaderInv'
  <1>1. files = <<>> /\ descriptors = refused /\ refused \in Nat /\ refused' = refused
    BY EmptySeq DEF Load, LoaderInv
  <1>2. CASE name \in DOMAIN FileOf
    <2> DEFINE x == [inode |-> FileOf[name], at |-> 1]
    <2>1. files' = <<x>> /\ result' = "loading" /\ descriptors' = descriptors + 1
      BY <1>2 DEF Load
    <2>2. x \in [inode : Inode, at : {1}]
      BY <1>2, ConfigAssumption
    <2> DEFINE T == [inode : Inode, at : {1}]
    <2> HIDE DEF T, x
    <2>3. <<x>> \in Seq(T) /\ Len(<<x>>) = 1 /\ DOMAIN <<x>> = {1} /\ <<x>> # <<>>
      BY <2>2 DEF T
    <2>4. FilesIn(files', {1})
      BY <2>1, <2>3 DEF FilesIn, T
    <2> QED BY <1>1, <2>1, <2>3, <2>4 DEF LoaderInv, Apart
  <1>3. CASE name \notin DOMAIN FileOf
    <2>1. files' = <<>> /\ result' = "fail" /\ descriptors' = descriptors
      BY <1>3 DEF Load
    <2> QED BY <1>1, <2>1 DEF LoaderInv, FilesIn, Apart
  <1> QED BY <1>2, <1>3

\* Loading fails: what is open is closed, but for a file that was refused.
LEMMA FailedStep ==
    ASSUME LoaderInv, NEW extra \in {0, 1}, Failed(extra), refused' = refused + extra
    PROVE  LoaderInv'
  <1>1. PICK A : FilesIn(files, A)
    BY DEF LoaderInv
  <1>2. Len(files) \in Nat /\ refused \in Nat /\ descriptors = Len(files) + refused
    BY <1>1, FilesType DEF LoaderInv
  <1>3. /\ files' = <<>> /\ result' = "fail" /\ descriptors' = descriptors - Len(files) + extra
    BY DEF Failed
  <1>4. descriptors' = Len(files') + refused' /\ refused' \in Nat
    BY <1>2, <1>3
  <1>5. FilesIn(files', A)
    <2> DEFINE T == [inode : Inode, at : A]
    <2> HIDE DEF T
    <2>1. <<>> \in Seq(T)
      BY EmptySeq
    <2> QED BY <1>3, <2>1 DEF FilesIn, T
  <1> QED BY <1>3, <1>4, <1>5 DEF LoaderInv, Apart

\* The file is read on.
LEMMA AcceptedStep ==
    ASSUME LoaderInv, result = "loading", Accepted, refused' = refused,
           NEW at, files' = Ahead(at)
    PROVE  LoaderInv'
  <1>1. PICK A : FilesIn(files, A)
    BY DEF LoaderInv
  <1>2. Apart(files) /\ files # <<>> /\ refused \in Nat /\ descriptors = Len(files) + refused
    BY DEF LoaderInv
  <1>3. /\ FilesIn(Ahead(at), A \cup {at}) /\ Apart(Ahead(at)) /\ Len(Ahead(at)) = Len(files)
    BY <1>1, <1>2, AheadFiles
  <1>4. Ahead(at) # <<>>
    BY <1>1, <1>2, <1>3, FilesType
  <1> QED BY <1>2, <1>3, <1>4 DEF LoaderInv, Accepted

\* The innermost file has been read.
LEMMA EndOfFileStep ==
    ASSUME LoaderInv, result = "loading", EndOfFile
    PROVE  LoaderInv'
  <1> DEFINE n == Len(files)
             x == [files[2] EXCEPT !.at = IF At(Content(files[2].inode), @) = EOF THEN @ ELSE @ + 1]
             fs == [k \in 1..n - 1 |-> IF k > 1 THEN files[k + 1] ELSE x]
  <1>1. /\ files' = fs /\ descriptors' = descriptors - 1 /\ refused' = refused
        /\ result' = IF n = 1 THEN "ok" ELSE "loading"
    BY DEF EndOfFile
  <1>2. PICK A : FilesIn(files, A)
    BY DEF LoaderInv
  <1>3. /\ n \in Nat /\ n >= 1 /\ DOMAIN files = 1..n /\ Apart(files)
        /\ refused \in Nat /\ descriptors = n + refused
    BY <1>2, FilesType DEF LoaderInv
  <1> DEFINE B == A \cup {x.at}  T == [inode : Inode, at : B]
  <1>4. \A k \in 1..n : files[k] \in [inode : Inode, at : A]
    <2> DEFINE S == [inode : Inode, at : A]
    <2>1. files \in Seq(S)
      BY <1>2 DEF FilesIn
    <2> HIDE DEF S
    <2>2. \A k \in 1..n : files[k] \in S
      BY <2>1, ElementOfSeq
    <2> QED BY <2>2 DEF S
  <1>5. n >= 2 => x \in T /\ x.inode = files[2].inode
    <2> SUFFICES ASSUME n >= 2 PROVE x \in T /\ x.inode = files[2].inode
      OBVIOUS
    <2>1. files[2] \in [inode : Inode, at : A]
      BY <1>3, <1>4
    <2> DEFINE v == IF At(Content(files[2].inode), files[2].at) = EOF THEN files[2].at
                    ELSE files[2].at + 1
    <2>2. x = [files[2] EXCEPT !.at = v]
      OBVIOUS
    <2> HIDE DEF v, x
    <2> QED BY <2>1, <2>2
  <1> HIDE DEF x
  <1>6. \A k \in 1..n - 1 : fs[k] \in T /\ fs[k].inode = files[k + 1].inode
    <2> SUFFICES ASSUME NEW k \in 1..n - 1 PROVE fs[k] \in T /\ fs[k].inode = files[k + 1].inode
      OBVIOUS
    <2>1. CASE k = 1
      <3>1. fs[k] = x /\ n >= 2
        BY <1>3, <2>1
      <3> HIDE DEF T, fs
      <3> QED BY <1>5, <2>1, <3>1
    <2>2. CASE k > 1
      <3>1. fs[k] = files[k + 1] /\ k + 1 \in 1..n
        BY <1>3, <2>2
      <3>2. files[k + 1] \in T
        BY <1>4, <3>1
      <3> HIDE DEF T, fs
      <3> QED BY <3>1, <3>2
    <2> QED BY <1>3, <2>1, <2>2
  <1>7. fs \in Seq(T) /\ Len(fs) = n - 1 /\ DOMAIN fs = 1..n - 1 /\ n - 1 \in Nat
    <2>1. n - 1 \in Nat
      BY <1>3
    <2> HIDE DEF T
    <2> QED BY <1>6, <2>1, IsASeq, LenProperties
  <1>8. fs # <<>> <=> n # 1
    <2> HIDE DEF T, fs
    <2> QED BY <1>3, <1>7, EmptySeq
  <1> HIDE DEF fs
  <1>9. Apart(fs)
    <2> SUFFICES ASSUME NEW j \in 1..n - 1, NEW k \in 1..n - 1, fs[j].inode = fs[k].inode
                 PROVE  j = k
      BY <1>7 DEF Apart
    <2>1. j + 1 \in 1..n /\ k + 1 \in 1..n
      BY <1>3
    <2>2. files[j + 1].inode = files[k + 1].inode
      BY <1>6
    <2>3. j + 1 = k + 1
      BY <1>3, <2>1, <2>2 DEF Apart
    <2> QED BY <2>3
  <1>10. FilesIn(fs, B)
    BY <1>7 DEF FilesIn
  <1>11. descriptors' = Len(fs) + refused
    BY <1>1, <1>3, <1>7
  <1> QED BY <1>1, <1>3, <1>8, <1>9, <1>10, <1>11 DEF LoaderInv

\* An included file is opened inside the others, unless it is one of them.
LEMMA IncludeStep ==
    ASSUME LoaderInv, result = "loading", Include
    PROVE  LoaderInv'
  <1> DEFINE close == GetToken(Chr, Second.at)
             end == GetToken(Chr, close.at)
             named == Second.tk = "string" /\ close.tk = ">" /\ end.tk = "\n"
             found == named /\ Second.text \in DOMAIN FileOf
             again == IF found THEN Reading(FileOf[Second.text]) ELSE FALSE
  <1>1. /\ IF found /\ ~again
           THEN /\ files' = <<[inode |-> FileOf[Second.text], at |-> 1]>> \o Ahead(end.at)
                /\ descriptors' = descriptors + 1
                /\ UNCHANGED <<result, items>>
           ELSE Failed(IF again THEN 1 ELSE 0)
        /\ refused' = IF again THEN refused + 1 ELSE refused
    BY DEF Include
  <1>2. again = TRUE \/ again = FALSE
    BY DEF Reading
  <1> DEFINE inode == FileOf[Second.text]  at == end.at
  <1>3. found => inode \in Inode
    BY ConfigAssumption
  <1>4. found /\ ~again => \A k \in DOMAIN files : files[k].inode # inode
    BY DEF Reading
  <1> HIDE DEF close, end, named, found, again, inode, at
  <1>5. CASE found /\ ~again
    <2> DEFINE x == [inode |-> inode, at |-> 1]
               old == Ahead(at)
               fs == <<x>> \o old
    <2>1. /\ files' = fs /\ descriptors' = descriptors + 1 /\ result' = result /\ refused' = refused
      BY <1>1, <1>5 DEF inode, at
    <2>2. PICK A : FilesIn(files, A)
      BY DEF LoaderInv
    <2>3. Apart(files) /\ files # <<>> /\ refused \in Nat /\ descriptors = Len(files) + refused
      BY DEF LoaderInv
    <2>4. /\ FilesIn(old, A \cup {at}) /\ Apart(old) /\ Len(old) = Len(files)
          /\ \A k \in 1..Len(files) : old[k].inode = files[k].inode
      <3> HIDE DEF x, fs, old
      <3>1. files # <<>> /\ Apart(files)
        BY <2>3
      <3>2. PICK a : a = at
        OBVIOUS
      <3>3. FilesIn(Ahead(a), A \cup {a}) /\ Apart(Ahead(a)) /\ Len(Ahead(a)) = Len(files)
        BY <2>2, <3>1, AheadFiles
      <3>4. \A k \in 1..Len(files) : Ahead(a)[k].inode = files[k].inode
        BY <2>2, <3>1, AheadFiles
      <3>5. Ahead(a) = old
        BY <3>2 DEF old, Ahead
      <3> QED BY <3>2, <3>3, <3>4, <3>5
    <2> DEFINE B == A \cup {at} \cup {1}  T == [inode : Inode, at : B]  n == Len(files)
    <2>5. n \in Nat /\ DOMAIN files = 1..n
      BY <2>2, FilesType
    <2>6. x \in T /\ x.inode = inode
      BY <1>3, <1>5
    <2>7. old \in Seq(T)
      <3> DEFINE S == [inode : Inode, at : A \cup {at}]
      <3>1. S \subseteq T /\ old \in Seq(S)
        BY <2>4 DEF FilesIn
      <3> HIDE DEF S, T, old
      <3>2. \A k \in 1..Len(old) : old[k] \in S
        BY <3>1, ElementOfSeq
      <3> QED BY <3>1, <3>2, SeqDef, LenProperties
    <2> HIDE DEF T, x, old
    <2>8. /\ fs \in Seq(T) /\ Len(fs) = n + 1 /\ fs[1] = x
          /\ \A i \in 1..n : fs[i + 1] = old[i]
      BY <2>4, <2>6, <2>7, ConsProps
    <2> HIDE DEF fs
    <2>9. DOMAIN fs = 1..n + 1 /\ fs # <<>>
      BY <2>5, <2>8, EmptySeq, LenProperties
    <2>10. \A i \in 2..n + 1 : fs[i].inode = files[i - 1].inode /\ i - 1 \in 1..n
      <3> SUFFICES ASSUME NEW i \in 2..n + 1
                   PROVE  fs[i].inode = files[i - 1].inode /\ i - 1 \in 1..n
        OBVIOUS
      <3>1. i - 1 \in 1..n /\ (i - 1) + 1 = i
        BY <2>5
      <3> QED BY <2>4, <2>8, <3>1
    <2>11. Apart(fs)
      <3> SUFFICES ASSUME NEW j \in 1..n + 1, NEW k \in 1..n + 1, fs[j].inode = fs[k].inode
                   PROVE  j = k
        BY <2>9 DEF Apart
      <3>1. (j = 1 \/ j \in 2..n + 1) /\ (k = 1 \/ k \in 2..n + 1)
        BY <2>5
      <3>2. \A i \in 2..n + 1 : fs[i].inode # inode
        BY <1>4, <1>5, <2>5, <2>10
      <3>3. fs[1].inode = inode
        BY <2>6, <2>8
      <3>4. CASE j \in 2..n + 1 /\ k \in 2..n + 1
        <4>1. j - 1 = k - 1
          BY <2>3, <2>5, <2>10, <3>4 DEF Apart
        <4> QED BY <2>5, <3>4, <4>1
      <3> QED BY <3>1, <3>2, <3>3, <3>4
    <2>12. FilesIn(fs, B)
      BY <2>8 DEF FilesIn, T
    <2>13. descriptors' = Len(fs) + refused
      BY <2>1, <2>3, <2>5, <2>8
    <2> QED BY <2>1, <2>3, <2>9, <2>11, <2>12, <2>13 DEF LoaderInv
  <1>6. CASE ~(found /\ ~again)
    <2> DEFINE extra == IF again THEN 1 ELSE 0
    <2>1. Failed(extra) /\ extra \in {0, 1}
      BY <1>1, <1>6
    <2>2. refused' = refused + extra
      BY <1>1, <1>2 DEF LoaderInv
    <2> HIDE DEF extra
    <2> QED BY <2>1, <2>2, FailedStep
  <1> QED BY <1>5, <1>6

LEMMA LoaderInvStep == LoaderInv /\ [LoaderNext]_loaderVars => LoaderInv'
  <1> SUFFICES ASSUME LoaderInv, [LoaderNext]_loaderVars PROVE LoaderInv'
    OBVIOUS
  <1>0. refused \in Nat /\ refused + 0 = refused
    BY DEF LoaderInv
  <1>1. ASSUME NEW name \in Names, Load(name) PROVE LoaderInv'
    BY <1>1, LoadStep
  <1>2. ASSUME Failed(0), refused' = refused PROVE LoaderInv'
    <2>1. refused' = refused + 0
      BY <1>0, <1>2
    <2> QED BY <1>2, <2>1, FailedStep
  <1>3. CASE ReadItem
    <2>1. result = "loading"
      BY <1>3 DEF ReadItem
    <2>2. CASE EndOfFile
      BY <2>1, <2>2, EndOfFileStep
    <2>3. CASE Nothing
      BY <2>1, <2>3, AcceptedStep DEF Nothing
    <2>4. CASE Item
      <3> DEFINE last == Strings(Chr, First.at)
      <3>1. refused' = refused /\ ((files' = Ahead(last.at) /\ Accepted) \/ Failed(0))
        BY <2>4 DEF Item
      <3> HIDE DEF last
      <3> QED BY <1>2, <2>1, <3>1, AcceptedStep
    <2>5. CASE BlockBegin
      <3> DEFINE end == GetToken(Chr, Strings(Chr, Second.at).at)
      <3>1. refused' = refused /\ ((files' = Ahead(end.at) /\ Accepted) \/ Failed(0))
        BY <2>5 DEF BlockBegin
      <3> HIDE DEF end
      <3> QED BY <1>2, <2>1, <3>1, AcceptedStep
    <2>6. CASE BlockEnd
      <3> DEFINE end == GetToken(Chr, GetToken(Chr, Second.at).at)
      <3>1. refused' = refused /\ ((files' = Ahead(end.at) /\ Accepted) \/ Failed(0))
        BY <2>6 DEF BlockEnd
      <3> HIDE DEF end
      <3> QED BY <1>2, <2>1, <3>1, AcceptedStep
    <2>7. CASE Include
      BY <2>1, <2>7, IncludeStep
    <2>8. CASE Malformed
      BY <1>2, <2>8 DEF Malformed
    <2> QED BY <1>3, <2>2, <2>3, <2>4, <2>5, <2>6, <2>7, <2>8 DEF ReadItem
  <1>4. CASE UNCHANGED loaderVars
    <2>1. files' = files /\ refused' = refused /\ descriptors' = descriptors /\ result' = result
      BY <1>4 DEF loaderVars
    <2> QED BY <2>1 DEF LoaderInv
  <1> QED BY <1>1, <1>3, <1>4 DEF LoaderNext

\* The invariant of every reachable state: the files being read are apart, and
\* something is being loaded exactly while there is one.
THEOREM LoaderInvTheorem == LoaderSpec => []LoaderInv
  BY LoaderInvInit, LoaderInvStep, PTL DEF LoaderSpec

\* For any files and any texts in them, a file is never read inside itself, and each
\* that was opened is closed once, but for those refused as recursive.
THEOREM FilesHeldTheorem == LoaderSpec => []FilesHeld
  <1>1. LoaderInv => FilesHeld
    BY DEF LoaderInv, Apart, FilesHeld
  <1> QED BY <1>1, LoaderInvTheorem, PTL
=============================================================================
