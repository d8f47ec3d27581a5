------------------------- MODULE PageAllocatorProofs -------------------------
(***************************************************************************)
(* Proofs about PageAllocator: Inv is an inductive invariant, so that no   *)
(* two pages overlap and the tags match the lists; and the allocator       *)
(* implements PageStore.  A stronger one, IInv, says that the blocks of a  *)
(* split chunk tile it and that no chunk is lost.                          *)
(***************************************************************************)
EXTENDS PageAllocator, Lemmas

-----------------------------------------------------------------------------
(* Orders of sizes. *)

LEMMA TimesLeq ==
    ASSUME NEW a \in Nat, NEW b \in Nat, NEW c \in Nat, a <= b
    PROVE  a * c <= b * c
  <1>1. PICK d \in Nat : b = a + d
    <2>1. b - a \in Nat /\ b = a + (b - a)
      OBVIOUS
    <2> QED BY <2>1
  <1>2. b * c = a * c + d * c
    BY <1>1
  <1>3. a * c \in Nat /\ d * c \in Nat
    OBVIOUS
  <1> QED BY <1>2, <1>3

LEMMA PagesAre ==
    /\ Pages[0] = 1
    /\ MaxOrder >= 1 => Pages[1] = 2
    /\ MaxOrder >= 2 => Pages[2] = 4
    /\ MaxOrder >= 3 => Pages[3] = 8
    /\ MaxOrder >= 4 => Pages[4] = 16
    /\ MaxOrder >= 5 => Pages[5] = 32
    /\ MaxOrder >= 6 => Pages[6] = 64
    /\ MaxOrder >= 7 => Pages[7] = 128
    /\ MaxOrder >= 8 => Pages[8] = 256
    /\ \A k \in Orders : Pages[k] \in Nat \ {0}
  <1>0. MaxOrder \in Nat /\ MinOrder \in Nat \ {0} /\ MinOrder < MaxOrder /\ MaxOrder <= 8
    BY OrderAssumption
  <1>1. Pages[0] = 1 /\ \A j \in 0..(MaxOrder - 1) : Pages[j + 1] = 2 * Pages[j]
    BY PagesAssumption
  <1>2. ASSUME MaxOrder >= 1 PROVE Pages[1] = 2
    BY <1>0, <1>1, <1>2
  <1>3. ASSUME MaxOrder >= 2 PROVE Pages[2] = 4
    BY <1>0, <1>1, <1>2, <1>3
  <1>4. ASSUME MaxOrder >= 3 PROVE Pages[3] = 8
    BY <1>0, <1>1, <1>3, <1>4
  <1>5. ASSUME MaxOrder >= 4 PROVE Pages[4] = 16
    BY <1>0, <1>1, <1>4, <1>5
  <1>6. ASSUME MaxOrder >= 5 PROVE Pages[5] = 32
    BY <1>0, <1>1, <1>5, <1>6
  <1>7. ASSUME MaxOrder >= 6 PROVE Pages[6] = 64
    BY <1>0, <1>1, <1>6, <1>7
  <1>8. ASSUME MaxOrder >= 7 PROVE Pages[7] = 128
    BY <1>0, <1>1, <1>7, <1>8
  <1>9. ASSUME MaxOrder >= 8 PROVE Pages[8] = 256
    BY <1>0, <1>1, <1>8, <1>9
  <1>10. ASSUME NEW k \in Orders PROVE Pages[k] \in Nat \ {0}
    <2>1. k \in {1, 2, 3, 4, 5, 6, 7, 8} /\ k <= MaxOrder
      BY <1>0 DEF Orders
    <2> QED BY <1>0, <1>2, <1>3, <1>4, <1>5, <1>6, <1>7, <1>8, <1>9, <2>1
  <1> QED BY <1>1, <1>2, <1>3, <1>4, <1>5, <1>6, <1>7, <1>8, <1>9, <1>10

\* The entry of ordertab is the least order that fits, whatever the size.
LEMMA OrderTabFits ==
    ASSUME NEW size \in Nat, size <= 128
    PROVE  \/ size <= 1 /\ ordertab[size] = 0
           \/ size = 2 /\ ordertab[size] = 1
           \/ 2 < size /\ size <= 4 /\ ordertab[size] = 2
           \/ 4 < size /\ size <= 8 /\ ordertab[size] = 3
           \/ 8 < size /\ size <= 16 /\ ordertab[size] = 4
           \/ 16 < size /\ size <= 32 /\ ordertab[size] = 5
           \/ 32 < size /\ size <= 64 /\ ordertab[size] = 6
           \/ 64 < size /\ size <= 128 /\ ordertab[size] = 7
  BY DEF ordertab

\* The order alloc looks up has a list, its blocks hold the size, and they are
\* less than twice the size unless they are the smallest.
LEMMA OrderForFits ==
    ASSUME NEW size \in Nat, size <= Pages[MaxOrder - 1]
    PROVE  /\ OrderFor(size) \in Lists
           /\ size <= Pages[OrderFor(size)]
           /\ OrderFor(size) # MinOrder => Pages[OrderFor(size)] < 2 * size
  <1> DEFINE e == ordertab[size]
  <1>1. /\ MaxOrder \in {2, 3, 4, 5, 6, 7, 8}
        /\ MinOrder \in {1, 2, 3, 4, 5, 6, 7} /\ MinOrder < MaxOrder
    BY OrderAssumption
  <1>2. size <= 128
    BY <1>1, PagesAre
  <1>3. e \in 0..7 /\ (e < MinOrder \/ MinOrder <= e) /\ e <= MaxOrder - 1
    <2> HIDE DEF e
    <2>1. CASE MaxOrder = 8
      BY <1>1, <1>2, <2>1, OrderTabFits DEF e
    <2>2. CASE MaxOrder = 7
      BY <1>1, <1>2, <2>2, OrderTabFits, PagesAre DEF e
    <2>3. CASE MaxOrder = 6
      BY <1>1, <1>2, <2>3, OrderTabFits, PagesAre DEF e
    <2>4. CASE MaxOrder = 5
      BY <1>1, <1>2, <2>4, OrderTabFits, PagesAre DEF e
    <2>5. CASE MaxOrder = 4
      BY <1>1, <1>2, <2>5, OrderTabFits, PagesAre DEF e
    <2>6. CASE MaxOrder = 3
      BY <1>1, <1>2, <2>6, OrderTabFits, PagesAre DEF e
    <2>7. CASE MaxOrder = 2
      BY <1>1, <1>2, <2>7, OrderTabFits, PagesAre DEF e
    <2>8. e \in 0..7
      BY <1>2, OrderTabFits DEF e
    <2> QED BY <1>1, <2>1, <2>2, <2>3, <2>4, <2>5, <2>6, <2>7, <2>8
  \* What the entry says of the size, in the terms of Pages.
  <1>4. size <= Pages[e] /\ (e > 0 => Pages[e] < 2 * size)
    <2> HIDE DEF e
    <2>1. e >= 0 /\ e <= 7 /\ e < MaxOrder
      BY <1>1, <1>3
    <2> QED BY <1>1, <1>2, <2>1, OrderTabFits, PagesAre DEF e
  <1>5. CASE MinOrder <= e
    <2>1. OrderFor(size) = e
      BY <1>1, <1>3, <1>5 DEF OrderFor
    <2>2. e \in Lists /\ e > 0
      BY <1>1, <1>3, <1>5 DEF Lists
    <2> QED BY <1>4, <2>1, <2>2
  <1>6. CASE e < MinOrder
    <2>1. OrderFor(size) = MinOrder /\ MinOrder \in Lists
      BY <1>1, <1>6 DEF OrderFor, Lists
    <2>2. Pages[e] <= Pages[MinOrder]
      <3> HIDE DEF e
      <3>1. MinOrder <= MaxOrder /\ MaxOrder \in Nat /\ e \in {0, 1, 2, 3, 4, 5, 6, 7}
        BY <1>1, <1>3
      <3>2. CASE e = 0
        BY <1>1, <1>6, <3>1, <3>2, PagesAre
      <3>3. CASE e # 0
        BY <1>1, <1>6, <3>1, <3>3, PagesAre
      <3> QED BY <3>2, <3>3
    <2>3. Pages[e] \in Nat /\ Pages[MinOrder] \in Nat
      <3>1. e \in 0..MaxOrder /\ MinOrder \in 0..MaxOrder
        BY <1>1, <1>3
      <3> HIDE DEF e
      <3> QED BY <3>1, PagesAssumption
    <2> HIDE DEF e
    <2> QED BY <1>4, <2>1, <2>2, <2>3
  <1> QED BY <1>3, <1>5, <1>6

-----------------------------------------------------------------------------
(* Sizes of blocks. *)

LEMMA SpanType ==
    /\ \A k \in Orders : Span[k] \in Nat \ {0} /\ k \in Nat
    /\ \A k \in Lists : k \in Orders /\ k + 1 \in Orders /\ Span[k + 1] = 2 * Span[k]
    /\ MaxOrder \in Orders /\ MinOrder \in Lists /\ MinOrder > 0
    /\ Node = 0..(Span[MaxOrder] - 1) /\ 0 \in Node
  BY OrderAssumption, SpanAssumption DEF Orders, Lists, Node

\* A larger block is a whole number of smaller ones.
LEMMA SpanDivides ==
    ASSUME NEW j \in Orders, NEW k \in Orders, j <= k
    PROVE  \E d \in Nat \ {0} : Span[k] = Span[j] * d
  <1> DEFINE S == {i \in Orders : \E d \in Nat \ {0} : Span[i] = Span[j] * d}
  <1>1. j \in Nat /\ k \in Nat /\ j..k \subseteq Orders
    BY OrderAssumption DEF Orders
  <1>2. j \in S
    <2>1. Span[j] = Span[j] * 1 /\ 1 \in Nat \ {0}
      BY SpanType
    <2> QED BY <2>1
  <1>3. ASSUME NEW i \in j..(k - 1), i \in S PROVE i + 1 \in S
    <2>1. i \in Lists /\ i + 1 \in Orders
      BY <1>1, OrderAssumption DEF Orders, Lists
    <2>2. PICK d \in Nat \ {0} : Span[i] = Span[j] * d
      BY <1>3
    <2>3. Span[i + 1] = Span[j] * (2 * d) /\ 2 * d \in Nat \ {0}
      BY <2>1, <2>2, SpanType
    <2> QED BY <2>1, <2>3
  <1> HIDE DEF S
  <1>4. \A i \in j..k : i \in S
    BY <1>1, <1>2, <1>3, IntervalInduction
  <1>5. k \in S
    BY <1>1, <1>4
  <1> QED BY <1>5 DEF S

\* A larger block holds at least two smaller ones.
LEMMA SpanDoubles ==
    ASSUME NEW j \in Orders, NEW k \in Orders, j < k
    PROVE  2 * Span[j] <= Span[k]
  <1>1. j \in Lists /\ j + 1 \in Orders /\ j + 1 <= k
    BY OrderAssumption DEF Orders, Lists
  <1>2. PICK d \in Nat \ {0} : Span[k] = Span[j + 1] * d
    BY <1>1, SpanDivides
  <1>3. Span[j + 1] = 2 * Span[j] /\ Span[j + 1] \in Nat
    BY <1>1, SpanType
  <1>4. Span[j + 1] * d >= Span[j + 1]
    BY <1>3
  <1> QED BY <1>2, <1>3, <1>4

LEMMA SpanMono ==
    ASSUME NEW j \in Orders, NEW k \in Orders, j <= k
    PROVE  Span[j] <= Span[k]
  <1>1. CASE j = k
    BY <1>1, SpanType
  <1>2. CASE j < k
    BY <1>2, SpanDoubles, SpanType
  <1> QED BY <1>1, <1>2, SpanType

\* A multiple of a block size is a multiple of every smaller one.
LEMMA AlignedDown ==
    ASSUME NEW j \in Orders, NEW k \in Orders, j <= k,
           NEW n \in Nat, n % Span[k] = 0
    PROVE  n % Span[j] = 0
  <1>1. PICK d \in Nat \ {0} : Span[k] = Span[j] * d
    BY SpanDivides
  <1>2. Span[j] \in Nat \ {0} /\ Span[k] \in Nat \ {0}
    BY SpanType
  <1> QED BY <1>1, <1>2, MultipleDown

\* A block that starts at a multiple of its size ends inside the area.
LEMMA BlockFits ==
    ASSUME NEW k \in Orders, NEW n \in Node, n % Span[k] = 0
    PROVE  n + Span[k] <= Span[MaxOrder]
  <1>1. Span[k] \in Nat \ {0} /\ n \in Nat /\ n < Span[MaxOrder] /\ MaxOrder \in Orders /\ k <= MaxOrder
    BY SpanType DEF Orders
  <1>2. PICK d \in Nat \ {0} : Span[MaxOrder] = Span[k] * d
    BY <1>1, SpanDivides
  <1> QED BY <1>1, <1>2, NextMultiple

-----------------------------------------------------------------------------
(* Where the merge loop finds the head and the buddy of a block. *)

LEMMA HeadType ==
    ASSUME NEW k \in Orders, NEW n \in Node
    PROVE  /\ BlockHead(n, k) \in Node /\ BlockHead(n, k) % Span[k] = 0
           /\ BlockHead(n, k) <= n /\ n < BlockHead(n, k) + Span[k]
           /\ BlockHead(n, k) = Span[k] * (n \div Span[k])
           /\ n % Span[k] = 0 => BlockHead(n, k) = n
  <1> DEFINE s == Span[k]  q == n \div s  r == n % s
  <1>1. s \in Nat \ {0} /\ n \in Nat /\ n < Span[MaxOrder] /\ Span[MaxOrder] \in Nat
    BY SpanType
  <1>2. q \in Nat /\ r \in 0..(s - 1) /\ n = s * q + r
    <2> HIDE DEF s
    <2> QED BY <1>1, DivMod
  <1>3. BlockHead(n, k) = n - r
    BY DEF BlockHead
  <1> HIDE DEF s, q, r
  <1>4. s * q \in Nat /\ BlockHead(n, k) = s * q
    BY <1>1, <1>2, <1>3
  <1>6. (s * q) % s = 0
    BY <1>1, <1>2, MultipleRem
  <1>7. BlockHead(n, k) <= n /\ n < BlockHead(n, k) + s /\ BlockHead(n, k) \in Node
    BY <1>1, <1>2, <1>3, <1>4, SpanType
  <1>8. r = 0 => BlockHead(n, k) = n
    BY <1>1, <1>3
  <1> QED BY <1>4, <1>6, <1>7, <1>8 DEF s, q, r

\* The head and its buddy are the two halves of the block one order up.
LEMMA HeadStep ==
    ASSUME NEW k \in Lists, NEW n \in Node
    PROVE  /\ BuddyAt(n, k) \in Node /\ BuddyAt(n, k) % Span[k] = 0
           /\ \/ /\ BlockHead(n, k) = BlockHead(n, k + 1)
                 /\ BuddyAt(n, k) = BlockHead(n, k + 1) + Span[k]
              \/ /\ BuddyAt(n, k) = BlockHead(n, k + 1)
                 /\ BlockHead(n, k) = BlockHead(n, k + 1) + Span[k]
  <1> DEFINE s == Span[k]  t == Span[k + 1]  h == BlockHead(n, k)  H == BlockHead(n, k + 1)
             q == n \div s  r == n % s  e == q % 2  Q == q \div 2
  <1>1. k \in Orders /\ k + 1 \in Orders /\ s \in Nat \ {0} /\ t \in Nat \ {0} /\ t = 2 * s
    BY SpanType
  <1>2. n \in Nat /\ h \in Nat /\ H \in Nat
    BY <1>1, HeadType, SpanType
  <1>3. h = s * q /\ H = t * (n \div t) /\ H \in Node /\ H % t = 0 /\ h % s = 0 /\ h \in Node
    BY <1>1, HeadType
  <1>4. q \in Nat /\ r \in 0..(s - 1) /\ n = s * q + r
    <2> HIDE DEF s
    <2> QED BY <1>1, <1>2, DivMod
  <1>5. h \div s = q
    <2> HIDE DEF s, h, q
    <2> QED BY <1>1, <1>3, <1>4, MultipleRem
  <1>6. BuddyAt(n, k) = IF e = 0 THEN h + s ELSE h - s
    BY <1>5 DEF BuddyAt, Buddy
  <1> HIDE DEF s, t, h, H, q, r
  <1>7. Q \in Nat /\ e \in {0, 1} /\ q = 2 * Q + e
    BY <1>4
  <1> HIDE DEF e, Q
  <1>8. n \div t = Q
    <2>1. s * e + r \in 0..(t - 1)
      <3>1. CASE e = 0
        BY <3>1, <1>1, <1>4
      <3>2. CASE e = 1
        BY <3>2, <1>1, <1>4
      <3> QED BY <3>1, <3>2, <1>7
    <2>2. n = t * Q + (s * e + r)
      BY <1>1, <1>4, <1>7
    <2> QED BY <1>1, <1>7, <2>1, <2>2, DivUnique
  <1>9. h = H + s * e
    <2>1. s * (2 * Q + e) = (2 * s) * Q + s * e
      BY <1>1, <1>7
    <2> QED BY <1>1, <1>3, <1>7, <1>8, <2>1
  <1>10. \/ e = 0 /\ h = H /\ BuddyAt(n, k) = H + s
         \/ e = 1 /\ BuddyAt(n, k) = H /\ h = H + s
    <2>1. CASE e = 0
      BY <2>1, <1>1, <1>2, <1>6, <1>9
    <2>2. CASE e = 1
      BY <2>2, <1>1, <1>2, <1>6, <1>9
    <2> QED BY <2>1, <2>2, <1>7
  <1>11. BuddyAt(n, k) \in Node /\ BuddyAt(n, k) % s = 0
    <2>1. H + t <= Span[MaxOrder]
      BY <1>1, <1>3, BlockFits DEF t
    <2>2. H % s = 0
      <3>1. t = s * 2
        BY <1>1
      <3> QED BY <3>1, <1>1, <1>2, <1>3, MultipleDown
    <2>3. CASE BuddyAt(n, k) = H
      BY <2>2, <2>3, <1>3
    <2>4. CASE e = 0 /\ h = H /\ BuddyAt(n, k) = H + s
      <3>1. H + s = s * (q + 1) /\ q + 1 \in Nat
        BY <2>4, <1>1, <1>3, <1>4
      <3>2. (H + s) % s = 0
        BY <3>1, <1>1, MultipleRem
      <3>3. H + s \in Node
        BY <2>1, <1>1, <1>2, SpanType
      <3> QED BY <2>4, <3>2, <3>3
    <2> QED BY <2>3, <2>4, <1>10
  <1> QED BY <1>10, <1>11 DEF s, h, H
-----------------------------------------------------------------------------
(* The split loop of alloc. *)

\* The halves cut off lie inside the block, each after the smaller ones.
LEMMA HalfPlaced ==
    ASSUME NEW n \in Node, NEW norder \in Orders, n % Span[norder] = 0,
           NEW j \in Lists, j < norder
    PROVE  /\ Half(n, j) \in Node /\ Half(n, j) % Span[j] = 0
           /\ n < Half(n, j) /\ Half(n, j) + Span[j] <= n + Span[norder]
           /\ \A i \in Lists : i < j => Half(n, i) + Span[i] <= Half(n, j)
           /\ \A i \in Orders : i <= j => n + Span[i] <= Half(n, j)
  <1>1. j \in Orders /\ Span[j] \in Nat \ {0} /\ Span[norder] \in Nat \ {0} /\ n \in Nat
    BY SpanType
  <1>2. n + Span[norder] <= Span[MaxOrder] /\ Span[MaxOrder] \in Nat
    BY BlockFits, SpanType
  <1>3. 2 * Span[j] <= Span[norder]
    BY <1>1, SpanDoubles
  <1>4. Half(n, j) % Span[j] = 0
    <2>1. j <= norder
      BY <1>1, SpanType
    <2>2. n % Span[j] = 0
      BY <1>1, <2>1, AlignedDown
    <2>3. PICK q \in Nat : n = Span[j] * q
      BY <1>1, <2>2, IsMultiple
    <2>4. n + Span[j] = Span[j] * (q + 1) /\ q + 1 \in Nat
      BY <1>1, <2>3
    <2> QED BY <1>1, <2>4, MultipleRem DEF Half
  <1>5. Half(n, j) \in Node /\ n < Half(n, j) /\ Half(n, j) + Span[j] <= n + Span[norder]
    <2>1. Half(n, j) = n + Span[j]
      BY DEF Half
    <2>2. n + Span[j] \in Nat /\ n < n + Span[j] /\ n + Span[j] + Span[j] <= n + Span[norder]
      BY <1>1, <1>3
    <2>3. n + Span[j] < Span[MaxOrder]
      BY <1>1, <1>2, <2>2
    <2>4. n + Span[j] \in Node
      BY <1>2, <2>2, <2>3 DEF Node
    <2> QED BY <2>1, <2>2, <2>4
  <1>6. ASSUME NEW i \in Lists, i < j PROVE Half(n, i) + Span[i] <= Half(n, j)
    <2>1. 2 * Span[i] <= Span[j] /\ Span[i] \in Nat
      BY <1>1, <1>6, SpanType, SpanDoubles
    <2> QED BY <1>1, <2>1 DEF Half
  <1>7. ASSUME NEW i \in Orders, i <= j PROVE n + Span[i] <= Half(n, j)
    <2>1. Span[i] <= Span[j] /\ Span[i] \in Nat
      BY <1>1, <1>7, SpanType, SpanMono
    <2> QED BY <1>1, <2>1 DEF Half
  <1> QED BY <1>4, <1>5, <1>6, <1>7

\* Where a split leaves free blocks: the old ones but the block itself, and
\* the halves.
LEMMA SplitLists ==
    ASSUME TypeOK, NEW p \in Page, NEW a \in Area, NEW n \in Node,
           NEW norder \in Orders, NEW k \in Lists, k <= norder,
           n % Span[norder] = 0, Split(p, a, n, norder, k)
    PROVE  /\ freetab' \in [Lists -> SUBSET (Area \X Node)]
           /\ \A b \in Area, x \in Node, j \in Lists :
                <<b, x>> \in freetab'[j] <=>
                    \/ <<b, x>> \in freetab[j] /\ ~(b = a /\ x = n /\ j = norder)
                    \/ b = a /\ k <= j /\ j < norder /\ x = Half(n, j)
  <1>1. \A j \in Lists : j \in Nat
    BY SpanType
  <1>2. k \in Nat /\ norder \in Nat
    BY SpanType
  <1>3. \A j \in Lists : j \in k..(norder - 1) <=> k <= j /\ j < norder
    BY <1>1, <1>2
  <1>4. \A j \in Lists : j \in k..(norder - 1) => Half(n, j) \in Node
    BY <1>3, HalfPlaced
  <1>5. freetab' = [j \in Lists |->
                    IF j = norder THEN freetab[j] \ {<<a, n>>}
                    ELSE IF j \in k..(norder - 1) THEN freetab[j] \cup {<<a, Half(n, j)>>}
                    ELSE freetab[j]]
    BY DEF Split
  <1>6. \A j \in Lists : j = norder => ~(j < norder)
    BY <1>1
  <1>7. freetab \in [Lists -> SUBSET (Area \X Node)]
    BY DEF TypeOK
  <1>8. freetab' \in [Lists -> SUBSET (Area \X Node)]
    BY <1>4, <1>5, <1>7
  <1>9. ASSUME NEW b \in Area, NEW x \in Node, NEW j \in Lists
        PROVE  <<b, x>> \in freetab'[j] <=>
                    \/ <<b, x>> \in freetab[j] /\ ~(b = a /\ x = n /\ j = norder)
                    \/ b = a /\ k <= j /\ j < norder /\ x = Half(n, j)
    <2>1. CASE j = norder
      BY <2>1, <1>5, <1>6
    <2>2. CASE j # norder /\ j \in k..(norder - 1)
      BY <2>2, <1>3, <1>5
    <2>3. CASE j # norder /\ j \notin k..(norder - 1)
      BY <2>3, <1>3, <1>5
    <2> QED BY <2>1, <2>2, <2>3
  <1> QED BY <1>8, <1>9

LEMMA SplitTags ==
    ASSUME TypeOK, NEW p \in Page, NEW a \in Area, NEW n \in Node,
           NEW norder \in Orders, NEW k \in Lists, k <= norder,
           n % Span[norder] = 0, Split(p, a, n, norder, k)
    PROVE  /\ order' \in [Area -> [Node -> 0..MaxOrder]]
           /\ \A b \in Area : b # a => order'[b] = order[b]
           /\ order'[a][n] = 0
           /\ \A j \in Lists : k <= j /\ j < norder => order'[a][Half(n, j)] = j
           /\ \A x \in Node : x # n /\ (\A j \in Lists : k <= j /\ j < norder => x # Half(n, j))
                => order'[a][x] = order[a][x]
  <1> DEFINE J == k..(norder - 1)
             tag(x) == IF x = n THEN 0
                       ELSE IF \E j \in J : x = Half(n, j) THEN CHOOSE j \in J : x = Half(n, j)
                       ELSE order[a][x]
  <1>1. \A j \in J : j \in Lists /\ j \in Orders /\ k <= j /\ j < norder /\ j \in 0..MaxOrder
    BY OrderAssumption DEF Lists, Orders
  <1>2. \A j \in Lists : k <= j /\ j < norder => j \in J
    BY OrderAssumption DEF Lists, Orders
  <1>3. order \in [Area -> [Node -> 0..MaxOrder]] /\ order' = [order EXCEPT ![a] = [x \in Node |-> tag(x)]]
    BY DEF Split, TypeOK
  <1>4. \A x \in Node : (\E j \in J : x = Half(n, j)) => (CHOOSE j \in J : x = Half(n, j)) \in J
    OBVIOUS
  <1>5. 0 \in 0..MaxOrder
    BY OrderAssumption
  <1>6. \A x \in Node : tag(x) \in 0..MaxOrder
    <2> HIDE DEF J
    <2> QED BY <1>1, <1>3, <1>4, <1>5
  <1>7. order'[a] = [x \in Node |-> tag(x)] /\ \A b \in Area : b # a => order'[b] = order[b]
    BY <1>3
  <1>8. [x \in Node |-> tag(x)] \in [Node -> 0..MaxOrder]
    BY <1>6
  <1>9. order' \in [Area -> [Node -> 0..MaxOrder]]
    <2> HIDE DEF tag
    <2> QED BY <1>3, <1>8
  <1>10. ASSUME NEW j \in Lists, k <= j, j < norder PROVE tag(Half(n, j)) = j
    <2>1. j \in J /\ Half(n, j) \in Node /\ n < Half(n, j) /\ n \in Nat /\ Half(n, j) \in Nat
      BY <1>2, <1>10, HalfPlaced, SpanType
    <2>2. ASSUME NEW i \in J, Half(n, i) = Half(n, j) PROVE i = j
      <3>1. i \in Lists /\ i < norder /\ i \in Nat /\ j \in Nat
        BY <1>1, SpanType
      <3>2. Half(n, i) \in Nat /\ Span[i] \in Nat \ {0} /\ Span[j] \in Nat \ {0}
        <4>1. Half(n, i) \in Node
          BY <3>1, HalfPlaced
        <4> QED BY <3>1, <4>1, SpanType
      <3>3. i < j => Half(n, i) + Span[i] <= Half(n, j)
        BY <1>10, <3>1, HalfPlaced
      <3>4. j < i => Half(n, j) + Span[j] <= Half(n, i)
        BY <1>10, <3>1, HalfPlaced
      <3> QED BY <2>1, <2>2, <3>1, <3>2, <3>3, <3>4
    <2>3. (CHOOSE i \in J : Half(n, j) = Half(n, i)) = j
      <3> HIDE DEF J
      <3> QED BY <2>1, <2>2
    <2>4. Half(n, j) # n
      BY <2>1
    <2> HIDE DEF J
    <2> QED BY <2>1, <2>3, <2>4
  <1> HIDE DEF J
  <1>11. \A x \in Node : x # n /\ (\A j \in Lists : k <= j /\ j < norder => x # Half(n, j))
                => tag(x) = order[a][x]
    BY <1>1
  <1>12. \A j \in Lists : k <= j /\ j < norder => Half(n, j) \in Node
    BY HalfPlaced
  <1>13. tag(n) = 0
    OBVIOUS
  <1> HIDE DEF tag
  <1> QED BY <1>7, <1>9, <1>10, <1>11, <1>12, <1>13

\* A split preserves what the tags, the lists and the held pages agree on, when
\* no other block overlaps the one that is split.
LEMMA SplitStep ==
    ASSUME Inv, NEW p \in Page, NEW a \in Area, NEW n \in Node,
           NEW norder \in Orders, NEW k \in Lists, k <= norder,
           n % Span[norder] = 0, pg[p] = NoPage,
           Split(p, a, n, norder, k),
           base'[a] # None, \A b \in Area : b # a => base'[b] = base[b],
           \A j \in Lists, x \in Node :
              <<a, x>> \in freetab[j] /\ ~(x = n /\ j = norder) => Apart(x, j, n, norder),
           \A q \in Page : Buddied(q) /\ AreaOf(q) = a
              => Apart(n, norder, NodeOf(q), pg[q].order_size)
    PROVE  TagsMatchLists' /\ Placed' /\ FreeApart' /\ FreeHeldApart' /\ HeldApart'
  <1> DEFINE Cut(b, x, j) == b = a /\ k <= j /\ j < norder /\ x = Half(n, j)
             Kept(b, x, j) == <<b, x>> \in freetab[j] /\ ~(b = a /\ x = n /\ j = norder)
  <1>0. TypeOK
    BY DEF Inv
  <1>1. \A b \in Area, x \in Node, j \in Lists :
            <<b, x>> \in freetab'[j] <=> Kept(b, x, j) \/ Cut(b, x, j)
    <2> SUFFICES ASSUME NEW b \in Area, NEW x \in Node, NEW j \in Lists
                 PROVE  <<b, x>> \in freetab'[j] <=> Kept(b, x, j) \/ Cut(b, x, j)
      OBVIOUS
    <2> QED BY <1>0, SplitLists
  <1> USE DEF Inv
  <1>2. /\ pg'[p] = [order_size |-> k, base |-> <<a, n>>]
        /\ \A q \in Page : q # p => pg'[q] = pg[q]
        /\ ~Buddied(p)
    <2>1. pg \in [Page -> [order_size : Nat, base : (Area \X Node) \cup Chunk \cup {None}]]
      BY DEF TypeOK
    <2>2. 0 \notin Lists
      BY OrderAssumption DEF Lists
    <2> QED BY <2>1, <2>2 DEF Split, NoPage, Buddied
  <1>3. \A l \in Orders : Span[l] \in Nat \ {0}
    BY SpanType
  <1>4. (\A l \in Lists : l \in Orders /\ l \in Nat) /\ (\A x \in Node : x \in Nat) /\ norder \in Nat
    BY SpanType
  <1>5. \A q \in Page : Buddied(q) => AreaOf(q) \in Area /\ NodeOf(q) \in Node
    BY DEF TypeOK, Buddied, AreaOf, NodeOf
  <1>6. \A j \in Lists : k <= j /\ j < norder =>
            /\ Half(n, j) \in Node /\ Half(n, j) % Span[j] = 0 /\ n < Half(n, j)
            /\ Half(n, j) + Span[j] <= n + Span[norder]
            /\ n + Span[k] <= Half(n, j)
    <2>1. k \in Orders
      BY <1>4
    <2> QED BY <2>1, HalfPlaced
  <1>7. Span[k] <= Span[norder] /\ k \in Orders
    BY <1>4, SpanMono
  \* What is apart from the block is apart from each of its pieces.
  <1>8. ASSUME NEW x \in Node, NEW l \in Lists, Apart(x, l, n, norder)
        PROVE  /\ x # n /\ Apart(x, l, n, k) /\ Apart(n, k, x, l)
               /\ \A j \in Lists : k <= j /\ j < norder =>
                    x # Half(n, j) /\ Apart(x, l, Half(n, j), j) /\ Apart(Half(n, j), j, x, l)
    <2>1. Span[l] \in Nat \ {0} /\ Span[k] \in Nat \ {0} /\ Span[norder] \in Nat \ {0} /\ x \in Nat /\ n \in Nat
      BY <1>3, <1>4, <1>7
    <2>2. x + Span[l] <= n \/ n + Span[norder] <= x
      BY <1>8 DEF Apart
    <2>3. x # n /\ Apart(x, l, n, k) /\ Apart(n, k, x, l)
      BY <2>1, <2>2, <1>7 DEF Apart
    <2>4. ASSUME NEW j \in Lists, k <= j, j < norder
          PROVE  x # Half(n, j) /\ Apart(x, l, Half(n, j), j) /\ Apart(Half(n, j), j, x, l)
      <3>1. Half(n, j) \in Nat /\ Span[j] \in Nat \ {0} /\ n < Half(n, j) /\ Half(n, j) + Span[j] <= n + Span[norder]
        BY <1>3, <1>4, <1>6, <2>4
      <3> QED BY <2>1, <2>2, <3>1 DEF Apart
    <2> QED BY <2>3, <2>4
  <1>9. \A x \in Node, l \in Lists : Kept(a, x, l) => Apart(x, l, n, norder)
    OBVIOUS
  <1>10. \A x \in Node, l \in Lists : Apart(n, norder, x, l) => Apart(x, l, n, norder)
    BY DEF Apart
  <1>11. TagsMatchLists'
    <2> SUFFICES ASSUME NEW b \in Area, NEW x \in Node, NEW l \in Lists
                 PROVE  order'[b][x] = l <=> <<b, x>> \in freetab'[l]
      BY DEF TagsMatchLists
    <2>1. order[b][x] = l <=> <<b, x>> \in freetab[l]
      BY DEF TagsMatchLists
    <2>2. CASE b # a
      BY <1>1, <2>1, <2>2, SplitTags
    <2>3. CASE b = a /\ x = n
      <3>1. order'[a][n] = 0 /\ l # 0
        BY SplitTags, <1>4, OrderAssumption DEF Lists
      <3>2. ~Cut(a, n, l)
        BY <1>4, <1>6
      <3>3. ~Kept(a, n, l)
        BY <1>8, <1>9
      <3> QED BY <2>3, <3>1, <3>2, <3>3, <1>1
    <2>4. CASE b = a /\ \E j \in Lists : k <= j /\ j < norder /\ x = Half(n, j)
      <3>1. PICK j \in Lists : k <= j /\ j < norder /\ x = Half(n, j)
        BY <2>4
      <3>2. order'[a][x] = j
        BY <3>1, SplitTags
      <3>3. ~Kept(a, x, l)
        BY <1>8, <1>9, <3>1
      <3>4. Cut(a, x, l) => l = j
        <4>1. ASSUME Cut(a, x, l) PROVE order'[a][x] = l
          BY <4>1, SplitTags
        <4> QED BY <4>1, <3>2
      <3>5. l = j => Cut(a, x, l)
        BY <3>1
      <3> HIDE DEF Cut, Kept
      <3> QED BY <2>4, <3>2, <3>3, <3>4, <3>5, <1>1
    <2>5. CASE b = a /\ x # n /\ \A j \in Lists : k <= j /\ j < norder => x # Half(n, j)
      <3>1. order'[a][x] = order[a][x]
        BY <2>5, SplitTags
      <3> QED BY <2>1, <2>5, <3>1, <1>1
    <2> QED BY <2>2, <2>3, <2>4, <2>5
  <1>12. Placed'
    <2>1. ASSUME NEW l \in Lists, NEW b \in Area, NEW x \in Node, <<b, x>> \in freetab'[l]
          PROVE  base'[b] # None /\ x % Span[l] = 0
      <3>1. CASE Kept(b, x, l)
        BY <3>1 DEF Placed
      <3>2. CASE Cut(b, x, l)
        BY <3>2, <1>6
      <3> QED BY <2>1, <3>1, <3>2, <1>1
    <2>2. ASSUME NEW q \in Page, Buddied(q)'
          PROVE  (base[AreaOf(q)] # None /\ NodeOf(q) % Span[pg[q].order_size] = 0)'
      <3>1. CASE q = p
        <4>1. n % Span[k] = 0
          BY <1>4, <1>7, AlignedDown
        <4> QED BY <3>1, <4>1, <1>2 DEF AreaOf, NodeOf
      <3>2. CASE q # p
        <4>1. Buddied(q) /\ AreaOf(q)' = AreaOf(q) /\ NodeOf(q)' = NodeOf(q) /\ pg'[q] = pg[q]
          BY <3>2, <2>2, <1>2 DEF Buddied, AreaOf, NodeOf
        <4>2. base[AreaOf(q)] # None /\ NodeOf(q) % Span[pg[q].order_size] = 0 /\ AreaOf(q) \in Area
          BY <4>1, <1>5 DEF Placed
        <4> QED BY <4>1, <4>2
      <3> QED BY <3>1, <3>2
    <2> QED BY <2>1, <2>2 DEF Placed
  <1>13. FreeApart'
    <2> SUFFICES ASSUME NEW l \in Lists, NEW m \in Lists, NEW b \in Area, NEW x \in Node, NEW y \in Node,
                        <<b, x>> \in freetab'[l], <<b, y>> \in freetab'[m], x # y
                 PROVE  Apart(x, l, y, m)
      BY DEF FreeApart, Apart
    <2>1. CASE Kept(b, x, l) /\ Kept(b, y, m)
      BY <2>1 DEF FreeApart
    <2>2. CASE Kept(b, x, l) /\ Cut(b, y, m)
      BY <2>2, <1>8, <1>9
    <2>3. CASE Cut(b, x, l) /\ Kept(b, y, m)
      BY <2>3, <1>8, <1>9
    <2>4. CASE Cut(b, x, l) /\ Cut(b, y, m)
      <3>1. l < m => Half(n, l) + Span[l] <= Half(n, m)
        BY <2>4, HalfPlaced
      <3>2. m < l => Half(n, m) + Span[m] <= Half(n, l)
        BY <2>4, HalfPlaced
      <3>3. l # m /\ l \in Nat /\ m \in Nat
        BY <2>4, <1>4
      <3> QED BY <2>4, <3>1, <3>2, <3>3 DEF Apart
    <2> HIDE DEF Kept, Cut
    <2> QED BY <2>1, <2>2, <2>3, <2>4, <1>1
  <1>14. FreeHeldApart'
    <2> SUFFICES ASSUME NEW l \in Lists, NEW x \in Node, NEW q \in Page,
                        Buddied(q)', <<AreaOf(q)', x>> \in freetab'[l]
                 PROVE  Apart(x, l, NodeOf(q)', pg'[q].order_size)
      BY DEF FreeHeldApart, Apart
    <2>1. CASE q = p
      <3>1. AreaOf(q)' = a /\ NodeOf(q)' = n /\ pg'[q].order_size = k
        BY <2>1, <1>2 DEF AreaOf, NodeOf
      <3>2. Kept(a, x, l) => Apart(x, l, n, k)
        BY <1>8, <1>9
      <3>3. Cut(a, x, l) => Apart(x, l, n, k)
        BY <1>6 DEF Apart
      <3> HIDE DEF Kept, Cut
      <3> QED BY <3>1, <3>2, <3>3, <1>1
    <2>2. CASE q # p
      <3>1. Buddied(q) /\ AreaOf(q)' = AreaOf(q) /\ NodeOf(q)' = NodeOf(q) /\ pg'[q] = pg[q]
        BY <2>2, <1>2 DEF Buddied, AreaOf, NodeOf
      <3>2. AreaOf(q) \in Area /\ NodeOf(q) \in Node /\ pg[q].order_size \in Lists
        BY <3>1, <1>5 DEF Buddied
      <3>3. Kept(AreaOf(q), x, l) => Apart(x, l, NodeOf(q), pg[q].order_size)
        BY <3>1 DEF FreeHeldApart
      <3>4. Cut(AreaOf(q), x, l) => Apart(x, l, NodeOf(q), pg[q].order_size)
        <4>1. ASSUME Cut(AreaOf(q), x, l)
              PROVE  Apart(NodeOf(q), pg[q].order_size, n, norder)
          <5>1. Apart(n, norder, NodeOf(q), pg[q].order_size)
            BY <4>1, <3>1
          <5> QED BY <5>1 DEF Apart
        <4> QED BY <4>1, <3>2, <1>8
      <3> HIDE DEF Kept, Cut
      <3> QED BY <3>1, <3>2, <3>3, <3>4, <1>1
    <2> QED BY <2>1, <2>2
  <1>15. HeldApart'
    <2> SUFFICES ASSUME NEW q \in Page, NEW r \in Page, Buddied(q)', Buddied(r)', q # r,
                        AreaOf(q)' = AreaOf(r)'
                 PROVE  Apart(NodeOf(q)', pg'[q].order_size, NodeOf(r)', pg'[r].order_size)
      BY DEF HeldApart, Apart
    <2>1. ASSUME NEW s \in Page, s # p, Buddied(s)'
          PROVE  /\ Buddied(s) /\ AreaOf(s)' = AreaOf(s) /\ NodeOf(s)' = NodeOf(s) /\ pg'[s] = pg[s]
                 /\ NodeOf(s) \in Node /\ pg[s].order_size \in Lists
                 /\ AreaOf(s) = a =>
                      /\ Apart(NodeOf(s), pg[s].order_size, n, k)
                      /\ Apart(n, k, NodeOf(s), pg[s].order_size)
      <3>1. Buddied(s) /\ AreaOf(s)' = AreaOf(s) /\ NodeOf(s)' = NodeOf(s) /\ pg'[s] = pg[s]
        BY <2>1, <1>2 DEF Buddied, AreaOf, NodeOf
      <3>2. NodeOf(s) \in Node /\ pg[s].order_size \in Lists
        BY <3>1, <1>5 DEF Buddied
      <3>3. ASSUME AreaOf(s) = a PROVE Apart(NodeOf(s), pg[s].order_size, n, norder)
        <4>1. Apart(n, norder, NodeOf(s), pg[s].order_size)
          BY <3>1, <3>3
        <4> QED BY <4>1 DEF Apart
      <3> QED BY <3>1, <3>2, <3>3, <1>8
    <2>2. AreaOf(p)' = a /\ NodeOf(p)' = n /\ pg'[p].order_size = k
      BY <1>2 DEF AreaOf, NodeOf
    <2>3. CASE q = p
      BY <2>1, <2>2, <2>3
    <2>4. CASE r = p
      BY <2>1, <2>2, <2>4
    <2>5. CASE q # p /\ r # p
      BY <2>1, <2>5 DEF HeldApart
    <2> QED BY <2>3, <2>4, <2>5
  <1> QED BY <1>11, <1>12, <1>13, <1>14, <1>15
-----------------------------------------------------------------------------
(* The merge loop of free. *)

\* What is apart from the block freed and from every buddy it merges with is
\* apart from the block it becomes.
LEMMA MergedApart ==
    ASSUME NEW n \in Node, NEW k \in Lists, n % Span[k] = 0,
           NEW m \in Orders, k <= m, NEW x \in Node, NEW l \in Lists,
           Apart(x, l, n, k),
           \A j \in Lists : k <= j /\ j < m => Apart(x, l, BuddyAt(n, j), j)
    PROVE  Apart(x, l, BlockHead(n, m), m)
  <1> DEFINE S == {i \in Orders : Apart(x, l, BlockHead(n, i), i)}
  <1>1. k \in Orders /\ k \in Nat /\ m \in Nat
    BY SpanType
  <1>2. k \in S
    BY <1>1, HeadType
  <1>3. ASSUME NEW i \in k..(m - 1), i \in S PROVE i + 1 \in S
    <2>1. i \in Lists /\ i + 1 \in Orders /\ i \in Orders /\ k <= i /\ i < m
      BY <1>1, OrderAssumption DEF Orders, Lists
    <2>2. Span[l] \in Nat \ {0} /\ Span[i] \in Nat \ {0} /\ Span[i + 1] = 2 * Span[i] /\ x \in Nat
      BY <2>1, SpanType
    <2>3. BlockHead(n, i + 1) \in Nat
      BY <2>1, HeadType, SpanType
    <2>4. Apart(x, l, BlockHead(n, i), i) /\ Apart(x, l, BuddyAt(n, i), i)
      BY <1>3, <2>1
    <2>5. \/ BlockHead(n, i) = BlockHead(n, i + 1) /\ BuddyAt(n, i) = BlockHead(n, i + 1) + Span[i]
          \/ BuddyAt(n, i) = BlockHead(n, i + 1) /\ BlockHead(n, i) = BlockHead(n, i + 1) + Span[i]
      BY <2>1, HeadStep
    <2>6. Apart(x, l, BlockHead(n, i + 1), i + 1)
      BY <2>2, <2>3, <2>4, <2>5 DEF Apart
    <2> QED BY <2>1, <2>6
  <1> HIDE DEF S
  <1>4. \A i \in k..m : i \in S
    BY <1>1, <1>2, <1>3, IntervalInduction
  <1>5. m \in S
    BY <1>1, <1>4
  <1> QED BY <1>5 DEF S

\* A merge takes each buddy off its list and puts the merged block on the list
\* of its order, if it has one.
LEMMA MergeLists ==
    ASSUME TypeOK, NEW a \in Area, NEW n \in Node, NEW k \in Lists,
           NEW m \in Orders, k <= m, Merge(a, n, k, m)
    PROVE  /\ freetab' \in [Lists -> SUBSET (Area \X Node)]
           /\ \A b \in Area, x \in Node, j \in Lists :
                <<b, x>> \in freetab'[j] <=>
                    \/ <<b, x>> \in freetab[j] /\ ~(b = a /\ k <= j /\ j < m /\ x = BuddyAt(n, j))
                    \/ b = a /\ j = m /\ x = BlockHead(n, m)
  <1>1. \A j \in Lists : j \in Nat
    BY SpanType
  <1>2. k \in Nat /\ m \in Nat
    BY SpanType
  <1>3. \A j \in Lists : j \in k..(m - 1) <=> k <= j /\ j < m
    BY <1>1, <1>2
  <1>4. BlockHead(n, m) \in Node
    BY HeadType
  <1>5. freetab' = [j \in Lists |->
                    IF j \in k..(m - 1) THEN freetab[j] \ {<<a, BuddyAt(n, j)>>}
                    ELSE IF j = m THEN freetab[j] \cup {<<a, BlockHead(n, m)>>}
                    ELSE freetab[j]]
    BY DEF Merge
  <1>6. \A j \in Lists : j = m => ~(j < m)
    BY <1>1
  <1>7. freetab \in [Lists -> SUBSET (Area \X Node)]
    BY DEF TypeOK
  <1>8. freetab' \in [Lists -> SUBSET (Area \X Node)]
    BY <1>4, <1>5, <1>7
  <1>9. ASSUME NEW b \in Area, NEW x \in Node, NEW j \in Lists
        PROVE  <<b, x>> \in freetab'[j] <=>
                    \/ <<b, x>> \in freetab[j] /\ ~(b = a /\ k <= j /\ j < m /\ x = BuddyAt(n, j))
                    \/ b = a /\ j = m /\ x = BlockHead(n, m)
    <2>1. CASE j \in k..(m - 1)
      BY <2>1, <1>3, <1>5, <1>6
    <2>2. CASE j \notin k..(m - 1) /\ j = m
      BY <2>2, <1>3, <1>5
    <2>3. CASE j \notin k..(m - 1) /\ j # m
      BY <2>3, <1>3, <1>5
    <2> QED BY <2>1, <2>2, <2>3
  <1> QED BY <1>8, <1>9

LEMMA MergeTags ==
    ASSUME TypeOK, NEW a \in Area, NEW n \in Node, NEW k \in Lists,
           NEW m \in Orders, k <= m, Merge(a, n, k, m)
    PROVE  /\ order' \in [Area -> [Node -> 0..MaxOrder]]
           /\ \A b \in Area : b # a => order'[b] = order[b]
           /\ order'[a][BlockHead(n, m)] = m
           /\ n # BlockHead(n, m) => order'[a][n] = 0
           /\ \A j \in Lists : k <= j /\ j < m /\ BuddyAt(n, j) # BlockHead(n, m)
                => order'[a][BuddyAt(n, j)] = 0
           /\ \A x \in Node : x # BlockHead(n, m) /\ x # n
                    /\ (\A j \in Lists : k <= j /\ j < m => x # BuddyAt(n, j))
                => order'[a][x] = order[a][x]
  <1> DEFINE J == k..(m - 1)
             tag(x) == IF x = BlockHead(n, m) THEN m
                       ELSE IF x = n \/ \E j \in J : x = BuddyAt(n, j) THEN 0
                       ELSE order[a][x]
  <1>1. \A j \in J : j \in Lists /\ k <= j /\ j < m
    BY OrderAssumption DEF Lists, Orders
  <1>2. \A j \in Lists : k <= j /\ j < m => j \in J
    BY OrderAssumption DEF Lists, Orders
  <1>3. order \in [Area -> [Node -> 0..MaxOrder]] /\ order' = [order EXCEPT ![a] = [x \in Node |-> tag(x)]]
    BY DEF Merge, TypeOK
  <1> HIDE DEF J
  <1>4. 0 \in 0..MaxOrder /\ m \in 0..MaxOrder
    BY OrderAssumption DEF Orders
  <1>5. \A x \in Node : tag(x) \in 0..MaxOrder
    BY <1>3, <1>4
  <1>6. BlockHead(n, m) \in Node /\ \A j \in Lists : BuddyAt(n, j) \in Node
    BY HeadType, HeadStep
  <1>7. /\ tag(BlockHead(n, m)) = m
        /\ n # BlockHead(n, m) => tag(n) = 0
        /\ \A j \in Lists : k <= j /\ j < m /\ BuddyAt(n, j) # BlockHead(n, m) => tag(BuddyAt(n, j)) = 0
        /\ \A x \in Node : x # BlockHead(n, m) /\ x # n
                    /\ (\A j \in Lists : k <= j /\ j < m => x # BuddyAt(n, j))
              => tag(x) = order[a][x]
    BY <1>1, <1>2
  <1> HIDE DEF tag
  <1>8. [x \in Node |-> tag(x)] \in [Node -> 0..MaxOrder]
    BY <1>5
  <1>9. order' \in [Area -> [Node -> 0..MaxOrder]]
    BY <1>3, <1>8
  <1>10. (\A x \in Node : order'[a][x] = tag(x)) /\ \A b \in Area : b # a => order'[b] = order[b]
    BY <1>3
  <1> QED BY <1>6, <1>7, <1>9, <1>10

\* A merge preserves what the tags, the lists and the held pages agree on.
LEMMA MergeStep ==
    ASSUME Inv, NEW p \in Page, Buddied(p),
           NEW a \in Area, NEW n \in Node, NEW k \in Lists,
           a = AreaOf(p), n = NodeOf(p), k = pg[p].order_size,
           NEW m \in Orders, k <= m,
           \A j \in Lists : k <= j /\ j < m => BuddyFree(a, n, j),
           Merge(a, n, k, m), pg' = [pg EXCEPT ![p] = NoPage],
           \A b \in Area : b # a \/ m # MaxOrder => base'[b] = base[b]
    PROVE  TagsMatchLists' /\ Placed' /\ FreeApart' /\ FreeHeldApart' /\ HeldApart'
  <1> DEFINE Kept(b, x, j) ==
        <<b, x>> \in freetab[j] /\ ~(b = a /\ k <= j /\ j < m /\ x = BuddyAt(n, j))
             New(b, x, j) == b = a /\ j = m /\ x = BlockHead(n, m)
  <1>0. TypeOK
    BY DEF Inv
  <1>1. \A b \in Area, x \in Node, j \in Lists :
            <<b, x>> \in freetab'[j] <=> Kept(b, x, j) \/ New(b, x, j)
    <2> SUFFICES ASSUME NEW b \in Area, NEW x \in Node, NEW j \in Lists
                 PROVE  <<b, x>> \in freetab'[j] <=> Kept(b, x, j) \/ New(b, x, j)
      OBVIOUS
    <2> QED BY <1>0, MergeLists
  <1> USE DEF Inv
  <1>2. (\A q \in Page : q # p => pg'[q] = pg[q]) /\ ~Buddied(p)'
    <2>1. pg \in [Page -> [order_size : Nat, base : (Area \X Node) \cup Chunk \cup {None}]]
      BY DEF TypeOK
    <2>2. 0 \notin Lists
      BY OrderAssumption DEF Lists
    <2> QED BY <2>1, <2>2 DEF NoPage, Buddied
  <1>3. \A l \in Orders : Span[l] \in Nat \ {0}
    BY SpanType
  <1>4. (\A l \in Lists : l \in Orders /\ l \in Nat) /\ (\A x \in Node : x \in Nat) /\ m \in Nat
    BY SpanType
  <1>5. ASSUME NEW q \in Page, q # p, Buddied(q)'
        PROVE  /\ Buddied(q) /\ AreaOf(q)' = AreaOf(q) /\ NodeOf(q)' = NodeOf(q) /\ pg'[q] = pg[q]
               /\ AreaOf(q) \in Area /\ NodeOf(q) \in Node /\ pg[q].order_size \in Lists
    <2>1. Buddied(q) /\ AreaOf(q)' = AreaOf(q) /\ NodeOf(q)' = NodeOf(q) /\ pg'[q] = pg[q]
      BY <1>5, <1>2 DEF Buddied, AreaOf, NodeOf
    <2> QED BY <2>1 DEF TypeOK, Buddied, AreaOf, NodeOf
  <1>6. n % Span[k] = 0 /\ base[a] # None
    BY DEF Placed
  <1>7. \A j \in Lists : k <= j /\ j < m =>
            BuddyAt(n, j) \in Node /\ <<a, BuddyAt(n, j)>> \in freetab[j]
    BY HeadStep DEF TagsMatchLists, BuddyFree
  <1>8. BlockHead(n, m) \in Node /\ BlockHead(n, m) % Span[m] = 0
    BY HeadType
  <1>9. \A x \in Node, l \in Lists, y \in Node, i \in Orders : Apart(x, l, y, i) <=> Apart(y, i, x, l)
    BY DEF Apart
  \* A block that stays is apart from what the merge has gathered.
  <1>10. ASSUME NEW x \in Node, NEW l \in Lists, Kept(a, x, l)
         PROVE  Apart(x, l, BlockHead(n, m), m) /\ x # n /\ x # BlockHead(n, m)
                /\ \A j \in Lists : k <= j /\ j < m => x # BuddyAt(n, j)
    <2>1. Apart(x, l, n, k)
      BY <1>10 DEF FreeHeldApart
    <2>2. \A j \in Lists : k <= j /\ j < m => x # BuddyAt(n, j)
      <3> SUFFICES ASSUME NEW j \in Lists, k <= j, j < m, x = BuddyAt(n, j) PROVE FALSE
        OBVIOUS
      <3>1. order[a][x] = l /\ order[a][x] = j
        BY <1>7, <1>10 DEF TagsMatchLists
      <3> QED BY <1>10, <3>1
    <2>3. \A j \in Lists : k <= j /\ j < m => Apart(x, l, BuddyAt(n, j), j)
      BY <1>7, <1>10, <2>2 DEF FreeApart
    <2>4. Apart(x, l, BlockHead(n, m), m)
      BY <1>6, <2>1, <2>3, MergedApart
    <2>5. x # n
      BY <1>3, <1>4, <2>1 DEF Apart
    <2>6. x # BlockHead(n, m)
      BY <1>3, <1>4, <1>8, <2>4 DEF Apart
    <2> QED BY <2>2, <2>4, <2>5, <2>6
  \* So is every page that stays held.
  <1>11. ASSUME NEW q \in Page, q # p, Buddied(q), AreaOf(q) = a, NodeOf(q) \in Node, pg[q].order_size \in Lists
         PROVE  Apart(NodeOf(q), pg[q].order_size, BlockHead(n, m), m)
    <2>1. Apart(NodeOf(q), pg[q].order_size, n, k)
      BY <1>11 DEF HeldApart
    <2>2. ASSUME NEW j \in Lists, k <= j, j < m
          PROVE  Apart(NodeOf(q), pg[q].order_size, BuddyAt(n, j), j)
      <3>1. Apart(BuddyAt(n, j), j, NodeOf(q), pg[q].order_size)
        BY <1>7, <1>11, <2>2 DEF FreeHeldApart
      <3> QED BY <3>1 DEF Apart
    <2> QED BY <1>6, <1>11, <2>1, <2>2, MergedApart
  \* After a merge to max_order nothing else is in the area.
  <1>12. ASSUME m = MaxOrder, NEW x \in Node, NEW l \in Lists, x % Span[l] = 0
         PROVE  ~Apart(x, l, BlockHead(n, m), m)
    <2>1. x + Span[l] <= Span[m]
      BY <1>4, <1>12, BlockFits
    <2>2. BlockHead(n, m) + Span[m] <= Span[m]
      BY <1>8, <1>12, BlockFits
    <2>3. Span[l] \in Nat \ {0} /\ Span[m] \in Nat \ {0} /\ x \in Nat /\ BlockHead(n, m) \in Nat
      BY <1>3, <1>4, <1>8
    <2>4. x < Span[m]
      BY <2>1, <2>3
    <2> QED BY <2>1, <2>2, <2>3, <2>4 DEF Apart
  <1>13. TagsMatchLists'
    <2> SUFFICES ASSUME NEW b \in Area, NEW x \in Node, NEW l \in Lists
                 PROVE  order'[b][x] = l <=> <<b, x>> \in freetab'[l]
      BY DEF TagsMatchLists
    <2>1. order[b][x] = l <=> <<b, x>> \in freetab[l]
      BY DEF TagsMatchLists
    <2>2. CASE b # a
      BY <1>1, <2>1, <2>2, MergeTags
    <2>3. CASE b = a /\ x = BlockHead(n, m)
      <3>1. order'[a][x] = m
        BY <2>3, MergeTags
      <3>2. ~Kept(a, x, l)
        BY <1>10, <2>3
      <3> HIDE DEF Kept
      <3> QED BY <2>3, <3>1, <3>2, <1>1
    <2>4. CASE b = a /\ x # BlockHead(n, m) /\ (x = n \/ \E j \in Lists : k <= j /\ j < m /\ x = BuddyAt(n, j))
      <3>1. order'[a][x] = 0 /\ l # 0
        <4>1. l # 0
          BY <1>4, OrderAssumption DEF Lists
        <4> QED BY <2>4, <4>1, MergeTags
      <3>2. ~Kept(a, x, l)
        BY <1>10, <2>4
      <3> HIDE DEF Kept
      <3> QED BY <2>4, <3>1, <3>2, <1>1
    <2>5. CASE b = a /\ x # BlockHead(n, m) /\ x # n /\ \A j \in Lists : k <= j /\ j < m => x # BuddyAt(n, j)
      <3>1. order'[a][x] = order[a][x]
        BY <2>5, MergeTags
      <3> QED BY <2>1, <2>5, <3>1, <1>1
    <2> QED BY <2>2, <2>3, <2>4, <2>5
  <1>14. Placed'
    <2>1. ASSUME NEW l \in Lists, NEW b \in Area, NEW x \in Node, <<b, x>> \in freetab'[l]
          PROVE  base'[b] # None /\ x % Span[l] = 0
      <3>1. CASE Kept(b, x, l)
        <4>1. base[b] # None /\ x % Span[l] = 0
          BY <3>1 DEF Placed
        <4>2. CASE b = a /\ m = MaxOrder
          BY <3>1, <4>1, <4>2, <1>10, <1>12
        <4>3. CASE b # a \/ m # MaxOrder
          BY <4>1, <4>3
        <4> QED BY <4>2, <4>3
      <3>2. CASE New(b, x, l)
        <4>1. m # MaxOrder
          BY <3>2, OrderAssumption DEF Lists
        <4> QED BY <3>2, <4>1, <1>6, <1>8
      <3> HIDE DEF Kept, New
      <3> QED BY <2>1, <3>1, <3>2, <1>1
    <2>2. ASSUME NEW q \in Page, Buddied(q)'
          PROVE  (base[AreaOf(q)] # None /\ NodeOf(q) % Span[pg[q].order_size] = 0)'
      <3>1. q # p
        BY <1>2, <2>2
      <3>2. /\ Buddied(q) /\ AreaOf(q)' = AreaOf(q) /\ NodeOf(q)' = NodeOf(q) /\ pg'[q] = pg[q]
            /\ AreaOf(q) \in Area /\ NodeOf(q) \in Node /\ pg[q].order_size \in Lists
        BY <1>5, <2>2, <3>1
      <3>3. base[AreaOf(q)] # None /\ NodeOf(q) % Span[pg[q].order_size] = 0
        BY <3>2 DEF Placed
      <3>4. ~(AreaOf(q) = a /\ m = MaxOrder)
        BY <3>1, <3>2, <3>3, <1>11, <1>12
      <3> QED BY <3>2, <3>3, <3>4
    <2> QED BY <2>1, <2>2 DEF Placed
  <1>15. FreeApart'
    <2> SUFFICES ASSUME NEW l \in Lists, NEW i \in Lists, NEW b \in Area, NEW x \in Node, NEW y \in Node,
                        <<b, x>> \in freetab'[l], <<b, y>> \in freetab'[i], x # y
                 PROVE  Apart(x, l, y, i)
      BY DEF FreeApart, Apart
    <2>1. CASE Kept(b, x, l) /\ Kept(b, y, i)
      BY <2>1 DEF FreeApart
    <2>2. CASE Kept(b, x, l) /\ New(b, y, i)
      BY <2>2, <1>10
    <2>3. CASE New(b, x, l) /\ Kept(b, y, i)
      <3>1. Apart(y, i, x, l)
        BY <2>3, <1>10
      <3> QED BY <3>1 DEF Apart
    <2>4. ~(New(b, x, l) /\ New(b, y, i))
      OBVIOUS
    <2> HIDE DEF Kept, New
    <2> QED BY <2>1, <2>2, <2>3, <2>4, <1>1
  <1>16. FreeHeldApart'
    <2> SUFFICES ASSUME NEW l \in Lists, NEW x \in Node, NEW q \in Page,
                        Buddied(q)', <<AreaOf(q)', x>> \in freetab'[l]
                 PROVE  Apart(x, l, NodeOf(q)', pg'[q].order_size)
      BY DEF FreeHeldApart, Apart
    <2>1. q # p
      BY <1>2
    <2>2. /\ Buddied(q) /\ AreaOf(q)' = AreaOf(q) /\ NodeOf(q)' = NodeOf(q) /\ pg'[q] = pg[q]
          /\ AreaOf(q) \in Area /\ NodeOf(q) \in Node /\ pg[q].order_size \in Lists
      BY <1>5, <2>1
    <2>3. CASE Kept(AreaOf(q), x, l)
      BY <2>2, <2>3 DEF FreeHeldApart
    <2>4. CASE New(AreaOf(q), x, l)
      <3>1. Apart(NodeOf(q), pg[q].order_size, x, l)
        BY <1>11, <2>1, <2>2, <2>4
      <3> QED BY <2>2, <3>1 DEF Apart
    <2> HIDE DEF Kept, New
    <2> QED BY <2>2, <2>3, <2>4, <1>1
  <1>17. HeldApart'
    <2> SUFFICES ASSUME NEW q \in Page, NEW r \in Page, Buddied(q)', Buddied(r)', q # r,
                        AreaOf(q)' = AreaOf(r)'
                 PROVE  Apart(NodeOf(q)', pg'[q].order_size, NodeOf(r)', pg'[r].order_size)
      BY DEF HeldApart, Apart
    <2>1. q # p /\ r # p
      BY <1>2
    <2> QED BY <1>5, <2>1 DEF HeldApart
  <1> QED BY <1>13, <1>14, <1>15, <1>16, <1>17
-----------------------------------------------------------------------------
(* Inv is inductive: one lemma per action. *)

LEMMA NoPageType ==
    /\ NoPage \in [order_size : Nat, base : (Area \X Node) \cup Chunk \cup {None}]
    /\ NoPage.order_size \notin Lists /\ NoPage.order_size # MaxOrder
  BY OrderAssumption DEF NoPage, Lists

LEMMA InitInv == Init => Inv
  <1> SUFFICES ASSUME Init PROVE Inv
    OBVIOUS
  <1> USE DEF Init
  <1>1. TypeOK
    <2>1. 0 \in 0..MaxOrder
      BY OrderAssumption
    <2> QED BY <2>1, NoPageType DEF TypeOK
  <1>2. \A p \in Page : ~Buddied(p) /\ ~Whole(p)
    BY NoPageType DEF Buddied, Whole
  <1>3. TagsMatchLists
    <2>1. 0 \notin Lists
      BY OrderAssumption DEF Lists
    <2> QED BY <2>1 DEF TagsMatchLists
  <1>4. Placed /\ FreeApart /\ FreeHeldApart /\ HeldApart
    BY <1>2 DEF Placed, FreeApart, FreeHeldApart, HeldApart
  <1>5. Owners
    BY <1>2 DEF Owners
  <1> QED BY <1>1, <1>3, <1>4, <1>5 DEF Inv

LEMMA AllocFromListInv ==
    ASSUME Inv, NEW p \in Page, NEW size \in Requests, AllocFromList(p, size)
    PROVE  Inv'
  <1> USE DEF Inv
  <1>0. PICK k \in Lists : \E norder \in k..(MaxOrder - 1), a \in Area, n \in Node :
            <<a, n>> \in freetab[norder] /\ Split(p, a, n, norder, k)
    <2>1. size \in Nat /\ size <= Pages[MaxOrder - 1]
      BY OrderAssumption DEF AllocFromList
    <2>2. OrderFor(size) \in Lists
      BY <2>1, OrderForFits
    <2> QED BY <2>2 DEF AllocFromList
  <1>1. PICK norder \in k..(MaxOrder - 1), a \in Area, n \in Node :
            <<a, n>> \in freetab[norder] /\ Split(p, a, n, norder, k)
    BY <1>0
  <1>2. norder \in Lists /\ norder \in Orders /\ k <= norder /\ norder # MaxOrder
    BY OrderAssumption DEF Lists, Orders
  <1>3. pg[p] = NoPage /\ UNCHANGED <<base, freechunks, areas, carved>>
    BY DEF AllocFromList
  <1>4. n % Span[norder] = 0 /\ base[a] # None
    BY <1>1, <1>2 DEF Placed
  <1>5. TagsMatchLists' /\ Placed' /\ FreeApart' /\ FreeHeldApart' /\ HeldApart'
    <2>1. \A j \in Lists, x \in Node :
              <<a, x>> \in freetab[j] /\ ~(x = n /\ j = norder) => Apart(x, j, n, norder)
      <3> SUFFICES ASSUME NEW j \in Lists, NEW x \in Node,
                          <<a, x>> \in freetab[j], ~(x = n /\ j = norder)
                   PROVE  Apart(x, j, n, norder)
        OBVIOUS
      <3>1. x # n
        <4>1. order[a][x] = j /\ order[a][n] = norder
          BY <1>1, <1>2 DEF TagsMatchLists
        <4> QED BY <4>1
      <3> QED BY <3>1, <1>1, <1>2 DEF FreeApart
    <2>2. \A q \in Page : Buddied(q) /\ AreaOf(q) = a
              => Apart(n, norder, NodeOf(q), pg[q].order_size)
      BY <1>1, <1>2 DEF FreeHeldApart
    <2>3. base'[a] # None /\ \A b \in Area : b # a => base'[b] = base[b]
      BY <1>3, <1>4
    <2> QED BY <1>1, <1>2, <1>3, <1>4, <2>1, <2>2, <2>3, SplitStep
  <1>6. /\ pg' = [pg EXCEPT ![p] = [order_size |-> k, base |-> <<a, n>>]]
        /\ k \in Nat /\ k # MaxOrder /\ ~(k < MinOrder)
    BY <1>1, OrderAssumption DEF Split, Lists
  <1>7. /\ pg'[p] = [order_size |-> k, base |-> <<a, n>>]
        /\ \A q \in Page : q # p => pg'[q] = pg[q]
    BY <1>6 DEF TypeOK
  <1>8. TypeOK'
    <2>1. freetab' \in [Lists -> SUBSET (Area \X Node)]
      BY <1>1, <1>2, <1>4, SplitLists
    <2>2. order' \in [Area -> [Node -> 0..MaxOrder]]
      BY <1>1, <1>2, <1>4, SplitTags
    <2>3. pg' \in [Page -> [order_size : Nat, base : (Area \X Node) \cup Chunk \cup {None}]]
      BY <1>6 DEF TypeOK
    <2> QED BY <1>3, <1>6, <1>7, <2>1, <2>2, <2>3 DEF TypeOK
  <1>9. Owners'
    <2>1. \A q \in Page : Whole(q)' => q # p /\ Whole(q) /\ pg'[q] = pg[q]
      BY <1>6, <1>7 DEF Whole
    <2> QED BY <1>3, <2>1 DEF Owners
  <1> QED BY <1>5, <1>8, <1>9

LEMMA AllocFromChunkInv ==
    ASSUME Inv, NEW p \in Page, NEW size \in Requests, AllocFromChunk(p, size)
    PROVE  Inv'
  <1> USE DEF Inv
  <1>1. PICK k \in Lists, a \in Area, c \in Chunk :
            ChunkAlloc(c) /\ AreaAlloc(a, c) /\ Split(p, a, 0, MaxOrder, k)
    <2>1. size \in Nat /\ size <= Pages[MaxOrder - 1]
      BY OrderAssumption DEF AllocFromChunk
    <2>2. OrderFor(size) \in Lists
      BY <2>1, OrderForFits
    <2> QED BY <2>2 DEF AllocFromChunk
  <1>2. /\ MaxOrder \in Orders /\ k <= MaxOrder /\ 0 \in Node /\ MaxOrder \notin Lists /\ k \in Orders
        /\ pg[p] = NoPage /\ k \in Nat /\ k # MaxOrder /\ ~(k < MinOrder)
    BY OrderAssumption, SpanType DEF Lists, Orders, AllocFromChunk
  <1>3. 0 % Span[MaxOrder] = 0
    BY SpanType, MultipleRem
  <1>4. base[a] = None /\ base' = [base EXCEPT ![a] = c] /\ areas' = areas \ {a} /\ c # None
    BY <1>1, NoneAssumption DEF AreaAlloc, Owners
  <1>5. base'[a] = c /\ base'[a] # None /\ \A b \in Area : b # a => base'[b] = base[b]
    BY <1>4 DEF TypeOK
  <1>6. TagsMatchLists' /\ Placed' /\ FreeApart' /\ FreeHeldApart' /\ HeldApart'
    <2>1. \A j \in Lists, x \in Node : <<a, x>> \notin freetab[j]
      BY <1>4 DEF Placed
    <2>2. \A q \in Page : ~(Buddied(q) /\ AreaOf(q) = a)
      BY <1>4 DEF Placed
    <2> QED BY <1>1, <1>2, <1>3, <1>5, <2>1, <2>2, SplitStep
  <1>7. pg' = [pg EXCEPT ![p] = [order_size |-> k, base |-> <<a, 0>>]]
    BY <1>1 DEF Split
  <1>8. /\ pg'[p] = [order_size |-> k, base |-> <<a, 0>>]
        /\ \A q \in Page : q # p => pg'[q] = pg[q]
    BY <1>7 DEF TypeOK
  <1>9. /\ freechunks' \subseteq freechunks /\ carved \subseteq carved' /\ carved' \subseteq carved \cup {c}
        /\ c \in carved' \ freechunks'
        /\ c \in freechunks \/ c \notin carved
    BY <1>1 DEF ChunkAlloc, Owners
  <1>10. TypeOK'
    <2>1. freetab' \in [Lists -> SUBSET (Area \X Node)]
      BY <1>1, <1>2, <1>3, SplitLists
    <2>2. order' \in [Area -> [Node -> 0..MaxOrder]]
      BY <1>1, <1>2, <1>3, SplitTags
    <2>3. pg' \in [Page -> [order_size : Nat, base : (Area \X Node) \cup Chunk \cup {None}]]
      BY <1>2, <1>7 DEF TypeOK
    <2>4. base' \in [Area -> Chunk \cup {None}] /\ areas' \subseteq Area
      BY <1>4 DEF TypeOK
    <2>5. freechunks' \subseteq Chunk /\ carved' \subseteq Chunk
      BY <1>9 DEF TypeOK
    <2>6. ASSUME NEW q \in Page
          PROVE  /\ pg'[q].order_size \in Lists => pg'[q].base \in Area \X Node
                 /\ pg'[q].order_size = MaxOrder => pg'[q].base \in Chunk
                 /\ pg'[q].order_size < MinOrder => pg'[q] = NoPage
      <3>1. CASE q = p
        BY <1>2, <1>8, <3>1
      <3>2. CASE q # p
        BY <1>8, <3>2 DEF TypeOK
      <3> QED BY <3>1, <3>2
    <2> QED BY <2>1, <2>2, <2>3, <2>4, <2>5, <2>6 DEF TypeOK
  <1>11. Owners'
    <2>1. \A q \in Page : Whole(q)' => q # p /\ Whole(q) /\ pg'[q] = pg[q]
      BY <1>2, <1>8 DEF Whole
    <2>2. \A q \in Page : Whole(q) => pg[q].base # c
      BY <1>9 DEF Owners
    <2>3. \A b \in Area : base[b] # c
      BY <1>4, <1>9 DEF Owners
    <2>4. /\ freechunks' \subseteq carved'
          /\ \A b \in areas' : base'[b] = None
      BY <1>4, <1>5, <1>9 DEF Owners, TypeOK
    <2>5. \A b, d \in Area : base'[b] # None /\ base'[b] = base'[d] => b = d
      BY <1>5, <2>3 DEF Owners
    <2>6. \A b \in Area : base'[b] # None => base'[b] \in carved' \ freechunks'
      BY <1>5, <1>9 DEF Owners
    <2>7. \A q \in Page : Whole(q)' =>
        /\ pg'[q].base \in carved' \ freechunks'
        /\ \A b \in Area : base'[b] # pg'[q].base
        /\ \A r \in Page : Whole(r)' /\ pg'[r].base = pg'[q].base => q = r
      BY <1>5, <1>9, <2>1, <2>2 DEF Owners
    <2> QED BY <2>4, <2>5, <2>6, <2>7 DEF Owners
  <1> QED BY <1>6, <1>10, <1>11

\* Handing out or taking back what is not a block leaves the blocks alone.
LEMMA SameBlocks ==
    ASSUME Inv, UNCHANGED <<order, base, freetab>>,
           \A q \in Page : Buddied(q)' => Buddied(q) /\ pg'[q] = pg[q]
    PROVE  TagsMatchLists' /\ Placed' /\ FreeApart' /\ FreeHeldApart' /\ HeldApart'
  <1> USE DEF Inv
  <1>1. TagsMatchLists' /\ FreeApart'
    BY DEF TagsMatchLists, FreeApart, Apart
  <1>2. \A q \in Page : Buddied(q)' =>
            Buddied(q) /\ pg'[q] = pg[q] /\ AreaOf(q)' = AreaOf(q) /\ NodeOf(q)' = NodeOf(q)
    BY DEF AreaOf, NodeOf
  <1>3. Placed'
    BY <1>2 DEF Placed
  <1>4. FreeHeldApart'
    BY <1>2 DEF FreeHeldApart, Apart
  <1>5. HeldApart'
    BY <1>2 DEF HeldApart, Apart
  <1> QED BY <1>1, <1>3, <1>4, <1>5

\* What free does to the descriptors.
LEMMA GiveBack ==
    ASSUME TypeOK, NEW p \in Page, pg' = [pg EXCEPT ![p] = NoPage]
    PROVE  /\ pg' \in [Page -> [order_size : Nat, base : (Area \X Node) \cup Chunk \cup {None}]]
           /\ \A q \in Page :
                /\ pg'[q].order_size \in Lists => pg'[q].base \in Area \X Node
                /\ pg'[q].order_size = MaxOrder => pg'[q].base \in Chunk
                /\ pg'[q].order_size < MinOrder => pg'[q] = NoPage
           /\ \A q \in Page : q # p => pg'[q] = pg[q]
           /\ ~Buddied(p)' /\ ~Whole(p)'
  BY NoPageType DEF TypeOK, Buddied, Whole

LEMMA AllocChunkInv ==
    ASSUME Inv, NEW p \in Page, NEW size \in Requests, AllocChunk(p, size)
    PROVE  Inv'
  <1> USE DEF Inv
  <1>1. PICK c \in Chunk :
            ChunkAlloc(c) /\ pg' = [pg EXCEPT ![p] = [order_size |-> MaxOrder, base |-> c]]
    BY DEF AllocChunk
  <1>2. UNCHANGED <<order, base, freetab, areas>> /\ MaxOrder \in Nat /\ MaxOrder \notin Lists
        /\ ~(MaxOrder < MinOrder) /\ ~Whole(p)
    BY OrderAssumption, NoPageType DEF AllocChunk, Lists, Whole
  <1>3. pg'[p] = [order_size |-> MaxOrder, base |-> c] /\ \A q \in Page : q # p => pg'[q] = pg[q]
    BY <1>1 DEF TypeOK
  <1>4. TagsMatchLists' /\ Placed' /\ FreeApart' /\ FreeHeldApart' /\ HeldApart'
    BY <1>2, <1>3, SameBlocks DEF Buddied
  <1>5. /\ freechunks' \subseteq freechunks /\ carved \subseteq carved' /\ carved' \subseteq carved \cup {c}
        /\ c \in carved' \ freechunks'
        /\ c \in freechunks \/ c \notin carved
    BY <1>1 DEF ChunkAlloc, Owners
  <1>6. TypeOK'
    <2>1. pg' \in [Page -> [order_size : Nat, base : (Area \X Node) \cup Chunk \cup {None}]]
      BY <1>1, <1>2 DEF TypeOK
    <2>2. ASSUME NEW q \in Page
          PROVE  /\ pg'[q].order_size \in Lists => pg'[q].base \in Area \X Node
                 /\ pg'[q].order_size = MaxOrder => pg'[q].base \in Chunk
                 /\ pg'[q].order_size < MinOrder => pg'[q] = NoPage
      <3>1. CASE q = p
        BY <1>2, <1>3, <3>1
      <3>2. CASE q # p
        BY <1>3, <3>2 DEF TypeOK
      <3> QED BY <3>1, <3>2
    <2> QED BY <1>2, <1>5, <2>1, <2>2 DEF TypeOK
  <1>7. Owners'
    <2>1. \A q \in Page : Whole(q)' /\ q # p => Whole(q) /\ pg'[q] = pg[q]
      BY <1>3 DEF Whole
    <2>2. \A q \in Page : Whole(q) => pg[q].base # c
      BY <1>5 DEF Owners
    <2>3. \A b \in Area : base[b] # c
      <3> SUFFICES ASSUME NEW b \in Area, base[b] = c PROVE FALSE
        OBVIOUS
      <3>1. base[b] # None
        BY NoneAssumption
      <3> QED BY <1>5, <3>1 DEF Owners
    <2>4. \A q \in Page : Whole(q)' =>
        /\ pg'[q].base \in carved' \ freechunks'
        /\ \A b \in Area : base'[b] # pg'[q].base
        /\ \A r \in Page : Whole(r)' /\ pg'[r].base = pg'[q].base => q = r
      BY <1>2, <1>3, <1>5, <2>1, <2>2, <2>3 DEF Owners
    <2> QED BY <1>2, <1>5, <2>4 DEF Owners
  <1> QED BY <1>4, <1>6, <1>7

\* A mapped page is at least one system page, more bytes than any order.
LEMMA MappedBytes ==
    ASSUME NEW p \in Page, NEW size \in Requests, AllocMapped(p, size)
    PROVE  size * PageBytes \in Nat /\ size * PageBytes > MaxOrder
  <1>1. size \in Nat /\ PageBytes \in Nat /\ PageBytes > MaxOrder /\ MaxOrder \in Nat
    BY OrderAssumption
  <1>2. Pages[MaxOrder - 1] \in Nat
    <2>1. MaxOrder - 1 \in 0..MaxOrder
      BY OrderAssumption
    <2> QED BY <2>1, PagesAssumption
  <1>3. size >= 1
    BY <1>1, <1>2 DEF AllocMapped
  <1>4. size * PageBytes >= PageBytes
    BY <1>1, <1>3
  <1> QED BY <1>1, <1>4

LEMMA AllocMappedInv ==
    ASSUME Inv, NEW p \in Page, NEW size \in Requests, AllocMapped(p, size)
    PROVE  Inv'
  <1> USE DEF Inv
  <1>1. /\ pg' = [pg EXCEPT ![p] = [order_size |-> size * PageBytes, base |-> None]]
        /\ UNCHANGED <<order, base, freetab, freechunks, areas, carved>>
        /\ size > Pages[MaxOrder - 1]
    BY DEF AllocMapped
  <1>2. size * PageBytes \in Nat /\ size * PageBytes > MaxOrder
    BY MappedBytes
  <1>3. size * PageBytes \notin Lists /\ size * PageBytes # MaxOrder /\ ~(size * PageBytes < MinOrder)
    <2> DEFINE bytes == size * PageBytes
    <2> HIDE DEF bytes
    <2>1. bytes \in Nat /\ bytes > MaxOrder
      BY <1>2 DEF bytes
    <2>2. bytes \notin Lists /\ bytes # MaxOrder /\ ~(bytes < MinOrder)
      BY <2>1, OrderAssumption DEF Lists
    <2> QED BY <2>2 DEF bytes
  <1>4. /\ pg'[p] = [order_size |-> size * PageBytes, base |-> None]
        /\ \A q \in Page : q # p => pg'[q] = pg[q]
    BY <1>1 DEF TypeOK
  <1>5. ~Buddied(p)' /\ ~Whole(p)'
    BY <1>3, <1>4 DEF Buddied, Whole
  <1>6. TagsMatchLists' /\ Placed' /\ FreeApart' /\ FreeHeldApart' /\ HeldApart'
    BY <1>1, <1>4, <1>5, SameBlocks DEF Buddied
  <1>7. TypeOK'
    <2>1. pg' \in [Page -> [order_size : Nat, base : (Area \X Node) \cup Chunk \cup {None}]]
      BY <1>1, <1>2 DEF TypeOK
    <2>2. ASSUME NEW q \in Page
          PROVE  /\ pg'[q].order_size \in Lists => pg'[q].base \in Area \X Node
                 /\ pg'[q].order_size = MaxOrder => pg'[q].base \in Chunk
                 /\ pg'[q].order_size < MinOrder => pg'[q] = NoPage
      <3>1. CASE q = p
        BY <1>3, <1>4, <3>1
      <3>2. CASE q # p
        BY <1>4, <3>2 DEF TypeOK
      <3> QED BY <3>1, <3>2
    <2> QED BY <1>1, <2>1, <2>2 DEF TypeOK
  <1>8. Owners'
    <2>1. \A q \in Page : Whole(q)' => Whole(q) /\ pg'[q] = pg[q]
      BY <1>4, <1>5 DEF Whole
    <2> QED BY <1>1, <2>1 DEF Owners
  <1> QED BY <1>6, <1>7, <1>8

LEMMA FreeToListInv ==
    ASSUME Inv, NEW p \in Page, FreeToList(p)
    PROVE  Inv'
  <1> DEFINE a == AreaOf(p)  n == NodeOf(p)  k == pg[p].order_size
  <1>0. TypeOK /\ Owners
    BY DEF Inv
  <1>1. Buddied(p) /\ k \in Lists /\ a \in Area /\ n \in Node
    BY <1>0 DEF FreeToList, TypeOK, Buddied, AreaOf, NodeOf
  <1>2. PICK m \in k..(MaxOrder - 1) : (\A j \in k..(m - 1) : BuddyFree(a, n, j)) /\ Merge(a, n, k, m)
    BY DEF FreeToList, AreaOf, NodeOf
  <1>3. pg' = [pg EXCEPT ![p] = NoPage] /\ UNCHANGED <<base, freechunks, areas, carved>>
    BY DEF FreeToList
  <1> HIDE DEF a, n, k
  <1>4. m \in Orders /\ k <= m /\ m # MaxOrder
    BY <1>1, OrderAssumption DEF Lists, Orders
  <1>5. \A j \in Lists : k <= j /\ j < m => BuddyFree(a, n, j)
    BY <1>1, <1>2, <1>4, OrderAssumption DEF Lists, Orders
  <1>6. TagsMatchLists' /\ Placed' /\ FreeApart' /\ FreeHeldApart' /\ HeldApart'
    BY <1>1, <1>2, <1>3, <1>4, <1>5, MergeStep DEF a, n, k
  <1>7. TypeOK'
    <2>1. freetab' \in [Lists -> SUBSET (Area \X Node)]
      BY <1>0, <1>1, <1>2, <1>4, MergeLists
    <2>2. order' \in [Area -> [Node -> 0..MaxOrder]]
      BY <1>0, <1>1, <1>2, <1>4, MergeTags
    <2> QED BY <1>0, <1>3, <2>1, <2>2, GiveBack DEF TypeOK
  <1>8. Owners'
    <2>1. \A q \in Page : Whole(q)' => Whole(q) /\ pg'[q] = pg[q]
      BY <1>0, <1>3, GiveBack DEF Whole
    <2> QED BY <1>0, <1>3, <2>1 DEF Owners
  <1> QED BY <1>6, <1>7, <1>8 DEF Inv

LEMMA FreeToAreaInv ==
    ASSUME Inv, NEW p \in Page, FreeToArea(p)
    PROVE  Inv'
  <1> DEFINE a == AreaOf(p)  n == NodeOf(p)  k == pg[p].order_size
  <1>0. TypeOK /\ Owners /\ Placed
    BY DEF Inv
  <1>1. Buddied(p) /\ k \in Lists /\ a \in Area /\ n \in Node /\ base[a] # None
    BY <1>0 DEF FreeToArea, TypeOK, Placed, Buddied, AreaOf, NodeOf
  <1>2. /\ \A j \in k..(MaxOrder - 1) : BuddyFree(a, n, j)
        /\ Merge(a, n, k, MaxOrder)
        /\ freechunks' = freechunks \cup {base[a]}
        /\ areas' = areas \cup {a}
        /\ base' = [base EXCEPT ![a] = None]
    BY DEF FreeToArea, AreaOf, NodeOf
  <1>3. pg' = [pg EXCEPT ![p] = NoPage] /\ UNCHANGED carved
    BY DEF FreeToArea
  <1> HIDE DEF a, n, k
  <1>4. MaxOrder \in Orders /\ k <= MaxOrder
    BY <1>1, OrderAssumption DEF Lists, Orders
  <1>5. \A j \in Lists : k <= j /\ j < MaxOrder => BuddyFree(a, n, j)
    BY <1>1, <1>2, OrderAssumption DEF Lists, Orders
  <1>6. base'[a] = None /\ base[a] \in Chunk /\ \A b \in Area : b # a => base'[b] = base[b]
    BY <1>0, <1>1, <1>2 DEF TypeOK
  <1>7. TagsMatchLists' /\ Placed' /\ FreeApart' /\ FreeHeldApart' /\ HeldApart'
    BY <1>1, <1>2, <1>3, <1>4, <1>5, <1>6, MergeStep DEF a, n, k
  <1>8. TypeOK'
    <2>1. freetab' \in [Lists -> SUBSET (Area \X Node)]
      BY <1>0, <1>1, <1>2, <1>4, MergeLists
    <2>2. order' \in [Area -> [Node -> 0..MaxOrder]]
      BY <1>0, <1>1, <1>2, <1>4, MergeTags
    <2>3. base' \in [Area -> Chunk \cup {None}] /\ areas' \subseteq Area
      BY <1>0, <1>1, <1>2 DEF TypeOK
    <2>4. freechunks' \subseteq Chunk /\ carved' \subseteq Chunk
      BY <1>0, <1>2, <1>3, <1>6 DEF TypeOK
    <2> QED BY <1>0, <1>3, <2>1, <2>2, <2>3, <2>4, GiveBack DEF TypeOK
  <1>9. Owners'
    <2>1. \A q \in Page : Whole(q)' => Whole(q) /\ pg'[q] = pg[q]
      BY <1>0, <1>3, GiveBack DEF Whole
    <2>2. \A q \in Page : Whole(q) => pg[q].base # base[a]
      BY <1>0, <1>1 DEF Owners
    <2>3. freechunks' \subseteq carved' /\ \A b \in areas' : base'[b] = None
      BY <1>0, <1>1, <1>2, <1>3, <1>6 DEF Owners, TypeOK
    <2>4. \A b, d \in Area : base'[b] # None /\ base'[b] = base'[d] => b = d
      BY <1>0, <1>6 DEF Owners
    <2>5. \A b \in Area : base'[b] # None => base'[b] \in carved' \ freechunks'
      BY <1>0, <1>1, <1>2, <1>3, <1>6 DEF Owners
    <2>6. \A q \in Page : Whole(q)' =>
        /\ pg'[q].base \in carved' \ freechunks'
        /\ \A b \in Area : base'[b] # pg'[q].base
        /\ \A r \in Page : Whole(r)' /\ pg'[r].base = pg'[q].base => q = r
      <3> SUFFICES ASSUME NEW q \in Page, Whole(q)'
                   PROVE  /\ pg'[q].base \in carved' \ freechunks'
                          /\ \A b \in Area : base'[b] # pg'[q].base
                          /\ \A r \in Page : Whole(r)' /\ pg'[r].base = pg'[q].base => q = r
        OBVIOUS
      <3>1. Whole(q) /\ pg'[q] = pg[q] /\ pg[q].base # base[a] /\ pg[q].base # None
        BY <1>0, <2>1, <2>2, NoneAssumption DEF TypeOK, Whole
      <3> QED BY <1>0, <1>2, <1>3, <1>6, <2>1, <3>1 DEF Owners
    <2> QED BY <2>3, <2>4, <2>5, <2>6 DEF Owners
  <1> QED BY <1>7, <1>8, <1>9 DEF Inv

LEMMA FreeChunkInv ==
    ASSUME Inv, NEW p \in Page, FreeChunk(p)
    PROVE  Inv'
  <1> USE DEF Inv
  <1>1. /\ Whole(p) /\ freechunks' = freechunks \cup {pg[p].base}
        /\ pg' = [pg EXCEPT ![p] = NoPage]
        /\ UNCHANGED <<order, base, freetab, areas, carved>>
    BY DEF FreeChunk, Whole
  <1>2. TagsMatchLists' /\ Placed' /\ FreeApart' /\ FreeHeldApart' /\ HeldApart'
    BY <1>1, GiveBack, SameBlocks DEF Buddied
  <1>3. pg[p].base \in Chunk /\ pg[p].base # None
    BY <1>1, NoneAssumption DEF TypeOK, Whole
  <1>4. TypeOK'
    BY <1>1, <1>3, GiveBack DEF TypeOK
  <1>5. Owners'
    <2>1. \A q \in Page : Whole(q)' => q # p /\ Whole(q) /\ pg'[q] = pg[q]
      BY <1>1, GiveBack DEF Whole
    <2> QED BY <1>1, <1>3, <2>1 DEF Owners
  <1> QED BY <1>2, <1>4, <1>5

LEMMA FreeMappedInv ==
    ASSUME Inv, NEW p \in Page, FreeMapped(p)
    PROVE  Inv'
  <1> USE DEF Inv
  <1>1. pg' = [pg EXCEPT ![p] = NoPage] /\ UNCHANGED <<order, base, freetab, freechunks, areas, carved>>
    BY DEF FreeMapped
  <1>2. TagsMatchLists' /\ Placed' /\ FreeApart' /\ FreeHeldApart' /\ HeldApart'
    BY <1>1, GiveBack, SameBlocks DEF Buddied
  <1>3. TypeOK'
    BY <1>1, GiveBack DEF TypeOK
  <1>4. Owners'
    <2>1. \A q \in Page : Whole(q)' => Whole(q) /\ pg'[q] = pg[q]
      BY <1>1, GiveBack DEF Whole
    <2> QED BY <1>1, <2>1 DEF Owners
  <1> QED BY <1>2, <1>3, <1>4
-----------------------------------------------------------------------------
(* The theorems. *)

\* Inv holds in every state of page_allocator.
THEOREM InvTheorem == Spec => []Inv
  <1>1. Inv /\ [Next]_vars => Inv'
    <2> SUFFICES ASSUME Inv, [Next]_vars PROVE Inv'
      OBVIOUS
    <2>1. CASE UNCHANGED vars
      <3>1. UNCHANGED <<order, base, freetab>> /\ \A q \in Page : Buddied(q)' => Buddied(q) /\ pg'[q] = pg[q]
        BY <2>1 DEF vars, Buddied
      <3>2. TagsMatchLists' /\ Placed' /\ FreeApart' /\ FreeHeldApart' /\ HeldApart'
        BY <3>1, SameBlocks
      <3> QED BY <2>1, <3>2 DEF vars, Inv, TypeOK, Owners, Whole
    <2>2. CASE Next
      <3>1. PICK p \in Page : Free(p) \/ \E size \in Requests : Alloc(p, size)
        BY <2>2 DEF Next
      <3>2. CASE Free(p)
        BY <3>2, FreeToListInv, FreeToAreaInv, FreeChunkInv, FreeMappedInv DEF Free
      <3>3. CASE \E size \in Requests : Alloc(p, size)
        <4>1. PICK size \in Requests : Alloc(p, size)
          BY <3>3
        <4> QED BY <4>1, AllocFromListInv, AllocFromChunkInv, AllocChunkInv, AllocMappedInv DEF Alloc
      <3> QED BY <3>1, <3>2, <3>3
    <2> QED BY <2>1, <2>2
  <1> QED BY <1>1, InitInv, PTL DEF Spec

\* The state of page_allocator keeps its type: in particular a held descriptor
\* always says where its memory is.
THEOREM TypeTheorem == Spec => []TypeOK
  <1>1. Inv => TypeOK
    BY DEF Inv
  <1> QED BY <1>1, InvTheorem, PTL

\* free unlinks a buddy on the word of its tag; the tag is always right.
THEOREM TagsTheorem == Spec => []TagsMatchLists
  <1>1. Inv => TagsMatchLists
    BY DEF Inv
  <1> QED BY <1>1, InvTheorem, PTL

LEMMA CellsCases ==
    ASSUME NEW p \in Page
    PROVE  /\ Buddied(p) => Cells(p) = {base[AreaOf(p)]} \X Block(NodeOf(p), pg[p].order_size)
           /\ ~Buddied(p) /\ Whole(p) => Cells(p) = {pg[p].base} \X Node
           /\ ~Buddied(p) /\ ~Whole(p) => Cells(p) = {}
  BY DEF Cells, Buddied, Whole

LEMMA InvDisjoint == Inv => LiveDisjoint
  <1> SUFFICES ASSUME Inv, NEW p \in Page, NEW q \in Page, p # q,
                      NEW x, x \in Cells(p), x \in Cells(q)
               PROVE  FALSE
    BY DEF LiveDisjoint
  <1>1. TypeOK /\ Placed /\ HeldApart /\ Owners
    BY DEF Inv
  <1>2. ASSUME NEW r \in Page, Buddied(r)
        PROVE  /\ AreaOf(r) \in Area /\ NodeOf(r) \in Nat /\ base[AreaOf(r)] # None
               /\ Span[pg[r].order_size] \in Nat
    <2>1. AreaOf(r) \in Area /\ NodeOf(r) \in Node /\ pg[r].order_size \in Lists
      BY <1>1, <1>2 DEF TypeOK, Buddied, AreaOf, NodeOf
    <2> QED BY <1>1, <1>2, <2>1, SpanType DEF Placed
  <1>3. CASE Buddied(p) /\ Buddied(q)
    <2>1. x[1] = base[AreaOf(p)] /\ x[1] = base[AreaOf(q)]
      BY <1>3, CellsCases
    <2>2. AreaOf(p) = AreaOf(q)
      BY <1>1, <1>2, <1>3, <2>1 DEF Owners
    <2>3. Apart(NodeOf(p), pg[p].order_size, NodeOf(q), pg[q].order_size)
      BY <1>1, <1>3, <2>2 DEF HeldApart
    <2>4. x[2] \in Block(NodeOf(p), pg[p].order_size) /\ x[2] \in Block(NodeOf(q), pg[q].order_size)
      BY <1>3, CellsCases
    <2> QED BY <1>2, <1>3, <2>3, <2>4 DEF Apart, Block
  <1>4. CASE Buddied(p) /\ Whole(q) /\ ~Buddied(q)
    BY <1>1, <1>2, <1>4, CellsCases DEF Owners
  <1>5. CASE Whole(p) /\ Buddied(q) /\ ~Buddied(p)
    BY <1>1, <1>2, <1>5, CellsCases DEF Owners
  <1>6. CASE Whole(p) /\ Whole(q) /\ ~Buddied(p) /\ ~Buddied(q)
    BY <1>1, <1>6, CellsCases DEF Owners
  <1>7. (Buddied(p) \/ Whole(p)) /\ (Buddied(q) \/ Whole(q))
    BY CellsCases
  <1> QED BY <1>3, <1>4, <1>5, <1>6, <1>7

\* No byte of a chunk is ever in two held pages.
THEOREM DisjointTheorem == Spec => []LiveDisjoint
  BY InvTheorem, InvDisjoint, PTL

CellsTyped == \A p \in Page : Cells(p) \subseteq Chunk \X Node

LEMMA CellsType == Inv => CellsTyped
  <1> SUFFICES ASSUME Inv, NEW p \in Page PROVE Cells(p) \subseteq Chunk \X Node
    BY DEF CellsTyped
  <1>1. TypeOK /\ Placed
    BY DEF Inv
  <1>2. CASE Buddied(p)
    <2>1. AreaOf(p) \in Area /\ NodeOf(p) \in Node /\ pg[p].order_size \in Lists
      BY <1>1, <1>2 DEF TypeOK, Buddied, AreaOf, NodeOf
    <2>2. base[AreaOf(p)] \in Chunk /\ NodeOf(p) % Span[pg[p].order_size] = 0
      BY <1>1, <1>2, <2>1 DEF TypeOK, Placed
    <2>3. pg[p].order_size \in Orders /\ Span[pg[p].order_size] \in Nat \ {0}
          /\ NodeOf(p) \in Nat /\ Span[MaxOrder] \in Nat
      BY <2>1, SpanType
    <2>4. NodeOf(p) + Span[pg[p].order_size] <= Span[MaxOrder]
      BY <2>1, <2>2, <2>3, BlockFits
    <2>5. Block(NodeOf(p), pg[p].order_size) \subseteq Node
      BY <2>3, <2>4 DEF Block, Node
    <2>6. Cells(p) = {base[AreaOf(p)]} \X Block(NodeOf(p), pg[p].order_size)
      BY <1>2, CellsCases
    <2> QED BY <2>2, <2>5, <2>6
  <1>3. CASE Whole(p) /\ ~Buddied(p)
    <2>1. Cells(p) = {pg[p].base} \X Node /\ pg[p].base \in Chunk
      BY <1>1, <1>3, CellsCases DEF TypeOK, Whole
    <2> QED BY <2>1
  <1>4. CASE ~Whole(p) /\ ~Buddied(p)
    BY <1>4, CellsCases
  <1> QED BY <1>2, <1>3, <1>4

\* A step changes the cells of one page at most.
LEMMA CellsKept ==
    ASSUME Inv, Inv', NEW p \in Page, Free(p) \/ \E size \in Requests : Alloc(p, size)
    PROVE  \A q \in Page : q # p => Cells(q)' = Cells(q)
  <1> SUFFICES ASSUME NEW q \in Page, q # p PROVE Cells(q)' = Cells(q)
    OBVIOUS
  <1>1. pg'[q] = pg[q]
    <2>1. \E d : pg' = [pg EXCEPT ![p] = d]
      <3>1. CASE Free(p)
        BY <3>1 DEF Free, FreeToList, FreeToArea, FreeChunk, FreeMapped
      <3>2. CASE \E size \in Requests : Alloc(p, size)
        <4>1. PICK size \in Requests : Alloc(p, size)
          BY <3>2
        <4>2. CASE AllocFromList(p, size)
          <5>1. \E k, norder, a, n : Split(p, a, n, norder, k)
            BY <4>2 DEF AllocFromList
          <5> QED BY <5>1 DEF Split
        <4>3. CASE AllocFromChunk(p, size)
          <5>1. \E k, a : Split(p, a, 0, MaxOrder, k)
            BY <4>3 DEF AllocFromChunk
          <5> QED BY <5>1 DEF Split
        <4>4. CASE AllocChunk(p, size)
          BY <4>4 DEF AllocChunk
        <4>5. CASE AllocMapped(p, size)
          BY <4>5 DEF AllocMapped
        <4> QED BY <4>1, <4>2, <4>3, <4>4, <4>5 DEF Alloc
      <3> QED BY <3>1, <3>2
    <2>2. q \in DOMAIN pg
      BY DEF Inv, TypeOK
    <2> QED BY <2>1, <2>2
  <1>2. /\ Buddied(q)' = Buddied(q) /\ Whole(q)' = Whole(q)
        /\ AreaOf(q)' = AreaOf(q) /\ NodeOf(q)' = NodeOf(q)
    BY <1>1 DEF Buddied, Whole, AreaOf, NodeOf
  \* An area that gets or loses its chunk holds no page of another client.
  <1>3. ASSUME Buddied(q) PROVE base'[AreaOf(q)] = base[AreaOf(q)]
    <2>1. AreaOf(q) \in Area /\ base[AreaOf(q)] # None /\ base'[AreaOf(q)] # None
      BY <1>1, <1>2, <1>3 DEF Inv, Placed, TypeOK, Buddied, AreaOf
    <2>2. CASE UNCHANGED base
      BY <2>2
    <2>3. CASE \E size \in Requests : AllocFromChunk(p, size)
      <3>1. PICK a \in Area, c \in Chunk : AreaAlloc(a, c)
        BY <2>3 DEF AllocFromChunk
      <3>2. base[a] = None /\ base' = [base EXCEPT ![a] = c]
        BY <3>1 DEF AreaAlloc, Inv, Owners
      <3> QED BY <2>1, <3>2
    <2>4. CASE FreeToArea(p)
      <3>1. base' = [base EXCEPT ![AreaOf(p)] = None] /\ AreaOf(p) \in Area
        BY <2>4 DEF FreeToArea, AreaOf, Inv, TypeOK
      <3>2. base'[AreaOf(p)] = None
        BY <3>1 DEF Inv, TypeOK
      <3> QED BY <2>1, <3>1, <3>2
    <2>5. UNCHANGED base \/ FreeToArea(p) \/ \E size \in Requests : AllocFromChunk(p, size)
      BY DEF Free, FreeToList, FreeChunk, FreeMapped, Alloc, AllocFromList, AllocChunk, AllocMapped
    <2> QED BY <2>2, <2>3, <2>4, <2>5
  <1>4. Cells(q)' = IF Buddied(q)' THEN {base'[AreaOf(q)']} \X Block(NodeOf(q)', pg'[q].order_size)
                    ELSE IF Whole(q)' THEN {pg'[q].base} \X Node ELSE {}
    BY DEF Cells, Block
  <1>5. CASE Buddied(q)
    BY <1>1, <1>2, <1>3, <1>4, <1>5, CellsCases
  <1>6. CASE ~Buddied(q)
    BY <1>1, <1>2, <1>4, <1>6, CellsCases
  <1> QED BY <1>5, <1>6

\* alloc and free implement PageStore: pages own disjoint memory, and alloc
\* and free change what one page owns and nothing else.
THEOREM RefinementTheorem == Spec => StoreSpec
  <1> USE DEF Store!Init, Store!Next, Store!Take, Store!Give
  <1>1. Init => Store!Init
    <2> SUFFICES ASSUME Init PROVE Live = [p \in Page |-> {}]
      OBVIOUS
    <2>1. \A p \in Page : ~Buddied(p) /\ ~Whole(p)
      BY NoPageType DEF Init, Buddied, Whole
    <2> QED BY <2>1, CellsCases DEF Live
  <1>2. Inv /\ Inv' /\ [Next]_vars => [Store!Next]_Live
    <2> SUFFICES ASSUME Inv, Inv', [Next]_vars PROVE [Store!Next]_Live
      OBVIOUS
    <2>1. CASE UNCHANGED vars
      BY <2>1 DEF vars, Live, Cells, Buddied, Whole, AreaOf, NodeOf, Block
    <2>2. CASE Next
      <3>1. PICK p \in Page : Free(p) \/ \E size \in Requests : Alloc(p, size)
        BY <2>2 DEF Next
      <3>2. /\ Live \in [Page -> SUBSET (Chunk \X Node)] /\ Live' \in [Page -> SUBSET (Chunk \X Node)]
            /\ \A q \in Page : Live[q] = Cells(q) /\ Live'[q] = Cells(q)'
        <4>1. \A q \in Page : Cells(q) \subseteq Chunk \X Node
          BY CellsType DEF CellsTyped
        <4>2. \A q \in Page : Cells(q)' \subseteq Chunk \X Node
          <5>1. (Inv => CellsTyped)'
            BY CellsType, PTL
          <5> QED BY <5>1 DEF CellsTyped
        <4> QED BY <4>1, <4>2 DEF Live
      <3>3. \A q \in Page : q # p => Live'[q] = Live[q]
        BY <3>1, <3>2, CellsKept
      <3>4. Live' = [Live EXCEPT ![p] = Live'[p]]
        BY <3>2, <3>3
      <3>5. Live[p] = {} \/ Live'[p] = {}
        <4>1. CASE Free(p)
          <5>1. pg' = [pg EXCEPT ![p] = NoPage] /\ TypeOK
            BY <4>1 DEF Free, FreeToList, FreeToArea, FreeChunk, FreeMapped, Inv
          <5>2. ~Buddied(p)' /\ ~Whole(p)'
            BY <5>1, GiveBack
          <5>3. Cells(p)' = {}
            BY <5>2 DEF Cells, Buddied, Whole
          <5> QED BY <3>2, <5>3
        <4>2. CASE \E size \in Requests : Alloc(p, size)
          <5>1. pg[p] = NoPage
            BY <4>2 DEF Alloc, AllocFromList, AllocFromChunk, AllocChunk, AllocMapped
          <5>2. ~Buddied(p) /\ ~Whole(p)
            BY <5>1, NoPageType DEF Buddied, Whole
          <5> QED BY <3>2, <5>2, CellsCases
        <4> QED BY <3>1, <4>1, <4>2
      <3>6. \A q \in Page : q # p => Live[q] \cap Live'[p] = {}
        <4> SUFFICES ASSUME NEW q \in Page, q # p PROVE Live[q] \cap Live'[p] = {}
          OBVIOUS
        <4>1. LiveDisjoint'
          <5>1. (Inv => LiveDisjoint)'
            BY InvDisjoint, PTL
          <5> QED BY <5>1
        <4>2. Cells(q)' \cap Cells(p)' = {}
          BY <4>1 DEF LiveDisjoint
        <4> QED BY <3>2, <3>3, <4>2
      <3>7. CASE Live'[p] = Live[p]
        <4>1. Live' = Live
          BY <3>2, <3>3, <3>7
        <4> QED BY <4>1
      <3>8. CASE Live'[p] # Live[p] /\ Live[p] = {}
        BY <3>2, <3>4, <3>6, <3>8
      <3>9. CASE Live'[p] # Live[p] /\ Live'[p] = {}
        BY <3>4, <3>9
      <3> QED BY <3>5, <3>7, <3>8, <3>9
    <2> QED BY <2>1, <2>2
  <1> QED BY <1>1, <1>2, InvTheorem, PTL DEF Spec, StoreSpec, Store!Spec

-----------------------------------------------------------------------------
(* Beyond Inv: the blocks of a split chunk tile it, no two buddies are free *)
(* together, a chunk is given back with its last page, and every chunk has  *)
(* one owner.                                                               *)

\* A block of order k headed by n, free or held.
HeldAs(p, a, n, k) ==
    Buddied(p) /\ AreaOf(p) = a /\ NodeOf(p) = n /\ pg[p].order_size = k

HeldBlock(a, n, k) == \E p \in Page : HeldAs(p, a, n, k)

Tile(a, n, k) == <<a, n>> \in freetab[k] \/ HeldBlock(a, n, k)

\* Every node of a split chunk is in a block.
Covered ==
    \A a \in Area, x \in Node : base[a] # None =>
        \E n \in Node, k \in Lists : Tile(a, n, k) /\ x \in Block(n, k)

\* No chunk is lost.
ChunksKept ==
    \A c \in carved :
        \/ c \in freechunks
        \/ \E a \in Area : base[a] = c
        \/ \E p \in Page : Whole(p) /\ pg[p].base = c

IInv == Inv /\ Covered /\ Coalesced /\ ChunksKept

-----------------------------------------------------------------------------
(* Heads and buddies. *)

\* The head of the block that a node lies in.
LEMMA HeadOfBlock ==
    ASSUME NEW k \in Orders, NEW h \in Node, h % Span[k] = 0,
           NEW x \in Node, x \in Block(h, k)
    PROVE  BlockHead(x, k) = h
  <1> DEFINE s == Span[k]
  <1>1. s \in Nat \ {0} /\ h \in Nat /\ x \in Nat
    BY SpanType
  <1>2. h <= x /\ x < h + s
    BY <1>1 DEF Block
  <1>3. h % s = 0 /\ BlockHead(x, k) = x - (x % s)
    BY DEF BlockHead
  <1> HIDE DEF s
  <1>4. PICK q \in Nat : h = s * q
    BY <1>1, <1>3, IsMultiple
  <1>5. x - h \in 0..(s - 1) /\ x = s * q + (x - h)
    BY <1>1, <1>2, <1>4
  <1>6. x % s = x - h
    <2> DEFINE r == x - h
    <2>1. r \in 0..(s - 1)
      BY <1>5
    <2>2. x = s * q + r
      BY <1>5
    <2>3. s \in Nat \ {0}
      BY <1>1
    <2> HIDE DEF r
    <2>4. (s * q + r) % s = r
      BY <2>1, <2>3, DivUnique
    <2>5. x % s = r
      BY <2>2, <2>4
    <2> QED BY <2>5 DEF r
  <1> QED BY <1>1, <1>3, <1>6

\* The blocks around a node are nested.
LEMMA HeadNested ==
    ASSUME NEW j \in Orders, NEW m \in Orders, j <= m, NEW n \in Node
    PROVE  /\ BlockHead(n, m) <= BlockHead(n, j)
           /\ BlockHead(n, j) + Span[j] <= BlockHead(n, m) + Span[m]
  <1> DEFINE S == {i \in Orders : /\ BlockHead(n, i) <= BlockHead(n, j)
                                  /\ BlockHead(n, j) + Span[j] <= BlockHead(n, i) + Span[i]}
  <1>1. j \in Nat /\ m \in Nat /\ Span[j] \in Nat /\ BlockHead(n, j) \in Nat
    <2>1. BlockHead(n, j) \in Node
      BY HeadType
    <2> QED BY <2>1, SpanType
  <1>2. j \in S
    BY <1>1
  <1>3. ASSUME NEW i \in j..(m - 1), i \in S PROVE i + 1 \in S
    <2>1. i \in Lists /\ i \in Orders /\ i + 1 \in Orders
      BY <1>1, OrderAssumption DEF Orders, Lists
    <2>2. Span[i] \in Nat /\ Span[i + 1] = 2 * Span[i]
      BY <2>1, SpanType
    <2>3. BlockHead(n, i) \in Nat /\ BlockHead(n, i + 1) \in Nat
      BY <2>1, HeadType, SpanType
    <2>4. BlockHead(n, i) = BlockHead(n, i + 1) \/ BlockHead(n, i) = BlockHead(n, i + 1) + Span[i]
      BY <2>1, HeadStep
    <2>5. BlockHead(n, i) <= BlockHead(n, j) /\ BlockHead(n, j) + Span[j] <= BlockHead(n, i) + Span[i]
      BY <1>3
    <2>6. BlockHead(n, i + 1) <= BlockHead(n, j) /\ BlockHead(n, j) + Span[j] <= BlockHead(n, i + 1) + Span[i + 1]
      BY <1>1, <2>2, <2>3, <2>4, <2>5
    <2> QED BY <2>1, <2>6
  <1> HIDE DEF S
  <1>4. \A i \in j..m : i \in S
    BY <1>1, <1>2, <1>3, IntervalInduction
  <1>5. m \in S
    BY <1>1, <1>4
  <1> QED BY <1>5 DEF S

\* The buddy of a block and the block are the halves of one block one order up.
LEMMA BuddyPair ==
    ASSUME NEW k \in Lists, NEW n \in Node, n % Span[k] = 0
    PROVE  /\ Buddy(n, k) \in Node /\ Buddy(n, k) % Span[k] = 0
           /\ Buddy(n, k) # n
           /\ BlockHead(Buddy(n, k), k + 1) = BlockHead(n, k + 1)
           /\ \/ n = BlockHead(n, k + 1) /\ Buddy(n, k) = BlockHead(n, k + 1) + Span[k]
              \/ Buddy(n, k) = BlockHead(n, k + 1) /\ n = BlockHead(n, k + 1) + Span[k]
  <1> DEFINE h == BlockHead(n, k + 1)
  <1>1. k \in Orders /\ k + 1 \in Orders /\ Span[k] \in Nat \ {0} /\ Span[k + 1] = 2 * Span[k]
    BY SpanType
  <1>2. BlockHead(n, k) = n
    BY <1>1, HeadType
  <1>3. /\ Buddy(n, k) \in Node /\ Buddy(n, k) % Span[k] = 0
        /\ \/ n = h /\ Buddy(n, k) = h + Span[k]
           \/ Buddy(n, k) = h /\ n = h + Span[k]
    BY <1>2, HeadStep DEF BuddyAt
  <1>4. h \in Node /\ h % Span[k + 1] = 0 /\ h \in Nat
    BY <1>1, HeadType, SpanType
  <1> HIDE DEF h
  <1>5. Buddy(n, k) \in Block(h, k + 1) /\ Buddy(n, k) # n
    BY <1>1, <1>3, <1>4 DEF Block
  <1>6. BlockHead(Buddy(n, k), k + 1) = h
    BY <1>1, <1>3, <1>4, <1>5, HeadOfBlock
  <1> QED BY <1>3, <1>5, <1>6 DEF h

\* The buddy of the buddy is the block.
LEMMA BuddyBack ==
    ASSUME NEW k \in Lists, NEW n \in Node, n % Span[k] = 0
    PROVE  Buddy(Buddy(n, k), k) = n
  <1> DEFINE b == Buddy(n, k)  h == BlockHead(n, k + 1)
  <1>1. k + 1 \in Orders /\ Span[k] \in Nat \ {0}
    BY SpanType
  <1>2. /\ b \in Node /\ b % Span[k] = 0 /\ BlockHead(b, k + 1) = h
        /\ (n = h /\ b = h + Span[k]) \/ (b = h /\ n = h + Span[k])
    BY BuddyPair
  <1>3. h \in Nat
    BY <1>1, HeadType, SpanType
  <1> HIDE DEF b
  <1>4. (b = h /\ Buddy(b, k) = h + Span[k]) \/ (Buddy(b, k) = h /\ b = h + Span[k])
    BY <1>2, BuddyPair
  <1> HIDE DEF h
  <1>5. Buddy(b, k) = n
    BY <1>1, <1>2, <1>3, <1>4
  <1> QED BY <1>5 DEF b

\* The half of order j cut off a block is the buddy of what is left of it.
LEMMA HalfBuddy ==
    ASSUME NEW n \in Node, NEW norder \in Orders, n % Span[norder] = 0,
           NEW j \in Lists, j < norder
    PROVE  Buddy(Half(n, j), j) = n
  <1>1. j + 1 \in Orders /\ j + 1 <= norder /\ j \in Orders /\ n \in Nat
        /\ Span[j] \in Nat \ {0} /\ Span[j + 1] = 2 * Span[j]
    BY SpanType
  <1>2. Half(n, j) \in Node /\ Half(n, j) % Span[j] = 0
    BY HalfPlaced
  <1>3. n % Span[j + 1] = 0
    BY <1>1, AlignedDown
  <1>4. Half(n, j) = n + Span[j] /\ Half(n, j) \in Block(n, j + 1)
    BY <1>1 DEF Half, Block
  <1>5. BlockHead(Half(n, j), j + 1) = n
    BY <1>1, <1>2, <1>3, <1>4, HeadOfBlock
  <1> QED BY <1>1, <1>2, <1>4, <1>5, BuddyPair

-----------------------------------------------------------------------------
(* What a split and a merge leave of the blocks. *)

\* A split replaces the block by the page and the halves.
LEMMA SplitTiles ==
    ASSUME TypeOK, NEW p \in Page, NEW a \in Area, NEW n \in Node,
           NEW norder \in Orders, NEW k \in Lists, k <= norder,
           n % Span[norder] = 0, pg[p] = NoPage, Split(p, a, n, norder, k)
    PROVE  /\ \A b \in Area, x \in Node, j \in Lists :
                Tile(b, x, j) /\ ~(b = a /\ x = n /\ j = norder) => Tile(b, x, j)'
           /\ Tile(a, n, k)'
           /\ \A j \in Lists : k <= j /\ j < norder => Tile(a, Half(n, j), j)'
           /\ Buddied(p)' /\ AreaOf(p)' = a
           /\ \A q \in Page : q # p => pg'[q] = pg[q]
  <1>1. /\ pg'[p] = [order_size |-> k, base |-> <<a, n>>]
        /\ \A q \in Page : q # p => pg'[q] = pg[q]
    BY DEF Split, TypeOK
  <1>2. ~Buddied(p)
    BY NoPageType DEF Buddied
  <1>3. Buddied(p)' /\ AreaOf(p)' = a /\ NodeOf(p)' = n /\ pg'[p].order_size = k
    BY <1>1 DEF HeldAs, Buddied, AreaOf, NodeOf
  <1>4. HeldBlock(a, n, k)'
    BY <1>3 DEF HeldBlock, HeldAs
  <1>5. ASSUME NEW b \in Area, NEW x \in Node, NEW j \in Lists, HeldBlock(b, x, j)
        PROVE  HeldBlock(b, x, j)'
    <2>1. PICK q \in Page : HeldAs(q, b, x, j)
      BY <1>5 DEF HeldBlock
    <2>2. pg'[q] = pg[q]
      BY <1>1, <1>2, <2>1 DEF HeldAs
    <2>3. HeldAs(q, b, x, j)'
      BY <2>1, <2>2 DEF HeldAs, Buddied, AreaOf, NodeOf
    <2> QED BY <2>3 DEF HeldBlock
  <1>6. ASSUME NEW b \in Area, NEW x \in Node, NEW j \in Lists,
               <<b, x>> \in freetab[j], ~(b = a /\ x = n /\ j = norder)
        PROVE  <<b, x>> \in freetab'[j]
    BY <1>6, SplitLists
  <1>7. ASSUME NEW j \in Lists, k <= j, j < norder
        PROVE  <<a, Half(n, j)>> \in freetab'[j]
    <2>1. Half(n, j) \in Node
      BY <1>7, HalfPlaced
    <2> QED BY <1>7, <2>1, SplitLists
  <1> QED BY <1>1, <1>3, <1>4, <1>5, <1>6, <1>7 DEF Tile

\* Each node of the block is in the page or in one of the halves.
LEMMA SplitBlock ==
    ASSUME NEW n \in Node, NEW norder \in Orders, NEW k \in Lists, k <= norder,
           NEW x \in Block(n, norder)
    PROVE  \/ x \in Block(n, k)
           \/ \E j \in Lists : k <= j /\ j < norder /\ x \in Block(Half(n, j), j)
  <1> DEFINE S == {j \in k..norder : x < n + Span[j]}
  <1>1. k \in Nat /\ norder \in Nat /\ n \in Nat /\ k..norder \subseteq Orders
    BY OrderAssumption, SpanType DEF Orders, Lists
  <1>2. \A j \in k..norder : Span[j] \in Nat \ {0}
    BY <1>1, SpanType
  <1>3. n <= x /\ x < n + Span[norder] /\ x \in Nat
    BY <1>1, <1>2 DEF Block
  <1>4. norder \in S /\ S \subseteq Nat
    BY <1>1, <1>3
  <1>5. PICK j \in S : \A i \in S : j <= i
    BY <1>4, LeastElement
  <1>6. CASE j = k
    BY <1>1, <1>2, <1>3, <1>5, <1>6 DEF Block
  <1>7. CASE j # k
    <2>1. j - 1 \in k..norder /\ j - 1 \notin S /\ j - 1 < norder /\ j - 1 >= k
      BY <1>1, <1>5, <1>7
    <2>2. n + Span[j - 1] <= x
      BY <1>1, <1>2, <1>3, <2>1
    <2>3. j - 1 \in Lists
      BY <2>1, OrderAssumption DEF Lists, Orders
    <2>4. Span[j] = 2 * Span[j - 1] /\ Span[j - 1] \in Nat
      <3>1. (j - 1) + 1 = j
        BY <1>1, <1>5
      <3> QED BY <2>3, <3>1, SpanType
    <2>5. x < n + Span[j]
      BY <1>5
    <2>6. x \in Block(Half(n, j - 1), j - 1)
      BY <1>1, <1>3, <2>2, <2>4, <2>5 DEF Block, Half
    <2> QED BY <2>1, <2>3, <2>6
  <1> QED BY <1>6, <1>7

\* The split loses no node of the block.
LEMMA SplitCovered ==
    ASSUME TypeOK, Covered, NEW p \in Page, NEW a \in Area, NEW n \in Node,
           NEW norder \in Orders, NEW k \in Lists, k <= norder,
           n % Span[norder] = 0, pg[p] = NoPage, Split(p, a, n, norder, k),
           \A b \in Area : b # a => base'[b] = base[b],
           base[a] # None \/ Block(n, norder) = Node
    PROVE  Covered'
  <1> SUFFICES ASSUME NEW b \in Area, NEW x \in Node, base'[b] # None
               PROVE  \E y \in Node, j \in Lists : Tile(b, y, j)' /\ x \in Block(y, j)
    BY DEF Covered, Block
  <1>1. CASE b = a /\ x \in Block(n, norder)
    <2>1. CASE x \in Block(n, k)
      BY <1>1, <2>1, SplitTiles
    <2>2. CASE \E j \in Lists : k <= j /\ j < norder /\ x \in Block(Half(n, j), j)
      <3>1. PICK j \in Lists : k <= j /\ j < norder /\ x \in Block(Half(n, j), j)
        BY <2>2
      <3>2. Half(n, j) \in Node
        BY <3>1, HalfPlaced
      <3>3. Tile(a, Half(n, j), j)'
        BY <3>1, SplitTiles
      <3> QED BY <1>1, <3>1, <3>2, <3>3
    <2> QED BY <1>1, <2>1, <2>2, SplitBlock
  <1>2. CASE ~(b = a /\ x \in Block(n, norder))
    <2>1. base[b] # None
      BY <1>2
    <2>2. PICK y \in Node, j \in Lists : Tile(b, y, j) /\ x \in Block(y, j)
      BY <2>1 DEF Covered
    <2>3. ~(b = a /\ y = n /\ j = norder)
      BY <1>2, <2>2
    <2>4. Tile(b, y, j)'
      BY <2>2, <2>3, SplitTiles
    <2> QED BY <2>2, <2>4
  <1> QED BY <1>1, <1>2

\* A split leaves no half beside a free buddy.
LEMMA SplitCoalesced ==
    ASSUME Inv, Coalesced, NEW p \in Page, NEW a \in Area, NEW n \in Node,
           NEW norder \in Orders, NEW k \in Lists, k <= norder,
           n % Span[norder] = 0, Split(p, a, n, norder, k), TagsMatchLists', Placed'
    PROVE  Coalesced'
  <1>0. TypeOK /\ Placed
    BY DEF Inv
  <1>1. freetab' \in [Lists -> SUBSET (Area \X Node)]
    BY <1>0, SplitLists
  <1>2. \A j \in Lists : <<a, n>> \notin freetab'[j]
    <2>1. order'[a][n] = 0
      BY <1>0, SplitTags
    <2>2. 0 \notin Lists
      BY OrderAssumption DEF Lists
    <2> QED BY <2>1, <2>2 DEF TagsMatchLists
  <1> SUFFICES ASSUME NEW j \in Lists, NEW b \in Area, NEW x \in Node, <<b, x>> \in freetab'[j],
                      <<b, Buddy(x, j)>> \in freetab'[j]
               PROVE  FALSE
    BY <1>1 DEF Coalesced, Buddy
  <1>3. x % Span[j] = 0
    BY DEF Placed
  <1>4. Buddy(x, j) \in Node /\ Buddy(Buddy(x, j), j) = x
    BY <1>3, BuddyPair, BuddyBack
  <1>5. \A y \in Node : <<b, y>> \in freetab'[j] =>
            \/ <<b, y>> \in freetab[j]
            \/ b = a /\ j < norder /\ y = Half(n, j)
    BY <1>0, SplitLists
  <1>6. CASE <<b, x>> \in freetab[j] /\ <<b, Buddy(x, j)>> \in freetab[j]
    BY <1>6 DEF Coalesced
  <1>7. CASE b = a /\ j < norder /\ x = Half(n, j)
    BY <1>2, <1>7, HalfBuddy
  <1>8. CASE b = a /\ j < norder /\ Buddy(x, j) = Half(n, j)
    BY <1>2, <1>4, <1>8, HalfBuddy
  <1> QED BY <1>4, <1>5, <1>6, <1>7, <1>8

\* A merge takes the page and the buddies away, all inside the merged block,
\* and leaves every other block.
LEMMA MergeTiles ==
    ASSUME Inv, NEW p \in Page, NEW a \in Area, NEW n \in Node, NEW k \in Lists,
           HeldAs(p, a, n, k),
           NEW m \in Orders, k <= m, Merge(a, n, k, m), pg' = [pg EXCEPT ![p] = NoPage]
    PROVE  \A b \in Area, x \in Node, j \in Lists : Tile(b, x, j) =>
                \/ Tile(b, x, j)'
                \/ b = a /\ BlockHead(n, m) <= x /\ x + Span[j] <= BlockHead(n, m) + Span[m]
  <1> SUFFICES ASSUME NEW b \in Area, NEW x \in Node, NEW j \in Lists, Tile(b, x, j)
               PROVE  \/ Tile(b, x, j)'
                      \/ b = a /\ BlockHead(n, m) <= x /\ x + Span[j] <= BlockHead(n, m) + Span[m]
    OBVIOUS
  <1>0. TypeOK /\ n % Span[k] = 0
    BY DEF Inv, Placed, HeldAs
  <1>1. k \in Orders /\ j \in Orders
    BY SpanType
  <1>2. CASE <<b, x>> \in freetab[j] /\ ~(b = a /\ k <= j /\ j < m /\ x = BuddyAt(n, j))
    BY <1>0, <1>2, MergeLists DEF Tile
  <1>3. CASE b = a /\ k <= j /\ j < m /\ x = BuddyAt(n, j)
    <2>1. j + 1 \in Orders /\ j + 1 <= m /\ Span[j] \in Nat \ {0} /\ Span[j + 1] = 2 * Span[j]
      BY <1>3, SpanType
    <2>2. BlockHead(n, j + 1) \in Node /\ BlockHead(n, m) \in Node
      BY <2>1, HeadType
    <2>3. BlockHead(n, j + 1) \in Nat /\ BlockHead(n, m) \in Nat /\ Span[m] \in Nat
      BY <2>2, SpanType
    <2>4. BlockHead(n, m) <= BlockHead(n, j + 1) /\ BlockHead(n, j + 1) + Span[j + 1] <= BlockHead(n, m) + Span[m]
      BY <2>1, HeadNested
    <2>5. x = BlockHead(n, j + 1) \/ x = BlockHead(n, j + 1) + Span[j]
      BY <1>3, HeadStep
    <2> QED BY <1>3, <2>1, <2>3, <2>4, <2>5
  <1>4. CASE HeldBlock(b, x, j)
    <2>1. PICK q \in Page : HeldAs(q, b, x, j)
      BY <1>4 DEF HeldBlock
    <2>2. CASE q = p
      <3>1. b = a /\ x = n /\ j = k
        BY <2>1, <2>2 DEF HeldAs
      <3>2. BlockHead(n, k) = n
        BY <1>0, <1>1, HeadType
      <3> QED BY <1>1, <3>1, <3>2, HeadNested
    <2>3. CASE q # p
      <3>1. pg'[q] = pg[q]
        BY <1>0, <2>3, GiveBack
      <3>2. HeldAs(q, b, x, j)'
        BY <2>1, <3>1 DEF HeldAs, Buddied, AreaOf, NodeOf
      <3>3. HeldBlock(b, x, j)'
        BY <3>2 DEF HeldBlock
      <3> QED BY <3>3 DEF Tile
    <2> QED BY <2>2, <2>3
  <1> QED BY <1>2, <1>3, <1>4 DEF Tile

\* The merge loses no node, when the merged block goes on a list.
LEMMA MergeCovered ==
    ASSUME Inv, Covered, NEW p \in Page, NEW a \in Area, NEW n \in Node, NEW k \in Lists,
           HeldAs(p, a, n, k),
           NEW m \in Orders, k <= m, Merge(a, n, k, m), pg' = [pg EXCEPT ![p] = NoPage],
           \A b \in Area : b # a => base'[b] = base[b],
           base'[a] # None => m \in Lists /\ base[a] # None
    PROVE  Covered'
  <1> SUFFICES ASSUME NEW b \in Area, NEW x \in Node, base'[b] # None
               PROVE  \E y \in Node, j \in Lists : Tile(b, y, j)' /\ x \in Block(y, j)
    BY DEF Covered, Block
  <1>0. TypeOK
    BY DEF Inv
  <1>1. base[b] # None
    OBVIOUS
  <1>2. PICK y \in Node, j \in Lists : Tile(b, y, j) /\ x \in Block(y, j)
    BY <1>1 DEF Covered
  <1>3. CASE Tile(b, y, j)'
    BY <1>2, <1>3
  <1>4. CASE b = a /\ BlockHead(n, m) <= y /\ y + Span[j] <= BlockHead(n, m) + Span[m]
    <2>1. m \in Lists
      BY <1>4
    <2>2. BlockHead(n, m) \in Node
      BY HeadType
    <2>3. <<a, BlockHead(n, m)>> \in freetab'[m]
      BY <1>0, <2>1, <2>2, MergeLists
    <2>4. x \in Block(BlockHead(n, m), m)
      <3>1. BlockHead(n, m) \in Nat /\ Span[m] \in Nat /\ Span[j] \in Nat /\ y \in Nat /\ x \in Nat
        BY <2>2, SpanType
      <3>2. y <= x /\ x < y + Span[j]
        BY <1>2, <3>1 DEF Block
      <3> QED BY <1>4, <3>1, <3>2 DEF Block
    <2> QED BY <1>4, <2>1, <2>2, <2>3, <2>4 DEF Tile
  <1>5. \A c \in Area, z \in Node, i \in Lists : Tile(c, z, i) =>
            \/ Tile(c, z, i)'
            \/ c = a /\ BlockHead(n, m) <= z /\ z + Span[i] <= BlockHead(n, m) + Span[m]
    BY MergeTiles
  <1> QED BY <1>2, <1>3, <1>4, <1>5

\* A merge that ends because the next buddy is not free leaves no two buddies free.
LEMMA MergeCoalesced ==
    ASSUME Inv, Coalesced, NEW a \in Area, NEW n \in Node, NEW k \in Lists,
           NEW m \in Orders, k <= m, Merge(a, n, k, m), Placed',
           m \in Lists => ~BuddyFree(a, n, m)
    PROVE  Coalesced'
  <1>0. TypeOK /\ TagsMatchLists
    BY DEF Inv
  <1>1. freetab' \in [Lists -> SUBSET (Area \X Node)]
    BY <1>0, MergeLists
  <1> SUFFICES ASSUME NEW j \in Lists, NEW b \in Area, NEW x \in Node, <<b, x>> \in freetab'[j],
                      <<b, Buddy(x, j)>> \in freetab'[j]
               PROVE  FALSE
    BY <1>1 DEF Coalesced, Buddy
  <1>2. x % Span[j] = 0
    BY DEF Placed
  <1>3. Buddy(x, j) \in Node /\ Buddy(x, j) # x /\ Buddy(Buddy(x, j), j) = x
    BY <1>2, BuddyPair, BuddyBack
  <1>4. \A y \in Node : <<b, y>> \in freetab'[j] =>
            \/ <<b, y>> \in freetab[j]
            \/ b = a /\ j = m /\ y = BlockHead(n, m)
    BY <1>0, MergeLists
  <1>5. m \in Lists => <<a, Buddy(BlockHead(n, m), m)>> \notin freetab[m]
    BY <1>0, HeadStep DEF BuddyFree, BuddyAt, TagsMatchLists
  <1>6. CASE <<b, x>> \in freetab[j] /\ <<b, Buddy(x, j)>> \in freetab[j]
    BY <1>6 DEF Coalesced
  <1>7. CASE b = a /\ j = m /\ x = BlockHead(n, m)
    BY <1>3, <1>4, <1>5, <1>7
  <1>8. CASE b = a /\ j = m /\ Buddy(x, j) = BlockHead(n, m)
    BY <1>3, <1>4, <1>5, <1>8
  <1> QED BY <1>3, <1>4, <1>6, <1>7, <1>8

\* What hands out or takes back no block leaves the blocks and their areas alone.
LEMMA SameTiles ==
    ASSUME Covered, Coalesced, UNCHANGED <<base, freetab>>,
           \A q \in Page : Buddied(q) => pg'[q] = pg[q]
    PROVE  Covered' /\ Coalesced'
  <1>1. Coalesced'
    BY DEF Coalesced, Buddy
  <1>2. ASSUME NEW b \in Area, NEW x \in Node, NEW j \in Lists, Tile(b, x, j)
        PROVE  Tile(b, x, j)'
    <2>1. CASE <<b, x>> \in freetab[j]
      BY <2>1 DEF Tile
    <2>2. CASE HeldBlock(b, x, j)
      <3>1. PICK q \in Page : HeldAs(q, b, x, j)
        BY <2>2 DEF HeldBlock
      <3>2. HeldAs(q, b, x, j)'
        BY <3>1 DEF HeldAs, Buddied, AreaOf, NodeOf
      <3>3. HeldBlock(b, x, j)'
        BY <3>2 DEF HeldBlock
      <3> QED BY <3>3 DEF Tile
    <2> QED BY <1>2, <2>1, <2>2 DEF Tile
  <1>3. Covered'
    <2> SUFFICES ASSUME NEW b \in Area, NEW x \in Node, base'[b] # None
                 PROVE  \E y \in Node, j \in Lists : Tile(b, y, j)' /\ x \in Block(y, j)
      BY DEF Covered, Block
    <2>1. PICK y \in Node, j \in Lists : Tile(b, y, j) /\ x \in Block(y, j)
      BY DEF Covered
    <2> QED BY <1>2, <2>1
  <1> QED BY <1>1, <1>3

-----------------------------------------------------------------------------
(* IInv is inductive: one lemma per action. *)

LEMMA InitTiling == Init => IInv
  <1> SUFFICES ASSUME Init PROVE IInv
    OBVIOUS
  <1>1. Inv
    BY InitInv
  <1>2. Covered /\ Coalesced /\ ChunksKept
    BY DEF Init, Covered, Coalesced, ChunksKept
  <1> QED BY <1>1, <1>2 DEF IInv

LEMMA AllocFromListTiling ==
    ASSUME IInv, NEW p \in Page, NEW size \in Requests, AllocFromList(p, size)
    PROVE  IInv'
  <1>0. Inv /\ TypeOK /\ Placed /\ Covered /\ Coalesced /\ ChunksKept
    BY DEF IInv, Inv
  <1>1. PICK k \in Lists : \E norder \in k..(MaxOrder - 1), a \in Area, n \in Node :
            <<a, n>> \in freetab[norder] /\ Split(p, a, n, norder, k)
    <2>1. size \in Nat /\ size <= Pages[MaxOrder - 1]
      BY OrderAssumption DEF AllocFromList
    <2>2. OrderFor(size) \in Lists
      BY <2>1, OrderForFits
    <2> QED BY <2>2 DEF AllocFromList
  <1>2. PICK norder \in k..(MaxOrder - 1), a \in Area, n \in Node :
            <<a, n>> \in freetab[norder] /\ Split(p, a, n, norder, k)
    BY <1>1
  <1>3. norder \in Lists /\ norder \in Orders /\ k <= norder
    BY OrderAssumption DEF Lists, Orders
  <1>4. pg[p] = NoPage /\ UNCHANGED <<base, freechunks, areas, carved>>
    BY DEF AllocFromList
  <1>5. Inv' /\ TagsMatchLists' /\ Placed'
    <2>1. Inv'
      BY <1>0, AllocFromListInv
    <2> QED BY <2>1 DEF Inv
  <1>6. n % Span[norder] = 0 /\ base[a] # None
    BY <1>0, <1>2, <1>3 DEF Placed
  <1>7. Covered'
    BY <1>0, <1>2, <1>3, <1>4, <1>6, SplitCovered
  <1>8. Coalesced'
    BY <1>0, <1>2, <1>3, <1>5, <1>6, SplitCoalesced
  <1>9. ChunksKept'
    <2>1. \A q \in Page : q # p => pg'[q] = pg[q]
      BY <1>0, <1>2, <1>3, <1>4, <1>6, SplitTiles
    <2>2. ~Whole(p)
      BY <1>4, NoPageType DEF Whole
    <2>3. \A q \in Page : Whole(q) => Whole(q)' /\ pg'[q] = pg[q]
      BY <2>1, <2>2 DEF Whole
    <2> QED BY <1>0, <1>4, <2>3 DEF ChunksKept
  <1> QED BY <1>5, <1>7, <1>8, <1>9 DEF IInv

LEMMA AllocFromChunkTiling ==
    ASSUME IInv, NEW p \in Page, NEW size \in Requests, AllocFromChunk(p, size)
    PROVE  IInv'
  <1>0. Inv /\ TypeOK /\ Placed /\ Owners /\ Covered /\ Coalesced /\ ChunksKept
    BY DEF IInv, Inv
  <1>1. PICK k \in Lists, a \in Area, c \in Chunk :
            ChunkAlloc(c) /\ AreaAlloc(a, c) /\ Split(p, a, 0, MaxOrder, k)
    <2>1. size \in Nat /\ size <= Pages[MaxOrder - 1]
      BY OrderAssumption DEF AllocFromChunk
    <2>2. OrderFor(size) \in Lists
      BY <2>1, OrderForFits
    <2> QED BY <2>2 DEF AllocFromChunk
  <1>2. pg[p] = NoPage
    BY DEF AllocFromChunk
  <1>3. Inv' /\ TagsMatchLists' /\ Placed'
    <2>1. Inv'
      BY <1>0, AllocFromChunkInv
    <2> QED BY <2>1 DEF Inv
  <1>4. 0 % Span[MaxOrder] = 0 /\ 0 \in Node /\ MaxOrder \in Orders /\ k <= MaxOrder
    <2>1. 0 % Span[MaxOrder] = 0
      BY SpanType, MultipleRem
    <2> QED BY <2>1, OrderAssumption, SpanType DEF Lists
  <1>5. base[a] = None /\ base' = [base EXCEPT ![a] = c]
    BY <1>0, <1>1 DEF AreaAlloc, Owners
  <1>6. base'[a] = c /\ \A b \in Area : b # a => base'[b] = base[b]
    BY <1>0, <1>5 DEF TypeOK
  <1>7. Covered'
    <2>1. Block(0, MaxOrder) = Node
      BY SpanType DEF Block, Node
    <2> QED BY <1>0, <1>1, <1>2, <1>4, <1>6, <2>1, SplitCovered
  <1>8. Coalesced'
    BY <1>0, <1>1, <1>3, <1>4, SplitCoalesced
  <1>9. ChunksKept'
    <2>1. \A q \in Page : q # p => pg'[q] = pg[q]
      BY <1>0, <1>1, <1>2, <1>4, SplitTiles
    <2>2. ~Whole(p)
      BY <1>2, NoPageType DEF Whole
    <2>3. \A q \in Page : Whole(q) => Whole(q)' /\ pg'[q] = pg[q]
      BY <2>1, <2>2 DEF Whole
    <2>4. carved' \subseteq carved \cup {c} /\ freechunks \subseteq freechunks' \cup {c}
      BY <1>1 DEF ChunkAlloc
    <2>5. \A d \in Chunk : d # c /\ (\E b \in Area : base[b] = d) => \E b \in Area : base'[b] = d
      BY <1>5, <1>6, NoneAssumption
    <2>6. carved \subseteq Chunk
      BY <1>0 DEF TypeOK
    <2>7. ASSUME NEW d \in carved' PROVE
                \/ d \in freechunks'
                \/ \E b \in Area : base'[b] = d
                \/ \E q \in Page : Whole(q)' /\ pg'[q].base = d
      <3>1. CASE d = c
        BY <1>6, <3>1
      <3>2. CASE d # c
        <4>1. d \in carved /\ d \in Chunk
          BY <2>4, <2>6, <3>2
        <4>2. CASE d \in freechunks
          BY <2>4, <3>2, <4>2
        <4>3. CASE \E b \in Area : base[b] = d
          BY <2>5, <3>2, <4>1, <4>3
        <4>4. CASE \E q \in Page : Whole(q) /\ pg[q].base = d
          BY <2>3, <4>4
        <4> QED BY <1>0, <4>1, <4>2, <4>3, <4>4 DEF ChunksKept
      <3> QED BY <3>1, <3>2
    <2> QED BY <2>7 DEF ChunksKept
  <1> QED BY <1>3, <1>7, <1>8, <1>9 DEF IInv

LEMMA AllocChunkTiling ==
    ASSUME IInv, NEW p \in Page, NEW size \in Requests, AllocChunk(p, size)
    PROVE  IInv'
  <1>0. Inv /\ TypeOK /\ Covered /\ Coalesced /\ ChunksKept
    BY DEF IInv, Inv
  <1>1. PICK c \in Chunk :
            ChunkAlloc(c) /\ pg' = [pg EXCEPT ![p] = [order_size |-> MaxOrder, base |-> c]]
    BY DEF AllocChunk
  <1>2. pg[p] = NoPage /\ UNCHANGED <<order, base, freetab, areas>> /\ ~Buddied(p) /\ ~Whole(p)
    BY NoPageType DEF AllocChunk, Buddied, Whole
  <1>3. pg'[p] = [order_size |-> MaxOrder, base |-> c] /\ \A q \in Page : q # p => pg'[q] = pg[q]
    BY <1>0, <1>1 DEF TypeOK
  <1>4. Inv'
    BY <1>0, AllocChunkInv
  <1>5. Covered' /\ Coalesced'
    BY <1>0, <1>2, <1>3, SameTiles
  <1>6. ChunksKept'
    <2>1. carved' \subseteq carved \cup {c} /\ freechunks \subseteq freechunks' \cup {c}
      BY <1>1 DEF ChunkAlloc
    <2>2. \A q \in Page : Whole(q) => Whole(q)' /\ pg'[q] = pg[q]
      BY <1>2, <1>3 DEF Whole
    <2>3. Whole(p)' /\ pg'[p].base = c
      BY <1>3 DEF Whole
    <2> QED BY <1>0, <1>2, <2>1, <2>2, <2>3 DEF ChunksKept
  <1> QED BY <1>4, <1>5, <1>6 DEF IInv

LEMMA AllocMappedTiling ==
    ASSUME IInv, NEW p \in Page, NEW size \in Requests, AllocMapped(p, size)
    PROVE  IInv'
  <1>0. Inv /\ TypeOK /\ Covered /\ Coalesced /\ ChunksKept
    BY DEF IInv, Inv
  <1>1. /\ pg[p] = NoPage /\ ~Buddied(p) /\ ~Whole(p)
        /\ UNCHANGED <<order, base, freetab, freechunks, areas, carved>>
    BY NoPageType DEF AllocMapped, Buddied, Whole
  <1>2. \A q \in Page : q # p => pg'[q] = pg[q]
    BY <1>0 DEF AllocMapped, TypeOK
  <1>3. Inv'
    BY <1>0, AllocMappedInv
  <1>4. Covered' /\ Coalesced'
    BY <1>0, <1>1, <1>2, SameTiles
  <1>5. ChunksKept'
    <2>1. \A q \in Page : Whole(q) => Whole(q)' /\ pg'[q] = pg[q]
      BY <1>1, <1>2 DEF Whole
    <2> QED BY <1>0, <1>1, <2>1 DEF ChunksKept
  <1> QED BY <1>3, <1>4, <1>5 DEF IInv

LEMMA FreeToListTiling ==
    ASSUME IInv, NEW p \in Page, FreeToList(p)
    PROVE  IInv'
  <1>0. Inv /\ TypeOK /\ Placed /\ Covered /\ Coalesced /\ ChunksKept
    BY DEF IInv, Inv
  <1>1. PICK a \in Area, n \in Node, k \in Lists : HeldAs(p, a, n, k)
    BY <1>0 DEF FreeToList, TypeOK, Buddied, AreaOf, NodeOf, HeldAs
  <1>2. PICK m \in k..(MaxOrder - 1) : ~BuddyFree(a, n, m) /\ Merge(a, n, k, m)
    BY <1>1 DEF FreeToList, AreaOf, NodeOf, HeldAs
  <1>3. pg' = [pg EXCEPT ![p] = NoPage] /\ UNCHANGED <<base, freechunks, areas, carved>>
    BY DEF FreeToList
  <1>4. m \in Orders /\ m \in Lists /\ k <= m
    BY <1>1, OrderAssumption DEF Lists, Orders
  <1>5. base[a] # None
    BY <1>0, <1>1 DEF Placed, HeldAs
  <1>6. Inv' /\ Placed'
    <2>1. Inv'
      BY <1>0, FreeToListInv
    <2> QED BY <2>1 DEF Inv
  <1>7. Covered'
    BY <1>0, <1>1, <1>2, <1>3, <1>4, <1>5, MergeCovered
  <1>8. Coalesced'
    BY <1>0, <1>2, <1>4, <1>6, MergeCoalesced
  <1>9. ChunksKept'
    <2>1. ~Whole(p)
      BY <1>1, OrderAssumption DEF HeldAs, Whole, Lists
    <2>2. \A q \in Page : Whole(q) => Whole(q)' /\ pg'[q] = pg[q]
      BY <1>0, <1>3, <2>1, GiveBack DEF Whole
    <2> QED BY <1>0, <1>3, <2>2 DEF ChunksKept
  <1> QED BY <1>6, <1>7, <1>8, <1>9 DEF IInv

LEMMA FreeToAreaTiling ==
    ASSUME IInv, NEW p \in Page, FreeToArea(p)
    PROVE  IInv'
  <1>0. Inv /\ TypeOK /\ Placed /\ Covered /\ Coalesced /\ ChunksKept
    BY DEF IInv, Inv
  <1>1. PICK a \in Area, n \in Node, k \in Lists : HeldAs(p, a, n, k)
    BY <1>0 DEF FreeToArea, TypeOK, Buddied, AreaOf, NodeOf, HeldAs
  <1>2. /\ Merge(a, n, k, MaxOrder)
        /\ freechunks' = freechunks \cup {base[a]}
        /\ base' = [base EXCEPT ![a] = None]
    BY <1>1 DEF FreeToArea, AreaOf, NodeOf, HeldAs
  <1>3. pg' = [pg EXCEPT ![p] = NoPage] /\ UNCHANGED carved
    BY DEF FreeToArea
  <1>4. MaxOrder \in Orders /\ MaxOrder \notin Lists /\ k <= MaxOrder
    BY <1>1, OrderAssumption DEF Lists, Orders
  <1>5. base'[a] = None /\ \A b \in Area : b # a => base'[b] = base[b]
    BY <1>0, <1>2 DEF TypeOK
  <1>6. Inv' /\ Placed'
    <2>1. Inv'
      BY <1>0, FreeToAreaInv
    <2> QED BY <2>1 DEF Inv
  <1>7. Covered'
    BY <1>0, <1>1, <1>2, <1>3, <1>4, <1>5, MergeCovered
  <1>8. Coalesced'
    BY <1>0, <1>2, <1>4, <1>6, MergeCoalesced
  <1>9. ChunksKept'
    <2>1. ~Whole(p)
      BY <1>1, OrderAssumption DEF HeldAs, Whole, Lists
    <2>2. \A q \in Page : Whole(q) => Whole(q)' /\ pg'[q] = pg[q]
      BY <1>0, <1>3, <2>1, GiveBack DEF Whole
    <2>3. \A c \in carved : (\E b \in Area : base[b] = c) =>
                c \in freechunks' \/ \E b \in Area : base'[b] = c
      BY <1>2, <1>5
    <2> QED BY <1>0, <1>2, <1>3, <2>2, <2>3 DEF ChunksKept
  <1> QED BY <1>6, <1>7, <1>8, <1>9 DEF IInv

LEMMA FreeChunkTiling ==
    ASSUME IInv, NEW p \in Page, FreeChunk(p)
    PROVE  IInv'
  <1>0. Inv /\ TypeOK /\ Covered /\ Coalesced /\ ChunksKept
    BY DEF IInv, Inv
  <1>1. /\ Whole(p) /\ ~Buddied(p) /\ freechunks' = freechunks \cup {pg[p].base}
        /\ pg' = [pg EXCEPT ![p] = NoPage]
        /\ UNCHANGED <<order, base, freetab, areas, carved>>
    BY OrderAssumption DEF FreeChunk, Whole, Buddied, Lists
  <1>2. \A q \in Page : q # p => pg'[q] = pg[q]
    BY <1>0, <1>1, GiveBack
  <1>3. Inv'
    BY <1>0, FreeChunkInv
  <1>4. Covered' /\ Coalesced'
    BY <1>0, <1>1, <1>2, SameTiles
  <1>5. ChunksKept'
    <2>1. \A q \in Page : Whole(q) /\ q # p => Whole(q)' /\ pg'[q] = pg[q]
      BY <1>2 DEF Whole
    <2> QED BY <1>0, <1>1, <2>1 DEF ChunksKept
  <1> QED BY <1>3, <1>4, <1>5 DEF IInv

LEMMA FreeMappedTiling ==
    ASSUME IInv, NEW p \in Page, FreeMapped(p)
    PROVE  IInv'
  <1>0. Inv /\ TypeOK /\ Covered /\ Coalesced /\ ChunksKept
    BY DEF IInv, Inv
  <1>1. /\ ~Whole(p) /\ ~Buddied(p)
        /\ pg' = [pg EXCEPT ![p] = NoPage]
        /\ UNCHANGED <<order, base, freetab, freechunks, areas, carved>>
    <2>1. pg[p].order_size > MaxOrder /\ pg[p].order_size \in Nat
      BY <1>0 DEF FreeMapped, TypeOK
    <2> QED BY <2>1, OrderAssumption DEF FreeMapped, Whole, Buddied, Lists
  <1>2. \A q \in Page : q # p => pg'[q] = pg[q]
    BY <1>0, <1>1, GiveBack
  <1>3. Inv'
    BY <1>0, FreeMappedInv
  <1>4. Covered' /\ Coalesced'
    BY <1>0, <1>1, <1>2, SameTiles
  <1>5. ChunksKept'
    <2>1. \A q \in Page : Whole(q) => Whole(q)' /\ pg'[q] = pg[q]
      BY <1>1, <1>2 DEF Whole
    <2> QED BY <1>0, <1>1, <2>1 DEF ChunksKept
  <1> QED BY <1>3, <1>4, <1>5 DEF IInv

-----------------------------------------------------------------------------
(* What IInv says. *)

\* Blocks that share a node are not apart.
LEMMA SharedNotApart ==
    ASSUME NEW n \in Node, NEW k \in Lists, NEW m \in Node, NEW l \in Lists,
           NEW x \in Node, x \in Block(n, k), x \in Block(m, l)
    PROVE  ~Apart(n, k, m, l)
  <1>1. n \in Nat /\ m \in Nat /\ x \in Nat /\ Span[k] \in Nat /\ Span[l] \in Nat
    BY SpanType
  <1> QED BY <1>1 DEF Block, Apart

LEMMA OneFree ==
    ASSUME Inv, NEW a \in Area, NEW x \in Node,
           NEW n \in Node, NEW k \in Lists, <<a, n>> \in freetab[k], x \in Block(n, k),
           NEW m \in Node, NEW l \in Lists, <<a, m>> \in freetab[l], x \in Block(m, l)
    PROVE  n = m /\ k = l
  <1>1. n = m
    BY SharedNotApart DEF Inv, FreeApart
  <1>2. order[a][n] = k /\ order[a][m] = l
    BY DEF Inv, TagsMatchLists
  <1> QED BY <1>1, <1>2

LEMMA InvTiling == Inv /\ Covered => Tiling
  <1> SUFFICES ASSUME Inv, Covered, NEW a \in Area, NEW x \in Node, base[a] # None
               PROVE  Cardinality({b \in Node \X Lists :
                            <<a, b[1]>> \in freetab[b[2]] /\ x \in Block(b[1], b[2])})
                        + Cardinality({p \in Page : Buddied(p) /\ AreaOf(p) = a
                            /\ x \in Block(NodeOf(p), pg[p].order_size)}) = 1
    BY DEF Tiling
  <1> DEFINE F == {b \in Node \X Lists :
                        <<a, b[1]>> \in freetab[b[2]] /\ x \in Block(b[1], b[2])}
             G == {p \in Page : Buddied(p) /\ AreaOf(p) = a
                        /\ x \in Block(NodeOf(p), pg[p].order_size)}
  <1>0. TypeOK /\ FreeHeldApart /\ HeldApart
    BY DEF Inv
  <1>1. \A p \in G : p \in Page /\ Buddied(p) /\ AreaOf(p) = a /\ NodeOf(p) \in Node
                        /\ pg[p].order_size \in Lists /\ x \in Block(NodeOf(p), pg[p].order_size)
    BY <1>0 DEF TypeOK, Buddied, AreaOf, NodeOf
  <1>2. \A b, c \in F : b = c
    <2> SUFFICES ASSUME NEW b \in F, NEW c \in F PROVE b = c
      OBVIOUS
    <2>1. b[1] = c[1] /\ b[2] = c[2]
      BY OneFree
    <2> QED BY <2>1
  <1>3. \A b \in F, p \in G : FALSE
    <2> SUFFICES ASSUME NEW b \in F, NEW p \in G PROVE FALSE
      OBVIOUS
    <2>1. Apart(b[1], b[2], NodeOf(p), pg[p].order_size)
      BY <1>0, <1>1 DEF FreeHeldApart
    <2> QED BY <1>1, <2>1, SharedNotApart
  <1>4. \A p, q \in G : p = q
    <2> SUFFICES ASSUME NEW p \in G, NEW q \in G, p # q PROVE FALSE
      OBVIOUS
    <2>1. Apart(NodeOf(p), pg[p].order_size, NodeOf(q), pg[q].order_size)
      BY <1>0, <1>1 DEF HeldApart
    <2> QED BY <1>1, <2>1, SharedNotApart
  <1>5. F # {} \/ G # {}
    <2>1. PICK n \in Node, k \in Lists : Tile(a, n, k) /\ x \in Block(n, k)
      BY DEF Covered
    <2>2. CASE <<a, n>> \in freetab[k]
      <3>1. <<n, k>> \in F
        BY <2>1, <2>2
      <3> QED BY <3>1
    <2>3. CASE HeldBlock(a, n, k)
      <3>1. PICK p \in Page : HeldAs(p, a, n, k)
        BY <2>3 DEF HeldBlock
      <3>2. p \in G
        BY <2>1, <3>1 DEF HeldAs
      <3> QED BY <3>2
    <2> QED BY <2>1, <2>2, <2>3 DEF Tile
  <1> HIDE DEF F, G
  <1>6. CASE F # {}
    <2>1. PICK b \in F : F = {b}
      <3>1. PICK b \in F : TRUE
        BY <1>6
      <3>2. F = {b}
        BY <1>2
      <3> QED BY <3>2
    <2>2. G = {}
      BY <1>3, <1>6
    <2>3. Cardinality(F) = 1 /\ Cardinality(G) = 0
      BY <2>1, <2>2, FS_Singleton, FS_EmptySet
    <2> QED BY <2>3 DEF F, G
  <1>7. CASE F = {}
    <2>1. PICK p : G = {p}
      BY <1>4, <1>5, <1>7
    <2>2. Cardinality(F) = 0 /\ Cardinality(G) = 1
      BY <1>7, <2>1, FS_Singleton, FS_EmptySet
    <2> QED BY <2>2 DEF F, G
  <1> QED BY <1>6, <1>7

\* A chunk with no page held would be tiled by free blocks; the buddy of a
\* smallest one could be neither in a free block as small nor in a larger one.
LEMMA InvReclaimed == Inv /\ Covered /\ Coalesced => Reclaimed
  <1> SUFFICES ASSUME Inv, Covered, Coalesced, NEW a \in Area, base[a] # None,
                      \A p \in Page : ~(Buddied(p) /\ AreaOf(p) = a)
               PROVE  FALSE
    BY DEF Reclaimed
  <1> DEFINE S == {k \in Lists : \E n \in Node : <<a, n>> \in freetab[k]}
  <1>0. TypeOK /\ Placed
    BY DEF Inv
  <1>1. \A x \in Node : \E n \in Node, k \in Lists : <<a, n>> \in freetab[k] /\ x \in Block(n, k)
    <2> SUFFICES ASSUME NEW x \in Node
                 PROVE  \E n \in Node, k \in Lists : <<a, n>> \in freetab[k] /\ x \in Block(n, k)
      OBVIOUS
    <2>1. PICK n \in Node, k \in Lists : Tile(a, n, k) /\ x \in Block(n, k)
      BY DEF Covered
    <2>2. ~HeldBlock(a, n, k)
      BY DEF HeldBlock, HeldAs
    <2> QED BY <2>1, <2>2 DEF Tile
  <1>2. S \subseteq Nat /\ S # {}
    BY <1>1, SpanType
  <1>3. PICK k \in S : \A l \in S : k <= l
    BY <1>2, LeastElement
  <1>4. PICK n \in Node : <<a, n>> \in freetab[k]
    BY <1>3
  <1> DEFINE y == Buddy(n, k)  h == BlockHead(n, k + 1)
  <1>5. k \in Lists /\ k \in Orders /\ k + 1 \in Orders /\ k \in Nat
    BY <1>3, SpanType
  <1>6. n % Span[k] = 0
    BY <1>0, <1>4, <1>5 DEF Placed
  <1>7. /\ y \in Node /\ y % Span[k] = 0 /\ BlockHead(y, k + 1) = h
        /\ n = h \/ n = h + Span[k]
    BY <1>5, <1>6, BuddyPair
  <1>8. PICK z \in Node, l \in Lists : <<a, z>> \in freetab[l] /\ y \in Block(z, l)
    BY <1>1, <1>7
  <1>9. l \in S /\ k <= l /\ l \in Orders /\ l \in Nat /\ z % Span[l] = 0
    BY <1>0, <1>3, <1>8, SpanType DEF Placed
  <1>10. BlockHead(y, l) = z
    BY <1>7, <1>8, <1>9, HeadOfBlock
  <1>11. CASE l = k
    <2>1. z = y
      BY <1>5, <1>7, <1>10, <1>11, HeadType
    <2> QED BY <1>4, <1>5, <1>8, <1>11, <2>1 DEF Coalesced
  <1>12. CASE k < l
    <2>1. z <= h /\ h + Span[k + 1] <= z + Span[l]
      <3>1. k + 1 <= l
        BY <1>5, <1>9, <1>12
      <3> QED BY <1>5, <1>7, <1>9, <1>10, <3>1, HeadNested
    <2>2. n \in Block(z, l) /\ n \in Block(n, k)
      <3>1. Span[k] \in Nat \ {0} /\ Span[k + 1] = 2 * Span[k] /\ n \in Nat /\ z \in Nat /\ Span[l] \in Nat
        BY <1>5, <1>9, SpanType
      <3>2. h \in Nat
        BY <1>5, HeadType, SpanType
      <3> QED BY <1>7, <2>1, <3>1, <3>2 DEF Block
    <2>3. k = l
      BY <1>4, <1>5, <1>8, <2>2, OneFree
    <2> QED BY <1>5, <1>12, <2>3
  <1> QED BY <1>5, <1>9, <1>11, <1>12

LEMMA InvChunkOwned == Inv /\ ChunksKept => ChunkOwned
  <1> SUFFICES ASSUME Inv, ChunksKept PROVE ChunkOwned
    OBVIOUS
  <1>0. TypeOK /\ Owners
    BY DEF Inv
  <1> SUFFICES ASSUME NEW c \in carved
               PROVE  Cardinality({a \in Area : base[a] = c})
                        + Cardinality({p \in Page : Whole(p) /\ pg[p].base = c})
                        + (IF c \in freechunks THEN 1 ELSE 0) = 1
    BY <1>0 DEF ChunkOwned, Owners
  <1> DEFINE A == {a \in Area : base[a] = c}
             P == {p \in Page : Whole(p) /\ pg[p].base = c}
  <1>1. c # None
    BY <1>0, NoneAssumption DEF TypeOK
  <1>2. (\A a, b \in A : a = b) /\ (\A p, q \in P : p = q)
    BY <1>0, <1>1 DEF Owners
  <1>3. /\ A # {} => c \notin freechunks /\ P = {}
        /\ P # {} => c \notin freechunks /\ A = {}
    BY <1>0, <1>1 DEF Owners
  <1>4. c \in freechunks \/ A # {} \/ P # {}
    BY DEF ChunksKept
  <1> HIDE DEF A, P
  <1>5. A = {} \/ \E a : A = {a}
    BY <1>2
  <1>6. P = {} \/ \E p : P = {p}
    BY <1>2
  <1>7. (A = {} => Cardinality(A) = 0) /\ (A # {} => Cardinality(A) = 1)
    BY <1>5, FS_Singleton, FS_EmptySet
  <1>8. (P = {} => Cardinality(P) = 0) /\ (P # {} => Cardinality(P) = 1)
    BY <1>6, FS_Singleton, FS_EmptySet
  <1>9. Cardinality(A) + Cardinality(P) + (IF c \in freechunks THEN 1 ELSE 0) = 1
    BY <1>3, <1>4, <1>7, <1>8
  <1> QED BY <1>9 DEF A, P

-----------------------------------------------------------------------------
(* The theorems. *)

\* Beyond Inv: no node of a split chunk is lost, no two buddies are free
\* together, and no chunk is lost, in every state of page_allocator.
THEOREM IInvTheorem == Spec => []IInv
  <1>1. IInv /\ [Next]_vars => IInv'
    <2> SUFFICES ASSUME IInv, [Next]_vars PROVE IInv'
      OBVIOUS
    <2>0. Inv /\ Covered /\ Coalesced /\ ChunksKept
      BY DEF IInv
    <2>1. CASE UNCHANGED vars
      <3>1. Covered' /\ Coalesced'
        BY <2>0, <2>1, SameTiles DEF vars
      <3>2. ChunksKept'
        BY <2>0, <2>1 DEF vars, ChunksKept, Whole
      <3>3. UNCHANGED <<order, base, freetab>> /\ \A q \in Page : Buddied(q)' => Buddied(q) /\ pg'[q] = pg[q]
        BY <2>1 DEF vars, Buddied
      <3>4. TagsMatchLists' /\ Placed' /\ FreeApart' /\ FreeHeldApart' /\ HeldApart'
        BY <2>0, <3>3, SameBlocks
      <3>5. Inv'
        BY <2>0, <2>1, <3>4 DEF vars, Inv, TypeOK, Owners, Whole
      <3> QED BY <3>1, <3>2, <3>5 DEF IInv
    <2>2. CASE Next
      <3>1. PICK p \in Page : Free(p) \/ \E size \in Requests : Alloc(p, size)
        BY <2>2 DEF Next
      <3>2. CASE Free(p)
        BY <3>2, FreeToListTiling, FreeToAreaTiling, FreeChunkTiling, FreeMappedTiling DEF Free
      <3>3. CASE \E size \in Requests : Alloc(p, size)
        <4>1. PICK size \in Requests : Alloc(p, size)
          BY <3>3
        <4> QED BY <4>1, AllocFromListTiling, AllocFromChunkTiling, AllocChunkTiling, AllocMappedTiling DEF Alloc
      <3> QED BY <3>1, <3>2, <3>3
    <2> QED BY <2>1, <2>2
  <1> QED BY <1>1, InitTiling, PTL DEF Spec

\* Every node of a split chunk is in exactly one free block or held page.
THEOREM TilingTheorem == Spec => []Tiling
  <1>1. IInv => Tiling
    BY InvTiling DEF IInv
  <1> QED BY <1>1, IInvTheorem, PTL

\* free merges all that can be merged: no two buddies are ever free together.
THEOREM CoalescedTheorem == Spec => []Coalesced
  <1>1. IInv => Coalesced
    BY DEF IInv
  <1> QED BY <1>1, IInvTheorem, PTL

\* The last free of a chunk's pages gives the chunk and its area back.
THEOREM ReclaimedTheorem == Spec => []Reclaimed
  <1>1. IInv => Reclaimed
    BY InvReclaimed DEF IInv
  <1> QED BY <1>1, IInvTheorem, PTL

\* A chunk cut from the segments has exactly one owner at any time.
THEOREM ChunkOwnedTheorem == Spec => []ChunkOwned
  <1>1. IInv => ChunkOwned
    BY InvChunkOwned DEF IInv
  <1> QED BY <1>1, IInvTheorem, PTL

-----------------------------------------------------------------------------
(* What alloc hands out. *)

\* alloc hands out a page that holds the size asked for and, unless it is as
\* small as pages get, is less than twice that: the entries of ordertab are right
\* for every size that reaches it, and no page is mapped whose bytes free would
\* take for an order.
THEOREM AllocFitsTheorem == Spec => AllocFits
  <1> DEFINE Fits(p, size) ==
        LET got == pg'[p].order_size IN
        /\ size * PageBytes <= Extent(got)
        /\ got # MinOrder => Extent(got) < 2 * (size * PageBytes)
  <1>0. PageBytes \in Nat \ {0} /\ Requests \subseteq Nat
    BY OrderAssumption
  <1>1. ASSUME Inv, NEW p \in Page, NEW size \in Requests, Alloc(p, size)
        PROVE  Fits(p, size)
    <2>0. TypeOK /\ size \in Nat
      BY <1>0, <1>1 DEF Inv
    \* A page of an order fits if its system pages do.
    <2>1. ASSUME NEW k \in Orders, pg'[p].order_size = k, size <= Pages[k],
                 k # MinOrder => Pages[k] < 2 * size
          PROVE  Fits(p, size)
      <3>1. Extent(k) = Pages[k] * PageBytes /\ Pages[k] \in Nat
        BY PagesAre DEF Extent
      <3>2. ASSUME NEW x \in Nat, size <= x, k # MinOrder => x < 2 * size
            PROVE  /\ size * PageBytes <= x * PageBytes
                   /\ k # MinOrder => x * PageBytes < 2 * (size * PageBytes)
        <4>1. size * PageBytes <= x * PageBytes
          BY <1>0, <2>0, <3>2, TimesLeq
        <4>2. ASSUME x < 2 * size PROVE x * PageBytes < 2 * (size * PageBytes)
          <5>1. x + 1 <= 2 * size /\ x + 1 \in Nat /\ 2 * size \in Nat
            BY <2>0, <4>2
          <5>2. (x + 1) * PageBytes <= (2 * size) * PageBytes
            BY <1>0, <5>1, TimesLeq
          <5>3. (x + 1) * PageBytes = x * PageBytes + PageBytes
            BY <1>0
          <5>4. (2 * size) * PageBytes = 2 * (size * PageBytes)
            BY <1>0, <2>0
          <5>5. x * PageBytes \in Nat /\ size * PageBytes \in Nat
            BY <1>0, <2>0
          <5> QED BY <1>0, <5>2, <5>3, <5>4, <5>5
        <4> QED BY <3>2, <4>1, <4>2
      <3> QED BY <2>1, <3>1, <3>2
    <2>2. ASSUME NEW a, NEW n, size <= Pages[MaxOrder - 1],
                 pg' = [pg EXCEPT ![p] = [order_size |-> OrderFor(size), base |-> <<a, n>>]]
          PROVE  Fits(p, size)
      <3>1. pg'[p].order_size = OrderFor(size)
        BY <2>0, <2>2 DEF TypeOK
      <3>2. OrderFor(size) \in Orders
        BY <2>0, <2>2, OrderForFits, SpanType
      <3> QED BY <2>0, <2>1, <2>2, <3>1, <3>2, OrderForFits
    <2>3. CASE AllocFromList(p, size)
      BY <2>2, <2>3 DEF AllocFromList, Split
    <2>4. CASE AllocFromChunk(p, size)
      BY <2>2, <2>4 DEF AllocFromChunk, Split
    <2>5. CASE AllocChunk(p, size)
      <3>1. pg'[p].order_size = MaxOrder /\ size = Pages[MaxOrder]
        BY <2>0, <2>5 DEF AllocChunk, TypeOK
      <3>2. MaxOrder \in Orders /\ Pages[MaxOrder] \in Nat \ {0}
        BY SpanType, PagesAre
      <3> QED BY <2>1, <3>1, <3>2
    <2>6. CASE AllocMapped(p, size)
      <3> DEFINE bytes == size * PageBytes
      <3>1. pg'[p].order_size = bytes
        BY <2>0, <2>6 DEF AllocMapped, TypeOK
      <3>2. bytes \in Nat /\ bytes > MaxOrder
        BY <2>0, <2>6, MappedBytes
      <3> HIDE DEF bytes
      <3>3. bytes \notin Orders /\ bytes > 0
        BY <3>2, OrderAssumption DEF Orders
      <3>4. Extent(bytes) = bytes
        BY <3>3 DEF Extent
      <3>5. bytes <= Extent(bytes) /\ Extent(bytes) < 2 * bytes
        BY <3>2, <3>3, <3>4
      <3> QED BY <3>1, <3>5 DEF bytes
    <2> QED BY <1>1, <2>3, <2>4, <2>5, <2>6 DEF Alloc
  <1>2. Inv /\ [Next]_vars =>
            [\A p \in Page, size \in Requests :
                (pg[p] = NoPage /\ pg'[p] # NoPage /\ Alloc(p, size)) => Fits(p, size)]_vars
    BY <1>1
  <1> QED BY <1>2, InvTheorem, PTL DEF Spec, AllocFits
=============================================================================
