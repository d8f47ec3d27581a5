----------------------------- MODULE PoolProofs -----------------------------
(***************************************************************************)
(* Proofs about Pool: the rings stay ordered and apart through every       *)
(* alloc, vsprintf, clear and _delete, no page is lost between them, and   *)
(* pools implement Arena.                                                  *)
(***************************************************************************)
EXTENDS Pool, Lemmas

-----------------------------------------------------------------------------
(* The inductive invariant. *)

\* A ring: no page twice, none over-full, and those behind the active one in the
\* order of the units they have free, which their index tells.
RingOK(ring) ==
    /\ ring \in Seq(PageState) \ {<<>>}
    /\ \A i \in 1..Len(ring) : ring[i].fill <= Cap[ring[i].page]
    /\ \A i, j \in 1..Len(ring) : ring[i].page = ring[j].page => i = j
    /\ \A i \in 2..Len(ring) : ring[i].index = Units(Space(ring[i]))
    /\ \A i, j \in 2..Len(ring) : i < j => ring[i].index >= ring[j].index

\* The rest is stated of pools po as a step finds or leaves them.
AliveIn(po) == {p \in Pool : po[p] # None}

PoolsIn(po) ==
    /\ po \in [Pool -> PoolState \cup {None}]
    /\ \A p \in AliveIn(po) :
        /\ RingOK(po[p].ring) /\ IsInjective(po[p].todo)
        /\ po[p].self \in PagesOf(po[p].ring) /\ Header <= Cap[po[p].self]

TreeIn(po) ==
    \A p \in AliveIn(po) :
        /\ po[p].parent \in AliveIn(po) \cup {None}
        /\ ToSet(po[p].children) = {q \in AliveIn(po) : po[q].parent = p}
        /\ IsInjective(po[p].children)

\* No pool is above itself.
ClosedIn(po, U) == \A q \in U \cap AliveIn(po) : po[q].parent \in U \cup {None}
AcyclicIn(po) ==
    \A p \in AliveIn(po) : po[p].parent # None =>
        \E U \in SUBSET Pool : ClosedIn(po, U) /\ po[p].parent \in U /\ p \notin U

\* A call under way is not of a pool at or above that of an outer call.
InnerIn(po, st) ==
    \A i \in 1..Len(st) : \E U \in SUBSET Pool :
        /\ ClosedIn(po, U) /\ st[i].pool \notin U
        /\ \A j \in (i + 1)..Len(st) : st[j].pool \in U
CallsIn(po, st) ==
    /\ st \in Seq([op : {"clear", "delete"}, pool : AliveIn(po), calling : BOOLEAN])
    /\ InnerIn(po, st)

\* The pages are those of the rings and of the string under way, each once.
FreshOf(o) == IF o = None THEN <<>> ELSE o.fresh
RingPages(po) == UNION {PagesOf(po[p].ring) : p \in AliveIn(po)}
OwnedIn(po, fresh, tk) ==
    /\ \A p, q \in AliveIn(po) : p # q => PagesOf(po[p].ring) \cap PagesOf(po[q].ring) = {}
    /\ IsInjective(fresh) /\ RingPages(po) \cap ToSet(fresh) = {}
    /\ tk = RingPages(po) \cup ToSet(fresh)

\* While a string is written nothing is cleared or deleted.
StringIn(po, st, o) ==
    /\ o \in StringState \cup {None}
    /\ o # None => o.pool \in AliveIn(po) /\ ~(st # <<>> /\ ~Head(st).calling)

IInv ==
    /\ PoolsIn(pool) /\ TreeIn(pool) /\ AcyclicIn(pool)
    /\ CallsIn(pool, stack) /\ StringIn(pool, stack, out)
    /\ OwnedIn(pool, FreshOf(out), taken) /\ taken \subseteq Page

-----------------------------------------------------------------------------
(* Rings. *)

LEMMA UnitsNat ==
    ASSUME NEW n \in Nat
    PROVE  Units(n) \in Nat
  <1>1. Unit \in Nat \ {0}
    BY SizeAssumption
  <1> QED BY <1>1, DivMod DEF Units

\* More space has no fewer units.
LEMMA UnitsMono ==
    ASSUME NEW m \in Nat, NEW n \in Nat, m <= n
    PROVE  Units(m) <= Units(n)
  <1> DEFINE a == m \div Unit  b == n \div Unit
  <1>1. Unit \in Nat \ {0}
    BY SizeAssumption
  <1>2. /\ a \in Nat /\ m % Unit \in 0..(Unit - 1) /\ m = Unit * a + (m % Unit)
        /\ b \in Nat /\ n % Unit \in 0..(Unit - 1) /\ n = Unit * b + (n % Unit)
    BY <1>1, DivMod
  <1> DEFINE x == m % Unit  y == n % Unit
  <1> HIDE DEF a, b, x, y
  <1>3. ~(b < a)
    <2> SUFFICES ASSUME b < a PROVE FALSE
      OBVIOUS
    <2>1. Unit * b + Unit <= Unit * a
      BY <1>1, <1>2, MulMono
    <2>2. Unit * b \in Nat /\ Unit * a \in Nat /\ x \in 0..(Unit - 1) /\ y \in 0..(Unit - 1)
          /\ m = Unit * a + x /\ n = Unit * b + y
      BY <1>1, <1>2 DEF x, y
    <2> DEFINE c == Unit * a  d == Unit * b
    <2> HIDE DEF c, d
    <2>3. d + Unit <= c /\ c \in Nat /\ d \in Nat /\ m = c + x /\ n = d + y
      BY <2>1, <2>2 DEF c, d
    <2> QED BY <1>1, <2>2, <2>3
  <1> QED BY <1>2, <1>3 DEF Units, a, b

LEMMA RingType ==
    ASSUME NEW ring, RingOK(ring)
    PROVE  /\ ring \in Seq(PageState) /\ Len(ring) \in Nat \ {0} /\ DOMAIN ring = 1..Len(ring)
           /\ \A i \in 1..Len(ring) :
                /\ ring[i] \in PageState
                /\ ring[i].page \in Page /\ ring[i].fill \in Nat /\ ring[i].index \in Nat
                /\ Cap[ring[i].page] \in Nat /\ Space(ring[i]) \in Nat
           /\ \A pg : pg \in PagesOf(ring) <=> \E i \in 1..Len(ring) : ring[i].page = pg
  <1>1. ring \in Seq(PageState) /\ Len(ring) \in Nat \ {0} /\ DOMAIN ring = 1..Len(ring)
    BY EmptySeq, LenProperties DEF RingOK
  <1>2. ASSUME NEW i \in 1..Len(ring)
        PROVE  /\ ring[i] \in PageState
               /\ ring[i].page \in Page /\ ring[i].fill \in Nat /\ ring[i].index \in Nat
               /\ Cap[ring[i].page] \in Nat /\ Space(ring[i]) \in Nat
    <2>1. ring[i] \in PageState
      BY <1>1, ElementOfSeq
    <2>2. ring[i].page \in Page /\ ring[i].fill \in Nat /\ ring[i].index \in Nat
      BY <2>1 DEF PageState
    <2>3. Cap[ring[i].page] \in Nat
      BY <2>2, SizeAssumption
    <2>4. ring[i].fill <= Cap[ring[i].page]
      BY DEF RingOK
    <2> QED BY <2>1, <2>2, <2>3, <2>4 DEF Space
  <1> QED BY <1>1, <1>2 DEF PagesOf

\* A position of a sequence with x in front.
LEMMA ConsPlaces ==
    ASSUME NEW S, NEW s \in Seq(S), NEW x \in S
    PROVE  /\ <<x>> \o s \in Seq(S) /\ <<x>> \o s # <<>>
           /\ Len(<<x>> \o s) = Len(s) + 1
           /\ \A j \in 1..(Len(s) + 1) : (<<x>> \o s)[j] = IF j = 1 THEN x ELSE s[j - 1]
  <1>1. Len(s) \in Nat
    BY LenProperties
  <1>2. <<x>> \in Seq(S) /\ Len(<<x>>) = 1 /\ <<x>>[1] = x
    OBVIOUS
  <1> DEFINE t == <<x>>
  <1>3. t \in Seq(S) /\ Len(t) = 1 /\ t[1] = x
    BY <1>2
  <1> HIDE DEF t
  <1>4. /\ t \o s \in Seq(S) /\ Len(t \o s) = 1 + Len(s)
        /\ \A i \in 1..(1 + Len(s)) : (t \o s)[i] = IF i <= 1 THEN t[i] ELSE s[i - 1]
    BY <1>3, ConcatProperties
  <1>5. t \o s # <<>>
    BY <1>1, <1>4
  <1>6. \A j \in 1..(Len(s) + 1) : (t \o s)[j] = IF j = 1 THEN x ELSE s[j - 1]
    BY <1>1, <1>3, <1>4
  <1> QED BY <1>1, <1>4, <1>5, <1>6 DEF t

\* A page put into a sequence of pages.
LEMMA InsertedPage ==
    ASSUME NEW s \in Seq(PageState), NEW e \in PageState, NEW i \in 1..(Len(s) + 1)
    PROVE  /\ InsertAt(s, i, e) \in Seq(PageState)
           /\ Len(InsertAt(s, i, e)) = Len(s) + 1
           /\ \A j \in 1..(Len(s) + 1) :
                 InsertAt(s, i, e)[j] = IF j < i THEN s[j] ELSE IF j = i THEN e ELSE s[j - 1]
  BY InsertAtProps

\* The places of a ring after new was linked in front: the page that was active comes
\* to place k + 1, behind those with more free units.
PlaceOld(ring, new, k, r) ==
    /\ r \in Seq(PageState) /\ r # <<>> /\ Len(r) = Len(ring) + 1
    /\ \A j \in 1..(Len(ring) + 1) :
          r[j] = IF j = 1 THEN [new EXCEPT !.index = 0]
                 ELSE IF j <= k THEN ring[j]
                 ELSE IF j = k + 1 THEN [ring[1] EXCEPT !.index = Units(Space(ring[1]))]
                 ELSE ring[j - 1]
    /\ \A j \in 2..k : ring[j].index > Units(Space(ring[1]))
    /\ \A j \in (k + 1)..Len(ring) : ring[j].index <= Units(Space(ring[1]))

LEMMA LinkedIs ==
    ASSUME NEW ring, RingOK(ring), NEW new \in PageState
    PROVE  \E k \in 1..Len(ring) : PlaceOld(ring, new, k, Linked(new, ring))
  <1> DEFINE L == Len(ring)
             first == [new EXCEPT !.index = 0]
             u == Units(Space(ring[1]))
             old == [ring[1] EXCEPT !.index = u]
             tail == Tail(ring)
             others == Append(tail, first)
             K == {i \in DOMAIN others : others[i].index <= old.index}
             k == Min(K)
             r == <<first>> \o InsertAt(tail, k, old)
  <1>0. Linked(new, ring) = r
    BY DEF Linked
  <1>1. /\ ring \in Seq(PageState) /\ ring # <<>> /\ L \in Nat \ {0} /\ 1 \in 1..L
        /\ ring[1] \in PageState /\ Space(ring[1]) \in Nat
    BY RingType DEF RingOK
  <1>2. first \in PageState /\ first.index = 0
    BY DEF PageState
  <1>3. u \in Nat
    BY <1>1, UnitsNat
  <1>4. old \in PageState /\ old.index = u
    <2> HIDE DEF u
    <2> QED BY <1>1, <1>3 DEF PageState
  <1>5. tail \in Seq(PageState) /\ Len(tail) = L - 1 /\ \A i \in 1..(L - 1) : tail[i] = ring[i + 1]
    BY <1>1, HeadTailProperties
  <1> HIDE DEF first, u, old, tail, L
  <1>6. /\ others \in Seq(PageState) /\ Len(others) = L /\ DOMAIN others = 1..L
        /\ \A i \in 1..(L - 1) : others[i] = ring[i + 1]
        /\ others[L] = first
    <2>1. /\ others \in Seq(PageState) /\ Len(others) = Len(tail) + 1
          /\ \A i \in 1..Len(tail) : others[i] = tail[i]
          /\ others[Len(tail) + 1] = first
      BY <1>2, <1>5, AppendProperties
    <2>2. Len(tail) + 1 = L /\ Len(tail) = L - 1
      BY <1>1, <1>5
    <2> HIDE DEF others
    <2>3. DOMAIN others = 1..L
      BY <2>1, <2>2, LenProperties
    <2> QED BY <1>5, <2>1, <2>2, <2>3
  <1> HIDE DEF others
  <1>7. L \in K /\ K \subseteq Nat /\ K \subseteq 1..L
    BY <1>1, <1>2, <1>3, <1>4, <1>6
  <1>8. k \in K /\ \A i \in K : k <= i
    <2>1. PICK x \in K : \A y \in K : x <= y
      BY <1>7, LeastElement
    <2> HIDE DEF K
    <2> QED BY <2>1 DEF Min
  <1>9. \A i \in 1..L : i < k => others[i].index > u
    <2> SUFFICES ASSUME NEW i \in 1..L, i < k PROVE others[i].index > u
      OBVIOUS
    <2>1. i \notin K
      <3>1. k \in Nat /\ i \in Nat
        BY <1>1, <1>7, <1>8
      <3> HIDE DEF K, k
      <3> QED BY <1>8, <3>1
    <2>2. ~(others[i].index <= u)
      BY <1>4, <1>6, <2>1
    <2>3. others[i].index \in Nat
      <3>1. others[i] \in PageState
        BY <1>6, ElementOfSeq
      <3> QED BY <3>1 DEF PageState
    <2> QED BY <1>3, <2>2, <2>3
  <1>10. k \in 1..L
    BY <1>7, <1>8
  <1>11. others[k].index <= u
    BY <1>4, <1>8
  <1> HIDE DEF K, k
  <1>12. k \in 1..(Len(tail) + 1)
    BY <1>1, <1>5, <1>10
  <1> DEFINE ins == InsertAt(tail, k, old)
  <1>13. /\ ins \in Seq(PageState) /\ Len(ins) = Len(tail) + 1
         /\ \A j \in 1..(Len(tail) + 1) :
               ins[j] = IF j < k THEN tail[j] ELSE IF j = k THEN old ELSE tail[j - 1]
    BY <1>4, <1>5, <1>12, InsertedPage DEF ins
  <1> HIDE DEF ins
  <1>14. /\ r \in Seq(PageState) /\ r # <<>> /\ Len(r) = Len(ins) + 1
         /\ \A j \in 1..(Len(ins) + 1) : r[j] = IF j = 1 THEN first ELSE ins[j - 1]
    BY <1>2, <1>13, ConsPlaces DEF ins
  <1> HIDE DEF r
  <1>15. Len(r) = L + 1 /\ Len(ins) = L /\ Len(tail) = L - 1
    BY <1>1, <1>5, <1>13, <1>14
  <1>16. ASSUME NEW j \in 1..(L + 1)
         PROVE  r[j] = IF j = 1 THEN first ELSE IF j <= k THEN ring[j]
                       ELSE IF j = k + 1 THEN old ELSE ring[j - 1]
    <2>1. CASE j = 1
      BY <1>14, <1>15, <2>1
    <2>2. CASE j # 1
      <3>1. r[j] = ins[j - 1] /\ j - 1 \in 1..L /\ j - 1 \in 1..(Len(tail) + 1)
        BY <1>1, <1>14, <1>15, <2>2
      <3>2. r[j] = IF j - 1 < k THEN tail[j - 1] ELSE IF j - 1 = k THEN old ELSE tail[j - 1 - 1]
        BY <1>13, <3>1
      <3>3. CASE j <= k
        <4>1. j - 1 \in 1..(L - 1) /\ j - 1 < k /\ (j - 1) + 1 = j
          BY <1>1, <1>10, <2>2, <3>3
        <4> QED BY <1>5, <2>2, <3>2, <3>3, <4>1
      <3>4. CASE j = k + 1
        BY <1>10, <2>2, <3>2, <3>4
      <3>5. CASE j > k + 1
        <4>1. j - 1 - 1 \in 1..(L - 1) /\ ~(j - 1 < k) /\ j - 1 # k /\ (j - 1 - 1) + 1 = j - 1
              /\ ~(j <= k) /\ j # k + 1
          BY <1>1, <1>10, <3>5
        <4> QED BY <1>5, <2>2, <3>2, <4>1
      <3> QED BY <1>10, <3>3, <3>4, <3>5
    <2> QED BY <2>1, <2>2
  <1>17. \A j \in 2..k : ring[j].index > u
    <2> SUFFICES ASSUME NEW j \in 2..k PROVE ring[j].index > u
      OBVIOUS
    <2>1. j - 1 \in 1..L /\ j - 1 < k /\ j - 1 \in 1..(L - 1) /\ (j - 1) + 1 = j
      BY <1>1, <1>10
    <2> QED BY <1>6, <1>9, <2>1
  <1>18. \A j \in (k + 1)..L : ring[j].index <= u
    <2> SUFFICES ASSUME NEW j \in (k + 1)..L PROVE ring[j].index <= u
      OBVIOUS
    <2>1. k \in 1..(L - 1) /\ k + 1 \in 2..L /\ j \in 2..L
      BY <1>1, <1>10
    <2>2. ring[k + 1].index <= u
      BY <1>6, <1>11, <2>1
    <2>3. j = k + 1 \/ ring[k + 1].index >= ring[j].index
      BY <1>1, <1>10, <2>1 DEF RingOK, L
    <2>4. ring[k + 1].index \in Nat /\ ring[j].index \in Nat
      BY <2>1, RingType DEF L
    <2> QED BY <1>3, <2>2, <2>3, <2>4
  <1>19. PlaceOld(ring, new, k, r)
    BY <1>14, <1>15, <1>16, <1>17, <1>18 DEF PlaceOld, L, first, old, u
  <1> QED BY <1>0, <1>10, <1>19 DEF L

\* What the pages of a ring are filled with.
Contents(ring) == {<<ring[i].page, ring[i].fill>> : i \in 1..Len(ring)}

LEMMA ContentPages ==
    ASSUME NEW ring, RingOK(ring)
    PROVE  PagesOf(ring) = {c[1] : c \in Contents(ring)}
  <1>1. \A pg : pg \in PagesOf(ring) <=> \E i \in 1..Len(ring) : ring[i].page = pg
    BY RingType
  <1>2. \A pg : pg \in {c[1] : c \in Contents(ring)} <=> \E i \in 1..Len(ring) : ring[i].page = pg
    <2>1. ASSUME NEW c \in Contents(ring) PROVE \E i \in 1..Len(ring) : ring[i].page = c[1]
      BY DEF Contents
    <2>2. ASSUME NEW i \in 1..Len(ring) PROVE \E c \in Contents(ring) : ring[i].page = c[1]
      <3>1. <<ring[i].page, ring[i].fill>> \in Contents(ring)
        BY DEF Contents
      <3> QED BY <3>1
    <2> QED BY <2>1, <2>2
  <1> QED BY <1>1, <1>2

LEMMA PlacedRing ==
    ASSUME NEW ring, RingOK(ring), NEW new \in PageState,
           new.page \notin PagesOf(ring), new.fill <= Cap[new.page],
           NEW k \in 1..Len(ring), NEW r, PlaceOld(ring, new, k, r)
    PROVE  /\ RingOK(r) /\ r[1] = [new EXCEPT !.index = 0]
           /\ Contents(r) = Contents(ring) \cup {<<new.page, new.fill>>}
  <1> DEFINE L == Len(ring)
             u == Units(Space(ring[1]))
             at(j) == IF j <= k THEN j ELSE IF j = k + 1 THEN 1 ELSE j - 1
  <1>1. /\ L \in Nat \ {0} /\ k \in 1..L
        /\ \A i \in 1..L : /\ ring[i] \in PageState
                           /\ ring[i].page \in Page /\ ring[i].fill \in Nat /\ ring[i].index \in Nat
                           /\ Cap[ring[i].page] \in Nat /\ Space(ring[i]) \in Nat
                           /\ ring[i].fill <= Cap[ring[i].page]
        /\ \A i, j \in 1..L : ring[i].page = ring[j].page => i = j
        /\ \A i \in 1..L : ring[i].page # new.page
    BY RingType DEF RingOK
  <1>2. u \in Nat
    <2>1. 1 \in 1..L
      BY <1>1
    <2>2. Space(ring[1]) \in Nat
      BY <1>1, <2>1
    <2> QED BY <2>2, UnitsNat
  <1> DEFINE head == [new EXCEPT !.index = 0]  old == [ring[1] EXCEPT !.index = u]
  <1>P. /\ r \in Seq(PageState) /\ r # <<>> /\ Len(r) = L + 1
        /\ \A j \in 1..(L + 1) :
              r[j] = IF j = 1 THEN head ELSE IF j <= k THEN ring[j] ELSE IF j = k + 1 THEN old ELSE ring[j - 1]
    BY DEF PlaceOld
  <1> HIDE DEF head, old
  <1>3. new.page \in Page /\ new.fill \in Nat /\ Cap[new.page] \in Nat
    BY SizeAssumption DEF PageState
  <1>4. /\ r \in Seq(PageState) /\ r # <<>> /\ Len(r) = L + 1 /\ 1 \in 1..(L + 1)
        /\ r[1] = [new EXCEPT !.index = 0]
    <2>1. 1 \in 1..(L + 1)
      BY <1>1
    <2>2. r[1] = head
      BY <1>P, <2>1
    <2> QED BY <1>P, <2>1, <2>2 DEF head
  <1>5. r[1].page = new.page /\ r[1].fill = new.fill
    BY <1>4 DEF PageState
  <1>6. ASSUME NEW j \in 2..(L + 1)
        PROVE  /\ at(j) \in 1..L
               /\ r[j].page = ring[at(j)].page /\ r[j].fill = ring[at(j)].fill
               /\ r[j].index = IF j = k + 1 THEN u ELSE ring[at(j)].index
               /\ j # k + 1 => at(j) \in 2..L
    <2>1. r[j] = IF j <= k THEN ring[j] ELSE IF j = k + 1 THEN old ELSE ring[j - 1]
      <3>1. j \in 1..(L + 1) /\ j # 1
        BY <1>1
      <3> QED BY <1>P, <3>1
    <2>2. CASE j <= k
      BY <1>1, <2>1, <2>2
    <2>3. CASE j = k + 1
      <3>1. r[j] = [ring[1] EXCEPT !.index = u] /\ ring[1] \in PageState /\ at(j) = 1 /\ at(j) \in 1..L
        BY <1>1, <2>1, <2>3 DEF old
      <3> HIDE DEF u, at
      <3> QED BY <2>3, <3>1 DEF PageState
    <2>4. CASE j > k + 1
      <3>1. at(j) = j - 1 /\ j - 1 \in 2..L /\ j - 1 \in 1..L /\ ~(j <= k) /\ j # k + 1
        BY <1>1, <2>4
      <3>2. r[j] = ring[j - 1]
        BY <2>1, <3>1
      <3> HIDE DEF at
      <3> QED BY <3>1, <3>2
    <2> QED BY <1>1, <2>2, <2>3, <2>4
  <1>7. \A i, j \in 2..(L + 1) : at(i) = at(j) => i = j
    BY <1>1
  <1>8. \A i \in 1..L : \E j \in 2..(L + 1) : at(j) = i
    <2> SUFFICES ASSUME NEW i \in 1..L PROVE \E j \in 2..(L + 1) : at(j) = i
      OBVIOUS
    <2>1. CASE i = 1
      <3>1. k + 1 \in 2..(L + 1) /\ at(k + 1) = i
        BY <1>1, <2>1
      <3> QED BY <3>1
    <2>2. CASE i # 1 /\ i <= k
      <3>1. i \in 2..(L + 1) /\ at(i) = i
        BY <1>1, <2>2
      <3> QED BY <3>1
    <2>3. CASE i > k
      <3>1. i + 1 \in 2..(L + 1) /\ at(i + 1) = i
        BY <1>1, <2>3
      <3> QED BY <3>1
    <2> QED BY <1>1, <2>1, <2>2, <2>3
  <1>9. /\ \A j \in 2..k : ring[j].index > u
        /\ \A j \in (k + 1)..L : ring[j].index <= u
    BY DEF PlaceOld
  <1>10. \A i, j \in 2..(L + 1) : i # k + 1 /\ j # k + 1 /\ i < j => at(i) < at(j)
    BY <1>1
  <1>11. \A j \in 2..(L + 1) : /\ j < k + 1 => at(j) \in 2..k
                               /\ j > k + 1 => at(j) \in (k + 1)..L
    BY <1>1
  <1> HIDE DEF at, L, u
  <1>12. \A i \in 1..(L + 1) : r[i].fill <= Cap[r[i].page]
    <2> SUFFICES ASSUME NEW i \in 1..(L + 1) PROVE r[i].fill <= Cap[r[i].page]
      OBVIOUS
    <2>1. i = 1 \/ i \in 2..(L + 1)
      BY <1>1
    <2> QED BY <1>1, <1>5, <1>6, <2>1
  <1>13. \A i, j \in 1..(L + 1) : r[i].page = r[j].page => i = j
    <2> SUFFICES ASSUME NEW i \in 1..(L + 1), NEW j \in 1..(L + 1), r[i].page = r[j].page
                 PROVE  i = j
      OBVIOUS
    <2>1. (i = 1 \/ i \in 2..(L + 1)) /\ (j = 1 \/ j \in 2..(L + 1))
      BY <1>1
    <2>2. CASE i \in 2..(L + 1) /\ j \in 2..(L + 1)
      <3>1. at(i) \in 1..L /\ at(j) \in 1..L /\ ring[at(i)].page = ring[at(j)].page
        BY <1>6, <2>2
      <3>2. at(i) = at(j)
        BY <1>1, <3>1
      <3> QED BY <1>7, <2>2, <3>2
    <2>3. CASE i = 1 /\ j \in 2..(L + 1)
      <3>1. at(j) \in 1..L /\ ring[at(j)].page = r[j].page /\ r[i].page = new.page
        BY <1>5, <1>6, <2>3
      <3>2. ring[at(j)].page # new.page
        BY <1>1, <3>1
      <3> QED BY <3>1, <3>2, <2>3
    <2>4. CASE j = 1 /\ i \in 2..(L + 1)
      <3>1. at(i) \in 1..L /\ ring[at(i)].page = r[i].page /\ r[j].page = new.page
        BY <1>5, <1>6, <2>4
      <3>2. ring[at(i)].page # new.page
        BY <1>1, <3>1
      <3> QED BY <3>1, <3>2, <2>4
    <2> QED BY <2>1, <2>2, <2>3, <2>4
  <1>14. \A i \in 2..(L + 1) : r[i].index = Units(Space(r[i]))
    <2> SUFFICES ASSUME NEW i \in 2..(L + 1) PROVE r[i].index = Units(Space(r[i]))
      OBVIOUS
    <2>1. Space(r[i]) = Space(ring[at(i)])
      BY <1>6 DEF Space
    <2>2. CASE i = k + 1
      <3>1. at(i) = 1
        BY <1>1, <2>2 DEF at
      <3> QED BY <1>6, <2>1, <2>2, <3>1 DEF u
    <2>3. CASE i # k + 1
      <3>1. at(i) \in 2..L /\ r[i].index = ring[at(i)].index
        BY <1>6, <2>3
      <3> QED BY <2>1, <3>1 DEF RingOK, L
    <2> QED BY <2>2, <2>3
  <1>15. \A i, j \in 2..(L + 1) : i < j => r[i].index >= r[j].index
    <2> SUFFICES ASSUME NEW i \in 2..(L + 1), NEW j \in 2..(L + 1), i < j
                 PROVE  r[i].index >= r[j].index
      OBVIOUS
    <2>1. CASE i = k + 1
      <3>1. j > k + 1 /\ j # k + 1
        BY <1>1, <2>1
      <3>2. at(j) \in (k + 1)..L /\ r[j].index = ring[at(j)].index /\ r[i].index = u
        BY <1>6, <1>11, <2>1, <3>1
      <3>3. ring[at(j)].index <= u /\ ring[at(j)].index \in Nat
        BY <1>1, <1>6, <1>9, <3>2
      <3> QED BY <1>2, <3>2, <3>3
    <2>2. CASE j = k + 1
      <3>1. i < k + 1 /\ i # k + 1
        BY <1>1, <2>2
      <3>2. at(i) \in 2..k /\ r[i].index = ring[at(i)].index /\ r[j].index = u
        BY <1>6, <1>11, <2>2, <3>1
      <3>3. ring[at(i)].index > u /\ ring[at(i)].index \in Nat
        BY <1>1, <1>6, <1>9, <3>2
      <3> QED BY <1>2, <3>2, <3>3
    <2>3. CASE i # k + 1 /\ j # k + 1
      <3>1. at(i) \in 2..L /\ at(j) \in 2..L /\ at(i) < at(j)
            /\ r[i].index = ring[at(i)].index /\ r[j].index = ring[at(j)].index
        BY <1>6, <1>10, <2>3
      <3> QED BY <3>1 DEF RingOK, L
    <2> QED BY <2>1, <2>2, <2>3
  <1>16. RingOK(r)
    BY <1>4, <1>12, <1>13, <1>14, <1>15 DEF RingOK
  <1>17. Contents(r) = Contents(ring) \cup {<<new.page, new.fill>>}
    <2>1. ASSUME NEW c \in Contents(r) PROVE c \in Contents(ring) \cup {<<new.page, new.fill>>}
      <3>1. PICK i \in 1..(L + 1) : c = <<r[i].page, r[i].fill>>
        BY <1>4 DEF Contents
      <3>2. i = 1 \/ i \in 2..(L + 1)
        BY <1>1
      <3>3. CASE i = 1
        BY <1>5, <3>1, <3>3
      <3>4. CASE i \in 2..(L + 1)
        <4>1. c = <<ring[at(i)].page, ring[at(i)].fill>> /\ at(i) \in 1..L
          BY <1>6, <3>1, <3>4
        <4> QED BY <4>1 DEF Contents, L
      <3> QED BY <3>2, <3>3, <3>4
    <2>2. <<new.page, new.fill>> \in Contents(r)
      BY <1>4, <1>5 DEF Contents
    <2>3. ASSUME NEW c \in Contents(ring) PROVE c \in Contents(r)
      <3>1. PICK i \in 1..L : c = <<ring[i].page, ring[i].fill>>
        BY DEF Contents, L
      <3>2. PICK j \in 2..(L + 1) : at(j) = i
        BY <1>8
      <3>3. c = <<r[j].page, r[j].fill>> /\ j \in 1..Len(r)
        BY <1>1, <1>4, <1>6, <3>1, <3>2
      <3> QED BY <3>3 DEF Contents
    <2> QED BY <2>1, <2>2, <2>3
  <1> QED BY <1>4, <1>16, <1>17

LEMMA LinkedRing ==
    ASSUME NEW ring, RingOK(ring), NEW new \in PageState,
           new.page \notin PagesOf(ring), new.fill <= Cap[new.page]
    PROVE  /\ RingOK(Linked(new, ring)) /\ Linked(new, ring)[1] = [new EXCEPT !.index = 0]
           /\ Contents(Linked(new, ring)) = Contents(ring) \cup {<<new.page, new.fill>>}
  <1>1. PICK k \in 1..Len(ring) : PlaceOld(ring, new, k, Linked(new, ring))
    BY LinkedIs
  <1> QED BY <1>1, PlacedRing

\* Taking the second page out of a ring.
LEMMA WithoutSecond ==
    ASSUME NEW ring, RingOK(ring), Len(ring) >= 2
    PROVE  /\ RingOK(RemoveAt(ring, 2)) /\ ring[2] \in PageState
           /\ ring[2].page \notin PagesOf(RemoveAt(ring, 2))
           /\ Contents(ring) = Contents(RemoveAt(ring, 2)) \cup {<<ring[2].page, ring[2].fill>>}
  <1> DEFINE L == Len(ring)  r == RemoveAt(ring, 2)  at(j) == IF j < 2 THEN j ELSE j + 1
  <1>1. /\ ring \in Seq(PageState) /\ L \in Nat /\ L >= 2 /\ 2 \in 1..L /\ L - 1 \in Nat \ {0}
        /\ \A i \in 1..L : ring[i] \in PageState
    BY RingType
  <1>2. /\ r \in Seq(PageState) /\ Len(r) = L - 1
        /\ \A j \in 1..(L - 1) : r[j] = ring[at(j)]
    <2> DEFINE T == PageState
    <2>0. ring \in Seq(T) /\ 2 \in 1..Len(ring)
      BY <1>1
    <2> HIDE DEF T
    <2>1. /\ RemoveAt(ring, 2) \in Seq(T) /\ Len(RemoveAt(ring, 2)) = Len(ring) - 1
          /\ \A j \in 1..(Len(ring) - 1) :
                RemoveAt(ring, 2)[j] = IF j < 2 THEN ring[j] ELSE ring[j + 1]
      BY <2>0, RemoveAtProps
    <2>2. \A j \in 1..(L - 1) : r[j] = ring[at(j)]
      BY <1>1, <2>1
    <2> QED BY <2>1, <2>2 DEF T
  <1>3. r # <<>>
    BY <1>1, <1>2
  <1> HIDE DEF r
  <1>4. \A j \in 1..(L - 1) : at(j) \in 1..L /\ at(j) # 2 /\ (j >= 2 => at(j) \in 2..L)
    BY <1>1
  <1>5. \A i, j \in 1..(L - 1) : (at(i) = at(j) => i = j) /\ (i < j => at(i) < at(j))
    BY <1>1
  <1>6. \A i \in 1..L : i # 2 => \E j \in 1..(L - 1) : at(j) = i
    <2> SUFFICES ASSUME NEW i \in 1..L, i # 2 PROVE \E j \in 1..(L - 1) : at(j) = i
      OBVIOUS
    <2>1. CASE i = 1
      <3>1. 1 \in 1..(L - 1) /\ at(1) = i
        BY <1>1, <2>1
      <3> QED BY <3>1
    <2>2. CASE i # 1
      <3>1. i - 1 \in 1..(L - 1) /\ at(i - 1) = i
        BY <1>1, <2>2
      <3> QED BY <3>1
    <2> QED BY <2>1, <2>2
  <1> HIDE DEF at, L
  <1>7. RingOK(r)
    <2>1. \A i \in 1..(L - 1) : r[i].fill <= Cap[r[i].page]
      BY <1>2, <1>4 DEF RingOK, L
    <2>2. \A i, j \in 1..(L - 1) : r[i].page = r[j].page => i = j
      BY <1>2, <1>4, <1>5 DEF RingOK, L
    <2>3. \A i \in 2..(L - 1) : i \in 1..(L - 1) /\ at(i) \in 2..L
      BY <1>1, <1>4
    <2>4. \A i \in 2..(L - 1) : r[i].index = Units(Space(r[i]))
      BY <1>2, <2>3 DEF RingOK, L
    <2>5. \A i, j \in 2..(L - 1) : i < j => r[i].index >= r[j].index
      BY <1>2, <1>5, <2>3 DEF RingOK, L
    <2> QED BY <1>2, <1>3, <2>1, <2>2, <2>4, <2>5 DEF RingOK
  <1>8. ring[2].page \notin PagesOf(r)
    <2> SUFFICES ASSUME ring[2].page \in PagesOf(r) PROVE FALSE
      OBVIOUS
    <2>1. PICK j \in 1..(L - 1) : r[j].page = ring[2].page
      <3> DEFINE pg == ring[2].page
      <3>0. pg \in PagesOf(r)
        OBVIOUS
      <3> HIDE DEF pg
      <3>1. \E j \in 1..Len(r) : r[j].page = pg
        BY <1>7, <3>0, RingType
      <3> QED BY <1>2, <3>1 DEF pg
    <2>2. at(j) = 2
      BY <1>1, <1>2, <1>4, <2>1 DEF RingOK, L
    <2> QED BY <1>4, <2>2
  <1>9. Contents(ring) = Contents(r) \cup {<<ring[2].page, ring[2].fill>>}
    <2>1. ASSUME NEW c \in Contents(ring) PROVE c \in Contents(r) \cup {<<ring[2].page, ring[2].fill>>}
      <3>1. PICK i \in 1..L : c = <<ring[i].page, ring[i].fill>>
        BY DEF Contents, L
      <3>2. CASE i # 2
        <4>1. PICK j \in 1..(L - 1) : at(j) = i
          BY <1>6, <3>2
        <4> QED BY <1>2, <3>1, <4>1 DEF Contents
      <3> QED BY <3>1, <3>2
    <2>2. <<ring[2].page, ring[2].fill>> \in Contents(ring)
      BY <1>1 DEF Contents, L
    <2>3. ASSUME NEW c \in Contents(r) PROVE c \in Contents(ring)
      <3>1. PICK j \in 1..(L - 1) : c = <<r[j].page, r[j].fill>>
        BY <1>2 DEF Contents
      <3> QED BY <1>2, <1>4, <3>1 DEF Contents, L
    <2> QED BY <2>1, <2>2, <2>3
  <1> QED BY <1>1, <1>7, <1>8, <1>9 DEF r

LEMMA RotatedRing ==
    ASSUME NEW ring, RingOK(ring), Len(ring) >= 2
    PROVE  /\ RingOK(Rotated(ring)) /\ Rotated(ring)[1] = [ring[2] EXCEPT !.index = 0]
           /\ Contents(Rotated(ring)) = Contents(ring)
  <1> DEFINE new == ring[2]  rest == RemoveAt(ring, 2)
  <1>1. /\ RingOK(rest) /\ new \in PageState /\ new.page \notin PagesOf(rest)
        /\ Contents(ring) = Contents(rest) \cup {<<new.page, new.fill>>}
    BY WithoutSecond
  <1>2. new.fill <= Cap[new.page]
    <2>1. 2 \in 1..Len(ring)
      BY RingType
    <2> QED BY <2>1 DEF RingOK
  <1>3. Rotated(ring) = Linked(new, rest)
    BY DEF Rotated
  <1> HIDE DEF new, rest
  <1>4. /\ RingOK(Linked(new, rest)) /\ Linked(new, rest)[1] = [new EXCEPT !.index = 0]
        /\ Contents(Linked(new, rest)) = Contents(rest) \cup {<<new.page, new.fill>>}
    BY <1>1, <1>2, LinkedRing
  <1> QED BY <1>1, <1>3, <1>4 DEF new

\* A page that is filled further, as far as it has space.
LEMMA FilledRing ==
    ASSUME NEW ring, RingOK(ring), NEW n \in Nat, n <= Space(ring[1])
    PROVE  /\ RingOK(Filled(ring, n)) /\ Len(Filled(ring, n)) = Len(ring)
           /\ Filled(ring, n)[1] = [ring[1] EXCEPT !.fill = @ + n]
           /\ \A i \in 2..Len(ring) : Filled(ring, n)[i] = ring[i]
           /\ PagesOf(Filled(ring, n)) = PagesOf(ring)
  <1> DEFINE L == Len(ring)  r == Filled(ring, n)  x == [ring[1] EXCEPT !.fill = @ + n]
  <1>1. /\ ring \in Seq(PageState) /\ L \in Nat \ {0} /\ 1 \in 1..L /\ DOMAIN ring = 1..L
        /\ \A i \in 1..L : /\ ring[i] \in PageState
                           /\ ring[i].page \in Page /\ ring[i].fill \in Nat
                           /\ Cap[ring[i].page] \in Nat
    BY RingType
  <1>2. x \in PageState /\ x.page = ring[1].page /\ x.fill = ring[1].fill + n
    BY <1>1 DEF PageState
  <1>3. x.fill <= Cap[x.page]
    BY <1>1, <1>2 DEF Space
  <1>4. r = [ring EXCEPT ![1] = x]
    BY DEF Filled
  <1> HIDE DEF x, r, L
  <1>5. /\ r \in Seq(PageState) /\ Len(r) = L /\ r[1] = x /\ r # <<>>
        /\ \A i \in 2..L : r[i] = ring[i]
    <2> DEFINE T == PageState
    <2>1. ring \in Seq(T) /\ x \in T
      BY <1>1, <1>2
    <2> HIDE DEF T
    <2>2. r \in Seq(T) /\ Len(r) = L /\ r[1] = x /\ \A i \in 2..L : r[i] = ring[i]
      BY <1>1, <1>4, <2>1 DEF L
    <2>3. r # <<>>
      BY <1>1, <2>2
    <2> QED BY <2>2, <2>3 DEF T
  <1>6. \A i \in 1..L : r[i].page = ring[i].page /\ (i = 1 \/ i \in 2..L)
    BY <1>1, <1>2, <1>5
  <1>7. RingOK(r)
    <2>1. \A i \in 1..L : r[i].fill <= Cap[r[i].page]
      BY <1>3, <1>5, <1>6 DEF RingOK, L
    <2>2. \A i, j \in 1..L : r[i].page = r[j].page => i = j
      BY <1>6 DEF RingOK, L
    <2>3. \A i \in 2..L : r[i].index = Units(Space(r[i]))
      BY <1>5 DEF RingOK, L
    <2>4. \A i, j \in 2..L : i < j => r[i].index >= r[j].index
      BY <1>5 DEF RingOK, L
    <2> QED BY <1>5, <2>1, <2>2, <2>3, <2>4 DEF RingOK
  <1>8. PagesOf(r) = PagesOf(ring)
    <2>1. \A pg : pg \in PagesOf(r) <=> \E i \in 1..L : r[i].page = pg
      <3>1. \A pg : pg \in PagesOf(r) <=> \E i \in 1..Len(r) : r[i].page = pg
        BY <1>7, RingType
      <3> QED BY <1>5, <3>1
    <2>2. \A pg : pg \in PagesOf(ring) <=> \E i \in 1..L : ring[i].page = pg
      BY RingType DEF L
    <2> QED BY <1>6, <2>1, <2>2
  <1> QED BY <1>5, <1>7, <1>8 DEF r, L, x

\* The pages of a ring as a set of their own.
LEMMA SameContents ==
    ASSUME NEW r, RingOK(r), NEW ring, RingOK(ring)
    PROVE  Contents(r) = Contents(ring) => PagesOf(r) = PagesOf(ring)
  BY ContentPages

Adds(r, ring, pg, n) == Contents(r) = Contents(ring) \cup {<<pg, n>>}

LEMMA MoreContents ==
    ASSUME NEW r, RingOK(r), NEW ring, RingOK(ring), NEW pg, NEW n, Adds(r, ring, pg, n)
    PROVE  PagesOf(r) = PagesOf(ring) \cup {pg}
  <1>1. PagesOf(r) = {c[1] : c \in Contents(r)} /\ PagesOf(ring) = {c[1] : c \in Contents(ring)}
    BY ContentPages
  <1>2. ASSUME NEW q \in PagesOf(r) PROVE q \in PagesOf(ring) \cup {pg}
    <2>1. PICK c \in Contents(r) : c[1] = q
      BY <1>1
    <2>2. CASE c \in Contents(ring)
      BY <1>1, <2>1, <2>2
    <2>3. CASE c = <<pg, n>>
      BY <2>1, <2>3
    <2> QED BY <2>1, <2>2, <2>3 DEF Adds
  <1>3. ASSUME NEW q \in PagesOf(ring) PROVE q \in PagesOf(r)
    <2>1. PICK c \in Contents(ring) : c[1] = q
      BY <1>1
    <2> QED BY <1>1, <2>1 DEF Adds
  <1>4. pg \in PagesOf(r)
    <2>1. <<pg, n>> \in Contents(r) /\ <<pg, n>>[1] = pg
      BY DEF Adds
    <2> QED BY <1>1, <2>1
  <1> QED BY <1>2, <1>3, <1>4

\* The ring before alloc takes the memory out of its active page.
Ready(ring, mid, n) ==
    /\ RingOK(mid) /\ n <= Space(mid[1])
    /\ \/ Contents(mid) = Contents(ring)
       \/ \E pg \in Pages(n) \ PagesOf(ring) : Contents(mid) = Contents(ring) \cup {<<pg, 0>>}

LEMMA EmptyPage ==
    ASSUME NEW pg \in Page
    PROVE  /\ Empty(pg) \in PageState /\ Empty(pg).page = pg /\ Empty(pg).fill = 0
           /\ Empty(pg).fill <= Cap[pg] /\ Space(Empty(pg)) = Cap[pg] /\ Cap[pg] \in Nat
  BY SizeAssumption DEF Empty, PageState, Space

LEMMA AllocatedIs ==
    ASSUME NEW ring, RingOK(ring), NEW n \in Nat, NEW r \in Allocated(ring, n)
    PROVE  \E mid : Ready(ring, mid, n) /\ r = Filled(mid, n)
  <1>1. CASE n <= Space(ring[1])
    <2>1. r = Filled(ring, n)
      BY <1>1 DEF Allocated
    <2> QED BY <1>1, <2>1 DEF Ready
  <1>2. CASE ~(n <= Space(ring[1])) /\ n <= Space(NextOf(ring))
    <2>1. Len(ring) >= 2 /\ NextOf(ring) = ring[2]
      <3>1. Len(ring) \in Nat \ {0}
        BY RingType
      <3>2. Len(ring) # 1
        BY <1>2 DEF NextOf
      <3> QED BY <3>1, <3>2 DEF NextOf
    <2> DEFINE mid == Rotated(ring)
    <2>2. RingOK(mid) /\ mid[1] = [ring[2] EXCEPT !.index = 0] /\ Contents(mid) = Contents(ring)
      BY <2>1, RotatedRing
    <2>3. r = Filled(mid, n)
      BY <1>2 DEF Allocated
    <2> HIDE DEF mid
    <2>4. Space(mid[1]) = Space(ring[2])
      <3>1. 2 \in 1..Len(ring)
        BY <2>1, RingType
      <3>2. ring[2] \in PageState
        BY <3>1, RingType
      <3> QED BY <2>2, <3>2 DEF Space, PageState
    <2> QED BY <1>2, <2>1, <2>2, <2>3, <2>4 DEF Ready
  <1>3. CASE ~(n <= Space(ring[1])) /\ ~(n <= Space(NextOf(ring)))
    <2>1. PICK pg \in Pages(n) \ PagesOf(ring) : r = Filled(Linked(Empty(pg), ring), n)
      BY <1>3 DEF Allocated
    <2> DEFINE mid == Linked(Empty(pg), ring)  new == Empty(pg)
    <2>2. pg \in Page /\ Cap[pg] >= n
      BY DEF Pages
    <2>3. new \in PageState /\ new.page = pg /\ new.fill = 0 /\ new.fill <= Cap[new.page]
      BY <2>2, EmptyPage
    <2> HIDE DEF new
    <2>4. RingOK(Linked(new, ring)) /\ Linked(new, ring)[1] = [new EXCEPT !.index = 0]
          /\ Contents(Linked(new, ring)) = Contents(ring) \cup {<<pg, 0>>}
      BY <2>1, <2>3, LinkedRing
    <2>5. mid = Linked(new, ring)
      BY DEF new
    <2> HIDE DEF mid
    <2>6. Space(mid[1]) = Cap[pg] /\ Cap[pg] \in Nat
      <3>1. mid[1].page = pg /\ mid[1].fill = 0
        BY <2>3, <2>4, <2>5 DEF PageState
      <3> QED BY <2>2, <3>1, SizeAssumption DEF Space
    <2>7. n <= Space(mid[1])
      BY <2>2, <2>6
    <2>8. Ready(ring, mid, n)
      BY <2>1, <2>4, <2>5, <2>7 DEF Ready
    <2> QED BY <2>1, <2>8 DEF mid
  <1> QED BY <1>1, <1>2, <1>3

LEMMA AllocatedRing ==
    ASSUME NEW ring, RingOK(ring), NEW n \in Nat, NEW r \in Allocated(ring, n)
    PROVE  /\ RingOK(r) /\ PagesOf(ring) \subseteq PagesOf(r)
           /\ PagesOf(r) \ PagesOf(ring) \subseteq Page \ taken
  <1>1. PICK mid : Ready(ring, mid, n) /\ r = Filled(mid, n)
    BY AllocatedIs
  <1>2. RingOK(r) /\ PagesOf(r) = PagesOf(mid) /\ RingOK(mid)
    BY <1>1, FilledRing DEF Ready
  <1>3. CASE Contents(mid) = Contents(ring)
    BY <1>2, <1>3, SameContents
  <1>4. ASSUME NEW pg \in Pages(n) \ PagesOf(ring), Contents(mid) = Contents(ring) \cup {<<pg, 0>>}
        PROVE  PagesOf(ring) \subseteq PagesOf(r) /\ PagesOf(r) \ PagesOf(ring) \subseteq Page \ taken
    <2>1. PagesOf(mid) = PagesOf(ring) \cup {pg}
      <3>1. Adds(mid, ring, pg, 0)
        BY <1>4 DEF Adds
      <3> QED BY <1>2, <3>1, MoreContents
    <2>2. pg \in Page \ taken
      BY DEF Pages
    <2> QED BY <1>2, <2>1, <2>2
  <1> QED BY <1>1, <1>2, <1>3, <1>4 DEF Ready

-----------------------------------------------------------------------------
(* Steps that change one pool and leave the tree of pools alone. *)

\* The state st takes the place of old.
Replaces(st, old) ==
    /\ st \in PoolState
    /\ st.parent = old.parent /\ st.children = old.children /\ st.self = old.self
    /\ RingOK(st.ring) /\ st.self \in PagesOf(st.ring) /\ IsInjective(st.todo)

ChangesTo(po, po2, p, st) == po2 = [po EXCEPT ![p] = st]

LEMMA Updated ==
    ASSUME NEW po, PoolsIn(po), TreeIn(po), AcyclicIn(po), NEW p \in AliveIn(po),
           NEW st, Replaces(st, po[p]), NEW po2, ChangesTo(po, po2, p, st)
    PROVE  /\ PoolsIn(po2) /\ TreeIn(po2) /\ AcyclicIn(po2) /\ AliveIn(po2) = AliveIn(po)
           /\ \A U : ClosedIn(po, U) <=> ClosedIn(po2, U)
           /\ \A s : CallsIn(po, s) => CallsIn(po2, s)
           /\ po2[p] = st /\ \A q \in AliveIn(po) : q # p => po2[q] = po[q]
  <1>1. /\ po \in [Pool -> PoolState \cup {None}] /\ p \in Pool /\ st \in PoolState
        /\ st # None
    BY NoneAssumption DEF PoolsIn, AliveIn, Replaces
  <1>2. /\ po2 \in [Pool -> PoolState \cup {None}]
        /\ po2[p] = st /\ \A q \in Pool : q # p => po2[q] = po[q]
    BY <1>1 DEF ChangesTo
  <1>3. AliveIn(po2) = AliveIn(po)
    BY <1>1, <1>2 DEF AliveIn
  <1>4. \A q \in AliveIn(po) : q \in Pool /\ (q # p => po2[q] = po[q])
    BY <1>2 DEF AliveIn
  <1>5. PoolsIn(po2)
    <2> SUFFICES ASSUME NEW q \in AliveIn(po)
                 PROVE  /\ RingOK(po2[q].ring) /\ IsInjective(po2[q].todo)
                        /\ po2[q].self \in PagesOf(po2[q].ring) /\ Header <= Cap[po2[q].self]
      BY <1>2, <1>3 DEF PoolsIn
    <2>1. CASE q = p
      BY <1>2, <2>1 DEF Replaces, PoolsIn
    <2>2. CASE q # p
      BY <1>4, <2>2 DEF PoolsIn
    <2> QED BY <2>1, <2>2
  <1>6. \A q \in AliveIn(po) : po2[q].parent = po[q].parent /\ po2[q].children = po[q].children
    BY <1>2, <1>4 DEF Replaces
  <1>7. TreeIn(po2)
    <2>1. \A q \in AliveIn(po) :
            {r \in AliveIn(po) : po2[r].parent = q} = {r \in AliveIn(po) : po[r].parent = q}
      BY <1>6
    <2> QED BY <1>3, <1>6, <2>1 DEF TreeIn
  <1>8. \A U : ClosedIn(po, U) <=> ClosedIn(po2, U)
    BY <1>3, <1>6 DEF ClosedIn
  <1>9. AcyclicIn(po2)
    BY <1>3, <1>6, <1>8 DEF AcyclicIn
  <1>10. \A s : CallsIn(po, s) => CallsIn(po2, s)
    BY <1>3, <1>8 DEF CallsIn, InnerIn
  <1> QED BY <1>2, <1>3, <1>4, <1>5, <1>7, <1>8, <1>9, <1>10

\* What pool p and the string have in pages changes from mine to mine2: the pages it
\* gives up go back and those it gets were free.
Exchanges(tk, tk2, mine, mine2) ==
    /\ (mine2 \ mine) \cap tk = {}
    /\ tk2 = (tk \ mine) \cup mine2

LEMMA OwnedUpdate ==
    ASSUME NEW po, NEW po2, NEW p \in AliveIn(po), AliveIn(po2) = AliveIn(po),
           \A q \in AliveIn(po) : q # p => po2[q] = po[q],
           NEW fr, NEW fr2, NEW tk, NEW tk2, OwnedIn(po, fr, tk),
           IsInjective(fr2), PagesOf(po2[p].ring) \cap ToSet(fr2) = {},
           Exchanges(tk, tk2, PagesOf(po[p].ring) \cup ToSet(fr),
                     PagesOf(po2[p].ring) \cup ToSet(fr2))
    PROVE  OwnedIn(po2, fr2, tk2)
  <1> DEFINE A == AliveIn(po)
             P(q) == PagesOf(po[q].ring)
             P2(q) == PagesOf(po2[q].ring)
             F == ToSet(fr)  F2 == ToSet(fr2)
  <1>1. \A q \in A : q # p => P2(q) = P(q)
    OBVIOUS
  <1>2. /\ \A q, r \in A : q # r => P(q) \cap P(r) = {}
        /\ RingPages(po) = UNION {P(q) : q \in A}
        /\ RingPages(po) \cap F = {} /\ tk = RingPages(po) \cup F
    BY DEF OwnedIn, RingPages
  <1>3. RingPages(po2) = UNION {P2(q) : q \in A}
    BY DEF RingPages
  <1>4. /\ ((P2(p) \cup F2) \ (P(p) \cup F)) \cap tk = {}
        /\ tk2 = (tk \ (P(p) \cup F)) \cup (P2(p) \cup F2)
        /\ P2(p) \cap F2 = {}
    BY DEF Exchanges
  <1>5. p \in A /\ AliveIn(po2) = A /\ IsInjective(fr2)
    OBVIOUS
  <1> HIDE DEF A, P, P2, F, F2
  <1>6. \A q \in A : P(q) \subseteq tk /\ P(q) \cap F = {}
    BY <1>2
  <1>7. \A q \in A : q # p => P2(q) \cap P2(p) = {} /\ P2(q) \cap F2 = {}
    <2> SUFFICES ASSUME NEW q \in A, q # p, NEW x \in P2(q), x \in P2(p) \cup F2 PROVE FALSE
      OBVIOUS
    <2>1. x \in tk /\ x \notin F /\ x \notin P(p)
      BY <1>1, <1>2, <1>5, <1>6
    <2> QED BY <1>4, <2>1
  <1>8. \A q, r \in A : q # r => P2(q) \cap P2(r) = {}
    <2> SUFFICES ASSUME NEW q \in A, NEW r \in A, q # r PROVE P2(q) \cap P2(r) = {}
      OBVIOUS
    <2>1. CASE q = p
      BY <1>7, <2>1
    <2>2. CASE r = p
      BY <1>7, <2>2
    <2>3. CASE q # p /\ r # p
      BY <1>1, <1>2, <2>3
    <2> QED BY <2>1, <2>2, <2>3
  <1>9. RingPages(po2) \cap F2 = {}
    <2> SUFFICES ASSUME NEW q \in A, NEW x \in P2(q), x \in F2 PROVE FALSE
      BY <1>3
    <2> QED BY <1>4, <1>7
  <1>10. tk2 = RingPages(po2) \cup F2
    <2>1. ASSUME NEW x \in tk2 PROVE x \in RingPages(po2) \cup F2
      <3>1. CASE x \in P2(p) \cup F2
        BY <1>3, <1>5, <3>1
      <3>2. CASE x \in tk /\ x \notin P(p) /\ x \notin F
        <4>1. PICK q \in A : x \in P(q)
          BY <1>2, <3>2
        <4>2. q # p
          BY <3>2, <4>1
        <4> QED BY <1>1, <1>3, <4>1, <4>2
      <3> QED BY <1>4, <3>1, <3>2
    <2>2. ASSUME NEW q \in A, NEW x \in P2(q) PROVE x \in tk2
      <3>1. CASE q = p
        BY <1>4, <3>1
      <3>2. CASE q # p
        BY <1>1, <1>2, <1>4, <1>5, <1>6, <3>2
      <3> QED BY <3>1, <3>2
    <2> QED BY <1>3, <1>4, <2>1, <2>2
  <1>11. \A q, r \in AliveIn(po2) : q # r => PagesOf(po2[q].ring) \cap PagesOf(po2[r].ring) = {}
    BY <1>5, <1>8 DEF P2
  <1> QED BY <1>5, <1>9, <1>10, <1>11 DEF OwnedIn, F2

-----------------------------------------------------------------------------
(* The calls of clear and _delete. *)

LEMMA Pushed ==
    ASSUME NEW po, NEW st, CallsIn(po, st), NEW op \in {"clear", "delete"}, NEW p \in AliveIn(po),
           NEW U \in SUBSET Pool, ClosedIn(po, U), p \notin U,
           \A j \in 1..Len(st) : st[j].pool \in U
    PROVE  CallsIn(po, <<[op |-> op, pool |-> p, calling |-> FALSE]>> \o st)
  <1> DEFINE T == [op : {"clear", "delete"}, pool : AliveIn(po), calling : BOOLEAN]
             x == [op |-> op, pool |-> p, calling |-> FALSE]
             s == <<x>> \o st
  <1>1. st \in Seq(T) /\ x \in T /\ x.pool = p /\ Len(st) \in Nat
    BY LenProperties DEF CallsIn
  <1> HIDE DEF T, x
  <1>2. /\ s \in Seq(T) /\ Len(s) = Len(st) + 1
        /\ \A j \in 1..(Len(st) + 1) : s[j] = IF j = 1 THEN x ELSE st[j - 1]
    BY <1>1, ConsPlaces
  <1> HIDE DEF s
  <1>3. \A j \in 2..Len(s) : s[j] = st[j - 1] /\ j - 1 \in 1..Len(st)
    BY <1>1, <1>2
  <1>4. InnerIn(po, s)
    <2> SUFFICES ASSUME NEW i \in 1..Len(s)
                 PROVE  \E V \in SUBSET Pool : /\ ClosedIn(po, V) /\ s[i].pool \notin V
                                               /\ \A j \in (i + 1)..Len(s) : s[j].pool \in V
      BY DEF InnerIn
    <2>1. CASE i = 1
      <3>1. s[i].pool = p
        BY <1>1, <1>2, <2>1
      <3>2. \A j \in (i + 1)..Len(s) : s[j].pool \in U
        BY <1>1, <1>2, <1>3, <2>1
      <3> QED BY <3>1, <3>2
    <2>2. CASE i # 1
      <3>1. i \in 2..Len(s)
        BY <1>1, <1>2, <2>2
      <3>2. s[i] = st[i - 1] /\ i - 1 \in 1..Len(st)
        BY <1>3, <3>1
      <3>3. PICK V \in SUBSET Pool : /\ ClosedIn(po, V) /\ st[i - 1].pool \notin V
                                     /\ \A j \in ((i - 1) + 1)..Len(st) : st[j].pool \in V
        BY <3>2 DEF CallsIn, InnerIn
      <3>4. ASSUME NEW j \in (i + 1)..Len(s) PROVE s[j].pool \in V
        <4>1. j \in 2..Len(s) /\ j - 1 \in ((i - 1) + 1)..Len(st)
          BY <1>1, <1>2, <3>1
        <4> QED BY <1>3, <3>3, <4>1
      <3> QED BY <3>2, <3>3, <3>4
    <2> QED BY <2>1, <2>2
  <1>5. s \in Seq([op : {"clear", "delete"}, pool : AliveIn(po), calling : BOOLEAN])
    BY <1>2 DEF T
  <1>6. CallsIn(po, s)
    BY <1>4, <1>5 DEF CallsIn
  <1> QED BY <1>6 DEF s, x

\* Whether the innermost call is in a handler.
LEMMA Handling ==
    ASSUME NEW po, NEW st, CallsIn(po, st), st # <<>>, NEW b \in BOOLEAN
    PROVE  CallsIn(po, [st EXCEPT ![1].calling = b]) /\ [st EXCEPT ![1].calling = b] # <<>>
           /\ Head([st EXCEPT ![1].calling = b]).calling = b
  <1> DEFINE T == [op : {"clear", "delete"}, pool : AliveIn(po), calling : BOOLEAN]
             x == [st[1] EXCEPT !.calling = b]
             s == [st EXCEPT ![1] = x]
  <1>1. st \in Seq(T) /\ Len(st) \in Nat \ {0} /\ 1 \in 1..Len(st)
    BY EmptySeq, LenProperties DEF CallsIn
  <1>2. st[1] \in T
    <2> HIDE DEF T
    <2> QED BY <1>1, ElementOfSeq
  <1>3. x \in T /\ x.pool = st[1].pool /\ x.calling = b
    BY <1>2
  <1>4. s = [st EXCEPT ![1].calling = b]
    OBVIOUS
  <1> HIDE DEF T, x
  <1>5. /\ s \in Seq(T) /\ Len(s) = Len(st) /\ s # <<>>
        /\ \A j \in 1..Len(st) : s[j] = IF j = 1 THEN x ELSE st[j]
    BY <1>1, <1>3
  <1>6. Head(s) = x
    BY <1>1, <1>5
  <1> HIDE DEF s
  <1>7. \A j \in 1..Len(st) : s[j].pool = st[j].pool
    BY <1>3, <1>5
  <1>8. InnerIn(po, s)
    <2> SUFFICES ASSUME NEW i \in 1..Len(st)
                 PROVE  \E V \in SUBSET Pool : /\ ClosedIn(po, V) /\ s[i].pool \notin V
                                               /\ \A j \in (i + 1)..Len(st) : s[j].pool \in V
      BY <1>5 DEF InnerIn
    <2>1. PICK V \in SUBSET Pool : /\ ClosedIn(po, V) /\ st[i].pool \notin V
                                   /\ \A j \in (i + 1)..Len(st) : st[j].pool \in V
      BY DEF CallsIn, InnerIn
    <2>2. \A j \in (i + 1)..Len(st) : j \in 1..Len(st)
      BY <1>1
    <2> QED BY <1>7, <2>1, <2>2
  <1>9. CallsIn(po, s)
    BY <1>5, <1>8 DEF CallsIn, T
  <1> QED BY <1>3, <1>4, <1>5, <1>6, <1>9

\* The innermost call returns; po2 has what is left of the pools.
LEMMA Popped ==
    ASSUME NEW po, NEW st, CallsIn(po, st), st # <<>>, NEW po2,
           \A q \in AliveIn(po) : q # Head(st).pool => q \in AliveIn(po2),
           \A U : ClosedIn(po, U) => ClosedIn(po2, U)
    PROVE  CallsIn(po2, Tail(st))
  <1> DEFINE T == [op : {"clear", "delete"}, pool : AliveIn(po), calling : BOOLEAN]
             T2 == [op : {"clear", "delete"}, pool : AliveIn(po2), calling : BOOLEAN]
             s == Tail(st)
  <1>1. st \in Seq(T) /\ Len(st) \in Nat \ {0} /\ 1 \in 1..Len(st)
    BY EmptySeq, LenProperties DEF CallsIn
  <1> HIDE DEF T
  <1>2. /\ s \in Seq(T) /\ Len(s) = Len(st) - 1 /\ Head(st) = st[1]
        /\ \A j \in 1..(Len(st) - 1) : s[j] = st[j + 1]
    BY <1>1, HeadTailProperties
  <1> HIDE DEF s
  <1>3. ASSUME NEW j \in 1..Len(s) PROVE s[j] \in T2
    <2>1. j + 1 \in 2..Len(st) /\ j + 1 \in 1..Len(st) /\ s[j] = st[j + 1]
      BY <1>1, <1>2
    <2>2. PICK U \in SUBSET Pool : st[1].pool \notin U /\ \A i \in 2..Len(st) : st[i].pool \in U
      BY <1>1 DEF CallsIn, InnerIn
    <2>3. s[j].pool # Head(st).pool
      BY <1>2, <2>1, <2>2
    <2>4. s[j] \in T
      BY <1>2, ElementOfSeq
    <2> QED BY <2>3, <2>4 DEF T
  <1>4. s \in Seq(T2)
    <2> HIDE DEF T2
    <2>1. s = [j \in 1..Len(s) |-> s[j]] /\ Len(s) \in Nat
      BY <1>1, <1>2, SeqDef
    <2> QED BY <1>3, <2>1, SeqDef
  <1>5. InnerIn(po2, s)
    <2> SUFFICES ASSUME NEW i \in 1..Len(s)
                 PROVE  \E V \in SUBSET Pool : /\ ClosedIn(po2, V) /\ s[i].pool \notin V
                                               /\ \A j \in (i + 1)..Len(s) : s[j].pool \in V
      BY DEF InnerIn
    <2>1. i + 1 \in 1..Len(st) /\ s[i] = st[i + 1]
      BY <1>1, <1>2
    <2>2. PICK V \in SUBSET Pool : /\ ClosedIn(po, V) /\ st[i + 1].pool \notin V
                                   /\ \A j \in ((i + 1) + 1)..Len(st) : st[j].pool \in V
      BY <2>1 DEF CallsIn, InnerIn
    <2>3. ASSUME NEW j \in (i + 1)..Len(s) PROVE s[j].pool \in V
      <3>1. s[j] = st[j + 1] /\ j + 1 \in ((i + 1) + 1)..Len(st)
        BY <1>1, <1>2
      <3> QED BY <2>2, <3>1
    <2> QED BY <2>1, <2>2, <2>3
  <1>6. CallsIn(po2, s)
    BY <1>4, <1>5 DEF CallsIn, T2
  <1> QED BY <1>6 DEF s

-----------------------------------------------------------------------------
(* The steps. *)

\* What the steps take from the invariant.
LEMMA Facts ==
    ASSUME IInv
    PROVE  /\ PoolsIn(pool) /\ TreeIn(pool) /\ AcyclicIn(pool) /\ CallsIn(pool, stack)
           /\ StringIn(pool, stack, out) /\ OwnedIn(pool, FreshOf(out), taken) /\ taken \subseteq Page
           /\ Alive = AliveIn(pool)
           /\ \A p \in Alive :
                /\ p \in Pool /\ pool[p] \in PoolState /\ RingOK(pool[p].ring)
                /\ pool[p].self \in PagesOf(pool[p].ring) /\ Header <= Cap[pool[p].self]
                /\ IsInjective(pool[p].todo) /\ pool[p].todo \in Seq(Handler)
                /\ PagesOf(pool[p].ring) \subseteq taken
  <1>1. Alive = AliveIn(pool)
    BY DEF Alive, AliveIn
  <1>2. ASSUME NEW p \in Alive
        PROVE  /\ p \in Pool /\ pool[p] \in PoolState /\ RingOK(pool[p].ring)
               /\ pool[p].self \in PagesOf(pool[p].ring) /\ Header <= Cap[pool[p].self]
               /\ IsInjective(pool[p].todo) /\ pool[p].todo \in Seq(Handler)
               /\ PagesOf(pool[p].ring) \subseteq taken
    <2>1. p \in Pool /\ pool[p] # None
      BY DEF Alive
    <2>2. pool[p] \in PoolState
      BY <2>1 DEF IInv, PoolsIn
    <2>3. pool[p].todo \in Seq(Handler)
      BY <2>2 DEF PoolState
    <2>4. PagesOf(pool[p].ring) \subseteq taken
      BY <1>1 DEF IInv, OwnedIn, RingPages
    <2> QED BY <1>1, <2>1, <2>2, <2>3, <2>4 DEF IInv, PoolsIn
  <1> QED BY <1>1, <1>2 DEF IInv

\* alloc, connect, disconnect, attach and the like: one pool changes, it may get pages,
\* and no string is under way.
Extends(p, st) ==
    /\ PagesOf(pool[p].ring) \subseteq PagesOf(st.ring)
    /\ PagesOf(st.ring) \ PagesOf(pool[p].ring) \subseteq Page \ taken
    /\ taken' = taken \cup PagesOf(st.ring)
    /\ out = None /\ out' = None

LEMMA PoolStep ==
    ASSUME IInv, NEW p \in Alive, NEW st, Replaces(st, pool[p]),
           ChangesTo(pool, pool', p, st), Extends(p, st)
    PROVE  /\ PoolsIn(pool)' /\ TreeIn(pool)' /\ AcyclicIn(pool)'
           /\ StringIn(pool, stack, out)' /\ OwnedIn(pool, FreshOf(out), taken)'
           /\ (taken \subseteq Page)'
           /\ \A s : CallsIn(pool, s) => CallsIn(pool', s)
           /\ \A U : ClosedIn(pool, U) <=> ClosedIn(pool', U)
           /\ AliveIn(pool') = AliveIn(pool)
  <1>1. /\ PoolsIn(pool) /\ TreeIn(pool) /\ AcyclicIn(pool) /\ p \in AliveIn(pool)
        /\ OwnedIn(pool, <<>>, taken) /\ taken \subseteq Page /\ PagesOf(pool[p].ring) \subseteq taken
    BY Facts DEF FreshOf, Extends
  <1> DEFINE po2 == pool'
  <1>2. ChangesTo(pool, po2, p, st)
    OBVIOUS
  <1> HIDE DEF po2
  <1>3. /\ PoolsIn(po2) /\ TreeIn(po2) /\ AcyclicIn(po2) /\ AliveIn(po2) = AliveIn(pool)
        /\ \A U : ClosedIn(pool, U) <=> ClosedIn(po2, U)
        /\ \A s : CallsIn(pool, s) => CallsIn(po2, s)
        /\ po2[p] = st /\ \A q \in AliveIn(pool) : q # p => po2[q] = pool[q]
    BY <1>1, <1>2, Updated
  <1>4. OwnedIn(po2, <<>>, taken')
    <2> DEFINE mine == PagesOf(pool[p].ring) \cup ToSet(<<>>)
               mine2 == PagesOf(po2[p].ring) \cup ToSet(<<>>)
    <2>1. mine = PagesOf(pool[p].ring) /\ mine2 = PagesOf(st.ring)
      BY <1>3, SetOfEmpty
    <2>2. Exchanges(taken, taken', mine, mine2)
      <3> HIDE DEF mine, mine2
      <3> QED BY <1>1, <2>1 DEF Exchanges, Extends
    <2>3. IsInjective(<<>>) /\ PagesOf(po2[p].ring) \cap ToSet(<<>>) = {}
      BY SetOfEmpty
    <2> QED BY <1>1, <1>3, <2>2, <2>3, OwnedUpdate
  <1>5. taken' \subseteq Page /\ out' = None
    BY <1>1 DEF Extends
  <1>6. StringIn(po2, stack', None)
    BY DEF StringIn
  <1>7. FreshOf(None) = <<>>
    BY DEF FreshOf
  <1> QED BY <1>3, <1>4, <1>5, <1>6, <1>7 DEF po2

LEMMA InvInit == Init => IInv
  <1> SUFFICES ASSUME Init PROVE IInv
    OBVIOUS
  <1>1. AliveIn(pool) = {} /\ pool \in [Pool -> PoolState \cup {None}]
    BY DEF Init, AliveIn
  <1>2. PoolsIn(pool) /\ TreeIn(pool) /\ AcyclicIn(pool)
    BY <1>1 DEF PoolsIn, TreeIn, AcyclicIn
  <1>3. CallsIn(pool, stack)
    <2> DEFINE T == [op : {"clear", "delete"}, pool : AliveIn(pool), calling : BOOLEAN]
    <2> HIDE DEF T
    <2>1. <<>> \in Seq(T) /\ Len(<<>>) = 0
      BY EmptySeq
    <2> QED BY <2>1 DEF Init, CallsIn, InnerIn, T
  <1>4. RingPages(pool) = {} /\ FreshOf(out) = <<>> /\ taken = {} /\ out = None
    BY <1>1 DEF RingPages, FreshOf, Init
  <1>5. OwnedIn(pool, FreshOf(out), taken)
    BY <1>1, <1>4, SetOfEmpty DEF OwnedIn
  <1> QED BY <1>2, <1>3, <1>4, <1>5 DEF IInv, StringIn

LEMMA AllocStep ==
    ASSUME IInv, NEW p \in Alive, NEW n \in Size, Alloc(p, n)
    PROVE  IInv'
  <1>1. PICK ring \in Allocated(pool[p].ring, n) :
            pool' = [pool EXCEPT ![p].ring = ring] /\ taken' = taken \cup PagesOf(ring)
    BY DEF Alloc, Uses
  <1>2. /\ RingOK(pool[p].ring) /\ pool[p] \in PoolState /\ p \in Pool
        /\ pool[p].self \in PagesOf(pool[p].ring) /\ IsInjective(pool[p].todo)
    BY Facts
  <1>3. /\ RingOK(ring) /\ PagesOf(pool[p].ring) \subseteq PagesOf(ring)
        /\ PagesOf(ring) \ PagesOf(pool[p].ring) \subseteq Page \ taken
    BY <1>1, <1>2, SizeAssumption, AllocatedRing
  <1> DEFINE st == [pool[p] EXCEPT !.ring = ring]
  <1>4. /\ st \in PoolState /\ st.ring = ring /\ st.parent = pool[p].parent
        /\ st.children = pool[p].children /\ st.self = pool[p].self /\ st.todo = pool[p].todo
    BY <1>2, <1>3 DEF PoolState, RingOK
  <1>5. pool' = [pool EXCEPT ![p] = st]
    BY <1>1
  <1> HIDE DEF st
  <1>6. Replaces(st, pool[p])
    BY <1>2, <1>3, <1>4 DEF Replaces
  <1>7. out = None /\ out' = None /\ stack' = stack
    BY DEF Alloc, ClientRuns
  <1>8. /\ PoolsIn(pool)' /\ TreeIn(pool)' /\ AcyclicIn(pool)'
        /\ StringIn(pool, stack, out)' /\ OwnedIn(pool, FreshOf(out), taken)'
        /\ (taken \subseteq Page)'
        /\ \A s : CallsIn(pool, s) => CallsIn(pool', s)
    <2>1. ChangesTo(pool, pool', p, st) /\ Extends(p, st)
      BY <1>1, <1>3, <1>4, <1>5, <1>7 DEF ChangesTo, Extends
    <2> QED BY <1>6, <2>1, PoolStep
  <1>9. CallsIn(pool, stack)'
    BY <1>7, <1>8 DEF IInv
  <1> QED BY <1>8, <1>9 DEF IInv

LEMMA ConnectStep ==
    ASSUME IInv, NEW p \in Alive, NEW h \in Handler, Connect(p, h)
    PROVE  IInv'
  <1>1. PICK ring \in Allocated(pool[p].ring, Stub) : \E ring2 \in Allocated(ring, Stub) :
            /\ pool' = [pool EXCEPT ![p].ring = ring2, ![p].todo = Queued(@, h)]
            /\ taken' = taken \cup PagesOf(ring2)
    BY DEF Connect
  <1>2. PICK ring2 \in Allocated(ring, Stub) :
            /\ pool' = [pool EXCEPT ![p].ring = ring2, ![p].todo = Queued(@, h)]
            /\ taken' = taken \cup PagesOf(ring2)
    BY <1>1
  <1>3. /\ RingOK(pool[p].ring) /\ pool[p] \in PoolState /\ p \in Pool
        /\ pool[p].self \in PagesOf(pool[p].ring)
        /\ IsInjective(pool[p].todo) /\ pool[p].todo \in Seq(Handler)
    BY Facts
  <1>4. Stub \in Nat
    BY SizeAssumption
  <1>5. /\ RingOK(ring) /\ PagesOf(pool[p].ring) \subseteq PagesOf(ring)
        /\ PagesOf(ring) \ PagesOf(pool[p].ring) \subseteq Page \ taken
    BY <1>3, <1>4, AllocatedRing
  <1>6. /\ RingOK(ring2) /\ PagesOf(ring) \subseteq PagesOf(ring2)
        /\ PagesOf(ring2) \ PagesOf(ring) \subseteq Page \ taken
    BY <1>4, <1>5, AllocatedRing
  <1>7. h \notin ToSet(pool[p].todo)
    BY <1>3 DEF Connect, Unused, Handlers
  <1>8. Queued(pool[p].todo, h) \in Seq(Handler) /\ IsInjective(Queued(pool[p].todo, h))
    BY <1>3, <1>7, AppendProps DEF Queued
  <1> DEFINE st == [pool[p] EXCEPT !.ring = ring2, !.todo = Queued(@, h)]
  <1>9. /\ st \in PoolState /\ st.ring = ring2 /\ st.parent = pool[p].parent
        /\ st.children = pool[p].children /\ st.self = pool[p].self
        /\ st.todo = Queued(pool[p].todo, h)
    BY <1>3, <1>6, <1>8 DEF PoolState, RingOK
  <1>10. pool' = [pool EXCEPT ![p] = st]
    BY <1>2, <1>3 DEF IInv, PoolsIn, PoolState
  <1> HIDE DEF st
  <1>11. Replaces(st, pool[p])
    BY <1>3, <1>5, <1>6, <1>8, <1>9 DEF Replaces
  <1>12. out = None /\ out' = None /\ stack' = stack
    BY DEF Connect, ClientRuns
  <1>13. /\ PagesOf(pool[p].ring) \subseteq PagesOf(st.ring)
         /\ PagesOf(st.ring) \ PagesOf(pool[p].ring) \subseteq Page \ taken
         /\ taken' = taken \cup PagesOf(st.ring)
    BY <1>2, <1>5, <1>6, <1>9
  <1>14. /\ PoolsIn(pool)' /\ TreeIn(pool)' /\ AcyclicIn(pool)'
         /\ StringIn(pool, stack, out)' /\ OwnedIn(pool, FreshOf(out), taken)'
         /\ (taken \subseteq Page)'
         /\ \A s : CallsIn(pool, s) => CallsIn(pool', s)
    <2>1. ChangesTo(pool, pool', p, st) /\ Extends(p, st)
      BY <1>10, <1>12, <1>13 DEF ChangesTo, Extends
    <2> QED BY <1>11, <2>1, PoolStep
  <1>15. CallsIn(pool, stack)'
    BY <1>12, <1>14 DEF IInv
  <1> QED BY <1>14, <1>15 DEF IInv

\* Steps that leave the pages alone.
LEMMA KeepsPages ==
    ASSUME IInv, NEW p \in Alive, NEW st \in PoolState, IsInjective(st.todo),
           st.ring = pool[p].ring, st.parent = pool[p].parent,
           st.children = pool[p].children, st.self = pool[p].self,
           pool' = [pool EXCEPT ![p] = st], taken' = taken, out = None, out' = None
    PROVE  /\ CallsIn(pool, stack)' => IInv'
           /\ \A s : CallsIn(pool, s) => CallsIn(pool', s)
           /\ \A U : ClosedIn(pool, U) <=> ClosedIn(pool', U)
           /\ AliveIn(pool') = AliveIn(pool)
  <1>1. /\ RingOK(pool[p].ring) /\ pool[p].self \in PagesOf(pool[p].ring)
        /\ PagesOf(pool[p].ring) \subseteq taken
    BY Facts
  <1>2. Replaces(st, pool[p])
    BY <1>1 DEF Replaces
  <1>3. taken' = taken \cup PagesOf(st.ring)
    BY <1>1
  <1>4. /\ PoolsIn(pool)' /\ TreeIn(pool)' /\ AcyclicIn(pool)'
        /\ StringIn(pool, stack, out)' /\ OwnedIn(pool, FreshOf(out), taken)'
        /\ (taken \subseteq Page)'
        /\ \A s : CallsIn(pool, s) => CallsIn(pool', s)
        /\ \A U : ClosedIn(pool, U) <=> ClosedIn(pool', U)
        /\ AliveIn(pool') = AliveIn(pool)
    <2>1. ChangesTo(pool, pool', p, st) /\ Extends(p, st)
      BY <1>1, <1>3 DEF ChangesTo, Extends
    <2> QED BY <1>2, <2>1, PoolStep
  <1> QED BY <1>4 DEF IInv

LEMMA DisconnectStep ==
    ASSUME IInv, NEW p \in Alive, NEW h \in Handler, Disconnect(p, h)
    PROVE  IInv'
  <1> DEFINE st == [pool[p] EXCEPT !.todo = RemoveFirst(@, h)]
  <1>1. pool[p] \in PoolState /\ IsInjective(pool[p].todo) /\ pool[p].todo \in Seq(Handler)
    BY Facts
  <1>2. RemoveFirst(pool[p].todo, h) \in Seq(Handler) /\ IsInjective(RemoveFirst(pool[p].todo, h))
    BY <1>1, RemoveFirstProps
  <1>3. /\ st \in PoolState /\ st.ring = pool[p].ring /\ st.parent = pool[p].parent
        /\ st.children = pool[p].children /\ st.self = pool[p].self
        /\ st.todo = RemoveFirst(pool[p].todo, h)
    BY <1>1, <1>2 DEF PoolState
  <1>4. /\ pool' = [pool EXCEPT ![p] = st] /\ taken' = taken /\ out = None /\ out' = None
        /\ stack' = stack
    BY DEF Disconnect, ClientRuns
  <1> HIDE DEF st
  <1>5. /\ CallsIn(pool, stack)' => IInv'
        /\ \A s : CallsIn(pool, s) => CallsIn(pool', s)
    BY <1>2, <1>3, <1>4, KeepsPages
  <1> QED BY <1>4, <1>5 DEF IInv

LEMMA AttachStep ==
    ASSUME IInv, NEW p \in Alive, Attach(p)
    PROVE  IInv'
  <1> DEFINE st == [pool[p] EXCEPT !.uses = @ + 1]
  <1>1. pool[p] \in PoolState /\ IsInjective(pool[p].todo)
    BY Facts
  <1>2. pool[p].uses + 1 \in 0..MaxUses
    BY <1>1, SizeAssumption DEF Attach, PoolState
  <1>3. /\ st \in PoolState /\ st.ring = pool[p].ring /\ st.parent = pool[p].parent
        /\ st.children = pool[p].children /\ st.self = pool[p].self /\ st.todo = pool[p].todo
    BY <1>1, <1>2 DEF PoolState
  <1>4. /\ pool' = [pool EXCEPT ![p] = st] /\ taken' = taken /\ out = None /\ out' = None
        /\ stack' = stack
    BY DEF Attach, ClientRuns
  <1> HIDE DEF st
  <1>5. /\ CallsIn(pool, stack)' => IInv'
        /\ \A s : CallsIn(pool, s) => CallsIn(pool', s)
    BY <1>1, <1>3, <1>4, KeepsPages
  <1> QED BY <1>4, <1>5 DEF IInv

\* What the client may clear or delete is not above a call under way.
LEMMA ClearableAbove ==
    ASSUME IInv, NEW p \in Clearable
    PROVE  /\ p \in Alive
           /\ \E U \in SUBSET Pool : ClosedIn(pool, U) /\ p \notin U
                                     /\ \A j \in 1..Len(stack) : stack[j].pool \in U
  <1>1. p \in Alive /\ p \in Pool /\ p \notin Above(BeingCleared)
    BY DEF Clearable, Alive
  <1>2. PICK U \in SUBSET Pool : BeingCleared \subseteq U /\ Closed(U) /\ p \notin U
    BY <1>1 DEF Above
  <1>3. ClosedIn(pool, U)
    BY <1>2 DEF Closed, ClosedIn, Alive, AliveIn
  <1>4. DOMAIN stack = 1..Len(stack)
    BY LenProperties DEF IInv, CallsIn
  <1>5. \A j \in 1..Len(stack) : stack[j].pool \in U
    BY <1>2, <1>4 DEF BeingCleared
  <1> QED BY <1>1, <1>2, <1>3, <1>5

LEMMA DeattachStep ==
    ASSUME IInv, NEW p \in Alive, Deattach(p)
    PROVE  IInv'
  <1> DEFINE st == [pool[p] EXCEPT !.uses = @ - 1]
  <1>1. pool[p] \in PoolState /\ IsInjective(pool[p].todo) /\ p \in Clearable
    BY Facts DEF Deattach
  <1>2. pool[p].uses - 1 \in 0..MaxUses
    BY <1>1, SizeAssumption DEF Deattach, PoolState
  <1>3. /\ st \in PoolState /\ st.ring = pool[p].ring /\ st.parent = pool[p].parent
        /\ st.children = pool[p].children /\ st.self = pool[p].self /\ st.todo = pool[p].todo
    BY <1>1, <1>2 DEF PoolState
  <1>4. /\ pool' = [pool EXCEPT ![p] = st] /\ taken' = taken /\ out = None /\ out' = None
    BY DEF Deattach, ClientRuns
  <1> HIDE DEF st
  <1>5. /\ CallsIn(pool, stack)' => IInv'
        /\ \A s : CallsIn(pool, s) => CallsIn(pool', s)
        /\ \A U : ClosedIn(pool, U) <=> ClosedIn(pool', U)
        /\ AliveIn(pool') = AliveIn(pool)
    BY <1>1, <1>3, <1>4, KeepsPages
  <1>6. CallsIn(pool', stack) /\ p \in AliveIn(pool')
    BY <1>5, Facts
  <1>7. CASE stack' = stack
    BY <1>5, <1>6, <1>7
  <1>8. CASE Call("delete", p)
    <2>1. PICK U \in SUBSET Pool : ClosedIn(pool, U) /\ p \notin U
                                   /\ \A j \in 1..Len(stack) : stack[j].pool \in U
      BY <1>1, ClearableAbove
    <2>2. ClosedIn(pool', U)
      BY <1>5, <2>1
    <2> DEFINE po == pool'
    <2>3. CallsIn(po, stack) /\ p \in AliveIn(po) /\ ClosedIn(po, U)
      BY <1>6, <2>2
    <2> HIDE DEF po
    <2>4. CallsIn(po, <<[op |-> "delete", pool |-> p, calling |-> FALSE]>> \o stack)
      BY <2>1, <2>3, Pushed
    <2> QED BY <1>5, <1>8, <2>4 DEF Call, po
  <1> QED BY <1>7, <1>8 DEF Deattach

\* A call of clear or _delete from the client or from an outer call.
LEMMA CallStep ==
    ASSUME IInv, NEW op \in {"clear", "delete"}, NEW p \in Alive, Call(op, p),
           UNCHANGED <<pool, taken, out>>, out = None,
           NEW U \in SUBSET Pool, ClosedIn(pool, U), p \notin U,
           \A j \in 1..Len(stack) : stack[j].pool \in U
    PROVE  IInv'
  <1>1. CallsIn(pool, stack) /\ p \in AliveIn(pool)
    BY Facts
  <1>2. CallsIn(pool, <<[op |-> op, pool |-> p, calling |-> FALSE]>> \o stack)
    BY <1>1, Pushed
  <1>3. CallsIn(pool, stack)'
    BY <1>2 DEF Call
  <1>4. pool' = pool /\ taken' = taken /\ out' = None
    OBVIOUS
  <1> QED BY <1>3, <1>4 DEF IInv, StringIn

LEMMA ClientCallStep ==
    ASSUME IInv, NEW p \in Alive, Clear(p) \/ Delete(p)
    PROVE  IInv'
  <1>1. /\ p \in Clearable /\ out = None /\ UNCHANGED <<pool, taken, out>>
        /\ \E op \in {"clear", "delete"} : Call(op, p)
    BY DEF Clear, Delete, ClientRuns
  <1>2. PICK U \in SUBSET Pool : ClosedIn(pool, U) /\ p \notin U
                                 /\ \A j \in 1..Len(stack) : stack[j].pool \in U
    BY <1>1, ClearableAbove
  <1> QED BY <1>1, <1>2, CallStep

\* No string is written between the handlers of clear and _delete.
LEMMA ClearingFacts ==
    ASSUME IInv, NEW p \in Alive, Clearing(p)
    PROVE  /\ stack # <<>> /\ out = None /\ Head(stack) = stack[1] /\ stack[1].pool = p
           /\ Len(stack) \in Nat \ {0} /\ 1 \in 1..Len(stack)
           /\ \E U \in SUBSET Pool : ClosedIn(pool, U) /\ p \notin U
                                     /\ \A j \in 2..Len(stack) : stack[j].pool \in U
  <1>1. stack # <<>> /\ ~Head(stack).calling /\ Head(stack).pool = p
    BY DEF Clearing, InCall
  <1>2. out = None
    BY <1>1, Facts DEF StringIn
  <1>3. Head(stack) = stack[1] /\ Len(stack) \in Nat \ {0} /\ 1 \in 1..Len(stack)
    BY <1>1, EmptySeq, LenProperties, HeadTailProperties, Facts DEF CallsIn
  <1>4. \E U \in SUBSET Pool : ClosedIn(pool, U) /\ stack[1].pool \notin U
                               /\ \A j \in (1 + 1)..Len(stack) : stack[j].pool \in U
    BY <1>3, Facts DEF CallsIn, InnerIn
  <1> QED BY <1>1, <1>2, <1>3, <1>4

LEMMA ClearChildStep ==
    ASSUME IInv, NEW p \in Alive, ClearChild(p)
    PROVE  IInv'
  <1>1. /\ Clearing(p) /\ pool[p].children # <<>> /\ UNCHANGED <<pool, taken, out>>
        /\ Call("delete", Head(pool[p].children))
    BY DEF ClearChild, Childless
  <1>2. /\ out = None /\ stack[1].pool = p /\ Len(stack) \in Nat \ {0}
        /\ \E U \in SUBSET Pool : ClosedIn(pool, U) /\ p \notin U
                                  /\ \A j \in 2..Len(stack) : stack[j].pool \in U
    BY <1>1, ClearingFacts
  <1>3. PICK U \in SUBSET Pool : ClosedIn(pool, U) /\ p \notin U
                                 /\ \A j \in 2..Len(stack) : stack[j].pool \in U
    BY <1>2
  <1> DEFINE c == Head(pool[p].children)
  <1>4. c \in Alive /\ c \in Pool /\ p \in Pool /\ pool[c].parent = p
    <2>1. pool[p] \in PoolState /\ Alive = AliveIn(pool) /\ p \in AliveIn(pool) /\ TreeIn(pool)
      BY Facts
    <2>2. pool[p].children \in Seq(Pool)
      BY <2>1 DEF PoolState
    <2>3. IsInjective(pool[p].children)
          /\ ToSet(pool[p].children) = {q \in AliveIn(pool) : pool[q].parent = p}
      BY <2>1 DEF TreeIn
    <2>4. c \in ToSet(pool[p].children)
      BY <1>1, <2>2, <2>3, TailProps
    <2> QED BY <2>1, <2>3, <2>4 DEF Alive
  <1> HIDE DEF c
  <1>5. p # None
    BY <1>4, NoneAssumption
  <1>6. c \notin U
    BY <1>3, <1>4, <1>5 DEF ClosedIn, Alive, AliveIn
  <1>7. PICK V \in SUBSET Pool : ClosedIn(pool, V) /\ p \in V /\ c \notin V
    BY <1>4, <1>5, Facts DEF AcyclicIn
  <1> DEFINE W == U \cup V
  <1>8. W \in SUBSET Pool /\ ClosedIn(pool, W) /\ c \notin W
    BY <1>3, <1>6, <1>7 DEF ClosedIn
  <1>9. \A j \in 1..Len(stack) : stack[j].pool \in W
    <2> SUFFICES ASSUME NEW j \in 1..Len(stack) PROVE stack[j].pool \in W
      OBVIOUS
    <2>1. j = 1 \/ j \in 2..Len(stack)
      BY <1>2
    <2> QED BY <1>2, <1>3, <1>7, <2>1
  <1> HIDE DEF W
  <1>10. Call("delete", c)
    BY <1>1 DEF c
  <1> QED BY <1>1, <1>2, <1>4, <1>8, <1>9, <1>10, CallStep

LEMMA EmitDestroyStep ==
    ASSUME IInv, NEW p \in Alive, EmitDestroy(p)
    PROVE  IInv'
  <1> DEFINE st == [pool[p] EXCEPT !.todo = Tail(@)]
  <1>1. pool[p] \in PoolState /\ IsInjective(pool[p].todo) /\ pool[p].todo \in Seq(Handler)
    BY Facts
  <1>2. Tail(pool[p].todo) \in Seq(Handler) /\ IsInjective(Tail(pool[p].todo))
    BY <1>1, TailProps DEF EmitDestroy
  <1>3. /\ st \in PoolState /\ st.ring = pool[p].ring /\ st.parent = pool[p].parent
        /\ st.children = pool[p].children /\ st.self = pool[p].self
        /\ st.todo = Tail(pool[p].todo)
    BY <1>1, <1>2 DEF PoolState
  <1>4. /\ pool' = [pool EXCEPT ![p] = st] /\ taken' = taken /\ out' = out
        /\ stack' = [stack EXCEPT ![1].calling = TRUE] /\ Clearing(p)
    BY DEF EmitDestroy
  <1> HIDE DEF st
  <1>5. out = None /\ stack # <<>> /\ out' = None
    BY <1>4, ClearingFacts
  <1>6. /\ CallsIn(pool, stack)' => IInv'
        /\ \A s : CallsIn(pool, s) => CallsIn(pool', s)
    BY <1>2, <1>3, <1>4, <1>5, KeepsPages
  <1>7. CallsIn(pool, stack')
    BY <1>4, <1>5, Facts, Handling
  <1> QED BY <1>6, <1>7

LEMMA HandlerReturnsStep ==
    ASSUME IInv, HandlerReturns
    PROVE  IInv'
  <1>1. /\ out = None /\ stack # <<>> /\ UNCHANGED <<pool, taken, out>>
        /\ stack' = [stack EXCEPT ![1].calling = FALSE]
    BY DEF HandlerReturns, ClientRuns
  <1>2. CallsIn(pool, stack')
    BY <1>1, Facts, Handling
  <1>3. pool' = pool /\ taken' = taken /\ out' = None
    BY <1>1
  <1> QED BY <1>1, <1>2, <1>3 DEF IInv, StringIn

\* A ring of one page.
LEMMA OnePage ==
    ASSUME NEW x \in PageState, x.fill <= Cap[x.page]
    PROVE  RingOK(<<x>>) /\ PagesOf(<<x>>) = {x.page}
  <1> DEFINE s == <<x>>
  <1>1. s \in Seq(PageState) /\ Len(s) = 1 /\ s[1] = x /\ s # <<>>
    OBVIOUS
  <1> HIDE DEF s
  <1>2. RingOK(s)
    BY <1>1 DEF RingOK
  <1>3. \A pg : pg \in PagesOf(s) <=> \E i \in 1..Len(s) : s[i].page = pg
    BY <1>2, RingType
  <1>4. PagesOf(s) = {x.page}
    BY <1>1, <1>3
  <1> QED BY <1>2, <1>4 DEF s

LEMMA SelfOnlyPage ==
    ASSUME IInv, NEW p \in Alive
    PROVE  /\ SelfOnly(p) \in PageState /\ SelfOnly(p).page = pool[p].self
           /\ SelfOnly(p).fill <= Cap[pool[p].self]
  <1> DEFINE ring == pool[p].ring
  <1>1. /\ RingOK(ring) /\ pool[p].self \in PagesOf(ring) /\ pool[p] \in PoolState
        /\ Header <= Cap[pool[p].self]
    BY Facts
  <1>2. pool[p].self \in Page
    BY <1>1 DEF PoolState
  <1>3. /\ ring \in Seq(PageState)
        /\ \A i \in 1..Len(ring) : ring[i] \in PageState /\ ring[i].index \in Nat
        /\ \A pg : pg \in PagesOf(ring) <=> \E i \in 1..Len(ring) : ring[i].page = pg
    BY <1>1, RingType
  <1> DEFINE E == {e \in ToSet(ring) : e.page = pool[p].self}
             x == CHOOSE e \in ToSet(ring) : e.page = pool[p].self
  <1> HIDE DEF ring
  <1>4. \A y : y \in ToSet(ring) <=> \E i \in 1..Len(ring) : ring[i] = y
    BY <1>3, SetOfSeq
  <1>5. \E e \in ToSet(ring) : e.page = pool[p].self
    BY <1>1, <1>3, <1>4
  <1>6. x \in ToSet(ring)
    BY <1>5
  <1> HIDE DEF x
  <1>7. x.index \in Nat
    BY <1>3, <1>4, <1>6
  <1>8. SelfOnly(p) = [page |-> pool[p].self, fill |-> Header, index |-> x.index]
    BY DEF SelfOnly, x, ring
  <1>9. Header \in Nat
    BY SizeAssumption
  <1> QED BY <1>1, <1>2, <1>7, <1>8, <1>9 DEF PageState

LEMMA ClearEndsStep ==
    ASSUME IInv, NEW p \in Alive, ClearEnds(p)
    PROVE  IInv'
  <1>1. /\ pool' = [pool EXCEPT ![p].ring = <<SelfOnly(p)>>]
        /\ taken' = taken \ (PagesOf(pool[p].ring) \ {pool[p].self})
        /\ stack' = Tail(stack) /\ out' = out /\ Clearing(p)
    BY DEF ClearEnds, Done
  <1>2. out = None /\ stack # <<>>
    BY <1>1, ClearingFacts
  <1> DEFINE ring == <<SelfOnly(p)>>
             st == [pool[p] EXCEPT !.ring = ring]
  <1>3. /\ RingOK(pool[p].ring) /\ pool[p] \in PoolState /\ pool[p].self \in PagesOf(pool[p].ring)
        /\ IsInjective(pool[p].todo) /\ PagesOf(pool[p].ring) \subseteq taken
    BY Facts
  <1>4. RingOK(ring) /\ PagesOf(ring) = {pool[p].self}
    BY SelfOnlyPage, OnePage
  <1> HIDE DEF ring
  <1>5. /\ st \in PoolState /\ st.ring = ring /\ st.parent = pool[p].parent
        /\ st.children = pool[p].children /\ st.self = pool[p].self /\ st.todo = pool[p].todo
    BY <1>3, <1>4 DEF PoolState, RingOK
  <1>6. ChangesTo(pool, pool', p, st)
    BY <1>1 DEF ChangesTo, ring
  <1> HIDE DEF st
  <1>7. Replaces(st, pool[p])
    BY <1>3, <1>4, <1>5 DEF Replaces
  <1>8. /\ PoolsIn(pool) /\ TreeIn(pool) /\ AcyclicIn(pool) /\ p \in AliveIn(pool)
        /\ CallsIn(pool, stack) /\ taken \subseteq Page
    BY Facts
  <1>9. OwnedIn(pool, <<>>, taken)
    BY <1>2, Facts DEF FreshOf
  <1> DEFINE po2 == pool'  mine == PagesOf(pool[p].ring) \cup ToSet(<<>>)
             mine2 == PagesOf(po2[p].ring) \cup ToSet(<<>>)
  <1>10. ChangesTo(pool, po2, p, st)
    BY <1>6
  <1> HIDE DEF po2
  <1>11. /\ PoolsIn(po2) /\ TreeIn(po2) /\ AcyclicIn(po2) /\ AliveIn(po2) = AliveIn(pool)
         /\ \A U : ClosedIn(pool, U) <=> ClosedIn(po2, U)
         /\ \A s : CallsIn(pool, s) => CallsIn(po2, s)
         /\ po2[p] = st /\ \A q \in AliveIn(pool) : q # p => po2[q] = pool[q]
    BY <1>7, <1>8, <1>10, Updated
  <1>12. mine = PagesOf(pool[p].ring) /\ mine2 = {pool[p].self}
    BY <1>4, <1>5, <1>11, SetOfEmpty
  <1>13. Exchanges(taken, taken', mine, mine2)
    <2> HIDE DEF mine, mine2
    <2> QED BY <1>1, <1>3, <1>12 DEF Exchanges
  <1>14. OwnedIn(po2, <<>>, taken')
    <2>1. IsInjective(<<>>) /\ PagesOf(po2[p].ring) \cap ToSet(<<>>) = {}
      BY SetOfEmpty
    <2> QED BY <1>8, <1>9, <1>11, <1>13, <2>1, OwnedUpdate
  <1>15. CallsIn(po2, Tail(stack))
    BY <1>2, <1>8, <1>11, Popped
  <1>16. taken' \subseteq Page /\ out' = None
    BY <1>1, <1>2, <1>8
  <1> QED BY <1>1, <1>11, <1>14, <1>15, <1>16 DEF po2, IInv, StringIn, FreshOf

LEMMA SprintfStep ==
    ASSUME IInv, NEW p \in Alive, NEW n \in Length, Sprintf(p, n)
    PROVE  IInv'
  <1>1. /\ out = None /\ ~InCall /\ out' = [pool |-> p, len |-> n, fresh |-> <<>>]
        /\ pool' = pool /\ taken' = taken /\ stack' = stack
    BY DEF Sprintf, ClientRuns
  <1>2. p \in Pool /\ n \in Nat /\ p \in AliveIn(pool)
    BY Facts, SizeAssumption
  <1>3. out' \in StringState
    BY <1>1, <1>2 DEF StringState
  <1>4. out' # None
    BY <1>3, NoneAssumption
  <1>5. out'.fresh = <<>> /\ out'.pool = p
    BY <1>1
  <1>6. StringIn(pool, stack, out')
    BY <1>1, <1>2, <1>3, <1>5 DEF StringIn, InCall
  <1>7. FreshOf(out) = <<>> /\ FreshOf(out') = <<>>
    BY <1>1, <1>4, <1>5 DEF FreshOf
  <1>8. IInv
    OBVIOUS
  <1> QED BY <1>1, <1>6, <1>7, <1>8 DEF IInv

\* A step that changes what the pools are in relation to each other.
LEMMA NewStep ==
    ASSUME IInv, NEW p \in Pool, New(p)
    PROVE  IInv'
  <1>1. PICK pg \in Pages(MinSize), q \in (Alive \ BeingCleared) \cup {None} :
            pool' = [r \in Pool |->
                IF r = p THEN Fresh(pg, q)
                ELSE IF r = q THEN [pool[q] EXCEPT !.children = <<p>> \o @]
                ELSE pool[r]]
            /\ taken' = taken \cup {pg}
    BY DEF New
  <1>2. out = None /\ out' = None /\ stack' = stack /\ p \notin Alive
    BY DEF New, ClientRuns
  <1>3. /\ pg \in Page /\ pg \notin taken /\ Cap[pg] \in Nat /\ Header \in Nat
        /\ Header <= Cap[pg]
    BY SizeAssumption DEF Pages
  <1>4. /\ PoolsIn(pool) /\ TreeIn(pool) /\ AcyclicIn(pool) /\ CallsIn(pool, stack)
        /\ OwnedIn(pool, <<>>, taken) /\ taken \subseteq Page /\ Alive = AliveIn(pool)
        /\ pool \in [Pool -> PoolState \cup {None}]
    BY <1>2, Facts DEF FreshOf, PoolsIn
  <1>5. q \in Alive \cup {None} /\ p # None /\ p # q /\ q \in Pool \cup {None}
    BY <1>2, NoneAssumption DEF Alive
  <1> DEFINE new == Fresh(pg, q)
             x == [Empty(pg) EXCEPT !.fill = Header]
             ring == <<x>>
             kids == <<p>> \o pool[q].children
             parentNew == [pool[q] EXCEPT !.children = kids]
  <1>6. x \in PageState /\ x.page = pg /\ x.fill <= Cap[pg]
    BY <1>3 DEF Empty, PageState
  <1>7. RingOK(ring) /\ PagesOf(ring) = {pg}
    <2> HIDE DEF x
    <2> QED BY <1>6, OnePage
  <1>8. /\ new \in PoolState /\ new.ring = ring /\ new.self = pg /\ new.parent = q
        /\ new.children = <<>> /\ new.todo = <<>> /\ new # None
    <2>1. new = [ring |-> ring, self |-> pg, parent |-> q, children |-> <<>>, todo |-> <<>>, uses |-> 1]
      BY DEF Fresh
    <2> HIDE DEF ring, new
    <2>2. 1 \in 0..MaxUses
      BY SizeAssumption
    <2>3. ring \in Seq(PageState)
      BY <1>7 DEF RingOK
    <2>4. <<>> \in Seq(Pool) /\ <<>> \in Seq(Handler)
      BY EmptySeq
    <2>5. new \in PoolState
      BY <1>3, <1>5, <2>1, <2>2, <2>3, <2>4 DEF PoolState
    <2> QED BY <2>1, <2>5, NoneAssumption
  <1>9. ASSUME q \in Alive
        PROVE  /\ parentNew \in PoolState /\ parentNew.ring = pool[q].ring
               /\ parentNew.self = pool[q].self /\ parentNew.parent = pool[q].parent
               /\ parentNew.todo = pool[q].todo /\ parentNew.children = kids /\ parentNew # None
               /\ kids \in Seq(Pool) /\ ToSet(kids) = ToSet(pool[q].children) \cup {p}
               /\ IsInjective(kids)
    <2>1. pool[q] \in PoolState
      BY <1>9, Facts
    <2> DEFINE old == pool[q].children
    <2>2. old \in Seq(Pool)
      BY <2>1 DEF PoolState
    <2>3. ToSet(old) = {r \in AliveIn(pool) : pool[r].parent = q} /\ IsInjective(old)
      BY <1>4, <1>9 DEF TreeIn
    <2>4. p \notin ToSet(old)
      BY <1>2, <1>4, <2>3
    <2> HIDE DEF old
    <2>5. kids \in Seq(Pool) /\ ToSet(kids) = ToSet(old) \cup {p}
      BY <2>2, ConsProps DEF old
    <2>6. IsInjective(kids)
      <3>1. kids = InsertAt(old, 1, p)
        <4>1. SubSeq(old, 1, 0) = <<>> /\ SubSeq(old, 1, Len(old)) = old
          BY <2>2, SubSeqFull, SubSeqEmpty, LenProperties
        <4>2. <<>> \o <<p>> = <<p>>
          OBVIOUS
        <4> QED BY <4>1, <4>2 DEF InsertAt, old
      <3>2. 1 \in 1..(Len(old) + 1)
        BY <2>2, LenProperties
      <3>3. old \in Seq(Pool) /\ IsInjective(old) /\ p \in Pool \ ToSet(old)
        BY <2>2, <2>3, <2>4 DEF old
      <3>4. IsInjective(InsertAt(old, 1, p))
        BY <3>2, <3>3, InsertAtInjective
      <3> QED BY <3>1, <3>4
    <2> HIDE DEF kids
    <2>7. parentNew \in PoolState
      BY <2>1, <2>5 DEF PoolState
    <2> QED BY <2>1, <2>5, <2>6, <2>7, NoneAssumption DEF PoolState, old
  <1> DEFINE po2 == pool'
  <1>10. /\ po2 = [r \in Pool |-> IF r = p THEN new ELSE IF r = q THEN parentNew ELSE pool[r]]
    BY <1>1
  <1> HIDE DEF po2, new, parentNew, kids, ring, x
  <1>11. /\ po2[p] = new
         /\ \A r \in Pool : r # p /\ r # q => po2[r] = pool[r]
         /\ q \in Alive => po2[q] = parentNew
    BY <1>5, <1>10 DEF Alive
  <1>12. AliveIn(po2) = Alive \cup {p} /\ po2 \in [Pool -> PoolState \cup {None}]
    <2>1. ASSUME NEW r \in Pool
          PROVE  po2[r] \in PoolState \cup {None} /\ (po2[r] # None <=> r \in Alive \cup {p})
      <3>1. CASE r = p
        BY <1>8, <1>11, <3>1
      <3>2. CASE r = q /\ q \in Alive
        BY <1>9, <1>11, <3>2
      <3>3. CASE r # p /\ r # q
        BY <1>4, <1>11, <3>3 DEF Alive
      <3> QED BY <1>5, <3>1, <3>2, <3>3, NoneAssumption
    <2>2. Alive \subseteq Pool
      BY DEF Alive
    <2> QED BY <1>10, <2>1, <2>2 DEF AliveIn
  <1>13. \A r \in Alive : r \in Pool /\ r # p /\ po2[r].ring = pool[r].ring /\ po2[r].self = pool[r].self
                          /\ po2[r].parent = pool[r].parent /\ po2[r].todo = pool[r].todo
                          /\ (r # q => po2[r].children = pool[r].children)
    <2> SUFFICES ASSUME NEW r \in Alive
                 PROVE  r \in Pool /\ r # p /\ po2[r].ring = pool[r].ring /\ po2[r].self = pool[r].self
                          /\ po2[r].parent = pool[r].parent /\ po2[r].todo = pool[r].todo
                          /\ (r # q => po2[r].children = pool[r].children)
      OBVIOUS
    <2>1. CASE r = q
      BY <1>2, <1>9, <1>11, <2>1 DEF Alive
    <2>2. CASE r # q
      BY <1>2, <1>11, <2>2 DEF Alive
    <2> QED BY <2>1, <2>2
  <1>14. PoolsIn(po2)
    <2> SUFFICES ASSUME NEW r \in Alive \cup {p}
                 PROVE  /\ RingOK(po2[r].ring) /\ IsInjective(po2[r].todo)
                        /\ po2[r].self \in PagesOf(po2[r].ring) /\ Header <= Cap[po2[r].self]
      BY <1>12 DEF PoolsIn
    <2>1. CASE r = p
      BY <1>3, <1>7, <1>8, <1>11, <2>1, SetOfEmpty
    <2>2. CASE r \in Alive
      BY <1>13, <2>2, Facts
    <2> QED BY <2>1, <2>2
  <1>15. TreeIn(po2)
    <2> SUFFICES ASSUME NEW r \in Alive \cup {p}
                 PROVE  /\ po2[r].parent \in Alive \cup {p} \cup {None}
                        /\ ToSet(po2[r].children) = {s \in Alive \cup {p} : po2[s].parent = r}
                        /\ IsInjective(po2[r].children)
      BY <1>12 DEF TreeIn
    <2>1. \A s \in Alive : pool[s].parent \in Alive \cup {None}
      BY <1>4 DEF TreeIn
    <2>2. CASE r = p
      <3>1. {s \in Alive \cup {p} : po2[s].parent = r} = {}
        BY <1>2, <1>5, <1>8, <1>11, <1>13, <2>1, <2>2
      <3> QED BY <1>5, <1>8, <1>11, <2>2, <3>1, SetOfEmpty
    <2>3. CASE r = q /\ q \in Alive
      <3>1. ToSet(pool[q].children) = {s \in Alive : pool[s].parent = q}
        BY <1>4, <2>3 DEF TreeIn
      <3>2. {s \in Alive \cup {p} : po2[s].parent = r} = ToSet(pool[q].children) \cup {p}
        BY <1>8, <1>11, <1>13, <2>3, <3>1
      <3>3. po2[r].children = kids
        BY <1>9, <1>11, <2>3
      <3> QED BY <1>9, <1>13, <2>1, <2>3, <3>2, <3>3
    <2>4. CASE r \in Alive /\ r # q
      <3>1. ToSet(pool[r].children) = {s \in Alive : pool[s].parent = r} /\ IsInjective(pool[r].children)
        BY <1>4, <2>4 DEF TreeIn
      <3>2. {s \in Alive \cup {p} : po2[s].parent = r} = {s \in Alive : pool[s].parent = r}
        BY <1>8, <1>11, <1>13, <2>4
      <3> QED BY <1>13, <2>1, <2>4, <3>1, <3>2
    <2> QED BY <2>2, <2>3, <2>4
  <1>16. ASSUME NEW U \in SUBSET Pool, ClosedIn(pool, U)
         PROVE  ClosedIn(po2, U \ {p})
    <2> SUFFICES ASSUME NEW r \in U \ {p}, r \in Alive PROVE po2[r].parent \in (U \ {p}) \cup {None}
      BY <1>12 DEF ClosedIn
    <2>1. pool[r].parent \in U \cup {None} /\ pool[r].parent \in Alive \cup {None}
      BY <1>4, <1>16 DEF ClosedIn, TreeIn
    <2> QED BY <1>2, <1>13, <2>1
  <1>17. AcyclicIn(po2)
    <2> SUFFICES ASSUME NEW r \in Alive \cup {p}, po2[r].parent # None
                 PROVE  \E U \in SUBSET Pool : ClosedIn(po2, U) /\ po2[r].parent \in U /\ r \notin U
      BY <1>12 DEF AcyclicIn
    <2>1. CASE r = p
      <3>1. ClosedIn(pool, Pool)
        BY <1>4 DEF ClosedIn, TreeIn, AliveIn
      <3>2. ClosedIn(po2, Pool \ {p})
        BY <1>16, <3>1
      <3>3. po2[r].parent = q /\ q \in Pool \ {p}
        BY <1>5, <1>8, <1>11, <2>1
      <3> QED BY <2>1, <3>2, <3>3
    <2>2. CASE r \in Alive
      <3>1. po2[r].parent = pool[r].parent /\ r # p
        BY <1>13, <2>2
      <3>2. PICK U \in SUBSET Pool : ClosedIn(pool, U) /\ pool[r].parent \in U /\ r \notin U
        BY <1>4, <2>2, <3>1 DEF AcyclicIn
      <3>3. pool[r].parent \in Alive
        BY <1>4, <2>2, <3>1 DEF TreeIn
      <3> QED BY <1>2, <1>16, <3>1, <3>2, <3>3
    <2> QED BY <2>1, <2>2
  <1>18. CallsIn(po2, stack)
    <2> DEFINE T == [op : {"clear", "delete"}, pool : AliveIn(pool), calling : BOOLEAN]
               T2 == [op : {"clear", "delete"}, pool : AliveIn(po2), calling : BOOLEAN]
    <2>1. T \subseteq T2
      BY <1>4, <1>12
    <2>2. stack \in Seq(T)
      BY <1>4 DEF CallsIn
    <2>3. \A i \in 1..Len(stack) : stack[i] \in T
      <3> HIDE DEF T
      <3> QED BY <2>2, ElementOfSeq
    <2>4. stack \in Seq(T2)
      <3> HIDE DEF T, T2
      <3>1. stack = [j \in 1..Len(stack) |-> stack[j]] /\ Len(stack) \in Nat
        BY <2>2, SeqDef, LenProperties
      <3> QED BY <2>1, <2>3, <3>1, SeqDef
    <2>5. \A i \in 1..Len(stack) : stack[i].pool \in Alive /\ stack[i].pool # p
      BY <1>2, <1>4, <2>3
    <2>6. Len(stack) \in Nat
      BY <2>2, LenProperties
    <2> HIDE DEF T, T2
    <2>7. InnerIn(po2, stack)
      <3> SUFFICES ASSUME NEW i \in 1..Len(stack)
                   PROVE  \E V \in SUBSET Pool : /\ ClosedIn(po2, V) /\ stack[i].pool \notin V
                                                 /\ \A j \in (i + 1)..Len(stack) : stack[j].pool \in V
        BY DEF InnerIn
      <3>1. PICK V \in SUBSET Pool : /\ ClosedIn(pool, V) /\ stack[i].pool \notin V
                                     /\ \A j \in (i + 1)..Len(stack) : stack[j].pool \in V
        BY <1>4 DEF CallsIn, InnerIn
      <3>2. ClosedIn(po2, V \ {p})
        BY <1>16, <3>1
      <3>3. \A j \in (i + 1)..Len(stack) : j \in 1..Len(stack)
        BY <2>6
      <3> QED BY <2>5, <3>1, <3>2, <3>3
    <2> QED BY <2>4, <2>7 DEF CallsIn, T2
  <1>19. OwnedIn(po2, <<>>, taken')
    <2>1. \A r \in Alive : PagesOf(pool[r].ring) \subseteq taken
      BY Facts
    <2>2. PagesOf(po2[p].ring) = {pg} /\ \A r \in Alive : PagesOf(po2[r].ring) = PagesOf(pool[r].ring)
      BY <1>7, <1>8, <1>11, <1>13
    <2>3. \A r, s \in AliveIn(po2) : r # s => PagesOf(po2[r].ring) \cap PagesOf(po2[s].ring) = {}
      <3>1. \A r, s \in Alive : r # s => PagesOf(pool[r].ring) \cap PagesOf(pool[s].ring) = {}
        BY <1>4 DEF OwnedIn
      <3> QED BY <1>3, <1>12, <2>1, <2>2, <3>1
    <2>4. RingPages(pool) = taken /\ RingPages(pool) = UNION {PagesOf(pool[r].ring) : r \in Alive}
      BY <1>4, SetOfEmpty DEF OwnedIn, RingPages
    <2>5. RingPages(po2) = taken'
      <3>1. RingPages(po2) = UNION {PagesOf(po2[r].ring) : r \in Alive \cup {p}}
        BY <1>12 DEF RingPages
      <3> QED BY <1>1, <2>2, <2>4, <3>1
    <2> QED BY <2>3, <2>5, SetOfEmpty DEF OwnedIn
  <1>20. taken' \subseteq Page
    BY <1>1, <1>3, <1>4
  <1> QED BY <1>2, <1>14, <1>15, <1>17, <1>18, <1>19, <1>20 DEF po2, IInv, StringIn, FreshOf

LEMMA DeleteEndsStep ==
    ASSUME IInv, NEW p \in Alive, DeleteEnds(p)
    PROVE  IInv'
  <1>1. /\ pool' = Forgotten(p) /\ taken' = taken \ PagesOf(pool[p].ring)
        /\ stack' = Tail(stack) /\ out' = out /\ Clearing(p) /\ pool[p].children = <<>>
    BY DEF DeleteEnds, Done, Childless
  <1>2. out = None /\ stack # <<>> /\ Head(stack).pool = p
    BY <1>1, ClearingFacts DEF Clearing
  <1>3. /\ PoolsIn(pool) /\ TreeIn(pool) /\ AcyclicIn(pool) /\ CallsIn(pool, stack)
        /\ OwnedIn(pool, <<>>, taken) /\ taken \subseteq Page /\ Alive = AliveIn(pool)
        /\ pool \in [Pool -> PoolState \cup {None}] /\ p \in Pool
    BY <1>2, Facts DEF FreshOf, PoolsIn
  <1> DEFINE q == pool[p].parent
             kids == RemoveFirst(pool[q].children, p)
             parentNew == [pool[q] EXCEPT !.children = kids]
             po2 == pool'
  <1>4. \A r \in Alive : pool[r].parent # p
    BY <1>1, <1>3, SetOfEmpty DEF TreeIn
  <1>5. q \in Alive \cup {None} /\ q # p
    BY <1>3, <1>4, NoneAssumption DEF TreeIn
  <1>6. ASSUME q \in Alive
        PROVE  /\ parentNew \in PoolState /\ parentNew.ring = pool[q].ring
               /\ parentNew.self = pool[q].self /\ parentNew.parent = pool[q].parent
               /\ parentNew.todo = pool[q].todo /\ parentNew.children = kids /\ parentNew # None
               /\ ToSet(kids) = ToSet(pool[q].children) \ {p}
               /\ IsInjective(kids)
    <2>1. pool[q] \in PoolState
      BY <1>6, Facts
    <2>2. pool[q].children \in Seq(Pool) /\ IsInjective(pool[q].children)
      BY <1>3, <1>6, <2>1 DEF PoolState, TreeIn
    <2>3. /\ kids \in Seq(Pool) /\ IsInjective(kids)
          /\ ToSet(kids) = ToSet(pool[q].children) \ {p}
      BY <2>2, RemoveFirstProps
    <2> HIDE DEF kids, q
    <2>4. parentNew \in PoolState
      BY <2>1, <2>3 DEF PoolState
    <2> QED BY <2>1, <2>3, <2>4, NoneAssumption DEF PoolState
  <1>7. po2 = [r \in Pool |-> IF r = p THEN None ELSE IF r = q THEN parentNew ELSE pool[r]]
    BY <1>1 DEF Forgotten
  <1> HIDE DEF po2, parentNew, kids
  <1>8. /\ po2[p] = None
        /\ \A r \in Pool : r # p /\ r # q => po2[r] = pool[r]
        /\ q \in Alive => po2[q] = parentNew
    BY <1>3, <1>5, <1>7 DEF Alive
  <1> HIDE DEF q
  <1>9. AliveIn(po2) = Alive \ {p} /\ po2 \in [Pool -> PoolState \cup {None}]
    <2>1. ASSUME NEW r \in Pool
          PROVE  po2[r] \in PoolState \cup {None} /\ (po2[r] # None <=> r \in Alive \ {p})
      <3>1. CASE r = p
        BY <1>8, <3>1
      <3>2. CASE r = q /\ q \in Alive
        BY <1>5, <1>6, <1>8, <3>2
      <3>3. CASE r # p /\ r # q
        BY <1>3, <1>8, <3>3 DEF Alive
      <3> QED BY <1>5, <3>1, <3>2, <3>3, NoneAssumption
    <2>2. Alive \subseteq Pool
      BY DEF Alive
    <2> QED BY <1>7, <2>1, <2>2 DEF AliveIn
  <1>10. \A r \in Alive : r # p =>
            /\ r \in Pool /\ po2[r].ring = pool[r].ring /\ po2[r].self = pool[r].self
            /\ po2[r].parent = pool[r].parent /\ po2[r].todo = pool[r].todo
            /\ (r # q => po2[r].children = pool[r].children)
    <2> SUFFICES ASSUME NEW r \in Alive, r # p
                 PROVE  /\ r \in Pool /\ po2[r].ring = pool[r].ring /\ po2[r].self = pool[r].self
                        /\ po2[r].parent = pool[r].parent /\ po2[r].todo = pool[r].todo
                        /\ (r # q => po2[r].children = pool[r].children)
      OBVIOUS
    <2>1. CASE r = q
      BY <1>6, <1>8, <2>1 DEF Alive
    <2>2. CASE r # q
      BY <1>8, <2>2 DEF Alive
    <2> QED BY <2>1, <2>2
  <1>11. PoolsIn(po2)
    <2> SUFFICES ASSUME NEW r \in Alive \ {p}
                 PROVE  /\ RingOK(po2[r].ring) /\ IsInjective(po2[r].todo)
                        /\ po2[r].self \in PagesOf(po2[r].ring) /\ Header <= Cap[po2[r].self]
      BY <1>9 DEF PoolsIn
    <2> QED BY <1>10, Facts
  <1>12. TreeIn(po2)
    <2> SUFFICES ASSUME NEW r \in Alive \ {p}
                 PROVE  /\ po2[r].parent \in (Alive \ {p}) \cup {None}
                        /\ ToSet(po2[r].children) = {s \in Alive \ {p} : po2[s].parent = r}
                        /\ IsInjective(po2[r].children)
      BY <1>9 DEF TreeIn
    <2>1. po2[r].parent = pool[r].parent /\ pool[r].parent \in (Alive \ {p}) \cup {None}
      BY <1>3, <1>4, <1>10 DEF TreeIn
    <2>2. /\ ToSet(pool[r].children) = {s \in Alive : pool[s].parent = r}
          /\ IsInjective(pool[r].children)
      BY <1>3 DEF TreeIn
    <2>3. {s \in Alive \ {p} : po2[s].parent = r} = {s \in Alive : pool[s].parent = r} \ {p}
      BY <1>10
    <2>4. CASE r = q
      <3>1. po2[r].children = kids
        BY <1>6, <1>8, <2>4
      <3> QED BY <1>6, <2>1, <2>2, <2>3, <2>4, <3>1
    <2>5. CASE r # q
      <3>1. p \notin {s \in Alive : pool[s].parent = r}
        BY <2>5 DEF q
      <3> QED BY <1>10, <2>1, <2>2, <2>3, <2>5, <3>1
    <2> QED BY <2>4, <2>5
  <1>13. \A U : ClosedIn(pool, U) => ClosedIn(po2, U)
    BY <1>3, <1>9, <1>10 DEF ClosedIn
  <1>14. AcyclicIn(po2)
    BY <1>3, <1>9, <1>10, <1>13 DEF AcyclicIn
  <1>15. CallsIn(po2, Tail(stack))
    <2>1. \A r \in AliveIn(pool) : r # Head(stack).pool => r \in AliveIn(po2)
      BY <1>2, <1>3, <1>9
    <2> QED BY <1>2, <1>3, <1>13, <2>1, Popped
  <1>16. OwnedIn(po2, <<>>, taken')
    <2>1. \A r \in AliveIn(po2) : r \in Alive /\ r # p /\ PagesOf(po2[r].ring) = PagesOf(pool[r].ring)
      BY <1>9, <1>10
    <2>2. /\ \A r, s \in Alive : r # s => PagesOf(pool[r].ring) \cap PagesOf(pool[s].ring) = {}
          /\ taken = UNION {PagesOf(pool[r].ring) : r \in Alive}
      BY <1>3, SetOfEmpty DEF OwnedIn, RingPages
    <2>3. RingPages(po2) = taken'
      <3>1. ASSUME NEW x \in taken' PROVE x \in RingPages(po2)
        <4>1. PICK r \in Alive : x \in PagesOf(pool[r].ring)
          BY <1>1, <2>2
        <4>2. r \in AliveIn(po2)
          BY <1>1, <1>9, <4>1
        <4> QED BY <2>1, <4>1, <4>2 DEF RingPages
      <3>2. ASSUME NEW r \in AliveIn(po2), NEW x \in PagesOf(po2[r].ring) PROVE x \in taken'
        BY <1>1, <2>1, <2>2
      <3> QED BY <3>1, <3>2 DEF RingPages
    <2>4. \A r, s \in AliveIn(po2) : r # s => PagesOf(po2[r].ring) \cap PagesOf(po2[s].ring) = {}
      BY <2>1, <2>2
    <2> QED BY <2>3, <2>4, SetOfEmpty DEF OwnedIn
  <1>17. taken' \subseteq Page /\ out' = None
    BY <1>1, <1>2, <1>3
  <1> QED BY <1>1, <1>11, <1>12, <1>14, <1>15, <1>16, <1>17 DEF po2, IInv, StringIn, FreshOf

\* flush wants more than the page has that it is in.
LEMMA WantedMore ==
    ASSUME Space(Node) \in Nat
    PROVE  Wanted \in Nat /\ Wanted > Space(Node)
  <1> DEFINE a == 2 * Space(Node)  S == {a, MinString}
  <1>1. a \in Nat /\ MinString \in Nat /\ MinString # 0
    BY SizeAssumption
  <1>2. \E x \in S : \A y \in S : x >= y
    BY <1>1
  <1>3. Max(S) \in S /\ \A y \in S : Max(S) >= y
    <2> HIDE DEF S
    <2> QED BY <1>2 DEF Max
  <1>4. Wanted = Max(S)
    BY DEF Wanted
  <1>5. Wanted \in Nat /\ Wanted >= a /\ Wanted >= MinString
    BY <1>1, <1>3, <1>4
  <1> QED BY <1>1, <1>5

\* The string under way and its pool.
LEMMA StringFacts ==
    ASSUME IInv, out # None
    PROVE  /\ out \in StringState /\ out.pool \in Alive /\ out.len \in Nat /\ out.fresh \in Seq(Page)
           /\ FreshOf(out) = out.fresh /\ IsInjective(out.fresh)
           /\ PagesOf(pool[out.pool].ring) \cap ToSet(out.fresh) = {}
           /\ ToSet(out.fresh) \subseteq taken
           /\ ~(stack # <<>> /\ ~Head(stack).calling)
  <1>1. out \in StringState /\ out.pool \in Alive /\ ~(stack # <<>> /\ ~Head(stack).calling)
    BY Facts DEF StringIn
  <1>2. out.len \in Nat /\ out.fresh \in Seq(Page)
    BY <1>1 DEF StringState
  <1>3. FreshOf(out) = out.fresh
    BY DEF FreshOf
  <1>4. OwnedIn(pool, out.fresh, taken) /\ out.pool \in AliveIn(pool)
    BY <1>1, <1>3, Facts
  <1> QED BY <1>1, <1>2, <1>3, <1>4 DEF OwnedIn, RingPages

LEMMA FlushNextStep ==
    ASSUME IInv, FlushNext
    PROVE  IInv'
  <1> DEFINE p == out.pool  ring == pool[p].ring  r == Rotated(ring)
             st == [pool[p] EXCEPT !.ring = r]
  <1>1. /\ out # None /\ out.fresh = <<>> /\ Wanted <= Space(NextOf(ring))
        /\ pool' = [pool EXCEPT ![p].ring = r] /\ taken' = taken /\ stack' = stack /\ out' = out
    BY DEF FlushNext, Full
  <1>2. p \in Alive
    BY <1>1, StringFacts
  <1>3. /\ RingOK(ring) /\ pool[p] \in PoolState /\ pool[p].self \in PagesOf(ring)
        /\ IsInjective(pool[p].todo)
    BY <1>2, Facts
  <1>4. Node = ring[1]
    BY <1>1 DEF Node
  <1> HIDE DEF ring, p
  <1>5. Len(ring) >= 2
    <2>1. Len(ring) \in Nat \ {0} /\ 1 \in 1..Len(ring) /\ Space(ring[1]) \in Nat
      BY <1>3, RingType
    <2>2. Wanted \in Nat /\ Wanted > Space(ring[1])
      BY <1>4, <2>1, WantedMore
    <2>3. Len(ring) # 1
      BY <1>1, <2>1, <2>2 DEF NextOf
    <2>4. \A n \in Nat \ {0} : n # 1 => n >= 2
      OBVIOUS
    <2> QED BY <2>1, <2>3, <2>4
  <1>6. RingOK(r) /\ Contents(r) = Contents(ring)
    BY <1>3, <1>5, RotatedRing
  <1>7. PagesOf(r) = PagesOf(ring)
    BY <1>3, <1>6, SameContents
  <1> HIDE DEF r
  <1>8. /\ st \in PoolState /\ st.ring = r /\ st.parent = pool[p].parent
        /\ st.children = pool[p].children /\ st.self = pool[p].self /\ st.todo = pool[p].todo
    BY <1>3, <1>6 DEF PoolState, RingOK
  <1> DEFINE po2 == pool'
  <1>9. ChangesTo(pool, po2, p, st)
    BY <1>1 DEF ChangesTo
  <1> HIDE DEF st, po2
  <1>10. Replaces(st, pool[p])
    BY <1>3, <1>6, <1>7, <1>8 DEF Replaces
  <1>11. /\ PoolsIn(pool) /\ TreeIn(pool) /\ AcyclicIn(pool) /\ p \in AliveIn(pool)
         /\ CallsIn(pool, stack) /\ taken \subseteq Page /\ OwnedIn(pool, FreshOf(out), taken)
         /\ StringIn(pool, stack, out)
    BY <1>2, Facts
  <1>12. /\ PoolsIn(po2) /\ TreeIn(po2) /\ AcyclicIn(po2) /\ AliveIn(po2) = AliveIn(pool)
         /\ \A s : CallsIn(pool, s) => CallsIn(po2, s)
         /\ po2[p] = st /\ \A q \in AliveIn(pool) : q # p => po2[q] = pool[q]
    BY <1>9, <1>10, <1>11, Updated
  <1>13. \A q \in AliveIn(pool) : PagesOf(po2[q].ring) = PagesOf(pool[q].ring)
    BY <1>7, <1>8, <1>12 DEF ring
  <1>14. OwnedIn(po2, FreshOf(out), taken)
    <2>1. RingPages(po2) = RingPages(pool)
      BY <1>12, <1>13 DEF RingPages
    <2> QED BY <1>11, <1>12, <1>13, <2>1 DEF OwnedIn
  <1>15. StringIn(po2, stack, out)
    BY <1>11, <1>12 DEF StringIn
  <1> QED BY <1>1, <1>11, <1>12, <1>14, <1>15 DEF po2, IInv

LEMMA FlushNewStep ==
    ASSUME IInv, FlushNew
    PROVE  IInv'
  <1>1. out # None /\ pool' = pool /\ stack' = stack
    BY DEF FlushNew, Full
  <1>2. PICK pg \in Pages(Wanted) : out' = [out EXCEPT !.fresh = <<pg>> \o @] /\ taken' = taken \cup {pg}
    BY DEF FlushNew
  <1>3. pg \in Page /\ pg \notin taken
    BY DEF Pages
  <1>4. /\ out \in StringState /\ out.pool \in Alive /\ out.fresh \in Seq(Page)
        /\ FreshOf(out) = out.fresh /\ IsInjective(out.fresh) /\ ToSet(out.fresh) \subseteq taken
        /\ ~(stack # <<>> /\ ~Head(stack).calling)
    BY <1>1, StringFacts
  <1> DEFINE fr == out.fresh  fr2 == <<pg>> \o fr
  <1>5. fr \in Seq(Page) /\ pg \in Page \ ToSet(fr) /\ IsInjective(fr)
    BY <1>3, <1>4
  <1> HIDE DEF fr
  <1>6. fr2 \in Seq(Page) /\ ToSet(fr2) = ToSet(fr) \cup {pg}
    BY <1>5, ConsProps
  <1>7. IsInjective(fr2)
    <2>1. fr2 = InsertAt(fr, 1, pg)
      <3>1. SubSeq(fr, 1, 0) = <<>> /\ SubSeq(fr, 1, Len(fr)) = fr
        BY <1>5, SubSeqFull, SubSeqEmpty, LenProperties
      <3>2. <<>> \o <<pg>> = <<pg>>
        OBVIOUS
      <3> QED BY <3>1, <3>2 DEF InsertAt
    <2>2. 1 \in 1..(Len(fr) + 1)
      BY <1>5, LenProperties
    <2>3. IsInjective(InsertAt(fr, 1, pg))
      BY <1>5, <2>2, InsertAtInjective
    <2> QED BY <2>1, <2>3
  <1> HIDE DEF fr2
  <1>8. out' \in StringState /\ out'.fresh = fr2 /\ out'.pool = out.pool
    <2>1. out' = [out EXCEPT !.fresh = fr2]
      BY <1>2 DEF fr2, fr
    <2> QED BY <1>4, <1>6, <2>1 DEF StringState
  <1>9. out' # None /\ FreshOf(out') = fr2
    <2>1. out' # None
      BY <1>8, NoneAssumption
    <2> QED BY <1>8, <2>1 DEF FreshOf
  <1>10. StringIn(pool, stack, out')
    BY <1>4, <1>8, Facts DEF StringIn
  <1>11. OwnedIn(pool, fr2, taken')
    <2>1. OwnedIn(pool, fr, taken)
      BY <1>4, Facts DEF fr
    <2> QED BY <1>2, <1>3, <1>6, <1>7, <2>1 DEF OwnedIn
  <1>12. taken' \subseteq Page
    BY <1>2, <1>3, Facts
  <1> QED BY <1>1, <1>9, <1>10, <1>11, <1>12, Facts DEF IInv

LEMMA SprintfEndsStep ==
    ASSUME IInv, SprintfEnds
    PROVE  IInv'
  <1> DEFINE p == out.pool  ring == pool[p].ring  fr == out.fresh  n == out.len
             mid == IF fr = <<>> THEN ring ELSE Linked(Node, ring)
             r == Filled(mid, n)
             st == [pool[p] EXCEPT !.ring = r]
             po2 == pool'
  <1>1. /\ out # None /\ ~(n > Space(Node)) /\ out' = None /\ stack' = stack
        /\ pool' = [pool EXCEPT ![p].ring = r]
        /\ fr = <<>> => taken' = taken
        /\ fr # <<>> => taken' = taken \ ToSet(Tail(fr))
    BY DEF SprintfEnds, Full, Spare
  <1>2. /\ p \in Alive /\ n \in Nat /\ fr \in Seq(Page) /\ FreshOf(out) = fr /\ IsInjective(fr)
        /\ PagesOf(ring) \cap ToSet(fr) = {} /\ ToSet(fr) \subseteq taken
    BY <1>1, StringFacts
  <1>3. /\ RingOK(ring) /\ pool[p] \in PoolState /\ pool[p].self \in PagesOf(ring)
        /\ IsInjective(pool[p].todo) /\ PagesOf(ring) \subseteq taken
    BY <1>2, Facts
  <1> HIDE DEF p, r, st, po2, n
  <1>4. /\ RingOK(mid) /\ n <= Space(mid[1])
        /\ fr = <<>> => PagesOf(mid) = PagesOf(ring)
        /\ fr # <<>> => PagesOf(mid) = PagesOf(ring) \cup {Head(fr)}
    <2>1. CASE fr = <<>>
      <3>1. mid = ring /\ Node = ring[1]
        BY <2>1 DEF Node, p
      <3>2. Space(ring[1]) \in Nat
        BY <1>3, RingType
      <3> QED BY <1>1, <1>2, <1>3, <2>1, <3>1, <3>2
    <2>2. CASE fr # <<>>
      <3> DEFINE pg == Head(fr)  e == Empty(pg)
      <3>1. mid = Linked(e, ring) /\ Node = e
        BY <2>2 DEF Node
      <3>2. pg \in Page /\ pg \in ToSet(fr)
        BY <1>2, <2>2, TailProps
      <3>3. pg \notin PagesOf(ring)
        BY <1>2, <3>2
      <3> HIDE DEF pg
      <3>4. /\ e \in PageState /\ e.page = pg /\ e.fill = 0 /\ e.fill <= Cap[pg]
            /\ Space(e) = Cap[pg] /\ Cap[pg] \in Nat
        BY <3>2, EmptyPage
      <3> HIDE DEF e, ring, fr, mid
      <3>5. /\ RingOK(Linked(e, ring)) /\ Linked(e, ring)[1] = [e EXCEPT !.index = 0]
            /\ Contents(Linked(e, ring)) = Contents(ring) \cup {<<e.page, e.fill>>}
        BY <1>3, <3>3, <3>4, LinkedRing
      <3>6. Adds(mid, ring, pg, 0) /\ RingOK(mid) /\ mid[1] = [e EXCEPT !.index = 0]
        BY <3>1, <3>4, <3>5 DEF Adds
      <3>7. PagesOf(mid) = PagesOf(ring) \cup {pg}
        BY <1>3, <3>6, MoreContents
      <3>8. Space(mid[1]) = Space(e)
        BY <3>4, <3>6 DEF Space, PageState
      <3>9. n <= Space(mid[1])
        BY <1>1, <1>2, <3>1, <3>4, <3>8
      <3> QED BY <2>2, <3>6, <3>7, <3>9 DEF pg
    <2> QED BY <2>1, <2>2
  <1> HIDE DEF mid
  <1>5. RingOK(r) /\ PagesOf(r) = PagesOf(mid)
    BY <1>2, <1>4, FilledRing DEF r
  <1>6. /\ st \in PoolState /\ st.ring = r /\ st.parent = pool[p].parent
        /\ st.children = pool[p].children /\ st.self = pool[p].self /\ st.todo = pool[p].todo
    BY <1>3, <1>5 DEF PoolState, RingOK, st
  <1>7. ChangesTo(pool, po2, p, st)
    BY <1>1 DEF ChangesTo, po2, st
  <1>8. PagesOf(ring) \subseteq PagesOf(r)
    BY <1>4, <1>5
  <1>9. Replaces(st, pool[p])
    BY <1>3, <1>5, <1>6, <1>8 DEF Replaces
  <1>10. /\ PoolsIn(pool) /\ TreeIn(pool) /\ AcyclicIn(pool) /\ p \in AliveIn(pool)
         /\ CallsIn(pool, stack) /\ taken \subseteq Page /\ OwnedIn(pool, fr, taken)
    BY <1>2, Facts
  <1>11. /\ PoolsIn(po2) /\ TreeIn(po2) /\ AcyclicIn(po2) /\ AliveIn(po2) = AliveIn(pool)
         /\ \A s : CallsIn(pool, s) => CallsIn(po2, s)
         /\ po2[p] = st /\ \A q \in AliveIn(pool) : q # p => po2[q] = pool[q]
    BY <1>7, <1>9, <1>10, Updated
  <1> DEFINE mine == PagesOf(ring) \cup ToSet(fr)
             mine2 == PagesOf(po2[p].ring) \cup ToSet(<<>>)
  <1>12. mine2 = PagesOf(mid)
    BY <1>5, <1>6, <1>11, SetOfEmpty
  <1>13. Exchanges(taken, taken', mine, mine2)
    <2>1. CASE fr = <<>>
      <3>1. ToSet(fr) = {}
        BY <2>1, SetOfEmpty
      <3> HIDE DEF mine2
      <3> QED BY <1>1, <1>3, <1>4, <1>12, <2>1, <3>1 DEF Exchanges
    <2>2. CASE fr # <<>>
      <3>1. Head(fr) \in ToSet(fr) /\ ToSet(Tail(fr)) = ToSet(fr) \ {Head(fr)}
        BY <1>2, <2>2, TailProps
      <3>2. mine2 = PagesOf(ring) \cup {Head(fr)} /\ taken' = taken \ (ToSet(fr) \ {Head(fr)})
        BY <1>1, <1>4, <1>12, <2>2, <3>1
      <3> HIDE DEF mine2, ring, fr
      <3> QED BY <1>2, <1>3, <3>1, <3>2 DEF Exchanges
    <2> QED BY <2>1, <2>2
  <1>14. OwnedIn(po2, <<>>, taken')
    <2>1. IsInjective(<<>>) /\ PagesOf(po2[p].ring) \cap ToSet(<<>>) = {}
      BY SetOfEmpty
    <2> QED BY <1>10, <1>11, <1>13, <2>1, OwnedUpdate
  <1>15. taken' \subseteq Page
    BY <1>1, <1>10
  <1>16. StringIn(po2, stack', None) /\ FreshOf(None) = <<>>
    BY DEF StringIn, FreshOf
  <1> QED BY <1>1, <1>10, <1>11, <1>14, <1>15, <1>16 DEF po2, IInv

LEMMA InvStep == IInv /\ [Next]_vars => IInv'
  <1> SUFFICES ASSUME IInv, [Next]_vars PROVE IInv'
    OBVIOUS
  <1>1. ASSUME NEW p \in Pool, New(p) PROVE IInv'
    BY <1>1, NewStep
  <1>2. ASSUME NEW p \in Alive, NEW n \in Size, Alloc(p, n) PROVE IInv'
    BY <1>2, AllocStep
  <1>3. ASSUME NEW p \in Alive, NEW n \in Length, Sprintf(p, n) PROVE IInv'
    BY <1>3, SprintfStep
  <1>4. ASSUME NEW p \in Alive, NEW h \in Handler, Connect(p, h) \/ Disconnect(p, h) PROVE IInv'
    BY <1>4, ConnectStep, DisconnectStep
  <1>5. ASSUME NEW p \in Alive, Attach(p) \/ Deattach(p) \/ Clear(p) \/ Delete(p) PROVE IInv'
    BY <1>5, AttachStep, DeattachStep, ClientCallStep
  <1>6. ASSUME NEW p \in Alive, ClearChild(p) \/ EmitDestroy(p) \/ ClearEnds(p) \/ DeleteEnds(p)
        PROVE  IInv'
    BY <1>6, ClearChildStep, EmitDestroyStep, ClearEndsStep, DeleteEndsStep
  <1>7. CASE HandlerReturns
    BY <1>7, HandlerReturnsStep
  <1>8. CASE FlushNext \/ FlushNew \/ SprintfEnds
    BY <1>8, FlushNextStep, FlushNewStep, SprintfEndsStep
  <1>9. CASE UNCHANGED vars
    <2>1. pool' = pool /\ taken' = taken /\ stack' = stack /\ out' = out
      BY <1>9 DEF vars
    <2> QED BY <2>1 DEF IInv
  <1> QED BY <1>1, <1>2, <1>3, <1>4, <1>5, <1>6, <1>7, <1>8, <1>9 DEF Next

-----------------------------------------------------------------------------
(* What follows for the specification. *)

\* The invariant of every reachable state: rings in order, a tree of pools, calls that
\* go down the tree, and each page in one place.
THEOREM InvTheorem == Spec => []IInv
  BY InvInit, InvStep, PTL DEF Spec

\* The variables have their types: the pages of a ring hold what they are filled with,
\* a pool's first page is in its ring, its children are the pools that name it as their
\* parent, each once, and no call under way is of a pool that is gone.
THEOREM TypeTheorem == Spec => []TypeOK
  <1>1. IInv => TypeOK
    <2> SUFFICES ASSUME IInv PROVE TypeOK
      OBVIOUS
    <2>1. Alive = AliveIn(pool)
      BY Facts
    <2>2. pool \in [Pool -> PoolState \cup {None}] /\ taken \subseteq Page
      BY Facts DEF PoolsIn
    <2>3. stack \in Seq([op : {"clear", "delete"}, pool : Alive, calling : BOOLEAN])
      BY <2>1, Facts DEF CallsIn
    <2>4. out \in StringState \cup {None}
      BY Facts DEF StringIn
    <2>5. \A p \in Alive :
            /\ pool[p].self \in PagesOf(pool[p].ring)
            /\ pool[p].parent \in Alive \cup {None}
            /\ ToSet(pool[p].children) = {q \in Alive : pool[q].parent = p}
            /\ IsInjective(pool[p].children) /\ IsInjective(pool[p].todo)
      BY <2>1, Facts DEF TreeIn
    <2> QED BY <2>2, <2>3, <2>4, <2>5 DEF TypeOK
  <1> QED BY <1>1, InvTheorem, PTL

\* Every page that the page allocator has given out is in one ring, at one place, or
\* belongs to the string under way: alloc, clear, _delete and vsprintf lose none and
\* free none that is in use.
THEOREM PagesTheorem == Spec => []PagesOwned
  <1>1. IInv => PagesOwned
    <2> SUFFICES ASSUME IInv PROVE PagesOwned
      OBVIOUS
    <2> DEFINE fresh == IF out = None THEN <<>> ELSE out.fresh
               inRings == UNION {PagesOf(pool[p].ring) : p \in Alive}
    <2>1. Alive = AliveIn(pool) /\ OwnedIn(pool, fresh, taken)
      BY Facts DEF FreshOf
    <2>2. IsInjective(fresh) /\ inRings \cap ToSet(fresh) = {} /\ taken = inRings \cup ToSet(fresh)
      BY <2>1 DEF OwnedIn, RingPages
    <2>3. ASSUME NEW p \in Alive, NEW q \in Alive, NEW i \in DOMAIN pool[p].ring,
                 NEW j \in DOMAIN pool[q].ring, pool[p].ring[i].page = pool[q].ring[j].page
          PROVE  p = q /\ i = j
      <3>1. RingOK(pool[p].ring) /\ RingOK(pool[q].ring)
        BY Facts
      <3>2. i \in 1..Len(pool[p].ring) /\ j \in 1..Len(pool[q].ring)
        BY <3>1, RingType
      <3>3. pool[p].ring[i].page \in PagesOf(pool[p].ring)
            /\ pool[q].ring[j].page \in PagesOf(pool[q].ring)
        BY DEF PagesOf
      <3>4. p = q
        BY <2>1, <2>3, <3>3 DEF OwnedIn
      <3> QED BY <2>3, <3>1, <3>2, <3>4 DEF RingOK
    <2> QED BY <2>2, <2>3 DEF PagesOwned
  <1> QED BY <1>1, InvTheorem, PTL

\* Behind its active page a ring has its pages in descending order of free units, so
\* that alloc, which looks at the next page only, looks at the roomiest.
THEOREM RoomiestTheorem == Spec => []RoomiestNext
  <1>1. IInv => RoomiestNext
    <2> SUFFICES ASSUME IInv, NEW p \in Alive, NEW i \in 2..Len(pool[p].ring),
                        NEW j \in 2..Len(pool[p].ring), i < j
                 PROVE  Units(Space(pool[p].ring[i])) >= Units(Space(pool[p].ring[j]))
      BY DEF RoomiestNext
    <2>1. RingOK(pool[p].ring)
      BY Facts
    <2> DEFINE ring == pool[p].ring
    <2>2. ring[i].index = Units(Space(ring[i])) /\ ring[j].index = Units(Space(ring[j]))
          /\ ring[i].index >= ring[j].index
      BY <2>1 DEF RingOK
    <2> HIDE DEF ring
    <2>3. Units(Space(ring[i])) >= Units(Space(ring[j]))
      BY <2>2
    <2> QED BY <2>3 DEF ring
  <1> QED BY <1>1, InvTheorem, PTL

-----------------------------------------------------------------------------
(* The pools implement Arena.  What Arena sees of pools po and calls st. *)

ParentIn(po) == [p \in Pool |->
    IF p \in AliveIn(po) /\ po[p].parent # None THEN po[p].parent ELSE p]
TodoIn(po) == [p \in Pool |-> IF p \in AliveIn(po) THEN po[p].todo ELSE <<>>]

\* The cells handed out of a ring whose first page was self.
Cells(ring, self) ==
    UNION {{<<e[1], c>> : c \in (IF e[1] = self THEN Header ELSE 0)..e[2] - 1} : e \in Contents(ring)}
GivenIn(po) == [p \in Pool |-> IF p \in AliveIn(po) THEN Cells(po[p].ring, po[p].self) ELSE {}]

HandlerCall(st, i) == [pool |-> st[i].pool, depth |-> Len(st) - i]
RunningIn(st) == {HandlerCall(st, i) : i \in {k \in 1..Len(st) : st[k].calling}}

Mapped ==
    /\ Alive = AliveIn(pool) /\ parent = ParentIn(pool) /\ todo = TodoIn(pool)
    /\ given = GivenIn(pool) /\ running = RunningIn(stack)

LEMMA CellsOf ==
    ASSUME NEW ring, NEW self
    PROVE  \A x : x \in Cells(ring, self) <=>
                \E i \in 1..Len(ring) :
                    \E c \in (IF ring[i].page = self THEN Header ELSE 0)..ring[i].fill - 1 :
                        x = <<ring[i].page, c>>
  <1> DEFINE from(pg) == IF pg = self THEN Header ELSE 0
  <1>1. ASSUME NEW x \in Cells(ring, self)
        PROVE  \E i \in 1..Len(ring) : \E c \in from(ring[i].page)..ring[i].fill - 1 :
                    x = <<ring[i].page, c>>
    <2>1. PICK e \in Contents(ring) : \E c \in from(e[1])..e[2] - 1 : x = <<e[1], c>>
      BY DEF Cells
    <2>2. PICK i \in 1..Len(ring) : e = <<ring[i].page, ring[i].fill>>
      BY DEF Contents
    <2>3. e[1] = ring[i].page /\ e[2] = ring[i].fill
      BY <2>2
    <2> HIDE DEF from
    <2> QED BY <2>1, <2>3
  <1>2. ASSUME NEW i \in 1..Len(ring), NEW c \in from(ring[i].page)..ring[i].fill - 1
        PROVE  <<ring[i].page, c>> \in Cells(ring, self)
    <2> DEFINE e == <<ring[i].page, ring[i].fill>>
    <2>1. e \in Contents(ring) /\ e[1] = ring[i].page /\ e[2] = ring[i].fill
      BY DEF Contents
    <2> HIDE DEF e
    <2>2. <<e[1], c>> \in {<<e[1], d>> : d \in from(e[1])..e[2] - 1}
      BY <2>1
    <2>3. <<e[1], c>> \in Cells(ring, self)
      BY <2>1, <2>2 DEF Cells
    <2> QED BY <2>1, <2>3
  <1> QED BY <1>1, <1>2

LEMMA MappedIs == IInv => Mapped
  <1> SUFFICES ASSUME IInv PROVE Mapped
    OBVIOUS
  <1>1. Alive = AliveIn(pool)
    BY Facts
  <1>2. parent = ParentIn(pool) /\ todo = TodoIn(pool)
    BY <1>1 DEF parent, ParentIn, todo, TodoIn
  <1>3. ASSUME NEW p \in Alive
        PROVE  UNION {{<<e.page, c>> : c \in (IF e.page = pool[p].self THEN Header ELSE 0)..e.fill - 1} :
                        e \in ToSet(pool[p].ring)}
               = Cells(pool[p].ring, pool[p].self)
    <2> DEFINE ring == pool[p].ring  self == pool[p].self
               from(pg) == IF pg = self THEN Header ELSE 0
               cells == UNION {{<<e.page, c>> : c \in from(e.page)..e.fill - 1} : e \in ToSet(ring)}
    <2>1. ring \in Seq(PageState)
      BY Facts DEF RingOK
    <2> HIDE DEF ring, self
    <2>2. \A e : e \in ToSet(ring) <=> \E i \in 1..Len(ring) : ring[i] = e
      BY <2>1, SetOfSeq
    <2>3. \A x : x \in Cells(ring, self) <=>
                \E i \in 1..Len(ring) : \E c \in from(ring[i].page)..ring[i].fill - 1 :
                        x = <<ring[i].page, c>>
      BY CellsOf
    <2> HIDE DEF from
    <2>4. ASSUME NEW x \in cells PROVE x \in Cells(ring, self)
      <3>1. PICK e \in ToSet(ring) : \E c \in from(e.page)..e.fill - 1 : x = <<e.page, c>>
        OBVIOUS
      <3> QED BY <2>2, <2>3, <3>1
    <2>5. ASSUME NEW x \in Cells(ring, self) PROVE x \in cells
      <3>1. PICK i \in 1..Len(ring) : \E c \in from(ring[i].page)..ring[i].fill - 1 :
                        x = <<ring[i].page, c>>
        BY <2>3
      <3>2. ring[i] \in ToSet(ring)
        BY <2>2
      <3> QED BY <3>1, <3>2
    <2>6. cells = Cells(ring, self)
      BY <2>4, <2>5
    <2> QED BY <2>6 DEF cells, from, ring, self
  <1>4. given = GivenIn(pool)
    BY <1>1, <1>3 DEF given, GivenIn
  <1>5. DOMAIN stack = 1..Len(stack)
    BY LenProperties, Facts DEF CallsIn
  <1>6. running = RunningIn(stack)
    BY <1>5 DEF running, RunningIn, HandlerCall
  <1> QED BY <1>1, <1>2, <1>4, <1>6 DEF Mapped

LEMMA MappedNext == IInv' => Mapped'
  BY MappedIs, PTL

\* A ring that holds as much at least has handed out as much at least.
LEMMA CellsKept ==
    ASSUME NEW r, NEW ring, NEW self, Contents(ring) \subseteq Contents(r)
    PROVE  Cells(ring, self) \subseteq Cells(r, self)
  BY DEF Cells

\* An empty page adds nothing.
LEMMA CellsSame ==
    ASSUME NEW r, RingOK(r), NEW ring, NEW self, NEW pg, Adds(r, ring, pg, 0)
    PROVE  Cells(r, self) = Cells(ring, self)
  <1>1. Cells(ring, self) \subseteq Cells(r, self)
    BY CellsKept DEF Adds
  <1>2. ASSUME NEW x \in Cells(r, self) PROVE x \in Cells(ring, self)
    <2> DEFINE from(q) == IF q = self THEN Header ELSE 0
    <2>1. PICK e \in Contents(r) : x \in {<<e[1], c>> : c \in from(e[1])..e[2] - 1}
      BY DEF Cells
    <2>2. e[2] # 0
      <3>1. PICK c \in from(e[1])..e[2] - 1 : x = <<e[1], c>>
        BY <2>1
      <3>2. from(e[1]) \in Nat
        BY SizeAssumption
      <3> HIDE DEF from
      <3> QED BY <3>1, <3>2
    <2>3. e \in Contents(ring)
      <3>1. <<pg, 0>>[2] = 0
        OBVIOUS
      <3> QED BY <2>2, <3>1 DEF Adds
    <2> QED BY <2>1, <2>3 DEF Cells
  <1> QED BY <1>1, <1>2

LEMMA FilledCells ==
    ASSUME NEW ring, RingOK(ring), NEW n \in Nat, n <= Space(ring[1]), NEW self
    PROVE  Cells(ring, self) \subseteq Cells(Filled(ring, n), self)
  <1> DEFINE r == Filled(ring, n)  from(pg) == IF pg = self THEN Header ELSE 0
  <1>1. /\ RingOK(r) /\ Len(r) = Len(ring) /\ r[1] = [ring[1] EXCEPT !.fill = @ + n]
        /\ \A i \in 2..Len(ring) : r[i] = ring[i]
    BY FilledRing
  <1>2. Len(ring) \in Nat \ {0} /\ \A i \in 1..Len(ring) : ring[i] \in PageState /\ ring[i].fill \in Nat
    BY RingType
  <1> HIDE DEF r
  <1>3. ASSUME NEW i \in 1..Len(ring)
        PROVE  r[i].page = ring[i].page /\ r[i].fill \in Nat /\ ring[i].fill <= r[i].fill
    <2>1. CASE i = 1
      <3>1. ring[1] \in PageState /\ ring[1].fill \in Nat
        BY <1>2, <2>1
      <3>2. r[1].page = ring[1].page /\ r[1].fill = ring[1].fill + n
        BY <1>1, <3>1 DEF PageState
      <3> QED BY <2>1, <3>1, <3>2
    <2>2. CASE i # 1
      <3>1. r[i] = ring[i] /\ ring[i].fill \in Nat
        BY <1>1, <1>2, <2>2
      <3> QED BY <3>1
    <2> QED BY <2>1, <2>2
  <1> HIDE DEF from
  <1>4. ASSUME NEW x \in Cells(ring, self) PROVE x \in Cells(r, self)
    <2>1. PICK i \in 1..Len(ring) : \E c \in from(ring[i].page)..ring[i].fill - 1 : x = <<ring[i].page, c>>
      BY CellsOf DEF from
    <2>2. PICK c \in from(ring[i].page)..ring[i].fill - 1 : x = <<ring[i].page, c>>
      BY <2>1
    <2>3. from(ring[i].page) \in Nat
      BY SizeAssumption DEF from
    <2>4. c \in from(r[i].page)..r[i].fill - 1 /\ x = <<r[i].page, c>> /\ i \in 1..Len(r)
      BY <1>1, <1>2, <1>3, <2>2, <2>3
    <2> QED BY <2>4, CellsOf DEF from
  <1> QED BY <1>4 DEF r

LEMMA AllocatedCells ==
    ASSUME NEW ring, RingOK(ring), NEW n \in Nat, NEW r \in Allocated(ring, n), NEW self
    PROVE  Cells(ring, self) \subseteq Cells(r, self)
  <1>1. PICK mid : Ready(ring, mid, n) /\ r = Filled(mid, n)
    BY AllocatedIs
  <1>2. RingOK(mid) /\ n <= Space(mid[1])
    BY <1>1 DEF Ready
  <1>3. Cells(mid, self) = Cells(ring, self)
    <2>1. CASE Contents(mid) = Contents(ring)
      BY <2>1 DEF Cells
    <2>2. ASSUME NEW pg, Contents(mid) = Contents(ring) \cup {<<pg, 0>>}
          PROVE  Cells(mid, self) = Cells(ring, self)
      <3>1. Adds(mid, ring, pg, 0)
        BY <2>2 DEF Adds
      <3> QED BY <1>2, <3>1, CellsSame
    <2> QED BY <1>1, <2>1, <2>2 DEF Ready
  <1> QED BY <1>1, <1>2, <1>3, FilledCells

\* What two rings without a common page have handed out is apart.
LEMMA CellsApart ==
    ASSUME NEW r, RingOK(r), NEW s, RingOK(s), PagesOf(r) \cap PagesOf(s) = {},
           NEW a, NEW b
    PROVE  Cells(r, a) \cap Cells(s, b) = {}
  <1> SUFFICES ASSUME NEW x \in Cells(r, a), x \in Cells(s, b) PROVE FALSE
    OBVIOUS
  <1>1. PICK i \in 1..Len(r) : \E c \in (IF r[i].page = a THEN Header ELSE 0)..r[i].fill - 1 :
                                    x = <<r[i].page, c>>
    BY CellsOf
  <1>2. PICK j \in 1..Len(s) : \E c \in (IF s[j].page = b THEN Header ELSE 0)..s[j].fill - 1 :
                                    x = <<s[j].page, c>>
    BY CellsOf
  <1>3. r[i].page = s[j].page
    BY <1>1, <1>2
  <1>4. r[i].page \in PagesOf(r) /\ s[j].page \in PagesOf(s)
    BY RingType
  <1> QED BY <1>3, <1>4

\* A pool as it begins, and as clear leaves it, has handed out nothing.
LEMMA CellsOfOne ==
    ASSUME NEW x \in PageState, x.fill = Header
    PROVE  Cells(<<x>>, x.page) = {}
  <1> DEFINE s == <<x>>
  <1>1. Len(s) = 1 /\ s[1] = x
    OBVIOUS
  <1>2. Header \in Nat
    BY SizeAssumption
  <1> HIDE DEF s
  <1>3. ASSUME NEW y \in Cells(s, x.page) PROVE FALSE
    <2>1. PICK i \in 1..Len(s) : \E c \in (IF s[i].page = x.page THEN Header ELSE 0)..s[i].fill - 1 :
                                    y = <<s[i].page, c>>
      BY CellsOf
    <2>2. s[i] = x
      BY <1>1, <2>1
    <2>3. \E c \in Header..Header - 1 : TRUE
      BY <2>1, <2>2
    <2> QED BY <1>2, <2>3
  <1> QED BY <1>3 DEF s

-----------------------------------------------------------------------------
(* The calls of handlers under way. *)

\* What the lemmas take from the calls.
LEMMA StackType ==
    ASSUME NEW po, NEW st, CallsIn(po, st)
    PROVE  /\ Len(st) \in Nat /\ (st # <<>> => Len(st) \in Nat \ {0} /\ Head(st) = st[1])
           /\ \E T : st \in Seq(T)
           /\ \A i \in 1..Len(st) : st[i].calling \in BOOLEAN
  <1> DEFINE T == [op : {"clear", "delete"}, pool : AliveIn(po), calling : BOOLEAN]
  <1>1. st \in Seq(T)
    BY DEF CallsIn
  <1>2. \A x \in T : x.calling \in BOOLEAN
    OBVIOUS
  <1> HIDE DEF T
  <1>3. Len(st) \in Nat /\ \A i \in 1..Len(st) : st[i] \in T
    BY <1>1, LenProperties, ElementOfSeq
  <1>4. st # <<>> => Len(st) \in Nat \ {0} /\ Head(st) = st[1]
    BY <1>1, <1>3, EmptySeq, HeadTailProperties
  <1> QED BY <1>1, <1>2, <1>3, <1>4

LEMMA RunningPushed ==
    ASSUME NEW po, NEW st, CallsIn(po, st), NEW f, ~f.calling
    PROVE  RunningIn(<<f>> \o st) = RunningIn(st)
  <1> DEFINE s == <<f>> \o st
  <1>1. PICK T : st \in Seq(T)
    BY StackType
  <1>2. st \in Seq(T \cup {f}) /\ Len(st) \in Nat
    <2>1. Len(st) \in Nat /\ st = [j \in 1..Len(st) |-> st[j]] /\ \A j \in 1..Len(st) : st[j] \in T \cup {f}
      BY <1>1, SeqDef, LenProperties, ElementOfSeq
    <2> QED BY <2>1, SeqDef
  <1>3. Len(s) = Len(st) + 1 /\ \A j \in 1..(Len(st) + 1) : s[j] = IF j = 1 THEN f ELSE st[j - 1]
    BY <1>2, ConsPlaces
  <1> HIDE DEF s
  <1>4. ASSUME NEW i \in 1..Len(s), s[i].calling
        PROVE  HandlerCall(s, i) \in RunningIn(st)
    <2>1. i # 1 /\ i - 1 \in 1..Len(st) /\ s[i] = st[i - 1] /\ Len(s) - i = Len(st) - (i - 1)
      BY <1>2, <1>3, <1>4
    <2>2. HandlerCall(s, i) = HandlerCall(st, i - 1)
      BY <2>1 DEF HandlerCall
    <2> QED BY <1>4, <2>1, <2>2 DEF RunningIn
  <1>5. ASSUME NEW i \in 1..Len(st), st[i].calling
        PROVE  HandlerCall(st, i) \in RunningIn(s)
    <2>1. i + 1 \in 1..Len(s) /\ s[i + 1] = st[i] /\ Len(s) - (i + 1) = Len(st) - i
      BY <1>2, <1>3
    <2>2. HandlerCall(s, i + 1) = HandlerCall(st, i)
      BY <2>1 DEF HandlerCall
    <2> QED BY <1>5, <2>1, <2>2 DEF RunningIn
  <1>6. RunningIn(s) \subseteq RunningIn(st) /\ RunningIn(st) \subseteq RunningIn(s)
    BY <1>4, <1>5 DEF RunningIn
  <1> QED BY <1>6 DEF s

LEMMA RunningPopped ==
    ASSUME NEW po, NEW st, CallsIn(po, st), st # <<>>, ~Head(st).calling
    PROVE  RunningIn(Tail(st)) = RunningIn(st)
  <1> DEFINE s == Tail(st)
  <1>1. PICK T : st \in Seq(T)
    BY StackType
  <1>2. Len(st) \in Nat \ {0} /\ Head(st) = st[1]
    BY StackType
  <1>3. Len(s) = Len(st) - 1 /\ \A j \in 1..(Len(st) - 1) : s[j] = st[j + 1]
    BY <1>1, HeadTailProperties
  <1> HIDE DEF s
  <1>4. ASSUME NEW i \in 1..Len(s), s[i].calling
        PROVE  HandlerCall(s, i) \in RunningIn(st)
    <2>1. i + 1 \in 1..Len(st) /\ s[i] = st[i + 1] /\ Len(st) - (i + 1) = Len(s) - i
      BY <1>2, <1>3
    <2>2. HandlerCall(s, i) = HandlerCall(st, i + 1)
      BY <2>1 DEF HandlerCall
    <2> QED BY <1>4, <2>1, <2>2 DEF RunningIn
  <1>5. ASSUME NEW i \in 1..Len(st), st[i].calling
        PROVE  HandlerCall(st, i) \in RunningIn(s)
    <2>1. i # 1
      BY <1>2, <1>5
    <2>2. i - 1 \in 1..Len(s) /\ s[i - 1] = st[(i - 1) + 1] /\ (i - 1) + 1 = i
          /\ Len(s) - (i - 1) = Len(st) - i
      BY <1>2, <1>3, <2>1
    <2>3. HandlerCall(s, i - 1) = HandlerCall(st, i)
      BY <2>2 DEF HandlerCall
    <2> QED BY <1>5, <2>2, <2>3 DEF RunningIn
  <1>6. RunningIn(s) \subseteq RunningIn(st) /\ RunningIn(st) \subseteq RunningIn(s)
    BY <1>4, <1>5 DEF RunningIn
  <1> QED BY <1>6 DEF s

\* The innermost call goes into a handler, or comes out of one.
LEMMA RunningSet ==
    ASSUME NEW po, NEW st, CallsIn(po, st), st # <<>>, NEW s,
           s = [st EXCEPT ![1].calling = ~@]
    PROVE  LET r == HandlerCall(st, 1) IN
           /\ st[1].calling => r \in RunningIn(st) /\ RunningIn(s) = RunningIn(st) \ {r}
           /\ ~st[1].calling => r \notin RunningIn(st) /\ RunningIn(s) = RunningIn(st) \cup {r}
           /\ \A x \in RunningIn(st) \ {r} : x.depth < r.depth
  <1> DEFINE r == HandlerCall(st, 1)  L == Len(st)  b == st[1].calling
  <1>1. L \in Nat \ {0} /\ b \in BOOLEAN /\ 1 \in 1..L
    BY StackType
  <1>3. /\ Len(s) = L /\ s[1].pool = st[1].pool /\ (s[1].calling <=> ~b)
        /\ \A j \in 2..L : s[j] = st[j]
    <2> DEFINE T == [op : {"clear", "delete"}, pool : AliveIn(po), calling : BOOLEAN]
               x == [st[1] EXCEPT !.calling = ~b]
    <2>1. st \in Seq(T)
      BY DEF CallsIn
    <2>2. st[1] \in T
      <3> HIDE DEF T
      <3> QED BY <1>1, <2>1, ElementOfSeq
    <2>3. x \in T /\ x.pool = st[1].pool /\ x.calling = ~b
      BY <1>1, <2>2
    <2>4. s = [st EXCEPT ![1] = x]
      OBVIOUS
    <2> HIDE DEF T, x, b
    <2>5. Len(s) = L /\ \A j \in 1..L : s[j] = IF j = 1 THEN x ELSE st[j]
      BY <1>1, <2>1, <2>3, <2>4
    <2>6. s[1] = x /\ \A j \in 2..L : s[j] = st[j]
      BY <1>1, <2>5
    <2> QED BY <2>3, <2>5, <2>6
  <1> HIDE DEF b, L
  <1>4. \A j \in 1..L : HandlerCall(s, j) = HandlerCall(st, j)
    <2> SUFFICES ASSUME NEW j \in 1..L PROVE s[j].pool = st[j].pool
      BY <1>3 DEF HandlerCall, L
    <2>1. j = 1 \/ j \in 2..L
      BY <1>1
    <2> QED BY <1>3, <2>1
  <1>5. \A j \in 2..L : HandlerCall(st, j) # r /\ HandlerCall(st, j).depth < r.depth
    <2> SUFFICES ASSUME NEW j \in 2..L PROVE HandlerCall(st, j) # r /\ HandlerCall(st, j).depth < r.depth
      OBVIOUS
    <2>1. HandlerCall(st, j).depth = L - j /\ r.depth = L - 1
      BY DEF HandlerCall, L
    <2>2. L - j < L - 1 /\ L - j # L - 1
      BY <1>1
    <2> QED BY <2>1, <2>2
  <1> DEFINE O == {HandlerCall(st, j) : j \in {k \in 2..L : st[k].calling}}
  <1>6. r \notin O /\ \A x \in O : x.depth < r.depth
    BY <1>5
  <1>7. RunningIn(st) = IF b THEN O \cup {r} ELSE O
    <2>1. \A j \in 1..L : j = 1 \/ j \in 2..L
      BY <1>1
    <2>2. RunningIn(st) = {HandlerCall(st, j) : j \in {k \in 1..L : st[k].calling}}
      BY DEF RunningIn, L
    <2>3. 2..L \subseteq 1..L
      BY <1>1
    <2> QED BY <1>1, <2>1, <2>2, <2>3 DEF b
  <1>8. RunningIn(s) = IF b THEN O ELSE O \cup {r}
    <2>1. \A j \in 1..L : j = 1 \/ j \in 2..L
      BY <1>1
    <2>2. 2..L \subseteq 1..L
      BY <1>1
    <2>3. \A j \in 2..L : s[j].calling = st[j].calling
      BY <1>3
    <2>4. \A x : x \in RunningIn(s) <=> \E j \in 1..L : s[j].calling /\ x = HandlerCall(st, j)
      <3>1. \A x : x \in RunningIn(s) <=> \E j \in 1..L : s[j].calling /\ x = HandlerCall(s, j)
        BY <1>3 DEF RunningIn
      <3> QED BY <1>4, <3>1
    <2>5. \A x : x \in O <=> \E j \in 2..L : st[j].calling /\ x = HandlerCall(st, j)
      OBVIOUS
    <2> HIDE DEF O
    <2>6. \A x : x \in RunningIn(s) <=> x \in O \/ (s[1].calling /\ x = r)
      BY <1>1, <2>1, <2>2, <2>3, <2>4, <2>5
    <2>7. CASE b
      <3>1. ~s[1].calling
        BY <1>3, <2>7
      <3>2. \A x : x \in RunningIn(s) <=> x \in O
        BY <2>6, <3>1
      <3>3. RunningIn(s) = O
        BY <3>2
      <3> QED BY <2>7, <3>3
    <2>8. CASE ~b
      <3>1. s[1].calling
        BY <1>3, <2>8
      <3> HIDE DEF r
      <3>2. \A x : x \in RunningIn(s) <=> x \in O \cup {r}
        BY <2>6, <3>1
      <3>3. RunningIn(s) = O \cup {r}
        BY <3>2
      <3> QED BY <2>8, <3>3
    <2> QED BY <2>7, <2>8
  <1> HIDE DEF O, r
  <1>9. /\ b => r \in RunningIn(st) /\ RunningIn(s) = RunningIn(st) \ {r}
        /\ ~b => r \notin RunningIn(st) /\ RunningIn(s) = RunningIn(st) \cup {r}
        /\ \A x \in RunningIn(st) \ {r} : x.depth < r.depth
    BY <1>1, <1>6, <1>7, <1>8
  <1> QED BY <1>9 DEF b, r

-----------------------------------------------------------------------------
(* Every step is one of Arena, or none. *)

\* Pool p changes to st, and stays where it is in the tree.
OnePool(p, st) ==
    /\ st \in PoolState /\ st.parent = pool[p].parent /\ st.self = pool[p].self
    /\ pool' = [pool EXCEPT ![p] = st]

LEMMA OnePoolMaps ==
    ASSUME IInv, IInv', NEW p \in Alive, NEW st, OnePool(p, st)
    PROVE  /\ Alive' = Alive /\ parent' = parent /\ p \in Pool
           /\ todo' = [todo EXCEPT ![p] = st.todo] /\ todo[p] = pool[p].todo
           /\ given' = [given EXCEPT ![p] = Cells(st.ring, st.self)]
           /\ given[p] = Cells(pool[p].ring, pool[p].self)
           /\ given'[p] = Cells(st.ring, st.self)
           /\ \A q \in Alive \ {p} : given'[p] \cap given[q] = {}
  <1> DEFINE po2 == pool'
  <1>1. /\ Alive = AliveIn(pool) /\ parent = ParentIn(pool) /\ todo = TodoIn(pool)
        /\ given = GivenIn(pool)
    BY MappedIs DEF Mapped
  <1>2. /\ Alive' = AliveIn(po2) /\ parent' = ParentIn(po2) /\ todo' = TodoIn(po2)
        /\ given' = GivenIn(po2)
    BY MappedNext DEF Mapped
  <1>3. PoolsIn(po2) /\ OwnedIn(po2, FreshOf(out'), taken')
    BY DEF IInv
  <1>4. pool \in [Pool -> PoolState \cup {None}] /\ p \in Pool /\ p \in AliveIn(pool)
    BY <1>1, Facts DEF PoolsIn
  <1>5. po2 = [pool EXCEPT ![p] = st] /\ st # None /\ st.parent = pool[p].parent /\ st.self = pool[p].self
    BY NoneAssumption DEF OnePool
  <1> HIDE DEF po2
  <1>6. po2[p] = st /\ \A q \in Pool : q # p => po2[q] = pool[q]
    BY <1>4, <1>5
  <1>7. AliveIn(po2) = AliveIn(pool)
    BY <1>4, <1>5, <1>6 DEF AliveIn
  <1>8. ParentIn(po2) = ParentIn(pool)
    BY <1>5, <1>6, <1>7 DEF ParentIn
  <1>9. TodoIn(po2) = [TodoIn(pool) EXCEPT ![p] = st.todo] /\ TodoIn(pool)[p] = pool[p].todo
    BY <1>4, <1>6, <1>7 DEF TodoIn
  <1>10. /\ GivenIn(po2) = [GivenIn(pool) EXCEPT ![p] = Cells(st.ring, st.self)]
         /\ GivenIn(pool)[p] = Cells(pool[p].ring, pool[p].self)
         /\ GivenIn(po2)[p] = Cells(st.ring, st.self)
    BY <1>4, <1>6, <1>7 DEF GivenIn
  <1>11. ASSUME NEW q \in AliveIn(pool), q # p
         PROVE  Cells(st.ring, st.self) \cap GivenIn(pool)[q] = {}
    <2>1. q \in Pool /\ po2[q] = pool[q] /\ q \in AliveIn(po2) /\ p \in AliveIn(po2)
      BY <1>4, <1>6, <1>7, <1>11 DEF AliveIn
    <2>2. RingOK(po2[q].ring) /\ RingOK(po2[p].ring)
      BY <1>3, <2>1 DEF PoolsIn
    <2>3. PagesOf(po2[p].ring) \cap PagesOf(po2[q].ring) = {}
      BY <1>3, <1>11, <2>1 DEF OwnedIn
    <2>4. GivenIn(pool)[q] = Cells(po2[q].ring, po2[q].self)
      BY <2>1, <1>7 DEF GivenIn
    <2> QED BY <1>6, <2>2, <2>3, <2>4, CellsApart
  <1>12. \A q \in Alive \ {p} : given'[p] \cap given[q] = {}
    BY <1>1, <1>2, <1>10, <1>11
  <1> QED BY <1>1, <1>2, <1>4, <1>7, <1>8, <1>9, <1>10, <1>12

\* Memory is handed out.
LEMMA GrantMaps ==
    ASSUME IInv, IInv', NEW p \in Alive, NEW st, OnePool(p, st),
           Cells(pool[p].ring, pool[p].self) \subseteq Cells(st.ring, st.self),
           st.todo = pool[p].todo \/ \E h \in Handler : st.todo = Append(pool[p].todo, h),
           stack' = stack
    PROVE  ArenaOf!Next
  <1>1. /\ Alive' = Alive /\ parent' = parent /\ p \in Pool
        /\ todo' = [todo EXCEPT ![p] = st.todo] /\ todo[p] = pool[p].todo
        /\ given' = [given EXCEPT ![p] = Cells(st.ring, st.self)]
        /\ given[p] = Cells(pool[p].ring, pool[p].self)
        /\ given'[p] = Cells(st.ring, st.self)
        /\ \A q \in Alive \ {p} : given'[p] \cap given[q] = {}
    BY OnePoolMaps
  <1>2. running' = running
    BY DEF running
  <1>3. todo' = todo \/ \E h \in Handler : todo' = [todo EXCEPT ![p] = Append(@, h)]
    <2>1. CASE st.todo = pool[p].todo
      <3>1. todo' = todo
        BY <1>1, <2>1 DEF todo
      <3> QED BY <3>1
    <2>2. CASE \E h \in Handler : st.todo = Append(pool[p].todo, h)
      <3>1. todo \in [Pool -> {todo[q] : q \in Pool}]
        BY DEF todo
      <3> QED BY <1>1, <2>2, <3>1
    <2> QED BY <2>1, <2>2
  <1>4. ArenaOf!Grant(p)
    BY <1>1, <1>2, <1>3 DEF ArenaOf!Grant
  <1> QED BY <1>1, <1>4 DEF ArenaOf!Next

\* Nothing changes that Arena sees.
LEMMA OnePoolSame ==
    ASSUME IInv, IInv', NEW p \in Alive, NEW st, OnePool(p, st), st.todo = pool[p].todo,
           Cells(st.ring, st.self) = Cells(pool[p].ring, pool[p].self)
    PROVE  Alive' = Alive /\ parent' = parent /\ todo' = todo /\ given' = given
  <1>1. /\ Alive' = Alive /\ parent' = parent /\ p \in Pool
        /\ todo' = [todo EXCEPT ![p] = st.todo] /\ todo[p] = pool[p].todo
        /\ given' = [given EXCEPT ![p] = Cells(st.ring, st.self)]
        /\ given[p] = Cells(pool[p].ring, pool[p].self)
    BY OnePoolMaps
  <1>2. todo' = todo
    BY <1>1 DEF todo
  <1>3. given' = given
    BY <1>1 DEF given
  <1> QED BY <1>1, <1>2, <1>3

LEMMA NoPoolSame ==
    ASSUME pool' = pool
    PROVE  Alive' = Alive /\ parent' = parent /\ todo' = todo /\ given' = given
  <1>1. Alive' = Alive
    BY DEF Alive
  <1> QED BY <1>1 DEF parent, todo, given

\* The pool without a child, as Arena sees it.
LEMMA ChildlessMaps ==
    ASSUME IInv, NEW p \in Alive, Childless(p)
    PROVE  ArenaOf!Childless(p)
  <1>1. Alive = AliveIn(pool) /\ TreeIn(pool) /\ ToSet(pool[p].children) = {}
    BY Facts, SetOfEmpty DEF Childless
  <1>2. \A q \in Alive : pool[q].parent # p
    BY <1>1 DEF TreeIn
  <1>3. ASSUME NEW q \in Alive \ {p} PROVE parent[q] # p
    <2>1. q \in Pool
      BY DEF Alive
    <2> QED BY <1>2, <2>1 DEF parent
  <1> QED BY <1>3 DEF ArenaOf!Childless

\* The calls of handlers, by what the stack is before and after.
LEMMA RunningMaps ==
    ASSUME IInv, IInv'
    PROVE  running = RunningIn(stack) /\ running' = RunningIn(stack') /\ CallsIn(pool, stack)
  BY MappedIs, MappedNext, Facts DEF Mapped

LEMMA PushSame ==
    ASSUME IInv, IInv', NEW op, NEW p, Call(op, p)
    PROVE  running' = running
  <1> DEFINE f == [op |-> op, pool |-> p, calling |-> FALSE]
  <1>1. stack' = <<f>> \o stack /\ ~f.calling
    BY DEF Call
  <1> HIDE DEF f
  <1>2. RunningIn(<<f>> \o stack) = RunningIn(stack)
    BY <1>1, RunningMaps, RunningPushed
  <1> QED BY <1>1, <1>2, RunningMaps

LEMMA AllocMaps ==
    ASSUME IInv, IInv', NEW p \in Alive, NEW n \in Size, Alloc(p, n)
    PROVE  ArenaOf!Next
  <1>1. PICK ring \in Allocated(pool[p].ring, n) : pool' = [pool EXCEPT ![p].ring = ring]
    BY DEF Alloc, Uses
  <1>2. RingOK(pool[p].ring) /\ pool[p] \in PoolState /\ n \in Nat
    BY Facts, SizeAssumption
  <1>3. RingOK(ring)
    BY <1>2, AllocatedRing
  <1>4. Cells(pool[p].ring, pool[p].self) \subseteq Cells(ring, pool[p].self)
    BY <1>2, AllocatedCells
  <1> DEFINE st == [pool[p] EXCEPT !.ring = ring]
  <1>5. /\ st \in PoolState /\ st.ring = ring /\ st.parent = pool[p].parent
        /\ st.self = pool[p].self /\ st.todo = pool[p].todo
    BY <1>2, <1>3 DEF PoolState, RingOK
  <1>6. pool' = [pool EXCEPT ![p] = st]
    BY <1>1
  <1> HIDE DEF st
  <1>7. OnePool(p, st)
    BY <1>5, <1>6 DEF OnePool
  <1>8. stack' = stack
    BY DEF Alloc
  <1> QED BY <1>4, <1>5, <1>7, <1>8, GrantMaps

LEMMA ConnectMaps ==
    ASSUME IInv, IInv', NEW p \in Alive, NEW h \in Handler, Connect(p, h)
    PROVE  ArenaOf!Next
  <1>1. PICK ring \in Allocated(pool[p].ring, Stub) : \E ring2 \in Allocated(ring, Stub) :
            pool' = [pool EXCEPT ![p].ring = ring2, ![p].todo = Queued(@, h)]
    BY DEF Connect
  <1>2. PICK ring2 \in Allocated(ring, Stub) :
            pool' = [pool EXCEPT ![p].ring = ring2, ![p].todo = Queued(@, h)]
    BY <1>1
  <1>3. /\ RingOK(pool[p].ring) /\ pool[p] \in PoolState /\ p \in Pool
        /\ pool[p].todo \in Seq(Handler) /\ Stub \in Nat
    BY Facts, SizeAssumption
  <1>4. RingOK(ring)
    BY <1>3, AllocatedRing
  <1>5. RingOK(ring2)
    BY <1>3, <1>4, AllocatedRing
  <1> DEFINE self == pool[p].self
  <1>6. Cells(pool[p].ring, self) \subseteq Cells(ring, self)
    BY <1>3, AllocatedCells
  <1>7. Cells(ring, self) \subseteq Cells(ring2, self)
    BY <1>3, <1>4, AllocatedCells
  <1> DEFINE more == Append(pool[p].todo, h)
             st == [pool[p] EXCEPT !.ring = ring2, !.todo = more]
  <1>8. more \in Seq(Handler)
    BY <1>3, AppendProps
  <1> HIDE DEF more
  <1>9. /\ st \in PoolState /\ st.ring = ring2 /\ st.parent = pool[p].parent
        /\ st.self = self /\ st.todo = more
    BY <1>3, <1>5, <1>8 DEF PoolState, RingOK
  <1>10. pool' = [pool EXCEPT ![p] = st]
    BY <1>2, <1>3 DEF IInv, PoolsIn, PoolState, Queued, more
  <1> HIDE DEF st
  <1>11. OnePool(p, st)
    BY <1>9, <1>10 DEF OnePool
  <1>12. stack' = stack
    BY DEF Connect
  <1>13. st.todo = Append(pool[p].todo, h) /\ Cells(pool[p].ring, self) \subseteq Cells(st.ring, st.self)
    BY <1>6, <1>7, <1>9 DEF more
  <1> QED BY <1>11, <1>12, <1>13, GrantMaps

LEMMA SprintfEndsMaps ==
    ASSUME IInv, IInv', SprintfEnds
    PROVE  ArenaOf!Next
  <1> DEFINE p == out.pool  ring == pool[p].ring  fr == out.fresh  n == out.len  self == pool[p].self
             mid == IF fr = <<>> THEN ring ELSE Linked(Node, ring)
             r == Filled(mid, n)
             st == [pool[p] EXCEPT !.ring = r]
  <1>1. /\ out # None /\ ~(n > Space(Node)) /\ stack' = stack
        /\ pool' = [pool EXCEPT ![p].ring = r]
    BY DEF SprintfEnds, Full
  <1>2. /\ p \in Alive /\ n \in Nat /\ fr \in Seq(Page) /\ IsInjective(fr)
        /\ PagesOf(ring) \cap ToSet(fr) = {}
    BY <1>1, StringFacts
  <1>3. RingOK(ring) /\ pool[p] \in PoolState
    BY <1>2, Facts
  <1> HIDE DEF p, r, st, n, self
  <1>4. RingOK(mid) /\ n <= Space(mid[1]) /\ Cells(mid, self) = Cells(ring, self)
    <2>1. CASE fr = <<>>
      <3>1. mid = ring /\ Node = ring[1]
        BY <2>1 DEF Node, p
      <3>2. Space(ring[1]) \in Nat
        BY <1>3, RingType
      <3> QED BY <1>1, <1>2, <1>3, <2>1, <3>1, <3>2
    <2>2. CASE fr # <<>>
      <3> DEFINE pg == Head(fr)  e == Empty(pg)
      <3>1. mid = Linked(e, ring) /\ Node = e
        BY <2>2 DEF Node
      <3>2. pg \in Page /\ pg \in ToSet(fr)
        BY <1>2, <2>2, TailProps
      <3>3. pg \notin PagesOf(ring)
        BY <1>2, <3>2
      <3> HIDE DEF pg
      <3>4. /\ e \in PageState /\ e.page = pg /\ e.fill = 0 /\ e.fill <= Cap[pg]
            /\ Space(e) = Cap[pg] /\ Cap[pg] \in Nat
        BY <3>2, EmptyPage
      <3> HIDE DEF e, ring, fr, mid
      <3>5. /\ RingOK(Linked(e, ring)) /\ Linked(e, ring)[1] = [e EXCEPT !.index = 0]
            /\ Contents(Linked(e, ring)) = Contents(ring) \cup {<<e.page, e.fill>>}
        BY <1>3, <3>3, <3>4, LinkedRing
      <3>6. Adds(mid, ring, pg, 0) /\ RingOK(mid) /\ mid[1] = [e EXCEPT !.index = 0]
        BY <3>1, <3>4, <3>5 DEF Adds
      <3>7. Space(mid[1]) = Space(e)
        BY <3>4, <3>6 DEF Space, PageState
      <3>8. n <= Space(mid[1])
        BY <1>1, <1>2, <3>1, <3>4, <3>7
      <3> QED BY <3>6, <3>8, CellsSame
    <2> QED BY <2>1, <2>2
  <1> HIDE DEF mid
  <1>5. RingOK(r) /\ Cells(ring, self) \subseteq Cells(r, self)
    BY <1>2, <1>4, FilledRing, FilledCells DEF r
  <1>6. /\ st \in PoolState /\ st.ring = r /\ st.parent = pool[p].parent
        /\ st.self = self /\ st.todo = pool[p].todo
    BY <1>3, <1>5 DEF PoolState, RingOK, st, self
  <1>7. OnePool(p, st)
    BY <1>1, <1>6 DEF OnePool, st, self
  <1>8. Cells(pool[p].ring, pool[p].self) \subseteq Cells(st.ring, st.self)
    BY <1>5, <1>6 DEF ring, self
  <1> QED BY <1>1, <1>2, <1>6, <1>7, <1>8, GrantMaps

LEMMA FlushNextMaps ==
    ASSUME IInv, IInv', FlushNext
    PROVE  UNCHANGED ArenaOf!vars
  <1> DEFINE p == out.pool  ring == pool[p].ring  r == Rotated(ring)
             st == [pool[p] EXCEPT !.ring = r]
  <1>1. /\ out # None /\ out.fresh = <<>> /\ Wanted <= Space(NextOf(ring))
        /\ pool' = [pool EXCEPT ![p].ring = r] /\ stack' = stack
    BY DEF FlushNext, Full
  <1>2. p \in Alive
    BY <1>1, StringFacts
  <1>3. RingOK(ring) /\ pool[p] \in PoolState
    BY <1>2, Facts
  <1>4. Node = ring[1]
    BY <1>1 DEF Node
  <1> HIDE DEF ring, p
  <1>5. Len(ring) >= 2
    <2>1. Len(ring) \in Nat \ {0} /\ 1 \in 1..Len(ring) /\ Space(ring[1]) \in Nat
      BY <1>3, RingType
    <2>2. Wanted \in Nat /\ Wanted > Space(ring[1])
      BY <1>4, <2>1, WantedMore
    <2>3. Len(ring) # 1
      BY <1>1, <2>1, <2>2 DEF NextOf
    <2>4. \A n \in Nat \ {0} : n # 1 => n >= 2
      OBVIOUS
    <2> QED BY <2>1, <2>3, <2>4
  <1>6. RingOK(r) /\ Contents(r) = Contents(ring)
    BY <1>3, <1>5, RotatedRing
  <1> HIDE DEF r
  <1>7. /\ st \in PoolState /\ st.ring = r /\ st.parent = pool[p].parent
        /\ st.self = pool[p].self /\ st.todo = pool[p].todo
    BY <1>3, <1>6 DEF PoolState, RingOK
  <1>8. OnePool(p, st)
    BY <1>1, <1>7 DEF OnePool
  <1> HIDE DEF st
  <1>9. Cells(st.ring, st.self) = Cells(pool[p].ring, pool[p].self)
    BY <1>6, <1>7 DEF Cells, ring
  <1>10. Alive' = Alive /\ parent' = parent /\ todo' = todo /\ given' = given
    BY <1>2, <1>7, <1>8, <1>9, OnePoolSame
  <1>11. running' = running
    BY <1>1 DEF running
  <1> QED BY <1>10, <1>11 DEF ArenaOf!vars

\* Arena's operators on sequences are the ones used here.
LEMMA ArenaSequences ==
    ASSUME NEW s, NEW e
    PROVE  ArenaOf!RemoveFirst(s, e) = RemoveFirst(s, e) /\ ArenaOf!ToSet(s) = ToSet(s)
  <1> DEFINE I == {i \in 1..Len(s) : s[i] = e}
  <1>1. ArenaOf!Min(I) = Min(I)
    BY DEF ArenaOf!Min, Min
  <1>2. CASE I = {}
    <2>1. ~\E i \in 1..Len(s) : s[i] = e
      BY <1>2
    <2>2. ArenaOf!RemoveFirst(s, e) = s /\ RemoveFirst(s, e) = s
      BY <2>1 DEF ArenaOf!RemoveFirst, RemoveFirst
    <2> QED BY <2>2 DEF ArenaOf!ToSet, ToSet
  <1>3. CASE I # {}
    <2>1. \E i \in 1..Len(s) : s[i] = e
      BY <1>3
    <2>2. RemoveFirst(s, e) = RemoveAt(s, Min(I))
      BY <1>3, <2>1 DEF RemoveFirst, SelectInSeq
    <2>3. ArenaOf!RemoveFirst(s, e) = ArenaOf!RemoveAt(s, ArenaOf!Min(I))
      BY <1>3, <2>1 DEF ArenaOf!RemoveFirst, ArenaOf!SelectInSeq
    <2> QED BY <1>1, <2>2, <2>3 DEF ArenaOf!RemoveAt, RemoveAt, ArenaOf!ToSet, ToSet
  <1> QED BY <1>2, <1>3

LEMMA DisconnectMaps ==
    ASSUME IInv, IInv', NEW p \in Alive, NEW h \in Handler, Disconnect(p, h)
    PROVE  ArenaOf!Next
  <1> DEFINE less == RemoveFirst(pool[p].todo, h)  st == [pool[p] EXCEPT !.todo = less]
  <1>1. pool[p] \in PoolState /\ IsInjective(pool[p].todo) /\ pool[p].todo \in Seq(Handler)
    BY Facts
  <1>2. less \in Seq(Handler)
    BY <1>1, RemoveFirstProps
  <1>3. pool' = [pool EXCEPT ![p] = st] /\ stack' = stack /\ h \in ToSet(pool[p].todo)
    BY DEF Disconnect, Handlers
  <1> HIDE DEF less
  <1>4. /\ st \in PoolState /\ st.ring = pool[p].ring /\ st.parent = pool[p].parent
        /\ st.self = pool[p].self /\ st.todo = less
    BY <1>1, <1>2 DEF PoolState
  <1> HIDE DEF st
  <1>5. OnePool(p, st)
    BY <1>3, <1>4 DEF OnePool
  <1>6. /\ Alive' = Alive /\ parent' = parent /\ p \in Pool
        /\ todo' = [todo EXCEPT ![p] = st.todo] /\ todo[p] = pool[p].todo
        /\ given' = [given EXCEPT ![p] = Cells(st.ring, st.self)]
        /\ given[p] = Cells(pool[p].ring, pool[p].self)
    BY <1>5, OnePoolMaps
  <1>7. given' = given
    BY <1>4, <1>6 DEF given
  <1>8. todo' = [todo EXCEPT ![p] = RemoveFirst(@, h)]
    BY <1>4, <1>6 DEF less, todo
  <1>9. running' = running
    BY <1>3 DEF running
  <1>10. ArenaOf!RemoveFirst(todo[p], h) = RemoveFirst(todo[p], h) /\ ArenaOf!ToSet(todo[p]) = ToSet(todo[p])
    BY ArenaSequences
  <1>11. ArenaOf!Disconnect(p)
    BY <1>3, <1>6, <1>7, <1>8, <1>9, <1>10 DEF ArenaOf!Disconnect
  <1> QED BY <1>6, <1>11 DEF ArenaOf!Next

\* attach and deattach, which may call _delete.
LEMMA AttachMaps ==
    ASSUME IInv, IInv', NEW p \in Alive, Attach(p) \/ Deattach(p)
    PROVE  UNCHANGED ArenaOf!vars
  <1>1. PICK u \in 0..MaxUses : pool' = [pool EXCEPT ![p].uses = u]
    <2>1. pool[p] \in PoolState /\ MaxUses \in Nat
      BY Facts, SizeAssumption
    <2>2. pool[p].uses \in 0..MaxUses
      BY <2>1 DEF PoolState
    <2>3. CASE Attach(p)
      <3>1. pool[p].uses + 1 \in 0..MaxUses /\ pool' = [pool EXCEPT ![p].uses = pool[p].uses + 1]
        BY <2>1, <2>2, <2>3 DEF Attach
      <3> QED BY <3>1
    <2>4. CASE Deattach(p)
      <3>1. pool[p].uses - 1 \in 0..MaxUses /\ pool' = [pool EXCEPT ![p].uses = pool[p].uses - 1]
        BY <2>1, <2>2, <2>4 DEF Deattach
      <3> QED BY <3>1
    <2> QED BY <2>3, <2>4
  <1>2. pool[p] \in PoolState
    BY Facts
  <1> DEFINE st == [pool[p] EXCEPT !.uses = u]
  <1>3. /\ st \in PoolState /\ st.ring = pool[p].ring /\ st.parent = pool[p].parent
        /\ st.self = pool[p].self /\ st.todo = pool[p].todo
    BY <1>2 DEF PoolState
  <1>4. pool' = [pool EXCEPT ![p] = st]
    BY <1>1
  <1> HIDE DEF st
  <1>5. OnePool(p, st)
    BY <1>3, <1>4 DEF OnePool
  <1>6. Alive' = Alive /\ parent' = parent /\ todo' = todo /\ given' = given
    BY <1>3, <1>5, OnePoolSame
  <1>7. running' = running
    <2>1. stack' = stack \/ Call("delete", p)
      BY DEF Attach, Deattach
    <2>2. CASE stack' = stack
      BY <2>2 DEF running
    <2> QED BY <2>1, <2>2, PushSame
  <1> QED BY <1>6, <1>7 DEF ArenaOf!vars

\* The other steps that leave the pools alone.
LEMMA CallMaps ==
    ASSUME IInv, IInv', pool' = pool,
           stack' = stack \/ \E op, q : Call(op, q)
    PROVE  UNCHANGED ArenaOf!vars
  <1>1. running' = running
    <2>1. CASE stack' = stack
      BY <2>1 DEF running
    <2> QED BY <2>1, PushSame
  <1> QED BY <1>1, NoPoolSame DEF ArenaOf!vars

LEMMA EmitDestroyMaps ==
    ASSUME IInv, IInv', NEW p \in Alive, EmitDestroy(p)
    PROVE  ArenaOf!Next
  <1> DEFINE rest == Tail(pool[p].todo)  st == [pool[p] EXCEPT !.todo = rest]
             r == HandlerCall(stack, 1)
  <1>1. /\ pool[p] \in PoolState /\ IsInjective(pool[p].todo) /\ pool[p].todo \in Seq(Handler)
        /\ pool[p].todo # <<>>
    BY Facts DEF EmitDestroy
  <1>2. rest \in Seq(Handler)
    BY <1>1, TailProps
  <1>3. /\ pool' = [pool EXCEPT ![p] = st] /\ stack' = [stack EXCEPT ![1].calling = TRUE]
        /\ Clearing(p) /\ Childless(p)
    BY DEF EmitDestroy
  <1> HIDE DEF rest
  <1>4. /\ st \in PoolState /\ st.ring = pool[p].ring /\ st.parent = pool[p].parent
        /\ st.self = pool[p].self /\ st.todo = rest
    BY <1>1, <1>2 DEF PoolState
  <1> HIDE DEF st
  <1>5. OnePool(p, st)
    BY <1>3, <1>4 DEF OnePool
  <1>6. /\ Alive' = Alive /\ parent' = parent /\ p \in Pool
        /\ todo' = [todo EXCEPT ![p] = st.todo] /\ todo[p] = pool[p].todo
        /\ given' = [given EXCEPT ![p] = Cells(st.ring, st.self)]
        /\ given[p] = Cells(pool[p].ring, pool[p].self)
    BY <1>5, OnePoolMaps
  <1>7. given' = given
    BY <1>4, <1>6 DEF given
  <1>8. todo' = [todo EXCEPT ![p] = Tail(@)] /\ todo[p] # <<>>
    BY <1>1, <1>4, <1>6 DEF rest, todo
  <1>9. stack # <<>> /\ stack[1].pool = p /\ ~stack[1].calling
    BY <1>3, ClearingFacts DEF Clearing, InCall
  <1>10. stack' = [stack EXCEPT ![1].calling = ~@]
    BY <1>3, <1>9
  <1> DEFINE s == stack'
  <1>11. s = [stack EXCEPT ![1].calling = ~@]
    BY <1>10
  <1>12. running = RunningIn(stack) /\ running' = RunningIn(s) /\ CallsIn(pool, stack)
    BY RunningMaps
  <1> HIDE DEF s
  <1>13. /\ r \notin RunningIn(stack) /\ RunningIn(s) = RunningIn(stack) \cup {r}
         /\ \A x \in RunningIn(stack) \ {r} : x.depth < r.depth
    BY <1>9, <1>11, <1>12, RunningSet
  <1>14. r.pool = p
    BY <1>9 DEF HandlerCall
  <1> HIDE DEF r
  <1>15. ArenaOf!Innermost(r)
    BY <1>12, <1>13 DEF ArenaOf!Innermost
  <1>16. \E x \in running' \ running :
            x.pool = p /\ ArenaOf!Innermost(x) /\ running' = running \cup {x}
    BY <1>12, <1>13, <1>14, <1>15
  <1>17. ArenaOf!Childless(p)
    BY <1>3, ChildlessMaps
  <1>18. ArenaOf!Run(p)
    BY <1>6, <1>7, <1>8, <1>16, <1>17 DEF ArenaOf!Run
  <1> QED BY <1>6, <1>18 DEF ArenaOf!Next

LEMMA HandlerReturnsMaps ==
    ASSUME IInv, IInv', HandlerReturns
    PROVE  ArenaOf!Return
  <1> DEFINE r == HandlerCall(stack, 1)  s == stack'
  <1>1. stack # <<>> /\ ~InCall /\ pool' = pool /\ stack' = [stack EXCEPT ![1].calling = FALSE]
    BY DEF HandlerReturns, ClientRuns
  <1>2. running = RunningIn(stack) /\ running' = RunningIn(s) /\ CallsIn(pool, stack)
    BY RunningMaps
  <1>3. stack[1].calling = TRUE
    <2>1. Len(stack) \in Nat \ {0} /\ Head(stack) = stack[1] /\ stack[1].calling \in BOOLEAN
      BY <1>1, <1>2, StackType
    <2>2. Head(stack).calling
      BY <1>1 DEF InCall
    <2> QED BY <2>1, <2>2
  <1>4. s = [stack EXCEPT ![1].calling = ~@]
    BY <1>1, <1>3
  <1> HIDE DEF s
  <1>5. /\ r \in RunningIn(stack) /\ RunningIn(s) = RunningIn(stack) \ {r}
        /\ \A x \in RunningIn(stack) \ {r} : x.depth < r.depth
    BY <1>1, <1>2, <1>3, <1>4, RunningSet
  <1> HIDE DEF r
  <1>6. ArenaOf!Innermost(r)
    BY <1>2, <1>5 DEF ArenaOf!Innermost
  <1>7. \E x \in running : ArenaOf!Innermost(x) /\ running' = running \ {x}
    BY <1>2, <1>5, <1>6
  <1>8. running # {}
    BY <1>2, <1>5
  <1>9. Alive' = Alive /\ parent' = parent /\ todo' = todo /\ given' = given
    BY <1>1, NoPoolSame
  <1> QED BY <1>7, <1>8, <1>9 DEF ArenaOf!Return

\* What Release needs of the pool whose call comes to its end.
LEMMA DoneMaps ==
    ASSUME IInv, IInv', NEW p \in Alive, Done(p), stack' = Tail(stack)
    PROVE  /\ \A r \in running : r.pool # p
           /\ running' = running /\ ArenaOf!Childless(p) /\ todo[p] = <<>> /\ p \in Pool
  <1>1. Clearing(p) /\ Childless(p) /\ pool[p].todo = <<>>
    BY DEF Done
  <1>2. /\ stack # <<>> /\ Head(stack) = stack[1] /\ Len(stack) \in Nat \ {0}
        /\ \E U \in SUBSET Pool : ClosedIn(pool, U) /\ p \notin U
                                  /\ \A j \in 2..Len(stack) : stack[j].pool \in U
    BY <1>1, ClearingFacts
  <1>3. ~Head(stack).calling
    BY <1>1 DEF Clearing, InCall
  <1> DEFINE s == stack'
  <1>4. running = RunningIn(stack) /\ running' = RunningIn(s) /\ CallsIn(pool, stack) /\ s = Tail(stack)
    BY RunningMaps
  <1> HIDE DEF s
  <1>5. RunningIn(Tail(stack)) = RunningIn(stack)
    BY <1>2, <1>3, <1>4, RunningPopped
  <1>6. ASSUME NEW r \in RunningIn(stack) PROVE r.pool # p
    <2>1. PICK i \in 1..Len(stack) : stack[i].calling /\ r = HandlerCall(stack, i)
      BY DEF RunningIn
    <2>2. i # 1
      BY <1>2, <1>3, <2>1
    <2>3. i \in 2..Len(stack)
      BY <1>2, <2>2
    <2>4. r.pool = stack[i].pool
      BY <2>1 DEF HandlerCall
    <2> QED BY <1>2, <2>3, <2>4
  <1>7. p \in Pool /\ todo[p] = <<>>
    <2>1. p \in Pool
      BY DEF Alive
    <2> QED BY <1>1, <2>1 DEF todo
  <1> QED BY <1>1, <1>4, <1>5, <1>6, <1>7, ChildlessMaps

LEMMA ClearEndsMaps ==
    ASSUME IInv, IInv', NEW p \in Alive, ClearEnds(p)
    PROVE  ArenaOf!Next
  <1> DEFINE x == SelfOnly(p)  ring == <<x>>
             st == [pool[p] EXCEPT !.ring = ring]
  <1>1. pool' = [pool EXCEPT ![p].ring = ring] /\ stack' = Tail(stack) /\ Done(p)
    BY DEF ClearEnds
  <1>2. pool[p] \in PoolState
    BY Facts
  <1>3. x \in PageState /\ x.page = pool[p].self /\ x.fill = Header /\ x.fill <= Cap[x.page]
    BY SelfOnlyPage DEF SelfOnly
  <1> HIDE DEF x
  <1>4. RingOK(ring) /\ Cells(ring, x.page) = {}
    BY <1>3, OnePage, CellsOfOne
  <1> HIDE DEF ring
  <1>5. /\ st \in PoolState /\ st.ring = ring /\ st.parent = pool[p].parent
        /\ st.self = pool[p].self /\ st.todo = pool[p].todo
    BY <1>2, <1>4 DEF PoolState, RingOK
  <1>6. pool' = [pool EXCEPT ![p] = st]
    BY <1>1
  <1> HIDE DEF st
  <1>7. OnePool(p, st)
    BY <1>5, <1>6 DEF OnePool
  <1>8. /\ Alive' = Alive /\ parent' = parent /\ p \in Pool
        /\ todo' = [todo EXCEPT ![p] = st.todo] /\ todo[p] = pool[p].todo
        /\ given' = [given EXCEPT ![p] = Cells(st.ring, st.self)]
    BY <1>7, OnePoolMaps
  <1>9. todo' = todo
    BY <1>5, <1>8 DEF todo
  <1>10. given' = [given EXCEPT ![p] = {}]
    BY <1>3, <1>4, <1>5, <1>8
  <1>11. /\ \A r \in running : r.pool # p
         /\ running' = running /\ ArenaOf!Childless(p) /\ todo[p] = <<>>
    BY <1>1, DoneMaps
  <1>12. ArenaOf!Release(p)
    BY <1>8, <1>9, <1>10, <1>11 DEF ArenaOf!Release
  <1> QED BY <1>8, <1>12 DEF ArenaOf!Next

\* What Arena sees of a pool is the same in old and new.
Alike(old, new) ==
    /\ new # None /\ new.ring = old.ring /\ new.self = old.self
    /\ new.parent = old.parent /\ new.todo = old.todo

LEMMA NewMaps ==
    ASSUME IInv, IInv', NEW p \in Pool, New(p)
    PROVE  ArenaOf!Next
  <1>1. PICK pg \in Pages(MinSize), q \in (Alive \ BeingCleared) \cup {None} :
            pool' = [r \in Pool |->
                IF r = p THEN Fresh(pg, q)
                ELSE IF r = q THEN [pool[q] EXCEPT !.children = <<p>> \o @]
                ELSE pool[r]]
    BY DEF New
  <1>2. stack' = stack /\ p \notin Alive /\ pg \in Page
    BY DEF New, Pages
  <1> DEFINE po2 == pool'  x == [Empty(pg) EXCEPT !.fill = Header]
             new == Fresh(pg, q)
  <1>3. /\ Alive = AliveIn(pool) /\ parent = ParentIn(pool) /\ todo = TodoIn(pool)
        /\ given = GivenIn(pool)
    BY MappedIs DEF Mapped
  <1>4. /\ Alive' = AliveIn(po2) /\ parent' = ParentIn(po2) /\ todo' = TodoIn(po2)
        /\ given' = GivenIn(po2)
    BY MappedNext DEF Mapped
  <1>5. q \in Alive \cup {None} /\ p # q /\ p # None
    BY <1>2, NoneAssumption DEF Alive
  <1>6. x \in PageState /\ x.fill = Header /\ x.page = pg
    <2>1. Header \in Nat
      BY SizeAssumption
    <2> QED BY <1>2, <2>1 DEF Empty, PageState
  <1>7. new # None /\ new.ring = <<x>> /\ new.self = pg /\ new.parent = q /\ new.todo = <<>>
    <2>1. new \in PoolState
      <3>1. 1 \in 0..MaxUses /\ Header <= Cap[pg] /\ Cap[pg] \in Nat
        <4>1. Cap[pg] >= MinSize /\ Cap[pg] \in Nat
          BY <1>2, SizeAssumption DEF Pages
        <4> QED BY <4>1, SizeAssumption
      <3>2. RingOK(<<x>>)
        <4> HIDE DEF x
        <4> QED BY <1>6, <3>1, OnePage
      <3> DEFINE ring == <<x>>
      <3>3. new = [ring |-> ring, self |-> pg, parent |-> q, children |-> <<>>, todo |-> <<>>, uses |-> 1]
        BY DEF Fresh
      <3>4. ring \in Seq(PageState)
        BY <3>2 DEF RingOK
      <3> HIDE DEF ring, new
      <3>5. <<>> \in Seq(Pool) /\ <<>> \in Seq(Handler) /\ q \in Pool \cup {None}
        BY <1>5, EmptySeq DEF Alive
      <3> QED BY <1>2, <3>1, <3>3, <3>4, <3>5 DEF PoolState
    <2>2. new # None
      BY <2>1, NoneAssumption
    <2> QED BY <2>2 DEF Fresh
  <1>8. po2[p] = new /\ \A r \in Pool : r # p /\ r # q => po2[r] = pool[r]
    BY <1>1, <1>5
  <1>9. q \in Alive => Alike(pool[q], po2[q])
    <2> SUFFICES ASSUME q \in Alive PROVE Alike(pool[q], po2[q])
      OBVIOUS
    <2> DEFINE kids == <<p>> \o pool[q].children
    <2>1. po2[q] = [pool[q] EXCEPT !.children = kids] /\ pool[q] \in PoolState
      BY <1>1, <1>5, Facts DEF Alive
    <2>2. po2[q] # None
      <3>1. kids \in Seq(Pool)
        <4>1. pool[q].children \in Seq(Pool)
          BY <2>1 DEF PoolState
        <4> QED BY <4>1, ConsProps
      <3> HIDE DEF kids
      <3>2. po2[q] \in PoolState
        BY <2>1, <3>1 DEF PoolState
      <3> QED BY <3>2, NoneAssumption
    <2> HIDE DEF kids, po2
    <2> QED BY <2>1, <2>2 DEF Alike, PoolState
  <1> HIDE DEF po2, new, x
  <1>10. \A r \in Alive : r \in Pool /\ r # p /\ Alike(pool[r], po2[r])
    BY <1>2, <1>5, <1>8, <1>9 DEF Alive, Alike
  <1>11. \A r \in Pool : r \in AliveIn(po2) <=> r = p \/ r \in Alive
    <2> SUFFICES ASSUME NEW r \in Pool PROVE po2[r] # None <=> r = p \/ r \in Alive
      BY DEF AliveIn
    <2>1. CASE r = p
      BY <1>7, <1>8, <2>1
    <2>2. CASE r \in Alive
      BY <1>10, <2>2 DEF Alike
    <2>3. CASE r # p /\ r \notin Alive
      <3>1. pool[r] = None /\ r # q
        BY <1>5, <2>3, NoneAssumption DEF Alive
      <3> QED BY <1>8, <2>3, <3>1
    <2> QED BY <2>1, <2>2, <2>3
  <1>12. AliveIn(po2) = Alive \cup {p}
    BY <1>11 DEF AliveIn, Alive
  <1> DEFINE top == IF q = None THEN p ELSE q
  <1>13. ParentIn(po2) = [ParentIn(pool) EXCEPT ![p] = top]
    BY <1>2, <1>3, <1>7, <1>8, <1>10, <1>11 DEF ParentIn, Alike
  <1>14. TodoIn(po2) = TodoIn(pool)
    BY <1>2, <1>3, <1>7, <1>8, <1>10, <1>11 DEF TodoIn, Alike
  <1>15. GivenIn(po2) = GivenIn(pool)
    <2>1. Cells(po2[p].ring, po2[p].self) = {}
      BY <1>6, <1>7, <1>8, CellsOfOne
    <2> QED BY <1>2, <1>3, <1>10, <1>11, <2>1 DEF GivenIn, Alike
  <1>16. top \in Alive \cup {p}
    BY <1>5
  <1>17. running' = running
    BY <1>2 DEF running
  <1> HIDE DEF top
  <1>18. ArenaOf!Make(p)
    BY <1>2, <1>3, <1>4, <1>12, <1>13, <1>14, <1>15, <1>16, <1>17 DEF ArenaOf!Make
  <1> QED BY <1>18 DEF ArenaOf!Next

LEMMA DeleteEndsMaps ==
    ASSUME IInv, IInv', NEW p \in Alive, DeleteEnds(p)
    PROVE  ArenaOf!Next
  <1> DEFINE q == pool[p].parent  kids == RemoveFirst(pool[q].children, p)  po2 == pool'
  <1>1. /\ po2 = [r \in Pool |-> IF r = p THEN None
                                 ELSE IF r = q THEN [pool[q] EXCEPT !.children = kids]
                                 ELSE pool[r]]
        /\ stack' = Tail(stack) /\ Done(p)
    BY DEF DeleteEnds, Forgotten
  <1>2. /\ \A r \in running : r.pool # p
        /\ running' = running /\ ArenaOf!Childless(p) /\ todo[p] = <<>> /\ p \in Pool
    BY <1>1, DoneMaps
  <1>3. /\ Alive = AliveIn(pool) /\ parent = ParentIn(pool) /\ todo = TodoIn(pool)
        /\ given = GivenIn(pool)
    BY MappedIs DEF Mapped
  <1>4. /\ Alive' = AliveIn(po2) /\ parent' = ParentIn(po2) /\ todo' = TodoIn(po2)
        /\ given' = GivenIn(po2)
    BY MappedNext DEF Mapped
  <1>5. PoolsIn(pool)
    BY Facts
  <1> HIDE DEF po2
  <1>6. po2[p] = None /\ \A r \in Pool : r # p /\ r # q => po2[r] = pool[r]
    BY <1>1, <1>2
  <1>7. ASSUME q \in Alive, q # p
        PROVE  Alike(pool[q], po2[q])
    <2>1. po2[q] = [pool[q] EXCEPT !.children = kids] /\ pool[q] \in PoolState
      BY <1>1, <1>7, Facts DEF Alive
    <2>2. kids \in Seq(Pool)
      <3>1. pool[q].children \in Seq(Pool) /\ IsInjective(pool[q].children)
        BY <1>3, <1>7, <2>1, Facts DEF PoolState, TreeIn
      <3> QED BY <3>1, RemoveFirstProps
    <2> HIDE DEF kids, q
    <2>3. po2[q] \in PoolState
      BY <2>1, <2>2 DEF PoolState
    <2> QED BY <2>1, <2>3, NoneAssumption DEF Alike, PoolState
  <1>8. q \in Alive \cup {None}
    BY <1>3, Facts DEF TreeIn
  <1> HIDE DEF q
  <1>9. \A r \in Alive : r # p => r \in Pool /\ Alike(pool[r], po2[r])
    BY <1>6, <1>7 DEF Alive, Alike
  <1>10. \A r \in Pool : r \in AliveIn(po2) <=> r # p /\ r \in Alive
    <2> SUFFICES ASSUME NEW r \in Pool PROVE po2[r] # None <=> r # p /\ r \in Alive
      BY DEF AliveIn
    <2>1. CASE r = p
      BY <1>6, <2>1
    <2>2. CASE r \in Alive /\ r # p
      BY <1>9, <2>2 DEF Alike
    <2>3. CASE r \notin Alive /\ r # p
      <3>1. pool[r] = None /\ r # q
        BY <1>8, <2>3, NoneAssumption DEF Alive
      <3> QED BY <1>6, <2>3, <3>1
    <2> QED BY <2>1, <2>2, <2>3
  <1>11. AliveIn(po2) = Alive \ {p}
    BY <1>10 DEF AliveIn, Alive
  <1>12. ParentIn(po2) = [ParentIn(pool) EXCEPT ![p] = p]
    BY <1>2, <1>3, <1>9, <1>10 DEF ParentIn, Alike
  <1>13. TodoIn(po2) = TodoIn(pool)
    BY <1>2, <1>3, <1>9, <1>10 DEF TodoIn, Alike
  <1>14. GivenIn(po2) = [GivenIn(pool) EXCEPT ![p] = {}]
    BY <1>2, <1>3, <1>9, <1>10 DEF GivenIn, Alike
  <1>15. ArenaOf!Release(p)
    BY <1>2, <1>3, <1>4, <1>11, <1>12, <1>13, <1>14 DEF ArenaOf!Release
  <1> QED BY <1>2, <1>15 DEF ArenaOf!Next

LEMMA ArenaInit == Init => ArenaOf!Init
  <1> SUFFICES ASSUME Init PROVE ArenaOf!Init
    OBVIOUS
  <1>1. Alive = {} /\ stack = <<>>
    BY DEF Init, Alive
  <1>2. parent = [p \in Pool |-> p] /\ todo = [p \in Pool |-> <<>>] /\ given = [p \in Pool |-> {}]
    BY <1>1 DEF parent, todo, given
  <1>3. running = {}
    BY <1>1 DEF running
  <1> QED BY <1>1, <1>2, <1>3 DEF ArenaOf!Init

LEMMA ArenaStep == IInv /\ IInv' /\ [Next]_vars => [ArenaOf!Next]_(ArenaOf!vars)
  <1> SUFFICES ASSUME IInv, IInv', [Next]_vars
               PROVE  ArenaOf!Next \/ UNCHANGED ArenaOf!vars
    OBVIOUS
  <1>1. ASSUME NEW p \in Pool, New(p) PROVE ArenaOf!Next
    BY <1>1, NewMaps
  <1>2. ASSUME NEW p \in Alive, NEW n \in Size, Alloc(p, n) PROVE ArenaOf!Next
    BY <1>2, AllocMaps
  <1>3. ASSUME NEW p \in Alive, NEW n \in Length, Sprintf(p, n) PROVE UNCHANGED ArenaOf!vars
    <2>1. pool' = pool /\ stack' = stack
      BY <1>3 DEF Sprintf
    <2> QED BY <2>1, CallMaps
  <1>4. ASSUME NEW p \in Alive, NEW h \in Handler, Connect(p, h) \/ Disconnect(p, h)
        PROVE  ArenaOf!Next
    BY <1>4, ConnectMaps, DisconnectMaps
  <1>5. ASSUME NEW p \in Alive, Attach(p) \/ Deattach(p) PROVE UNCHANGED ArenaOf!vars
    BY <1>5, AttachMaps
  <1>6. ASSUME NEW p \in Alive, Clear(p) \/ Delete(p) \/ ClearChild(p) PROVE UNCHANGED ArenaOf!vars
    <2>1. pool' = pool /\ \E op, q : Call(op, q)
      BY <1>6 DEF Clear, Delete, ClearChild
    <2> QED BY <2>1, CallMaps
  <1>7. ASSUME NEW p \in Alive, EmitDestroy(p) \/ ClearEnds(p) \/ DeleteEnds(p)
        PROVE  ArenaOf!Next
    BY <1>7, EmitDestroyMaps, ClearEndsMaps, DeleteEndsMaps
  <1>8. CASE HandlerReturns
    <2>1. ArenaOf!Return
      BY <1>8, HandlerReturnsMaps
    <2>2. \E p : p \in Pool
      <3>1. stack # <<>> /\ CallsIn(pool, stack)
        BY <1>8, Facts DEF HandlerReturns
      <3>2. 1 \in 1..Len(stack)
        BY <3>1, StackType
      <3>3. stack[1] \in [op : {"clear", "delete"}, pool : AliveIn(pool), calling : BOOLEAN]
        BY <3>1, <3>2, ElementOfSeq DEF CallsIn
      <3> QED BY <3>3 DEF AliveIn
    <2> QED BY <2>1, <2>2 DEF ArenaOf!Next
  <1>9. CASE FlushNext
    BY <1>9, FlushNextMaps
  <1>10. CASE FlushNew
    <2>1. pool' = pool /\ stack' = stack
      BY <1>10 DEF FlushNew
    <2> QED BY <2>1, CallMaps
  <1>11. CASE SprintfEnds
    BY <1>11, SprintfEndsMaps
  <1>12. CASE UNCHANGED vars
    <2>1. pool' = pool /\ stack' = stack
      BY <1>12 DEF vars
    <2> QED BY <2>1, CallMaps
  <1> QED BY <1>1, <1>2, <1>3, <1>4, <1>5, <1>6, <1>7, <1>8, <1>9, <1>10, <1>11, <1>12 DEF Next

\* Pools implement Arena: memory is handed out to one pool at a time and stays with it
\* until clear or _delete ends; by then its children are gone and its handlers have
\* run, the oldest first, while the memory was still there.
THEOREM RefinementTheorem == Spec => ArenaSpec
  <1>1. Spec => []IInv
    BY InvTheorem
  <1>2. IInv /\ IInv' /\ [Next]_vars => [ArenaOf!Next]_(ArenaOf!vars)
    BY ArenaStep
  <1> QED BY <1>1, <1>2, ArenaInit, PTL DEF Spec, ArenaSpec, ArenaOf!Spec
=============================================================================
