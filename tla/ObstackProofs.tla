---------------------------- MODULE ObstackProofs ----------------------------
(***************************************************************************)
(* Proofs about Obstack: as long as no free goes wrong, each object has a  *)
(* chunk of its own, objects and chunks are stacked alike, and so the      *)
(* obstack implements ObjectStack.                                         *)
(***************************************************************************)
EXTENDS Obstack, Lemmas

-----------------------------------------------------------------------------
(* The inductive invariant.  It is stated of an obstack o and its objects,   *)
(* for alloc goes through obstacks that are no state.                        *)

\* The chunks counted from the first one on: the chunk of depth d, and its firstp.
Depth(o) == Len(o.chunks)
ChunkAt(o, d) == o.chunks[Depth(o) + 1 - d]
Start(o, d) == First(o.chunks, Depth(o) + 1 - d)

ObType(o) ==
    /\ o \in [chunks : Seq(Page) \ {<<>>}, base : Nat, next : Nat, limit : Nat, maybe : BOOLEAN]
    /\ IsInjective(o.chunks) /\ o.limit = To[Head(o.chunks)]

ObjectsType(objs) == objs \in Seq([at : Nat, size : Nat])

\* Object n is in the chunk of depth home[n].
Within(o, objs, home) ==
    \A n \in 1..Len(objs) :
        /\ objs[n].at % Align = 0
        /\ Start(o, home[n]) <= objs[n].at
        /\ objs[n].at + objs[n].size <= To[ChunkAt(o, home[n])]

\* Younger objects are in younger chunks, and behind the older ones of theirs.
Stacked(objs, home) ==
    \A m, n \in 1..Len(objs) : m < n =>
        /\ home[m] <= home[n]
        /\ home[m] = home[n] => objs[m].at + objs[m].size <= objs[n].at

\* The objects of the newest chunk are below the growing one.
Below(o, objs, home) ==
    \A n \in 1..Len(objs) : home[n] = Depth(o) => objs[n].at + objs[n].size <= o.base

\* The first object of a chunk begins where the chunk does; the newest chunk has
\* one when the growing object does not, or an empty one may be there.
Filled(o, objs, home) ==
    /\ \A n \in 1..Len(objs) : objs[n].at > Start(o, home[n]) =>
            \E m \in 1..Len(objs) : m < n /\ home[m] = home[n]
    /\ o.base > Start(o, Depth(o)) \/ (o.maybe /\ Depth(o) > 1) =>
            \E n \in 1..Len(objs) : home[n] = Depth(o)

\* _maybe_empty_object is set while the newest chunk has an empty object.
Told(o, objs, home) ==
    ~o.maybe => \A n \in 1..Len(objs) : home[n] = Depth(o) => objs[n].size > 0

\* The chunks between the newest and the first have objects.
Used(o, objs, home) ==
    \A d \in 2..Depth(o) - 1 : \E n \in 1..Len(objs) : home[n] = d

Homes(o, objs, home) ==
    /\ home \in [1..Len(objs) -> 1..Depth(o)]
    /\ Within(o, objs, home) /\ Stacked(objs, home) /\ Below(o, objs, home)
    /\ Filled(o, objs, home) /\ Told(o, objs, home) /\ Used(o, objs, home)

\* The object that grows.
Growing(o) ==
    /\ Start(o, Depth(o)) <= o.base /\ o.base <= o.next /\ o.next <= o.limit
    /\ o.base % Align = 0

Housed(o, objs) ==
    /\ ObType(o) /\ ObjectsType(objs) /\ Growing(o)
    /\ \E home \in [1..Len(objs) -> 1..Depth(o)] : Homes(o, objs, home)

IInv == TypeOK /\ (status = "ok" => Housed(ob, live))

-----------------------------------------------------------------------------
(* Alignment, and where the chunks are. *)

LEMMA ObjectType ==
    ASSUME NEW objs, ObjectsType(objs)
    PROVE  /\ Len(objs) \in Nat /\ DOMAIN objs = 1..Len(objs)
           /\ \A n \in 1..Len(objs) : objs[n].at \in Nat /\ objs[n].size \in Nat
  <1>1. \A n \in 1..Len(objs) : objs[n] \in [at : Nat, size : Nat]
    BY ElementOfSeq DEF ObjectsType
  <1> QED BY <1>1, LenProperties DEF ObjectsType

LEMMA SumAligned ==
    ASSUME NEW a \in Nat, NEW b \in Nat, NEW s \in Nat \ {0}, a % s = 0, b % s = 0
    PROVE  (a + b) % s = 0
  <1>1. PICK x \in Nat : a = s * x
    BY IsMultiple
  <1>2. PICK y \in Nat : b = s * y
    BY IsMultiple
  <1>3. a + b = s * (x + y) /\ x + y \in Nat
    BY <1>1, <1>2
  <1> QED BY <1>3, MultipleRem

LEMMA UpAligned ==
    ASSUME NEW a \in Nat
    PROVE  Up(a) \in Nat /\ Up(a) % Align = 0 /\ a <= Up(a)
  <1> DEFINE s == Align  b == a + s - 1  q == b \div s
  <1>1. s \in Nat \ {0} /\ b \in Nat
    BY AlignAssumption
  <1>2. q \in Nat /\ b % s \in 0..(s - 1) /\ b = s * q + (b % s)
    <2> HIDE DEF b, s
    <2> QED BY <1>1, DivMod
  <1>3. Up(a) = q * s
    BY DEF Up
  <1> HIDE DEF q, s
  <1>4. q * s = s * q /\ s * q \in Nat
    BY <1>1, <1>2
  <1>5. (s * q) % s = 0
    BY <1>1, <1>2, MultipleRem
  <1>6. a <= s * q
    <2> DEFINE r == b % s
    <2>1. r \in 0..(s - 1) /\ a + s - 1 = s * q + r
      BY <1>2
    <2> HIDE DEF r, b
    <2> QED BY <1>1, <1>4, <2>1
  <1> QED BY <1>3, <1>4, <1>5, <1>6 DEF s

LEMMA ChunkType ==
    ASSUME NEW o, ObType(o), NEW d \in 1..Depth(o)
    PROVE  /\ Depth(o) \in Nat \ {0} /\ ChunkAt(o, d) \in Page
           /\ From[ChunkAt(o, d)] \in Nat /\ To[ChunkAt(o, d)] \in Nat
           /\ Start(o, d) = From[ChunkAt(o, d)] + (IF d = 1 THEN Header ELSE 0)
           /\ Start(o, d) \in Nat /\ Start(o, d) % Align = 0
           /\ From[ChunkAt(o, d)] <= Start(o, d) /\ Start(o, d) <= To[ChunkAt(o, d)]
           /\ d = Depth(o) => To[ChunkAt(o, d)] = o.limit /\ ChunkAt(o, d) = Head(o.chunks)
  <1> DEFINE c == ChunkAt(o, d)
  <1>1. o.chunks \in Seq(Page) /\ o.chunks # <<>> /\ o.limit = To[Head(o.chunks)]
    BY DEF ObType
  <1>2. Depth(o) \in Nat \ {0} /\ Depth(o) + 1 - d \in 1..Len(o.chunks)
    BY <1>1 DEF Depth
  <1>3. c \in Page
    BY <1>1, <1>2 DEF ChunkAt
  <1>4. Start(o, d) = From[c] + (IF d = 1 THEN Header ELSE 0)
    <2>1. Depth(o) + 1 - d = Len(o.chunks) <=> d = 1
      BY <1>2 DEF Depth
    <2> QED BY <2>1 DEF Start, First, ChunkAt
  <1>5. d = Depth(o) => c = Head(o.chunks)
    BY <1>1, <1>2 DEF ChunkAt
  <1> HIDE DEF c
  <1>6. /\ From[c] \in Nat /\ To[c] \in Nat /\ From[c] + Header <= To[c]
        /\ From[c] % Align = 0 /\ Header \in Nat /\ Header % Align = 0 /\ Align \in Nat \ {0}
    BY <1>3, PageAssumption, AlignAssumption
  <1>7. (From[c] + Header) % Align = 0
    BY <1>6, SumAligned
  <1>8. Start(o, d) \in Nat /\ From[c] <= Start(o, d) /\ Start(o, d) <= To[c] /\ Start(o, d) % Align = 0
    BY <1>4, <1>6, <1>7
  <1> QED BY <1>1, <1>2, <1>3, <1>4, <1>5, <1>6, <1>8 DEF c

\* Chunks are apart.
LEMMA ChunksApart ==
    ASSUME NEW o, ObType(o), NEW d \in 1..Depth(o), NEW e \in 1..Depth(o), d # e
    PROVE  \/ To[ChunkAt(o, d)] <= From[ChunkAt(o, e)]
           \/ To[ChunkAt(o, e)] <= From[ChunkAt(o, d)]
  <1>1. ChunkAt(o, d) \in Page /\ ChunkAt(o, e) \in Page
    BY ChunkType
  <1>2. ChunkAt(o, d) # ChunkAt(o, e)
    <2>1. o.chunks \in Seq(Page) /\ Depth(o) \in Nat
      BY DEF ObType, Depth
    <2>2. /\ Depth(o) + 1 - d \in DOMAIN o.chunks /\ Depth(o) + 1 - e \in DOMAIN o.chunks
          /\ Depth(o) + 1 - d # Depth(o) + 1 - e
      BY <2>1 DEF Depth
    <2> QED BY <2>2 DEF ObType, IsInjective, ChunkAt
  <1> QED BY <1>1, <1>2, PageAssumption

-----------------------------------------------------------------------------
(* What the operations make of an obstack that is housed. *)

\* A new obstack, with no objects.
LEMMA FreshHoused ==
    ASSUME NEW p \in Page
    PROVE  Housed(Fresh(p), <<>>)
  <1> DEFINE o == Fresh(p)
  <1>1. o.chunks = <<p>> /\ o.base = From[p] + Header /\ o.next = From[p] + Header
        /\ o.limit = To[p] /\ o.maybe = FALSE
    BY DEF Fresh
  <1>2. From[p] \in Nat /\ To[p] \in Nat /\ From[p] + Header <= To[p] /\ Header \in Nat
    BY PageAssumption, AlignAssumption
  <1>3. ObType(o)
    <2>1. o \in [chunks : Seq(Page) \ {<<>>}, base : Nat, next : Nat, limit : Nat, maybe : BOOLEAN]
      BY <1>2 DEF Fresh
    <2>2. IsInjective(<<p>>)
      BY DEF IsInjective
    <2> HIDE DEF o
    <2> QED BY <1>1, <2>1, <2>2 DEF ObType
  <1> HIDE DEF o
  <1>4. Depth(o) = 1 /\ ChunkAt(o, 1) = p
    BY <1>1 DEF Depth, ChunkAt
  <1>5. Start(o, 1) = o.base /\ o.base % Align = 0
    BY <1>1, <1>3, <1>4, ChunkType
  <1>6. Growing(o)
    BY <1>1, <1>2, <1>4, <1>5 DEF Growing
  <1>7. \A n \in 1..Len(<<>>) : FALSE
    OBVIOUS
  <1> DEFINE home == [n \in 1..Len(<<>>) |-> 1]
  <1>8. home \in [1..Len(<<>>) -> 1..Depth(o)]
    BY <1>7
  <1> HIDE DEF home
  <1>9. Homes(o, <<>>, home)
    <2>1. ~(o.base > Start(o, Depth(o)))
      BY <1>1, <1>2, <1>4, <1>5
    <2> QED BY <1>4, <1>7, <1>8, <2>1 DEF Homes, Within, Stacked, Below, Filled, Told, Used
  <1>10. ObjectsType(<<>>)
    BY DEF ObjectsType
  <1> QED BY <1>3, <1>6, <1>8, <1>9, <1>10 DEF Housed, o

\* newchunk: the object moves, and a chunk that is dropped has no objects.
LEMMA NewChunkHoused ==
    ASSUME Housed(ob, live), NEW n \in Nat, NEW p \in Fitting(n)
    PROVE  /\ Housed(NewChunk(p), live)
           /\ NewChunk(p).limit - NewChunk(p).next >= n
  <1> DEFINE o == NewChunk(p)
             rest == IF Droppable THEN Tail(ob.chunks) ELSE ob.chunks
             K == Len(rest)
  <1>1. ObType(ob) /\ ObjectsType(live) /\ Growing(ob)
    BY DEF Housed
  <1>2. PICK home \in [1..Len(live) -> 1..Depth(ob)] : Homes(ob, live, home)
    BY DEF Housed
  <1>3. /\ ob.chunks \in Seq(Page) /\ ob.chunks # <<>> /\ Depth(ob) \in Nat \ {0}
        /\ Depth(ob) = Len(ob.chunks)
        /\ ob.base \in Nat /\ ob.next \in Nat /\ ob.limit \in Nat
    BY <1>1 DEF ObType, Depth
  <1>4. Object.size = ob.next - ob.base /\ Object.size \in Nat
    BY <1>1, <1>3 DEF Object, Growing
  <1>5. p \in Page /\ p \notin ToSet(ob.chunks) /\ To[p] - From[p] >= Object.size + n + Slack
    BY DEF Fitting
  <1>6. From[p] \in Nat /\ To[p] \in Nat /\ From[p] % Align = 0 /\ Slack \in Nat
    BY <1>5, PageAssumption, AlignAssumption, SizeAssumption
  <1>7. o.chunks = <<p>> \o rest /\ o.base = From[p] /\ o.next = From[p] + Object.size
        /\ o.limit = To[p] /\ o.maybe = FALSE
    BY DEF NewChunk
  <1>8. Droppable => Depth(ob) > 1 /\ ob.base = First(ob.chunks, 1) /\ ~ob.maybe
    BY DEF Droppable, Depth
  <1>9. /\ rest \in Seq(Page) /\ K \in Nat \ {0}
        /\ K = IF Droppable THEN Depth(ob) - 1 ELSE Depth(ob)
        /\ \A d \in 1..K : rest[K + 1 - d] = ChunkAt(ob, d) /\ d <= Depth(ob)
        /\ \A i \in 1..K : rest[i] = ob.chunks[IF Droppable THEN i + 1 ELSE i]
    <2>1. CASE Droppable
      <3>1. /\ Tail(ob.chunks) \in Seq(Page) /\ Len(Tail(ob.chunks)) = Depth(ob) - 1
            /\ \A i \in 1..(Depth(ob) - 1) : Tail(ob.chunks)[i] = ob.chunks[i + 1]
        BY <1>3
      <3>2. Depth(ob) > 1
        BY <2>1, <1>8
      <3>3. rest = Tail(ob.chunks) /\ K = Depth(ob) - 1
        BY <2>1, <3>1
      <3> HIDE DEF rest, K
      <3>4. K \in Nat \ {0} /\ Depth(ob) = K + 1
        BY <1>3, <3>2, <3>3
      <3>5. ASSUME NEW d \in 1..K PROVE rest[K + 1 - d] = ChunkAt(ob, d) /\ d <= Depth(ob)
        <4>1. K + 1 - d \in 1..K /\ (K + 1 - d) + 1 = Depth(ob) + 1 - d /\ d <= Depth(ob)
          BY <3>4
        <4> QED BY <3>1, <3>3, <4>1 DEF ChunkAt
      <3> QED BY <2>1, <3>1, <3>3, <3>4, <3>5
    <2>2. CASE ~Droppable
      <3>1. rest = ob.chunks /\ K = Depth(ob)
        BY <1>3, <2>2
      <3> HIDE DEF rest, K
      <3> QED BY <1>3, <2>2, <3>1 DEF ChunkAt
    <2> QED BY <2>1, <2>2
  <1> HIDE DEF rest
  <1>10. /\ o.chunks \in Seq(Page) \ {<<>>} /\ Len(o.chunks) = K + 1
         /\ o.chunks[1] = p /\ Head(o.chunks) = p
         /\ \A i \in 1..K : o.chunks[i + 1] = rest[i]
    BY <1>5, <1>7, <1>9
  <1>11. IsInjective(o.chunks)
    <2> SUFFICES ASSUME NEW i \in 1..(K + 1), NEW j \in 1..(K + 1), o.chunks[i] = o.chunks[j]
                 PROVE  i = j
      BY <1>10 DEF IsInjective
    <2> DEFINE at(m) == IF Droppable THEN m ELSE m - 1
    <2>1. ASSUME NEW m \in 1..(K + 1), m # 1
          PROVE  o.chunks[m] = ob.chunks[at(m)] /\ at(m) \in 1..Depth(ob) /\ o.chunks[m] # p
      <3>1. m - 1 \in 1..K /\ (m - 1) + 1 = m
        BY <1>9, <2>1
      <3>2. o.chunks[m] = rest[m - 1]
        BY <1>10, <3>1
      <3>3. rest[m - 1] = ob.chunks[at(m)]
        BY <1>9, <3>1
      <3>4. at(m) \in 1..Depth(ob)
        BY <1>3, <1>9, <3>1
      <3>5. ob.chunks[at(m)] \in ToSet(ob.chunks)
        BY <1>3, <3>4, SetOfSeq
      <3> QED BY <1>5, <3>2, <3>3, <3>4, <3>5
    <2>2. IsInjective(ob.chunks)
      BY <1>1 DEF ObType
    <2>3. CASE i = 1
      BY <1>10, <2>1, <2>3
    <2>4. CASE j = 1
      BY <1>10, <2>1, <2>4
    <2>5. CASE i # 1 /\ j # 1
      <3>1. /\ at(i) \in 1..Depth(ob) /\ at(j) \in 1..Depth(ob)
            /\ ob.chunks[at(i)] = ob.chunks[at(j)]
            /\ at(i) = at(j) => i = j
        BY <2>1, <2>5
      <3> HIDE DEF at
      <3>2. DOMAIN ob.chunks = 1..Depth(ob)
        BY <1>3
      <3>3. at(i) = at(j)
        BY <2>2, <3>1, <3>2 DEF IsInjective
      <3> QED BY <3>1, <3>3
    <2> QED BY <2>3, <2>4, <2>5
  <1>12. ObType(o)
    <2>1. o \in [chunks : Seq(Page) \ {<<>>}, base : Nat, next : Nat, limit : Nat, maybe : BOOLEAN]
      <3>1. o = [chunks |-> o.chunks, base |-> o.base, next |-> o.next, limit |-> o.limit, maybe |-> o.maybe]
        BY DEF NewChunk
      <3> HIDE DEF o
      <3>2. o.base \in Nat /\ o.next \in Nat /\ o.limit \in Nat
        <4>1. From[p] + Object.size \in Nat
          BY <1>4, <1>6
        <4> QED BY <1>6, <1>7, <4>1
      <3>3. o.maybe \in BOOLEAN
        BY <1>7
      <3> QED BY <1>10, <3>1, <3>2, <3>3
    <2> HIDE DEF o
    <2> QED BY <1>7, <1>10, <1>11, <2>1 DEF ObType
  <1> HIDE DEF o, K
  <1>13. Depth(o) = K + 1 /\ ChunkAt(o, K + 1) = p
         /\ \A d \in 1..K : d \in 1..Depth(o) /\ d \in 1..Depth(ob) /\ ChunkAt(o, d) = ChunkAt(ob, d)
    <2>1. Depth(o) = K + 1 /\ ChunkAt(o, K + 1) = p
      BY <1>9, <1>10 DEF Depth, ChunkAt
    <2>2. ASSUME NEW d \in 1..K PROVE ChunkAt(o, d) = ChunkAt(ob, d)
      <3>1. K + 1 - d \in 1..K /\ (K + 1 - d) + 1 = Depth(o) + 1 - d
        BY <1>9, <2>1
      <3> QED BY <1>9, <1>10, <3>1 DEF ChunkAt
    <2> QED BY <1>3, <1>9, <2>1, <2>2
  <1>14. \A d \in 1..K : Start(o, d) = Start(ob, d)
    BY <1>1, <1>12, <1>13, ChunkType
  <1>15. Start(o, K + 1) = From[p]
    <2>1. K + 1 \in 1..Depth(o) /\ K + 1 # 1
      <3>1. K \in Nat \ {0} /\ Depth(o) = K + 1
        BY <1>9, <1>13
      <3> QED BY <3>1
    <2> QED BY <1>6, <1>12, <1>13, <2>1, ChunkType
  <1>16. Growing(o)
    BY <1>4, <1>5, <1>6, <1>7, <1>13, <1>15 DEF Growing
  <1>17. \A m \in 1..Len(live) : home[m] \in 1..K
    <2> SUFFICES ASSUME NEW m \in 1..Len(live), home[m] \notin 1..K PROVE FALSE
      OBVIOUS
    <2>1. home[m] = Depth(ob) /\ Droppable
      BY <1>3, <1>9
    <2>2. ob.base = Start(ob, Depth(ob)) /\ ~ob.maybe
      BY <1>3, <1>8, <2>1 DEF Start
    <2>3. live[m].at \in Nat /\ live[m].size \in Nat
      BY <1>1, ObjectType
    <2>4. live[m].size > 0
      BY <1>2, <2>1, <2>2 DEF Homes, Told
    <2>5. live[m].at + live[m].size <= ob.base /\ ob.base <= live[m].at
      BY <1>2, <2>1, <2>2 DEF Homes, Below, Within
    <2> QED BY <1>3, <2>3, <2>4, <2>5
  <1>18. home \in [1..Len(live) -> 1..Depth(o)] /\ \A m \in 1..Len(live) : home[m] # Depth(o)
    BY <1>9, <1>13, <1>17
  <1>19. Within(o, live, home)
    BY <1>2, <1>13, <1>14, <1>17 DEF Homes, Within
  <1>20. Stacked(live, home)
    BY <1>2 DEF Homes
  <1>21. Below(o, live, home) /\ Told(o, live, home)
    BY <1>18 DEF Below, Told
  <1>22. Filled(o, live, home)
    <2>1. ~(o.maybe \/ o.base > Start(o, Depth(o)))
      BY <1>6, <1>7, <1>13, <1>15
    <2> QED BY <1>2, <1>14, <1>17, <2>1 DEF Homes, Filled
  <1>23. Used(o, live, home)
    <2> SUFFICES ASSUME NEW d \in 2..K PROVE \E m \in 1..Len(live) : home[m] = d
      BY <1>9, <1>13 DEF Used
    <2>1. CASE d \in 2..(Depth(ob) - 1)
      BY <1>2, <2>1 DEF Homes, Used
    <2>2. CASE d \notin 2..(Depth(ob) - 1)
      <3>1. d = Depth(ob) /\ ~Droppable /\ Depth(ob) > 1
        BY <1>3, <1>9, <2>2
      <3>2. ob.maybe \/ ob.base # First(ob.chunks, 1)
        BY <3>1 DEF Droppable, Depth
      <3>3. Start(ob, Depth(ob)) = First(ob.chunks, 1) /\ Start(ob, Depth(ob)) \in Nat
        BY <1>1, <1>3, ChunkType DEF Start
      <3>4. ob.maybe \/ ob.base > Start(ob, Depth(ob))
        BY <1>1, <1>3, <3>2, <3>3 DEF Growing
      <3> QED BY <1>2, <3>1, <3>4 DEF Homes, Filled
    <2> QED BY <2>1, <2>2
  <1>24. Homes(o, live, home)
    BY <1>18, <1>19, <1>20, <1>21, <1>22, <1>23 DEF Homes
  <1>25. Housed(o, live)
    BY <1>1, <1>12, <1>16, <1>18, <1>24 DEF Housed
  <1>26. o.limit - o.next >= n
    BY <1>4, <1>5, <1>6, <1>7
  <1> QED BY <1>25, <1>26 DEF o

\* The object grows where it is.
LEMMA GrownHoused ==
    ASSUME NEW o, NEW objs, Housed(o, objs), NEW n \in Nat, o.limit - o.next >= n
    PROVE  Housed(Grown(o, n), objs)
  <1> DEFINE g == Grown(o, n)
  <1>1. ObType(o) /\ ObjectsType(objs) /\ Growing(o)
    BY DEF Housed
  <1>2. PICK home \in [1..Len(objs) -> 1..Depth(o)] : Homes(o, objs, home)
    BY DEF Housed
  <1>3. o \in [chunks : Seq(Page) \ {<<>>}, base : Nat, next : Nat, limit : Nat, maybe : BOOLEAN]
    BY <1>1 DEF ObType
  <1>4. /\ g.chunks = o.chunks /\ g.base = o.base /\ g.limit = o.limit /\ g.maybe = o.maybe
        /\ g.next = o.next + n
        /\ g \in [chunks : Seq(Page) \ {<<>>}, base : Nat, next : Nat, limit : Nat, maybe : BOOLEAN]
    BY <1>3 DEF Grown
  <1> HIDE DEF g
  <1>5. Depth(g) = Depth(o) /\ (\A d : ChunkAt(g, d) = ChunkAt(o, d) /\ Start(g, d) = Start(o, d))
    BY <1>4 DEF Depth, ChunkAt, Start
  <1>6. ObType(g)
    BY <1>1, <1>4 DEF ObType
  <1>7. Growing(g)
    <2>1. o.next \in Nat /\ o.base \in Nat /\ o.limit \in Nat
      BY <1>3
    <2>2. g.base <= g.next /\ g.next <= g.limit
      BY <1>1, <1>4, <2>1 DEF Growing
    <2> QED BY <1>1, <1>4, <1>5, <2>2 DEF Growing
  <1>8. Homes(g, objs, home)
    BY <1>2, <1>4, <1>5 DEF Homes, Within, Stacked, Below, Filled, Told, Used
  <1> QED BY <1>1, <1>2, <1>5, <1>6, <1>7, <1>8 DEF Housed, g

LEMMA MinOfTwo ==
    ASSUME NEW a \in Nat, NEW b \in Nat
    PROVE  Min({a, b}) \in {a, b} /\ Min({a, b}) <= a /\ Min({a, b}) <= b
  <1>1. \E x \in {a, b} : \A y \in {a, b} : x <= y
    OBVIOUS
  <1>2. Min({a, b}) = CHOOSE x \in {a, b} : \A y \in {a, b} : x <= y
    BY DEF Min
  <1>3. Min({a, b}) \in {a, b} /\ \A y \in {a, b} : Min({a, b}) <= y
    BY <1>1, <1>2
  <1> QED BY <1>3

\* The object is finished, and the next one starts behind it.
LEMMA FinishedHoused ==
    ASSUME NEW o, NEW objs, Housed(o, objs), NEW size, size = o.next - o.base
    PROVE  Housed(Finished(o), Append(objs, [at |-> o.base, size |-> size]))
  <1> DEFINE f == Finished(o)
             x == [at |-> o.base, size |-> size]
             all == Append(objs, x)
             end == Min({Up(o.next), o.limit})
             L == Len(objs)
             D == Depth(o)
  <1>1. ObType(o) /\ ObjectsType(objs) /\ Growing(o)
    BY DEF Housed
  <1>2. PICK home \in [1..Len(objs) -> 1..Depth(o)] : Homes(o, objs, home)
    BY DEF Housed
  <1>3. o \in [chunks : Seq(Page) \ {<<>>}, base : Nat, next : Nat, limit : Nat, maybe : BOOLEAN]
    BY <1>1 DEF ObType
  <1>4. /\ o.base \in Nat /\ o.next \in Nat /\ o.limit \in Nat
        /\ D \in Nat \ {0} /\ D \in 1..D
    BY <1>3 DEF Depth
  <1>5. /\ Start(o, D) <= o.base /\ o.base <= o.next /\ o.next <= o.limit /\ o.base % Align = 0
        /\ Start(o, D) \in Nat /\ To[ChunkAt(o, D)] = o.limit
    BY <1>1, <1>4, ChunkType DEF Growing
  <1>6. end \in Nat /\ o.next <= end /\ end <= o.limit /\ end % Align = 0
    <2>1. Up(o.next) \in Nat /\ o.next <= Up(o.next) /\ Up(o.next) % Align = 0
      BY <1>4, UpAligned
    <2>2. end \in {Up(o.next), o.limit} /\ end <= o.limit
      BY <1>4, <2>1, MinOfTwo
    <2>3. o.limit % Align = 0
      BY <1>1, <1>4, <1>5, ChunkType, AlignAssumption
    <2> HIDE DEF end
    <2> QED BY <1>4, <1>5, <2>1, <2>2, <2>3
  <1>7. /\ f.chunks = o.chunks /\ f.base = end /\ f.next = end /\ f.limit = o.limit
        /\ f.maybe = (o.maybe \/ o.next = o.base)
        /\ f \in [chunks : Seq(Page) \ {<<>>}, base : Nat, next : Nat, limit : Nat, maybe : BOOLEAN]
    <2> HIDE DEF end
    <2> QED BY <1>3, <1>6 DEF Finished, end
  <1> HIDE DEF f, end
  <1>8. Depth(f) = D /\ (\A d : ChunkAt(f, d) = ChunkAt(o, d) /\ Start(f, d) = Start(o, d))
    BY <1>7 DEF Depth, ChunkAt, Start
  <1>9. ObType(f) /\ Growing(f)
    <2>1. ObType(f)
      BY <1>1, <1>7 DEF ObType
    <2>2. Start(o, D) <= end /\ end <= end
      BY <1>4, <1>5, <1>6
    <2> QED BY <1>6, <1>7, <1>8, <2>1, <2>2 DEF Growing
  <1>10. /\ ObjectsType(all) /\ L \in Nat /\ Len(all) = L + 1
         /\ x.at = o.base /\ x.size = size /\ size \in Nat /\ o.base + size = o.next
         /\ all[L + 1] = x /\ \A n \in 1..L : all[n] = objs[n]
    <2>1. size \in Nat /\ o.base + size = o.next
      BY <1>4, <1>5
    <2>2. x \in [at : Nat, size : Nat]
      BY <1>4, <2>1
    <2>3. objs \in Seq([at : Nat, size : Nat])
      BY <1>1 DEF ObjectsType
    <2>4. x.at = o.base /\ x.size = size
      OBVIOUS
    <2> HIDE DEF x
    <2> QED BY <2>1, <2>2, <2>3, <2>4, AppendProperties DEF ObjectsType
  <1>11. \A n \in 1..L : objs[n].at \in Nat /\ objs[n].size \in Nat
    BY <1>1, ObjectType
  <1> DEFINE homes == [n \in 1..(L + 1) |-> IF n = L + 1 THEN D ELSE home[n]]
  <1>12. /\ homes \in [1..(L + 1) -> 1..D] /\ homes[L + 1] = D
         /\ \A n \in 1..L : homes[n] = home[n] /\ home[n] \in 1..D /\ n \in 1..(L + 1) /\ n < L + 1
         /\ \A n \in 1..(L + 1) : n = L + 1 \/ n \in 1..L
    <2> HIDE DEF all, x
    <2>1. L \in Nat /\ D \in 1..D /\ home \in [1..L -> 1..D]
      BY <1>2, <1>4, <1>10
    <2> HIDE DEF L, D
    <2>2. L + 1 \in 1..(L + 1) /\ \A n \in 1..L : n \in 1..(L + 1) /\ n < L + 1 /\ n # L + 1
      BY <2>1
    <2>3. \A n \in 1..(L + 1) : n = L + 1 \/ n \in 1..L
      BY <2>1
    <2> QED BY <2>1, <2>2, <2>3
  <1> HIDE DEF all, x, homes, L, D
  <1>13. /\ Within(o, objs, home) /\ Stacked(objs, home) /\ Below(o, objs, home)
         /\ Filled(o, objs, home) /\ Told(o, objs, home) /\ Used(o, objs, home)
    BY <1>2 DEF Homes
  <1>14. Within(f, all, homes)
    <2> SUFFICES ASSUME NEW n \in 1..(L + 1)
                 PROVE  /\ all[n].at % Align = 0
                        /\ Start(o, homes[n]) <= all[n].at
                        /\ all[n].at + all[n].size <= To[ChunkAt(o, homes[n])]
      BY <1>8, <1>10 DEF Within
    <2>1. CASE n = L + 1
      BY <1>5, <1>10, <1>12, <2>1
    <2>2. CASE n \in 1..L
      BY <1>10, <1>12, <1>13, <2>2 DEF Within, L
    <2> QED BY <1>12, <2>1, <2>2
  <1>15. Stacked(all, homes)
    <2> SUFFICES ASSUME NEW m \in 1..(L + 1), NEW n \in 1..(L + 1), m < n
                 PROVE  /\ homes[m] <= homes[n]
                        /\ homes[m] = homes[n] => all[m].at + all[m].size <= all[n].at
      BY <1>10 DEF Stacked
    <2>1. m \in 1..L
      BY <1>10
    <2>2. CASE n = L + 1
      <3>1. home[m] = D => objs[m].at + objs[m].size <= o.base
        BY <1>13, <2>1 DEF Below, L, D
      <3>2. homes[m] = home[m] /\ homes[n] = D /\ all[m] = objs[m] /\ all[n].at = o.base
        BY <1>10, <1>12, <2>1, <2>2
      <3>3. home[m] <= D
        <4>1. home[m] \in 1..D
          BY <1>12, <2>1
        <4> QED BY <1>4, <4>1 DEF D
      <3> QED BY <3>1, <3>2, <3>3
    <2>3. CASE n \in 1..L
      BY <1>10, <1>12, <1>13, <2>1, <2>3 DEF Stacked, L
    <2> QED BY <1>12, <2>2, <2>3
  <1>16. Below(f, all, homes)
    <2> SUFFICES ASSUME NEW n \in 1..(L + 1), homes[n] = D
                 PROVE  all[n].at + all[n].size <= end
      BY <1>7, <1>8, <1>10 DEF Below
    <2>1. CASE n = L + 1
      BY <1>6, <1>10, <2>1
    <2>2. CASE n \in 1..L
      <3>1. objs[n].at + objs[n].size <= o.base
        BY <1>12, <1>13, <2>2 DEF Below, L, D
      <3>2. all[n] = objs[n] /\ objs[n].at \in Nat /\ objs[n].size \in Nat
        BY <1>10, <1>11, <2>2
      <3>3. o.base <= end /\ o.base \in Nat /\ end \in Nat
        BY <1>4, <1>5, <1>6
      <3> QED BY <3>1, <3>2, <3>3
    <2> QED BY <1>12, <2>1, <2>2
  <1>17. Filled(f, all, homes)
    <2>1. ASSUME NEW n \in 1..(L + 1), all[n].at > Start(o, homes[n])
          PROVE  \E m \in 1..(L + 1) : m < n /\ homes[m] = homes[n]
      <3>1. CASE n = L + 1
        <4>1. PICK m \in 1..L : home[m] = D
          BY <1>10, <1>12, <1>13, <2>1, <3>1 DEF Filled, L, D
        <4> QED BY <1>12, <3>1, <4>1
      <3>2. CASE n \in 1..L
        <4>1. PICK m \in 1..L : m < n /\ home[m] = home[n]
          BY <1>10, <1>12, <1>13, <2>1, <3>2 DEF Filled, L
        <4> QED BY <1>12, <3>2, <4>1
      <3> QED BY <1>12, <3>1, <3>2
    <2>2. L + 1 \in 1..(L + 1)
      BY <1>10
    <2> QED BY <1>8, <1>10, <1>12, <2>1, <2>2 DEF Filled
  <1>18. Told(f, all, homes)
    <2> SUFFICES ASSUME ~f.maybe, NEW n \in 1..(L + 1), homes[n] = D PROVE all[n].size > 0
      BY <1>8, <1>10 DEF Told
    <2>1. ~o.maybe /\ o.next # o.base
      BY <1>7
    <2>2. CASE n = L + 1
      BY <1>4, <1>10, <2>1, <2>2
    <2>3. CASE n \in 1..L
      BY <1>10, <1>12, <1>13, <2>1, <2>3 DEF Told, L, D
    <2> QED BY <1>12, <2>2, <2>3
  <1>19. Used(f, all, homes)
    <2> SUFFICES ASSUME NEW d \in 2..D - 1 PROVE \E n \in 1..(L + 1) : homes[n] = d
      BY <1>8, <1>10 DEF Used
    <2>1. PICK n \in 1..L : home[n] = d
      BY <1>13 DEF Used, L, D
    <2> QED BY <1>12, <2>1
  <1>20. homes \in [1..Len(all) -> 1..Depth(f)] /\ Homes(f, all, homes)
    BY <1>8, <1>10, <1>12, <1>14, <1>15, <1>16, <1>17, <1>18, <1>19 DEF Homes
  <1>21. Housed(f, all)
    BY <1>9, <1>10, <1>20 DEF Housed
  <1> QED BY <1>21 DEF f, all, x

LEMMA AtIndex ==
    ASSUME NEW o, ObType(o), NEW j \in 1..Depth(o)
    PROVE  /\ Depth(o) + 1 - j \in 1..Depth(o)
           /\ o.chunks[j] = ChunkAt(o, Depth(o) + 1 - j)
           /\ First(o.chunks, j) = Start(o, Depth(o) + 1 - j)
  <1>1. Depth(o) \in Nat
    BY DEF ObType, Depth
  <1>2. Depth(o) + 1 - (Depth(o) + 1 - j) = j
    BY <1>1
  <1> QED BY <1>1, <1>2 DEF ChunkAt, Start

\* The only chunk that has address a below its end and behind its beginning is
\* the one that an object at a is in.
LEMMA OneChunk ==
    ASSUME NEW o, ObType(o), NEW a \in Nat,
           NEW d \in 1..Depth(o), Start(o, d) <= a, a <= To[ChunkAt(o, d)],
           d > 1 => Start(o, d) # a,
           NEW e \in 1..Depth(o), Start(o, e) < a, a <= To[ChunkAt(o, e)]
    PROVE  d = e
  <1> SUFFICES ASSUME d # e PROVE FALSE
    OBVIOUS
  <1>1. /\ From[ChunkAt(o, d)] \in Nat /\ To[ChunkAt(o, d)] \in Nat
        /\ Start(o, d) = From[ChunkAt(o, d)] + (IF d = 1 THEN Header ELSE 0)
        /\ Start(o, d) \in Nat /\ From[ChunkAt(o, d)] <= Start(o, d)
    BY ChunkType
  <1>2. /\ From[ChunkAt(o, e)] \in Nat /\ To[ChunkAt(o, e)] \in Nat
        /\ Start(o, e) \in Nat /\ From[ChunkAt(o, e)] <= Start(o, e)
    BY ChunkType
  <1>3. CASE To[ChunkAt(o, d)] <= From[ChunkAt(o, e)]
    BY <1>1, <1>2, <1>3
  <1>4. CASE To[ChunkAt(o, e)] <= From[ChunkAt(o, d)]
    <2>1. From[ChunkAt(o, d)] = a /\ Start(o, d) = a
      BY <1>1, <1>2, <1>4
    <2>2. d > 1
      <3>1. Header \in Nat \ {0} /\ d \in Nat /\ d >= 1
        BY AlignAssumption
      <3> QED BY <1>1, <2>1, <3>1
    <2> QED BY <2>1, <2>2
  <1> QED BY <1>3, <1>4, ChunksApart

\* free stops at the chunk of an object that is not the first of a later chunk.
LEMMA StopIsHome ==
    ASSUME ObType(ob), NEW a \in Nat, NEW d \in 1..Depth(ob),
           Start(ob, d) <= a, a <= To[ChunkAt(ob, d)], ~Strays(a)
    PROVE  /\ d > 1 => Start(ob, d) # a
           /\ (IF FreeHere(a) THEN 1 ELSE Stop(a)) = Depth(ob) + 1 - d
  <1> DEFINE D == Depth(ob)  h == D + 1 - d
  <1>1. D \in Nat \ {0} /\ d \in Nat /\ h \in 1..D /\ D = Len(ob.chunks) /\ DOMAIN ob.chunks = 1..D
        /\ D + 1 - h = d
    BY DEF ObType, Depth
  <1> HIDE DEF D, h
  <1>2. First(ob.chunks, h) = Start(ob, d) /\ ob.chunks[h] = ChunkAt(ob, d)
    BY <1>1 DEF Start, ChunkAt, h, D
  <1>3. d > 1 => Start(ob, d) # a
    <2> SUFFICES ASSUME d > 1, Start(ob, d) = a PROVE FALSE
      OBVIOUS
    <2>1. h \in 1..Len(ob.chunks) - 1
      BY <1>1 DEF h
    <2> QED BY <1>2, <2>1 DEF Strays
  <1>4. ASSUME NEW j \in 1..D, First(ob.chunks, j) < a, a <= To[ob.chunks[j]]
        PROVE  j = h
    <2> DEFINE e == D + 1 - j
    <2>1. e \in 1..Depth(ob) /\ ob.chunks[j] = ChunkAt(ob, e) /\ First(ob.chunks, j) = Start(ob, e)
      BY AtIndex DEF D
    <2>2. d = e
      <3> HIDE DEF e
      <3> QED BY <1>3, <1>4, <2>1, OneChunk
    <2> QED BY <1>1, <2>2 DEF h
  <1>5. ASSUME NEW j \in 1..D
        PROVE  First(ob.chunks, j) \in Nat /\ To[ob.chunks[j]] \in Nat
    <2> DEFINE e == D + 1 - j
    <2>1. e \in 1..Depth(ob) /\ ob.chunks[j] = ChunkAt(ob, e) /\ First(ob.chunks, j) = Start(ob, e)
      BY AtIndex DEF D
    <2> HIDE DEF e
    <2> QED BY <2>1, ChunkType
  <1>6. CASE FreeHere(a)
    <2>1. First(ob.chunks, 1) < a /\ a < ob.limit /\ ob.limit = To[ob.chunks[1]]
      <3>1. Head(ob.chunks) = ob.chunks[1]
        BY <1>1 DEF ObType
      <3> QED BY <1>6, <3>1 DEF FreeHere, ObType
    <2>2. 1 \in 1..D
      BY <1>1
    <2>3. a <= To[ob.chunks[1]]
      BY <1>5, <2>1, <2>2
    <2>4. h = 1
      BY <1>4, <2>1, <2>2, <2>3
    <2> QED BY <1>3, <1>6, <2>4 DEF h, D
  <1>7. CASE ~FreeHere(a)
    <2> DEFINE S == {i \in DOMAIN ob.chunks : i = Len(ob.chunks) \/ ~Skipped(i, a)}
    <2>1. h \in S
      <3>1. CASE d = 1
        BY <1>1, <3>1 DEF h
      <3>2. CASE d # 1
        <4>1. First(ob.chunks, h) < a /\ a <= To[ob.chunks[h]]
          BY <1>1, <1>2, <1>3, <1>5, <3>2
        <4>2. ~Skipped(h, a)
          BY <1>1, <1>5, <4>1 DEF Skipped
        <4> QED BY <1>1, <4>2
      <3> QED BY <3>1, <3>2
    <2>2. \A j \in S : h <= j
      <3> SUFFICES ASSUME NEW j \in S, j < h PROVE FALSE
        BY <1>1
      <3>1. j \in 1..D /\ j # Len(ob.chunks) /\ ~Skipped(j, a)
        BY <1>1
      <3>2. First(ob.chunks, j) < a /\ a <= To[ob.chunks[j]]
        BY <1>5, <3>1 DEF Skipped
      <3>3. j = h
        BY <1>4, <3>1, <3>2
      <3> QED BY <1>1, <3>3
    <2>3. Stop(a) = Min(S)
      BY DEF Stop
    <2>4. S \subseteq 1..D
      BY <1>1
    <2> HIDE DEF S
    <2>5. Min(S) = CHOOSE x \in S : \A y \in S : x <= y
      BY DEF Min
    <2>6. Min(S) \in S /\ Min(S) <= h
      BY <2>1, <2>2, <2>5
    <2>7. Min(S) = h
      <3>1. h <= Min(S) /\ Min(S) \in 1..D
        BY <2>2, <2>4, <2>6
      <3> QED BY <1>1, <2>6, <3>1
    <2> QED BY <1>3, <1>7, <2>3, <2>7 DEF h, D
  <1> QED BY <1>6, <1>7

LEMMA SuffixProps ==
    ASSUME NEW S, NEW s \in Seq(S), NEW i \in 1..Len(s)
    PROVE  /\ SubSeq(s, i, Len(s)) \in Seq(S)
           /\ Len(SubSeq(s, i, Len(s))) = Len(s) + 1 - i
           /\ \A j \in 1..(Len(s) + 1 - i) : SubSeq(s, i, Len(s))[j] = s[i + j - 1]
  <1> DEFINE n == Len(s)  t == SubSeq(s, i, n)
  <1>0. n \in Nat /\ i \in Nat /\ i >= 1 /\ i <= n
    BY LenProperties
  <1>1. \A j \in i..n : s[j] \in S
    BY <1>0, ElementOfSeq
  <1>2. /\ t \in Seq(S)
        /\ Len(t) = IF i <= n THEN n - i + 1 ELSE 0
        /\ \A j \in 1..(n - i + 1) : t[j] = s[i + j - 1]
    BY <1>0, <1>1, SubSeqProperties
  <1> HIDE DEF t, n
  <1>3. n - i + 1 = n + 1 - i
    BY <1>0
  <1> QED BY <1>0, <1>2, <1>3 DEF t, n

LEMMA PrefixProps ==
    ASSUME NEW S, NEW s \in Seq(S), NEW n \in 0..Len(s)
    PROVE  /\ SubSeq(s, 1, n) \in Seq(S)
           /\ Len(SubSeq(s, 1, n)) = n
           /\ \A j \in 1..n : SubSeq(s, 1, n)[j] = s[j] /\ j \in 1..Len(s)
  <1> DEFINE t == SubSeq(s, 1, n)
  <1>0. Len(s) \in Nat /\ n \in Nat /\ n <= Len(s)
    BY LenProperties
  <1>1. \A j \in 1..n : j \in 1..Len(s) /\ s[j] \in S
    BY <1>0, ElementOfSeq
  <1>2. /\ t \in Seq(S)
        /\ Len(t) = IF 1 <= n THEN n - 1 + 1 ELSE 0
        /\ \A j \in 1..(n - 1 + 1) : t[j] = s[1 + j - 1]
    BY <1>0, <1>1, SubSeqProperties
  <1> HIDE DEF t
  <1>3. n - 1 + 1 = n /\ (~(1 <= n) => n = 0) /\ \A j \in 1..n : 1 + j - 1 = j
    BY <1>0
  <1> QED BY <1>1, <1>2, <1>3 DEF t

\* What an obstack is after chunks were freed down to the chunk at i.
LEMMA BackType ==
    ASSUME ObType(ob), NEW i \in 1..Depth(ob), NEW a \in Nat
    PROVE  /\ ObType(Back(i, a)) /\ Depth(Back(i, a)) = Depth(ob) + 1 - i
           /\ \A d \in 1..(Depth(ob) + 1 - i) :
                /\ ChunkAt(Back(i, a), d) = ChunkAt(ob, d)
                /\ Start(Back(i, a), d) = Start(ob, d)
           /\ ToSet(Back(i, a).chunks) \subseteq ToSet(ob.chunks)
  <1> DEFINE b == Back(i, a)  D == Depth(ob)  K == D + 1 - i
  <1>1. /\ ob.chunks \in Seq(Page) /\ ob.maybe \in BOOLEAN /\ IsInjective(ob.chunks)
        /\ D = Len(ob.chunks) /\ D \in Nat \ {0} /\ DOMAIN ob.chunks = 1..D
    BY DEF ObType, Depth
  <1>2. /\ b.chunks = SubSeq(ob.chunks, i, D) /\ b.base = a /\ b.next = a
        /\ b.limit = To[ob.chunks[i]] /\ b.maybe = (ob.maybe \/ i > 1)
        /\ b = [chunks |-> b.chunks, base |-> b.base, next |-> b.next, limit |-> b.limit, maybe |-> b.maybe]
    BY DEF Back, Depth
  <1>3. ob.chunks[i] \in Page /\ To[ob.chunks[i]] \in Nat
    BY <1>1, PageAssumption
  <1> HIDE DEF b, D
  <1>4. /\ K \in Nat \ {0} /\ i \in 1..D /\ i \in Nat /\ i + K - 1 = D
    BY <1>1 DEF D
  <1>5. /\ b.chunks \in Seq(Page) /\ Len(b.chunks) = K
        /\ \A j \in 1..K : b.chunks[j] = ob.chunks[i + j - 1] /\ i + j - 1 \in 1..D
    <2>1. i \in 1..Len(ob.chunks)
      BY <1>1, <1>4
    <2>3. /\ SubSeq(ob.chunks, i, D) \in Seq(Page)
          /\ Len(SubSeq(ob.chunks, i, D)) = D + 1 - i
          /\ \A j \in 1..(D + 1 - i) : SubSeq(ob.chunks, i, D)[j] = ob.chunks[i + j - 1]
      BY <1>1, <2>1, SuffixProps
    <2>5. \A j \in 1..K : i + j - 1 \in 1..D
      BY <1>1, <1>4
    <2> QED BY <1>2, <2>3, <2>5
  <1>6. b.chunks # <<>> /\ Head(b.chunks) = ob.chunks[i] /\ DOMAIN b.chunks = 1..K
    <2>1. 1 \in 1..K /\ i + 1 - 1 = i
      BY <1>4
    <2>2. b.chunks[1] = ob.chunks[i]
      BY <1>5, <2>1
    <2> HIDE DEF K
    <2> QED BY <1>4, <1>5, <2>2
  <1>7. IsInjective(b.chunks)
    <2> SUFFICES ASSUME NEW x \in 1..K, NEW y \in 1..K, b.chunks[x] = b.chunks[y] PROVE x = y
      BY <1>6 DEF IsInjective
    <2>1. /\ ob.chunks[i + x - 1] = ob.chunks[i + y - 1]
          /\ i + x - 1 \in 1..D /\ i + y - 1 \in 1..D
      BY <1>5
    <2>2. i + x - 1 = i + y - 1
      BY <1>1, <2>1 DEF IsInjective
    <2> QED BY <1>4, <2>2
  <1>8. ObType(b)
    <2>1. b.base \in Nat /\ b.next \in Nat /\ b.limit \in Nat /\ b.maybe \in BOOLEAN
      BY <1>2, <1>3
    <2>2. b \in [chunks : Seq(Page) \ {<<>>}, base : Nat, next : Nat, limit : Nat, maybe : BOOLEAN]
      BY <1>2, <1>5, <1>6, <2>1
    <2> QED BY <1>2, <1>6, <1>7, <2>2 DEF ObType
  <1>9. Depth(b) = K
    BY <1>5 DEF Depth
  <1>10. ASSUME NEW d \in 1..K
         PROVE  ChunkAt(b, d) = ChunkAt(ob, d) /\ Start(b, d) = Start(ob, d)
    <2>1. K + 1 - d \in 1..K /\ i + (K + 1 - d) - 1 = D + 1 - d
      <3>1. D \in Nat /\ i \in 1..D /\ d \in 1..K
        BY <1>1, <1>4
      <3> QED BY <3>1
    <2>2. ChunkAt(b, d) = ChunkAt(ob, d)
      BY <1>5, <1>9, <2>1 DEF ChunkAt, D
    <2>3. d \in 1..Depth(b) /\ d \in 1..Depth(ob)
      BY <1>1, <1>4, <1>9 DEF D
    <2> QED BY <1>8, <2>2, <2>3, ChunkType
  <1>11. ToSet(b.chunks) \subseteq ToSet(ob.chunks)
    <2> SUFFICES ASSUME NEW p \in ToSet(b.chunks) PROVE p \in ToSet(ob.chunks)
      OBVIOUS
    <2>1. PICK j \in 1..K : b.chunks[j] = p
      BY <1>5, SetOfSeq
    <2>2. ob.chunks[i + j - 1] = p /\ i + j - 1 \in 1..Len(ob.chunks)
      BY <1>1, <1>5, <2>1
    <2> QED BY <1>1, <2>2, SetOfSeq
  <1> QED BY <1>8, <1>9, <1>10, <1>11 DEF b, D

\* The objects that stay are the older ones.
LEMMA Older ==
    ASSUME NEW objs, ObjectsType(objs), NEW n \in 0..Len(objs)
    PROVE  /\ ObjectsType(SubSeq(objs, 1, n)) /\ Len(SubSeq(objs, 1, n)) = n
           /\ \A m \in 1..n : SubSeq(objs, 1, n)[m] = objs[m] /\ m \in 1..Len(objs)
  BY PrefixProps DEF ObjectsType

\* free of an object that is not the first of a later chunk.
LEMMA FreedHoused ==
    ASSUME Housed(ob, live), NEW n \in DOMAIN live, ~Strays(live[n].at)
    PROVE  Housed(Back(IF FreeHere(live[n].at) THEN 1 ELSE Stop(live[n].at), live[n].at),
                  SubSeq(live, 1, n - 1))
  <1> DEFINE a == live[n].at
             i == IF FreeHere(a) THEN 1 ELSE Stop(a)
             b == Back(i, a)
             rest == SubSeq(live, 1, n - 1)
             D == Depth(ob)
  <1>1. ObType(ob) /\ ObjectsType(live) /\ Growing(ob)
    BY DEF Housed
  <1>2. PICK home \in [1..Len(live) -> 1..Depth(ob)] : Homes(ob, live, home)
    BY DEF Housed
  <1> DEFINE d == home[n]
  <1>3. /\ n \in 1..Len(live) /\ Len(live) \in Nat /\ n - 1 \in 0..Len(live) /\ n \in Nat
        /\ \A m \in 1..Len(live) : live[m].at \in Nat /\ live[m].size \in Nat
    BY <1>1, ObjectType
  <1>4. a \in Nat /\ live[n].size \in Nat /\ d \in 1..D /\ D \in Nat \ {0}
    BY <1>1, <1>2, <1>3 DEF ObType, Depth
  <1>5. /\ Start(ob, d) <= a /\ a + live[n].size <= To[ChunkAt(ob, d)] /\ a % Align = 0
        /\ To[ChunkAt(ob, d)] \in Nat /\ Start(ob, d) \in Nat
    BY <1>1, <1>2, <1>3, <1>4, ChunkType DEF Homes, Within
  <1>6. a <= To[ChunkAt(ob, d)]
    BY <1>4, <1>5
  <1>7. i = D + 1 - d /\ (d > 1 => Start(ob, d) # a)
    <2> HIDE DEF a, d
    <2> QED BY <1>1, <1>4, <1>5, <1>6, StopIsHome DEF a
  <1> HIDE DEF i
  <1>8. i \in 1..D /\ D + 1 - i = d
    BY <1>4, <1>7
  <1>9. /\ ObType(b) /\ Depth(b) = d
        /\ \A e \in 1..d : ChunkAt(b, e) = ChunkAt(ob, e) /\ Start(b, e) = Start(ob, e)
    <2> HIDE DEF a, d, b
    <2> QED BY <1>1, <1>4, <1>8, BackType DEF b
  <1>10. b.base = a /\ b.next = a /\ b.maybe = (ob.maybe \/ i > 1)
    BY DEF Back
  <1>11. /\ ObjectsType(rest) /\ Len(rest) = n - 1
         /\ \A m \in 1..(n - 1) : rest[m] = live[m] /\ m \in 1..Len(live) /\ m < n
    <2> HIDE DEF rest
    <2>1. \A m \in 1..(n - 1) : m < n
      BY <1>3
    <2> QED BY <1>1, <1>3, <2>1, Older DEF rest
  <1>12. /\ Within(ob, live, home) /\ Stacked(live, home) /\ Below(ob, live, home)
         /\ Filled(ob, live, home) /\ Told(ob, live, home) /\ Used(ob, live, home)
    BY <1>2 DEF Homes
  <1> HIDE DEF a, b, rest, D, d
  <1>13. \A m \in 1..(n - 1) : /\ home[m] \in 1..d
                               /\ home[m] = d => live[m].at + live[m].size <= a
    <2> SUFFICES ASSUME NEW m \in 1..(n - 1)
                 PROVE  home[m] \in 1..d /\ (home[m] = d => live[m].at + live[m].size <= a)
      OBVIOUS
    <2>1. m \in 1..Len(live) /\ m < n
      BY <1>11
    <2>2. home[m] <= d /\ (home[m] = d => live[m].at + live[m].size <= a)
      BY <1>3, <1>12, <2>1 DEF Stacked, d, a
    <2>3. home[m] \in 1..D
      BY <1>2, <2>1 DEF D
    <2> QED BY <1>4, <2>2, <2>3
  <1>14. Growing(b)
    <2>1. d = Depth(b) /\ d \in 1..d
      BY <1>4, <1>9
    <2>2. To[ChunkAt(b, d)] = b.limit
      BY <1>9, <2>1, ChunkType
    <2> QED BY <1>4, <1>5, <1>6, <1>9, <1>10, <2>1, <2>2 DEF Growing
  <1> DEFINE homes == [m \in 1..(n - 1) |-> home[m]]
  <1>15. homes \in [1..(n - 1) -> 1..d] /\ \A m \in 1..(n - 1) : homes[m] = home[m]
    BY <1>13
  <1> HIDE DEF homes
  <1>16. Within(b, rest, homes)
    BY <1>9, <1>11, <1>12, <1>15 DEF Within
  <1>17. Stacked(rest, homes)
    BY <1>11, <1>12, <1>15 DEF Stacked
  <1>18. Below(b, rest, homes)
    BY <1>9, <1>10, <1>11, <1>13, <1>15 DEF Below
  <1>19. a > Start(ob, d) => \E m \in 1..(n - 1) : home[m] = d
    <2> SUFFICES ASSUME a > Start(ob, d) PROVE \E m \in 1..(n - 1) : home[m] = d
      OBVIOUS
    <2>1. PICK m \in 1..Len(live) : m < n /\ home[m] = home[n]
      BY <1>3, <1>12 DEF Filled, a, d
    <2>2. m \in 1..(n - 1)
      BY <1>3, <2>1
    <2> QED BY <2>1, <2>2 DEF d
  <1>20. Filled(b, rest, homes)
    <2>1. ASSUME NEW m \in 1..(n - 1), rest[m].at > Start(b, homes[m])
          PROVE  \E l \in 1..(n - 1) : l < m /\ homes[l] = homes[m]
      <3>1. live[m].at > Start(ob, home[m]) /\ m \in 1..Len(live) /\ m < n
        BY <1>9, <1>11, <1>13, <1>15, <2>1
      <3>2. PICK l \in 1..Len(live) : l < m /\ home[l] = home[m]
        BY <1>12, <3>1 DEF Filled
      <3>3. l \in 1..(n - 1)
        BY <1>3, <3>1, <3>2
      <3> QED BY <1>15, <3>2, <3>3
    <2>2. ASSUME b.base > Start(b, d) \/ (b.maybe /\ d > 1)
          PROVE  \E m \in 1..(n - 1) : homes[m] = d
      <3>1. Start(b, d) = Start(ob, d)
        BY <1>4, <1>9
      <3>2. a > Start(ob, d)
        BY <1>4, <1>5, <1>7, <1>10, <2>2, <3>1
      <3> QED BY <1>15, <1>19, <3>2
    <2> QED BY <1>9, <1>11, <2>1, <2>2 DEF Filled
  <1>21. Told(b, rest, homes)
    <2> SUFFICES ASSUME ~b.maybe, NEW m \in 1..(n - 1), homes[m] = d PROVE rest[m].size > 0
      BY <1>9, <1>11 DEF Told
    <2>1. ~ob.maybe /\ d = D
      <3>1. ~ob.maybe /\ ~(i > 1)
        BY <1>10
      <3>2. i = 1
        BY <1>4, <1>8, <3>1
      <3> QED BY <1>4, <1>8, <3>1, <3>2
    <2> QED BY <1>11, <1>12, <1>15, <2>1 DEF Told, D
  <1>22. Used(b, rest, homes)
    <2> SUFFICES ASSUME NEW e \in 2..d - 1 PROVE \E m \in 1..(n - 1) : homes[m] = e
      BY <1>9, <1>11 DEF Used
    <2>1. e \in 2..(D - 1) /\ e < d /\ e \in Nat
      BY <1>4
    <2>2. PICK m \in 1..Len(live) : home[m] = e
      BY <1>12, <2>1 DEF Used, D
    <2>3. ~(n < m) /\ n # m
      BY <1>3, <1>4, <1>12, <2>1, <2>2 DEF Stacked, d
    <2>4. m \in 1..(n - 1)
      BY <1>3, <2>3
    <2> QED BY <1>15, <2>2, <2>4
  <1>23. homes \in [1..Len(rest) -> 1..Depth(b)] /\ Homes(b, rest, homes)
    BY <1>9, <1>11, <1>15, <1>16, <1>17, <1>18, <1>20, <1>21, <1>22 DEF Homes
  <1>24. Housed(b, rest)
    BY <1>9, <1>11, <1>14, <1>23 DEF Housed
  <1> QED BY <1>24 DEF b, i, rest, a

-----------------------------------------------------------------------------
(* Each operation keeps the invariant. *)

LEMMA InitInv == Init => IInv
  <1> SUFFICES ASSUME Init PROVE IInv
    OBVIOUS
  <1>1. PICK p \in Page : ob = Fresh(p)
    BY DEF Init
  <1>2. Housed(ob, live) /\ live = <<>> /\ status = "ok"
    BY <1>1, FreshHoused DEF Init
  <1>3. Len(live) <= MaxObjects
    BY <1>2, SizeAssumption
  <1> QED BY <1>2, <1>3 DEF IInv, TypeOK, Housed, ObType, ObjectsType

\* An obstack that has room for n more, in a new chunk or not.
LEMMA RoomHoused ==
    ASSUME Housed(ob, live), NEW n \in Nat, NEW o \in WithRoom(n)
    PROVE  Housed(o, live) /\ o.limit - o.next >= n /\ o.next - o.base = Object.size
  <1>1. ob.base \in Nat /\ ob.next \in Nat /\ ob.limit \in Nat /\ ob.base <= ob.next
    BY DEF Housed, ObType, Growing
  <1>2. CASE ob.limit - ob.next < n
    <2>1. PICK p \in Fitting(n) : o = NewChunk(p)
      BY <1>2 DEF WithRoom
    <2>2. Housed(o, live) /\ o.limit - o.next >= n
      BY <2>1, NewChunkHoused
    <2>3. o.base = From[p] /\ o.next = From[p] + Object.size
      BY <2>1 DEF NewChunk
    <2>4. From[p] \in Nat /\ Object.size \in Nat
      BY <1>1, PageAssumption DEF Fitting, Object
    <2> QED BY <2>2, <2>3, <2>4
  <1>3. CASE ~(ob.limit - ob.next < n)
    <2>1. o = ob
      BY <1>3 DEF WithRoom
    <2> QED BY <1>1, <1>3, <2>1 DEF Object
  <1> QED BY <1>2, <1>3

LEMMA GrowHoused ==
    ASSUME Housed(ob, live), NEW n \in Nat, Grow(n)
    PROVE  Housed(ob', live')
  <1>1. PICK o \in WithRoom(n) : ob' = Grown(o, n)
    BY DEF Grow
  <1>2. Housed(Grown(o, n), live)
    BY RoomHoused, GrownHoused
  <1> QED BY <1>1, <1>2 DEF Grow

LEMMA AllocHoused ==
    ASSUME Housed(ob, live), NEW n \in Nat, Alloc(n)
    PROVE  Housed(ob', live')
  <1>1. PICK o \in WithRoom(n) :
          /\ ob' = Finished(Grown(o, n))
          /\ live' = Append(live, [at |-> o.base, size |-> Object.size + n])
    BY DEF Alloc
  <1>2. Housed(o, live) /\ o.limit - o.next >= n /\ o.next - o.base = Object.size
    BY RoomHoused
  <1>3. Housed(Grown(o, n), live)
    BY <1>2, GrownHoused
  <1>4. /\ Grown(o, n).base = o.base
        /\ Object.size + n = Grown(o, n).next - Grown(o, n).base
    <2>1. o \in [chunks : Seq(Page) \ {<<>>}, base : Nat, next : Nat, limit : Nat, maybe : BOOLEAN]
      BY <1>2 DEF Housed, ObType
    <2>2. Grown(o, n).base = o.base /\ Grown(o, n).next = o.next + n
      BY <2>1 DEF Grown
    <2>3. o.next \in Nat /\ o.base \in Nat
      BY <2>1
    <2> QED BY <1>2, <2>2, <2>3
  <1> DEFINE g == Grown(o, n)  size == Object.size + n
  <1> HIDE DEF g, size
  <1>5. Housed(Finished(g), Append(live, [at |-> g.base, size |-> size]))
    BY <1>3, <1>4, FinishedHoused DEF g, size
  <1> QED BY <1>1, <1>4, <1>5 DEF g, size

LEMMA FinishHoused == Housed(ob, live) /\ Finish => Housed(ob', live')
  <1> SUFFICES ASSUME Housed(ob, live), Finish PROVE Housed(ob', live')
    OBVIOUS
  <1> DEFINE size == ob.next - ob.base
  <1>1. Housed(Finished(ob), Append(live, [at |-> ob.base, size |-> size]))
    <2> HIDE DEF size
    <2> QED BY FinishedHoused DEF size
  <1> QED BY <1>1 DEF Finish, Object

LEMMA RestartHoused == Housed(ob, live) /\ (Clear \/ Renew) => Housed(ob', live')
  <1> SUFFICES ASSUME Housed(ob, live), Clear \/ Renew PROVE Housed(ob', live')
    OBVIOUS
  <1>1. \E p \in Page : ob' = Fresh(p)
    <2>1. CASE Renew
      BY <2>1 DEF Renew
    <2>2. CASE Clear
      <3>1. /\ ob.chunks \in Seq(Page) /\ Len(ob.chunks) \in Nat \ {0}
        BY EmptySeq DEF Housed, ObType
      <3>2. Len(ob.chunks) \in 1..Len(ob.chunks)
        BY <3>1
      <3>3. ob.chunks[Len(ob.chunks)] \in Page
        BY <3>1, <3>2, ElementOfSeq
      <3> QED BY <2>2, <3>3 DEF Clear, Last
    <2> QED BY <2>1, <2>2
  <1>2. live' = <<>>
    BY DEF Clear, Renew
  <1> QED BY <1>1, <1>2, FreshHoused

\* What every step leads to that does not go wrong.
LEMMA StepHoused ==
    ASSUME Housed(ob, live), status = "ok", Next, status' = "ok"
    PROVE  Housed(ob', live')
  <1>1. ASSUME NEW n \in Size, MakeRoom(n) PROVE Housed(ob', live')
    <2>1. n \in Nat /\ ob' \in WithRoom(n) /\ live' = live
      BY <1>1, SizeAssumption DEF MakeRoom
    <2>2. \A o \in WithRoom(n) : Housed(o, live)
      BY <2>1, RoomHoused
    <2> QED BY <2>1, <2>2
  <1>2. ASSUME NEW n \in Size, Grow(n) PROVE Housed(ob', live')
    BY <1>2, SizeAssumption, GrowHoused
  <1>3. ASSUME NEW n \in Size, Alloc(n) PROVE Housed(ob', live')
    BY <1>3, SizeAssumption, AllocHoused
  <1>4. ASSUME NEW n \in DOMAIN live, Free(n) PROVE Housed(ob', live')
    BY <1>4, FreedHoused DEF Free, Freed
  <1>5. ASSUME NEW n \in DOMAIN live, FreeAstray(n) \/ FreeAborts(n) PROVE FALSE
    BY <1>5 DEF FreeAstray, FreeAborts
  <1> QED BY <1>1, <1>2, <1>3, <1>4, <1>5, FinishHoused, RestartHoused DEF Next

\* Even a free that goes astray leaves chunks and objects the obstack had.
LEMMA AstrayTyped ==
    ASSUME TypeOK, NEW n \in DOMAIN live, FreeAstray(n)
    PROVE  ObType(ob') /\ ObjectsType(live') /\ Len(live') <= MaxObjects
  <1> DEFINE a == live[n].at
             i == IF FreeHere(a) THEN 1 ELSE Stop(a)
             S == {j \in DOMAIN ob.chunks : j = Len(ob.chunks) \/ ~Skipped(j, a)}
  <1>1. ObType(ob) /\ ObjectsType(live) /\ Len(live) <= MaxObjects
    BY DEF TypeOK, ObType, ObjectsType
  <1>2. n \in 1..Len(live) /\ Len(live) \in Nat /\ a \in Nat /\ n - 1 \in 0..Len(live)
    BY <1>1, ObjectType
  <1>3. Depth(ob) \in Nat \ {0} /\ Depth(ob) = Len(ob.chunks) /\ DOMAIN ob.chunks = 1..Depth(ob)
    BY <1>1, LenProperties DEF ObType, Depth
  <1>4. Len(ob.chunks) \in S /\ S \subseteq 1..Depth(ob) /\ S \subseteq Nat
    BY <1>3
  <1>5. Stop(a) = Min(S)
    BY DEF Stop
  <1> HIDE DEF S, a
  <1>6. Min(S) \in S
    <2>1. \E x \in S : \A y \in S : x <= y
      BY <1>4, LeastElement
    <2> QED BY <2>1 DEF Min
  <1>7. i \in 1..Depth(ob)
    <2>1. 1 \in 1..Depth(ob)
      BY <1>3
    <2>2. Min(S) \in 1..Depth(ob)
      BY <1>4, <1>6
    <2>3. Stop(a) \in 1..Depth(ob)
      BY <1>5, <2>2
    <2> QED BY <2>1, <2>3
  <1> HIDE DEF i
  <1>8. ObType(Back(i, a))
    BY <1>1, <1>2, <1>7, BackType
  <1>9. ObjectsType(SubSeq(live, 1, n - 1)) /\ Len(SubSeq(live, 1, n - 1)) = n - 1
    BY <1>1, <1>2, Older
  <1>10. ob' = Back(i, a) /\ live' = SubSeq(live, 1, n - 1)
    BY DEF FreeAstray, Freed, i, a
  <1>11. n - 1 <= MaxObjects
    BY <1>1, <1>2, SizeAssumption
  <1> QED BY <1>8, <1>9, <1>10, <1>11

LEMMA AppendLen ==
    ASSUME NEW S, NEW s \in Seq(S), NEW e
    PROVE  /\ Len(Append(s, e)) = Len(s) + 1
  OBVIOUS

\* No step gives the client more than MaxObjects objects.
LEMMA StepBounded ==
    ASSUME TypeOK, status = "ok", Next
    PROVE  Len(live') <= MaxObjects /\ status' \in {"ok", "astray", "aborted"}
  <1>1. live \in Seq([at : Nat, size : Nat]) /\ Len(live) \in Nat /\ Len(live) <= MaxObjects
        /\ MaxObjects \in Nat
    BY SizeAssumption DEF TypeOK
  <1>2. ASSUME live' = live \/ live' = <<>> PROVE Len(live') <= MaxObjects
    BY <1>1, <1>2
  <1>3. ASSUME Len(live) < MaxObjects, NEW x, live' = Append(live, x) PROVE Len(live') <= MaxObjects
    BY <1>1, <1>3, AppendLen
  <1>4. ASSUME NEW n \in DOMAIN live, live' = SubSeq(live, 1, n - 1) PROVE Len(live') <= MaxObjects
    <2>1. n \in 1..Len(live) /\ n - 1 \in 0..Len(live)
      BY <1>1
    <2>2. Len(live') = n - 1
      BY <1>1, <1>4, <2>1, PrefixProps
    <2> QED BY <1>1, <2>1, <2>2
  <1>5. CASE Clear \/ Renew
    BY <1>2, <1>5 DEF Clear, Renew
  <1>6. CASE \E n \in Size : MakeRoom(n) \/ Grow(n)
    BY <1>2, <1>6 DEF MakeRoom, Grow
  <1>7. CASE Finish \/ \E n \in Size : Alloc(n)
    BY <1>3, <1>7 DEF Finish, Alloc
  <1>8. CASE \E n \in DOMAIN live : Free(n) \/ FreeAstray(n)
    BY <1>4, <1>8 DEF Free, FreeAstray, Freed
  <1>9. CASE \E n \in DOMAIN live : FreeAborts(n)
    BY <1>2, <1>9 DEF FreeAborts
  <1> QED BY <1>5, <1>6, <1>7, <1>8, <1>9
          DEF Next, Clear, Renew, MakeRoom, Grow, Finish, Alloc, Free, FreeAstray, FreeAborts

LEMMA NextInv == IInv /\ [Next]_vars => IInv'
  <1> SUFFICES ASSUME IInv, [Next]_vars PROVE IInv'
    OBVIOUS
  <1>1. CASE UNCHANGED vars
    BY <1>1 DEF vars, IInv, TypeOK, Housed, ObType, ObjectsType, Growing, Depth, ChunkAt, Start,
                Homes, Within, Stacked, Below, Filled, Told, Used, First
  <1>2. CASE Next
    <2>1. status = "ok" /\ TypeOK /\ Housed(ob, live)
      BY <1>2 DEF Next, IInv
    <2>2. Len(live') <= MaxObjects /\ status' \in {"ok", "astray", "aborted"}
      BY <1>2, <2>1, StepBounded
    <2>3. CASE status' = "ok"
      <3>1. Housed(ob', live')
        BY <1>2, <2>1, <2>3, StepHoused
      <3> QED BY <2>2, <3>1 DEF IInv, TypeOK, Housed, ObType, ObjectsType
    <2>4. CASE status' # "ok"
      <3>1. ObType(ob') /\ ObjectsType(live')
        <4>1. PICK n \in DOMAIN live : FreeAstray(n) \/ FreeAborts(n)
          BY <1>2, <2>1, <2>4 DEF Next, MakeRoom, Grow, Alloc, Finish, Clear, Renew, Free
        <4>2. CASE FreeAstray(n)
          BY <2>1, <4>2, AstrayTyped
        <4>3. CASE FreeAborts(n)
          BY <2>1, <4>3 DEF FreeAborts, Housed
        <4> QED BY <4>1, <4>2, <4>3
      <3> QED BY <2>2, <2>4, <3>1 DEF IInv, TypeOK, ObType, ObjectsType
    <2> QED BY <2>3, <2>4
  <1> QED BY <1>1, <1>2

-----------------------------------------------------------------------------
(* The theorems. *)

\* The invariant holds of every reachable state: whatever is grown, moved, finished
\* and freed, an obstack that did not go wrong has a chunk for each object.
THEOREM InvTheorem == Spec => []IInv
  <1> QED BY InitInv, NextInv, PTL DEF Spec


\* The growing object stays within the newest chunk, aligned and above every finished
\* object there, whatever make_rome, finish and free did before.
THEOREM GrowsInsideTheorem == Spec => []GrowsInside
  <1>1. IInv => GrowsInside
    <2> SUFFICES ASSUME IInv, status = "ok"
                 PROVE  /\ First(ob.chunks, 1) <= ob.base /\ ob.base <= ob.next /\ ob.next <= ob.limit
                        /\ ob.base % Align = 0
                        /\ \A n \in DOMAIN live :
                             From[Head(ob.chunks)] <= live[n].at /\ live[n].at < ob.limit
                                => live[n].at + live[n].size <= ob.base
      BY DEF IInv, GrowsInside
    <2> DEFINE D == Depth(ob)
    <2>1. ObType(ob) /\ ObjectsType(live) /\ Growing(ob)
      BY DEF IInv, Housed
    <2>2. PICK home \in [1..Len(live) -> 1..D] : Homes(ob, live, home)
      BY DEF IInv, Housed
    <2>3. D \in 1..D
      BY <2>1 DEF ObType, Depth
    <2>4. /\ Start(ob, D) = First(ob.chunks, 1) /\ Start(ob, D) \in Nat
          /\ ChunkAt(ob, D) = Head(ob.chunks) /\ To[ChunkAt(ob, D)] = ob.limit
          /\ From[ChunkAt(ob, D)] \in Nat /\ From[ChunkAt(ob, D)] <= Start(ob, D)
      <3>1. D \in Nat /\ D + 1 - D = 1
        BY <2>1, <2>3 DEF ObType, Depth
      <3>2. Head(ob.chunks) = ob.chunks[1]
        BY <2>1 DEF ObType
      <3> QED BY <2>1, <2>3, <3>1, <3>2, ChunkType DEF Start, ChunkAt
    <2>5. ASSUME NEW n \in DOMAIN live, From[Head(ob.chunks)] <= live[n].at, live[n].at < ob.limit
          PROVE  live[n].at + live[n].size <= ob.base
      <3>1. n \in 1..Len(live) /\ live[n].at \in Nat /\ live[n].size \in Nat /\ home[n] \in 1..D
        BY <2>1, <2>2, ObjectType
      <3>2. CASE home[n] = D
        BY <2>2, <3>1, <3>2 DEF Homes, Below
      <3>3. CASE home[n] # D
        <4>1. /\ Start(ob, home[n]) <= live[n].at
              /\ live[n].at + live[n].size <= To[ChunkAt(ob, home[n])]
          BY <2>2, <3>1 DEF Homes, Within
        <4>2. /\ From[ChunkAt(ob, home[n])] \in Nat /\ To[ChunkAt(ob, home[n])] \in Nat
              /\ Start(ob, home[n]) \in Nat
              /\ From[ChunkAt(ob, home[n])] <= Start(ob, home[n])
          BY <2>1, <3>1, ChunkType
        <4>3. \/ To[ChunkAt(ob, home[n])] <= From[ChunkAt(ob, D)]
              \/ ob.limit <= From[ChunkAt(ob, home[n])]
          BY <2>1, <2>3, <2>4, <3>1, <3>3, ChunksApart
        <4>4. ob.base \in Nat /\ ob.limit \in Nat /\ Start(ob, D) <= ob.base
          BY <2>1 DEF ObType, Growing
        <4>5. CASE To[ChunkAt(ob, home[n])] <= From[ChunkAt(ob, D)]
          BY <2>4, <3>1, <4>1, <4>2, <4>4, <4>5
        <4>6. CASE ob.limit <= From[ChunkAt(ob, home[n])]
          BY <2>5, <3>1, <4>1, <4>2, <4>4, <4>6
        <4> QED BY <4>3, <4>5, <4>6
      <3> QED BY <3>2, <3>3
    <2>6. First(ob.chunks, 1) <= ob.base /\ ob.base <= ob.next /\ ob.next <= ob.limit
          /\ ob.base % Align = 0
      BY <2>1, <2>4 DEF Growing
    <2> QED BY <2>5, <2>6
  <1> QED BY <1>1, InvTheorem, PTL

\* newchunk frees no chunk that an object of the client is in, although it only knows
\* by _object_base and _maybe_empty_object whether there is one.
THEOREM ObjectsHeldTheorem == Spec => []ObjectsHeld
  <1>1. IInv => ObjectsHeld
    <2> SUFFICES ASSUME IInv, status = "ok", NEW n \in DOMAIN live
                 PROVE  \E i \in DOMAIN ob.chunks :
                            /\ First(ob.chunks, i) <= live[n].at
                            /\ live[n].at + live[n].size <= To[ob.chunks[i]]
      BY DEF ObjectsHeld
    <2>1. ObType(ob) /\ ObjectsType(live)
      BY DEF IInv, Housed
    <2>2. PICK home \in [1..Len(live) -> 1..Depth(ob)] : Homes(ob, live, home)
      BY DEF IInv, Housed
    <2>3. n \in 1..Len(live)
      BY <2>1, ObjectType
    <2> DEFINE i == Depth(ob) + 1 - home[n]
    <2>4. home[n] \in 1..Depth(ob) /\ i \in DOMAIN ob.chunks
      <3>1. home[n] \in 1..Depth(ob)
        BY <2>2, <2>3
      <3>2. Depth(ob) \in Nat /\ DOMAIN ob.chunks = 1..Depth(ob)
        BY <2>1, LenProperties DEF ObType, Depth
      <3> QED BY <3>1, <3>2
    <2>5. First(ob.chunks, i) = Start(ob, home[n]) /\ ob.chunks[i] = ChunkAt(ob, home[n])
      BY DEF Start, ChunkAt
    <2> HIDE DEF i
    <2>6. /\ Start(ob, home[n]) <= live[n].at
          /\ live[n].at + live[n].size <= To[ChunkAt(ob, home[n])]
      BY <2>2, <2>3 DEF Homes, Within
    <2> QED BY <2>4, <2>5, <2>6
  <1> QED BY <1>1, InvTheorem, PTL

\* No chunk is kept, save the first and the newest, that no object is in.
THEOREM ChunksUsedTheorem == Spec => []ChunksUsed
  <1>1. IInv => ChunksUsed
    <2> SUFFICES ASSUME IInv, status = "ok", NEW i \in 2..Len(ob.chunks) - 1
                 PROVE  \E n \in DOMAIN live :
                            /\ From[ob.chunks[i]] <= live[n].at
                            /\ live[n].at <= To[ob.chunks[i]]
      BY DEF ChunksUsed
    <2>1. ObType(ob) /\ ObjectsType(live)
      BY DEF IInv, Housed
    <2>2. PICK home \in [1..Len(live) -> 1..Depth(ob)] : Homes(ob, live, home)
      BY DEF IInv, Housed
    <2> DEFINE d == Depth(ob) + 1 - i
    <2>3. Depth(ob) = Len(ob.chunks) /\ Depth(ob) \in Nat
      BY <2>1 DEF ObType, Depth
    <2>4. d \in 1..Depth(ob) /\ d \in 2..Depth(ob) - 1 /\ i \in 1..Depth(ob)
      BY <2>3
    <2>5. ob.chunks[i] = ChunkAt(ob, d)
      BY <2>1, <2>4, AtIndex
    <2> HIDE DEF d
    <2>6. PICK n \in 1..Len(live) : home[n] = d
      BY <2>2, <2>4 DEF Homes, Used
    <2>7. n \in DOMAIN live /\ live[n].at \in Nat /\ live[n].size \in Nat
      BY <2>1, ObjectType
    <2>8. Start(ob, d) <= live[n].at /\ live[n].at + live[n].size <= To[ChunkAt(ob, d)]
      BY <2>2, <2>6 DEF Homes, Within
    <2>9. /\ From[ChunkAt(ob, d)] \in Nat /\ To[ChunkAt(ob, d)] \in Nat
          /\ Start(ob, d) \in Nat /\ From[ChunkAt(ob, d)] <= Start(ob, d)
      BY <2>1, <2>4, ChunkType
    <2>10. From[ChunkAt(ob, d)] <= live[n].at /\ live[n].at <= To[ChunkAt(ob, d)]
      BY <2>7, <2>8, <2>9
    <2> QED BY <2>5, <2>7, <2>10
  <1> QED BY <1>1, InvTheorem, PTL

-----------------------------------------------------------------------------
(* The refinement. *)

LEMMA CellIn ==
    ASSUME NEW at \in Nat, NEW size \in Nat, NEW lo \in Nat, NEW hi \in Nat,
           lo <= at, at + size <= hi, NEW c \in at .. at + size - 1
    PROVE  c \in Int /\ lo <= c /\ c < hi
  OBVIOUS

\* Objects are in the chunks' memory, and no two of them overlap.
LEMMA CellsHeld ==
    ASSUME NEW o, NEW objs, Housed(o, objs)
    PROVE  /\ \A n \in 1..Len(objs) :
                Stack!Cells(objs[n]) \subseteq UNION {From[p]..To[p] - 1 : p \in ToSet(o.chunks)}
           /\ \A m, n \in 1..Len(objs) : m < n =>
                Stack!Cells(objs[m]) \cap Stack!Cells(objs[n]) = {}
  <1>1. ObType(o) /\ ObjectsType(objs)
    BY DEF Housed
  <1>2. PICK home \in [1..Len(objs) -> 1..Depth(o)] : Homes(o, objs, home)
    BY DEF Housed
  <1>3. ASSUME NEW n \in 1..Len(objs)
        PROVE  /\ objs[n].at \in Nat /\ objs[n].size \in Nat /\ home[n] \in 1..Depth(o)
               /\ From[ChunkAt(o, home[n])] \in Nat /\ To[ChunkAt(o, home[n])] \in Nat
               /\ From[ChunkAt(o, home[n])] <= objs[n].at
               /\ objs[n].at + objs[n].size <= To[ChunkAt(o, home[n])]
    <2>1. objs[n].at \in Nat /\ objs[n].size \in Nat /\ home[n] \in 1..Depth(o)
      BY <1>1, <1>2, ObjectType
    <2>2. /\ From[ChunkAt(o, home[n])] \in Nat /\ To[ChunkAt(o, home[n])] \in Nat
          /\ Start(o, home[n]) \in Nat /\ From[ChunkAt(o, home[n])] <= Start(o, home[n])
      BY <1>1, <2>1, ChunkType
    <2>3. /\ Start(o, home[n]) <= objs[n].at
          /\ objs[n].at + objs[n].size <= To[ChunkAt(o, home[n])]
      BY <1>2 DEF Homes, Within
    <2> QED BY <2>1, <2>2, <2>3
  <1>4. ASSUME NEW n \in 1..Len(objs), NEW c \in Stack!Cells(objs[n])
        PROVE  c \in UNION {From[p]..To[p] - 1 : p \in ToSet(o.chunks)}
    <2> DEFINE p == ChunkAt(o, home[n])
    <2>1. p \in ToSet(o.chunks)
      <3>1. o.chunks \in Seq(Page) /\ Depth(o) = Len(o.chunks) /\ Depth(o) \in Nat
        BY <1>1 DEF ObType, Depth
      <3>2. Depth(o) + 1 - home[n] \in 1..Len(o.chunks)
        BY <1>3, <3>1
      <3> QED BY <3>1, <3>2, SetOfSeq DEF ChunkAt
    <2> HIDE DEF p
    <2>2. c \in From[p]..To[p] - 1
      <3>1. /\ objs[n].at \in Nat /\ objs[n].size \in Nat /\ From[p] \in Nat /\ To[p] \in Nat
            /\ From[p] <= objs[n].at /\ objs[n].at + objs[n].size <= To[p]
        BY <1>3 DEF p
      <3>2. c \in objs[n].at .. objs[n].at + objs[n].size - 1
        BY DEF Stack!Cells
      <3> QED BY <3>1, <3>2
    <2> QED BY <2>1, <2>2
  <1>5. ASSUME NEW m \in 1..Len(objs), NEW n \in 1..Len(objs), m < n,
               NEW c \in Stack!Cells(objs[m]), c \in Stack!Cells(objs[n])
        PROVE  FALSE
    <2>1. /\ c \in objs[m].at .. objs[m].at + objs[m].size - 1
          /\ c \in objs[n].at .. objs[n].at + objs[n].size - 1
      BY <1>5 DEF Stack!Cells
    <2>2. CASE home[m] = home[n]
      <3>1. objs[m].at + objs[m].size <= objs[n].at
        BY <1>2, <1>5, <2>2 DEF Homes, Stacked
      <3>2. objs[m].at \in Nat /\ objs[m].size \in Nat /\ objs[n].at \in Nat /\ objs[n].size \in Nat
        BY <1>3
      <3> QED BY <2>1, <3>1, <3>2
    <2>3. CASE home[m] # home[n]
      <3> DEFINE p == ChunkAt(o, home[m])  q == ChunkAt(o, home[n])
      <3>1. home[m] \in 1..Depth(o) /\ home[n] \in 1..Depth(o)
        BY <1>3
      <3>2. To[p] <= From[q] \/ To[q] <= From[p]
        BY <1>1, <2>3, <3>1, ChunksApart
      <3>3. /\ objs[m].at \in Nat /\ objs[m].size \in Nat /\ From[p] \in Nat /\ To[p] \in Nat
            /\ From[p] <= objs[m].at /\ objs[m].at + objs[m].size <= To[p]
        BY <1>3
      <3>4. /\ objs[n].at \in Nat /\ objs[n].size \in Nat /\ From[q] \in Nat /\ To[q] \in Nat
            /\ From[q] <= objs[n].at /\ objs[n].at + objs[n].size <= To[q]
        BY <1>3
      <3> HIDE DEF p, q
      <3>5. c \in Int /\ From[p] <= c /\ c < To[p]
        BY <2>1, <3>3, CellIn
      <3>6. c \in Int /\ From[q] <= c /\ c < To[q]
        BY <2>1, <3>4, CellIn
      <3> QED BY <3>2, <3>3, <3>4, <3>5, <3>6
    <2> QED BY <2>2, <2>3
  <1> QED BY <1>4, <1>5

LEMMA AppendPrefix ==
    ASSUME NEW S, NEW s \in Seq(S), NEW x, Append(s, x) \in Seq(S)
    PROVE  s = SubSeq(Append(s, x), 1, Len(s))
  <1> DEFINE r == Append(s, x)  t == SubSeq(r, 1, Len(s))
  <1>1. /\ Len(s) \in Nat /\ Len(r) = Len(s) + 1
        /\ \A i \in 1..Len(s) : r[i] = s[i]
    BY LenProperties
  <1>2. Len(s) \in 0..Len(r)
    BY <1>1
  <1> HIDE DEF r
  <1>3. r \in Seq(S)
    BY DEF r
  <1>4. t \in Seq(S) /\ Len(t) = Len(s) /\ \A i \in 1..Len(s) : t[i] = r[i]
    BY <1>2, <1>3, PrefixProps
  <1> HIDE DEF t
  <1>5. s = t
    BY <1>1, <1>4, SeqEqual
  <1> QED BY <1>5 DEF t, r

LEMMA InitStack == Init => Stack!Init
  BY DEF Init, Stack!Init, promised

\* A new object is one more, and overlaps none of the others.
LEMMA PushStack ==
    ASSUME IInv, IInv', status = "ok", status' = "ok", NEW x, live' = Append(live, x)
    PROVE  Stack!Push
  <1>1. live \in Seq([at : Nat, size : Nat]) /\ Len(live) \in Nat /\ DOMAIN live = 1..Len(live)
    BY DEF IInv, TypeOK
  <1>2. live' \in Seq([at : Nat, size : Nat])
    BY DEF IInv, TypeOK
  <1>3. /\ Len(live') = Len(live) + 1
        /\ \A i \in 1..Len(live) : live'[i] = live[i]
    BY <1>1
  <1>4. live = SubSeq(live', 1, Len(live))
    BY <1>1, <1>2, AppendPrefix
  <1>5. Housed(ob', live')
    BY DEF IInv, Housed, ObType, ObjectsType, Growing, Depth, ChunkAt, Start,
           Homes, Within, Stacked, Below, Filled, Told, Used, First
  <1>6. ASSUME NEW i \in 1..Len(live)
        PROVE  Stack!Cells(live[i]) \cap Stack!Cells(live'[Len(live')]) = {}
    <2>1. i \in 1..Len(live') /\ Len(live') \in 1..Len(live') /\ i < Len(live')
      BY <1>1, <1>3
    <2> DEFINE next == live'
    <2>2. \A m, n \in 1..Len(next) : m < n =>
                Stack!Cells(next[m]) \cap Stack!Cells(next[n]) = {}
      <3>1. ASSUME NEW o, NEW objs, Housed(o, objs)
            PROVE  \A m, n \in 1..Len(objs) : m < n =>
                      Stack!Cells(objs[m]) \cap Stack!Cells(objs[n]) = {}
        BY <3>1, CellsHeld
      <3> HIDE DEF next
      <3> QED BY <1>5, <3>1 DEF next
    <2> QED BY <1>3, <2>1, <2>2
  <1>7. promised = live /\ promised' = live'
    BY DEF promised
  <1> QED BY <1>1, <1>3, <1>4, <1>6, <1>7 DEF Stack!Push

\* The objects that stay are the oldest ones, and in owned memory.
LEMMA PopStack ==
    ASSUME IInv, IInv', NEW n \in 0..Len(promised), promised' = SubSeq(promised, 1, n)
    PROVE  Stack!Pop
  BY DEF Stack!Pop

\* Where objects are in the next state, too.
LEMMA OwnedNext ==
    ASSUME IInv'
    PROVE  \A i \in DOMAIN promised' : Stack!Cells(promised'[i]) \subseteq owned'
  <1>1. CASE status' = "ok"
    <2>1. Housed(ob', live')
      <3>1. (status = "ok" => Housed(ob, live))'
        BY DEF IInv
      <3> QED BY <1>1, <3>1 DEF Housed, ObType, ObjectsType, Growing, Depth, ChunkAt, Start,
           Homes, Within, Stacked, Below, Filled, Told, Used, First
    <2>2. ASSUME NEW o, NEW objs, Housed(o, objs)
          PROVE  \A n \in DOMAIN objs : Stack!Cells(objs[n]) \subseteq UNION {From[p]..To[p] - 1 : p \in ToSet(o.chunks)}
      <3>1. DOMAIN objs = 1..Len(objs)
        BY <2>2, ObjectType DEF Housed
      <3> QED BY <2>2, <3>1, CellsHeld
    <2>3. \A n \in DOMAIN live' : Stack!Cells(live'[n]) \subseteq UNION {From[p]..To[p] - 1 : p \in ToSet(ob'.chunks)}
      BY <2>1, <2>2
    <2> QED BY <1>1, <2>3 DEF promised, owned, ToSet
  <1>2. CASE status' # "ok"
    BY <1>2 DEF promised
  <1> QED BY <1>1, <1>2

\* Every step adds an object, takes the youngest away, or, when it goes wrong, all.
LEMMA NextStack == IInv /\ IInv' /\ [Next]_vars => [Stack!Next]_(Stack!vars)
  <1> SUFFICES ASSUME IInv, IInv', [Next]_vars PROVE [Stack!Next]_(Stack!vars)
    OBVIOUS
  <1>1. CASE UNCHANGED vars
    BY <1>1 DEF vars, Stack!vars, promised, owned, ToSet
  <1>2. CASE Next
    <2>1. status = "ok" /\ promised = live /\ promised' = IF status' = "ok" THEN live' ELSE <<>>
      BY <1>2 DEF Next, promised
    <2>2. /\ live \in Seq([at : Nat, size : Nat]) /\ Len(live) \in Nat /\ DOMAIN live = 1..Len(live)
      BY DEF IInv, TypeOK
    <2>3. live = SubSeq(live, 1, Len(live)) /\ <<>> = SubSeq(live, 1, 0)
      BY <2>2, SubSeqFull, SubSeqEmpty
    <2>4. ASSUME status' = "ok", live' = live PROVE Stack!Pop
      <3>1. promised' = SubSeq(promised, 1, Len(live)) /\ Len(live) \in 0..Len(promised)
        BY <2>1, <2>2, <2>3, <2>4
      <3> QED BY <3>1, PopStack
    <2>5. ASSUME promised' = <<>> PROVE Stack!Pop
      <3>1. 0 \in 0..Len(promised)
        BY <2>1, <2>2
      <3>2. SubSeq(promised, 1, 0) = <<>>
        BY <2>1, <2>3
      <3> QED BY <2>5, <3>1, <3>2, PopStack
    <2>6. ASSUME status' = "ok", NEW x, live' = Append(live, x) PROVE Stack!Push
      BY <2>1, <2>6, PushStack
    <2>7. ASSUME NEW n \in DOMAIN live, Free(n) PROVE Stack!Pop
      <3>1. status' = "ok" /\ live' = SubSeq(live, 1, n - 1)
        BY <2>1, <2>7 DEF Free, Freed
      <3>2. promised' = SubSeq(promised, 1, n - 1) /\ n - 1 \in 0..Len(promised)
        BY <2>1, <2>2, <3>1
      <3> QED BY <3>2, PopStack
    <2>8. ASSUME Clear \/ Renew PROVE Stack!Push \/ Stack!Pop
      BY <2>1, <2>5, <2>8 DEF Clear, Renew
    <2>9. ASSUME \E n \in Size : MakeRoom(n) \/ Grow(n) PROVE Stack!Push \/ Stack!Pop
      BY <2>1, <2>4, <2>9 DEF MakeRoom, Grow
    <2>10. ASSUME Finish \/ \E n \in Size : Alloc(n) PROVE Stack!Push \/ Stack!Pop
      BY <2>1, <2>6, <2>10 DEF Finish, Alloc
    <2>11. ASSUME NEW n \in DOMAIN live, FreeAstray(n) \/ FreeAborts(n) PROVE Stack!Pop
      <3>1. promised' = <<>>
        BY <2>1, <2>11 DEF FreeAstray, FreeAborts
      <3> QED BY <2>5, <3>1
    <2>12. Stack!Push \/ Stack!Pop
      BY <1>2, <2>7, <2>8, <2>9, <2>10, <2>11 DEF Next
    <2> QED BY <2>12, OwnedNext DEF Stack!Next
  <1> QED BY <1>1, <1>2

\* The obstack implements ObjectStack: finished objects lie in owned memory without
\* overlapping, and stay where they are until they or older ones are freed.
THEOREM RefinementTheorem == Spec => StackSpec
  <1>1. Init => Stack!Init
    BY InitStack
  <1>2. IInv /\ IInv' /\ [Next]_vars => [Stack!Next]_(Stack!vars)
    BY NextStack
  <1> QED BY <1>1, <1>2, InvTheorem, PTL DEF Spec, StackSpec, Stack!Spec
=============================================================================
