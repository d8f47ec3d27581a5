---------------------------- MODULE PageAllocator ----------------------------
(***************************************************************************)
(* page_allocator (src/libll++/page.h, page.cpp): a buddy allocator.       *)
(*                                                                         *)
(* Memory comes in chunks of page_max_size bytes.  A chunk being split is  *)
(* described by an area: one page_node per page_min_size bytes, whose      *)
(* _order is k when the node heads a free block of order k and 0 otherwise.*)
(* _freetab[k] lists the free blocks of order k, _freetab[0] the free      *)
(* chunks, _areas the areas that describe no chunk.                        *)
(*                                                                         *)
(* A free list is a set here: pop_front takes some element of it, so every *)
(* order the list can be in is covered.  Request sizes are in system pages *)
(* (the unit alloc works in after ll_align), node and block sizes in       *)
(* page_nodes.                                                             *)
(***************************************************************************)
EXTENDS BitOrder, FiniteSets

CONSTANTS
    Page,           \* page descriptors clients can hold at once (bound)
    Area,           \* areas ialloc can provide (bound)
    Chunk,          \* chunks the segments can provide (bound)
    None,           \* no descriptor, no chunk
    MinOrder,       \* min_order
    MaxOrder,       \* max_order
    Span,           \* Span[k] = 1 << (k - min_order), the nodes of a block
    Pages,          \* Pages[k] = 1 << k, the system pages of a block
    PageBytes,      \* bytes of a system page
    Requests        \* the sizes asked for, in system pages

Orders == MinOrder..MaxOrder

ASSUME OrderAssumption ==
    /\ MinOrder \in Nat \ {0} /\ MaxOrder \in Nat /\ MinOrder < MaxOrder
    /\ MaxOrder <= 8   \* half of a page_max_size is looked up in ordertab
    /\ PageBytes \in Nat /\ PageBytes > MaxOrder /\ Requests \subseteq Nat

\* The powers of two, and those from min_order on.
ASSUME PagesAssumption ==
    /\ Pages \in [0..MaxOrder -> Nat]
    /\ Pages[0] = 1
    /\ \A j \in 0..(MaxOrder - 1) : Pages[j + 1] = 2 * Pages[j]

ASSUME SpanAssumption ==
    /\ Span \in [Orders -> Nat \ {0}]
    /\ Span[MinOrder] = 1
    /\ \A j \in MinOrder..(MaxOrder - 1) : Span[j + 1] = 2 * Span[j]

ASSUME NoneAssumption == None \notin Chunk /\ None \notin Area

VARIABLES
    order,          \* order[a][n]: _order of node n of area a
    base,           \* base[a]: the chunk area a describes
    freetab,        \* _freetab[min_order .. max_order - 1]
    freechunks,     \* _freetab[0]
    areas,          \* _areas
    carved,         \* chunks ever cut from a segment
    pg              \* the page descriptors, NoPage when no client holds it

vars == <<order, base, freetab, freechunks, areas, carved, pg>>

Lists == MinOrder..(MaxOrder - 1)
Node == 0..(Span[MaxOrder] - 1)
NoPage == [order_size |-> 0, base |-> None]

Init ==
    /\ order = [a \in Area |-> [n \in Node |-> 0]]
    /\ base = [a \in Area |-> None]
    /\ freetab = [k \in Lists |-> {}]
    /\ freechunks = {} /\ areas = {} /\ carved = {}
    /\ pg = [p \in Page |-> NoPage]

-----------------------------------------------------------------------------
(* Block geometry. *)

\* The node that heads the block of order k around n.
BlockHead(n, k) == n - (n % Span[k])

\* node->_index ^ (1 << (order - min_order)), for the head of a block.
Buddy(n, k) == IF (n \div Span[k]) % 2 = 0 THEN n + Span[k] ELSE n - Span[k]

\* Mutant of Half: the buddy is taken before offset is halved.
HalfBeforeShift(n, j) == n + 2 * Span[j]

\* Where the split loop cuts off the half of order j: node + offset.
Half(n, j) == n + Span[j]

Block(n, k) == n..(n + Span[k] - 1)

\* The order alloc looks up for a size, in system pages.
OrderFor(size) == IF ordertab[size] < MinOrder THEN MinOrder ELSE ordertab[size]

-----------------------------------------------------------------------------
(* alloc(size) *)

\* Mutant of ChunkAlloc: the chunk is read from the list and not popped.
ChunkNotPopped(c) ==
    \/ c \in freechunks /\ UNCHANGED <<freechunks, carved>>
    \/ /\ freechunks = {} /\ c \notin carved
       /\ carved' = carved \cup {c}
       /\ UNCHANGED freechunks

\* chunk_alloc: a free chunk, or else a new one cut from the chunk segment.
ChunkAlloc(c) ==
    \/ /\ c \in freechunks
       /\ freechunks' = freechunks \ {c}
       /\ UNCHANGED carved
    \/ /\ freechunks = {} /\ c \notin carved
       /\ carved' = carved \cup {c}
       /\ UNCHANGED freechunks

\* Mutant of AreaAlloc: the area stays on the list of unused areas.
AreaNotPopped(a, c) ==
    /\ a \in areas \/ (areas = {} /\ base[a] = None)
    /\ base' = [base EXCEPT ![a] = c]
    /\ UNCHANGED areas

\* area_alloc: a recycled area, or else a new one (whose nodes are all 0).
AreaAlloc(a, c) ==
    /\ \/ a \in areas
       \/ areas = {} /\ base[a] = None
    /\ areas' = areas \ {a}
    /\ base' = [base EXCEPT ![a] = c]

\* A block of order norder headed by n gives its first 1 << k pages to p; the
\* halves cut off on the way down go to the lists of their orders.
Split(p, a, n, norder, k) ==
    /\ order' = [order EXCEPT ![a] = [x \in Node |->
                    IF x = n THEN 0
                    ELSE IF \E j \in k..(norder - 1) : x = Half(n, j)
                    THEN CHOOSE j \in k..(norder - 1) : x = Half(n, j)
                    ELSE order[a][x]]]
    /\ freetab' = [j \in Lists |->
                    IF j = norder THEN freetab[j] \ {<<a, n>>}
                    ELSE IF j \in k..(norder - 1) THEN freetab[j] \cup {<<a, Half(n, j)>>}
                    ELSE freetab[j]]
    /\ pg' = [pg EXCEPT ![p] = [order_size |-> k, base |-> <<a, n>>]]

\* size <= page_max_size / 2, and a list of order k or more has a block: the
\* first such list is used.
AllocFromList(p, size) ==
    /\ pg[p] = NoPage
    /\ size <= Pages[MaxOrder - 1]
    /\ \E norder \in OrderFor(size)..(MaxOrder - 1) :
        /\ \A j \in OrderFor(size)..(norder - 1) : freetab[j] = {}
        /\ \E a \in Area, n \in Node :
            /\ <<a, n>> \in freetab[norder]
            /\ Split(p, a, n, norder, OrderFor(size))
    /\ UNCHANGED <<base, freechunks, areas, carved>>

\* size <= page_max_size / 2, and no list has a block: a chunk is split.
AllocFromChunk(p, size) ==
    /\ pg[p] = NoPage
    /\ size <= Pages[MaxOrder - 1]
    /\ \A j \in OrderFor(size)..(MaxOrder - 1) : freetab[j] = {}
    /\ \E a \in Area, c \in Chunk :
        /\ ChunkAlloc(c)
        /\ AreaAlloc(a, c)
        /\ Split(p, a, 0, MaxOrder, OrderFor(size))

\* size = page_max_size.
AllocChunk(p, size) ==
    /\ pg[p] = NoPage
    /\ size = Pages[MaxOrder]
    /\ \E c \in Chunk :
        /\ ChunkAlloc(c)
        /\ pg' = [pg EXCEPT ![p] = [order_size |-> MaxOrder, base |-> c]]
    /\ UNCHANGED <<order, base, freetab, areas>>

\* Any other size is mapped; order_size keeps its bytes.
AllocMapped(p, size) ==
    /\ pg[p] = NoPage
    /\ size > Pages[MaxOrder - 1] /\ size # Pages[MaxOrder]
    /\ pg' = [pg EXCEPT ![p] = [order_size |-> size * PageBytes, base |-> None]]
    /\ UNCHANGED <<order, base, freetab, freechunks, areas, carved>>

-----------------------------------------------------------------------------
(* free(pg) *)

\* Mutant of BuddyAt: the buddy of the node freed, not of the block it has grown to.
BuddyOfFreed(n, j) == Buddy(n, j)

\* The buddy the merge loop reads when it has grown the block of n to order j.
BuddyAt(n, j) == Buddy(BlockHead(n, j), j)

\* Mutants of BuddyFree: any tagged buddy is merged; the loop ends one order early.
BuddyTagged(a, n, j) == order[a][BuddyAt(n, j)] # 0
BuddyNotLarger(a, n, j) == order[a][BuddyAt(n, j)] \in 1..j
BuddyBelowLast(a, n, j) == j < MaxOrder - 1 /\ order[a][BuddyAt(n, j)] = j

\* order == buddy->_order
BuddyFree(a, n, j) == order[a][BuddyAt(n, j)] = j

\* The block of order k headed by n merges up to order m, taking each buddy
\* off its list.
Merge(a, n, k, m) ==
    /\ order' = [order EXCEPT ![a] = [x \in Node |->
                    IF x = BlockHead(n, m) THEN m
                    ELSE IF x = n \/ \E j \in k..(m - 1) : x = BuddyAt(n, j) THEN 0
                    ELSE order[a][x]]]
    /\ freetab' = [j \in Lists |->
                    IF j \in k..(m - 1) THEN freetab[j] \ {<<a, BuddyAt(n, j)>>}
                    ELSE IF j = m THEN freetab[j] \cup {<<a, BlockHead(n, m)>>}
                    ELSE freetab[j]]

\* order_size < max_order, and a buddy of order m is not free.
FreeToList(p) ==
    /\ pg[p].order_size \in Lists
    /\ LET a == pg[p].base[1]  n == pg[p].base[2]  k == pg[p].order_size
       IN \E m \in k..(MaxOrder - 1) :
            /\ \A j \in k..(m - 1) : BuddyFree(a, n, j)
            /\ ~BuddyFree(a, n, m)
            /\ Merge(a, n, k, m)
    /\ pg' = [pg EXCEPT ![p] = NoPage]
    /\ UNCHANGED <<base, freechunks, areas, carved>>

\* order_size < max_order, and every buddy is free: area_free returns the
\* chunk and the area.
FreeToArea(p) ==
    /\ pg[p].order_size \in Lists
    /\ LET a == pg[p].base[1]  n == pg[p].base[2]  k == pg[p].order_size
       IN /\ \A j \in k..(MaxOrder - 1) : BuddyFree(a, n, j)
          /\ Merge(a, n, k, MaxOrder)
          /\ freechunks' = freechunks \cup {base[a]}
          /\ areas' = areas \cup {a}
          /\ base' = [base EXCEPT ![a] = None]
    /\ pg' = [pg EXCEPT ![p] = NoPage]
    /\ UNCHANGED carved

\* order_size == max_order.
FreeChunk(p) ==
    /\ pg[p].order_size = MaxOrder
    /\ freechunks' = freechunks \cup {pg[p].base}
    /\ pg' = [pg EXCEPT ![p] = NoPage]
    /\ UNCHANGED <<order, base, freetab, areas, carved>>

\* order_size > max_order: munmap.
FreeMapped(p) ==
    /\ pg[p].order_size > MaxOrder
    /\ pg' = [pg EXCEPT ![p] = NoPage]
    /\ UNCHANGED <<order, base, freetab, freechunks, areas, carved>>

-----------------------------------------------------------------------------
Alloc(p, size) ==
    AllocFromList(p, size) \/ AllocFromChunk(p, size)
        \/ AllocChunk(p, size) \/ AllocMapped(p, size)

Free(p) == FreeToList(p) \/ FreeToArea(p) \/ FreeChunk(p) \/ FreeMapped(p)

Next == \E p \in Page : Free(p) \/ \E size \in Requests : Alloc(p, size)

Spec == Init /\ [][Next]_vars

-----------------------------------------------------------------------------
(* Properties. *)

TypeOK ==
    /\ order \in [Area -> [Node -> 0..MaxOrder]]
    /\ base \in [Area -> Chunk \cup {None}]
    /\ freetab \in [Lists -> SUBSET (Area \X Node)]
    /\ freechunks \subseteq Chunk /\ areas \subseteq Area /\ carved \subseteq Chunk
    /\ pg \in [Page -> [order_size : Nat, base : (Area \X Node) \cup Chunk \cup {None}]]
    /\ \A p \in Page :
        /\ pg[p].order_size \in Lists => pg[p].base \in Area \X Node
        /\ pg[p].order_size = MaxOrder => pg[p].base \in Chunk
        /\ pg[p].order_size < MinOrder => pg[p] = NoPage

-----------------------------------------------------------------------------
(* What the pages held and the free lists occupy. *)

Buddied(p) == pg[p].order_size \in Lists
Whole(p) == pg[p].order_size = MaxOrder
AreaOf(p) == pg[p].base[1]
NodeOf(p) == pg[p].base[2]

\* The cells of chunk memory a page owns: a cell is a node of a chunk.
Cells(p) ==
    IF Buddied(p) THEN {base[AreaOf(p)]} \X Block(NodeOf(p), pg[p].order_size)
    ELSE IF Whole(p) THEN {pg[p].base} \X Node
    ELSE {}

Live == [p \in Page |-> Cells(p)]

Store == INSTANCE PageStore WITH Cell <- Chunk \X Node, live <- Live

\* alloc and free implement PageStore: a page is handed out over memory no
\* held page covers, and free returns all of it and nothing else.
StoreSpec == Store!Spec

\* No byte of a chunk belongs to two pages held at once, whatever the split and
\* merge history of the chunk.
LiveDisjoint == \A p, q \in Page : p # q => Cells(p) \cap Cells(q) = {}

\* A node's _order is k exactly while the node is on the list of order k: free
\* trusts the tag of a buddy to unlink it from a list, and alloc trusts the list.
TagsMatchLists ==
    \A a \in Area, n \in Node, k \in Lists :
        order[a][n] = k <=> <<a, n>> \in freetab[k]

\* The free blocks and the held pages of a split chunk tile it: each node is in
\* exactly one of them, so nothing leaks and nothing is owned twice.
Tiling ==
    \A a \in Area, x \in Node : base[a] # None =>
        Cardinality({b \in Node \X Lists :
                        <<a, b[1]>> \in freetab[b[2]] /\ x \in Block(b[1], b[2])})
        + Cardinality({p \in Page :
                        Buddied(p) /\ AreaOf(p) = a
                            /\ x \in Block(NodeOf(p), pg[p].order_size)}) = 1

\* No two buddies of the same order are free: the merge loop of free never stops
\* early and alloc never leaves two halves that belong together.
Coalesced ==
    \A k \in Lists : \A x \in freetab[k] : <<x[1], Buddy(x[2], k)>> \notin freetab[k]

\* A chunk stays split only while some page of it is held: after the last free
\* the merge has rebuilt the whole chunk and area_free has returned it.
Reclaimed ==
    \A a \in Area : base[a] # None => \E p \in Page : Buddied(p) /\ AreaOf(p) = a

\* A chunk cut from the segments has exactly one owner: the free list, an area,
\* or a page of page_max_size; an area is recycled only when it describes none.
ChunkOwned ==
    /\ \A c \in carved :
        Cardinality({a \in Area : base[a] = c}) + Cardinality({p \in Page : Whole(p) /\ pg[p].base = c})
            + (IF c \in freechunks THEN 1 ELSE 0) = 1
    /\ \A a \in areas : base[a] = None
    /\ \A a \in Area : base[a] # None => base[a] \in carved

\* The inductive invariant behind LiveDisjoint: what the tags, the lists, the
\* areas and the held pages must agree on for every split and merge to be safe.
Apart(n, k, m, l) == n + Span[k] <= m \/ m + Span[l] <= n

\* Every block starts at a multiple of its size, in an area that has a chunk.
Placed ==
    /\ \A k \in Lists, a \in Area, n \in Node :
        <<a, n>> \in freetab[k] => base[a] # None /\ n % Span[k] = 0
    /\ \A p \in Page : Buddied(p) =>
        base[AreaOf(p)] # None /\ NodeOf(p) % Span[pg[p].order_size] = 0

\* No two blocks of an area overlap, free or held.
FreeApart ==
    \A k, l \in Lists, a \in Area, n, m \in Node :
        <<a, n>> \in freetab[k] /\ <<a, m>> \in freetab[l] /\ n # m => Apart(n, k, m, l)

FreeHeldApart ==
    \A k \in Lists, n \in Node, p \in Page :
        Buddied(p) /\ <<AreaOf(p), n>> \in freetab[k]
            => Apart(n, k, NodeOf(p), pg[p].order_size)

HeldApart ==
    \A p, q \in Page :
        Buddied(p) /\ Buddied(q) /\ p # q /\ AreaOf(p) = AreaOf(q)
            => Apart(NodeOf(p), pg[p].order_size, NodeOf(q), pg[q].order_size)

\* A chunk has one owner: _freetab[0], an area, or a page of a whole chunk.
Owners ==
    /\ freechunks \subseteq carved
    /\ \A a \in areas : base[a] = None
    /\ \A a, b \in Area : base[a] # None /\ base[a] = base[b] => a = b
    /\ \A a \in Area : base[a] # None => base[a] \in carved \ freechunks
    /\ \A p \in Page : Whole(p) =>
        /\ pg[p].base \in carved \ freechunks
        /\ \A a \in Area : base[a] # pg[p].base
        /\ \A q \in Page : Whole(q) /\ pg[q].base = pg[p].base => p = q

Inv ==
    /\ TypeOK /\ TagsMatchLists /\ Placed
    /\ FreeApart /\ FreeHeldApart /\ HeldApart /\ Owners

\* The bytes free takes a page to have, going by its order_size.
Extent(order_size) ==
    IF order_size \in Orders THEN Pages[order_size] * PageBytes ELSE order_size

\* The page alloc hands out holds the size asked for, and less than half of it is
\* wasted unless it is as small as pages get: what the entries of ordertab, the
\* bounds between the paths of alloc and the reading of order_size make together.
AllocFits ==
    [][\A p \in Page, size \in Requests :
        (pg[p] = NoPage /\ pg'[p] # NoPage /\ Alloc(p, size)) =>
            LET got == pg'[p].order_size IN
            /\ size * PageBytes <= Extent(got)
            /\ got # MinOrder => Extent(got) < 2 * (size * PageBytes)]_vars
=============================================================================
