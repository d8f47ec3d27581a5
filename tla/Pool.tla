-------------------------------- MODULE Pool --------------------------------
(***************************************************************************)
(* pool (src/libll++/pool.h, pool.cpp): memory handed out from the active  *)
(* page of a ring of pages, released all at once; pools below pools; and   *)
(* handlers that run when a pool is cleared or deleted.                    *)
(*                                                                         *)
(* A ring is the sequence of its pages from the active one on.  Sizes are  *)
(* in units of the alignment.                                              *)
(***************************************************************************)
EXTENDS Integers, Sequences, SequencesExt, FiniteSets, FiniteSetsExt

CONSTANTS
    Pool,           \* pools
    Handler,        \* destroy handlers (bound)
    None,           \* no pool, no string
    Page,           \* the pages of the page allocator (bound)
    Cap,            \* the size of each
    MinSize,        \* page_min_size
    Unit,           \* page_boundary_size
    Header,         \* sizeof(pool_impl), at the start of the first page
    Stub,           \* sizeof a stub, and of a closure
    MinString,      \* SPRINTF_MIN_STRINGSIZE
    Size,           \* sizes of objects
    Length,         \* of strings, with their final 0
    MaxUses         \* of _use_count (bound)

ASSUME SizeAssumption ==
    /\ Cap \in [Page -> Nat] /\ Size \subseteq Nat /\ Length \subseteq Nat \ {0}
    /\ {MinSize, Unit, Header, Stub, MinString, MaxUses} \subseteq Nat \ {0}
    /\ Header <= MinSize

\* A page in a ring, a pool that there is, and a vsprintf under way.
PageState == [page : Page, fill : Nat, index : Nat]
PoolState == [ring : Seq(PageState), self : Page, parent : Pool \cup {None},
              children : Seq(Pool), todo : Seq(Handler), uses : 0..MaxUses]
StringState == [pool : Pool, len : Nat, fresh : Seq(Page)]

ASSUME NoneAssumption == None \notin Pool \cup PoolState \cup StringState

VARIABLES
    pool,           \* the pools there are, None where there is none: the ring,
                    \* _self, _parent, _children, _destroylist and _use_count
    taken,          \* the pages the page allocator has given out
    stack,          \* the calls of clear and _delete, innermost first
    out             \* the vsprintf under way, with its new pages; or None

vars == <<pool, taken, stack, out>>

Alive == {p \in Pool : pool[p] # None}

-----------------------------------------------------------------------------
(* The ring. *)

Space(e) == Cap[e.page] - e.fill

\* index: the whole units that are free.
Units(n) == n \div Unit

\* page_allocator::alloc
Pages(n) == {pg \in Page \ taken : Cap[pg] >= n}

Empty(pg) == [page |-> pg, fill |-> 0, index |-> 0]

\* Mutant of Linked: the page that was active stays where it is.
LinkedUnsorted(new, ring) == <<[new EXCEPT !.index = 0]>> \o ring

\* Page new becomes the active one: it is put before the one that was, which then
\* moves behind the pages with more free space.
Linked(new, ring) ==
    LET first == [new EXCEPT !.index = 0]
        old == [ring[1] EXCEPT !.index = Units(Space(ring[1]))]
        others == Append(Tail(ring), first)
        k == Min({i \in DOMAIN others : others[i].index <= old.index})
    IN <<first>> \o InsertAt(Tail(ring), k, old)

\* active->next, which is the active page itself when it is alone.
NextOf(ring) == ring[IF Len(ring) = 1 THEN 1 ELSE 2]

\* The next page becomes the active one.
Rotated(ring) == Linked(ring[2], RemoveAt(ring, 2))

Filled(ring, n) == [ring EXCEPT ![1].fill = @ + n]

PagesOf(ring) == {ring[i].page : i \in DOMAIN ring}

\* What becomes of a ring by alloc(n).
Allocated(ring, n) ==
    IF n <= Space(ring[1]) THEN {Filled(ring, n)}
    ELSE IF n <= Space(NextOf(ring)) THEN {Filled(Rotated(ring), n)}
    ELSE {Filled(Linked(Empty(pg), ring), n) : pg \in Pages(n) \ PagesOf(ring)}

\* Pool p has this ring now, and the pages that are new in it.
Uses(p, ring) ==
    /\ pool' = [pool EXCEPT ![p].ring = ring]
    /\ taken' = taken \cup PagesOf(ring)

-----------------------------------------------------------------------------
(* Who may be called. *)

\* clear or _delete is between two calls of handlers.
InCall == stack # <<>> /\ ~Head(stack).calling

\* The client runs on its own, or in a handler.
ClientRuns == out = None /\ ~InCall

\* The pools of S and those above them are the least set that is closed upwards.
Closed(U) == \A q \in U \cap Alive : pool[q].parent \in U \cup {None}
Above(S) == {q \in Pool : \A U \in SUBSET Pool : S \subseteq U /\ Closed(U) => q \in U}

\* The client does not clear or delete a pool from a handler of that pool or of one
\* below it, and makes no pool in one that is being cleared or deleted.
BeingCleared == {stack[i].pool : i \in DOMAIN stack}
Clearable == Alive \ Above(BeingCleared)

Handlers(p) == IF p \in Alive THEN ToSet(pool[p].todo) ELSE {}
Unused == Handler \ UNION {Handlers(p) : p \in Pool}

-----------------------------------------------------------------------------
(* The operations. *)

Init ==
    /\ pool = [p \in Pool |-> None] /\ taken = {} /\ stack = <<>> /\ out = None

Fresh(pg, parent) ==
    [ring |-> <<[Empty(pg) EXCEPT !.fill = Header]>>, self |-> pg, parent |-> parent,
     children |-> <<>>, todo |-> <<>>, uses |-> 1]

\* _new, with a parent or without, and init
New(p) ==
    /\ ClientRuns /\ p \notin Alive
    /\ \E pg \in Pages(MinSize), q \in (Alive \ BeingCleared) \cup {None} :
        /\ pool' = [r \in Pool |->
                IF r = p THEN Fresh(pg, q)
                ELSE IF r = q THEN [pool[q] EXCEPT !.children = <<p>> \o @]
                ELSE pool[r]]
        /\ taken' = taken \cup {pg}
    /\ UNCHANGED <<stack, out>>

\* alloc, calloc and strdup
Alloc(p, n) ==
    /\ ClientRuns
    /\ \E ring \in Allocated(pool[p].ring, n) : Uses(p, ring)
    /\ UNCHANGED <<stack, out>>

\* Mutant of Queued: push_front.
QueuedFirst(todo, h) == <<h>> \o todo

Queued(todo, h) == Append(todo, h)

\* connect: a stub, a closure, and into the list.
Connect(p, h) ==
    /\ ClientRuns /\ h \in Unused
    /\ \E ring \in Allocated(pool[p].ring, Stub) : \E ring2 \in Allocated(ring, Stub) :
        /\ pool' = [pool EXCEPT ![p].ring = ring2, ![p].todo = Queued(@, h)]
        /\ taken' = taken \cup PagesOf(ring2)
    /\ UNCHANGED <<stack, out>>

\* disconnect, of a handler that has not been called
Disconnect(p, h) ==
    /\ ClientRuns /\ h \in Handlers(p)
    /\ pool' = [pool EXCEPT ![p].todo = RemoveFirst(@, h)]
    /\ UNCHANGED <<taken, stack, out>>

Attach(p) ==
    /\ ClientRuns /\ p \in Clearable /\ pool[p].uses < MaxUses
    /\ pool' = [pool EXCEPT ![p].uses = @ + 1]
    /\ UNCHANGED <<taken, stack, out>>

Call(op, p) == stack' = <<[op |-> op, pool |-> p, calling |-> FALSE]>> \o stack

\* deattach: the last one deletes.
Deattach(p) ==
    /\ ClientRuns /\ p \in Clearable /\ pool[p].uses > 0
    /\ pool' = [pool EXCEPT ![p].uses = @ - 1]
    /\ IF pool[p].uses = 1 THEN Call("delete", p) ELSE UNCHANGED stack
    /\ UNCHANGED <<taken, out>>

\* clear and _delete are called.
Clear(p) ==
    /\ ClientRuns /\ p \in Clearable
    /\ Call("clear", p)
    /\ UNCHANGED <<pool, taken, out>>

Delete(p) ==
    /\ ClientRuns /\ p \in Clearable
    /\ Call("delete", p)
    /\ UNCHANGED <<pool, taken, out>>

-----------------------------------------------------------------------------
(* clear and _delete. *)

\* The innermost call goes on with pool p.
Clearing(p) == InCall /\ Head(stack).pool = p

\* Mutant of Childless: the handlers come first.
HandlersFirst(p) == pool[p].children = <<>> \/ pool[p].todo # <<>>

Childless(p) == pool[p].children = <<>>

\* The first child is deleted.
ClearChild(p) ==
    /\ Clearing(p) /\ ~Childless(p)
    /\ Call("delete", Head(pool[p].children))
    /\ UNCHANGED <<pool, taken, out>>

\* emit_destroy calls a handler,
EmitDestroy(p) ==
    /\ Clearing(p) /\ Childless(p) /\ pool[p].todo # <<>>
    /\ pool' = [pool EXCEPT ![p].todo = Tail(@)]
    /\ stack' = [stack EXCEPT ![1].calling = TRUE]
    /\ UNCHANGED <<taken, out>>

\* which returns.
HandlerReturns ==
    /\ ClientRuns /\ stack # <<>>
    /\ stack' = [stack EXCEPT ![1].calling = FALSE]
    /\ UNCHANGED <<pool, taken, out>>

\* The last part: p has nothing left to do.
Done(p) == Clearing(p) /\ Childless(p) /\ pool[p].todo = <<>>

\* The ring without its other pages, as clear leaves it.
SelfOnly(p) ==
    [page |-> pool[p].self, fill |-> Header,
     index |-> (CHOOSE e \in ToSet(pool[p].ring) : e.page = pool[p].self).index]

ClearEnds(p) ==
    /\ Done(p) /\ Head(stack).op = "clear"
    /\ pool' = [pool EXCEPT ![p].ring = <<SelfOnly(p)>>]
    /\ taken' = taken \ (PagesOf(pool[p].ring) \ {pool[p].self})
    /\ stack' = Tail(stack)
    /\ UNCHANGED out

\* Mutant of Forgotten: the pool stays in its parent's list.
ForgottenHalf(p) == [pool EXCEPT ![p] = None]

\* p is gone, from its parent's list too.
Forgotten(p) ==
    [q \in Pool |->
        IF q = p THEN None
        ELSE IF q = pool[p].parent THEN [pool[q] EXCEPT !.children = RemoveFirst(@, p)]
        ELSE pool[q]]

DeleteEnds(p) ==
    /\ Done(p) /\ Head(stack).op = "delete"
    /\ pool' = Forgotten(p)
    /\ taken' = taken \ PagesOf(pool[p].ring)
    /\ stack' = Tail(stack)
    /\ UNCHANGED out

-----------------------------------------------------------------------------
(* vsprintf: the string begins in the active page and moves when it is full. *)

\* Bound: a string that may need new pages begins while a largest page is free.
HasPages(p, n) ==
    \/ n <= Space(pool[p].ring[1])
    \/ \E pg \in Page \ taken : \A q \in Page : Cap[q] <= Cap[pg]

Sprintf(p, n) ==
    /\ ClientRuns /\ HasPages(p, n)
    /\ out' = [pool |-> p, len |-> n, fresh |-> <<>>]
    /\ UNCHANGED <<pool, taken, stack>>

\* The page the string is in: the active one until a new one is needed.
Node == IF out.fresh = <<>> THEN pool[out.pool].ring[1] ELSE Empty(Head(out.fresh))

Full == out # None /\ out.len > Space(Node)

\* flush asks for twice what it has.
Wanted == Max({2 * Space(Node), MinString})

FlushNext ==
    /\ Full /\ out.fresh = <<>>
    /\ Wanted <= Space(NextOf(pool[out.pool].ring))
    /\ pool' = [pool EXCEPT ![out.pool].ring = Rotated(@)]
    /\ UNCHANGED <<taken, stack, out>>

FlushNew ==
    /\ Full
    /\ out.fresh # <<>> \/ Wanted > Space(NextOf(pool[out.pool].ring))
    /\ \E pg \in Pages(Wanted) :
        /\ out' = [out EXCEPT !.fresh = <<pg>> \o @]
        /\ taken' = taken \cup {pg}
    /\ UNCHANGED <<pool, stack>>

\* Mutant of Spare: the new pages the string has left are not freed.
SpareKept == {}

Spare == ToSet(Tail(out.fresh))

\* The string is complete: the new pages it has left go back, the last one is linked.
SprintfEnds ==
    /\ out # None /\ ~Full
    /\ IF out.fresh = <<>>
       THEN pool' = [pool EXCEPT ![out.pool].ring = Filled(@, out.len)]
            /\ UNCHANGED taken
       ELSE pool' = [pool EXCEPT ![out.pool].ring = Filled(Linked(Node, @), out.len)]
            /\ taken' = taken \ Spare
    /\ out' = None
    /\ UNCHANGED stack

Next ==
    \/ \E p \in Pool : New(p)
    \/ \E p \in Alive :
        \/ \E n \in Size : Alloc(p, n)
        \/ \E n \in Length : Sprintf(p, n)
        \/ \E h \in Handler : Connect(p, h) \/ Disconnect(p, h)
        \/ Attach(p) \/ Deattach(p) \/ Clear(p) \/ Delete(p)
        \/ ClearChild(p) \/ EmitDestroy(p) \/ ClearEnds(p) \/ DeleteEnds(p)
    \/ HandlerReturns
    \/ FlushNext \/ FlushNew \/ SprintfEnds

Spec == Init /\ [][Next]_vars

-----------------------------------------------------------------------------
(* Properties. *)

TypeOK ==
    /\ pool \in [Pool -> PoolState \cup {None}] /\ taken \subseteq Page
    /\ stack \in Seq([op : {"clear", "delete"}, pool : Alive, calling : BOOLEAN])
    /\ out \in StringState \cup {None}
    /\ \A p \in Alive :
        /\ pool[p].self \in PagesOf(pool[p].ring)
        /\ pool[p].parent \in Alive \cup {None}
        /\ ToSet(pool[p].children) = {q \in Alive : pool[q].parent = p}
        /\ IsInjective(pool[p].children) /\ IsInjective(pool[p].todo)

\* A page is in one place, a ring or a string under way, from the time the page
\* allocator gives it out until it gets it back: none is lost by clear, _delete or
\* vsprintf, and none is freed that is in use.
PagesOwned ==
    LET fresh == IF out = None THEN <<>> ELSE out.fresh
        inRings == UNION {PagesOf(pool[p].ring) : p \in Alive}
    IN  /\ \A p, q \in Alive : \A i \in DOMAIN pool[p].ring, j \in DOMAIN pool[q].ring :
            pool[p].ring[i].page = pool[q].ring[j].page => p = q /\ i = j
        /\ IsInjective(fresh) /\ inRings \cap ToSet(fresh) = {}
        /\ taken = inRings \cup ToSet(fresh)

\* The page after the active one has as many units free as any other: alloc, which
\* looks at that one only, takes no page while another has a unit more than it needs.
RoomiestNext ==
    \A p \in Alive : \A i, j \in 2..Len(pool[p].ring) :
        i < j => Units(Space(pool[p].ring[i])) >= Units(Space(pool[p].ring[j]))

\* The pools implement Arena.
parent == [p \in Pool |->
    IF p \in Alive /\ pool[p].parent # None THEN pool[p].parent ELSE p]
todo == [p \in Pool |-> IF p \in Alive THEN pool[p].todo ELSE <<>>]

\* What a pool has handed out: its pages up to firstp.
given == [p \in Pool |->
    IF p \notin Alive THEN {}
    ELSE UNION {{<<e.page, c>> : c \in (IF e.page = pool[p].self THEN Header ELSE 0)..e.fill - 1} :
                e \in ToSet(pool[p].ring)}]

\* The calls in a handler, each with the number of those below it.
running ==
    {[pool |-> stack[i].pool, depth |-> Len(stack) - i] : i \in {k \in DOMAIN stack : stack[k].calling}}

ArenaOf == INSTANCE Arena WITH alive <- Alive

ArenaSpec == ArenaOf!Spec
=============================================================================
