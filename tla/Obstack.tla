------------------------------ MODULE Obstack ------------------------------
(***************************************************************************)
(* obstack (src/libll++/obstack.h, obstack.cpp): a stack of objects in a   *)
(* stack of chunks.  The youngest object grows at the end of the newest    *)
(* chunk and moves to a larger one when it no longer fits; free goes back  *)
(* to an object and releases what is younger.                              *)
(*                                                                         *)
(* Addresses are numbers; the page allocator hands out pages at fixed      *)
(* places, two of which may touch.                                         *)
(***************************************************************************)
EXTENDS Integers, Sequences, SequencesExt, FiniteSets, FiniteSetsExt

CONSTANTS
    Page,           \* the pages the page allocator has (bound)
    From, To,       \* firstp and endp of each
    Header,         \* sizeof(obstack), at the start of the first chunk
    Align,          \* ll_align_size
    Slack,          \* what newchunk asks for beyond what it needs (128)
    Size,           \* sizes objects grow by
    MaxObjects      \* finished objects at a time (bound)

ASSUME PageAssumption ==
    /\ From \in [Page -> Nat] /\ To \in [Page -> Nat]
    /\ \A p \in Page : From[p] + Header <= To[p]
    /\ \A p, q \in Page : p # q => To[p] <= From[q] \/ To[q] <= From[p]

ASSUME AlignAssumption ==
    /\ Align \in Nat \ {0} /\ Header \in Nat \ {0} /\ Header % Align = 0
    /\ \A p \in Page : From[p] % Align = 0 /\ To[p] % Align = 0

ASSUME SizeAssumption == Size \subseteq Nat /\ Slack \in Nat /\ MaxObjects \in Nat

VARIABLES
    ob,             \* the obstack: _chunk and the chunks below it, _object_base,
                    \* _next_free, _chunk_limit, _maybe_empty_object
    live,           \* the finished objects the client has, oldest first
    status          \* "ok"; "astray" or "aborted" after a free that went wrong

vars == <<ob, live, status>>

-----------------------------------------------------------------------------
(* The chunks. *)

\* firstp; the first chunk, which has no next, begins with the obstack itself.
First(chunks, i) == From[chunks[i]] + IF i = Len(chunks) THEN Header ELSE 0

Fresh(p) ==
    [chunks |-> <<p>>, base |-> From[p] + Header, next |-> From[p] + Header,
     limit |-> To[p], maybe |-> FALSE]

Object == [at |-> ob.base, size |-> ob.next - ob.base]

\* Mutant of Droppable: whether an empty object may be there is not asked.
DroppableAlways ==
    ob.base = First(ob.chunks, 1) /\ Len(ob.chunks) > 1

\* Mutant of Droppable: the chunk an object moves out of is always kept.
DroppableNever == FALSE

\* The newest chunk holds nothing but the object that moves out of it.
Droppable ==
    ~ob.maybe /\ ob.base = First(ob.chunks, 1) /\ Len(ob.chunks) > 1

\* newchunk, in page p.
NewChunk(p) ==
    [chunks |-> <<p>> \o IF Droppable THEN Tail(ob.chunks) ELSE ob.chunks,
     base |-> From[p], next |-> From[p] + Object.size,
     limit |-> To[p], maybe |-> FALSE]

\* The pages that are free and large enough for newchunk(n).
Fitting(n) ==
    {p \in Page \ ToSet(ob.chunks) : To[p] - From[p] >= Object.size + n + Slack}

\* Mutant of WithRoom: the room is one too small.
WithTightRoom(n) ==
    IF ob.limit - ob.next < n - 1 THEN {NewChunk(p) : p \in Fitting(n)} ELSE {ob}

\* make_rome(n) and its copies in grow, grow0, blank and alloc: a new chunk when
\* the current one has no room for n more.
WithRoom(n) ==
    IF ob.limit - ob.next < n THEN {NewChunk(p) : p \in Fitting(n)} ELSE {ob}

Grown(o, n) == [o EXCEPT !.next = @ + n]

\* Mutant of Up: rounding down.
Down(a) == (a \div Align) * Align

\* ll_align_default
Up(a) == ((a + Align - 1) \div Align) * Align

\* What finish leaves: the next object starts at the aligned end, or at the limit.
Finished(o) ==
    LET end == Min({Up(o.next), o.limit}) IN
    [o EXCEPT !.next = end, !.base = end, !.maybe = @ \/ o.next = o.base]

-----------------------------------------------------------------------------
(* The operations. *)

\* _new
Init ==
    /\ \E p \in Page : ob = Fresh(p)
    /\ live = <<>> /\ status = "ok"

\* make_rome
MakeRoom(n) ==
    /\ ob' \in WithRoom(n)
    /\ UNCHANGED <<live, status>>

\* grow, grow0 and blank
Grow(n) ==
    /\ \E o \in WithRoom(n) : ob' = Grown(o, n)
    /\ UNCHANGED <<live, status>>

\* finish
Finish ==
    /\ Len(live) < MaxObjects
    /\ ob' = Finished(ob)
    /\ live' = Append(live, Object)
    /\ UNCHANGED status

\* alloc, copy and copy0: what is growing is part of the object.
Alloc(n) ==
    /\ Len(live) < MaxObjects
    /\ \E o \in WithRoom(n) :
        /\ ob' = Finished(Grown(o, n))
        /\ live' = Append(live, [at |-> o.base, size |-> Object.size + n])
    /\ UNCHANGED status

\* free(obj) in the current chunk.
FreeHere(a) == First(ob.chunks, 1) < a /\ a < ob.limit

\* The test of free(chunk, obj) on a chunk that has a next.
Skipped(i, a) == First(ob.chunks, i) >= a \/ To[ob.chunks[i]] < a

\* The chunk free(chunk, obj) stops at; it frees the younger ones.
Stop(a) == Min({i \in DOMAIN ob.chunks : i = Len(ob.chunks) \/ ~Skipped(i, a)})

\* It is the first chunk, and the object is not in it.
Lost(a) ==
    LET i == Stop(a) IN
    i = Len(ob.chunks) /\ (First(ob.chunks, i) > a \/ To[ob.chunks[i]] < a)

\* Back to address a in chunk i.
Back(i, a) ==
    [chunks |-> SubSeq(ob.chunks, i, Len(ob.chunks)), base |-> a, next |-> a,
     limit |-> To[ob.chunks[i]], maybe |-> ob.maybe \/ i > 1]

\* The object is the first of a chunk that is not the first: free(chunk, obj)
\* skips that chunk, for its firstp is not below the object.
Strays(a) == \E i \in 1..Len(ob.chunks) - 1 : First(ob.chunks, i) = a

Freed(n) ==
    LET a == live[n].at IN
    /\ ob' = Back(IF FreeHere(a) THEN 1 ELSE Stop(a), a)
    /\ live' = SubSeq(live, 1, n - 1)

\* free of a finished object.
Free(n) ==
    /\ ~Strays(live[n].at)
    /\ Freed(n) /\ UNCHANGED status

\* The chunk is skipped, and so are older ones until one seems to hold the object.
FreeAstray(n) ==
    /\ Strays(live[n].at) /\ ~Lost(live[n].at)
    /\ Freed(n) /\ status' = "astray"

\* No chunk does: crit_error.
FreeAborts(n) ==
    /\ ~FreeHere(live[n].at) /\ Lost(live[n].at)
    /\ status' = "aborted" /\ UNCHANGED <<ob, live>>

\* clear: back to the first chunk.
Clear ==
    /\ ob' = Fresh(Last(ob.chunks)) /\ live' = <<>>
    /\ UNCHANGED status

\* _delete, and another _new
Renew ==
    /\ \E p \in Page : ob' = Fresh(p)
    /\ live' = <<>> /\ UNCHANGED status

\* Nothing is said of what follows a free that went wrong.
Next ==
    /\ status = "ok"
    /\ \/ \E n \in Size : MakeRoom(n) \/ Grow(n) \/ Alloc(n)
       \/ Finish \/ Clear \/ Renew
       \/ \E n \in DOMAIN live : Free(n) \/ FreeAstray(n) \/ FreeAborts(n)

Spec == Init /\ [][Next]_vars

-----------------------------------------------------------------------------
(* Properties. *)

TypeOK ==
    /\ ob \in [chunks : Seq(Page) \ {<<>>}, base : Nat, next : Nat, limit : Nat, maybe : BOOLEAN]
    /\ IsInjective(ob.chunks) /\ ob.limit = To[Head(ob.chunks)]
    /\ live \in Seq([at : Nat, size : Nat]) /\ Len(live) <= MaxObjects
    /\ status \in {"ok", "astray", "aborted"}

\* The object that grows is in the newest chunk, above what is finished there,
\* and starts at an aligned address, after any growing, moving and freeing; its limit
\* is that of the newest chunk.
GrowsInside == TypeOK /\ (status = "ok" =>
    /\ First(ob.chunks, 1) <= ob.base /\ ob.base <= ob.next /\ ob.next <= ob.limit
    /\ ob.base % Align = 0
    /\ \A n \in DOMAIN live :
        From[Head(ob.chunks)] <= live[n].at /\ live[n].at < ob.limit
            => live[n].at + live[n].size <= ob.base)

\* Every object the client has, the empty ones too, lies in a chunk the obstack
\* still owns, although newchunk drops chunks it takes to be empty.
ObjectsHeld == status = "ok" =>
    \A n \in DOMAIN live : \E i \in DOMAIN ob.chunks :
        /\ First(ob.chunks, i) <= live[n].at
        /\ live[n].at + live[n].size <= To[ob.chunks[i]]

\* A chunk between the newest and the first holds an object: memory that freed or
\* moved objects took is not kept.
ChunksUsed == status = "ok" =>
    \A i \in 2..Len(ob.chunks) - 1 : \E n \in DOMAIN live :
        From[ob.chunks[i]] <= live[n].at /\ live[n].at <= To[ob.chunks[i]]

\* The obstack implements ObjectStack, until a free goes wrong.
promised == IF status = "ok" THEN live ELSE <<>>
owned == UNION {From[p]..To[p] - 1 : p \in ToSet(ob.chunks)}

Stack == INSTANCE ObjectStack WITH live <- promised

StackSpec == Stack!Spec

\* free calls crit_error for an object that "is not in any of the chunks"
\* (src/libll++/obstack.cpp:102); the objects that are freed here all are.
FreeFinds == status # "aborted"
=============================================================================
