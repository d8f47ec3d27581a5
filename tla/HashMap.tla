------------------------------ MODULE HashMap -------------------------------
(***************************************************************************)
(* hashmap (src/libll++/hashmap.h): intrusive elements in an array of      *)
(* lists, with the variants that remove by the element's own links (list)  *)
(* and by searching (slist), and an iterator.  The hash an element may     *)
(* cache is that of its key, and so not told apart from it.                *)
(*                                                                         *)
(* The client removes an element that is in the map, and gives replace one *)
(* that is not.  Until its iterator is at the end it removes any element   *)
(* but the one the iterator is at, and neither clears nor expands the map. *)
(***************************************************************************)
EXTENDS BitOrder, Lists, SequencesExt

CONSTANTS
    KeyOf,          \* getkey_t::get_key
    HashOf,         \* hash_make_t::make
    Sizes,          \* initial sizes a client asks for (bound)
    MinOrder, MaxOrder

Capacities == {Power[o] - 1 : o \in MinOrder..MaxOrder}

ASSUME HashMapAssumption ==
    /\ MinOrder \in Nat /\ MaxOrder \in Nat /\ MinOrder <= MaxOrder
    /\ Slot = 0..Power[MaxOrder] - 1 /\ Null \notin Cell /\ Slot \cap Elem = {}
    /\ Sizes \subseteq Nat /\ \A e \in Elem : HashOf[KeyOf[e]] \in Nat

VARIABLES
    fast,           \* which variant
    lists,          \* _array and the links of the elements
    capacity,       \* _capacity, the mask: one less than the number of lists
    count,          \* _count
    grown,          \* the elements that have been in the map while it expanded
    it,             \* the client's iterator: _list, and _ptr, Null at the end
    owed,           \* elements in the map since begin() it has not come to yet
    seen            \* elements it has come to, in the map ever since

iteration == <<it, owed, seen>>

hashVars == <<fast, lists, capacity, count, grown, iteration>>

Used == 0..capacity
In(s) == Range(Chain(lists, s))
Elements == UNION {In(s) : s \in Used}

\* hash & mask
Masked(k, mask) == HashOf[k] % (mask + 1)
SlotFor(k) == Masked(k, capacity)

-----------------------------------------------------------------------------
(* The operations. *)

\* calc_initsize; a power of two is its own order, whether or not it is looked up.
InitSize(n) ==
    LET o == Order(n)
    IN  Power[IF o < MinOrder THEN MinOrder ELSE IF o > MaxOrder THEN MaxOrder ELSE o] - 1

HashInit ==
    /\ fast \in BOOLEAN
    /\ lists = NoElements
    /\ capacity \in {InitSize(n) : n \in Sizes}
    /\ count = 0 /\ grown = {}
    /\ it = [list |-> 0, ptr |-> Null] /\ owed = {} /\ seen = {}

Get(k) ==
    LET find[e \in Elem \cup {Null}] ==
            IF e = Null THEN Null ELSE IF KeyOf[e] = k THEN e ELSE find[lists.next[e]]
    IN  find[lists.first[SlotFor(k)]]

AtEnd == it.ptr = Null

\* The operation changes nothing of the iterator; what it removes is not owed.
Iterating == it' = it /\ owed' = owed \cap Elements' /\ seen' = seen \cap Elements'

Pushed(l, s, e) == IF fast THEN ListPushFront(l, s, e) ELSE SlistPushFront(l, s, e)

\* remove(elm) of a map that is not fast may not find elm where it looks.
Removed(e) == IF fast THEN ListRemove(lists, e) ELSE SlistRemove(lists, SlotFor(KeyOf[e]), e)

\* probe: e is the element it would create.
Probe(e) ==
    /\ e \notin Elements
    /\ IF Get(KeyOf[e]) # Null THEN UNCHANGED hashVars
       ELSE /\ lists' = Pushed(lists, SlotFor(KeyOf[e]), e)
            /\ count' = count + 1
            /\ grown' = grown \ {e}
            /\ UNCHANGED <<fast, capacity>> /\ Iterating

\* remove(elm)
RemoveElem(e) ==
    /\ e \in Elements /\ it.ptr # e
    /\ lists' = Removed(e)
    /\ count' = IF fast \/ lists' # lists THEN count - 1 ELSE count
    /\ UNCHANGED <<fast, capacity, grown>> /\ Iterating

\* The chain without the element of key k that get finds.
WithoutKey(k) ==
    LET e == Get(k)
        s == SlotFor(k)
    IN  IF e = Null THEN lists
        ELSE IF fast THEN ListRemove(lists, e)
        ELSE SlistRemoveAfter(lists, s, e, Before(lists, s, e))

\* remove(key)
RemoveKey(k) ==
    /\ AtEnd \/ Get(k) # it.ptr
    /\ lists' = WithoutKey(k)
    /\ count' = IF Get(k) = Null THEN count ELSE count - 1
    /\ UNCHANGED <<fast, capacity, grown>> /\ Iterating

\* Mutant: the element of that key stays behind the new one.
ReplaceKeeping(e) ==
    /\ e \notin Elements /\ (AtEnd \/ Get(KeyOf[e]) # it.ptr)
    /\ lists' = Pushed(lists, SlotFor(KeyOf[e]), e)
    /\ count' = count + 1
    /\ grown' = grown \ {e}
    /\ UNCHANGED <<fast, capacity>> /\ Iterating

Replace(e) ==
    /\ e \notin Elements /\ (AtEnd \/ Get(KeyOf[e]) # it.ptr)
    /\ lists' = Pushed(WithoutKey(KeyOf[e]), SlotFor(KeyOf[e]), e)
    /\ count' = IF Get(KeyOf[e]) = Null THEN count + 1 ELSE count
    /\ grown' = grown \ {e}
    /\ UNCHANGED <<fast, capacity>> /\ Iterating

\* clear takes every element out, truncate forgets them.
Clear ==
    /\ AtEnd /\ lists' = NoElements /\ count' = 0
    /\ UNCHANGED <<fast, capacity, grown, iteration>>

\* expand: the elements go to the new array one by one, by the mask of the old.
Expand ==
    LET all == FlattenSeq([i \in 1..capacity + 1 |-> Chain(lists, i - 1)])
        moved[n \in 0..Len(all)] ==
            IF n = 0 THEN NoElements
            ELSE Pushed(moved[n - 1], Masked(KeyOf[all[n]], capacity), all[n])
    IN  IF 2 * capacity + 1 >= Power[MaxOrder] THEN UNCHANGED hashVars
        ELSE /\ lists' = moved[Len(all)]
             /\ capacity' = 2 * capacity + 1
             /\ grown' = Range(all)
             /\ UNCHANGED <<fast, count, iteration>>

ExpandIf == IF count >= capacity THEN Expand ELSE UNCHANGED hashVars

-----------------------------------------------------------------------------
(* The iterator. *)

\* It goes to the front of the first list from s on that has one, if any has.
FrontFrom(s) ==
    LET full == {t \in s..capacity : lists.first[t] # Null}
    IN  IF full = {} THEN [list |-> capacity + 1, ptr |-> Null]
        ELSE [list |-> Min(full), ptr |-> lists.first[Min(full)]]

\* begin()
Begin ==
    /\ AtEnd
    /\ it' = FrontFrom(0)
    /\ owed' = Elements \ {it'.ptr} /\ seen' = {it'.ptr} \ {Null}
    /\ UNCHANGED <<fast, lists, capacity, count, grown>>

\* Mutant of Following: the last list is left out.
FollowingShort ==
    IF lists.next[it.ptr] # Null THEN [it EXCEPT !.ptr = lists.next[it.ptr]]
    ELSE IF it.list + 1 = capacity THEN [list |-> capacity, ptr |-> Null]
    ELSE FrontFrom(it.list + 1)

\* next(_ptr): the element behind it in its list, or in the lists that follow.
Following ==
    IF lists.next[it.ptr] # Null THEN [it EXCEPT !.ptr = lists.next[it.ptr]]
    ELSE FrontFrom(it.list + 1)

\* ++
Advance ==
    /\ ~AtEnd
    /\ it' = Following
    /\ owed' = owed \ {it'.ptr} /\ seen' = IF it'.ptr = Null THEN {} ELSE seen \cup {it'.ptr}
    /\ UNCHANGED <<fast, lists, capacity, count, grown>>

HashNext ==
    \/ \E e \in Elem : Probe(e) \/ RemoveElem(e) \/ Replace(e) \/ RemoveKey(KeyOf[e])
    \/ Clear \/ (AtEnd /\ (Expand \/ ExpandIf)) \/ Begin \/ Advance

HashSpec == HashInit /\ [][HashNext]_hashVars

-----------------------------------------------------------------------------
(* What must hold. *)

\* Through every removal from the middle, replacement and expansion, each chain
\* ends, no element is in two, links back name the very cell that points at the
\* element, and the count, which expand_if and clients go by, is that of the
\* elements linked: also where remove does not find its element.
Chained ==
    /\ lists \in Lists /\ capacity \in Capacities
    /\ \A s, t \in Used : In(s) \cap In(t) # {} => s = t
    /\ \A e \in Elements :
          LET pointing == {c \in Used \cup Elements :
                              IF c \in Slot THEN lists.first[c] = e ELSE lists.next[c] = e}
          IN  IF fast THEN pointing = {lists.prev[e]} ELSE \E c \in Cell : pointing = {c}
    /\ count = Cardinality(Elements)

\* expand distributes by the old mask, so half of what it moves may be looked for
\* in vain afterwards.  Nothing else loses an element: those put in since are in
\* the list get looks in, and a key has two elements only if the map has grown
\* since one of them went in.
OnlyGrownLost ==
    /\ \A s \in Used : \A e \in In(s) :
          s = SlotFor(KeyOf[e]) \/ (e \in grown /\ s = Masked(KeyOf[e], capacity \div 2))
    /\ \A e, f \in Elements :
          e # f /\ KeyOf[e] = KeyOf[f] =>
              e \in grown \/ f \in grown

\* While elements are inserted, removed and replaced around an iterator, it comes
\* to every element that stays, and to none twice.
Iterated ==
    [][/\ it'.ptr # it.ptr => it'.ptr \notin seen
       /\ ~AtEnd /\ it'.ptr = Null => owed = {}]_hashVars
=============================================================================
