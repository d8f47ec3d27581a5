# A TLA+ model of libll++

libll++ (`src/libll++`) is a C++11 library for network programs: a page
allocator with pools, obstacks and caches on top of it, intrusive containers,
closures and signals, and a reactor, a timer manager and a connector. It is
single-threaded; what is hard in it is the order of callbacks, the life of the
objects they may free, and the bookkeeping of memory over long histories.

## Inventory

| component | state | operations | interacts with |
|---|---|---|---|
| `page_allocator` (page.h, page.cpp) | free lists per order, areas of page_nodes with `_index`/`_order`, free chunks, two growing segments, recycled page descriptors | `alloc`, `free` | mmap/mremap; clients: pool, obstack, config_file |
| `pool` (pool.h, pool.cpp) | ring of pages ordered by free space, active page, children, destroy handlers, use count | `alloc`, `clear`, `_new`, `_delete`, `attach`/`deattach`, `connect`/`disconnect`, `vsprintf` | page_allocator; handlers are callbacks |
| `obstack` (obstack.h, obstack.cpp) | stack of chunks, growing object (`_object_base`, `_next_free`, `_chunk_limit`), `_maybe_empty_object` | `grow`, `blank`, `finish`, `alloc`, `free`, `clear` | page_allocator |
| `cache`, `mem_alloc` (cache.h, memory.h) | free list per size class | `alloc`, `free` | pool |
| `rbtree`, `map` (rbtree.*, map.h) | tree, remembered first and last node | `insert`, `remove`, `replace`, `probe`, iteration | timer_manager |
| `hashmap` (hashmap.h) | array of lists, mask, count | `get`, `probe`, `remove`, `replace`, `clear`, `expand`, iteration | allocators; nothing in the library uses it |
| `list`, `clist`, `slist`, `stlist` (list.h) | links of intrusive entries | push, pop, `remove`, iteration | signal, hashmap, timer_manager, page_allocator, pool |
| `signal` (slotsig.h) | list of slots, or a single closure | `connect`, `disconnect`, `emit`, `remit`, `emit_and_disconnect` | reactor, connector, module; closures are callbacks |
| `timer_manager` (timer_manager.*) | map of timers by expiry, list of idles, `_cur` | `schedule`, `schedule_r`, `idle`, `modify`, `remove`, `loop` | clients' closures; connector; the caller passes loop's result to `reactor::loop` |
| `reactor` (reactor.*) | table of `io` by descriptor, epoll set | `open`, `close`, `modify`, `loop` | epoll; `io` handlers |
| `connector`, `listener` (socket.*) | descriptor, `_timer`, `_emitting` | `connect`, `close`, `listen` and the handlers of reactor and timer | reactor, timer_manager |
| `config_file` (config_file.*) | stack of open files, current block, value list | `load` | obstack, page_allocator |
| `module` (module.*) | initialiser and exit signals | `init`, `exit` | signal |
| printf, stream, log, crc, functor, closure, ... | none, or formatting | | |

What makes each correct, and what is hard about it:

* **page_allocator**: no byte belongs to two pages; free blocks and held pages
  tile a split chunk; free space coalesces as far as it can and a chunk that is
  all free is given back. The bookkeeping is spread over node tags, lists, areas
  and descriptors, and an error in one shows many operations later.
* **timer_manager**: callbacks may call every operation, on their own timer too;
  no callback runs early or on a dead timer; the earliest runs first; what is due
  is served; the caller does not sleep past an expiry.
* **reactor and connector**: a handler may close its own or another descriptor
  while events of the same batch wait; a timeout races an answer; a connector
  deletes itself through an idle callback; system calls fail half way.
* **pool and obstack**: a page is in one place; the ring is ordered; freeing an
  object restores the chunk it is in; destruction order.
* **signal**: an emission walks a list its closures change: a slot may connect,
  disconnect and emit, and disconnect itself, while it is called.
* **rbtree and map**: the order of elements through every rotation, balance, the
  remembered ends, an iterator kept while elements come and go.
* **hashmap**: chains and count agree, in the list and the slist variant; an
  element put in is found, also after the array grew.
* **config_file**: the document is the one the lines mean; blocks nest, across
  files too; no file is read inside itself; every file opened is closed.

The full list of hazards, each at its line, is in `PROJECT.json`.

## Modules

| module | what it is |
|---|---|
| `PageStore` | what the page allocator promises: pages own disjoint cells of memory from `Take` to `Give` |
| `BitOrder` | `bitorder`: the table of orders, entry by entry, and `order()`; used by `PageAllocator` and `HashMap` |
| `PageAllocator` | `page_allocator` in detail; implements `PageStore` |
| `Lemmas` | facts on natural numbers and on sequences that the proofs share |
| `PageAllocatorProofs` | the theorems about `PageAllocator`, with proofs |
| `MCPageAllocator` | its instance for TLC |
| `TimerService` | what the timer manager promises: the earliest due timer runs, never early, one at a time |
| `TimerManager` | `timer_manager` in detail; implements `TimerService` |
| `TimerHashProofs` | the theorems about `TimerManager` and `HashMap`, with proofs |
| `MCTimerManager` | its instance for TLC |
| `Reactor` | the descriptor table, the epoll set and the batch of `reactor::loop`; actions for `Connector` to compose |
| `ConnectService` | what `connect_to` promises the handler it is given |
| `Connector` | `connector` over the reactor and the loops of the timer manager; implements `ConnectService` |
| `ConnectorProofs` | the theorems about `Connector`, with proofs |
| `MCConnector` | its instance for TLC |
| `ObjectStack` | what an obstack promises: finished objects stay, apart, in memory it owns, until they or an older one are freed |
| `Obstack` | `obstack` in detail; implements `ObjectStack` |
| `ObstackProofs` | the theorems about `Obstack`, with proofs |
| `MCObstack` | its instance for TLC |
| `Arena` | what pools promise: memory with one owner until it is cleared or deleted, handlers in order before it goes, children first |
| `Pool` | `pool` in detail; implements `Arena` |
| `PoolProofs` | the theorems about `Pool`, with proofs |
| `MCPool` | its instance for TLC |
| `CList` | the circular list of list.h, as operators on its links |
| `Signal` | the signals of slotsig.h, with closures that call them back |
| `SignalConfigProofs` | the theorems about `Signal` and `ConfigFile`, with proofs |
| `MCSignal` | its instance for TLC |
| `RBTree` | `rbtree` as operators on the links and colours of the nodes |
| `OrderedMap` | what a map promises: a sequence in the order of keys |
| `Map` | `map` over `RBTree`, with an iterator; implements `OrderedMap` |
| `MapProofs` | the theorems about `Map` and `RBTree`, with proofs |
| `MCMap` | its instance for TLC |
| `Lists` | list and slist of list.h, as operators on their links |
| `HashMap` | `hashmap` over `Lists`, with an iterator |
| `MCHashMap` | its instance for TLC |
| `ConfigFile` | the loader of config_file.cpp, and what the lines of files mean |
| `MCConfigFile` | its instance for TLC |

### PageAllocator

`alloc` is four actions, one per path of the code: `AllocFromList` (the first
list of order k or more that has a block), `AllocFromChunk` (`chunk_alloc`,
`area_alloc`, then the split loop), `AllocChunk` (a whole chunk) and
`AllocMapped` (mmap). `free` is four as well: `FreeToList` (the merge loop stops
at a buddy that is not free), `FreeToArea` (it reaches max_order: `area_free`),
`FreeChunk` and `FreeMapped`. A loop of the code is one step, stated by its
result: `Split` and `Merge` say which node gets which `_order` and which list
gains or loses which node; `Half`, `Buddy` and `BuddyAt` are the code's index
arithmetic. `_index` is the node itself.

Abstractions. A free list is a set, and `pop_front` takes any element: every
order of the list is covered. `firstp`/`endp` follow from node and order. The
page descriptors, areas and chunks that `ialloc` and the segments can provide
are bounded by the constants `Page`, `Area` and `Chunk`; memory of the internal
segment is never reused for anything else, so it needs no state. `carved` is the
set of chunks the chunk segments have handed out. Sizes are in system pages.
The order of a request is looked up in `ordertab` of `BitOrder` (`OrderFor`), and
`Pages` gives `1 << k`; `Extent` is how many bytes `free` takes a page to have, from
the order or size its descriptor carries.
Not modelled: growth and teardown of segments, a failing mmap, sizes whose
rounding wraps.

### TimerManager

`pc` is where `loop` is: `out` (the client's own code), `idle1`, `timers`,
`idle2` (the three loops of `loop_i`), `check` (back in `loop`) and `asleep` (the
caller waits in `reactor::loop`). `running` says that a callback of `cur` is on
the stack; then, and in `out`, the client may take any of `Schedule`, `Idle`,
`Modify`, `RemoveTimer`. A callback returns by `IdleReturn`, `TimerEnds`
(d <= 0), `Rearm` (d > 0, still to come) or `ApplyAgain` (d > 0, passed too).
The clock advances at any point and does not go back.

Abstractions. `map` is the sequence of the tree's elements in order; insertion
goes after every equal key as `map::insert` does. A timer handle is used once
(`new`, then `timer` or `idle`, then `freed`, or `ran` for an idle, which the
code never deletes). `modify` of an idle, `modify` to the same expiry and `remove`
of the running callback change nothing in the code and are not steps.
Clients do not use a handle that was deleted or an idle that has run (as
`connector::connect_ready` forgets its handle first), and do not call `loop`
from a callback. `late` is a history variable: the timers scheduled or modified
since the second idle loop began. `modified` bounds the calls of `modify`.

### Reactor and Connector

`Reactor` holds what reactor and connector share: `io` (which handler a
descriptor's io is connected to), the sockets as the kernel sees them, the
descriptors with an event (`ready`) and the `batch` `epoll_wait` returned.
`Connector` EXTENDS it and adds the state of each connector (`cfd` is `_fd`,
`timer` is `_timer`, `emitting`), what the timer manager holds for it (`sched`,
`idles`) and `stack`, the calls of client handlers under way. A handler is the
place where anything may happen, so the code is cut there: a step goes from one
call of a handler to the next. `AttemptFails`, for instance, is `connect_handler`
up to its `poll_err`, and `FailedReturns`/`FailedFails` the rest of it, with the
`close` of `reactor::loop`, for a handler that succeeds or fails. A call of
`connect()` is a step of its own (`at = "connect"`), so that its outcomes are
written once for its three callers; the client does not run before it.

`Attempt` is `connect` and `do_connect` with every outcome: no socket, a handler
that fails, connected at once, in progress, refused, another error. `Callback` is
what the loops call: `timer_handler` (`Fire`, then `TimeoutReturns` or
`TimeoutFails`), `connect_handler`, `connect_ready`, and the deletion `callback`
queues. While a handler runs, and around the idles and timers, the client may
make connectors, close them, connect them again, and register or release
descriptors it was handed; the handler of such a descriptor (`ClientEvent`) may
do the same and succeed or fail.

Abstractions. Time is left out: a timer the timer manager holds may fire whenever
its loop runs, in any order; `TimerManager` says what the order is. What is kept of
it is `wakes`: whether any timer was set when `loop_i` fixed the time to sleep, before
its second idle loop. `epoll_wait` returns for an event or at that time (`Awaited`), or
for something that need never come: a signal, or a timer or descriptor of the client's.
The client
follows the library's rules: it does not use a connector after its handler failed
or was told `poll_out`, calls `connect()` only when no call of that connector is
under way, closes descriptors through the reactor, and opens nothing from a
`poll_close` handler. `told` is a history variable: what the handler was last
told, `none` when the client itself ended the attempt, `end` when no call may
follow, and `lost` when an attempt ended without a word: `timer_handler` ignores
a failing `connect()`, and `reactor::loop` may close another's descriptor by its
number (`IoFails`). `reused` is one too: the numbers registered while a batch is
handled. The kernel gives out the lowest free number and reports an error event
for a refused socket.

### Obstack

`ob` is the C++ object: `chunks` (the list from `_chunk`, newest first), `base`,
`next` and `limit` (`_object_base`, `_next_free`, `_chunk_limit`) and `maybe`
(`_maybe_empty_object`). Addresses are numbers and pages lie at fixed places,
because `free` finds an object's chunk by comparing addresses, and what it does
depends on whether two pages touch. `WithRoom(n)` is the test for room at the
head of `grow`, `blank`, `alloc` and `make_rome`, with `newchunk` (`NewChunk`)
behind it; `Droppable` is its test for a chunk the growing object leaves empty.
`Alloc` is `alloc` and the copies, with the `finish` at their end.

`free` of an object is three actions. `Free` is the ordinary case; `Stop` is the
chunk the loop of `free(chunk, obj)` stops at. `FreeAborts` is its
`crit_error`, and `FreeAstray` the case in which it stops at a chunk that does
not hold the object. Both happen when the object is the first of a chunk that is
not the first: the loop's test asks for `firstp < obj`, so it skips that chunk.
`status` records it, and the model stops there; the refinement of `ObjectStack`
promises nothing from then on (`promised`).

Abstractions. Contents are left out: an object is an address and a size. `free`
and `_delete` hand every page back to the allocator at once, so the free pages
are those not in `chunks`. The `_fast` variants, which leave the test for room
to their caller, are not modelled, nor `vprint`, which is growing by what is
printed. A size whose sum wraps is not modelled.

### Pool

`pool[p]` is the C++ object: the ring of pages as a sequence from `_active` on
(`page`, `fill` up to `firstp`, `index`), `self`, `parent`, `children`, `todo`
(`_destroylist`) and `uses`. `taken` says which pages the page allocator has given
out; it changes only where the code calls `alloc` or `free`, so that a page lost
or freed early shows. `Linked` is the tail that `alloc`, `flush` and `vsprintf`
share: the new page goes before the active one, which moves behind the pages with
more free units. `Allocated` is `alloc`, `Connect` allocates twice. A page a ring
gets is one of `Pages(n)`, which the page allocator has free; within a step that
takes two, the second is not one the ring has just been given.

`clear` and `_delete` call handlers and each other: `stack` holds the calls under
way. `ClearChild` deletes the first child, `EmitDestroy` calls the oldest handler,
in which the client may do anything it may do outside, until `HandlerReturns`;
`ClearEnds` and `DeleteEnds` are the rest. `vsprintf` is `Sprintf`, a `FlushNext`
or `FlushNew` for each call of `flush`, and `SprintfEnds`; `out` is its buffer, with
the new pages it has, newest first. Nothing else runs meanwhile.

In the mapping to `Arena`, what a pool has handed out are the cells of its pages up to
their fill, without its own header, and `running` has a record of each call that is in
a handler, with the pool and the depth of the call, so that handlers of one pool can
be told apart and end innermost first.

Abstractions. Sizes are in units of the alignment, so that flush's
`size <= space()` on 2 (space - 1) bytes is one on 2 space units. The client
follows the library's rules: it does not clear or delete a pool from a handler of
that pool or of one below it, makes or attaches to no pool that is being cleared,
and does not disconnect a handler that has been called. Deleting a parent deletes
its children whatever their `_use_count`. A string that may need new pages begins
while a largest page is free (`HasPages`, a bound).

### CList and Signal

`list` is the circular list as it lies in memory: the links of the list's own
entry (`Anchor`) and of every slot, those out of the list too, because `remove`
leaves the links of the entry it takes out and an iterator may still read them.
A frame of `stack` is an emission, and `at` the slot whose closure runs. While it
runs, the closure may do all a client may: `Connect`, `Disconnect`,
`DisconnectAll`, `Emit` (emit for "next", remit for "prev", emit_and_disconnect
with `drains`), and the same on a second signal, the one of a single closure
(`OnceConnect`, `OnceDisconnect`, `OnceEmit`). It returns by `Advance` (`++it`),
`StopHere` (the emissions that end on a result), `Drain` (the loop of
emit_and_disconnect) or `OnceReturn`. `owning` picks the variant: slots and
closures the signal allocates and deletes, or links only.

`UseFreed` is the step in which the code reads the links of a slot it has deleted,
or deletes it once more: `lost` says so, and the model stops there, as anything may
follow. `self`, `due` and `called` are history variables of a frame: what became of
the slot being called, which slots the emission still owes, which it has called.

### RBTree, Map and OrderedMap

`RBTree` is the code's algorithm on a record of root, links, parents and colours.
rbtree.cpp writes every case for both sides; the operators take the side as a
parameter, so each case is there once. `Extreme`, `NextOf` and `PrevOf` follow the
code's loops; `PrevOf` is a set, because `prev` compares the parent with a pointer
that has no value yet (rbtree.h:79), and what it returns depends on that value. The
loops of `insert` and `erase_color` are a pass each (`InsertPass`, `ErasePass`),
repeated until `InsertDone` or `EraseDone` and at most `Passes` times, the number of
nodes; that this is often enough is part of what is proved.

`Map` has one action per operation. `Place` is the walk down that `insert`, `probe`
and `replace` share, one `Descent` after another, with the turns it took: an element that never went right is
the new first one. `it` is an iterator that the client keeps across operations, and
`watched` any one element it has yet to visit, chosen when it begins. The mapping
to `OrderedMap` is the in-order sequence. `OrderedMap!InsertAfter` is `Insert` of
`TimerManager`, so the sequence `TimerManager` takes for the tree is what the tree
gives it.

### Lists and HashMap

`Lists` has the links of `list`, whose entries point back at the cell that points at
them, and of `slist`, whose entries do not, so that removal needs the one before.
`HashMap` runs on either (`fast`). The keys and hashes of elements are constants.
The size of the first array goes through `bitorder::order` (`BitOrder!Order`). `expand`
moves every element by the mask of the old array (hashmap.h:258), so about
half of what it moves may be looked for in vain; `grown` remembers which elements it
has moved. `expand_if`, which no operation calls, is an action of the client. The
iterator (`it`, `Begin`, `Advance`) goes on while elements are put in, removed and
replaced; `owed` and `seen` say what it has to come to and has come to.

### ConfigFile

The loader sees characters: `GetToken` is get_token, and `First`, `Second` and
`Strings` are its calls from `read_item`, whose branches are an action each
(`EndOfFile`, `Nothing`, `Item`, `BlockBegin`, `BlockEnd`, `Include`, `Malformed`).
`files` is the stack of files with the place of the character read ahead. The lines a
file may hold come from a table that gives, for each, its characters and what it is
meant to be; `Meant` is the document that the lines make, files included in the place
of the line that names them, with no notion of characters, tokens or a stack.

Three things the code does are in the model as they are. A last line without a newline
ends in `token_eof`, which `get_token` returns, and the branches that should take it
compare with `EOF`: load fails there, though the code's messages say that EOF ends an item
(config_file.cpp:278, 297, 317-318, 365-366, 385-386). The table says that such a line
means the item it is; `Parsed` lets load fail on it and claims no more then than a
beginning of the document. A file refused as recursive
stays open: it is opened before it is compared with those being read
(`refused` counts them). And `getc` overwrites the character read ahead when it goes
back to the file that included another, so the line behind an include loses its first
character; `Parsed` claims nothing of texts where that character matters
(`Sheltered`), and the others include a line that begins with a blank.

## Runs

| run | bounds | what it shows |
|---|---|---|
| `page_allocator` | 4 pages, 2 areas, 2 chunks of 8 nodes, orders 1..4, requests of 0 to 9, 16 and 17 system pages; symmetry | `TypeOK` and the eight properties below |
| `timer_manager` | 3 timers, instants 0..2, callbacks that return 0 or 1, one `modify` | the four properties below |
| `connector` | 2 connectors, one with timeout and interval and one with neither; 2 descriptors | the seven properties below |
| `connector_reuse` | as `connector` | `ConnectOk` fails |
| `timer_sleep` | as `timer_manager`, with no `modify` | `NoOversleep` fails |
| `obstack` | 4 touching pages of 6, 6, 8 and 10 cells, alignment 2, sizes 0, 1 and 3, 3 objects | the four properties below |
| `pool` | 2 pools, 2 handlers, 2 pages of 4 cells and one of 8; objects of 1 and 3, strings of 3 and 5, use counts to 2; symmetry | the four properties below |
| `obstack_free` | as `obstack` | `FreeFinds` fails |
| `signal` | 3 slots, 2 closures, emissions 2 deep, 4 calls of `connect`; both variants; symmetry | the three properties below |
| `map` | 7 elements, two of one key, any one iterator | the four properties below |
| `hashmap` | 5 elements, two of one key, arrays of 2 to 8 lists; both variants | the three properties below |
| `config` | 2 files under 3 names; texts of up to 3 lines of 12 kinds, including one of up to 2; 2 loads | the two properties below |

Types are `TypeOK`, a property of its own for the page allocator and the pool; in
`LinkedOnce`, `TimersOwned`, `GrowsInside` and `Held` it is the first conjunct, and
`RedBlack`, `Chained` and `FilesHeld` say of their structures what matters.

*page_allocator.* Three split levels are enough for a split or a merge to stop at
its first, a middle and its last step; four pages fill half a chunk in unequal
parts and hold blocks of two chunks at once; two chunks and two areas let both be
recycled in either order. The requests have both sides of each step of the order table
up to order 3, sizes that are mapped below and above a chunk, a whole chunk, and 0.
Properties: `LiveDisjoint`, `TagsMatchLists` (a
node's tag and the list it is on agree), `Tiling` (each node of a split chunk is
in exactly one free block or page), `Coalesced` (no two free buddies),
`Reclaimed` (a chunk is split only while a page of it is held), `ChunkOwned` (a
chunk has exactly one owner), `AllocFits` (what `free` will take
a page to have, from the order found in the table, holds the bytes asked for, and is less
than twice them unless it is the smallest) and `StoreSpec` (it implements `PageStore`).
Nothing is said about liveness: the allocator does nothing by itself. It can always take
a step, so deadlock is checked.

*timer_manager.* With three handles a callback can act on a second timer while a
third waits; instants before, at and after an expiry exist, and a period of 1
makes catch-up (`ApplyAgain`) happen. Properties: `LinkedOnce` (types; a live timer
is linked exactly once, the running one and dead ones nowhere), `SleepCovers` (when
the caller sleeps no idle waits and no timer that was there before the second
idle loop expires sooner), `ServiceSpec` and `Served` (what is due runs, is
removed or is moved).

Fairness: `Progress` (loop's own steps, and callbacks return), `Timeout` (the
caller's wait ends at the latest when the time loop returned has passed, as
epoll_wait's does) and `Tick`. The caller's loop is `while (1)`
(test/test_reactor.cpp:76-79). Client calls and events are not fair. No symmetry,
because of `Served`.

*timer_sleep.* `loop_i` fixes the time it returns before its second idle loop. An
idle that a timer callback queued runs there, and a timer it schedules is not in
the result: the caller sleeps past it, for ever if nothing else is queued.
`test_reactor.cpp` takes this path when its close timer fires: the reconnect's
timeout of 2000 ms is scheduled from an idle of the second loop. `SleepCovers`
and `Served` state what is left: every timer not set in that loop is covered.

*connector.* Two connectors are enough for each to act on the other inside a
handler, for two events in a batch, for nested calls three deep (the handler of a
descriptor, and an attempt of each connector), and for a number to be
reused; there are never more than two open sockets, so a third descriptor adds no
state. Properties: `TimersOwned` (the timer manager holds for a connector what
`_timer` says), `SocketsOwned` (an open socket has one owner and its events go
there), `NoDangling` (nothing refers to a deleted connector), `NotForgotten` (an
attempt has a socket, a failure to be retried has a timer, a finished connector
its deletion), `ReadyIsUp` (what the client is handed is connected, unless the
number was reused in the batch), `ServiceSpec` and `Answered` (a timed attempt
ends, unless the caller sleeps past its timeout for ever). The exception is the
behaviour `timer_sleep` finds, seen from here: an attempt that begins in the second idle
loop sets its timeout after `loop_i` has fixed the time to sleep (timer_manager.cpp:62);
without the exception TLC shows such an attempt that nothing ends (`SleptPast`).

Fairness: at each depth of calls the code goes on infinitely often if it can
(strong, since the client may do much in between: handlers return, and the caller
gets back to its loop). `epoll_wait` is part of that only while it is `Awaited`: with no
event and no timer in the time `loop_i` returned it need not come back. `DueInTheEnd` is
about time: a timer that stays set is due in the end, and then the loop of timers does
not end before it was dispatched; so if it stays set for good, that loop cannot be
left and begun for ever. No timer is assumed to fire that the caller sleeps past. Nothing is
assumed of peers, the kernel or the client's own wishes.

*connector_reuse.* Two events wait in a batch. The handler of the first closes the
connector of the second and connects it again; the new socket takes the number
that was just freed, and the old event its connector for connected.

*obstack.* Three objects of up to three cells and what grows fill the first page
and reach a third chunk; size 0 makes empty objects, which share their address
with the next one and are what `_maybe_empty_object` is for; 1 leaves an end
that must be aligned, 3 one that is cut at the limit. `Header` 2 and `Slack` 1
stand for `sizeof(obstack)` and the 128 bytes `newchunk` adds. Properties:
`GrowsInside` (the growing object is aligned, in the newest chunk, above what is
finished there), `ObjectsHeld` (every finished object is in a chunk that is
still owned, although `newchunk` drops chunks), `ChunksUsed` (a chunk that is
kept has an object, so nothing is retained without need) and `StackSpec`. No
step follows a `free` that went wrong, so deadlock is not checked.

*obstack_free.* An object that did not fit moves to a chunk of its own and is
finished there: it is the first object of the second chunk. Freeing it skips its
chunk, finds it in no other, and aborts with "obj is not in any of the chunks".
When a page of an older chunk ends where the skipped one begins, `free` takes the
object to be there instead (`FreeAstray`), and the next object would begin at the
end of a chunk it is not in.

*pool.* Three pages are enough for a ring whose last two may be out of order; objects
of 1 and 3 fit, fit only the next page or need another; a string of 5 outgrows a
page of 4 once it has moved there, and goes on to the large one. Two pools are
enough for a child that is deleted by its parent while handlers of either act on
the other. Properties: `PagesOwned` (each page taken is in one ring, or in the
string under way, once), `RoomiestNext` (`alloc` tries only the page after the
active one; it is as good as any) and `ArenaSpec`. Something can always be done,
so deadlock is checked.

*signal.* Three slots are one that is called, one behind and one ahead of it, for
others to take out or put back; four calls of `connect` let a slot that was taken out
come back at the end; two emissions inside each other may be of the same signal, in
either direction, or of both. Properties: `Held` (the list stays closed in both
directions, and an owning signal has allocated exactly what is connected),
`Delivered` (a slot connected from the beginning to the end of an emission is called
once, and stays ahead until then) and `LostByOwnSlot`. The last states the
limit of what the code allows: freed memory is used only when a closure has
disconnected the slot it was called from. Where the client owns the slots even
that works, since `remove` leaves the links, unless the list changes once more
before the closure returns. No step follows `lost`, so deadlock is not checked.

*map.* Seven elements make trees four nodes deep, in which every case of insert and of
`erase_color` happens on either side, with the successor a child of the removed node
and deeper. Properties: `RedBlack` (colours, heights, parents, and `get` finds what is
there), `EndsRemembered` (the first element is remembered after every operation; the
last one too, or it is nullptr when `prev` went wrong), `NoneSkipped` (what the
iterator has yet to visit stays ahead of it) and `OrderedSpec`.

*hashmap.* Of five elements two share a key and four share a list under every mask but
the largest, so that chains of three are cut at the front, in the middle and at the
end; the array grows twice. Properties: `Chained` (links, back links and count agree,
also where `remove` does not find its element), `OnlyGrownLost` (an element is
where `get` looks, or has been moved by `expand`) and `Iterated` (an iterator comes
to every element that stays, once).

*config.* The kinds of line are an item, one with quotes, escapes and a comment, a
comment, the begin and end of a block, an include, an include of the first file under
its other name, one of a missing file, an open quote, a stray `>`, and an item and a
comment without their newline. Three lines and two allow a block that begins in one file and
ends in another, an include after which the including file goes on, and recursion by
either name; the second load shows that `clear` leaves nothing behind. Properties:
`Parsed` (a load that says it worked has the document the lines mean, the whole of it; one
that failed has a beginning of it, and unless an item was cut off by the end of its file,
the lines mean none and it has all before the fault) and `FilesHeld`. Two loads end it,
so deadlock is not checked.

## Proofs

The safety properties of nine components, but for `Parsed`, are theorems, for every value of the
constants that the named assumptions of a module allow: any number of pages, timers,
connectors, descriptors, slots, and calls inside each other. TLC evaluates the
assumptions on the constants of each run. Each proofs module has the same plan: an
inductive invariant, one lemma per action for its step, `InvTheorem` (or
`IInvTheorem`), one theorem per property, and the refinement with one case per action.
`Lemmas` has what they share: induction over an interval, division with remainder, and
what inserting, removing, `Head` and `Tail` make of a sequence, its elements and its
order.

| module | theorems | properties |
|---|---|---|
| `PageAllocatorProofs` | `InvTheorem`, `IInvTheorem`, `TypeTheorem`, `TagsTheorem`, `DisjointTheorem`, `TilingTheorem`, `CoalescedTheorem`, `ReclaimedTheorem`, `ChunkOwnedTheorem`, `AllocFitsTheorem`, `RefinementTheorem` | all of the run |
| `TimerHashProofs`, on `TimerManager` | `InvTheorem`, `LinkedTheorem`, `SleepTheorem`, `RefinementTheorem` | all but `Served` |
| `TimerHashProofs`, on `HashMap` | `HashInvTheorem`, `ChainedTheorem`, `OnlyGrownLostTheorem`, `IteratedTheorem`; on `BitOrder`, `OrderTheorem` | all of the run |
| `ConnectorProofs` | `InvTheorem`, `TimersTheorem`, `SocketsTheorem`, `DanglingTheorem`, `NotForgottenTheorem`, `ReadyTheorem`, `RefinementTheorem` | all but `Answered` |
| `ObstackProofs` | `InvTheorem`, `GrowsInsideTheorem`, `ObjectsHeldTheorem`, `ChunksUsedTheorem`, `RefinementTheorem` | all of the run |
| `PoolProofs` | `InvTheorem`, `TypeTheorem`, `PagesTheorem`, `RoomiestTheorem`, `RefinementTheorem` | all of the run |
| `SignalConfigProofs`, on `Signal` | `InvTheorem`, `HeldTheorem`, `DeliveredTheorem`, `LostTheorem` | all of the run |
| `SignalConfigProofs`, on `ConfigFile` | `LoaderInvTheorem`, `FilesHeldTheorem` | all but `Parsed` |
| `MapProofs` | `MapInvTheorem`, `RedBlackTheorem`, `EndsRememberedTheorem`, `NoneSkippedTheorem`, `OrderedSpecTheorem` | all of the run |

**PageAllocator.** From `OrderAssumption`, `PagesAssumption` and `SpanAssumption` (`Pages[k]`
and `Span[k]` double with each order, as the shifts of the code do) and `NoneAssumption`. `LiveDisjoint` is not
inductive: a page is disjoint from the next one allocated only because the free block
it comes from was disjoint from every held page. `Inv` adds: blocks are aligned to
their size in areas that have a chunk (`Placed`); free blocks, held pages and each
other are pairwise apart (`FreeApart`, `FreeHeldApart`, `HeldApart`); tags and lists
agree; and a chunk has one owner (`Owners`). For `Split`: the halves of an aligned
block are aligned, apart and inside it. For `Merge`: an induction over the orders the
loop passes; at each, the block grown so far and the buddy taken off its list are the
two halves of the next, so whatever was apart from both is apart from the result.

The other half is that nothing is lost: `IInv` adds that each node of a split chunk is
in some free block or page (`Covered`), that no two buddies are free (`Coalesced`) and
that each chunk handed out has an owner (`ChunksKept`). A split keeps the remaining
half beside the one it goes on with; a merge stops at a buddy that is not free, and
the blocks it took off the lists make up the one it puts back. `Tiling` is `Covered`
with blocks apart. `Reclaimed` is where both meet: if no page of a split chunk were
held, free blocks would tile it. Take a smallest one: its buddy starts in a free block
that is as small, and then two buddies are free, or in a larger one, which then holds
the smallest too. Neither can be. `AllocFits`
compares the rows of the order table with the powers of two: what an entry stands for is
enough, and half of it is not (`OrderTabFits`, `OrderForFits`). It also needs that the paths of
alloc leave no gap: what is not looked up is a whole chunk or mapped, and then its size
in bytes cannot be mistaken for an order.

**TimerManager.** From `TimerAssumption`: `None` is no timer or time, time and delays
are natural numbers. `IInv`: the map holds each waiting timer once and the list each
idle that has not run (`Linked`), the map is sorted by expiry (`Ordered`), what runs
is of the kind the phase of `loop_i` calls and outside it `_cur` is reset (`Phases`),
and from the moment the time to sleep is fixed only what the second idle loop set may
expire before it (`Covered`). The last is what `SleepCovers` needs before the caller
is asleep. The refinement needs the order, for the first of the map is the earliest,
and `Linked`, for a timer that runs is pending nowhere.

**Connector** (with `Reactor`). From `ConnectorAssumption` and `ReactorAssumption`:
the client is not a connector, `None` is nothing else, a connector has a timeout or an
interval or not, descriptors are finitely many numbers (the kernel returns the lowest
free one). `IInv` says what a connector holds at each point of a call of its
(`Holds`): in `open`, `refused`, `timeout`, `failed`, `out` and between calls, which
of `_fd`, `_timer` and `_emitting` are set and what the handler was last told. The
properties say so only of connectors that no call is under way of; the rest is what
they need after the call. `StackOK` says that no connector is in two calls and that a
call from the loops is the outermost, `Owned` that descriptor and connector refer to
each other, `BatchEvents` and `ReadyOK` what a number may mean that an event of the
batch holds: the reuse of a number in the batch is the one case in which it is not the
socket the event came for, and `ReadyIsUp` excepts just that.

**Obstack.** From `PageAssumption` (a page holds more than a header; pages do not
overlap), `AlignAssumption` (headers and ends of pages are aligned, the header is not
empty) and `SizeAssumption`. `IInv`: as long as no `free` went wrong, each object has
a home chunk (`Homes`) in which it lies, younger objects are in younger chunks or
behind the older of theirs (`Stacked`), the first object of a chunk begins where the
chunk does (`Filled`), and `_maybe_empty_object` is set while the newest chunk has an
empty object (`Told`). `ObjectsHeld` rests on the last two: `newchunk` drops the chunk
the growing object leaves only if it begins there and the flag is not set, and then
nothing is in it. The home of an object cannot be read off its address, since an empty
object may lie at the end of one chunk where the next page begins; that is why the
invariant carries it. An ordinary `free` stops at the home of its object
(`StopIsHome`). `StackSpec` promises nothing after a `free` that went wrong, and that
is in `ObjectStack` to see (`promised`).

**Pool.** From `SizeAssumption` (sizes are positive where the code's are, a pool fits
the least page) and `NoneAssumption`. `IInv` has a part for each structure. Rings: the
pages behind the active one are in the order of their units free, and their index
tells how many (`RingOK`); `RoomiestNext` is its first consequence, but it needs the
order of all of them, since `alloc` moves the active page behind those with more.
Pools: a tree without cycles (`TreeIn`, `AcyclicIn`). Calls: those of `clear` and
`_delete` under way go down it, none is of a pool at or above that of an outer one
(`InnerIn`), so what a handler or a child's deletion frees is nobody's who is still at
work. Pages: those taken are in the rings and the string under way, each once
(`OwnedIn`). The absence of cycles is said with sets closed under `parent`, for which
no induction is needed. For the refinement: what a pool has handed out depends on the
pages and fills of its ring only, not on their order, so every step is about one pool,
and rings that are apart hand out memory that is.

**Signal.** From `SignalAssumption`. The links alone say too little once slots leave
the list while an emission stands at them. `IInv` says that there are ranks: a slot
gets one when it is connected, above all before it, and keeps it when it is
disconnected. The list leads through the connected slots in the order of ranks, in
both directions (`Ordered`), and each emission has what is due ahead of it and what it
called not, by rank (`Fits`); a slot that went has links that still go on as its rank
demands, until the list changes once more. Connecting and disconnecting are then
arithmetic of ranks, however deep the emissions are that they happen in. `From`, the
slots reached from an entry, is in `CList` the intersection of the sets that have the
entry and are closed under the link, which needs no recursion; `FromIs` shows it to be
the slots of higher rank. `LostByOwnSlot` is a conjunct of `IInv`.

**ConfigFile.** From `ConfigAssumption`: names stand for files, and only the last line
of a file may be without a newline. `LoaderInv`: the files being read are apart, each is
counted as a descriptor, those refused too, and something is being loaded exactly
while there is a file. It holds whatever the texts are: the steps need of `GetToken`
only that it moves the place in a file, or drops files.

**Map** (with `RBTree`). From `MapAssumption`: the nodes are finitely many, nullptr is
none of them, keys are integers. Everything the map promises is about a tree of any
depth, and an induction over it is out of the prover's reach; so the proof never looks
further than one node and its neighbours. `MapInv` says that there are a set of elements
E and labels L: each element has a place in the order, the first and last place of its
subtree, and the number of black nodes on a way down from it. `Shape` says when links and labels
agree: a child's subtree is the part of its parent's on its side (`Leads`), the root's
begins at 1, no two elements share a place. `Balanced` and `Reds` say what the black
counts of neighbours have to do with each other, except along one link that is a
black node short while `erase_color` is at work, or below one red node while `insert`
is. `Sorted` ties places to keys, `Ends` and `Visits` the remembered ends and the
iterator to places.

Each step of the code then changes few labels. A rotation moves the edges of two
subtrees and no place; a change of colour moves a black count or two; linking an
element makes room for one place, removing one closes the gap; a successor that takes
the place of the removed element takes its labels. From that the places are seen to be
1 to the number of elements without a gap, in an order only insertion and removal
change: this is what `EndsRemembered`, `NoneSkipped` and the refinement are about.

Loops and recursion need one idea more. The width of the subtree at hand, last place
minus first, grows with each pass of `insert` and of `erase_color` and shrinks on every
way down, so it bounds the loops: `Passes` are enough. The recursive functions of the
model (`Extreme`, `Step`, `Get`, `Place`, `InOrder`, `BlackHeight`) are compared to a
function that is known: for a step that descends along a measure there is a function that
follows it to its end (`WalkExists`, an induction over numbers), and so what the
recursion chooses satisfies its equation and is unique. `InOrder` is then the
list of the elements by their places, and a step of the map a step of `OrderedMap`.

**HashMap** (with `Lists` and `BitOrder`). `OrderTheorem` says of `order()` what its
comment does (bitorder.h:8), and that it is the least: the bytes shifted out and the
entry of the rest are at most one bit short (`ShiftedFits`, an induction over n), and the test
behind the loop adds it. `calc_initsize` starts with the size asked for only because of
that. From `HashMapAssumption`: masks are in range, elements and
lists are apart and nullptr is neither, hashes are natural numbers. The elements may be
infinitely many; those in the map are finitely many because they came one by one.
`HashInv` says that there are a place and a rank for each element. `Strung`: in each
list the links lead from higher ranks down, leaving none out, and all of `Lists` is
shown to keep that, with an element above all others (`PushStrung`) or one taken out
(`CutStrung`); `Backed` adds the links back of the variant over `list`. Ranks make the
chains finite, and that one cell at most points at an element, whether or not it
knows which. `Placed`: an element is where its hash leads to or, if `expand` moved it,
where half the mask does; of one key, all but one have been moved. That would not be
inductive, for `get` and the removals take the first of a key they come to: if elements
that have been moved could stand before one that came later, `replace` would remove
the wrong one. So it also says that they stand behind, which holds because everything
that comes in goes to the front. `Stands`: what the iterator has come to is before it,
by list and then by rank, and what is owed behind.

`expand` is a recursion over the elements in order. `EverythingIs` says that those are
all elements, each once, since lists are apart, and `MovedSound` that pushing them one
by one to an empty array gives links that follow the places of the old mask. The
recursive functions, chains included, are shown to exist by an induction on a measure
(`RecursionExists`), as in `MapProofs`.

### Only model-checked

* `Served` and `Answered`: liveness under fairness is out of the prover's reach.
* `Parsed` of `ConfigFile`: what `GetToken` makes of every text is an induction over
  it; the library's theorems on induction over data take an operator as parameter, which
  the installed provers cannot instantiate.
* `ConnectOk`, `NoOversleep` and `FreeFinds` fail; their runs show how.

## Plan

What the plan asked for is modelled, and proved as far as the prover reaches: liveness
and `Parsed` stay with TLC. A component to take up next would be `stlist`, should the
library come to use it.

## Not modelled

* **listener.** Nothing in the repository uses it, and `listen_at` does not compile:
  `callback` is a member function that is not static (socket.h:207), and the backlog
  is passed as a timer manager (socket.h:254). What it does is on the list of hazards
  all the same: `accept_handler` answers poll_close by `close()`, whose
  `reactor::close` fails because the outer one has already taken the descriptor
  out of the epoll set, so `_fd` is never closed (socket.cpp:271).
* **hashmap as it stands** compiles in no program: `check_free` (hashmap.h:233),
  `typeof_container` and `typeof_member` (hashmap.h:530) are defined nowhere. The
  model is of the code as it reads.
* **config_file.** Positions and wording of messages; a read error, which the code
  takes for the end of the file. A line may begin with a stray `>`, which
  the code passes over; the table of the run has that for its meaning.
* **bitorder**: numbers above 2^63, for which `1UL << r` is undefined.
* **page_allocator**: growth and teardown of segments, and a failing mmap, to which
  nothing in the code reacts. **reactor**: `modify`, the limits on descriptors,
  errors of epoll_wait.
* **list.h**: `insert_front` and `insert_back` at an element, `swap` and assignment;
  `stlist`, which only its test links elements into.
* **cache and memory**: a free list per size over a pool, without merging or limits.
* **module**: the order of start-up is the linker's. With module.cpp linked first the
  exit signal is emitted (module.cpp:29) after the object that holds it was destroyed.
* **printf, stream, log, crc, functor, member, tuple_apply, allocator adaptors**:
  formatting, tables and compile-time adaptors, which keep no state of their own.
