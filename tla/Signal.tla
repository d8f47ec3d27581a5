------------------------------- MODULE Signal -------------------------------
(***************************************************************************)
(* signal (src/libll++/slotsig.h): emit calls the closure of every slot in *)
(* a list, and the closures are client code, which connects, disconnects   *)
(* and emits while the emission that called it stands in the list.  Both   *)
(* variants of the list signal are here: one owns slots and closures and   *)
(* deletes them on disconnect, one only links those of its client.  A      *)
(* second signal holds one closure (__once).                               *)
(*                                                                         *)
(* The client disconnects slots that are connected and connects those that *)
(* are not.  It may disconnect the slot that is being called.              *)
(***************************************************************************)
EXTENDS CList

CONSTANTS
    Closure,        \* closures for the signal of one closure (bound)
    None,           \* no closure
    MaxDepth,       \* emissions inside each other (bound)
    MaxConnects     \* calls of connect (bound)

ASSUME SignalAssumption ==
    Anchor \notin Entry /\ None \notin Closure /\ MaxDepth \in Nat /\ MaxConnects \in Nat

VARIABLES
    owning,         \* which variant: slots and closures belong to the signal
    list,           \* _list, and the links of slots out of it
    allocated,      \* slots that exist (all of them, when they are the client's)
    once,           \* _closure of the other signal
    closures,       \* its closures that exist
    stack,          \* the emissions under way, the inner ones last
    lost,           \* memory that was freed has been used: anything may follow
    connects        \* calls of connect made

vars == <<owning, list, allocated, once, closures, stack, lost, connects>>

\* An emission: the slot being called; the direction; whether a result may end
\* it, or it disconnects as it goes; what became of that slot since: "in" the
\* list, "out" of it and the list unchanged after, or "astray"; the slots due, as
\* they were connected when it began and still are; those called.
Frame == [at : Entry, dir : {"next", "prev"}, stops : BOOLEAN, drains : BOOLEAN,
          self : {"in", "out", "astray"}, due : SUBSET Entry, called : SUBSET Entry]
OnceFrame == [closure : Closure]

Connected == From(list, "next", list.next[Anchor])

Init ==
    /\ owning \in BOOLEAN
    /\ list = NewList
    /\ allocated = IF owning THEN {} ELSE Entry
    /\ once = None
    /\ closures = IF owning THEN {} ELSE Closure
    /\ stack = <<>> /\ lost = FALSE /\ connects = 0

-----------------------------------------------------------------------------
(* What the client calls, between emissions or from a closure. *)

OfList(f) == "at" \in DOMAIN f
OnEvery(Op(_)) == [i \in DOMAIN stack |-> IF OfList(stack[i]) THEN Op(stack[i]) ELSE stack[i]]

\* How the emissions under way take a change of the list.
Changed(f) == [f EXCEPT !.self = IF @ = "in" THEN "in" ELSE "astray"]
Without(s, f) ==
    [f EXCEPT !.self = IF @ = "in" /\ f.at = s THEN "out" ELSE Changed(f).self,
              !.due = @ \ {s}, !.called = @ \ {s}]
Emptied(f) == [f EXCEPT !.self = "astray", !.due = {}, !.called = {}]

Connect(s) ==
    /\ connects < MaxConnects
    /\ s \notin (IF owning THEN allocated ELSE Connected)
    /\ connects' = connects + 1
    /\ allocated' = allocated \cup {s}
    /\ list' = PushBack(list, s)
    /\ stack' = OnEvery(Changed)
    /\ UNCHANGED <<owning, once, closures, lost>>

Disconnect(s) ==
    /\ s \in Connected
    /\ list' = Unlink(list, s)
    /\ allocated' = IF owning THEN allocated \ {s} ELSE allocated
    /\ stack' = OnEvery(LAMBDA f : Without(s, f))
    /\ UNCHANGED <<owning, once, closures, lost, connects>>

\* disconnect of each slot, or init of the list, which leaves their links.
DisconnectAll ==
    /\ Connected # {}
    /\ list' = Forget(list)
    /\ allocated' = IF owning THEN allocated \ Connected ELSE allocated
    /\ stack' = OnEvery(Emptied)
    /\ UNCHANGED <<owning, once, closures, lost, connects>>

\* emit for d = "next", remit for "prev"; emit_and_disconnect drains.  An empty
\* signal calls nobody.
Emit(d, stops, drains) ==
    /\ Len(stack) < MaxDepth /\ Connected # {}
    /\ drains => owning /\ d = "next" /\ ~stops
    /\ LET first == list[d][Anchor]
       IN  stack' = Append(stack, [at |-> first, dir |-> d, stops |-> stops, drains |-> drains,
                                   self |-> "in", due |-> Connected \ {first}, called |-> {first}])
    /\ UNCHANGED <<owning, list, allocated, once, closures, lost, connects>>

\* The signal of one closure: connect deletes the one before, if it owns it.
OnceConnect(c) ==
    /\ connects < MaxConnects
    /\ IF owning THEN c \notin closures ELSE c # once
    /\ connects' = connects + 1
    /\ once' = c
    /\ closures' = IF owning THEN (closures \ {once}) \cup {c} ELSE closures
    /\ UNCHANGED <<owning, list, allocated, stack, lost>>

OnceDisconnect ==
    /\ once # None
    /\ once' = None
    /\ closures' = IF owning THEN closures \ {once} ELSE closures
    /\ UNCHANGED <<owning, list, allocated, stack, lost, connects>>

OnceEmit ==
    /\ Len(stack) < MaxDepth /\ once # None
    /\ stack' = Append(stack, [closure |-> once])
    /\ UNCHANGED <<owning, list, allocated, once, closures, lost, connects>>

-----------------------------------------------------------------------------
(* A closure returns to the emission that called it. *)

Top == stack[Len(stack)]
Outer == SubSeq(stack, 1, Len(stack) - 1)

\* Mutant: the next slot is the first, as if the list had been walked anew.
ResumeFirst(f, s) ==
    IF s = Anchor THEN Outer
    ELSE Append(Outer, [f EXCEPT !.at = list.next[Anchor], !.self = "in",
                                 !.due = @ \ {s}, !.called = @ \cup {s}])

\* The emission goes on to slot s, or ends at the list.
Resume(f, s) ==
    IF s = Anchor THEN Outer
    ELSE Append(Outer, [f EXCEPT !.at = s, !.self = IF @ = "astray" THEN @ ELSE "in",
                                 !.due = @ \ {s}, !.called = @ \cup {s}])

\* ++it reads the links of the slot just called.
Advance ==
    /\ OfList(Top) /\ ~Top.drains /\ Top.at \in allocated
    /\ stack' = Resume(Top, list[Top.dir][Top.at])
    /\ UNCHANGED <<owning, list, allocated, once, closures, lost, connects>>

\* A result ends the emission.
StopHere ==
    /\ OfList(Top) /\ Top.stops
    /\ stack' = Outer
    /\ UNCHANGED <<owning, list, allocated, once, closures, lost, connects>>

\* emit_and_disconnect disconnects the slot it called and takes the first left.
Drain ==
    /\ OfList(Top) /\ Top.drains /\ Top.at \in Connected
    /\ LET s == Top.at
           rest == Unlink(list, s)
           others == OnEvery(LAMBDA f : Without(s, f))
           top == others[Len(stack)]
           first == rest.next[Anchor]
       IN  /\ list' = rest
           /\ allocated' = allocated \ {s}
           /\ stack' = IF first = Anchor THEN SubSeq(others, 1, Len(stack) - 1)
                       ELSE [others EXCEPT ![Len(stack)] =
                                [top EXCEPT !.at = first, !.self = "in", !.due = @ \ {first},
                                            !.called = @ \cup {first}]]
    /\ UNCHANGED <<owning, once, closures, lost, connects>>

\* The slot is gone: its links are read, or it is freed once more.
UseFreed ==
    /\ OfList(Top) /\ Top.at \notin allocated
    /\ lost' = TRUE
    /\ UNCHANGED <<owning, list, allocated, once, closures, stack, connects>>

OnceReturn ==
    /\ ~OfList(Top)
    /\ stack' = Outer
    /\ UNCHANGED <<owning, list, allocated, once, closures, lost, connects>>

Client ==
    \/ \E s \in Entry : Connect(s) \/ Disconnect(s)
    \/ DisconnectAll
    \/ \E d \in {"next", "prev"}, stops, drains \in BOOLEAN : Emit(d, stops, drains)
    \/ \E c \in Closure : OnceConnect(c)
    \/ OnceDisconnect \/ OnceEmit

Return == stack # <<>> /\ (Advance \/ StopHere \/ Drain \/ UseFreed \/ OnceReturn)

Next == ~lost /\ (Client \/ Return)

Spec == Init /\ [][Next]_vars

-----------------------------------------------------------------------------
(* What must hold. *)

TypeOK ==
    /\ list \in CList /\ allocated \subseteq Entry /\ closures \subseteq Closure
    /\ once \in Closure \cup {None}
    /\ \A i \in DOMAIN stack : stack[i] \in Frame \cup OnceFrame

\* Whatever the closures connect, disconnect and emit in the middle of
\* emissions, the list stays closed in both directions, and a signal that owns
\* its slots and closures has allocated exactly those connected: none leaks, none
\* is in the list after it was freed.
Held ==
    /\ TypeOK
    /\ \A e \in Connected \cup {Anchor} : list.prev[list.next[e]] = e /\ list.next[list.prev[e]] = e
    /\ owning => allocated = Connected /\ closures = {once} \ {None}

\* The slots an emission has yet to call are ahead of it, whatever its closures
\* do to other slots: each slot connected from its beginning to its end is
\* called once.  A closure may even disconnect its own slot, where the client
\* owns the slot and the list does not change again before the closure returns;
\* where the signal owns it, the emission goes on from freed memory.
Delivered ==
    \A i \in DOMAIN stack : OfList(stack[i]) =>
        LET f == stack[i]
            onward == From(list, f.dir, list[f.dir][f.at])
        IN  f.self = "astray" \/ f.at \notin allocated \/
            /\ f.self = "in" => f.at \in Connected
            /\ f.due \subseteq onward
            /\ onward \cap f.called = {}

\* Freed memory is used only by an emission whose own slot was disconnected
\* during the call of it: disconnecting the slots around it is safe.
LostByOwnSlot ==
    lost => OfList(Top) /\ Top.self # "in"
=============================================================================
