--------------------------- MODULE ConnectorProofs ---------------------------
(***************************************************************************)
(* Theorems about Connector for any connectors, descriptors, timeouts and  *)
(* intervals: who owns which socket, timer and idle callback through every *)
(* nesting of handlers and reuse of descriptors, and that the connectors   *)
(* implement ConnectService.                                               *)
(***************************************************************************)
EXTENDS Connector, Lemmas

-----------------------------------------------------------------------------
(* The inductive invariant. *)

Calls == ToSet(stack)

\* Where the call of c in s is, "idle" when there is none.
AtIn(s, c) ==
    IF \E f \in ToSet(s) : f.c = c THEN (CHOOSE f \in ToSet(s) : f.c = c).at ELSE "idle"

At(c) == AtIn(stack, c)

\* Calls the loops make: nothing is under way below them.
FromLoop(f) == f.by = "timer" \/ f.at = "io"

\* No connector is in two of the calls of s.
Nested(s) ==
    /\ \A i, j \in DOMAIN s : s[i].c = s[j].c => i = j
    /\ \A i \in DOMAIN s : FromLoop(s[i]) => i = Len(s)

\* The handlers of events run while the batch holds the event.
StackOK ==
    /\ Nested(stack)
    /\ \A f \in Calls :
        /\ f.at = "io" <=> f.c = Client
        /\ f.at \in {"timeout", "failed", "out"} => f.by = "timer"
        /\ f.at \in {"failed", "io"} => pc = "batch" /\ batch # <<>>

\* A descriptor and its connector refer to each other, and each open socket is
\* a connector's or the client's.
Owned ==
    /\ \A c \in Connector, fd \in Fd : cfd[c] = fd <=> io[fd] = c
    /\ \A fd \in Fd :
        /\ io[fd] = Client => fd \in client
        /\ io[fd] \in Connector => fd \notin client
        /\ (sock[fd] # "closed") <=> (io[fd] \in Connector \/ fd \in client)

\* Events come for registered descriptors that are connected or refused, once a
\* batch; later only a registration during the batch can say otherwise.
Settled == {"up", "refused"}

ReadyEvents ==
    \A fd \in ready : io[fd] # None /\ (io[fd] \in Connector => sock[fd] \in Settled)

BatchEvents ==
    /\ \A i, j \in DOMAIN batch : batch[i].fd = batch[j].fd => i = j
    /\ \A e \in ToSet(batch) :
        io[e.fd] \in Connector /\ e.fd \notin reused => sock[e.fd] \in Settled

\* What a connector holds at each point of a call, and between calls.
Holds(c) ==
    /\ emitting[c] <=> At(c) \in {"refused", "timeout", "failed", "out"}
    /\ At(c) # "idle" => alive[c] = "live" /\ timer[c] = None
    /\ At(c) = "connect" => cfd[c] = None /\ told[c] \in {"none", "err", "lost"}
    /\ At(c) = "open" =>
        \/ told[c] = "open" /\ cfd[c] # None /\ sock[cfd[c]] = "fresh"
        \/ told[c] = "none" /\ cfd[c] = None
    /\ At(c) \in {"refused", "timeout", "failed"} => told[c] = "err" /\ cfd[c] # None
    /\ At(c) = "out" => told[c] = "out" /\ cfd[c] = None
    /\ At(c) = "idle" =>
        /\ told[c] # "out"
        /\ told[c] = "open" <=> cfd[c] # None
        /\ told[c] = "end" => timer[c] = None
        /\ told[c] = "err" /\ c \in Interval => timer[c] = "timer"
        /\ alive[c] = "new" => told[c] = "none" /\ timer[c] = None
        /\ alive[c] = "deleted" => told[c] = "end"
    /\ sched[c] = IF timer[c] = "timer" THEN 1 ELSE 0

\* A descriptor on its way to the client has no event left in the batch.
ReadyOK(c) ==
    timer[c] = "idle" =>
        /\ cfd[c] # None /\ pc \in {"batch", "idle1"}
        /\ \A e \in ToSet(batch) : e.fd # cfd[c]
        /\ sock[cfd[c]] = "up" \/ cfd[c] \in reused

IdlesOK ==
    /\ IsInjective(idles)
    /\ \A c \in Connector :
        /\ <<c, "ready">> \in ToSet(idles) <=> timer[c] = "idle"
        /\ <<c, "delete">> \in ToSet(idles) <=> told[c] = "end" /\ alive[c] = "live"

IInv ==
    /\ TypeOK /\ StackOK /\ Owned /\ ReadyEvents /\ BatchEvents /\ IdlesOK
    /\ \A c \in Connector : Holds(c) /\ ReadyOK(c)

-----------------------------------------------------------------------------
(* The stack of calls. *)

LEMMA FrameType ==
    /\ \A f \in Frame : f.c \in Handler
    /\ \A f \in Frame : f.at \in {"connect", "open", "refused", "timeout", "failed", "out", "io"}
    /\ \A c \in Handler, at \in {"connect", "open", "refused", "timeout", "failed", "out", "io"},
          by \in {"client", "timer"} :
          LET f == [c |-> c, at |-> at, by |-> by]
          IN  f \in Frame /\ f.c = c /\ f.at = at /\ f.by = by
    /\ Connector \subseteq Handler /\ Client \in Handler /\ Client \notin Connector
  BY ConnectorAssumption DEF Frame

LEMMA NestedDistinct ==
    ASSUME NEW s \in Seq(Frame), Nested(s)
    PROVE  /\ IsInjective(s)
           /\ \A f, g \in ToSet(s) : f.c = g.c => f = g
           /\ \A f \in ToSet(s) : AtIn(s, f.c) = f.at
  <1>1. IsInjective(s)
    BY DEF Nested, IsInjective
  <1>2. \A f, g \in ToSet(s) : f.c = g.c => f = g
    BY DEF Nested, ToSet
  <1>3. ASSUME NEW f \in ToSet(s) PROVE AtIn(s, f.c) = f.at
    <2>1. (CHOOSE g \in ToSet(s) : g.c = f.c) = f
      BY <1>2
    <2> QED BY <2>1 DEF AtIn
  <1> QED BY <1>1, <1>2, <1>3

LEMMA AtEmpty == \A c : AtIn(<<>>, c) = "idle"
  BY SetOfEmpty DEF AtIn

\* A call begins.
LEMMA PushCall ==
    ASSUME NEW s \in Seq(Frame), Nested(s), NEW f \in Frame,
           \A g \in ToSet(s) : g.c # f.c,
           FromLoop(f) => s = <<>>
    PROVE  LET r == <<f>> \o s IN
           /\ r \in Seq(Frame) /\ Nested(r) /\ ToSet(r) = ToSet(s) \cup {f}
           /\ AtIn(r, f.c) = f.at
           /\ \A c : c # f.c => AtIn(r, c) = AtIn(s, c)
  <1> DEFINE r == <<f>> \o s
  <1>0. Len(s) \in Nat /\ DOMAIN s = 1..Len(s)
    BY LenProperties
  <1>1. /\ r \in Seq(Frame) /\ Len(r) = Len(s) + 1 /\ r[1] = f
        /\ \A i \in 1..Len(s) : r[i + 1] = s[i]
        /\ ToSet(r) = ToSet(s) \cup {f}
    BY ConsProps
  <1>2. DOMAIN r = 1..(Len(s) + 1)
    BY <1>1, LenProperties
  <1> HIDE DEF r
  <1>3. ASSUME NEW i \in 1..(Len(s) + 1), i # 1
        PROVE  i - 1 \in DOMAIN s /\ r[i] = s[i - 1] /\ s[i - 1] \in ToSet(s)
    <2>1. i - 1 \in 1..Len(s) /\ (i - 1) + 1 = i
      BY <1>0, <1>3
    <2> QED BY <1>0, <1>1, <2>1, SetOfSeq
  <1>4. ASSUME NEW i \in DOMAIN r, NEW j \in DOMAIN r, r[i].c = r[j].c PROVE i = j
    <2>1. CASE i = 1 \/ j = 1
      BY <1>1, <1>2, <1>3, <1>4, <2>1
    <2>2. CASE i # 1 /\ j # 1
      <3>1. i - 1 = j - 1
        BY <1>2, <1>3, <1>4, <2>2 DEF Nested
      <3> QED BY <1>0, <1>2, <3>1
    <2> QED BY <2>1, <2>2
  <1>5. ASSUME NEW i \in DOMAIN r, FromLoop(r[i]) PROVE i = Len(r)
    <2>1. CASE i = 1
      <3>1. s = <<>>
        BY <1>1, <1>5, <2>1
      <3>2. Len(s) = 0
        BY <3>1
      <3> QED BY <1>1, <2>1, <3>2
    <2>2. CASE i # 1
      <3>1. i - 1 = Len(s)
        BY <1>2, <1>3, <1>5, <2>2 DEF Nested
      <3> QED BY <1>0, <1>1, <1>2, <3>1
    <2> QED BY <2>1, <2>2
  <1>6. Nested(r)
    BY <1>4, <1>5 DEF Nested
  <1>7. AtIn(r, f.c) = f.at
    BY <1>1, <1>6, NestedDistinct
  <1>8. ASSUME NEW c, c # f.c PROVE AtIn(r, c) = AtIn(s, c)
    <2>1. \A g : (g \in ToSet(r) /\ g.c = c) <=> (g \in ToSet(s) /\ g.c = c)
      BY <1>1, <1>8
    <2>2. CASE \E g \in ToSet(s) : g.c = c
      <3>1. PICK g \in ToSet(s) : g.c = c
        BY <2>2
      <3>2. g \in ToSet(r)
        BY <1>1
      <3> QED BY <1>1, <1>6, <3>1, <3>2, NestedDistinct
    <2>3. CASE ~ \E g \in ToSet(s) : g.c = c
      BY <2>1, <2>3 DEF AtIn
    <2> QED BY <2>2, <2>3
  <1> QED BY <1>1, <1>6, <1>7, <1>8 DEF r

\* A call returns.
LEMMA PopCall ==
    ASSUME NEW s \in Seq(Frame), Nested(s), s # <<>>
    PROVE  LET r == Tail(s)  f == Head(s) IN
           /\ f \in Frame /\ f \in ToSet(s) /\ AtIn(s, f.c) = f.at
           /\ r \in Seq(Frame) /\ Nested(r) /\ ToSet(r) = ToSet(s) \ {f}
           /\ AtIn(r, f.c) = "idle"
           /\ \A c : c # f.c => AtIn(r, c) = AtIn(s, c)
           /\ \A g \in ToSet(r) : g.c # f.c
           /\ FromLoop(f) => r = <<>>
  <1> DEFINE r == Tail(s)  f == Head(s)
  <1>0. Len(s) \in Nat \ {0} /\ DOMAIN s = 1..Len(s) /\ f = s[1]
    BY LenProperties, EmptySeq
  <1>1. IsInjective(s) /\ \A g, h \in ToSet(s) : g.c = h.c => g = h
    BY NestedDistinct
  <1>2. /\ f \in ToSet(s) /\ f \in Frame /\ r \in Seq(Frame)
        /\ ToSet(r) = ToSet(s) \ {f}
    BY <1>1, TailProps
  <1>3. /\ Len(r) = Len(s) - 1 /\ DOMAIN r = 1..(Len(s) - 1)
        /\ \A i \in 1..(Len(s) - 1) : r[i] = s[i + 1]
    BY HeadTailProperties, LenProperties
  <1>4. AtIn(s, f.c) = f.at
    BY <1>2, NestedDistinct
  <1> HIDE DEF r, f
  <1>5. Nested(r)
    <2>1. ASSUME NEW i \in DOMAIN r
          PROVE  i + 1 \in DOMAIN s /\ r[i] = s[i + 1]
      BY <1>0, <1>3
    <2>2. ASSUME NEW i \in DOMAIN r, NEW j \in DOMAIN r, r[i].c = r[j].c PROVE i = j
      <3>1. i + 1 = j + 1
        BY <2>1, <2>2 DEF Nested
      <3> QED BY <1>0, <1>3, <3>1
    <2>3. ASSUME NEW i \in DOMAIN r, FromLoop(r[i]) PROVE i = Len(r)
      <3>1. i + 1 = Len(s)
        BY <2>1, <2>3 DEF Nested
      <3> QED BY <1>0, <1>3, <3>1
    <2> QED BY <2>2, <2>3 DEF Nested
  <1>6. \A g \in ToSet(r) : g.c # f.c
    BY <1>1, <1>2
  <1>7. AtIn(r, f.c) = "idle"
    BY <1>6 DEF AtIn
  <1>8. ASSUME NEW c, c # f.c PROVE AtIn(r, c) = AtIn(s, c)
    <2>1. \A g : (g \in ToSet(r) /\ g.c = c) <=> (g \in ToSet(s) /\ g.c = c)
      BY <1>2, <1>8
    <2>2. CASE \E g \in ToSet(s) : g.c = c
      <3>1. PICK g \in ToSet(s) : g.c = c
        BY <2>2
      <3>2. g \in ToSet(r)
        BY <2>1, <3>1
      <3> QED BY <1>2, <1>5, <3>1, <3>2, NestedDistinct
    <2>3. CASE ~ \E g \in ToSet(s) : g.c = c
      BY <2>1, <2>3 DEF AtIn
    <2> QED BY <2>2, <2>3
  <1>9. FromLoop(f) => r = <<>>
    <2>1. FromLoop(f) => Len(s) = 1
      BY <1>0 DEF Nested
    <2>2. Len(s) = 1 => Len(r) = 0
      <3>1. Len(r) = Len(s) - 1
        BY <1>3
      <3> QED BY <1>0, <3>1
    <2>3. Len(r) = 0 => r = <<>>
      BY <1>2, EmptySeq
    <2> QED BY <2>1, <2>2, <2>3
  <1> QED BY <1>2, <1>4, <1>5, <1>6, <1>7, <1>8, <1>9 DEF r, f

\* A call goes on to another point.
LEMMA MoveCall ==
    ASSUME NEW s \in Seq(Frame), Nested(s), s # <<>>,
           NEW at \in {"connect", "open", "refused"}
    PROVE  LET f == Head(s)
               g == [f EXCEPT !.at = at]
               r == <<g>> \o Tail(s) IN
           /\ f \in ToSet(s) /\ AtIn(s, f.c) = f.at
           /\ g \in Frame /\ g.c = f.c /\ g.by = f.by /\ g.at = at
           /\ r \in Seq(Frame) /\ Nested(r) /\ ToSet(r) = (ToSet(s) \ {f}) \cup {g}
           /\ AtIn(r, f.c) = at
           /\ \A c : c # f.c => AtIn(r, c) = AtIn(s, c)
  <1> DEFINE f == Head(s)
             g == [f EXCEPT !.at = at]
             t == Tail(s)
  <1>1. /\ f \in Frame /\ f \in ToSet(s) /\ AtIn(s, f.c) = f.at
        /\ t \in Seq(Frame) /\ Nested(t) /\ ToSet(t) = ToSet(s) \ {f}
        /\ AtIn(t, f.c) = "idle"
        /\ \A c : c # f.c => AtIn(t, c) = AtIn(s, c)
        /\ \A h \in ToSet(t) : h.c # f.c
        /\ FromLoop(f) => t = <<>>
    BY PopCall
  <1> HIDE DEF f, t
  <1>2. g \in Frame /\ g.c = f.c /\ g.by = f.by /\ g.at = at
    BY <1>1 DEF Frame
  <1> HIDE DEF g
  <1>3. FromLoop(g) => FromLoop(f)
    BY <1>2 DEF FromLoop
  <1>4. /\ <<g>> \o t \in Seq(Frame) /\ Nested(<<g>> \o t)
        /\ ToSet(<<g>> \o t) = ToSet(t) \cup {g}
        /\ AtIn(<<g>> \o t, g.c) = g.at
        /\ \A c : c # g.c => AtIn(<<g>> \o t, c) = AtIn(t, c)
    BY <1>1, <1>2, <1>3, PushCall
  <1> QED BY <1>1, <1>2, <1>4 DEF f, g, t

\* In a state that satisfies the invariant a connector without a call is idle.
LEMMA IdlingAt ==
    ASSUME stack \in Seq(Frame), Nested(stack), NEW c
    PROVE  /\ Idling(c) <=> At(c) = "idle"
           /\ At(c) = "idle" <=> \A f \in Calls : f.c # c
  <1>1. Idling(c) <=> \A f \in Calls : f.c # c
    BY DEF Idling, Calls, ToSet
  <1>2. (\A f \in Calls : f.c # c) => At(c) = "idle"
    BY DEF At, AtIn, Calls
  <1>3. ASSUME NEW f \in Calls, f.c = c PROVE At(c) # "idle"
    <2>1. f \in Frame /\ At(c) = f.at
      BY <1>3, NestedDistinct, SetOfSeq DEF At, Calls
    <2> QED BY <2>1, FrameType
  <1> QED BY <1>1, <1>2, <1>3

\* A connector's handler is never called as the client's own.
LEMMA ConnectorAt ==
    ASSUME TypeOK, StackOK, NEW c \in Connector
    PROVE  At(c) \in {"idle", "connect", "open", "refused", "timeout", "failed", "out"}
  <1>1. CASE \E f \in Calls : f.c = c
    <2>1. PICK f \in Calls : f.c = c
      BY <1>1
    <2>2. f \in Frame /\ At(c) = f.at
      BY <2>1, NestedDistinct, SetOfSeq DEF At, Calls, TypeOK, StackOK
    <2>3. f.at # "io"
      BY <2>1, ConnectorAssumption DEF StackOK
    <2> QED BY <2>2, <2>3, FrameType
  <1>2. CASE ~ \E f \in Calls : f.c = c
    BY <1>2 DEF At, AtIn, Calls
  <1> QED BY <1>1, <1>2

\* The innermost call returns; it handled an event if the event is gone.
LEMMA ReturnCall ==
    ASSUME TypeOK, StackOK, NEW c, NEW at, In(c, at), Return,
           pc' = pc, batch' = batch \/ at \in {"failed", "io"}
    PROVE  /\ stack' \in Seq(Frame) /\ StackOK'
           /\ At(c) = at /\ At(c)' = "idle"
           /\ \A d : d # c => At(d)' = At(d)
           /\ Head(stack) \in Frame
           /\ at \in {"timeout", "failed", "out", "io"} => stack' = <<>>
  <1> DEFINE f == Head(stack)
  <1>1. stack \in Seq(Frame) /\ Nested(stack) /\ stack # <<>> /\ f.c = c /\ f.at = at
    BY DEF TypeOK, StackOK, In
  <1>2. /\ f \in Frame /\ f \in Calls /\ At(c) = at
        /\ stack' \in Seq(Frame) /\ Nested(stack') /\ Calls' = Calls \ {f}
        /\ At(c)' = "idle"
        /\ \A d : d # c => At(d)' = At(d)
        /\ FromLoop(f) => stack' = <<>>
    <2> DEFINE r == Tail(stack)
    <2>1. /\ f \in Frame /\ f \in ToSet(stack) /\ AtIn(stack, f.c) = f.at
          /\ r \in Seq(Frame) /\ Nested(r) /\ ToSet(r) = ToSet(stack) \ {f}
          /\ AtIn(r, f.c) = "idle"
          /\ \A d : d # f.c => AtIn(r, d) = AtIn(stack, d)
          /\ FromLoop(f) => r = <<>>
      BY <1>1, PopCall
    <2>2. stack' = r
      BY DEF Return
    <2> HIDE DEF r, f
    <2> QED BY <1>1, <2>1, <2>2 DEF At, Calls
  <1> HIDE DEF f
  <1>3. at \in {"timeout", "failed", "out", "io"} => stack' = <<>>
    BY <1>1, <1>2 DEF StackOK, FromLoop
  <1>4. stack' = <<>> => Calls' = {}
    BY SetOfEmpty DEF Calls
  <1>5. StackOK'
    BY <1>2, <1>3, <1>4 DEF StackOK
  <1> QED BY <1>1, <1>2, <1>3, <1>5 DEF f

\* The innermost call goes on to another point of connect().
LEMMA BecomeCall ==
    ASSUME TypeOK, StackOK, NEW c \in Connector, NEW at, In(c, at),
           NEW to \in {"connect", "open", "refused"}, Become(to),
           UNCHANGED <<pc, batch>>
    PROVE  /\ stack' \in Seq(Frame) /\ StackOK'
           /\ At(c) = at /\ At(c)' = to
           /\ \A d : d # c => At(d)' = At(d)
  <1> DEFINE f == Head(stack)
             g == [f EXCEPT !.at = to]
  <1>1. stack \in Seq(Frame) /\ Nested(stack) /\ stack # <<>> /\ f.c = c /\ f.at = at
    BY DEF TypeOK, StackOK, In
  <1>2. /\ f \in Calls /\ At(c) = at
        /\ g \in Frame /\ g.c = c /\ g.by = f.by /\ g.at = to
        /\ stack' \in Seq(Frame) /\ Nested(stack')
        /\ Calls' = (Calls \ {f}) \cup {g}
        /\ At(c)' = to
        /\ \A d : d # c => At(d)' = At(d)
    <2> DEFINE r == <<g>> \o Tail(stack)
    <2>1. /\ f \in ToSet(stack) /\ AtIn(stack, f.c) = f.at
          /\ g \in Frame /\ g.c = f.c /\ g.by = f.by /\ g.at = to
          /\ r \in Seq(Frame) /\ Nested(r) /\ ToSet(r) = (ToSet(stack) \ {f}) \cup {g}
          /\ AtIn(r, f.c) = to
          /\ \A d : d # f.c => AtIn(r, d) = AtIn(stack, d)
      BY <1>1, MoveCall
    <2>2. stack' = r
      BY DEF Become
    <2> HIDE DEF r, f, g
    <2> QED BY <1>1, <2>1, <2>2 DEF At, Calls
  <1> HIDE DEF f, g
  <1>3. StackOK'
    BY <1>1, <1>2, FrameType DEF StackOK
  <1> QED BY <1>1, <1>2, <1>3

\* A call begins for one that is in none.
LEMMA PushedCall ==
    ASSUME TypeOK, StackOK, NEW c \in Handler, At(c) = "idle",
           NEW at \in {"connect", "open", "refused", "timeout", "failed", "out", "io"},
           NEW by \in {"client", "timer"}, Push(c, at, by),
           by = "timer" \/ at = "io" => stack = <<>>,
           at = "io" <=> c = Client,
           at \in {"timeout", "failed", "out"} => by = "timer",
           at \in {"failed", "io"} => pc = "batch" /\ batch # <<>>,
           UNCHANGED <<pc, batch>>
    PROVE  /\ stack' \in Seq(Frame) /\ StackOK'
           /\ At(c)' = at
           /\ \A d : d # c => At(d)' = At(d)
  <1> DEFINE f == [c |-> c, at |-> at, by |-> by]
  <1>1. f \in Frame /\ f.c = c /\ f.at = at /\ f.by = by
    BY DEF Frame
  <1>2. stack \in Seq(Frame) /\ Nested(stack) /\ stack' = <<f>> \o stack
    BY DEF TypeOK, StackOK, Push
  <1> HIDE DEF f
  <1>3. /\ \A g \in ToSet(stack) : g.c # f.c
        /\ FromLoop(f) => stack = <<>>
    BY <1>1, <1>2, IdlingAt DEF FromLoop, Calls
  <1>4. /\ stack' \in Seq(Frame) /\ Nested(stack') /\ Calls' = Calls \cup {f}
        /\ At(f.c)' = f.at
        /\ \A d : d # f.c => At(d)' = At(d)
    BY <1>1, <1>2, <1>3, PushCall DEF At, Calls
  <1>5. StackOK'
    BY <1>1, <1>4 DEF StackOK
  <1> QED BY <1>1, <1>4, <1>5

-----------------------------------------------------------------------------
(* What a step on one connector leaves of the others. *)

\* The step leaves c alone.
Same(c) ==
    /\ At(c)' = At(c) /\ emitting'[c] = emitting[c] /\ alive'[c] = alive[c]
    /\ timer'[c] = timer[c] /\ cfd'[c] = cfd[c] /\ told'[c] = told[c]
    /\ sched'[c] = sched[c]
    /\ cfd[c] # None => sock'[cfd[c]] = sock[cfd[c]]

LEMMA SameKept ==
    ASSUME NEW c \in Connector, Holds(c), ReadyOK(c), Same(c), pc' = pc,
           ToSet(batch') \subseteq ToSet(batch), reused \subseteq reused'
    PROVE  Holds(c)' /\ ReadyOK(c)'
  <1>1. Holds(c)'
    BY DEF Holds, Same
  <1>2. ReadyOK(c)'
    BY DEF ReadyOK, Same
  <1> QED BY <1>1, <1>2

\* Without a descriptor on its way to the client, nothing is asked.
LEMMA ReadyNone == ASSUME NEW c, timer'[c] # "idle" PROVE ReadyOK(c)'
  BY DEF ReadyOK

\* The idles stay.
LEMMA IdlesSame ==
    ASSUME IdlesOK, idles' = idles,
           \A c \in Connector :
              /\ timer'[c] = "idle" <=> timer[c] = "idle"
              /\ (told'[c] = "end" /\ alive'[c] = "live") <=> (told[c] = "end" /\ alive[c] = "live")
    PROVE  IdlesOK'
  BY DEF IdlesOK

\* callback() queues the deletion of a connector that was live.
LEMMA IdlesDelete ==
    ASSUME TypeOK, IdlesOK, NEW c \in Connector, QueueDelete(c),
           told[c] # "end", told'[c] = "end", alive'[c] = "live",
           timer'[c] = "idle" <=> timer[c] = "idle",
           \A d \in Connector \ {c} : Same(d)
    PROVE  IdlesOK' /\ idles' \in Seq(Connector \X {"ready", "delete"})
  <1> DEFINE w == <<c, "delete">>
  <1>1. w \in Connector \X {"ready", "delete"} /\ w \notin ToSet(idles)
    BY DEF IdlesOK
  <1>2. /\ idles' \in Seq(Connector \X {"ready", "delete"})
        /\ ToSet(idles') = ToSet(idles) \cup {w} /\ IsInjective(idles')
    <2>1. /\ idles \in Seq(Connector \X {"ready", "delete"}) /\ IsInjective(idles)
          /\ idles' = Append(idles, w)
      BY DEF QueueDelete, TypeOK, IdlesOK
    <2> HIDE DEF w
    <2> QED BY <1>1, <2>1, AppendProps
  <1>3. \A d \in Connector :
          /\ <<d, "ready">> # w
          /\ <<d, "delete">> = w <=> d = c
    OBVIOUS
  <1> HIDE DEF w
  <1> QED BY <1>2, <1>3 DEF IdlesOK, Same

-----------------------------------------------------------------------------
(* The reactor. *)

LEMMA NoneType ==
    /\ None \notin Handler /\ None \notin Fd /\ None \notin Connector
    /\ None # "timer" /\ None # "idle"
  BY ReactorAssumption, ConnectorAssumption

Event_ == [fd : Fd, type : {"out", "err"}]

\* Events of the batch go, descriptors are closed, opened and connected.
LEMMA BatchKept ==
    ASSUME TypeOK, BatchEvents, reused \subseteq reused',
           batch' = batch \/ (batch # <<>> /\ batch' = Tail(batch)),
           \A fd \in Fd : io'[fd] \in Connector /\ fd \notin reused' =>
              io[fd] \in Connector /\ (sock[fd] \in Settled => sock'[fd] \in Settled)
    PROVE  /\ BatchEvents' /\ batch' \in Seq(Event_)
           /\ ToSet(batch') \subseteq ToSet(batch)
           /\ batch # <<>> => /\ Event \in Event_ /\ Event \in ToSet(batch)
                              /\ batch' = Tail(batch) => \A e \in ToSet(batch') : e.fd # Event.fd
  <1>1. batch \in Seq(Event_) /\ \A e \in ToSet(batch) : e \in Event_ /\ e.fd \in Fd
    <2>1. batch \in Seq(Event_)
      BY DEF TypeOK, ReactorTypeOK, Event_
    <2>2. \A e \in ToSet(batch) : e \in Event_
      BY <2>1, SetOfSeq
    <2> QED BY <2>1, <2>2 DEF Event_
  <1>2. /\ IsInjective(batch)
        /\ \A e, h \in ToSet(batch) : e.fd = h.fd => e = h
    BY DEF BatchEvents, IsInjective, ToSet
  <1>3. batch # <<>> =>
          /\ Event \in ToSet(batch) /\ Event \in Event_ /\ Tail(batch) \in Seq(Event_)
          /\ ToSet(Tail(batch)) = ToSet(batch) \ {Event} /\ IsInjective(Tail(batch))
    BY <1>1, <1>2, TailProps DEF Event
  <1>4. /\ batch' \in Seq(Event_) /\ ToSet(batch') \subseteq ToSet(batch)
        /\ IsInjective(batch')
        /\ batch # <<>> /\ batch' = Tail(batch) => \A e \in ToSet(batch') : e.fd # Event.fd
    BY <1>1, <1>2, <1>3
  <1>5. \A i, j \in DOMAIN batch' : batch'[i].fd = batch'[j].fd => i = j
    <2> SUFFICES ASSUME NEW i \in DOMAIN batch', NEW j \in DOMAIN batch',
                        batch'[i].fd = batch'[j].fd
                 PROVE  i = j
      OBVIOUS
    <2>1. batch'[i] \in ToSet(batch') /\ batch'[j] \in ToSet(batch')
      BY DEF ToSet
    <2>2. batch'[i] = batch'[j]
      BY <1>2, <1>4, <2>1
    <2> QED BY <1>4, <2>2 DEF IsInjective
  <1>6. BatchEvents'
    BY <1>1, <1>4, <1>5 DEF BatchEvents
  <1> QED BY <1>3, <1>4, <1>6

\* close() of a connector's descriptor.
LEMMA CloseFdOwned ==
    ASSUME TypeOK, Owned, ReadyEvents, NEW c \in Connector, CloseFd(c), client' = client
    PROVE  /\ Owned' /\ ReadyEvents'
           /\ cfd' = [cfd EXCEPT ![c] = None]
           /\ io' \in [Fd -> Handler \cup {None}] /\ sock' \in [Fd -> State]
           /\ ready' \subseteq Fd
           /\ \A d \in Connector \ {c} :
                 cfd[d] # None => sock'[cfd[d]] = sock[cfd[d]]
           /\ \A fd \in Fd : io'[fd] \in Connector =>
                 io[fd] \in Connector /\ sock'[fd] = sock[fd]
  <1>1. CASE cfd[c] = None
    <2>1. cfd' = [cfd EXCEPT ![c] = None]
      BY <1>1 DEF CloseFd, TypeOK
    <2> QED BY <1>1, <2>1 DEF CloseFd, TypeOK, ReactorTypeOK, Owned, ReadyEvents
  <1>2. CASE cfd[c] # None
    <2> DEFINE x == cfd[c]
    <2>1. /\ x \in Fd /\ io[x] = c /\ x \notin client /\ cfd[c] = x
      BY <1>2 DEF TypeOK, Owned
    <2>2. /\ io' = [io EXCEPT ![x] = None] /\ ready' = ready \ {x}
          /\ sock' = [sock EXCEPT ![x] = "closed"]
          /\ cfd' = [cfd EXCEPT ![c] = None]
      BY <1>2 DEF CloseFd, CloseIo
    <2>3. /\ io \in [Fd -> Handler \cup {None}] /\ sock \in [Fd -> State] /\ ready \subseteq Fd
          /\ cfd \in [Connector -> Fd \cup {None}]
      BY DEF TypeOK, ReactorTypeOK
    <2> HIDE DEF x
    <2>4. /\ io' \in [Fd -> Handler \cup {None}] /\ sock' \in [Fd -> State]
          /\ ready' \subseteq Fd
      BY <2>2, <2>3 DEF State
    <2>5. \A fd \in Fd : io'[fd] = IF fd = x THEN None ELSE io[fd]
      BY <2>2, <2>3
    <2>6. \A fd \in Fd : sock'[fd] = IF fd = x THEN "closed" ELSE sock[fd]
      BY <2>2, <2>3
    <2>7. \A d \in Connector : cfd'[d] = IF d = c THEN None ELSE cfd[d]
      BY <2>2, <2>3
    <2>8. \A d \in Connector : cfd[d] = x => d = c
      BY <2>1 DEF Owned
    <2>9. \A d \in Connector, fd \in Fd : cfd'[d] = fd <=> io'[fd] = d
      <3> SUFFICES ASSUME NEW d \in Connector, NEW fd \in Fd
                   PROVE  cfd'[d] = fd <=> io'[fd] = d
        OBVIOUS
      <3>1. cfd[d] = fd <=> io[fd] = d
        BY DEF Owned
      <3>2. d # None /\ fd # None
        BY NoneType
      <3>3. CASE d = c
        <4>1. cfd'[d] = None /\ (io[fd] = d => fd = x)
          BY <2>1, <2>7, <3>1, <3>3
        <4>2. io'[fd] # d
          BY <2>5, <3>2, <4>1
        <4> QED BY <3>2, <4>1, <4>2
      <3>4. CASE d # c
        BY <2>5, <2>7, <2>8, <3>1, <3>2, <3>4
      <3> QED BY <3>3, <3>4
    <2>10. Owned'
      BY <2>1, <2>5, <2>6, <2>9, NoneType, FrameType DEF Owned
    <2>11. ReadyEvents'
      BY <2>2, <2>3, <2>5, <2>6 DEF ReadyEvents
    <2>12. \A d \in Connector \ {c} : cfd[d] # None => sock'[cfd[d]] = sock[cfd[d]]
      BY <2>3, <2>6, <2>8
    <2> QED BY <2>2, <2>4, <2>5, <2>6, <2>10, <2>11, <2>12, NoneType
  <1> QED BY <1>1, <1>2

-----------------------------------------------------------------------------
(* IInv is inductive: calls of a handler that return. *)

\* What holds when a handler's call ends with a close of the descriptor.
LEMMA CloseInCall ==
    ASSUME IInv, NEW c \in Connector, CloseFd(c),
           UNCHANGED <<reused, pc, wakes, client>>,
           batch' = batch \/ (In(c, "failed") /\ batch' = Tail(batch))
    PROVE  /\ Owned' /\ ReadyEvents' /\ BatchEvents'
           /\ cfd' = [cfd EXCEPT ![c] = None]
           /\ io' \in [Fd -> Handler \cup {None}] /\ sock' \in [Fd -> State]
           /\ ready' \subseteq Fd /\ batch' \in Seq(Event_)
           /\ ToSet(batch') \subseteq ToSet(batch)
           /\ \A d \in Connector \ {c} : cfd[d] # None => sock'[cfd[d]] = sock[cfd[d]]
  <1>0. TypeOK /\ StackOK /\ Owned /\ ReadyEvents /\ BatchEvents
    BY DEF IInv
  <1>1. /\ Owned' /\ ReadyEvents'
        /\ cfd' = [cfd EXCEPT ![c] = None]
        /\ io' \in [Fd -> Handler \cup {None}] /\ sock' \in [Fd -> State]
        /\ ready' \subseteq Fd
        /\ \A d \in Connector \ {c} : cfd[d] # None => sock'[cfd[d]] = sock[cfd[d]]
        /\ \A fd \in Fd : io'[fd] \in Connector => io[fd] \in Connector /\ sock'[fd] = sock[fd]
    BY <1>0, CloseFdOwned
  <1>2. In(c, "failed") => batch # <<>>
    <2>1. stack # <<>> => Head(stack) \in Calls
      BY <1>0, PopCall DEF TypeOK, StackOK, Calls
    <2> QED BY <1>0, <2>1 DEF StackOK, In
  <1>3. BatchEvents' /\ batch' \in Seq(Event_) /\ ToSet(batch') \subseteq ToSet(batch)
    BY <1>0, <1>1, <1>2, BatchKept
  <1> QED BY <1>1, <1>3

\* The handler fails, the descriptor is closed and the deletion queued.
LEMMA EndsIInv ==
    ASSUME IInv, NEW c \in Connector,
           NEW at \in {"open", "refused", "timeout", "failed"}, In(c, at),
           CloseFd(c), QueueDelete(c), Tell(c, "end"), Return,
           emitting' = [emitting EXCEPT ![c] = FALSE],
           batch' = batch \/ (at = "failed" /\ batch' = Tail(batch)),
           UNCHANGED <<alive, timer, sched, reused, pc, wakes, client>>
    PROVE  IInv'
  <1>0. TypeOK /\ StackOK /\ IdlesOK /\ Holds(c)
    BY DEF IInv
  <1>1. /\ stack' \in Seq(Frame) /\ StackOK'
        /\ At(c) = at /\ At(c)' = "idle"
        /\ \A d : d # c => At(d)' = At(d)
    BY <1>0, ReturnCall
  <1>2. /\ Owned' /\ ReadyEvents' /\ BatchEvents'
        /\ cfd' = [cfd EXCEPT ![c] = None]
        /\ io' \in [Fd -> Handler \cup {None}] /\ sock' \in [Fd -> State]
        /\ ready' \subseteq Fd /\ batch' \in Seq(Event_)
        /\ ToSet(batch') \subseteq ToSet(batch)
        /\ \A d \in Connector \ {c} : cfd[d] # None => sock'[cfd[d]] = sock[cfd[d]]
    BY CloseInCall
  <1>3. alive[c] = "live" /\ timer[c] = None /\ told[c] # "end"
    BY <1>0, <1>1 DEF Holds
  <1>4. \A d \in Connector \ {c} : Same(d)
    BY <1>0, <1>1, <1>2 DEF Same, Tell, TypeOK
  <1>5. told'[c] = "end" /\ cfd'[c] = None /\ emitting'[c] = FALSE
    BY <1>0, <1>2 DEF Tell, TypeOK
  <1>6. IdlesOK' /\ idles' \in Seq(Connector \X {"ready", "delete"})
    BY <1>0, <1>3, <1>4, <1>5, IdlesDelete
  <1>7. TypeOK'
    BY <1>0, <1>1, <1>2, <1>6 DEF TypeOK, ReactorTypeOK, Tell, Event_
  <1>8. Holds(c)' /\ ReadyOK(c)'
    BY <1>0, <1>1, <1>3, <1>5, NoneType DEF Holds, ReadyOK
  <1>9. \A d \in Connector \ {c} : Holds(d)' /\ ReadyOK(d)'
    BY <1>2, <1>4, SameKept DEF IInv
  <1> QED BY <1>1, <1>2, <1>6, <1>7, <1>8, <1>9 DEF IInv

\* The handler of a failed attempt returns: a retry is scheduled, or none.
LEMMA ReturnsIInv ==
    ASSUME IInv, NEW c \in Connector, NEW at \in {"refused", "failed"}, In(c, at),
           CloseFd(c), Return, emitting' = [emitting EXCEPT ![c] = FALSE],
           IF c \in Interval THEN SetTimer(c) ELSE UNCHANGED <<timer, sched>>,
           batch' = batch \/ (at = "failed" /\ batch' = Tail(batch)),
           UNCHANGED <<alive, idles, told, reused, pc, wakes, client>>
    PROVE  IInv'
  <1>0. TypeOK /\ StackOK /\ IdlesOK /\ Holds(c)
    BY DEF IInv
  <1>1. /\ stack' \in Seq(Frame) /\ StackOK'
        /\ At(c) = at /\ At(c)' = "idle"
        /\ \A d : d # c => At(d)' = At(d)
    BY <1>0, ReturnCall
  <1>2. /\ Owned' /\ ReadyEvents' /\ BatchEvents'
        /\ cfd' = [cfd EXCEPT ![c] = None]
        /\ io' \in [Fd -> Handler \cup {None}] /\ sock' \in [Fd -> State]
        /\ ready' \subseteq Fd /\ batch' \in Seq(Event_)
        /\ ToSet(batch') \subseteq ToSet(batch)
        /\ \A d \in Connector \ {c} : cfd[d] # None => sock'[cfd[d]] = sock[cfd[d]]
    BY CloseInCall
  <1>3. alive[c] = "live" /\ timer[c] = None /\ told[c] = "err" /\ sched[c] = 0
    BY <1>0, <1>1, NoneType DEF Holds
  <1>4. /\ timer' \in [Connector -> {None, "timer", "idle"}]
        /\ sched' \in [Connector -> 0..1]
        /\ timer'[c] = (IF c \in Interval THEN "timer" ELSE None)
        /\ sched'[c] = (IF c \in Interval THEN 1 ELSE 0)
        /\ \A d \in Connector \ {c} : timer'[d] = timer[d] /\ sched'[d] = sched[d]
    <2>1. timer \in [Connector -> {None, "timer", "idle"}] /\ sched \in [Connector -> 0..1]
      BY <1>0 DEF TypeOK
    <2>2. CASE c \in Interval
      BY <1>3, <2>1, <2>2 DEF SetTimer
    <2>3. CASE c \notin Interval
      BY <1>3, <2>1, <2>3
    <2> QED BY <2>2, <2>3
  <1>5. \A d \in Connector \ {c} : Same(d)
    BY <1>0, <1>1, <1>2, <1>4 DEF Same, TypeOK
  <1>6. cfd'[c] = None /\ emitting'[c] = FALSE
    BY <1>0, <1>2 DEF TypeOK
  <1>7. IdlesOK'
    <2>1. \A d \in Connector : timer'[d] = "idle" <=> timer[d] = "idle"
      BY <1>3, <1>4, NoneType
    <2> QED BY <1>0, <2>1, IdlesSame
  <1>8. TypeOK'
    BY <1>0, <1>1, <1>2, <1>4 DEF TypeOK, ReactorTypeOK, Event_
  <1>9. Holds(c)' /\ ReadyOK(c)'
    BY <1>0, <1>1, <1>3, <1>4, <1>6, NoneType DEF Holds, ReadyOK
  <1>10. \A d \in Connector \ {c} : Holds(d)' /\ ReadyOK(d)'
    BY <1>2, <1>5, SameKept DEF IInv
  <1> QED BY <1>1, <1>2, <1>7, <1>8, <1>9, <1>10 DEF IInv

\* connect() ends with a failure.
LEMMA GiveUpIInv ==
    ASSUME IInv, NEW c \in Connector, NEW at \in {"connect", "open"}, In(c, at),
           CloseFd(c), GiveUp(c), emitting' = [emitting EXCEPT ![c] = FALSE],
           UNCHANGED <<alive, timer, sched, idles, batch, reused, pc, wakes, client>>
    PROVE  IInv'
  <1>0. TypeOK /\ StackOK /\ IdlesOK /\ Holds(c)
    BY DEF IInv
  <1>1. /\ stack' \in Seq(Frame) /\ StackOK'
        /\ At(c) = at /\ At(c)' = "idle"
        /\ \A d : d # c => At(d)' = At(d)
    BY <1>0, ReturnCall DEF GiveUp
  <1>2. /\ Owned' /\ ReadyEvents' /\ BatchEvents'
        /\ cfd' = [cfd EXCEPT ![c] = None]
        /\ io' \in [Fd -> Handler \cup {None}] /\ sock' \in [Fd -> State]
        /\ ready' \subseteq Fd /\ batch' \in Seq(Event_)
        /\ ToSet(batch') \subseteq ToSet(batch)
        /\ \A d \in Connector \ {c} : cfd[d] # None => sock'[cfd[d]] = sock[cfd[d]]
    BY CloseInCall
  <1>3. alive[c] = "live" /\ timer[c] = None /\ told[c] # "end"
    BY <1>0, <1>1, NoneType DEF Holds
  <1>4. \A d \in Connector \ {c} : Same(d)
    BY <1>0, <1>1, <1>2 DEF Same, TypeOK, GiveUp, Tell
  <1>5. cfd'[c] = None /\ emitting'[c] = FALSE /\ told'[c] \in {"none", "lost"}
    BY <1>0, <1>2 DEF TypeOK, GiveUp, Tell
  <1>6. IdlesOK'
    BY <1>0, <1>3, <1>4, <1>5, IdlesSame DEF Same
  <1>7. TypeOK'
    BY <1>0, <1>1, <1>2 DEF TypeOK, ReactorTypeOK, Event_, GiveUp, Tell
  <1>8. Holds(c)' /\ ReadyOK(c)'
    BY <1>0, <1>1, <1>3, <1>5, NoneType DEF Holds, ReadyOK
  <1>9. \A d \in Connector \ {c} : Holds(d)' /\ ReadyOK(d)'
    BY <1>2, <1>4, SameKept DEF IInv
  <1> QED BY <1>1, <1>2, <1>6, <1>7, <1>8, <1>9 DEF IInv

\* The handler of a timed-out attempt returns, and connect() is called again.
LEMMA TimeoutReturnsIInv ==
    ASSUME IInv, NEW c \in Connector, TimeoutReturns(c)
    PROVE  IInv'
  <1> USE DEF TimeoutReturns, Emitting, loops
  <1>0. TypeOK /\ StackOK /\ IdlesOK /\ Holds(c)
    BY DEF IInv
  <1>1. /\ stack' \in Seq(Frame) /\ StackOK'
        /\ At(c) = "timeout" /\ At(c)' = "connect"
        /\ \A d : d # c => At(d)' = At(d)
    BY <1>0, BecomeCall
  <1>2. /\ Owned' /\ ReadyEvents' /\ BatchEvents'
        /\ cfd' = [cfd EXCEPT ![c] = None]
        /\ io' \in [Fd -> Handler \cup {None}] /\ sock' \in [Fd -> State]
        /\ ready' \subseteq Fd /\ batch' \in Seq(Event_)
        /\ ToSet(batch') \subseteq ToSet(batch)
        /\ \A d \in Connector \ {c} : cfd[d] # None => sock'[cfd[d]] = sock[cfd[d]]
    BY CloseInCall
  <1>3. \A d \in Connector \ {c} : Same(d)
    BY <1>0, <1>1, <1>2 DEF Same, TypeOK
  <1>4. cfd'[c] = None /\ emitting'[c] = FALSE
    BY <1>0, <1>2 DEF TypeOK
  <1>5. IdlesOK'
    BY <1>0, IdlesSame
  <1>6. TypeOK'
    BY <1>0, <1>1, <1>2 DEF TypeOK, ReactorTypeOK, Event_
  <1>7. Holds(c)' /\ ReadyOK(c)'
    BY <1>0, <1>1, <1>4, NoneType DEF Holds, ReadyOK
  <1>8. \A d \in Connector \ {c} : Holds(d)' /\ ReadyOK(d)'
    BY <1>2, <1>3, SameKept DEF IInv
  <1> QED BY <1>1, <1>2, <1>5, <1>6, <1>7, <1>8 DEF IInv

\* The handler was given the descriptor; the connector will be deleted.
LEMMA OutReturnsIInv ==
    ASSUME IInv, NEW c \in Connector, OutReturns(c)
    PROVE  IInv'
  <1> USE DEF OutReturns, Emitting, Tell, reactor
  <1>0. TypeOK /\ StackOK /\ IdlesOK /\ Holds(c)
    BY DEF IInv
  <1>1. /\ stack' \in Seq(Frame) /\ StackOK'
        /\ At(c) = "out" /\ At(c)' = "idle"
        /\ \A d : d # c => At(d)' = At(d)
    BY <1>0, ReturnCall
  <1>2. alive[c] = "live" /\ timer[c] = None /\ told[c] # "end" /\ cfd[c] = None
    BY <1>0, <1>1 DEF Holds
  <1>3. \A d \in Connector \ {c} : Same(d)
    BY <1>0, <1>1 DEF Same, TypeOK
  <1>4. told'[c] = "end" /\ emitting'[c] = FALSE
    BY <1>0 DEF TypeOK
  <1>5. IdlesOK' /\ idles' \in Seq(Connector \X {"ready", "delete"})
    BY <1>0, <1>2, <1>3, <1>4, IdlesDelete
  <1>6. TypeOK'
    BY <1>0, <1>1, <1>5 DEF TypeOK, ReactorTypeOK
  <1>7. Holds(c)' /\ ReadyOK(c)'
    BY <1>0, <1>1, <1>2, <1>4, NoneType DEF Holds, ReadyOK
  <1>8. \A d \in Connector \ {c} : Holds(d)' /\ ReadyOK(d)'
    BY <1>3, SameKept DEF IInv
  <1> QED BY <1>1, <1>5, <1>6, <1>7, <1>8 DEF IInv, Owned, ReadyEvents, BatchEvents

-----------------------------------------------------------------------------
(* IInv is inductive: the steps of connect(). *)

\* socket() gives a descriptor nobody has.
LEMMA NewFdFree ==
    ASSUME TypeOK, Owned, ReadyEvents, FreeFds # {}, io[NewFd] = None
    PROVE  /\ NewFd \in Fd /\ sock[NewFd] = "closed"
           /\ NewFd \notin client /\ NewFd \notin ready
           /\ \A d \in Connector : cfd[d] # NewFd
  <1>1. FreeFds \subseteq Nat
    BY ReactorAssumption DEF FreeFds
  <1>2. PICK x \in FreeFds : \A y \in FreeFds : x <= y
    BY <1>1, LeastElement
  <1>3. NewFd \in FreeFds
    BY <1>2 DEF NewFd, Min
  <1> QED BY <1>3, NoneType DEF FreeFds, Owned, ReadyEvents

LEMMA ConnectStartsIInv ==
    ASSUME IInv, NEW c \in Connector, ConnectStarts(c)
    PROVE  IInv'
  <1> USE DEF ConnectStarts, Emitting, Tell
  <1>0. TypeOK /\ StackOK /\ IdlesOK /\ Owned /\ ReadyEvents /\ BatchEvents /\ Holds(c)
    BY DEF IInv
  <1>1. /\ stack' \in Seq(Frame) /\ StackOK'
        /\ At(c) = "connect" /\ At(c)' = "open"
        /\ \A d : d # c => At(d)' = At(d)
    BY <1>0, BecomeCall
  <1> DEFINE x == NewFd
  <1>2. /\ x \in Fd /\ sock[x] = "closed" /\ x \notin client /\ x \notin ready
        /\ \A d \in Connector : cfd[d] # x
        /\ io[x] = None
    BY <1>0, NewFdFree DEF OpenIo
  <1>3. /\ io' = [io EXCEPT ![x] = c] /\ sock' = [sock EXCEPT ![x] = "fresh"]
        /\ cfd' = [cfd EXCEPT ![c] = x] /\ reused' = reused \cup {x}
    BY DEF OpenIo
  <1> HIDE DEF x
  <1>4. /\ io \in [Fd -> Handler \cup {None}] /\ sock \in [Fd -> State]
        /\ cfd \in [Connector -> Fd \cup {None}]
    BY <1>0 DEF TypeOK, ReactorTypeOK
  <1>5. /\ \A fd \in Fd : io'[fd] = IF fd = x THEN c ELSE io[fd]
        /\ \A fd \in Fd : sock'[fd] = IF fd = x THEN "fresh" ELSE sock[fd]
        /\ \A d \in Connector : cfd'[d] = IF d = c THEN x ELSE cfd[d]
    BY <1>3, <1>4
  <1>6. alive[c] = "live" /\ timer[c] = None /\ cfd[c] = None /\ told[c] # "end"
    BY <1>0, <1>1 DEF Holds
  <1>7. Owned'
    <2>1. \A d \in Connector, fd \in Fd : cfd'[d] = fd <=> io'[fd] = d
      BY <1>0, <1>2, <1>5, <1>6, NoneType DEF Owned
    <2>2. ASSUME NEW fd \in Fd
          PROVE  /\ io'[fd] = Client => fd \in client
                 /\ io'[fd] \in Connector => fd \notin client
                 /\ (sock'[fd] # "closed") <=> (io'[fd] \in Connector \/ fd \in client)
      <3>1. CASE fd = x
        <4>1. io'[fd] = c /\ sock'[fd] = "fresh" /\ c # Client /\ fd \notin client
          BY <1>2, <1>5, <3>1, ConnectorAssumption
        <4> HIDE DEF ConnectStarts
        <4> QED BY <4>1
      <3>2. CASE fd # x
        <4>1. io'[fd] = io[fd] /\ sock'[fd] = sock[fd]
          BY <1>5, <3>2
        <4> HIDE DEF ConnectStarts
        <4> QED BY <1>0, <4>1 DEF Owned
      <3> QED BY <3>1, <3>2
    <2> QED BY <2>1, <2>2 DEF Owned
  <1>8. ReadyEvents'
    BY <1>0, <1>2, <1>5 DEF ReadyEvents, TypeOK, ReactorTypeOK
  <1>9. BatchEvents'
    BY <1>0, <1>3, <1>5, BatchKept
  <1>10. \A d \in Connector \ {c} : Same(d)
    BY <1>0, <1>1, <1>2, <1>4, <1>5 DEF Same, TypeOK
  <1>11. told'[c] = "open" /\ emitting'[c] = FALSE /\ cfd'[c] = x /\ sock'[x] = "fresh"
    BY <1>0, <1>2, <1>5 DEF TypeOK
  <1>12. IdlesOK'
    BY <1>0, <1>6, <1>10, <1>11, IdlesSame DEF Same
  <1>13. TypeOK'
    <2>1. io' \in [Fd -> Handler \cup {None}] /\ sock' \in [Fd -> State]
      BY <1>2, <1>3, <1>4, ConnectorAssumption DEF State
    <2> QED BY <1>0, <1>1, <1>2, <1>3, <2>1 DEF TypeOK, ReactorTypeOK
  <1>14. Holds(c)' /\ ReadyOK(c)'
    BY <1>0, <1>1, <1>2, <1>6, <1>11, NoneType DEF Holds, ReadyOK
  <1>15. \A d \in Connector \ {c} : Holds(d)' /\ ReadyOK(d)'
    BY <1>3, <1>10, SameKept DEF IInv
  <1> QED BY <1>1, <1>7, <1>8, <1>9, <1>12, <1>13, <1>14, <1>15 DEF IInv

\* ::connect is under way, or done: connect() returns.
LEMMA ConnectingIInv ==
    ASSUME IInv, NEW c \in Connector, In(c, "open"), cfd[c] # None, Return,
           NEW s \in {"up", "pending"}, sock' = [sock EXCEPT ![cfd[c]] = s],
           ready' = ready \cup (IF s = "up" THEN {cfd[c]} ELSE {}),
           \/ SetTimer(c)
           \/ UNCHANGED <<timer, sched>>,
           UNCHANGED <<io, batch, reused, alive, cfd, emitting, idles, told, pc, wakes, client>>
    PROVE  IInv'
  <1>0. TypeOK /\ StackOK /\ IdlesOK /\ Owned /\ ReadyEvents /\ BatchEvents /\ Holds(c)
    BY DEF IInv
  <1>1. /\ stack' \in Seq(Frame) /\ StackOK'
        /\ At(c) = "open" /\ At(c)' = "idle"
        /\ \A d : d # c => At(d)' = At(d)
    BY <1>0, ReturnCall
  <1> DEFINE x == cfd[c]
  <1>2. /\ alive[c] = "live" /\ timer[c] = None /\ told[c] = "open" /\ sched[c] = 0
        /\ ~emitting[c] /\ x # None /\ sock[x] = "fresh"
    BY <1>0, <1>1, NoneType DEF Holds
  <1>3. x \in Fd /\ io[x] = c /\ \A d \in Connector : d # c => cfd[d] # x
    BY <1>0, <1>2 DEF TypeOK, Owned
  <1>4. x \notin ready
    BY <1>0, <1>2, <1>3 DEF ReadyEvents, Settled
  <1>5. /\ \A fd \in Fd : sock'[fd] = IF fd = x THEN s ELSE sock[fd]
        /\ sock' \in [Fd -> State]
    BY <1>0, <1>3 DEF TypeOK, ReactorTypeOK, State
  <1> HIDE DEF x
  <1>6. Owned'
    BY <1>0, <1>2, <1>3, <1>5 DEF Owned
  <1>7. ReadyEvents' /\ ready' \subseteq Fd
    <2>1. ready' \subseteq ready \cup {x} /\ (x \in ready' => s = "up")
      BY <1>4 DEF x
    <2> QED BY <1>0, <1>3, <1>5, <2>1, NoneType DEF ReadyEvents, TypeOK, ReactorTypeOK, Settled
  <1>8. BatchEvents'
    <2>1. \A fd \in Fd : sock[fd] \in Settled => sock'[fd] \in Settled
      BY <1>2, <1>5 DEF Settled
    <2> QED BY <1>0, <2>1, BatchKept
  <1>9. /\ timer' \in [Connector -> {None, "timer", "idle"}]
        /\ sched' \in [Connector -> 0..1]
        /\ timer'[c] \in {None, "timer"} /\ sched'[c] = (IF timer'[c] = "timer" THEN 1 ELSE 0)
        /\ \A d \in Connector \ {c} : timer'[d] = timer[d] /\ sched'[d] = sched[d]
    <2>1. timer \in [Connector -> {None, "timer", "idle"}] /\ sched \in [Connector -> 0..1]
      BY <1>0 DEF TypeOK
    <2> QED BY <1>2, <2>1, NoneType DEF SetTimer
  <1>10. \A d \in Connector \ {c} : Same(d)
    BY <1>0, <1>1, <1>3, <1>5, <1>9 DEF Same, TypeOK
  <1>11. IdlesOK'
    <2>1. \A d \in Connector : timer'[d] = "idle" <=> timer[d] = "idle"
      BY <1>2, <1>9, NoneType
    <2> QED BY <1>0, <2>1, IdlesSame
  <1>12. TypeOK'
    BY <1>0, <1>1, <1>5, <1>7, <1>9 DEF TypeOK, ReactorTypeOK
  <1>13. Holds(c)' /\ ReadyOK(c)'
    BY <1>0, <1>1, <1>2, <1>9, NoneType DEF Holds, ReadyOK, x
  <1>14. \A d \in Connector \ {c} : Holds(d)' /\ ReadyOK(d)'
    BY <1>10, SameKept DEF IInv
  <1> QED BY <1>1, <1>6, <1>7, <1>8, <1>11, <1>12, <1>13, <1>14 DEF IInv

LEMMA RefusedIInv ==
    ASSUME IInv, NEW c \in Connector, Refused(c)
    PROVE  IInv'
  <1> USE DEF Refused, Emitting, Tell, reactor
  <1>0. TypeOK /\ StackOK /\ IdlesOK /\ Holds(c)
    BY DEF IInv
  <1>1. /\ stack' \in Seq(Frame) /\ StackOK'
        /\ At(c) = "open" /\ At(c)' = "refused"
        /\ \A d : d # c => At(d)' = At(d)
    BY <1>0, BecomeCall
  <1>2. \A d \in Connector \ {c} : Same(d)
    BY <1>0, <1>1 DEF Same, TypeOK
  <1>3. told'[c] = "err" /\ emitting'[c] = TRUE /\ told[c] # "end"
    BY <1>0, <1>1 DEF TypeOK, Holds
  <1>4. IdlesOK'
    BY <1>0, <1>2, <1>3, IdlesSame DEF Same
  <1>5. TypeOK'
    BY <1>0, <1>1 DEF TypeOK, ReactorTypeOK
  <1>6. Holds(c)' /\ ReadyOK(c)'
    BY <1>0, <1>1, <1>3, NoneType DEF Holds, ReadyOK
  <1>7. \A d \in Connector \ {c} : Holds(d)' /\ ReadyOK(d)'
    BY <1>2, SameKept DEF IInv
  <1> QED BY <1>1, <1>4, <1>5, <1>6, <1>7 DEF IInv, Owned, ReadyEvents, BatchEvents

-----------------------------------------------------------------------------
(* IInv is inductive: timers, idles and events. *)

\* Between calls every connector is idle.
LEMMA AllIdle ==
    ASSUME IInv, stack = <<>>
    PROVE  /\ \A c : At(c) = "idle"
           /\ Calls = {}
           /\ \A c \in Connector : emitting[c] = FALSE
  <1>1. \A c : At(c) = "idle"
    BY AtEmpty DEF At
  <1>2. Calls = {}
    BY SetOfEmpty DEF Calls
  <1>3. \A c \in Connector : emitting[c] = FALSE
    BY <1>1 DEF IInv, Holds, TypeOK
  <1> QED BY <1>1, <1>2, <1>3

LEMMA FireIInv ==
    ASSUME IInv, NEW c \in Connector, Fire(c)
    PROVE  IInv'
  <1> USE DEF Fire, Emitting, Tell, reactor
  <1>0. TypeOK /\ StackOK /\ IdlesOK /\ Holds(c) /\ At(c) = "idle" /\ emitting[c] = FALSE
    BY AllIdle DEF IInv
  <1>1. /\ sched[c] = 1 /\ timer[c] = "timer" /\ alive[c] = "live" /\ told[c] # "end"
        /\ told[c] \in {"none", "open", "err", "lost"}
        /\ told[c] = "open" <=> cfd[c] # None
    BY <1>0, NoneType DEF TypeOK, Holds
  <1>2. PICK at \in {"timeout", "connect"} :
           /\ Push(c, at, "timer")
           /\ IF at = "timeout" THEN cfd[c] # None /\ Emitting(c, TRUE) /\ Tell(c, "err")
              ELSE cfd[c] = None /\ UNCHANGED <<emitting, told>>
    OBVIOUS
  <1>3. /\ stack' \in Seq(Frame) /\ StackOK'
        /\ At(c)' = at
        /\ \A d : d # c => At(d)' = At(d)
    <2>1. c \in Handler /\ c # Client /\ stack = <<>>
      BY ConnectorAssumption
    <2>2. /\ Push(c, at, "timer") /\ UNCHANGED <<pc, batch>> /\ at # "failed" /\ at # "io"
          /\ at \in {"connect", "open", "refused", "timeout", "failed", "out", "io"}
      BY <1>2
    <2> HIDE DEF Fire
    <2> QED BY <1>0, <2>1, <2>2, PushedCall
  <1>4. /\ timer' = [timer EXCEPT ![c] = None] /\ timer'[c] = None
        /\ sched' = [sched EXCEPT ![c] = 0] /\ sched'[c] = 0
    BY <1>0, <1>1 DEF TypeOK
  <1>5. \A d \in Connector \ {c} : Same(d)
    BY <1>0, <1>2, <1>3, <1>4 DEF Same, TypeOK
  <1>6. told'[c] # "end"
    BY <1>0, <1>1, <1>2 DEF TypeOK
  <1>7. IdlesOK'
    <2>1. \A d \in Connector : timer'[d] = "idle" <=> timer[d] = "idle"
      BY <1>1, <1>4, <1>5, NoneType DEF Same
    <2>2. \A d \in Connector : told'[d] = "end" <=> told[d] = "end"
      BY <1>1, <1>5, <1>6 DEF Same
    <2> QED BY <1>0, <2>1, <2>2, IdlesSame
  <1>8. TypeOK'
    <2>1. /\ emitting' \in [Connector -> BOOLEAN]
          /\ told' \in [Connector -> {"none", "open", "err", "out", "end", "lost"}]
      BY <1>0, <1>2 DEF TypeOK
    <2>2. /\ timer' \in [Connector -> {None, "timer", "idle"}]
          /\ sched' \in [Connector -> 0..1]
      BY <1>0, <1>4 DEF TypeOK
    <2> QED BY <1>0, <1>3, <2>1, <2>2 DEF TypeOK, ReactorTypeOK
  <1>9. Holds(c)' /\ ReadyOK(c)'
    BY <1>0, <1>1, <1>2, <1>3, <1>4, NoneType DEF Holds, ReadyOK, TypeOK
  <1>10. \A d \in Connector \ {c} : Holds(d)' /\ ReadyOK(d)'
    BY <1>5, SameKept DEF IInv
  <1> QED BY <1>3, <1>7, <1>8, <1>9, <1>10 DEF IInv, Owned, ReadyEvents, BatchEvents

\* The first idle runs.
LEMMA FirstIdle ==
    ASSUME TypeOK, IdlesOK, idles # <<>>
    PROVE  /\ Head(idles) \in ToSet(idles)
           /\ Tail(idles) \in Seq(Connector \X {"ready", "delete"})
           /\ ToSet(Tail(idles)) = ToSet(idles) \ {Head(idles)}
           /\ IsInjective(Tail(idles))
  BY TailProps DEF TypeOK, IdlesOK

LEMMA ConnectReadyIInv ==
    ASSUME IInv, NEW c \in Connector, ConnectReady(c)
    PROVE  /\ IInv'
           /\ cfd[c] \in Fd \ client /\ client' = client \cup {cfd[c]}
           /\ told[c] = "open"
           /\ sock[cfd[c]] = "up" \/ cfd[c] \in reused
  <1> USE DEF ConnectReady, Emitting, Tell
  <1>0. /\ TypeOK /\ StackOK /\ IdlesOK /\ Owned /\ ReadyEvents /\ BatchEvents
        /\ Holds(c) /\ ReadyOK(c) /\ At(c) = "idle"
    BY AllIdle DEF IInv
  <1> DEFINE x == cfd[c]  w == <<c, "ready">>
  <1>1. w \in ToSet(idles) /\ timer[c] = "idle"
    BY <1>0, FirstIdle DEF IdlesOK
  <1>2. x # None /\ x \in Fd /\ (sock[x] = "up" \/ x \in reused)
    BY <1>0, <1>1 DEF ReadyOK, TypeOK
  <1>3. io[x] = c /\ x \notin client /\ sock[x] # "closed"
        /\ \A d \in Connector \ {c} : cfd[d] # x
    BY <1>0, <1>2 DEF Owned
  <1>4. told[c] = "open" /\ alive[c] = "live" /\ sched[c] = 0
    BY <1>0, <1>1, <1>2, NoneType DEF Holds, TypeOK
  <1>5. /\ io' = [io EXCEPT ![x] = None] /\ ready' = ready \ {x}
        /\ sock' = sock
        /\ cfd' = [cfd EXCEPT ![c] = None] /\ client' = client \cup {x}
    BY <1>0, <1>2 DEF CloseIo, TypeOK, ReactorTypeOK
  <1>6. /\ stack' \in Seq(Frame) /\ StackOK'
        /\ At(c)' = "out"
        /\ \A d : d # c => At(d)' = At(d)
    <2>1. /\ c \in Handler /\ c # Client /\ stack = <<>>
          /\ Push(c, "out", "timer") /\ UNCHANGED <<pc, batch>>
      BY ConnectorAssumption
    <2> HIDE DEF ConnectReady
    <2> QED BY <1>0, <2>1, PushedCall
  <1> HIDE DEF x
  <1>7. /\ io \in [Fd -> Handler \cup {None}] /\ cfd \in [Connector -> Fd \cup {None}]
        /\ ready \subseteq Fd /\ client \subseteq Fd
    BY <1>0 DEF TypeOK, ReactorTypeOK
  <1>8. /\ \A fd \in Fd : io'[fd] = IF fd = x THEN None ELSE io[fd]
        /\ \A d \in Connector : cfd'[d] = IF d = c THEN None ELSE cfd[d]
    BY <1>5, <1>7
  <1>9. Owned'
    <2>1. ASSUME NEW d \in Connector, NEW fd \in Fd PROVE cfd'[d] = fd <=> io'[fd] = d
      <3>1. d # None /\ fd # None /\ (cfd[d] = fd <=> io[fd] = d)
        BY <1>0, NoneType DEF Owned
      <3>2. CASE d = c
        <4>1. cfd'[d] = None /\ (io[fd] = d => fd = x)
          BY <1>8, <3>1, <3>2 DEF x
        <4> QED BY <1>8, <3>1, <4>1
      <3>3. CASE d # c
        BY <1>3, <1>8, <3>1, <3>3
      <3> QED BY <3>2, <3>3
    <2>2. ASSUME NEW fd \in Fd
          PROVE  /\ io'[fd] = Client => fd \in client'
                 /\ io'[fd] \in Connector => fd \notin client'
                 /\ (sock'[fd] # "closed") <=> (io'[fd] \in Connector \/ fd \in client')
      <3>1. CASE fd = x
        <4>1. io'[fd] = None /\ fd \in client' /\ sock'[fd] # "closed" /\ None \notin Connector
          BY <1>3, <1>5, <1>8, <3>1, NoneType
        <4> HIDE DEF ConnectReady
        <4> QED BY <4>1
      <3>2. CASE fd # x
        <4>1. io'[fd] = io[fd] /\ sock'[fd] = sock[fd] /\ (fd \in client' <=> fd \in client)
          BY <1>5, <1>8, <3>2
        <4> HIDE DEF ConnectReady
        <4> QED BY <1>0, <4>1 DEF Owned
      <3> QED BY <3>1, <3>2
    <2> QED BY <2>1, <2>2 DEF Owned
  <1>10. ReadyEvents'
    BY <1>0, <1>5, <1>7, <1>8 DEF ReadyEvents
  <1>11. BatchEvents'
    BY <1>0, <1>5, <1>8, NoneType, BatchKept
  <1>12. \A d \in Connector \ {c} : Same(d)
    BY <1>0, <1>5, <1>6 DEF Same, TypeOK
  <1>13. told'[c] = "out" /\ cfd'[c] = None /\ timer'[c] = None /\ emitting'[c] = TRUE
    BY <1>0, <1>8 DEF TypeOK
  <1>14. IdlesOK' /\ idles' \in Seq(Connector \X {"ready", "delete"})
    <2>1. /\ idles' \in Seq(Connector \X {"ready", "delete"})
          /\ ToSet(idles') = ToSet(idles) \ {w} /\ IsInjective(idles')
      BY <1>0, FirstIdle
    <2>2. \A d \in Connector :
            /\ <<d, "ready">> = w <=> d = c
            /\ <<d, "delete">> # w
      OBVIOUS
    <2> HIDE DEF w
    <2>3. alive' = alive
      OBVIOUS
    <2> HIDE DEF ConnectReady
    <2> QED BY <1>0, <1>4, <1>12, <1>13, <2>1, <2>2, <2>3, NoneType DEF IdlesOK, Same
  <1>15. TypeOK'
    <2>1. io' \in [Fd -> Handler \cup {None}] /\ client' \subseteq Fd /\ ready' \subseteq Fd
      BY <1>2, <1>5, <1>7
    <2> QED BY <1>0, <1>5, <1>6, <1>14, <2>1 DEF TypeOK, ReactorTypeOK
  <1>16. Holds(c)' /\ ReadyOK(c)'
    BY <1>0, <1>4, <1>6, <1>13, NoneType DEF Holds, ReadyOK
  <1>17. \A d \in Connector \ {c} : Holds(d)' /\ ReadyOK(d)'
    BY <1>12, SameKept DEF IInv
  <1>18. IInv'
    BY <1>6, <1>9, <1>10, <1>11, <1>14, <1>15, <1>16, <1>17 DEF IInv
  <1> QED BY <1>2, <1>3, <1>4, <1>5, <1>18 DEF x

\* The destructor finds nothing left to close.
LEMMA DeleteIInv ==
    ASSUME IInv, NEW c \in Connector, Delete(c)
    PROVE  /\ IInv'
           /\ UNCHANGED <<io, sock, ready, cfd, timer, sched>>
  <1> USE DEF Delete, loops
  <1>0. /\ TypeOK /\ StackOK /\ IdlesOK /\ Holds(c) /\ At(c) = "idle" /\ emitting[c] = FALSE
    BY AllIdle DEF IInv
  <1> DEFINE w == <<c, "delete">>
  <1>1. w \in ToSet(idles)
    BY <1>0, FirstIdle
  <1>2. told[c] = "end" /\ alive[c] = "live" /\ timer[c] = None /\ cfd[c] = None
    BY <1>0, <1>1 DEF IdlesOK, Holds
  <1>3. UNCHANGED <<io, sock, ready, cfd, timer, sched>>
    <2>1. UNCHANGED <<io, sock, ready, cfd>>
      BY <1>0, <1>2 DEF CloseFd
    <2>2. timer' = [timer EXCEPT ![c] = timer[c]] /\ sched' = [sched EXCEPT ![c] = sched[c]]
      BY <1>0, <1>2, NoneType
    <2>3. UNCHANGED <<timer, sched>>
      BY <1>0, <2>2 DEF TypeOK
    <2> QED BY <2>1, <2>3
  <1>4. \A d : At(d)' = At(d)
    BY DEF At
  <1>5. alive' \in [Connector -> {"new", "live", "deleted"}] /\ alive'[c] = "deleted"
        /\ \A d \in Connector \ {c} : alive'[d] = alive[d]
    BY <1>0 DEF TypeOK
  <1>6. \A d \in Connector \ {c} : Same(d)
    BY <1>3, <1>4, <1>5 DEF Same
  <1>7. IdlesOK' /\ idles' \in Seq(Connector \X {"ready", "delete"})
    <2>1. /\ idles' \in Seq(Connector \X {"ready", "delete"})
          /\ ToSet(idles') = ToSet(idles) \ {w} /\ IsInjective(idles')
      BY <1>0, FirstIdle
    <2>2. \A d \in Connector :
            /\ <<d, "delete">> = w <=> d = c
            /\ <<d, "ready">> # w
      OBVIOUS
    <2>3. told' = told
      OBVIOUS
    <2> HIDE DEF w, Delete
    <2> QED BY <1>0, <1>3, <1>5, <2>1, <2>2, <2>3 DEF IdlesOK
  <1>8. TypeOK'
    BY <1>0, <1>3, <1>5, <1>7 DEF TypeOK, ReactorTypeOK
  <1>9. Holds(c)' /\ ReadyOK(c)'
    BY <1>0, <1>2, <1>3, <1>4, <1>5, NoneType DEF Holds, ReadyOK
  <1>10. \A d \in Connector \ {c} : Holds(d)' /\ ReadyOK(d)'
    BY <1>6, SameKept DEF IInv
  <1>11. Owned' /\ ReadyEvents' /\ BatchEvents' /\ StackOK'
    BY <1>0, <1>3 DEF IInv, Owned, ReadyEvents, BatchEvents, StackOK, Calls
  <1> QED BY <1>3, <1>7, <1>8, <1>9, <1>10, <1>11 DEF IInv

\* An event of a connector's descriptor is of an attempt under way.
LEMMA HandlesHolds ==
    ASSUME IInv, NEW c \in Connector, Handles(c)
    PROVE  /\ Event \in Event_ /\ Event \in ToSet(batch) /\ Event.fd \in Fd
           /\ cfd[c] = Event.fd /\ cfd[c] # None
           /\ told[c] = "open" /\ alive[c] = "live" /\ timer[c] # "idle"
           /\ sched[c] = IF timer[c] = "timer" THEN 1 ELSE 0
           /\ At(c) = "idle" /\ emitting[c] = FALSE
  <1> USE DEF Handles
  <1>0. /\ TypeOK /\ Owned /\ BatchEvents /\ Holds(c) /\ ReadyOK(c)
        /\ At(c) = "idle" /\ emitting[c] = FALSE
    BY AllIdle DEF IInv
  <1>1. batch \in Seq(Event_) /\ IsInjective(batch)
    BY <1>0 DEF TypeOK, ReactorTypeOK, Event_, BatchEvents, IsInjective
  <1>2. Event \in Event_ /\ Event \in ToSet(batch)
    BY <1>1, TailProps DEF Event
  <1>3. Event.fd \in Fd
    BY <1>2 DEF Event_
  <1>4. cfd[c] = Event.fd
    BY <1>0, <1>3 DEF Owned
  <1>5. timer[c] # "idle"
    BY <1>0, <1>2, <1>4 DEF ReadyOK
  <1>6. cfd[c] # None
    BY <1>3, <1>4, NoneType
  <1>7. told[c] = "open" /\ alive[c] = "live" /\ sched[c] = IF timer[c] = "timer" THEN 1 ELSE 0
    BY <1>0, <1>6 DEF Holds, TypeOK
  <1> QED BY <1>0, <1>2, <1>3, <1>4, <1>5, <1>6, <1>7

LEMMA AttemptFailsIInv ==
    ASSUME IInv, NEW c \in Connector, AttemptFails(c)
    PROVE  IInv' /\ told[c] = "open"
  <1> USE DEF AttemptFails, Emitting, Tell, reactor
  <1>0. TypeOK /\ StackOK /\ IdlesOK /\ Holds(c)
    BY DEF IInv
  <1>1. /\ told[c] = "open" /\ alive[c] = "live" /\ timer[c] # "idle" /\ cfd[c] # None
        /\ sched[c] = IF timer[c] = "timer" THEN 1 ELSE 0
        /\ At(c) = "idle"
    BY HandlesHolds
  <1>2. /\ timer' = [timer EXCEPT ![c] = None] /\ timer'[c] = None
        /\ sched' = [sched EXCEPT ![c] = 0] /\ sched'[c] = 0
        /\ idles' = idles
    BY <1>0, <1>1 DEF CloseTimer, TypeOK
  <1>3. /\ stack' \in Seq(Frame) /\ StackOK'
        /\ At(c)' = "failed"
        /\ \A d : d # c => At(d)' = At(d)
    <2>1. /\ c \in Handler /\ c # Client /\ stack = <<>> /\ pc = "batch" /\ batch # <<>>
          /\ Push(c, "failed", "timer") /\ UNCHANGED <<pc, batch>>
      BY ConnectorAssumption DEF Handles
    <2> HIDE DEF AttemptFails
    <2> QED BY <1>0, <1>1, <2>1, PushedCall
  <1>4. \A d \in Connector \ {c} : Same(d)
    BY <1>0, <1>2, <1>3 DEF Same, TypeOK
  <1>5. told'[c] = "err" /\ emitting'[c] = TRUE
    BY <1>0 DEF TypeOK
  <1>6. IdlesOK'
    <2>1. \A d \in Connector : timer'[d] = "idle" <=> timer[d] = "idle"
      BY <1>1, <1>2, <1>4, NoneType DEF Same
    <2>2. \A d \in Connector : told'[d] = "end" <=> told[d] = "end"
      BY <1>1, <1>4, <1>5 DEF Same
    <2> QED BY <1>0, <1>2, <2>1, <2>2, IdlesSame
  <1>7. TypeOK'
    <2>1. /\ timer' \in [Connector -> {None, "timer", "idle"}]
          /\ sched' \in [Connector -> 0..1]
      BY <1>0, <1>2 DEF TypeOK
    <2> QED BY <1>0, <1>2, <1>3, <2>1 DEF TypeOK, ReactorTypeOK
  <1>8. Holds(c)' /\ ReadyOK(c)'
    BY <1>0, <1>1, <1>2, <1>3, <1>5, NoneType DEF Holds, ReadyOK
  <1>9. \A d \in Connector \ {c} : Holds(d)' /\ ReadyOK(d)'
    BY <1>4, SameKept DEF IInv
  <1> QED BY <1>1, <1>3, <1>6, <1>7, <1>8, <1>9 DEF IInv, Owned, ReadyEvents, BatchEvents

LEMMA AttemptSucceedsIInv ==
    ASSUME IInv, NEW c \in Connector, AttemptSucceeds(c)
    PROVE  IInv'
  <1> USE DEF AttemptSucceeds, NextEvent
  <1>0. TypeOK /\ StackOK /\ IdlesOK /\ BatchEvents /\ Holds(c) /\ Handles(c) /\ stack = <<>>
    BY DEF IInv, Handles
  <1>1. /\ told[c] = "open" /\ alive[c] = "live" /\ timer[c] # "idle" /\ cfd[c] # None
        /\ sched[c] = IF timer[c] = "timer" THEN 1 ELSE 0
        /\ At(c) = "idle" /\ emitting[c] = FALSE
        /\ Event \in ToSet(batch) /\ cfd[c] = Event.fd /\ Event.fd \in Fd
    BY <1>0, HandlesHolds
  <1>2. /\ timer' = [timer EXCEPT ![c] = "idle"] /\ timer'[c] = "idle"
        /\ sched' = [sched EXCEPT ![c] = 0] /\ sched'[c] = 0
    BY <1>0, <1>1 DEF TypeOK
  <1>3. \A d : At(d)' = At(d)
    BY DEF At
  <1>4. /\ BatchEvents' /\ batch' \in Seq(Event_)
        /\ ToSet(batch') \subseteq ToSet(batch)
        /\ \A e \in ToSet(batch') : e.fd # Event.fd
    BY <1>0, BatchKept DEF Handles
  <1>5. sock[cfd[c]] = "up" \/ cfd[c] \in reused
    <2>1. io[Event.fd] = c /\ sock[Event.fd] # "refused"
      BY <1>0 DEF Handles, Bad
    <2> QED BY <1>0, <1>1, <2>1 DEF BatchEvents, Settled
  <1>6. pc = "batch"
    BY <1>0 DEF Handles
  <1>7. \A d \in Connector \ {c} : Same(d)
    BY <1>0, <1>2, <1>3 DEF Same, TypeOK
  <1>8. StackOK'
    BY <1>0, SetOfEmpty DEF StackOK, Calls
  <1>9. IdlesOK' /\ idles' \in Seq(Connector \X {"ready", "delete"})
    <2> DEFINE w == <<c, "ready">>
    <2>1. w \in Connector \X {"ready", "delete"} /\ w \notin ToSet(idles)
      BY <1>0, <1>1 DEF IdlesOK
    <2>2. /\ idles' \in Seq(Connector \X {"ready", "delete"})
          /\ ToSet(idles') = ToSet(idles) \cup {w} /\ IsInjective(idles')
      <3>1. /\ idles \in Seq(Connector \X {"ready", "delete"}) /\ IsInjective(idles)
            /\ idles' = Append(idles, w)
        BY <1>0 DEF TypeOK, IdlesOK
      <3> HIDE DEF w, AttemptSucceeds
      <3> QED BY <2>1, <3>1, AppendProps
    <2>3. \A d \in Connector :
            /\ <<d, "ready">> = w <=> d = c
            /\ <<d, "delete">> # w
      OBVIOUS
    <2>4. told' = told /\ alive' = alive
      OBVIOUS
    <2> HIDE DEF w, AttemptSucceeds
    <2> QED BY <1>0, <1>2, <1>7, <2>2, <2>3, <2>4 DEF IdlesOK, Same
  <1>10. TypeOK'
    <2>1. /\ timer' \in [Connector -> {None, "timer", "idle"}]
          /\ sched' \in [Connector -> 0..1]
      BY <1>0, <1>2 DEF TypeOK
    <2> QED BY <1>0, <1>4, <1>9, <2>1 DEF TypeOK, ReactorTypeOK, Event_
  <1>11. Holds(c)'
    BY <1>0, <1>1, <1>2, <1>3 DEF Holds
  <1>12. ReadyOK(c)'
    BY <1>1, <1>4, <1>5, <1>6 DEF ReadyOK
  <1>13. \A d \in Connector \ {c} : Holds(d)' /\ ReadyOK(d)'
    BY <1>4, <1>7, SameKept DEF IInv
  <1> QED BY <1>4, <1>8, <1>9, <1>10, <1>11, <1>12, <1>13 DEF IInv, Owned, ReadyEvents

-----------------------------------------------------------------------------
(* IInv is inductive: the client. *)

\* connect() is called for a connector with nothing under way.
LEMMA ConnectCalled ==
    ASSUME IInv, NEW c \in Connector, Push(c, "connect", "client"), At(c) = "idle",
           cfd[c] = None, timer[c] = None, told[c] \in {"none", "err", "lost"},
           alive[c] # "deleted", alive' = [alive EXCEPT ![c] = "live"],
           UNCHANGED <<reactor, cfd, timer, emitting, sched, idles, pc, wakes, client, told>>
    PROVE  IInv'
  <1> USE DEF reactor
  <1>0. TypeOK /\ StackOK /\ IdlesOK /\ Holds(c)
    BY DEF IInv
  <1>1. /\ stack' \in Seq(Frame) /\ StackOK'
        /\ At(c)' = "connect"
        /\ \A d : d # c => At(d)' = At(d)
    <2>1. c \in Handler /\ c # Client
      BY ConnectorAssumption
    <2> QED BY <1>0, <2>1, PushedCall
  <1>2. \A d \in Connector \ {c} : Same(d)
    BY <1>0, <1>1 DEF Same, TypeOK
  <1>3. alive'[c] = "live"
    BY <1>0 DEF TypeOK
  <1>4. IdlesOK'
    BY <1>0, <1>2, IdlesSame DEF Same
  <1>5. TypeOK'
    BY <1>0, <1>1 DEF TypeOK, ReactorTypeOK
  <1>6. Holds(c)' /\ ReadyOK(c)'
    BY <1>0, <1>1, <1>3, NoneType DEF Holds, ReadyOK
  <1>7. \A d \in Connector \ {c} : Holds(d)' /\ ReadyOK(d)'
    BY <1>2, SameKept DEF IInv
  <1> QED BY <1>1, <1>4, <1>5, <1>6, <1>7 DEF IInv, Owned, ReadyEvents, BatchEvents

LEMMA ConnectToIInv ==
    ASSUME IInv, NEW c \in Connector, ConnectTo(c)
    PROVE  IInv'
  <1> USE DEF ConnectTo
  <1>0. Holds(c) /\ TypeOK
    BY DEF IInv
  <1>1. /\ At(c) = "idle" /\ told[c] = "none" /\ timer[c] = None /\ cfd[c] = None
    BY <1>0 DEF Holds
  <1> QED BY <1>1, ConnectCalled

LEMMA ReconnectIInv ==
    ASSUME IInv, NEW c \in Connector, Reconnect(c)
    PROVE  IInv'
  <1> USE DEF Reconnect
  <1>0. Holds(c) /\ TypeOK /\ stack \in Seq(Frame) /\ Nested(stack)
    BY DEF IInv, TypeOK, StackOK
  <1>1. At(c) = "idle"
    BY <1>0, IdlingAt
  <1>2. timer[c] = None /\ cfd[c] = None /\ told[c] \in {"none", "err", "lost"}
    BY <1>0, <1>1 DEF Holds, TypeOK, Connecting, Doomed
  <1>3. alive' = [alive EXCEPT ![c] = "live"]
    BY <1>0 DEF conn, TypeOK
  <1> QED BY <1>1, <1>2, <1>3, ConnectCalled DEF conn

LEMMA CloseIInv ==
    ASSUME IInv, NEW c \in Connector, Close(c)
    PROVE  IInv' /\ told[c] \notin {"out", "end"}
  <1> USE DEF Close, Tell, loops
  <1>0. /\ TypeOK /\ StackOK /\ IdlesOK /\ Owned /\ ReadyEvents /\ BatchEvents /\ Holds(c)
    BY DEF IInv
  <1>1. /\ Owned' /\ ReadyEvents'
        /\ cfd' = [cfd EXCEPT ![c] = None]
        /\ io' \in [Fd -> Handler \cup {None}] /\ sock' \in [Fd -> State]
        /\ ready' \subseteq Fd
        /\ \A d \in Connector \ {c} : cfd[d] # None => sock'[cfd[d]] = sock[cfd[d]]
        /\ \A fd \in Fd : io'[fd] \in Connector => io[fd] \in Connector /\ sock'[fd] = sock[fd]
    BY <1>0, CloseFdOwned
  <1>2. BatchEvents'
    BY <1>0, <1>1, BatchKept
  <1>3. \A d : At(d)' = At(d)
    BY DEF At
  <1>4. /\ alive[c] = "live" /\ At(c) \in {"idle", "open"} /\ emitting[c] = FALSE
        /\ told[c] \notin {"out", "end"}
        /\ sched[c] = IF timer[c] = "timer" THEN 1 ELSE 0
    <2>1. At(c) # "connect"
      BY <1>0 DEF Holds, Connecting
    <2> QED BY <1>0, <2>1, ConnectorAt DEF Holds, Doomed, TypeOK
  <1>5. /\ timer' = [timer EXCEPT ![c] = None] /\ timer'[c] = None
        /\ sched' = [sched EXCEPT ![c] = 0] /\ sched'[c] = 0
        /\ idles' = IF timer[c] = "idle" THEN RemoveFirst(idles, <<c, "ready">>) ELSE idles
    BY <1>0, <1>4 DEF CloseTimer, TypeOK
  <1>6. told'[c] = "none" /\ cfd'[c] = None
    BY <1>0, <1>1 DEF TypeOK
  <1>7. \A d \in Connector \ {c} : Same(d)
    BY <1>0, <1>1, <1>3, <1>5 DEF Same, TypeOK
  <1>8. IdlesOK' /\ idles' \in Seq(Connector \X {"ready", "delete"})
    <2> DEFINE w == <<c, "ready">>
    <2>1. \A d \in Connector :
            /\ <<d, "ready">> = w <=> d = c
            /\ <<d, "delete">> # w
      OBVIOUS
    <2>2. alive' = alive
      OBVIOUS
    <2>3. /\ idles' \in Seq(Connector \X {"ready", "delete"})
          /\ ToSet(idles') = ToSet(idles) \ {w} /\ IsInjective(idles')
      <3>1. CASE timer[c] = "idle"
        <4>1. idles' = RemoveFirst(idles, w) /\ IsInjective(idles)
              /\ idles \in Seq(Connector \X {"ready", "delete"})
          BY <1>0, <1>5, <3>1 DEF TypeOK, IdlesOK
        <4> HIDE DEF w
        <4> QED BY <4>1, RemoveFirstProps
      <3>2. CASE timer[c] # "idle"
        <4>1. idles' = idles /\ w \notin ToSet(idles)
          BY <1>0, <1>5, <3>2 DEF IdlesOK
        <4> HIDE DEF w, Close
        <4> QED BY <1>0, <4>1 DEF TypeOK, IdlesOK
      <3> QED BY <3>1, <3>2
    <2> HIDE DEF w, Close
    <2> QED BY <1>0, <1>4, <1>5, <1>6, <1>7, <2>1, <2>2, <2>3, NoneType DEF IdlesOK, Same
  <1>9. TypeOK'
    <2>1. /\ timer' \in [Connector -> {None, "timer", "idle"}]
          /\ sched' \in [Connector -> 0..1]
      BY <1>0, <1>5 DEF TypeOK
    <2> QED BY <1>0, <1>1, <1>8, <2>1 DEF TypeOK, ReactorTypeOK
  <1>10. Holds(c)' /\ ReadyOK(c)'
    BY <1>0, <1>3, <1>4, <1>5, <1>6, NoneType DEF Holds, ReadyOK
  <1>11. \A d \in Connector \ {c} : Holds(d)' /\ ReadyOK(d)'
    BY <1>7, SameKept DEF IInv
  <1>12. StackOK'
    BY <1>0 DEF StackOK, Calls
  <1> QED BY <1>1, <1>2, <1>4, <1>8, <1>9, <1>10, <1>11, <1>12 DEF IInv

\* The client registers a descriptor of its own, or closes one.
LEMMA RegisterIInv ==
    ASSUME IInv, NEW x \in Fd, Register(x)
    PROVE  IInv'
  <1> USE DEF Register, OpenIo, conn
  <1>0. /\ TypeOK /\ StackOK /\ IdlesOK /\ Owned /\ ReadyEvents /\ BatchEvents
    BY DEF IInv
  <1>1. /\ io' \in [Fd -> Handler \cup {None}]
        /\ \A fd \in Fd : io'[fd] = IF fd = x THEN Client ELSE io[fd]
        /\ io[x] = None /\ Client \notin Connector
    BY <1>0, ConnectorAssumption DEF TypeOK, ReactorTypeOK
  <1>2. Owned'
    BY <1>0, <1>1, NoneType DEF Owned
  <1>3. ReadyEvents'
    BY <1>0, <1>1 DEF ReadyEvents, TypeOK, ReactorTypeOK
  <1>4. BatchEvents'
    BY <1>0, <1>1, BatchKept
  <1>5. TypeOK'
    BY <1>0, <1>1 DEF TypeOK, ReactorTypeOK
  <1>6. \A d \in Connector : Holds(d)' /\ ReadyOK(d)'
    BY SameKept DEF IInv, Same, At
  <1>7. IdlesOK' /\ StackOK'
    BY <1>0, IdlesSame DEF StackOK, Calls
  <1> QED BY <1>2, <1>3, <1>4, <1>5, <1>6, <1>7 DEF IInv

\* close() of a descriptor of the client's, whoever calls it.
LEMMA ClientCloses ==
    ASSUME IInv, NEW x \in client, CloseIo(x, "closed"), client' = client \ {x},
           cfd' = cfd
    PROVE  /\ Owned' /\ ReadyEvents'
           /\ io' \in [Fd -> Handler \cup {None}] /\ sock' \in [Fd -> State]
           /\ ready' \subseteq Fd /\ client' \subseteq Fd
           /\ \A d \in Connector : cfd[d] # None => sock'[cfd[d]] = sock[cfd[d]]
           /\ \A fd \in Fd : io'[fd] \in Connector =>
                 io[fd] \in Connector /\ sock'[fd] = sock[fd]
  <1> USE DEF CloseIo
  <1>0. TypeOK /\ Owned /\ ReadyEvents /\ x \in Fd
    BY DEF IInv, TypeOK
  <1>1. /\ io' \in [Fd -> Handler \cup {None}] /\ sock' \in [Fd -> State]
        /\ ready' \subseteq Fd /\ client' \subseteq Fd
        /\ \A fd \in Fd : io'[fd] = IF fd = x THEN None ELSE io[fd]
        /\ \A fd \in Fd : sock'[fd] = IF fd = x THEN "closed" ELSE sock[fd]
    BY <1>0 DEF TypeOK, ReactorTypeOK, State
  <1>2. io[x] \notin Connector /\ \A d \in Connector : cfd[d] # x
    BY <1>0 DEF Owned
  <1>3. ready' = ready \ {x}
    OBVIOUS
  <1> HIDE DEF CloseIo
  <1>4. ReadyEvents'
    BY <1>0, <1>1, <1>3 DEF ReadyEvents
  <1>5. ASSUME NEW d \in Connector, NEW fd \in Fd PROVE cfd'[d] = fd <=> io'[fd] = d
    BY <1>0, <1>1, <1>2, NoneType DEF Owned
  <1>6. ASSUME NEW fd \in Fd
        PROVE  /\ io'[fd] = Client => fd \in client'
               /\ io'[fd] \in Connector => fd \notin client'
               /\ (sock'[fd] # "closed") <=> (io'[fd] \in Connector \/ fd \in client')
               /\ io'[fd] \in Connector => io[fd] \in Connector /\ sock'[fd] = sock[fd]
    <2>1. CASE fd = x
      <3>1. io'[fd] = None /\ sock'[fd] = "closed" /\ fd \notin client'
        BY <1>1, <2>1
      <3>2. None # Client /\ None \notin Connector
        BY NoneType, ConnectorAssumption
      <3> QED BY <3>1, <3>2
    <2>2. CASE fd # x
      <3>1. io'[fd] = io[fd] /\ sock'[fd] = sock[fd] /\ (fd \in client' <=> fd \in client)
        BY <1>1, <2>2
      <3> QED BY <1>0, <3>1 DEF Owned
    <2> QED BY <2>1, <2>2
  <1>7. Owned'
    BY <1>5, <1>6 DEF Owned
  <1>8. \A d \in Connector : cfd[d] # None => sock'[cfd[d]] = sock[cfd[d]]
    BY <1>0, <1>1, <1>2 DEF TypeOK
  <1> QED BY <1>1, <1>4, <1>6, <1>7, <1>8

LEMMA ReleaseIInv ==
    ASSUME IInv, NEW x \in Fd, Release(x)
    PROVE  IInv'
  <1> USE DEF Release, conn
  <1>0. /\ TypeOK /\ StackOK /\ IdlesOK /\ BatchEvents
    BY DEF IInv
  <1>1. /\ Owned' /\ ReadyEvents'
        /\ io' \in [Fd -> Handler \cup {None}] /\ sock' \in [Fd -> State]
        /\ ready' \subseteq Fd /\ client' \subseteq Fd
        /\ \A d \in Connector : cfd[d] # None => sock'[cfd[d]] = sock[cfd[d]]
        /\ \A fd \in Fd : io'[fd] \in Connector =>
              io[fd] \in Connector /\ sock'[fd] = sock[fd]
    BY ClientCloses
  <1>2. BatchEvents'
    BY <1>0, <1>1, BatchKept
  <1>3. TypeOK'
    BY <1>0, <1>1 DEF TypeOK, ReactorTypeOK
  <1>4. \A d \in Connector : Holds(d)' /\ ReadyOK(d)'
    BY <1>1, SameKept DEF IInv, Same, At
  <1>5. IdlesOK' /\ StackOK'
    BY <1>0, IdlesSame DEF StackOK, Calls
  <1> QED BY <1>1, <1>2, <1>3, <1>4, <1>5 DEF IInv

-----------------------------------------------------------------------------
(* IInv is inductive: events of the client's descriptors, and the loops. *)

LEMMA ClientEventIInv ==
    ASSUME IInv, ClientEvent
    PROVE  IInv'
  <1> USE DEF ClientEvent, Handles, reactor, conn
  <1>0. /\ TypeOK /\ StackOK /\ IdlesOK
    BY DEF IInv
  <1>1. /\ stack' \in Seq(Frame) /\ StackOK'
        /\ \A d : d # Client => At(d)' = At(d)
    <2>1. At(Client) = "idle" /\ Client \in Handler /\ stack = <<>>
      BY AllIdle, ConnectorAssumption
    <2>2. Push(Client, "io", "client") /\ pc = "batch" /\ batch # <<>> /\ UNCHANGED <<pc, batch>>
      OBVIOUS
    <2> HIDE DEF ClientEvent
    <2> QED BY <1>0, <2>1, <2>2, PushedCall
  <1>2. TypeOK' /\ IdlesOK'
    BY <1>0, <1>1, IdlesSame DEF TypeOK, ReactorTypeOK
  <1>3. \A d \in Connector : Holds(d)' /\ ReadyOK(d)'
    BY <1>1, SameKept, ConnectorAssumption DEF IInv, Same
  <1> QED BY <1>1, <1>2, <1>3 DEF IInv, Owned, ReadyEvents, BatchEvents

\* The client's handler of an event is called by the loop, with the event there.
LEMMA IoCall ==
    ASSUME TypeOK, StackOK, BatchEvents, In(Client, "io"), Return, NextEvent, pc' = pc
    PROVE  /\ stack' = <<>> /\ StackOK'
           /\ \A d \in Connector : At(d) = "idle" /\ At(d)' = "idle"
           /\ batch # <<>> /\ Event \in ToSet(batch) /\ Event.fd \in Fd
           /\ batch' \in Seq(Event_) /\ ToSet(batch') \subseteq ToSet(batch)
  <1>1. /\ StackOK' /\ stack' = <<>>
        /\ \A d : d # Client => At(d)' = At(d)
    BY ReturnCall
  <1>2. \A d : At(d)' = "idle"
    BY <1>1, AtEmpty DEF At
  <1>3. \A d \in Connector : At(d) = "idle" /\ At(d)' = "idle"
    BY <1>1, <1>2, ConnectorAssumption
  <1>4. batch # <<>>
    <2>1. Head(stack) \in Calls
      BY PopCall DEF TypeOK, StackOK, In, Calls
    <2> QED BY <2>1 DEF StackOK, In
  <1>5. batch \in Seq(Event_) /\ IsInjective(batch)
    BY DEF TypeOK, ReactorTypeOK, Event_, BatchEvents, IsInjective
  <1>6. /\ Event \in ToSet(batch) /\ Event \in Event_
        /\ batch' \in Seq(Event_) /\ ToSet(batch') \subseteq ToSet(batch)
    BY <1>4, <1>5, TailProps DEF Event, NextEvent
  <1> QED BY <1>1, <1>3, <1>4, <1>6 DEF Event_

LEMMA IoReturnsIInv ==
    ASSUME IInv, IoReturns
    PROVE  IInv'
  <1> USE DEF IoReturns, conn
  <1>0. /\ TypeOK /\ StackOK /\ IdlesOK /\ BatchEvents
    BY DEF IInv
  <1>1. /\ stack' = <<>> /\ StackOK'
        /\ \A d \in Connector : At(d) = "idle" /\ At(d)' = "idle"
        /\ batch # <<>> /\ batch' \in Seq(Event_) /\ ToSet(batch') \subseteq ToSet(batch)
    BY <1>0, IoCall
  <1>2. BatchEvents'
    BY <1>0, <1>1, BatchKept DEF NextEvent
  <1>3. TypeOK' /\ IdlesOK'
    BY <1>0, <1>1, IdlesSame DEF TypeOK, ReactorTypeOK, Event_
  <1>4. \A d \in Connector : Holds(d)' /\ ReadyOK(d)'
    BY <1>1, SameKept DEF IInv, Same
  <1> QED BY <1>1, <1>2, <1>3, <1>4 DEF IInv, Owned, ReadyEvents

\* The descriptor is closed under whoever has it by now.
LEMMA IoFailsIInv ==
    ASSUME IInv, IoFails
    PROVE  IInv'
  <1> USE DEF IoFails
  <1>0. /\ TypeOK /\ StackOK /\ IdlesOK /\ Owned /\ ReadyEvents /\ BatchEvents
    BY DEF IInv
  <1>1. /\ stack' = <<>> /\ StackOK'
        /\ \A d \in Connector : At(d) = "idle" /\ At(d)' = "idle"
        /\ batch # <<>> /\ Event \in ToSet(batch) /\ Event.fd \in Fd
        /\ batch' \in Seq(Event_) /\ ToSet(batch') \subseteq ToSet(batch)
    BY <1>0, IoCall
  <1> DEFINE x == Event.fd  h == io[x]
  <1>2. h \in Connector \cup {Client, None}
    BY <1>0, <1>1, ConnectorAssumption DEF TypeOK, ReactorTypeOK
  <1> SUFFICES
        /\ Owned' /\ ReadyEvents'
        /\ io' \in [Fd -> Handler \cup {None}] /\ sock' \in [Fd -> State]
        /\ ready' \subseteq Fd /\ client' \subseteq Fd
        /\ cfd' \in [Connector -> Fd \cup {None}]
        /\ told' \in [Connector -> {"none", "open", "err", "out", "end", "lost"}]
        /\ \A d \in Connector : told'[d] = "end" <=> told[d] = "end"
        /\ \A fd \in Fd : io'[fd] \in Connector =>
              io[fd] \in Connector /\ sock'[fd] = sock[fd]
        /\ \A d \in Connector : Holds(d)' /\ ReadyOK(d)'
    <2>1. BatchEvents'
      BY <1>0, <1>1, BatchKept DEF NextEvent
    <2>2. IdlesOK'
      BY <1>0, IdlesSame
    <2>3. TypeOK'
      BY <1>0, <1>1 DEF TypeOK, ReactorTypeOK, Event_
    <2> QED BY <1>1, <2>1, <2>2, <2>3 DEF IInv
  <1>3. CASE h = None
    <2>1. UNCHANGED <<io, sock, ready, client, cfd, told>>
      BY <1>3, NoneType, ConnectorAssumption
    <2>2. \A d \in Connector : Holds(d)' /\ ReadyOK(d)'
      BY <1>1, <2>1, SameKept DEF IInv, Same
    <2> QED BY <1>0, <2>1, <2>2 DEF Owned, ReadyEvents, TypeOK, ReactorTypeOK
  <1>4. CASE h = Client
    <2>1. /\ CloseIo(x, "closed") /\ client' = client \ {x} /\ UNCHANGED <<cfd, told>>
          /\ x \in client
      BY <1>0, <1>1, <1>4, NoneType, ConnectorAssumption DEF Owned
    <2> HIDE DEF IoFails, x, h
    <2>2. /\ Owned' /\ ReadyEvents'
          /\ io' \in [Fd -> Handler \cup {None}] /\ sock' \in [Fd -> State]
          /\ ready' \subseteq Fd /\ client' \subseteq Fd
          /\ \A d \in Connector : cfd[d] # None => sock'[cfd[d]] = sock[cfd[d]]
          /\ \A fd \in Fd : io'[fd] \in Connector =>
                io[fd] \in Connector /\ sock'[fd] = sock[fd]
      BY <2>1, ClientCloses
    <2>3. \A d \in Connector : Holds(d)' /\ ReadyOK(d)'
      BY <1>1, <2>1, <2>2, SameKept DEF IInv, Same, IoFails
    <2> QED BY <1>0, <2>1, <2>2, <2>3 DEF TypeOK
  <1>5. ASSUME NEW g \in Connector, h = g
        PROVE  /\ Owned' /\ ReadyEvents'
               /\ io' \in [Fd -> Handler \cup {None}] /\ sock' \in [Fd -> State]
               /\ ready' \subseteq Fd /\ client' \subseteq Fd
               /\ cfd' \in [Connector -> Fd \cup {None}]
               /\ told' \in [Connector -> {"none", "open", "err", "out", "end", "lost"}]
               /\ \A d \in Connector : told'[d] = "end" <=> told[d] = "end"
               /\ \A fd \in Fd : io'[fd] \in Connector =>
                     io[fd] \in Connector /\ sock'[fd] = sock[fd]
               /\ \A d \in Connector : Holds(d)' /\ ReadyOK(d)'
    <2>1. /\ CloseIo(x, "closed") /\ client' = client
          /\ cfd' = [cfd EXCEPT ![g] = None] /\ told' = [told EXCEPT ![g] = "lost"]
          /\ cfd[g] = x /\ x # None
      BY <1>0, <1>1, <1>5, NoneType, ConnectorAssumption DEF Owned, Tell
    <2>2. CloseFd(g)
      BY <2>1 DEF CloseFd
    <2>3. /\ Owned' /\ ReadyEvents'
          /\ io' \in [Fd -> Handler \cup {None}] /\ sock' \in [Fd -> State]
          /\ ready' \subseteq Fd
          /\ \A d \in Connector \ {g} :
                cfd[d] # None => sock'[cfd[d]] = sock[cfd[d]]
          /\ \A fd \in Fd : io'[fd] \in Connector =>
                io[fd] \in Connector /\ sock'[fd] = sock[fd]
      <3> HIDE DEF IoFails, h
      <3> QED BY <1>0, <1>5, <2>1, <2>2, CloseFdOwned
    <2>4. Holds(g) /\ ReadyOK(g) /\ At(g) = "idle" /\ At(g)' = "idle"
      BY <1>1, <1>5 DEF IInv
    <2>5. timer[g] # "idle" /\ told[g] = "open"
      BY <1>1, <2>1, <2>4 DEF ReadyOK, Holds
    <2>6. told'[g] = "lost" /\ cfd'[g] = None
      BY <1>0, <1>5, <2>1 DEF TypeOK
    <2>7. Holds(g)' /\ ReadyOK(g)'
      BY <1>0, <2>4, <2>5, <2>6 DEF Holds, ReadyOK
    <2>8. \A d \in Connector \ {g} : told'[d] = told[d] /\ cfd'[d] = cfd[d]
      BY <1>0, <2>1 DEF TypeOK
    <2>9. \A d \in Connector \ {g} : Holds(d)' /\ ReadyOK(d)'
      <3>1. \A d \in Connector \ {g} : Same(d)
        BY <1>1, <2>3, <2>8 DEF Same
      <3> QED BY <1>1, <3>1, SameKept DEF IInv
    <2>10. /\ cfd' \in [Connector -> Fd \cup {None}]
           /\ told' \in [Connector -> {"none", "open", "err", "out", "end", "lost"}]
           /\ client' \subseteq Fd
      BY <1>0, <2>1 DEF TypeOK
    <2>11. \A d \in Connector : told'[d] = "end" <=> told[d] = "end"
      BY <2>5, <2>6, <2>8
    <2> QED BY <2>3, <2>7, <2>9, <2>10, <2>11
  <1> QED BY <1>2, <1>3, <1>4, <1>5

LEMMA LoopEndsIInv ==
    ASSUME IInv, LoopEnds
    PROVE  IInv'
  <1> USE DEF LoopEnds, reactor, conn
  <1>0. TypeOK /\ StackOK /\ IdlesOK /\ idles' = idles /\ stack' = <<>>
    BY DEF IInv
  <1>1. pc' \in {"idle1", "timers", "idle2", "wait", "batch"}
    OBVIOUS
  <1>2. TypeOK' /\ IdlesOK' /\ StackOK'
    BY <1>0, <1>1, IdlesSame, SetOfEmpty DEF TypeOK, ReactorTypeOK, StackOK, Calls
  <1>3. \A c \in Connector : timer[c] = "idle" => pc' = "idle1"
    <2>1. ASSUME NEW c \in Connector, timer[c] = "idle" PROVE idles # <<>> /\ pc \in {"batch", "idle1"}
      BY <1>0, <2>1, SetOfEmpty DEF IdlesOK, IInv, ReadyOK
    <2> QED BY <2>1
  <1>4. \A c \in Connector : Holds(c)' /\ ReadyOK(c)'
    BY <1>3 DEF IInv, Holds, ReadyOK, At
  <1> QED BY <1>2, <1>4 DEF IInv, Owned, ReadyEvents, BatchEvents

\* An order of a finite set.
LEMMA OrderOf ==
    ASSUME NEW S, IsFiniteSet(S), NEW order \in SetToSeqs(S)
    PROVE  /\ order \in Seq(S)
           /\ \A i, j \in DOMAIN order : order[i] = order[j] => i = j
  <1>1. Cardinality(S) \in Nat
    BY FS_CardinalityType
  <1> QED BY <1>1 DEF SetToSeqs

LEMMA EpollWaitIInv ==
    ASSUME IInv, EpollWait
    PROVE  IInv'
  <1> USE DEF EpollWait, Wait, conn
  <1>0. /\ TypeOK /\ StackOK /\ IdlesOK /\ ReadyEvents
        /\ ready \subseteq Fd
    BY DEF IInv, TypeOK, ReactorTypeOK
  <1>1. IsFiniteSet(ready)
    BY <1>0, ReactorAssumption, FS_Subset
  <1>2. PICK order \in SetToSeqs(ready) : batch' = [i \in DOMAIN order |-> EventOf(order[i])]
    OBVIOUS
  <1>3. /\ order \in Seq(ready)
        /\ \A i, j \in DOMAIN order : order[i] = order[j] => i = j
    BY <1>1, OrderOf
  <1>4. \A fd \in Fd : EventOf(fd) \in Event_ /\ EventOf(fd).fd = fd
    BY DEF EventOf, Event_
  <1>5. /\ Len(order) \in Nat /\ DOMAIN order = 1..Len(order)
        /\ \A i \in DOMAIN order : order[i] \in ready
    BY <1>3, LenProperties, ElementOfSeq
  <1>6. /\ batch' \in Seq(Event_) /\ DOMAIN batch' = DOMAIN order
        /\ \A i \in DOMAIN order : batch'[i] = EventOf(order[i]) /\ batch'[i].fd = order[i]
    BY <1>0, <1>2, <1>4, <1>5
  <1>7. BatchEvents'
    <2>1. ASSUME NEW e \in ToSet(batch') PROVE e.fd \in ready
      BY <1>5, <1>6, <2>1 DEF ToSet
    <2>2. UNCHANGED <<io, sock>>
      OBVIOUS
    <2> HIDE DEF EpollWait
    <2> QED BY <1>0, <1>3, <1>6, <2>1, <2>2 DEF BatchEvents, ReadyEvents
  <1>8. TypeOK' /\ IdlesOK'
    BY <1>0, <1>6, IdlesSame DEF TypeOK, ReactorTypeOK, Event_
  <1>9. StackOK'
    BY <1>0, SetOfEmpty DEF StackOK, Calls
  <1>10. \A c \in Connector : timer[c] # "idle"
    BY DEF IInv, ReadyOK
  <1>11. \A c \in Connector : Holds(c)' /\ ReadyOK(c)'
    BY <1>10 DEF IInv, Holds, ReadyOK, At
  <1> QED BY <1>7, <1>8, <1>9, <1>11 DEF IInv, Owned, ReadyEvents

LEMMA SkipEventIInv ==
    ASSUME IInv, SkipEvent
    PROVE  IInv'
  <1> USE DEF SkipEvent, Skip, NextEvent, conn
  <1>0. TypeOK /\ StackOK /\ IdlesOK /\ BatchEvents /\ batch # <<>>
    BY DEF IInv
  <1>1. BatchEvents' /\ batch' \in Seq(Event_) /\ ToSet(batch') \subseteq ToSet(batch)
    BY <1>0, BatchKept
  <1>2. TypeOK' /\ IdlesOK'
    BY <1>0, <1>1, IdlesSame DEF TypeOK, ReactorTypeOK, Event_
  <1>3. StackOK'
    BY <1>0, SetOfEmpty DEF StackOK, Calls
  <1>4. \A c \in Connector : Holds(c)' /\ ReadyOK(c)'
    BY <1>1, SameKept DEF IInv, Same, At
  <1> QED BY <1>1, <1>2, <1>3, <1>4 DEF IInv, Owned, ReadyEvents

LEMMA ResolveIInv ==
    ASSUME IInv, NEW x \in Fd, Resolve(x), UNCHANGED <<conn, stack, pc, wakes, client>>
    PROVE  IInv'
  <1> USE DEF Resolve, conn
  <1>0. TypeOK /\ StackOK /\ IdlesOK /\ Owned /\ ReadyEvents /\ BatchEvents
    BY DEF IInv
  <1>1. PICK s \in Settled : sock' = [sock EXCEPT ![x] = s]
    BY DEF Settled
  <1>2. /\ sock' \in [Fd -> State] /\ s # "closed" /\ sock[x] = "pending"
        /\ \A fd \in Fd : sock'[fd] = IF fd = x THEN s ELSE sock[fd]
    BY <1>0, <1>1 DEF TypeOK, ReactorTypeOK, State, Settled
  <1>3. Owned'
    BY <1>0, <1>2 DEF Owned
  <1>4. ReadyEvents' /\ ready' \subseteq Fd
    <2>1. \A fd \in ready' : fd \in ready \/ (fd = x /\ io[fd] # None)
      OBVIOUS
    <2> QED BY <1>0, <1>1, <1>2, <2>1 DEF ReadyEvents, TypeOK, ReactorTypeOK
  <1>5. BatchEvents'
    BY <1>0, <1>1, <1>2, BatchKept DEF Settled
  <1>6. TypeOK' /\ IdlesOK' /\ StackOK'
    BY <1>0, <1>2, <1>4, IdlesSame DEF TypeOK, ReactorTypeOK, StackOK, Calls
  <1>7. ASSUME NEW c \in Connector PROVE Holds(c)' /\ ReadyOK(c)'
    <2>1. Holds(c) /\ ReadyOK(c) /\ (cfd[c] # None => cfd[c] \in Fd)
      BY <1>0 DEF IInv, TypeOK
    <2>2. cfd[c] # None /\ sock[cfd[c]] \in {"fresh", "up"} => sock'[cfd[c]] = sock[cfd[c]]
      BY <1>2, <2>1
    <2>3. At(c)' = At(c)
      BY DEF At
    <2>4. Holds(c)'
      BY <2>1, <2>2, <2>3 DEF Holds
    <2>5. ReadyOK(c)'
      BY <2>1, <2>2 DEF ReadyOK
    <2> QED BY <2>4, <2>5
  <1> QED BY <1>3, <1>4, <1>5, <1>6, <1>7 DEF IInv

LEMMA ArriveIInv ==
    ASSUME IInv, NEW x \in Fd, io[x] = Client, Arrive(x), UNCHANGED <<conn, stack, pc, wakes, client>>
    PROVE  IInv'
  <1> USE DEF Arrive, conn
  <1>0. TypeOK /\ StackOK /\ IdlesOK /\ ReadyEvents
    BY DEF IInv
  <1>1. ReadyEvents'
    BY <1>0, NoneType, ConnectorAssumption DEF ReadyEvents
  <1>2. TypeOK' /\ IdlesOK' /\ StackOK'
    BY <1>0, IdlesSame DEF TypeOK, ReactorTypeOK, StackOK, Calls
  <1>3. \A c \in Connector : Holds(c)' /\ ReadyOK(c)'
    BY SameKept DEF IInv, Same, At
  <1> QED BY <1>1, <1>2, <1>3 DEF IInv, Owned, BatchEvents

-----------------------------------------------------------------------------
(* The invariant. *)

LEMMA InitIInv == Init => IInv
  <1> SUFFICES ASSUME Init PROVE IInv
    OBVIOUS
  <1> USE DEF Init, ReactorInit
  <1>1. TypeOK
    <2>1. ReactorTypeOK
      BY DEF ReactorTypeOK, State
    <2>2. wakes \in BOOLEAN
      OBVIOUS
    <2> QED BY <2>1, <2>2 DEF TypeOK
  <1>2. StackOK
    BY SetOfEmpty DEF StackOK, Calls, Nested
  <1>3. Owned
    BY NoneType, ConnectorAssumption DEF Owned
  <1>4. ReadyEvents /\ BatchEvents
    BY SetOfEmpty DEF ReadyEvents, BatchEvents
  <1>5. IdlesOK
    BY SetOfEmpty, NoneType DEF IdlesOK
  <1>6. \A c \in Connector : Holds(c) /\ ReadyOK(c)
    BY AtEmpty, NoneType DEF Holds, ReadyOK, At
  <1> QED BY <1>1, <1>2, <1>3, <1>4, <1>5, <1>6 DEF IInv

LEMMA StutterIInv == ASSUME IInv, UNCHANGED vars PROVE IInv'
  <1> USE DEF vars, reactor
  <1>1. TypeOK' /\ StackOK' /\ Owned' /\ ReadyEvents' /\ BatchEvents' /\ IdlesOK'
    BY DEF IInv, TypeOK, ReactorTypeOK, StackOK, Calls, Owned, ReadyEvents, BatchEvents, IdlesOK
  <1>2. \A c \in Connector : Holds(c)' /\ ReadyOK(c)'
    BY DEF IInv, Holds, ReadyOK, At
  <1> QED BY <1>1, <1>2 DEF IInv

\* The steps of connect() and of the handlers it calls.
LEMMA AttemptIInv == ASSUME IInv, NEW c \in Connector, Attempt(c) PROVE IInv'
  <1> USE DEF loops, reactor, Emitting
  <1>1. CASE ConnectFails(c)
    <2>1. At(c) = "connect" /\ Holds(c)
      BY <1>1, ReturnCall DEF ConnectFails, GiveUp, IInv
    <2>2. CloseFd(c)
      BY <1>1, <2>1 DEF ConnectFails, CloseFd, Holds
    <2> QED BY <1>1, <2>2, GiveUpIInv DEF ConnectFails
  <1>2. CASE ConnectStarts(c)
    BY <1>2, ConnectStartsIInv
  <1>3. CASE OpenFails(c)
    <2>1. emitting' = [emitting EXCEPT ![c] = FALSE]
      <3>1. At(c) = "open" /\ Holds(c)
        BY <1>3, ReturnCall DEF OpenFails, IInv
      <3> QED BY <1>3, <3>1 DEF OpenFails, Holds, IInv, TypeOK
    <2> QED BY <1>3, <2>1, EndsIInv DEF OpenFails
  <1>4. CASE Established(c)
    <2>1. UNCHANGED <<timer, sched, alive, cfd, emitting, idles, told>>
      BY <1>4 DEF Established, conn
    <2> QED BY <1>4, <2>1, ConnectingIInv DEF Established
  <1>5. CASE InProgress(c)
    <2>1. ready' = ready \cup {}
      BY <1>5 DEF InProgress
    <2> QED BY <1>5, <2>1, ConnectingIInv DEF InProgress
  <1>6. CASE Refused(c)
    BY <1>6, RefusedIInv
  <1>7. CASE ConnectError(c)
    <2>1. emitting' = [emitting EXCEPT ![c] = FALSE]
      <3>1. At(c) = "open" /\ Holds(c)
        BY <1>7, ReturnCall DEF ConnectError, GiveUp, IInv
      <3> QED BY <1>7, <3>1 DEF ConnectError, Holds, IInv, TypeOK
    <2> QED BY <1>7, <2>1, GiveUpIInv DEF ConnectError
  <1>8. CASE RefusedReturns(c)
    BY <1>8, ReturnsIInv DEF RefusedReturns
  <1>9. CASE RefusedFails(c)
    BY <1>9, EndsIInv DEF RefusedFails
  <1> QED BY <1>1, <1>2, <1>3, <1>4, <1>5, <1>6, <1>7, <1>8, <1>9 DEF Attempt

LEMMA CallbackIInv == ASSUME IInv, NEW c \in Connector, Callback(c) PROVE IInv'
  <1> USE DEF loops, Emitting, NextEvent
  <1>1. CASE TimeoutFails(c)
    BY <1>1, EndsIInv DEF TimeoutFails
  <1>2. CASE FailedReturns(c)
    BY <1>2, ReturnsIInv DEF FailedReturns
  <1>3. CASE FailedFails(c)
    BY <1>3, EndsIInv DEF FailedFails
  <1> QED BY <1>1, <1>2, <1>3, TimeoutReturnsIInv, ConnectReadyIInv, OutReturnsIInv,
             DeleteIInv, AttemptFailsIInv, AttemptSucceedsIInv DEF Callback

LEMMA NextIInv == IInv /\ [Next]_vars => IInv'
  <1> SUFFICES ASSUME IInv, [Next]_vars PROVE IInv'
    OBVIOUS
  <1>1. CASE ClientStep
    BY <1>1, ConnectToIInv, ReconnectIInv, CloseIInv, RegisterIInv, ReleaseIInv DEF ClientStep
  <1>2. CASE Kernel
    BY <1>2, ResolveIInv, ArriveIInv DEF Kernel
  <1>3. CASE Progress
    BY <1>3, AttemptIInv, CallbackIInv, ClientEventIInv, IoReturnsIInv, IoFailsIInv,
       LoopEndsIInv, EpollWaitIInv, SkipEventIInv DEF Progress
  <1>4. CASE \E c \in Connector : Fire(c)
    BY <1>4, FireIInv
  <1>5. CASE EpollWait
    BY <1>5, EpollWaitIInv
  <1> QED BY <1>1, <1>2, <1>3, <1>4, <1>5, StutterIInv DEF Next

\* The inductive invariant holds in every state of every run.
THEOREM InvTheorem == Spec => []IInv
  <1> QED BY InitIInv, NextIInv, PTL DEF Spec

-----------------------------------------------------------------------------
(* What the runs check, for all connectors and descriptors. *)

LEMMA QueuedIs ==
    ASSUME TypeOK, IdlesOK, NEW c \in Connector, NEW what
    PROVE  Queued(c, what) = IF <<c, what>> \in ToSet(idles) THEN 1 ELSE 0
  <1> DEFINE w == <<c, what>>
  <1>1. idles \in Seq(Connector \X {"ready", "delete"}) /\ IsInjective(idles)
    BY DEF TypeOK, IdlesOK
  <1>2. Cardinality({i \in DOMAIN idles : idles[i] = w}) = IF w \in ToSet(idles) THEN 1 ELSE 0
    BY <1>1, OccursOnce
  <1> QED BY <1>2 DEF Queued

\* The timer manager holds for each connector exactly the timer or the idle
\* that _timer says (close_timer, timer_handler, connect_ready).
THEOREM TimersTheorem == Spec => []TimersOwned
  <1>1. IInv => TimersOwned
    <2> SUFFICES ASSUME IInv PROVE TimersOwned
      OBVIOUS
    <2>1. TypeOK /\ IdlesOK
      BY DEF IInv
    <2>2. \A c \in Connector : Queued(c, "ready") = IF timer[c] = "idle" THEN 1 ELSE 0
      BY <2>1, QueuedIs DEF IdlesOK
    <2>3. \A c \in Connector : sched[c] = IF timer[c] = "timer" THEN 1 ELSE 0
      BY DEF IInv, Holds
    <2> QED BY <2>1, <2>2, <2>3 DEF TimersOwned
  <1> QED BY <1>1, InvTheorem, PTL

\* Every open socket has one owner, and its events go to that owner
\* (do_connect, connect_handler's poll_close, connect_ready, reactor::close).
THEOREM SocketsTheorem == Spec => []SocketsOwned
  <1>1. IInv => SocketsOwned
    <2> SUFFICES ASSUME IInv, NEW fd \in Fd
                 PROVE  LET owners == {c \in Connector : cfd[c] = fd} IN
                        /\ (sock[fd] # "closed") <=> (owners # {} \/ fd \in client)
                        /\ Cardinality(owners) <= 1 /\ (owners = {} \/ fd \notin client)
                        /\ io[fd] \in Connector => owners = {io[fd]}
                        /\ owners # {} => io[fd] \in owners
      BY DEF SocketsOwned
    <2> DEFINE owners == {c \in Connector : cfd[c] = fd}
    <2>1. Owned
      BY DEF IInv
    <2>2. CASE io[fd] \in Connector
      <3>1. owners = {io[fd]}
        BY <2>1, <2>2 DEF Owned
      <3>2. Cardinality(owners) = 1
        BY <3>1, FS_Singleton
      <3> HIDE DEF owners
      <3> QED BY <2>1, <2>2, <3>1, <3>2 DEF Owned
    <2>3. CASE io[fd] \notin Connector
      <3>1. owners = {}
        BY <2>1, <2>3 DEF Owned
      <3>2. Cardinality(owners) = 0
        BY <3>1, FS_EmptySet
      <3> HIDE DEF owners
      <3> QED BY <2>1, <2>3, <3>1, <3>2 DEF Owned
    <2> QED BY <2>2, <2>3
  <1> QED BY <1>1, InvTheorem, PTL

\* Nothing refers to a deleted connector: the deletion callback() queues is
\* queued once and finds no call, timer, idle or io of the connector left.
THEOREM DanglingTheorem == Spec => []NoDangling
  <1>1. IInv => NoDangling
    <2> SUFFICES ASSUME IInv, NEW c \in Connector
                 PROVE  /\ Queued(c, "delete") <= IF alive[c] = "live" THEN 1 ELSE 0
                        /\ alive[c] = "deleted" =>
                             /\ sched[c] = 0 /\ Queued(c, "ready") = 0 /\ Idling(c)
                             /\ \A fd \in Fd : io[fd] # c
      BY DEF NoDangling
    <2>1. TypeOK /\ StackOK /\ IdlesOK /\ Owned /\ Holds(c)
      BY DEF IInv
    <2>2. /\ Queued(c, "delete") = IF told[c] = "end" /\ alive[c] = "live" THEN 1 ELSE 0
          /\ Queued(c, "ready") = IF timer[c] = "idle" THEN 1 ELSE 0
      BY <2>1, QueuedIs DEF IdlesOK
    <2>3. ASSUME alive[c] = "deleted"
          PROVE  Idling(c) /\ timer[c] = None /\ cfd[c] = None /\ sched[c] = 0
      <3>1. At(c) = "idle" /\ told[c] = "end"
        BY <2>1, <2>3 DEF Holds
      <3>2. Idling(c)
        BY <2>1, <3>1, IdlingAt DEF TypeOK, StackOK
      <3> QED BY <2>1, <3>1, <3>2, NoneType DEF Holds
    <2>4. cfd[c] = None => \A fd \in Fd : io[fd] # c
      BY <2>1, NoneType DEF Owned
    <2> QED BY <2>2, <2>3, <2>4, NoneType
  <1> QED BY <1>1, InvTheorem, PTL

\* A connector that is in no call has what its handler was told of: the socket
\* of the attempt, the timer of the retry, or its deletion.
THEOREM NotForgottenTheorem == Spec => []NotForgotten
  <1>1. IInv => NotForgotten
    <2> SUFFICES ASSUME IInv, NEW c \in Connector, Idling(c)
                 PROVE  /\ told[c] = "open" => cfd[c] # None /\ io[cfd[c]] = c
                        /\ told[c] = "err" /\ c \in Interval => timer[c] = "timer"
                        /\ told[c] = "end" => alive[c] = "deleted" \/ Queued(c, "delete") = 1
      BY DEF NotForgotten
    <2>1. TypeOK /\ StackOK /\ IdlesOK /\ Owned /\ Holds(c)
      BY DEF IInv
    <2>2. At(c) = "idle"
      BY <2>1, IdlingAt DEF TypeOK, StackOK
    <2>3. Queued(c, "delete") = IF told[c] = "end" /\ alive[c] = "live" THEN 1 ELSE 0
      BY <2>1, QueuedIs DEF IdlesOK
    <2>4. cfd[c] # None => cfd[c] \in Fd /\ io[cfd[c]] = c
      BY <2>1 DEF TypeOK, Owned
    <2>5. alive[c] \in {"new", "live", "deleted"}
      BY <2>1 DEF TypeOK
    <2> QED BY <2>1, <2>2, <2>3, <2>4, <2>5 DEF Holds
  <1> QED BY <1>1, InvTheorem, PTL

\* Only connect_ready gives the client a descriptor.
LEMMA HandedOver ==
    ASSUME [Next]_vars, ~ \E c \in Connector : ConnectReady(c)
    PROVE  client' \subseteq client
  <1>1. CASE ClientStep
    BY <1>1 DEF ClientStep, ConnectTo, Reconnect, Close, Register, Release, loops, conn
  <1>2. CASE \E c \in Connector : Attempt(c)
    BY <1>2 DEF Attempt, ConnectFails, ConnectStarts, OpenFails, Established, InProgress,
                Refused, ConnectError, RefusedReturns, RefusedFails, loops
  <1>3. CASE \E c \in Connector : Callback(c)
    BY <1>3 DEF Callback, TimeoutReturns, TimeoutFails, OutReturns, Delete, AttemptFails,
                FailedReturns, FailedFails, AttemptSucceeds, loops
  <1>4. CASE IoFails
    BY <1>4 DEF IoFails
  <1>5. CASE ClientEvent \/ IoReturns \/ LoopEnds \/ EpollWait \/ SkipEvent \/ Kernel
    BY <1>5 DEF ClientEvent, IoReturns, LoopEnds, EpollWait, SkipEvent, Kernel
  <1>6. CASE \E c \in Connector : Fire(c)
    BY <1>6 DEF Fire
  <1> QED BY <1>1, <1>2, <1>3, <1>4, <1>5, <1>6 DEF Next, Progress, vars

\* A descriptor handed to the client is of a connected socket, unless its number
\* was registered anew while the batch was handled (connect_ready).
THEOREM ReadyTheorem == Spec => ReadyIsUp
  <1>1. ASSUME IInv, [Next]_vars
        PROVE  \A fd \in client' \ client : sock[fd] = "up" \/ fd \in reused
    <2>1. CASE \E c \in Connector : ConnectReady(c)
      <3>1. PICK c \in Connector : ConnectReady(c)
        BY <2>1
      <3>2. client' = client \cup {cfd[c]} /\ (sock[cfd[c]] = "up" \/ cfd[c] \in reused)
        BY <1>1, <3>1, ConnectReadyIInv
      <3> QED BY <3>2
    <2>2. CASE ~ \E c \in Connector : ConnectReady(c)
      BY <1>1, <2>2, HandedOver
    <2> QED BY <2>1, <2>2
  <1> QED BY <1>1, InvTheorem, PTL DEF Spec, ReadyIsUp

-----------------------------------------------------------------------------
(* The connectors implement ConnectService. *)

\* What the handler was told at each point of a call.
LEMMA ToldAt ==
    ASSUME IInv, NEW c \in Connector, NEW at, In(c, at)
    PROVE  /\ at = "connect" => told[c] \in {"none", "err", "lost"}
           /\ at = "open" => told[c] \in {"none", "open"} /\ (cfd[c] # None => told[c] = "open")
           /\ at \in {"refused", "timeout", "failed"} => told[c] = "err"
           /\ at = "out" => told[c] = "out"
  <1>1. stack \in Seq(Frame) /\ Nested(stack) /\ Holds(c)
    BY DEF IInv, TypeOK, StackOK
  <1>2. At(c) = at
    BY <1>1, PopCall DEF In, At
  <1> QED BY <1>1, <1>2 DEF Holds

\* A call of connect() that fails.
LEMMA GiveUpService ==
    ASSUME TypeOK, NEW c \in Connector, GiveUp(c), client' = client,
           told[c] \in {"none", "open", "err", "lost"}
    PROVE  Service!Next \/ UNCHANGED Service!vars
  <1> USE DEF Service!vars, Service!Next, Service!Stop, Service!Lose, Service!Tell
  <1>0. told \in [Connector -> {"none", "open", "err", "out", "end", "lost"}]
    BY DEF TypeOK
  <1>1. PICK type \in {"none", "lost"} :
           told' = [told EXCEPT ![c] = type] /\ (type = "lost" => told[c] # "none")
    BY DEF GiveUp, Tell
  <1>2. CASE told[c] = type
    BY <1>0, <1>1, <1>2
  <1>3. CASE told[c] # type /\ type = "none"
    BY <1>1, <1>3
  <1>4. CASE told[c] # type /\ type = "lost"
    BY <1>1, <1>4
  <1> QED BY <1>1, <1>2, <1>3, <1>4

LEMMA ClientService ==
    ASSUME IInv, ClientStep
    PROVE  Service!Next \/ UNCHANGED Service!vars
  <1> USE DEF Service!vars, Service!Next
  <1>0. told \in [Connector -> {"none", "open", "err", "out", "end", "lost"}]
    BY DEF IInv, TypeOK
  <1>1. CASE \E c \in Connector : ConnectTo(c) \/ Reconnect(c)
    BY <1>1 DEF ConnectTo, Reconnect, conn
  <1>2. ASSUME NEW c \in Connector, Close(c)
        PROVE  Service!Stop(c) \/ UNCHANGED Service!vars
    <2>1. told' = [told EXCEPT ![c] = "none"] /\ client' = client /\ told[c] \notin {"out", "end"}
      BY <1>2 DEF Close, Tell, loops, Doomed
    <2>2. CASE told[c] = "none"
      BY <1>0, <2>1, <2>2
    <2>3. CASE told[c] # "none"
      BY <1>0, <2>1, <2>3 DEF Service!Stop, Service!Tell
    <2> QED BY <2>2, <2>3
  <1>3. CASE \E fd \in Fd : Register(fd)
    BY <1>3 DEF Register, conn
  <1>4. ASSUME NEW fd \in Fd, Release(fd)
        PROVE  Service!Free
    BY <1>4 DEF Release, conn, Service!Free
  <1> QED BY <1>1, <1>2, <1>3, <1>4 DEF ClientStep

LEMMA AttemptService ==
    ASSUME IInv, NEW c \in Connector, Attempt(c)
    PROVE  Service!Next \/ UNCHANGED Service!vars
  <1> USE DEF Service!vars, Service!Next, loops, Tell, Service!Tell
  <1>0. TypeOK
    BY DEF IInv
  <1>1. CASE ConnectFails(c)
    BY <1>0, <1>1, ToldAt, GiveUpService DEF ConnectFails
  <1>2. CASE ConnectStarts(c)
    BY <1>2, ToldAt DEF ConnectStarts, Service!Open
  <1>3. CASE OpenFails(c)
    BY <1>3, ToldAt DEF OpenFails, Service!End
  <1>4. CASE Established(c) \/ InProgress(c) \/ RefusedReturns(c)
    BY <1>4 DEF Established, InProgress, RefusedReturns, conn
  <1>5. CASE Refused(c)
    BY <1>5, ToldAt DEF Refused, Service!Err
  <1>6. CASE ConnectError(c)
    BY <1>0, <1>6, ToldAt, GiveUpService DEF ConnectError
  <1>7. CASE RefusedFails(c)
    BY <1>7, ToldAt DEF RefusedFails, Service!End
  <1> QED BY <1>1, <1>2, <1>3, <1>4, <1>5, <1>6, <1>7 DEF Attempt

LEMMA CallbackService ==
    ASSUME IInv, NEW c \in Connector, Callback(c)
    PROVE  Service!Next \/ UNCHANGED Service!vars
  <1> USE DEF Service!vars, Service!Next, loops, Tell, Service!Tell
  <1>1. CASE TimeoutReturns(c) \/ FailedReturns(c) \/ Delete(c) \/ AttemptSucceeds(c)
    BY <1>1 DEF TimeoutReturns, FailedReturns, Delete, AttemptSucceeds
  <1>2. CASE TimeoutFails(c)
    BY <1>2, ToldAt DEF TimeoutFails, Service!End
  <1>3. CASE ConnectReady(c)
    <2>1. /\ cfd[c] \in Fd \ client /\ client' = client \cup {cfd[c]} /\ told[c] = "open"
      BY <1>3, ConnectReadyIInv
    <2> QED BY <1>3, <2>1 DEF ConnectReady, Service!Out
  <1>4. CASE OutReturns(c)
    BY <1>4, ToldAt DEF OutReturns, Service!End
  <1>5. CASE AttemptFails(c)
    BY <1>5, AttemptFailsIInv DEF AttemptFails, Service!Err
  <1>6. CASE FailedFails(c)
    BY <1>6, ToldAt DEF FailedFails, Service!End
  <1> QED BY <1>1, <1>2, <1>3, <1>4, <1>5, <1>6 DEF Callback

LEMMA IoFailsService ==
    ASSUME IInv, IoFails
    PROVE  Service!Next \/ UNCHANGED Service!vars
  <1> USE DEF Service!vars, Service!Next
  <1> DEFINE x == Event.fd  h == io[x]
  <1>0. TypeOK /\ StackOK /\ BatchEvents /\ Owned
    BY DEF IInv
  <1>1. Event.fd \in Fd /\ \A d \in Connector : At(d) = "idle"
    BY <1>0, IoCall DEF IoFails
  <1>2. h \in Connector \cup {Client, None}
    BY <1>0, <1>1, ConnectorAssumption DEF TypeOK, ReactorTypeOK
  <1>3. CASE h = None
    BY <1>3, NoneType, ConnectorAssumption DEF IoFails
  <1>4. CASE h = Client
    <2>1. x \in client /\ client' = client \ {x} /\ told' = told
      BY <1>0, <1>1, <1>4, ConnectorAssumption DEF Owned, IoFails
    <2> QED BY <2>1 DEF Service!Free
  <1>5. CASE h \in Connector
    <2>1. told' = [told EXCEPT ![h] = "lost"] /\ client' = client
      BY <1>5, ConnectorAssumption DEF IoFails, Tell
    <2>2. cfd[h] = x /\ x # None
      BY <1>0, <1>1, <1>5, NoneType DEF Owned
    <2>3. Holds(h) /\ At(h) = "idle"
      BY <1>1, <1>5 DEF IInv
    <2>4. told[h] = "open"
      BY <2>2, <2>3 DEF Holds
    <2> HIDE DEF h
    <2> QED BY <1>5, <2>1, <2>4 DEF Service!Lose, Service!Tell
  <1> QED BY <1>2, <1>3, <1>4, <1>5

LEMMA FireService ==
    ASSUME IInv, NEW c \in Connector, Fire(c)
    PROVE  Service!Next \/ UNCHANGED Service!vars
  <1> USE DEF Service!vars, Service!Next
  <1>1. Holds(c) /\ At(c) = "idle"
    BY AllIdle DEF IInv, Fire
  <1>2. cfd[c] # None => told[c] = "open"
    BY <1>1 DEF Holds
  <1> QED BY <1>2 DEF Fire, Tell, Service!Err, Service!Tell

\* The connectors implement ConnectService: each handler is told of one attempt
\* after the other, of how each ends, and nothing once it returned a failure or
\* was told poll_out, and the client owns what it was handed.
THEOREM RefinementTheorem == Spec => ServiceSpec
  <1>1. Init => Service!Init
    BY DEF Init, Service!Init
  <1>2. ASSUME IInv, [Next]_vars
        PROVE  [Service!Next]_(Service!vars)
    <2>1. CASE Kernel \/ ClientEvent \/ IoReturns \/ LoopEnds \/ EpollWait \/ SkipEvent
               \/ UNCHANGED vars
      BY <2>1 DEF Kernel, ClientEvent, IoReturns, LoopEnds, EpollWait, SkipEvent, vars, conn,
                  Service!vars
    <2> QED BY <1>2, <2>1, ClientService, AttemptService, CallbackService, IoFailsService,
               FireService DEF Next, Progress
  <1> QED BY <1>1, <1>2, InvTheorem, PTL DEF Spec, ServiceSpec, Service!Spec
=============================================================================
