----------------------------- MODULE Connector -----------------------------
(***************************************************************************)
(* connector (src/libll++/socket.h, socket.cpp) as connect_to makes it, on *)
(* a reactor and a timer manager: attempts with a timeout and retries, an  *)
(* idle callback that hands the descriptor over and one that deletes the   *)
(* connector.                                                              *)
(*                                                                         *)
(* A call of one of the client's handlers is a frame of stack.  While it   *)
(* runs the client may call everything, and so it may between two steps of *)
(* the timer manager, from timers and idles of its own.  What the code does*)
(* from one call of a handler to the next is one step, up to a call of     *)
(* connect().                                                              *)
(*                                                                         *)
(* Time is left out: a timer may fire whenever the timer manager runs.     *)
(***************************************************************************)
EXTENDS Reactor

CONSTANTS
    Connector,
    Client,         \* the handler of a descriptor the client registers
    Timeout,        \* connectors with a _timeout
    Interval        \* connectors with an _interval

ASSUME ConnectorAssumption ==
    /\ Handler = Connector \cup {Client} /\ Client \notin Connector
    /\ Timeout \subseteq Connector /\ Interval \subseteq Connector
    /\ None \notin {"timer", "idle"}

VARIABLES
    alive,          \* "new", "live", "deleted"
    cfd,            \* _fd
    timer,          \* _timer: "timer" or "idle" when set
    emitting,       \* _emitting
    sched,          \* how many timers of a connector the timer manager holds
    idles,          \* its idle callbacks: <<connector, "ready" or "delete">>
    stack,          \* the calls under way, the innermost first
    pc,             \* the loop of timer_manager::loop_i or reactor::loop that runs
    wakes,          \* expires # time::max in loop_i: some timer bounds the next sleep
    client,         \* the descriptors handed to the client
    told            \* what the handler was last told

vars == <<reactor, alive, cfd, timer, emitting, sched, idles, stack, pc, wakes, client, told>>

conn == <<alive, cfd, timer, emitting, sched, idles, told>>

Init ==
    /\ ReactorInit
    /\ alive = [c \in Connector |-> "new"]
    /\ cfd = [c \in Connector |-> None]
    /\ timer = [c \in Connector |-> None]
    /\ emitting = [c \in Connector |-> FALSE]
    /\ sched = [c \in Connector |-> 0]
    /\ idles = <<>> /\ stack = <<>> /\ pc = "idle1" /\ wakes = FALSE
    /\ client = {}
    /\ told = [c \in Connector |-> "none"]

-----------------------------------------------------------------------------
(* Calls. *)

\* A call on behalf of c at a point of the code; by is who called connect().
Frame == [c : Handler, by : {"client", "timer"},
          at : {"connect", "open", "refused", "timeout", "failed", "out", "io"}]

Push(c, at, by) == stack' = <<[c |-> c, at |-> at, by |-> by]>> \o stack
Become(at) == stack' = <<[Head(stack) EXCEPT !.at = at]>> \o Tail(stack)
Return == stack' = Tail(stack)

\* The innermost call is one of c at the point.
In(c, at) == stack # <<>> /\ Head(stack).c = c /\ Head(stack).at = at

ByTimer == Head(stack).by = "timer"

\* Client code can run: it was called, or the timer manager's loop is at work.
ClientRuns == IF stack = <<>> THEN pc # "batch" ELSE Head(stack).at # "connect"

Tell(c, type) == told' = [told EXCEPT ![c] = type]
Emitting(c, b) == emitting' = [emitting EXCEPT ![c] = b]

\* connecting()
Connecting(c) == timer[c] # None \/ cfd[c] # None

\* callback() queues the deletion: the handler failed or was told poll_out.
Doomed(c) == told[c] \in {"out", "end"}

QueueDelete(c) == idles' = Append(idles, <<c, "delete">>)

\* _timermgr->schedule(...) into _timer.
SetTimer(c) ==
    /\ timer' = [timer EXCEPT ![c] = "timer"]
    /\ sched' = [sched EXCEPT ![c] = @ + 1]

\* Mutant of CloseTimer: _timer is forgotten and not removed.
ForgetTimer(c) == timer' = [timer EXCEPT ![c] = None] /\ UNCHANGED <<sched, idles>>

\* close_timer()
CloseTimer(c) ==
    /\ timer' = [timer EXCEPT ![c] = None]
    /\ sched' = [sched EXCEPT ![c] = IF timer[c] = "timer" THEN @ - 1 ELSE @]
    /\ idles' = IF timer[c] = "idle" THEN RemoveFirst(idles, <<c, "ready">>) ELSE idles

\* _reactor->close(_fd): connect_handler gets poll_close and closes _fd.  Of -1
\* it does nothing.
CloseFd(c) ==
    IF cfd[c] = None THEN UNCHANGED <<io, sock, ready, cfd>>
    ELSE CloseIo(cfd[c], "closed") /\ cfd' = [cfd EXCEPT ![c] = None]

\* The variables of the reactor no step of a connector changes.
loops == <<batch, reused, pc, wakes, client>>

-----------------------------------------------------------------------------
(* The client. *)

\* connect_to
ConnectTo(c) ==
    /\ ClientRuns /\ alive[c] = "new"
    /\ alive' = [alive EXCEPT ![c] = "live"]
    /\ Push(c, "connect", "client")
    /\ UNCHANGED <<reactor, cfd, timer, emitting, sched, idles, pc, wakes, client, told>>

Idling(c) == \A i \in DOMAIN stack : stack[i].c # c

\* connect() once more; with an attempt under way it returns e_busy.
Reconnect(c) ==
    /\ ClientRuns /\ alive[c] = "live" /\ ~Doomed(c) /\ Idling(c) /\ ~Connecting(c)
    /\ Push(c, "connect", "client")
    /\ UNCHANGED <<reactor, conn, pc, wakes, client>>

\* close(); it does nothing while the handler runs, except for poll_open.
Close(c) ==
    /\ ClientRuns /\ alive[c] = "live" /\ ~Doomed(c) /\ Connecting(c)
    /\ ~emitting[c] /\ CloseFd(c) /\ CloseTimer(c) /\ Tell(c, "none")
    /\ UNCHANGED <<alive, emitting, stack, loops>>

\* The client registers a descriptor it was handed with a handler of its own.
Register(fd) ==
    /\ ClientRuns /\ fd \in client /\ OpenIo(fd, Client)
    /\ UNCHANGED <<sock, ready, batch, conn, stack, pc, wakes, client>>

\* It closes it through the reactor, as test_reactor.cpp does, or on its own.
Release(fd) ==
    /\ ClientRuns /\ fd \in client
    /\ CloseIo(fd, "closed") /\ client' = client \ {fd}
    /\ UNCHANGED <<batch, reused, conn, stack, pc, wakes>>

ClientStep ==
    \/ \E c \in Connector : ConnectTo(c) \/ Reconnect(c) \/ Close(c)
    \/ \E fd \in Fd : Register(fd) \/ Release(fd)

-----------------------------------------------------------------------------
(* connect() and do_connect(). *)

\* connect() ends with a failure: the client that called it sees that, while
\* timer_handler does not look.
GiveUp(c) ==
    /\ Return
    /\ Tell(c, IF ByTimer /\ told[c] # "none" THEN "lost" ELSE "none")

\* socket() or reactor::open fails.
ConnectFails(c) ==
    /\ In(c, "connect")
    /\ Emitting(c, FALSE) /\ GiveUp(c)
    /\ UNCHANGED <<reactor, alive, cfd, timer, sched, idles, pc, wakes, client>>

\* A new socket, registered with the reactor; the handler is told poll_open.
ConnectStarts(c) ==
    /\ In(c, "connect") /\ ~Connecting(c) /\ FreeFds # {}
    /\ cfd' = [cfd EXCEPT ![c] = NewFd] /\ OpenIo(NewFd, c)
    /\ sock' = [sock EXCEPT ![NewFd] = "fresh"]
    /\ Emitting(c, FALSE) /\ Tell(c, "open") /\ Become("open")
    /\ UNCHANGED <<ready, batch, alive, timer, sched, idles, pc, wakes, client>>

\* The handler fails.
OpenFails(c) ==
    /\ In(c, "open")
    /\ CloseFd(c) /\ QueueDelete(c) /\ Tell(c, "end") /\ Return
    /\ UNCHANGED <<alive, timer, emitting, sched, loops>>

\* ::connect succeeds at once.
Established(c) ==
    /\ In(c, "open") /\ cfd[c] # None
    /\ sock' = [sock EXCEPT ![cfd[c]] = "up"] /\ ready' = ready \cup {cfd[c]}
    /\ Return
    /\ UNCHANGED <<io, conn, loops>>

\* Mutant of InProgress: no timer is set.
InProgressUntimed(c) ==
    /\ In(c, "open") /\ cfd[c] # None
    /\ sock' = [sock EXCEPT ![cfd[c]] = "pending"]
    /\ Return /\ UNCHANGED <<timer, sched>>
    /\ UNCHANGED <<io, ready, alive, cfd, emitting, idles, told, loops>>

\* Mutant of InProgress: connect_ready is queued as if the socket were connected.
InProgressReady(c) ==
    /\ In(c, "open") /\ cfd[c] # None
    /\ sock' = [sock EXCEPT ![cfd[c]] = "pending"]
    /\ timer' = [timer EXCEPT ![c] = "idle"] /\ idles' = Append(idles, <<c, "ready">>)
    /\ Return
    /\ UNCHANGED <<io, ready, alive, cfd, emitting, sched, told, loops>>

\* EINPROGRESS: wait for the reactor, or for the timeout if there is one.
InProgress(c) ==
    /\ In(c, "open") /\ cfd[c] # None
    /\ sock' = [sock EXCEPT ![cfd[c]] = "pending"]
    /\ IF c \in Timeout THEN SetTimer(c) ELSE UNCHANGED <<timer, sched>>
    /\ Return
    /\ UNCHANGED <<io, ready, alive, cfd, emitting, idles, told, loops>>

\* ECONNREFUSED: the handler is told poll_err.
Refused(c) ==
    /\ In(c, "open") /\ cfd[c] # None
    /\ Emitting(c, TRUE) /\ Tell(c, "err") /\ Become("refused")
    /\ UNCHANGED <<reactor, alive, cfd, timer, sched, idles, pc, wakes, client>>

\* Another error, EBADF when the handler has closed the connector among them.
ConnectError(c) ==
    /\ In(c, "open")
    /\ CloseFd(c) /\ GiveUp(c)
    /\ UNCHANGED <<alive, timer, emitting, sched, idles, loops>>

\* The handler of a refused attempt returns: retry after the interval, or end.
RefusedReturns(c) ==
    /\ In(c, "refused")
    /\ Emitting(c, FALSE) /\ CloseFd(c) /\ Return
    /\ IF c \in Interval THEN SetTimer(c) ELSE UNCHANGED <<timer, sched>>
    /\ UNCHANGED <<alive, idles, told, loops>>

\* It fails.
RefusedFails(c) ==
    /\ In(c, "refused")
    /\ Emitting(c, FALSE) /\ CloseFd(c) /\ Return
    /\ QueueDelete(c) /\ Tell(c, "end")
    /\ UNCHANGED <<alive, timer, sched, loops>>

Attempt(c) ==
    \/ ConnectFails(c) \/ ConnectStarts(c) \/ OpenFails(c)
    \/ Established(c) \/ InProgress(c) \/ Refused(c) \/ ConnectError(c)
    \/ RefusedReturns(c) \/ RefusedFails(c)

-----------------------------------------------------------------------------
(* Timers and idles. *)

\* timer_handler: an attempt timed out, or the time for a retry has come.
Fire(c) ==
    /\ stack = <<>> /\ pc = "timers" /\ sched[c] > 0
    /\ sched' = [sched EXCEPT ![c] = @ - 1]
    /\ timer' = [timer EXCEPT ![c] = None]
    /\ \/ /\ cfd[c] # None /\ Emitting(c, TRUE) /\ Tell(c, "err")
          /\ Push(c, "timeout", "timer")
       \/ /\ cfd[c] = None /\ UNCHANGED <<emitting, told>>
          /\ Push(c, "connect", "timer")
    /\ UNCHANGED <<reactor, alive, cfd, idles, pc, wakes, client>>

\* The handler of a timed-out attempt returns: connect again at once.
TimeoutReturns(c) ==
    /\ In(c, "timeout")
    /\ Emitting(c, FALSE) /\ CloseFd(c) /\ Become("connect")
    /\ UNCHANGED <<alive, timer, sched, idles, told, loops>>

\* Mutant of TimeoutFails: connect() all the same.
TimeoutGoesOn(c) ==
    /\ In(c, "timeout")
    /\ Emitting(c, FALSE) /\ CloseFd(c) /\ Become("connect")
    /\ QueueDelete(c) /\ Tell(c, "end")
    /\ UNCHANGED <<alive, timer, sched, loops>>

\* It fails.
TimeoutFails(c) ==
    /\ In(c, "timeout")
    /\ Emitting(c, FALSE) /\ CloseFd(c) /\ Return
    /\ QueueDelete(c) /\ Tell(c, "end")
    /\ UNCHANGED <<alive, timer, sched, loops>>

\* Mutant of ConnectReady: _fd is not detached, so poll_close closes it.
ReadyClosesFd(c) ==
    /\ stack = <<>> /\ pc \in {"idle1", "idle2"}
    /\ idles # <<>> /\ Head(idles) = <<c, "ready">> /\ idles' = Tail(idles)
    /\ timer' = [timer EXCEPT ![c] = None]
    /\ CloseFd(c) /\ client' = client \cup {cfd[c]}
    /\ Emitting(c, TRUE) /\ Tell(c, "out") /\ Push(c, "out", "timer")
    /\ UNCHANGED <<batch, reused, alive, sched, pc, wakes>>

\* connect_ready, an idle: the descriptor goes to the client, poll_out is told.
ConnectReady(c) ==
    /\ stack = <<>> /\ pc \in {"idle1", "idle2"}
    /\ idles # <<>> /\ Head(idles) = <<c, "ready">> /\ idles' = Tail(idles)
    /\ timer' = [timer EXCEPT ![c] = None]
    /\ cfd' = [cfd EXCEPT ![c] = None]
    /\ CloseIo(cfd[c], sock[cfd[c]])
    /\ client' = client \cup {cfd[c]}
    /\ Emitting(c, TRUE) /\ Tell(c, "out") /\ Push(c, "out", "timer")
    /\ UNCHANGED <<batch, reused, alive, sched, pc, wakes>>

\* Whatever the handler returns, callback() deletes the connector soon.
OutReturns(c) ==
    /\ In(c, "out")
    /\ Emitting(c, FALSE) /\ QueueDelete(c) /\ Tell(c, "end") /\ Return
    /\ UNCHANGED <<reactor, alive, cfd, timer, sched, pc, wakes, client>>

\* The idle callback() queued: ~connector, that is close().
Delete(c) ==
    /\ stack = <<>> /\ pc \in {"idle1", "idle2"}
    /\ idles # <<>> /\ Head(idles) = <<c, "delete">> /\ idles' = Tail(idles)
    /\ alive' = [alive EXCEPT ![c] = "deleted"]
    /\ IF emitting[c] THEN UNCHANGED <<io, sock, ready, cfd, timer, sched>>
       ELSE /\ CloseFd(c) /\ timer' = [timer EXCEPT ![c] = None]
            /\ sched' = [sched EXCEPT ![c] = IF timer[c] = "timer" THEN @ - 1 ELSE @]
    /\ UNCHANGED <<emitting, told, stack, loops>>

-----------------------------------------------------------------------------
(* Events. *)

Handles(c) == stack = <<>> /\ pc = "batch" /\ batch # <<>> /\ io[Event.fd] = c

\* connect_handler finds SO_ERROR set or was told of an error.
Bad == Event.type = "err" \/ sock[Event.fd] = "refused"

\* The handler is told poll_err.
AttemptFails(c) ==
    /\ Handles(c) /\ Bad
    /\ CloseTimer(c) /\ Emitting(c, TRUE) /\ Tell(c, "err")
    /\ Push(c, "failed", "timer")
    /\ UNCHANGED <<reactor, alive, cfd, pc, wakes, client>>

\* Mutant of FailedReturns: no retry is scheduled.
FailedEnds(c) ==
    /\ In(c, "failed")
    /\ Emitting(c, FALSE) /\ CloseFd(c) /\ NextEvent /\ Return
    /\ UNCHANGED <<timer, sched, alive, idles, told, reused, pc, wakes, client>>

\* It returns: the retry is scheduled, and reactor::loop closes the descriptor.
FailedReturns(c) ==
    /\ In(c, "failed")
    /\ Emitting(c, FALSE) /\ CloseFd(c) /\ NextEvent /\ Return
    /\ IF c \in Interval THEN SetTimer(c) ELSE UNCHANGED <<timer, sched>>
    /\ UNCHANGED <<alive, idles, told, reused, pc, wakes, client>>

\* It fails.
FailedFails(c) ==
    /\ In(c, "failed")
    /\ Emitting(c, FALSE) /\ CloseFd(c) /\ NextEvent /\ Return
    /\ QueueDelete(c) /\ Tell(c, "end")
    /\ UNCHANGED <<alive, timer, sched, reused, pc, wakes, client>>

\* Mutant of AttemptSucceeds: the timeout is not removed.
SucceedsTimed(c) ==
    /\ Handles(c) /\ ~Bad /\ NextEvent
    /\ timer' = [timer EXCEPT ![c] = "idle"]
    /\ idles' = Append(idles, <<c, "ready">>)
    /\ UNCHANGED <<io, sock, ready, reused, alive, cfd, emitting, told, sched, stack, pc, wakes, client>>

\* No error: connect_ready will run as an idle.
AttemptSucceeds(c) ==
    /\ Handles(c) /\ ~Bad /\ NextEvent
    /\ timer' = [timer EXCEPT ![c] = "idle"]
    /\ sched' = [sched EXCEPT ![c] = IF timer[c] = "timer" THEN @ - 1 ELSE @]
    /\ idles' = Append(idles, <<c, "ready">>)
    /\ UNCHANGED <<io, sock, ready, reused, alive, cfd, emitting, told, stack, pc, wakes, client>>

\* An event of a descriptor the client registered.
ClientEvent ==
    /\ Handles(Client) /\ Push(Client, "io", "client")
    /\ UNCHANGED <<reactor, conn, pc, wakes, client>>

\* Its handler returns.
IoReturns ==
    /\ In(Client, "io") /\ NextEvent /\ Return
    /\ UNCHANGED <<io, sock, ready, reused, conn, pc, wakes, client>>

\* It fails: reactor::loop closes the descriptor, if it is still registered, and
\* whoever has registered it by now.
IoFails ==
    /\ In(Client, "io") /\ NextEvent /\ Return
    /\ LET h == io[Event.fd] IN
        /\ IF h = None THEN UNCHANGED <<io, sock, ready>> ELSE CloseIo(Event.fd, "closed")
        /\ client' = IF h = Client THEN client \ {Event.fd} ELSE client
        /\ IF h \in Connector THEN cfd' = [cfd EXCEPT ![h] = None] /\ Tell(h, "lost")
           ELSE UNCHANGED <<cfd, told>>
    /\ UNCHANGED <<reused, alive, timer, emitting, sched, idles, pc, wakes>>

Callback(c) ==
    \/ TimeoutReturns(c) \/ TimeoutFails(c) \/ ConnectReady(c) \/ OutReturns(c)
    \/ Delete(c) \/ AttemptFails(c) \/ FailedReturns(c) \/ FailedFails(c)
    \/ AttemptSucceeds(c)

-----------------------------------------------------------------------------
(* The loops, as the caller of both runs them. *)

\* The loop of idles or of timers ends; that of timers as soon as none is due, and
\* what then waits in the map is what loop_i returns the time of.
LoopEnds ==
    /\ stack = <<>>
    /\ \/ pc = "idle1" /\ idles = <<>> /\ pc' = "timers" /\ UNCHANGED wakes
       \/ pc = "timers" /\ pc' = "idle2" /\ wakes' = \E c \in Connector : sched[c] > 0
       \/ pc = "idle2" /\ idles = <<>> /\ pc' = "wait" /\ UNCHANGED wakes
       \/ pc = "batch" /\ batch = <<>> /\ pc' = "idle1" /\ UNCHANGED wakes
    /\ UNCHANGED <<reactor, conn, stack, client>>

\* reactor::loop waits; the timeout it is given may pass without an event.
EpollWait ==
    /\ stack = <<>> /\ pc = "wait" /\ pc' = "batch"
    /\ Wait /\ UNCHANGED <<conn, stack, wakes, client>>

\* epoll_wait has something to return for: an event, or a timeout other than -1.
Awaited == ready # {} \/ wakes

SkipEvent ==
    /\ stack = <<>> /\ pc = "batch"
    /\ Skip /\ UNCHANGED <<conn, stack, pc, wakes, client>>

\* The peer answers, or data comes for the client.
Kernel ==
    /\ \E fd \in Fd :
        \/ Resolve(fd)
        \/ io[fd] = Client /\ Arrive(fd)
    /\ UNCHANGED <<conn, stack, pc, wakes, client>>

Progress ==
    \/ \E c \in Connector : Attempt(c) \/ Callback(c)
    \/ ClientEvent \/ IoReturns \/ IoFails \/ LoopEnds \/ SkipEvent
    \/ Awaited /\ EpollWait

\* epoll_wait may also return with nothing the connectors wait for: a signal, or a
\* timer or a descriptor of the client's own.
Next ==
    ClientStep \/ Kernel \/ Progress \/ EpollWait \/ \E c \in Connector : Fire(c)

\* Time passes: a timer that stays set is due in the end, and is dispatched if the
\* loop of timers runs again and again.
DueInTheEnd(c) == <>[](sched[c] > 0) => <>[](pc # "timers")

\* The caller runs both loops again and again and every handler returns, though
\* the client may do much before at each depth of calls.  Nobody has to answer,
\* the client has nothing to do, and epoll_wait need not return for nothing.
Spec ==
    /\ Init /\ [][Next]_vars
    /\ \A depth \in 0..Cardinality(Handler) : SF_vars(Len(stack) = depth /\ Progress)
    /\ \A c \in Timeout : DueInTheEnd(c)

-----------------------------------------------------------------------------
(* Properties. *)

TypeOK ==
    /\ ReactorTypeOK
    /\ alive \in [Connector -> {"new", "live", "deleted"}]
    /\ cfd \in [Connector -> Fd \cup {None}]
    /\ timer \in [Connector -> {None, "timer", "idle"}]
    /\ emitting \in [Connector -> BOOLEAN]
    /\ sched \in [Connector -> 0..1]
    /\ idles \in Seq(Connector \X {"ready", "delete"})
    /\ stack \in Seq(Frame)
    /\ pc \in {"idle1", "timers", "idle2", "wait", "batch"} /\ wakes \in BOOLEAN
    /\ client \subseteq Fd
    /\ told \in [Connector -> {"none", "open", "err", "out", "end", "lost"}]

Queued(c, what) == Cardinality({i \in DOMAIN idles : idles[i] = <<c, what>>})

\* The timer manager holds for a connector what _timer says: never two timers,
\* nor one that is forgotten and fires into a later attempt.
TimersOwned == TypeOK /\
    \A c \in Connector :
        /\ sched[c] = IF timer[c] = "timer" THEN 1 ELSE 0
        /\ Queued(c, "ready") = IF timer[c] = "idle" THEN 1 ELSE 0

\* Every open socket has one owner, a connector or the client, and events go to
\* the connector that owns it: no descriptor leaks or is closed under another
\* owner, through closes inside handlers, reuse of numbers, retries and failures.
SocketsOwned ==
    /\ \A fd \in Fd :
        LET owners == {c \in Connector : cfd[c] = fd} IN
        /\ (sock[fd] # "closed") <=> (owners # {} \/ fd \in client)
        /\ Cardinality(owners) <= 1 /\ (owners = {} \/ fd \notin client)
        /\ io[fd] \in Connector => owners = {io[fd]}
        /\ owners # {} => io[fd] \in owners

\* Nothing refers to a deleted connector, it is deleted once, and only when no
\* call of its own is under way.
NoDangling ==
    \A c \in Connector :
        /\ Queued(c, "delete") <= IF alive[c] = "live" THEN 1 ELSE 0
        /\ alive[c] = "deleted" =>
            /\ sched[c] = 0 /\ Queued(c, "ready") = 0 /\ Idling(c)
            /\ \A fd \in Fd : io[fd] # c

\* Unless its attempt was lost, a connector that told of an attempt has a socket
\* under way, and one that told of a failure and has an interval has a timer.
NotForgotten ==
    \A c \in Connector :
        Idling(c) =>
            /\ told[c] = "open" => cfd[c] # None /\ io[cfd[c]] = c
            /\ told[c] = "err" /\ c \in Interval => timer[c] = "timer"
            /\ told[c] = "end" => alive[c] = "deleted" \/ Queued(c, "delete") = 1

\* test_reactor.cpp takes poll_out as "connect ok" (test/test_reactor.cpp:54-55):
\* a descriptor handed to the client is of an established connection.
ConnectOk == \A c \in Connector, fd \in Fd : In(c, "out") /\ fd \in client => sock[fd] # "pending"

\* It is one, unless its number was registered anew while a batch was handled.
ReadyIsUp == [][\A fd \in client' \ client : sock[fd] = "up" \/ fd \in reused]_vars

\* The connectors implement ConnectService.
Service == INSTANCE ConnectService WITH held <- client

ServiceSpec == Service!Spec

\* reactor::loop sleeps without a timeout, and the timer of c was set after loop_i
\* had fixed the time to sleep: in its second loop of idles, or after it.
SleptPast(c) == pc = "wait" /\ ~Awaited /\ sched[c] > 0

\* An attempt with a timeout ends, whatever the peer does, unless the caller sleeps
\* past the timeout for ever.
Answered ==
    \A c \in Timeout : <>[]SleptPast(c) \/ (told[c] = "open" ~> told[c] # "open")
=============================================================================
