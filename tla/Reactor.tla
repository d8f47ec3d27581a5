------------------------------ MODULE Reactor ------------------------------
(***************************************************************************)
(* reactor (src/libll++/reactor.h, reactor.cpp): the table of io objects   *)
(* by descriptor, the epoll set behind it, and the batch of events loop    *)
(* works through.  An io object that is in use is registered with epoll;   *)
(* its handler belongs to a connector or to the client.                    *)
(*                                                                         *)
(* External, as the code uses it: the kernel gives a new socket the lowest *)
(* free descriptor, closing a descriptor takes it out of the epoll set, and*)
(* events are edge-triggered (EPOLLET).                                    *)
(***************************************************************************)
EXTENDS Integers, Sequences, SequencesExt, FiniteSets, FiniteSetsExt

CONSTANTS
    Fd,             \* the descriptors: 0..n for some n, below _maxfds
    Handler,        \* who may handle the events of a descriptor
    None

ASSUME ReactorAssumption == Fd \subseteq Nat /\ IsFiniteSet(Fd) /\ None \notin Handler \cup Fd

VARIABLES
    io,             \* _fds: the handler connected to a descriptor's io, or None
    sock,           \* the socket of a descriptor: see State
    ready,          \* descriptors with an event epoll_wait has not returned
    batch,          \* events epoll_wait returned that loop has not handled
    reused          \* descriptors registered since epoll_wait returned

reactor == <<io, sock, ready, batch, reused>>

\* "fresh": not connected; "pending": connecting; then connected or refused.
State == {"closed", "fresh", "pending", "up", "refused"}

ReactorInit ==
    /\ io = [fd \in Fd |-> None]
    /\ sock = [fd \in Fd |-> "closed"]
    /\ ready = {} /\ batch = <<>> /\ reused = {}

ReactorTypeOK ==
    /\ io \in [Fd -> Handler \cup {None}]
    /\ sock \in [Fd -> State]
    /\ ready \subseteq Fd /\ reused \subseteq Fd
    /\ batch \in Seq([fd : Fd, type : {"out", "err"}])

-----------------------------------------------------------------------------
FreeFds == {fd \in Fd : sock[fd] = "closed"}

\* socket(2).
NewFd == Min(FreeFds)

\* reactor::open(fd, flags, handler); e_busy when the io is in use.
OpenIo(fd, h) ==
    /\ io[fd] = None
    /\ io' = [io EXCEPT ![fd] = h]
    /\ reused' = reused \cup {fd}

\* reactor::close(fd); s is what the handler of poll_close makes of the socket.
CloseIo(fd, s) ==
    /\ io' = [io EXCEPT ![fd] = None]
    /\ ready' = ready \ {fd}
    /\ sock' = [sock EXCEPT ![fd] = s]

\* The kernel ends a connection attempt; epoll reports it on the next wait.
Resolve(fd) ==
    /\ sock[fd] = "pending"
    /\ \E s \in {"up", "refused"} : sock' = [sock EXCEPT ![fd] = s]
    /\ ready' = IF io[fd] = None THEN ready ELSE ready \cup {fd}
    /\ UNCHANGED <<io, batch, reused>>

\* Something happens to a descriptor that is registered.
Arrive(fd) == ready' = ready \cup {fd} /\ UNCHANGED <<io, sock, batch, reused>>

EventOf(fd) == [fd |-> fd, type |-> IF sock[fd] = "refused" THEN "err" ELSE "out"]

\* epoll_wait in reactor::loop: the events there are, in any order.
Wait ==
    /\ \E order \in SetToSeqs(ready) :
        batch' = [i \in DOMAIN order |-> EventOf(order[i])]
    /\ ready' = {} /\ reused' = {}
    /\ UNCHANGED <<io, sock>>

Event == Head(batch)

NextEvent == batch' = Tail(batch)

\* reactor::loop skips an event whose io has no handler.
Skip ==
    /\ batch # <<>> /\ io[Event.fd] = None
    /\ NextEvent /\ UNCHANGED <<io, sock, ready, reused>>
=============================================================================
