--------------------------- MODULE ConnectService ---------------------------
(***************************************************************************)
(* What connector::connect_to (src/libll++/socket.h, socket.cpp) promises  *)
(* the handler it is given: which calls it gets, in which order, and which *)
(* descriptors it comes to own.                                            *)
(***************************************************************************)
CONSTANTS Connector, Fd

VARIABLES
    told,           \* what the handler of each connector knows
    held            \* the descriptors handed to the client

vars == <<told, held>>

Tell(c, type) == told' = [told EXCEPT ![c] = type]

Init == told = [c \in Connector |-> "none"] /\ held = {}

\* poll_open: an attempt starts; there is no other one under way.
Open(c) == told[c] \in {"none", "err", "lost"} /\ Tell(c, "open") /\ UNCHANGED held

\* poll_err: the attempt failed, once.
Err(c) == told[c] = "open" /\ Tell(c, "err") /\ UNCHANGED held

\* poll_out: the client owns a descriptor it did not own.
Out(c) ==
    /\ told[c] = "open" /\ Tell(c, "out")
    /\ \E fd \in Fd \ held : held' = held \cup {fd}

\* The client closes the connector, or its call of connect returns a failure.
Stop(c) == told[c] \in {"open", "err", "lost"} /\ Tell(c, "none") /\ UNCHANGED held

\* An attempt ended without a word.
Lose(c) == told[c] \in {"open", "err"} /\ Tell(c, "lost") /\ UNCHANGED held

\* The handler returned a failure, or was told poll_out: no call follows.
End(c) == told[c] \in {"none", "open", "err", "out"} /\ Tell(c, "end") /\ UNCHANGED held

\* The client closes a descriptor of its own.
Free == \E fd \in held : held' = held \ {fd} /\ UNCHANGED told

Next ==
    \/ Free
    \/ \E c \in Connector : Open(c) \/ Err(c) \/ Out(c) \/ Stop(c) \/ Lose(c) \/ End(c)

Spec == Init /\ [][Next]_vars
=============================================================================
