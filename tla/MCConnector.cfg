CONSTANTS
    Client = Client
    None = None
    Connector = {c1, c2}
    Handler = {c1, c2, Client}
    Fd = {0, 1}
    Timeout = {c1}
    Interval = {c1}
SPECIFICATION Spec
INVARIANTS TimersOwned SocketsOwned NoDangling NotForgotten
PROPERTIES ReadyIsUp ServiceSpec Answered
