\* One connector is closed and connects again between two events of a batch.
CONSTANTS
    Client = Client
    None = None
    Connector = {c1, c2}
    Handler = {c1, c2, Client}
    Fd = {0, 1}
    Timeout = {c1}
    Interval = {c1}
SPECIFICATION Spec
INVARIANT ConnectOk
