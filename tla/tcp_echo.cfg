CONSTANTS
    Clients = {c1, c2}
    Nobody = nobody
    max_length = 2
    Talker = c1
    MaxSent = 3
    Bytes = {1, 2, 3}
SPECIFICATION MCSpec
INVARIANTS
    TcpTypeOK
    SessionHasOneOperation
PROPERTIES
    ConnectionsAreServed
    SessionsAreReleased
    ImplementsStreamEcho
\* The clients may have said all they say, or be gone.
CHECK_DEADLOCK FALSE
