CONSTANTS
    Peers = {p1, p2}
    NoEndpoint = NoEndpoint
    Chunks = {"a", "b"}
    Bodies <- MCBodies
    BUFFER_SIZE = 2
    MaxSent = 3
SPECIFICATION Spec
INVARIANTS
    TypeOK
    EchoFaithful
    NoStrandedReceive
    NoBufferLeak
    CallbackInstalled
    ExitsOnlyAfterError
PROPERTY
    ImplementsEchoService
\* With MaxSent datagrams answered, or after reception ended, nothing moves.
CHECK_DEADLOCK FALSE
