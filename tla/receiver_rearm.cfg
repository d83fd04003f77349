CONSTANTS
    Peers = {p1}
    NoEndpoint = NoEndpoint
    Chunks = {"a", "b"}
    Bodies <- MCBodies
    BUFFER_SIZE = 2
    MaxSent = 2
SPECIFICATION Spec
PROPERTY
    ReceptionRestarts
CHECK_DEADLOCK FALSE
