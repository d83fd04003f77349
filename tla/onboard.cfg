CONSTANTS
    Peers = {p1}
    NoEndpoint = NoEndpoint
    Chunks <- MCChunks
    Bodies <- MCBodies
    BUFFER_SIZE = 7
    MaxSent = 2
    Platforms <- MCPlatforms
    CameraFitted = TRUE
    ThreadIds = {0, 1}
SPECIFICATION ComputerSpec
INVARIANTS
    ComputerTypeOK
    OrientationFromLastMessage
    CameraFollowsParity
    OnlyMalformedKills
    RealtimeOnlyForNine
PROPERTY
    ImplementsReceiver
\* With MaxSent datagrams answered, or after reception ended, nothing moves.
CHECK_DEADLOCK FALSE
