CONSTANTS
    Peers = {p1}
    NoEndpoint = NoEndpoint
    Chunks <- MCChunks
    Bodies <- MCBodies
    BUFFER_SIZE = 7
    MaxSent = 1
    Platforms <- MCPlatforms
    CameraFitted = TRUE
    ThreadIds = {0, 1}
SPECIFICATION ComputerSpec
PROPERTY
    AttitudeSteersSatSar
CHECK_DEADLOCK FALSE
