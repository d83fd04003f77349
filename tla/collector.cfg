CONSTANTS
    SimThread = sim
    Threads = {sim}
    Platforms = {"p1", "p2"}
    Commands <- MCCommands
    Absorbing = {3}
    mSendInterval = 2
    MaxTime = 2
    MaxRuns = 1
    MaxCommands = 2
SPECIFICATION CollectorSpec
INVARIANTS
    CollectorTypeOK
    FramesPaced
PROPERTIES
    SteersSoundly
    CommandTakesEffect
\* After MaxRuns simulations the process is done.
CHECK_DEADLOCK FALSE
