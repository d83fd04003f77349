CONSTANTS
    SimThread = sim
    Threads = {sim}
    Platforms = {"p1", "p2"}
    Commands <- MCCommands
    Absorbing = {3}
    mSendInterval = 2
    MaxTime = 2
    MaxRuns = 2
    MaxCommands = 1
SPECIFICATION CollectorSpec
INVARIANTS
    SeqIncreases
    WinsockBalanced
\* After MaxRuns simulations the process is done.
CHECK_DEADLOCK FALSE
