CONSTANTS
    Computers = {c1}
    Free = free
    Other = other
SPECIFICATION LifeSpec
INVARIANT ContextOutlivesRun
CHECK_DEADLOCK FALSE
