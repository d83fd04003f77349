CONSTANTS
    Computers = {c1, c2}
    Free = free
    Other = other
SPECIFICATION LifeSpec
INVARIANTS
    LifeTypeOK
    WorkBalanced
    NoHandlerOutlivesContext
PROPERTIES
    BindFailsOnlyForOthers
    DestructorReturns
\* The process may terminate, or have run all its simulations.
CHECK_DEADLOCK FALSE
