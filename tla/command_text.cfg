CONSTANTS
    Ids <- MCIds
    Overflow = 99
    Names <- MCNames
    Numbers <- MCNumbers
    Huge = 99999
    Messages <- MCMessages
    SpanLimit = 3
    Platforms = {1, 2}
    Nobody = nobody
    HeadingNames = {"SET_HEADING", "setheading"}
    MoveNames = {"MOVE"}
    DegToRad <- MCDegToRad
    Round <- MCRound
    TwoPi = 104
    Least <- MCLeast
    Greatest = 8192
    Bearings <- MCBearings
SPECIFICATION SteeringSpec
INVARIANTS
    SteeringTypeOK
    ParsesWhatWasSaid
    ActionsInOrder
    HeadingInRange
PROPERTIES
    ParserReturns
    TurnsWhenTold
\* The program is done with the message when every mover was updated once.
CHECK_DEADLOCK FALSE
