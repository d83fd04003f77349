--------------------------- MODULE AgentSteering ---------------------------
(***************************************************************************)
(* From the text of a command to the headings of the movers: the records   *)
(* the parser returns are cached per platform, and one round of mover      *)
(* updates applies them, each through the loops of NormalizeRad0To2Pi.     *)
(* Angles are doubles, that is integers in units of the smallest double:   *)
(* an operation is done on integers and its result rounded.                *)
(***************************************************************************)
EXTENDS AgentCommandText

CONSTANTS Platforms,     \* ids of the platforms that exist and are sound
          Nobody,        \* no platform
          HeadingNames,  \* actions that read SET_HEADING or SETHEADING in upper case
          MoveNames,     \* actions that read MOVE in upper case
          DegToRad(_),   \* degrees, as sent by the agent, to an angle
          Round(_),      \* the double nearest to an exact result
          TwoPi,         \* the double 2.0 * kPi
          Least, Greatest, \* the range of doubles
          Bearings       \* what atan2 may return

ASSUME SteeringAssumption ==
    /\ Platforms \subseteq Ids /\ Nobody \notin Platforms
    /\ Least \in Int /\ Greatest \in Int /\ TwoPi \in 1 .. Greatest
    /\ Least < 0
    /\ \A n \in Numbers \ {Huge} : DegToRad(n) \in Least .. Greatest
    /\ Bearings \subseteq Least .. Greatest
    /\ \A a \in Least .. Greatest : Round(a) \in Least .. Greatest
    /\ \A a \in 0 .. Greatest : Round(a) >= 0

\* The doubles, which a result is rounded to.
Doubles == {a \in Least .. Greatest : Round(a) = a}

\* As IEEE 754 has it: conversions and atan2 return doubles, and rounding keeps
\* the order, so that a double plus a turn is not rounded to less than it.
ASSUME RoundingAssumption ==
    /\ \A n \in Numbers \ {Huge} : DegToRad(n) \in Doubles
    /\ Bearings \subseteq Doubles
    /\ \A a \in Least .. Greatest : Round(a) \in Doubles
    /\ \A a \in Doubles : /\ a < 0 => Round(a + TwoPi) >= a
                          /\ a >= TwoPi => Round(a - TwoPi) <= a

VARIABLES due,     \* movers not updated yet
          mover,   \* the mover being updated, or Nobody
          rad,     \* local of NormalizeRad0To2Pi
          loop,    \* which of its loops is running
          heading  \* platform -> the heading of its mover, or Unset

steeringVars == <<parserVars, due, mover, rad, loop, heading>>

Unset == -1

SteeringInit ==
    /\ ParserInit
    /\ due = Platforms /\ mover = Nobody
    /\ rad = 0 /\ loop = "idle"
    /\ heading = [p \in Platforms |-> Unset]

\* The command cached for p: the last record that names it.
Cached(p, records) ==
    LET k == Last({j \in DOMAIN records : records[j].platformId = p})
    IN  IF k = Npos THEN <<>> ELSE <<records[k]>>

\* The angles a cached command asks for: one, any bearing, or none.
Angles(command) ==
    IF command = <<>> THEN {}
    ELSE LET cmd == Head(command)
         IN  IF cmd.action \in HeadingNames /\ cmd.heading # <<>>
               THEN {DegToRad(Head(cmd.heading))}
             ELSE IF cmd.action \in MoveNames /\ cmd.target # <<>>
               THEN Bearings ELSE {}

ParseCommand ==
    /\ Parse
    /\ UNCHANGED <<due, mover, rad, loop, heading>>

\* A mover without a command that turns it is left alone.
SkipMover(p) ==
    /\ pc = "done" /\ loop = "idle" /\ p \in due
    /\ Angles(Cached(p, actions)) = {}
    /\ due' = due \ {p}
    /\ UNCHANGED <<parserVars, mover, rad, loop, heading>>

ApplyLatestCommandToMover(p) ==
    /\ pc = "done" /\ loop = "idle" /\ p \in due
    /\ \E a \in Angles(Cached(p, actions)) : rad' = a
    /\ due' = due \ {p}
    /\ mover' = p
    /\ loop' = "adding"
    /\ UNCHANGED <<parserVars, heading>>

AddTurn ==
    /\ loop = "adding" /\ rad < 0
    /\ rad' = Round(rad + TwoPi)
    /\ UNCHANGED <<parserVars, due, mover, loop, heading>>

\* Mutant: an angle that was negative needs no second loop.
NextLoopNone == "ready"

NextLoop == "subtracting"

EndAdding ==
    /\ loop = "adding" /\ rad >= 0
    /\ loop' = NextLoop
    /\ UNCHANGED <<parserVars, due, mover, rad, heading>>

\* Mutant: the second loop adds too.
WithoutTurnAdded(angle) == Round(angle + TwoPi)

WithoutTurn(angle) == Round(angle - TwoPi)

SubtractTurn ==
    /\ loop = "subtracting" /\ rad >= TwoPi
    /\ rad' = WithoutTurn(rad)
    /\ UNCHANGED <<parserVars, due, mover, loop, heading>>

EndSubtracting ==
    /\ loop = "subtracting" /\ rad < TwoPi
    /\ loop' = "ready"
    /\ UNCHANGED <<parserVars, due, mover, rad, heading>>

SetHeading ==
    /\ loop = "ready"
    /\ heading' = [heading EXCEPT ![mover] = rad]
    /\ mover' = Nobody
    /\ loop' = "idle"
    /\ UNCHANGED <<parserVars, due, rad>>

NormalizeRad0To2Pi == AddTurn \/ EndAdding \/ SubtractTurn \/ EndSubtracting

SteeringNext ==
    \/ ParseCommand
    \/ \E p \in Platforms : SkipMover(p) \/ ApplyLatestCommandToMover(p)
    \/ NormalizeRad0To2Pi \/ SetHeading

\* All of it is the simulation thread, which keeps running.
SteeringSafety == SteeringInit /\ [][SteeringNext]_steeringVars
SteeringSpec   == SteeringSafety /\ WF_steeringVars(SteeringNext)
-----------------------------------------------------------------------------
SteeringTypeOK ==
    /\ ParserTypeOK
    /\ due \subseteq Platforms /\ mover \in Platforms \cup {Nobody}
    /\ rad \in Least .. Greatest
    /\ loop \in {"idle", "adding", "subtracting", "ready"}
    /\ heading \in [Platforms -> Int]

\* Every mover is given a heading within one turn, 2 pi excluded, whatever the
\* agent asks for and however the additions round: a negative angle so small
\* that adding a turn gives 2 pi itself is taken back to zero.
HeadingInRange ==
    \A p \in Platforms : heading[p] # Unset => heading[p] \in 0 .. TwoPi - 1

\* An angle so large that a turn more or less rounds to the angle itself.
Absorbed(a) == \/ a < 0 /\ Round(a + TwoPi) = a
               \/ a >= TwoPi /\ Round(a - TwoPi) = a

\* What the agent last said to p, in a message that keeps to the format.
Told(p) == /\ message.documented
           /\ Angles(Cached(p, message.means)) # {}

\* A platform that a well-formed message tells to turn is turned, unless the
\* message holds an angle that never comes into range: then the simulation
\* thread never leaves the loop, and the platforms after it wait for ever.
TurnsWhenTold ==
    \A p \in Platforms :
      Told(p) ~> \/ heading[p] # Unset
                 \/ \E q \in Platforms :
                      \E a \in Angles(Cached(q, message.means)) : Absorbed(a)
=============================================================================
