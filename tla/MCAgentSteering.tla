-------------------------- MODULE MCAgentSteering --------------------------
(* Messages in the documented format, with what the agent meant by them,   *)
(* and messages that break it; doubles of a 5 bit mantissa, of which 2 pi  *)
(* is 104 units, so that 103 rounds to it and adding it to 4096 does       *)
(* nothing.                                                                *)
EXTENDS AgentSteering

MCIds == {1, 2, 9, 99}
MCNames == {"SET_HEADING", "setheading", "MOVE", "HOLD"}
MCNumbers == {-3600, -1, 90, 359, 360, 20000, 99999}

O == [is |-> "open"]
X == [is |-> "close"]
Q == [is |-> "quote"]
B == [is |-> "backslash"]
T == [is |-> "other"]
A(id, name) == [is |-> "action", id |-> id, name |-> name]
N(key, n) == [is |-> "number", key |-> key, n |-> n]

\* {"id": .., "action": .., "parameters": {..}, "reason": "..", ..}
Object(id, name, params, reason) ==
    <<O, A(id, name), T, O>> \o params \o <<X, T, Q>> \o reason \o <<Q, X>>

\* The same with the reason before the parameters.
ReasonFirst(id, name, params, reason) ==
    <<O, A(id, name), T, Q>> \o reason \o <<Q, O>> \o params \o <<X, X>>

\* {"type": "action_command", "actions": [..]}
Command(objects) == <<O, T>> \o objects \o <<T, X>>

Documented(objects, means) ==
    [text |-> Command(objects), documented |-> TRUE, means |-> means]
Garbage(symbols) == [text |-> symbols, documented |-> FALSE, means |-> <<>>]

None == <<>>
Turn(id, h) == Record(id, "SET_HEADING", <<h>>, None)

MCMessages ==
    { Documented(Object(1, "SET_HEADING", <<N("heading_deg", h)>>, <<O>>), <<Turn(1, h)>>) :
        h \in {-3600, -1, 90, 359, 360, 20000} }
    \cup
    \* whatever the reason of the first, the heading of the second is its own
    { Documented(ReasonFirst(1, "SET_HEADING", <<N("heading_deg", 90)>>, r)
                 \o Object(2, "SET_HEADING", <<T>>, r)
                 \o Object(1, "HOLD", <<N("heading", 360)>>, <<>>),
                 <<Turn(1, 90), Record(2, "SET_HEADING", None, None),
                   Record(1, "HOLD", <<360>>, None)>>) :
        r \in {<<>>, <<T>>, <<O>>, <<X>>, <<B, Q>>, <<B, Q, X, B, B>>} }
    \cup
    { \* a close brace in a string of the first must not end its object
      Documented(Object(1, "HOLD", <<T>>, <<B, Q, X, T>>)
                 \o Object(2, "setheading", <<N("heading", -1)>>, <<>>)
                 \o Object(1, "MOVE", <<N("lat", 90), N("lon", -1)>>, <<X, O>>),
                 <<Record(1, "HOLD", None, None),
                   Record(2, "setheading", <<-1>>, None),
                   Record(1, "MOVE", None, <<90, -1>>)>>),
      \* a missing heading, a target without a longitude
      Documented(Object(1, "SET_HEADING", <<N("lat", 90)>>, <<>>)
                 \o Object(2, "MOVE", <<N("lat", 90)>>, <<>>)
                 \o Object(9, "SET_HEADING", <<N("heading", 360)>>, <<>>),
                 <<Record(1, "SET_HEADING", None, None),
                   Record(2, "MOVE", None, None),
                   Record(9, "SET_HEADING", <<360>>, None)>>),
      \* a heading that overflows a double gives way to the other spelling
      Documented(Object(2, "SET_HEADING",
                        <<N("heading_deg", 99999), N("heading", 359)>>, <<T>>),
                 <<Turn(2, 359)>>),
      \* an id that overflows an int: what follows is lost
      Documented(Object(1, "MOVE", <<N("lat", 90), N("lon", 90)>>, <<>>)
                 \o Object(99, "HOLD", <<T>>, <<>>)
                 \o Object(2, "SET_HEADING", <<N("heading", 90)>>, <<>>),
                 <<Record(1, "MOVE", None, <<90, 90>>)>>),
      \* the action after its parameters, two actions in one object,
      \* and texts whose braces do not match
      Garbage(<<O, T, O, N("heading", 90), X, A(1, "SET_HEADING"), X>>),
      Garbage(<<O, A(1, "SET_HEADING"), A(2, "SET_HEADING"), N("heading", 360), X>>),
      Garbage(<<A(1, "SET_HEADING"), T, N("heading", 90), N("lat", 90)>>),
      Garbage(<<O, A(2, "MOVE"), Q, N("lat", 90), X, B, N("lon", 359), X>>),
      Garbage(<<X, O, O, B, A(2, "setheading"), N("heading", 90), Q, X>>),
      Garbage(<<T, Q>>) }

\* Half-even rounding to five significant bits.
Ulp(a) == CHOOSE u \in {2 ^ k : k \in 0 .. 12} :
            a < 32 * u /\ (u = 1 \/ 16 * u <= a)
RoundUp(a) == LET u == Ulp(a)  r == a % u  q == a \div u
              IN  IF 2 * r > u \/ (2 * r = u /\ q % 2 = 1) THEN (q + 1) * u ELSE q * u
MCRound(a) == IF a < 0 THEN -RoundUp(-a) ELSE RoundUp(a)

MCDegToRad(n) == MCRound((n * 104) \div 360)
MCLeast == -8192
MCBearings == {-52, -1, 0, 24}
=============================================================================
