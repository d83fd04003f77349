----------------------- MODULE MCPlatformDataCollector -----------------------
(* Commands for the collector: a turn, one by an angle that absorbs 2 pi,  *)
(* a pair whose second action follows an id that overflows, a HOLD, a      *)
(* datagram that is no command and one that does not fit the receive       *)
(* buffer.                                                                 *)
EXTENDS PlatformDataCollector

Action(p, a, h) == [id |-> p, action |-> a, heading |-> h]
Command(actions) == [fits |-> TRUE, isCommand |-> TRUE, actions |-> actions]
Turn(p, h) == Command(<<Action(p, "SET_HEADING", h)>>)

MCCommands ==
    { Turn("p1", 1),
      Turn("p2", 3),
      Command(<<Action("p1", "MOVE", 2), Action("overflow", "HOLD", 0),
                Action("p2", "SET_HEADING", 1)>>),
      Command(<<Action("p2", "MOVE", 1), Action("p1", "HOLD", 0)>>),
      [Turn("p1", 1) EXCEPT !.isCommand = FALSE],
      [Turn("p2", 2) EXCEPT !.fits = FALSE] }
=============================================================================
