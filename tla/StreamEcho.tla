----------------------------- MODULE StreamEcho -----------------------------
(***************************************************************************)
(* What the TCP echo server promises a client, and nothing about sessions, *)
(* buffers or partial transfers: what a client hears is always the         *)
(* beginning of what it said, and as long as it listens it hears all of    *)
(* it, whatever the other clients do.  A client that stops listening holds *)
(* its line: some more may reach it, and nothing is owed to it.            *)
(***************************************************************************)
EXTENDS Naturals, Sequences

CONSTANTS Clients, \* the connections
          Bytes    \* what can be said

VARIABLES said,    \* client -> the stream it sent
          heard,   \* client -> the stream it was sent back
          line     \* client -> its line is down, up, held, or cut for good

streamVars == <<said, heard, line>>

Init == /\ said = [c \in Clients |-> <<>>]
        /\ heard = [c \in Clients |-> <<>>]
        /\ line = [c \in Clients |-> "down"]

Say(c, b) == /\ said' = [said EXCEPT ![c] = Append(@, b)]
             /\ UNCHANGED <<heard, line>>

Serve(c) == /\ line[c] = "down" /\ line' = [line EXCEPT ![c] = "up"]
            /\ UNCHANGED <<said, heard>>

Hold(c) == /\ line[c] \in {"down", "up"} /\ line' = [line EXCEPT ![c] = "held"]
           /\ UNCHANGED <<said, heard>>

Cut(c) == /\ line[c] # "cut" /\ line' = [line EXCEPT ![c] = "cut"]
          /\ UNCHANGED <<said, heard>>

Hear(c) ==
    /\ \E n \in Len(heard[c]) + 1 .. Len(said[c]) :
         heard' = [heard EXCEPT ![c] = SubSeq(said[c], 1, n)]
    /\ UNCHANGED <<said, line>>

Echo(c) == line[c] = "up" /\ Hear(c)
Arrive(c) == line[c] = "held" /\ Hear(c)

Next ==
    \E c \in Clients :
      \/ Serve(c) \/ Hold(c) \/ Cut(c) \/ Echo(c) \/ Arrive(c)
      \/ \E b \in Bytes : Say(c, b)

SafetySpec == Init /\ [][Next]_streamVars

Spec == SafetySpec /\ \A c \in Clients : WF_streamVars(Echo(c))
=============================================================================
