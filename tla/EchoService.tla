---------------------------- MODULE EchoService ----------------------------
(***************************************************************************)
(* What the UDP side of the onboard computer promises its peers, and       *)
(* nothing about how: every datagram queued on the port is answered at     *)
(* most once, in the order of arrival, to the peer that sent it, with the  *)
(* part of its body that fits the receive buffer; and as long as the       *)
(* service is up every datagram is eventually answered.                    *)
(***************************************************************************)
EXTENDS Sequences, Naturals

CONSTANTS Peers,    \* the endpoints that send datagrams
          Bodies,   \* the datagram bodies they send
          Fit(_)    \* the part of a body that fits the receive buffer

VARIABLES asked,    \* datagrams that reached the port, in order
          answered, \* datagrams sent back, in order
          up        \* the service is still running

serviceVars == <<asked, answered, up>>

Datagrams == [from : Peers, body : Bodies]

Init == asked = <<>> /\ answered = <<>> /\ up = TRUE

Ask(d) == asked' = Append(asked, d) /\ UNCHANGED <<answered, up>>

Reply(d) == [from |-> d.from, body |-> Fit(d.body)]

Answer == /\ up
          /\ Len(answered) < Len(asked)
          /\ answered' = Append(answered, Reply(asked[Len(answered) + 1]))
          /\ UNCHANGED <<asked, up>>

Die == up /\ up' = FALSE /\ UNCHANGED <<asked, answered>>

Next == Answer \/ Die \/ \E d \in Datagrams : Ask(d)

SafetySpec == Init /\ [][Next]_serviceVars

Spec == SafetySpec /\ WF_serviceVars(Answer)
=============================================================================
