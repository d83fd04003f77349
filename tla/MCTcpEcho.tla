----------------------------- MODULE MCTcpEcho -----------------------------
(***************************************************************************)
(* A finite instance of TcpEcho: the Talker sends up to MaxSent bytes and  *)
(* every other client one.  Contents are never compared by the server, so  *)
(* a byte is its position in the stream.                                   *)
(***************************************************************************)
EXTENDS TcpEcho

CONSTANTS Talker, MaxSent

MCSent(c) == Len(sent'[c]) <= IF c = Talker THEN MaxSent ELSE 1

MCNext ==
    /\ TcpNext
    /\ \A c \in Clients : MCSent(c) /\ \A k \in DOMAIN sent'[c] : sent'[c][k] = k

MCSpec == TcpInit /\ [][MCNext]_tcpVars /\ TcpFairness
=============================================================================
