----------------------- MODULE MCUdpUnicastReceiver -----------------------
(* A small instance of UdpUnicastReceiver: bodies that are empty, that fit *)
(* the buffer exactly and that overflow it by one chunk.                   *)
EXTENDS UdpUnicastReceiver

MCBodies == { <<>>, <<"a", "b">>, <<"b", "a", "a">> }
=============================================================================
