----------------------------- MODULE MCUdpEcho ------------------------------
(* UdpEcho on small instances: two runs of the client, which may have the   *)
(* same port one after the other, and messages longer than the buffer.      *)
EXTENDS UdpEcho

CONSTANTS c1, c2, p1, p2

MCClient == {c1, c2}
MCPort == {p1, p2}
=============================================================================
