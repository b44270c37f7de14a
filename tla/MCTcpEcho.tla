----------------------------- MODULE MCTcpEcho ------------------------------
(* TcpEcho on a small instance: one client that keeps reading and one that  *)
(* may stop; a stream longer than what one recv, and than what one socket   *)
(* buffer, can hold.                                                        *)
EXTENDS TcpEcho

CONSTANTS c1, c2

MCClient == {c1, c2}
MCReader == {c1}
=============================================================================
