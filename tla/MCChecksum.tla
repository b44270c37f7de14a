----------------------------- MODULE MCChecksum ------------------------------
(* Checksum with bytes of three values and words of nine.  The accumulator   *)
(* holds ten words of the largest value, that is a pseudo-header and eight   *)
(* bytes: every buffer of up to six bytes, and longer ones of large bytes,   *)
(* the last of which overflow it.                                            *)
EXTENDS Checksum

Repeated(b, n) == [i \in 1..n |-> b]

MCAddress == {5, 34, 80}
MCProtocol == {2}
MCData == UNION {[1..n -> 0..2] : n \in 0..6} \cup {Repeated(2, n) : n \in 7..24}
=============================================================================
