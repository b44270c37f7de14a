---- MODULE MCWireGuard ----
(* Two peers, three calls of create_peer, words of two bits: the counter   *)
(* wraps after four packets, and indices 1 and 2 are each other's bytes    *)
(* swapped.  The peers are interchangeable.                                *)
EXTENDS WireGuard, TLC

CONSTANTS alice, bob

MCPeer == {alice, bob}
MCIndex == {1, 2}
Symmetry == Permutations(MCPeer)
====
