---------------------------- MODULE MCSimpleVpn -----------------------------
(* SimpleVpn on small instances.  The key has two positions and packets     *)
(* three, so that the key is used a second time within a packet.            *)
EXTENDS SimpleVpn

CONSTANTS c1, c2

MCKey == [i \in 0..1 |-> 1 - i]
MCRequest == {<<0, 1, 1>>}
MCOneClient == {c1}
MCTwoClients == {c1, c2}
=============================================================================
