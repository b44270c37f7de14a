----------------------------- MODULE AntiReplay -----------------------------
(***************************************************************************)
(* What an anti-replay filter promises to the layer above it, whatever the *)
(* data structure behind it: of the packets of one stream, the packet with *)
(* a given number is delivered at most once.  Nothing is promised about    *)
(* packets that are not delivered.                                         *)
(*                                                                         *)
(* `delivered' counts deliveries.  It is a count and not a set so that a   *)
(* second delivery is a visible step and not a stutter.                    *)
(***************************************************************************)
EXTENDS Naturals

CONSTANTS
  Stream,   \* the packet streams the filter keeps apart
  Number    \* the numbers a packet can carry

VARIABLE delivered

Init == delivered = [s \in Stream |-> [n \in Number |-> 0]]

Deliver(s, n) ==
  /\ delivered[s][n] = 0
  /\ delivered' = [delivered EXCEPT ![s][n] = 1]

Next == \E s \in Stream, n \in Number : Deliver(s, n)

Spec == Init /\ [][Next]_delivered
=============================================================================
