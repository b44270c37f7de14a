---------------------------- MODULE LossyChannel ----------------------------
(***************************************************************************)
(* What a tunnel over UDP promises: a message that comes out is, bit for   *)
(* bit, one that went in.  Messages in transit may be repeated, overtake   *)
(* each other, and be lost any number at a time.                           *)
(***************************************************************************)
EXTENDS Naturals

CONSTANT Message

VARIABLES
  accepted,    \* how often each message went in
  transit,     \* how many copies of it are under way
  delivered    \* how often it came out

vars == <<accepted, transit, delivered>>

Init ==
  /\ accepted = [m \in Message |-> 0]
  /\ transit = [m \in Message |-> 0]
  /\ delivered = [m \in Message |-> 0]

Accept(m) ==
  /\ accepted' = [accepted EXCEPT ![m] = @ + 1]
  /\ transit' = [transit EXCEPT ![m] = @ + 1]
  /\ UNCHANGED delivered

Duplicate(m) ==
  /\ transit[m] > 0
  /\ transit' = [transit EXCEPT ![m] = @ + 1]
  /\ UNCHANGED <<accepted, delivered>>

Deliver(m) ==
  /\ transit[m] > 0
  /\ transit' = [transit EXCEPT ![m] = @ - 1]
  /\ delivered' = [delivered EXCEPT ![m] = @ + 1]
  /\ UNCHANGED accepted

Drop ==
  /\ \A m \in Message : transit'[m] <= transit[m]
  /\ UNCHANGED <<accepted, delivered>>

Next ==
  \/ \E m \in Message : Accept(m) \/ Duplicate(m) \/ Deliver(m)
  \/ Drop

Spec == Init /\ [][Next]_vars
=============================================================================
