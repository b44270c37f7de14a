--------------------------- MODULE MCEspReceiver ----------------------------
(* EspReceiver on a small instance: two SPIs, each of which may be          *)
(* registered, registered twice, or unknown to the receiver.  In words of   *)
(* two bits, 1 and 2 are each other's bytes swapped.                        *)
EXTENDS EspReceiver

MCSpi == {1, 2}
=============================================================================
