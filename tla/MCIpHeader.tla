----------------------------- MODULE MCIpHeader ------------------------------
(* IpHeader with nibbles of four values, a fixed header of four words and   *)
(* room for two words of options.  Damage to the first word reaches every   *)
(* version and every IHL.                                                   *)
EXTENDS IpHeader

\* With a first word of 6 and the other two of these, the sum folds twice.
MCFieldWord == {0, WORD - 6, WORD - 1}
MCDamage == 0..(BYTE - 1) \cup {WORD - 1}
=============================================================================
