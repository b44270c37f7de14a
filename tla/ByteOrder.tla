----------------------------- MODULE ByteOrder ------------------------------
(***************************************************************************)
(* Words and the order of their bytes.  The code converts with htons,      *)
(* htonl and htobe64 and back with ntohs, ntohl and be64toh.  On a         *)
(* little-endian host, which the constants of the files assume (they write *)
(* 127.0.0.1 as 0x0100007F), each of them reverses the bytes; on words of  *)
(* two bytes they are one operation.                                       *)
(***************************************************************************)
EXTENDS Naturals

CONSTANT BYTE     \* the number of values of a byte (256 in the code)

ASSUME ByteAssumption == BYTE \in Nat \ {0, 1}

Byte == 0..(BYTE - 1)
WORD == BYTE * BYTE
Word == 0..(WORD - 1)

Low(w) == w % BYTE
High(w) == w \div BYTE

hton(w) == Low(w) * BYTE + High(w)
ntoh(w) == Low(w) * BYTE + High(w)

\* What the bytes of a word are in memory.
Stored(w) == <<Low(w), High(w)>>
=============================================================================
