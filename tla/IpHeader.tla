------------------------------ MODULE IpHeader ------------------------------
(***************************************************************************)
(* coding-problems/04_ip_header_parser.c: parse_ip_header with the checks  *)
(* it makes and validate_checksum, which writes into the packet that it    *)
(* checks.  main parses a packet it built, changes a word of it in place   *)
(* and parses it again; here any packet a sender can build is parsed any   *)
(* number of times, with a word changed in between or not.                 *)
(*                                                                         *)
(* A packet is a sequence of 16-bit words.  The first word holds, as       *)
(* nibbles, the version, the IHL and the type of service; one word holds   *)
(* the checksum.  The other fields are only printed: they are words.       *)
(***************************************************************************)
EXTENDS Naturals, FiniteSets

CONSTANTS
  NIBBLE,      \* the number of values of a nibble (16 in the code)
  VERSION,     \* 4
  MIN_IHL,     \* 5
  IHL_WORDS,   \* 16-bit words in one unit of the IHL (2)
  CHECKSUM,    \* the position of the checksum field (the 6th word)
  BUFFER,      \* words of the array that holds a packet (50)
  FieldWord,   \* the values of the other fields
  Damage       \* the values to which a word may change on the way

BYTE == NIBBLE * NIBBLE
WORD == BYTE * BYTE
Word == 0..(WORD - 1)

\* sizeof(ip_header_t)
FIXED == MIN_IHL * IHL_WORDS

ASSUME IpAssumption ==
  /\ {NIBBLE, MIN_IHL, IHL_WORDS, BUFFER} \subseteq Nat \ {0}
  /\ VERSION \in 0..(NIBBLE - 1) /\ MIN_IHL \in 0..(NIBBLE - 1)
  /\ CHECKSUM \in 2..FIXED
  /\ (NIBBLE - 1) * IHL_WORDS <= BUFFER
  /\ FieldWord \cup Damage \subseteq Word

VARIABLES
  pc,          \* "idle", or "validating": inside validate_checksum
  packet,      \* the array; the words after the packet are part of it
  length,      \* packet_length, in words
  original,    \* original_checksum
  verdict,     \* what the last parse reported
  built,       \* history: the packet as its sender built it
  damaged      \* history: the positions that have changed since

vars == <<pc, packet, length, original, verdict, built, damaged>>

\* version_ihl is the first byte: on a little-endian host, the low one.
IHL(p) == p[1] % NIBBLE
Version(p) == (p[1] \div NIBBLE) % NIBBLE
FirstWord(version, ihl) == version * NIBBLE + ihl

\* The sum after each of the first n words, and after all of them.
PartialSums(p, n) ==
  LET s[k \in 0..n] == IF k = 0 THEN 0 ELSE s[k - 1] + p[k] IN s

Total(p, n) == PartialSums(p, n)[n]

\* Mutant: the carries are folded once, and not until none is left.
FoldOnce(p, n) == WORD - 1 - ((Total(p, n) % WORD) + (Total(p, n) \div WORD))

\* What calculate_checksum returns for the first n words (see Checksum: the
\* largest header is far below the size that overflows the accumulator).
calculate_checksum(p, n) ==
  IF Total(p, n) = 0 THEN WORD - 1
  ELSE WORD - 1 - (1 + ((Total(p, n) - 1) % (WORD - 1)))

\* create_sample_packet does this with an IHL of 5.  A sender whose header has
\* options sums the options as well.
Filled(p) ==
  [p EXCEPT ![CHECKSUM] =
     calculate_checksum([p EXCEPT ![CHECKSUM] = 0], IHL(p) * IHL_WORDS)]

HeaderFields(ihl) == [2..(ihl * IHL_WORDS) -> FieldWord]

Header(ihl, fields) ==
  [i \in 1..BUFFER |-> IF i = 1 THEN FirstWord(VERSION, ihl)
                       ELSE IF i \in DOMAIN fields THEN fields[i] ELSE 0]

\* A packet is in the array: whole, or with fewer words than it should have.
Init ==
  /\ pc = "idle"
  /\ \E ihl \in MIN_IHL..(NIBBLE - 1) :
       \E fields \in HeaderFields(ihl) : built = Filled(Header(ihl, fields))
  /\ packet = built
  /\ length \in 0..BUFFER
  /\ original = 0
  /\ verdict = "none"
  /\ damaged = {}

-----------------------------------------------------------------------------

\* A word changes between two calls of the parser: main does so itself.
Change(i, word) ==
  /\ pc = "idle"
  /\ packet[i] # word
  /\ damaged = {}
  /\ packet' = [packet EXCEPT ![i] = word]
  /\ damaged' = {i}
  /\ verdict' = "none"
  /\ UNCHANGED <<pc, length, original, built>>

-----------------------------------------------------------------------------
(* parse_ip_header.                                                        *)

Report(v) ==
  /\ verdict' = v
  /\ UNCHANGED <<packet, length, built, damaged>>

BadVersion == Version(packet) # VERSION

BadIHL == IHL(packet) < MIN_IHL

\* header_length > packet_length
TooLong == IHL(packet) * IHL_WORDS > length

Refuse ==
  /\ pc = "idle"
  /\ BadVersion \/ BadIHL \/ TooLong
  /\ Report(IF BadVersion THEN "bad_version"
            ELSE IF BadIHL THEN "bad_ihl" ELSE "too_long")
  /\ UNCHANGED <<pc, original>>

\* Mutant: the field is left as it is while the sum is taken.
KeepField == packet' = packet

\* header->checksum = 0
ZeroField == packet' = [packet EXCEPT ![CHECKSUM] = 0]

StartValidation ==
  /\ pc = "idle"
  /\ ~BadVersion /\ ~BadIHL /\ ~TooLong
  /\ original' = packet[CHECKSUM]
  /\ ZeroField
  /\ verdict' = "none"
  /\ pc' = "validating"
  /\ UNCHANGED <<length, built, damaged>>

\* The checksum of sizeof(ip_header_t) bytes, with or without options.
Calculated == calculate_checksum(packet, FIXED)

\* Mutant: the field is left with the value that was calculated.
RestoreCalculated == packet' = [packet EXCEPT ![CHECKSUM] = Calculated]

\* header->checksum = original_checksum
Restore == packet' = [packet EXCEPT ![CHECKSUM] = original]

EndValidation ==
  /\ pc = "validating"
  /\ Restore
  /\ verdict' = IF Calculated = original THEN "VALID" ELSE "INVALID"
  /\ pc' = "idle"
  /\ UNCHANGED <<length, original, built, damaged>>

-----------------------------------------------------------------------------

Next ==
  \/ \E i \in 1..BUFFER, word \in Damage : Change(i, word)
  \/ Refuse \/ StartValidation \/ EndValidation

Spec == Init /\ [][Next]_vars

-----------------------------------------------------------------------------
(* Properties.                                                             *)

\* Types: every word of the array stays a 16-bit word, the checksum included.
TypeOK ==
  /\ pc \in {"idle", "validating"}
  /\ packet \in [1..BUFFER -> Word] /\ built \in [1..BUFFER -> Word]
  /\ length \in 0..BUFFER
  /\ original \in Word
  /\ verdict \in {"none", "bad_version", "bad_ihl", "too_long", "VALID", "INVALID"}
  /\ damaged \subseteq 1..BUFFER /\ Cardinality(damaged) <= 1

\* Although validate_checksum writes into the caller's packet, the caller
\* gets back what it handed over: the packet can be parsed again, or sent on.
PacketRestored ==
  pc = "idle" => \A i \in 1..BUFFER : i \notin damaged => packet[i] = built[i]

\* In one's complement, 0x0000 and 0xFFFF are the same number.
SameNumber(v, w) == v = w \/ {v, w} = {0, WORD - 1}

\* A header without options that its sender filled in is VALID, and one in
\* which one word has changed is INVALID, except where a word other than the
\* checksum has changed from 0x0000 to 0xFFFF or back.
VerdictIsRight ==
  verdict \in {"VALID", "INVALID"} /\ IHL(built) = MIN_IHL /\ IHL(packet) = MIN_IHL =>
    ( verdict = "VALID" <=>
        /\ packet[CHECKSUM] = built[CHECKSUM]
        /\ \A i \in (1..FIXED) \ {CHECKSUM} : SameNumber(packet[i], built[i]) )

\* What the words of a header add to the sum behind its fixed part.
OptionsSum == Total(built, IHL(built) * IHL_WORDS) - Total(built, FIXED)

\* The answers to Q1 and Q2 (lines 245-254) say that the header may have
\* options and that its checksum covers the header.  validate_checksum sums
\* sizeof(ip_header_t) bytes whatever the IHL (line 71): a header that has
\* arrived unchanged is VALID if its options sum to zero in one's complement,
\* as no options do, and is called INVALID otherwise.
OptionsExplained ==
  verdict \in {"VALID", "INVALID"} /\ damaged = {} =>
    (verdict = "VALID" <=> OptionsSum % (WORD - 1) = 0)
=============================================================================
