------------------------------ MODULE Checksum ------------------------------
(***************************************************************************)
(* The Internet checksum: calculate_checksum of                            *)
(* coding-problems/05_checksum_calculator.c and 04_ip_header_parser.c,     *)
(* and calculate_tcp_udp_checksum, which adds a pseudo-header in front.    *)
(* calculate_checksum is the case of an empty pseudo-header.               *)
(*                                                                         *)
(* The code reads 16-bit words in the order of the host, which is taken to *)
(* be little-endian.  A word has BYTE^2 values and the accumulator, like   *)
(* an address, BYTE^4.                                                     *)
(***************************************************************************)
EXTENDS ByteOrder, Sequences

CONSTANTS
  Address,   \* the uint32_t arguments in use as src_ip and dst_ip
  Protocol,  \* the protocols in use
  Data       \* the buffers in use

SUM == WORD * WORD

ASSUME ChecksumAssumption ==
  /\ Address \subseteq 0..(SUM - 1)
  /\ Protocol \subseteq Byte
  /\ Data \subseteq Seq(Byte)

VARIABLES
  pc,        \* "pseudo", "data", "fold" or "done": the loop that is running
  header,    \* src_ip, dst_ip and protocol, or NoHeader: which function is called
  data,      \* the buffer that the caller hands over
  pseudo,    \* the bytes of the local pseudo-header
  ptr,       \* bytes of the current buffer that have been added
  sum,       \* the 32-bit accumulator
  result,    \* what is returned
  total,     \* history: the sum that an unbounded accumulator would have
  carried,   \* history: what the folds have moved from the high half
  folds      \* history: how often the last loop ran, counted up to three

arguments == <<header, pseudo, data>>
vars == <<pc, arguments, ptr, sum, result, total, carried, folds>>

Header == [src_ip : Address, dst_ip : Address, protocol : Protocol]
NoHeader == [protocol |-> "none"]

\* The bytes of a uint32_t in memory.
Stored32(address) == Stored(address % WORD) \o Stored(address \div WORD)

\* Mutant: the length is left in host order.
LengthRaw(length) == length % WORD

\* htons(length), which keeps 16 bits of an int
LengthField(length) == hton(length % WORD)

PseudoHeader(h, length) ==
  Stored32(h.src_ip) \o Stored32(h.dst_ip) \o <<0, h.protocol>>
    \o Stored(LengthField(length))

Init ==
  /\ pc = "pseudo"
  /\ header \in Header \cup {NoHeader}
  /\ data \in Data
  /\ pseudo = IF header = NoHeader THEN <<>> ELSE PseudoHeader(header, Len(data))
  /\ ptr = 0 /\ sum = 0 /\ result = 0
  /\ total = 0 /\ carried = 0 /\ folds = 0

-----------------------------------------------------------------------------

\* *ptr, where ptr is a uint16_t *.
HostWord(buffer) == buffer[ptr + 1] + buffer[ptr + 2] * BYTE

\* Mutant: a 16-bit accumulator.
AddShort(value) == sum' = (sum + value) % WORD /\ total' = total + value

\* sum += value
AddToSum(value) == sum' = (sum + value) % SUM /\ total' = total + value

AddPseudoWord ==
  /\ pc = "pseudo"
  /\ ptr < Len(pseudo)
  /\ AddToSum(HostWord(pseudo))
  /\ ptr' = ptr + 2
  /\ UNCHANGED <<pc, arguments, result, carried, folds>>

\* Mutant: the pointer goes on from where the pseudo-header ended.
KeepPtr == UNCHANGED ptr

\* ptr = (uint16_t *)data
StartData == ptr' = 0

PseudoEnds ==
  /\ pc = "pseudo"
  /\ ptr = Len(pseudo)
  /\ pc' = "data"
  /\ StartData
  /\ UNCHANGED <<arguments, sum, result, total, carried, folds>>

AddWord ==
  /\ pc = "data"
  /\ Len(data) - ptr > 1
  /\ AddToSum(HostWord(data))
  /\ ptr' = ptr + 2
  /\ UNCHANGED <<pc, arguments, result, carried, folds>>

\* The remaining byte, if the length is odd.
AddByte ==
  /\ pc = "data"
  /\ Len(data) - ptr = 1
  /\ AddToSum(data[ptr + 1])
  /\ ptr' = ptr + 1
  /\ pc' = "fold"
  /\ UNCHANGED <<arguments, result, carried, folds>>

NoByte ==
  /\ pc = "data"
  /\ Len(data) - ptr = 0
  /\ pc' = "fold"
  /\ UNCHANGED <<arguments, ptr, sum, result, total, carried, folds>>

\* Mutant: the loop tests for a sum that has no free bit left.
MustFoldEarly == sum >= WORD - 1

\* while (sum >> 16)
MustFold == sum >= WORD

\* sum = (sum & 0xFFFF) + (sum >> 16)
FoldSum ==
  /\ sum' = (sum % WORD) + (sum \div WORD)
  /\ carried' = carried + sum \div WORD

Fold ==
  /\ pc = "fold"
  /\ MustFold
  /\ FoldSum
  /\ folds' = IF folds < 3 THEN folds + 1 ELSE folds
  /\ UNCHANGED <<pc, arguments, ptr, result, total>>

\* return (uint16_t)(~sum)
Return ==
  /\ pc = "fold"
  /\ ~MustFold
  /\ result' = (SUM - 1 - sum) % WORD
  /\ pc' = "done"
  /\ UNCHANGED <<arguments, ptr, sum, total, carried, folds>>

Next == AddPseudoWord \/ PseudoEnds \/ AddWord \/ AddByte \/ NoByte \/ Fold \/ Return

\* The caller waits until the function returns.
Spec == Init /\ [][Next]_vars /\ WF_vars(Next)

-----------------------------------------------------------------------------
(* Properties.                                                             *)

\* Types, and that ptr stays inside the buffer that it walks through.
TypeOK ==
  /\ pc \in {"pseudo", "data", "fold", "done"}
  /\ header \in Header \cup {NoHeader} /\ data \in Data
  /\ pseudo \in Seq(Byte) /\ Len(pseudo) % 2 = 0
  /\ ptr \in 0..(IF pc = "pseudo" THEN Len(pseudo) ELSE Len(data))
  /\ pc = "pseudo" => ptr % 2 = 0
  /\ sum \in 0..(SUM - 1)
  /\ result \in 0..(WORD - 1)
  /\ total \in Nat /\ carried \in Nat /\ folds \in 0..3

\* As many bytes as the 32-bit accumulator can hold without overflow,
\* whatever their values: 2^16 + 1 words, an odd byte counted as a word.
Fits == Len(pseudo) + Len(data) <= 2 * (WORD + 1)

\* For every buffer that fits, deferring the carries loses nothing: what is
\* complemented at the end differs from the true sum by the carries alone,
\* and is zero only if the true sum is.  (0xFFFF and 0x0000 stand for the
\* same residue; a checksum of 0xFFFF means that all bytes are zero.)
ExactSum ==
  Fits /\ pc = "done" =>
    /\ total = (WORD - 1 - result) + carried * (WORD - 1)
    /\ result = WORD - 1 <=> total = 0

\* The last loop runs at most twice, however large the sum.
AtMostTwoFolds == folds <= 2 /\ (pc = "done" => sum < WORD)

\* RFC 1071: the one's complement sum of the words in network order, each
\* carry added at once, an odd byte followed by a zero byte; complemented.
NetWord(bytes, k) ==
  bytes[2*k - 1] * BYTE + (IF 2*k <= Len(bytes) THEN bytes[2*k] ELSE 0)

PlusCarry(a, b) == IF a + b < WORD THEN a + b ELSE a + b - (WORD - 1)

OneSum(bytes) ==
  LET s[k \in 0..((Len(bytes) + 1) \div 2)] ==
        IF k = 0 THEN 0 ELSE PlusCarry(s[k - 1], NetWord(bytes, k))
  IN  s

RFC1071(bytes) == WORD - 1 - OneSum(bytes)[(Len(bytes) + 1) \div 2]

\* What the checksum covers, as it is on the network: the addresses as they
\* lie in memory, a zero, the protocol and the length, high byte first.
Covered ==
  IF header = NoHeader THEN data
  ELSE Stored32(header.src_ip) \o Stored32(header.dst_ip)
         \o <<0, header.protocol>> \o <<High(Len(data)), Low(Len(data))>> \o data

\* The two bytes that a header field holds after `checksum = result' are the
\* ones that RFC 1071 wants on the network, although the sums are made in
\* the order of the host: for even and odd lengths, and with a pseudo-header
\* whose length is converted (line 53) while the addresses must come in
\* network order.  A length of 2^16 does not go into the pseudo-header.
MatchesRFC1071 ==
  Fits /\ pc = "done" /\ (header # NoHeader => Len(data) < WORD) =>
    LET wanted == RFC1071(Covered)
    IN  Stored(result) = <<High(wanted), Low(wanted)>>

\* The function returns, for every buffer: the fold loop has no fixed point.
Returns == <>(pc = "done")
=============================================================================
