--------------------------- MODULE ChecksumProofs ---------------------------
(***************************************************************************)
(* Proofs about Checksum, for every number of values of a byte and for     *)
(* buffers of every length: type correctness, exactness of the deferred    *)
(* carries as long as the accumulator holds the sum, the bound on the      *)
(* number of folds, and agreement with RFC 1071.                           *)
(*                                                                         *)
(* The arithmetic is that of products of two unknowns; the lemmas of the   *)
(* first parts give it to the rest in linear pieces.                       *)
(***************************************************************************)
EXTENDS Checksum, Integers, SequenceTheorems, WellFoundedInduction, TLAPS

-----------------------------------------------------------------------------
(* Bytes and words.                                                        *)

\* Division with remainder.
LEMMA DivMod ==
  ASSUME NEW x \in Nat, NEW w \in Nat \ {0}
  PROVE  /\ x \div w \in Nat
         /\ x % w \in 0..(w - 1)
         /\ x = w * (x \div w) + (x % w)
BY SMTT(30)

\* Quotient and remainder are unique.
LEMMA DivModUnique ==
  ASSUME NEW q \in Nat, NEW r \in Nat, NEW w \in Nat \ {0}, r < w
  PROVE  (q * w + r) % w = r /\ (q * w + r) \div w = q
BY SMTT(30)

LEMMA TimesMonotonic ==
  ASSUME NEW a \in Nat, NEW b \in Nat, NEW c \in Nat, a <= b
  PROVE  a * c <= b * c
BY SMTT(30)

LEMMA ByteSize == BYTE \in Nat \ {0} /\ BYTE - 1 \in Nat /\ WORD \in Nat \ {0}
<1>1. BYTE \in Nat /\ BYTE >= 2
  BY ByteAssumption
<1>2. 2 * BYTE <= BYTE * BYTE
  BY <1>1, TimesMonotonic
<1> QED
  BY <1>1, <1>2 DEF WORD

\* Two bytes make a word.
LEMMA WordOfBytes ==
  ASSUME NEW h \in Byte, NEW l \in Byte
  PROVE  h * BYTE + l \in Word
<1>1. h \in Nat /\ h <= BYTE - 1 /\ l \in Nat /\ l <= BYTE - 1
  BY ByteSize DEF Byte
<1>2. h * BYTE \in Nat /\ h * BYTE <= (BYTE - 1) * BYTE
  BY <1>1, ByteSize, TimesMonotonic
<1>3. (BYTE - 1) * BYTE = WORD - BYTE
  BY ByteSize DEF WORD
<1> QED
  BY <1>1, <1>2, <1>3, ByteSize DEF Word

\* The low byte of a number, and the high byte of a word, are bytes.
LEMMA LowIsByte == \A x \in Nat : Low(x) \in Byte
<1>1. TAKE x \in Nat
<1> QED
  BY DivMod, ByteSize DEF Low, Byte

LEMMA HighIsByte == \A w \in Word : High(w) \in Byte /\ w = High(w) * BYTE + Low(w)
<1>1. TAKE w \in Word
<1>2. w \in Nat /\ w <= WORD - 1
  BY ByteSize DEF Word
<1>3. High(w) \in Nat /\ Low(w) \in 0..(BYTE - 1) /\ w = BYTE * High(w) + Low(w)
  BY <1>2, DivMod, ByteSize DEF High, Low
<1>4. High(w) <= BYTE - 1
  <2>1. SUFFICES ASSUME High(w) >= BYTE PROVE FALSE
    BY <1>3, ByteSize
  <2>2. BYTE * BYTE <= High(w) * BYTE
    BY <2>1, <1>3, ByteSize, TimesMonotonic
  <2> QED
    BY <2>2, <1>2, <1>3, ByteSize DEF WORD
<1> QED
  BY <1>3, <1>4, ByteSize DEF Byte

\* A word that is converted and converted back is what it was, and a
\* converted word is a word: this is what sender and receiver rely on when
\* one writes htonl(x) and the other reads ntohl(x).
THEOREM ConversionInvolution ==
  \A w \in Word : hton(w) \in Word /\ ntoh(hton(w)) = w
<1>1. TAKE w \in Word
<1>2. Low(w) \in Byte /\ High(w) \in Byte /\ w = High(w) * BYTE + Low(w)
  BY HighIsByte, LowIsByte, ByteSize DEF Word
<1>3. hton(w) \in Word
  BY <1>2, WordOfBytes DEF hton
<1>4. High(w) \in Nat /\ Low(w) \in Nat /\ High(w) < BYTE
  BY <1>2, ByteSize DEF Byte
<1>5. Low(hton(w)) = High(w) /\ High(hton(w)) = Low(w)
  BY <1>4, DivModUnique, ByteSize DEF hton, Low, High
<1> QED
  BY <1>2, <1>3, <1>5 DEF ntoh

-----------------------------------------------------------------------------
(* Induction.                                                              *)
(*                                                                         *)
(* The induction theorems of the library take an operator as a parameter,  *)
(* which the provers cannot instantiate.  These two say the same of a set, *)
(* the set of the numbers for which a formula holds.                       *)

\* A set of natural numbers has a least element.
LEMMA LeastElement ==
  ASSUME NEW T, T \subseteq Nat, T # {}
  PROVE  \E x \in T : \A y \in T : x <= y
<1> DEFINE R == OpToRel(<, Nat)
<1>1. IsWellFoundedOn(R, Nat)
  BY NatLessThanWellFounded
<1>2. \A y, x \in Nat : y < x => <<y, x>> \in R
  BY DEF OpToRel
<1> HIDE DEF R
<1>3. PICK x \in T : \A y \in T : ~ (<<y, x>> \in R)
  BY <1>1, WFMin
<1>4. \A y \in T : ~(y < x)
  BY <1>2, <1>3
<1>5. \A y \in T : x <= y
  BY <1>4
<1> QED
  BY <1>5

\* A set with 0, and with n + 1 whenever n is in it, has every number.
LEMMA SetInduction ==
  ASSUME NEW T, 0 \in T, \A n \in Nat : n \in T => n + 1 \in T
  PROVE  Nat \subseteq T
<1>1. SUFFICES ASSUME Nat \ T # {} PROVE FALSE
  OBVIOUS
<1>2. PICK x \in Nat \ T : \A y \in Nat \ T : x <= y
  BY <1>1, LeastElement
<1>3. x # 0 /\ x \in Nat
  BY <1>2
<1>4. x - 1 \in Nat /\ ~(x <= x - 1)
  BY <1>3
<1>5. x - 1 \in T
  BY <1>2, <1>4
<1>6. (x - 1) + 1 \in T
  BY <1>4, <1>5
<1> QED
  BY <1>3, <1>6

-----------------------------------------------------------------------------
(* Arithmetic.                                                             *)

LEMMA ModSmall ==
  ASSUME NEW x \in Nat, NEW w \in Nat \ {0}, x < w
  PROVE  x % w = x /\ x \div w = 0
BY SMTT(30)

\* The sizes of a word and of the accumulator.
LEMMA Sizes ==
  /\ BYTE \in Nat /\ BYTE >= 2
  /\ WORD \in Nat /\ WORD >= 4 /\ WORD - 1 \in Nat
  /\ WORD = BYTE * BYTE
  /\ SUM \in Nat /\ SUM >= WORD
  /\ SUM = WORD * WORD
<1>1. BYTE \in Nat /\ BYTE >= 2
  BY ByteAssumption
<1>2. WORD \in Nat /\ WORD = BYTE * BYTE
  BY <1>1 DEF WORD
<1>3. 2 * BYTE <= WORD
  BY <1>1, <1>2, TimesMonotonic
<1>4. WORD >= 4
  BY <1>1, <1>2, <1>3
<1>5. SUM \in Nat /\ SUM = WORD * WORD
  BY <1>2 DEF SUM
<1>6. 4 * WORD <= WORD * WORD
  BY <1>2, <1>4, TimesMonotonic
<1> QED
  BY <1>1, <1>2, <1>4, <1>5, <1>6

\* A byte counts for at most half a word.
LEMMA ByteIsHalf ==
  ASSUME NEW v \in Byte
  PROVE  v \in Nat /\ v <= WORD - 1 /\ 2 * v <= WORD - 1
<1>1. v \in Nat /\ v <= BYTE - 1
  BY Sizes DEF Byte
<1>2. 2 * BYTE <= BYTE * BYTE
  BY Sizes, TimesMonotonic
<1> QED
  BY <1>1, <1>2, Sizes

\* The value of a word is below WORD, whatever its two bytes.
LEMMA WordInRange ==
  ASSUME NEW v \in Byte, NEW u \in Byte
  PROVE  v + u * BYTE \in 0..(WORD - 1)
<1>1. v \in Nat /\ v <= BYTE - 1 /\ u \in Nat /\ u <= BYTE - 1
  BY Sizes DEF Byte
<1>2. BYTE - 1 \in Nat
  BY Sizes
<1>3. u * BYTE \in Nat /\ u * BYTE <= (BYTE - 1) * BYTE
  BY <1>1, <1>2, Sizes, TimesMonotonic
<1>4. (BYTE - 1) * BYTE = WORD - BYTE
  BY Sizes
<1> QED
  BY <1>1, <1>3, <1>4, Sizes

-----------------------------------------------------------------------------
(* The inductive invariant.                                                *)

\* The bytes that have been added.
Added == IF pc = "pseudo" THEN ptr ELSE Len(pseudo) + ptr

\* A byte adds at most half a word: this is what bounds the true sum.
Bounded == total \in Nat /\ 2 * total <= Added * (WORD - 1)

\* Before the folds the accumulator holds the true sum; each fold moves a
\* multiple of WORD - 1 from it to `carried'.
Exact ==
  Fits =>
    /\ total = sum + carried * (WORD - 1)
    /\ sum = 0 <=> total = 0

\* What is left to fold, by the number of folds so far.
Shrinking ==
  /\ folds = 1 => sum <= 2 * WORD - 2
  /\ folds = 2 => sum <= WORD - 1
  /\ folds <= 2

\* Before the fold loop nothing has been carried; after it nothing is left.
Phases ==
  /\ pc \in {"pseudo", "data"} => carried = 0 /\ folds = 0
  /\ pc = "done" => sum < WORD /\ result = WORD - 1 - sum

IInv == TypeOK /\ Bounded /\ Exact /\ Shrinking /\ Phases

-----------------------------------------------------------------------------
(* Reading the buffers.                                                    *)

LEMMA PseudoBytes ==
  ASSUME TypeOK, pc = "pseudo", ptr < Len(pseudo)
  PROVE  /\ HostWord(pseudo) \in 0..(WORD - 1)
         /\ ptr + 2 <= Len(pseudo) /\ (ptr + 2) % 2 = 0
<1>1. pseudo \in Seq(Byte) /\ Len(pseudo) % 2 = 0
  BY DEF TypeOK
<1>2. ptr \in Nat /\ ptr % 2 = 0 /\ Len(pseudo) \in Nat
  BY <1>1 DEF TypeOK
<1>3. ptr + 2 <= Len(pseudo) /\ (ptr + 2) % 2 = 0
  BY <1>1, <1>2
<1>4. pseudo[ptr + 1] \in Byte /\ pseudo[ptr + 2] \in Byte
  BY <1>1, <1>2, <1>3
<1> QED
  BY <1>3, <1>4, WordInRange DEF HostWord

LEMMA DataBytes ==
  ASSUME TypeOK, pc = "data"
  PROVE  /\ Len(data) - ptr > 1 => HostWord(data) \in 0..(WORD - 1)
         /\ Len(data) - ptr = 1 => data[ptr + 1] \in Byte
<1>1. data \in Seq(Byte)
  BY ChecksumAssumption DEF TypeOK
<1>2. ptr \in Nat /\ Len(data) \in Nat
  BY <1>1 DEF TypeOK
<1>3. ASSUME Len(data) - ptr > 1
      PROVE  data[ptr + 1] \in Byte /\ data[ptr + 2] \in Byte
  BY <1>1, <1>2, <1>3
<1>4. ASSUME Len(data) - ptr = 1 PROVE data[ptr + 1] \in Byte
  BY <1>1, <1>2, <1>4
<1> QED
  BY <1>3, <1>4, WordInRange DEF HostWord

\* Lengths are natural numbers.
LEMMA Lengths ==
  ASSUME TypeOK
  PROVE  Len(pseudo) \in Nat /\ Len(data) \in Nat /\ ptr \in Nat
<1>1. pseudo \in Seq(Byte) /\ data \in Seq(Byte)
  BY ChecksumAssumption DEF TypeOK
<1>2. Len(pseudo) \in Nat /\ Len(data) \in Nat
  BY <1>1
<1> QED
  BY <1>2 DEF TypeOK

-----------------------------------------------------------------------------
(* Type correctness.                                                       *)

LEMMA AddToSumType ==
  ASSUME TypeOK, NEW value \in Nat, AddToSum(value)
  PROVE  sum' \in 0..(SUM - 1) /\ total' \in Nat
<1>1. sum + value \in Nat /\ total + value \in Nat
  BY Sizes DEF TypeOK
<1>2. (sum + value) % SUM \in 0..(SUM - 1)
  BY <1>1, DivMod, Sizes
<1> QED
  BY <1>1, <1>2 DEF AddToSum

\* One fold, of a sum that must be folded.
LEMMA FoldType ==
  ASSUME sum \in 0..(SUM - 1), MustFold, FoldSum, carried \in Nat
  PROVE  /\ sum' \in 1..(SUM - 1)
         /\ sum' <= 2 * WORD - 2
         /\ sum <= 2 * WORD - 2 => sum' <= WORD - 1
         /\ carried' \in Nat
         /\ sum + carried * (WORD - 1) = sum' + carried' * (WORD - 1)
<1> DEFINE q == sum \div WORD
           r == sum % WORD
<1>1. sum \in Nat /\ sum <= SUM - 1 /\ sum >= WORD
  BY Sizes DEF MustFold
<1>2. q \in Nat /\ r \in 0..(WORD - 1) /\ sum = WORD * q + r
  <2>1. sum \in Nat /\ WORD \in Nat \ {0}
    BY <1>1, Sizes
  <2> QED
    BY ONLY <2>1, DivMod
<1>3. sum' = r + q /\ carried' = carried + q
  BY DEF FoldSum
<1> HIDE DEF q, r
<1>4. q <= WORD - 1
  <2>1. SUFFICES ASSUME q >= WORD PROVE FALSE
    BY <1>2, Sizes
  <2>2. WORD * WORD <= q * WORD
    BY <2>1, <1>2, Sizes, TimesMonotonic
  <2> QED
    BY <2>2, <1>1, <1>2, Sizes
<1>5. q >= 1
  <2>1. SUFFICES ASSUME q = 0 PROVE FALSE
    BY <1>2
  <2> QED
    BY <2>1, <1>1, <1>2, Sizes
<1>6. r + q < sum
  <2>1. 4 * q <= WORD * q
    BY <1>2, Sizes, TimesMonotonic
  <2> QED
    BY <2>1, <1>2, <1>5, Sizes
<1>7. ASSUME sum <= 2 * WORD - 2 PROVE r + q <= WORD - 1
  <2>1. q < 2
    <3>1. SUFFICES ASSUME q >= 2 PROVE FALSE
      BY <1>2
    <3>2. 2 * WORD <= q * WORD
      BY <3>1, <1>2, Sizes, TimesMonotonic
    <3> QED
      BY <3>2, <1>2, <1>7, Sizes
  <2>2. q = 1
    BY <2>1, <1>2, <1>5
  <2> QED
    BY <2>2, <1>2, <1>7, Sizes
<1>8. sum + carried * (WORD - 1) = (r + q) + (carried + q) * (WORD - 1)
  BY <1>2, Sizes
<1> QED
  BY <1>1, <1>2, <1>3, <1>4, <1>5, <1>6, <1>7, <1>8, Sizes

\* The complement of a sum that need not be folded.
LEMMA ReturnValue ==
  ASSUME sum \in 0..(SUM - 1), ~MustFold
  PROVE  /\ (SUM - 1 - sum) % WORD = WORD - 1 - sum
         /\ WORD - 1 - sum \in 0..(WORD - 1)
<1>1. sum \in Nat /\ sum < WORD
  BY Sizes DEF MustFold
<1>2. SUM - 1 - sum = (WORD - 1) * WORD + (WORD - 1 - sum)
  BY <1>1, Sizes
<1>3. WORD - 1 - sum \in Nat /\ WORD - 1 - sum < WORD
  BY <1>1, Sizes
<1>4. ((WORD - 1) * WORD + (WORD - 1 - sum)) % WORD = WORD - 1 - sum
  <2>1. WORD - 1 \in Nat /\ WORD \in Nat \ {0}
    BY Sizes
  <2> QED
    BY ONLY <1>3, <2>1, DivModUnique
<1>5. WORD - 1 - sum \in 0..(WORD - 1)
  BY <1>1, <1>3, Sizes
<1> QED
  BY <1>2, <1>4, <1>5

\* A word is two bytes in memory, and an address four.
LEMMA StoredBytes ==
  ASSUME NEW w \in Word
  PROVE  Stored(w) \in Seq(Byte) /\ Len(Stored(w)) = 2
<1>1. Low(w) \in Byte /\ High(w) \in Byte
  BY LowIsByte, HighIsByte, ByteSize DEF Word
<1> QED
  BY <1>1 DEF Stored

\* Two pieces of memory, one behind the other.
LEMMA Joined ==
  ASSUME NEW s \in Seq(Byte), NEW t \in Seq(Byte)
  PROVE  s \o t \in Seq(Byte) /\ Len(s \o t) = Len(s) + Len(t)
BY ConcatProperties, Zenon

LEMMA Stored32Bytes ==
  ASSUME NEW a \in 0..(SUM - 1)
  PROVE  Stored32(a) \in Seq(Byte) /\ Len(Stored32(a)) = 4
<1> DEFINE q == a \div WORD
           r == a % WORD
<1>1. a \in Nat /\ a < WORD * WORD /\ WORD \in Nat \ {0}
  BY Sizes
<1>2. q \in Nat /\ r \in 0..(WORD - 1) /\ a = WORD * q + r
  BY ONLY <1>1, DivMod
<1>3. q < WORD
  <2> HIDE DEF q, r
  <2>1. SUFFICES ASSUME q >= WORD PROVE FALSE
    BY <1>1, <1>2
  <2>2. WORD * WORD <= q * WORD
    BY <2>1, <1>1, <1>2, TimesMonotonic
  <2> QED
    BY <2>2, <1>1, <1>2
<1>4. q \in Word /\ r \in Word
  BY <1>1, <1>2, <1>3 DEF Word
<1>5. /\ Stored(r) \in Seq(Byte) /\ Len(Stored(r)) = 2
      /\ Stored(q) \in Seq(Byte) /\ Len(Stored(q)) = 2
  BY <1>4, StoredBytes
<1>6. Stored32(a) \in Seq(Byte) /\ Len(Stored32(a)) = Len(Stored(r)) + Len(Stored(q))
  BY <1>5, Joined, Zenon DEF Stored32
<1> HIDE DEF q, r
<1> QED
  BY <1>5, <1>6

\* The pseudo-header is twelve bytes, whatever the addresses and the length.
LEMMA PseudoHeaderBytes ==
  ASSUME NEW h \in Header, NEW length \in Nat
  PROVE  PseudoHeader(h, length) \in Seq(Byte) /\ Len(PseudoHeader(h, length)) = 12
<1>1. h.src_ip \in 0..(SUM - 1) /\ h.dst_ip \in 0..(SUM - 1) /\ h.protocol \in Byte
  BY ChecksumAssumption DEF Header
<1>2. /\ Stored32(h.src_ip) \in Seq(Byte) /\ Len(Stored32(h.src_ip)) = 4
      /\ Stored32(h.dst_ip) \in Seq(Byte) /\ Len(Stored32(h.dst_ip)) = 4
  BY <1>1, Stored32Bytes
<1>3. <<0, h.protocol>> \in Seq(Byte) /\ Len(<<0, h.protocol>>) = 2
  <2>1. 0 \in Byte
    BY ByteSize DEF Byte
  <2> QED
    BY <1>1, <2>1
<1>4. length % WORD \in Word
  BY DivMod, ByteSize DEF Word
<1>5. Stored(LengthField(length)) \in Seq(Byte) /\ Len(Stored(LengthField(length))) = 2
  BY <1>4, ConversionInvolution, StoredBytes DEF LengthField
<1> DEFINE a == Stored32(h.src_ip)
           b == Stored32(h.dst_ip)
           c == <<0, h.protocol>>
           d == Stored(LengthField(length))
<1>6. a \in Seq(Byte) /\ b \in Seq(Byte) /\ c \in Seq(Byte) /\ d \in Seq(Byte)
  BY <1>2, <1>3, <1>5
<1>7. Len(a) = 4 /\ Len(b) = 4 /\ Len(c) = 2 /\ Len(d) = 2
  BY <1>2, <1>3, <1>5
<1>8. PseudoHeader(h, length) = a \o b \o c \o d
  BY DEF PseudoHeader
<1> HIDE DEF a, b, c, d
<1>9. a \o b \in Seq(Byte) /\ Len(a \o b) = Len(a) + Len(b)
  BY <1>6, Joined, Zenon
<1>10. a \o b \o c \in Seq(Byte) /\ Len(a \o b \o c) = Len(a \o b) + Len(c)
  BY <1>6, <1>9, Joined, Zenon
<1>11. /\ a \o b \o c \o d \in Seq(Byte)
       /\ Len(a \o b \o c \o d) = Len(a \o b \o c) + Len(d)
  BY <1>6, <1>10, Joined, Zenon
<1>12. Len(a \o b \o c \o d) = 12
  <2> DEFINE l == Len(a \o b)
             m == Len(a \o b \o c)
             n == Len(a \o b \o c \o d)
  <2>1. l = Len(a) + Len(b) /\ m = l + Len(c) /\ n = m + Len(d)
    BY <1>9, <1>10, <1>11, Zenon
  <2> HIDE DEF l, m, n
  <2>2. n = 12
    BY <1>7, <2>1
  <2> QED
    BY <2>2 DEF n
<1> QED
  BY <1>8, <1>11, <1>12, Zenon

LEMMA TypeInit == Init => TypeOK
<1> SUFFICES ASSUME Init PROVE TypeOK
  OBVIOUS
<1>1. data \in Seq(Byte) /\ Len(data) \in Nat
  BY ChecksumAssumption DEF Init
<1>2. pseudo \in Seq(Byte) /\ Len(pseudo) % 2 = 0 /\ Len(pseudo) \in Nat
  <2>1. CASE header = NoHeader
    BY <2>1 DEF Init
  <2>2. CASE header # NoHeader
    <3>1. header \in Header /\ pseudo = PseudoHeader(header, Len(data))
      BY <2>2 DEF Init
    <3>2. pseudo \in Seq(Byte) /\ Len(pseudo) = 12
      BY <1>1, <3>1, PseudoHeaderBytes
    <3> QED
      BY <3>2
  <2> QED
    BY <2>1, <2>2
<1>3. header \in Header \cup {NoHeader} /\ data \in Data
  BY DEF Init
<1>4. pc = "pseudo" /\ ptr = 0 /\ sum = 0 /\ result = 0 /\ total = 0
      /\ carried = 0 /\ folds = 0
  BY DEF Init
<1>5. 0 \in 0..(SUM - 1) /\ 0 \in 0..(WORD - 1) /\ 0 \in 0..Len(pseudo)
  BY <1>2, Sizes
<1> QED
  BY <1>2, <1>3, <1>4, <1>5 DEF TypeOK

LEMMA TypeStep == TypeOK /\ [Next]_vars => TypeOK'
<1> SUFFICES ASSUME TypeOK, [Next]_vars PROVE TypeOK'
  OBVIOUS
<1>len. Len(pseudo) \in Nat /\ Len(data) \in Nat /\ ptr \in Nat
  BY Lengths
<1>1. CASE AddPseudoWord
  <2>1. HostWord(pseudo) \in Nat /\ ptr + 2 <= Len(pseudo) /\ (ptr + 2) % 2 = 0
    BY <1>1, PseudoBytes, Sizes DEF AddPseudoWord
  <2>2. sum' \in 0..(SUM - 1) /\ total' \in Nat
    BY <1>1, <2>1, AddToSumType DEF AddPseudoWord
  <2> QED
    BY <1>1, <1>len, <2>1, <2>2 DEF AddPseudoWord, TypeOK, arguments
<1>2. CASE PseudoEnds
  BY <1>2, <1>len DEF PseudoEnds, StartData, TypeOK, arguments
<1>3. CASE AddWord
  <2>1. HostWord(data) \in Nat /\ ptr + 2 <= Len(data)
    BY <1>3, <1>len, DataBytes, Sizes DEF AddWord
  <2>2. sum' \in 0..(SUM - 1) /\ total' \in Nat
    BY <1>3, <2>1, AddToSumType DEF AddWord
  <2> QED
    BY <1>3, <1>len, <2>1, <2>2 DEF AddWord, TypeOK, arguments
<1>4. CASE AddByte
  <2>1. data[ptr + 1] \in Nat /\ ptr + 1 <= Len(data)
    BY <1>4, <1>len, DataBytes, ByteIsHalf DEF AddByte
  <2>2. sum' \in 0..(SUM - 1) /\ total' \in Nat
    BY <1>4, <2>1, AddToSumType DEF AddByte
  <2> QED
    BY <1>4, <1>len, <2>1, <2>2 DEF AddByte, TypeOK, arguments
<1>5. CASE NoByte
  BY <1>5 DEF NoByte, TypeOK, arguments
<1>6. CASE Fold
  <2>1. sum' \in 0..(SUM - 1) /\ carried' \in Nat
    BY <1>6, FoldType, Sizes DEF Fold, TypeOK
  <2>2. folds' \in 0..3
    BY <1>6 DEF Fold, TypeOK
  <2> QED
    BY <1>6, <2>1, <2>2 DEF Fold, TypeOK, arguments
<1>7. CASE Return
  <2>1. result' \in 0..(WORD - 1)
    BY <1>7, ReturnValue DEF Return, TypeOK
  <2> QED
    BY <1>7, <2>1 DEF Return, TypeOK, arguments
<1>8. CASE UNCHANGED vars
  BY <1>8 DEF vars, TypeOK, arguments
<1> QED
  BY <1>1, <1>2, <1>3, <1>4, <1>5, <1>6, <1>7, <1>8 DEF Next

\* Every variable keeps its type, the accumulator its 32 bits, and ptr never
\* leaves the buffer it walks through.
THEOREM TypeCorrect == Spec => []TypeOK
<1> QED
  BY TypeInit, TypeStep, PTL DEF Spec

-----------------------------------------------------------------------------
(* The inductive invariant.                                                *)

\* Bytes are added one or two at a time, each for at most half a word: the
\* bound on the true sum is kept by every addition.
LEMMA AddBounded ==
  ASSUME NEW t \in Nat, NEW a \in Nat, NEW n \in Nat, NEW v \in Nat,
         2 * t <= a * (WORD - 1), 2 * v <= n * (WORD - 1)
  PROVE  t + v \in Nat /\ 2 * (t + v) <= (a + n) * (WORD - 1)
<1>1. (a + n) * (WORD - 1) = a * (WORD - 1) + n * (WORD - 1)
  BY Sizes
<1> QED
  BY <1>1, Sizes

\* A true sum of bytes that fit is below SUM.
LEMMA FitsBound ==
  ASSUME NEW t \in Nat, NEW a \in Nat, a <= 2 * (WORD + 1), 2 * t <= a * (WORD - 1)
  PROVE  t < SUM
<1>1. a * (WORD - 1) <= (2 * (WORD + 1)) * (WORD - 1)
  BY Sizes, TimesMonotonic
<1>2. (2 * (WORD + 1)) * (WORD - 1) = 2 * (SUM - 1)
  BY Sizes
<1> QED
  BY <1>1, <1>2, Sizes

\* What an addition of n bytes with value v does to the invariant.
LEMMA Addition ==
  ASSUME IInv, pc \in {"pseudo", "data"},
         NEW v \in Nat, NEW n \in Nat,
         AddToSum(v), 2 * v <= n * (WORD - 1), UNCHANGED <<arguments, carried, folds>>,
         Added' = Added + n, Added + n <= Len(pseudo) + Len(data)
  PROVE  Bounded' /\ Exact'
<1>1. Added \in Nat /\ Len(pseudo) \in Nat /\ Len(data) \in Nat
  BY Lengths DEF IInv, Added
<1>2. total \in Nat /\ 2 * total <= Added * (WORD - 1)
  BY DEF IInv, Bounded
<1>3. total' = total + v /\ sum' = (sum + v) % SUM
  BY DEF AddToSum
<1>4. total + v \in Nat /\ 2 * (total + v) <= (Added + n) * (WORD - 1)
  BY <1>1, <1>2, AddBounded
<1>5. Bounded'
  BY <1>3, <1>4 DEF Bounded
<1>6. ASSUME Fits PROVE total' = sum' /\ carried' = 0
  <2>1. carried = 0 /\ carried' = 0
    BY DEF IInv, Phases
  <2>2. sum \in Nat /\ 0 * (WORD - 1) = 0
    BY Sizes DEF IInv, TypeOK
  <2>3. total = sum
    BY <1>6, <2>1, <2>2, Sizes DEF IInv, Exact
  <2>4. Added + n <= 2 * (WORD + 1)
    BY <1>1, <1>6, Sizes DEF Fits
  <2>5. total + v < SUM
    BY <1>1, <1>4, <2>4, FitsBound
  <2> QED
    BY <1>3, <1>4, <2>1, <2>3, <2>5, ModSmall, Sizes
<1>7. Exact'
  <2>1. SUFFICES ASSUME Fits'
                 PROVE  /\ total' = sum' + carried' * (WORD - 1)
                        /\ sum' = 0 <=> total' = 0
    BY DEF Exact
  <2>2. Fits
    BY <2>1 DEF Fits, arguments
  <2>3. total' = sum' /\ carried' = 0
    BY <1>6, <2>2
  <2>4. total' \in Nat /\ 0 * (WORD - 1) = 0
    BY <1>3, <1>4, Sizes
  <2>5. carried' * (WORD - 1) = 0
    BY <2>3, <2>4
  <2> QED
    BY <2>3, <2>4, <2>5
<1> QED
  BY <1>5, <1>7

LEMMA InvInit == Init => IInv
<1> SUFFICES ASSUME Init PROVE IInv
  OBVIOUS
<1>1. TypeOK
  BY TypeInit
<1>2. Bounded
  BY Sizes DEF Init, Bounded, Added
<1>3. Exact
  BY Sizes DEF Init, Exact
<1>4. Shrinking /\ Phases
  BY DEF Init, Shrinking, Phases
<1> QED
  BY <1>1, <1>2, <1>3, <1>4 DEF IInv

LEMMA InvStep == IInv /\ [Next]_vars => IInv'
<1> SUFFICES ASSUME IInv, [Next]_vars PROVE IInv'
  OBVIOUS
<1>type. TypeOK /\ TypeOK'
  BY TypeStep DEF IInv
<1>len. Len(pseudo) \in Nat /\ Len(data) \in Nat /\ ptr \in Nat
  BY <1>type, Lengths
<1>1. CASE AddPseudoWord
  <2>1. HostWord(pseudo) \in 0..(WORD - 1) /\ ptr + 2 <= Len(pseudo)
    BY <1>1, <1>type, PseudoBytes DEF AddPseudoWord
  <2>2. HostWord(pseudo) \in Nat /\ 2 * HostWord(pseudo) <= 2 * (WORD - 1)
    BY <2>1, Sizes
  <2>3. /\ pc = "pseudo" /\ pc' = pc /\ ptr' = ptr + 2
        /\ AddToSum(HostWord(pseudo)) /\ UNCHANGED <<arguments, carried, folds>>
    BY <1>1 DEF AddPseudoWord
  <2>4. Added' = Added + 2 /\ Added + 2 <= Len(pseudo) + Len(data)
    BY <1>len, <2>1, <2>3 DEF Added
  <2>5. Bounded' /\ Exact'
    BY <2>2, <2>3, <2>4, Addition
  <2>6. Shrinking' /\ Phases'
    BY <2>3 DEF IInv, Shrinking, Phases
  <2> QED
    BY <1>type, <2>5, <2>6 DEF IInv
<1>2. CASE PseudoEnds
  <2>1. /\ pc = "pseudo" /\ ptr = Len(pseudo) /\ pc' = "data" /\ ptr' = 0
        /\ UNCHANGED <<arguments, sum, result, total, carried, folds>>
    BY <1>2 DEF PseudoEnds, StartData
  <2>2. Added' = Added
    BY <1>len, <2>1 DEF Added, arguments
  <2>3. Bounded' /\ Exact'
    BY <2>1, <2>2 DEF IInv, Bounded, Exact, Fits, arguments
  <2>4. Shrinking' /\ Phases'
    BY <2>1 DEF IInv, Shrinking, Phases
  <2> QED
    BY <1>type, <2>3, <2>4 DEF IInv
<1>3. CASE AddWord
  <2>1. HostWord(data) \in 0..(WORD - 1) /\ ptr + 2 <= Len(data)
    BY <1>3, <1>type, <1>len, DataBytes DEF AddWord
  <2>2. HostWord(data) \in Nat /\ 2 * HostWord(data) <= 2 * (WORD - 1)
    BY <2>1, Sizes
  <2>3. /\ pc = "data" /\ pc' = pc /\ ptr' = ptr + 2
        /\ AddToSum(HostWord(data)) /\ UNCHANGED <<arguments, carried, folds>>
    BY <1>3 DEF AddWord
  <2>4. Added' = Added + 2 /\ Added + 2 <= Len(pseudo) + Len(data)
    BY <1>len, <2>1, <2>3 DEF Added, arguments
  <2>5. Bounded' /\ Exact'
    BY <2>2, <2>3, <2>4, Addition
  <2>6. Shrinking' /\ Phases'
    BY <2>3 DEF IInv, Shrinking, Phases
  <2> QED
    BY <1>type, <2>5, <2>6 DEF IInv
<1>4. CASE AddByte
  <2>1. data[ptr + 1] \in Byte /\ ptr + 1 <= Len(data)
    BY <1>4, <1>type, <1>len, DataBytes DEF AddByte
  <2>2. data[ptr + 1] \in Nat /\ 2 * data[ptr + 1] <= 1 * (WORD - 1)
    BY <2>1, ByteIsHalf, Sizes
  <2>3. /\ pc = "data" /\ pc' = "fold" /\ ptr' = ptr + 1
        /\ AddToSum(data[ptr + 1]) /\ UNCHANGED <<arguments, carried, folds>>
    BY <1>4 DEF AddByte
  <2>4. Added' = Added + 1 /\ Added + 1 <= Len(pseudo) + Len(data)
    BY <1>len, <2>1, <2>3 DEF Added, arguments
  <2>5. Bounded' /\ Exact'
    BY <2>2, <2>3, <2>4, Addition
  <2>6. Shrinking' /\ Phases'
    BY <2>3 DEF IInv, Shrinking, Phases
  <2> QED
    BY <1>type, <2>5, <2>6 DEF IInv
<1>5. CASE NoByte
  <2>1. /\ pc = "data" /\ pc' = "fold"
        /\ UNCHANGED <<arguments, ptr, sum, result, total, carried, folds>>
    BY <1>5 DEF NoByte
  <2>2. Bounded' /\ Exact'
    BY <2>1 DEF IInv, Bounded, Added, Exact, Fits, arguments
  <2>3. Shrinking' /\ Phases'
    BY <2>1 DEF IInv, Shrinking, Phases
  <2> QED
    BY <1>type, <2>2, <2>3 DEF IInv
<1>6. CASE Fold
  <2>1. /\ pc = "fold" /\ MustFold /\ FoldSum
        /\ folds' = IF folds < 3 THEN folds + 1 ELSE folds
        /\ UNCHANGED <<pc, arguments, ptr, result, total>>
    BY <1>6 DEF Fold
  <2>2. sum \in 0..(SUM - 1) /\ carried \in Nat /\ folds \in 0..3
    BY <1>type DEF TypeOK
  <2>3. /\ sum' \in 1..(SUM - 1)
        /\ sum' <= 2 * WORD - 2
        /\ sum <= 2 * WORD - 2 => sum' <= WORD - 1
        /\ sum + carried * (WORD - 1) = sum' + carried' * (WORD - 1)
    BY <2>1, <2>2, FoldType
  <2>4. Bounded'
    BY <2>1 DEF IInv, Bounded, Added, arguments
  <2>5. Exact'
    <3>1. SUFFICES ASSUME Fits'
                   PROVE  /\ total' = sum' + carried' * (WORD - 1)
                          /\ sum' = 0 <=> total' = 0
      BY DEF Exact
    <3>2. Fits
      BY <2>1, <3>1 DEF Fits, arguments
    <3>3. total = sum + carried * (WORD - 1) /\ (sum = 0 <=> total = 0)
      BY <3>2 DEF IInv, Exact
    <3>4. sum # 0 /\ sum' # 0
      BY <2>1, <2>2, <2>3, Sizes DEF MustFold
    <3> QED
      BY <2>1, <2>3, <3>3, <3>4
  <2>6. folds \in {0, 1}
    <3>1. folds # 2
      BY <2>1, <2>2, Sizes DEF IInv, Shrinking, MustFold
    <3> QED
      BY <2>2, <3>1 DEF IInv, Shrinking
  <2>7. Shrinking'
    <3>1. CASE folds = 0
      BY <2>1, <2>3, <3>1 DEF Shrinking
    <3>2. CASE folds = 1
      BY <2>1, <2>3, <3>2 DEF IInv, Shrinking
    <3> QED
      BY <2>6, <3>1, <3>2
  <2>8. Phases'
    BY <2>1 DEF Phases
  <2> QED
    BY <1>type, <2>4, <2>5, <2>7, <2>8 DEF IInv
<1>7. CASE Return
  <2>1. /\ pc = "fold" /\ pc' = "done" /\ ~MustFold
        /\ result' = (SUM - 1 - sum) % WORD
        /\ UNCHANGED <<arguments, ptr, sum, total, carried, folds>>
    BY <1>7 DEF Return
  <2>2. sum \in 0..(SUM - 1)
    BY <1>type DEF TypeOK
  <2>3. Bounded' /\ Exact' /\ Shrinking'
    BY <2>1 DEF IInv, Bounded, Added, Exact, Fits, Shrinking, arguments
  <2>4. Phases'
    BY <2>1, <2>2, ReturnValue, Sizes DEF Phases, MustFold
  <2> QED
    BY <1>type, <2>3, <2>4 DEF IInv
<1>8. CASE UNCHANGED vars
  BY <1>8, <1>type DEF vars, arguments, IInv, Bounded, Added, Exact, Fits, Shrinking, Phases
<1> QED
  BY <1>1, <1>2, <1>3, <1>4, <1>5, <1>6, <1>7, <1>8 DEF Next

LEMMA InvAlways == Spec => []IInv
<1> QED
  BY InvInit, InvStep, PTL DEF Spec

-----------------------------------------------------------------------------
(* Exactness, and the number of folds.                                     *)

\* For every width of a byte and every buffer of at most 2^16 + 1 words, the
\* result is the complement of the true sum but for the carries that the
\* folds have moved, and it is 0xFFFF only if all bytes are zero.
THEOREM ExactSumAlways == Spec => []ExactSum
<1>1. IInv => ExactSum
  <2> SUFFICES ASSUME IInv, Fits, pc = "done"
               PROVE  /\ total = (WORD - 1 - result) + carried * (WORD - 1)
                      /\ result = WORD - 1 <=> total = 0
    BY DEF ExactSum
  <2>1. total = sum + carried * (WORD - 1) /\ (sum = 0 <=> total = 0)
    BY DEF IInv, Exact
  <2>2. result = WORD - 1 - sum /\ sum \in Nat
    BY Sizes DEF IInv, Phases, TypeOK
  <2>3. WORD - 1 - result = sum /\ (result = WORD - 1 <=> sum = 0)
    BY <2>2, Sizes
  <2> QED
    BY <2>1, <2>3
<1> QED
  BY <1>1, InvAlways, PTL

\* Whatever the buffer, even one that overflows the accumulator, two folds
\* are enough.
THEOREM AtMostTwoFoldsAlways == Spec => []AtMostTwoFolds
<1>1. IInv => AtMostTwoFolds
  BY DEF IInv, Shrinking, Phases, AtMostTwoFolds
<1> QED
  BY <1>1, InvAlways, PTL

-----------------------------------------------------------------------------
(* The one's complement sum.                                               *)

\* The recursion of OneSum up to m has a solution.
LEMMA OneSumSolution ==
  ASSUME NEW bytes, NEW m \in Nat
  PROVE  \E g : g = [k \in 0..m |-> IF k = 0 THEN 0
                                    ELSE PlusCarry(g[k - 1], NetWord(bytes, k))]
<1> DEFINE Solves(g, n) ==
             g = [k \in 0..n |-> IF k = 0 THEN 0
                                 ELSE PlusCarry(g[k - 1], NetWord(bytes, k))]
           T == {n \in Nat : \E g : Solves(g, n)}
<1>1. 0 \in T
  <2>1. Solves([k \in 0..0 |-> 0], 0)
    OBVIOUS
  <2> QED
    BY <2>1
<1>2. ASSUME NEW n \in Nat, n \in T PROVE n + 1 \in T
  <2>1. PICK g : Solves(g, n)
    BY <1>2
  <2> DEFINE h == [k \in 0..(n + 1) |-> IF k = n + 1
                                        THEN PlusCarry(g[n], NetWord(bytes, n + 1)) ELSE g[k]]
  <2>2. Solves(h, n + 1)
    <3>1. ASSUME NEW k \in 0..(n + 1)
          PROVE  h[k] = IF k = 0 THEN 0 ELSE PlusCarry(h[k - 1], NetWord(bytes, k))
      <4>1. CASE k = n + 1
        BY <4>1
      <4>2. CASE k \in 1..n
        <5>1. h[k] = g[k] /\ h[k - 1] = g[k - 1] /\ k \in 0..n /\ k # 0
          BY <4>2
        <5>2. g[k] = PlusCarry(g[k - 1], NetWord(bytes, k))
          BY <5>1, <2>1
        <5> HIDE DEF h
        <5> QED
          BY <5>1, <5>2
      <4>3. CASE k = 0
        <5>1. h[k] = g[k] /\ g[0] = 0
          BY <4>3, <2>1
        <5> QED
          BY <4>3, <5>1
      <4> QED
        BY <4>1, <4>2, <4>3
    <3> QED
      BY <3>1
  <2>3. \E x : Solves(x, n + 1)
    BY <2>2
  <2> QED
    BY <2>3
<1> HIDE DEF T
<1>3. m \in T
  BY <1>1, <1>2, SetInduction
<1> QED
  BY <1>3 DEF T

\* What is written as the recursive definition of OneSum holds of it.
LEMMA OneSumEquation ==
  ASSUME NEW bytes \in Seq(Byte)
  PROVE  /\ OneSum(bytes)[0] = 0
         /\ \A k \in 1..((Len(bytes) + 1) \div 2) :
              OneSum(bytes)[k] = PlusCarry(OneSum(bytes)[k - 1], NetWord(bytes, k))
<1> DEFINE n == (Len(bytes) + 1) \div 2
<1>1. n \in Nat
  OBVIOUS
<1>2. \E g : g = [k \in 0..n |-> IF k = 0 THEN 0
                                 ELSE PlusCarry(g[k - 1], NetWord(bytes, k))]
  BY <1>1, OneSumSolution
<1>3. OneSum(bytes) = CHOOSE g : g = [k \in 0..n |-> IF k = 0 THEN 0
                                 ELSE PlusCarry(g[k - 1], NetWord(bytes, k))]
  BY DEF OneSum
<1> HIDE DEF n
<1>4. OneSum(bytes) = [k \in 0..n |-> IF k = 0 THEN 0
                                 ELSE PlusCarry(OneSum(bytes)[k - 1], NetWord(bytes, k))]
  BY <1>2, <1>3
<1>5. \A k \in 0..n : OneSum(bytes)[k] = IF k = 0 THEN 0
                                 ELSE PlusCarry(OneSum(bytes)[k - 1], NetWord(bytes, k))
  BY <1>4
<1> QED
  BY <1>1, <1>5 DEF n

\* Both bytes of a word in network order.
LEMMA NetWordBytes ==
  ASSUME NEW bytes \in Seq(Byte), NEW k \in 1..((Len(bytes) + 1) \div 2)
  PROVE  \E h \in Byte, l \in Byte :
           /\ NetWord(bytes, k) = h * BYTE + l
           /\ h = bytes[2*k - 1]
           /\ l = IF 2*k <= Len(bytes) THEN bytes[2*k] ELSE 0
<1>1. Len(bytes) \in Nat /\ k \in Nat /\ 0 \in Byte
  BY Sizes DEF Byte
<1>2. 2*k - 1 \in 1..Len(bytes)
  BY <1>1
<1>3. bytes[2*k - 1] \in Byte
  BY <1>2
<1>4. 2*k <= Len(bytes) => bytes[2*k] \in Byte
  BY <1>1
<1>5. (IF 2*k <= Len(bytes) THEN bytes[2*k] ELSE 0) \in Byte
  BY <1>1, <1>4
<1> QED
  BY <1>3, <1>5 DEF NetWord

\* A sum with the carry added at once is a word, and zero only without terms.
LEMMA PlusCarryType ==
  ASSUME NEW a \in Word, NEW b \in Word
  PROVE  /\ PlusCarry(a, b) \in Word
         /\ PlusCarry(a, b) = 0 <=> a = 0 /\ b = 0
         /\ \E c \in {0, 1} : PlusCarry(a, b) = a + b - c * (WORD - 1)
<1>1. a \in Nat /\ b \in Nat /\ a <= WORD - 1 /\ b <= WORD - 1
  BY Sizes DEF Word
<1>2. CASE a + b < WORD
  <2>1. PlusCarry(a, b) = a + b
    BY <1>2 DEF PlusCarry
  <2>2. a + b = a + b - 0 * (WORD - 1)
    BY <1>1, Sizes
  <2> QED
    BY <1>1, <1>2, <2>1, <2>2, Sizes DEF Word
<1>3. CASE ~(a + b < WORD)
  <2>1. PlusCarry(a, b) = a + b - (WORD - 1)
    BY <1>3 DEF PlusCarry
  <2>2. a + b - (WORD - 1) = a + b - 1 * (WORD - 1)
    BY <1>1, Sizes
  <2> QED
    BY <1>1, <1>3, <2>1, <2>2, Sizes DEF Word
<1> QED
  BY <1>2, <1>3

\* Every partial sum is a word.
LEMMA OneSumType ==
  ASSUME NEW bytes \in Seq(Byte), NEW m \in 0..((Len(bytes) + 1) \div 2)
  PROVE  OneSum(bytes)[m] \in Word
<1> DEFINE n == (Len(bytes) + 1) \div 2
           T == {k \in Nat : k <= n => OneSum(bytes)[k] \in Word}
<1>1. n \in Nat
  OBVIOUS
<1>2. 0 \in T
  BY OneSumEquation, Sizes DEF Word
<1>3. ASSUME NEW k \in Nat, k \in T PROVE k + 1 \in T
  <2>1. SUFFICES ASSUME k + 1 <= n PROVE OneSum(bytes)[k + 1] \in Word
    OBVIOUS
  <2>2. OneSum(bytes)[k] \in Word
    BY <1>1, <1>3, <2>1
  <2>3. k + 1 \in 1..n /\ (k + 1) - 1 = k
    BY <1>1, <2>1
  <2>4. NetWord(bytes, k + 1) \in Word
    BY <2>3, NetWordBytes, WordOfBytes
  <2>5. OneSum(bytes)[k + 1] = PlusCarry(OneSum(bytes)[k], NetWord(bytes, k + 1))
    BY <2>3, OneSumEquation
  <2> QED
    BY <2>2, <2>4, <2>5, PlusCarryType
<1> HIDE DEF T
<1>4. m \in T
  BY <1>1, <1>2, <1>3, SetInduction
<1> QED
  BY <1>1, <1>4 DEF T

-----------------------------------------------------------------------------
(* The order of the bytes does not matter.                                 *)

\* Equal in one's complement, but for the two forms of zero.
Congruent(a, b) == \E t \in Int : a = b + t * (WORD - 1)

\* Adding the same two bytes, in the order of the host here and in the order
\* of the network there, keeps a sum congruent to BYTE times the other one.
LEMMA CongruentAddition ==
  ASSUME NEW t \in Nat, NEW s \in Word, NEW h \in Byte, NEW l \in Byte,
         Congruent(t, BYTE * s), t = 0 <=> s = 0
  PROVE  /\ Congruent(t + (h + l * BYTE), BYTE * PlusCarry(s, h * BYTE + l))
         /\ t + (h + l * BYTE) = 0 <=> PlusCarry(s, h * BYTE + l) = 0
<1> DEFINE v == h + l * BYTE
           w == h * BYTE + l
           p == PlusCarry(s, w)
<1>1. h \in Nat /\ l \in Nat /\ s \in Nat /\ h * BYTE \in Nat /\ l * BYTE \in Nat
  BY Sizes DEF Byte, Word
<1>2. w \in Word
  BY WordOfBytes
<1>3. p \in Word /\ (p = 0 <=> s = 0 /\ w = 0)
  BY <1>2, PlusCarryType
<1>4. v = 0 <=> w = 0
  <2>1. h * BYTE = 0 <=> h = 0
    BY <1>1, Sizes, TimesMonotonic
  <2>2. l * BYTE = 0 <=> l = 0
    BY <1>1, Sizes, TimesMonotonic
  <2> QED
    BY <1>1, <2>1, <2>2
<1>5. t + v = 0 <=> p = 0
  <2>1. v \in Nat
    BY <1>1
  <2> HIDE DEF v, w, p
  <2> QED
    BY <2>1, <1>3, <1>4
<1>6. PICK c \in {0, 1} : p = s + w - c * (WORD - 1)
  BY <1>2, PlusCarryType
<1>7. PICK q \in Int : t = BYTE * s + q * (WORD - 1)
  BY DEF Congruent
<1>8. BYTE * w = v + h * (WORD - 1)
  BY <1>1, Sizes
<1>9. BYTE * p = BYTE * s + BYTE * w - (BYTE * c) * (WORD - 1)
  <2>1. w \in Int /\ s \in Int /\ c \in Int /\ BYTE \in Int /\ WORD - 1 \in Int
    BY <1>1, Sizes
  <2> HIDE DEF w, p
  <2> QED
    BY <1>6, <2>1
<1>10. t + v = BYTE * p + (q - h + BYTE * c) * (WORD - 1)
  <2>1. /\ v \in Int /\ BYTE * s \in Int /\ BYTE * w \in Int /\ BYTE * p \in Int
        /\ BYTE * c \in Int /\ h \in Int /\ WORD - 1 \in Int
    BY <1>1, <1>3, Sizes DEF Word
  <2> DEFINE bs == BYTE * s
             bw == BYTE * w
             bp == BYTE * p
             bc == BYTE * c
             m == WORD - 1
  <2>2. /\ t = bs + q * m /\ bw = v + h * m /\ bp = bs + bw - bc * m
        /\ {v, bs, bw, bp, bc, h, m} \subseteq Int
    BY <1>7, <1>8, <1>9, <2>1
  <2> HIDE DEF bs, bw, bp, bc, m, v
  <2>3. t + v = bp + (q - h + bc) * m
    BY <2>2
  <2> QED
    BY <2>3 DEF bp, bc, m
<1>11. q - h + BYTE * c \in Int
  BY <1>1, <1>6, Sizes
<1>12. Congruent(t + v, BYTE * p)
  BY <1>10, <1>11 DEF Congruent
<1> QED
  BY <1>5, <1>12

\* Two congruent words are the same, if both or none of them are zero.
LEMMA CongruentWords ==
  ASSUME NEW a \in Word, NEW b \in Word, Congruent(a, b), a = 0 <=> b = 0
  PROVE  a = b
<1> DEFINE m == WORD - 1
<1>1. a \in 0..m /\ b \in 0..m /\ m \in Nat /\ m > 0
  BY Sizes DEF Word
<1>2. PICK t \in Int : a = b + t * m
  BY DEF Congruent
<1> HIDE DEF m
<1>3. CASE t = 0
  BY <1>1, <1>2, <1>3
<1>4. CASE t >= 1
  <2>1. m <= t * m
    BY <1>1, <1>4, TimesMonotonic
  <2>2. t * m \in Int
    BY <1>1
  <2> QED
    BY <1>1, <1>2, <2>1, <2>2
<1>5. CASE t <= -1
  <2>1. -t \in Nat /\ 1 <= -t
    BY <1>5
  <2>2. 1 * m <= (-t) * m
    BY <1>1, <2>1, TimesMonotonic
  <2>3. (-t) * m = -(t * m) /\ t * m \in Int /\ 1 * m = m
    BY <1>1
  <2> QED
    BY <1>1, <1>2, <2>2, <2>3
<1> QED
  BY <1>3, <1>4, <1>5

\* Swapping the bytes of a word multiplies it by BYTE, up to congruence.
LEMMA SwapCongruent ==
  ASSUME NEW s \in Word
  PROVE  /\ hton(s) \in Word /\ High(s) \in Nat
         /\ BYTE * s = hton(s) + High(s) * (WORD - 1)
         /\ hton(s) = 0 <=> s = 0
<1> DEFINE h == High(s)
           l == Low(s)
<1>1. h \in Byte /\ l \in Byte /\ s = h * BYTE + l
  BY HighIsByte, LowIsByte, Sizes DEF Word
<1>2. hton(s) = l * BYTE + h
  BY DEF hton
<1> HIDE DEF h, l
<1>3. h \in Nat /\ l \in Nat /\ h * BYTE \in Nat /\ l * BYTE \in Nat
  BY <1>1, Sizes DEF Byte
<1>4. BYTE * s = hton(s) + h * (WORD - 1)
  BY <1>1, <1>2, <1>3, Sizes
<1>5. hton(s) \in Word
  BY ConversionInvolution
<1>6. hton(s) = 0 <=> s = 0
  <2>1. (h * BYTE = 0 <=> h = 0) /\ (l * BYTE = 0 <=> l = 0)
    BY <1>3, Sizes, TimesMonotonic
  <2> QED
    BY <1>1, <1>2, <1>3, <2>1
<1> QED
  BY <1>3, <1>4, <1>5, <1>6 DEF h

\* A word congruent to BYTE times another one is that word with its bytes
\* swapped.
LEMMA CongruentSwap ==
  ASSUME NEW z \in Word, NEW s \in Word, Congruent(z, BYTE * s), z = 0 <=> s = 0
  PROVE  z = hton(s)
<1> DEFINE x == hton(s)
           h == High(s)
           m == WORD - 1
           p == BYTE * s
<1>1. x \in Word /\ h \in Nat /\ p = x + h * m /\ (x = 0 <=> s = 0)
  BY SwapCongruent
<1>2. PICK t \in Int : z = p + t * m
  BY DEF Congruent
<1>3. x \in Int /\ z \in Int /\ m \in Int
  BY <1>1, Sizes DEF Word
<1>4. z = x + (h + t) * m /\ h + t \in Int
  <2> HIDE DEF x, h, m, p
  <2> QED
    BY <1>1, <1>2, <1>3
<1>5. Congruent(z, x)
  BY <1>4 DEF Congruent
<1> QED
  BY <1>1, <1>5, CongruentWords

\* The complement of a swapped word is the swapped complement: the bytes in
\* memory are those of the complement in network order.
LEMMA ComplementSwapped ==
  ASSUME NEW s \in Word
  PROVE  Stored(WORD - 1 - hton(s)) = <<High(WORD - 1 - s), Low(WORD - 1 - s)>>
<1> DEFINE h == High(s)
           l == Low(s)
           u == BYTE - 1 - h
           v == BYTE - 1 - l
<1>1. h \in Byte /\ l \in Byte /\ s = h * BYTE + l /\ hton(s) = l * BYTE + h
  BY HighIsByte, LowIsByte, Sizes DEF Word, hton
<1> HIDE DEF h, l
<1>2. /\ h \in Nat /\ l \in Nat /\ u \in Nat /\ v \in Nat /\ u < BYTE /\ v < BYTE
      /\ h * BYTE \in Nat /\ l * BYTE \in Nat
  BY <1>1, Sizes DEF Byte
<1>3. u * BYTE = WORD - BYTE - h * BYTE /\ v * BYTE = WORD - BYTE - l * BYTE
  BY <1>2, Sizes
<1>4. WORD - 1 - s = u * BYTE + v /\ WORD - 1 - hton(s) = v * BYTE + u
  BY <1>1, <1>2, <1>3, Sizes
<1>5. BYTE \in Nat \ {0}
  BY Sizes
<1> HIDE DEF u, v
<1>6. /\ (u * BYTE + v) % BYTE = v /\ (u * BYTE + v) \div BYTE = u
      /\ (v * BYTE + u) % BYTE = u /\ (v * BYTE + u) \div BYTE = v
  BY ONLY <1>2, <1>5, DivModUnique
<1> QED
  BY <1>4, <1>6 DEF Stored, High, Low

-----------------------------------------------------------------------------
(* The bytes that are summed are the bytes that the checksum covers.       *)

\* What the two loops walk through.
Memory == pseudo \o data

LEMMA MemoryBytes ==
  ASSUME TypeOK
  PROVE  /\ Memory \in Seq(Byte) /\ Len(Memory) = Len(pseudo) + Len(data)
         /\ \A i \in 1..Len(pseudo) : Memory[i] = pseudo[i]
         /\ \A i \in 1..Len(data) : Memory[Len(pseudo) + i] = data[i]
<1>1. pseudo \in Seq(Byte) /\ data \in Seq(Byte)
  BY ChecksumAssumption DEF TypeOK
<1>2. Memory \in Seq(Byte) /\ Len(Memory) = Len(pseudo) + Len(data)
  BY <1>1, Joined, Zenon DEF Memory
<1>3. \A i \in 1..(Len(pseudo) + Len(data)) :
        Memory[i] = IF i <= Len(pseudo) THEN pseudo[i] ELSE data[i - Len(pseudo)]
  BY <1>1, ConcatProperties, Zenon DEF Memory
<1>4. Len(pseudo) \in Nat /\ Len(data) \in Nat
  BY <1>1
<1> QED
  BY <1>2, <1>3, <1>4

\* The pseudo-header is built from the arguments, and they do not change.
Source ==
  pseudo = IF header = NoHeader THEN <<>> ELSE PseudoHeader(header, Len(data))

\* The length field of a length that fits into a word, byte by byte.
LEMMA LengthBytes ==
  ASSUME NEW n \in Nat, n < WORD
  PROVE  Stored(LengthField(n)) = <<High(n), Low(n)>>
<1>1. n \in Word /\ n % WORD = n
  BY Sizes, ModSmall DEF Word
<1>2. Low(n) \in Byte /\ High(n) \in Byte
  BY <1>1, HighIsByte, LowIsByte, Sizes
<1>3. Low(n) \in Nat /\ High(n) \in Nat /\ High(n) < BYTE /\ BYTE \in Nat \ {0}
  BY <1>2, Sizes DEF Byte
<1>4. (Low(n) * BYTE + High(n)) % BYTE = High(n) /\ (Low(n) * BYTE + High(n)) \div BYTE = Low(n)
  BY ONLY <1>3, DivModUnique
<1> QED
  BY <1>1, <1>4 DEF Stored, LengthField, hton, Low, High

LEMMA CoveredBytes ==
  ASSUME TypeOK, Source, header # NoHeader => Len(data) < WORD
  PROVE  Covered = Memory
<1>1. data \in Seq(Byte) /\ Len(data) \in Nat
  BY ChecksumAssumption DEF TypeOK
<1>2. CASE header = NoHeader
  <2>1. pseudo = <<>> /\ Covered = data
    BY <1>2 DEF Source, Covered
  <2>2. <<>> \o data = data
    BY <1>1, ConcatEmptySeq
  <2> QED
    BY <2>1, <2>2 DEF Memory
<1>3. CASE header # NoHeader
  <2>1. Stored(LengthField(Len(data))) = <<High(Len(data)), Low(Len(data))>>
    BY <1>1, <1>3, LengthBytes
  <2>2. pseudo = PseudoHeader(header, Len(data))
    BY <1>3 DEF Source
  <2> QED
    BY <1>3, <2>1, <2>2, Zenon DEF Memory, Covered, PseudoHeader
<1> QED
  BY <1>2, <1>3

-----------------------------------------------------------------------------
(* The sums agree.                                                         *)

\* A loop ends at the end of its buffer, and the first reads whole words.
Walk ==
  /\ pc = "data" => ptr % 2 = 0
  /\ pc \in {"fold", "done"} => ptr = Len(data)

\* The one's complement sum of as many bytes as have been added.
SumSoFar == OneSum(Memory)[(Added + 1) \div 2]

\* The true sum in the order of the host is BYTE times the sum in the order of
\* the network, up to congruence, and they are zero together.
Agreement ==
  /\ Congruent(total, BYTE * SumSoFar)
  /\ total = 0 <=> SumSoFar = 0

RInv == IInv /\ Source /\ Walk /\ Agreement

\* Two bytes, or the last one, are the next word of the network.
LEMMA NextWord ==
  ASSUME TypeOK, Agreement, NEW value, NEW n \in {1, 2}, NEW k \in Nat,
         Added = 2 * k, Added + n <= Len(Memory),
         n = 2 => value = Memory[Added + 1] + Memory[Added + 2] * BYTE,
         n = 1 => value = Memory[Added + 1] /\ Added + 1 = Len(Memory),
         AddToSum(value), UNCHANGED arguments, Added' = Added + n
  PROVE  Agreement'
<1>1. Memory \in Seq(Byte) /\ Len(Memory) \in Nat
  BY MemoryBytes, Lengths
<1>2. /\ (Added + 1) \div 2 = k /\ (Added' + 1) \div 2 = k + 1
      /\ k + 1 \in 1..((Len(Memory) + 1) \div 2) /\ (k + 1) - 1 = k
      /\ 2 * (k + 1) - 1 = Added + 1 /\ 2 * (k + 1) = Added + 2
  BY <1>1
<1>3. PICK h \in Byte, l \in Byte :
        /\ NetWord(Memory, k + 1) = h * BYTE + l
        /\ h = Memory[2 * (k + 1) - 1]
        /\ l = IF 2 * (k + 1) <= Len(Memory) THEN Memory[2 * (k + 1)] ELSE 0
  BY <1>1, <1>2, NetWordBytes
<1>4. value = h + l * BYTE
  <2>1. CASE n = 1
    <3>1. h = value /\ l = 0
      BY <1>1, <1>2, <1>3, <2>1
    <3>2. h \in Nat /\ 0 * BYTE = 0
      BY <1>3, Sizes DEF Byte
    <3> QED
      BY <3>1, <3>2
  <2>2. CASE n = 2
    BY <1>1, <1>2, <1>3, <2>2
  <2> QED
    BY <2>1, <2>2
<1> DEFINE s == OneSum(Memory)[k]
<1>5. s \in Word
  <2>1. k \in 0..((Len(Memory) + 1) \div 2)
    BY <1>1, <1>2
  <2> QED
    BY <1>1, <2>1, OneSumType
<1>6. OneSum(Memory)[k + 1] = PlusCarry(s, h * BYTE + l)
  BY <1>1, <1>2, <1>3, OneSumEquation
<1>7. s = SumSoFar
  BY <1>2 DEF SumSoFar
<1>8. SumSoFar' = OneSum(Memory)[k + 1]
  BY <1>2 DEF SumSoFar, Memory, arguments
<1>9. Congruent(total, BYTE * s) /\ (total = 0 <=> s = 0) /\ total \in Nat
  BY <1>7 DEF Agreement, TypeOK
<1> HIDE DEF s
<1>10. /\ Congruent(total + (h + l * BYTE), BYTE * PlusCarry(s, h * BYTE + l))
       /\ total + (h + l * BYTE) = 0 <=> PlusCarry(s, h * BYTE + l) = 0
  BY <1>3, <1>5, <1>9, CongruentAddition
<1>11. total' = total + (h + l * BYTE) /\ SumSoFar' = PlusCarry(s, h * BYTE + l)
  BY <1>4, <1>6, <1>8 DEF AddToSum
<1> QED
  BY <1>10, <1>11 DEF Agreement, Congruent

LEMMA IsEven ==
  ASSUME NEW x \in Nat, x % 2 = 0
  PROVE  \E k \in Nat : x = 2 * k
<1>1. x \div 2 \in Nat /\ x = 2 * (x \div 2)
  OBVIOUS
<1> QED
  BY <1>1

LEMMA RInvInit == Init => RInv
<1> SUFFICES ASSUME Init PROVE RInv
  OBVIOUS
<1>1. IInv /\ TypeOK
  BY InvInit DEF IInv
<1>2. Source /\ Walk
  BY DEF Init, Source, Walk
<1>3. Agreement
  <2>1. Memory \in Seq(Byte)
    BY <1>1, MemoryBytes
  <2>2. Added = 0 /\ total = 0
    BY DEF Init, Added
  <2>3. SumSoFar = OneSum(Memory)[0]
    BY <2>2 DEF SumSoFar
  <2>4. SumSoFar = 0
    BY <2>1, <2>3, OneSumEquation
  <2>5. total = BYTE * SumSoFar + 0 * (WORD - 1) /\ 0 \in Int
    BY <2>2, <2>4, Sizes
  <2> QED
    BY <2>2, <2>4, <2>5 DEF Agreement, Congruent
<1> QED
  BY <1>1, <1>2, <1>3 DEF RInv

LEMMA RInvStep == RInv /\ [Next]_vars => RInv'
<1> SUFFICES ASSUME RInv, [Next]_vars PROVE RInv'
  OBVIOUS
<1>type. IInv' /\ TypeOK
  BY InvStep DEF RInv, IInv
<1>len. /\ Len(pseudo) \in Nat /\ Len(data) \in Nat /\ ptr \in Nat
        /\ Len(pseudo) % 2 = 0
  BY <1>type, Lengths DEF TypeOK
<1>mem. /\ Len(Memory) = Len(pseudo) + Len(data)
        /\ \A i \in 1..Len(pseudo) : Memory[i] = pseudo[i]
        /\ \A i \in 1..Len(data) : Memory[Len(pseudo) + i] = data[i]
  BY <1>type, MemoryBytes
<1>source. UNCHANGED arguments
  BY DEF Next, vars, AddPseudoWord, PseudoEnds, AddWord, AddByte, NoByte, Fold, Return
<1>same. ASSUME Added' = Added, total' = total PROVE Agreement'
  BY <1>same, <1>source DEF RInv, Agreement, SumSoFar, Memory, arguments
<1>0. Source'
  BY <1>source DEF RInv, Source, arguments
<1>1. CASE AddPseudoWord
  <2>1. /\ pc = "pseudo" /\ pc' = pc /\ ptr' = ptr + 2 /\ ptr < Len(pseudo)
        /\ AddToSum(HostWord(pseudo)) /\ ptr % 2 = 0
    BY <1>1, <1>type DEF AddPseudoWord, TypeOK
  <2>2. ptr + 2 <= Len(pseudo)
    BY <1>len, <2>1
  <2>3. Added = ptr /\ Added' = Added + 2 /\ Added + 2 <= Len(Memory)
    BY <1>len, <1>mem, <2>1, <2>2 DEF Added
  <2>4. HostWord(pseudo) = Memory[Added + 1] + Memory[Added + 2] * BYTE
    BY <1>len, <1>mem, <2>2, <2>3 DEF HostWord
  <2>5. PICK k \in Nat : Added = 2 * k
    BY <1>len, <2>1, <2>3, IsEven
  <2>6. Agreement'
    BY <1>type, <1>source, <2>1, <2>3, <2>4, <2>5, NextWord DEF RInv
  <2>7. Walk'
    BY <2>1 DEF Walk
  <2> QED
    BY <1>type, <1>0, <2>6, <2>7 DEF RInv
<1>2. CASE PseudoEnds
  <2>1. /\ pc = "pseudo" /\ ptr = Len(pseudo) /\ pc' = "data" /\ ptr' = 0
        /\ total' = total
    BY <1>2 DEF PseudoEnds, StartData
  <2>2. Added' = Added
    BY <1>len, <1>source, <2>1 DEF Added, arguments
  <2>3. Walk'
    BY <2>1 DEF Walk
  <2> QED
    BY <1>type, <1>same, <1>0, <2>1, <2>2, <2>3 DEF RInv
<1>3. CASE AddWord
  <2>1. /\ pc = "data" /\ pc' = pc /\ ptr' = ptr + 2 /\ Len(data) - ptr > 1
        /\ AddToSum(HostWord(data)) /\ ptr % 2 = 0
    BY <1>3 DEF AddWord, RInv, Walk
  <2>2. ptr + 2 <= Len(data)
    BY <1>len, <2>1
  <2>3. Added = Len(pseudo) + ptr /\ Added' = Added + 2 /\ Added + 2 <= Len(Memory)
    BY <1>len, <1>mem, <1>source, <2>1, <2>2 DEF Added, arguments
  <2>4. HostWord(data) = Memory[Added + 1] + Memory[Added + 2] * BYTE
    <3>1. Memory[Len(pseudo) + (ptr + 1)] = data[ptr + 1]
      BY <1>len, <1>mem, <2>2
    <3>2. Memory[Len(pseudo) + (ptr + 2)] = data[ptr + 2]
      BY <1>len, <1>mem, <2>2
    <3>3. Added + 1 = Len(pseudo) + (ptr + 1) /\ Added + 2 = Len(pseudo) + (ptr + 2)
      BY <1>len, <2>3
    <3> QED
      BY <3>1, <3>2, <3>3 DEF HostWord
  <2>5. PICK k \in Nat : Added = 2 * k
    <3>1. PICK i \in Nat : ptr = 2 * i
      BY <1>len, <2>1, IsEven
    <3>2. PICK j \in Nat : Len(pseudo) = 2 * j
      BY <1>len, IsEven
    <3>3. Added = 2 * (i + j) /\ i + j \in Nat
      BY <2>3, <3>1, <3>2
    <3> QED
      BY <3>3
  <2>6. Agreement'
    BY <1>type, <1>source, <2>1, <2>3, <2>4, <2>5, NextWord DEF RInv
  <2>7. Walk'
    BY <1>len, <2>1 DEF Walk
  <2> QED
    BY <1>type, <1>0, <2>6, <2>7 DEF RInv
<1>4. CASE AddByte
  <2>1. /\ pc = "data" /\ pc' = "fold" /\ ptr' = ptr + 1 /\ Len(data) - ptr = 1
        /\ AddToSum(data[ptr + 1]) /\ ptr % 2 = 0
    BY <1>4 DEF AddByte, RInv, Walk
  <2>2. ptr + 1 = Len(data)
    BY <1>len, <2>1
  <2>3. Added = Len(pseudo) + ptr /\ Added' = Added + 1 /\ Added + 1 = Len(Memory)
    BY <1>len, <1>mem, <1>source, <2>1, <2>2 DEF Added, arguments
  <2>4. data[ptr + 1] = Memory[Added + 1]
    <3>1. Memory[Len(pseudo) + (ptr + 1)] = data[ptr + 1]
      BY <1>len, <1>mem, <2>2
    <3>2. Added + 1 = Len(pseudo) + (ptr + 1)
      BY <1>len, <2>3
    <3> QED
      BY <3>1, <3>2
  <2>5. PICK k \in Nat : Added = 2 * k
    <3>1. PICK i \in Nat : ptr = 2 * i
      BY <1>len, <2>1, IsEven
    <3>2. PICK j \in Nat : Len(pseudo) = 2 * j
      BY <1>len, IsEven
    <3>3. Added = 2 * (i + j) /\ i + j \in Nat
      BY <2>3, <3>1, <3>2
    <3> QED
      BY <3>3
  <2>6. Agreement'
    <3>1. Added + 1 <= Len(Memory)
      BY <1>len, <1>mem, <2>3
    <3> QED
      BY <1>type, <1>source, <2>1, <2>3, <2>4, <2>5, <3>1, NextWord DEF RInv
  <2>7. Walk'
    BY <1>len, <1>source, <2>1, <2>2 DEF Walk, arguments
  <2> QED
    BY <1>type, <1>0, <2>6, <2>7 DEF RInv
<1>5. CASE NoByte
  <2>1. /\ pc = "data" /\ pc' = "fold" /\ ptr' = ptr /\ Len(data) - ptr = 0
        /\ total' = total
    BY <1>5 DEF NoByte
  <2>2. Added' = Added
    BY <1>source, <2>1 DEF Added, arguments
  <2>3. Walk'
    BY <1>len, <1>source, <2>1 DEF Walk, arguments
  <2> QED
    BY <1>type, <1>same, <1>0, <2>1, <2>2, <2>3 DEF RInv
<1>6. CASE Fold \/ Return \/ UNCHANGED vars
  <2>1. /\ ptr' = ptr /\ total' = total
        /\ pc' = pc \/ (pc = "fold" /\ pc' = "done")
    BY <1>6 DEF Fold, Return, vars
  <2>2. Added' = Added
    BY <1>source, <2>1 DEF Added, arguments
  <2>3. Walk'
    BY <1>source, <2>1 DEF RInv, Walk, arguments
  <2> QED
    BY <1>type, <1>same, <1>0, <2>1, <2>2, <2>3 DEF RInv
<1> QED
  BY <1>1, <1>2, <1>3, <1>4, <1>5, <1>6 DEF Next

LEMMA RInvAlways == Spec => []RInv
<1> QED
  BY RInvInit, RInvStep, PTL DEF Spec

\* For every width of a byte, every buffer that fits, of even or odd length,
\* with a pseudo-header or without: what the function returns, stored by a
\* little-endian host, is in memory the checksum that RFC 1071 defines over
\* the bytes as they are on the network.
THEOREM MatchesRFC1071Always == Spec => []MatchesRFC1071
<1>1. RInv => MatchesRFC1071
  <2> SUFFICES ASSUME RInv, Fits, pc = "done", header # NoHeader => Len(data) < WORD
               PROVE  Stored(result) = <<High(RFC1071(Covered)), Low(RFC1071(Covered))>>
    BY DEF MatchesRFC1071
  <2> DEFINE n == (Len(Memory) + 1) \div 2
             s == OneSum(Memory)[n]
  <2>1. Covered = Memory
    BY CoveredBytes DEF RInv, IInv
  <2>2. Memory \in Seq(Byte) /\ Len(Memory) = Len(pseudo) + Len(data)
    BY MemoryBytes DEF RInv, IInv
  <2>3. s \in Word
    <3>1. n \in 0..n
      BY <2>2
    <3> QED
      BY <2>2, <3>1, OneSumType
  <2>4. SumSoFar = s
    <3>1. Added = Len(Memory)
      BY <2>2 DEF RInv, Walk, Added
    <3> QED
      BY <3>1 DEF SumSoFar
  <2>5. RFC1071(Covered) = WORD - 1 - s
    BY <2>1 DEF RFC1071
  <2> HIDE DEF s
  <2>6. /\ sum \in Nat /\ sum < WORD /\ result = WORD - 1 - sum
        /\ total = sum + carried * (WORD - 1) /\ (sum = 0 <=> total = 0)
        /\ carried \in Nat
    BY Sizes DEF RInv, IInv, Phases, TypeOK, Exact
  <2>7. PICK t \in Int : total = BYTE * s + t * (WORD - 1)
    BY <2>4 DEF RInv, Agreement, Congruent
  <2>8. sum = BYTE * s + (t - carried) * (WORD - 1) /\ t - carried \in Int
    <3> DEFINE p == BYTE * s
               m == WORD - 1
    <3>1. p \in Int /\ m \in Int
      BY <2>3, Sizes DEF Word
    <3>2. total = p + t * m /\ total = sum + carried * m
      BY <2>6, <2>7
    <3> HIDE DEF p, m
    <3>3. sum = p + (t - carried) * m /\ t - carried \in Int
      BY <2>6, <3>1, <3>2
    <3> QED
      BY <3>3 DEF p, m
  <2>9. Congruent(sum, BYTE * s) /\ sum \in Word
    <3>1. sum \in Word
      BY <2>6, Sizes DEF Word
    <3> QED
      BY <2>8, <3>1 DEF Congruent
  <2>10. sum = 0 <=> s = 0
    BY <2>4, <2>6 DEF RInv, Agreement
  <2>11. sum = hton(s)
    BY <2>3, <2>9, <2>10, CongruentSwap
  <2> QED
    BY <2>3, <2>5, <2>6, <2>11, ComplementSwapped
<1> QED
  BY <1>1, RInvAlways, PTL

\* What calculate_checksum returns as a function of the true sum.
ClosedForm ==
  Fits /\ pc = "done" =>
    result = IF total = 0 THEN WORD - 1
             ELSE WORD - 1 - (1 + ((total - 1) % (WORD - 1)))

\* The two loops compute what IpHeader, which does not walk through the bytes,
\* takes calculate_checksum to return: the remainder of the true sum, from 1
\* to WORD - 1 unless every byte is zero.
THEOREM ClosedFormAlways == Spec => []ClosedForm
<1>1. IInv => ClosedForm
  <2> SUFFICES ASSUME IInv, Fits, pc = "done"
               PROVE  result = IF total = 0 THEN WORD - 1
                               ELSE WORD - 1 - (1 + ((total - 1) % (WORD - 1)))
    BY DEF ClosedForm
  <2>1. /\ sum \in Nat /\ sum < WORD /\ result = WORD - 1 - sum
        /\ total = sum + carried * (WORD - 1) /\ (sum = 0 <=> total = 0)
        /\ carried \in Nat
    BY Sizes DEF IInv, Phases, TypeOK, Exact
  <2>2. CASE total = 0
    BY <2>1, <2>2, Sizes
  <2>3. CASE total # 0
    <3>1. sum - 1 \in Nat /\ sum - 1 < WORD - 1 /\ WORD - 1 \in Nat \ {0}
      BY <2>1, <2>3, Sizes
    <3>2. (carried * (WORD - 1) + (sum - 1)) % (WORD - 1) = sum - 1
      BY ONLY <2>1, <3>1, DivModUnique
    <3>3. total - 1 = carried * (WORD - 1) + (sum - 1)
      BY <2>1, <3>1
    <3> QED
      BY <2>1, <2>3, <3>1, <3>2, <3>3, Sizes
  <2> QED
    BY <2>2, <2>3
<1> QED
  BY <1>1, InvAlways, PTL

-----------------------------------------------------------------------------
(* Termination.                                                            *)

\* A bound on the number of steps that are left.
Remaining ==
  CASE pc = "pseudo" -> (Len(pseudo) - ptr) + Len(data) + 5
    [] pc = "data"   -> (Len(data) - ptr) + 4
    [] pc = "fold"   -> 3 - folds
    [] pc = "done"   -> 0

\* Each step of the loops leaves fewer steps to do: whatever the buffer, even
\* one that overflows the accumulator, the function takes five steps more than
\* it has bytes at most.  (That it takes them is fairness: see Returns.)
THEOREM StepsRunOut ==
  Spec => [](Remaining \in Nat) /\ [][Remaining' < Remaining]_vars
<1>1. IInv => Remaining \in Nat
  <2> SUFFICES ASSUME IInv PROVE Remaining \in Nat
    OBVIOUS
  <2>1. Len(pseudo) \in Nat /\ Len(data) \in Nat /\ ptr \in Nat
    BY Lengths DEF IInv
  <2>2. folds \in Nat /\ folds <= 2
    BY DEF IInv, TypeOK, Shrinking
  <2>3. /\ pc \in {"pseudo", "data", "fold", "done"}
        /\ ptr <= IF pc = "pseudo" THEN Len(pseudo) ELSE Len(data)
    BY <2>1 DEF IInv, TypeOK
  <2> QED
    BY <2>1, <2>2, <2>3 DEF Remaining
<1>2. IInv /\ IInv' /\ [Next]_vars => [Remaining' < Remaining]_vars
  <2> SUFFICES ASSUME IInv, IInv', Next PROVE Remaining' < Remaining
    OBVIOUS
  <2>1. /\ Len(pseudo) \in Nat /\ Len(data) \in Nat /\ ptr \in Nat
        /\ folds \in Nat /\ folds <= 2 /\ folds' \in Nat /\ folds' <= 2
    BY Lengths DEF IInv, TypeOK, Shrinking
  <2>2. CASE AddPseudoWord
    BY <2>1, <2>2 DEF AddPseudoWord, Remaining, arguments
  <2>3. CASE PseudoEnds
    BY <2>1, <2>3 DEF PseudoEnds, StartData, Remaining, arguments
  <2>4. CASE AddWord
    BY <2>1, <2>4 DEF AddWord, Remaining, arguments
  <2>5. CASE AddByte
    <3>1. folds' = 0
      BY <2>5 DEF AddByte, IInv, Phases
    <3> QED
      BY <2>1, <2>5, <3>1 DEF AddByte, Remaining, arguments
  <2>6. CASE NoByte
    <3>1. folds' = 0
      BY <2>6 DEF NoByte, IInv, Phases
    <3> QED
      BY <2>1, <2>6, <3>1 DEF NoByte, Remaining, arguments
  <2>7. CASE Fold
    <3>1. folds' = folds + 1
      BY <2>1, <2>7 DEF Fold
    <3> QED
      BY <2>1, <2>7, <3>1 DEF Fold, Remaining
  <2>8. CASE Return
    BY <2>1, <2>8 DEF Return, Remaining
  <2> QED
    BY <2>2, <2>3, <2>4, <2>5, <2>6, <2>7, <2>8 DEF Next
<1> QED
  BY <1>1, <1>2, InvInit, InvStep, PTL DEF Spec
=============================================================================
