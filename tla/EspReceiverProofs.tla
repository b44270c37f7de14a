------------------------- MODULE EspReceiverProofs --------------------------
(***************************************************************************)
(* Proofs about EspReceiver for every set of SPIs, every database size,    *)
(* every size of a byte and every window.                                  *)
(*                                                                         *)
(* Inv is inductive.  TypeOK alone is not enough for HighWater, and        *)
(* HighWater needs to know which slot lookup_sa finds: a slot stays the    *)
(* first match of its SPI when a duplicate is appended (LookupStable), and *)
(* no two slots are the first match of one SPI (LookupUnique).             *)
(***************************************************************************)
EXTENDS EspReceiver, TLAPS

-----------------------------------------------------------------------------
(* Bytes and words, for every number of values of a byte.                  *)

\* Division with remainder, which is unique.
LEMMA DivMod ==
  ASSUME NEW x \in Nat, NEW w \in Nat \ {0}
  PROVE  /\ x \div w \in Nat
         /\ x % w \in 0..(w - 1)
         /\ x = w * (x \div w) + (x % w)
BY SMTT(30)

LEMMA DivModUnique ==
  ASSUME NEW q \in Nat, NEW r \in Nat, NEW w \in Nat \ {0}, r < w
  PROVE  (q * w + r) % w = r /\ (q * w + r) \div w = q
BY SMTT(30)

LEMMA TimesMonotonic ==
  ASSUME NEW a \in Nat, NEW b \in Nat, NEW c \in Nat, a <= b
  PROVE  a * c <= b * c
BY SMTT(30)

LEMMA ByteSize == BYTE \in Nat \ {0} /\ BYTE - 1 \in Nat /\ WORD \in Nat \ {0}
<1>1. BYTE \in Nat /\ BYTE >= 2
  BY ByteAssumption
<1>2. 2 * BYTE <= BYTE * BYTE
  BY <1>1, TimesMonotonic
<1> QED
  BY <1>1, <1>2 DEF WORD

\* A word that is converted and converted back is what it was, and a
\* converted word is a word.
LEMMA ConversionInvolution ==
  ASSUME NEW w \in Word
  PROVE  hton(w) \in Word /\ ntoh(hton(w)) = w
<1> DEFINE h == w \div BYTE
           l == w % BYTE
           m == BYTE - 1
<1>1. w \in Nat /\ w < BYTE * BYTE /\ m \in Nat /\ BYTE = m + 1
  BY ByteSize DEF Word, WORD
<1>2. h \in Nat /\ l \in 0..m /\ w = BYTE * h + l
  BY <1>1, ByteSize, DivMod
<1>3. hton(w) = l * BYTE + h /\ BYTE \in Nat \ {0}
  BY ByteSize DEF hton, Low, High
<1> HIDE DEF h, l, m
<1>4. h <= m
  <2>1. SUFFICES ASSUME BYTE <= h PROVE FALSE
    BY <1>1, <1>2
  <2>2. BYTE * BYTE <= h * BYTE
    BY <2>1, <1>2, <1>3, TimesMonotonic
  <2> QED
    BY <2>2, <1>1, <1>2, <1>3
<1>5. l * BYTE <= m * BYTE /\ m * BYTE + m = BYTE * BYTE - 1
  BY <1>1, <1>2, <1>3, TimesMonotonic
<1>6. hton(w) \in Word
  BY <1>1, <1>2, <1>3, <1>4, <1>5 DEF Word, WORD
<1>7. (l * BYTE + h) % BYTE = h /\ (l * BYTE + h) \div BYTE = l
  BY <1>1, <1>2, <1>3, <1>4, DivModUnique
<1>8. ntoh(hton(w)) = h * BYTE + l
  BY <1>3, <1>7 DEF ntoh, Low, High
<1> QED
  BY <1>2, <1>3, <1>6, <1>8

-----------------------------------------------------------------------------
(* The packet, and the slots of the database.                              *)

Inv == TypeOK /\ ShadowedUnused /\ HighWater

\* The way through parse_esp_packet of a packet that is not refused.
Accept(i, spi, seq) == ParseFresh(i, spi, seq) /\ Passes(spi, seq)

\* The parser reads the numbers that the packet was built with.
LEMMA ParseReadsSent ==
  ASSUME NEW spi \in Spi, NEW seq \in SeqNo, Parse(spi, seq)
  PROVE  \/ ParseUnknownSpi(spi, seq)
         \/ \E i \in DOMAIN sa_database : ParseStale(i, spi, seq)
         \/ \E i \in DOMAIN sa_database : Accept(i, spi, seq)
<1> DEFINE esp == create_sample_esp_packet(spi, seq)
<1>1. spi \in Word /\ seq \in Word
  BY EspAssumption DEF SeqNo
<1>2. ntoh(esp.spi) = spi /\ SequenceOf(esp) = seq
  BY <1>1, ConversionInvolution DEF create_sample_esp_packet, SequenceOf
<1> QED
  BY <1>2 DEF Parse, Accept

\* The numbers are natural numbers, and 0 is one of them.
LEMMA Numbers == SeqNo \subseteq Nat /\ 0 \in SeqNo
BY ByteSize DEF SeqNo, Word

\* Every used slot holds an association.
LEMMA SlotType ==
  ASSUME TypeOK, NEW k \in DOMAIN sa_database
  PROVE  /\ sa_database[k] \in SA
         /\ sa_database[k].spi \in Spi
         /\ sa_database[k].seq_number \in SeqNo
         /\ sa_database[k].seq_number \in Nat
<1>1. sa_database \in Seq(SA) /\ k \in 1..Len(sa_database)
  BY DEF TypeOK
<1>2. sa_database[k] \in SA
  BY <1>1
<1> QED
  BY <1>2, Numbers DEF SA

\* lookup_sa is a function: it returns one slot at most.
LEMMA LookupUnique ==
  ASSUME TypeOK, NEW s \in Spi, NEW i, NEW j, LookupSA(i, s), LookupSA(j, s)
  PROVE  i = j
<1>1. i \in Nat /\ j \in Nat /\ i \in 1..Len(sa_database) /\ j \in 1..Len(sa_database)
  BY DEF TypeOK, LookupSA
<1>2. ~(i < j) /\ ~(j < i)
  BY <1>1 DEF LookupSA
<1> QED
  BY <1>1, <1>2

\* What add_sa leaves in the database: every old slot, and one new slot.
LEMMA AddSASlots ==
  ASSUME TypeOK, NEW spi \in Spi, AddSA(spi)
  PROVE  /\ sa_database' \in Seq(SA)
         /\ Len(sa_database') = Len(sa_database) + 1
         /\ Len(sa_database') <= MAX_SA
         /\ \A k \in DOMAIN sa_database : sa_database'[k] = sa_database[k]
         /\ sa_database'[Len(sa_database) + 1].seq_number = 0
         /\ DOMAIN sa_database' = DOMAIN sa_database \cup {Len(sa_database) + 1}
<1>1. [spi |-> spi, seq_number |-> 0] \in SA
  BY EspAssumption, Numbers DEF SA
<1>2. Len(sa_database) \in Nat /\ sa_database \in Seq(SA)
  BY DEF TypeOK
<1> QED
  BY <1>1, <1>2, EspAssumption DEF AddSA, HasRoom

\* add_sa does not change which slot lookup_sa finds for an SPI it knew.
LEMMA LookupStable ==
  ASSUME TypeOK, NEW spi \in Spi, AddSA(spi),
         NEW s \in Spi, NEW i \in DOMAIN sa_database
  PROVE  LookupSA(i, s) <=> LookupSA(i, s)'
<1>1. DOMAIN sa_database = 1..Len(sa_database) /\ Len(sa_database) \in Nat
  BY DEF TypeOK
<1>2. \A j \in 1..(i - 1) : j \in DOMAIN sa_database
  BY <1>1
<1> QED
  BY <1>1, <1>2, AddSASlots DEF LookupSA

\* What recording a packet's number leaves in the database: one slot's
\* number changes, and no slot's SPI does, so lookup_sa finds the same slots.
LEMMA RecordSlots ==
  ASSUME TypeOK, NEW spi \in Spi, NEW seq \in SeqNo, NEW i \in DOMAIN sa_database,
         Record(i, seq)
  PROVE  /\ sa_database' \in Seq(SA)
         /\ Len(sa_database') = Len(sa_database)
         /\ DOMAIN sa_database' = DOMAIN sa_database
         /\ sa_database'[i].seq_number = seq
         /\ \A k \in DOMAIN sa_database :
              /\ sa_database'[k].spi = sa_database[k].spi
              /\ k # i => sa_database'[k].seq_number = sa_database[k].seq_number
         /\ \A k \in DOMAIN sa_database, s \in Spi : LookupSA(k, s) <=> LookupSA(k, s)'
<1>1. /\ sa_database \in Seq(SA)
      /\ Len(sa_database) \in Nat
      /\ DOMAIN sa_database = 1..Len(sa_database)
  BY DEF TypeOK
<1>2. \A k \in DOMAIN sa_database : sa_database[k] \in SA
  BY <1>1
<1>3. sa_database' = [k \in 1..Len(sa_database) |->
          IF k = i THEN [sa_database[i] EXCEPT !.seq_number = seq] ELSE sa_database[k]]
  BY <1>1 DEF Record
<1>4. \A k \in 1..Len(sa_database) :
        IF k = i THEN sa_database'[k] = [sa_database[i] EXCEPT !.seq_number = seq]
                 ELSE sa_database'[k] = sa_database[k]
  BY <1>3
<1>5. [sa_database[i] EXCEPT !.seq_number = seq] \in SA
  BY <1>1, <1>2 DEF SA
<1>6. /\ sa_database' \in Seq(SA)
      /\ Len(sa_database') = Len(sa_database)
      /\ DOMAIN sa_database' = DOMAIN sa_database
  BY <1>1, <1>2, <1>3, <1>5
<1>7. /\ sa_database'[i].seq_number = seq
      /\ \A k \in DOMAIN sa_database :
           /\ sa_database'[k].spi = sa_database[k].spi
           /\ k # i => sa_database'[k].seq_number = sa_database[k].seq_number
  BY <1>1, <1>2, <1>4 DEF SA
<1>8. ASSUME NEW k \in DOMAIN sa_database, NEW s \in Spi
      PROVE  LookupSA(k, s) <=> LookupSA(k, s)'
  <2>1. \A j \in 1..(k - 1) : j \in DOMAIN sa_database
    BY <1>1
  <2> QED
    BY <2>1, <1>6, <1>7 DEF LookupSA
<1> QED
  BY <1>6, <1>7, <1>8

-----------------------------------------------------------------------------
(* Type correctness, which includes the bound of the SA array.             *)

LEMMA TypeInit == Init => TypeOK
  BY EspAssumption, Numbers DEF Init, TypeOK, NoPacket, SA, Outcomes

LEMMA NoPacketType == NoPacket.spi \in Spi /\ NoPacket.seq \in SeqNo /\ 0 \in SeqNo
  BY EspAssumption, Numbers DEF NoPacket

LEMMA TypeStep == TypeOK /\ [Next]_vars => TypeOK'
<1> SUFFICES ASSUME TypeOK, [Next]_vars PROVE TypeOK'
  OBVIOUS
<1> USE NoPacketType
<1>1. CASE ParseTooSmall
  BY <1>1 DEF TypeOK, ParseTooSmall, Says, Outcomes
<1>2. ASSUME NEW spi \in Spi, AddSA(spi) PROVE TypeOK'
  BY <1>2, AddSASlots DEF TypeOK, AddSA, Says, Outcomes
<1>3. ASSUME NEW spi \in Spi, AddSAFull(spi) PROVE TypeOK'
  BY <1>3 DEF TypeOK, AddSAFull, Says, Outcomes
<1>4. ASSUME NEW spi \in Spi, NEW seq \in SeqNo, Parse(spi, seq) PROVE TypeOK'
  <2>1. CASE ParseUnknownSpi(spi, seq)
    BY <2>1 DEF TypeOK, ParseUnknownSpi, Says, Outcomes
  <2>2. ASSUME NEW i \in DOMAIN sa_database, ParseStale(i, spi, seq) PROVE TypeOK'
    BY <2>2 DEF TypeOK, ParseStale, StaleOutcome, Says, Outcomes
  <2>3. ASSUME NEW i \in DOMAIN sa_database, Accept(i, spi, seq) PROVE TypeOK'
    <3>1. Record(i, seq)
      BY <2>3 DEF Accept, ParseFresh, Passes
    <3>2. sa_database' \in Seq(SA) /\ Len(sa_database') = Len(sa_database)
      BY <3>1, RecordSlots
    <3>3. passed' \in [Spi -> [SeqNo -> Nat]]
      <4>1. passed[spi] \in [SeqNo -> Nat] /\ passed[spi][seq] + 1 \in Nat
        BY DEF TypeOK
      <4> QED
        BY <2>3, <4>1 DEF TypeOK, Accept, ParseFresh, Passes
    <3> QED
      BY <2>3, <3>2, <3>3 DEF TypeOK, Accept, ParseFresh, Passes, Says, Outcomes
  <2> QED
    BY <1>4, <2>1, <2>2, <2>3, ParseReadsSent
<1>5. CASE UNCHANGED vars
  BY <1>5 DEF TypeOK, vars
<1> QED
  BY <1>1, <1>2, <1>3, <1>4, <1>5 DEF Next

\* The SA array never holds more than MAX_SA associations, each call prints
\* one of the messages of the code, and every counter stays a number.
THEOREM TypeCorrect == Spec => []TypeOK
<1> QED
  BY TypeInit, TypeStep, PTL DEF Spec

-----------------------------------------------------------------------------
(* The inductive invariant.                                                *)

LEMMA InvInit == Init => Inv
<1> SUFFICES ASSUME Init PROVE Inv
  OBVIOUS
<1>1. TypeOK
  BY TypeInit
<1>2. DOMAIN sa_database = {} /\ \A s \in Spi, n \in SeqNo : passed[s][n] = 0
  BY DEF Init
<1> QED
  BY <1>1, <1>2 DEF Inv, ShadowedUnused, HighWater

\* The half of HighWater that speaks of the packets that passed.
PassedBelow ==
  \A s \in Spi, n \in SeqNo :
    passed[s][n] > 0 =>
      /\ passed[s][n] = 1
      /\ n > 0
      /\ \E i \in DOMAIN sa_database :
           LookupSA(i, s) /\ n <= sa_database[i].seq_number

\* The half of HighWater that speaks of the numbers in the database.
NumberPassed ==
  \A i \in DOMAIN sa_database :
    LookupSA(i, sa_database[i].spi) =>
      \/ sa_database[i].seq_number = 0
      \/ passed[sa_database[i].spi][sa_database[i].seq_number] > 0

LEMMA HighWaterParts == HighWater <=> PassedBelow /\ NumberPassed
  BY DEF HighWater, PassedBelow, NumberPassed

LEMMA AddSAInv ==
  ASSUME Inv, TypeOK', NEW spi \in Spi, AddSA(spi)
  PROVE  Inv'
<1>1. TypeOK /\ ShadowedUnused /\ PassedBelow /\ NumberPassed
  BY HighWaterParts DEF Inv
<1>2. \A k \in DOMAIN sa_database : sa_database[k] \in SA /\ sa_database[k].spi \in Spi
  BY <1>1, SlotType
<1>3. \A k \in DOMAIN sa_database : sa_database'[k] = sa_database[k]
  BY <1>1, AddSASlots
<1>4. \A k \in DOMAIN sa_database' :
        k \notin DOMAIN sa_database => sa_database'[k].seq_number = 0
  BY <1>1, AddSASlots
<1>5. DOMAIN sa_database \subseteq DOMAIN sa_database'
  BY <1>1, AddSASlots
<1>6. \A k \in DOMAIN sa_database, s \in Spi : LookupSA(k, s) <=> LookupSA(k, s)'
  BY <1>1, LookupStable
<1>7. passed' = passed
  BY DEF AddSA
<1>8. ShadowedUnused'
  BY <1>1, <1>2, <1>3, <1>4, <1>6 DEF ShadowedUnused
<1>9. PassedBelow'
  BY <1>1, <1>3, <1>5, <1>6, <1>7 DEF PassedBelow
<1>10. NumberPassed'
  BY <1>1, <1>2, <1>3, <1>4, <1>6, <1>7 DEF NumberPassed
<1> QED
  BY <1>8, <1>9, <1>10, HighWaterParts DEF Inv, HighWater, PassedBelow, NumberPassed

\* What makes the receiver a filter: a packet that passes has a number above
\* every number that passed for its SPI before.
LEMMA FreshIsNew ==
  ASSUME Inv, NEW spi \in Spi, NEW seq \in SeqNo,
         NEW i \in DOMAIN sa_database, Accept(i, spi, seq)
  PROVE  /\ passed[spi][seq] = 0
         /\ \A m \in SeqNo : passed[spi][m] > 0 => m < seq
<1>1. TypeOK /\ PassedBelow
  BY HighWaterParts DEF Inv
<1>2. LookupSA(i, spi) /\ seq > sa_database[i].seq_number
  BY DEF Accept, ParseFresh, Passes, Fresh
<1>3. sa_database[i].seq_number \in Nat /\ seq \in Nat
  BY <1>1, SlotType, Numbers
<1>4. ASSUME NEW m \in SeqNo, passed[spi][m] > 0 PROVE m < seq
  <2>1. PICK j \in DOMAIN sa_database :
          LookupSA(j, spi) /\ m <= sa_database[j].seq_number
    BY <1>1, <1>4 DEF PassedBelow
  <2>2. j = i
    BY <1>1, <1>2, <2>1, LookupUnique
  <2> QED
    BY <1>2, <1>3, <2>1, <2>2, Numbers
<1>5. passed[spi][seq] \in Nat
  BY <1>1 DEF TypeOK
<1> QED
  BY <1>3, <1>4, <1>5

LEMMA ParseFreshInv ==
  ASSUME Inv, TypeOK', NEW spi \in Spi, NEW seq \in SeqNo,
         NEW i \in DOMAIN sa_database, Accept(i, spi, seq)
  PROVE  Inv'
<1>1. TypeOK /\ ShadowedUnused /\ PassedBelow /\ NumberPassed
  BY HighWaterParts DEF Inv
<1>2. Record(i, seq) /\ LookupSA(i, spi) /\ seq > sa_database[i].seq_number
  BY DEF Accept, ParseFresh, Passes, Fresh
<1>3. \A k \in DOMAIN sa_database : sa_database[k] \in SA
  BY <1>1, SlotType
<1>4. /\ DOMAIN sa_database' = DOMAIN sa_database
      /\ sa_database'[i].seq_number = seq
      /\ \A k \in DOMAIN sa_database :
           /\ sa_database'[k].spi = sa_database[k].spi
           /\ k # i => sa_database'[k].seq_number = sa_database[k].seq_number
      /\ \A k \in DOMAIN sa_database, s \in Spi : LookupSA(k, s) <=> LookupSA(k, s)'
  BY <1>1, <1>2, RecordSlots
<1>5. passed[spi][seq] = 0
  BY FreshIsNew
<1>6. /\ passed'[spi][seq] = 1
      /\ \A s \in Spi, n \in SeqNo :
           ~(s = spi /\ n = seq) => passed'[s][n] = passed[s][n]
  BY <1>1, <1>5 DEF TypeOK, Accept, ParseFresh, Passes
<1>7. sa_database[i].spi = spi
  BY <1>2 DEF LookupSA
<1>8. ShadowedUnused'
  BY <1>1, <1>2, <1>3, <1>4, <1>7 DEF ShadowedUnused, SA
<1>9. PassedBelow'
  <2> SUFFICES ASSUME NEW s \in Spi, NEW n \in SeqNo, passed'[s][n] > 0
               PROVE  /\ passed'[s][n] = 1
                      /\ n > 0
                      /\ \E k \in DOMAIN sa_database :
                           LookupSA(k, s)' /\ n <= sa_database'[k].seq_number
    BY <1>4 DEF PassedBelow
  <2>1. CASE s = spi /\ n = seq
    BY <1>2, <1>3, <1>4, <1>6, <2>1, Numbers DEF SA
  <2>2. CASE ~(s = spi /\ n = seq)
    <3>1. passed[s][n] > 0
      BY <1>6, <2>2
    <3>2. PICK k \in DOMAIN sa_database :
            LookupSA(k, s) /\ n <= sa_database[k].seq_number
      BY <1>1, <3>1 DEF PassedBelow
    <3>3. n <= sa_database'[k].seq_number
      <4>1. /\ n \in Nat /\ seq \in Nat
            /\ sa_database[k].seq_number \in Nat /\ sa_database[i].seq_number \in Nat
        BY <1>1, SlotType, Numbers
      <4> QED
        BY <1>2, <1>4, <3>2, <4>1
    <3>4. passed'[s][n] = 1 /\ n > 0
      BY <1>1, <1>6, <2>2, <3>1 DEF PassedBelow
    <3> QED
      BY <1>4, <3>2, <3>3, <3>4
  <2> QED
    BY <2>1, <2>2
<1>10. NumberPassed'
  <2> SUFFICES ASSUME NEW k \in DOMAIN sa_database, LookupSA(k, sa_database[k].spi)
               PROVE  \/ sa_database'[k].seq_number = 0
                      \/ passed'[sa_database[k].spi][sa_database'[k].seq_number] > 0
    BY <1>3, <1>4 DEF NumberPassed, SA
  <2>1. CASE k = i
    BY <1>4, <1>6, <1>7, <2>1
  <2>2. CASE k # i
    <3>1. sa_database[k].spi # spi
      BY <1>1, <1>2, <2>2, LookupUnique
    <3> QED
      BY <1>1, <1>3, <1>4, <1>6, <2>2, <3>1 DEF NumberPassed, SA
  <2> QED
    BY <2>1, <2>2
<1> QED
  BY <1>8, <1>9, <1>10, HighWaterParts DEF Inv, HighWater, PassedBelow, NumberPassed

\* Every other call leaves the database and the counts as they are.
LEMMA QuietInv == Inv /\ TypeOK' /\ UNCHANGED <<sa_database, passed>> => Inv'
  BY DEF Inv, ShadowedUnused, HighWater, LookupSA

LEMMA InvStep == Inv /\ [Next]_vars => Inv'
<1> SUFFICES ASSUME Inv, [Next]_vars PROVE Inv'
  OBVIOUS
<1>1. TypeOK'
  BY TypeStep DEF Inv
<1>2. CASE UNCHANGED <<sa_database, passed>>
  BY <1>1, <1>2, QuietInv
<1>3. ASSUME NEW spi \in Spi, AddSA(spi) PROVE Inv'
  BY <1>1, <1>3, AddSAInv
<1>4. ASSUME NEW spi \in Spi, NEW seq \in SeqNo, NEW i \in DOMAIN sa_database,
             Accept(i, spi, seq)
      PROVE  Inv'
  BY <1>1, <1>4, ParseFreshInv
<1> QED
  BY <1>2, <1>3, <1>4, ParseReadsSent
  DEF Next, ParseTooSmall, AddSAFull, ParseUnknownSpi, ParseStale, vars

LEMMA InvAlways == Spec => []Inv
<1> QED
  BY InvInit, InvStep, PTL DEF Spec

\* A duplicate registration is never consulted.
THEOREM ShadowedUnusedAlways == Spec => []ShadowedUnused
<1>1. Inv => ShadowedUnused
  BY DEF Inv
<1> QED
  BY <1>1, InvAlways, PTL

\* The number lookup_sa's slot holds is the highest that passed for its SPI,
\* and no number passed twice.
THEOREM HighWaterAlways == Spec => []HighWater
<1>1. Inv => HighWater
  BY DEF Inv
<1> QED
  BY <1>1, InvAlways, PTL

-----------------------------------------------------------------------------
(* What follows for the order of delivery, the warnings, and the filter.   *)

\* Packets of one SPI pass in ascending order of their numbers.
THEOREM OrderedDeliveryAlways == Spec => OrderedDelivery
<1>1. ASSUME Inv, [Next]_vars,
             NEW s \in Spi, NEW n \in SeqNo, passed'[s][n] > passed[s][n],
             NEW m \in SeqNo, passed[s][m] > 0
      PROVE  m < n
  <2>1. passed[s][n] \in Nat
    BY <1>1 DEF Inv, TypeOK
  <2>2. passed' # passed
    BY <1>1, <2>1
  <2>3. PICK spi \in Spi, seq \in SeqNo, i \in DOMAIN sa_database :
          Accept(i, spi, seq)
    BY <1>1, <2>2, ParseReadsSent
    DEF Next, ParseTooSmall, AddSA, AddSAFull, ParseUnknownSpi, ParseStale, vars
  <2>4. \A t \in Spi, k \in SeqNo :
          ~(t = spi /\ k = seq) => passed'[t][k] = passed[t][k]
    BY <1>1, <2>3 DEF Inv, TypeOK, Accept, ParseFresh, Passes
  <2>5. s = spi /\ n = seq
    BY <1>1, <2>1, <2>4
  <2> QED
    BY <1>1, <2>3, <2>5, FreshIsNew
<1>2. Inv /\ [Next]_vars =>
        [\A s \in Spi, n \in SeqNo :
           passed'[s][n] > passed[s][n] =>
             \A m \in SeqNo : passed[s][m] > 0 => m < n]_vars
  BY <1>1
<1> QED
  BY <1>2, InvAlways, PTL DEF Spec, OrderedDelivery

\* "Potential replay" and "too old" name a packet that has passed and is as
\* new or newer, on the right side of the edge of the window.
THEOREM RefusalExplainedAlways == Spec => []RefusalExplained
<1>1. Init => RefusalExplained
  BY DEF Init, RefusalExplained
<1>2. ASSUME Inv, RefusalExplained, [Next]_vars PROVE RefusalExplained'
  <2>1. CASE UNCHANGED vars
    BY <1>2, <2>1 DEF vars, RefusalExplained
  <2>2. CASE report'.outcome \notin {"replay", "too_old"}
    BY <2>2 DEF RefusalExplained
  <2>3. ASSUME NEW spi \in Spi, NEW seq \in SeqNo, NEW i \in DOMAIN sa_database,
               ParseStale(i, spi, seq), seq # 0
        PROVE  RefusalExplained'
    <3> DEFINE top == sa_database[i].seq_number
    <3>1. top \in SeqNo /\ seq <= top /\ LookupSA(i, spi) /\ sa_database[i].spi = spi
      BY <1>2, <2>3, SlotType, Numbers DEF Inv, ParseStale, Fresh, LookupSA
    <3>2. passed[spi][top] > 0
      BY <1>2, <2>3, <3>1, HighWaterParts, Numbers DEF Inv, NumberPassed
    <3>3. /\ passed' = passed
          /\ report' = [outcome |-> StaleOutcome(i, seq), spi |-> spi, seq |-> seq]
      BY <2>3 DEF ParseStale, Says
    <3> top \in Nat /\ seq \in Nat
      BY <3>1, Numbers
    <3>4. CASE top - seq < ReplayWindow
      <4>1. report'.outcome = "replay"
        BY <2>3, <3>3, <3>4 DEF StaleOutcome
      <4>2. top \in {n \in SeqNo : seq <= n /\ n < seq + ReplayWindow}
        BY <3>1, <3>4, EspAssumption, Numbers
      <4> QED
        BY <3>2, <3>3, <4>1, <4>2 DEF RefusalExplained
    <3>5. CASE ~(top - seq < ReplayWindow)
      <4>1. report'.outcome = "too_old"
        BY <2>3, <3>3, <3>5 DEF StaleOutcome
      <4>2. top \in {n \in SeqNo : n >= seq + ReplayWindow}
        BY <3>1, <3>5, EspAssumption, Numbers
      <4> QED
        BY <3>2, <3>3, <4>1, <4>2 DEF RefusalExplained
    <3> QED
      BY <3>4, <3>5
  <2>4. ASSUME NEW spi \in Spi, NEW i \in DOMAIN sa_database, ParseStale(i, spi, 0)
        PROVE  report'.outcome = "zero_seq"
    BY <2>4 DEF ParseStale, StaleOutcome, Says
  <2>5. ASSUME NEW spi \in Spi, NEW seq \in SeqNo,
               ParseUnknownSpi(spi, seq) \/ AddSA(spi) \/ AddSAFull(spi) \/ ParseTooSmall
        PROVE  report'.outcome \notin {"replay", "too_old"}
    BY <2>5 DEF ParseTooSmall, AddSA, AddSAFull, ParseUnknownSpi, Says
  <2>6. ASSUME NEW spi \in Spi, NEW seq \in SeqNo, NEW i \in DOMAIN sa_database,
               Accept(i, spi, seq)
        PROVE  report'.outcome \notin {"replay", "too_old"}
    BY <2>6 DEF Accept, ParseFresh, Passes, Says
  <2>7. CASE ParseTooSmall
    BY <2>2, <2>5, <2>7, NoPacketType
  <2>8. ASSUME NEW spi \in Spi, AddSA(spi) \/ AddSAFull(spi) PROVE RefusalExplained'
    BY <2>2, <2>5, <2>8, NoPacketType
  <2>9. ASSUME NEW spi \in Spi, NEW seq \in SeqNo, Parse(spi, seq) PROVE RefusalExplained'
    BY <2>2, <2>3, <2>4, <2>5, <2>6, <2>9, ParseReadsSent
  <2> QED
    BY <1>2, <2>1, <2>7, <2>8, <2>9 DEF Next
<1> QED
  BY <1>1, <1>2, InvAlways, PTL DEF Spec

\* The receiver implements the abstract anti-replay filter: it never lets a
\* packet of an SPI through a second time, whatever the network repeats,
\* delays or reorders.
THEOREM ReceiverIsFilter == Spec => ImplementsAntiReplay
<1>1. Init => Filter!Init
  BY DEF Init, Filter!Init
<1>2. ASSUME Inv, [Next]_vars PROVE [Filter!Next]_passed
  <2>1. ASSUME NEW spi \in Spi, NEW seq \in SeqNo, NEW i \in DOMAIN sa_database,
               Accept(i, spi, seq)
        PROVE  Filter!Deliver(spi, seq)
    <3>1. passed[spi][seq] = 0
      BY <1>2, <2>1, FreshIsNew
    <3> QED
      BY <2>1, <3>1 DEF Filter!Deliver, Accept, ParseFresh, Passes
  <2> QED
    BY <1>2, <2>1, ParseReadsSent
    DEF Next, ParseTooSmall, AddSA, AddSAFull, ParseUnknownSpi, ParseStale, vars,
        Filter!Next
<1> QED
  BY <1>1, <1>2, InvAlways, PTL DEF Spec, ImplementsAntiReplay, Filter!Spec
=============================================================================
