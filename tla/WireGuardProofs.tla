-------------------------- MODULE WireGuardProofs ---------------------------
(***************************************************************************)
(* Proofs about WireGuard for every number of peers, every size of a byte, *)
(* every set of indices and every bound.                                   *)
(*                                                                         *)
(* Inv is inductive.  That nonces do not repeat follows from the position  *)
(* of each packet determining its counter (IssuedInTurn), which needs the  *)
(* peer's counter to be the number of packets under its key modulo WORD    *)
(* (CounterInTurn), which in turn needs one peer for a key (OwnKey).  That *)
(* indices agree needs what is known of the live peers (IndexOfPeer) and   *)
(* that no message is older than its key (KeysCreated); that they go on    *)
(* agreeing when the peer is gone needs that all that is made under a key  *)
(* carries one index (OneIndex).                                           *)
(***************************************************************************)
EXTENDS WireGuard, TLAPS

\* A key belongs to one peer.
OwnKey ==
  \A p, q \in Peer : Exists(p) /\ Exists(q) /\ peer[p].key = peer[q].key => p = q

\* A peer's counter follows the packets made under its key.
CounterInTurn ==
  \A p \in Peer :
    Exists(p) => peer[p].tx_counter = Len(issued[peer[p].key]) % WORD

\* The position of a packet determines its counter.
IssuedInTurn ==
  \A k \in Key : \A i \in 1..Len(issued[k]) : issued[k][i] = hton((i - 1) % WORD)

\* Whatever was made was made under a key that had been drawn.
KeysCreated ==
  /\ \A m \in initiations \cup responses : m.by <= created
  /\ \A r \in responses : r.to <= created
  /\ packet.by <= created
  /\ \A k \in Key : k > created => issued[k] = <<>>

\* What was made under the key of a live peer carries its index.
IndexOfPeer ==
  \A p \in Peer : Exists(p) =>
    /\ \A m \in initiations \cup responses :
         m.by = peer[p].key => m.sender_index = hton(peer[p].session_index)
    /\ \A r \in responses :
         r.to = peer[p].key => r.receiver_index = hton(peer[p].session_index)
    /\ packet.by = peer[p].key =>
         packet.receiver_index = hton(peer[p].session_index)

\* A data packet carries the index of the key's initiations and responses, and
\* not that of the peers it was used with.
OneIndex ==
  /\ \A m \in initiations \cup responses :
       m.by = packet.by => packet.receiver_index = m.sender_index
  /\ \A r \in responses :
       r.to = packet.by => packet.receiver_index = r.receiver_index

Inv ==
  /\ TypeOK
  /\ OwnKey /\ KeysCreated
  /\ CounterInTurn /\ IssuedInTurn
  /\ IndexOfPeer /\ OneIndex

-----------------------------------------------------------------------------
(* Bytes and words, for every number of values of a byte.                  *)

\* Division with remainder, which is unique.
LEMMA DivMod ==
  ASSUME NEW x \in Nat, NEW w \in Nat \ {0}
  PROVE  /\ x \div w \in Nat
         /\ x % w \in 0..(w - 1)
         /\ x = w * (x \div w) + (x % w)
BY SMTT(30)

LEMMA DivModUnique ==
  ASSUME NEW q \in Nat, NEW r \in Nat, NEW w \in Nat \ {0}, r < w
  PROVE  (q * w + r) % w = r /\ (q * w + r) \div w = q
BY SMTT(30)

LEMMA TimesMonotonic ==
  ASSUME NEW a \in Nat, NEW b \in Nat, NEW c \in Nat, a <= b
  PROVE  a * c <= b * c
BY SMTT(30)

LEMMA ByteSize == BYTE \in Nat \ {0} /\ BYTE - 1 \in Nat /\ WORD \in Nat \ {0}
<1>1. BYTE \in Nat /\ BYTE >= 2
  BY ByteAssumption
<1>2. 2 * BYTE <= BYTE * BYTE
  BY <1>1, TimesMonotonic
<1> QED
  BY <1>1, <1>2 DEF WORD

\* A word that is converted and converted back is what it was, and a
\* converted word is a word.
LEMMA ConversionInvolution ==
  ASSUME NEW w \in Word
  PROVE  hton(w) \in Word /\ ntoh(hton(w)) = w
<1> DEFINE h == w \div BYTE
           l == w % BYTE
           m == BYTE - 1
<1>1. w \in Nat /\ w < BYTE * BYTE /\ m \in Nat /\ BYTE = m + 1
  BY ByteSize DEF Word, WORD
<1>2. h \in Nat /\ l \in 0..m /\ w = BYTE * h + l
  BY <1>1, ByteSize, DivMod
<1>3. hton(w) = l * BYTE + h /\ BYTE \in Nat \ {0}
  BY ByteSize DEF hton, Low, High
<1> HIDE DEF h, l, m
<1>4. h <= m
  <2>1. SUFFICES ASSUME BYTE <= h PROVE FALSE
    BY <1>1, <1>2
  <2>2. BYTE * BYTE <= h * BYTE
    BY <2>1, <1>2, <1>3, TimesMonotonic
  <2> QED
    BY <2>2, <1>1, <1>2, <1>3
<1>5. l * BYTE <= m * BYTE /\ m * BYTE + m = BYTE * BYTE - 1
  BY <1>1, <1>2, <1>3, TimesMonotonic
<1>6. hton(w) \in Word
  BY <1>1, <1>2, <1>3, <1>4, <1>5 DEF Word, WORD
<1>7. (l * BYTE + h) % BYTE = h /\ (l * BYTE + h) \div BYTE = l
  BY <1>1, <1>2, <1>3, <1>4, DivModUnique
<1>8. ntoh(hton(w)) = h * BYTE + l
  BY <1>3, <1>7 DEF ntoh, Low, High
<1> QED
  BY <1>2, <1>3, <1>6, <1>8

-----------------------------------------------------------------------------
(* Counting modulo WORD.                                                   *)

\* The successor of a remainder is the remainder of the successor.
LEMMA NextRemainder ==
  ASSUME NEW n \in Nat
  PROVE  NextCounter(n % WORD) = (n + 1) % WORD
<1> DEFINE q == n \div WORD
           r == n % WORD
<1>1. q \in Nat /\ r \in Nat /\ r < WORD /\ n = WORD * q + r
  BY DivMod, ByteSize
<1>2. CASE r + 1 < WORD
  <2>1. n + 1 = q * WORD + (r + 1) /\ r + 1 = 0 * WORD + (r + 1)
    BY <1>1, ByteSize
  <2>2. r + 1 \in Nat
    BY <1>1
  <2>3. (q * WORD + (r + 1)) % WORD = r + 1 /\ (0 * WORD + (r + 1)) % WORD = r + 1
    <3> HIDE DEF q, r
    <3> QED
      BY <1>1, <1>2, <2>2, DivModUnique, ByteSize
  <2> QED
    BY <2>1, <2>3 DEF NextCounter
<1>3. CASE r + 1 = WORD
  <2>1. n + 1 = (q + 1) * WORD + 0 /\ r + 1 = 1 * WORD + 0
    BY <1>1, <1>3, ByteSize
  <2>2. ((q + 1) * WORD + 0) % WORD = 0 /\ (1 * WORD + 0) % WORD = 0
    <3> HIDE DEF q, r
    <3>1. q + 1 \in Nat /\ 0 < WORD
      BY <1>1, ByteSize
    <3> QED
      BY <3>1, DivModUnique, ByteSize
  <2> QED
    BY <2>1, <2>2 DEF NextCounter
<1> QED
  BY <1>1, <1>2, <1>3, ByteSize

\* Numbers that are less than WORD apart have different remainders.
LEMMA NearbyDiffer ==
  ASSUME NEW a \in Nat, NEW b \in Nat, a < b, b - a < WORD
  PROVE  a % WORD # b % WORD
<1> DEFINE q == a \div WORD
           r == b \div WORD
<1>1. SUFFICES ASSUME a % WORD = b % WORD PROVE FALSE
  OBVIOUS
<1>2. q \in Nat /\ r \in Nat /\ a = WORD * q + (a % WORD) /\ b = WORD * r + (b % WORD)
  BY DivMod, ByteSize
<1>3. a % WORD \in Nat
  BY DivMod, ByteSize
<1>4. q * WORD < r * WORD
  BY <1>1, <1>2, <1>3, ByteSize
<1> HIDE DEF q, r
<1>5. q + 1 <= r
  <2>1. SUFFICES ASSUME r <= q PROVE FALSE
    BY <1>2
  <2>2. r * WORD <= q * WORD
    BY <2>1, <1>2, TimesMonotonic, ByteSize
  <2>3. q * WORD \in Nat /\ r * WORD \in Nat
    BY <1>2, ByteSize
  <2> QED
    BY <1>4, <2>2, <2>3
<1>6. (q + 1) * WORD <= r * WORD
  BY <1>2, <1>5, TimesMonotonic, ByteSize
<1>7. (q + 1) * WORD = q * WORD + WORD
  BY <1>2, ByteSize
<1> QED
  BY <1>1, <1>2, <1>3, <1>6, <1>7, ByteSize

\* Different words are converted to different words.
LEMMA ConversionInjective ==
  ASSUME NEW v \in Word, NEW w \in Word, v # w
  PROVE  hton(v) # hton(w)
BY ConversionInvolution

\* Remainders are words.
LEMMA RemainderIsWord ==
  ASSUME NEW n \in Nat
  PROVE  n % WORD \in Word
BY DivMod, ByteSize DEF Word

-----------------------------------------------------------------------------
(* The records.                                                            *)

LEMMA ZeroIsWord == 0 \in Word
BY ByteSize DEF Word

\* A peer that exists is a session, one that does not has key 0.
LEMMA PeerType ==
  ASSUME TypeOK, NEW p \in Peer
  PROVE  /\ Exists(p) => /\ peer[p] \in Session
                         /\ peer[p].key \in Key
                         /\ peer[p].session_index \in Word
                         /\ peer[p].tx_counter \in Word
                         /\ peer[p].key <= created
         /\ ~Exists(p) => peer[p].key = 0
BY DEF TypeOK, Exists, Session, NoPeer

\* A session is not NoPeer.
LEMMA SessionExists ==
  ASSUME NEW s \in Session
  PROVE  s # NoPeer
<1>1. s.key \in Nat /\ s.key >= 1
  BY WireGuardAssumption DEF Session, Key
<1> QED
  BY <1>1 DEF NoPeer

LEMMA InitInv == Init => Inv
<1>1. SUFFICES ASSUME Init PROVE Inv
  OBVIOUS
<1>2. TypeOK
  BY <1>1, WireGuardAssumption DEF Init, TypeOK, NoPeer, NoPacket, Key
<1>3. \A p \in Peer : ~Exists(p)
  BY <1>1 DEF Init, Exists
<1>4. KeysCreated
  BY <1>1 DEF Init, KeysCreated, NoPacket
<1>5. IssuedInTurn
  BY <1>1 DEF Init, IssuedInTurn
<1>6. OneIndex
  BY <1>1 DEF Init, OneIndex
<1>7. OwnKey /\ CounterInTurn /\ IndexOfPeer
  BY <1>3 DEF OwnKey, CounterInTurn, IndexOfPeer
<1> QED
  BY <1>2, <1>4, <1>5, <1>6, <1>7 DEF Inv

-----------------------------------------------------------------------------
(* The steps.                                                              *)

\* A created peer has a key of its own, under which nothing was made.
LEMMA CreatePreserves ==
  ASSUME Inv, NEW p \in Peer, NEW index \in Index, create_peer(p, index)
  PROVE  Inv'
<1> DEFINE s == [key |-> created + 1, session_index |-> index, tx_counter |-> 0]
<1>1. TypeOK /\ OwnKey /\ KeysCreated /\ CounterInTurn /\ IssuedInTurn
      /\ IndexOfPeer /\ OneIndex
  BY DEF Inv
<1>2. /\ created \in Nat /\ created' = created + 1 /\ created' \in 1..MaxCreated
      /\ created + 1 \in Key
  BY <1>1, WireGuardAssumption DEF create_peer, TypeOK, Key
<1>3. peer' = [peer EXCEPT ![p] = s] /\ peer \in [Peer -> Session \cup {NoPeer}]
  BY <1>1, <1>2 DEF create_peer, TypeOK
<1>4. UNCHANGED <<initiations, responses, packet, issued>>
  BY DEF create_peer
<1>5. s \in Session
  BY <1>2, ZeroIsWord, WireGuardAssumption DEF Session
<1>6. peer'[p] = s /\ \A q \in Peer : q # p => peer'[q] = peer[q]
  BY <1>3
<1>7. \A q \in Peer : peer[q].key \in Nat /\ peer[q].key <= created
  BY <1>1, <1>2, PeerType, WireGuardAssumption DEF TypeOK, Key
<1>8. s.key = created + 1 /\ s.session_index = index /\ s.tx_counter = 0
  OBVIOUS
<1> HIDE DEF s
<1>9. TypeOK'
  <2>1. peer' \in [Peer -> Session \cup {NoPeer}]
    BY <1>3, <1>5
  <2>2. \A q \in Peer : peer'[q].key <= created'
    BY <1>2, <1>6, <1>7, <1>8
  <2> QED
    BY <1>1, <1>2, <1>4, <2>1, <2>2 DEF TypeOK
<1>10. OwnKey'
  BY <1>1, <1>2, <1>6, <1>7, <1>8 DEF OwnKey, Exists
<1>11. /\ \A m \in initiations \cup responses : m.by \in Nat
       /\ \A r \in responses : r.to \in Nat
       /\ packet.by \in Nat
  BY <1>1, WireGuardAssumption DEF TypeOK, Key, Initiation, Response, DataPacket, NoPacket
<1>12. KeysCreated'
  <2>1. \A k \in Key : k > created' => k > created
    BY <1>2 DEF Key
  <2> QED
    BY <1>1, <1>2, <1>4, <1>11, <2>1 DEF KeysCreated
<1>13. CounterInTurn'
  <2>1. issued[created + 1] = <<>>
    BY <1>1, <1>2 DEF KeysCreated
  <2>2. 0 % WORD = 0
    BY DivModUnique, ByteSize
  <2>3. Len(<<>>) % WORD = 0
    BY <2>2
  <2> QED
    BY <1>1, <1>4, <1>6, <1>8, <2>1, <2>3 DEF CounterInTurn, Exists
<1>14. IssuedInTurn'
  BY <1>1, <1>4 DEF IssuedInTurn
<1>15. IndexOfPeer'
  <2>1. /\ \A m \in initiations \cup responses : m.by # created + 1
        /\ \A r \in responses : r.to # created + 1
        /\ packet.by # created + 1
    BY <1>1, <1>2, <1>11 DEF KeysCreated
  <2> QED
    BY <1>1, <1>4, <1>6, <1>8, <2>1 DEF IndexOfPeer, Exists
<1>16. OneIndex'
  BY <1>1, <1>4 DEF OneIndex
<1> QED
  BY <1>9, <1>10, <1>12, <1>13, <1>14, <1>15, <1>16 DEF Inv

\* What the peers, the packet and the counters are is not the handshake's.
LEMMA HandshakeLeaves ==
  ASSUME Inv, UNCHANGED <<created, peer, packet, issued>>
  PROVE  OwnKey' /\ CounterInTurn' /\ IssuedInTurn'
BY DEF Inv, OwnKey, CounterInTurn, IssuedInTurn, Exists

LEMMA InitiationPreserves ==
  ASSUME Inv, NEW p \in Peer, NEW q \in Peer, create_handshake_initiation(p, q)
  PROVE  Inv'
<1> DEFINE m == [by |-> peer[p].key, sender_index |-> hton(peer[p].session_index)]
<1>1. TypeOK /\ OwnKey /\ KeysCreated /\ IndexOfPeer /\ OneIndex
  BY DEF Inv
<1>2. /\ initiations' = initiations \cup {m}
      /\ UNCHANGED <<created, peer, responses, packet, issued>>
      /\ Exists(p)
  BY DEF create_handshake_initiation, HandshakeKeeps
<1>3. /\ peer[p].key \in Key /\ peer[p].key <= created
      /\ peer[p].session_index \in Word
  BY <1>1, <1>2, PeerType
<1>4. m \in Initiation
  BY <1>3, ConversionInvolution DEF Initiation
<1>5. m.by = peer[p].key /\ m.sender_index = hton(peer[p].session_index)
  OBVIOUS
<1> HIDE DEF m
<1>6. TypeOK'
  BY <1>1, <1>2, <1>4 DEF TypeOK
<1>7. OwnKey' /\ CounterInTurn' /\ IssuedInTurn'
  BY <1>2, HandshakeLeaves
<1>8. KeysCreated'
  BY <1>1, <1>2, <1>3, <1>5 DEF KeysCreated
<1>9. IndexOfPeer'
  BY <1>1, <1>2, <1>5 DEF IndexOfPeer, OwnKey, Exists
<1>10. OneIndex'
  BY <1>1, <1>2, <1>5 DEF OneIndex, IndexOfPeer
<1> QED
  BY <1>6, <1>7, <1>8, <1>9, <1>10 DEF Inv

LEMMA ResponsePreserves ==
  ASSUME Inv, NEW p \in Peer, NEW init_msg \in initiations,
         create_handshake_response(p, init_msg)
  PROVE  Inv'
<1> DEFINE m == [by |-> peer[p].key, to |-> init_msg.by,
                 sender_index |-> hton(peer[p].session_index),
                 receiver_index |-> init_msg.sender_index]
<1>1. TypeOK /\ OwnKey /\ KeysCreated /\ IndexOfPeer /\ OneIndex
  BY DEF Inv
<1>2. /\ responses' = responses \cup {m}
      /\ UNCHANGED <<created, peer, initiations, packet, issued>>
      /\ Exists(p)
  BY DEF create_handshake_response, HandshakeKeeps, Copied
<1>3. /\ peer[p].key \in Key /\ peer[p].key <= created
      /\ peer[p].session_index \in Word
  BY <1>1, <1>2, PeerType
<1>4. /\ init_msg.by \in Key /\ init_msg.sender_index \in Word
      /\ init_msg.by <= created
  BY <1>1 DEF TypeOK, Initiation, KeysCreated
<1>5. m \in Response
  BY <1>3, <1>4, ConversionInvolution DEF Response
<1>6. /\ m.by = peer[p].key /\ m.sender_index = hton(peer[p].session_index)
      /\ m.to = init_msg.by /\ m.receiver_index = init_msg.sender_index
  OBVIOUS
<1> HIDE DEF m
<1>7. TypeOK'
  BY <1>1, <1>2, <1>5 DEF TypeOK
<1>8. OwnKey' /\ CounterInTurn' /\ IssuedInTurn'
  BY <1>2, HandshakeLeaves
<1>9. KeysCreated'
  BY <1>1, <1>2, <1>3, <1>4, <1>6 DEF KeysCreated
<1>10. IndexOfPeer'
  <2>1. \A q \in Peer : Exists(q) /\ m.to = peer[q].key =>
          m.receiver_index = hton(peer[q].session_index)
    BY <1>1, <1>6 DEF IndexOfPeer
  <2>2. \A q \in Peer : Exists(q) /\ m.by = peer[q].key =>
          m.sender_index = hton(peer[q].session_index)
    BY <1>1, <1>2, <1>6 DEF OwnKey
  <2> QED
    BY <1>1, <1>2, <2>1, <2>2 DEF IndexOfPeer, Exists
<1>11. OneIndex'
  BY <1>1, <1>2, <1>6 DEF OneIndex, IndexOfPeer
<1> QED
  BY <1>7, <1>8, <1>9, <1>10, <1>11 DEF Inv

\* The new packet is the next in the turn of its key.
LEMMA DataPreserves ==
  ASSUME Inv, NEW p \in Peer, create_data_packet(p)
  PROVE  Inv'
<1> DEFINE k == peer[p].key
           n == peer[p].tx_counter
           i == peer[p].session_index
           s == [peer[p] EXCEPT !.tx_counter = NextCounter(n)]
<1>1. TypeOK /\ OwnKey /\ KeysCreated /\ CounterInTurn /\ IssuedInTurn
      /\ IndexOfPeer /\ OneIndex
  BY DEF Inv
<1>2. /\ Exists(p)
      /\ packet' = [by |-> k, receiver_index |-> hton(i), counter |-> hton(n)]
      /\ issued' = [issued EXCEPT ![k] = Append(@, packet'.counter)]
      /\ peer' = [peer EXCEPT ![p].tx_counter = NextCounter(@)]
      /\ UNCHANGED <<created, initiations, responses>>
  BY DEF create_data_packet, DataIndex
<1>3. peer[p] \in Session /\ k \in Key /\ k <= created /\ i \in Word /\ n \in Word
  BY <1>1, <1>2, PeerType
<1>4. /\ issued \in [Key -> Seq(Word)] /\ Len(issued[k]) \in Nat
      /\ peer \in [Peer -> Session \cup {NoPeer}]
  BY <1>1, <1>3 DEF TypeOK
<1>5. n = Len(issued[k]) % WORD
  BY <1>1, <1>2 DEF CounterInTurn
<1>6. NextCounter(n) = (Len(issued[k]) + 1) % WORD /\ NextCounter(n) \in Word
  BY <1>4, <1>5, NextRemainder, RemainderIsWord
<1>7. /\ s \in Session /\ s.key = k /\ s.session_index = i
      /\ s.tx_counter = NextCounter(n)
  BY <1>3, <1>6 DEF Session
<1>8. peer' = [peer EXCEPT ![p] = s]
  BY <1>2, <1>4
<1>9. peer'[p] = s /\ \A q \in Peer : q # p => peer'[q] = peer[q]
  BY <1>4, <1>8
<1>10. hton(n) \in Word /\ hton(i) \in Word
  BY <1>3, ConversionInvolution
<1>11. /\ packet' \in DataPacket /\ packet'.by = k /\ packet'.counter = hton(n)
       /\ packet'.receiver_index = hton(i)
  BY <1>2, <1>3, <1>10 DEF DataPacket
<1>12. /\ issued'[k] = Append(issued[k], hton(n))
       /\ \A j \in Key : j # k => issued'[j] = issued[j]
  BY <1>2, <1>3, <1>4, <1>11
<1>13. /\ issued' \in [Key -> Seq(Word)]
       /\ Len(issued'[k]) = Len(issued[k]) + 1
       /\ issued'[k][Len(issued[k]) + 1] = hton(n)
       /\ \A j \in 1..Len(issued[k]) : issued'[k][j] = issued[k][j]
  <2>1. issued[k] \in Seq(Word)
    BY <1>3, <1>4
  <2>2. Append(issued[k], hton(n)) \in Seq(Word)
    BY <2>1, <1>10
  <2>3. issued' = [issued EXCEPT ![k] = Append(issued[k], hton(n))]
    BY <1>2, <1>3, <1>4, <1>11
  <2>4. issued' \in [Key -> Seq(Word)]
    BY <1>4, <2>2, <2>3
  <2> QED
    BY <1>12, <2>1, <2>4
<1>14. Exists(p)' /\ \A q \in Peer : Exists(q)' <=> Exists(q)
  BY <1>2, <1>7, <1>9, SessionExists DEF Exists
<1>15. \A q \in Peer : Exists(q) => /\ peer'[q].key = peer[q].key
                                   /\ peer'[q].session_index = peer[q].session_index
  BY <1>7, <1>9
<1> HIDE DEF k, n, i, s
<1>16. TypeOK'
  <2>1. peer' \in [Peer -> Session \cup {NoPeer}]
    BY <1>4, <1>7, <1>8
  <2>2. \A q \in Peer : peer'[q].key <= created'
    BY <1>1, <1>2, <1>3, <1>7, <1>9 DEF TypeOK
  <2> QED
    BY <1>1, <1>2, <1>11, <1>13, <2>1, <2>2 DEF TypeOK
<1>17. OwnKey'
  BY <1>1, <1>14, <1>15 DEF OwnKey
<1>18. KeysCreated'
  BY <1>1, <1>2, <1>3, <1>11, <1>12, WireGuardAssumption DEF KeysCreated, Key, TypeOK
<1>19. CounterInTurn'
  <2>1. SUFFICES ASSUME NEW q \in Peer, Exists(q)
                 PROVE  peer'[q].tx_counter = Len(issued'[peer'[q].key]) % WORD
    BY <1>14 DEF CounterInTurn
  <2>2. CASE q = p
    BY <2>2, <1>6, <1>7, <1>9, <1>13
  <2>3. CASE q # p
    <3>1. peer[q].key # k /\ peer[q].key \in Key
      BY <1>1, <1>2, <2>1, <2>3, PeerType DEF OwnKey, k
    <3> QED
      BY <1>1, <1>9, <1>12, <2>1, <2>3, <3>1 DEF CounterInTurn
  <2> QED
    BY <2>2, <2>3
<1>20. IssuedInTurn'
  <2>1. SUFFICES ASSUME NEW j \in Key, NEW l \in 1..Len(issued'[j])
                 PROVE  issued'[j][l] = hton((l - 1) % WORD)
    BY DEF IssuedInTurn
  <2>2. CASE j = k /\ l = Len(issued[k]) + 1
    <3>1. l - 1 = Len(issued[k])
      BY <2>2, <1>4
    <3> QED
      BY <2>2, <3>1, <1>5, <1>13
  <2>3. CASE j = k /\ l # Len(issued[k]) + 1
    <3>1. l \in 1..Len(issued[k])
      BY <2>1, <2>3, <1>4, <1>13
    <3> QED
      BY <1>1, <1>3, <1>13, <2>3, <3>1 DEF IssuedInTurn
  <2>4. CASE j # k
    BY <1>1, <1>12, <2>1, <2>4 DEF IssuedInTurn
  <2> QED
    BY <2>2, <2>3, <2>4
<1>21. IndexOfPeer'
  <2>1. SUFFICES ASSUME NEW q \in Peer, Exists(q)
                 PROVE  /\ \A m \in initiations \cup responses :
                             m.by = peer[q].key =>
                               m.sender_index = hton(peer[q].session_index)
                        /\ \A r \in responses :
                             r.to = peer[q].key =>
                               r.receiver_index = hton(peer[q].session_index)
                        /\ k = peer[q].key => hton(i) = hton(peer[q].session_index)
    BY <1>2, <1>11, <1>14, <1>15 DEF IndexOfPeer
  <2>2. k = peer[q].key => q = p
    BY <1>1, <1>2, <2>1 DEF OwnKey, k
  <2> QED
    BY <1>1, <2>1, <2>2 DEF IndexOfPeer, i
<1>22. OneIndex'
  <2>1. /\ \A m \in initiations \cup responses :
             m.by = k => m.sender_index = hton(i)
        /\ \A r \in responses :
             r.to = k => r.receiver_index = hton(i)
    BY <1>1, <1>2 DEF IndexOfPeer, k, i
  <2> QED
    BY <1>2, <1>11, <2>1 DEF OneIndex
<1> QED
  BY <1>16, <1>17, <1>18, <1>19, <1>20, <1>21, <1>22 DEF Inv

LEMMA StutterPreserves == Inv /\ UNCHANGED vars => Inv'
BY DEF Inv, vars, TypeOK, OwnKey, KeysCreated, CounterInTurn, IssuedInTurn,
       IndexOfPeer, OneIndex, Exists

LEMMA StepInv == Inv /\ [Next]_vars => Inv'
<1>1. SUFFICES ASSUME Inv, [Next]_vars PROVE Inv'
  OBVIOUS
<1>2. CASE UNCHANGED vars
  BY <1>1, <1>2, StutterPreserves
<1>3. CASE Next
  <2>1. PICK p \in Peer :
          \/ \E index \in Index : create_peer(p, index)
          \/ \E responder \in Peer : create_handshake_initiation(p, responder)
          \/ \E init_msg \in initiations : create_handshake_response(p, init_msg)
          \/ create_data_packet(p)
    BY <1>3 DEF Next
  <2> QED
    BY <1>1, <2>1, CreatePreserves, InitiationPreserves, ResponsePreserves,
       DataPreserves
<1> QED
  BY <1>1, <1>2, <1>3

LEMMA InvHolds == Spec => []Inv
BY InitInv, StepInv, PTL DEF Spec

-----------------------------------------------------------------------------
(* What follows.                                                           *)

LEMMA TurnsDiffer == Inv => NonceOnce
<1>1. SUFFICES ASSUME Inv, NEW k \in Key,
                      NEW i \in 1..Len(issued[k]), NEW j \in 1..Len(issued[k]),
                      i < j, j - i < WORD
               PROVE  issued[k][i] # issued[k][j]
  <2>1. Inv => \A k \in Key : DOMAIN issued[k] = 1..Len(issued[k])
    BY DEF Inv, TypeOK
  <2> QED
    BY <2>1 DEF NonceOnce
<1>2. Len(issued[k]) \in Nat
  BY <1>1 DEF Inv, TypeOK
<1>3. i - 1 \in Nat /\ j - 1 \in Nat /\ i - 1 < j - 1 /\ (j - 1) - (i - 1) < WORD
  BY <1>1, <1>2, ByteSize
<1>4. (i - 1) % WORD # (j - 1) % WORD
  BY <1>3, NearbyDiffer
<1>5. hton((i - 1) % WORD) # hton((j - 1) % WORD)
  BY <1>3, <1>4, ConversionInjective, RemainderIsWord
<1> QED
  BY <1>1, <1>5 DEF Inv, IssuedInTurn

LEMMA IndexFound == Inv => ResponseFindsInitiator
<1>1. SUFFICES ASSUME Inv, NEW r \in responses, NEW p \in Peer, peer[p].key = r.to
               PROVE  ntoh(r.receiver_index) = peer[p].session_index
  BY DEF ResponseFindsInitiator
<1>2. TypeOK /\ IndexOfPeer
  BY <1>1 DEF Inv
<1>3. r.to \in Nat /\ r.to >= 1
  BY <1>2, WireGuardAssumption DEF TypeOK, Response, Key
<1>4. Exists(p) /\ peer[p].session_index \in Word
  BY <1>1, <1>2, <1>3, PeerType
<1>5. r.receiver_index = hton(peer[p].session_index)
  BY <1>1, <1>2, <1>4 DEF IndexOfPeer
<1> QED
  BY <1>4, <1>5, ConversionInvolution

\* The fields of the structures stay within their widths.
THEOREM TypeCorrect == Spec => []TypeOK
<1>1. Inv => TypeOK
  BY DEF Inv
<1> QED
  BY <1>1, InvHolds, PTL

\* No nonce is used twice within a full turn of the counter (line 220),
\* whatever handshakes and creations come in between.
THEOREM NoncesDoNotRepeat == Spec => []NonceOnce
BY TurnsDiffer, InvHolds, PTL

\* A response is read by the initiator as naming its session (line 174).
THEOREM ResponsesAreFound == Spec => []ResponseFindsInitiator
BY IndexFound, InvHolds, PTL

\* What exactly is wrong with data packets: one that an initiator or a
\* responder makes carries its own index of the session (line 219), so that it
\* names the other side if and only if rand() has drawn the same index for both.
THEOREM SentToOneselfAlways == Spec => []SentToOneself
<1>1. Inv => SentToOneself
  BY DEF Inv, OneIndex, SentToOneself
<1> QED
  BY <1>1, InvHolds, PTL
=============================================================================
