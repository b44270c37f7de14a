----------------------------- MODULE WireGuard ------------------------------
(***************************************************************************)
(* coding-problems/11_wireguard_concepts.c: peers, the two messages of the *)
(* handshake and data packets.                                             *)
(*                                                                         *)
(* main calls each function once or twice; here they are called in any     *)
(* order: a peer may be created again, both peers may initiate, and a      *)
(* response may be made from any initiation of the run, again or late.     *)
(* Cryptography is random bytes in the code and is left out: a key is      *)
(* named by the call of create_peer that drew it.                          *)
(***************************************************************************)
EXTENDS ByteOrder, Sequences

CONSTANTS
  Peer,
  Index,         \* the values of rand() that are used as session_index
  MaxCreated,    \* bound: calls of create_peer
  MaxPackets     \* bound: data packets of one key

ASSUME WireGuardAssumption ==
  /\ Index \subseteq Word
  /\ {MaxCreated, MaxPackets} \subseteq Nat

VARIABLES
  created,      \* calls of create_peer
  peer,         \* the peers, NoPeer before create_peer
  initiations,  \* the initiations made so far
  responses,    \* the responses made so far
  packet,       \* the last data packet, or NoPacket
  issued        \* history: the counters of the packets under each key

vars == <<created, peer, initiations, responses, packet, issued>>

Key == 1..MaxCreated

Session == [key : Key, session_index : Word, tx_counter : Word]
NoPeer == [key |-> 0]
NoPacket == [by |-> 0]

\* `by' and `to' are not fields of a message: they name the keys of the
\* peer that makes it and of the one that it answers.
Initiation == [by : Key, sender_index : Word]
Response == [by : Key, to : Key, sender_index : Word, receiver_index : Word]
DataPacket == [by : Key, receiver_index : Word, counter : Word]

\* A peer that no call has filled is never used.
Exists(p) == peer[p] # NoPeer

Init ==
  /\ created = 0
  /\ peer = [p \in Peer |-> NoPeer]
  /\ initiations = {}
  /\ responses = {}
  /\ packet = NoPacket
  /\ issued = [k \in Key |-> <<>>]

\* A new key, a new index, and the counter starts again.
create_peer(p, index) ==
  /\ created < MaxCreated
  /\ created' = created + 1
  /\ peer' = [peer EXCEPT ![p] =
       [key |-> created', session_index |-> index, tx_counter |-> 0]]
  /\ UNCHANGED <<initiations, responses, packet, issued>>

-----------------------------------------------------------------------------
(* The handshake.                                                          *)

\* Mutant: the session starts anew, but its key does not.
HandshakeResets(p) == peer' = [peer EXCEPT ![p].tx_counter = 0]

\* The handshake derives no keys and leaves the peers as they are.
HandshakeKeeps(p) == UNCHANGED peer

\* The responder's part is its name, which is printed.
create_handshake_initiation(initiator, responder) ==
  /\ Exists(initiator) /\ Exists(responder)
  /\ initiations' = initiations \cup
       {[by |-> peer[initiator].key,
         sender_index |-> hton(peer[initiator].session_index)]}
  /\ HandshakeKeeps(initiator)
  /\ UNCHANGED <<created, responses, packet, issued>>

\* Mutant: the index is converted although it is in network order already.
ConvertedAgain(index) == hton(index)

\* receiver_index is the initiation's sender_index, bytes as they are.
Copied(index) == index

create_handshake_response(responder, init_msg) ==
  /\ Exists(responder)
  /\ responses' = responses \cup
       {[by |-> peer[responder].key, to |-> init_msg.by,
         sender_index |-> hton(peer[responder].session_index),
         receiver_index |-> Copied(init_msg.sender_index)]}
  /\ HandshakeKeeps(responder)
  /\ UNCHANGED <<created, initiations, packet, issued>>

-----------------------------------------------------------------------------
(* Data packets.                                                           *)

\* The sender's own index, where a receiver would look for its own.
DataIndex(sender) == hton(peer[sender].session_index)

\* Mutant: the counter is wider than the field.
NextWide(n) == n + 1

\* tx_counter++, in 64 bits
NextCounter(n) == (n + 1) % WORD

create_data_packet(sender) ==
  /\ Exists(sender)
  /\ LET k == peer[sender].key
     IN  /\ Len(issued[k]) < MaxPackets
         /\ packet' = [by |-> k, receiver_index |-> DataIndex(sender),
                       counter |-> hton(peer[sender].tx_counter)]
         /\ issued' = [issued EXCEPT ![k] = Append(@, packet'.counter)]
         /\ peer' = [peer EXCEPT ![sender].tx_counter = NextCounter(@)]
  /\ UNCHANGED <<created, initiations, responses>>

Next ==
  \E p \in Peer :
    \/ \E index \in Index : create_peer(p, index)
    \/ \E responder \in Peer : create_handshake_initiation(p, responder)
    \/ \E init_msg \in initiations : create_handshake_response(p, init_msg)
    \/ create_data_packet(p)

Spec == Init /\ [][Next]_vars

-----------------------------------------------------------------------------
(* Properties.                                                             *)

\* What the functions leave in the structures of lines 43 to 83: the fields
\* stay within their widths, and a live peer's key is that of a call made.
TypeOK ==
  /\ created \in 0..MaxCreated
  /\ peer \in [Peer -> Session \cup {NoPeer}]
  /\ \A p \in Peer : peer[p].key <= created
  /\ initiations \subseteq Initiation
  /\ responses \subseteq Response
  /\ packet \in DataPacket \cup {NoPacket}
  /\ issued \in [Key -> Seq(Word)]

\* The counter is the nonce of a packet (line 71): of any WORD packets in a
\* row under one key no two carry the same, whatever handshakes are made,
\* and again, in between and whichever peer is created anew.
NonceOnce ==
  \A k \in Key : \A i, j \in DOMAIN issued[k] :
    i < j /\ j - i < WORD => issued[k][i] # issued[k][j]

\* A response names the session of the peer that made the initiation, as
\* that peer will read it (lines 128, 174 and 190), also when the initiation
\* is answered twice, by another peer or after other peers were created.
ResponseFindsInitiator ==
  \A r \in responses : \A p \in Peer :
    peer[p].key = r.to => ntoh(r.receiver_index) = peer[p].session_index

\* "Receiver's session index" (line 70).  Line 219 puts the sender's own index
\* there and says that it "would be peer's index": after any handshakes, the
\* data packet of an initiator or a responder names the session at the other
\* side if and only if both have drawn the same index.
SentToOneself ==
  \A r \in responses :
    /\ r.to = packet.by =>
         (packet.receiver_index = r.sender_index <=> r.receiver_index = r.sender_index)
    /\ r.by = packet.by =>
         (packet.receiver_index = r.receiver_index <=> r.receiver_index = r.sender_index)
=============================================================================
