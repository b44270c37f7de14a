--------------------------- MODULE TcpEchoProofs ----------------------------
(***************************************************************************)
(* Proofs about TcpEcho for any clients, any sizes of the buffers and of   *)
(* the backlog, and streams of any length.                                 *)
(*                                                                         *)
(* Inv is inductive.  EchoInOrder is its heart: each step moves a piece of *)
(* the stream from one place to the next, which the lemmas about sequences *)
(* say changes nothing of their concatenation, or drops a piece from its   *)
(* middle, which leaves it in order.  It needs that a client that connects *)
(* has no history (Untouched), and that whoever is accepted is not the     *)
(* last client's heir: the buffer is empty then (Control).  At the end     *)
(* nothing is left of the peer's stream but what it has yet to read        *)
(* (NothingLeft).  Which bytes a short send can lose follows from their    *)
(* place in the stream: behind a full send buffer (Losses).                *)
(***************************************************************************)
EXTENDS TcpEcho, SequenceTheorems, NaturalsInduction, WellFoundedInduction, TLAPS

Position == 1..MaxBytes

\* Pieces of a stream.
Bytes == Seq(Position)

\* There is one stream of each kind for each client.
Streams ==
  /\ toServer \in [Client -> Bytes]
  /\ toClient \in [Client -> Bytes]
  /\ echoed \in [Client -> Bytes]
  /\ lost \in [Client -> SUBSET Position]

\* Concatenation under a name of its own, to reason with a few laws of it.
Cat(s, t) == s \o t

\* Whole(c) in terms of Cat.
Pieces(c) == Cat(Cat(Cat(echoed[c], toClient[c]), Held(c)), toServer[c])

\* Every byte of s precedes every byte of t.
Before(s, t) == \A a \in Range(s), b \in Range(t) : a < b

\* What EchoInOrder says of c.
InOrder(c) ==
  /\ Ordered(Pieces(c))
  /\ Range(Pieces(c)) = (1..written[c]) \ lost[c]

\* The server runs until it ends, and has a peer from accept on.
Control ==
  /\ outcome = "running" <=> pc # "ended"
  /\ pc \in {"recv", "send", "sending", "cleanup"} => peer \in Client
  /\ peer \in Client => conn[peer] # "idle"
  /\ \A i \in 1..Len(backlog) : conn[backlog[i]] # "idle"

\* Before a client connects, nothing was exchanged with it.
Untouched ==
  \A c \in Client :
    conn[c] = "idle" =>
      /\ written[c] = 0 /\ toServer[c] = <<>> /\ toClient[c] = <<>>
      /\ echoed[c] = <<>> /\ lost[c] = {}

\* Once the loop has been left, what the peer sent has all been received.
NothingLeft ==
  pc = "cleanup" \/ outcome = "done" =>
    /\ peer \in Client
    /\ conn[peer] # "up"
    /\ conn[peer] = "shut" => toServer[peer] = <<>>

\* Only what was written is lost, and what a send waits to copy lies behind a
\* full send buffer.
Losses ==
  /\ \A c \in Client : lost[c] \subseteq 1..written[c]
  /\ pc = "sending" => \A b \in Range(buffer) : b > SndBuf

Inv ==
  /\ TypeOK /\ Streams /\ Control /\ Untouched /\ NothingLeft
  /\ Losses /\ LossNeedsFullBuffer /\ EchoInOrder

-----------------------------------------------------------------------------
(* Moving pieces of a stream.                                              *)

LEMMA ConcatType == \A s, t \in Bytes : Cat(s, t) \in Bytes
BY ConcatProperties DEF Bytes, Cat

LEMMA Associative == \A s, t, u \in Bytes : Cat(Cat(s, t), u) = Cat(s, Cat(t, u))
BY ConcatAssociative DEF Bytes, Cat

LEMMA NoBytes == <<>> \in Bytes /\ \A s \in Bytes : Cat(s, <<>>) = s /\ Cat(<<>>, s) = s
BY ConcatEmptySeq DEF Bytes, Cat

LEMMA LastByte ==
  ASSUME NEW s \in Bytes, NEW b \in Position
  PROVE  /\ <<b>> \in Bytes /\ Append(s, b) \in Bytes
         /\ Append(s, b) = Cat(s, <<b>>) /\ Len(Append(s, b)) = Len(s) + 1
<1>1. s \in Seq(Position)
  BY DEF Bytes
<1>2. <<b>> \in Bytes /\ Append(s, b) \in Bytes /\ Len(Append(s, b)) = Len(s) + 1
  BY <1>1 DEF Bytes
<1>3. Append(s, b) = Cat(s, <<b>>)
  BY <1>1, AppendIsConcat, Zenon DEF Cat
<1> QED
  BY <1>2, <1>3

LEMMA Sizes ==
  /\ MAX_PENDING \in Nat /\ MAX_PENDING > 0 /\ RECV_MAX \in Nat /\ RECV_MAX > 0
  /\ RcvBuf \in Nat /\ RcvBuf > 0 /\ SndBuf \in Nat /\ SndBuf > 0
  /\ MaxBytes \in Nat
BY TcpAssumption

LEMMA Length == \A s \in Bytes : Len(s) \in Nat /\ (s = <<>> <=> Len(s) = 0)
BY EmptySeq DEF Bytes

\* A sequence is its first n elements and the others.
LEMMA Split ==
  ASSUME NEW s \in Bytes, NEW n \in Nat, n <= Len(s)
  PROVE  /\ SubSeq(s, 1, n) \in Bytes /\ SubSeq(s, n + 1, Len(s)) \in Bytes
         /\ Len(SubSeq(s, 1, n)) = n /\ Len(SubSeq(s, n + 1, Len(s))) = Len(s) - n
         /\ Cat(SubSeq(s, 1, n), SubSeq(s, n + 1, Len(s))) = s
<1>1. Len(s) \in Nat /\ s \in Seq(Position)
  BY Length DEF Bytes
<1>2. SubSeq(s, 1, n) \in Bytes /\ SubSeq(s, n + 1, Len(s)) \in Bytes
  BY <1>1 DEF Bytes
<1>3. Len(SubSeq(s, 1, n)) = n /\ Len(SubSeq(s, n + 1, Len(s))) = Len(s) - n
  BY <1>1
<1>4. SubSeq(s, 1, n) \o SubSeq(s, n + 1, Len(s)) = SubSeq(s, 1, Len(s))
  <2>1. 1 \in 1..(Len(s) + 1) /\ n \in (1 - 1)..Len(s) /\ Len(s) \in n..Len(s)
    BY <1>1
  <2> QED
    BY <1>1, <2>1, ConcatAdjacentSubSeq, Zenon
<1>5. SubSeq(s, 1, Len(s)) = s
  BY <1>1, SubSeqFull
<1> QED
  BY <1>2, <1>3, <1>4, <1>5 DEF Cat

\* recv moves the beginning of what arrived behind what was there.
LEMMA Received ==
  ASSUME NEW p \in Bytes, NEW s \in Bytes, NEW x \in Bytes, NEW y \in Bytes, Cat(x, y) = s
  PROVE  Cat(Cat(p, x), y) = Cat(Cat(p, <<>>), s)
BY Associative, NoBytes

\* send moves the beginning of the buffer behind what waits to be read.
LEMMA Copied ==
  ASSUME NEW e \in Bytes, NEW t \in Bytes, NEW x \in Bytes, NEW y \in Bytes
  PROVE  Cat(Cat(e, Cat(t, x)), y) = Cat(Cat(e, t), Cat(x, y))
BY Associative, ConcatType

\* A client that writes makes the stream longer by one.
LEMMA Extended ==
  ASSUME NEW p \in Bytes, NEW s \in Bytes, NEW b \in Position
  PROVE  Cat(p, Append(s, b)) = Append(Cat(p, s), b)
<1>1. Append(s, b) = Cat(s, <<b>>) /\ <<b>> \in Bytes
  BY LastByte
<1>2. Cat(p, s) \in Bytes
  BY ConcatType
<1>3. Append(Cat(p, s), b) = Cat(Cat(p, s), <<b>>)
  BY <1>2, LastByte
<1>4. Cat(Cat(p, s), <<b>>) = Cat(p, Cat(s, <<b>>))
  BY <1>1, Associative
<1> QED
  BY <1>1, <1>3, <1>4, Zenon

\* A client that reads takes the first of what waits.
LEMMA Taken ==
  ASSUME NEW e \in Bytes, NEW t \in Bytes, t # <<>>
  PROVE  /\ Append(e, Head(t)) \in Bytes /\ Tail(t) \in Bytes
         /\ Len(Tail(t)) = Len(t) - 1
         /\ Cat(Append(e, Head(t)), Tail(t)) = Cat(e, t)
<1>1. Head(t) \in Position /\ Tail(t) \in Bytes /\ Len(Tail(t)) = Len(t) - 1
  BY HeadTailProperties DEF Bytes
<1>2. t = Cat(<<Head(t)>>, Tail(t))
  <2>1. Len(t) \in Nat /\ Len(t) >= 1 /\ t \in Seq(Position)
    BY Length DEF Bytes
  <2>2. SubSeq(t, 1, Len(t)) = <<t[1]>> \o SubSeq(t, 1 + 1, Len(t))
    <3>1. 1 \in 1..Len(t) /\ Len(t) \in 1..Len(t)
      BY <2>1
    <3> QED
      BY <2>1, <3>1, SubSeqRecursiveFirst, Zenon
  <2>3. SubSeq(t, 1, Len(t)) = t /\ Tail(t) = SubSeq(t, 1 + 1, Len(t)) /\ Head(t) = t[1]
    BY <2>1, SubSeqFull, TailIsSubSeq
  <2> QED
    BY <2>2, <2>3 DEF Cat
<1>3. /\ Append(e, Head(t)) = Cat(e, <<Head(t)>>) /\ <<Head(t)>> \in Bytes
      /\ Append(e, Head(t)) \in Bytes
  BY <1>1, LastByte
<1>4. Cat(Cat(e, <<Head(t)>>), Tail(t)) = Cat(e, Cat(<<Head(t)>>, Tail(t)))
  BY <1>1, <1>3, Associative
<1> QED
  BY <1>1, <1>2, <1>3, <1>4, Zenon

LEMMA ConcatElements ==
  ASSUME NEW s \in Bytes, NEW t \in Bytes
  PROVE  /\ Cat(s, t) \in Bytes /\ Len(Cat(s, t)) = Len(s) + Len(t)
         /\ Len(s) \in Nat /\ Len(t) \in Nat
         /\ \A i \in 1..Len(s) : Cat(s, t)[i] = s[i]
         /\ \A i \in 1..Len(t) : Cat(s, t)[Len(s) + i] = t[i]
BY ConcatProperties, ConcatType DEF Cat, Bytes

LEMMA Elements ==
  ASSUME NEW s \in Bytes
  PROVE  /\ Len(s) \in Nat /\ DOMAIN s = 1..Len(s)
         /\ \A i \in 1..Len(s) : s[i] \in Position
         /\ Range(s) = {s[i] : i \in 1..Len(s)} /\ Range(s) \subseteq Position
<1>1. Len(s) \in Nat /\ DOMAIN s = 1..Len(s) /\ \A i \in 1..Len(s) : s[i] \in Position
  BY DEF Bytes
<1> QED
  BY <1>1 DEF Range

LEMMA RangeConcat ==
  ASSUME NEW s \in Bytes, NEW t \in Bytes
  PROVE  Range(Cat(s, t)) = Range(s) \cup Range(t)
<1> DEFINE u == Cat(s, t)
<1>1. /\ u \in Bytes /\ Len(u) = Len(s) + Len(t) /\ Len(s) \in Nat /\ Len(t) \in Nat
      /\ \A i \in 1..Len(s) : u[i] = s[i]
      /\ \A i \in 1..Len(t) : u[Len(s) + i] = t[i]
  BY ConcatElements
<1>2. /\ Range(u) = {u[i] : i \in 1..Len(u)}
      /\ Range(s) = {s[i] : i \in 1..Len(s)} /\ Range(t) = {t[i] : i \in 1..Len(t)}
  BY <1>1, Elements
<1> HIDE DEF u
<1>3. ASSUME NEW i \in 1..Len(u) PROVE u[i] \in Range(s) \cup Range(t)
  <2>1. CASE i \in 1..Len(s)
    BY <2>1, <1>1, <1>2
  <2>2. CASE i \notin 1..Len(s)
    <3>1. i - Len(s) \in 1..Len(t) /\ Len(s) + (i - Len(s)) = i
      BY <2>2, <1>1
    <3>2. u[i] = t[i - Len(s)]
      BY <3>1, <1>1
    <3> QED
      BY <3>1, <3>2, <1>2
  <2> QED
    BY <2>1, <2>2
<1>4. ASSUME NEW i \in 1..Len(s) PROVE s[i] \in Range(u)
  <2>1. i \in 1..Len(u) /\ u[i] = s[i]
    BY <1>1
  <2> QED
    BY <2>1, <1>2
<1>5. ASSUME NEW i \in 1..Len(t) PROVE t[i] \in Range(u)
  <2>1. Len(s) + i \in 1..Len(u) /\ u[Len(s) + i] = t[i]
    BY <1>1
  <2> QED
    BY <2>1, <1>2
<1>6. Range(u) = Range(s) \cup Range(t)
  BY <1>2, <1>3, <1>4, <1>5
<1> QED
  BY <1>6 DEF u

\* A concatenation is in order when both parts are, one before the other.
LEMMA OrderedConcat ==
  ASSUME NEW s \in Bytes, NEW t \in Bytes
  PROVE  Ordered(Cat(s, t)) <=> Ordered(s) /\ Ordered(t) /\ Before(s, t)
<1> DEFINE u == Cat(s, t)
<1>1. /\ u \in Bytes /\ Len(u) = Len(s) + Len(t) /\ Len(s) \in Nat /\ Len(t) \in Nat
      /\ \A i \in 1..Len(s) : u[i] = s[i]
      /\ \A i \in 1..Len(t) : u[Len(s) + i] = t[i]
  BY ConcatElements
<1>2. /\ DOMAIN u = 1..Len(u) /\ DOMAIN s = 1..Len(s) /\ DOMAIN t = 1..Len(t)
      /\ Range(s) = {s[i] : i \in 1..Len(s)} /\ Range(t) = {t[i] : i \in 1..Len(t)}
  BY <1>1, Elements
<1> HIDE DEF u
<1>3. ASSUME Ordered(u) PROVE Ordered(s) /\ Ordered(t) /\ Before(s, t)
  <2>1. \A i, j \in 1..Len(u) : i < j => u[i] < u[j]
    BY <1>2, <1>3 DEF Ordered
  <2>2. ASSUME NEW i \in 1..Len(s), NEW j \in 1..Len(s), i < j PROVE s[i] < s[j]
    <3>1. i \in 1..Len(u) /\ j \in 1..Len(u) /\ u[i] = s[i] /\ u[j] = s[j]
      BY <1>1
    <3> QED
      BY <2>1, <2>2, <3>1
  <2>3. ASSUME NEW i \in 1..Len(t), NEW j \in 1..Len(t), i < j PROVE t[i] < t[j]
    <3>1. /\ Len(s) + i \in 1..Len(u) /\ Len(s) + j \in 1..Len(u)
          /\ Len(s) + i < Len(s) + j
          /\ u[Len(s) + i] = t[i] /\ u[Len(s) + j] = t[j]
      BY <1>1, <2>3
    <3> QED
      BY <2>1, <3>1
  <2>4. ASSUME NEW i \in 1..Len(s), NEW j \in 1..Len(t) PROVE s[i] < t[j]
    <3>1. /\ i \in 1..Len(u) /\ Len(s) + j \in 1..Len(u) /\ i < Len(s) + j
          /\ u[i] = s[i] /\ u[Len(s) + j] = t[j]
      BY <1>1
    <3> QED
      BY <2>1, <3>1
  <2> QED
    BY <1>2, <2>2, <2>3, <2>4 DEF Ordered, Before
<1>4. ASSUME Ordered(s), Ordered(t), Before(s, t) PROVE Ordered(u)
  <2>1. SUFFICES ASSUME NEW i \in 1..Len(u), NEW j \in 1..Len(u), i < j
                 PROVE  u[i] < u[j]
    BY <1>2 DEF Ordered
  <2>2. CASE j \in 1..Len(s)
    <3>1. i \in 1..Len(s)
      BY <1>1, <2>1, <2>2
    <3> QED
      BY <1>1, <1>2, <1>4, <2>1, <2>2, <3>1 DEF Ordered
  <2>3. CASE i \in 1..Len(s) /\ j \notin 1..Len(s)
    <3>1. j - Len(s) \in 1..Len(t) /\ Len(s) + (j - Len(s)) = j
      BY <1>1, <2>3
    <3>2. u[i] = s[i] /\ u[j] = t[j - Len(s)]
      BY <1>1, <2>3, <3>1
    <3> QED
      BY <1>2, <1>4, <2>3, <3>1, <3>2 DEF Before
  <2>4. CASE i \notin 1..Len(s)
    <3> DEFINE k == i - Len(s)
               l == j - Len(s)
    <3>1. k \in 1..Len(t) /\ l \in 1..Len(t) /\ k < l /\ Len(s) + k = i /\ Len(s) + l = j
      BY <1>1, <2>1, <2>4
    <3>2. u[i] = t[k] /\ u[j] = t[l]
      BY <1>1, <3>1
    <3> QED
      BY <1>2, <1>4, <3>1, <3>2 DEF Ordered
  <2> QED
    BY <2>2, <2>3, <2>4
<1>5. Ordered(u) <=> Ordered(s) /\ Ordered(t) /\ Before(s, t)
  BY <1>3, <1>4
<1> QED
  BY <1>5 DEF u

\* A piece that is dropped leaves the rest in order, and only its own bytes
\* are missing.
LEMMA Dropped ==
  ASSUME NEW p \in Bytes, NEW x \in Bytes, NEW s \in Bytes, Ordered(Cat(Cat(p, x), s))
  PROVE  /\ Ordered(Cat(Cat(p, <<>>), s))
         /\ Range(Cat(Cat(p, <<>>), s)) = Range(Cat(Cat(p, x), s)) \ Range(x)
<1>1. /\ Cat(p, x) \in Bytes /\ Cat(p, <<>>) = p
  BY ConcatType, NoBytes
<1>2. Ordered(Cat(p, x)) /\ Ordered(s) /\ Before(Cat(p, x), s)
  BY <1>1, OrderedConcat
<1>3. Ordered(p) /\ Before(p, x)
  BY <1>2, OrderedConcat
<1>4. Range(Cat(p, x)) = Range(p) \cup Range(x)
  BY RangeConcat
<1>5. Range(Cat(Cat(p, x), s)) = Range(p) \cup Range(x) \cup Range(s)
  BY <1>1, <1>4, RangeConcat
<1>6. Range(Cat(p, s)) = Range(p) \cup Range(s)
  BY RangeConcat
<1>7. Before(p, s) /\ Before(x, s)
  BY <1>2, <1>4 DEF Before
<1>8. \A b \in Range(x) : b \in Nat
  BY Elements, Sizes DEF Position
<1>9. \A b \in Range(x) : b \notin Range(p) /\ b \notin Range(s)
  BY <1>3, <1>7, <1>8 DEF Before
<1>10. Ordered(Cat(p, s))
  BY <1>2, <1>3, <1>7, OrderedConcat
<1> QED
  BY <1>1, <1>5, <1>6, <1>9, <1>10

LEMMA LeastElement ==
  ASSUME NEW T, T \subseteq Nat, T # {}
  PROVE  \E x \in T : \A y \in T : x <= y
<1> DEFINE R == OpToRel(<, Nat)
<1>1. IsWellFoundedOn(R, Nat)
  BY NatLessThanWellFounded
<1>2. \A y, x \in Nat : y < x => <<y, x>> \in R
  BY DEF OpToRel
<1> HIDE DEF R
<1>3. PICK x \in T : \A y \in T : ~ (<<y, x>> \in R)
  BY <1>1, WFMin
<1>4. \A y \in T : ~(y < x)
  BY <1>2, <1>3
<1> QED
  BY <1>4

\* In order, the byte in place i is at least the i-th that was written.
LEMMA Climbs ==
  ASSUME NEW s \in Bytes, Ordered(s)
  PROVE  \A i \in 1..Len(s) : s[i] \in Nat /\ i <= s[i]
<1>1. Len(s) \in Nat /\ DOMAIN s = 1..Len(s) /\ \A i \in 1..Len(s) : s[i] \in Nat /\ s[i] > 0
  BY Elements, Sizes DEF Position
<1>2. \A i, j \in 1..Len(s) : i < j => s[i] < s[j]
  BY <1>1 DEF Ordered
<1> DEFINE T == {i \in 1..Len(s) : s[i] < i}
<1>3. ASSUME T # {} PROVE FALSE
  <2>1. T \subseteq Nat
    BY <1>1
  <2>2. PICK x \in T : \A y \in T : x <= y
    BY <1>3, <2>1, LeastElement
  <2>3. x \in 1..Len(s) /\ s[x] < x
    BY <2>2
  <2>4. x > 1
    BY <1>1, <2>3
  <2>5. x - 1 \in 1..Len(s) /\ x - 1 < x
    BY <1>1, <2>3, <2>4
  <2>6. s[x - 1] >= x - 1
    <3>1. x - 1 \notin T
      BY <2>2, <2>3, <2>5
    <3> QED
      BY <1>1, <2>5, <3>1
  <2>7. s[x - 1] < s[x]
    BY <1>2, <2>3, <2>5
  <2> QED
    BY <1>1, <2>3, <2>5, <2>6, <2>7
<1> QED
  BY <1>1, <1>3

-----------------------------------------------------------------------------
(* What Inv says, in the forms that are used.                              *)

\* What TypeOK says of the streams.
StreamTypes ==
  /\ written \in [Client -> 0..MaxBytes]
  /\ \A c \in Client :
       /\ toServer[c] \in Seq(1..MaxBytes) /\ Len(toServer[c]) <= RcvBuf
       /\ toClient[c] \in Seq(1..MaxBytes) /\ Len(toClient[c]) <= SndBuf
       /\ echoed[c] \in Seq(1..MaxBytes)
       /\ lost[c] \subseteq 1..MaxBytes

SameStreams ==
  /\ written' = written /\ toServer' = toServer
  /\ toClient' = toClient /\ echoed' = echoed /\ lost' = lost

LEMMA StreamsStay ==
  ASSUME Inv, SameStreams
  PROVE  Streams' /\ StreamTypes'
BY DEF Inv, TypeOK, StreamTypes, Streams, SameStreams

LEMMA EchoIsInOrder ==
  EchoInOrder <=> \A c \in Client : conn[c] \in {"up", "shut"} => InOrder(c)
BY DEF EchoInOrder, InOrder, Whole, Pieces, Cat

LEMMA EchoIsInOrderNext ==
  EchoInOrder' <=> \A c \in Client : conn'[c] \in {"up", "shut"} => InOrder(c)'
BY DEF EchoInOrder, InOrder, Whole, Pieces, Cat

\* A step that loses nothing, and whose send does not begin to wait.
LEMMA NothingIsLost ==
  ASSUME Inv, lost' = lost,
         \A c \in Client : 1..written[c] \subseteq 1..written'[c],
         pc' = "sending" => pc = "sending" /\ buffer' = buffer
  PROVE  Losses' /\ LossNeedsFullBuffer'
BY DEF Inv, Losses, LossNeedsFullBuffer

LEMMA BufferType ==
  ASSUME TypeOK
  PROVE  /\ buffer \in Bytes /\ Len(buffer) <= RECV_MAX /\ <<>> \in Bytes
         /\ outcome # "killed" => (Sending <=> buffer # <<>>)
BY NoBytes DEF TypeOK, Bytes, Position

LEMMA StreamType ==
  ASSUME Inv, NEW c \in Client
  PROVE  /\ toServer[c] \in Bytes /\ Len(toServer[c]) <= RcvBuf
         /\ toClient[c] \in Bytes /\ Len(toClient[c]) <= SndBuf
         /\ echoed[c] \in Bytes /\ Held(c) \in Bytes
         /\ written[c] \in Nat /\ written[c] <= MaxBytes
<1>1. Held(c) \in Bytes
  BY BufferType DEF Held, Inv
<1>2. written[c] \in Nat /\ written[c] <= MaxBytes
  BY Sizes DEF Inv, TypeOK
<1> QED
  BY <1>1, <1>2 DEF Inv, Streams, TypeOK

LEMMA InitInv == Init => Inv
<1>1. SUFFICES ASSUME Init PROVE Inv
  OBVIOUS
<1>2. Streams
  BY <1>1, NoBytes DEF Init, Streams
<1>3. TypeOK
  <2>1. /\ buffer \in Seq(1..MaxBytes) /\ Len(buffer) = 0
        /\ backlog \in Seq(Client) /\ Len(backlog) = 0
    BY <1>1 DEF Init
  <2>2. \A c \in Client :
          /\ toServer[c] \in Seq(1..MaxBytes) /\ Len(toServer[c]) = 0
          /\ toClient[c] \in Seq(1..MaxBytes) /\ Len(toClient[c]) = 0
          /\ echoed[c] \in Seq(1..MaxBytes) /\ lost[c] = {}
    BY <1>1 DEF Init
  <2> QED
    BY <1>1, <2>1, <2>2, Sizes DEF Init, TypeOK, Sending, Connection
<1>4. Control /\ Untouched /\ NothingLeft
  BY <1>1, TcpAssumption DEF Init, Control, Untouched, NothingLeft
<1>5. EchoInOrder
  BY <1>1 DEF Init, EchoInOrder
<1>6. Losses /\ LossNeedsFullBuffer
  BY <1>1 DEF Init, Losses, LossNeedsFullBuffer
<1> QED
  BY <1>2, <1>3, <1>4, <1>5, <1>6 DEF Inv

\* A step that moves no byte and connects no client keeps the order.
LEMMA NothingMoves ==
  ASSUME Inv, UNCHANGED <<streams, peer, buffer>>,
         \A c \in Client : conn'[c] \in {"up", "shut"} => conn[c] \in {"up", "shut"}
  PROVE  EchoInOrder'
BY DEF Inv, EchoInOrder, Whole, Held, streams

LEMMA CallPreserves ==
  ASSUME Inv, SetUp
  PROVE  Inv'
<1>1. UNCHANGED <<outcome, peer, buffer, backlog, conn, streams>>
  BY DEF SetUp, Call
<1>2. /\ pc \in {"socket", "setsockopt", "bind", "listen"}
      /\ pc' \in {"setsockopt", "bind", "listen", "accept"}
      /\ fds' \subseteq {"server_fd", "client_fd"}
  BY DEF SetUp, Call, Inv, TypeOK
<1>3. TypeOK' /\ Streams'
  BY <1>1, <1>2 DEF Inv, TypeOK, Streams, streams, Sending
<1>4. Control' /\ Untouched' /\ NothingLeft'
  BY <1>1, <1>2 DEF Inv, Control, Untouched, NothingLeft, streams
<1>5. EchoInOrder'
  BY <1>1, NothingMoves
<1>6. Losses' /\ LossNeedsFullBuffer'
  BY <1>1, <1>2, NothingIsLost DEF streams
<1> QED
  BY <1>3, <1>4, <1>5, <1>6 DEF Inv

\* What the ways out have in common: no byte moves, and those who wait in the
\* backlog are reset.
LEMMA EndPreserves ==
  ASSUME Inv, pc # "ended", pc' = "ended", outcome' \in {"failed", "done", "killed"},
         fds' \subseteq {"server_fd", "client_fd"}, ResetBacklog, UNCHANGED <<peer, buffer, streams>>,
         outcome' # "killed" => ~Sending,
         outcome' = "done" => pc = "cleanup"
  PROVE  Inv'
<1>1. /\ backlog' = <<>>
      /\ conn' = [c \in Client |-> IF c \in Range(backlog) THEN "reset" ELSE conn[c]]
  BY DEF ResetBacklog
<1>2. \A c \in Client : conn'[c] \in {conn[c], "reset"}
  BY <1>1
<1>3. conn' \in [Client -> Connection]
  BY <1>1 DEF Inv, TypeOK, Connection
<1>4. backlog' \in Seq(Client) /\ Len(backlog') <= MAX_PENDING /\ 1..Len(backlog') = {}
  BY <1>1, Sizes
<1>5. ~Sending' /\ (outcome' # "killed" => buffer' = <<>>)
  BY BufferType DEF Inv, Sending, Control
<1>6. TypeOK' /\ Streams'
  <2>1. (Sending = (buffer # <<>>) \/ outcome = "killed")'
    BY <1>5 DEF Sending
  <2>2. /\ peer' \in Client \cup {NoClient}
        /\ buffer' \in Seq(1..MaxBytes) /\ Len(buffer') <= RECV_MAX
    BY DEF Inv, TypeOK
  <2>3. SameStreams
    BY DEF SameStreams, streams
  <2> QED
    BY <1>3, <1>4, <2>1, <2>2, <2>3, StreamsStay DEF TypeOK, StreamTypes
<1>7. Control'
  BY <1>2, <1>4 DEF Inv, Control
<1>8. Untouched'
  BY <1>2 DEF Inv, Untouched, streams
<1>9. NothingLeft'
  BY <1>2 DEF Inv, NothingLeft, streams
<1>10. EchoInOrder'
  BY <1>2, NothingMoves
<1>11. Losses' /\ LossNeedsFullBuffer'
  BY NothingIsLost DEF streams
<1> QED
  BY <1>6, <1>7, <1>8, <1>9, <1>10, <1>11 DEF Inv

LEMMA WaysOutPreserve ==
  ASSUME Inv, SetUpFails \/ SendKills \/ Cleanup
  PROVE  Inv'
<1>1. CASE SetUpFails
  <2>1. PICK at \in {"socket", "setsockopt", "bind", "listen", "accept"} : CallFails(at)
    BY <1>1 DEF SetUpFails
  <2> QED
    BY <2>1, EndPreserves DEF CallFails, Sending, Inv, TypeOK
<1>2. CASE SendKills
  BY <1>2, EndPreserves DEF SendKills
<1>3. CASE Cleanup
  BY <1>3, EndPreserves DEF Cleanup, Sending, Inv, TypeOK
<1> QED
  BY <1>1, <1>2, <1>3

\* The client that is accepted has what it wrote before in its buffer, and
\* the server's buffer is empty.
LEMMA AcceptPreserves ==
  ASSUME Inv, Accept
  PROVE  Inv'
<1>1. /\ UNCHANGED <<outcome, buffer, conn, streams>>
      /\ pc = "accept" /\ pc' = "recv" /\ fds' = fds \cup {"client_fd"}
      /\ peer' = Head(backlog) /\ backlog' = Tail(backlog) /\ backlog # <<>>
  BY DEF Accept
<1>2. /\ peer' \in Client /\ peer' = backlog[1] /\ Len(backlog) \in Nat /\ Len(backlog) >= 1
      /\ backlog' \in Seq(Client) /\ Len(backlog') = Len(backlog) - 1
      /\ \A i \in 1..Len(backlog') : backlog'[i] = backlog[i + 1]
  <2>1. backlog \in Seq(Client)
    BY DEF Inv, TypeOK
  <2>2. /\ Head(backlog) \in Client /\ Tail(backlog) \in Seq(Client)
        /\ Len(Tail(backlog)) = Len(backlog) - 1
        /\ \A i \in 1..Len(Tail(backlog)) : Tail(backlog)[i] = backlog[i + 1]
    BY <1>1, <2>1, HeadTailProperties
  <2>3. Len(backlog) \in Nat /\ Len(backlog) >= 1 /\ Head(backlog) = backlog[1]
    BY <1>1, <2>1, EmptySeq
  <2> QED
    BY <1>1, <2>2, <2>3
<1>3. buffer = <<>> /\ outcome = "running"
  BY <1>1, BufferType DEF Inv, Control, Sending
<1>4. TypeOK' /\ Streams'
  BY <1>1, <1>2, <1>3, Sizes DEF Inv, TypeOK, Streams, streams, Sending
<1>5. Control'
  BY <1>1, <1>2, <1>3 DEF Inv, Control
<1>6. Untouched' /\ NothingLeft'
  BY <1>1, <1>3 DEF Inv, Untouched, NothingLeft, streams
<1>7. EchoInOrder'
  BY <1>1, <1>3 DEF Inv, EchoInOrder, Whole, Held, streams
<1>8. Losses' /\ LossNeedsFullBuffer'
  BY <1>1, NothingIsLost DEF streams
<1> QED
  BY <1>4, <1>5, <1>6, <1>7, <1>8 DEF Inv

\* A step keeps the order if it keeps the whole stream of each client whose
\* connection stands.
LEMMA WholesStay ==
  ASSUME Inv,
         \A c \in Client : conn'[c] \in {"up", "shut"} =>
           /\ conn[c] \in {"up", "shut"} /\ Pieces(c)' = Pieces(c)
           /\ written'[c] = written[c] /\ lost'[c] = lost[c]
  PROVE  EchoInOrder'
<1>1. \A c \in Client : conn[c] \in {"up", "shut"} => InOrder(c)
  BY EchoIsInOrder DEF Inv
<1>2. \A c \in Client : conn'[c] \in {"up", "shut"} => InOrder(c)'
  BY <1>1 DEF InOrder
<1> QED
  BY <1>2, EchoIsInOrderNext

-----------------------------------------------------------------------------
(* The echo loop.                                                          *)

LEMMA RecvPreserves ==
  ASSUME Inv, Recv
  PROVE  Inv'
<1> DEFINE s == toServer[peer]
           n == Least(Asked, Len(s))
           x == SubSeq(s, 1, n)
           y == SubSeq(s, n + 1, Len(s))
<1>1. /\ pc = "recv" /\ pc' = "send" /\ s # <<>> /\ buffer' = x
      /\ toServer' = [toServer EXCEPT ![peer] = y]
      /\ UNCHANGED <<outcome, fds, peer, backlog, conn, written, toClient, echoed, lost>>
  BY DEF Recv, Arrived
<1>2. peer \in Client /\ outcome = "running" /\ buffer = <<>>
  BY <1>1, BufferType DEF Inv, Control, Sending
<1>3. s \in Bytes /\ Len(s) \in Nat /\ Len(s) > 0 /\ Len(s) <= RcvBuf
  BY <1>1, <1>2, StreamType, Length
<1>4. n \in Nat /\ n > 0 /\ n <= Len(s) /\ n <= RECV_MAX
  BY <1>3, Sizes DEF Least, Asked
<1>5. x \in Bytes /\ y \in Bytes /\ Len(x) = n /\ Len(y) = Len(s) - n /\ Cat(x, y) = s
  BY <1>3, <1>4, Split
<1>6. x # <<>> /\ Len(x) <= RECV_MAX /\ Len(y) <= RcvBuf
  BY <1>3, <1>4, <1>5, Length, Sizes
<1> HIDE DEF s, n, x, y
<1>7. Streams'
  BY <1>1, <1>2, <1>5 DEF Inv, Streams
<1>8. TypeOK'
  <2>1. (Sending = (buffer # <<>>) \/ outcome = "killed")'
    BY <1>1, <1>6 DEF Sending
  <2>2. buffer' \in Seq(1..MaxBytes) /\ Len(buffer') <= RECV_MAX
    BY <1>1, <1>5, <1>6 DEF Bytes, Position
  <2>3. \A c \in Client : toServer'[c] = IF c = peer THEN y ELSE toServer[c]
    BY <1>1, <1>2 DEF Inv, Streams
  <2>4. \A c \in Client : toServer'[c] \in Seq(1..MaxBytes) /\ Len(toServer'[c]) <= RcvBuf
    BY <2>3, <1>5, <1>6 DEF Bytes, Position, Inv, TypeOK
  <2> QED
    BY <1>1, <2>1, <2>2, <2>4 DEF Inv, TypeOK
<1>9. Control' /\ NothingLeft'
  BY <1>1, <1>2 DEF Inv, Control, NothingLeft
<1>10. Untouched'
  BY <1>1, <1>2 DEF Inv, Untouched, Control, Streams
<1>11. EchoInOrder'
  <2>1. ASSUME NEW c \in Client PROVE Pieces(c)' = Pieces(c)
    <3>1. CASE c # peer
      BY <3>1, <1>1, <1>2 DEF Pieces, Held, Inv, Streams
    <3>2. CASE c = peer
      <4>1. /\ Pieces(c) = Cat(Cat(Cat(echoed[c], toClient[c]), <<>>), s)
            /\ Pieces(c)' = Cat(Cat(Cat(echoed[c], toClient[c]), x), y)
        BY <3>2, <1>1, <1>2 DEF Pieces, Held, Inv, Streams, s
      <4>2. Cat(echoed[c], toClient[c]) \in Bytes
        BY StreamType, ConcatType
      <4> QED
        BY <4>1, <4>2, <1>3, <1>5, Received
    <3> QED
      BY <3>1, <3>2
  <2> QED
    BY <2>1, <1>1, WholesStay
<1>12. Losses' /\ LossNeedsFullBuffer'
  BY <1>1, NothingIsLost
<1> QED
  BY <1>7, <1>8, <1>9, <1>10, <1>11, <1>12 DEF Inv

LEMMA RecvEndsPreserves ==
  ASSUME Inv, RecvEnds
  PROVE  Inv'
<1>1. /\ pc = "recv" /\ pc' = "cleanup" /\ conn[peer] # "up" /\ toServer[peer] = <<>>
      /\ UNCHANGED <<outcome, fds, peer, buffer, backlog, conn, streams>>
  BY DEF RecvEnds, HungUp
<1>2. peer \in Client /\ outcome = "running" /\ buffer = <<>>
  BY <1>1, BufferType DEF Inv, Control, Sending
<1>3. TypeOK' /\ Streams'
  <2>1. (Sending = (buffer # <<>>) \/ outcome = "killed")'
    BY <1>1, <1>2 DEF Sending
  <2> QED
    BY <1>1, <2>1 DEF Inv, TypeOK, Streams, streams
<1>4. Control' /\ NothingLeft' /\ Untouched'
  BY <1>1, <1>2 DEF Inv, Control, NothingLeft, Untouched, streams
<1>5. EchoInOrder'
  BY <1>1, NothingMoves
<1>6. Losses' /\ LossNeedsFullBuffer'
  BY <1>1, NothingIsLost DEF streams
<1> QED
  BY <1>3, <1>4, <1>5, <1>6 DEF Inv

LEMMA SendPreserves ==
  ASSUME Inv, Send
  PROVE  Inv'
<1> DEFINE t == toClient[peer]
           n == Least(Room, Len(buffer))
           x == SubSeq(buffer, 1, n)
           y == SubSeq(buffer, n + 1, Len(buffer))
<1>1. /\ Sending /\ conn[peer] \in {"up", "shut"} /\ Room > 0 /\ buffer' = y
      /\ toClient' = [toClient EXCEPT ![peer] = t \o x]
      /\ pc' = IF buffer' = <<>> THEN "recv" ELSE "sending"
      /\ UNCHANGED <<outcome, fds, peer, backlog, conn, written, toServer, echoed, lost>>
  BY DEF Send, SendCopies
<1>2. peer \in Client /\ outcome = "running" /\ pc # "ended"
  BY <1>1 DEF Inv, Control, Sending
<1>3. /\ t \in Bytes /\ Len(t) \in Nat /\ Len(t) <= SndBuf
      /\ buffer \in Bytes /\ Len(buffer) \in Nat /\ Len(buffer) <= RECV_MAX
  BY <1>2, StreamType, BufferType, Length DEF Inv
<1>4. n \in Nat /\ n <= Len(buffer) /\ Len(t) + n <= SndBuf
  <2>1. Room = SndBuf - Len(t) /\ Room \in Nat
    BY <1>1, <1>3, Sizes DEF Room
  <2>2. n = Room \/ n = Len(buffer)
    BY DEF Least
  <2>3. n <= Room /\ n <= Len(buffer)
    BY <1>3, <2>1 DEF Least
  <2> HIDE DEF n, t
  <2> QED
    BY <1>3, <2>1, <2>2, <2>3, Sizes
<1>5. x \in Bytes /\ y \in Bytes /\ Len(x) = n /\ Len(y) = Len(buffer) - n /\ Cat(x, y) = buffer
  BY <1>3, <1>4, Split
<1>6. t \o x \in Bytes /\ Len(t \o x) <= SndBuf /\ Len(y) <= RECV_MAX
  <2>1. Len(t \o x) = Len(t) + Len(x)
    BY <1>3, <1>5, ConcatProperties DEF Bytes
  <2>2. t \o x \in Bytes
    BY <1>3, <1>5, ConcatType DEF Cat
  <2> HIDE DEF t, n, x, y
  <2> QED
    BY <2>1, <2>2, <1>3, <1>4, <1>5, Sizes
<1> HIDE DEF t, n, x, y
<1>7. Streams'
  BY <1>1, <1>2, <1>6 DEF Inv, Streams
<1>8. TypeOK'
  <2>1. (Sending = (buffer # <<>>) \/ outcome = "killed")'
    BY <1>1 DEF Sending
  <2>2. buffer' \in Seq(1..MaxBytes) /\ Len(buffer') <= RECV_MAX
    BY <1>1, <1>5, <1>6 DEF Bytes, Position
  <2>3. \A c \in Client : toClient'[c] = IF c = peer THEN t \o x ELSE toClient[c]
    BY <1>1, <1>2 DEF Inv, Streams
  <2>4. \A c \in Client : toClient'[c] \in Seq(1..MaxBytes) /\ Len(toClient'[c]) <= SndBuf
    BY <2>3, <1>6 DEF Bytes, Position, Inv, TypeOK
  <2> QED
    BY <1>1, <2>1, <2>2, <2>4 DEF Inv, TypeOK
<1>9. Control' /\ NothingLeft'
  BY <1>1, <1>2 DEF Inv, Control, NothingLeft
<1>10. Untouched'
  BY <1>1, <1>2 DEF Inv, Untouched, Control, Streams
<1>11. EchoInOrder'
  <2>1. ASSUME NEW c \in Client PROVE Pieces(c)' = Pieces(c)
    <3>1. CASE c # peer
      BY <3>1, <1>1, <1>2 DEF Pieces, Held, Inv, Streams
    <3>2. CASE c = peer
      <4>1. /\ Pieces(c) = Cat(Cat(Cat(echoed[c], t), buffer), toServer[c])
            /\ Pieces(c)' = Cat(Cat(Cat(echoed[c], t \o x), y), toServer[c])
        BY <3>2, <1>1, <1>2 DEF Pieces, Held, Inv, Streams, t
      <4>2. t \o x = Cat(t, x) /\ echoed[c] \in Bytes
        BY StreamType DEF Cat
      <4> QED
        BY <4>1, <4>2, <1>3, <1>5, Copied
    <3> QED
      BY <3>1, <3>2
  <2> QED
    BY <2>1, <1>1, WholesStay
<1>12. Losses' /\ LossNeedsFullBuffer'
  <2>1. SUFFICES ASSUME pc' = "sending" PROVE \A d \in Range(buffer') : d > SndBuf
    BY <1>1 DEF Inv, Losses, LossNeedsFullBuffer
  <2>2. y # <<>> /\ Len(t \o x) = SndBuf
    <3>1. y # <<>> /\ Len(y) > 0
      BY <1>1, <1>5, <2>1, Length
    <3>2. n # Len(buffer)
      BY <1>3, <1>4, <1>5, <3>1
    <3>3. n = Room
      BY <3>2 DEF n, Least
    <3>4. Len(t \o x) = Len(t) + Len(x)
      BY <1>2, <1>3, <1>5, ConcatElements DEF Cat
    <3>5. Room = SndBuf - Len(t)
      BY DEF Room, t
    <3> QED
      BY <1>3, <1>4, <1>5, <3>1, <3>3, <3>4, <3>5, Sizes
  <2> DEFINE e == echoed[peer]
             p == Cat(e, t \o x)
             q == Cat(p, y)
  <2>3. e \in Bytes /\ p \in Bytes /\ q \in Bytes /\ toServer[peer] \in Bytes
    BY <1>2, <1>5, <1>6, StreamType, ConcatType
  <2>4. Ordered(q)
    <3>1. InOrder(peer)'
      BY <1>1, <1>2, <1>11, EchoIsInOrderNext
    <3>2. Pieces(peer)' = Cat(q, toServer[peer])
      BY <1>1, <1>2 DEF Pieces, Held, Inv, Streams
    <3> HIDE DEF q
    <3> QED
      BY <2>3, <3>1, <3>2, OrderedConcat DEF InOrder
  <2>5. /\ Len(e) \in Nat /\ Len(p) = Len(e) + SndBuf /\ Len(q) = Len(p) + Len(y)
        /\ Len(y) \in Nat /\ \A i \in 1..Len(y) : q[Len(p) + i] = y[i]
    BY <1>5, <1>6, <2>2, <2>3, ConcatElements
  <2> HIDE DEF e, p, q
  <2>6. ASSUME NEW i \in 1..Len(y) PROVE y[i] > SndBuf
    <3>1. /\ Len(p) + i \in 1..Len(q) /\ Len(p) + i > SndBuf /\ Len(p) + i \in Nat
      BY <2>5, Sizes
    <3>2. q[Len(p) + i] \in Nat /\ Len(p) + i <= q[Len(p) + i]
      BY <2>3, <2>4, <3>1, Climbs
    <3> QED
      BY <2>5, <3>1, <3>2, Sizes
  <2>7. Range(y) = {y[i] : i \in 1..Len(y)}
    BY <1>5, Elements
  <2> QED
    BY <1>1, <2>6, <2>7
<1> QED
  BY <1>7, <1>8, <1>9, <1>10, <1>11, <1>12 DEF Inv

\* What is dropped is the middle of the stream, behind a full send buffer.
LEMMA SendShortPreserves ==
  ASSUME Inv, SendShort
  PROVE  Inv'
<1>1. /\ pc = "sending" /\ conn[peer] \in {"up", "shut"} /\ pc' = "recv" /\ buffer' = <<>>
      /\ lost' = [lost EXCEPT ![peer] = lost[peer] \cup Range(buffer)]
      /\ UNCHANGED <<outcome, fds, peer, backlog, conn, written, toServer, toClient, echoed>>
  BY DEF SendShort, Interruptible
<1>2. peer \in Client /\ outcome = "running"
  BY <1>1 DEF Inv, Control
<1>3. buffer \in Bytes /\ Range(buffer) \subseteq Position
  BY BufferType, Elements DEF Inv
<1>4. \A c \in Client :
        lost'[c] = IF c = peer THEN lost[peer] \cup Range(buffer) ELSE lost[c]
  BY <1>1, <1>2 DEF Inv, Streams
<1>5. Streams'
  BY <1>1, <1>3 DEF Inv, Streams
<1>6. TypeOK'
  <2>1. (Sending = (buffer # <<>>) \/ outcome = "killed")'
    BY <1>1 DEF Sending
  <2>2. buffer' \in Seq(1..MaxBytes) /\ Len(buffer') <= RECV_MAX
    BY <1>1, NoBytes, Length, Sizes DEF Bytes, Position
  <2>3. \A c \in Client : lost'[c] \subseteq 1..MaxBytes
    BY <1>3, <1>4 DEF Inv, TypeOK, Position
  <2> QED
    BY <1>1, <2>1, <2>2, <2>3 DEF Inv, TypeOK
<1>7. Control' /\ NothingLeft'
  BY <1>1, <1>2 DEF Inv, Control, NothingLeft
<1>8. Untouched'
  BY <1>1, <1>2, <1>4 DEF Inv, Untouched, Control
<1>9. /\ Ordered(Pieces(peer)')
      /\ Range(Pieces(peer)') = Range(Pieces(peer)) \ Range(buffer)
      /\ Range(buffer) \subseteq Range(Pieces(peer)) /\ InOrder(peer)
  <2> DEFINE p == Cat(echoed[peer], toClient[peer])
             s == toServer[peer]
  <2>1. p \in Bytes /\ s \in Bytes
    BY <1>2, StreamType, ConcatType
  <2>2. Pieces(peer) = Cat(Cat(p, buffer), s) /\ Pieces(peer)' = Cat(Cat(p, <<>>), s)
    BY <1>1 DEF Pieces, Held
  <2>3. InOrder(peer)
    BY <1>1, <1>2, EchoIsInOrder DEF Inv
  <2> HIDE DEF p, s
  <2>4. Range(Cat(Cat(p, buffer), s)) = Range(p) \cup Range(buffer) \cup Range(s)
    <3>1. Cat(p, buffer) \in Bytes /\ Range(Cat(p, buffer)) = Range(p) \cup Range(buffer)
      BY <1>3, <2>1, ConcatType, RangeConcat
    <3>2. Range(Cat(Cat(p, buffer), s)) = Range(Cat(p, buffer)) \cup Range(s)
      BY <2>1, <3>1, RangeConcat
    <3> QED
      BY <3>1, <3>2
  <2> QED
    BY <1>3, <2>1, <2>2, <2>3, <2>4, Dropped DEF InOrder
<1>10. EchoInOrder'
  <2>1. ASSUME NEW c \in Client, conn'[c] \in {"up", "shut"} PROVE InOrder(c)'
    <3>1. CASE c # peer
      BY <1>1, <1>4, <2>1, <3>1, EchoIsInOrder DEF Inv, InOrder, Pieces, Held
    <3>2. CASE c = peer
      <4>1. lost'[peer] = lost[peer] \cup Range(buffer) /\ written'[peer] = written[peer]
        BY <1>1, <1>2, <1>4
      <4>2. Range(Pieces(peer)) = (1..written[peer]) \ lost[peer]
        BY <1>9 DEF InOrder
      <4>3. Range(Pieces(peer)') = (1..written[peer]) \ (lost[peer] \cup Range(buffer))
        BY <1>9, <4>2
      <4>4. InOrder(peer)'
        BY <1>1, <1>9, <4>1, <4>3 DEF InOrder
      <4> QED
        BY <1>1, <3>2, <4>4
    <3> QED
      BY <3>1, <3>2
  <2> QED
    BY <2>1, EchoIsInOrderNext
<1>11. Losses' /\ LossNeedsFullBuffer'
  <2>1. Range(buffer) \subseteq 1..written[peer] /\ \A b \in Range(buffer) : b > SndBuf
    BY <1>1, <1>9 DEF Inv, Losses, InOrder
  <2> QED
    BY <1>1, <1>4, <2>1 DEF Inv, Losses, LossNeedsFullBuffer
<1> QED
  BY <1>5, <1>6, <1>7, <1>8, <1>10, <1>11 DEF Inv

\* To a client that is gone, the bytes are lost, and no order is promised.
LEMMA SendIsLost ==
  ASSUME Inv, SendToClosed \/ SendFails
  PROVE  Inv'
<1>1. /\ Sending /\ conn[peer] \in {"closed", "reset"} /\ buffer' = <<>>
      /\ pc' = "recv" \/ (pc' = "cleanup" /\ conn[peer] = "reset" /\ conn' = conn)
      /\ conn' = conn \/ \E answer \in {"closed", "pipe"} : conn' = [conn EXCEPT ![peer] = answer]
      /\ UNCHANGED <<outcome, fds, peer, backlog, streams>>
  BY DEF SendToClosed, SendFails
<1>2. peer \in Client /\ outcome = "running"
  BY <1>1 DEF Inv, Control, Sending
<1>3. /\ conn' \in [Client -> Connection]
      /\ conn'[peer] \in {"closed", "pipe", "reset"}
      /\ \A c \in Client \ {peer} : conn'[c] = conn[c]
  BY <1>1, <1>2 DEF Inv, TypeOK, Connection
<1>4. TypeOK' /\ Streams'
  <2>1. (Sending = (buffer # <<>>) \/ outcome = "killed")'
    BY <1>1 DEF Sending
  <2>2. buffer' \in Seq(1..MaxBytes) /\ Len(buffer') <= RECV_MAX
    BY <1>1, NoBytes, Length, Sizes DEF Bytes, Position
  <2>3. SameStreams
    BY <1>1 DEF SameStreams, streams
  <2> QED
    BY <1>1, <1>3, <2>1, <2>2, <2>3, StreamsStay DEF Inv, TypeOK, StreamTypes
<1>5. Control'
  <2>1. \A i \in 1..Len(backlog) : backlog[i] \in Client
    BY DEF Inv, TypeOK
  <2> QED
    BY <1>1, <1>2, <1>3, <2>1 DEF Inv, Control
<1>6. NothingLeft'
  BY <1>1, <1>2, <1>3 DEF Inv, NothingLeft, streams
<1>7. Untouched'
  BY <1>1, <1>2, <1>3 DEF Inv, Untouched, streams
<1>8. EchoInOrder'
  <2>1. \A c \in Client : conn'[c] \in {"up", "shut"} =>
          /\ conn[c] \in {"up", "shut"} /\ Pieces(c)' = Pieces(c)
          /\ written'[c] = written[c] /\ lost'[c] = lost[c]
    BY <1>1, <1>3 DEF Pieces, Held, streams
  <2> QED
    BY <2>1, WholesStay
<1>9. Losses' /\ LossNeedsFullBuffer'
  BY <1>1, NothingIsLost DEF streams
<1> QED
  BY <1>4, <1>5, <1>6, <1>7, <1>8, <1>9 DEF Inv

-----------------------------------------------------------------------------
(* The clients.                                                            *)

\* Who connects has no history, and is not the peer.
LEMMA ConnectPreserves ==
  ASSUME Inv, NEW c \in Client, Connect(c)
  PROVE  Inv'
<1>1. /\ Listening /\ conn[c] = "idle" /\ Len(backlog) < MAX_PENDING
      /\ conn' = [conn EXCEPT ![c] = "up"] /\ backlog' = Append(backlog, c)
      /\ UNCHANGED <<server, streams>>
  BY DEF Connect
<1>2. c # peer
  BY <1>1 DEF Inv, Control
<1>3. /\ conn' \in [Client -> Connection] /\ conn'[c] = "up"
      /\ \A d \in Client \ {c} : conn'[d] = conn[d]
  BY <1>1 DEF Inv, TypeOK, Connection
<1>4. /\ backlog \in Seq(Client) /\ Len(backlog) \in Nat
      /\ backlog' \in Seq(Client) /\ Len(backlog') = Len(backlog) + 1
      /\ \A i \in 1..Len(backlog) : backlog'[i] = backlog[i]
      /\ backlog'[Len(backlog) + 1] = c
  BY <1>1, AppendProperties, LenProperties DEF Inv, TypeOK
<1>5. TypeOK' /\ Streams'
  <2>1. Len(backlog') <= MAX_PENDING
    BY <1>1, <1>4, Sizes
  <2>2. (Sending = (buffer # <<>>) \/ outcome = "killed")'
    BY <1>1 DEF Inv, TypeOK, Sending, server
  <2>3. SameStreams
    BY <1>1 DEF SameStreams, streams
  <2> QED
    BY <1>1, <1>3, <1>4, <2>1, <2>2, <2>3, StreamsStay DEF Inv, TypeOK, StreamTypes, server
<1>6. Control'
  <2>1. \A i \in 1..Len(backlog') : i \in 1..Len(backlog) \/ i = Len(backlog) + 1
    BY <1>4
  <2>2. \A i \in 1..Len(backlog) : backlog[i] \in Client
    BY <1>4
  <2>3. \A i \in 1..Len(backlog') : conn'[backlog'[i]] # "idle"
    BY <1>3, <1>4, <2>1, <2>2 DEF Inv, Control
  <2> QED
    BY <1>1, <1>2, <1>3, <2>3 DEF Inv, Control, server
<1>7. Untouched' /\ NothingLeft'
  BY <1>1, <1>2, <1>3 DEF Inv, Untouched, NothingLeft, server, streams
<1>8. EchoInOrder'
  <2>1. ASSUME NEW d \in Client, conn'[d] \in {"up", "shut"}
        PROVE  InOrder(d)'
    <3>1. CASE d # c
      BY <1>1, <1>3, <2>1, <3>1, EchoIsInOrder
      DEF Inv, InOrder, Pieces, Held, server, streams
    <3>2. CASE d = c
      <4>1. /\ written'[c] = 0 /\ lost'[c] = {} /\ Held(c)' = <<>> /\ toServer'[c] = <<>>
            /\ toClient'[c] = <<>> /\ echoed'[c] = <<>>
        BY <1>1, <1>2 DEF Inv, Untouched, Held, server, streams
      <4>2. Pieces(c)' = <<>>
        BY <4>1, NoBytes DEF Pieces
      <4>3. Ordered(<<>>) /\ Range(<<>>) = {} /\ (1..0) \ {} = {}
        BY DEF Ordered, Range
      <4> QED
        BY <3>2, <4>1, <4>2, <4>3 DEF InOrder
    <3> QED
      BY <3>1, <3>2
  <2> QED
    BY <2>1, EchoIsInOrderNext
<1>9. Losses' /\ LossNeedsFullBuffer'
  BY <1>1, NothingIsLost DEF server, streams
<1> QED
  BY <1>5, <1>6, <1>7, <1>8, <1>9 DEF Inv

LEMMA WritePreserves ==
  ASSUME Inv, NEW c \in Client, Write(c)
  PROVE  Inv'
<1> DEFINE b == written[c] + 1
<1>1. /\ conn[c] = "up" /\ written[c] < MaxBytes /\ Len(toServer[c]) < RcvBuf
      /\ written' = [written EXCEPT ![c] = b]
      /\ toServer' = [toServer EXCEPT ![c] = Append(toServer[c], b)]
      /\ UNCHANGED <<server, backlog, conn, toClient, echoed, lost>>
  BY DEF Write
<1>2. /\ toServer[c] \in Bytes /\ toClient[c] \in Bytes /\ echoed[c] \in Bytes
      /\ Held(c) \in Bytes /\ written[c] \in Nat
  BY StreamType
<1>3. b \in Position /\ b \in 0..MaxBytes
  BY <1>1, <1>2, Sizes DEF Position
<1>4. /\ Append(toServer[c], b) \in Bytes
      /\ Len(Append(toServer[c], b)) = Len(toServer[c]) + 1
  BY <1>2, <1>3, LastByte
<1>5. Len(Append(toServer[c], b)) <= RcvBuf
  BY <1>1, <1>2, <1>4, Length, Sizes
<1> HIDE DEF b
<1>6. \A d \in Client :
        /\ toServer'[d] = IF d = c THEN Append(toServer[c], b) ELSE toServer[d]
        /\ written'[d] = IF d = c THEN b ELSE written[d]
  BY <1>1 DEF Inv, TypeOK, Streams
<1>7. Streams'
  BY <1>1, <1>4 DEF Inv, Streams
<1>8. TypeOK'
  <2>1. (Sending = (buffer # <<>>) \/ outcome = "killed")'
    BY <1>1 DEF Inv, TypeOK, Sending, server
  <2>2. \A d \in Client : toServer'[d] \in Seq(1..MaxBytes) /\ Len(toServer'[d]) <= RcvBuf
    BY <1>4, <1>5, <1>6 DEF Inv, TypeOK, Bytes, Position
  <2>3. written' \in [Client -> 0..MaxBytes]
    BY <1>1, <1>3 DEF Inv, TypeOK
  <2> QED
    BY <1>1, <2>1, <2>2, <2>3 DEF Inv, TypeOK, server
<1>9. Control'
  BY <1>1 DEF Inv, Control, server
<1>10. Untouched' /\ NothingLeft'
  BY <1>1, <1>6 DEF Inv, Untouched, NothingLeft, server
<1>11. EchoInOrder'
  <2>1. ASSUME NEW d \in Client, conn'[d] \in {"up", "shut"}
        PROVE  InOrder(d)'
    <3>1. CASE d # c
      BY <1>1, <1>6, <2>1, <3>1, EchoIsInOrder DEF Inv, InOrder, Pieces, Held, server
    <3>2. CASE d = c
      <4> DEFINE p == Cat(Cat(echoed[c], toClient[c]), Held(c))
                 w == Cat(p, toServer[c])
      <4>1. p \in Bytes /\ w \in Bytes
        BY <1>2, ConcatType
      <4>2. Ordered(w) /\ Range(w) = (1..written[c]) \ lost[c]
        BY <1>1, EchoIsInOrder DEF Inv, InOrder, Pieces
      <4>3. /\ Pieces(c)' = Cat(p, Append(toServer[c], b))
            /\ written'[c] = b /\ lost'[c] = lost[c]
        BY <1>1, <1>6 DEF Pieces, Held, server
      <4>4. Cat(p, Append(toServer[c], b)) = Append(w, b)
        BY <4>1, <1>2, <1>3, Extended
      <4>5. Append(w, b) = Cat(w, <<b>>) /\ <<b>> \in Bytes
        BY <4>1, <1>3, LastByte
      <4> HIDE DEF p, w
      <4>6. Range(<<b>>) = {b} /\ Ordered(<<b>>)
        BY DEF Range, Ordered
      <4>7. Before(w, <<b>>)
        BY <1>2, <4>2, <4>6 DEF Before, b
      <4>8. Ordered(Cat(w, <<b>>)) /\ Range(Cat(w, <<b>>)) = Range(w) \cup {b}
        BY <4>1, <4>2, <4>5, <4>6, <4>7, OrderedConcat, RangeConcat
      <4>9. b \notin lost[c] /\ 1..b = (1..written[c]) \cup {b}
        <5>1. lost[c] \subseteq 1..written[c]
          BY DEF Inv, Losses
        <5> QED
          BY <1>2, <5>1 DEF b
      <4>10. Range(Cat(w, <<b>>)) = (1..b) \ lost[c]
        BY <4>2, <4>8, <4>9
      <4> QED
        BY <3>2, <4>3, <4>4, <4>5, <4>8, <4>10 DEF InOrder
    <3> QED
      BY <3>1, <3>2
  <2> QED
    BY <2>1, EchoIsInOrderNext
<1>12. Losses' /\ LossNeedsFullBuffer'
  <2>1. \A d \in Client : 1..written[d] \subseteq 1..written'[d]
    BY <1>2, <1>6 DEF b
  <2> QED
    BY <1>1, <2>1, NothingIsLost DEF server
<1> QED
  BY <1>7, <1>8, <1>9, <1>10, <1>11, <1>12 DEF Inv

LEMMA ReadPreserves ==
  ASSUME Inv, NEW c \in Client, Read(c)
  PROVE  Inv'
<1> DEFINE e == Append(echoed[c], Head(toClient[c]))
           t == Tail(toClient[c])
<1>1. /\ conn[c] \in {"up", "shut"} /\ toClient[c] # <<>>
      /\ echoed' = [echoed EXCEPT ![c] = e] /\ toClient' = [toClient EXCEPT ![c] = t]
      /\ UNCHANGED <<server, backlog, conn, written, toServer, lost>>
  BY DEF Read
<1>2. /\ toClient[c] \in Bytes /\ echoed[c] \in Bytes
      /\ Len(toClient[c]) \in Nat /\ Len(toClient[c]) <= SndBuf
  BY StreamType, Length
<1>3. /\ e \in Bytes /\ t \in Bytes /\ Len(t) = Len(toClient[c]) - 1
      /\ Cat(e, t) = Cat(echoed[c], toClient[c])
  BY <1>1, <1>2, Taken
<1> HIDE DEF e, t
<1>4. Len(t) <= SndBuf
  BY <1>2, <1>3, Sizes
<1>5. \A d \in Client :
        /\ toClient'[d] = IF d = c THEN t ELSE toClient[d]
        /\ echoed'[d] = IF d = c THEN e ELSE echoed[d]
  BY <1>1 DEF Inv, Streams
<1>6. Streams'
  BY <1>1, <1>3 DEF Inv, Streams
<1>7. TypeOK'
  <2>1. (Sending = (buffer # <<>>) \/ outcome = "killed")'
    BY <1>1 DEF Inv, TypeOK, Sending, server
  <2>2. \A d \in Client :
          /\ toClient'[d] \in Seq(1..MaxBytes) /\ Len(toClient'[d]) <= SndBuf
          /\ echoed'[d] \in Seq(1..MaxBytes)
    BY <1>3, <1>4, <1>5 DEF Inv, TypeOK, Bytes, Position
  <2> QED
    BY <1>1, <2>1, <2>2 DEF Inv, TypeOK, server
<1>8. Control' /\ NothingLeft'
  BY <1>1 DEF Inv, Control, NothingLeft, server
<1>9. Untouched'
  BY <1>1, <1>5 DEF Inv, Untouched
<1>10. EchoInOrder'
  <2>1. ASSUME NEW d \in Client PROVE Pieces(d)' = Pieces(d)
    BY <1>1, <1>3, <1>5 DEF Pieces, Held, server
  <2> QED
    BY <1>1, <2>1, WholesStay
<1>11. Losses' /\ LossNeedsFullBuffer'
  BY <1>1, NothingIsLost DEF server
<1> QED
  BY <1>6, <1>7, <1>8, <1>9, <1>10, <1>11 DEF Inv

\* What a client that hangs up still had to read is dropped; of a connection
\* that no longer stands no order is promised.
LEMMA HangUpPreserves ==
  ASSUME Inv, NEW c \in Client, HangUp(c)
  PROVE  Inv'
<1>1. /\ conn[c] \in {"up", "shut"}
      /\ \/ conn' = [conn EXCEPT ![c] = "shut"] /\ toClient' = toClient
         \/ /\ \E how \in {"closed", "reset"} : conn' = [conn EXCEPT ![c] = how]
            /\ toClient' = [toClient EXCEPT ![c] = <<>>]
      /\ UNCHANGED <<server, backlog, written, toServer, echoed, lost>>
      /\ conn[c] = "shut" => conn'[c] # "shut"
  BY DEF HangUp, streams, Inv, TypeOK
<1>2. /\ conn' \in [Client -> Connection]
      /\ conn'[c] \in {"shut", "closed", "reset"}
      /\ conn'[c] = "shut" => toClient' = toClient
      /\ \A d \in Client \ {c} : conn'[d] = conn[d]
  BY <1>1 DEF Inv, TypeOK, Connection
<1>3. \A d \in Client :
        toClient'[d] = toClient[d] \/ (d = c /\ toClient'[d] = <<>>)
  BY <1>1 DEF Inv, Streams
<1>4. Streams'
  BY <1>1, NoBytes DEF Inv, Streams
<1>5. TypeOK'
  <2>1. (Sending = (buffer # <<>>) \/ outcome = "killed")'
    BY <1>1 DEF Inv, TypeOK, Sending, server
  <2>2. <<>> \in Seq(1..MaxBytes) /\ Len(<<>>) = 0
    OBVIOUS
  <2>3. \A d \in Client : toClient'[d] \in Seq(1..MaxBytes) /\ Len(toClient'[d]) <= SndBuf
    <3>1. ASSUME NEW d \in Client
          PROVE  toClient[d] \in Seq(1..MaxBytes) /\ Len(toClient[d]) <= SndBuf
      BY DEF Inv, TypeOK
    <3>2. 0 <= SndBuf
      BY Sizes
    <3> QED
      BY <1>3, <2>2, <3>1, <3>2
  <2> QED
    BY <1>1, <1>2, <2>1, <2>3 DEF Inv, TypeOK, server
<1>6. Control'
  <2>1. \A i \in 1..Len(backlog) : backlog[i] \in Client
    BY DEF Inv, TypeOK
  <2> QED
    BY <1>1, <1>2, <2>1 DEF Inv, Control, server
<1>7. NothingLeft'
  BY <1>1, <1>2 DEF Inv, NothingLeft, server
<1>8. Untouched'
  BY <1>1, <1>2, <1>3 DEF Inv, Untouched
<1>9. EchoInOrder'
  <2>1. \A d \in Client : conn'[d] \in {"up", "shut"} =>
          /\ conn[d] \in {"up", "shut"} /\ Pieces(d)' = Pieces(d)
          /\ written'[d] = written[d] /\ lost'[d] = lost[d]
    BY <1>1, <1>2, <1>3 DEF Pieces, Held, server
  <2> QED
    BY <2>1, WholesStay
<1>10. Losses' /\ LossNeedsFullBuffer'
  BY <1>1, NothingIsLost DEF server
<1> QED
  BY <1>4, <1>5, <1>6, <1>7, <1>8, <1>9, <1>10 DEF Inv

-----------------------------------------------------------------------------

LEMMA StutterPreserves ==
  ASSUME Inv, UNCHANGED vars
  PROVE  Inv'
<1>1. UNCHANGED <<pc, outcome, fds, peer, buffer, backlog, conn, streams>>
  BY DEF vars, server
<1>2. TypeOK' /\ Streams'
  <2>1. (Sending = (buffer # <<>>) \/ outcome = "killed")'
    BY <1>1 DEF Inv, TypeOK, Sending
  <2> QED
    BY <1>1, <2>1 DEF Inv, TypeOK, Streams, streams
<1>3. Control' /\ Untouched' /\ NothingLeft'
  BY <1>1 DEF Inv, Control, Untouched, NothingLeft, streams
<1>4. EchoInOrder'
  BY <1>1, NothingMoves
<1>5. Losses' /\ LossNeedsFullBuffer'
  BY <1>1, NothingIsLost DEF streams
<1> QED
  BY <1>2, <1>3, <1>4, <1>5 DEF Inv

LEMMA StepInv == Inv /\ [Next]_vars => Inv'
<1> SUFFICES ASSUME Inv, [Next]_vars PROVE Inv'
  OBVIOUS
<1>1. CASE SetUp
  BY <1>1, CallPreserves
<1>2. CASE SetUpFails
  BY <1>2, WaysOutPreserve
<1>3. CASE Accept
  BY <1>3, AcceptPreserves
<1>4. CASE Loop
  BY <1>4, RecvPreserves, RecvEndsPreserves, SendPreserves, SendIsLost, WaysOutPreserve DEF Loop
<1>5. ASSUME NEW c \in Client, Connect(c) \/ Write(c) \/ Read(c) \/ HangUp(c)
      PROVE  Inv'
  BY <1>5, ConnectPreserves, WritePreserves, ReadPreserves, HangUpPreserves
<1>6. CASE SendShort
  BY <1>6, SendShortPreserves
<1>7. CASE UNCHANGED vars
  BY <1>7, StutterPreserves
<1> QED
  BY <1>1, <1>2, <1>3, <1>4, <1>5, <1>6, <1>7 DEF Next

\* The invariant holds in every behaviour, whatever the fairness.
THEOREM InvHolds == Spec => []Inv
BY InitInv, StepInv, PTL DEF Spec

\* The types; no recv overruns the buffer, and neither the backlog nor a
\* buffer of the kernel outgrows its bound.
THEOREM TypeCorrect == Spec => []TypeOK
<1>1. Inv => TypeOK
  BY DEF Inv
<1> QED
  BY <1>1, InvHolds, PTL

\* While a connection stands, its client's bytes are echoed in the order in
\* which they were written, and but for the rest of each short send all of
\* them are, whatever sizes recv and send work in.
THEOREM EchoInOrderAlways == Spec => []EchoInOrder
<1>1. Inv => EchoInOrder
  BY DEF Inv
<1> QED
  BY <1>1, InvHolds, PTL

\* Stopping the server in a send costs no client a byte that does not write
\* more than one send buffer.
THEOREM LossNeedsFullBufferAlways == Spec => []LossNeedsFullBuffer
<1>1. Inv => LossNeedsFullBuffer
  BY DEF Inv
<1> QED
  BY <1>1, InvHolds, PTL

\* When the server closes after its loop, a client that has only shut down
\* its sending side has everything it wrote, but for the rest of each short
\* send, echoed.
THEOREM DrainedAtEndAlways == Spec => []DrainedAtEnd
<1>1. ASSUME Inv PROVE DrainedAtEnd
  <2>1. SUFFICES ASSUME NEW c \in Client, outcome = "done", peer = c, conn[c] = "shut"
                 PROVE  /\ Ordered(echoed[c] \o toClient[c])
                        /\ Range(echoed[c] \o toClient[c]) = (1..written[c]) \ lost[c]
    BY DEF DrainedAtEnd
  <2>2. toServer[c] = <<>>
    BY <1>1, <2>1 DEF Inv, NothingLeft
  <2>3. buffer = <<>>
    BY <1>1, <2>1, BufferType DEF Inv, Control, Sending
  <2>4. Pieces(c) = Cat(Cat(Cat(echoed[c], toClient[c]), <<>>), <<>>)
    BY <2>1, <2>2, <2>3 DEF Pieces, Held
  <2>5. Cat(echoed[c], toClient[c]) \in Bytes
    BY <1>1, StreamType, ConcatType
  <2>6. Pieces(c) = echoed[c] \o toClient[c]
    BY <2>4, <2>5, NoBytes DEF Cat
  <2>7. InOrder(c)
    BY <1>1, <2>1, EchoIsInOrder DEF Inv
  <2> QED
    BY <2>6, <2>7 DEF InOrder
<1> QED
  BY <1>1, InvHolds, PTL
=============================================================================
