--------------------------- MODULE SnifferProofs ----------------------------
(***************************************************************************)
(* Proofs about Sniffer for all sizes of headers, buffer and frames, all   *)
(* protocols and any number of frames and faults.                          *)
(*                                                                         *)
(* Inv is inductive.  What has arrived is reported, in hand, or waits      *)
(* (Tally), so that the count of packets is the number of the frame; and   *)
(* the beginning of the buffer, as far as the last frame reaches, is the   *)
(* last frame's (BufferIsFrame).  The headers of a complete frame lie in   *)
(* that part, whatever lies behind it (PrintedInFrame).                    *)
(***************************************************************************)
EXTENDS Sniffer, TLAPS

\* The number of the frame received last, 0 before the first.
Received == packet_count + IF pc = "process" THEN 1 ELSE 0

\* Every frame that the queue took was received or waits.
Tally ==
  /\ Received <= arrived
  /\ pc # "ended" => Received + Len(queue) = arrived

\* While main sets up, no frame can arrive.
SetUp == pc \in {"malloc", "socket"} => ~open /\ arrived = 0

\* As far as the last frame reaches, the buffer is that frame.
BufferIsFrame ==
  /\ \A i \in Position : owner[i] <= Received
  /\ pc \in {"process", "recvfrom"} /\ Received > 0 =>
       /\ \A i \in Position : i < frame.size => owner[i] = Received
       /\ ETH < frame.size => iph.ihl = frame.ihl
       /\ ETH + PROTOCOL < frame.size => iph.protocol = frame.protocol

\* The last report is of the last packet.
Reported ==
  /\ report.number = packet_count
  /\ packet_count = 0 => report = NoReport
  /\ pc = "recvfrom" /\ packet_count > 0 /\ Complete(frame) =>
       report.headers = {frame.protocol} /\ report.from = {packet_count}

Inv == TypeOK /\ SetUp /\ Tally /\ BufferIsFrame /\ Reported

-----------------------------------------------------------------------------
(* Sizes.                                                                  *)

LEMMA Sizes ==
  /\ ETH \in Nat /\ ETH > 0 /\ IHL_BYTES \in Nat /\ IHL_BYTES > 0
  /\ MIN_IHL \in Nat /\ MIN_IHL > 0 /\ MAX_IHL \in Nat /\ MIN_IHL <= MAX_IHL
  /\ BUFFER_SIZE \in Nat /\ BUFFER_SIZE > 0
  /\ PROTOCOL \in Nat /\ PROTOCOL < MIN_IHL * IHL_BYTES
  /\ MaxFrames \in Nat /\ MaxFaults \in Nat /\ RcvBuf \in Nat /\ RcvBuf > 0
<1>1. MIN_IHL * IHL_BYTES \in Nat
  BY SnifferAssumption
<1> QED
  BY <1>1, SnifferAssumption

LEMMA TransportSize ==
  ASSUME NEW p \in Protocol
  PROVE  Transport[p] \in Nat /\ ETH + MAX_IHL * IHL_BYTES + Transport[p] <= BUFFER_SIZE
BY SnifferAssumption DEF Protocol

\* More units take at least as many bytes.
LEMMA UnitsMonotonic ==
  ASSUME NEW m \in Nat, NEW n \in Nat, m <= n, NEW u \in Nat
  PROVE  m * u \in Nat /\ n * u \in Nat /\ m * u <= n * u
<1>1. PICK k \in Nat : n = m + k
  <2>1. n - m \in Nat /\ n = m + (n - m)
    OBVIOUS
  <2> QED
    BY <2>1
<1>2. n * u = m * u + k * u /\ k * u \in Nat /\ m * u \in Nat
  BY <1>1
<1> QED
  BY <1>2

LEMMA FrameType ==
  ASSUME NEW f \in Frame
  PROVE  /\ f.size \in Nat /\ f.ihl \in 0..MAX_IHL /\ f.protocol \in Protocol
         /\ f.ip => f.ihl >= MIN_IHL
BY SnifferAssumption DEF Frame

LEMMA SomeFrame == Frame # {}
<1>1. PICK n \in FrameSize, p \in Protocol : TRUE
  BY SnifferAssumption DEF Protocol
<1>2. [size |-> n, ip |-> FALSE, ihl |-> 0, protocol |-> p] \in Frame
  BY <1>1, Sizes DEF Frame
<1> QED
  BY <1>2

\* The report reads no byte outside the buffer, whatever the IHL field holds,
\* and always reads the first one.
LEMMA PrintedInBuffer ==
  ASSUME NEW h \in SUBSET Protocol, iph.ihl \in 0..MAX_IHL
  PROVE  Printed(h) \subseteq Position /\ 0 \in Printed(h)
<1>1. iph.ihl \in Nat /\ iph.ihl <= MAX_IHL
  BY Sizes
<1>2. iph.ihl * IHL_BYTES <= MAX_IHL * IHL_BYTES /\ MIN_IHL * IHL_BYTES <= MAX_IHL * IHL_BYTES
  BY <1>1, Sizes, UnitsMonotonic
<1>3. iph.ihl * IHL_BYTES \in Nat /\ MAX_IHL * IHL_BYTES \in Nat /\ MIN_IHL * IHL_BYTES \in Nat
  BY <1>1, Sizes, UnitsMonotonic
<1> DEFINE a == iph.ihl * IHL_BYTES
           b == MAX_IHL * IHL_BYTES
           c == MIN_IHL * IHL_BYTES
<1>4. a \in Nat /\ b \in Nat /\ c \in Nat /\ a <= b /\ c <= b
  BY <1>2, <1>3
<1> HIDE DEF a, b, c
<1>5. PICK q \in Protocol : TRUE
  BY SnifferAssumption DEF Protocol
<1>6. \A p \in Protocol : Transport[p] \in Nat /\ ETH + b + Transport[p] <= BUFFER_SIZE
  BY TransportSize DEF b
<1>7. Printed(h) = 0..(ETH + c - 1) \cup UNION {{ETH + a + k : k \in 0..(Transport[p] - 1)} : p \in h}
  BY DEF Printed, a, c
<1>8. 0..(ETH + c - 1) \subseteq Position /\ 0 \in 0..(ETH + c - 1)
  BY <1>4, <1>5, <1>6, Sizes DEF Position
<1>9. ASSUME NEW p \in h, NEW k \in 0..(Transport[p] - 1)
      PROVE  ETH + a + k \in Position
  BY <1>4, <1>6, <1>9, Sizes DEF Position
<1> QED
  BY <1>7, <1>8, <1>9

\* The report of a complete frame reads no byte behind the frame.
LEMMA PrintedInFrame ==
  ASSUME NEW f \in Frame, Complete(f), iph.ihl = f.ihl
  PROVE  \A i \in Printed({f.protocol}) : i < f.size
<1> DEFINE a == f.ihl * IHL_BYTES
           c == MIN_IHL * IHL_BYTES
           t == Transport[f.protocol]
<1>1. f.size \in Nat /\ f.ihl \in Nat /\ f.protocol \in Protocol
  BY FrameType, Sizes
<1>2. a \in Nat /\ c \in Nat
  BY <1>1, Sizes, UnitsMonotonic
<1>3. t \in Nat /\ f.size >= ETH + a + t /\ f.size >= ETH + c
  BY <1>1, TransportSize DEF Complete
<1>4. Printed({f.protocol}) = 0..(ETH + c - 1) \cup {ETH + a + k : k \in 0..(t - 1)}
  BY DEF Printed
<1> HIDE DEF a, c, t
<1> QED
  BY <1>1, <1>2, <1>3, <1>4, Sizes

\* A complete frame reaches beyond the fields that are looked at.
LEMMA CompleteReaches ==
  ASSUME NEW f \in Frame, Complete(f)
  PROVE  ETH < f.size /\ ETH + PROTOCOL < f.size
<1> DEFINE c == MIN_IHL * IHL_BYTES
<1>1. f.size \in Nat /\ c \in Nat
  BY FrameType, Sizes, UnitsMonotonic
<1>2. PROTOCOL < c /\ f.size >= ETH + c
  BY Sizes DEF Complete
<1> HIDE DEF c
<1> QED
  BY <1>1, <1>2, Sizes

-----------------------------------------------------------------------------
(* Every step preserves Inv.                                               *)

LEMMA InitInv == Init => Inv
<1>1. SUFFICES ASSUME Init PROVE Inv
  OBVIOUS
<1>2. frame \in Frame
  BY <1>1, SomeFrame DEF Init
<1>3. TypeOK
  <2>1. owner \in [Position -> 0..MaxFrames] /\ data_size \in 0..BUFFER_SIZE
    BY <1>1, Sizes DEF Init
  <2>2. queue \in Seq(Frame) /\ Len(queue) <= RcvBuf
    BY <1>1, Sizes DEF Init
  <2>6. allocated \in BOOLEAN /\ open \in BOOLEAN
    BY <1>1, Zenon DEF Init
  <2>3. report \in [number : 0..MaxFrames, headers : SUBSET Protocol, from : SUBSET (0..MaxFrames)]
    BY <1>1, Sizes DEF Init, NoReport
  <2>4. /\ packet_count \in 0..MaxFrames /\ arrived \in 0..MaxFrames
        /\ dropped \in 0..MaxFrames /\ faults \in 0..MaxFaults
    BY <1>1, Sizes DEF Init
  <2>5. iph \in [ihl : 0..MAX_IHL, protocol : Protocol] /\ pc = "malloc"
    BY <1>1 DEF Init
  <2> QED
    BY <1>2, <2>1, <2>2, <2>3, <2>4, <2>5, <2>6 DEF TypeOK
<1> QED
  BY <1>1, <1>3
  DEF Inv, Init, SetUp, Tally, Received, BufferIsFrame, Reported, NoReport

\* main's set-up: nothing has been received yet, or the program ends.
LEMMA SetUpPreserves == Inv /\ (Malloc \/ Socket) => Inv'
<1>1. SUFFICES ASSUME Inv, Malloc \/ Socket PROVE Inv'
  OBVIOUS
<1>2. UNCHANGED <<queue, buffer, packet_count, report, frame, arrived, dropped>>
  BY <1>1 DEF Malloc, Socket, delivered
<1>3. faults' \in 0..MaxFaults
  BY <1>1, Sizes DEF Malloc, Socket, Fault, Inv, TypeOK
<1>4. /\ pc \in {"malloc", "socket"} /\ pc' \in {"socket", "recvfrom", "ended"}
      /\ pc' = "socket" => ~open'
  <2>1. ~open
    BY <1>1 DEF Malloc, Socket, Inv, SetUp
  <2> QED
    BY <1>1, <2>1 DEF Malloc, Socket
<1>5. TypeOK'
  <2>1. allocated' \in BOOLEAN /\ open' \in BOOLEAN
    BY <1>1, Zenon DEF Malloc, Socket, Inv, TypeOK
  <2> QED
    BY <1>1, <1>2, <1>3, <1>4, <2>1 DEF Inv, TypeOK, buffer
<1>7. Received = packet_count /\ Received' = packet_count
  <2>1. packet_count \in Nat
    BY <1>1, Sizes DEF Inv, TypeOK
  <2> QED
    BY <1>2, <1>4, <2>1 DEF Received
<1>8. arrived = 0 /\ packet_count = 0
  BY <1>1, <1>4, <1>7 DEF Inv, SetUp, Tally, TypeOK
<1>9. Tally' /\ SetUp'
  BY <1>1, <1>2, <1>4, <1>7, <1>8 DEF Inv, Tally, SetUp
<1>10. BufferIsFrame'
  BY <1>1, <1>2, <1>4, <1>7, <1>8 DEF Inv, BufferIsFrame, buffer
<1>11. Reported'
  BY <1>1, <1>2, <1>4, <1>8 DEF Inv, Reported
<1> QED
  BY <1>5, <1>9, <1>10, <1>11 DEF Inv

\* What recvfrom stores is the next frame, and its number is the next.
LEMMA RecvfromPreserves == Inv /\ Recvfrom => Inv'
<1>1. SUFFICES ASSUME Inv, Recvfrom PROVE Inv'
  OBVIOUS
<1> DEFINE f == Head(queue)
           number == arrived - Len(queue) + 1
<1>2. /\ UNCHANGED <<allocated, open, packet_count, report, arrived, dropped, faults>>
      /\ pc = "recvfrom" /\ pc' = "process" /\ queue # <<>> /\ queue' = Tail(queue)
      /\ frame' = f /\ data_size' = Stored(f.size)
      /\ owner' = [i \in Position |-> IF i < f.size THEN number ELSE owner[i]]
      /\ iph' = [ihl |-> IF ETH < f.size THEN f.ihl ELSE iph.ihl,
                 protocol |-> IF ETH + PROTOCOL < f.size THEN f.protocol ELSE iph.protocol]
  BY <1>1 DEF Recvfrom, delivered
<1>3. /\ f \in Frame /\ queue' \in Seq(Frame)
      /\ Len(queue) \in Nat /\ Len(queue) > 0 /\ Len(queue') = Len(queue) - 1
      /\ Len(queue) <= RcvBuf
  BY <1>1, <1>2 DEF Inv, TypeOK
<1>4. f.size \in Nat /\ f.ihl \in 0..MAX_IHL /\ f.protocol \in Protocol
  BY <1>3, FrameType
<1>5. packet_count \in Nat /\ arrived \in Nat /\ arrived <= MaxFrames
  BY <1>1, Sizes DEF Inv, TypeOK
<1>6. Received = packet_count /\ Received' = packet_count + 1
  BY <1>2, <1>5 DEF Received
<1>7. number = packet_count + 1 /\ number <= arrived /\ number \in 0..MaxFrames
  <2>1. packet_count + Len(queue) = arrived
    BY <1>1, <1>2, <1>6 DEF Inv, Tally
  <2> QED
    BY <1>3, <1>5, <2>1, Sizes
<1>8. \A i \in Position : owner[i] \in 0..MaxFrames /\ owner[i] <= packet_count
  BY <1>1, <1>6 DEF Inv, TypeOK, BufferIsFrame
<1> HIDE DEF f, number
<1>9. TypeOK'
  <2>1. owner' \in [Position -> 0..MaxFrames]
    BY <1>2, <1>7, <1>8
  <2>2. iph' \in [ihl : 0..MAX_IHL, protocol : Protocol]
    <3>1. iph.ihl \in 0..MAX_IHL /\ iph.protocol \in Protocol
      BY <1>1 DEF Inv, TypeOK
    <3> QED
      BY <1>2, <1>4, <3>1
  <2>3. data_size' \in 0..BUFFER_SIZE
    BY <1>2, <1>4, Sizes DEF Stored
  <2> QED
    BY <1>1, <1>2, <1>3, <2>1, <2>2, <2>3, Sizes DEF Inv, TypeOK
<1>10. SetUp'
  BY <1>1, <1>2 DEF Inv, SetUp
<1>11. Tally'
  BY <1>1, <1>2, <1>3, <1>5, <1>6, <1>7 DEF Inv, Tally
<1>12. BufferIsFrame'
  <2>1. \A i \in Position :
          owner'[i] = (IF i < f.size THEN number ELSE owner[i]) /\ owner'[i] <= Received'
    BY <1>2, <1>5, <1>6, <1>7, <1>8
  <2> QED
    BY <1>2, <1>6, <1>7, <2>1 DEF BufferIsFrame
<1>13. Reported'
  BY <1>1, <1>2 DEF Inv, Reported
<1> QED
  BY <1>9, <1>10, <1>11, <1>12, <1>13 DEF Inv

LEMMA RecvfromFailsPreserves == Inv /\ RecvfromFails => Inv'
<1>1. SUFFICES ASSUME Inv, RecvfromFails PROVE Inv'
  OBVIOUS
<1>2. /\ UNCHANGED <<buffer, packet_count, report, frame, arrived, dropped>>
      /\ pc = "recvfrom" /\ pc' = "ended" /\ queue' = <<>>
      /\ allocated' = FALSE /\ open' = FALSE
  BY <1>1 DEF RecvfromFails, delivered
<1>3. faults' \in 0..MaxFaults
  BY <1>1, Sizes DEF RecvfromFails, Fault, Inv, TypeOK
<1>4. TypeOK'
  <2>1. queue' \in Seq(Frame) /\ Len(queue') <= RcvBuf
    BY <1>2, Sizes
  <2>2. allocated' \in BOOLEAN /\ open' \in BOOLEAN
    BY <1>2, Zenon
  <2> QED
    BY <1>1, <1>2, <1>3, <2>1, <2>2 DEF Inv, TypeOK, buffer
<1>5. Received' = Received
  BY <1>2 DEF Received
<1> QED
  BY <1>1, <1>2, <1>4, <1>5
  DEF Inv, SetUp, Tally, BufferIsFrame, Reported, buffer

\* The report of a complete frame is made of bytes that are the frame's.
LEMMA ProcessPacketPreserves == Inv /\ ProcessPacket => Inv'
<1>1. SUFFICES ASSUME Inv, ProcessPacket PROVE Inv'
  OBVIOUS
<1> DEFINE h == {iph.protocol}
<1>2. /\ UNCHANGED <<allocated, open, queue, buffer, frame, arrived, dropped, faults>>
      /\ pc = "process" /\ pc' = "recvfrom"
      /\ packet_count' = packet_count + 1
      /\ report' = [number |-> packet_count + 1, headers |-> h,
                    from |-> {owner[i] : i \in Printed(h)}]
  BY <1>1 DEF ProcessPacket, Headers, NextFrame, delivered
<1>3. packet_count \in Nat /\ arrived \in Nat /\ arrived <= MaxFrames
  BY <1>1, Sizes DEF Inv, TypeOK
<1>4. Received = packet_count + 1 /\ Received' = packet_count + 1
  BY <1>2, <1>3 DEF Received
<1>5. packet_count + 1 <= arrived
  BY <1>1, <1>4 DEF Inv, Tally
<1>6. iph.protocol \in Protocol /\ iph.ihl \in 0..MAX_IHL /\ h \in SUBSET Protocol
  BY <1>1 DEF Inv, TypeOK
<1>7. Printed(h) \subseteq Position /\ 0 \in Printed(h)
  BY <1>6, PrintedInBuffer
<1>8. owner \in [Position -> 0..MaxFrames] /\ frame \in Frame
  BY <1>1 DEF Inv, TypeOK
<1>9. TypeOK'
  <2>1. report' \in [number : 0..MaxFrames, headers : SUBSET Protocol, from : SUBSET (0..MaxFrames)]
    <3>1. {owner[i] : i \in Printed(h)} \in SUBSET (0..MaxFrames)
      BY <1>7, <1>8
    <3>2. packet_count + 1 \in 0..MaxFrames
      BY <1>3, <1>5, Sizes
    <3> HIDE DEF h
    <3> QED
      BY <1>2, <1>6, <3>1, <3>2
  <2>2. packet_count' \in 0..MaxFrames
    BY <1>2, <1>3, <1>5, Sizes
  <2> QED
    BY <1>1, <1>2, <2>1, <2>2 DEF Inv, TypeOK, buffer
<1>10. SetUp' /\ Tally' /\ BufferIsFrame'
  BY <1>1, <1>2, <1>4 DEF Inv, SetUp, Tally, BufferIsFrame, buffer
<1>11. Complete(frame) => h = {frame.protocol} /\ {owner[i] : i \in Printed(h)} = {packet_count + 1}
  <2>1. SUFFICES ASSUME Complete(frame)
                 PROVE  h = {frame.protocol} /\ {owner[i] : i \in Printed(h)} = {packet_count + 1}
    OBVIOUS
  <2>2. iph.ihl = frame.ihl /\ iph.protocol = frame.protocol
        /\ \A i \in Position : i < frame.size => owner[i] = packet_count + 1
    BY <1>1, <1>2, <1>3, <1>4, <1>8, <2>1, CompleteReaches DEF Inv, BufferIsFrame
  <2>3. \A i \in Printed(h) : i < frame.size
    BY <1>8, <2>1, <2>2, PrintedInFrame
  <2>4. \A i \in Printed(h) : owner[i] = packet_count + 1
    BY <1>7, <2>2, <2>3
  <2>5. h = {frame.protocol}
    BY <2>2
  <2> HIDE DEF h
  <2> QED
    BY <1>7, <2>4, <2>5
<1>12. Reported'
  <2>1. Complete(frame)' = Complete(frame)
    BY <1>2 DEF Complete
  <2> HIDE DEF h
  <2> QED
    BY <1>2, <1>3, <1>11, <2>1 DEF Reported
<1> QED
  BY <1>9, <1>10, <1>12 DEF Inv

LEMMA ArrivePreserves ==
  ASSUME Inv, NEW f \in Frame, Arrive(f)
  PROVE  Inv'
<1>1. /\ UNCHANGED <<pc, allocated, open, buffer, packet_count, report, frame, dropped, faults>>
      /\ open /\ arrived + dropped < MaxFrames /\ arrived' = arrived + 1
      /\ Len(queue) < RcvBuf
      /\ queue' = Append(queue, f)
  BY DEF Arrive
<1>2. queue' \in Seq(Frame) /\ Len(queue') = Len(queue) + 1 /\ Len(queue) \in Nat
  BY <1>1 DEF Inv, TypeOK
<1>3. arrived' \in 0..MaxFrames /\ arrived \in Nat /\ packet_count \in Nat
  BY <1>1, Sizes DEF Inv, TypeOK
<1>4. TypeOK'
  BY <1>1, <1>2, <1>3, Sizes DEF Inv, TypeOK, buffer
<1>5. Received' = Received /\ Received \in Nat
  BY <1>1, <1>3 DEF Received
<1>6. Tally'
  BY <1>1, <1>2, <1>3, <1>5 DEF Inv, Tally
<1>7. SetUp' /\ BufferIsFrame'
  BY <1>1, <1>5 DEF Inv, SetUp, BufferIsFrame, buffer
<1>8. Reported'
  BY <1>1 DEF Inv, Reported, Complete
<1> QED
  BY <1>4, <1>6, <1>7, <1>8 DEF Inv

LEMMA OverflowPreserves == Inv /\ Overflow => Inv'
<1>1. SUFFICES ASSUME Inv, Overflow PROVE Inv'
  OBVIOUS
<1>2. /\ UNCHANGED <<pc, allocated, open, queue, buffer, packet_count, report, frame, arrived, faults>>
      /\ dropped' = dropped + 1 /\ arrived + dropped < MaxFrames
  BY <1>1 DEF Overflow
<1>3. dropped' \in 0..MaxFrames
  BY <1>1, <1>2, Sizes DEF Inv, TypeOK
<1> QED
  BY <1>1, <1>2, <1>3
  DEF Inv, TypeOK, SetUp, Tally, Received, BufferIsFrame, Reported, Complete, buffer

LEMMA StutterPreserves == Inv /\ UNCHANGED vars => Inv'
BY DEF Inv, vars, buffer, delivered, TypeOK, SetUp, Tally, Received, BufferIsFrame,
       Reported, Complete

LEMMA StepInv == Inv /\ [Next]_vars => Inv'
BY StutterPreserves, SetUpPreserves, RecvfromPreserves, RecvfromFailsPreserves,
   ProcessPacketPreserves, ArrivePreserves, OverflowPreserves
DEF Next

LEMMA InvHolds == Spec => []Inv
BY InitInv, StepInv, PTL DEF Spec

-----------------------------------------------------------------------------
(* What follows.                                                           *)

\* The types, and that recvfrom returns no more than the buffer holds.
THEOREM TypeCorrect == Spec => []TypeOK
<1>1. Inv => TypeOK
  BY DEF Inv
<1> QED
  BY <1>1, InvHolds, PTL

\* The report of a complete frame is made of that frame alone, although
\* process_packet looks neither at its size nor at what the buffer held.
THEOREM ReportIsOfFrameAlways == Spec => []ReportIsOfFrame
<1>1. Inv => ReportIsOfFrame
  <2>1. SUFFICES ASSUME Inv, pc = "recvfrom", report # NoReport, Complete(frame)
                 PROVE  /\ report.number = arrived - Len(queue)
                        /\ report.headers = {frame.protocol}
                        /\ report.from = {report.number}
    BY DEF ReportIsOfFrame
  <2>2. packet_count \in Nat /\ arrived \in Nat /\ Len(queue) \in Nat
    BY <2>1, Sizes DEF Inv, TypeOK
  <2>3. packet_count > 0 /\ report.number = packet_count
    BY <2>1, <2>2 DEF Inv, Reported
  <2>4. packet_count + Len(queue) = arrived
    BY <2>1, <2>2 DEF Inv, Tally, Received
  <2> QED
    BY <2>1, <2>2, <2>3, <2>4 DEF Inv, Reported
<1> QED
  BY <1>1, InvHolds, PTL
=============================================================================
