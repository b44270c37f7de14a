------------------------------ MODULE Sniffer -------------------------------
(***************************************************************************)
(* coding-problems/03_raw_socket_sniffer.c: one buffer, allocated once and *)
(* never cleared, into which recvfrom puts frame after frame, and a report *)
(* that reads Ethernet, IP and transport headers from it without a look at *)
(* the size of the frame or at h_proto.                                    *)
(*                                                                         *)
(* Of the buffer the module keeps which frame each byte belongs to (0 for  *)
(* what malloc returned), and the values of the two fields that decide     *)
(* something: the IHL and the protocol of the IP header.                   *)
(***************************************************************************)
EXTENDS Naturals, Sequences

CONSTANTS
  ETH,            \* sizeof(struct ethhdr) (14 in the code)
  IHL_BYTES,      \* bytes in one unit of the IHL (4)
  MIN_IHL,        \* 5: the IHL of an IP header without options
  MAX_IHL,        \* 15
  PROTOCOL,       \* position of the protocol in the IP header (9)
  Transport,      \* bytes of each transport header that are printed:
                  \* TCP 20, UDP 8, ICMP 4, and 0 for other protocols
  BUFFER_SIZE,    \* 65536
  FrameSize,      \* the sizes of frames
  RcvBuf,         \* bound: frames that the socket's receive queue holds
  MaxFrames,      \* bound: frames that the card delivers
  MaxFaults       \* bound: calls that fail

ASSUME SnifferAssumption ==
  /\ {ETH, IHL_BYTES, MIN_IHL, MAX_IHL, BUFFER_SIZE} \subseteq Nat \ {0}
  /\ MIN_IHL <= MAX_IHL
  /\ PROTOCOL \in 1..(MIN_IHL * IHL_BYTES - 1)
  /\ \A p \in DOMAIN Transport :
       Transport[p] \in Nat /\ ETH + MAX_IHL * IHL_BYTES + Transport[p] <= BUFFER_SIZE
  /\ DOMAIN Transport # {}
  /\ FrameSize \subseteq Nat /\ FrameSize # {}
  /\ RcvBuf \in Nat \ {0} /\ MaxFrames \in Nat /\ MaxFaults \in Nat

Protocol == DOMAIN Transport
Position == 0..(BUFFER_SIZE - 1)

\* The frames of ETH_P_ALL: IPv4, and others, of which anything may lie where
\* IPv4 has its header.
Frame == {f \in [size : FrameSize, ip : BOOLEAN, ihl : 0..MAX_IHL, protocol : Protocol] :
            f.ip => f.ihl >= MIN_IHL}

VARIABLES
  pc,            \* "malloc", "socket", "recvfrom", "process" or "ended"
  allocated,     \* whether the buffer is allocated
  open,          \* whether the socket is open
  queue,         \* frames that wait in the socket
  owner,         \* the frame that each byte of the buffer comes from
  iph,           \* the IHL and the protocol that the buffer holds
  data_size,     \* what recvfrom returned
  packet_count,  \* the static counter of process_packet
  report,        \* what process_packet printed last
  frame,         \* history: the frame received last
  arrived,       \* history: how many frames the queue has taken
  dropped,       \* history: how many frames came when the queue was full
  faults         \* history: calls that have failed

buffer == <<owner, iph, data_size>>
delivered == <<arrived, dropped>>
vars == <<pc, allocated, open, queue, buffer, packet_count, report, frame, delivered, faults>>

NoReport == [number |-> 0, headers |-> {}, from |-> {}]

\* malloc does not clear the buffer.
Init ==
  /\ pc = "malloc"
  /\ allocated = FALSE /\ open = FALSE
  /\ queue = <<>>
  /\ owner = [i \in Position |-> 0]
  /\ iph \in [ihl : 0..MAX_IHL, protocol : Protocol]
  /\ data_size = 0 /\ packet_count = 0
  /\ report = NoReport
  /\ frame = CHOOSE f \in Frame : TRUE
  /\ arrived = 0 /\ dropped = 0 /\ faults = 0

Fault ==
  /\ faults < MaxFaults
  /\ faults' = faults + 1

-----------------------------------------------------------------------------
(* main: set up, and the ways out.                                         *)

Malloc ==
  /\ pc = "malloc"
  /\ \/ pc' = "socket" /\ allocated' = TRUE /\ UNCHANGED faults
     \/ pc' = "ended" /\ Fault /\ UNCHANGED allocated
  /\ UNCHANGED <<open, queue, buffer, packet_count, report, frame, delivered>>

Socket ==
  /\ pc = "socket"
  /\ \/ pc' = "recvfrom" /\ open' = TRUE /\ UNCHANGED <<allocated, faults>>
     \/ pc' = "ended" /\ Fault /\ allocated' = FALSE /\ UNCHANGED open
  /\ UNCHANGED <<queue, buffer, packet_count, report, frame, delivered>>

\* Mutant: the size of the frame is taken for the size of what was stored.
Untruncated(size) == size

\* recvfrom stores no more than it was asked to, and returns what it stored.
Stored(size) == IF size < BUFFER_SIZE THEN size ELSE BUFFER_SIZE

Recvfrom ==
  /\ pc = "recvfrom"
  /\ queue # <<>>
  /\ LET f == Head(queue)
         fields == [ihl |-> f.ihl, protocol |-> f.protocol]
         number == arrived - Len(queue) + 1
     IN  /\ frame' = f
         /\ data_size' = Stored(f.size)
         /\ owner' = [i \in Position |-> IF i < f.size THEN number ELSE owner[i]]
         /\ iph' = [ihl |-> IF ETH < f.size THEN f.ihl ELSE iph.ihl,
                    protocol |-> IF ETH + PROTOCOL < f.size THEN f.protocol
                                 ELSE iph.protocol]
  /\ queue' = Tail(queue)
  /\ pc' = "process"
  /\ UNCHANGED <<allocated, open, packet_count, report, delivered, faults>>

RecvfromFails ==
  /\ pc = "recvfrom"
  /\ Fault
  /\ pc' = "ended"
  /\ open' = FALSE /\ allocated' = FALSE
  /\ queue' = <<>>
  /\ UNCHANGED <<buffer, packet_count, report, frame, delivered>>

-----------------------------------------------------------------------------
(* process_packet.                                                         *)

\* Mutant: a break is missing in the switch.
FallThrough(p) == IF p = "TCP" THEN {"TCP", "UDP"} ELSE {p}

\* The cases of the switch that are executed.
Headers(p) == {p}

\* The bytes that the report of these headers is made of.
Printed(headers) ==
  0..(ETH + MIN_IHL * IHL_BYTES - 1)
    \cup UNION {{ETH + iph.ihl * IHL_BYTES + k : k \in 0..(Transport[p] - 1)} : p \in headers}

\* Mutant: the loop ends at a protocol that the switch does not know.
OnlyKnown == pc' = IF iph.protocol = "Other" THEN "ended" ELSE "recvfrom"

\* while (1)
NextFrame == pc' = "recvfrom"

ProcessPacket ==
  /\ pc = "process"
  /\ packet_count' = packet_count + 1
  /\ report' = [number |-> packet_count',
                headers |-> Headers(iph.protocol),
                from |-> {owner[i] : i \in Printed(Headers(iph.protocol))}]
  /\ NextFrame
  /\ UNCHANGED <<allocated, open, queue, buffer, frame, delivered, faults>>

-----------------------------------------------------------------------------

\* The network card delivers a frame to the open socket, also while main is
\* in process_packet.
Arrive(f) ==
  /\ open
  /\ arrived + dropped < MaxFrames
  /\ Len(queue) < RcvBuf
  /\ queue' = Append(queue, f)
  /\ arrived' = arrived + 1
  /\ UNCHANGED <<pc, allocated, open, buffer, packet_count, report, frame, dropped, faults>>

\* A frame for which the queue has no room is dropped, and nobody is told.
Overflow ==
  /\ open
  /\ arrived + dropped < MaxFrames
  /\ Len(queue) = RcvBuf
  /\ dropped' = dropped + 1
  /\ UNCHANGED <<pc, allocated, open, queue, buffer, packet_count, report, frame, arrived, faults>>

Next ==
  \/ Malloc \/ Socket \/ Recvfrom \/ RecvfromFails \/ ProcessPacket
  \/ Overflow \/ \E f \in Frame : Arrive(f)

\* The program executes its calls; no frame has to arrive.
Spec ==
  /\ Init /\ [][Next]_vars
  /\ WF_vars(Malloc) /\ WF_vars(Socket) /\ WF_vars(Recvfrom) /\ WF_vars(ProcessPacket)

-----------------------------------------------------------------------------
(* Properties.                                                             *)

\* Types, and that recvfrom never reports more than the buffer holds.
TypeOK ==
  /\ pc \in {"malloc", "socket", "recvfrom", "process", "ended"}
  /\ allocated \in BOOLEAN /\ open \in BOOLEAN
  /\ queue \in Seq(Frame) /\ Len(queue) <= RcvBuf
  /\ owner \in [Position -> 0..MaxFrames]
  /\ iph \in [ihl : 0..MAX_IHL, protocol : Protocol]
  /\ data_size \in 0..BUFFER_SIZE
  /\ packet_count \in 0..MaxFrames
  /\ report \in [number : 0..MaxFrames, headers : SUBSET Protocol, from : SUBSET (0..MaxFrames)]
  /\ frame \in Frame
  /\ arrived \in 0..MaxFrames /\ dropped \in 0..MaxFrames /\ faults \in 0..MaxFaults

\* A frame, IPv4 or not, that reaches as far as process_packet reads: to the
\* end of an IP header, and of the transport header that begins where the IHL
\* says it does.
Complete(f) ==
  /\ f.size >= ETH + MIN_IHL * IHL_BYTES
  /\ f.size >= ETH + f.ihl * IHL_BYTES + Transport[f.protocol]

\* Although the buffer still holds what earlier frames and malloc left there,
\* the report of a complete frame, the n-th that the queue took, carries the
\* number n and is made of nothing but that frame.  What is no IP frame is
\* reported as one (line 145), yet from its own bytes; only a frame that is
\* too short gets a report of bytes that are not its own.
ReportIsOfFrame ==
  pc = "recvfrom" /\ report # NoReport /\ Complete(frame) =>
    /\ report.number = arrived - Len(queue)
    /\ report.headers = {frame.protocol}
    /\ report.from = {report.number}

\* Every frame that the queue takes is reported, unless a call fails first:
\* neither a short frame nor one that is not IP stops the loop, and frames
\* that overflow the queue cost none of those in it.
EveryFrameReported ==
  \A n \in 1..MaxFrames : arrived >= n ~> (packet_count >= n \/ faults > 0)
=============================================================================
