-------------------------- MODULE SimpleVpnProofs ---------------------------
(***************************************************************************)
(* Proofs about SimpleVpn for any number of clients, any key, any packet   *)
(* lengths and any number of faults.                                       *)
(*                                                                         *)
(* What carries them is that simple_encrypt undoes itself                  *)
(* (EncryptInvolution): what an endpoint puts on the wire and what the     *)
(* other one makes of it are one-to-one, so that copies can be counted     *)
(* along the way.                                                          *)
(***************************************************************************)
EXTENDS SimpleVpn, TLAPS

-----------------------------------------------------------------------------
(* Encryption.                                                             *)

\* simple_encrypt maps packets to packets of the same length, and applied
\* twice gives the packet back: the receiver may use it to decrypt.
THEOREM EncryptInvolution ==
  ASSUME NEW p \in Packet
  PROVE  simple_encrypt(p) \in Packet /\ simple_encrypt(simple_encrypt(p)) = p
<1>1. PICK n \in Lengths : p \in [1..n -> Bit]
  BY DEF Packet
<1>2. n \in Nat
  BY <1>1, VpnAssumption
<1>3. ASSUME NEW i \in 1..n
      PROVE  shared_key[(i - 1) % KEY_SIZE] \in Bit
  <2>1. (i - 1) \in Nat /\ KEY_SIZE \in Nat /\ KEY_SIZE > 0
    BY <1>2, VpnAssumption
  <2>2. (i - 1) % KEY_SIZE \in 0..(KEY_SIZE - 1)
    BY <2>1, SMT
  <2> QED
    BY <2>2, VpnAssumption
<1>4. ASSUME NEW a \in Bit, NEW k \in Bit
      PROVE  (a + k) % 2 \in Bit /\ (((a + k) % 2) + k) % 2 = a
  BY DEF Bit
<1>5. simple_encrypt(p) = [i \in 1..n |-> (p[i] + shared_key[(i - 1) % KEY_SIZE]) % 2]
  BY <1>1 DEF simple_encrypt
<1>6. simple_encrypt(p) \in [1..n -> Bit]
  BY <1>1, <1>3, <1>4, <1>5
<1>7. simple_encrypt(simple_encrypt(p)) =
        [i \in 1..n |-> (((p[i] + shared_key[(i - 1) % KEY_SIZE]) % 2)
                           + shared_key[(i - 1) % KEY_SIZE]) % 2]
  BY <1>5 DEF simple_encrypt
<1>8. \A i \in 1..n :
        (((p[i] + shared_key[(i - 1) % KEY_SIZE]) % 2)
           + shared_key[(i - 1) % KEY_SIZE]) % 2 = p[i]
  BY <1>1, <1>3, <1>4
<1>9. simple_encrypt(simple_encrypt(p)) = [i \in 1..n |-> p[i]]
  BY <1>7, <1>8
<1> QED
  BY <1>1, <1>6, <1>9 DEF Packet

LEMMA UploadFields ==
  /\ \A d \in Datagram : /\ d.src \in Endpoint /\ d.dst \in Endpoint /\ d.data \in Packet
                         /\ d \in Upload <=> d.dst = Server
                         /\ d \in Upload <=> d.src # Server
  /\ \A m \in Upload : m \in Datagram /\ m.src \in Client /\ m.dst = Server
  BY VpnAssumption DEF Datagram, Upload, Download, Endpoint

\* The datagrams before and after encryption are one-to-one, and keep their
\* ends.
LEMMA SealedOneToOne ==
  ASSUME NEW d \in Datagram
  PROVE  /\ Sealed(d) \in Datagram
         /\ Sealed(Sealed(d)) = d
         /\ Sealed(d).src = d.src /\ Sealed(d).dst = d.dst
         /\ Sealed(d) \in Upload <=> d \in Upload
<1>1. simple_encrypt(d.data) \in Packet /\ simple_encrypt(simple_encrypt(d.data)) = d.data
  BY EncryptInvolution, UploadFields
<1>2. \A x \in Datagram :
        Sealed(x) = [src |-> x.src, dst |-> x.dst, data |-> simple_encrypt(x.data)]
  BY DEF Sealed, Datagram, Upload, Download
<1>3. Sealed(d) \in Datagram
  BY <1>1, <1>2 DEF Datagram, Upload, Download
<1>4. Sealed(Sealed(d)) = [src |-> d.src, dst |-> d.dst, data |-> d.data]
  BY <1>1, <1>2, <1>3
<1>5. d = [src |-> d.src, dst |-> d.dst, data |-> d.data]
  <2>1. CASE d \in Upload
    BY <2>1 DEF Upload
  <2>2. CASE d \in Download
    BY <2>2 DEF Download
  <2> QED
    BY <2>1, <2>2 DEF Datagram
<1> QED
  BY <1>2, <1>3, <1>4, <1>5, UploadFields

-----------------------------------------------------------------------------
(* Bags.                                                                   *)

LEMMA AddBag ==
  ASSUME NEW S, NEW bag \in Bag(S), NEW x \in S
  PROVE  /\ Add(bag, x) \in Bag(S)
         /\ \A y \in S : Add(bag, x)[y] = IF y = x THEN bag[y] + 1 ELSE bag[y]
  BY DEF Bag, Add

LEMMA RemoveBag ==
  ASSUME NEW S, NEW bag \in Bag(S), NEW x \in S, bag[x] > 0
  PROVE  /\ Remove(bag, x) \in Bag(S)
         /\ \A y \in S : Remove(bag, x)[y] = IF y = x THEN bag[y] - 1 ELSE bag[y]
<1>1. bag[x] - 1 \in Nat
  BY DEF Bag
<1> QED
  BY <1>1 DEF Bag, Remove

LEMMA EmptyBag ==
  ASSUME NEW S
  PROVE  Empty(S) \in Bag(S) /\ \A x \in S : Empty(S)[x] = 0
  BY DEF Bag, Empty

\* A clear datagram built from a client or the server and a packet.
LEMMA ClearDatagram ==
  ASSUME NEW c \in Client, NEW p \in Packet
  PROVE  /\ [src |-> c, dst |-> Server, data |-> p] \in Upload
         /\ [src |-> Server, dst |-> c, data |-> p] \in Download
         /\ [src |-> c, dst |-> Server, data |-> p] \in Datagram
         /\ [src |-> Server, dst |-> c, data |-> p] \in Datagram
  BY DEF Upload, Download, Datagram

LEMMA ReplyType == \A p \in Request : p \in Packet /\ Reply(p) \in Packet
<1> SUFFICES ASSUME NEW p \in Request PROVE p \in Packet /\ Reply(p) \in Packet
  OBVIOUS
<1>1. p \in Packet
  BY VpnAssumption
<1>2. PICK n \in Lengths : p \in [1..n -> Bit]
  BY <1>1 DEF Packet
<1>3. 1 \in 1..n
  BY <1>2, VpnAssumption
<1>4. 1 - p[1] \in Bit
  BY <1>2, <1>3 DEF Bit
<1>5. Reply(p) \in [1..n -> Bit]
  BY <1>2, <1>3, <1>4 DEF Reply
<1> QED
  BY <1>1, <1>5 DEF Packet

-----------------------------------------------------------------------------
(* Type correctness.  The bags change in few ways, so the parts of TypeOK   *)
(* are named.                                                              *)

LoopOK ==
  /\ pc \in [Endpoint -> {"select", "tun", "sock"}]
  /\ ready \in [Endpoint -> SUBSET {"tun", "sock"}]
  /\ \A e \in Endpoint :
       IF pc[e] = "select" THEN ready[e] = {} ELSE pc[e] \in ready[e]

ProcessOK ==
  /\ status \in [Endpoint -> {"off", "running", "exited"}]
  /\ configured \in [Endpoint -> SUBSET IpCommand]

TunOK == tunIn \in [Endpoint -> Bag(Packet)]

LEMMA TypeParts ==
  TypeOK <=> /\ ProcessOK
             /\ LoopOK
             /\ TunOK
             /\ wire \in Bag(Datagram) /\ queue \in Bag(Datagram)
             /\ sent \in Bag(Datagram) /\ written \in Bag(Datagram)
             /\ lost \in Bag(Datagram) /\ dups \in Bag(Datagram)
             /\ faults \in 0..MaxFaults
  BY DEF TypeOK, ProcessOK, LoopOK, TunOK

LEMMA FaultType == faults \in 0..MaxFaults /\ Fault => faults' \in 0..MaxFaults
  BY VpnAssumption DEF Fault

\* The ways through the loop: `continue' or the end of the body, the end of
\* the TUN branch, and select.
LEMMA LoopSteps ==
  ASSUME LoopOK, NEW e \in Endpoint
  PROVE  /\ Again(e) => LoopOK'
         /\ pc[e] = "tun" /\ AfterTun(e) => LoopOK'
         /\ Select(e) => LoopOK'
<1>1. ASSUME Again(e) PROVE LoopOK'
  BY <1>1 DEF LoopOK, Again, Goto
<1>2. ASSUME pc[e] = "tun", AfterTun(e) PROVE LoopOK'
  <2>1. CASE "sock" \in ready[e]
    BY <1>2, <2>1 DEF LoopOK, AfterTun, Goto
  <2>2. CASE "sock" \notin ready[e]
    BY <1>1, <1>2, <2>2 DEF AfterTun
  <2> QED
    BY <2>1, <2>2
<1>3. ASSUME Select(e) PROVE LoopOK'
  <2>1. Readable(e) \subseteq {"tun", "sock"} /\ Readable(e) # {}
    BY <1>3 DEF Readable, Select
  <2>2. /\ ready' = [ready EXCEPT ![e] = Readable(e)]
        /\ pc' = [pc EXCEPT ![e] = IF "tun" \in Readable(e) THEN "tun" ELSE "sock"]
    BY <1>3 DEF Select, Goto
  <2>3. "tun" \in Readable(e) \/ "sock" \in Readable(e)
    BY <2>1
  <2> QED
    BY <2>1, <2>2, <2>3 DEF LoopOK
<1> QED
  BY <1>1, <1>2, <1>3

LEMMA TunSteps ==
  ASSUME TunOK, NEW e \in Endpoint, NEW p \in Packet
  PROVE  /\ tunIn' = [tunIn EXCEPT ![e] = Add(@, p)] => TunOK'
         /\ tunIn[e][p] > 0 /\ tunIn' = [tunIn EXCEPT ![e] = Remove(@, p)] => TunOK'
         /\ tunIn' = [tunIn EXCEPT ![e] = Empty(Packet)] => TunOK'
<1>1. tunIn[e] \in Bag(Packet)
  BY DEF TunOK
<1>2. Add(tunIn[e], p) \in Bag(Packet)
  BY <1>1, AddBag
<1>3. tunIn[e][p] > 0 => Remove(tunIn[e], p) \in Bag(Packet)
  BY <1>1, RemoveBag
<1>4. Empty(Packet) \in Bag(Packet)
  BY EmptyBag
<1> QED
  BY <1>2, <1>3, <1>4 DEF TunOK

LEMMA ClosedBags ==
  ASSUME TypeOK, NEW e \in Endpoint, SelectFails(e)
  PROVE  queue' \in Bag(Datagram) /\ lost' \in Bag(Datagram)
<1>1. \A d \in Datagram : /\ queue[d] \in Nat /\ lost[d] \in Nat
                          /\ queue[Sealed(d)] \in Nat
                          /\ tunIn[e][d.data] \in Nat
  BY SealedOneToOne, UploadFields DEF TypeOK, Bag
<1>2. queue' = [d \in Datagram |-> IF d.dst = e THEN 0 ELSE queue[d]]
  BY DEF SelectFails
<1>3. lost' = [d \in Datagram |->
                 lost[d] + (IF d.dst = e THEN queue[Sealed(d)] ELSE 0)
                         + (IF d.src = e /\ d \in Upload THEN tunIn[e][d.data] ELSE 0)]
  BY DEF SelectFails
<1> QED
  BY <1>1, <1>2, <1>3 DEF Bag

LEMMA TypeInit == Init => TypeOK
<1> SUFFICES ASSUME Init PROVE TypeOK
  OBVIOUS
<1>1. Empty(Datagram) \in Bag(Datagram) /\ Empty(Packet) \in Bag(Packet)
  BY EmptyBag
<1>2. LoopOK /\ ProcessOK
  BY DEF Init, LoopOK, ProcessOK
<1> QED
  BY <1>1, <1>2, TypeParts, VpnAssumption DEF Init, TunOK

LEMMA TypeStep == TypeOK /\ [Next]_vars => TypeOK'
<1> SUFFICES ASSUME TypeOK, [Next]_vars PROVE TypeOK'
  OBVIOUS
<1> USE DEF process, loop, history
<1>0. /\ ProcessOK /\ LoopOK /\ TunOK
      /\ wire \in Bag(Datagram) /\ queue \in Bag(Datagram)
      /\ sent \in Bag(Datagram) /\ written \in Bag(Datagram)
      /\ lost \in Bag(Datagram) /\ dups \in Bag(Datagram)
      /\ faults \in 0..MaxFaults
  BY TypeParts
<1>1. ASSUME NEW e \in Endpoint, Start(e) PROVE TypeOK'
  BY <1>0, <1>1, TypeParts DEF Start, ProcessOK, LoopOK, TunOK, TypeOK
<1>2. ASSUME NEW e \in Endpoint, StartFails(e) PROVE TypeOK'
  BY <1>0, <1>2, FaultType DEF StartFails, TypeOK
<1>3. ASSUME NEW e \in Endpoint, SelectFails(e) PROVE TypeOK'
  <2>1. TunOK'
    BY <1>0, <1>3, EmptyBag DEF SelectFails, TunOK
  <2>2. ProcessOK' /\ LoopOK'
    BY <1>0, <1>3 DEF SelectFails, ProcessOK, LoopOK
  <2>3. faults' \in 0..MaxFaults
    BY <1>0, <1>3, FaultType DEF SelectFails
  <2>4. queue' \in Bag(Datagram) /\ lost' \in Bag(Datagram)
    BY <1>3, ClosedBags
  <2>5. UNCHANGED <<wire, sent, written, dups>>
    BY <1>3 DEF SelectFails
  <2> QED
    BY <1>0, <2>1, <2>2, <2>3, <2>4, <2>5 DEF TypeOK, ProcessOK, LoopOK, TunOK
<1>4. ASSUME NEW e \in Endpoint, Select(e) PROVE TypeOK'
  <2>1. LoopOK'
    BY <1>0, <1>4, LoopSteps
  <2>2. UNCHANGED <<process, tunIn, wire, queue, history, faults>>
    BY <1>4 DEF Select
  <2> QED
    BY <1>0, <2>1, <2>2 DEF TypeOK, ProcessOK, LoopOK, TunOK
<1>5. ASSUME NEW e \in Endpoint, ReadFails(e) PROVE TypeOK'
  <2>1. LoopOK' /\ faults' \in 0..MaxFaults
    BY <1>0, <1>5, LoopSteps, FaultType DEF ReadFails
  <2>2. UNCHANGED <<process, tunIn, wire, queue, history>>
    BY <1>5 DEF ReadFails
  <2> QED
    BY <1>0, <2>1, <2>2 DEF TypeOK, ProcessOK, LoopOK, TunOK
<1>6. ASSUME NEW c \in Client, NEW p \in Packet, ClientTunToNet(c, p) PROVE TypeOK'
  <2> DEFINE clear == [src |-> c, dst |-> Server, data |-> p]
  <2>1. c \in Endpoint /\ clear \in Datagram /\ Sealed(clear) \in Datagram
    BY ClearDatagram, SealedOneToOne DEF Endpoint
  <2>2. TunOK'
    BY <1>0, <1>6, <2>1, TunSteps DEF ClientTunToNet
  <2>3. LoopOK'
    BY <1>0, <1>6, <2>1, LoopSteps DEF ClientTunToNet, At
  <2>4. faults' \in 0..MaxFaults
    BY <1>0, <1>6, FaultType DEF ClientTunToNet
  <2>5. wire' \in Bag(Datagram) /\ lost' \in Bag(Datagram)
    BY <1>0, <1>6, <2>1, AddBag DEF ClientTunToNet
  <2>6. UNCHANGED <<process, queue, sent, written, dups>>
    BY <1>6 DEF ClientTunToNet
  <2> QED
    BY <1>0, <2>2, <2>3, <2>4, <2>5, <2>6 DEF TypeOK, ProcessOK, LoopOK, TunOK
<1>7. ASSUME NEW p \in Packet, ServerTunToNet(p) PROVE TypeOK'
  <2>1. Server \in Endpoint
    BY DEF Endpoint
  <2>2. TunOK'
    BY <1>0, <1>7, <2>1, TunSteps DEF ServerTunToNet
  <2>3. LoopOK'
    BY <1>0, <1>7, <2>1, LoopSteps DEF ServerTunToNet, At
  <2>4. UNCHANGED <<process, wire, queue, history, faults>>
    BY <1>7 DEF ServerTunToNet
  <2> QED
    BY <1>0, <2>2, <2>3, <2>4 DEF TypeOK, ProcessOK, LoopOK, TunOK
<1>8. ASSUME NEW e \in Endpoint, NEW d \in Datagram, NetToTun(e, d) PROVE TypeOK'
  <2>1. Sealed(d) \in Datagram
    BY SealedOneToOne
  <2>2. LoopOK'
    BY <1>0, <1>8, LoopSteps DEF NetToTun
  <2>3. queue' \in Bag(Datagram)
    BY <1>0, <1>8, RemoveBag DEF NetToTun
  <2>4. written' \in Bag(Datagram) /\ lost' \in Bag(Datagram)
    BY <1>0, <1>8, <2>1, AddBag DEF NetToTun, Received
  <2>5. faults' \in 0..MaxFaults
    BY <1>0, <1>8, FaultType DEF NetToTun
  <2>6. UNCHANGED <<process, tunIn, wire, sent, dups>>
    BY <1>8 DEF NetToTun
  <2> QED
    BY <1>0, <2>2, <2>3, <2>4, <2>5, <2>6 DEF TypeOK, ProcessOK, LoopOK, TunOK
<1>9. ASSUME NEW c \in Client, NEW p \in Request, HostSends(c, p) PROVE TypeOK'
  <2>1. p \in Packet /\ c \in Endpoint
    BY ReplyType DEF Endpoint
  <2>2. TunOK'
    BY <1>0, <1>9, <2>1, TunSteps DEF HostSends
  <2>3. sent' \in Bag(Datagram)
    BY <1>0, <1>9, <2>1, AddBag, ClearDatagram DEF HostSends
  <2>4. UNCHANGED <<process, loop, wire, queue, written, lost, dups, faults>>
    BY <1>9 DEF HostSends
  <2> QED
    BY <1>0, <2>2, <2>3, <2>4 DEF TypeOK, ProcessOK, LoopOK, TunOK
<1>10. ASSUME NEW c \in Client, NEW p \in Request, HostReplies(c, p) PROVE TypeOK'
  <2>1. Reply(p) \in Packet /\ Server \in Endpoint
    BY ReplyType DEF Endpoint
  <2>2. TunOK'
    BY <1>0, <1>10, <2>1, TunSteps DEF HostReplies
  <2>3. UNCHANGED <<process, loop, wire, queue, history, faults>>
    BY <1>10 DEF HostReplies
  <2> QED
    BY <1>0, <2>2, <2>3 DEF TypeOK, ProcessOK, LoopOK, TunOK
<1>11. ASSUME NEW d \in Datagram, Arrive(d) PROVE TypeOK'
  <2>1. wire' \in Bag(Datagram) /\ queue' \in Bag(Datagram)
    BY <1>0, <1>11, AddBag, RemoveBag DEF Arrive
  <2> QED
    BY <1>0, <1>11, <2>1 DEF Arrive, TypeOK, ProcessOK, LoopOK, TunOK
<1>12. ASSUME NEW d \in Datagram, LoseOnWire(d) PROVE TypeOK'
  <2>1. wire' \in Bag(Datagram) /\ lost' \in Bag(Datagram) /\ faults' \in 0..MaxFaults
    BY <1>0, <1>12, AddBag, RemoveBag, SealedOneToOne, FaultType DEF LoseOnWire
  <2> QED
    BY <1>0, <1>12, <2>1 DEF LoseOnWire, TypeOK, ProcessOK, LoopOK, TunOK
<1>13. ASSUME NEW d \in Datagram, RepeatOnWire(d) PROVE TypeOK'
  <2>1. wire' \in Bag(Datagram) /\ dups' \in Bag(Datagram) /\ faults' \in 0..MaxFaults
    BY <1>0, <1>13, AddBag, SealedOneToOne, FaultType DEF RepeatOnWire
  <2> QED
    BY <1>0, <1>13, <2>1 DEF RepeatOnWire, TypeOK, ProcessOK, LoopOK, TunOK
<1>14. CASE UNCHANGED vars
  BY <1>14 DEF vars, TypeOK
<1>15. ASSUME NEW e \in Endpoint, Body(e) PROVE TypeOK'
  BY <1>5, <1>6, <1>7, <1>8, <1>15 DEF Body, Endpoint
<1>16. ASSUME NEW d \in Datagram, Network(d) PROVE TypeOK'
  BY <1>11, <1>12, <1>13, <1>16 DEF Network
<1> QED
  BY <1>1, <1>2, <1>3, <1>4, <1>9, <1>10, <1>14, <1>15, <1>16 DEF Next

\* Every queue and every count stays a bag, faults stay within their budget,
\* and a branch of a loop runs only when select reported its descriptor.
THEOREM TypeCorrect == Spec => []TypeOK
<1> QED
  BY TypeInit, TypeStep, PTL DEF Spec

-----------------------------------------------------------------------------
(* What each step does to the copies of an upload.  Both Conservation and  *)
(* the refinement follow from these lemmas.                                *)

One(b) == IF b THEN 1 ELSE 0

LEMMA AddAt ==
  ASSUME NEW S, NEW bag \in Bag(S), NEW x \in S, NEW y \in S
  PROVE  Add(bag, x)[y] = bag[y] + One(y = x) /\ bag[y] \in Nat
<1>1. bag[y] \in Nat
  BY DEF Bag
<1>2. Add(bag, x)[y] = IF y = x THEN bag[y] + 1 ELSE bag[y]
  BY AddBag
<1> QED
  BY <1>1, <1>2 DEF One

LEMMA RemoveAt ==
  ASSUME NEW S, NEW bag \in Bag(S), NEW x \in S, bag[x] > 0, NEW y \in S
  PROVE  Remove(bag, x)[y] = bag[y] - One(y = x) /\ bag[y] \in Nat
<1>1. bag[y] \in Nat
  BY DEF Bag
<1>2. Remove(bag, x)[y] = IF y = x THEN bag[y] - 1 ELSE bag[y]
  BY RemoveBag
<1> QED
  BY <1>1, <1>2 DEF One

LEMMA SealedSwap ==
  ASSUME NEW m \in Datagram, NEW d \in Datagram
  PROVE  Sealed(m) = d <=> m = Sealed(d)
  BY SealedOneToOne

\* The counts that Conservation speaks of, for an upload m.
LEMMA Counts ==
  ASSUME TypeOK, NEW m \in Upload
  PROVE  /\ m \in Datagram /\ Sealed(m) \in Datagram
         /\ m.src \in Client /\ m.src \in Endpoint /\ m.src # Server /\ m.dst = Server
         /\ m.data \in Packet
         /\ m = [src |-> m.src, dst |-> Server, data |-> m.data]
         /\ tunIn[m.src] \in Bag(Packet) /\ tunIn[m.src][m.data] \in Nat
         /\ wire[Sealed(m)] \in Nat /\ queue[Sealed(m)] \in Nat
         /\ Transit(m) \in Nat
         /\ sent[m] \in Nat /\ written[m] \in Nat /\ lost[m] \in Nat /\ dups[m] \in Nat
<1>1. m \in Datagram /\ Sealed(m) \in Datagram
  BY UploadFields, SealedOneToOne
<1>2. m.src \in Client /\ m.src \in Endpoint /\ m.src # Server /\ m.dst = Server
      /\ m.data \in Packet
  BY <1>1, UploadFields
<1>3. tunIn[m.src] \in Bag(Packet) /\ tunIn[m.src][m.data] \in Nat
  BY <1>2 DEF TypeOK, Bag
<1>4. /\ wire[Sealed(m)] \in Nat /\ queue[Sealed(m)] \in Nat
      /\ sent[m] \in Nat /\ written[m] \in Nat /\ lost[m] \in Nat /\ dups[m] \in Nat
  BY <1>1 DEF TypeOK, Bag
<1>5. m = [src |-> m.src, dst |-> Server, data |-> m.data]
  BY DEF Upload
<1> QED
  BY <1>1, <1>2, <1>3, <1>4, <1>5 DEF Transit

LEMMA HostSendsEffect ==
  ASSUME TypeOK, NEW c \in Client, NEW p \in Request, HostSends(c, p), NEW m \in Upload
  PROVE  LET clear == [src |-> c, dst |-> Server, data |-> p]
         IN  /\ Transit(m)' = Transit(m) + One(m = clear)
             /\ sent'[m] = sent[m] + One(m = clear)
             /\ UNCHANGED <<written, lost, dups>>
<1> DEFINE clear == [src |-> c, dst |-> Server, data |-> p]
<1>1. p \in Packet /\ c \in Endpoint /\ clear \in Datagram
  BY ReplyType, ClearDatagram DEF Endpoint
<1>2. sent'[m] = sent[m] + One(m = clear)
  <2>1. sent' = Add(sent, clear)
    BY DEF HostSends
  <2>2. m \in Datagram /\ sent \in Bag(Datagram)
    BY Counts, TypeParts
  <2> QED
    BY <1>1, <2>1, <2>2, AddAt
<1>3. /\ tunIn' = [tunIn EXCEPT ![c] = Add(tunIn[c], p)]
      /\ UNCHANGED <<wire, queue, written, lost, dups>>
  BY DEF HostSends
<1>4. m = clear <=> m.src = c /\ m.data = p
  BY Counts
<1>5. tunIn'[m.src][m.data] = tunIn[m.src][m.data] + One(m = clear)
  <2>1. CASE m.src = c
    <3>1. tunIn'[m.src] = Add(tunIn[m.src], p)
      BY <1>1, <1>3, <2>1 DEF TypeOK
    <3>2. m.data \in Packet /\ tunIn[m.src] \in Bag(Packet)
      BY Counts
    <3>3. One(m.data = p) = One(m = clear)
      BY <1>4, <2>1
    <3> QED
      BY <1>1, <3>1, <3>2, <3>3, AddAt
  <2>2. CASE m.src # c
    BY <1>1, <1>3, <1>4, <2>2, Counts DEF TypeOK, One
  <2> QED
    BY <2>1, <2>2
<1>6. Transit(m)' = Transit(m) + One(m = clear)
  BY <1>3, <1>5, Counts DEF Transit, One
<1> QED
  BY <1>2, <1>3, <1>6

\* A reply enters the server's TUN interface, which no upload is in.
LEMMA HostRepliesEffect ==
  ASSUME TypeOK, NEW c \in Client, NEW p \in Request, HostReplies(c, p), NEW m \in Upload
  PROVE  Transit(m)' = Transit(m) /\ UNCHANGED history
<1>1. tunIn'[m.src] = tunIn[m.src] /\ UNCHANGED <<wire, queue, history>>
  BY Counts DEF HostReplies, TypeOK
<1> QED
  BY <1>1 DEF Transit

\* The TUN branch moves a packet from the TUN interface to the wire, or
\* reports that it did not.
LEMMA ClientTunToNetEffect ==
  ASSUME TypeOK, NEW c \in Client, NEW p \in Packet, ClientTunToNet(c, p), NEW m \in Upload
  PROVE  LET clear == [src |-> c, dst |-> Server, data |-> p]
         IN  /\ UNCHANGED <<sent, written, dups>>
             /\ \/ Transit(m)' = Transit(m) /\ lost' = lost
                \/ /\ Transit(m)' = Transit(m) - One(m = clear)
                   /\ lost'[m] = lost[m] + One(m = clear)
                   /\ wire' = wire
<1> DEFINE clear == [src |-> c, dst |-> Server, data |-> p]
<1>1. clear \in Datagram /\ c \in Endpoint /\ Sealed(clear) \in Datagram
  BY ClearDatagram, SealedOneToOne DEF Endpoint
<1>2. m = clear <=> m.src = c /\ m.data = p
  BY Counts
<1>3. /\ tunIn' = [tunIn EXCEPT ![c] = Remove(tunIn[c], p)]
      /\ tunIn[c][p] > 0
      /\ UNCHANGED <<queue, sent, written, dups>>
  BY DEF ClientTunToNet
<1>4. tunIn'[m.src][m.data] = tunIn[m.src][m.data] - One(m = clear)
  <2>1. CASE m.src = c
    BY <1>1, <1>2, <1>3, <2>1, Counts, RemoveBag DEF TypeOK, One
  <2>2. CASE m.src # c
    BY <1>1, <1>2, <1>3, <2>2, Counts DEF TypeOK, One
  <2> QED
    BY <2>1, <2>2
<1>5. CASE wire' = Add(wire, Sealed(clear)) /\ lost' = lost
  <2>1. Sealed(m) = Sealed(clear) <=> m = clear
    BY <1>1, Counts, SealedOneToOne
  <2>2. wire'[Sealed(m)] = wire[Sealed(m)] + One(m = clear)
    <3>1. Sealed(m) \in Datagram /\ wire \in Bag(Datagram)
      BY Counts, TypeParts
    <3>2. wire'[Sealed(m)] = wire[Sealed(m)] + One(Sealed(m) = Sealed(clear))
      BY <1>1, <1>5, <3>1, AddAt
    <3> QED
      BY <2>1, <3>2 DEF One
  <2>3. Transit(m)' = Transit(m)
    BY <1>3, <1>4, <2>2, Counts DEF Transit, One
  <2> QED
    BY <1>3, <1>5, <2>3
<1>6. CASE lost' = Add(lost, clear) /\ wire' = wire
  <2>1. lost'[m] = lost[m] + One(m = clear)
    <3>1. m \in Datagram /\ lost \in Bag(Datagram)
      BY Counts, TypeParts
    <3> QED
      BY <1>1, <1>6, <3>1, AddAt
  <2>2. Transit(m)' = Transit(m) - One(m = clear)
    BY <1>3, <1>4, <1>6, Counts DEF Transit, One
  <2> QED
    BY <1>3, <1>6, <2>1, <2>2
<1> QED
  BY <1>5, <1>6 DEF ClientTunToNet

LEMMA ServerTunToNetEffect ==
  ASSUME TypeOK, NEW p \in Packet, ServerTunToNet(p), NEW m \in Upload
  PROVE  Transit(m)' = Transit(m) /\ UNCHANGED history
<1>1. tunIn'[m.src] = tunIn[m.src] /\ UNCHANGED <<wire, queue, history>>
  BY Counts DEF ServerTunToNet, TypeOK
<1> QED
  BY <1>1 DEF Transit

\* The socket branch takes a copy out of the tunnel, and writes or loses it.
LEMMA NetToTunEffect ==
  ASSUME TypeOK, NEW e \in Endpoint, NEW d \in Datagram, NetToTun(e, d), NEW m \in Upload
  PROVE  /\ UNCHANGED <<sent, dups>>
         /\ Transit(m)' = Transit(m) - One(m = Sealed(d))
         /\ \/ written'[m] = written[m] + One(m = Sealed(d)) /\ lost' = lost
               /\ written' = Add(written, Sealed(d))
            \/ lost'[m] = lost[m] + One(m = Sealed(d)) /\ written' = written
<1>1. Sealed(d) \in Datagram
  BY SealedOneToOne
<1>2. /\ UNCHANGED <<tunIn, wire, sent, dups>>
      /\ queue[d] > 0
      /\ queue' = Remove(queue, d)
  BY DEF NetToTun
<1>3. Sealed(m) = d <=> m = Sealed(d)
  BY Counts, SealedSwap
<1>4. queue'[Sealed(m)] = queue[Sealed(m)] - One(m = Sealed(d))
  BY <1>2, <1>3, Counts, RemoveBag DEF TypeOK, One
<1>5. Transit(m)' = Transit(m) - One(m = Sealed(d))
  BY <1>2, <1>4, Counts DEF Transit, One
<1>6. \/ written' = Add(written, Sealed(d)) /\ lost' = lost
      \/ lost' = Add(lost, Sealed(d)) /\ written' = written
  BY DEF NetToTun, Received
<1>7. /\ Add(written, Sealed(d))[m] = written[m] + One(m = Sealed(d))
      /\ Add(lost, Sealed(d))[m] = lost[m] + One(m = Sealed(d))
  <2>1. m \in Datagram /\ written \in Bag(Datagram) /\ lost \in Bag(Datagram)
    BY Counts, TypeParts
  <2> QED
    BY <1>1, <2>1, AddAt
<1> QED
  BY <1>2, <1>5, <1>6, <1>7

LEMMA ArriveEffect ==
  ASSUME TypeOK, NEW d \in Datagram, Arrive(d), NEW m \in Upload
  PROVE  Transit(m)' = Transit(m) /\ UNCHANGED history
<1>1. /\ wire[d] > 0 /\ wire' = Remove(wire, d) /\ queue' = Add(queue, d)
      /\ UNCHANGED <<tunIn, history>>
  BY DEF Arrive
<1>2. /\ wire'[Sealed(m)] = wire[Sealed(m)] - One(Sealed(m) = d)
      /\ queue'[Sealed(m)] = queue[Sealed(m)] + One(Sealed(m) = d)
  <2>1. /\ Sealed(m) \in Datagram
        /\ wire \in Bag(Datagram) /\ queue \in Bag(Datagram)
    BY Counts, TypeParts
  <2>2. wire'[Sealed(m)] = wire[Sealed(m)] - One(Sealed(m) = d)
    BY <1>1, <2>1, RemoveAt
  <2>3. queue'[Sealed(m)] = queue[Sealed(m)] + One(Sealed(m) = d)
    BY <1>1, <2>1, AddAt
  <2> QED
    BY <2>2, <2>3
<1> QED
  BY <1>1, <1>2, Counts DEF Transit, One

LEMMA LoseOnWireEffect ==
  ASSUME TypeOK, NEW d \in Datagram, LoseOnWire(d), NEW m \in Upload
  PROVE  /\ Transit(m)' = Transit(m) - One(m = Sealed(d))
         /\ lost'[m] = lost[m] + One(m = Sealed(d))
         /\ UNCHANGED <<sent, written, dups>>
<1>1. /\ wire[d] > 0 /\ wire' = Remove(wire, d) /\ lost' = Add(lost, Sealed(d))
      /\ UNCHANGED <<tunIn, queue, sent, written, dups>>
  BY DEF LoseOnWire
<1>2. Sealed(d) \in Datagram /\ (Sealed(m) = d <=> m = Sealed(d))
  BY Counts, SealedSwap, SealedOneToOne
<1>3. /\ wire'[Sealed(m)] = wire[Sealed(m)] - One(m = Sealed(d))
      /\ lost'[m] = lost[m] + One(m = Sealed(d))
  <2>1. /\ m \in Datagram /\ Sealed(m) \in Datagram
        /\ wire \in Bag(Datagram) /\ lost \in Bag(Datagram)
    BY Counts, TypeParts
  <2>2. wire'[Sealed(m)] = wire[Sealed(m)] - One(Sealed(m) = d)
    BY <1>1, <2>1, RemoveAt
  <2>3. lost'[m] = lost[m] + One(m = Sealed(d))
    BY <1>1, <1>2, <2>1, AddAt
  <2> QED
    BY <1>2, <2>2, <2>3 DEF One
<1> QED
  BY <1>1, <1>3, Counts DEF Transit, One

LEMMA RepeatOnWireEffect ==
  ASSUME TypeOK, NEW d \in Datagram, RepeatOnWire(d), NEW m \in Upload
  PROVE  /\ Transit(m)' = Transit(m) + One(m = Sealed(d))
         /\ m = Sealed(d) => Transit(m) > 0
         /\ dups'[m] = dups[m] + One(m = Sealed(d))
         /\ UNCHANGED <<sent, written, lost>>
<1>1. /\ wire[d] > 0 /\ wire' = Add(wire, d) /\ dups' = Add(dups, Sealed(d))
      /\ UNCHANGED <<tunIn, queue, sent, written, lost>>
  BY DEF RepeatOnWire
<1>2. Sealed(d) \in Datagram /\ (Sealed(m) = d <=> m = Sealed(d))
  BY Counts, SealedSwap, SealedOneToOne
<1>3. /\ wire'[Sealed(m)] = wire[Sealed(m)] + One(m = Sealed(d))
      /\ dups'[m] = dups[m] + One(m = Sealed(d))
  <2>1. /\ m \in Datagram /\ Sealed(m) \in Datagram
        /\ wire \in Bag(Datagram) /\ dups \in Bag(Datagram)
    BY Counts, TypeParts
  <2>2. wire'[Sealed(m)] = wire[Sealed(m)] + One(Sealed(m) = d)
    BY <1>1, <2>1, AddAt
  <2>3. dups'[m] = dups[m] + One(m = Sealed(d))
    BY <1>1, <1>2, <2>1, AddAt
  <2> QED
    BY <1>2, <2>2, <2>3 DEF One
<1> QED
  BY <1>1, <1>2, <1>3, Counts DEF Transit, One

\* A loop that ends takes with it what the kernel kept for its descriptors.
LEMMA SelectFailsEffect ==
  ASSUME TypeOK, NEW e \in Endpoint, SelectFails(e), NEW m \in Upload
  PROVE  /\ Transit(m)' \in Nat /\ Transit(m)' <= Transit(m)
         /\ Transit(m)' + lost'[m] = Transit(m) + lost[m]
         /\ UNCHANGED <<sent, written, dups>>
<1>1. /\ tunIn' = [tunIn EXCEPT ![e] = Empty(Packet)]
      /\ queue' = [d \in Datagram |-> IF d.dst = e THEN 0 ELSE queue[d]]
      /\ UNCHANGED <<wire, sent, written, dups>>
  BY DEF SelectFails
<1>2. lost' = [d \in Datagram |->
                 lost[d] + (IF d.dst = e THEN queue[Sealed(d)] ELSE 0)
                         + (IF d.src = e /\ d \in Upload THEN tunIn[e][d.data] ELSE 0)]
  BY DEF SelectFails
<1>3. Sealed(m).dst = Server
  BY Counts, SealedOneToOne
<1>4. queue'[Sealed(m)] = IF e = Server THEN 0 ELSE queue[Sealed(m)]
  BY <1>1, <1>3, Counts
<1>5. tunIn'[m.src][m.data] = IF e = m.src THEN 0 ELSE tunIn[m.src][m.data]
  BY <1>1, Counts, EmptyBag DEF TypeOK
<1>6. lost'[m] = lost[m] + (IF e = Server THEN queue[Sealed(m)] ELSE 0)
                         + (IF e = m.src THEN tunIn[m.src][m.data] ELSE 0)
  BY <1>2, Counts
<1> QED
  BY <1>1, <1>4, <1>5, <1>6, Counts DEF Transit

-----------------------------------------------------------------------------
(* Conservation.                                                           *)

Conserved(m) == sent[m] + dups[m] = Transit(m) + written[m] + lost[m]

\* A step that leaves every count alone.
LEMMA QuietEffect ==
  ASSUME UNCHANGED <<tunIn, wire, queue, history>>, NEW m \in Upload
  PROVE  Transit(m)' = Transit(m) /\ UNCHANGED history
  BY DEF Transit

\* Every step, by what it does to the counts of m.
LEMMA ConservedStep ==
  ASSUME TypeOK, [Next]_vars, NEW m \in Upload, Conserved(m)
  PROVE  Conserved(m)'
<1> USE DEF history
<1>0. /\ Transit(m) \in Nat /\ sent[m] \in Nat /\ dups[m] \in Nat
      /\ written[m] \in Nat /\ lost[m] \in Nat
  BY Counts
<1>1. CASE Transit(m)' = Transit(m) /\ UNCHANGED history
  BY <1>1 DEF Conserved
<1>2. ASSUME NEW e \in Endpoint, SelectFails(e) PROVE Conserved(m)'
  <2>1. lost'[m] \in Nat
    <3>1. lost' \in Bag(Datagram)
      BY <1>2, ClosedBags
    <3> QED
      BY <3>1, Counts DEF Bag
  <2> QED
    BY <1>0, <1>2, <2>1, SelectFailsEffect DEF Conserved
<1>3. ASSUME NEW c \in Client, NEW p \in Packet, ClientTunToNet(c, p) PROVE Conserved(m)'
  BY <1>0, <1>3, ClientTunToNetEffect DEF Conserved, One
<1>4. ASSUME NEW p \in Packet, ServerTunToNet(p) PROVE Conserved(m)'
  BY <1>1, <1>4, ServerTunToNetEffect
<1>5. ASSUME NEW e \in Endpoint, NEW d \in Datagram, NetToTun(e, d) PROVE Conserved(m)'
  BY <1>0, <1>5, NetToTunEffect DEF Conserved, One
<1>6. ASSUME NEW c \in Client, NEW p \in Request, HostSends(c, p) PROVE Conserved(m)'
  BY <1>0, <1>6, HostSendsEffect DEF Conserved, One
<1>7. ASSUME NEW c \in Client, NEW p \in Request, HostReplies(c, p) PROVE Conserved(m)'
  BY <1>0, <1>7, HostRepliesEffect DEF Conserved, history
<1>8. ASSUME NEW d \in Datagram, Arrive(d) PROVE Conserved(m)'
  BY <1>1, <1>8, ArriveEffect
<1>9. ASSUME NEW d \in Datagram, LoseOnWire(d) PROVE Conserved(m)'
  BY <1>0, <1>9, LoseOnWireEffect DEF Conserved, One
<1>10. ASSUME NEW d \in Datagram, RepeatOnWire(d) PROVE Conserved(m)'
  BY <1>0, <1>10, RepeatOnWireEffect DEF Conserved, One
<1>11. ASSUME NEW e \in Endpoint, Start(e) \/ StartFails(e) \/ Select(e) \/ ReadFails(e)
       PROVE  Conserved(m)'
  BY <1>1, <1>11, QuietEffect DEF Start, StartFails, Select, ReadFails
<1>12. CASE UNCHANGED vars
  BY <1>1, <1>12, QuietEffect DEF vars
<1>13. ASSUME NEW e \in Endpoint, Body(e) PROVE Conserved(m)'
  BY <1>3, <1>4, <1>5, <1>11, <1>13 DEF Body, Endpoint
<1>14. ASSUME NEW d \in Datagram, Network(d) PROVE Conserved(m)'
  BY <1>8, <1>9, <1>10, <1>14 DEF Network
<1> QED
  BY <1>2, <1>6, <1>7, <1>11, <1>12, <1>13, <1>14 DEF Next

LEMMA ConservationStep == TypeOK /\ Conservation /\ [Next]_vars => Conservation'
  BY ConservedStep DEF Conservation, Conserved

LEMMA NothingAtFirst ==
  ASSUME Init, NEW m \in Upload
  PROVE  Transit(m) = 0 /\ sent[m] = 0 /\ written[m] = 0 /\ lost[m] = 0 /\ dups[m] = 0
<1>1. TypeOK
  BY TypeInit
<1>2. m \in Datagram /\ Sealed(m) \in Datagram /\ m.src \in Endpoint /\ m.data \in Packet
  BY <1>1, Counts
<1> QED
  BY <1>2 DEF Init, Empty, Transit

\* From a client's host to the server's, no packet appears, disappears or
\* changes a bit.
THEOREM ConservationAlways == Spec => []Conservation
<1>1. Init => Conservation
  BY NothingAtFirst DEF Conservation
<1> QED
  BY <1>1, ConservationStep, TypeCorrect, PTL DEF Spec

-----------------------------------------------------------------------------
(* The loop never waits in read or recvfrom.                               *)

QueueFor(e) == \E d \in Datagram : d.dst = e /\ queue[d] > 0

\* What select said stays true until the branch has run, because only the
\* process itself takes anything out of its own queues.
FdsTrue ==
  \A e \in Endpoint :
    /\ pc[e] = "tun" => \E p \in Packet : tunIn[e][p] > 0
    /\ "sock" \in ready[e] => QueueFor(e)

LEMMA FdsImply == TypeOK /\ FdsTrue => NeverBlocks
  BY DEF TypeOK, FdsTrue, NeverBlocks, QueueFor, At

\* Two facts that most steps keep for an endpoint e: its branches did not
\* move, and what its queues hold did not shrink.
LEMMA FdsKept ==
  ASSUME NEW e \in Endpoint,
         pc[e] = "tun" => \E p \in Packet : tunIn[e][p] > 0,
         "sock" \in ready[e] => QueueFor(e),
         pc'[e] = pc[e], ready'[e] = ready[e],
         \A p \in Packet : tunIn[e][p] > 0 => tunIn'[e][p] > 0,
         \A d \in Datagram : d.dst = e /\ queue[d] > 0 => queue'[d] > 0
  PROVE  /\ pc'[e] = "tun" => \E p \in Packet : tunIn'[e][p] > 0
         /\ "sock" \in ready'[e] => QueueFor(e)'
  BY DEF QueueFor

FdsTrueAt(e) ==
  /\ pc[e] = "tun" => \E p \in Packet : tunIn[e][p] > 0
  /\ "sock" \in ready[e] => QueueFor(e)

\* `continue' and the end of the TUN branch.
LEMMA FdsAgain ==
  ASSUME LoopOK, NEW e \in Endpoint, Again(e)
  PROVE  FdsTrueAt(e)'
  BY DEF Again, Goto, LoopOK, FdsTrueAt

LEMMA FdsAfterTun ==
  ASSUME LoopOK, NEW e \in Endpoint, FdsTrueAt(e), AfterTun(e), queue' = queue
  PROVE  FdsTrueAt(e)'
<1>1. CASE "sock" \in ready[e]
  BY <1>1 DEF AfterTun, Goto, LoopOK, FdsTrueAt, QueueFor
<1>2. CASE "sock" \notin ready[e]
  BY <1>2, FdsAgain DEF AfterTun
<1> QED
  BY <1>1, <1>2

\* A step of another endpoint's loop.
LEMMA OtherLoop ==
  ASSUME LoopOK, NEW e \in Endpoint, NEW f \in Endpoint, e # f
  PROVE  /\ Again(f) => pc'[e] = pc[e] /\ ready'[e] = ready[e]
         /\ AfterTun(f) => pc'[e] = pc[e] /\ ready'[e] = ready[e]
         /\ Select(f) => pc'[e] = pc[e] /\ ready'[e] = ready[e]
  BY DEF LoopOK, Again, AfterTun, Select, Goto

LEMMA FdsStep ==
  ASSUME TypeOK, [Next]_vars, NEW e \in Endpoint, FdsTrueAt(e)
  PROVE  FdsTrueAt(e)'
<1> USE DEF loop
<1>0. /\ LoopOK /\ TunOK
      /\ queue \in Bag(Datagram) /\ wire \in Bag(Datagram)
  BY TypeParts
<1>1. ASSUME pc'[e] = pc[e], ready'[e] = ready[e],
             \A p \in Packet : tunIn[e][p] > 0 => tunIn'[e][p] > 0,
             \A d \in Datagram : d.dst = e /\ queue[d] > 0 => queue'[d] > 0
      PROVE  FdsTrueAt(e)'
  BY <1>1, FdsKept DEF FdsTrueAt
<1>2. ASSUME UNCHANGED <<loop, tunIn, queue>> PROVE FdsTrueAt(e)'
  BY <1>1, <1>2
<1>3. ASSUME NEW f \in Endpoint, Start(f) \/ StartFails(f) PROVE FdsTrueAt(e)'
  BY <1>2, <1>3 DEF Start, StartFails
<1>4. ASSUME NEW f \in Endpoint, SelectFails(f) PROVE FdsTrueAt(e)'
  <2>1. /\ pc[f] = "select"
        /\ pc' = pc /\ ready' = ready
        /\ tunIn' = [tunIn EXCEPT ![f] = Empty(Packet)]
        /\ queue' = [d \in Datagram |-> IF d.dst = f THEN 0 ELSE queue[d]]
    BY <1>4 DEF SelectFails, At
  <2>2. CASE e = f
    BY <1>0, <2>1, <2>2 DEF LoopOK, FdsTrueAt
  <2>3. CASE e # f
    BY <1>0, <1>1, <2>1, <2>3 DEF TunOK
  <2> QED
    BY <2>2, <2>3
<1>5. ASSUME NEW f \in Endpoint, Select(f) PROVE FdsTrueAt(e)'
  <2>1. UNCHANGED <<tunIn, queue>>
    BY <1>5 DEF Select
  <2>2. CASE e = f
    <3>1. /\ ready'[e] = Readable(e)
          /\ pc'[e] = IF "tun" \in Readable(e) THEN "tun" ELSE "sock"
      BY <1>0, <1>5, <2>2 DEF Select, Goto, LoopOK
    <3>2. /\ "tun" \in Readable(e) => \E p \in Packet : tunIn[e][p] > 0
          /\ "sock" \in Readable(e) => QueueFor(e)
      BY DEF Readable, QueueFor
    <3> QED
      BY <2>1, <3>1, <3>2 DEF FdsTrueAt, QueueFor
  <2>3. CASE e # f
    BY <1>0, <1>1, <1>5, <2>1, <2>3, OtherLoop
  <2> QED
    BY <2>2, <2>3
<1>6. ASSUME NEW f \in Endpoint, ReadFails(f) PROVE FdsTrueAt(e)'
  <2>1. Again(f) /\ UNCHANGED <<tunIn, queue>>
    BY <1>6 DEF ReadFails
  <2> QED
    BY <1>0, <1>1, <2>1, FdsAgain, OtherLoop
<1>7. ASSUME NEW f \in Endpoint, NEW p \in Packet,
             tunIn' = [tunIn EXCEPT ![f] = Remove(@, p)], queue' = queue,
             AfterTun(f) \/ Again(f)
      PROVE  FdsTrueAt(e)'
  <2>1. CASE e = f
    BY <1>0, <1>7, <2>1, FdsAgain, FdsAfterTun
  <2>2. CASE e # f
    BY <1>0, <1>1, <1>7, <2>2, OtherLoop DEF TunOK
  <2> QED
    BY <2>1, <2>2
<1>8. ASSUME NEW f \in Endpoint, NEW d \in Datagram, NetToTun(f, d) PROVE FdsTrueAt(e)'
  <2>1. /\ Again(f) /\ tunIn' = tunIn
        /\ d.dst = f /\ queue[d] > 0 /\ queue' = Remove(queue, d)
    BY <1>8 DEF NetToTun
  <2>2. CASE e = f
    BY <1>0, <2>1, <2>2, FdsAgain
  <2>3. CASE e # f
    <3>1. \A x \in Datagram : x.dst = e => queue'[x] = queue[x]
      BY <1>0, <2>1, <2>3, RemoveBag
    <3> QED
      BY <1>0, <1>1, <2>1, <2>3, <3>1, OtherLoop
  <2> QED
    BY <2>2, <2>3
<1>9. ASSUME NEW f \in Endpoint, NEW p \in Packet,
             tunIn' = [tunIn EXCEPT ![f] = Add(@, p)], UNCHANGED <<loop, queue>>
      PROVE  FdsTrueAt(e)'
  <2>1. \A x \in Packet : tunIn[e][x] > 0 => tunIn'[e][x] > 0
    <3>1. CASE e = f
      <4>1. tunIn[e] \in Bag(Packet) /\ tunIn'[e] = Add(tunIn[e], p)
        BY <1>0, <1>9, <3>1 DEF TunOK
      <4>2. \A x \in Packet : tunIn[e][x] \in Nat
        BY <4>1 DEF Bag
      <4> QED
        BY <4>1, <4>2, AddBag
    <3>2. CASE e # f
      BY <1>0, <1>9, <3>2 DEF TunOK
    <3> QED
      BY <3>1, <3>2
  <2> QED
    BY <1>1, <1>9, <2>1
<1>10. ASSUME NEW d \in Datagram, Arrive(d) PROVE FdsTrueAt(e)'
  <2>1. UNCHANGED <<loop, tunIn>> /\ queue' = Add(queue, d)
    BY <1>10 DEF Arrive
  <2>2. \A x \in Datagram : queue[x] \in Nat
    BY <1>0 DEF Bag
  <2>3. \A x \in Datagram : queue[x] > 0 => queue'[x] > 0
    BY <1>0, <2>1, <2>2, AddBag
  <2> QED
    BY <1>1, <2>1, <2>3
<1>11. ASSUME NEW d \in Datagram, Network(d) PROVE FdsTrueAt(e)'
  BY <1>2, <1>10, <1>11 DEF Network, LoseOnWire, RepeatOnWire
<1>12. ASSUME NEW c \in Client, NEW p \in Packet, ClientTunToNet(c, p) PROVE FdsTrueAt(e)'
  BY <1>7, <1>12 DEF ClientTunToNet, Endpoint
<1>13. ASSUME NEW p \in Packet, ServerTunToNet(p) PROVE FdsTrueAt(e)'
  BY <1>7, <1>13 DEF ServerTunToNet, Endpoint
<1>14. ASSUME NEW f \in Endpoint, Body(f) PROVE FdsTrueAt(e)'
  BY <1>6, <1>8, <1>12, <1>13, <1>14 DEF Body, Endpoint
<1>15. ASSUME NEW c \in Client, NEW p \in Request, HostSends(c, p) PROVE FdsTrueAt(e)'
  BY <1>9, <1>15, ReplyType DEF HostSends, Endpoint
<1>16. ASSUME NEW c \in Client, NEW p \in Request, HostReplies(c, p) PROVE FdsTrueAt(e)'
  BY <1>9, <1>16, ReplyType DEF HostReplies, Endpoint
<1>17. CASE UNCHANGED vars
  BY <1>2, <1>17 DEF vars
<1> QED
  BY <1>3, <1>4, <1>5, <1>11, <1>14, <1>15, <1>16, <1>17 DEF Next

\* A blocking read or recvfrom is only called when it returns at once.
THEOREM NeverBlocksAlways == Spec => []NeverBlocks
<1>1. Init => FdsTrue
  BY DEF Init, FdsTrue
<1>2. TypeOK /\ FdsTrue /\ [Next]_vars => FdsTrue'
  BY FdsStep DEF FdsTrue, FdsTrueAt
<1> QED
  BY <1>1, <1>2, FdsImply, TypeCorrect, PTL DEF Spec

-----------------------------------------------------------------------------
(* The tunnel is a lossy channel.                                          *)

Sent == [m \in Upload |-> sent[m]]
InTransit == [m \in Upload |-> Transit(m)]
Written == [m \in Upload |-> written[m]]

\* One message more, or one less.
LEMMA OneMore ==
  ASSUME NEW f \in [Upload -> Int], NEW g \in [Upload -> Int], NEW x \in Upload,
         \A m \in Upload : g[m] = f[m] + One(m = x)
  PROVE  g = [f EXCEPT ![x] = @ + 1]
  BY DEF One

LEMMA OneLess ==
  ASSUME NEW f \in [Upload -> Int], NEW g \in [Upload -> Int], NEW x \in Upload,
         \A m \in Upload : g[m] = f[m] - One(m = x)
  PROVE  g = [f EXCEPT ![x] = @ - 1]
  BY DEF One

\* The mapped variables are functions on the uploads.
LEMMA ChannelTypes ==
  ASSUME TypeOK, TypeOK'
  PROVE  /\ InTransit \in [Upload -> Int] /\ InTransit' \in [Upload -> Int]
         /\ Sent \in [Upload -> Int] /\ Sent' \in [Upload -> Int]
         /\ Written \in [Upload -> Int] /\ Written' \in [Upload -> Int]
         /\ \A m \in Upload : /\ InTransit[m] = Transit(m) /\ InTransit'[m] = Transit(m)'
                              /\ Sent[m] = sent[m] /\ Sent'[m] = sent'[m]
                              /\ Written[m] = written[m] /\ Written'[m] = written'[m]
<1>1. ASSUME NEW m \in Upload
      PROVE  Transit(m) \in Int /\ sent[m] \in Int /\ written[m] \in Int
  BY Counts
<1>2. ASSUME NEW m \in Upload
      PROVE  Transit(m)' \in Int /\ sent'[m] \in Int /\ written'[m] \in Int
  <2>1. /\ m \in Datagram /\ Sealed(m) \in Datagram
        /\ m.src \in Endpoint /\ m.data \in Packet
    BY Counts
  <2>2. /\ tunIn'[m.src][m.data] \in Nat
        /\ wire'[Sealed(m)] \in Nat /\ queue'[Sealed(m)] \in Nat
        /\ sent'[m] \in Nat /\ written'[m] \in Nat
    BY <2>1 DEF TypeOK, Bag
  <2> QED
    BY <2>2 DEF Transit
<1> QED
  BY <1>1, <1>2 DEF InTransit, Sent, Written

\* The mapped state, after a step that leaves every count of every upload.
LEMMA ChannelStutters ==
  ASSUME \A m \in Upload : /\ Transit(m)' = Transit(m)
                           /\ sent'[m] = sent[m] /\ written'[m] = written[m]
  PROVE  UNCHANGED Tunnel!vars
  BY DEF Tunnel!vars

\* After a step that loses copies.
LEMMA ChannelDrops ==
  ASSUME \A m \in Upload : /\ Transit(m)' <= Transit(m)
                           /\ sent'[m] = sent[m] /\ written'[m] = written[m]
  PROVE  Tunnel!Drop
  BY DEF Tunnel!Drop

LEMMA ChannelStep == TypeOK /\ [Next]_vars => [Tunnel!Next]_(Tunnel!vars)
<1> SUFFICES ASSUME TypeOK, [Next]_vars PROVE [Tunnel!Next]_(Tunnel!vars)
  OBVIOUS
<1> USE DEF history
<1>0. /\ TypeOK'
      /\ \A m \in Upload : Transit(m) \in Nat /\ sent[m] \in Nat /\ written[m] \in Nat
  BY Counts, TypeStep
<1>1. ASSUME UNCHANGED <<tunIn, wire, queue, sent, written>>
      PROVE  UNCHANGED Tunnel!vars
  <2>1. \A m \in Upload : Transit(m)' = Transit(m)
    BY <1>1 DEF Transit
  <2> QED
    BY <1>1, <2>1, ChannelStutters
<1>2. ASSUME NEW e \in Endpoint, SelectFails(e) PROVE Tunnel!Drop
  <2>1. \A m \in Upload : Transit(m)' <= Transit(m) /\ UNCHANGED <<sent, written>>
    BY <1>2, SelectFailsEffect
  <2> QED
    BY <2>1, ChannelDrops
<1>3. ASSUME NEW c \in Client, NEW p \in Packet, ClientTunToNet(c, p)
      PROVE  Tunnel!Drop
  <2>1. \A m \in Upload : Transit(m)' <= Transit(m) /\ UNCHANGED <<sent, written>>
    BY <1>0, <1>3, ClientTunToNetEffect DEF One
  <2> QED
    BY <2>1, ChannelDrops
<1>4. ASSUME NEW p \in Packet, ServerTunToNet(p) PROVE UNCHANGED Tunnel!vars
  BY <1>4, ServerTunToNetEffect, ChannelStutters
<1>5. ASSUME NEW e \in Endpoint, NEW d \in Datagram, NetToTun(e, d)
      PROVE  [Tunnel!Next]_(Tunnel!vars)
  <2>0. ASSUME NEW m \in Upload
        PROVE  /\ Transit(m)' = Transit(m) - One(m = Sealed(d)) /\ sent' = sent
               /\ \/ written' = Add(written, Sealed(d))
                  \/ written' = written
    BY <1>5, NetToTunEffect
  <2>1. CASE written' = written
    <3>1. \A m \in Upload : /\ Transit(m)' <= Transit(m)
                            /\ sent'[m] = sent[m] /\ written'[m] = written[m]
      BY <1>0, <2>0, <2>1 DEF One
    <3> QED
      BY <3>1, ChannelDrops DEF Tunnel!Next
  <2>2. CASE written' = Add(written, Sealed(d)) /\ Sealed(d) \in Upload
    <3> DEFINE x == Sealed(d)
    <3>1. \A m \in Upload : written'[m] = written[m] + One(m = x)
      <4>1. written \in Bag(Datagram) /\ \A m \in Upload : m \in Datagram
        BY TypeParts, UploadFields
      <4> QED
        BY <2>2, <4>1, AddAt
    <3>2. Transit(x) > 0
      BY <1>5, <2>2, Counts, SealedOneToOne DEF NetToTun, Transit
    <3>3. /\ InTransit' = [InTransit EXCEPT ![x] = @ - 1]
          /\ Written' = [Written EXCEPT ![x] = @ + 1]
          /\ Sent' = Sent
      <4>1. \A m \in Upload : Transit(m)' = Transit(m) - One(m = x) /\ sent' = sent
        BY <2>0
      <4>2. InTransit' = [InTransit EXCEPT ![x] = @ - 1]
        BY <1>0, <2>2, <4>1, ChannelTypes, OneLess
      <4>3. Written' = [Written EXCEPT ![x] = @ + 1]
        <5>1. /\ \A m \in Upload : Written'[m] = Written[m] + One(m = x)
              /\ Written \in [Upload -> Int] /\ Written' \in [Upload -> Int]
          BY <1>0, <3>1, ChannelTypes
        <5> QED
          BY <2>2, <5>1, OneMore
      <4> QED
        BY <2>2, <4>1, <4>2, <4>3 DEF Sent
    <3>4. Tunnel!Deliver(x)
      BY <2>2, <3>2, <3>3 DEF Tunnel!Deliver, InTransit, Written, Sent
    <3> QED
      BY <2>2, <3>4 DEF Tunnel!Next
  <2>3. CASE written' = Add(written, Sealed(d)) /\ Sealed(d) \notin Upload
    <3>1. \A m \in Upload : written'[m] = written[m]
      <4>1. written \in Bag(Datagram) /\ \A m \in Upload : m \in Datagram /\ m # Sealed(d)
        BY <2>3, TypeParts, UploadFields
      <4>2. Sealed(d) \in Datagram
        BY SealedOneToOne
      <4> QED
        BY <2>3, <4>1, <4>2, AddBag
    <3>2. \A m \in Upload : Transit(m)' = Transit(m) /\ sent'[m] = sent[m]
      BY <1>0, <2>0, <2>3 DEF One
    <3> QED
      BY <3>1, <3>2, ChannelStutters
  <2>4. CASE Upload = {}
    BY <2>4, ChannelStutters
  <2> QED
    BY <2>0, <2>1, <2>2, <2>3, <2>4
<1>6. ASSUME NEW c \in Client, NEW p \in Request, HostSends(c, p)
      PROVE  Tunnel!Next
  <2> DEFINE x == [src |-> c, dst |-> Server, data |-> p]
  <2>1. x \in Upload
    BY ReplyType, ClearDatagram
  <2>2. \A m \in Upload : /\ Transit(m)' = Transit(m) + One(m = x)
                          /\ sent'[m] = sent[m] + One(m = x)
                          /\ written' = written
    BY <1>6, HostSendsEffect
  <2>3. /\ InTransit' = [InTransit EXCEPT ![x] = @ + 1]
        /\ Sent' = [Sent EXCEPT ![x] = @ + 1]
        /\ Written' = Written
    <3>1. InTransit' = [InTransit EXCEPT ![x] = @ + 1]
      <4>1. /\ \A m \in Upload : InTransit'[m] = InTransit[m] + One(m = x)
            /\ InTransit \in [Upload -> Int] /\ InTransit' \in [Upload -> Int]
        BY <1>0, <2>2, ChannelTypes
      <4> HIDE DEF x
      <4> QED
        BY <2>1, <4>1, OneMore
    <3>2. Sent' = [Sent EXCEPT ![x] = @ + 1]
      <4>1. /\ \A m \in Upload : Sent'[m] = Sent[m] + One(m = x)
            /\ Sent \in [Upload -> Int] /\ Sent' \in [Upload -> Int]
        BY <1>0, <2>2, ChannelTypes
      <4> HIDE DEF x
      <4> QED
        BY <2>1, <4>1, OneMore
    <3> QED
      BY <2>1, <2>2, <3>1, <3>2 DEF Written
  <2>4. Tunnel!Accept(x)
    BY <2>1, <2>3 DEF Tunnel!Accept, InTransit, Written, Sent
  <2> QED
    BY <2>1, <2>4 DEF Tunnel!Next
<1>7. ASSUME NEW c \in Client, NEW p \in Request, HostReplies(c, p)
      PROVE  UNCHANGED Tunnel!vars
  BY <1>7, HostRepliesEffect, ChannelStutters DEF history
<1>8. ASSUME NEW d \in Datagram, Arrive(d) PROVE UNCHANGED Tunnel!vars
  BY <1>8, ArriveEffect, ChannelStutters
<1>9. ASSUME NEW d \in Datagram, LoseOnWire(d) PROVE Tunnel!Drop
  <2>1. \A m \in Upload : Transit(m)' <= Transit(m) /\ UNCHANGED <<sent, written>>
    BY <1>0, <1>9, LoseOnWireEffect DEF One
  <2> QED
    BY <2>1, ChannelDrops
<1>10. ASSUME NEW d \in Datagram, RepeatOnWire(d) PROVE [Tunnel!Next]_(Tunnel!vars)
  <2> DEFINE x == Sealed(d)
  <2>1. \A m \in Upload : /\ Transit(m)' = Transit(m) + One(m = x)
                          /\ m = x => Transit(m) > 0
                          /\ sent'[m] = sent[m] /\ written'[m] = written[m]
    BY <1>10, RepeatOnWireEffect
  <2>2. CASE x \in Upload
    <3>1. /\ InTransit' = [InTransit EXCEPT ![x] = @ + 1]
          /\ Sent' = Sent /\ Written' = Written
      <4>1. InTransit' = [InTransit EXCEPT ![x] = @ + 1]
        BY <1>0, <2>1, <2>2, ChannelTypes, OneMore
      <4> QED
        BY <2>1, <4>1 DEF Sent, Written
    <3>2. Tunnel!Duplicate(x)
      BY <2>1, <2>2, <3>1 DEF Tunnel!Duplicate, InTransit, Written, Sent
    <3> QED
      BY <2>2, <3>2 DEF Tunnel!Next
  <2>3. CASE x \notin Upload
    <3>1. \A m \in Upload : Transit(m)' = Transit(m)
      BY <1>0, <2>1, <2>3 DEF One
    <3> QED
      BY <2>1, <3>1, ChannelStutters
  <2> QED
    BY <2>2, <2>3
<1>11. ASSUME NEW e \in Endpoint, Start(e) \/ StartFails(e) \/ Select(e) \/ ReadFails(e)
       PROVE  UNCHANGED Tunnel!vars
  BY <1>1, <1>11 DEF Start, StartFails, Select, ReadFails
<1>12. CASE UNCHANGED vars
  BY <1>1, <1>12 DEF vars
<1>13. ASSUME NEW e \in Endpoint, Body(e) PROVE [Tunnel!Next]_(Tunnel!vars)
  BY <1>3, <1>4, <1>5, <1>11, <1>13 DEF Body, Endpoint, Tunnel!Next
<1>14. ASSUME NEW d \in Datagram, Network(d) PROVE [Tunnel!Next]_(Tunnel!vars)
  BY <1>8, <1>9, <1>10, <1>14 DEF Network, Tunnel!Next
<1> QED
  BY <1>2, <1>6, <1>7, <1>11, <1>12, <1>13, <1>14 DEF Next, Tunnel!Next

\* Between a client's host and the server's host, the program implements the
\* lossy channel: what comes out went in, bit for bit.
THEOREM TunnelIsLossyChannel == Spec => ImplementsChannel
<1>1. Init => Tunnel!Init
  BY NothingAtFirst DEF Tunnel!Init
<1> QED
  BY <1>1, ChannelStep, TypeCorrect, PTL DEF Spec, ImplementsChannel, Tunnel!Spec
=============================================================================
