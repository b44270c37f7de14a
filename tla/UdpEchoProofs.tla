--------------------------- MODULE UdpEchoProofs ----------------------------
(***************************************************************************)
(* Proofs about UdpEcho for every set of client runs and ports, every size *)
(* of the buffer and of the messages, and any number of faults.            *)
(*                                                                         *)
(* Inv is inductive.  It accounts for every datagram there is: a request   *)
(* carries the message that was sent from its port, an echo the beginning  *)
(* of it (Genuine), wherever it waits (OnWire, InServer, InClients).  As a *)
(* run has one port and one message, its requests are copies of one        *)
(* datagram, and the copies and the echoes made of them can be counted     *)
(* without a sum (Accounted).                                              *)
(***************************************************************************)
EXTENDS UdpEcho, TLAPS

\* What datagram d says of the run whose text it carries is so.
Genuine(d) ==
  LET o == d.msg.text
  IN  /\ sent[o] # NoMessage
      /\ d.port = port[o]
      /\ d.msg = IF d.kind = "request" THEN sent[o] ELSE Cut(sent[o])

\* A run that has not started has left no trace; one that has sent has sent
\* its own text from a port.
Runs ==
  \A c \in Client :
    /\ cpc[c] = "off" => sent[c] = NoMessage /\ result[c] = NoMessage
    /\ cpc[c] = "recv" => sent[c] # NoMessage
    /\ sent[c] # NoMessage => sent[c].text = c /\ sent[c] \in Message /\ port[c] \in Port

\* Runs that wait at the same time have different ports.
PortsApart ==
  \A c, o \in Client :
    cpc[c] = "recv" /\ cpc[o] = "recv" /\ c # o => port[c] # port[o]

OnWire == \A d \in Datagram : wire[d] > 0 => Genuine(d)

\* The server has requests only; the one in its buffer may have been cut.
InServer ==
  /\ \A d \in Datagram : squeue[d] > 0 => d.kind = "request" /\ Genuine(d)
  /\ spc = "send" =>
       /\ received.kind = "request"
       /\ Genuine(Echo)

InClients ==
  \A c \in Client, d \in Datagram :
    cqueue[c][d] > 0 =>
      cpc[c] = "recv" /\ d.kind = "echo" /\ d.port = port[c] /\ Genuine(d)

Request(c) == [kind |-> "request", port |-> port[c], msg |-> sent[c]]

InHand(c) == IF spc = "send" /\ received.msg.text = c THEN 1 ELSE 0

\* Copies of a request and the echoes made of them: one, and one for each
\* time that the network repeated something.
Copies(c) == wire[Request(c)] + squeue[Request(c)] + InHand(c) + answered[c]

Accounted ==
  \A c \in Client :
    IF sent[c] = NoMessage THEN answered[c] = 0 ELSE Copies(c) <= 1 + faults

Inv ==
  /\ TypeOK
  /\ Runs /\ PortsApart
  /\ OnWire /\ InServer /\ InClients
  /\ EchoFromOwnPort
  /\ Accounted

-----------------------------------------------------------------------------
(* Bags and messages.                                                      *)

Bag == [Datagram -> Nat]

LEMMA AddToBag ==
  ASSUME NEW bag \in Bag, NEW d \in Datagram
  PROVE  /\ Add(bag, d) \in Bag
         /\ \A e \in Datagram : Add(bag, d)[e] = IF e = d THEN bag[e] + 1 ELSE bag[e]
BY DEF Bag, Add

LEMMA RemoveFromBag ==
  ASSUME NEW bag \in Bag, NEW d \in Datagram, bag[d] > 0
  PROVE  /\ Remove(bag, d) \in Bag
         /\ \A e \in Datagram : Remove(bag, d)[e] = IF e = d THEN bag[e] - 1 ELSE bag[e]
BY DEF Bag, Remove

LEMMA EmptyBag == Empty \in Bag /\ \A d \in Datagram : Empty[d] = 0
BY DEF Empty, Bag

\* Cutting keeps the text, fits the buffer, and cuts nothing the second time.
LEMMA CutMessage ==
  ASSUME NEW m \in Message
  PROVE  /\ Cut(m) \in Message /\ Cut(m).text = m.text
         /\ Cut(m).len <= RECV_MAX /\ Cut(Cut(m)) = Cut(m)
<1>1. m.len \in 0..MaxLen /\ m.text \in Client /\ RECV_MAX \in Nat /\ MaxLen \in Nat
  BY UdpAssumption DEF Message
<1>2. CASE m.len > RECV_MAX
  <2>1. Cut(m) = [m EXCEPT !.len = RECV_MAX]
    BY <1>2 DEF Cut, Message
  <2>2. Cut(m) \in Message /\ Cut(m).text = m.text /\ Cut(m).len = RECV_MAX
    BY <1>1, <1>2, <2>1 DEF Message
  <2>3. Cut(Cut(m)) = [Cut(m) EXCEPT !.len = Cut(m).len]
    BY <1>1, <2>2 DEF Cut, Message
  <2> QED
    BY <1>1, <2>2, <2>3 DEF Message
<1>3. CASE ~(m.len > RECV_MAX)
  <2>1. Cut(m) = m
    BY <1>3 DEF Cut, Message
  <2> QED
    BY <1>1, <1>3, <2>1
<1> QED
  BY <1>2, <1>3

LEMMA NoMessageIsNone == NoMessage \notin Message
BY DEF NoMessage, Message

\* The types that the lemmas below use, taken apart once.
LEMMA Types ==
  ASSUME TypeOK
  PROVE  /\ squeue \in Bag /\ wire \in Bag /\ received \in Datagram
         /\ \A c \in Client : cqueue[c] \in Bag
         /\ faults \in Nat /\ answered \in [Client -> Nat]
         /\ \A d \in Datagram : d.msg \in Message /\ d.msg.text \in Client /\ d.port \in Port
BY UdpAssumption DEF TypeOK, Bag, Datagram, Message

-----------------------------------------------------------------------------
(* Every step preserves Inv.                                               *)

LEMMA InitInv == Init => Inv
<1>1. SUFFICES ASSUME Init PROVE Inv
  OBVIOUS
<1>2. /\ wire = Empty /\ squeue = Empty /\ \A c \in Client : cqueue[c] = Empty
      /\ \A d \in Datagram : wire[d] = 0 /\ squeue[d] = 0
      /\ \A c \in Client, d \in Datagram : cqueue[c][d] = 0
  BY <1>1, EmptyBag DEF Init
<1>3. TypeOK
  <2>1. \E d \in Datagram : d.kind = "request" /\ d.msg.len = 0
    <3>1. PICK c \in Client, p \in Port : TRUE
      BY UdpAssumption
    <3>2. [kind |-> "request", port |-> p, msg |-> [text |-> c, len |-> 0]] \in Datagram
      BY <3>1, UdpAssumption DEF Datagram, Message
    <3> QED
      BY <3>2
  <2>2. received \in Datagram /\ received.msg.len <= RECV_MAX
    <3>1. received \in Datagram /\ received.msg.len = 0
      BY <1>1, <2>1 DEF Init
    <3> QED
      BY <3>1, UdpAssumption
  <2>3. squeue \in [Datagram -> Nat] /\ wire \in [Datagram -> Nat]
    BY <1>2, EmptyBag DEF Bag
  <2>4. cqueue \in [Client -> [Datagram -> Nat]]
    BY <1>1, EmptyBag DEF Bag, Init
  <2> QED
    BY <1>1, <2>2, <2>3, <2>4, UdpAssumption DEF Init, TypeOK
<1> QED
  BY <1>1, <1>2, <1>3
  DEF Init, Inv, Runs, PortsApart, OnWire, InServer, InClients, EchoFromOwnPort,
      Accounted

\* Parts of Inv that a step keeps if it leaves the clients alone.
LEMMA ClientsStand ==
  ASSUME Inv, UNCHANGED clients
  PROVE  /\ Runs' /\ PortsApart' /\ EchoFromOwnPort'
         /\ \A d \in Datagram : Genuine(d) => Genuine(d)'
         /\ received' = received /\ Genuine(Echo) => Genuine(Echo)'
         /\ \A c \in Client : Request(c)' = Request(c)
<1>1. sent' = sent /\ port' = port /\ cpc' = cpc /\ result' = result
  BY DEF clients
<1>2. received' = received => Echo' = Echo
  BY DEF Echo
<1> QED
  BY <1>1, <1>2 DEF Inv, Runs, PortsApart, EchoFromOwnPort, Genuine, Request

LEMMA RequestType ==
  ASSUME Inv, NEW c \in Client, sent[c] # NoMessage
  PROVE  Request(c) \in Datagram
BY DEF Inv, Runs, Request, Datagram

\* A genuine request is the request of the run whose text it carries.
LEMMA GenuineRequest ==
  ASSUME NEW d \in Datagram, d.kind = "request", Genuine(d)
  PROVE  d = Request(d.msg.text)
BY DEF Datagram, Genuine, Request

LEMMA FaultType ==
  ASSUME Inv, Fault
  PROVE  faults' = faults + 1 /\ faults' \in 0..MaxFaults
BY UdpAssumption DEF Inv, TypeOK, Fault

\* What Copies adds up.
LEMMA CopiesType ==
  ASSUME Inv, NEW c \in Client, sent[c] # NoMessage
  PROVE  /\ wire[Request(c)] \in Nat /\ squeue[Request(c)] \in Nat
         /\ InHand(c) \in Nat /\ answered[c] \in Nat /\ faults \in Nat
         /\ Copies(c) \in Nat
<1>1. wire[Request(c)] \in Nat /\ squeue[Request(c)] \in Nat
  BY RequestType, Types DEF Inv, Bag
<1>2. InHand(c) \in Nat
  BY DEF InHand
<1>3. answered[c] \in Nat /\ faults \in Nat
  BY Types DEF Inv
<1> QED
  BY <1>1, <1>2, <1>3 DEF Copies

\* Copies are made only by faults.
LEMMA AccountKept ==
  ASSUME Inv, UNCHANGED <<sent, port>>, faults' \in Nat,
         \A c \in Client :
           IF sent[c] = NoMessage THEN answered'[c] = answered[c]
           ELSE Copies(c)' \in Nat /\ Copies(c)' + faults <= Copies(c) + faults'
  PROVE  Accounted'
<1>1. SUFFICES ASSUME NEW c \in Client
               PROVE (IF sent[c] = NoMessage THEN answered[c] = 0
                      ELSE Copies(c) <= 1 + faults)'
  BY DEF Accounted
<1>2. CASE sent[c] = NoMessage
  BY <1>2 DEF Inv, Accounted
<1>3. CASE sent[c] # NoMessage
  <2>1. Copies(c) \in Nat /\ faults \in Nat /\ Copies(c) <= 1 + faults
    BY <1>3, CopiesType DEF Inv, Accounted
  <2> HIDE DEF Copies
  <2> QED
    BY <1>3, <2>1
<1> QED
  BY <1>2, <1>3

LEMMA ServerStartsPreserves == Inv /\ ServerStarts => Inv'
<1>1. SUFFICES ASSUME Inv, ServerStarts PROVE Inv'
  OBVIOUS
<1>2. UNCHANGED clients /\ UNCHANGED <<received, answered, squeue, cqueue, wire>>
  BY <1>1 DEF ServerStarts
<1>3. spc = "off" /\ spc' \in {"recv", "exited"}
  BY <1>1 DEF ServerStarts
<1>4. faults' \in {faults, faults + 1} /\ faults' \in 0..MaxFaults
  BY <1>1, FaultType DEF ServerStarts, Inv, TypeOK
<1>5. TypeOK'
  BY <1>1, <1>2, <1>3, <1>4 DEF Inv, TypeOK, clients
<1>6. OnWire' /\ InServer' /\ InClients'
  BY <1>1, <1>2, <1>3, ClientsStand DEF Inv, OnWire, InServer, InClients, clients
<1>7. \A c \in Client : Copies(c)' = Copies(c)
  <2>1. \A c \in Client : InHand(c)' = InHand(c) /\ Request(c)' = Request(c)
    BY <1>1, <1>2, <1>3, ClientsStand DEF InHand
  <2> QED
    BY <1>2, <2>1 DEF Copies
<1>8. Accounted'
  BY <1>1, <1>2, <1>4, <1>7, CopiesType, AccountKept DEF clients, Inv, TypeOK
<1> QED
  BY <1>1, <1>2, <1>5, <1>6, <1>8, ClientsStand DEF Inv

LEMMA ServerRecvFailsPreserves == Inv /\ ServerRecvFails => Inv'
<1>1. SUFFICES ASSUME Inv, ServerRecvFails PROVE Inv'
  OBVIOUS
<1>2. UNCHANGED <<server, squeue, clients, cqueue, wire>>
  BY <1>1 DEF ServerRecvFails
<1>3. faults' = faults + 1 /\ faults' \in 0..MaxFaults
  BY <1>1, FaultType DEF ServerRecvFails
<1>4. TypeOK'
  BY <1>1, <1>2, <1>3 DEF Inv, TypeOK, clients, server
<1>5. OnWire' /\ InServer' /\ InClients'
  BY <1>1, <1>2, ClientsStand DEF Inv, OnWire, InServer, InClients, clients, server
<1>6. \A c \in Client : Copies(c)' = Copies(c)
  BY <1>1, <1>2, ClientsStand DEF Copies, InHand, server, clients
<1>7. Accounted'
  BY <1>1, <1>2, <1>3, <1>6, CopiesType, AccountKept DEF clients, server, Inv, TypeOK
<1> QED
  BY <1>1, <1>2, <1>4, <1>5, <1>7, ClientsStand DEF Inv

\* The datagram that is taken is the request of the run whose text it has,
\* and is from then on in the server's hand.
LEMMA ServerRecvPreserves ==
  ASSUME Inv, NEW d \in Datagram, ServerRecv(d)
  PROVE  Inv'
<1>1. /\ UNCHANGED <<answered, clients, cqueue, wire, faults>>
      /\ spc = "recv" /\ spc' = "send"
      /\ squeue' = Remove(squeue, d) /\ squeue[d] > 0
      /\ received' = [d EXCEPT !.msg = Cut(d.msg)]
  BY DEF ServerRecv
<1>2. d.kind = "request" /\ Genuine(d) /\ d.msg \in Message
  BY <1>1 DEF Inv, InServer, Datagram
<1>3. /\ squeue' \in Bag
      /\ \A e \in Datagram : squeue'[e] = IF e = d THEN squeue[e] - 1 ELSE squeue[e]
  BY <1>1, Types, RemoveFromBag DEF Inv
<1>4. /\ received' \in Datagram /\ received'.msg = Cut(d.msg)
      /\ received'.kind = "request" /\ received'.port = d.port
  BY <1>1, <1>2, CutMessage DEF Datagram
<1>5. TypeOK'
  BY <1>1, <1>2, <1>3, <1>4, CutMessage DEF Inv, TypeOK, clients, Bag
<1>6. InServer'
  <2>1. \A e \in Datagram : squeue'[e] > 0 => squeue[e] > 0
    BY <1>3, Types DEF Inv, Bag
  <2>2. Genuine(Echo)'
    <3>1. /\ sent[d.msg.text] # NoMessage /\ d.port = port[d.msg.text]
          /\ d.msg = sent[d.msg.text]
      BY <1>2 DEF Genuine
    <3>2. received'.msg.text = d.msg.text
      BY <1>2, <1>4, CutMessage
    <3>3. sent' = sent /\ port' = port
      BY <1>1 DEF clients
    <3>4. Echo'.msg = Cut(d.msg) /\ Echo'.port = d.port /\ Echo'.kind = "echo"
      BY <1>4 DEF Datagram, Echo
    <3> QED
      BY <1>4, <3>1, <3>2, <3>3, <3>4 DEF Genuine
  <2> QED
    BY <1>1, <1>4, <2>1, <2>2, ClientsStand DEF Inv, InServer
<1>7. OnWire' /\ InClients'
  BY <1>1, ClientsStand DEF Inv, OnWire, InClients, clients
<1>8. \A c \in Client : sent[c] # NoMessage => Copies(c)' = Copies(c)
  <2>1. SUFFICES ASSUME NEW c \in Client, sent[c] # NoMessage
                 PROVE  Copies(c)' = Copies(c)
    OBVIOUS
  <2>2. Request(c)' = Request(c) /\ Request(c) \in Datagram
    BY <1>1, <2>1, ClientsStand, RequestType
  <2>3. wire'[Request(c)] = wire[Request(c)] /\ answered'[c] = answered[c]
    BY <1>1
  <2>4. squeue'[Request(c)] = squeue[Request(c)] - (IF d.msg.text = c THEN 1 ELSE 0)
    <3>1. Request(c) = d <=> d.msg.text = c
      BY <1>2, <2>1, GenuineRequest DEF Inv, Runs, Request
    <3> QED
      BY <1>3, <2>2, <3>1, Types DEF Inv, Bag
  <2>5. InHand(c) = 0 /\ InHand(c)' = IF d.msg.text = c THEN 1 ELSE 0
    BY <1>1, <1>2, <1>4, CutMessage DEF InHand
  <2> QED
    BY <2>1, <2>2, <2>3, <2>4, <2>5, CopiesType DEF Copies
<1>9. Accounted'
  BY <1>1, <1>8, CopiesType, AccountKept DEF clients, Inv, TypeOK
<1> QED
  BY <1>1, <1>5, <1>6, <1>7, <1>9, ClientsStand DEF Inv

\* The echo goes out: from the server's hand to the count of answers.
LEMMA ServerEchoesPreserves == Inv /\ ServerEchoes => Inv'
<1>1. SUFFICES ASSUME Inv, ServerEchoes PROVE Inv'
  OBVIOUS
<1> DEFINE o == received.msg.text
<1>2. /\ UNCHANGED <<received, squeue, clients, cqueue>>
      /\ spc = "send" /\ spc' = "recv"
      /\ \/ /\ wire' = Add(wire, Echo)
            /\ answered' = [answered EXCEPT ![o] = @ + 1]
            /\ faults' = faults
         \/ wire' = wire /\ answered' = answered /\ faults' = faults + 1
  BY <1>1, FaultType DEF ServerEchoes, AfterSend
<1>3. /\ Echo \in Datagram /\ Echo.kind = "echo" /\ Genuine(Echo)
      /\ o \in Client /\ sent[o] # NoMessage
  <2>1. Echo \in Datagram /\ Echo.kind = "echo" /\ Echo.msg = received.msg /\ o \in Client
    BY <1>1, Types DEF Inv, Echo, Datagram
  <2>2. Genuine(Echo)
    BY <1>1, <1>2 DEF Inv, InServer
  <2> QED
    BY <2>1, <2>2 DEF Genuine
<1>4. faults' \in 0..MaxFaults
  BY <1>1, FaultType DEF ServerEchoes, Inv, TypeOK
<1>5. wire' \in Bag /\ \A d \in Datagram : wire'[d] > 0 => wire[d] > 0 \/ d = Echo
  BY <1>1, <1>2, <1>3, Types, AddToBag DEF Inv
<1>6. answered' \in [Client -> Nat]
  BY <1>1, <1>2, <1>3, Types DEF Inv
<1>7. TypeOK'
  BY <1>1, <1>2, <1>4, <1>5, <1>6 DEF Inv, TypeOK, clients, Bag
<1>8. OnWire'
  BY <1>1, <1>2, <1>3, <1>5, ClientsStand DEF Inv, OnWire
<1>9. InServer' /\ InClients'
  BY <1>1, <1>2, ClientsStand DEF Inv, InServer, InClients, clients
<1>10. \A c \in Client :
         sent[c] # NoMessage => Copies(c)' \in Nat /\ Copies(c)' + faults <= Copies(c) + faults'
  <2>1. SUFFICES ASSUME NEW c \in Client, sent[c] # NoMessage
                 PROVE  Copies(c)' \in Nat /\ Copies(c)' + faults <= Copies(c) + faults'
    OBVIOUS
  <2>2. Request(c)' = Request(c) /\ Request(c) \in Datagram /\ Request(c) # Echo
    BY <1>1, <1>2, <1>3, <2>1, ClientsStand, RequestType DEF Request
  <2>3. wire'[Request(c)] = wire[Request(c)]
    BY <1>1, <1>2, <1>3, <2>2, Types, AddToBag DEF Inv
  <2>4. InHand(c) = (IF c = o THEN 1 ELSE 0) /\ InHand(c)' = 0
    BY <1>2 DEF InHand
  <2>5. \/ answered'[c] = answered[c] + InHand(c) /\ faults' = faults
        \/ answered'[c] = answered[c] /\ faults' = faults + 1
    BY <1>1, <1>2, <1>3, <2>4, Types DEF Inv
  <2> QED
    BY <1>1, <1>2, <2>1, <2>2, <2>3, <2>4, <2>5, CopiesType DEF Copies
<1>11. \A c \in Client : sent[c] = NoMessage => answered'[c] = answered[c]
  BY <1>1, <1>2, <1>3, Types DEF Inv
<1>12. Accounted'
  BY <1>1, <1>2, <1>4, <1>10, <1>11, AccountKept DEF clients
<1> QED
  BY <1>1, <1>2, <1>7, <1>8, <1>9, <1>12, ClientsStand DEF Inv

-----------------------------------------------------------------------------
(* The clients.                                                            *)

\* Nothing anywhere has the text of a run that has not sent.
LEMMA NothingBefore ==
  ASSUME Inv, NEW c \in Client, sent[c] = NoMessage
  PROVE  /\ \A d \in Datagram : Genuine(d) => d.msg.text # c
         /\ \A d \in Datagram : d.msg.text = c => wire[d] = 0 /\ squeue[d] = 0
         /\ InHand(c) = 0 /\ answered[c] = 0
<1>1. \A d \in Datagram : Genuine(d) => d.msg.text # c
  BY DEF Genuine
<1>2. \A d \in Datagram : d.msg.text = c => wire[d] = 0 /\ squeue[d] = 0
  BY <1>1, Types DEF Inv, OnWire, InServer, Bag
<1>3. InHand(c) = 0
  <2>1. Echo.msg = received.msg
    BY Types DEF Inv, Echo, Datagram
  <2> QED
    BY <2>1 DEF Inv, InServer, InHand, Genuine
<1>4. answered[c] = 0
  BY DEF Inv, Accounted
<1> QED
  BY <1>1, <1>2, <1>3, <1>4

LEMMA ClientSendsPreserves ==
  ASSUME Inv, NEW c \in Client, NEW p \in Port, NEW n \in 0..MaxLen, ClientSends(c, p, n)
  PROVE  Inv'
<1> DEFINE m == [text |-> c, len |-> n]
           d == [kind |-> "request", port |-> p, msg |-> m]
<1>1. /\ UNCHANGED <<server, squeue, cqueue, result>>
      /\ cpc[c] = "off" /\ ~Bound(p)
      /\ cpc' = [cpc EXCEPT ![c] = "recv"]
      /\ port' = [port EXCEPT ![c] = p]
      /\ sent' = [sent EXCEPT ![c] = m]
      /\ wire' = Add(wire, d)
  BY DEF ClientSends
<1>2. /\ timer' \in [Client -> BOOLEAN]
      /\ faults' \in {faults, faults + 1} /\ faults' \in 0..MaxFaults
  BY FaultType DEF ClientSends, Inv, TypeOK
<1>3. m \in Message /\ d \in Datagram /\ m # NoMessage
  BY NoMessageIsNone DEF Message, Datagram
<1>4. sent[c] = NoMessage /\ result[c] = NoMessage
  BY <1>1 DEF Inv, Runs
<1>5. /\ sent'[c] = m /\ port'[c] = p /\ cpc'[c] = "recv"
      /\ \A o \in Client \ {c} :
           sent'[o] = sent[o] /\ port'[o] = port[o] /\ cpc'[o] = cpc[o]
  BY <1>1 DEF Inv, TypeOK
<1> HIDE DEF m
<1>6. /\ wire' \in Bag
      /\ \A e \in Datagram : wire'[e] = IF e = d THEN wire[e] + 1 ELSE wire[e]
  BY <1>1, <1>3, Types, AddToBag DEF Inv
<1>7. TypeOK'
  BY <1>1, <1>2, <1>3, <1>6 DEF Inv, TypeOK, server, Bag
<1>8. Runs'
  BY <1>1, <1>3, <1>4, <1>5 DEF Inv, Runs, m
<1>9. PortsApart'
  BY <1>1, <1>5 DEF Inv, PortsApart, Bound
<1>10. \A e \in Datagram : Genuine(e) => Genuine(e)'
  BY <1>4, <1>5, NothingBefore, Types DEF Inv, Genuine
<1>11. Genuine(d)'
  BY <1>3, <1>5 DEF Genuine, m
<1>12. OnWire'
  BY <1>6, <1>10, <1>11, Types DEF Inv, OnWire
<1>13. InServer'
  <2>1. Echo \in Datagram /\ Echo' = Echo
    BY <1>1, Types DEF Inv, Echo, Datagram, server
  <2> QED
    BY <1>1, <1>10, <2>1 DEF Inv, InServer, server
<1>14. InClients'
  BY <1>1, <1>5, <1>10 DEF Inv, InClients
<1>15. EchoFromOwnPort'
  BY <1>1, <1>4, <1>5 DEF Inv, EchoFromOwnPort
<1>16. Accounted'
  <2>1. SUFFICES ASSUME NEW o \in Client
                 PROVE (IF sent[o] = NoMessage THEN answered[o] = 0
                        ELSE Copies(o) <= 1 + faults)'
    BY DEF Accounted
  <2>2. CASE o = c
    <3>1. Request(o)' = d
      BY <1>5, <2>2 DEF Request
    <3>2. wire'[d] = 1 /\ squeue'[d] = 0 /\ answered'[o] = 0
      BY <1>1, <1>3, <1>4, <1>6, <2>2, NothingBefore DEF m, server
    <3>3. InHand(o)' = 0
      BY <1>1, <1>4, <2>2, NothingBefore DEF InHand, server
    <3>4. Copies(o)' = 1
      BY <3>1, <3>2, <3>3 DEF Copies
    <3>5. sent'[o] # NoMessage
      BY <1>3, <1>5, <2>2
    <3>6. faults' \in Nat
      BY <1>2
    <3>7. \A f \in Nat : 1 <= 1 + f
      OBVIOUS
    <3> HIDE DEF Copies
    <3> QED
      BY <3>4, <3>5, <3>6, <3>7
  <2>3. CASE o # c
    <3>1. Request(o)' = Request(o) /\ sent'[o] = sent[o] /\ answered'[o] = answered[o]
      BY <1>1, <1>5, <2>3 DEF Request, server
    <3>2. CASE sent[o] = NoMessage
      BY <3>1, <3>2 DEF Inv, Accounted
    <3>3. CASE sent[o] # NoMessage
      <4>1. Request(o) \in Datagram /\ Request(o) # d
        BY <2>3, <3>3, RequestType DEF Inv, Runs, Request, m
      <4>2. Copies(o)' = Copies(o)
        BY <1>1, <1>6, <3>1, <4>1 DEF Copies, InHand, server
      <4>3. Copies(o) <= 1 + faults /\ Copies(o) \in Nat /\ faults \in Nat
        BY <3>3, CopiesType DEF Inv, Accounted
      <4> HIDE DEF Copies
      <4> QED
        BY <1>2, <3>1, <3>3, <4>2, <4>3
    <3> QED
      BY <3>2, <3>3
  <2> QED
    BY <2>2, <2>3
<1> QED
  BY <1>7, <1>8, <1>9, <1>12, <1>13, <1>14, <1>15, <1>16 DEF Inv

LEMMA ClientSendFailsPreserves ==
  ASSUME Inv, NEW c \in Client, ClientSendFails(c)
  PROVE  Inv'
<1>1. /\ UNCHANGED <<server, squeue, port, sent, timer, result, cqueue, wire>>
      /\ cpc[c] = "off" /\ cpc' = [cpc EXCEPT ![c] = "exited"]
      /\ faults' = faults + 1 /\ faults' \in 0..MaxFaults
  BY FaultType DEF ClientSendFails
<1>2. \A o \in Client : cpc'[o] \in {cpc[o], "exited"} /\ (cpc[o] = "recv" => cpc'[o] = "recv")
  BY <1>1 DEF Inv, TypeOK
<1>3. TypeOK'
  BY <1>1 DEF Inv, TypeOK, server
<1>4. Runs' /\ PortsApart' /\ EchoFromOwnPort'
  BY <1>1, <1>2 DEF Inv, Runs, PortsApart, EchoFromOwnPort
<1>5. /\ \A d \in Datagram : Genuine(d) => Genuine(d)'
      /\ Genuine(Echo) => Genuine(Echo)'
  BY <1>1 DEF Genuine, Echo, server
<1>6. OnWire' /\ InServer' /\ InClients'
  BY <1>1, <1>2, <1>5 DEF Inv, OnWire, InServer, InClients, server
<1>7. \A o \in Client : Copies(o)' = Copies(o)
  BY <1>1 DEF Copies, InHand, Request, server
<1>8. Accounted'
  BY <1>1, <1>7, CopiesType, AccountKept DEF server, Inv, TypeOK
<1> QED
  BY <1>3, <1>4, <1>6, <1>8 DEF Inv

\* A client that ends leaves nothing in its queue.
LEMMA ClosePreserves ==
  ASSUME Inv, NEW c \in Client, cpc[c] = "recv", Close(c),
         UNCHANGED <<server, squeue, port, sent, timer, wire, faults>>,
         result' \in [Client -> Message \cup {NoMessage}],
         \A o \in Client : cpc[o] = "off" => result'[o] = result[o],
         EchoFromOwnPort'
  PROVE  Inv'
<1>1. /\ cpc' = [cpc EXCEPT ![c] = "exited"]
      /\ cqueue' = [cqueue EXCEPT ![c] = Empty]
  BY DEF Close
<1>2. /\ cpc'[c] = "exited" /\ cqueue'[c] = Empty
      /\ \A o \in Client \ {c} : cpc'[o] = cpc[o] /\ cqueue'[o] = cqueue[o]
  BY <1>1 DEF Inv, TypeOK
<1>3. TypeOK'
  BY <1>1, EmptyBag DEF Inv, TypeOK, server, Bag
<1>4. Runs' /\ PortsApart'
  BY <1>2 DEF Inv, Runs, PortsApart
<1>5. /\ \A d \in Datagram : Genuine(d) => Genuine(d)'
      /\ Genuine(Echo) => Genuine(Echo)'
  BY DEF Genuine, Echo, server
<1>6. OnWire' /\ InServer'
  BY <1>5 DEF Inv, OnWire, InServer, server
<1>7. InClients'
  BY <1>2, <1>5, EmptyBag DEF Inv, InClients
<1>8. \A o \in Client : Copies(o)' = Copies(o)
  BY DEF Copies, InHand, Request, server
<1>9. Accounted'
  BY <1>8, CopiesType, AccountKept DEF server, Inv, TypeOK
<1> QED
  BY <1>3, <1>4, <1>6, <1>7, <1>9 DEF Inv

LEMMA ClientReceivesPreserves ==
  ASSUME Inv, NEW c \in Client, NEW d \in Datagram, ClientReceives(c, d)
  PROVE  Inv'
<1>1. /\ cpc[c] = "recv" /\ Close(c) /\ cqueue[c][d] > 0
      /\ UNCHANGED <<server, squeue, port, sent, timer, wire, faults>>
      /\ result' = [result EXCEPT ![c] = Cut(d.msg)]
  BY DEF ClientReceives
<1>2. Cut(d.msg) \in Message /\ d.msg.text \in Client
  BY Types, CutMessage DEF Inv
<1>3. result' \in [Client -> Message \cup {NoMessage}]
  BY <1>1, <1>2 DEF Inv, TypeOK
<1>4. /\ result'[c] = Cut(d.msg)
      /\ \A o \in Client \ {c} : result'[o] = result[o]
  BY <1>1 DEF Inv, TypeOK
<1> DEFINE o == d.msg.text
<1>5. /\ sent[o] # NoMessage /\ port[o] = port[c] /\ sent[o] \in Message
      /\ d.msg = Cut(sent[o])
  <2>1. Genuine(d) /\ d.kind = "echo" /\ d.port = port[c]
    BY <1>1 DEF Inv, InClients
  <2> QED
    BY <1>2, <2>1 DEF Genuine, Inv, Runs
<1>6. Cut(d.msg) = Cut(sent[o])
  BY <1>5, CutMessage
<1>7. EchoFromOwnPort'
  <2>1. SUFFICES ASSUME NEW q \in Client, result'[q] # NoMessage
                 PROVE  \E r \in Client : port[r] = port[q] /\ sent[r] # NoMessage
                                          /\ result'[q] = Cut(sent[r])
    BY <1>1 DEF EchoFromOwnPort
  <2>2. CASE q = c
    BY <1>2, <1>4, <1>5, <1>6, <2>2
  <2>3. CASE q # c
    BY <1>4, <2>1, <2>3 DEF Inv, EchoFromOwnPort
  <2> QED
    BY <2>2, <2>3
<1> QED
  BY <1>1, <1>3, <1>4, <1>7, ClosePreserves

LEMMA ClientTimesOutPreserves ==
  ASSUME Inv, NEW c \in Client, ClientTimesOut(c)
  PROVE  Inv'
<1>1. /\ cpc[c] = "recv" /\ Close(c)
      /\ UNCHANGED <<server, squeue, port, sent, timer, result, wire, faults>>
  BY DEF ClientTimesOut
<1>2. EchoFromOwnPort' /\ result' \in [Client -> Message \cup {NoMessage}]
  BY <1>1 DEF Inv, TypeOK, EchoFromOwnPort
<1> QED
  BY <1>1, <1>2, ClosePreserves

-----------------------------------------------------------------------------
(* The network.                                                            *)

LEMMA ArrivePreserves ==
  ASSUME Inv, NEW d \in Datagram, Arrive(d)
  PROVE  Inv'
<1>1. /\ UNCHANGED <<server, clients, faults>> /\ wire[d] > 0
      /\ wire' = Remove(wire, d)
      /\ IF d.kind = "request"
         THEN /\ squeue' = IF spc \in {"recv", "send"} THEN Add(squeue, d) ELSE squeue
              /\ UNCHANGED cqueue
         ELSE /\ cqueue' = [c \in Client |->
                              IF cpc[c] = "recv" /\ port[c] = d.port
                              THEN Add(cqueue[c], d) ELSE cqueue[c]]
              /\ UNCHANGED squeue
  BY DEF Arrive
<1>2. /\ wire' \in Bag
      /\ \A e \in Datagram : wire'[e] = IF e = d THEN wire[e] - 1 ELSE wire[e]
  BY <1>1, Types, RemoveFromBag DEF Inv
<1>3. Genuine(d)
  BY <1>1 DEF Inv, OnWire
<1>4. /\ squeue' \in Bag
      /\ \A e \in Datagram :
           squeue'[e] = squeue[e] \/ (e = d /\ d.kind = "request" /\ squeue'[e] = squeue[e] + 1)
  BY <1>1, Types, AddToBag DEF Inv
<1>5. \A c \in Client :
        /\ cqueue'[c] \in Bag
        /\ \A e \in Datagram :
             \/ cqueue'[c][e] = cqueue[c][e]
             \/ e = d /\ d.kind = "echo" /\ cpc[c] = "recv" /\ port[c] = d.port
  <2>1. SUFFICES ASSUME NEW c \in Client
                 PROVE  /\ cqueue'[c] \in Bag
                        /\ \A e \in Datagram :
                             \/ cqueue'[c][e] = cqueue[c][e]
                             \/ e = d /\ d.kind = "echo" /\ cpc[c] = "recv" /\ port[c] = d.port
    OBVIOUS
  <2>2. cqueue[c] \in Bag
    BY Types DEF Inv
  <2>3. CASE cqueue'[c] = cqueue[c]
    BY <2>2, <2>3
  <2>4. CASE /\ d.kind # "request" /\ cpc[c] = "recv" /\ port[c] = d.port
             /\ cqueue'[c] = Add(cqueue[c], d)
    BY <2>2, <2>4, AddToBag DEF Datagram
  <2>5. \/ cqueue'[c] = cqueue[c]
        \/ /\ d.kind # "request" /\ cpc[c] = "recv" /\ port[c] = d.port
           /\ cqueue'[c] = Add(cqueue[c], d)
    BY <1>1
  <2> QED
    BY <2>3, <2>4, <2>5
<1>6. TypeOK'
  <2>1. cqueue' \in [Client -> Bag]
    <3>1. cqueue \in [Client -> Bag]
      BY DEF Inv, TypeOK, Bag
    <3>2. cqueue' = [c \in Client |-> cqueue'[c]]
      BY <1>1, <3>1
    <3> QED
      BY <1>5, <3>2
  <2> QED
    BY <1>1, <1>2, <1>4, <2>1 DEF Inv, TypeOK, server, clients, Bag
<1>7. OnWire'
  BY <1>1, <1>2, ClientsStand, Types DEF Inv, OnWire
<1>8. InServer'
  BY <1>1, <1>3, <1>4, ClientsStand DEF Inv, InServer, server
<1>9. InClients'
  BY <1>1, <1>3, <1>5, ClientsStand DEF Inv, InClients, clients
<1>10. \A c \in Client :
         sent[c] # NoMessage => Copies(c)' \in Nat /\ Copies(c)' <= Copies(c)
  <2>1. SUFFICES ASSUME NEW c \in Client, sent[c] # NoMessage
                 PROVE  Copies(c)' \in Nat /\ Copies(c)' <= Copies(c)
    OBVIOUS
  <2> DEFINE q == Request(c)
  <2>2. q' = q /\ q \in Datagram
    BY <1>1, <2>1, ClientsStand, RequestType
  <2> HIDE DEF q
  <2>3. InHand(c)' = InHand(c) /\ answered'[c] = answered[c]
    BY <1>1 DEF InHand, server
  <2>4. \/ wire'[q] = wire[q] /\ squeue'[q] = squeue[q]
        \/ wire'[q] = wire[q] - 1 /\ squeue'[q] \in {squeue[q], squeue[q] + 1}
    BY <1>2, <1>4, <2>2
  <2>5. wire'[q] \in Nat /\ squeue'[q] \in Nat
    BY <1>2, <1>4, <2>2 DEF Bag
  <2>6. /\ wire[q] \in Nat /\ squeue[q] \in Nat /\ InHand(c) \in Nat
        /\ answered[c] \in Nat
    BY <2>1, CopiesType DEF q
  <2>7. /\ Copies(c) = wire[q] + squeue[q] + InHand(c) + answered[c]
        /\ Copies(c)' = wire'[q] + squeue'[q] + InHand(c) + answered[c]
    BY <2>2, <2>3 DEF Copies, q
  <2> QED
    BY <2>4, <2>5, <2>6, <2>7
<1>11. Accounted'
  <2>1. sent' = sent /\ port' = port /\ answered' = answered /\ faults' = faults
        /\ faults \in Nat
    BY <1>1, Types DEF clients, server, Inv
  <2>2. \A c \in Client : sent[c] # NoMessage => Copies(c) \in Nat
    BY CopiesType
  <2> HIDE DEF Copies
  <2>3. \A c \in Client :
          sent[c] # NoMessage => Copies(c)' \in Nat /\ Copies(c)' + faults <= Copies(c) + faults'
    BY <1>10, <2>1, <2>2
  <2> QED
    BY <2>1, <2>3, AccountKept
<1> QED
  BY <1>1, <1>6, <1>7, <1>8, <1>9, <1>11, ClientsStand DEF Inv

\* A fault of the network: one copy less, or one more.
LEMMA NetworkFaultPreserves ==
  ASSUME Inv, NEW d \in Datagram, Lose(d) \/ Repeat(d)
  PROVE  Inv'
<1>1. /\ UNCHANGED <<server, squeue, clients, cqueue>> /\ wire[d] > 0
      /\ wire' \in {Remove(wire, d), Add(wire, d)}
      /\ faults' = faults + 1 /\ faults' \in 0..MaxFaults
  BY FaultType DEF Lose, Repeat
<1>2. /\ wire' \in Bag
      /\ \A e \in Datagram : wire'[e] <= wire[e] + 1 /\ (wire'[e] > 0 => wire[e] > 0)
  <2>1. /\ wire \in Bag
        /\ \A e \in Datagram : wire[e] \in Nat
    BY Types DEF Inv, Bag
  <2>2. CASE wire' = Remove(wire, d)
    BY <1>1, <2>1, <2>2, RemoveFromBag
  <2>3. CASE wire' = Add(wire, d)
    BY <1>1, <2>1, <2>3, AddToBag
  <2> QED
    BY <1>1, <2>2, <2>3
<1>3. TypeOK'
  BY <1>1, <1>2 DEF Inv, TypeOK, server, clients, Bag
<1>4. OnWire' /\ InServer' /\ InClients'
  BY <1>1, <1>2, ClientsStand DEF Inv, OnWire, InServer, InClients, server, clients
<1>5. \A c \in Client :
        sent[c] # NoMessage => Copies(c)' \in Nat /\ Copies(c)' + faults <= Copies(c) + faults'
  <2>1. SUFFICES ASSUME NEW c \in Client, sent[c] # NoMessage
                 PROVE  Copies(c)' \in Nat /\ Copies(c)' + faults <= Copies(c) + faults'
    OBVIOUS
  <2> DEFINE q == Request(c)
  <2>2. q' = q /\ q \in Datagram
    BY <1>1, <2>1, ClientsStand, RequestType
  <2>3. /\ wire[q] \in Nat /\ squeue[q] \in Nat /\ InHand(c) \in Nat
        /\ answered[c] \in Nat /\ faults \in Nat
    BY <2>1, CopiesType
  <2> HIDE DEF q
  <2>4. wire'[q] \in Nat /\ wire'[q] <= wire[q] + 1
    BY <1>2, <2>2 DEF Bag
  <2>5. /\ Copies(c) = wire[q] + squeue[q] + InHand(c) + answered[c]
        /\ Copies(c)' = wire'[q] + squeue[q] + InHand(c) + answered[c]
    BY <1>1, <2>2 DEF Copies, q, InHand, server
  <2> QED
    BY <1>1, <2>3, <2>4, <2>5
<1>6. Accounted'
  <2>1. sent' = sent /\ port' = port /\ answered' = answered /\ faults' \in Nat
    BY <1>1 DEF clients, server
  <2> QED
    BY <1>5, <2>1, AccountKept
<1> QED
  BY <1>1, <1>3, <1>4, <1>6, ClientsStand DEF Inv

-----------------------------------------------------------------------------

LEMMA StutterPreserves == Inv /\ UNCHANGED vars => Inv'
<1>1. SUFFICES ASSUME Inv, UNCHANGED vars PROVE Inv'
  OBVIOUS
<1>2. UNCHANGED <<server, squeue, clients, cqueue, wire, faults>>
  BY <1>1 DEF vars
<1>3. TypeOK'
  BY <1>1, <1>2 DEF Inv, TypeOK, server, clients
<1>4. OnWire' /\ InServer' /\ InClients'
  BY <1>1, <1>2, ClientsStand DEF Inv, OnWire, InServer, InClients, server, clients
<1>5. \A c \in Client : Copies(c)' = Copies(c)
  BY <1>1, <1>2, ClientsStand DEF Copies, InHand, server, clients
<1>6. Accounted'
  BY <1>1, <1>2, <1>5, CopiesType, AccountKept DEF clients, server, Inv, TypeOK
<1> QED
  BY <1>1, <1>2, <1>3, <1>4, <1>6, ClientsStand DEF Inv

LEMMA StepInv == Inv /\ [Next]_vars => Inv'
BY StutterPreserves, ServerStartsPreserves, ServerRecvFailsPreserves,
   ServerRecvPreserves, ServerEchoesPreserves, ClientSendsPreserves,
   ClientSendFailsPreserves, ClientReceivesPreserves, ClientTimesOutPreserves,
   ArrivePreserves, NetworkFaultPreserves
DEF Next, Serve, Finish

LEMMA InvHolds == Spec => []Inv
BY InitInv, StepInv, PTL DEF Spec

\* The types, and what is received fits into the buffer.
THEOREM TypeCorrect == Spec => []TypeOK
<1>1. Inv => TypeOK
  BY DEF Inv
<1> QED
  BY <1>1, InvHolds, PTL

\* The echo that a client prints begins a message sent from the client's own
\* port (line 85), whatever is lost, repeated or late.
THEOREM EchoFromOwnPortAlways == Spec => []EchoFromOwnPort
<1>1. Inv => EchoFromOwnPort
  BY DEF Inv
<1> QED
  BY <1>1, InvHolds, PTL

\* A message is echoed once, and once more for a repetition at most (the loop
\* of lines 67 to 92).
THEOREM AtMostOneEchoAlways == Spec => []AtMostOneEcho
<1>1. Inv => AtMostOneEcho
  <2>1. SUFFICES ASSUME Inv, NEW c \in Client, answered[c] > 0
                 PROVE  sent[c] # NoMessage /\ answered[c] <= 1 + faults
    BY DEF AtMostOneEcho
  <2>2. sent[c] # NoMessage
    BY <2>1 DEF Inv, Accounted
  <2>3. Copies(c) <= 1 + faults
    BY <2>1, <2>2 DEF Inv, Accounted
  <2> QED
    BY <2>1, <2>2, <2>3, CopiesType DEF Copies
<1> QED
  BY <1>1, InvHolds, PTL

\* Clients that wait together are not given each other's echoes.
THEOREM NoCrossTalkAlways == Spec => []NoCrossTalk
<1>1. Inv => NoCrossTalk
  BY DEF Inv, NoCrossTalk, InClients, Genuine, PortsApart
<1> QED
  BY <1>1, InvHolds, PTL
=============================================================================
