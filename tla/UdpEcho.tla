------------------------------ MODULE UdpEcho -------------------------------
(***************************************************************************)
(* coding-problems/02_udp_echo_server.c: the echo server and runs of its   *)
(* client.  A client run sends one message from a port the kernel picks,   *)
(* waits for one datagram, whoever it is from, for at most five seconds,   *)
(* and closes its socket; the port is then free for a later run.           *)
(*                                                                         *)
(* Outside the program: the network, which loses, repeats and reorders,    *)
(* and the sockets' queues.  A message is named by the run that sends it;  *)
(* its length is kept, because both sides receive into a bounded buffer.   *)
(***************************************************************************)
EXTENDS Integers

CONSTANTS
  Client,       \* the runs of the client
  Port,         \* the ports the kernel picks from
  NoPort,       \* the port of a client that has none
  RECV_MAX,     \* what recvfrom asks for: BUFFER_SIZE - 1 bytes
  MaxLen,       \* bound: the length of a message
  MaxFaults     \* bound: faults of calls and of the network

ASSUME UdpAssumption ==
  /\ Client # {} /\ Port # {} /\ NoPort \notin Port
  /\ RECV_MAX \in Nat /\ MaxLen \in Nat /\ MaxFaults \in Nat

Message == [text : Client, len : 0..MaxLen]
NoMessage == [text |-> CHOOSE c \in Client : TRUE, len |-> -1]

\* A request is for the server, an echo for whoever has the port.
Datagram == [kind : {"request", "echo"}, port : Port, msg : Message]

VARIABLES
  spc,          \* the server: "off", "recv", "send" or "exited"
  received,     \* the datagram that the server's buffer holds
  squeue,       \* the server's receive queue
  cpc,          \* each client: "off", "recv" or "exited"
  port,         \* the port of each client, kept when it has exited
  sent,         \* the message each client sent
  timer,        \* whether the unchecked setsockopt set the timeout
  cqueue,       \* the receive queue of each client
  result,       \* what each client printed as "Received echo"
  wire,         \* datagrams on the network
  answered,     \* how often the server sent each client's message back
  faults        \* faults so far

server == <<spc, received, answered>>
clients == <<cpc, port, sent, timer, result>>
vars == <<server, squeue, clients, cqueue, wire, faults>>

Empty == [d \in Datagram |-> 0]
Add(bag, d) == [bag EXCEPT ![d] = @ + 1]
Remove(bag, d) == [bag EXCEPT ![d] = @ - 1]

Init ==
  /\ spc = "off"
  /\ received = CHOOSE d \in Datagram : d.kind = "request" /\ d.msg.len = 0
  /\ squeue = Empty
  /\ cpc = [c \in Client |-> "off"]
  /\ port = [c \in Client |-> NoPort]
  /\ sent = [c \in Client |-> NoMessage]
  /\ timer = [c \in Client |-> FALSE]
  /\ cqueue = [c \in Client |-> Empty]
  /\ result = [c \in Client |-> NoMessage]
  /\ wire = Empty
  /\ answered = [c \in Client |-> 0]
  /\ faults = 0

Fault ==
  /\ faults < MaxFaults
  /\ faults' = faults + 1

\* Mutant: the buffer is asked to hold what the datagram has.
NoCut(msg) == msg

\* recvfrom cuts a datagram that does not fit, without telling.
Cut(msg) == [msg EXCEPT !.len = IF @ > RECV_MAX THEN RECV_MAX ELSE @]

-----------------------------------------------------------------------------
(* run_udp_server.                                                         *)

ServerStarts ==
  /\ spc = "off"
  /\ \/ spc' = "recv" /\ UNCHANGED faults
     \/ spc' = "exited" /\ Fault             \* socket or bind fails
  /\ UNCHANGED <<received, answered, squeue, clients, cqueue, wire>>

\* recvfrom fails: continue.
ServerRecvFails ==
  /\ spc = "recv"
  /\ Fault
  /\ UNCHANGED <<server, squeue, clients, cqueue, wire>>

ServerRecv(d) ==
  /\ spc = "recv"
  /\ squeue[d] > 0
  /\ squeue' = Remove(squeue, d)
  /\ received' = [d EXCEPT !.msg = Cut(@)]
  /\ spc' = "send"
  /\ UNCHANGED <<answered, clients, cqueue, wire, faults>>

\* Mutant: the loop does not always wait for the next datagram.
AfterSendAgain == spc' \in {"recv", "send"}

\* Mutant: the server ends after one echo.
AfterSendEnds == spc' = "exited"

AfterSend == spc' = "recv"

\* Mutant: the echo goes to one and the same port, whoever asked.
AddressOther == [received EXCEPT !.kind = "echo", !.port = CHOOSE p \in Port : TRUE]

\* client_addr is the address recvfrom stored.
Echo == [received EXCEPT !.kind = "echo"]

\* sendto: the echo is on its way, or the failure is reported; in both cases
\* the loop goes on.
ServerEchoes ==
  /\ spc = "send"
  /\ \/ /\ wire' = Add(wire, Echo)
        /\ answered' = [answered EXCEPT ![received.msg.text] = @ + 1]
        /\ UNCHANGED faults
     \/ Fault /\ UNCHANGED <<wire, answered>>
  /\ AfterSend
  /\ UNCHANGED <<received, squeue, clients, cqueue>>

-----------------------------------------------------------------------------
(* run_udp_client.                                                         *)

Bound(p) == \E c \in Client : cpc[c] = "recv" /\ port[c] = p

\* socket, inet_pton, sendto and setsockopt, whose result is not looked at.
ClientSends(c, p, n) ==
  LET msg == [text |-> c, len |-> n]
  IN  /\ cpc[c] = "off"
      /\ ~Bound(p)
      /\ cpc' = [cpc EXCEPT ![c] = "recv"]
      /\ port' = [port EXCEPT ![c] = p]
      /\ sent' = [sent EXCEPT ![c] = msg]
      /\ \/ timer' = [timer EXCEPT ![c] = TRUE] /\ UNCHANGED faults
         \/ Fault /\ UNCHANGED timer
      /\ wire' = Add(wire, [kind |-> "request", port |-> p, msg |-> msg])
      /\ UNCHANGED <<server, squeue, cqueue, result>>

\* One of socket, inet_pton and sendto fails: exit.
ClientSendFails(c) ==
  /\ cpc[c] = "off"
  /\ Fault
  /\ cpc' = [cpc EXCEPT ![c] = "exited"]
  /\ UNCHANGED <<server, squeue, port, sent, timer, result, cqueue, wire>>

\* close: the port is free again, and what is still queued is gone.
Close(c) ==
  /\ cpc' = [cpc EXCEPT ![c] = "exited"]
  /\ cqueue' = [cqueue EXCEPT ![c] = Empty]

ClientReceives(c, d) ==
  /\ cpc[c] = "recv"
  /\ cqueue[c][d] > 0
  /\ result' = [result EXCEPT ![c] = Cut(d.msg)]
  /\ Close(c)
  /\ UNCHANGED <<server, squeue, port, sent, timer, wire, faults>>

\* Mutant: setsockopt comes after recvfrom.
NoTimeout(c) == FALSE

TimeoutSet(c) == timer[c]

ClientTimesOut(c) ==
  /\ cpc[c] = "recv"
  /\ TimeoutSet(c)
  /\ cqueue[c] = Empty
  /\ Close(c)
  /\ UNCHANGED <<server, squeue, port, sent, timer, result, wire, faults>>

-----------------------------------------------------------------------------
(* The network.                                                            *)

\* A datagram that finds nobody at its port is dropped.
Arrive(d) ==
  /\ wire[d] > 0
  /\ wire' = Remove(wire, d)
  /\ IF d.kind = "request"
     THEN /\ squeue' = IF spc \in {"recv", "send"} THEN Add(squeue, d) ELSE squeue
          /\ UNCHANGED cqueue
     ELSE /\ cqueue' = [c \in Client |->
                          IF cpc[c] = "recv" /\ port[c] = d.port
                          THEN Add(cqueue[c], d) ELSE cqueue[c]]
          /\ UNCHANGED squeue
  /\ UNCHANGED <<server, clients, faults>>

Lose(d) ==
  /\ wire[d] > 0
  /\ Fault
  /\ wire' = Remove(wire, d)
  /\ UNCHANGED <<server, squeue, clients, cqueue>>

Repeat(d) ==
  /\ wire[d] > 0
  /\ Fault
  /\ wire' = Add(wire, d)
  /\ UNCHANGED <<server, squeue, clients, cqueue>>

-----------------------------------------------------------------------------

Serve == ServerEchoes \/ \E d \in Datagram : ServerRecv(d)

Finish(c) == ClientTimesOut(c) \/ \E d \in Datagram : ClientReceives(c, d)

Next ==
  \/ ServerStarts \/ ServerRecvFails \/ Serve
  \/ \E c \in Client, p \in Port, n \in 0..MaxLen : ClientSends(c, p, n)
  \/ \E c \in Client : ClientSendFails(c) \/ Finish(c)
  \/ \E d \in Datagram : Arrive(d) \/ Lose(d) \/ Repeat(d)

\* The server and the waiting clients execute their calls, and datagrams do
\* not stay on the wire for ever.  Nobody has to start.
Fairness ==
  /\ WF_vars(Serve)
  /\ \A c \in Client : WF_vars(Finish(c))
  /\ \A d \in Datagram : WF_vars(Arrive(d))

Spec == Init /\ [][Next]_vars /\ Fairness

-----------------------------------------------------------------------------
(* Properties.                                                             *)

\* Types: queues are bags, and what is received fits into the buffer.
TypeOK ==
  /\ spc \in {"off", "recv", "send", "exited"}
  /\ received \in Datagram /\ received.msg.len <= RECV_MAX
  /\ squeue \in [Datagram -> Nat] /\ wire \in [Datagram -> Nat]
  /\ cpc \in [Client -> {"off", "recv", "exited"}]
  /\ port \in [Client -> Port \cup {NoPort}]
  /\ sent \in [Client -> Message \cup {NoMessage}]
  /\ timer \in [Client -> BOOLEAN]
  /\ cqueue \in [Client -> [Datagram -> Nat]]
  /\ result \in [Client -> Message \cup {NoMessage}]
  /\ answered \in [Client -> Nat]
  /\ faults \in 0..MaxFaults

\* What a client prints as its echo is the beginning, as long as the buffers
\* allow, of a message that was sent from the client's own port: by the
\* client itself, or by a run that had the port before it.
EchoFromOwnPort ==
  \A c \in Client :
    result[c] # NoMessage =>
      \E o \in Client : /\ port[o] = port[c]
                        /\ sent[o] # NoMessage
                        /\ result[c] = Cut(sent[o])

\* The server answers, it never talks: a message that a client sent once is
\* echoed once, and once more for each time the network repeated something.
AtMostOneEcho ==
  \A c \in Client : answered[c] > 0 => sent[c] # NoMessage /\ answered[c] <= 1 + faults

\* Two clients that wait at the same time are never given each other's echo.
NoCrossTalk ==
  \A c, o \in Client :
    cpc[c] = "recv" /\ cpc[o] = "recv" /\ c # o =>
      \A d \in Datagram : cqueue[c][d] > 0 => d.msg.text # o

\* Unless something fails, a message that reached the server's queue is
\* echoed, whatever came before it and whatever else is waiting.
QueuedIsEchoed ==
  \A c \in Client :
    (\E d \in Datagram : squeue[d] > 0 /\ d.msg.text = c)
      ~> (answered[c] > 0 \/ faults > 0)

\* A client ends, echo or no echo, even when its request, the echo or the
\* server is lost, provided its timeout was set.
ClientEnds == \A c \in Client : (cpc[c] = "recv" /\ timer[c]) ~> cpc[c] = "exited"

\* "Echo back to the same client" (line 85): the echo a client prints is the
\* echo of its own message.
EchoToSameClient ==
  \A c \in Client : result[c] # NoMessage => result[c].text = c
=============================================================================
