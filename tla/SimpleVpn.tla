----------------------------- MODULE SimpleVpn ------------------------------
(***************************************************************************)
(* sample-projects/vpn-implementation/simple_vpn.c: one server and its     *)
(* clients.  Each endpoint is a process with a TUN interface and a UDP     *)
(* socket and one select loop: a branch that reads the TUN interface, a    *)
(* branch that reads the socket, and error paths that `continue', that is, *)
(* go back to select without trying the other branch.                      *)
(*                                                                         *)
(* Outside the program, and modelled as it uses them: the UDP network      *)
(* (loses, repeats, reorders) and the hosts' kernels, which route packets  *)
(* into the TUN interfaces and answer those they take out of them.         *)
(*                                                                         *)
(* Queues of the kernel and the network are bags, functions that count the *)
(* copies of each datagram: UDP lets any queued datagram be the next one.  *)
(***************************************************************************)
EXTENDS Integers

CONSTANTS
  Server,       \* the endpoint that runs run_server
  Client,       \* the endpoints that run run_client
  KEY_SIZE,     \* length of the key (16 bytes in the code)
  shared_key,   \* the key, indexed from 0 as in the code
  Lengths,      \* the packet lengths in use
  Request,      \* the packets the clients' hosts send
  MaxSend,      \* bound: how often a client's host sends one packet
  MaxWaiting,   \* bound: how many copies of a reply wait in the server's TUN
  MaxFaults     \* bound: faults of calls and of the network

Bit == {0, 1}

\* XOR acts on each bit of a byte alone, so one bit stands for a byte.
Packet == UNION {[1..n -> Bit] : n \in Lengths}

ASSUME VpnAssumption ==
  /\ Server \notin Client
  /\ KEY_SIZE \in Nat \ {0}
  /\ shared_key \in [0..(KEY_SIZE - 1) -> Bit]
  /\ Lengths \subseteq Nat \ {0}
  /\ Request \subseteq Packet
  /\ MaxSend \in Nat
  /\ MaxWaiting \in Nat
  /\ MaxFaults \in Nat

Endpoint == Client \cup {Server}

\* What the two `ip' commands give to the TUN interface: "ip addr add" the
\* address and the route, "ip link set" the link.
IpCommand == {"address", "link"}

\* Datagrams, in clear or encrypted: from a client to the server, and back.
Upload == [src : Client, dst : {Server}, data : Packet]
Download == [src : {Server}, dst : Client, data : Packet]
Datagram == Upload \cup Download

VARIABLES
  status,       \* each process: "off", "running" or "exited"
  configured,   \* the ip commands of the last start that succeeded
  pc,           \* the next branch of each loop: "select", "tun" or "sock"
  ready,        \* fds, as select left it
  tunIn,        \* packets waiting in each TUN interface
  wire,         \* datagrams on the network
  queue,        \* datagrams in the sockets' receive queues
  sent,         \* datagrams, in clear, that clients' hosts gave to the tunnel
  written,      \* datagrams, in clear, written to the TUN of their dst
  lost,         \* datagrams, in clear, lost by a fault
  dups,         \* datagrams, in clear, that the network repeated
  faults        \* faults so far

process == <<status, configured>>
loop == <<pc, ready>>
history == <<sent, written, lost, dups>>
vars == <<process, loop, tunIn, wire, queue, history, faults>>

Empty(S) == [x \in S |-> 0]
Add(bag, x) == [bag EXCEPT ![x] = @ + 1]
Remove(bag, x) == [bag EXCEPT ![x] = @ - 1]

Init ==
  /\ status = [e \in Endpoint |-> "off"]
  /\ configured = [e \in Endpoint |-> {}]
  /\ pc = [e \in Endpoint |-> "select"]
  /\ ready = [e \in Endpoint |-> {}]
  /\ tunIn = [e \in Endpoint |-> Empty(Packet)]
  /\ wire = Empty(Datagram)
  /\ queue = Empty(Datagram)
  /\ sent = Empty(Datagram)
  /\ written = Empty(Datagram)
  /\ lost = Empty(Datagram)
  /\ dups = Empty(Datagram)
  /\ faults = 0

Fault ==
  /\ faults < MaxFaults
  /\ faults' = faults + 1

-----------------------------------------------------------------------------
(* simple_encrypt, in place, with the same key for both directions.        *)

\* Mutant: cipher-block chaining, whose decryption is another function.
EncryptChained(data) ==
  [i \in DOMAIN data |->
     (data[i] + shared_key[(i - 1) % KEY_SIZE] + (IF i > 1 THEN data[i - 1] ELSE 0)) % 2]

simple_encrypt(data) ==
  [i \in DOMAIN data |-> (data[i] + shared_key[(i - 1) % KEY_SIZE]) % 2]

\* The datagram with its data encrypted or, the operation being the same,
\* decrypted.
Sealed(d) == [d EXCEPT !.data = simple_encrypt(@)]

-----------------------------------------------------------------------------
(* Start of a process, and the end of its loop.                            *)

\* tun_alloc, socket and bind or inet_pton succeed.  The two `ip' commands
\* succeed or fail each on its own, and their results are not looked at.
Start(e) ==
  /\ status[e] # "running"
  /\ status' = [status EXCEPT ![e] = "running"]
  /\ \E done \in SUBSET IpCommand : configured' = [configured EXCEPT ![e] = done]
  /\ UNCHANGED <<loop, tunIn, wire, queue, history, faults>>

\* One of them fails: exit(1).
StartFails(e) ==
  /\ status[e] # "running"
  /\ Fault
  /\ status' = [status EXCEPT ![e] = "exited"]
  /\ UNCHANGED <<configured, loop, tunIn, wire, queue, history>>

\* select fails: break, and close both descriptors.  What the kernel kept
\* for them is gone.
SelectFails(e) ==
  /\ status[e] = "running"
  /\ pc[e] = "select"
  /\ Fault
  /\ status' = [status EXCEPT ![e] = "exited"]
  /\ tunIn' = [tunIn EXCEPT ![e] = Empty(Packet)]
  /\ queue' = [d \in Datagram |-> IF d.dst = e THEN 0 ELSE queue[d]]
  /\ lost' = [d \in Datagram |->
                lost[d] + (IF d.dst = e THEN queue[Sealed(d)] ELSE 0)
                        + (IF d.src = e /\ d \in Upload THEN tunIn[e][d.data] ELSE 0)]
  /\ UNCHANGED <<configured, loop, wire, sent, written, dups>>

-----------------------------------------------------------------------------
(* The select loop.                                                        *)

Readable(e) ==
  {x \in {"tun"} : \E p \in Packet : tunIn[e][p] > 0}
    \cup {x \in {"sock"} : \E d \in Datagram : d.dst = e /\ queue[d] > 0}

At(e, branch) == status[e] = "running" /\ pc[e] = branch

Goto(e, branch) == pc' = [pc EXCEPT ![e] = branch]

Select(e) ==
  /\ At(e, "select")
  /\ Readable(e) # {}
  /\ ready' = [ready EXCEPT ![e] = Readable(e)]
  /\ Goto(e, IF "tun" \in Readable(e) THEN "tun" ELSE "sock")
  /\ UNCHANGED <<process, tunIn, wire, queue, history, faults>>

\* `continue', and the end of the loop's body.
Again(e) ==
  /\ Goto(e, "select")
  /\ ready' = [ready EXCEPT ![e] = {}]

\* Mutant: the TUN branch ends with a `continue' on success, too.
AlwaysAgain(e) == Again(e)

\* Mutant: the second FD_ISSET is missing.
AlwaysToSock(e) == Goto(e, "sock") /\ UNCHANGED ready

\* The end of the TUN branch: the socket branch, if FD_ISSET says so.
AfterTun(e) ==
  IF "sock" \in ready[e] THEN Goto(e, "sock") /\ UNCHANGED ready ELSE Again(e)

\* A failing read or recvfrom consumes nothing.
ReadFails(e) ==
  /\ At(e, "tun") \/ At(e, "sock")
  /\ Fault
  /\ Again(e)
  /\ UNCHANGED <<process, tunIn, wire, queue, history>>

\* run_client, TUN branch: read, encrypt, sendto the server.
ClientTunToNet(c, p) ==
  LET clear == [src |-> c, dst |-> Server, data |-> p]
  IN  /\ At(c, "tun")
      /\ tunIn[c][p] > 0
      /\ tunIn' = [tunIn EXCEPT ![c] = Remove(@, p)]
      /\ \/ /\ wire' = Add(wire, Sealed(clear))
            /\ AfterTun(c)
            /\ UNCHANGED <<lost, faults>>
         \/ /\ Fault                              \* sendto fails
            /\ lost' = Add(lost, clear)
            /\ Again(c)
            /\ UNCHANGED wire
      /\ UNCHANGED <<process, queue, sent, written, dups>>

\* run_server, TUN branch: read, encrypt, and nothing more.
ServerTunToNet(p) ==
  /\ At(Server, "tun")
  /\ tunIn[Server][p] > 0
  /\ tunIn' = [tunIn EXCEPT ![Server] = Remove(@, p)]
  /\ AfterTun(Server)
  /\ UNCHANGED <<process, wire, queue, history, faults>>

\* Mutant: the packet is written as it came from the socket.
WrittenRaw(d) == d

\* The socket branch, the same in both: recvfrom, decrypt.
Received(d) == Sealed(d)

\* ... and write to the TUN interface, which fails when its link is down.
NetToTun(e, d) ==
  /\ At(e, "sock")
  /\ d.dst = e
  /\ queue[d] > 0
  /\ queue' = Remove(queue, d)
  /\ \/ /\ "link" \in configured[e]
        /\ written' = Add(written, Received(d))
        /\ UNCHANGED <<lost, faults>>
     \/ /\ IF "link" \in configured[e] THEN Fault ELSE UNCHANGED faults
        /\ lost' = Add(lost, Sealed(d))
        /\ UNCHANGED written
  /\ Again(e)
  /\ UNCHANGED <<process, tunIn, wire, sent, dups>>

-----------------------------------------------------------------------------
(* The hosts and the network.                                              *)

\* A client's host sends a packet to the server through the tunnel.
HostSends(c, p) ==
  LET clear == [src |-> c, dst |-> Server, data |-> p]
  IN  /\ status[c] = "running" /\ configured[c] = IpCommand
      /\ sent[clear] < MaxSend
      /\ tunIn' = [tunIn EXCEPT ![c] = Add(@, p)]
      /\ sent' = Add(sent, clear)
      /\ UNCHANGED <<process, loop, wire, queue, written, lost, dups, faults>>

\* The first bit of a packet tells a request from its reply.
Reply(p) == [p EXCEPT ![1] = 1 - @]

\* The server's host answers a packet that came out of the tunnel, with as
\* many packets as it likes: what the queue of the TUN cannot take is lost
\* outside the program, and this traffic never has to end.
HostReplies(c, p) ==
  LET request == [src |-> c, dst |-> Server, data |-> p]
  IN  /\ status[Server] = "running" /\ configured[Server] = IpCommand
      /\ written[request] > 0
      /\ tunIn[Server][Reply(p)] < MaxWaiting
      /\ tunIn' = [tunIn EXCEPT ![Server] = Add(@, Reply(p))]
      /\ UNCHANGED <<process, loop, wire, queue, history, faults>>

\* A datagram arrives, at a process that is there to receive it.
Arrive(d) ==
  /\ wire[d] > 0
  /\ status[d.dst] = "running"
  /\ wire' = Remove(wire, d)
  /\ queue' = Add(queue, d)
  /\ UNCHANGED <<process, loop, tunIn, history, faults>>

LoseOnWire(d) ==
  /\ wire[d] > 0
  /\ Fault
  /\ wire' = Remove(wire, d)
  /\ lost' = Add(lost, Sealed(d))
  /\ UNCHANGED <<process, loop, tunIn, queue, sent, written, dups>>

RepeatOnWire(d) ==
  /\ wire[d] > 0
  /\ Fault
  /\ wire' = Add(wire, d)
  /\ dups' = Add(dups, Sealed(d))
  /\ UNCHANGED <<process, loop, tunIn, queue, sent, written, lost>>

-----------------------------------------------------------------------------

Body(e) ==
  \/ ReadFails(e)
  \/ \E p \in Packet : IF e = Server THEN ServerTunToNet(p) ELSE ClientTunToNet(e, p)
  \/ \E d \in Datagram : NetToTun(e, d)

Network(d) == Arrive(d) \/ LoseOnWire(d) \/ RepeatOnWire(d)

Next ==
  \/ \E e \in Endpoint : Start(e) \/ StartFails(e) \/ SelectFails(e)
  \/ \E e \in Endpoint : Select(e) \/ Body(e)
  \/ \E c \in Client, p \in Request : HostSends(c, p) \/ HostReplies(c, p)
  \/ \E d \in Datagram : Network(d)

Spec == Init /\ [][Next]_vars

\* A running process executes its loop, a datagram does not stay on the wire
\* for ever, and hosts answer.  No process has to be started, and no host has
\* to send.
Fairness ==
  /\ \A e \in Endpoint : WF_vars(Select(e)) /\ WF_vars(Body(e))
  /\ \A d \in Datagram : WF_vars(Arrive(d))
  /\ \A c \in Client, p \in Request : WF_vars(HostReplies(c, p))

FairSpec == Spec /\ Fairness

-----------------------------------------------------------------------------
(* Properties.                                                             *)

Bag(S) == [S -> Nat]

\* Types, the budget of faults, and a program counter that agrees with fds:
\* a branch runs only when its FD_ISSET holds, and FD_ZERO comes first.
TypeOK ==
  /\ status \in [Endpoint -> {"off", "running", "exited"}]
  /\ configured \in [Endpoint -> SUBSET IpCommand]
  /\ pc \in [Endpoint -> {"select", "tun", "sock"}]
  /\ ready \in [Endpoint -> SUBSET {"tun", "sock"}]
  /\ \A e \in Endpoint :
       IF pc[e] = "select" THEN ready[e] = {} ELSE pc[e] \in ready[e]
  /\ tunIn \in [Endpoint -> Bag(Packet)]
  /\ wire \in Bag(Datagram)
  /\ queue \in Bag(Datagram)
  /\ sent \in Bag(Datagram)
  /\ written \in Bag(Datagram)
  /\ lost \in Bag(Datagram)
  /\ dups \in Bag(Datagram)
  /\ faults \in 0..MaxFaults

\* The copies of an upload that are inside the tunnel, in clear in the TUN
\* interface, encrypted everywhere else.
Transit(m) == tunIn[m.src][m.data] + wire[Sealed(m)] + queue[Sealed(m)]

\* On the way from a client's host to the server's, no packet appears,
\* disappears or changes a bit: every copy that a host sent or the network
\* repeated is under way, written to the server's TUN, or lost by a fault
\* that somebody reported.
Conservation ==
  \A m \in Upload :
    sent[m] + dups[m] = Transit(m) + written[m] + lost[m]

\* The descriptors the loop reads are blocking.  It reads one only while the
\* kernel has something for it, although it learned so before the other
\* branch ran: a loop that waits in read or recvfrom would starve the other
\* direction.
NeverBlocks ==
  \A e \in Endpoint :
    /\ At(e, "tun") => \E p \in Packet : tunIn[e][p] > 0
    /\ At(e, "sock") => \E d \in Datagram : d.dst = e /\ queue[d] > 0

\* Seen from the hosts, the direction from the clients to the server is a
\* lossy channel: nothing comes out that did not go in.
Tunnel == INSTANCE LossyChannel
            WITH Message <- Upload,
                 accepted <- [m \in Upload |-> sent[m]],
                 transit <- [m \in Upload |-> Transit(m)],
                 delivered <- [m \in Upload |-> written[m]]

ImplementsChannel == Tunnel!Spec

\* Traffic in one branch never starves the other.  Once errors and restarts
\* have stopped, every packet a client's host sent leaves the tunnel, although
\* the server's host keeps its TUN interface readable for ever and the loop
\* tries the TUN branch first.
PipelineDrains ==
  <>[](\A e \in Endpoint : status[e] = "running")
    => <>[](\A m \in Upload : Transit(m) = 0)

\* The test of the file (line 318) and of its README (line 32): a ping from a
\* client is answered.  The request came out at the server, whose host sends
\* the reply into the tunnel; then it has to come out at the client.
PingAnswered ==
  \A c \in Client, p \in Request :
    written[[src |-> c, dst |-> Server, data |-> p]] > 0
      ~> \/ written[[src |-> Server, dst |-> c, data |-> Reply(p)]] > 0
         \/ \E e \in Endpoint : configured[e] # IpCommand \/ status[e] # "running"
=============================================================================
