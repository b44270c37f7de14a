# TLA+ models of the networking programs

The repository is a collection of interview-preparation material on networking.
What runs in it are eight C programs under
`src/interview-prep/coding-problems/` and
`src/interview-prep/sample-projects/vpn-implementation/`; the rest is prose. This
directory holds TLA+ models of all eight, the TLC configurations that
check them on small instances, and TLAPS proofs of the results that matter most.

Paths below are relative to `src/interview-prep/`.

- [1. Inventory](#1-inventory)
- [2. Modules, and how they correspond to the code](#2-modules-and-how-they-correspond-to-the-code)
- [3. Runs: questions, bounds, results](#3-runs-questions-bounds-results)
- [4. Fairness](#4-fairness)
- [5. Proofs](#5-proofs)
- [6. Where the code and its documentation disagree](#6-where-the-code-and-its-documentation-disagree)
- [7. What is not modelled](#7-what-is-not-modelled)
- [8. Plan](#8-plan)
- [9. Running it](#9-running-it)

## 1. Inventory

Each program is a process of its own with one thread. No two of them share state;
they interact with peers and with the kernel: UDP and TCP sockets, a TUN
interface, an `AF_PACKET` socket. What is hard about them is therefore not locking
but what happens between two calls: what the network has done with the datagrams,
what the kernel has in its queues when a descriptor is read, what a peer does
while a call blocks, which call of several fails.

| Component | State it keeps | Operations | Interacts with | What is hard | What makes it correct |
|---|---|---|---|---|---|
| **ESP receiver** `10_ipsec_esp_parser.c` | SA database (array, `sa_count`), one highest sequence number per SA | `add_sa`, `lookup_sa`, `check_replay`, `parse_esp_packet`, `create_sample_esp_packet` | a network that repeats and reorders | repeated, late and overtaken packets; an SPI registered twice; a full array; the window's edge; sequence 0 and the largest number; fields in network byte order | a number passes once, and in order; registering again does not reopen an SPI; a refusal has the reason it states |
| **UDP tunnel** `simple_vpn.c` | per process: TUN and socket descriptors, `fds`, position in the select loop | start, the two branches of each loop, error paths, `simple_encrypt` | UDP, TUN interfaces, the hosts behind them, its peers | stale readiness on blocking descriptors; errors that skip the other branch; restarts with datagrams under way; loss, repetition, reordering | nothing is invented, changed or silently lost; no loop blocks on an empty descriptor; both directions progress; a ping is answered |
| **TCP echo server** `01_tcp_echo_server.c` | two descriptors, one buffer | set-up calls, `accept`, the `recv`/`send` loop, clean-up | clients, backlog, bounded socket buffers | partial `recv`, blocking `send`, a `send` cut short by a signal, both sides waiting for each other, FIN with bytes unread, RST, SIGPIPE, set-up failures | the echo is the stream; the server ends when its client does |
| **UDP echo server and client** `02_udp_echo_server.c` | server: one buffer and one `client_addr`; client: socket, timeout | server loop; one request per client run | UDP, ephemeral ports | late echoes and reused ports, timeouts, an unchecked `setsockopt`, truncation | an echo goes where the request came from, at most once; clients end |
| **Internet checksum** `05_checksum_calculator.c`, also in `04_…` | accumulator, pointer, length; the pseudo-header | `calculate_tcp_udp_checksum` and the three loops of `calculate_checksum` | callers | overflow, a fold that carries again, the odd byte, byte order | equals RFC 1071; loops end |
| **IP header parser** `04_ip_header_parser.c` | the caller's packet, which it writes into | `parse_ip_header`, `validate_checksum` | caller that parses again | the zeroed field, two zeros of one's complement, options | gives the packet back as it came; the verdict is right |
| **Packet sniffer** `03_raw_socket_sniffer.c` | one buffer that is reused, `packet_count` | `main`'s set-up and loop, `process_packet` and the printers | `AF_PACKET` socket | bytes of earlier frames, short frames, frames that are not IP, a queue that overflows, failing calls | the report of a frame that holds the headers that are read is of that frame; no frame stops it |
| **WireGuard simulation** `11_wireguard_concepts.c` | per peer: key, `session_index`, `tx_counter` | `create_peer`, `create_handshake_initiation`, `create_handshake_response`, `create_data_packet` | nobody: `main` builds each message from the last, none is sent | the counter as nonce across handshakes, re-created peers and its wrap; bytes of an index that travels through two messages; initiations answered late or twice | no counter twice under a key; a response names the initiator's session, and a data packet the receiver's |
| **Telecom notes** `L2-MAC-Telecom/*.md` | none | code fragments that belong to no program | – | – | not modelled |
| **Guides, questions, plans** `concepts/`, `mock-questions/`, `README.md` | none | – | – | – | not modelled |

The hazards of each program, at the line where they bite, are listed in
`PROJECT.json` with the properties that would notice them going wrong.

## 2. Modules, and how they correspond to the code

```
AntiReplay  <── refined by ── EspReceiver ── MCEspReceiver, EspReceiverProofs
LossyChannel <── refined by ── SimpleVpn  ── MCSimpleVpn,  SimpleVpnProofs
TcpEcho   ── MCTcpEcho,   TcpEchoProofs
UdpEcho   ── MCUdpEcho,   UdpEchoProofs
Sniffer   ── MCSniffer,   SnifferProofs
IpHeader  ── MCIpHeader,  IpHeaderProofs
Checksum  ── MCChecksum, ChecksumProofs
WireGuard ── MCWireGuard, WireGuardProofs

ByteOrder <── extended by ── EspReceiver, Checksum, WireGuard
```

Definitions carry the names of the functions they stand for. An operator whose
comment begins with "Mutant" is a plausible bug of the definition that follows
it; it is used by no specification. It exists so that the sensitivity of each
property can be tested: with the mutant in the place of the definition, the
property is violated.

**`AntiReplay`** (abstract). What a receiver promises to the layer above: a packet
with a given number is delivered at most once per stream.

**`ByteOrder`**. Bytes, words, and the conversions `htons`, `htonl`, `htobe64` and
their inverses. On a little-endian host each of them reverses the bytes of a word,
so one pair of operators on words of two bytes stands for all of them. `BYTE` is
the number of values of a byte. A field is kept as the code stores it, and whoever
forgets to convert reads another number.

**`EspReceiver`**. `sa_database` is the used part of the array, so its length is
`sa_count`. `AddSA`, `AddSAFull` are `add_sa`; `LookupSA(i, spi)` says that the
scan from slot 0 stops at `i`; `Fresh`, `StaleOutcome` and `Record` are
`check_replay`, including its side effect on the SA; the actions `ParseTooSmall`,
`ParseUnknownSpi`, `ParseStale` and `ParseFresh` are the four ways out of
`parse_esp_packet`. `report` is the last printed outcome, `passed` counts what got
through. A packet's header is what `create_sample_esp_packet` writes, SPI and number
converted; `Parse` reads both back, while `passed` is kept under the numbers that
the sender used. Any caller may call in any order, hence every interleaving of packets
that a network can produce is included.

**`LossyChannel`** (abstract). What a tunnel over UDP promises: what comes out went
in, bit for bit; copies may be lost, repeated and reordered.

**`SimpleVpn`**. One process per endpoint. `Start`, `StartFails` and `SelectFails`
cover process start, its failing calls and `break`; `Select` fills `fds` (`ready`);
`ClientTunToNet`, `ServerTunToNet` and `NetToTun` are the branches, each as a whole
with its read, encryption, write or send, and error path; `pc` is the branch that
comes next, so everything else may happen between `select` and a branch, and
between the branches. A `continue` in the first branch skips the second (`Again`).
`configured` says which of the two `ip` commands of the last start worked, whose
results the code ignores: without the address no host routes into the tunnel, and
without the link every write to the interface fails. The server's host may answer
what it received for ever, so that the server's TUN interface need never fall
silent. Queues are bags, because UDP may deliver any queued datagram next. The
packets are bits: XOR acts on each bit alone, and key and packets have different
lengths so that the key wraps.

**`TcpEcho`**. `pc` names the call the server is in. `Recv` takes up to
`BUFFER_SIZE - 1` bytes; `Send` copies what fits and remains in `sending` while the
buffer is full; `SendShort` is a `send` that a signal (stop and continue) ends after
it has copied a part: it returns a short count, which the code, comparing with 0
only, takes for success, and the rest is overwritten (`lost`). `RecvEnds`,
`SendFails`, `SendToClosed` and `SendKills` are end of file, errors and SIGPIPE. A
byte is its position in the stream. Clients connect, write, read, shut down, close,
or abort (closing with unread bytes) at any time.

**`UdpEcho`**. Server loop and runs of the client; a run takes a free port, and
returns it when it ends. A message is named by the run that sent it; only its
length is kept besides, because both sides cut what does not fit. `timer` records
whether the unchecked `setsockopt` worked.

**`Checksum`**. `Init` is a call of `calculate_tcp_udp_checksum` with any addresses,
protocol and data, or of `calculate_checksum`, which is the same without a
pseudo-header (`NoHeader`). `PseudoHeader` is the 12 bytes that the code
assembles: the addresses as they were given, the length converted. The model asks
of a caller, as the signature does, that addresses come in network order; `main`
passes them in host order, which is listed as a hazard. One action per iteration
of each loop. `total`, `carried` and
`folds` are history: the sum without overflow, and what the folds did.

**`IpHeader`**. The packet is a sequence of words whose first word holds version
and IHL. `Refuse` holds the three checks in the order of the code;
`StartValidation` and `EndValidation` are the two writes of `validate_checksum`
around the sum. `Init` is any header a sender can fill in, with or without options,
and any number of its words may have arrived; `Change` damages one word between
parses, as `main` does.

**`Sniffer`**. `owner` says which frame each byte of the buffer belongs to (0: as
`malloc` left it), `iph` the two fields that decide what is read. `report` is what
`process_packet` printed: its number, the transport headers, and the frames whose
bytes went into it. Frames arrive while `process_packet` prints; the socket's queue
holds `RcvBuf` of them, and `Overflow` drops the others, which the program never
learns (`arrived` and `dropped` count both).

**`WireGuard`**. `main` calls each function once or twice, in one order. The model
calls them in any order and with any initiation made so far, as a program built
from them would: a peer is created again while its messages are about, both peers
initiate, an initiation is answered late or twice. Cryptography is random bytes in
the code and is left out; a key is named by the call of `create_peer` that drew it,
and `by` and `to` name the keys of a message's maker and addressee, which are not
fields of it. Indexes and counters are stored as the code converts them. `issued`
is history: the counters that went out under each key. `rx_counter` is never
used by the code and has no part in the model.

## 3. Runs: questions, bounds, results

| Run | Instance | Asks | Bounds, and why they are enough |
|---|---|---|---|
| `esp` | all orders of calls | Is the receiver an anti-replay filter that delivers in order; do its database and refusals mean what they say? | 2 SPIs, 3 slots: an SPI can be absent, single, or registered twice, and the array fills. Bytes of two values, so numbers 0..3, of which 1 and 2 are each other's bytes swapped; with a window of 2, "replay" and "too old" both occur, at and beyond the edge, and the top of the range is reached. |
| `esp_window` | *violation* | Is a packet reported as replay one that was received before? | the same, smaller |
| `vpn` | 2 clients and the server | Conservation, no blocking read, refinement of `LossyChannel`, draining | each host sends each packet once, the server's host answers without end, one reply waiting at a time (`MaxWaiting`); 2 faults: enough for a repetition and a loss, or either and a failing call, in one behaviour, and for both branches of the server to be ready at once. Packet length 3 over a key of 2: the key wraps. |
| `vpn_ping` | *violation* | Is a ping answered when nothing fails? | 1 client, 1 ping, no faults |
| `tcp_echo` | 2 clients | Order, completeness but for short sends, what those can lose, progress, end | `recv` takes 3, buffers hold 4 and 2, the stream has 5 bytes: longer than what a `recv`, either buffer, or a copy of `send` can take, so every split occurs, and a `send` can be stopped in any copy. The second client waits in a backlog of one. |
| `tcp_short` | *violation* | Is all data that is received echoed? | `recv` takes 2, buffers hold 3, the stream has 5 bytes |
| `udp_echo` | 2 client runs | Right port, at most one echo, no cross-talk, progress, end | 2 ports: the runs can be concurrent, or use one port in turn; buffers of 1 and messages up to 2: cut and uncut; 1 fault of any kind |
| `udp_reuse` | *violation* | Is the echo a client prints its own? | no faults: timing alone |
| `checksum` | 3 addresses, every data of up to 6 bytes, longer ones of the largest byte | Does it compute RFC 1071; how often does it fold; does it return? | a byte has 3 values, so a word has 9 and the accumulator 81: it holds ten words, that is a pseudo-header (six words) and eight bytes. Data of up to 24 bytes lie on both sides of that, with and without pseudo-header, of even and odd length. Zero, one and two folds occur. |
| `ip_header` | every header | Packet restored, right verdict, what is wrong with options | 4-valued nibbles; fixed header of 4 words, up to 2 words of options; field values chosen so that the sum folds twice; at most one damaged word (one's complement cannot detect all pairs); every length of the packet |
| `sniffer` | 3 frames, 1 fault | Is a report of its frame; does it go on? | frame sizes end within each header, hold all headers, and exceed the buffer; a stale byte needs one predecessor, and a queue of one frame overflows with the third |
| `wireguard` | 2 peers, interchangeable | Is a counter used once under a key; does a response name the initiator's session; when does a data packet name the receiver's? | 3 calls of `create_peer`: one peer is created again while the messages of its old key exist. Words of four values and 5 packets of a key: the counter wraps. Indexes 1 and 2 are each other's bytes swapped, so a missing conversion shows. |

Every passing run also checks the type invariant of its module, which carries the
bounds the code keeps: `MAX_SA`, `BUFFER_SIZE - 1`, the width of words and of the
accumulator, and the agreement of `pc` with `fds`.

The properties, by what they guard against:

- *Order and repetition* – `NonceOnce` (WireGuard), `OrderedDelivery`, `HighWater`, `ImplementsAntiReplay`
  (ESP), `EchoInOrder` (TCP), `AtMostOneEcho` (UDP), `ImplementsChannel` (VPN).
- *Two pieces of state that must agree* – `ShadowedUnused` (slots and lookup),
  `Conservation` (everything sent against everything under way, written or lost),
  `NeverBlocks` (`fds` against queues, one branch later), `ReportIsOfFrame` (a
  reused buffer against the frame that was received last), `PacketRestored`.
- *Answers that must be right* – `RefusalExplained`, `VerdictIsRight`,
  `MatchesRFC1071`, `ExactSum`, `EchoFromOwnPort`, `NoCrossTalk`,
  `ResponseFindsInitiator`, `OptionsExplained`, `SentToOneself`.
- *Progress* – `PipelineDrains`, `EchoCompletes`, `EndsAfterHangUp`,
  `QueuedIsEchoed`, `ClientEnds`, `Returns`, `EveryFrameReported`.
- *Ways out* – `DrainedAtEnd`, and `LossNeedsFullBuffer`, which bounds what a short
  send can lose on the way.

Some properties say less than one might expect, because more is not true of the
code. `EchoFromOwnPort` allows the echo of an earlier run with the same port (see
`udp_reuse`). `VerdictIsRight` is about headers without options (for the others see
`OptionsExplained`) and treats 0x0000 and 0xFFFF as the same number, as one's complement does.
`NonceOnce` is about any `WORD` packets in a row (2^64 in the code): after as many,
the unsigned counter starts again under the same key, since nothing rekeys.
`EchoInOrder`, `DrainedAtEnd` and `EchoCompletes` except what a short `send` lost
(see `tcp_short`).
`EchoCompletes` and `EndsAfterHangUp` speak of clients that keep reading: a client
that does not read, or only once it has written everything, can keep the
single-threaded server in `send` for ever. `PipelineDrains` is about errors that
stop: a `read` of the TUN interface that failed for ever would keep the loop from
the socket for ever. `ReportIsOfFrame` is about frames that are not too short
for the headers that are read in them. `OptionsExplained` and `SentToOneself` hold of
the code where its comments say something else (see section 6). `ClientEnds` is about
runs whose unchecked `setsockopt` worked.

Deadlock is checked for `esp`, `ip_header` and their companions, where some call is
always possible. It is off where the modelled processes may all end or wait for a
peer that has nothing to say, and where the bounds on calls can be used up
(`wireguard`); each of these configurations says so.

## 4. Fairness

Fairness is weak everywhere, and only where something other than the environment's
free choice drives the step.

- **VPN**: `Select` and the body of each loop (a running process executes its next
  call); the arrival of datagrams that are not lost; hosts that answer, again and
  again as long as the queue has room. Starting a process, sending and failing are
  never forced. Faults are bounded by `MaxFaults`,
  which plays the part of "errors do not go on for ever".
- **TCP**: the server's calls, one condition for set-up, one for `accept`, one for
  the loop, as the server is always in one call; and the reads of clients in
  `Reader`. No client has to connect, write or hang up, and nothing has to stop a
  `send`.
- **UDP**: the server's loop, each client's wait (answer or expiry), and arrival. A
  client may end by timeout although its echo is under way: expiry needs only an
  empty queue. No client has to start.
- **Checksum**: the function runs on once called. **Sniffer**: the program executes
  its calls; no frame has to arrive.
- **ESP, IP header, WireGuard**: no liveness is claimed, hence no fairness.

## 5. Proofs

`tlapm` proves these for every value of the constants that satisfies the named
assumption in the module (`ByteAssumption`, `EspAssumption`, `VpnAssumption`,
`TcpAssumption`, `UdpAssumption`, `SnifferAssumption`, `ChecksumAssumption`,
`IpAssumption`, `WireGuardAssumption`; TLC evaluates each of them in the passing
runs). Every invariant, action property and refinement that a passing
run checks is proved.

The proofs about ESP, checksum and WireGuard rest on `ConversionInvolution`:
for every size of a byte, converting a word and converting it back is the identity.
Each of the three modules has the few facts about bytes and words that it needs.

**Induction.** Two proofs speak of recursive functions, the sum of the words of a
header and the one's complement sum of RFC 1071. The induction theorems of the
library take an operator as a parameter, which the provers cannot instantiate.
`WFMin` and `NatLessThanWellFounded` of `WellFoundedInduction` do not: from them,
`LeastElement` and then `SetInduction` say that a *set* which has 0, and with every
number its successor, has all natural numbers. A property is proved by applying
this to the set of numbers that have it; that the recursive definition has a
solution at all, and so satisfies its own equation, is proved in this way too
(`PartialSumsSolution`, `OneSumSolution`).

**`EspReceiverProofs`** – `TypeCorrect`, `ShadowedUnusedAlways`, `HighWaterAlways`,
`OrderedDeliveryAlways`, `RefusalExplainedAlways`, and `ReceiverIsFilter`: the
specification implements `AntiReplay`. None of the properties is inductive alone:
that the number in a slot is the highest that has passed is kept only while the
slot found by `lookup_sa` does not change, which needs `ShadowedUnused`, which
needs that an append never comes before an existing slot (`LookupStable`).
The inductive invariant is `TypeOK`, `ShadowedUnused` and `HighWater` together.
Order and refinement are then properties of single steps: a number that passes is
larger than the slot's, hence than every number that has passed (`FreshIsNew`).
That the parser sees the numbers of the sender is `ParseReadsSent`.

**`SimpleVpnProofs`** – for any number of clients, any key, any set of lengths and
any number of faults: `EncryptInvolution` (encrypting twice is the identity, also
when the key wraps), `TypeCorrect`, `ConservationAlways`, `NeverBlocksAlways`, and
`TunnelIsLossyChannel`: the upload direction implements `LossyChannel`. The
involution makes `Sealed` one-to-one, so that copies can be counted along the way;
`Conservation` is inductive given `TypeOK`, with one lemma for the effect of each
action on the counts. `NeverBlocks` needs a strengthening, `FdsTrue`: whatever is
still in `fds` when a branch runs has something to read, since only the endpoint's
own loop takes things out of its queues.

**`ChecksumProofs`** – for every width of a byte, every pseudo-header and every length
of data: `TypeCorrect`, `ExactSumAlways`, `AtMostTwoFoldsAlways`,
`MatchesRFC1071Always`, `ClosedFormAlways`, `StepsRunOut`. The inductive invariant
bounds the true sum by what has been added (`Bounded`: a byte counts for at most
half a word), which keeps the accumulator from overflowing as long as the buffer
fits; relates the true sum to the accumulator and the carries (`Exact`); and
bounds the accumulator by the number of folds (`Shrinking`). The products of two
unknowns are confined to the lemmas at the top; that the pseudo-header is twelve
bytes of words in range is `PseudoHeaderBytes`.

The agreement with RFC 1071 needs a second invariant, `Agreement`: at every step the
true sum in the order of the host is `BYTE` times the one's complement sum, in the
order of the network, of the bytes added so far, up to a multiple of `WORD - 1`, and
the two are zero together. A step keeps it because swapping the bytes of a word is
multiplication by `BYTE` modulo `WORD - 1` (`CongruentAddition`); `Walk` supplies that
words are read at even positions. At the end both are words, and two congruent words
that are zero together are equal (`CongruentWords`), so the result is the swapped
complement. The second half of the invariant is needed, since 0 and `WORD - 1` are
congruent. `Source` and `CoveredBytes` say that the loops walk through what the
checksum covers. `ClosedForm` gives the result as a function of the true sum, which
is how `IpHeader`, whose headers are far below the size that overflows the
accumulator, defines `calculate_checksum`. `StepsRunOut` is the part of `Returns`
that the prover can do: a bound on the steps that are left decreases with each.

**`IpHeaderProofs`** – `TypeCorrect`, `PacketRestoredAlways`,
`VerdictIsRightAlways`, `OptionsExplainedAlways`, for every size of a nibble, of the
fixed header, its options and the array, every position of the checksum and every
value of the fields. `PacketRestored` is inductive only with what holds inside
`validate_checksum`: the field is zero, its value is saved (`Field`), and all other
words are as the sender built them (`Rest`). `Judged` ties a verdict to the packet as
it is now, which holds because whatever changes the packet forgets the verdict.
The verdict itself rests on the sum: the change of one word changes it by as much
(`OneWordChanges`, by induction over the words), and two positive sums that differ by
the change of one word have one remainder modulo `WORD - 1` exactly when the word is
the same number in one's complement (`SameRemainder`). That the sums are positive
needs the first word, which holds the IHL and is never zero: without it, 0 and `WORD - 1`
would have one remainder and different checksums. `OptionsExplained` says what is wrong with headers
that have options, and that it is nothing else: such a header is VALID
exactly when its options sum to zero.

**`WireGuardProofs`** – `TypeCorrect`, `NoncesDoNotRepeat`, `ResponsesAreFound` and
`SentToOneselfAlways`, for any number of peers, calls and packets. `NonceOnce` holds
because the counters of a key are 0, 1, 2, … modulo `WORD` (`IssuedInTurn`), which is
kept only because a live peer's counter is the number of packets under its key
(`CounterInTurn`), its key is its own (`OwnKey`), and keys beyond the last call are
unused (`KeysCreated`). `ResponseFindsInitiator` needs that an initiation carries the
index of the peer whose key it has, as long as that peer lives (`IndexOfPeer`), and
the involution of the conversion. `SentToOneself` says what exactly is wrong with
data packets: they name the other side only when both sides have
drawn the same index.

**`TcpEchoProofs`** – `TypeCorrect`, `EchoInOrderAlways`, `DrainedAtEndAlways`,
`LossNeedsFullBufferAlways`, for any clients, any sizes of the buffers, of one `recv`
and of the backlog, and streams of any length. The heart is `EchoInOrder`: every
step moves a piece of a stream from one place to the next, and a few laws of
concatenation say that the whole stays what it was; a short `send` drops a piece
from its middle, which leaves it in order. It is inductive only with `Control` (the
buffer is empty when a client is accepted, so nothing of one client's stream can be
taken for another's) and `Untouched` (a client that connects has no history).
`DrainedAtEnd` follows with `NothingLeft`: the loop is left only when nothing remains
to be received. `LossNeedsFullBuffer` follows with `Losses`: what a short `send`
drops lies behind a send buffer that was full.

**`UdpEchoProofs`** – `TypeCorrect`, `EchoFromOwnPortAlways`, `AtMostOneEchoAlways`,
`NoCrossTalkAlways`, for any number of runs, ports and faults. The inductive invariant
accounts for every datagram wherever it waits, on the wire, at the server, at a client:
a request carries the message that was sent from its port, an echo the beginning of
it (`Genuine`); a run that waits has its port to itself (`PortsApart`). Copies of a
request and echoes made of them are together at most one more than the faults
(`Accounted`), since only a repetition, which is a fault, makes one more.

**`SnifferProofs`** – `TypeCorrect`, `ReportIsOfFrameAlways`, for any
sizes of buffer, headers and frames. As far as the last frame reaches, the reused
buffer is that frame (`BufferIsFrame`), and what a complete frame's report is made of
lies in that part (`PrintedInFrame`); no report reads outside the buffer
(`PrintedInBuffer`). `Tally` makes the printed number the number of the frame.

Only model-checked: all liveness (`PipelineDrains`, `EchoCompletes`,
`EndsAfterHangUp`, `QueuedIsEchoed`, `ClientEnds`, `Returns`, `EveryFrameReported`),
since the prover cannot reason about fairness and `ENABLED`.

## 6. Where the code and its documentation disagree

Each is a run whose property states what the text says, and which TLC refutes with
a behaviour of the code.

1. `esp_window`: the notes at the end of `10_ipsec_esp_parser.c` (lines 337–341)
   describe a sliding window of 64 in which late packets are still accepted.
   `check_replay` keeps one number per SA, drops everything that is not newer, and
   calls a late first arrival a "potential replay attack".
2. `vpn_ping`: the instructions in `simple_vpn.c` (line 318) and its README
   (line 32) test the tunnel by pinging the server. The server's TUN branch encrypts
   the reply and never sends it (line 146).
3. `udp_reuse`: "Echo back to the same client" (`02_udp_echo_server.c`, line 85)
   holds for addresses, not for clients: a later run that is given the port of one
   that timed out takes the late echo as its own.
4. `tcp_short`: the header of `01_tcp_echo_server.c` (lines 5–6) asks for a server
   that echoes back whatever it receives. `send` is compared with 0 only (line 112);
   when a signal cuts it short, the rest is never echoed. The notes list partial sends
   among the improvements (line 174).

Three more disagreements are no runs of their own. Two are what a proved property
says exactly:

- By the answers in `04_ip_header_parser.c` (lines 245–254), the checksum covers the
  header and options belong to it. `validate_checksum` sums 20 bytes whatever the IHL
  (line 71), and reports correct headers with options as INVALID, unless their options
  sum to zero (`OptionsExplained`).
- `receiver_index` is the "Receiver's session index" (`11_wireguard_concepts.c`,
  line 70). Line 219 fills in the sender's, with the comment "Would be peer's index";
  the receiver finds its session only when the two are the same number
  (`SentToOneself`).
- "Check protocol and print appropriate header" (`03_raw_socket_sniffer.c`, line 144).
  Neither `h_proto` nor the size of the frame is looked at, so a frame that is not IP,
  or too short, is printed under headings that it does not have. `ReportIsOfFrame`
  says how far the damage goes: a frame that is long enough is at least printed from
  its own bytes.

## 7. What is not modelled

- **WireGuard's cryptography**: keys, signatures and cipher text are `rand()` in the
  code, and the model names keys by calls of one run. `rx_counter` is never read, and no message is ever received.
- **`malloc` that fails** in `create_data_packet`, whose result is used unchecked.
- **Notes and guides** (`*.md`): prose, and code fragments without a caller.
- **Text that is printed**, names of algorithms, MAC and IP addresses, ports and
  flags: nothing depends on them. `report` and `verdict` keep what the text claims.
- **Signals** that end a process in its loop: for the VPN, their effect on the
  outside is that of `SelectFails`. SIGPIPE is modelled in `TcpEcho`.
- **Datagrams that the kernel discards** between `select` and `recvfrom` (a wrong
  checksum, say), after which a blocking `recvfrom` waits: `NeverBlocks` is about
  what the program itself can cause.
- **Datagrams from strangers**: endpoints of the VPN and of the UDP echo receive
  only what their peers send. `simple_vpn.c` looks at no sender address.
- **`setsockopt` and `inet_pton` details, descriptor numbers, `perror`**: only
  success and failure.
- **Big-endian hosts**: the constants of the files assume little-endian ones, and so
  does `ByteOrder`. The order in which `main` of `05_…` passes addresses to the
  pseudo-header is recorded as a hazard; the function does what it is asked.
- **`packet_count`** overflows after 2^31 - 1 frames; the bound on frames stays far
  below.
- **The printed payload length** of the IP parser, which is negative for a packet
  that claims less than its header: it decides nothing.

## 8. Plan

Order of work, the most important behaviour first. The safety proofs are complete.

1. `EspReceiver` against `AntiReplay`: the only program that decides something
   about its peers' packets. Runs `esp`, `esp_window`; proofs complete.
2. `SimpleVpn` against `LossyChannel`: the only concurrent system. Runs `vpn`,
   `vpn_ping`; safety proofs complete.
3. `TcpEcho`, runs `tcp_echo` and `tcp_short`; safety proofs complete.
4. `UdpEcho`, runs `udp_echo` and `udp_reuse`; safety proofs complete.
5. `Checksum`, run `checksum`; safety proofs complete.
6. `Sniffer`, run `sniffer`; safety proofs complete.
7. `WireGuard`, run `wireguard`, and `ByteOrder`, on which it, `EspReceiver` and
   `Checksum` rest; safety proofs complete.
8. `IpHeader`, run `ip_header`; safety proofs complete.

Still worth proving: for the other programs that must end or go on, what
`StepsRunOut` is for the checksum, a bound that every step of the program lowers.

## 9. Running it

```
tlc -workers 2 -config MCEspReceiver.cfg MCEspReceiver     # a run
tlapm EspReceiverProofs.tla                                # a proof module
```

`PROJECT.json` lists the runs with the module, configuration and properties of
each, the code that each definition stands for, and a mutant for each property.
