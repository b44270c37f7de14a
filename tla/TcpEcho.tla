------------------------------ MODULE TcpEcho -------------------------------
(***************************************************************************)
(* coding-problems/01_tcp_echo_server.c: a server that sets up a listening *)
(* socket, accepts one client, and echoes until the client hangs up.       *)
(*                                                                         *)
(* Outside the program, and modelled as it uses them: the clients, and the *)
(* kernel with its backlog and its bounded socket buffers.  A byte is      *)
(* named by its position in its client's stream, which tells apart all     *)
(* that an echo can do wrong: skip, repeat or swap bytes.                  *)
(***************************************************************************)
EXTENDS Naturals, Sequences, SequencesExt, FiniteSets

CONSTANTS
  Client,
  Reader,        \* the clients that keep reading what is echoed
  NoClient,      \* the value of client_fd before accept
  MAX_PENDING,   \* the backlog (5 in the code)
  RECV_MAX,      \* what one recv asks for: BUFFER_SIZE - 1 bytes
  RcvBuf,        \* bound: the bytes a receive buffer holds
  SndBuf,        \* bound: the bytes a send buffer holds
  MaxBytes       \* bound: the bytes a client writes

ASSUME TcpAssumption ==
  /\ Reader \subseteq Client
  /\ NoClient \notin Client
  /\ {MAX_PENDING, RECV_MAX, RcvBuf, SndBuf} \subseteq Nat \ {0}
  /\ MaxBytes \in Nat

VARIABLES
  pc,            \* the call the server is in ("sending" when it has copied a
                 \* part), "cleanup" or "ended"
  outcome,       \* "running", "failed", "done" or "killed"
  fds,           \* the descriptors the server has open
  peer,          \* the client that accept returned
  buffer,        \* received and not yet handed to the kernel by send
  backlog,       \* connected clients that wait for accept
  conn,          \* each connection, see below
  written,       \* bytes each client has written so far
  toServer,      \* the server's receive buffer of each connection
  toClient,      \* the server's send buffer of each connection
  echoed,        \* what each client has read
  lost           \* bytes that a short send left to be overwritten

server == <<pc, outcome, fds, peer, buffer>>
streams == <<written, toServer, toClient, echoed, lost>>
vars == <<server, backlog, conn, streams>>

\* "idle": not connected; "up": connected; "shut": the client has sent FIN
\* and reads on; "closed": the client has closed; "pipe": closed, and its
\* RST has arrived; "reset": aborted by the client or by the server's end.
Connection == {"idle", "up", "shut", "closed", "pipe", "reset"}

Init ==
  /\ pc = "socket" /\ outcome = "running" /\ fds = {}
  /\ peer = NoClient /\ buffer = <<>>
  /\ backlog = <<>>
  /\ conn = [c \in Client |-> "idle"]
  /\ written = [c \in Client |-> 0]
  /\ toServer = [c \in Client |-> <<>>]
  /\ toClient = [c \in Client |-> <<>>]
  /\ echoed = [c \in Client |-> <<>>]
  /\ lost = [c \in Client |-> {}]

-----------------------------------------------------------------------------
(* Setting up.  Each call succeeds and the next one follows, or it fails:  *)
(* perror, close(server_fd) unless it is socket that failed, exit.         *)

Call(at, next, opened) ==
  /\ pc = at
  /\ pc' = next
  /\ fds' = fds \cup opened
  /\ UNCHANGED <<outcome, peer, buffer, backlog, conn, streams>>

\* When the listening socket closes, clients that were not accepted are reset.
ResetBacklog ==
  /\ backlog' = <<>>
  /\ conn' = [c \in Client |-> IF c \in Range(backlog) THEN "reset" ELSE conn[c]]

CallFails(at) ==
  /\ pc = at
  /\ pc' = "ended"
  /\ outcome' = "failed"
  /\ fds' = fds \ {"server_fd"}
  /\ ResetBacklog
  /\ UNCHANGED <<peer, buffer, streams>>

SetUp ==
  \/ Call("socket", "setsockopt", {"server_fd"})
  \/ Call("setsockopt", "bind", {})
  \/ Call("bind", "listen", {})
  \/ Call("listen", "accept", {})

SetUpFails ==
  \E at \in {"socket", "setsockopt", "bind", "listen", "accept"} : CallFails(at)

Accept ==
  /\ pc = "accept"
  /\ backlog # <<>>
  /\ peer' = Head(backlog)
  /\ backlog' = Tail(backlog)
  /\ fds' = fds \cup {"client_fd"}
  /\ pc' = "recv"
  /\ UNCHANGED <<outcome, buffer, conn, streams>>

-----------------------------------------------------------------------------
(* The echo loop.                                                          *)

Least(a, b) == IF a < b THEN a ELSE b

\* Mutant: recv may fill the buffer, and nothing is left for the final NUL.
WholeBuffer == RECV_MAX + 1

Asked == RECV_MAX

\* Mutant: recv with MSG_WAITALL, which returns less than it was asked for
\* only at the end of the stream.
WaitAll ==
  /\ toServer[peer] # <<>>
  /\ Len(toServer[peer]) >= Asked \/ conn[peer] # "up"

Arrived == toServer[peer] # <<>>

\* recv returns what there is, up to the size it was given.
Recv ==
  /\ pc = "recv"
  /\ Arrived
  /\ LET n == Least(Asked, Len(toServer[peer]))
     IN  /\ buffer' = SubSeq(toServer[peer], 1, n)
         /\ toServer' = [toServer EXCEPT ![peer] = SubSeq(@, n + 1, Len(@))]
  /\ pc' = "send"
  /\ UNCHANGED <<outcome, fds, peer, backlog, conn, written, toClient, echoed, lost>>

\* Mutant: a poll before recv that takes POLLRDHUP for the end of the data.
HungUpEarly == conn[peer] \in {"shut", "closed", "pipe", "reset"}

\* Mutant: the test bytes_received == 0 is missing, and only -1 ends the loop.
HungUpError == conn[peer] = "reset" /\ toServer[peer] = <<>>

\* recv returns 0, after a FIN, or -1, after a RST: in both cases only when
\* nothing is left to read.
HungUp ==
  /\ conn[peer] \in {"shut", "closed", "pipe", "reset"}
  /\ toServer[peer] = <<>>

RecvEnds ==
  /\ pc = "recv"
  /\ HungUp
  /\ pc' = "cleanup"
  /\ UNCHANGED <<outcome, fds, peer, buffer, backlog, conn, streams>>

Room == SndBuf - Len(toClient[peer])

\* Mutant: send as on a non-blocking socket, its result not compared with
\* bytes_received: what does not fit is not sent.
SendPart ==
  LET n == Least(Room, Len(buffer))
  IN  /\ toClient' = [toClient EXCEPT ![peer] = @ \o SubSeq(buffer, 1, n)]
      /\ buffer' = <<>>

\* send on a blocking socket copies what fits into the kernel's buffer and
\* waits for the client to read, until all is copied or it is interrupted.
SendCopies ==
  LET n == Least(Room, Len(buffer))
  IN  /\ Room > 0
      /\ toClient' = [toClient EXCEPT ![peer] = @ \o SubSeq(buffer, 1, n)]
      /\ buffer' = SubSeq(buffer, n + 1, Len(buffer))

Sending == pc \in {"send", "sending"}

\* Mutant: with a signal handler, and EINTR passed over, a send that was
\* interrupted before it had copied anything is not made again.
InterruptedAnywhere == Sending

Send ==
  /\ Sending
  /\ conn[peer] \in {"up", "shut"}
  /\ SendCopies
  /\ pc' = IF buffer' = <<>> THEN "recv" ELSE "sending"
  /\ UNCHANGED <<outcome, fds, peer, backlog, conn, written, toServer, echoed, lost>>

\* The kernel takes up again a call that was interrupted before it had copied
\* anything, so that the program notices nothing.
Interruptible == pc = "sending"

\* A signal that stops the process and lets it continue (Ctrl-Z, fg) ends a
\* send that has copied a part: it returns the length of that part.  The code
\* tests the result only for < 0, and the next recv overwrites the rest.
SendShort ==
  /\ Interruptible
  /\ conn[peer] \in {"up", "shut"}
  /\ lost' = [lost EXCEPT ![peer] = @ \cup Range(buffer)]
  /\ buffer' = <<>>
  /\ pc' = "recv"
  /\ UNCHANGED <<outcome, fds, peer, backlog, conn, written, toServer, toClient, echoed>>

\* The client has closed its end: its kernel takes the data, drops it and
\* answers with a RST, which arrives sooner or later.
SendToClosed ==
  /\ Sending
  /\ conn[peer] = "closed"
  /\ buffer' = <<>>
  /\ \E answer \in {"closed", "pipe"} : conn' = [conn EXCEPT ![peer] = answer]
  /\ pc' = "recv"
  /\ UNCHANGED <<outcome, fds, peer, backlog, streams>>

\* After an abort, send fails; if it had copied a part before, it returns the
\* length of that part, which the code does not compare with bytes_received.
SendFails ==
  /\ Sending
  /\ conn[peer] = "reset"
  /\ buffer' = <<>>
  /\ pc' = IF pc = "send" THEN "cleanup" ELSE "recv"
  /\ UNCHANGED <<outcome, fds, peer, backlog, conn, streams>>

\* After a RST to a closed connection, send raises SIGPIPE, which the code
\* neither ignores nor catches: the process ends, the kernel closes.
SendKills ==
  /\ pc = "send"
  /\ conn[peer] = "pipe"
  /\ pc' = "ended"
  /\ outcome' = "killed"
  /\ fds' = {}
  /\ ResetBacklog
  /\ UNCHANGED <<peer, buffer, streams>>

Cleanup ==
  /\ pc = "cleanup"
  /\ fds' = fds \ {"client_fd", "server_fd"}
  /\ pc' = "ended"
  /\ outcome' = "done"
  /\ ResetBacklog
  /\ UNCHANGED <<peer, buffer, streams>>

-----------------------------------------------------------------------------
(* The clients.                                                            *)

Listening == pc \in {"accept", "recv", "send", "sending", "cleanup"}

Connect(c) ==
  /\ Listening
  /\ conn[c] = "idle"
  /\ Len(backlog) < MAX_PENDING
  /\ conn' = [conn EXCEPT ![c] = "up"]
  /\ backlog' = Append(backlog, c)
  /\ UNCHANGED <<server, streams>>

\* A connected client may write before it is accepted.
Write(c) ==
  /\ conn[c] = "up"
  /\ written[c] < MaxBytes
  /\ Len(toServer[c]) < RcvBuf
  /\ written' = [written EXCEPT ![c] = @ + 1]
  /\ toServer' = [toServer EXCEPT ![c] = Append(@, written[c] + 1)]
  /\ UNCHANGED <<server, backlog, conn, toClient, echoed, lost>>

Read(c) ==
  /\ conn[c] \in {"up", "shut"}
  /\ toClient[c] # <<>>
  /\ echoed' = [echoed EXCEPT ![c] = Append(@, Head(toClient[c]))]
  /\ toClient' = [toClient EXCEPT ![c] = Tail(@)]
  /\ UNCHANGED <<server, backlog, conn, written, toServer, lost>>

\* shutdown or close.  Closing with unread data aborts the connection.
HangUp(c) ==
  \/ /\ conn[c] = "up"
     /\ conn' = [conn EXCEPT ![c] = "shut"]
     /\ UNCHANGED <<server, backlog, streams>>
  \/ /\ conn[c] \in {"up", "shut"}
     /\ conn' = [conn EXCEPT ![c] = IF toClient[c] = <<>> THEN "closed" ELSE "reset"]
     /\ toClient' = [toClient EXCEPT ![c] = <<>>]
     /\ UNCHANGED <<server, backlog, written, toServer, echoed, lost>>

-----------------------------------------------------------------------------

Loop == Recv \/ RecvEnds \/ Send \/ SendToClosed \/ SendFails \/ SendKills \/ Cleanup

Next ==
  \/ SetUp \/ SetUpFails \/ Accept \/ Loop \/ SendShort
  \/ \E c \in Client : Connect(c) \/ Write(c) \/ Read(c) \/ HangUp(c)

\* The server executes its calls; the clients of Reader read.  No client has
\* to connect, write or hang up, and nothing stops the process in a send.
Fairness ==
  /\ WF_vars(SetUp) /\ WF_vars(Accept) /\ WF_vars(Loop)
  /\ \A c \in Reader : WF_vars(Read(c))

Spec == Init /\ [][Next]_vars /\ Fairness

-----------------------------------------------------------------------------
(* Properties.                                                             *)

\* Types, the bounds of the backlog and of the kernel's buffers, and of what
\* one recv may put into the buffer: printf needs the zero byte after it.
TypeOK ==
  /\ pc \in {"socket", "setsockopt", "bind", "listen", "accept",
             "recv", "send", "sending", "cleanup", "ended"}
  /\ outcome \in {"running", "failed", "done", "killed"}
  /\ fds \subseteq {"server_fd", "client_fd"}
  /\ peer \in Client \cup {NoClient}
  /\ buffer \in Seq(1..MaxBytes) /\ Len(buffer) <= RECV_MAX
  /\ Sending = (buffer # <<>>) \/ outcome = "killed"
  /\ backlog \in Seq(Client) /\ Len(backlog) <= MAX_PENDING
  /\ conn \in [Client -> Connection]
  /\ written \in [Client -> 0..MaxBytes]
  /\ \A c \in Client :
       /\ toServer[c] \in Seq(1..MaxBytes) /\ Len(toServer[c]) <= RcvBuf
       /\ toClient[c] \in Seq(1..MaxBytes) /\ Len(toClient[c]) <= SndBuf
       /\ echoed[c] \in Seq(1..MaxBytes)
       /\ lost[c] \subseteq 1..MaxBytes

Ordered(s) == \A i, j \in DOMAIN s : i < j => s[i] < s[j]

\* What the server's buffer holds of the stream of c.
Held(c) == IF c = peer THEN buffer ELSE <<>>

\* The stream of c from where it is read to where it was written.
Whole(c) == echoed[c] \o toClient[c] \o Held(c) \o toServer[c]

\* While the connection stands, the bytes that the client has read, those in
\* the send buffer, those that send has still to copy and those not yet
\* received are in the order in which the client wrote them, and they are all
\* of them but the rest of each short send: whatever the sizes of the pieces
\* that recv and send work in, no byte is repeated, moved or skipped.
EchoInOrder ==
  \A c \in Client :
    conn[c] \in {"up", "shut"} =>
      /\ Ordered(Whole(c))
      /\ Range(Whole(c)) = (1..written[c]) \ lost[c]

\* A client that only shut down its sending side has everything it wrote, but
\* the rest of a short send, echoed before the server closes.
DrainedAtEnd ==
  \A c \in Client :
    outcome = "done" /\ peer = c /\ conn[c] = "shut" =>
      LET s == echoed[c] \o toClient[c]
      IN  Ordered(s) /\ Range(s) = (1..written[c]) \ lost[c]

\* Only a client that writes more than one send buffer can lose a byte: a
\* send that is stopped loses nothing unless the buffer was full of bytes
\* that the client has yet to read, and the first SndBuf bytes always fit.
LossNeedsFullBuffer == \A c \in Client : \A b \in lost[c] : b > SndBuf

\* "Echoes back whatever data it receives" (lines 5-6).  It does not: send
\* may be short, and its result is not compared with bytes_received.
EchoesAll ==
  \A c \in Client :
    conn[c] \in {"up", "shut"} => Whole(c) = [i \in 1..written[c] |-> i]

\* What a reading client writes, in however small pieces, it eventually
\* reads, unless a short send loses it or the client closes its end: the
\* server waits neither for more than there is nor for a client that waits
\* for it.
EchoCompletes ==
  \A c \in Reader, n \in 1..MaxBytes :
    (peer = c /\ n <= written[c])
      ~> (n \in Range(echoed[c]) \cup lost[c] \/ conn[c] \notin {"up", "shut"})

\* When the accepted client hangs up, the server ends.
EndsAfterHangUp ==
  \A c \in Reader :
    (peer = c /\ conn[c] \notin {"idle", "up"}) ~> pc = "ended"
=============================================================================
