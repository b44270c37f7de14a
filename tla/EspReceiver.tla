---------------------------- MODULE EspReceiver -----------------------------
(***************************************************************************)
(* The receiving side of coding-problems/10_ipsec_esp_parser.c: the        *)
(* Security Association database (add_sa, lookup_sa), the anti-replay      *)
(* check (check_replay) and the packet handler (parse_esp_packet).         *)
(*                                                                         *)
(* main calls add_sa and parse_esp_packet with constants; here any caller  *)
(* may call them in any order, and the packet handed to the parser is any  *)
(* packet create_sample_esp_packet builds.  A network that loses,          *)
(* duplicates and reorders packets is thereby included: the parser may see *)
(* a packet never, once, again, or after a later one.                      *)
(***************************************************************************)
EXTENDS ByteOrder, Sequences

CONSTANTS
  Spi,            \* the SPI values in use, registered or not
  MAX_SA,         \* slots of the database (10 in the code)
  ReplayWindow    \* replay_window of every SA (64 in the code)

ASSUME EspAssumption ==
  /\ Spi \subseteq Word /\ Spi # {}
  /\ MAX_SA \in Nat
  /\ ReplayWindow \in Nat

VARIABLES
  sa_database,    \* the used slots, in slot order; its length is sa_count
  report,         \* what the last call printed, and about which packet
  passed          \* passed[s][n]: how often a packet that was built with SPI s
                  \* and number n passed the check

vars == <<sa_database, report, passed>>

\* uint32_t: the numbers of a sender end at WORD - 1
SeqNo == Word

\* The fields of security_association_t that decide anything.  Every SA has
\* the same replay_window, so it is a constant of the module.
SA == [spi : Spi, seq_number : SeqNo]

Outcomes == {"none", "sa_added", "sa_full", "too_small", "no_sa",
             "zero_seq", "replay", "too_old", "passed"}

NoPacket == [spi |-> CHOOSE s \in Spi : TRUE, seq |-> 0]

Says(outcome, spi, seq) ==
  report' = [outcome |-> outcome, spi |-> spi, seq |-> seq]

Init ==
  /\ sa_database = <<>>
  /\ report = [outcome |-> "none", spi |-> NoPacket.spi, seq |-> NoPacket.seq]
  /\ passed = [s \in Spi |-> [n \in SeqNo |-> 0]]

-----------------------------------------------------------------------------
(* add_sa: append to the database, or report that it is full.              *)

\* Mutant: the room for one more is tested with <= instead of <.
HasRoomAtLimit == Len(sa_database) <= MAX_SA

HasRoom == Len(sa_database) < MAX_SA

AddSA(spi) ==
  /\ HasRoom
  /\ sa_database' = Append(sa_database, [spi |-> spi, seq_number |-> 0])
  /\ Says("sa_added", spi, 0)
  /\ UNCHANGED passed

AddSAFull(spi) ==
  /\ ~HasRoom
  /\ Says("sa_full", spi, 0)
  /\ UNCHANGED <<sa_database, passed>>

-----------------------------------------------------------------------------
(* lookup_sa scans the slots from 0 upwards and returns the first match.   *)

\* Mutant: a scan from the last slot downwards.
LastMatch(i, spi) ==
  /\ i \in DOMAIN sa_database
  /\ sa_database[i].spi = spi
  /\ \A j \in (i + 1)..Len(sa_database) : sa_database[j].spi # spi

LookupSA(i, spi) ==
  /\ i \in DOMAIN sa_database
  /\ sa_database[i].spi = spi
  /\ \A j \in 1..(i - 1) : sa_database[j].spi # spi

UnknownSpi(spi) == \A i \in DOMAIN sa_database : sa_database[i].spi # spi

(* check_replay: the test, what it prints when the packet is refused, and  *)
(* the update of the SA when it is not.                                    *)

\* Mutant: the comparison lets the current number through again.
FreshOrEqual(i, seq) == seq # 0 /\ seq >= sa_database[i].seq_number

\* Mutant: a sliding window that never records what it has seen.
FreshOrInWindow(i, seq) ==
  /\ seq # 0
  /\ seq + ReplayWindow > sa_database[i].seq_number

Fresh(i, seq) == seq # 0 /\ seq > sa_database[i].seq_number

\* Mutant: an off-by-one at the edge of the window.
StaleOutcomeEdge(i, seq) ==
  IF seq = 0 THEN "zero_seq"
  ELSE IF sa_database[i].seq_number - seq <= ReplayWindow THEN "replay"
  ELSE "too_old"

StaleOutcome(i, seq) ==
  IF seq = 0 THEN "zero_seq"
  ELSE IF sa_database[i].seq_number - seq < ReplayWindow THEN "replay"
  ELSE "too_old"

Record(i, seq) ==
  sa_database' = [sa_database EXCEPT ![i].seq_number = seq]

-----------------------------------------------------------------------------
(* parse_esp_packet, one operator per way out of it.                       *)

ParseTooSmall ==
  /\ Says("too_small", NoPacket.spi, NoPacket.seq)
  /\ UNCHANGED <<sa_database, passed>>

ParseUnknownSpi(spi, seq) ==
  /\ UnknownSpi(spi)
  /\ Says("no_sa", spi, seq)
  /\ UNCHANGED <<sa_database, passed>>

ParseStale(i, spi, seq) ==
  /\ LookupSA(i, spi)
  /\ ~Fresh(i, seq)
  /\ Says(StaleOutcome(i, seq), spi, seq)
  /\ UNCHANGED <<sa_database, passed>>

ParseFresh(i, spi, seq) ==
  /\ LookupSA(i, spi)
  /\ Fresh(i, seq)
  /\ Record(i, seq)
  /\ Says("passed", spi, seq)

\* The headers that create_sample_esp_packet writes, in network byte order.
create_sample_esp_packet(spi, seq) == [spi |-> hton(spi), sequence |-> hton(seq)]

\* Mutant: the number is used as it stands in the packet.
SequenceRaw(esp) == esp.sequence

SequenceOf(esp) == ntoh(esp.sequence)

Passes(spi, seq) == passed' = [passed EXCEPT ![spi][seq] = @ + 1]

Parse(spi, seq) ==
  LET esp == create_sample_esp_packet(spi, seq)
      s == ntoh(esp.spi)
      n == SequenceOf(esp)
  IN  \/ ParseUnknownSpi(s, n)
      \/ \E i \in DOMAIN sa_database : ParseStale(i, s, n)
      \/ \E i \in DOMAIN sa_database : ParseFresh(i, s, n) /\ Passes(spi, seq)

Next ==
  \/ ParseTooSmall
  \/ \E spi \in Spi : AddSA(spi) \/ AddSAFull(spi)
  \/ \E spi \in Spi, seq \in SeqNo : Parse(spi, seq)

Spec == Init /\ [][Next]_vars

-----------------------------------------------------------------------------
(* Properties.                                                             *)

\* Types, and the bound of the SA array: sa_count never passes MAX_SA.
TypeOK ==
  /\ sa_database \in Seq(SA)
  /\ Len(sa_database) <= MAX_SA
  /\ report \in [outcome : Outcomes, spi : Spi, seq : SeqNo]
  /\ passed \in [Spi -> [SeqNo -> Nat]]

\* add_sa accepts an SPI that is already registered.  Because lookup_sa stops
\* at the first match, such a duplicate is never consulted and keeps the
\* number it was created with: registering an SPI again does not reopen it.
ShadowedUnused ==
  \A i \in DOMAIN sa_database :
    LookupSA(i, sa_database[i].spi) \/ sa_database[i].seq_number = 0

\* The seq_number of the SA that lookup_sa finds is the highest number that
\* ever passed for its SPI (0 when none did), nothing has passed for an SPI
\* without SA, and no number has passed twice.
HighWater ==
  /\ \A s \in Spi, n \in SeqNo :
       passed[s][n] > 0 =>
         /\ passed[s][n] = 1
         /\ n > 0
         /\ \E i \in DOMAIN sa_database :
              LookupSA(i, s) /\ n <= sa_database[i].seq_number
  /\ \A i \in DOMAIN sa_database :
       LookupSA(i, sa_database[i].spi) =>
         \/ sa_database[i].seq_number = 0
         \/ passed[sa_database[i].spi][sa_database[i].seq_number] > 0

\* Packets of one SPI pass in ascending order of their numbers, even when the
\* network reorders them, when the SPI is registered twice and at the top of
\* the number range: there is no wrap-around back to small numbers.
OrderedDelivery ==
  [][\A s \in Spi, n \in SeqNo :
       passed'[s][n] > passed[s][n] =>
         \A m \in SeqNo : passed[s][m] > 0 => m < n]_vars

\* A packet is refused as "potential replay" only when a packet of its SPI,
\* as new or newer but less than a window away, has passed, and as "too old"
\* only when one a window or more ahead has.  A stream of numbers from 1 that
\* arrives in order and without duplicates is therefore never refused; number
\* 0 is refused on its own account (lines 108-110).
RefusalExplained ==
  LET PassedIn(S) == \E n \in S : passed[report.spi][n] > 0
  IN  /\ report.outcome = "replay" =>
           PassedIn({n \in SeqNo : report.seq <= n /\ n < report.seq + ReplayWindow})
      /\ report.outcome = "too_old" =>
           PassedIn({n \in SeqNo : n >= report.seq + ReplayWindow})

\* The receiver is an anti-replay filter over the streams named by the SPIs.
Filter == INSTANCE AntiReplay
            WITH Stream <- Spi, Number <- SeqNo, delivered <- passed

ImplementsAntiReplay == Filter!Spec

\* The sliding window the file's notes describe (lines 337-341): a packet
\* reported as "Potential replay attack" is one that was received before.
WarningMeansReplay ==
  report.outcome = "replay" => passed[report.spi][report.seq] > 0
=============================================================================
