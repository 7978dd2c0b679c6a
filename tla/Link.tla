-------------------------------- MODULE Link --------------------------------
(***************************************************************************)
(* The way of a datagram from the network to the sequence tracking: the    *)
(* kernel's receive buffer and its count of dropped datagrams,             *)
(* hpsdr_read_iq_batch() (hpsdr-protocol2.c), the loop of rx_thread_func() *)
(* that sorts out what is not IQ of the chosen radio, and the validation   *)
(* and sequence tracking of process_packet() (streaming.c).                *)
(*                                                                         *)
(* Module Pipeline takes over where this one ends, with the packets that   *)
(* are accepted; there a malformed packet is the same as a lost one.       *)
(***************************************************************************)
EXTENDS Integers, Sequences, SequencesExt

CONSTANTS
    FirstPacket, LastPacket, \* the IQ packets the radio sends, by number
    Malformed,    \* those among them process_packet() finds malformed
    SeqSpace,     \* sequence numbers are taken modulo this: 2^32
    DropSpace,    \* the kernel's drop count is taken modulo this: 2^32
    RcvBuf,       \* datagrams the receive buffer holds
    BatchMax,     \* P2_BATCH_MAX
    MaxArrivals,  \* bound: how many datagrams are queued,
    MaxDrops      \* and how many are dropped

HalfSeq == SeqSpace \div 2
Packets == FirstPacket .. LastPacket

\* Bound: fewer than 2^31 packets, 46 hours of the stream, so that a difference
\* of sequence numbers is never half of their space.
ASSUME LinkAssumption ==
    /\ FirstPacket \in Nat /\ LastPacket \in Nat /\ Malformed \subseteq Packets
    /\ SeqSpace \in Nat \ {0} /\ SeqSpace = 2 * HalfSeq
    /\ LastPacket - FirstPacket < HalfSeq
    /\ DropSpace \in Nat \ {0, 1} /\ RcvBuf \in Nat \ {0}
    /\ BatchMax \in Nat \ {0} /\ MaxArrivals \in Nat /\ MaxDrops \in Nat

VARIABLES
    arrivals,            \* datagrams that were queued
    rcvbuf, sk_drops,    \* the kernel: receive buffer, datagrams dropped
    rxPc,
    batch,               \* datagrams of the batch not yet processed
    unread,              \* those whose control message is not yet read
    last_rxq_ovfl, sock_drops_total,
    pkt_by_port, foreign_iq,
    expected_seq, first_pkt,
    gap_packets, reordered_packets,
    accepted,            \* the datagrams handed on to be stored
    malformed,           \* history: the malformed packets of the radio
    read_drops           \* history: drops before the last datagram read

netVars    == <<arrivals, rcvbuf, sk_drops>>
dropVars   == <<last_rxq_ovfl, sock_drops_total, read_drops>>
countVars  == <<pkt_by_port, foreign_iq, malformed>>
trackVars  == <<expected_seq, first_pkt, gap_packets, reordered_packets, accepted>>
vars == <<netVars, rxPc, batch, unread, dropVars, countVars, trackVars>>

\* A datagram: who sent it, from which port, and the number it carries.  The
\* other sender is a second radio with numbers of its own.
Datagram == [from : {"radio", "other"}, port : {"iq"}, n : Packets]
                \union [from : {"radio"}, port : {"status"}, n : {FirstPacket}]
Queued   == [d : Datagram, before : Nat]

TypeOK ==
    /\ arrivals \in 0..MaxArrivals
    /\ rcvbuf \in Seq(Queued) /\ Len(rcvbuf) <= RcvBuf /\ sk_drops \in Nat
    /\ rxPc \in {"recv", "control", "process"}
    /\ batch \in Seq(Queued) /\ Len(batch) <= BatchMax /\ unread \in Seq(Queued)
    /\ last_rxq_ovfl \in 0 .. DropSpace - 1
    /\ sock_drops_total \in Nat /\ read_drops \in Nat
    /\ pkt_by_port \in [{"iq", "status"} -> Nat] /\ foreign_iq \in Nat
    /\ malformed \in Nat
    /\ expected_seq \in 0 .. SeqSpace - 1 /\ first_pkt \in BOOLEAN
    /\ gap_packets \in Nat /\ reordered_packets \in Nat
    /\ accepted \in Seq(Datagram)

Init ==
    /\ arrivals = 0 /\ rcvbuf = <<>> /\ sk_drops = 0
    /\ rxPc = "recv" /\ batch = <<>> /\ unread = <<>>
    /\ last_rxq_ovfl = 0 /\ sock_drops_total = 0 /\ read_drops = 0
    /\ pkt_by_port = [p \in {"iq", "status"} |-> 0] /\ foreign_iq = 0
    /\ malformed = 0
    /\ expected_seq = 0 /\ first_pkt = TRUE
    /\ gap_packets = 0 /\ reordered_packets = 0 /\ accepted = <<>>

-----------------------------------------------------------------------------
(* The network and the kernel.  Any packet may arrive at any time, again,   *)
(* or never.  A datagram carries the count of drops before it was queued.   *)

Arrive(d) ==
    /\ arrivals < MaxArrivals /\ arrivals' = arrivals + 1
    /\ Len(rcvbuf) < RcvBuf
    /\ rcvbuf' = Append(rcvbuf, [d |-> d, before |-> sk_drops])
    /\ UNCHANGED <<sk_drops, rxPc, batch, unread, dropVars, countVars, trackVars>>

\* Bound: the kernel's count does not go full circle before it is read.
Overflow ==
    /\ sk_drops < MaxDrops
    /\ Len(rcvbuf) = RcvBuf
    /\ sk_drops + 1 - sock_drops_total < DropSpace
    /\ sk_drops' = sk_drops + 1
    /\ UNCHANGED <<arrivals, rcvbuf, rxPc, batch, unread, dropVars, countVars,
                   trackVars>>

-----------------------------------------------------------------------------
(* hpsdr_read_iq_batch() *)

\* recvmmsg() takes one more datagram while there is one ...
Recv ==
    /\ rxPc = "recv" /\ rcvbuf # <<>> /\ Len(batch) < BatchMax
    /\ batch' = Append(batch, Head(rcvbuf)) /\ unread' = Append(unread, Head(rcvbuf))
    /\ rcvbuf' = Tail(rcvbuf)
    /\ UNCHANGED <<arrivals, sk_drops, rxPc, dropVars, countVars, trackVars>>

\* ... and returns, with MSG_WAITFORONE, as soon as there is none.
BatchComplete == batch # <<>> /\ (rcvbuf = <<>> \/ Len(batch) = BatchMax)

RecvDone ==
    /\ rxPc = "recv" /\ BatchComplete
    /\ rxPc' = "control"
    /\ UNCHANGED <<netVars, batch, unread, dropVars, countVars, trackVars>>

\* The kernel attaches its count unless it is 0.  The code adds what the count
\* grew by since the last one it saw.
AddDropsTwice(acc, q) ==      \* mutant: the last count is not kept
    LET v == q.before % DropSpace
    IN  IF v \in {0, acc.last} THEN acc
        ELSE [acc EXCEPT !.total = @ + ((v - acc.last) % DropSpace)]
AddDropsPlain(acc, q) ==      \* mutant: the count kept is not 32 bits wide
    [last |-> q.before, total |-> acc.total + (q.before - acc.last)]
AddDrops(acc, q) ==
    LET v == q.before % DropSpace
    IN  IF v \in {0, acc.last} THEN acc
        ELSE [last |-> v, total |-> acc.total + ((v - acc.last) % DropSpace)]

\* The control messages of the batch are read, one datagram after the other,
\* before any of them is processed.
ReadControl ==
    /\ rxPc = "control" /\ unread # <<>>
    /\ LET acc == AddDrops([last |-> last_rxq_ovfl, total |-> sock_drops_total],
                           Head(unread))
       IN  last_rxq_ovfl' = acc.last /\ sock_drops_total' = acc.total
    /\ read_drops' = Head(unread).before
    /\ unread' = Tail(unread)
    /\ rxPc' = IF unread' = <<>> THEN "process" ELSE "control"
    /\ UNCHANGED <<netVars, batch, countVars, trackVars>>

-----------------------------------------------------------------------------
(* rx_thread_func(): the datagrams of a batch, one after the other *)

Wire(p) == p % SeqSpace
SignedGapUnsigned(seq) == (seq - expected_seq) % SeqSpace   \* mutant: no cast
SignedGap(seq) ==
    LET d == (seq - expected_seq) % SeqSpace
    IN  IF d < HalfSeq THEN d ELSE d - SeqSpace

\* The next datagram is taken from the batch and counted by its port.
Take(d) ==
    /\ rxPc = "process" /\ d = Head(batch).d
    /\ batch' = Tail(batch)
    /\ rxPc' = IF batch' = <<>> THEN "recv" ELSE "process"
    /\ pkt_by_port' = [pkt_by_port EXCEPT ![d.port] = @ + 1]
    /\ UNCHANGED <<netVars, unread, dropVars>>

ForeignByPort(d) == FALSE     \* mutant: the address is not looked at
Foreign(d) == d.port = "iq" /\ d.from # "radio"

SkipForeign(d) ==
    /\ Take(d) /\ Foreign(d)
    /\ foreign_iq' = foreign_iq + 1
    /\ UNCHANGED <<malformed, trackVars>>

SkipStatus(d) ==
    /\ Take(d) /\ ~Foreign(d) /\ d.port # "iq"
    /\ UNCHANGED <<foreign_iq, malformed, trackVars>>

\* A packet shorter than its header is not processed, and process_packet()
\* validates the rest before it looks at the number.
SkipMalformed(d) ==
    /\ Take(d) /\ ~Foreign(d) /\ d.port = "iq" /\ d.n \in Malformed
    /\ malformed' = malformed + 1
    /\ UNCHANGED <<foreign_iq, trackVars>>

Process(d) ==
    /\ Take(d) /\ ~Foreign(d) /\ d.port = "iq" /\ d.n \notin Malformed
    /\ UNCHANGED <<foreign_iq, malformed>>

Accept(d) ==
    /\ accepted' = Append(accepted, d)
    /\ expected_seq' = Wire(d.n + 1)
    /\ UNCHANGED reordered_packets

FirstIq(d) ==
    /\ Process(d) /\ first_pkt
    /\ Accept(d) /\ first_pkt' = FALSE
    /\ UNCHANGED gap_packets

\* In sequence, or after a gap.
NextIq(d) ==
    /\ Process(d) /\ ~first_pkt /\ SignedGap(Wire(d.n)) >= 0
    /\ Accept(d)
    /\ gap_packets' = gap_packets + SignedGap(Wire(d.n))
    /\ UNCHANGED first_pkt

LateIqUncounted(d) ==         \* mutant: dropped without a trace
    /\ Process(d) /\ ~first_pkt /\ SignedGap(Wire(d.n)) < 0
    /\ UNCHANGED trackVars
LateIq(d) ==
    /\ Process(d) /\ ~first_pkt /\ SignedGap(Wire(d.n)) < 0
    /\ reordered_packets' = reordered_packets + 1
    /\ UNCHANGED <<expected_seq, first_pkt, gap_packets, accepted>>

-----------------------------------------------------------------------------
Handle(d) == \/ SkipForeign(d) \/ SkipStatus(d) \/ SkipMalformed(d)
             \/ FirstIq(d) \/ NextIq(d) \/ LateIq(d)

\* The receive timeout lets the thread try again: nothing changes.
Timeout == rxPc = "recv" /\ batch = <<>> /\ rcvbuf = <<>> /\ UNCHANGED vars

Next == \/ \E d \in Datagram : Arrive(d) \/ Handle(d)
        \/ Overflow \/ Recv \/ RecvDone \/ ReadControl \/ Timeout

Spec == Init /\ [][Next]_vars
=============================================================================
