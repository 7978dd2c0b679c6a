------------------------------ MODULE Pipeline ------------------------------
(***************************************************************************)
(* The recording pipeline of hpsdr-recorder: the RX thread that turns      *)
(* datagrams into samples (streaming.c), the two rings it fills            *)
(* (buffers.c), the output thread that drains them into the file           *)
(* (output.c), and the main thread that decides when the recording ends    *)
(* and takes the threads down (hpsdr-recorder.c).                          *)
(*                                                                         *)
(* The unit is the quad, one sample instant: 4 values with diversity, 2    *)
(* without.  Both ring sizes the code uses are whole numbers of quads, so  *)
(* the wrap tests, which the code makes every 2 values, fall between       *)
(* quads.  The contents of a sample are abstracted to its instant: the     *)
(* number of sample periods since the first packet of the recording.       *)
(*                                                                         *)
(* Every critical section is one action, except the coalescing loop of the *)
(* output thread, which holds the block lock over several actions.  The    *)
(* cells of the ring are read without any lock, one action per write(2).   *)
(***************************************************************************)
EXTENDS Integers, Sequences

CONSTANTS
    SamplesSize,    \* samples_resource.size, in quads
    BlocksSize,     \* blocks_resource.size, in descriptors
    QuadsPerPacket, \* samples-per-frame of the radio, in quads
    CoalesceMax,    \* COALESCE_MAX_VALUES, in quads
    SeqSpace,       \* sequence numbers are taken modulo this: 2^32
    BatchMax,       \* P2_BATCH_MAX: packets of one recvmmsg()
    MaxStep,        \* largest step from one delivered packet to a newer one
    MaxDelay,       \* how far behind the newest packet a late one may be
    FirstPacket,    \* first packet the radio sends to this recorder
    WritesFail,     \* whether write(2) may report an error
    MaxPacket,      \* bound: the last packet the radio sends
    MaxLate         \* bound: how many late or duplicate packets arrive

HalfSeq == SeqSpace \div 2
IntMax  == 2147483647

ASSUME SizeAssumption ==
    /\ SamplesSize \in Nat \ {0} /\ BlocksSize \in Nat \ {0}
    /\ QuadsPerPacket \in 1..SamplesSize
    /\ CoalesceMax \in 1..SamplesSize
    /\ BatchMax \in Nat \ {0}
    /\ WritesFail \in BOOLEAN

\* The link never loses or delays so much that a 32-bit difference of sequence
\* numbers overflows, or the int that the samples of a gap are reported in.
ASSUME LinkAssumption ==
    /\ SeqSpace \in Nat \ {0} /\ SeqSpace = 2 * HalfSeq
    /\ MaxStep \in Nat /\ MaxStep < HalfSeq /\ MaxStep * QuadsPerPacket <= IntMax
    /\ MaxDelay \in Nat /\ MaxDelay < HalfSeq
    /\ FirstPacket \in Nat /\ MaxPacket \in Nat /\ MaxLate \in Nat

VARIABLES
    newest,             \* the newest packet the network has delivered
    origin,             \* the first packet of the recording: instant 0
    afterStop,          \* packets of the last batch handled since the stop
    rxPc,               \* where the RX thread is
    expected_seq,
    first_pkt,
    npad,               \* n_vals: quads of padding about to be stored
    start_index,        \* ring index of the span RX is about to publish
    insamples,          \* the sample ring
    samples_resource,   \* [write_index, nused]
    blocks,             \* the descriptor ring
    blocks_resource,    \* [read_index, write_index, nready]
    lapped,             \* history: a descriptor was overwritten unread
    outPc,              \* where the output thread is
    span,               \* what it took: [start, total, taken, done]
    file,               \* the quads written, in file order
    stats,
    streaming_active, output_active,
    mainPc, exit_status,
    reported            \* the sample count print_stats() showed

netVars   == <<newest, origin, afterStop>>
seqVars   == <<expected_seq, first_pkt>>
ringVars  == <<insamples, samples_resource>>
blockVars == <<blocks, blocks_resource, lapped>>
outVars   == <<outPc, span, file>>
mainVars  == <<streaming_active, output_active, mainPc, exit_status, reported>>
vars == <<netVars, rxPc, seqVars, npad, start_index, ringVars, blockVars,
          outVars, stats, mainVars>>

Zero    == -1   \* a zeroed quad: it carries no instant
Garbage == -2   \* a cell malloc() left uninitialised
Cell    == Int
Index   == 0 .. SamplesSize - 1
Slot    == 0 .. BlocksSize - 1

RxPc   == {"recv", "pad", "padBlock", "store", "storeBlock", "exited"}
OutPc  == {"wait", "coalesce", "write", "release", "exited"}
Counter == {"total_samples", "total_lost", "gap_packets", "gap_samples_padded",
            "reordered_packets", "slipped_samples", "failed"}
MainPc == {"waiting", "recording", "stopping", "joinRx", "joinOut", "exited"}

TypeOK ==
    /\ newest \in Nat /\ origin \in Nat /\ afterStop \in 0..BatchMax
    /\ rxPc \in RxPc
    /\ expected_seq \in 0 .. SeqSpace - 1 /\ first_pkt \in BOOLEAN
    /\ npad \in Nat /\ start_index \in Index
    /\ insamples \in [Index -> Cell]
    /\ samples_resource \in [write_index : Index, nused : Nat]
    /\ blocks \in [Slot -> [num_samples : Nat, samples_index : Index]]
    /\ blocks_resource \in [read_index : Slot, write_index : Slot, nready : Nat]
    /\ lapped \in BOOLEAN
    /\ outPc \in OutPc
    /\ span \in [start : Index, total : Nat, taken : Nat, done : Nat]
    /\ file \in Seq(Cell)
    /\ stats \in [Counter -> Nat]
    /\ streaming_active \in BOOLEAN /\ output_active \in BOOLEAN
    /\ mainPc \in MainPc /\ exit_status \in {"none", "success", "failure"}
    /\ reported \in Nat

Init ==
    /\ newest = FirstPacket /\ origin = FirstPacket /\ afterStop = 0
    /\ rxPc = "recv" /\ expected_seq = 0 /\ first_pkt = TRUE
    /\ npad = 0 /\ start_index = 0
    /\ insamples = [i \in Index |-> Garbage]
    /\ samples_resource = [write_index |-> 0, nused |-> 0]
    /\ blocks = [i \in Slot |-> [num_samples |-> 0, samples_index |-> 0]]
    /\ blocks_resource = [read_index |-> 0, write_index |-> 0, nready |-> 0]
    /\ lapped = FALSE
    /\ outPc = "wait" /\ span = [start |-> 0, total |-> 0, taken |-> 0, done |-> 0]
    /\ file = <<>>
    /\ stats = [c \in Counter |-> 0]
    /\ streaming_active = TRUE /\ output_active = TRUE
    /\ mainPc = "waiting" /\ exit_status = "none" /\ reported = 0

-----------------------------------------------------------------------------
(* The sample ring *)

WrapMissing(i) == i                          \* mutant: no wrap test
Wrap(i) == IF i >= SamplesSize THEN i - SamplesSize ELSE i

\* How far cell i lies ahead of the write index.
Ahead(i) == LET w == samples_resource.write_index
            IN  IF i >= w THEN i - w ELSE i - w + SamplesSize

\* Append the n quads content[0], .., content[n-1] and advance the write index.
FillRing(n, content) ==
    /\ insamples' = [i \in Index |->
                        IF Ahead(i) < n THEN content[Ahead(i)] ELSE insamples[i]]
    /\ samples_resource' =
           [write_index |-> Wrap(samples_resource.write_index + n),
            nused       |-> samples_resource.nused + n]
    /\ start_index' = samples_resource.write_index

(* The descriptor ring.  nused moves with nready in every critical section  *)
(* of the code and is never read, so nready stands for both.                *)

BlocksLocked == outPc = "coalesce"

PublishBlock(n) ==
    /\ ~BlocksLocked
    /\ blocks' = [blocks EXCEPT ![blocks_resource.write_index] =
                     [num_samples |-> n, samples_index |-> start_index]]
    /\ blocks_resource' =
           [blocks_resource EXCEPT !.write_index = (@ + 1) % BlocksSize,
                                   !.nready = @ + 1]
    /\ lapped' = (lapped \/ blocks_resource.nready >= BlocksSize)

-----------------------------------------------------------------------------
(* The RX thread: rx_thread_func() and process_packet() *)

\* The wire sequence number of packet p, and the instant of its i-th quad.
Wire(p) == p % SeqSpace
Instant(p, i) == (p - origin) * QuadsPerPacket + i

\* gap = (int32_t)(seq - expected_seq)
SignedGapUnsigned(seq) == (seq - expected_seq) % SeqSpace   \* mutant: no cast
SignedGap(seq) ==
    LET d == (seq - expected_seq) % SeqSpace
    IN  IF d < HalfSeq THEN d ELSE d - SeqSpace

\* recvmmsg() hands over packet p.  The stop flag is only tested between
\* batches, so the rest of a batch is processed after streaming_stop().
Arrives(p) ==
    /\ rxPc = "recv"
    /\ p \in FirstPacket .. MaxPacket
    /\ first_pkt \/ p - newest \in -MaxDelay .. MaxStep
    /\ \/ streaming_active /\ UNCHANGED afterStop
       \/ /\ ~streaming_active /\ afterStop < BatchMax
          /\ afterStop' = afterStop + 1

FirstPkt(p) ==
    /\ Arrives(p)
    /\ first_pkt
    /\ first_pkt' = FALSE
    /\ expected_seq' = Wire(p + 1)
    /\ newest' = p /\ origin' = p
    /\ rxPc' = "store"
    /\ UNCHANGED <<npad, start_index, ringVars, blockVars, outVars, stats, mainVars>>

NextPkt(p) ==
    /\ Arrives(p)
    /\ ~first_pkt /\ Wire(p) = expected_seq
    /\ expected_seq' = Wire(p + 1)
    /\ newest' = p
    /\ rxPc' = "store"
    /\ UNCHANGED <<origin, first_pkt, npad, start_index, ringVars, blockVars,
                   outVars, stats, mainVars>>

\* A late or duplicated datagram is counted and dropped.
LatePkt(p) ==
    /\ Arrives(p)
    /\ ~first_pkt /\ SignedGap(Wire(p)) < 0
    /\ stats.reordered_packets < MaxLate
    /\ stats' = [stats EXCEPT !.reordered_packets = @ + 1]
    /\ UNCHANGED <<newest, origin, rxPc, seqVars, npad, start_index, ringVars,
                   blockVars, outVars, mainVars>>

MissingOneLess(p) == (SignedGap(Wire(p)) - 1) * QuadsPerPacket  \* mutant
Missing(p) == SignedGap(Wire(p)) * QuadsPerPacket
Room == SamplesSize - samples_resource.nused
PadLengthUncapped(p) == Missing(p)           \* mutant: the room is ignored
PadLength(p) == IF Missing(p) <= Room THEN Missing(p) ELSE Room

\* Packets are missing before p: read how much of the hole the ring can take,
\* and account for the rest.
GapWithRoom(p) ==
    /\ Arrives(p)
    /\ ~first_pkt /\ SignedGap(Wire(p)) > 0 /\ PadLength(p) > 0
    /\ npad' = PadLength(p)
    /\ stats' = [stats EXCEPT !.slipped_samples = @ + Missing(p) - PadLength(p),
                              !.gap_packets = @ + SignedGap(Wire(p)),
                              !.gap_samples_padded = @ + PadLength(p)]
    /\ newest' = p
    /\ rxPc' = "pad"
    /\ UNCHANGED <<origin, seqVars, start_index, ringVars, blockVars, outVars, mainVars>>

\* No room at all: the hole is counted as slip and as lost, and p is stored.
GapWithoutRoom(p) ==
    /\ Arrives(p)
    /\ ~first_pkt /\ SignedGap(Wire(p)) > 0 /\ PadLength(p) <= 0
    /\ stats' = [stats EXCEPT !.slipped_samples = @ + Missing(p) - PadLength(p),
                              !.gap_packets = @ + SignedGap(Wire(p)),
                              !.gap_samples_padded = @ + PadLength(p),
                              !.total_lost = @ + Missing(p)]
    /\ expected_seq' = Wire(p + 1)
    /\ newest' = p
    /\ rxPc' = "store"
    /\ UNCHANGED <<origin, first_pkt, npad, start_index, ringVars, blockVars,
                   outVars, mainVars>>

Pad ==
    /\ rxPc = "pad"
    /\ FillRing(npad, [k \in 0 .. npad - 1 |-> Zero])
    /\ rxPc' = "padBlock"
    /\ UNCHANGED <<netVars, seqVars, npad, blockVars, outVars, stats, mainVars>>

PadBlock ==
    /\ rxPc = "padBlock"
    /\ PublishBlock(npad)
    /\ expected_seq' = Wire(newest + 1)
    /\ npad' = 0
    /\ rxPc' = "store"
    /\ UNCHANGED <<netVars, first_pkt, start_index, ringVars, outVars, stats, mainVars>>

HasRoomForOne == samples_resource.nused < SamplesSize   \* mutant
HasRoom == samples_resource.nused + QuadsPerPacket <= SamplesSize

\* The packet being processed is always the newest one.
Store ==
    /\ rxPc = "store"
    /\ HasRoom
    /\ FillRing(QuadsPerPacket,
                [k \in 0 .. QuadsPerPacket - 1 |-> Instant(newest, k)])
    /\ rxPc' = "storeBlock"
    /\ UNCHANGED <<netVars, seqVars, npad, blockVars, outVars, stats, mainVars>>

Overrun ==
    /\ rxPc = "store"
    /\ ~HasRoom
    /\ stats' = [stats EXCEPT !.total_lost = @ + QuadsPerPacket]
    /\ rxPc' = "recv"
    /\ UNCHANGED <<netVars, seqVars, npad, start_index, ringVars, blockVars,
                   outVars, mainVars>>

StoreBlock ==
    /\ rxPc = "storeBlock"
    /\ PublishBlock(QuadsPerPacket)
    /\ stats' = [stats EXCEPT !.total_samples = @ + QuadsPerPacket]
    /\ rxPc' = "recv"
    /\ UNCHANGED <<netVars, seqVars, npad, start_index, ringVars, outVars, mainVars>>

RxExitAfterPacket ==     \* mutant: no receive timeout on the socket
    /\ rxPc = "recv" /\ ~streaming_active /\ afterStop > 0
    /\ rxPc' = "exited"
    /\ UNCHANGED <<netVars, seqVars, npad, start_index, ringVars, blockVars,
                   outVars, stats, mainVars>>

RxExit ==
    /\ rxPc = "recv" /\ ~streaming_active
    /\ rxPc' = "exited"
    /\ UNCHANGED <<netVars, seqVars, npad, start_index, ringVars, blockVars,
                   outVars, stats, mainVars>>

-----------------------------------------------------------------------------
(* The output thread: output_thread_func() and timed_write().  The timed    *)
(* wait may end at any moment, by its deadline, so DRAIN_TARGET_BLOCKS and  *)
(* the condition variable do not restrict what follows.                     *)

OutExit ==
    /\ outPc = "wait" /\ ~output_active
    /\ outPc' = "exited"
    /\ UNCHANGED <<netVars, rxPc, seqVars, npad, start_index, ringVars,
                   blockVars, span, file, stats, mainVars>>

WorthDrainingFull == blocks_resource.nready > 1   \* mutant: no drain timer
WorthDraining == blocks_resource.nready > 0

Drain ==
    /\ outPc = "wait" /\ output_active
    /\ WorthDraining
    /\ span' = [start |-> blocks[blocks_resource.read_index].samples_index,
                total |-> 0, taken |-> 0, done |-> 0]
    /\ outPc' = "coalesce"
    /\ UNCHANGED <<netVars, rxPc, seqVars, npad, start_index, ringVars,
                   blockVars, file, stats, mainVars>>

NextTaken == blocks[(blocks_resource.read_index + span.taken) % BlocksSize]
CoalesceNeverFull == FALSE                   \* mutant: no COALESCE_MAX_VALUES
CoalesceFull == span.total > 0 /\ span.total + NextTaken.num_samples > CoalesceMax

TakeBlock ==
    /\ outPc = "coalesce"
    /\ span.taken < blocks_resource.nready /\ ~CoalesceFull
    /\ span' = [span EXCEPT !.total = @ + NextTaken.num_samples, !.taken = @ + 1]
    /\ UNCHANGED <<netVars, rxPc, seqVars, npad, start_index, ringVars,
                   blockVars, outPc, file, stats, mainVars>>

PopTaken ==
    /\ outPc = "coalesce"
    /\ span.taken = blocks_resource.nready \/ CoalesceFull
    /\ blocks_resource' =
           [blocks_resource EXCEPT !.read_index = (@ + span.taken) % BlocksSize,
                                   !.nready = @ - span.taken]
    /\ outPc' = "write"
    /\ UNCHANGED <<netVars, rxPc, seqVars, npad, start_index, ringVars, blocks,
                   lapped, span, file, stats, mainVars>>

\* The span is written in one part, or in two when it wraps; each part is a
\* call of timed_write().
PartEnd ==
    LET toEnd == SamplesSize - span.start
    IN  IF span.done < toEnd /\ span.total > toEnd THEN toEnd ELSE span.total

\* One write(2) takes n quads of the part.
WriteSome(n) ==
    /\ outPc = "write"
    /\ n \in 1 .. PartEnd - span.done
    /\ file' = file \o [i \in 1..n |-> insamples[Wrap(span.start + span.done + i - 1)]]
    /\ span' = [span EXCEPT !.done = @ + n]
    /\ UNCHANGED <<netVars, rxPc, seqVars, npad, start_index, ringVars,
                   blockVars, outPc, stats, mainVars>>

\* write(2) reports an error: the rest of the part is given up and counted.
WriteError ==
    /\ outPc = "write" /\ WritesFail
    /\ span.done < PartEnd
    /\ stats' = [stats EXCEPT !.failed = @ + PartEnd - span.done]
    /\ span' = [span EXCEPT !.done = PartEnd]
    /\ UNCHANGED <<netVars, rxPc, seqVars, npad, start_index, ringVars,
                   blockVars, outPc, file, mainVars>>

WritesDone ==
    /\ outPc = "write" /\ span.done = span.total
    /\ outPc' = "release"
    /\ UNCHANGED <<netVars, rxPc, seqVars, npad, start_index, ringVars,
                   blockVars, span, file, stats, mainVars>>

Release ==
    /\ outPc = "release"
    /\ samples_resource' =
           [samples_resource EXCEPT !.nused =
               IF @ >= span.total THEN @ - span.total ELSE 0]
    /\ outPc' = "wait"
    /\ UNCHANGED <<netVars, rxPc, seqVars, npad, start_index, insamples,
                   blockVars, span, file, stats, mainVars>>

-----------------------------------------------------------------------------
(* The main thread, from the end of its configuration to its exit *)

\* wait_for_stream() sees samples.
StreamSeen ==
    /\ mainPc = "waiting" /\ stats.total_samples > 0
    /\ mainPc' = "recording"
    /\ UNCHANGED <<netVars, rxPc, seqVars, npad, start_index, ringVars, blockVars,
                   outVars, stats, streaming_active, output_active, exit_status, reported>>

\* Every attempt timed out, or SIGINT came first.
GiveUp ==
    /\ mainPc = "waiting"
    /\ exit_status' = "failure"
    /\ mainPc' = "stopping"
    /\ UNCHANGED <<netVars, rxPc, seqVars, npad, start_index, ringVars, blockVars,
                   outVars, stats, streaming_active, output_active, reported>>

\* SIGINT or the time limit: report, then decide the exit status.
StopRecording ==
    /\ mainPc = "recording"
    /\ reported' = stats.total_samples
    /\ exit_status' = IF stats.total_samples = 0 THEN "failure" ELSE "success"
    /\ mainPc' = "stopping"
    /\ UNCHANGED <<netVars, rxPc, seqVars, npad, start_index, ringVars, blockVars,
                   outVars, stats, streaming_active, output_active>>

StreamingStop ==
    /\ mainPc = "stopping"
    /\ streaming_active' = FALSE
    /\ mainPc' = "joinRx"
    /\ UNCHANGED <<netVars, rxPc, seqVars, npad, start_index, ringVars, blockVars,
                   outVars, stats, output_active, exit_status, reported>>

\* The join of the RX thread returns and output_close() begins.
OutputClose ==
    /\ mainPc = "joinRx" /\ rxPc = "exited"
    /\ output_active' = FALSE
    /\ mainPc' = "joinOut"
    /\ UNCHANGED <<netVars, rxPc, seqVars, npad, start_index, ringVars, blockVars,
                   outVars, stats, streaming_active, exit_status, reported>>

BuffersFreeUnjoined ==   \* mutant: the output thread is not joined
    /\ mainPc = "joinOut"
    /\ mainPc' = "exited"
    /\ UNCHANGED <<netVars, rxPc, seqVars, npad, start_index, ringVars, blockVars,
                   outVars, stats, streaming_active, output_active, exit_status, reported>>

\* The join of the output thread returns; buffers_free() and exit().
BuffersFree ==
    /\ mainPc = "joinOut" /\ outPc = "exited"
    /\ mainPc' = "exited"
    /\ UNCHANGED <<netVars, rxPc, seqVars, npad, start_index, ringVars, blockVars,
                   outVars, stats, streaming_active, output_active, exit_status, reported>>

Terminated == mainPc = "exited" /\ UNCHANGED vars

-----------------------------------------------------------------------------
Receive == \E p \in FirstPacket .. MaxPacket :
    FirstPkt(p) \/ NextPkt(p) \/ LatePkt(p) \/ GapWithRoom(p) \/ GapWithoutRoom(p)
RxWork  == Pad \/ PadBlock \/ Store \/ Overrun \/ StoreBlock \/ RxExit
OutWork == \/ OutExit \/ Drain \/ TakeBlock \/ PopTaken
           \/ \E n \in 1 .. SamplesSize : WriteSome(n)
           \/ WriteError \/ WritesDone \/ Release
StopWork == StreamingStop \/ OutputClose \/ BuffersFree

Next == \/ Receive \/ RxWork \/ OutWork
        \/ StreamSeen \/ GiveUp \/ StopRecording \/ StopWork \/ Terminated

\* The threads run and write(2) returns.  Nothing is assumed of the network,
\* nor that the recording is ever stopped.
Fairness == WF_vars(RxWork) /\ WF_vars(OutWork) /\ WF_vars(StopWork)

Spec     == Init /\ [][Next]_vars
FairSpec == Spec /\ Fairness
=============================================================================
