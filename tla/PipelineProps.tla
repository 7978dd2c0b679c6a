--------------------------- MODULE PipelineProps ---------------------------
(***************************************************************************)
(* What the recording pipeline must do, stated of module Pipeline.         *)
(***************************************************************************)
EXTENDS Pipeline

\* Sample instants the radio has gone through, up to the packet in process.
Elapsed ==
    IF first_pkt THEN 0
    ELSE Instant(newest, IF rxPc \in {"recv", "exited"} THEN QuadsPerPacket ELSE 0)
Recorded == stats.total_samples + stats.gap_samples_padded
ReportedLoss == stats.total_lost + stats.slipped_samples

\* Padding is exact: the recording is never longer than the time that passed,
\* and it is shorter by no more than the samples reported lost or slipped, so
\* with nothing reported it is exactly as long (streaming.c:199-203).
TimelineAccounted == Elapsed - Recorded \in 0 .. ReportedLoss

\* The ring is never overfilled, and the room measured under one lock for the
\* padding is still there when the lock is taken again to store it
\* (streaming.c:213-240, 266).
RoomStillThere ==
    samples_resource.nused + (IF rxPc = "pad" THEN npad ELSE 0) <= SamplesSize

\* A span handed to timed_write() never runs past the ring a second time, even
\* when descriptors were overwritten (output.c:201-228).
SpanInRing == span.total <= SamplesSize

Samples == {i \in DOMAIN file : file[i] # Zero}

\* A sample lands in the file at its true instant, or earlier by no more than
\* what has been reported as lost, slipped or not written by then
\* (streaming.c:210-222, 132-134).
SlipIsReported ==
    ~lapped => \A i \in Samples :
        file[i] - (i - 1) \in 0 .. ReportedLoss + stats.failed

\* The file holds no sample twice, none out of order, and no cell that was
\* never filled, whatever was lost on the way (output.c:46-48).
FileInOrder ==
    ~lapped => /\ \A i \in DOMAIN file : file[i] # Garbage
               /\ \A i, j \in Samples : i < j => j - i <= file[j] - file[i]

\* The cells the output thread is writing from, which it reads without a lock,
\* are not overwritten by the RX thread meanwhile (output.c:221-228).
SpanStable ==
    [][outPc = "write" /\ ~lapped' =>
         \A k \in span.done .. span.total - 1 :
             LET i == Wrap(span.start + k) IN insamples'[i] = insamples[i]]_insamples

\* A thread that may still touch the sample buffer has not had it freed under
\* it (streaming.c:390-392).
BuffersAlive == rxPc # "exited" \/ outPc # "exited" => mainPc # "exited"

\* Once the main thread asks the RX thread to stop, the program ends.
ShutdownCompletes == mainPc = "stopping" ~> mainPc = "exited"

\* Every quad the RX thread recorded is written, or reported as not written,
\* unless the recording is closed first.
Drained == Len(file) + stats.failed
EverythingDrains ==
    \A q \in 1 .. (MaxPacket - FirstPacket + 1) * QuadsPerPacket :
        Recorded >= q ~> Drained >= q \/ lapped \/ ~output_active

\* What the repository says of the recording and the program does not do: each
\* of these is refuted by a run.

\* "that keeps the ring self-consistent and, unlike silently overwriting,
\* leaves a record that the file has a gap" (streaming.c:132-134): when nothing
\* is recorded as lost, the file holds the samples at their instants.
OverrunLeavesRecord ==
    ReportedLoss + stats.failed = 0 => \A i \in Samples : file[i] = i - 1

\* "exits non-zero rather than producing an empty file"
\* (hpsdr-recorder.c:132-134).
SuccessHasSamples ==
    mainPc = "exited" /\ exit_status = "success" => file # <<>>

-----------------------------------------------------------------------------
(* The strengthening.  Type correctness alone is not inductive: an index    *)
(* stays in the ring only because no span is longer than the ring, and      *)
(* nready stays a natural number only because the coalescing loop takes no  *)
(* more than is ready.                                                      *)

Bounded ==
    /\ rxPc \in {"pad", "padBlock"} => npad <= SamplesSize
    /\ outPc = "coalesce" => span.taken <= blocks_resource.nready
    /\ \A i \in Slot : blocks[i].num_samples <= SamplesSize

\* Between packets the RX thread expects the successor of the newest one.
Tracking ==
    /\ origin <= newest
    /\ first_pkt => rxPc \in {"recv", "exited"}
    /\ ~first_pkt /\ rxPc \in {"recv", "store", "storeBlock", "exited"} =>
           expected_seq = Wire(newest + 1)

\* A thread the main thread has joined has exited.
Joined ==
    /\ mainPc \in {"joinOut", "exited"} => rxPc = "exited"
    /\ mainPc = "exited" => outPc = "exited"

\* Everything above together, and what ties it into one inductive invariant: it
\* holds at every step of every thread (streaming.c, output.c).
IInv == /\ TypeOK /\ Bounded /\ RoomStillThere /\ SpanInRing
        /\ Tracking /\ Joined /\ TimelineAccounted
-----------------------------------------------------------------------------
(* The pipeline implements the timeline the recorder promises. *)

\* Quad k, from 0, of those stored in the ring and not yet released.
UsedCell(k) ==
    LET i == samples_resource.write_index - samples_resource.nused + k
    IN  IF i < 0 THEN i + SamplesSize ELSE i

Progress  == IF outPc \in {"write", "release"} THEN span.done ELSE 0
Waiting   == samples_resource.nused - Progress
Unwritten == [i \in 1 .. Waiting |-> insamples[UsedCell(Progress + i - 1)]]
Lost      == ReportedLoss + stats.failed

Clock ==
    IF first_pkt THEN 0
    ELSE Instant(newest, IF rxPc \in {"pad", "padBlock", "store"}
                         THEN 0 ELSE QuadsPerPacket)
         - (IF rxPc = "pad" THEN npad ELSE 0)

T == INSTANCE Timeline WITH
        Capacity <- SamplesSize,
        clock    <- Clock,
        queue    <- Unwritten,
        reported <- Lost

\* As long as no descriptor has been overwritten, every step of the pipeline is
\* a step of the timeline or changes nothing of it.
ImplementsTimeline == T!Init /\ [][T!Next \/ lapped']_(T!tvars)

-----------------------------------------------------------------------------
(* The strengthening those claims need: what the two rings say of each      *)
(* other, until a descriptor is overwritten.                                *)

\* Quads stored whose descriptor RX has yet to publish, and quads whose
\* descriptors the output thread has popped and which it has yet to release.
Unpublished == IF rxPc = "padBlock" THEN npad
               ELSE IF rxPc = "storeBlock" THEN QuadsPerPacket ELSE 0
Held        == IF outPc \in {"write", "release"} THEN span.total ELSE 0
Published   == samples_resource.nused - Unpublished
Ready(k)    == blocks[(blocks_resource.read_index + k) % BlocksSize]

\* The ready descriptors cut the published quads that are not held into
\* consecutive spans, none empty: edge[k] is where the k-th one begins.
Chained(edge) ==
    /\ edge[0] = Held /\ edge[blocks_resource.nready] = Published
    /\ \A j, k \in 0 .. blocks_resource.nready : j <= k => edge[j] + (k - j) <= edge[k]
    /\ \A k \in 0 .. blocks_resource.nready - 1 :
           Ready(k) = [num_samples   |-> edge[k + 1] - edge[k],
                       samples_index |-> UsedCell(edge[k])]
    /\ outPc = "coalesce" => span.total = edge[span.taken]

RingKept ==
    /\ blocks_resource.nready <= BlocksSize
    /\ blocks_resource.write_index =
           (blocks_resource.read_index + blocks_resource.nready) % BlocksSize
    /\ rxPc \in {"pad", "padBlock"} => npad >= 1
    /\ rxPc \in {"padBlock", "storeBlock"} => start_index = UsedCell(Published)
    /\ outPc \in {"coalesce", "write", "release"} => span.start = UsedCell(0)
    /\ outPc = "coalesce" => span.done = 0
    /\ outPc = "write" => span.done <= span.total
    /\ outPc = "release" => span.done = span.total
    /\ \E edge \in [0 .. blocks_resource.nready -> 0 .. Published] : Chained(edge)

\* The ring holds exactly the quads its descriptors and the two threads account
\* for, in order, so that the output thread writes what the RX thread stored
\* (streaming.c:136-168, 224-242, output.c:199-254).
RInv == IInv /\ (~lapped => RingKept)

\* What the timeline keeps of a recording s, written or waiting, when the clock
\* stands at clk and rep quads are reported lost: it is as long as the clock is
\* late for, and each sample lies at its instant or earlier, by no more than rep.
Orderly(clk, s, rep) ==
    /\ clk - Len(s) \in 0 .. rep
    /\ \A i \in 1 .. Len(s) : s[i] # Zero =>
           /\ s[i] \in Nat
           /\ s[i] - (i - 1) \in 0 .. rep
           /\ clk - s[i] >= Len(s) + 1 - i
    /\ \A i, j \in 1 .. Len(s) :
           i < j /\ s[i] # Zero /\ s[j] # Zero => j - i <= s[j] - s[i]

\* What is written and what waits are one recording, in order, and short of the
\* clock by no more than was reported (streaming.c:132-134, output.c:46-48).
TInv == RInv /\ (~lapped => Orderly(Clock, file \o Unwritten, Lost))
=============================================================================
