------------------------------ MODULE Timeline ------------------------------
(***************************************************************************)
(* What the recorder promises of a recording, whatever its threads do: the *)
(* file grows by whole sample instants, in the order the radio sampled     *)
(* them; an instant that was lost on the link is there as a zeroed quad;   *)
(* and when an instant is missing altogether, so that later samples move   *)
(* forward in time, the loss has been reported.                            *)
(***************************************************************************)
EXTENDS Integers, Sequences

CONSTANTS Capacity,  \* quads that may wait to be written
          Zero       \* a zeroed quad

VARIABLES clock,     \* the next instant to be recorded
          queue,     \* quads recorded and not yet written
          file,      \* quads written
          reported   \* quads reported as lost, slipped or not written

tvars == <<clock, queue, file, reported>>

Init == clock = 0 /\ queue = <<>> /\ file = <<>> /\ reported = 0

Enqueue(s) ==
    /\ Len(queue) + Len(s) <= Capacity
    /\ queue' = queue \o s
    /\ clock' = clock + Len(s)
    /\ UNCHANGED <<file, reported>>

Accept(n) == Enqueue([i \in 1..n |-> clock + i - 1])
PadWith(n) == Enqueue([i \in 1..n |-> Zero])

\* The clock may move without a sample only if at least as much is reported.
Slip(n) ==
    /\ clock' = clock + n
    /\ reported' - reported >= n
    /\ UNCHANGED <<queue, file>>

Write(n) ==
    /\ n <= Len(queue)
    /\ file' = file \o SubSeq(queue, 1, n)
    /\ queue' = SubSeq(queue, n + 1, Len(queue))
    /\ UNCHANGED <<clock, reported>>

\* Quads that could not be written leave the queue and are reported.
Discard(n) ==
    /\ n <= Len(queue)
    /\ queue' = SubSeq(queue, n + 1, Len(queue))
    /\ reported' = reported + n
    /\ UNCHANGED <<clock, file>>

Next ==
    \/ \E n \in 1..Capacity : Accept(n) \/ PadWith(n) \/ Write(n) \/ Discard(n)
    \/ Slip(clock' - clock) /\ clock' >= clock

Spec == Init /\ [][Next]_tvars
=============================================================================
