------------------------------- MODULE Tracker -------------------------------
(***************************************************************************)
(* What following a stream of numbered packets amounts to, whatever the    *)
(* socket, its batches, other senders and the 32-bit numbers do to it: the *)
(* packets recorded are in the order they were sent, the numbers skipped   *)
(* are counted as missing when they are skipped, and a packet that comes   *)
(* too late is counted and dropped.                                        *)
(***************************************************************************)
EXTENDS Integers, Sequences, SequencesExt

CONSTANT Packets     \* the numbers of the packets the radio sends

VARIABLES recorded,  \* the numbers of the packets recorded, in order
          missing,   \* how many were counted as missing
          discarded  \* how many came too late

tvars == <<recorded, missing, discarded>>

Init == recorded = <<>> /\ missing = 0 /\ discarded = 0

Start(p) ==
    /\ recorded = <<>>
    /\ recorded' = <<p>>
    /\ UNCHANGED <<missing, discarded>>

Follow(p) ==
    /\ recorded # <<>> /\ p > Last(recorded)
    /\ recorded' = Append(recorded, p)
    /\ missing' = missing + p - Last(recorded) - 1
    /\ UNCHANGED discarded

Discard(p) ==
    /\ recorded # <<>> /\ p <= Last(recorded)
    /\ discarded' = discarded + 1
    /\ UNCHANGED <<recorded, missing>>

Next == \E p \in Packets : Start(p) \/ Follow(p) \/ Discard(p)

Spec == Init /\ [][Next]_tvars
=============================================================================
