---------------------------- MODULE LevelsProps ----------------------------
(***************************************************************************)
(* What packing the samples and reporting their levels must do, stated of  *)
(* module Levels.                                                          *)
(***************************************************************************)
EXTENDS Levels

\* What goes into the file for a value: Q is mirrored.
True(r) == IF r[1] \in {2, 4} THEN -r[2] ELSE r[2]
Fits(r) ==
    Lowest * 2^sample_shift <= True(r) /\ True(r) < (Highest + 1) * 2^sample_shift

\* Every value is stored to within one step of the shift unless it does not fit
\* 16 bits, and exactly the values that do not fit are counted as clipped, the
\* most negative Q among them (streaming.c:24-43, stats.c:161-168).
SaturationCounted ==
    /\ total_clipped + (IF "clipped" \in added THEN 0 ELSE clipped)
           = Cardinality({i \in DOMAIN received : ~Fits(received[i])})
    /\ \A i \in DOMAIN received :
           LET d == True(received[i]) - insamples[i] * 2^sample_shift
           IN  IF Fits(received[i]) THEN d \in 0 .. 2^sample_shift - 1
               ELSE insamples[i] = IF True(received[i]) > 0 THEN Highest ELSE Lowest

\* A value stronger than this is clipped, I or Q.
Clip == (Highest + 1) * 2^sample_shift

\* The report is read from counters that the RX thread goes on changing.  Still
\* headroom is reported only if all values counted when it was computed fit; a
\* smaller shift only if it would have kept 20 dB to each of them; and no
\* clipping only if all values counted when that was printed fit.  A peak that
\* must have been clipped is printed beside "Clipped values: none" only if no
\* packet was finished in between: they disagree by the packet being counted
\* (stats.c:62-65, 92-115, 161-168, hpsdr-recorder.c:194).
ReportsAgree ==
    /\ HasHeadroom(headroom_peak, sample_shift) =>
           \A i \in 1 .. seen_peak : Fits(received[i])
    /\ suggested < sample_shift =>
           \A i \in 1 .. seen_peak : 10 * Abs(received[i][2]) <= Highest * 2^suggested
    /\ line = "printed" /\ clipped_shown = 0 =>
           /\ \A i \in 1 .. seen_clipped : Fits(received[i])
           /\ headroom_peak > Clip => seen_peak = seen_clipped

\* What streaming.c:54-56 takes for granted: the values in the histogram stand
\* for all.  After many packets of steady signals it is not so that "99.9% of
\* samples" lie below the level printed while every other sample is above it.
HistogramStandsForAll ==
    Len(received) >= 4 * Decimation =>
        2 * Cardinality({i \in DOMAIN received : Abs(received[i][2]) > Routine})
            < Len(received)
=============================================================================
