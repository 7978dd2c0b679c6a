------------------------------- MODULE Levels -------------------------------
(***************************************************************************)
(* From the radio's 24-bit samples to 16 bits in the file: the shift and   *)
(* the saturation of pack_sample(), the levels that track_peak() follows   *)
(* (streaming.c), and what print_stats() makes of them (stats.c).          *)
(*                                                                         *)
(* The magnitudes are the real ones; the samples come from small sets.     *)
(* Decibels are compared by the ratios they stand for.                     *)
(*                                                                         *)
(* print_stats() runs in the main thread before streaming_stop(), beside   *)
(* the RX thread that goes on counting (hpsdr-recorder.c:194).  The two    *)
(* share the counters without a lock: every access is a step of its own,   *)
(* and the two updates of stats_add_levels() may be seen in either order.  *)
(***************************************************************************)
EXTENDS Integers, Sequences, FiniteSets, Bags, FiniteSetsExt

CONSTANTS
    Steps,        \* quads (diversity) or pairs of values in a packet
    Decimation,   \* one value in so many enters the histogram: 8 in the code
    Raw,          \* for each place in a quad, the values the radio may send
    Shifts,       \* the values of sample_shift considered, of 0..8
    MaxValues     \* bound: how many values are received

FullScale == 8388607          \* 24 bits; the most negative value is one more
BinShift  == 13               \* STATS_HIST_SHIFT
Bins      == 0 .. 1023        \* STATS_HIST_BINS
Places    == 1 .. 4           \* I1, Q1, I2, Q2
Raw24     == -FullScale - 1 .. FullScale
Highest   == 32767            \* of a sample in the file, 16 bits
Lowest    == -Highest - 1

ASSUME LevelsAssumption ==
    /\ Steps \in Nat \ {0} /\ Decimation \in Nat \ {0} /\ MaxValues \in Nat
    /\ Raw \in [Places -> SUBSET Raw24] /\ Shifts \subseteq 0..8

VARIABLES
    diversity, sample_shift,
    pos,                      \* values of the packet done
    clipped, peak,            \* of the packet
    added,                    \* updates stats_add_levels() has made for it
    total_clipped, peak_sample,
    hist_decim, stats_amp_hist,
    line,                     \* where print_stats() is
    headroom_peak,            \* the peak the headroom was computed from
    suggested,
    clipped_shown,            \* the count of clipped values printed
    seen_peak, seen_clipped,  \* history: values counted when those were read
    received,                 \* history: the values received, with their places
    insamples                 \* the values stored

cfgVars    == <<diversity, sample_shift>>
packetVars == <<pos, clipped, peak, added>>
statVars   == <<total_clipped, peak_sample>>
histVars   == <<hist_decim, stats_amp_hist>>
printVars  == <<line, headroom_peak, suggested, clipped_shown, seen_peak, seen_clipped>>
rxVars     == <<packetVars, statVars, histVars, received, insamples>>
vars == <<cfgVars, rxVars, printVars>>

Abs(v)      == IF v < 0 THEN -v ELSE v
Shr(v, s)   == v \div 2^s     \* >> of a signed number, rounding downwards
Larger(a, b) == IF a > b THEN a ELSE b
PacketLen   == Steps * (IF diversity THEN 4 ELSE 2)
Place       == (pos % (IF diversity THEN 4 ELSE 2)) + 1
Counted     == Len(received) - pos   \* the values of the packets before this one

RxTypeOK ==
    /\ diversity \in BOOLEAN /\ sample_shift \in Shifts
    /\ pos \in 0 .. PacketLen /\ clipped \in 0 .. pos
    /\ peak \in 0 .. FullScale /\ peak_sample \in 0 .. FullScale
    /\ added \subseteq {"clipped", "peak"} /\ (pos < PacketLen => added = {})
    /\ total_clipped \in Nat /\ hist_decim \in 0 .. Decimation - 1
    /\ IsABag(stats_amp_hist) /\ DOMAIN stats_amp_hist \subseteq Bins
    /\ received \in Seq(Places \X Raw24) /\ pos <= Len(received)
    /\ insamples \in Seq(Lowest .. Highest)
PrintTypeOK ==
    /\ line \in {"peak", "headroom", "suggest", "clipped", "printed"}
    /\ headroom_peak \in 0 .. FullScale /\ suggested \in 0 .. sample_shift
    /\ clipped_shown \in Nat
    /\ seen_peak \in 0 .. Counted /\ seen_clipped \in 0 .. Counted
TypeOK == RxTypeOK /\ PrintTypeOK

Init ==
    /\ diversity \in BOOLEAN /\ sample_shift \in Shifts
    /\ pos = 0 /\ clipped = 0 /\ peak = 0
    /\ total_clipped = 0 /\ peak_sample = 0
    /\ hist_decim = 0 /\ stats_amp_hist = EmptyBag
    /\ received = <<>> /\ insamples = <<>>
    /\ added = {} /\ line = "peak" /\ headroom_peak = 0 /\ suggested = sample_shift
    /\ clipped_shown = 0 /\ seen_peak = 0 /\ seen_clipped = 0

-----------------------------------------------------------------------------
(* pack_i(), pack_q(): Q is negated, both are shifted and saturated.        *)

Oriented(v) == IF Place \in {2, 4} THEN -v ELSE v
Shifted(v)  == Shr(Oriented(v), sample_shift)

SaturateWrapping(s) == ((s + 32768) % 65536) - 32768       \* mutant: only cast
Saturate(s) == IF s > Highest THEN Highest ELSE IF s < Lowest THEN Lowest ELSE s

Pack(v) ==
    /\ insamples' = Append(insamples, Saturate(Shifted(v)))
    /\ clipped' = clipped + (IF Shifted(v) \notin Lowest .. Highest THEN 1 ELSE 0)

(* track_peak() *)

MagnitudeUnclamped(v) == Abs(v)                     \* mutant: one too many
Magnitude(v) == IF Abs(v) > FullScale THEN FullScale ELSE Abs(v)

TrackPeakSampled(v) ==          \* mutant: the peak is sampled, too
    /\ hist_decim' = (hist_decim + 1) % Decimation
    /\ IF hist_decim' = 0
         THEN /\ peak' = Larger(Magnitude(v), peak)
              /\ stats_amp_hist' = stats_amp_hist (+) SetToBag({Shr(Magnitude(v), BinShift)})
         ELSE UNCHANGED <<peak, stats_amp_hist>>
TrackPeak(v) ==
    /\ peak' = Larger(Magnitude(v), peak)
    /\ hist_decim' = (hist_decim + 1) % Decimation
    /\ IF hist_decim' = 0
         THEN stats_amp_hist' = stats_amp_hist (+) SetToBag({Shr(Magnitude(v), BinShift)})
         ELSE UNCHANGED stats_amp_hist

\* The sample loop of process_packet(): the next value of the packet.
Sample(v) ==
    /\ pos < PacketLen /\ Len(received) < MaxValues
    /\ TrackPeak(v) /\ Pack(v)
    /\ received' = Append(received, <<Place, v>>)
    /\ pos' = pos + 1
    /\ UNCHANGED <<cfgVars, added, statVars, printVars>>

\* stats_add_levels(): two updates ...
AddClipped ==
    /\ pos = PacketLen /\ "clipped" \notin added
    /\ total_clipped' = total_clipped + clipped
    /\ added' = added \union {"clipped"}
    /\ UNCHANGED <<cfgVars, pos, clipped, peak, peak_sample, histVars, received, insamples,
                   printVars>>

HigherPeakLast == peak            \* mutant: the peak of the last packet
HigherPeak == Larger(peak_sample, peak)

AddPeak ==
    /\ pos = PacketLen /\ "peak" \notin added
    /\ peak_sample' = HigherPeak
    /\ added' = added \union {"peak"}
    /\ UNCHANGED <<cfgVars, pos, clipped, peak, total_clipped, histVars, received, insamples,
                   printVars>>

\* ... and then the locals of the next packet.
NextPacket ==
    /\ pos = PacketLen /\ added = {"clipped", "peak"}
    /\ pos' = 0 /\ clipped' = 0 /\ peak' = 0 /\ added' = {}
    /\ UNCHANGED <<cfgVars, statVars, histVars, received, insamples, printVars>>

-----------------------------------------------------------------------------
(* print_stats(): what it reads of the levels, in the order of its lines    *)

\* 20 * log10(32767 / (peak / 2^shift)) >= dB, for 0 and 20 dB.
HasHeadroom(p, s)    == Highest * 2^s >= p
HasMargin(p, s)      == Highest * 2^s >= 10 * p

\* Nothing is said of the levels unless there is one.
PrintPeak ==
    /\ line = "peak"
    /\ line' = IF peak_sample > 0 THEN "headroom" ELSE "clipped"
    /\ UNCHANGED <<cfgVars, rxVars, headroom_peak, suggested, clipped_shown, seen_peak,
                   seen_clipped>>

PrintHeadroom ==
    /\ line = "headroom"
    /\ headroom_peak' = peak_sample /\ seen_peak' = Counted
    /\ line' = "suggest"
    /\ UNCHANGED <<cfgVars, rxVars, suggested, clipped_shown, seen_clipped>>

\* The loop goes down while the shift below keeps the margin to the peak as it
\* is by then.
MarginBelow == suggested > 0 /\ HasMargin(peak_sample, suggested - 1)

SuggestLower ==
    /\ line = "suggest" /\ MarginBelow
    /\ suggested' = suggested - 1
    /\ UNCHANGED <<cfgVars, rxVars, line, headroom_peak, clipped_shown, seen_peak,
                   seen_clipped>>

SuggestDone ==
    /\ line = "suggest" /\ ~MarginBelow
    /\ line' = "clipped"
    /\ UNCHANGED <<cfgVars, rxVars, headroom_peak, suggested, clipped_shown, seen_peak,
                   seen_clipped>>

PrintClipped ==
    /\ line = "clipped"
    /\ clipped_shown' = total_clipped /\ seen_clipped' = Counted
    /\ line' = "printed"
    /\ UNCHANGED <<cfgVars, rxVars, headroom_peak, suggested, seen_peak>>

-----------------------------------------------------------------------------
Receiving == AddClipped \/ AddPeak \/ NextPacket \/ \E v \in Raw[Place] : Sample(v)
Printing  == PrintPeak \/ PrintHeadroom \/ SuggestLower \/ SuggestDone \/ PrintClipped

Next == Receiving \/ Printing

Spec == Init /\ [][Next]_vars

\* The bin that 99.9 % of the values of the histogram reach, and its upper end,
\* when nothing is added to the histogram while it is read (stats.c:75-86).
UpTo(b)    == FoldSet(LAMBDA c, n : n + stats_amp_hist[c], 0,
                      {c \in DOMAIN stats_amp_hist : c <= b})
Want       == (999 * BagCardinality(stats_amp_hist)) \div 1000
RoutineBin == Min({b \in {0} \cup DOMAIN stats_amp_hist : UpTo(b) >= Want})
Routine    == (RoutineBin + 1) * 2^BinShift
=============================================================================
