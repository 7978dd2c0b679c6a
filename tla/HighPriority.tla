---------------------------- MODULE HighPriority ----------------------------
(***************************************************************************)
(* The content of a high-priority packet, hpsdr_configure_high_priority(): *)
(* the phase words that tune the two receivers, the Alex filters and the   *)
(* antenna routing, and the step attenuators.  Control models when such    *)
(* packets are sent; this module models what is in one.                    *)
(***************************************************************************)
EXTENDS Integers, FiniteSets

CONSTANTS
    Frequencies,   \* the frequencies, in Hz, a receiver may be set to
    Corrections,   \* values of freq_correction, in Hz
    Attenuations,  \* values of attenuation, in dB: 0..31
    StrayWords     \* what converting a number that is no uint32_t may give

ASSUME TuningAssumption ==
    /\ Frequencies \subseteq Int /\ Corrections \subseteq Int
    /\ Attenuations \subseteq 0..31

VARIABLES settings, packet
vars == <<settings, packet>>

MainJack    == {"ANT1", "ANT2", "ANT3"}
ReceiveJack == {"EXT1", "EXT2", "XVTR"}

Settings == [freq1_hz : Frequencies, freq2_hz : Frequencies,
             freq_correction : Corrections, rx_antenna : MainJack \union ReceiveJack,
             alex_new_pa_board : BOOLEAN, attenuation : Attenuations]

-----------------------------------------------------------------------------
(* ddc_phase_word() *)

\* freq * 2^32 / 122880000, which is freq * 65536 / 1875, rounded to nearest.
\* The whole part and the rest of freq / 1875 are taken apart so that TLC's
\* integers suffice; no tie is possible, and the double is exact enough.
PhaseWordTruncated(f) == 65536 * (f \div 1875) + (65536 * (f % 1875)) \div 1875  \* mutant
PhaseWord(f) ==
    65536 * (f \div 1875) + (131072 * (f % 1875) + 1875) \div 3750

Clock == 122880000    \* Hz: the frequency whose phase word would be 2^32

Corrected(f, c) == IF f + c < 0 THEN 0 ELSE f + c

\* The words it may return.  From the clock on the rounded number does not fit
\* a uint32_t: the conversion is undefined, and the word may be any stray one.
ddc_phase_word(f, c) ==
    IF Corrected(f, c) < Clock THEN {PhaseWord(Corrected(f, c))} ELSE StrayWords

-----------------------------------------------------------------------------
(* The Alex filters and the antenna routing *)

\* Every high-pass filter is used from its frequency up to the next one's.
HpfFromShifted ==      \* mutant: every filter is used one step too early
    [BYPASS_HPF |-> 0, HPF_1_5MHZ |-> 0, HPF_6_5MHZ |-> 1800000,
     HPF_9_5MHZ |-> 6500000, HPF_13MHZ |-> 9500000, HPF_20MHZ |-> 13000000,
     PREAMP_6M |-> 20000000]
HpfFrom ==
    [BYPASS_HPF |-> 0, HPF_1_5MHZ |-> 1800000, HPF_6_5MHZ |-> 6500000,
     HPF_9_5MHZ |-> 9500000, HPF_13MHZ |-> 13000000, HPF_20MHZ |-> 20000000,
     PREAMP_6M |-> 50000000]
Hpf == DOMAIN HpfFrom

HighPass(f) ==
    CHOOSE h \in Hpf :
        /\ HpfFrom[h] <= f \/ h = "BYPASS_HPF"
        /\ \A o \in Hpf : HpfFrom[o] <= f => HpfFrom[o] <= HpfFrom[h]

\* Every low-pass filter is used up to and including its frequency.
LpfUpTo ==
    [LPF_160 |-> 2500000, LPF_80 |-> 5000000, LPF_60_40 |-> 8000000,
     LPF_30_20 |-> 16500000, LPF_17_15 |-> 24000000, LPF_12_10 |-> 35600000,
     LPF_6_BYPASS |-> 2147483647]
Lpf == DOMAIN LpfUpTo

LowPass(f) ==
    CHOOSE l \in Lpf :
        /\ f <= LpfUpTo[l]
        /\ \A o \in Lpf : f <= LpfUpTo[o] => LpfUpTo[l] <= LpfUpTo[o]

\* The receive-only jacks do not go through the low-pass filters.
LpfFrequency(s) == IF s.rx_antenna \in MainJack THEN s.freq1_hz ELSE 40000000

\* A main jack is chosen by the transmit antenna's bits; for a receive-only
\* jack these stay on ANT1 and a bit of its own is set.
Routing(s) ==
    IF s.rx_antenna \in MainJack
    THEN {s.rx_antenna}
    ELSE {"ANT1", s.rx_antenna}
             \union (IF s.alex_new_pa_board THEN {} ELSE {"RX_BYPASS"})

Alex0(s) == {HighPass(s.freq1_hz), LowPass(LpfFrequency(s))} \union Routing(s)
Alex1(s) == {LowPass(LpfFrequency(s)), "ANT1"}

-----------------------------------------------------------------------------
(* One packet.  The settings do not change while the program runs. *)

Contents(s) ==
    [phase0 : ddc_phase_word(s.freq1_hz, s.freq_correction),
     phase1 : ddc_phase_word(s.freq2_hz, s.freq_correction),
     alex0  : {Alex0(s)},
     alex1  : {Alex1(s)},
     atten  : {s.attenuation}]

NoPacket == [phase0 |-> 0, phase1 |-> 0, alex0 |-> {}, alex1 |-> {}, atten |-> 0]

Init == settings \in Settings /\ packet = NoPacket
hpsdr_configure_high_priority ==
    /\ packet' \in Contents(settings)
    /\ UNCHANGED settings
Next == hpsdr_configure_high_priority
Spec == Init /\ [][Next]_vars

Sent == packet # NoPacket

-----------------------------------------------------------------------------
(* Properties *)

\* The phase word of every frequency below the clock is the nearest one to it,
\* after the correction: the receiver is off by at most half a step, 14 mHz,
\* without bias (hpsdr-protocol2.c:268-272).
WordIsNearest(word, f) ==
    LET off == 1875 * (word - 65536 * (f \div 1875)) - 65536 * (f % 1875)
    IN  2 * off <= 1875 /\ 2 * off >= -1875

TunedTo(word, f) == f < Clock => WordIsNearest(word, f)

TunedExactly ==
    Sent => LET c == settings.freq_correction
            IN  /\ TunedTo(packet.phase0, Corrected(settings.freq1_hz, c))
                /\ TunedTo(packet.phase1, Corrected(settings.freq2_hz, c))

\* The pass bands the filters are named for, in Hz.
Corner == [BYPASS_HPF |-> 0, HPF_1_5MHZ |-> 1500000, HPF_6_5MHZ |-> 6500000,
           HPF_9_5MHZ |-> 9500000, HPF_13MHZ |-> 13000000, HPF_20MHZ |-> 20000000,
           PREAMP_6M |-> 0]
Band == [LPF_160      |-> {<<0, 2000000>>},
         LPF_80       |-> {<<3500000, 4000000>>},
         LPF_60_40    |-> {<<5250000, 5450000>>, <<7000000, 7300000>>},
         LPF_30_20    |-> {<<10100000, 10150000>>, <<14000000, 14350000>>},
         LPF_17_15    |-> {<<18068000, 18168000>>, <<21000000, 21450000>>},
         LPF_12_10    |-> {<<24890000, 24990000>>, <<28000000, 29700000>>},
         LPF_6_BYPASS |-> {<<50000000, 54000000>>}]
InBand(f, l) == \E b \in Band[l] : b[1] <= f /\ f <= b[2]

\* The filters let the receiver's frequency through: it is not below the corner
\* the high-pass is named for; in an amateur band a main jack gets the low-pass
\* named for that band; and a receive-only jack is never low-passed.
FiltersPassTheSignal ==
    Sent =>
        LET f == settings.freq1_hz
        IN  /\ \A h \in Hpf \intersect packet.alex0 : Corner[h] <= f \/ f < 0
            /\ IF settings.rx_antenna \in MainJack
               THEN \A l \in Lpf : InBand(f, l) => l \in packet.alex0
               ELSE "LPF_6_BYPASS" \in packet.alex0
=============================================================================
