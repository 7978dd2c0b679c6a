---------------------------- MODULE LevelsProofs ----------------------------
(***************************************************************************)
(* Packing the samples and reporting their levels, for any number of       *)
(* values, any packet, any decimation and whatever the radio sends in 24   *)
(* bits.                                                                   *)
(***************************************************************************)
EXTENDS LevelsProps, SequenceTheorems, FiniteSetTheorems, TLAPS

-----------------------------------------------------------------------------
(* One value *)

\* What the shift divides by.
LEMMA Powers ==
    ASSUME NEW s \in 0 .. 8
    PROVE  <<s, 2^s>> \in {<<0, 1>>, <<1, 2>>, <<2, 4>>, <<3, 8>>, <<4, 16>>, <<5, 32>>,
                           <<6, 64>>, <<7, 128>>, <<8, 256>>}
<1> DEFINE p == 2^s
<1>1. s = 0 => p = 1
  OBVIOUS
<1>2. s = 1 => p = 2
  OBVIOUS
<1>3. s = 2 => p = 4
  OBVIOUS
<1>4. s = 3 => p = 8
  OBVIOUS
<1>5. s = 4 => p = 16
  OBVIOUS
<1>6. s = 5 => p = 32
  OBVIOUS
<1>7. s = 6 => p = 64
  OBVIOUS
<1>8. s = 7 => p = 128
  OBVIOUS
<1>9. s = 8 => p = 256
  OBVIOUS
<1> HIDE DEF p
<1>10. s \in {0, 1, 2, 3, 4, 5, 6, 7, 8}
  OBVIOUS
<1>11. <<s, p>> \in {<<0, 1>>, <<1, 2>>, <<2, 4>>, <<3, 8>>, <<4, 16>>, <<5, 32>>,
                    <<6, 64>>, <<7, 128>>, <<8, 256>>}
  BY <1>1, <1>2, <1>3, <1>4, <1>5, <1>6, <1>7, <1>8, <1>9, <1>10
<1> QED BY <1>11 DEF p

\* No shift divides by nothing.
LEMMA PowersArePositive ==
    ASSUME NEW s \in 0 .. 8
    PROVE  2^s \in Nat \ {0}
<1>1. PICK p : p = 2^s
  OBVIOUS
<1>2. <<s, p>> \in {<<0, 1>>, <<1, 2>>, <<2, 4>>, <<3, 8>>, <<4, 16>>, <<5, 32>>,
                   <<6, 64>>, <<7, 128>>, <<8, 256>>}
  BY <1>1, Powers
<1>3. p \in Nat \ {0}
  BY <1>2
<1> QED BY <1>1, <1>3

\* A value t fits 16 bits when shifted by s, and x is what is kept of it.
FitsShifted(t, s) == Lowest * 2^s <= t /\ t < (Highest + 1) * 2^s
Kept(t, s, x) ==
    IF FitsShifted(t, s) THEN t - x * 2^s \in 0 .. 2^s - 1
                         ELSE x = IF t > 0 THEN Highest ELSE Lowest

\* Shifting rounds downwards, and what does not fit is saturated on its side.
LEMMA ShiftAndSaturate ==
    ASSUME NEW s \in 0 .. 8, NEW t \in Int
    PROVE  /\ Saturate(Shr(t, s)) \in Lowest .. Highest
           /\ Kept(t, s, Saturate(Shr(t, s)))
           /\ Shr(t, s) \in Lowest .. Highest <=> FitsShifted(t, s)
<1>1. PICK p \in Nat \ {0} : p = 2^s
  BY PowersArePositive
<1> DEFINE q == t \div p
           x == Saturate(q)
           Inside == Lowest <= q /\ q <= Highest
<1>2. q \in Int /\ p * q <= t /\ t < p * q + p
  BY <1>1
<1> HIDE DEF q
<1>3. Highest \in Int /\ Lowest \in Int /\ Lowest = -Highest - 1 /\ Highest > 0
  BY SMT DEF Highest, Lowest
<1>4. Lowest * p <= t <=> Lowest <= q
  <2>1. ASSUME Lowest <= q PROVE Lowest * p <= t
    <3>1. p * (q - Lowest) >= 0 /\ p * (q - Lowest) = p * q - p * Lowest
      BY <1>1, <1>2, <1>3, <2>1
    <3> QED BY <1>1, <1>2, <1>3, <3>1
  <2>2. ASSUME ~(Lowest <= q) PROVE ~(Lowest * p <= t)
    <3>1. p * (Lowest - q - 1) >= 0 /\ p * (Lowest - q - 1) = p * Lowest - p * q - p
      BY <1>1, <1>2, <1>3, <2>2
    <3> QED BY <1>1, <1>2, <1>3, <3>1
  <2> QED BY <2>1, <2>2
<1>5. t < (Highest + 1) * p <=> q <= Highest
  <2>1. ASSUME q <= Highest PROVE t < (Highest + 1) * p
    <3>1. p * (Highest - q) >= 0 /\ p * (Highest - q) = p * Highest - p * q
      BY <1>1, <1>2, <1>3, <2>1
    <3>2. (Highest + 1) * p = p * Highest + p
      BY <1>1, <1>3
    <3> QED BY <1>1, <1>2, <1>3, <3>1, <3>2
  <2>2. ASSUME ~(q <= Highest) PROVE ~(t < (Highest + 1) * p)
    <3>1. p * (q - Highest - 1) >= 0 /\ p * (q - Highest - 1) = p * q - p * Highest - p
      BY <1>1, <1>2, <1>3, <2>2
    <3>2. (Highest + 1) * p = p * Highest + p
      BY <1>1, <1>3
    <3> QED BY <1>1, <1>2, <1>3, <3>1, <3>2
  <2> QED BY <2>1, <2>2
<1>6. FitsShifted(t, s) <=> Inside
  BY <1>1, <1>4, <1>5 DEF FitsShifted
<1>7. x \in Lowest .. Highest
  BY <1>2, <1>3 DEF Saturate
<1>8. ASSUME Inside PROVE t - x * 2^s \in 0 .. 2^s - 1
  <2>1. x = q
    BY <1>2, <1>3, <1>8 DEF Saturate
  <2>2. x * 2^s = p * q
    BY <1>1, <1>2, <2>1
  <2> QED BY <1>1, <1>2, <2>2
<1>9. ASSUME ~Inside PROVE x = IF t > 0 THEN Highest ELSE Lowest
  <2>1. CASE q > Highest
    <3>1. x = Highest
      BY <1>2, <1>3, <2>1 DEF Saturate
    <3>2. p * q > 0
      BY <1>1, <1>2, <1>3, <2>1
    <3> QED BY <1>1, <1>2, <3>1, <3>2
  <2>2. CASE q < Lowest
    <3>1. x = Lowest
      BY <1>2, <1>3, <2>2 DEF Saturate
    <3>2. p * (q + 1) <= 0 /\ p * (q + 1) = p * q + p
      BY <1>1, <1>2, <1>3, <2>2
    <3> QED BY <1>1, <1>2, <3>1, <3>2
  <2> QED BY <1>2, <1>3, <1>9, <2>1, <2>2
<1>10. q = Shr(t, s)
  BY <1>1 DEF Shr, q
<1>11. q \in Lowest .. Highest <=> Inside
  BY <1>2, <1>3
<1> HIDE DEF Inside
<1>12. /\ x \in Lowest .. Highest /\ Kept(t, s, x)
       /\ q \in Lowest .. Highest <=> FitsShifted(t, s)
  BY <1>6, <1>7, <1>8, <1>9, <1>11 DEF Kept
<1> QED BY <1>10, <1>12

\* The magnitude fits 23 bits, and is the value's but for the most negative.
LEMMA MagnitudeFits ==
    ASSUME NEW v \in Raw24
    PROVE  /\ FullScale \in Nat /\ Magnitude(v) \in 0 .. FullScale
           /\ Abs(v) \in Nat
           /\ \/ Abs(v) = Magnitude(v)
              \/ Abs(v) = FullScale + 1 /\ Magnitude(v) = FullScale
<1>1. FullScale \in Nat
  BY SMT DEF FullScale
<1>2. v \in Int /\ -FullScale - 1 <= v /\ v <= FullScale
  BY <1>1 DEF Raw24
<1>3. Abs(v) \in Nat /\ Abs(v) <= FullScale + 1
  BY <1>1, <1>2 DEF Abs
<1> QED BY <1>1, <1>3 DEF Magnitude

\* The highest magnitude is in the last bin.
LEMMA ScaleIsBinned ==
    FullScale \in Nat /\ FullScale < 8192 * 1024 /\ 2^BinShift = 8192
BY SMT DEF FullScale, BinShift

\* The bin of a magnitude is one of the histogram's.
LEMMA BinInRange ==
    ASSUME NEW m \in 0 .. FullScale
    PROVE  Shr(m, BinShift) \in Bins
<1>1. m \in Int /\ 0 <= m /\ m < 8192 * 1024
  BY ScaleIsBinned
<1>2. m \div 8192 \in Int /\ 0 <= m \div 8192 /\ m \div 8192 <= 1023
  <2>1. ASSUME NEW n \in Int, 0 <= n, n < 8192 * 1024
        PROVE  n \div 8192 \in Int /\ 0 <= n \div 8192 /\ n \div 8192 <= 1023
    BY <2>1, SMT
  <2> QED BY <1>1, <2>1
<1>3. Shr(m, BinShift) = m \div 8192
  BY ScaleIsBinned DEF Shr
<1> QED BY <1>2, <1>3, SMT DEF Bins

\* One count more in the histogram.
LEMMA BagAdd ==
    ASSUME NEW b, IsABag(b), NEW S, DOMAIN b \subseteq S, NEW x \in S
    PROVE  IsABag(b (+) SetToBag({x})) /\ DOMAIN (b (+) SetToBag({x})) \subseteq S
BY DEF IsABag, SetToBag, (+)

-----------------------------------------------------------------------------
(* Types *)

\* The constants, and the place of a value in its quad.
LEMMA Constants ==
    /\ Steps \in Nat /\ Decimation \in Nat \ {0}
    /\ \A p \in Places : Raw[p] \subseteq Raw24
    /\ Shifts \subseteq 0 .. 8
BY LevelsAssumption

\* The value of the packet that comes next has a place in its quad.
LEMMA PlaceOfValue ==
    ASSUME TypeOK
    PROVE  Place \in Places /\ PacketLen \in Nat
<1>1. pos \in Nat /\ PacketLen \in Nat
  BY Constants DEF TypeOK, RxTypeOK, PacketLen
<1>2. pos % 4 \in 0 .. 3 /\ pos % 2 \in 0 .. 1
  BY <1>1
<1> QED BY <1>1, <1>2 DEF Place, Places

\* The value received is one of 24 bits, and so is Q mirrored, but for one.
LEMMA ValueReceived ==
    ASSUME TypeOK, NEW v \in Raw[Place]
    PROVE  /\ v \in Raw24 /\ <<Place, v>> \in Places \X Raw24
           /\ Oriented(v) = True(<<Place, v>>)
           /\ True(<<Place, v>>) \in -FullScale - 1 .. FullScale + 1
<1>1. v \in Raw24 /\ Place \in Places
  BY PlaceOfValue, Constants
<1>2. Oriented(v) = True(<<Place, v>>)
  BY DEF Oriented, True
<1>3. Oriented(v) \in -FullScale - 1 .. FullScale + 1
  BY <1>1, MagnitudeFits DEF Oriented, Raw24
<1> QED BY <1>1, <1>2, <1>3

\* Nothing is stored or counted at first.
LEMMA InitTypes == Init => TypeOK
<1> SUFFICES ASSUME Init PROVE TypeOK
  OBVIOUS
<1>1. IsABag(EmptyBag) /\ DOMAIN EmptyBag \subseteq Bins
  BY DEF EmptyBag, SetToBag, IsABag
<1>2. PacketLen \in Nat /\ FullScale \in Nat
  BY Constants, SMT DEF Init, PacketLen, FullScale
<1>3. /\ received \in Seq(Places \X Raw24) /\ insamples \in Seq(Lowest .. Highest)
      /\ Len(received) = 0
  BY DEF Init
<1>4. RxTypeOK
  BY <1>1, <1>2, <1>3, Constants DEF Init, RxTypeOK
<1>5. PrintTypeOK
  BY <1>2, <1>3, Constants DEF Init, PrintTypeOK, Counted
<1> QED BY <1>4, <1>5 DEF TypeOK

\* A sample.
LEMMA SampleTypes ==
    ASSUME TypeOK, NEW v \in Raw[Place], Sample(v)
    PROVE  RxTypeOK' /\ Counted' = Counted
<1>1. v \in Raw24 /\ <<Place, v>> \in Places \X Raw24
      /\ Oriented(v) \in -FullScale - 1 .. FullScale + 1 /\ sample_shift \in 0 .. 8
  BY ValueReceived, Constants DEF TypeOK, RxTypeOK
<1>2. PacketLen' = PacketLen /\ PacketLen \in Nat
  BY PlaceOfValue DEF Sample, cfgVars, PacketLen
<1>3. diversity' \in BOOLEAN /\ sample_shift' \in Shifts
  BY DEF Sample, cfgVars, TypeOK, RxTypeOK
<1>4. pos' \in 0 .. PacketLen' /\ clipped' \in 0 .. pos' /\ pos' = pos + 1
  <2>1. pos \in Nat /\ clipped \in Nat /\ clipped <= pos
    BY <1>2 DEF TypeOK, RxTypeOK
  <2>2. pos' = pos + 1 /\ pos < PacketLen /\ (clipped' = clipped + 1 \/ clipped' = clipped)
    BY <2>1 DEF Sample, Pack
  <2> QED BY <1>2, <2>1, <2>2
<1>5. peak' \in 0 .. FullScale
  <2>1. peak' = Larger(Magnitude(v), peak)
    BY DEF Sample, TrackPeak
  <2>2. Magnitude(v) \in 0 .. FullScale /\ peak \in 0 .. FullScale
    BY <1>1, MagnitudeFits DEF TypeOK, RxTypeOK
  <2> QED BY <2>1, <2>2 DEF Larger
<1>6. hist_decim' \in 0 .. Decimation - 1
  <2>1. hist_decim' = (hist_decim + 1) % Decimation
    BY DEF Sample, TrackPeak
  <2> QED BY <2>1, Constants DEF TypeOK, RxTypeOK
<1>7. IsABag(stats_amp_hist') /\ DOMAIN stats_amp_hist' \subseteq Bins
  <2>1. \/ stats_amp_hist' = stats_amp_hist
        \/ stats_amp_hist' = stats_amp_hist (+) SetToBag({Shr(Magnitude(v), BinShift)})
    BY DEF Sample, TrackPeak
  <2>2. Shr(Magnitude(v), BinShift) \in Bins
    BY <1>1, MagnitudeFits, BinInRange
  <2>3. IsABag(stats_amp_hist) /\ DOMAIN stats_amp_hist \subseteq Bins
    BY DEF TypeOK, RxTypeOK
  <2> QED BY <2>1, <2>2, <2>3, BagAdd
<1>8. /\ received' \in Seq(Places \X Raw24) /\ Len(received') = Len(received) + 1
      /\ Len(received) \in Nat
  BY <1>1 DEF Sample, TypeOK, RxTypeOK
<1>9. insamples' \in Seq(Lowest .. Highest)
  <2>1. insamples' = Append(insamples, Saturate(Shr(Oriented(v), sample_shift)))
    BY DEF Sample, Pack, Shifted
  <2>2. Saturate(Shr(Oriented(v), sample_shift)) \in Lowest .. Highest
    <3>1. Oriented(v) \in Int
      BY <1>1, ScaleIsBinned
    <3> QED BY <1>1, <3>1, ShiftAndSaturate
  <2> QED BY <2>1, <2>2 DEF TypeOK, RxTypeOK
<1>10. total_clipped' \in Nat /\ peak_sample' \in 0 .. FullScale
  BY DEF Sample, statVars, TypeOK, RxTypeOK
<1>11. added' = {}
  BY DEF Sample, TypeOK, RxTypeOK
<1>12. pos \in Nat /\ pos <= Len(received)
  BY <1>2 DEF TypeOK, RxTypeOK
<1>13. pos' <= Len(received') /\ Counted' = Counted
  BY <1>4, <1>8, <1>12 DEF Counted
<1>14. RxTypeOK'
  BY <1>3, <1>4, <1>5, <1>6, <1>7, <1>8, <1>9, <1>10, <1>11, <1>13 DEF RxTypeOK
<1> QED BY <1>13, <1>14

\* The levels of a packet are counted, or the next one begins.
Adding == AddClipped \/ AddPeak \/ NextPacket
LEMMA AddingTypes ==
    ASSUME TypeOK, Adding
    PROVE  /\ RxTypeOK' /\ Counted \in Nat /\ Counted' \in Nat /\ Counted <= Counted'
           /\ received' = received /\ insamples' = insamples /\ sample_shift' = sample_shift
<1>1. /\ PacketLen' = PacketLen /\ PacketLen \in Nat /\ FullScale \in Nat
      /\ received' = received /\ insamples' = insamples /\ UNCHANGED <<cfgVars, histVars>>
  BY PlaceOfValue, SMT
     DEF Adding, AddClipped, AddPeak, NextPacket, cfgVars, PacketLen, FullScale
<1>2. /\ Len(received) \in Nat /\ pos \in Nat /\ pos <= Len(received)
      /\ clipped \in Nat /\ total_clipped \in Nat
      /\ peak \in 0 .. FullScale /\ peak_sample \in 0 .. FullScale
  BY <1>1 DEF TypeOK, RxTypeOK
<1>3. CASE AddClipped
  <2>1. total_clipped' \in Nat /\ UNCHANGED <<pos, clipped, peak, peak_sample>>
    BY <1>2, <1>3 DEF AddClipped
  <2>2. added' \subseteq {"clipped", "peak"} /\ pos' = PacketLen'
    BY <1>1, <1>3, <2>1 DEF AddClipped, TypeOK, RxTypeOK
  <2>3. RxTypeOK'
    BY <1>1, <2>1, <2>2 DEF TypeOK, RxTypeOK, cfgVars, histVars
  <2> QED BY <1>1, <1>2, <2>1, <2>3 DEF Counted, cfgVars
<1>4. CASE AddPeak
  <2>1. peak_sample' \in 0 .. FullScale /\ UNCHANGED <<pos, clipped, peak, total_clipped>>
    BY <1>2, <1>4 DEF AddPeak, HigherPeak, Larger
  <2>2. added' \subseteq {"clipped", "peak"} /\ pos' = PacketLen'
    BY <1>1, <1>4, <2>1 DEF AddPeak, TypeOK, RxTypeOK
  <2>3. RxTypeOK'
    BY <1>1, <2>1, <2>2 DEF TypeOK, RxTypeOK, cfgVars, histVars
  <2> QED BY <1>1, <1>2, <2>1, <2>3 DEF Counted, cfgVars
<1>5. CASE NextPacket
  <2>1. pos' = 0 /\ clipped' = 0 /\ peak' = 0 /\ added' = {} /\ UNCHANGED statVars
    BY <1>5 DEF NextPacket
  <2>2. RxTypeOK'
    BY <1>1, <1>2, <2>1 DEF TypeOK, RxTypeOK, cfgVars, histVars, statVars
  <2> QED BY <1>1, <1>2, <2>1, <2>2 DEF Counted, cfgVars
<1> QED BY <1>3, <1>4, <1>5 DEF Adding

\* What is read of the levels keeps its type, and changes none of them.
LEMMA PrintingTypes ==
    ASSUME TypeOK, Printing
    PROVE  TypeOK' /\ UNCHANGED <<cfgVars, rxVars>> /\ Counted' = Counted
<1>1. UNCHANGED <<cfgVars, rxVars>>
  BY DEF Printing, PrintPeak, PrintHeadroom, SuggestLower, SuggestDone, PrintClipped
<1>2. RxTypeOK' /\ Counted' = Counted /\ Counted \in Nat
  <2>1. RxTypeOK' /\ Counted' = Counted
    BY <1>1 DEF TypeOK, RxTypeOK, PacketLen, Counted, cfgVars, rxVars, packetVars, statVars,
                histVars
  <2>2. pos \in Nat /\ Len(received) \in Nat /\ pos <= Len(received)
    BY PlaceOfValue DEF TypeOK, RxTypeOK
  <2>3. Counted \in Nat
    BY <2>2 DEF Counted
  <2> QED BY <2>1, <2>3
<1>3. sample_shift' = sample_shift /\ sample_shift \in Nat
  BY <1>1, Constants DEF cfgVars, TypeOK, RxTypeOK
<1>4. line' \in {"peak", "headroom", "suggest", "clipped", "printed"}
  BY DEF Printing, PrintPeak, PrintHeadroom, SuggestLower, SuggestDone, PrintClipped, TypeOK,
         PrintTypeOK
<1>5. headroom_peak' \in 0 .. FullScale /\ seen_peak' \in 0 .. Counted'
  <2>1. \/ headroom_peak' = headroom_peak /\ seen_peak' = seen_peak
        \/ headroom_peak' = peak_sample /\ seen_peak' = Counted
    BY DEF Printing, PrintPeak, PrintHeadroom, SuggestLower, SuggestDone, PrintClipped
  <2>2. /\ headroom_peak \in 0 .. FullScale /\ seen_peak \in 0 .. Counted
        /\ peak_sample \in 0 .. FullScale
    BY DEF TypeOK, RxTypeOK, PrintTypeOK
  <2> QED BY <1>2, <2>1, <2>2
<1>6. suggested' \in 0 .. sample_shift'
  <2>1. CASE SuggestLower
    BY <1>3, <2>1 DEF SuggestLower, MarginBelow, TypeOK, PrintTypeOK
  <2>2. CASE ~SuggestLower
    BY <1>3, <2>2 DEF Printing, PrintPeak, PrintHeadroom, SuggestDone, PrintClipped, TypeOK,
                      PrintTypeOK
  <2> QED BY <2>1, <2>2
<1>7. clipped_shown' \in Nat /\ seen_clipped' \in 0 .. Counted'
  <2>1. \/ clipped_shown' = clipped_shown /\ seen_clipped' = seen_clipped
        \/ clipped_shown' = total_clipped /\ seen_clipped' = Counted
    BY DEF Printing, PrintPeak, PrintHeadroom, SuggestLower, SuggestDone, PrintClipped
  <2>2. /\ clipped_shown \in Nat /\ seen_clipped \in 0 .. Counted /\ total_clipped \in Nat
    BY DEF TypeOK, RxTypeOK, PrintTypeOK
  <2> QED BY <1>2, <2>1, <2>2
<1>8. PrintTypeOK'
  BY <1>4, <1>5, <1>6, <1>7 DEF PrintTypeOK
<1> QED BY <1>1, <1>2, <1>8 DEF TypeOK

\* What was read stays in its range while the RX thread counts on.
LEMMA ReadStaysInRange ==
    ASSUME TypeOK, RxTypeOK', UNCHANGED <<cfgVars, printVars>>, Counted \in Nat,
           Counted' \in Nat, Counted <= Counted'
    PROVE  PrintTypeOK'
BY DEF TypeOK, PrintTypeOK, printVars, cfgVars

\* Types are kept by the steps of the RX thread, by those of the report, and by a
\* step of no part.
LEMMA StepTypes == TypeOK /\ [Next]_vars => TypeOK'
<1>1. ASSUME TypeOK
      PROVE  Counted \in Nat
  <2>1. pos \in Nat /\ Len(received) \in Nat /\ pos <= Len(received)
    BY <1>1, PlaceOfValue DEF TypeOK, RxTypeOK
  <2> QED BY <2>1 DEF Counted
<1>2. ASSUME TypeOK, UNCHANGED vars
      PROVE  TypeOK'
  BY <1>2 DEF TypeOK, RxTypeOK, PrintTypeOK, vars, cfgVars, rxVars, packetVars, statVars,
              histVars, printVars, PacketLen, Counted
<1>3. ASSUME TypeOK, NEW v \in Raw[Place], Sample(v)
      PROVE  TypeOK'
  <2>1. RxTypeOK' /\ Counted' = Counted /\ UNCHANGED <<cfgVars, printVars>>
    BY <1>3, SampleTypes DEF Sample
  <2>2. PrintTypeOK'
    BY <1>1, <1>3, <2>1, ReadStaysInRange
  <2> QED BY <2>1, <2>2 DEF TypeOK
<1>4. ASSUME TypeOK, Adding
      PROVE  TypeOK'
  <2>1. UNCHANGED <<cfgVars, printVars>>
    BY <1>4 DEF Adding, AddClipped, AddPeak, NextPacket
  <2>2. PrintTypeOK' /\ RxTypeOK'
    BY <1>4, <2>1, AddingTypes, ReadStaysInRange
  <2> QED BY <2>2 DEF TypeOK
<1> QED BY <1>2, <1>3, <1>4, PrintingTypes DEF Next, Receiving, Adding

\* What is counted, stored and reported keeps its type: a level is one of the
\* histogram's bins, a sample fits the 16 bits of the file, and no magnitude
\* passes 23 bits, whatever the radio sends and whenever the report is read
\* (streaming.c:24-60, stats.c:62-65).
THEOREM LevelTypes == Spec => []TypeOK
BY InitTypes, StepTypes, PTL DEF Spec

-----------------------------------------------------------------------------
(* What is stored *)

Clipping == {i \in DOMAIN received : ~Fits(received[i])}
Stored ==
    /\ Len(insamples) = Len(received)
    /\ \A i \in DOMAIN received : Kept(True(received[i]), sample_shift, insamples[i])
    /\ IsFiniteSet(Clipping)
    /\ total_clipped + (IF "clipped" \in added THEN 0 ELSE clipped) = Cardinality(Clipping)

\* A sample is stored as its shift asks, and counted when it does not fit.
LEMMA SampleStored ==
    ASSUME TypeOK, Stored, NEW v \in Raw[Place], Sample(v)
    PROVE  Stored'
<1> DEFINE r == <<Place, v>>
           n == Len(received) + 1
<1>1. /\ r \in Places \X Raw24 /\ Oriented(v) = True(r) /\ True(r) \in Int
      /\ sample_shift \in 0 .. 8
  BY ValueReceived, ScaleIsBinned, Constants DEF TypeOK, RxTypeOK
<1>2. /\ received \in Seq(Places \X Raw24) /\ insamples \in Seq(Lowest .. Highest)
      /\ Len(insamples) = Len(received) /\ total_clipped \in Nat /\ clipped \in Nat
      /\ added = {} /\ added' = {}
  BY PlaceOfValue DEF Sample, TypeOK, RxTypeOK, Stored
<1> DEFINE x == Saturate(Shr(True(r), sample_shift))
<1>3. /\ received' = Append(received, r) /\ insamples' = Append(insamples, x)
      /\ sample_shift' = sample_shift /\ total_clipped' = total_clipped
      /\ clipped' = clipped
                    + (IF Shr(True(r), sample_shift) \notin Lowest .. Highest THEN 1 ELSE 0)
  BY <1>1 DEF Sample, Pack, Shifted, cfgVars, statVars
<1>4. /\ Kept(True(r), sample_shift, x)
      /\ Shr(True(r), sample_shift) \in Lowest .. Highest <=> Fits(r)
  <2>1. FitsShifted(True(r), sample_shift) <=> Fits(r)
    BY DEF FitsShifted, Fits
  <2> QED BY <1>1, <2>1, ShiftAndSaturate
<1> HIDE DEF r, x
<1>5. /\ DOMAIN received' = DOMAIN received \cup {n} /\ n \notin DOMAIN received
      /\ received'[n] = r /\ \A i \in DOMAIN received : received'[i] = received[i]
  BY <1>1, <1>2, <1>3
<1>6. /\ Len(insamples') = Len(received') /\ insamples'[n] = x
      /\ \A i \in DOMAIN received : insamples'[i] = insamples[i]
  BY <1>1, <1>2, <1>3
<1>7. \A i \in DOMAIN received' : Kept(True(received'[i]), sample_shift', insamples'[i])
  BY <1>3, <1>4, <1>5, <1>6 DEF Stored
<1>8. \A a : (Fits(a))' <=> Fits(a)
  BY <1>3 DEF Fits, True
<1>9. Clipping' = IF Fits(r) THEN Clipping ELSE Clipping \cup {n}
  <2>1. Clipping' = {i \in DOMAIN received' : ~Fits(received'[i])}
    BY <1>3 DEF Clipping, Fits, True
  <2> QED BY <1>5, <2>1 DEF Clipping
<1>10. IsFiniteSet(Clipping') /\ total_clipped' + clipped' = Cardinality(Clipping')
  <2>1. IsFiniteSet(Clipping) /\ total_clipped + clipped = Cardinality(Clipping)
    BY <1>2 DEF Stored
  <2>2. n \notin Clipping
    BY <1>5 DEF Clipping
  <2>3. CASE Fits(r)
    BY <1>2, <1>3, <1>4, <1>9, <2>1, <2>3
  <2>4. CASE ~Fits(r)
    <3>1. /\ IsFiniteSet(Clipping \cup {n})
          /\ Cardinality(Clipping \cup {n}) = Cardinality(Clipping) + 1
      BY <2>1, <2>2, FS_AddElement
    <3>2. Clipping' = Clipping \cup {n} /\ clipped' = clipped + 1
      BY <1>3, <1>4, <1>9, <2>4
    <3> QED BY <1>2, <1>3, <2>1, <3>1, <3>2
  <2> QED BY <2>3, <2>4
<1> QED BY <1>2, <1>6, <1>7, <1>10 DEF Stored

\* The end of a packet only moves what its samples counted into the total, and
\* the report changes nothing.
LEMMA StepStored == TypeOK /\ Stored /\ [Next]_vars => Stored'
<1> DEFINE Due == IF "clipped" \in added THEN 0 ELSE clipped
<1>1. ASSUME received' = received, insamples' = insamples, sample_shift' = sample_shift,
             total_clipped' + Due' = total_clipped + Due, Stored
      PROVE  Stored'
  BY <1>1 DEF Stored, Clipping, Fits, True
<1>2. ASSUME TypeOK, Stored, Adding
      PROVE  Stored'
  <2>1. received' = received /\ insamples' = insamples /\ sample_shift' = sample_shift
    BY <1>2, AddingTypes
  <2>2. clipped \in Nat /\ total_clipped \in Nat
    BY <1>2, PlaceOfValue DEF TypeOK, RxTypeOK
  <2>3. total_clipped' + Due' = total_clipped + Due
    <3>1. CASE AddClipped
      BY <2>2, <3>1 DEF AddClipped
    <3>2. CASE AddPeak
      BY <2>2, <3>2 DEF AddPeak
    <3>3. CASE NextPacket
      BY <2>2, <3>3 DEF NextPacket, statVars
    <3> QED BY <1>2, <3>1, <3>2, <3>3 DEF Adding
  <2> QED BY <1>1, <1>2, <2>1, <2>3
<1>3. ASSUME Stored, UNCHANGED <<cfgVars, rxVars>>
      PROVE  Stored'
  BY <1>1, <1>3 DEF cfgVars, rxVars, packetVars, statVars
<1>4. UNCHANGED vars => UNCHANGED <<cfgVars, rxVars>>
  BY DEF vars
<1> QED BY <1>2, <1>3, <1>4, SampleStored, PrintingTypes DEF Next, Receiving, Adding

\* An empty file holds what nothing asked for.
LEMMA InitStored == Init => Stored
<1> SUFFICES ASSUME Init PROVE Stored
  OBVIOUS
<1>1. DOMAIN received = {} /\ Len(insamples) = Len(received)
  BY DEF Init
<1>2. Clipping = {}
  BY <1>1 DEF Clipping
<1> QED BY <1>1, <1>2, FS_EmptySet DEF Init, Stored

\* The file's samples and its count of the clipped ones are those of what the
\* radio sent, to within the shift, however many values there are: no sample
\* wraps around, and none that was cut goes uncounted (streaming.c:24-43,
\* stats.c:62-65).
THEOREM SamplesAreKept == Spec => []SaturationCounted
<1>1. Stored => SaturationCounted
  BY DEF Stored, SaturationCounted, Clipping, Kept, Fits, FitsShifted
<1> QED BY <1>1, InitTypes, StepTypes, InitStored, StepStored, PTL DEF Spec

-----------------------------------------------------------------------------
(* What is reported *)

Strength(i) == Magnitude(received[i][2])

\* No magnitude passes the peak of its packet, nor the peak of all packets once
\* it is counted; and where there is a peak that must have been clipped, there is
\* something clipped.
Peaks ==
    /\ \A i \in 1 .. Counted : Strength(i) <= peak_sample
    /\ \A i \in Counted + 1 .. Len(received) : Strength(i) <= peak
    /\ "peak" \in added => peak <= peak_sample
    /\ peak > Clip => clipped > 0
    /\ peak_sample > Clip => total_clipped > 0 \/ ("peak" \in added /\ clipped > 0)

\* While nothing is counted as clipped, nothing was.
Clippings ==
    /\ total_clipped = 0 => \A i \in 1 .. Counted : Fits(received[i])
    /\ clipped = 0 => \A i \in Counted + 1 .. Len(received) : Fits(received[i])
    /\ "clipped" \in added => total_clipped >= clipped

\* A peak that must have been clipped stays beside a count of none only while its
\* packet is being counted.
Shown ==
    /\ headroom_peak > Clip =>
           \/ total_clipped > 0
           \/ "peak" \in added /\ clipped > 0 /\ seen_peak = Counted
    /\ line \in {"peak", "headroom"} => suggested = sample_shift
    /\ ReportsAgree

\* The highest magnitude would leave no headroom at any shift: a level that is
\* clamped is never reported to fit.
LEMMA ScaleHasNoHeadroom ==
    ASSUME NEW s \in 0 .. 8
    PROVE  Highest * 2^s < FullScale
<1>1. PICK p : p = 2^s
  OBVIOUS
<1>2. <<s, p>> \in {<<0, 1>>, <<1, 2>>, <<2, 4>>, <<3, 8>>, <<4, 16>>, <<5, 32>>,
                   <<6, 64>>, <<7, 128>>, <<8, 256>>}
  BY <1>1, Powers
<1>3. p \in Int /\ p <= 256 /\ p > 0
  BY <1>2
<1>4. Highest * p < FullScale
  BY <1>3, SMT DEF Highest, FullScale
<1> QED BY <1>1, <1>4

\* What the next sample adds.
LEMMA NextValue ==
    ASSUME TypeOK, NEW v \in Raw[Place], Sample(v)
    PROVE  LET n == Len(received) + 1 IN
           /\ v \in Raw24 /\ Len(received) \in Nat /\ Len(received') = n
           /\ Counted \in Nat /\ Counted' = Counted /\ Counted < n
           /\ received'[n] = <<Place, v>>
           /\ \A i \in 1 .. Len(received) : received'[i] = received[i]
           /\ Shr(True(<<Place, v>>), sample_shift) \in Lowest .. Highest
                  <=> Fits(<<Place, v>>)
           /\ clipped' = clipped + (IF Fits(<<Place, v>>) THEN 0 ELSE 1)
           /\ peak' = Larger(Magnitude(v), peak) /\ added = {} /\ added' = {}
<1> DEFINE r == <<Place, v>>
<1>1. /\ v \in Raw24 /\ r \in Places \X Raw24 /\ Oriented(v) = True(r)
      /\ True(r) \in Int /\ sample_shift \in 0 .. 8
  <2>1. v \in Raw24 /\ r \in Places \X Raw24 /\ Oriented(v) = True(r)
    BY ValueReceived
  <2>2. True(r) \in Int
    BY ValueReceived, ScaleIsBinned
  <2> QED BY <2>1, <2>2, Constants DEF TypeOK, RxTypeOK
<1>2. /\ received \in Seq(Places \X Raw24) /\ received' = Append(received, r)
      /\ pos \in Nat /\ pos <= Len(received)
      /\ added = {} /\ added' = {} /\ peak' = Larger(Magnitude(v), peak)
  BY PlaceOfValue DEF Sample, TrackPeak, TypeOK, RxTypeOK
<1>3. Shr(True(r), sample_shift) \in Lowest .. Highest <=> Fits(r)
  <2>1. FitsShifted(True(r), sample_shift) <=> Fits(r)
    BY DEF FitsShifted, Fits
  <2> QED BY <1>1, <2>1, ShiftAndSaturate
<1>4. clipped' = clipped + (IF Shr(True(r), sample_shift) \notin Lowest .. Highest
                            THEN 1 ELSE 0)
  BY <1>1 DEF Sample, Pack, Shifted
<1> HIDE DEF r
<1>5. /\ Len(received) \in Nat /\ Len(received') = Len(received) + 1
      /\ received'[Len(received) + 1] = r
      /\ \A i \in 1 .. Len(received) : received'[i] = received[i]
  BY <1>1, <1>2
<1>6. Counted \in Nat /\ Counted < Len(received) + 1
  BY <1>2, <1>5 DEF Counted
<1> QED BY <1>1, <1>2, <1>3, <1>4, <1>5, <1>6, SampleTypes DEF r

\* A value received has a magnitude, and one that is stronger than the file's
\* numbers reach does not fit.
LEMMA StrongIsClipped ==
    ASSUME NEW r \in Places \X Raw24, sample_shift \in 0 .. 8
    PROVE  /\ Magnitude(r[2]) \in Nat /\ Clip \in Nat
           /\ Magnitude(r[2]) > Clip => ~Fits(r)
<1>1. r[2] \in Raw24 /\ r[2] \in Int
  BY MagnitudeFits DEF Raw24
<1>2. PICK p \in Nat \ {0} : p = 2^sample_shift
  BY PowersArePositive
<1>3. Highest \in Nat /\ Lowest = -(Highest + 1)
  BY SMT DEF Highest, Lowest
<1>4. Clip \in Nat /\ Lowest * 2^sample_shift = -Clip
  <2>1. (Highest + 1) * p \in Nat /\ Lowest * p = -((Highest + 1) * p)
    BY <1>2, <1>3
  <2> QED BY <1>2, <2>1 DEF Clip
<1>5. Magnitude(r[2]) \in Nat /\ Magnitude(r[2]) <= Abs(r[2]) /\ Abs(r[2]) \in Nat
  BY <1>1, MagnitudeFits
<1>6. ASSUME Magnitude(r[2]) > Clip PROVE ~Fits(r)
  <2>1. Abs(r[2]) > Clip
    BY <1>4, <1>5, <1>6
  <2>2. r[2] > Clip \/ r[2] < -Clip
    BY <1>1, <1>4, <2>1 DEF Abs
  <2>3. True(r) = r[2] \/ True(r) = -r[2]
    BY DEF True
  <2>4. True(r) > Clip \/ True(r) < -Clip
    BY <1>1, <1>4, <2>2, <2>3
  <2>5. True(r) \in Int
    BY <1>1, <2>3
  <2> QED BY <1>4, <2>4, <2>5 DEF Fits, Clip
<1> QED BY <1>4, <1>5, <1>6

\* The place and the bounds of the state the next lemmas speak of.
LEMMA Numbers ==
    ASSUME TypeOK
    PROVE  /\ sample_shift \in 0 .. 8 /\ received \in Seq(Places \X Raw24)
           /\ Len(received) \in Nat /\ Counted \in Nat /\ Counted <= Len(received)
           /\ pos \in Nat /\ Counted = Len(received) - pos
           /\ peak \in Nat /\ peak_sample \in Nat /\ Clip \in Nat /\ Clip >= 0
           /\ clipped \in Nat /\ total_clipped \in Nat
           /\ headroom_peak \in Nat /\ seen_peak \in Nat /\ seen_peak <= Counted
           /\ seen_clipped \in Nat /\ seen_clipped <= Counted
           /\ suggested \in 0 .. 8 /\ suggested <= sample_shift /\ clipped_shown \in Nat
<1>1. /\ sample_shift \in 0 .. 8 /\ received \in Seq(Places \X Raw24)
      /\ pos \in Nat /\ pos <= Len(received) /\ clipped \in Nat /\ total_clipped \in Nat
  BY PlaceOfValue, Constants DEF TypeOK, RxTypeOK
<1>2. peak \in Nat /\ peak_sample \in Nat /\ headroom_peak \in Nat
  BY ScaleIsBinned DEF TypeOK, RxTypeOK, PrintTypeOK
<1>3. Len(received) \in Nat /\ Counted \in Nat /\ Counted <= Len(received)
  BY <1>1 DEF Counted
<1>4. Clip \in Nat
  <2>1. PICK p \in Nat \ {0} : p = 2^sample_shift
    BY <1>1, PowersArePositive
  <2>2. Highest \in Nat
    BY SMT DEF Highest
  <2>3. (Highest + 1) * p \in Nat
    BY <2>1, <2>2
  <2> QED BY <2>1, <2>3 DEF Clip
<1>5. /\ seen_peak \in Nat /\ seen_peak <= Counted
      /\ seen_clipped \in Nat /\ seen_clipped <= Counted
      /\ suggested \in 0 .. 8 /\ suggested <= sample_shift /\ clipped_shown \in Nat
  BY <1>1, <1>3 DEF TypeOK, PrintTypeOK
<1> QED BY <1>1, <1>2, <1>3, <1>4, <1>5 DEF Counted

\* A value no stronger than a peak that has headroom fits ...
LEMMA WeakFits ==
    ASSUME NEW r \in Places \X Raw24, sample_shift \in 0 .. 8, NEW h \in Nat,
           Magnitude(r[2]) <= h, HasHeadroom(h, sample_shift)
    PROVE  Fits(r)
<1>1. PICK p \in Nat \ {0} : p = 2^sample_shift
  BY PowersArePositive
<1>2. Highest \in Nat /\ Lowest = -Highest - 1
  BY SMT DEF Highest, Lowest
<1>3. /\ r[2] \in Int /\ Magnitude(r[2]) \in Nat /\ Abs(r[2]) \in Nat
      /\ Abs(r[2]) = Magnitude(r[2]) \/ Magnitude(r[2]) = FullScale
  BY MagnitudeFits DEF Raw24
<1>4. h <= Highest * p /\ Highest * p < FullScale /\ Highest * p \in Nat /\ FullScale \in Nat
  <2>1. Highest * 2^sample_shift < FullScale /\ h <= Highest * 2^sample_shift
    BY ScaleHasNoHeadroom DEF HasHeadroom
  <2> QED BY <1>1, <1>2, <2>1, ScaleIsBinned
<1>5. Abs(r[2]) <= Highest * p
  BY <1>3, <1>4
<1>6. -(Highest * p) <= r[2] /\ r[2] <= Highest * p
  BY <1>3, <1>4, <1>5 DEF Abs
<1>7. True(r) = r[2] \/ True(r) = -r[2]
  BY DEF True
<1>8. Lowest * p = -(Highest * p) - p /\ (Highest + 1) * p = Highest * p + p
  BY <1>1, <1>2
<1>9. Lowest * p <= True(r) /\ True(r) < (Highest + 1) * p
  BY <1>1, <1>3, <1>4, <1>6, <1>7, <1>8
<1> QED BY <1>1, <1>9 DEF Fits

\* ... and one no stronger than a peak with a margin has that margin.
LEMMA WeakHasMargin ==
    ASSUME NEW r \in Places \X Raw24, NEW s \in 0 .. 8, NEW h \in Nat,
           Magnitude(r[2]) <= h, HasMargin(h, s)
    PROVE  10 * Abs(r[2]) <= Highest * 2^s
<1>1. PICK p \in Nat \ {0} : p = 2^s
  BY PowersArePositive
<1>2. Highest \in Nat
  BY SMT DEF Highest
<1>3. /\ Magnitude(r[2]) \in Nat /\ Abs(r[2]) \in Nat
      /\ Abs(r[2]) = Magnitude(r[2]) \/ Magnitude(r[2]) = FullScale
  BY MagnitudeFits
<1>4. /\ 10 * h <= Highest * p /\ Highest * p < FullScale
      /\ Highest * p \in Nat /\ FullScale \in Nat
  <2>1. Highest * 2^s < FullScale /\ 10 * h <= Highest * 2^s
    BY ScaleHasNoHeadroom DEF HasMargin
  <2> QED BY <1>1, <1>2, <2>1, ScaleIsBinned
<1>5. 10 * Abs(r[2]) <= Highest * p
  BY <1>3, <1>4
<1> QED BY <1>1, <1>5

\* A sample.
LEMMA SamplePeaks ==
    ASSUME TypeOK, Peaks, Clippings, NEW v \in Raw[Place], Sample(v)
    PROVE  Peaks' /\ Clippings'
<1> DEFINE r == <<Place, v>>
           n == Len(received) + 1
<1>1. /\ v \in Raw24 /\ r \in Places \X Raw24 /\ r[2] = v
      /\ Counted \in Nat /\ Counted' = Counted /\ Counted < n /\ n \in Nat
      /\ Len(received') = n /\ received'[n] = r
      /\ \A i \in 1 .. Len(received) : received'[i] = received[i]
      /\ clipped' = clipped + (IF Fits(r) THEN 0 ELSE 1)
      /\ peak' = Larger(Magnitude(v), peak) /\ added = {} /\ added' = {}
  BY NextValue, ValueReceived
<1>2. /\ sample_shift \in 0 .. 8 /\ peak \in Nat /\ peak_sample \in Nat /\ clipped \in Nat
      /\ Clip \in Nat /\ Len(received) \in Nat
  BY Numbers
<1>3. /\ total_clipped' = total_clipped /\ peak_sample' = peak_sample
      /\ sample_shift' = sample_shift /\ Clip' = Clip
  BY DEF Sample, statVars, cfgVars, Clip
<1>4. Magnitude(v) \in Nat /\ (Magnitude(v) > Clip => ~Fits(r))
  BY <1>1, <1>2, StrongIsClipped
<1> HIDE DEF r
<1>5. \A i \in 1 .. Len(received) :
         /\ (Strength(i))' = Strength(i)
         /\ (Fits(received[i]))' <=> Fits(received[i])
  BY <1>1, <1>3 DEF Strength, Fits, True
<1>6. \A i : i = n => (Strength(i))' = Magnitude(v) /\ ((Fits(received[i]))' <=> Fits(r))
  BY <1>1, <1>3 DEF Strength, Fits, True
<1>7. peak' >= peak /\ peak' >= Magnitude(v) /\ (peak' = peak \/ peak' = Magnitude(v))
  BY <1>1, <1>2, <1>4 DEF Larger
<1>8. \A i \in 1 .. Counted' : (Strength(i))' <= peak_sample'
  BY <1>1, <1>2, <1>3, <1>5 DEF Peaks
<1>9. \A i \in Counted' + 1 .. Len(received') : (Strength(i))' <= peak'
  <2> SUFFICES ASSUME NEW i \in Counted + 1 .. n PROVE (Strength(i))' <= peak'
    BY <1>1
  <2>1. CASE i = n
    BY <1>6, <1>7, <2>1
  <2>2. CASE i # n
    <3>1. i \in 1 .. Len(received) /\ i \in Counted + 1 .. Len(received)
      BY <1>1, <1>2, <2>2
    <3>2. Strength(i) <= peak /\ received[i] \in Places \X Raw24
      BY <3>1, Numbers DEF Peaks
    <3>3. Strength(i) \in Nat
      BY <1>2, <3>2, StrongIsClipped DEF Strength
    <3> QED BY <1>2, <1>4, <1>5, <1>7, <3>1, <3>2, <3>3
  <2> QED BY <2>1, <2>2
<1>10. peak' > Clip' => clipped' > 0
  BY <1>1, <1>2, <1>3, <1>4, <1>7 DEF Peaks
<1>11. peak_sample' > Clip' => total_clipped' > 0
  BY <1>1, <1>3 DEF Peaks
<1>12. Peaks'
  BY <1>1, <1>8, <1>9, <1>10, <1>11 DEF Peaks
<1>13. total_clipped' = 0 => \A i \in 1 .. Counted' : (Fits(received[i]))'
  BY <1>1, <1>2, <1>3, <1>5 DEF Clippings
<1>14. clipped' = 0 => \A i \in Counted' + 1 .. Len(received') : (Fits(received[i]))'
  <2> SUFFICES ASSUME clipped' = 0, NEW i \in Counted + 1 .. n PROVE (Fits(received[i]))'
    BY <1>1
  <2>1. clipped = 0 /\ Fits(r)
    BY <1>1, <1>2
  <2>2. CASE i = n
    BY <1>6, <2>1, <2>2
  <2>3. CASE i # n
    <3>1. i \in 1 .. Len(received) /\ i \in Counted + 1 .. Len(received)
      BY <1>1, <1>2, <2>3
    <3> QED BY <1>1, <1>5, <2>1, <3>1 DEF Clippings
  <2> QED BY <2>2, <2>3
<1>15. Clippings'
  BY <1>1, <1>13, <1>14 DEF Clippings
<1> QED BY <1>12, <1>15

\* The levels of the packet go into the totals, in either order, before they are
\* forgotten.
LEMMA AddingPeaks ==
    ASSUME TypeOK, Peaks, Clippings, Adding
    PROVE  Peaks' /\ Clippings'
<1>1. /\ received' = received /\ sample_shift' = sample_shift /\ Clip' = Clip
      /\ Len(received) \in Nat /\ pos \in Nat /\ Counted \in Nat /\ Counted <= Len(received)
      /\ peak \in Nat /\ peak_sample \in Nat /\ clipped \in Nat /\ total_clipped \in Nat
      /\ Clip \in Nat
  BY AddingTypes, Numbers DEF Clip
<1>2. \A i : (Strength(i))' = Strength(i) /\ ((Fits(received[i]))' <=> Fits(received[i]))
  BY <1>1 DEF Strength, Fits, True
<1>3. \A i \in 1 .. Len(received) : Strength(i) \in Nat
  <2> SUFFICES ASSUME NEW i \in 1 .. Len(received) PROVE Strength(i) \in Nat
    OBVIOUS
  <2>1. received[i] \in Places \X Raw24 /\ sample_shift \in 0 .. 8
    BY Numbers
  <2> QED BY <2>1, StrongIsClipped DEF Strength
<1>4. CASE AddClipped
  <2>1. /\ total_clipped' = total_clipped + clipped /\ added' = added \union {"clipped"}
        /\ Counted' = Counted /\ clipped' = clipped /\ peak' = peak
        /\ peak_sample' = peak_sample
    BY <1>4 DEF AddClipped, Counted
  <2>2. Peaks'
    BY <1>1, <1>2, <2>1 DEF Peaks
  <2>3. Clippings'
    BY <1>1, <1>2, <2>1 DEF Clippings
  <2> QED BY <2>2, <2>3
<1>5. CASE AddPeak
  <2>1. /\ peak_sample' = Larger(peak_sample, peak) /\ added' = added \union {"peak"}
        /\ Counted' = Counted /\ clipped' = clipped /\ peak' = peak
        /\ total_clipped' = total_clipped
    BY <1>5 DEF AddPeak, Counted, HigherPeak
  <2>2. /\ peak_sample' >= peak_sample /\ peak_sample' >= peak
        /\ peak_sample' = peak_sample \/ peak_sample' = peak
    BY <1>1, <2>1 DEF Larger
  <2>3. \A i \in 1 .. Counted : Strength(i) <= peak_sample'
    BY <1>1, <1>3, <2>2 DEF Peaks
  <2>4. peak_sample' > Clip => total_clipped > 0 \/ clipped > 0
    BY <1>1, <2>2 DEF Peaks
  <2>5. Peaks'
    BY <1>1, <1>2, <2>1, <2>2, <2>3, <2>4 DEF Peaks
  <2>6. Clippings'
    BY <1>1, <1>2, <2>1 DEF Clippings
  <2> QED BY <2>5, <2>6
<1>6. CASE NextPacket
  <2>1. /\ added = {"clipped", "peak"} /\ added' = {} /\ pos' = 0 /\ clipped' = 0
        /\ peak' = 0 /\ total_clipped' = total_clipped /\ peak_sample' = peak_sample
    BY <1>6 DEF NextPacket, statVars
  <2>2. Counted' = Len(received)
    BY <1>1, <2>1 DEF Counted
  <2>3. \A i \in 1 .. Len(received) : Strength(i) <= peak_sample
    <3> SUFFICES ASSUME NEW i \in 1 .. Len(received) PROVE Strength(i) <= peak_sample
      OBVIOUS
    <3>1. peak <= peak_sample
      BY <2>1 DEF Peaks
    <3>2. CASE i \in 1 .. Counted
      BY <3>2 DEF Peaks
    <3>3. CASE i \notin 1 .. Counted
      <4>1. i \in Counted + 1 .. Len(received)
        BY <1>1, <3>3
      <4>2. Strength(i) <= peak
        BY <4>1 DEF Peaks
      <4> QED BY <1>1, <1>3, <3>1, <4>2
    <3> QED BY <3>2, <3>3
  <2>4. peak_sample > Clip => total_clipped > 0
    BY <1>1, <2>1 DEF Peaks, Clippings
  <2>5. Peaks'
    BY <1>1, <1>2, <2>1, <2>2, <2>3, <2>4 DEF Peaks
  <2>6. total_clipped = 0 => \A i \in 1 .. Len(received) : Fits(received[i])
    <3> SUFFICES ASSUME total_clipped = 0, NEW i \in 1 .. Len(received)
                 PROVE  Fits(received[i])
      OBVIOUS
    <3>1. clipped = 0
      BY <1>1, <2>1 DEF Clippings
    <3>2. i \in 1 .. Counted \/ i \in Counted + 1 .. Len(received)
      BY <1>1
    <3> QED BY <3>1, <3>2 DEF Clippings
  <2>7. Clippings'
    BY <1>1, <1>2, <2>1, <2>2, <2>6 DEF Clippings
  <2> QED BY <2>5, <2>7
<1> QED BY <1>4, <1>5, <1>6 DEF Adding

\* What was reported stays right when the RX thread goes on: it speaks of the
\* values counted by then, and those do not change.
LEMMA ReportStays ==
    ASSUME TypeOK, ReportsAgree, UNCHANGED <<sample_shift, printVars>>,
           \A i \in 1 .. Len(received) : received'[i] = received[i]
    PROVE  ReportsAgree'
<1>1. /\ Len(received) \in Nat /\ seen_peak \in Nat /\ seen_clipped \in Nat
      /\ seen_peak <= Len(received) /\ seen_clipped <= Len(received)
  BY Numbers
<1>2. /\ \A i \in 1 .. seen_peak : received'[i] = received[i]
      /\ \A i \in 1 .. seen_clipped : received'[i] = received[i]
  BY <1>1
<1>3. UNCHANGED <<line, headroom_peak, suggested, clipped_shown, seen_peak, seen_clipped,
                  sample_shift>>
  BY DEF printVars
<1>4. \A r : (Fits(r))' <=> Fits(r)
  BY <1>3 DEF Fits, True
<1>5. (HasHeadroom(headroom_peak, sample_shift))' <=> HasHeadroom(headroom_peak, sample_shift)
  BY <1>3 DEF HasHeadroom
<1>6. Clip' = Clip
  BY <1>3 DEF Clip
<1> QED BY <1>2, <1>3, <1>4, <1>5, <1>6 DEF ReportsAgree, Fits, True

\* The RX thread takes nothing back that was printed.
LEMMA ReceivingShown ==
    ASSUME TypeOK, Clippings, Shown, Receiving
    PROVE  Shown'
<1>1. /\ clipped \in Nat /\ total_clipped \in Nat /\ headroom_peak \in Nat /\ Clip \in Nat
      /\ pos \in Nat
  BY Numbers
<1>2. CASE \E v \in Raw[Place] : Sample(v)
  <2>1. PICK v \in Raw[Place] : Sample(v)
    BY <1>2
  <2>2. /\ \A i \in 1 .. Len(received) : received'[i] = received[i]
        /\ added = {} /\ added' = {}
    BY <2>1, NextValue
  <2>3. UNCHANGED <<sample_shift, printVars, total_clipped>>
    BY <2>1 DEF Sample, cfgVars, statVars
  <2>4. ReportsAgree'
    BY <2>2, <2>3, ReportStays DEF Shown
  <2>5. UNCHANGED <<line, suggested, headroom_peak, sample_shift, total_clipped>> /\ Clip' = Clip
    BY <2>3 DEF printVars, Clip
  <2> QED BY <2>2, <2>4, <2>5 DEF Shown
<1>3. CASE Adding
  <2>1. received' = received /\ sample_shift' = sample_shift
    BY <1>3, AddingTypes
  <2>2. UNCHANGED printVars
    BY <1>3 DEF Adding, AddClipped, AddPeak, NextPacket
  <2>3. ReportsAgree'
    BY <2>1, <2>2, ReportStays DEF Shown
  <2>4. UNCHANGED <<line, suggested, headroom_peak, seen_peak, sample_shift>> /\ Clip' = Clip
    BY <2>1, <2>2 DEF printVars, Clip
  <2>5. headroom_peak > Clip =>
            \/ total_clipped' > 0
            \/ "peak" \in added' /\ clipped' > 0 /\ seen_peak = Counted'
    <3> SUFFICES ASSUME headroom_peak > Clip
                 PROVE  \/ total_clipped' > 0
                        \/ "peak" \in added' /\ clipped' > 0 /\ seen_peak = Counted'
      OBVIOUS
    <3>1. \/ total_clipped > 0
          \/ "peak" \in added /\ clipped > 0 /\ seen_peak = Counted
      BY DEF Shown
    <3>2. CASE AddClipped
      BY <1>1, <3>1, <3>2 DEF AddClipped
    <3>3. CASE AddPeak
      <4>1. /\ total_clipped' = total_clipped /\ clipped' = clipped
            /\ added' = added \union {"peak"} /\ Counted' = Counted
        BY <3>3 DEF AddPeak, Counted
      <4> QED BY <3>1, <4>1
    <3>4. CASE NextPacket
      <4>1. total_clipped' = total_clipped /\ "clipped" \in added
        BY <3>4 DEF NextPacket, statVars
      <4> QED BY <1>1, <3>1, <4>1 DEF Clippings
    <3> QED BY <1>3, <3>2, <3>3, <3>4 DEF Adding
  <2> QED BY <2>3, <2>4, <2>5 DEF Shown
<1> QED BY <1>2, <1>3 DEF Receiving, Adding

\* What is printed agrees with the values counted by then.
LEMMA PrintingShown ==
    ASSUME TypeOK, Peaks, Clippings, Shown, Printing
    PROVE  Shown'
<1>1. /\ sample_shift \in 0 .. 8 /\ received \in Seq(Places \X Raw24)
      /\ Len(received) \in Nat /\ Counted \in Nat /\ Counted <= Len(received)
      /\ peak_sample \in Nat /\ Clip \in Nat /\ clipped \in Nat /\ total_clipped \in Nat
      /\ headroom_peak \in Nat /\ seen_peak \in Nat /\ seen_peak <= Counted
      /\ suggested \in 0 .. 8
  BY Numbers
<1>2. UNCHANGED <<cfgVars, rxVars>> /\ Counted' = Counted
  BY PrintingTypes
<1>3. /\ UNCHANGED <<sample_shift, received, total_clipped, clipped, added>>
      /\ Clip' = Clip
  BY <1>2 DEF cfgVars, rxVars, packetVars, statVars, Clip
<1>4. \A r : (Fits(r))' <=> Fits(r)
  BY <1>3 DEF Fits, True
<1>5. \A i \in 1 .. Counted :
          Magnitude(received[i][2]) <= peak_sample /\ received[i] \in Places \X Raw24
  BY <1>1 DEF Peaks, Strength
<1>6. CASE PrintPeak
  <2>1. /\ UNCHANGED <<headroom_peak, suggested, clipped_shown, seen_peak, seen_clipped>>
        /\ line = "peak" /\ line' # "printed"
    BY <1>6 DEF PrintPeak
  <2>2. ReportsAgree'
    BY <1>3, <2>1 DEF Shown, ReportsAgree, HasHeadroom, Fits, True
  <2> QED BY <1>2, <1>3, <2>1, <2>2 DEF Shown
<1>7. CASE PrintHeadroom
  <2>1. /\ headroom_peak' = peak_sample /\ seen_peak' = Counted /\ line' = "suggest"
        /\ suggested' = suggested /\ suggested = sample_shift
    BY <1>7 DEF PrintHeadroom, Shown
  <2>2. ASSUME HasHeadroom(peak_sample, sample_shift), NEW i \in 1 .. Counted
        PROVE  Fits(received[i])
    BY <1>1, <1>5, <2>2, WeakFits
  <2>3. (HasHeadroom(headroom_peak, sample_shift))' =>
            HasHeadroom(peak_sample, sample_shift)
    BY <1>3, <2>1 DEF HasHeadroom
  <2>4. (\A i \in 1 .. seen_peak : Fits(received[i]))'
            <=> \A i \in 1 .. Counted : Fits(received[i])
    BY <1>3, <2>1 DEF Fits, True
  <2>5. (suggested < sample_shift)' <=> FALSE
    BY <1>1, <1>3, <2>1
  <2>6. ReportsAgree'
    BY <2>1, <2>2, <2>3, <2>4, <2>5 DEF ReportsAgree
  <2>7. peak_sample > Clip => total_clipped > 0 \/ ("peak" \in added /\ clipped > 0)
    BY DEF Peaks
  <2> QED BY <1>2, <1>3, <2>1, <2>6, <2>7 DEF Shown
<1>8. CASE SuggestLower
  <2>1. /\ suggested' = suggested - 1 /\ suggested > 0 /\ line = "suggest"
        /\ HasMargin(peak_sample, suggested - 1)
        /\ UNCHANGED <<line, headroom_peak, clipped_shown, seen_peak, seen_clipped>>
    BY <1>8 DEF SuggestLower, MarginBelow
  <2>2. ASSUME NEW i \in 1 .. seen_peak
        PROVE  10 * Abs(received[i][2]) <= Highest * 2^(suggested - 1)
    <3>1. i \in 1 .. Counted /\ suggested - 1 \in 0 .. 8
      BY <1>1, <2>1
    <3> QED BY <1>1, <1>5, <2>1, <3>1, WeakHasMargin
  <2>3. (\A i \in 1 .. seen_peak : 10 * Abs(received[i][2]) <= Highest * 2^suggested)'
    BY <1>3, <2>1, <2>2
  <2>4. (HasHeadroom(headroom_peak, sample_shift) => \A i \in 1 .. seen_peak : Fits(received[i]))'
    BY <1>3, <2>1 DEF Shown, ReportsAgree, HasHeadroom, Fits, True
  <2>5. ReportsAgree'
    BY <2>1, <2>3, <2>4 DEF ReportsAgree
  <2> QED BY <1>2, <1>3, <2>1, <2>5 DEF Shown
<1>9. CASE SuggestDone
  <2>1. /\ UNCHANGED <<headroom_peak, suggested, clipped_shown, seen_peak, seen_clipped>>
        /\ line' = "clipped"
    BY <1>9 DEF SuggestDone
  <2>2. ReportsAgree'
    BY <1>3, <2>1 DEF Shown, ReportsAgree, HasHeadroom, Fits, True
  <2> QED BY <1>2, <1>3, <2>1, <2>2 DEF Shown
<1>10. CASE PrintClipped
  <2>1. /\ clipped_shown' = total_clipped /\ seen_clipped' = Counted /\ line' = "printed"
        /\ UNCHANGED <<headroom_peak, suggested, seen_peak>>
    BY <1>10 DEF PrintClipped
  <2>2. total_clipped = 0 => \A i \in 1 .. Counted : Fits(received[i])
    BY DEF Clippings
  <2>3. total_clipped = 0 /\ headroom_peak > Clip => seen_peak = Counted
    BY DEF Shown
  <2>4. /\ (HasHeadroom(headroom_peak, sample_shift) =>
                \A i \in 1 .. seen_peak : Fits(received[i]))'
        /\ (suggested < sample_shift =>
                \A i \in 1 .. seen_peak :
                    10 * Abs(received[i][2]) <= Highest * 2^suggested)'
    BY <1>3, <2>1 DEF Shown, ReportsAgree, HasHeadroom, Fits, True
  <2>5. (\A i \in 1 .. seen_clipped : Fits(received[i]))'
            <=> \A i \in 1 .. Counted : Fits(received[i])
    BY <1>3, <2>1 DEF Fits, True
  <2>6. ReportsAgree'
    BY <1>3, <2>1, <2>2, <2>3, <2>4, <2>5 DEF ReportsAgree
  <2> QED BY <1>2, <1>3, <2>1, <2>6 DEF Shown
<1> QED BY <1>6, <1>7, <1>8, <1>9, <1>10 DEF Printing

\* Before anything is received.
LEMMA InitPeaks == Init => Peaks /\ Clippings /\ Shown
<1> SUFFICES ASSUME Init PROVE Peaks /\ Clippings /\ Shown
  OBVIOUS
<1>1. Len(received) = 0 /\ Counted = 0 /\ seen_peak = 0 /\ seen_clipped = 0
  BY DEF Init, Counted
<1>2. Clip \in Nat
  BY InitTypes, Numbers
<1>3. Peaks
  BY <1>1, <1>2 DEF Init, Peaks
<1>4. Clippings
  BY <1>1 DEF Init, Clippings
<1>5. suggested = sample_shift /\ sample_shift \in Nat /\ headroom_peak = 0
      /\ line = "peak"
  BY Constants DEF Init
<1>6. Shown
  BY <1>1, <1>2, <1>5 DEF Shown, ReportsAgree
<1> QED BY <1>3, <1>4, <1>6

\* Every step keeps the three.
LEMMA StepPeaks ==
    TypeOK /\ Peaks /\ Clippings /\ Shown /\ [Next]_vars => Peaks' /\ Clippings' /\ Shown'
<1> SUFFICES ASSUME TypeOK, Peaks, Clippings, Shown, [Next]_vars
             PROVE  Peaks' /\ Clippings' /\ Shown'
  OBVIOUS
<1>1. ASSUME UNCHANGED <<cfgVars, rxVars>> PROVE Peaks' /\ Clippings'
  <2>1. /\ UNCHANGED <<received, pos, added, clipped, peak, peak_sample, total_clipped,
                       sample_shift>>
        /\ Counted' = Counted /\ Clip' = Clip
    BY <1>1 DEF cfgVars, rxVars, packetVars, statVars, Counted, Clip
  <2> QED BY <2>1 DEF Peaks, Clippings, Strength, Fits, True
<1>2. CASE Receiving
  <2>1. (\E v \in Raw[Place] : Sample(v)) \/ Adding
    BY <1>2 DEF Receiving, Adding
  <2> QED BY <1>2, <2>1, SamplePeaks, AddingPeaks, ReceivingShown
<1>3. CASE Printing
  BY <1>1, <1>3, PrintingTypes, PrintingShown
<1>4. CASE UNCHANGED vars
  <2>1. UNCHANGED <<cfgVars, rxVars>> /\ UNCHANGED printVars
    BY <1>4 DEF vars
  <2>2. /\ UNCHANGED <<received, pos, added, clipped, total_clipped, sample_shift, line,
                       headroom_peak, suggested, seen_peak>>
        /\ Counted' = Counted /\ Clip' = Clip
    BY <2>1 DEF cfgVars, rxVars, packetVars, statVars, printVars, Counted, Clip
  <2>3. ReportsAgree'
    BY <2>1, <2>2, ReportStays DEF Shown
  <2> QED BY <1>1, <2>1, <2>2, <2>3 DEF Shown
<1> QED BY <1>2, <1>3, <1>4 DEF Next

\* Whenever the levels are printed, beside an RX thread that goes on counting,
\* and whichever of the two updates of a packet is seen first: headroom and a
\* smaller shift are reported only if every value counted by then agrees, "none"
\* clipped only if none was, and a peak that contradicts it is that of the one
\* packet being counted (stats.c:62-65, 92-115, 161-168,
\* hpsdr-recorder.c:194).
THEOREM LevelsAgree == Spec => []ReportsAgree
<1>1. Init => TypeOK /\ Peaks /\ Clippings /\ Shown
  BY InitTypes, InitPeaks
<1>2. TypeOK /\ Peaks /\ Clippings /\ Shown /\ [Next]_vars =>
          TypeOK' /\ Peaks' /\ Clippings' /\ Shown'
  BY StepTypes, StepPeaks
<1>3. Shown => ReportsAgree
  BY DEF Shown
<1> QED BY <1>1, <1>2, <1>3, PTL DEF Spec
=============================================================================
