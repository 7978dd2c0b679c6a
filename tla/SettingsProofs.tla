--------------------------- MODULE SettingsProofs ---------------------------
(***************************************************************************)
(* The settings stay in range and the radio is tuned to the nearest step,  *)
(* for any file and any options.                                           *)
(***************************************************************************)
EXTENDS SettingsProps, SequenceTheorems, TLAPS

-----------------------------------------------------------------------------
(* The tuning *)

\* The rounding of ddc_phase_word(): for every frequency the word is the
\* nearest one.
LEMMA PhaseWordNearest ==
    ASSUME NEW f \in Nat
    PROVE  WordIsNearest(PhaseWord(f), f)
<1> DEFINE r == f % 1875
           q == (131072 * r + 1875) \div 3750
<1>1. r \in 0..1874
  OBVIOUS
<1>2. q \in Int /\ 3750 * q <= 131072 * r + 1875 /\ 131072 * r + 1875 < 3750 * q + 3750
  BY <1>1
<1>3. f \div 1875 \in Int
  OBVIOUS
<1>4. PhaseWord(f) - 65536 * (f \div 1875) = q
  BY <1>2, <1>3 DEF PhaseWord
<1> QED BY <1>1, <1>2, <1>4 DEF WordIsNearest

\* A frequency corrected is not negative.
LEMMA CorrectedIsNatural ==
    ASSUME NEW f \in Int, NEW c \in Int
    PROVE  Corrected(f, c) \in Nat
BY DEF Corrected

\* So whatever word ddc_phase_word() returns tunes to a frequency below the clock.
LEMMA WordsTune ==
    ASSUME NEW f \in Int, NEW c \in Int, NEW w \in ddc_phase_word(f, c)
    PROVE  TunedTo(w, Corrected(f, c))
<1> SUFFICES ASSUME Corrected(f, c) < Clock
             PROVE  WordIsNearest(w, Corrected(f, c))
  BY DEF TunedTo
<1>1. w = PhaseWord(Corrected(f, c))
  BY DEF ddc_phase_word
<1> QED BY <1>1, CorrectedIsNatural, PhaseWordNearest

\* Both receivers are tuned to the nearest phase word in every packet sent,
\* for any frequencies that come, corrected, below the clock.
THEOREM TuningIsExact == Spec => []TunedExactly
<1> DEFINE Known == settings \in Settings /\ packet \in {NoPacket} \union Contents(settings)
<1>1. Init => Known
  BY DEF Init
<1>2. Known /\ [Next]_vars => Known'
  BY DEF vars, Next, hpsdr_configure_high_priority, Contents, Alex0, Alex1
<1>3. Known => TunedExactly
  <2> SUFFICES ASSUME Known, Sent
               PROVE  TunedExactly
    BY DEF TunedExactly
  <2>1. packet \in Contents(settings)
    BY DEF Sent
  <2>2. /\ settings.freq1_hz \in Int /\ settings.freq2_hz \in Int
        /\ settings.freq_correction \in Int
    BY TuningAssumption DEF TuningAssumption, Settings
  <2>3. /\ packet.phase0 \in ddc_phase_word(settings.freq1_hz, settings.freq_correction)
        /\ packet.phase1 \in ddc_phase_word(settings.freq2_hz, settings.freq_correction)
    BY <2>1 DEF Contents
  <2> QED BY <2>2, <2>3, WordsTune DEF TunedExactly
<1> QED BY <1>1, <1>2, <1>3, PTL DEF Spec

-----------------------------------------------------------------------------
(* The settings *)

Tunings == {"freq1_hz", "freq2_hz", "freq_correction"}
Keys    == DOMAIN Limits \union Tunings \union {"rx_antenna"}
Jacks   == MainJack \union ReceiveJack

\* The inductive invariant: the settings are in range, the frequencies are
\* numbers, and a packet that was made was made from these very settings.
ConfigInv ==
    /\ Keys \subseteq DOMAIN settings
    /\ SettingsInRange
    /\ \A k \in Tunings : IsInt(settings[k])
    /\ settings["rx_antenna"] \in Jacks
    /\ packet # NoPacket => phase = "configured" /\ packet \in Contents(settings)

\* The keys that are limited, those that tune, and the others.
LEMMA KeysApart ==
    /\ DOMAIN Limits = {"attenuation", "sample_shift", "socket_buffer_mb", "streaming_time"}
    /\ Keys \subseteq DOMAIN Defaults
    /\ \A k \in Tunings : k \notin DOMAIN Limits
    /\ \A k \in DOMAIN Limits \union Tunings :
           k \notin {"rx_antenna", "diversity", "alex_new_pa_board"}
    /\ "rx_antenna" \notin DOMAIN Limits
BY DEF Limits, Keys, Tunings, Defaults

\* Every limit leaves a range of numbers.
LEMMA LimitsAreRanges ==
    ASSUME NEW k \in DOMAIN Limits
    PROVE  Limits[k][1] \in Int /\ Limits[k][2] \in Int /\ Limits[k][1] <= Limits[k][2]
BY DEF Limits

\* A number clamped is in range.
LEMMA ClampInRange ==
    ASSUME NEW v \in Int, NEW lo \in Int, NEW hi \in Int, lo <= hi
    PROVE  Clamp(v, lo, hi) \in lo .. hi
BY DEF Clamp

\* A line or an option leaves the settings in range.
LEMMA AssignInRange ==
    ASSUME ConfigInv, NEW key, NEW v, key # "rx_antenna" => IsInt(v), Assign(key, v)
    PROVE  /\ Keys \subseteq DOMAIN settings'
           /\ SettingsInRange'
           /\ \A k \in Tunings : IsInt(settings'[k])
           /\ settings'["rx_antenna"] \in Jacks
<1>1. /\ DOMAIN settings' = DOMAIN settings
      /\ \A k \in DOMAIN settings :
             settings'[k] = IF k \in Sets(key) THEN Becomes(settings[k], key, v)
                                               ELSE settings[k]
  BY DEF Assign
<1>2. Keys \subseteq DOMAIN settings /\ Keys \subseteq DOMAIN settings'
  BY <1>1 DEF ConfigInv
<1>3. ASSUME NEW k \in DOMAIN Limits
      PROVE  settings'[k] \in Limits[k][1] .. Limits[k][2]
  <2>1. k \in DOMAIN settings /\ settings[k] \in Limits[k][1] .. Limits[k][2]
    BY <1>2 DEF ConfigInv, SettingsInRange, Keys
  <2>2. CASE k \notin Sets(key)
    BY <1>1, <2>1, <2>2
  <2>3. CASE k \in Sets(key)
    <3>1. key = k
      BY <2>3, KeysApart DEF Sets, Tunings
    <3>2. settings'[k] = Clamp(v, Limits[k][1], Limits[k][2])
      <4>1. key \in DOMAIN Limits
            /\ key \notin {"rx_antenna", "diversity", "alex_new_pa_board"}
        BY <3>1, KeysApart DEF Keys
      <4>2. Becomes(settings[k], key, v) = Clamp(v, Limits[key][1], Limits[key][2])
        BY <4>1 DEF Becomes
      <4> QED BY <1>1, <2>1, <2>3, <3>1, <4>2
    <3>3. v \in Int
      BY <3>1, KeysApart, SMT DEF IsInt
    <3> QED BY <3>2, <3>3, LimitsAreRanges, ClampInRange
  <2> QED BY <2>2, <2>3
<1>4. ASSUME NEW k \in Tunings
      PROVE  IsInt(settings'[k])
  <2>1. k \in DOMAIN settings /\ IsInt(settings[k])
    BY <1>2 DEF ConfigInv, Keys
  <2>2. CASE k \notin Sets(key)
    BY <1>1, <2>1, <2>2
  <2>3. CASE k \in Sets(key)
    <3>1. key \in Tunings \union {"frequency"}
      BY <2>3 DEF Sets, Tunings
    <3>2. key \notin DOMAIN Limits
          /\ key \notin {"rx_antenna", "diversity", "alex_new_pa_board"}
      BY <3>1, KeysApart DEF Keys, Tunings
    <3>3. Becomes(settings[k], key, v) = v
      BY <3>2 DEF Becomes
    <3> QED BY <1>1, <2>1, <2>3, <3>2, <3>3
  <2> QED BY <2>2, <2>3
<1>5. settings'["rx_antenna"] \in Jacks
  <2>1. "rx_antenna" \in DOMAIN settings /\ settings["rx_antenna"] \in Jacks
    BY <1>2 DEF ConfigInv, Keys
  <2>2. CASE key # "rx_antenna"
    BY <1>1, <2>1, <2>2 DEF Sets
  <2>3. CASE key = "rx_antenna"
    <3>1. Becomes(settings["rx_antenna"], key, v)
              = IF v \in Jacks THEN v ELSE settings["rx_antenna"]
      BY <2>3, KeysApart DEF Becomes, Jacks
    <3> QED BY <1>1, <2>1, <2>3, <3>1
  <2> QED BY <2>2, <2>3
<1> QED BY <1>2, <1>3, <1>4, <1>5 DEF SettingsInRange

\* The defaults are in range.
LEMMA InitConfig == ConfigInit => ConfigInv
<1> SUFFICES ASSUME ConfigInit PROVE ConfigInv
  OBVIOUS
<1>1. settings = Defaults /\ packet = NoPacket
  BY DEF ConfigInit
<1>2. SettingsInRange
  BY <1>1 DEF SettingsInRange, Defaults, Limits
<1>3. \A k \in Tunings : IsInt(settings[k])
  BY <1>1, SMT DEF Tunings, Defaults, IsInt
<1>4. settings["rx_antenna"] \in Jacks
  BY <1>1 DEF Defaults, Jacks, MainJack
<1> QED BY <1>1, <1>2, <1>3, <1>4, KeysApart DEF ConfigInv

\* A setting is taken into its range or refused, wherever it is read.
LEMMA StepConfig == ConfigInv /\ [ConfigNext]_cvars => ConfigInv'
<1> SUFFICES ASSUME ConfigInv, [ConfigNext]_cvars PROVE ConfigInv'
  OBVIOUS
<1>1. CASE FindFile \/ FileRead \/ OptionsRead
  <2>1. UNCHANGED <<settings, packet>> /\ phase # "configured"
    BY <1>1 DEF FindFile, FileRead, OptionsRead
  <2> QED BY <2>1 DEF ConfigInv, SettingsInRange
<1>2. CASE \/ \E l \in Lines : ReadLine(l[1], l[2])
           \/ \E o \in Options : Option(o[1], o[2])
  <2>1. PICK l \in Lines \union Options : ReadLine(l[1], l[2]) \/ Option(l[1], l[2])
    BY <1>2
  <2>2. Assign(l[1], l[2]) /\ packet' = packet /\ phase # "configured"
    BY <2>1 DEF ReadLine, Option
  <2>3. l[1] # "rx_antenna" => IsInt(l[2])
    BY ConfigAssumption DEF ConfigAssumption
  <2>4. /\ Keys \subseteq DOMAIN settings'
        /\ SettingsInRange'
        /\ \A k \in Tunings : IsInt(settings'[k])
        /\ settings'["rx_antenna"] \in Jacks
    BY <2>2, <2>3, AssignInRange
  <2> QED BY <2>2, <2>4 DEF ConfigInv
<1>3. CASE Configure
  <2>1. settings' = settings /\ phase' = "configured" /\ packet' \in Contents(settings)
        /\ phase' = phase
    BY <1>3 DEF Configure, hpsdr_configure_high_priority
  <2>2. Contents(settings)' = Contents(settings)
    BY <2>1 DEF Contents, Alex0, Alex1, LpfFrequency, Routing
  <2> QED BY <2>1, <2>2 DEF ConfigInv, SettingsInRange
<1>4. CASE UNCHANGED cvars
  BY <1>4 DEF cvars, ConfigInv, SettingsInRange, Contents, Alex0, Alex1, LpfFrequency, Routing
<1> QED BY <1>1, <1>2, <1>3, <1>4 DEF ConfigNext

\* So the configuration is in range at all times.
LEMMA ConfigInvariance == ConfigSpec => []ConfigInv
BY InitConfig, StepConfig, PTL DEF ConfigSpec

\* Whatever numbers a file and a command line give, in whatever order, the
\* settings that index, shift and size things stay in range (config.c:65-74).
THEOREM RangesHold == ConfigSpec => []SettingsInRange
<1>1. ConfigInv => SettingsInRange
  BY DEF ConfigInv
<1> QED BY <1>1, ConfigInvariance, PTL

\* The packet made of them tunes both receivers to the nearest step
\* (hpsdr-protocol2.c, ddc_phase_word()).
THEOREM ConfiguredTuningIsExact == ConfigSpec => []TunedExactly
<1>1. ConfigInv => TunedExactly
  <2> SUFFICES ASSUME ConfigInv, Sent
               PROVE  TunedExactly
    BY DEF TunedExactly
  <2>1. packet \in Contents(settings)
    BY DEF Sent, ConfigInv
  <2>2. /\ settings.freq1_hz \in Int /\ settings.freq2_hz \in Int
        /\ settings.freq_correction \in Int
    BY SMT DEF ConfigInv, Tunings, IsInt
  <2>3. /\ packet.phase0 \in ddc_phase_word(settings.freq1_hz, settings.freq_correction)
        /\ packet.phase1 \in ddc_phase_word(settings.freq2_hz, settings.freq_correction)
    BY <2>1 DEF Contents
  <2> QED BY <2>2, <2>3, WordsTune DEF TunedExactly
<1> QED BY <1>1, ConfigInvariance, PTL

-----------------------------------------------------------------------------
(* The filters *)

\* There is a high-pass for every frequency, and it does not cut it off.
LEMMA HighPassPasses ==
    ASSUME NEW f \in Int
    PROVE  HighPass(f) \in Hpf /\ (Corner[HighPass(f)] <= f \/ f < 0)
<1> DEFINE Right(h) == /\ HpfFrom[h] <= f \/ h = "BYPASS_HPF"
                       /\ \A o \in Hpf : HpfFrom[o] <= f => HpfFrom[o] <= HpfFrom[h]
<1>1. Hpf = {"BYPASS_HPF", "HPF_1_5MHZ", "HPF_6_5MHZ", "HPF_9_5MHZ", "HPF_13MHZ",
             "HPF_20MHZ", "PREAMP_6M"}
  BY SMT DEF Hpf, HpfFrom
<1>2. \E h \in Hpf : Right(h)
  <2>1. CASE f < 1800000
    <3>1. Right("BYPASS_HPF")
      BY <1>1, <2>1, SMT DEF HpfFrom
    <3> QED BY <1>1, <3>1
  <2>2. CASE 1800000 <= f /\ f < 6500000
    <3>1. Right("HPF_1_5MHZ")
      BY <1>1, <2>2, SMT DEF HpfFrom
    <3> QED BY <1>1, <3>1
  <2>3. CASE 6500000 <= f /\ f < 9500000
    <3>1. Right("HPF_6_5MHZ")
      BY <1>1, <2>3, SMT DEF HpfFrom
    <3> QED BY <1>1, <3>1
  <2>4. CASE 9500000 <= f /\ f < 13000000
    <3>1. Right("HPF_9_5MHZ")
      BY <1>1, <2>4, SMT DEF HpfFrom
    <3> QED BY <1>1, <3>1
  <2>5. CASE 13000000 <= f /\ f < 20000000
    <3>1. Right("HPF_13MHZ")
      BY <1>1, <2>5, SMT DEF HpfFrom
    <3> QED BY <1>1, <3>1
  <2>6. CASE 20000000 <= f /\ f < 50000000
    <3>1. Right("HPF_20MHZ")
      BY <1>1, <2>6, SMT DEF HpfFrom
    <3> QED BY <1>1, <3>1
  <2>7. CASE 50000000 <= f
    <3>1. Right("PREAMP_6M")
      BY <1>1, <2>7, SMT DEF HpfFrom
    <3> QED BY <1>1, <3>1
  <2> QED BY <2>1, <2>2, <2>3, <2>4, <2>5, <2>6, <2>7
<1>3. HighPass(f) \in Hpf /\ Right(HighPass(f))
  BY <1>2 DEF HighPass
<1>4. \A h \in Hpf : Right(h) => Corner[h] <= f \/ f < 0
  BY <1>1, SMT DEF HpfFrom, Corner
<1> QED BY <1>3, <1>4

\* A low-pass is the one chosen if no lower one serves.
Fits(f, l) == /\ f <= LpfUpTo[l]
              /\ \A o \in Lpf : f <= LpfUpTo[o] => LpfUpTo[l] <= LpfUpTo[o]

\* The filters by name.
LEMMA LowPassNames ==
    Lpf = {"LPF_160", "LPF_80", "LPF_60_40", "LPF_30_20", "LPF_17_15", "LPF_12_10",
           "LPF_6_BYPASS"}
BY SMT DEF Lpf, LpfUpTo

\* Of two low-pass filters that fit neither is higher: they are the same.
LEMMA LowPassUnique ==
    ASSUME NEW f \in Int, NEW l \in Lpf, Fits(f, l)
    PROVE  LowPass(f) = l
<1>1. LowPass(f) \in Lpf /\ Fits(f, LowPass(f))
  BY DEF LowPass, Fits
<1>2. \A k, m \in Lpf : LpfUpTo[k] \in Int /\ (LpfUpTo[k] = LpfUpTo[m] => k = m)
  BY LowPassNames, SMT DEF LpfUpTo
<1> QED BY <1>1, <1>2 DEF Fits

\* There is a low-pass for every frequency an int can be.
LEMMA LowPassExists ==
    ASSUME NEW f \in Int, f <= 2147483647
    PROVE  LowPass(f) \in Lpf
<1>1. CASE f <= 2500000
  <2>1. "LPF_160" \in Lpf /\ Fits(f, "LPF_160")
    BY <1>1, LowPassNames, SMT DEF Fits, LpfUpTo
  <2> QED BY <2>1, LowPassUnique
<1>2. CASE 2500000 < f /\ f <= 5000000
  <2>1. "LPF_80" \in Lpf /\ Fits(f, "LPF_80")
    BY <1>2, LowPassNames, SMT DEF Fits, LpfUpTo
  <2> QED BY <2>1, LowPassUnique
<1>3. CASE 5000000 < f /\ f <= 8000000
  <2>1. "LPF_60_40" \in Lpf /\ Fits(f, "LPF_60_40")
    BY <1>3, LowPassNames, SMT DEF Fits, LpfUpTo
  <2> QED BY <2>1, LowPassUnique
<1>4. CASE 8000000 < f /\ f <= 16500000
  <2>1. "LPF_30_20" \in Lpf /\ Fits(f, "LPF_30_20")
    BY <1>4, LowPassNames, SMT DEF Fits, LpfUpTo
  <2> QED BY <2>1, LowPassUnique
<1>5. CASE 16500000 < f /\ f <= 24000000
  <2>1. "LPF_17_15" \in Lpf /\ Fits(f, "LPF_17_15")
    BY <1>5, LowPassNames, SMT DEF Fits, LpfUpTo
  <2> QED BY <2>1, LowPassUnique
<1>6. CASE 24000000 < f /\ f <= 35600000
  <2>1. "LPF_12_10" \in Lpf /\ Fits(f, "LPF_12_10")
    BY <1>6, LowPassNames, SMT DEF Fits, LpfUpTo
  <2> QED BY <2>1, LowPassUnique
<1>7. CASE 35600000 < f
  <2>1. "LPF_6_BYPASS" \in Lpf /\ Fits(f, "LPF_6_BYPASS")
    BY <1>7, LowPassNames, SMT DEF Fits, LpfUpTo
  <2> QED BY <2>1, LowPassUnique
<1> QED BY <1>1, <1>2, <1>3, <1>4, <1>5, <1>6, <1>7, SMT

\* In an amateur band the low-pass named for the band fits.
LEMMA BandFits ==
    ASSUME NEW f \in Int, NEW l \in Lpf, InBand(f, l)
    PROVE  Fits(f, l)
<1>1. CASE l = "LPF_160"
  BY <1>1, LowPassNames, SMT DEF InBand, Band, LpfUpTo, Fits
<1>2. CASE l = "LPF_80"
  BY <1>2, LowPassNames, SMT DEF InBand, Band, LpfUpTo, Fits
<1>3. CASE l = "LPF_60_40"
  BY <1>3, LowPassNames, SMT DEF InBand, Band, LpfUpTo, Fits
<1>4. CASE l = "LPF_30_20"
  BY <1>4, LowPassNames, SMT DEF InBand, Band, LpfUpTo, Fits
<1>5. CASE l = "LPF_17_15"
  BY <1>5, LowPassNames, SMT DEF InBand, Band, LpfUpTo, Fits
<1>6. CASE l = "LPF_12_10"
  BY <1>6, LowPassNames, SMT DEF InBand, Band, LpfUpTo, Fits
<1>7. CASE l = "LPF_6_BYPASS"
  BY <1>7, LowPassNames, SMT DEF InBand, Band, LpfUpTo, Fits
<1> QED BY <1>1, <1>2, <1>3, <1>4, <1>5, <1>6, <1>7, LowPassNames

\* The name of a high-pass filter is that of nothing else in an Alex word.
LEMMA FilterNamesApart ==
    ASSUME NEW s
    PROVE  /\ Hpf \intersect Lpf = {}
           /\ Hpf \intersect {"ANT1", "ANT2", "ANT3", "EXT1", "EXT2", "XVTR", "RX_BYPASS"} = {}
BY LowPassNames, SMT DEF Hpf, HpfFrom

\* The filters let through what is received, for whatever frequency a file or an
\* option gives (hpsdr-protocol2.c, hpsdr_configure_high_priority()).
THEOREM FiltersAlwaysPass == ConfigSpec => []FiltersPassTheSignal
<1>1. ConfigInv => FiltersPassTheSignal
  <2> SUFFICES ASSUME ConfigInv, Sent
               PROVE  FiltersPassTheSignal
    BY DEF FiltersPassTheSignal
  <2> DEFINE f == settings.freq1_hz
  <2>1. packet.alex0 = {HighPass(f), LowPass(LpfFrequency(settings))} \union Routing(settings)
    BY DEF Sent, ConfigInv, Contents, Alex0
  <2>2. f \in Int /\ f <= 2147483647 /\ settings.rx_antenna \in Jacks
    BY SMT DEF ConfigInv, Tunings, IsInt
  <2> HIDE DEF f
  <2>3. ASSUME NEW h \in Hpf \intersect packet.alex0
        PROVE  Corner[h] <= f \/ f < 0
    <3>1. CASE h = HighPass(f)
      BY <2>2, <3>1, HighPassPasses
    <3>2. CASE h = LowPass(LpfFrequency(settings))
      <4>1. LpfFrequency(settings) \in Int /\ LpfFrequency(settings) <= 2147483647
        BY <2>2, SMT DEF LpfFrequency, f
      <4>2. h \in Lpf
        BY <3>2, <4>1, LowPassExists
      <4> QED BY <4>2, FilterNamesApart
    <3>3. CASE h \in Routing(settings)
      <4>1. h \in MainJack \/ h \in {"ANT1", "RX_BYPASS"} \/ h = settings.rx_antenna
        BY <3>3 DEF Routing
      <4> QED BY <2>2, <4>1, FilterNamesApart DEF Jacks, MainJack, ReceiveJack
    <3> QED BY <2>1, <3>1, <3>2, <3>3
  <2>4. ASSUME settings.rx_antenna \in MainJack, NEW l \in Lpf, InBand(f, l)
        PROVE  l \in packet.alex0
    <3>1. LpfFrequency(settings) = f
      BY <2>4 DEF LpfFrequency, f
    <3>2. LowPass(f) = l
      BY <2>2, <2>4, BandFits, LowPassUnique
    <3> QED BY <2>1, <3>1, <3>2
  <2>5. ASSUME settings.rx_antenna \notin MainJack
        PROVE  "LPF_6_BYPASS" \in packet.alex0
    <3>1. LpfFrequency(settings) = 40000000
      BY <2>5 DEF LpfFrequency
    <3>2. "LPF_6_BYPASS" \in Lpf /\ Fits(40000000, "LPF_6_BYPASS")
      BY LowPassNames, SMT DEF Fits, LpfUpTo
    <3>3. LowPass(40000000) = "LPF_6_BYPASS"
      BY <3>2, LowPassUnique
    <3> QED BY <2>1, <3>1, <3>3
  <2> QED BY <2>3, <2>4, <2>5 DEF FiltersPassTheSignal, f
<1> QED BY <1>1, ConfigInvariance, PTL

-----------------------------------------------------------------------------
(* What was asked for *)

Followed == Tunings \union {"attenuation", "rx_antenna"}

\* What becomes of a value that is given for a setting.
Result(k, v) == IF k = "attenuation" THEN Clamp(v, 0, 31) ELSE v

\* The entries of g that say something about k, and the last of them.
Said(g, k) ==
    {i \in DOMAIN g : /\ g[i].key \in Naming(k)
                      /\ k = "rx_antenna" => g[i].val \in Jacks}
LatestIn(g, k, i) == i \in Said(g, k) /\ \A j \in Said(g, k) : j <= i

\* A setting is what the last entry about it makes of it, else the default.
Follows(g, k, s) ==
    \/ Said(g, k) = {} /\ s = Result(k, Defaults[k])
    \/ \E i \in DOMAIN g : LatestIn(g, k, i) /\ s = Result(k, g[i].val)

\* The inductive invariant: the file's entries come before the options, and
\* every setting follows what was read so far.
Given == Lines \union Options
Entry == {e \in [from : {"file", "options"}, key : {l[1] : l \in Given},
                 val : {l[2] : l \in Given}] :
              \E l \in Given : e.key = l[1] /\ e.val = l[2]}
AskedInv ==
    /\ given \in Seq(Entry)
    /\ phase \in {"arguments", "file"} => \A i \in DOMAIN given : given[i].from = "file"
    /\ \A i, j \in DOMAIN given :
           i <= j /\ given[i].from = "options" => given[j].from = "options"
    /\ \A k \in Followed : Follows(given, k, settings[k])

\* One more entry is said about the settings it names.
LEMMA SaidAppend ==
    ASSUME NEW g \in Seq(Entry), NEW e \in Entry, NEW k
    PROVE  /\ Append(g, e) \in Seq(Entry)
           /\ DOMAIN g = 1 .. Len(g) /\ Len(g) \in Nat
           /\ DOMAIN Append(g, e) = 1 .. Len(g) + 1
           /\ \A i \in DOMAIN g : Append(g, e)[i] = g[i]
           /\ Append(g, e)[Len(g) + 1] = e
           /\ Said(Append(g, e), k) =
                  Said(g, k) \union
                      (IF e.key \in Naming(k) /\ (k = "rx_antenna" => e.val \in Jacks)
                       THEN {Len(g) + 1} ELSE {})
<1> DEFINE h == Append(g, e)
<1>1. /\ h \in Seq(Entry) /\ DOMAIN g = 1 .. Len(g) /\ Len(g) \in Nat
      /\ DOMAIN h = 1 .. Len(g) + 1 /\ h[Len(g) + 1] = e
      /\ \A i \in DOMAIN g : h[i] = g[i]
  OBVIOUS
<1> HIDE DEF h
<1>2. /\ DOMAIN h = DOMAIN g \union {Len(g) + 1}
      /\ Len(g) + 1 \notin DOMAIN g
  BY <1>1
<1>3. Said(h, k) = Said(g, k) \union
                      (IF e.key \in Naming(k) /\ (k = "rx_antenna" => e.val \in Jacks)
                       THEN {Len(g) + 1} ELSE {})
  <2>1. \A i \in DOMAIN g : i \in Said(h, k) <=> i \in Said(g, k)
    BY <1>1, <1>2, Zenon DEF Said
  <2>2. Len(g) + 1 \in Said(h, k)
            <=> e.key \in Naming(k) /\ (k = "rx_antenna" => e.val \in Jacks)
    BY <1>1, <1>2, Zenon DEF Said
  <2>3. Said(h, k) \subseteq DOMAIN h /\ Said(g, k) \subseteq DOMAIN g
    BY DEF Said
  <2> QED BY <1>2, <2>1, <2>2, <2>3
<1> QED BY <1>1, <1>3 DEF h

\* A key sets what it names.
LEMMA SetsNamed ==
    ASSUME NEW k \in Followed, NEW key
    PROVE  k \in Sets(key) <=> key \in Naming(k)
BY DEF Followed, Tunings, Sets, Naming

\* What a setting that a key names becomes, unless nobody knows the antenna.
LEMMA BecomesResult ==
    ASSUME NEW k \in Followed, NEW key, key \in Naming(k), NEW old, NEW v
    PROVE  Becomes(old, key, v) = IF k = "rx_antenna" => v \in Jacks
                                  THEN Result(k, v) ELSE old
<1>1. CASE k = "attenuation"
  <2>1. key = "attenuation" /\ key \in DOMAIN Limits
        /\ Limits[key][1] = 0 /\ Limits[key][2] = 31
    BY <1>1 DEF Naming, Limits
  <2>2. key \notin {"rx_antenna", "diversity", "alex_new_pa_board"}
    BY <2>1
  <2> QED BY <1>1, <2>1, <2>2 DEF Becomes, Result
<1>2. CASE k = "rx_antenna"
  <2>1. key = "rx_antenna" /\ key \notin DOMAIN Limits
    BY <1>2, KeysApart DEF Naming
  <2> QED BY <1>2, <2>1 DEF Becomes, Result, Jacks
<1>3. CASE k \in Tunings
  <2>1. key \in Tunings \union {"frequency"}
    BY <1>3 DEF Naming, Tunings
  <2>2. key \notin DOMAIN Limits
        /\ key \notin {"rx_antenna", "diversity", "alex_new_pa_board"}
    BY <2>1, KeysApart DEF Keys, Tunings
  <2>3. k # "attenuation" /\ k # "rx_antenna"
    BY <1>3 DEF Tunings
  <2> QED BY <2>2, <2>3 DEF Becomes, Result
<1> QED BY <1>1, <1>2, <1>3 DEF Followed

\* A line or an option: what it names follows it, the rest what it followed.
LEMMA AssignFollows ==
    ASSUME given \in Seq(Entry), NEW k \in Followed, k \in DOMAIN settings,
           Follows(given, k, settings[k]), NEW key, NEW v, Assign(key, v),
           [from |-> phase, key |-> key, val |-> v] \in Entry
    PROVE  Follows(given', k, settings'[k])
<1> DEFINE e == [from |-> phase, key |-> key, val |-> v]
           n == Len(given) + 1
           Says == e.key \in Naming(k) /\ (k = "rx_antenna" => e.val \in Jacks)
<1>1. /\ given' = Append(given, e) /\ e.key = key /\ e.val = v
      /\ settings'[k] = IF k \in Sets(key) THEN Becomes(settings[k], key, v)
                                           ELSE settings[k]
  BY DEF Assign
<1> HIDE DEF e
<1>2. /\ DOMAIN given = 1 .. Len(given) /\ Len(given) \in Nat
      /\ DOMAIN given' = 1 .. n
      /\ \A i \in DOMAIN given : given'[i] = given[i]
      /\ given'[n] = e
      /\ Said(given', k) = Said(given, k) \union (IF Says THEN {n} ELSE {})
  BY <1>1, SaidAppend DEF e
<1>3. CASE Says
  <2>1. settings'[k] = Result(k, given'[n].val)
    BY <1>1, <1>2, <1>3, SetsNamed, BecomesResult
  <2>2. Said(given, k) \subseteq 1 .. Len(given) /\ n \in DOMAIN given'
    BY <1>2 DEF Said
  <2>3. LatestIn(given', k, n)
    BY <1>2, <1>3, <2>2 DEF LatestIn
  <2> QED BY <2>1, <2>2, <2>3 DEF Follows
<1>4. CASE ~Says
  <2>1. settings'[k] = settings[k]
    BY <1>1, <1>4, SetsNamed, BecomesResult
  <2>2. Said(given', k) = Said(given, k)
    BY <1>2, <1>4
  <2>3. ASSUME NEW i \in DOMAIN given, LatestIn(given, k, i)
        PROVE  i \in DOMAIN given' /\ LatestIn(given', k, i) /\ given'[i] = given[i]
    BY <1>2, <2>2, <2>3 DEF LatestIn
  <2> QED BY <2>1, <2>2, <2>3 DEF Follows
<1> QED BY <1>3, <1>4

\* Nobody has asked for anything but the defaults.
LEMMA InitAsked == ConfigInit => AskedInv
<1> SUFFICES ASSUME ConfigInit PROVE AskedInv
  OBVIOUS
<1>1. given = <<>> /\ given \in Seq(Entry) /\ DOMAIN given = {} /\ settings = Defaults
  BY DEF ConfigInit
<1>2. ASSUME NEW k \in Followed
      PROVE  Follows(given, k, settings[k])
  <2>1. Said(given, k) = {}
    BY <1>1 DEF Said
  <2>2. CASE k = "attenuation"
    <3>1. Defaults[k] = 0 /\ Clamp(0, 0, 31) = 0
      BY <2>2 DEF Defaults, Clamp
    <3> QED BY <1>1, <2>1, <2>2, <3>1 DEF Follows, Result
  <2>3. CASE k # "attenuation"
    BY <1>1, <2>1, <2>3 DEF Follows, Result
  <2> QED BY <2>2, <2>3
<1> QED BY <1>1, <1>2 DEF AskedInv

\* Each setting read is the last that was said of its key.
LEMMA StepAsked == ConfigInv /\ AskedInv /\ [ConfigNext]_cvars => AskedInv'
<1> SUFFICES ASSUME ConfigInv, AskedInv, [ConfigNext]_cvars PROVE AskedInv'
  OBVIOUS
<1>1. CASE FindFile \/ FileRead \/ OptionsRead \/ Configure \/ UNCHANGED cvars
  <2>1. UNCHANGED <<settings, given>>
        /\ (phase' \in {"arguments", "file"} => phase \in {"arguments", "file"})
    BY <1>1 DEF FindFile, FileRead, OptionsRead, Configure, cvars,
                hpsdr_configure_high_priority
  <2> QED BY <2>1 DEF AskedInv
<1>2. CASE \/ \E l \in Lines : ReadLine(l[1], l[2])
           \/ \E o \in Options : Option(o[1], o[2])
  <2>1. PICK l \in Lines \union Options : ReadLine(l[1], l[2]) \/ Option(l[1], l[2])
    BY <1>2
  <2> DEFINE e == [from |-> phase, key |-> l[1], val |-> l[2]]
  <2>2. /\ Assign(l[1], l[2]) /\ phase \in {"file", "options"} /\ phase' = phase
        /\ given' = Append(given, e)
    BY <2>1 DEF ReadLine, Option, Assign
  <2>3. given \in Seq(Entry) /\ e \in Entry /\ e.from = phase
    <3>1. phase \in {"file", "options"} /\ l \in Lines \union Options
      BY <2>2
    <3>2. e \in Entry
      BY <3>1 DEF Entry, Given
    <3> QED BY <3>2 DEF AskedInv
  <2>4. ASSUME NEW k \in Followed
        PROVE  Follows(given', k, settings'[k])
    <3>1. k \in DOMAIN settings
      BY DEF Followed, ConfigInv, Keys, Limits
    <3>2. Follows(given, k, settings[k])
      BY DEF AskedInv
    <3> QED BY <2>2, <2>3, <3>1, <3>2, AssignFollows
  <2> HIDE DEF e
  <2>5. /\ DOMAIN given = 1 .. Len(given) /\ Len(given) \in Nat
        /\ DOMAIN given' = 1 .. Len(given) + 1 /\ given' \in Seq(Entry)
        /\ \A i \in DOMAIN given : given'[i] = given[i]
        /\ given'[Len(given) + 1] = e
    BY <2>2, <2>3, SaidAppend
  <2>6. \A i \in DOMAIN given' : i \in DOMAIN given \/ i = Len(given) + 1
    BY <2>5
  <2>7. phase' \in {"arguments", "file"} =>
            \A i \in DOMAIN given' : given'[i].from = "file"
    BY <2>2, <2>3, <2>5, <2>6 DEF AskedInv
  <2>8. ASSUME NEW i \in DOMAIN given', NEW j \in DOMAIN given',
               i <= j, given'[i].from = "options"
        PROVE  given'[j].from = "options"
    <3>1. CASE phase = "options"
      <4>1. CASE j \in DOMAIN given
        <5>1. i \in DOMAIN given
          BY <2>5, <2>8, <4>1
        <5> QED BY <2>5, <2>8, <4>1, <5>1 DEF AskedInv
      <4>2. CASE j = Len(given) + 1
        BY <2>3, <2>5, <3>1, <4>2
      <4> QED BY <2>6, <4>1, <4>2
    <3>2. CASE phase = "file"
      BY <2>2, <2>7, <2>8, <3>2
    <3> QED BY <2>2, <3>1, <3>2
  <2> QED BY <2>4, <2>5, <2>7, <2>8 DEF AskedInv
<1> QED BY <1>1, <1>2 DEF ConfigNext

\* So the configuration is as asked at all times.
LEMMA AskedInvariance == ConfigSpec => []AskedInv
BY InitAsked, StepAsked, ConfigInvariance, PTL DEF ConfigSpec

\* The entry that decides is the last one: a later option overrides an earlier
\* one, and any option the file.
LEMMA DecisiveIsLatest ==
    ASSUME AskedInv, NEW k, NEW i, LatestIn(given, k, i)
    PROVE  Decisive(k) = i
<1>1. About(k) = Said(given, k)
  BY Zenon DEF About, Said, Jacks
<1>2. i \in About(k) /\ \A j \in About(k) : j <= i
  BY <1>1 DEF LatestIn
<1>3. About(k) \subseteq DOMAIN given /\ DOMAIN given \subseteq Int
  BY DEF About, AskedInv
<1> DEFINE cli == {j \in About(k) : given[j].from = "options"}
           all == IF cli # {} THEN cli ELSE About(k)
<1>4. i \in all
  <2>1. CASE cli # {}
    <3>1. PICK j \in About(k) : given[j].from = "options"
      BY <2>1
    <3>2. j <= i /\ i \in DOMAIN given /\ j \in DOMAIN given
      BY <1>2, <1>3, <3>1
    <3>3. given[i].from = "options"
      BY <3>1, <3>2 DEF AskedInv
    <3> QED BY <1>2, <2>1, <3>3
  <2>2. CASE cli = {}
    BY <1>2, <2>2
  <2> QED BY <2>1, <2>2
<1>5. all \subseteq About(k)
  OBVIOUS
<1>6. Decisive(k) = CHOOSE n \in all : \A j \in all : j <= n
  BY Zenon DEF Decisive
<1> HIDE DEF all, cli
<1>7. \A j \in all : j <= i
  BY <1>2, <1>5
<1>8. ASSUME NEW n \in all, \A j \in all : j <= n
      PROVE  n = i
  <2>1. n <= i /\ i <= n /\ n \in Int /\ i \in Int
    BY <1>2, <1>3, <1>4, <1>5, <1>7, <1>8
  <2> QED BY <2>1
<1> QED BY <1>4, <1>6, <1>7, <1>8

\* The settings are what was asked for.
LEMMA SettingsAsAsked ==
    ASSUME AskedInv, NEW k \in Followed
    PROVE  settings[k] = Result(k, Asked(k))
<1>1. About(k) = Said(given, k)
  BY Zenon DEF About, Said, Jacks
<1>2. CASE Said(given, k) = {} /\ settings[k] = Result(k, Defaults[k])
  BY <1>1, <1>2 DEF Asked
<1>3. CASE \E i \in DOMAIN given : LatestIn(given, k, i)
                                   /\ settings[k] = Result(k, given[i].val)
  <2>1. PICK i \in DOMAIN given : LatestIn(given, k, i)
                                  /\ settings[k] = Result(k, given[i].val)
    BY <1>3
  <2>2. Decisive(k) = i /\ About(k) # {}
    BY <1>1, <2>1, DecisiveIsLatest DEF LatestIn
  <2> QED BY <2>1, <2>2 DEF Asked
<1> QED BY <1>2, <1>3 DEF AskedInv, Follows

\* A number in the limits is nearest when it is the one clamped.
LEMMA ClampIsNearest ==
    ASSUME NEW v \in Int
    PROVE  Clamp(v, 0, 31) = Nearest(v, 0..31)
<1> DEFINE Good(x) == \A y \in 0..31 : Off(x, v) <= Off(y, v)
           c == Clamp(v, 0, 31)
<1>1. c \in 0..31 /\ Good(c)
  BY DEF Clamp, Off
<1>2. ASSUME NEW x \in 0..31, Good(x)
      PROVE  x = c
  <2>1. Off(x, v) <= Off(c, v)
    BY <1>1, <1>2
  <2> QED BY <1>2, <2>1 DEF Clamp, Off
<1>3. Nearest(v, 0..31) = CHOOSE x \in 0..31 : Good(x)
  BY Zenon DEF Nearest
<1> HIDE DEF Good, c
<1>4. (CHOOSE x \in 0..31 : Good(x)) = c
  BY <1>1, <1>2
<1> QED BY <1>3, <1>4 DEF c

\* The attenuation asked for is a number.
LEMMA AttenuationIsNumber ==
    ASSUME AskedInv PROVE Asked("attenuation") \in Int
<1> DEFINE k == "attenuation"
<1>1. CASE About(k) = {}
  BY <1>1 DEF Asked, Defaults
<1>2. CASE About(k) # {}
  <2>1. About(k) = Said(given, k) /\ k \in Followed
    BY Zenon DEF About, Said, Jacks, Followed
  <2>2. PICK i \in DOMAIN given : LatestIn(given, k, i)
    BY <1>2, <2>1 DEF AskedInv, Follows
  <2>3. Asked(k) = given[i].val /\ given[i].key = k
    <3>1. Decisive(k) = i
      BY <2>2, DecisiveIsLatest
    <3>2. given[i].key \in Naming(k)
      BY <2>2 DEF LatestIn, Said
    <3> QED BY <1>2, <3>1, <3>2 DEF Asked, Naming
  <2>4. given[i] \in Entry
    BY DEF AskedInv
  <2>5. PICK l \in Lines \union Options : given[i].key = l[1] /\ given[i].val = l[2]
    BY <2>4 DEF Entry, Given
  <2>6. l[1] = k /\ Asked(k) = l[2]
    BY <2>3, <2>5
  <2>7. IsInt(l[2])
    BY <2>6, ConfigAssumption DEF ConfigAssumption
  <2> QED BY <2>6, <2>7 DEF IsInt
<1> QED BY <1>1, <1>2

\* The packet sent to the radio has what was asked for last on the command line,
\* else last in the file, else by default, for any file and any options
\* (config.c:118-124, 160-220).
THEOREM PacketIsAsAsked == ConfigSpec => []PacketAsAsked
<1>1. ConfigInv /\ AskedInv => PacketAsAsked
  <2> SUFFICES ASSUME ConfigInv, AskedInv, Sent
               PROVE  PacketAsAsked
    BY DEF PacketAsAsked
  <2>1. packet \in Contents(settings)
    BY DEF Sent, ConfigInv
  <2>2. ASSUME NEW k \in Tunings
        PROVE  settings[k] = Asked(k)
    <3>1. k \in Followed /\ k # "attenuation"
      BY DEF Followed, Tunings
    <3> QED BY <3>1, SettingsAsAsked DEF Result
  <2>3. settings.rx_antenna = Asked("rx_antenna")
    BY SettingsAsAsked DEF Followed, Result
  <2>4. settings.attenuation = Nearest(Asked("attenuation"), 0..31)
    <3>1. settings["attenuation"] = Clamp(Asked("attenuation"), 0, 31)
      BY SettingsAsAsked DEF Followed, Result
    <3> QED BY <3>1, AttenuationIsNumber, ClampIsNearest
  <2>5. /\ settings.freq1_hz = Asked("freq1_hz") /\ settings.freq2_hz = Asked("freq2_hz")
        /\ settings.freq_correction = Asked("freq_correction")
    BY <2>2 DEF Tunings
  <2>6. (MainJack \union ReceiveJack) \intersect packet.alex0
            = {Asked("rx_antenna")} \union
                  (IF Asked("rx_antenna") \in ReceiveJack THEN {"ANT1"} ELSE {})
    <3> DEFINE j == settings.rx_antenna
               fs == {HighPass(settings.freq1_hz), LowPass(LpfFrequency(settings))}
    <3>1. packet.alex0 = fs \union Routing(settings)
      BY <2>1 DEF Contents, Alex0
    <3>2. Jacks \intersect fs = {}
      <4>1. settings.freq1_hz \in Int /\ settings.freq1_hz <= 2147483647
        BY SMT DEF ConfigInv, Tunings, IsInt
      <4>2. LpfFrequency(settings) \in Int /\ LpfFrequency(settings) <= 2147483647
        BY <4>1, SMT DEF LpfFrequency
      <4>3. HighPass(settings.freq1_hz) \in Hpf /\ LowPass(LpfFrequency(settings)) \in Lpf
        BY <4>1, <4>2, HighPassPasses, LowPassExists
      <4>4. Jacks \intersect Hpf = {} /\ Jacks \intersect Lpf = {}
        BY FilterNamesApart, LowPassNames DEF Jacks, MainJack, ReceiveJack
      <4> QED BY <4>3, <4>4
    <3> HIDE DEF fs
    <3>3. j \in Jacks /\ j = Asked("rx_antenna")
      BY <2>3 DEF ConfigInv
    <3>4. Jacks \intersect Routing(settings)
              = {j} \union (IF j \in ReceiveJack THEN {"ANT1"} ELSE {})
      <4>1. CASE j \in MainJack
        <5>1. j \notin ReceiveJack /\ Routing(settings) = {j}
          BY <4>1 DEF Routing, MainJack, ReceiveJack
        <5> QED BY <3>3, <5>1
      <4>2. CASE j \notin MainJack
        <5>1. j \in ReceiveJack /\ "ANT1" \in Jacks /\ "RX_BYPASS" \notin Jacks
          BY <3>3, <4>2 DEF Jacks, MainJack, ReceiveJack
        <5>2. Routing(settings) = {"ANT1", j}
                  \union (IF settings.alex_new_pa_board THEN {} ELSE {"RX_BYPASS"})
          BY <4>2 DEF Routing
        <5> QED BY <3>3, <5>1, <5>2
      <4> QED BY <4>1, <4>2
    <3> HIDE DEF j
    <3>5. Jacks \intersect packet.alex0 = Jacks \intersect Routing(settings)
      BY <3>1, <3>2
    <3> QED BY <3>3, <3>4, <3>5 DEF Jacks
  <2>7. /\ packet.phase0 \in ddc_phase_word(settings.freq1_hz, settings.freq_correction)
        /\ packet.phase1 \in ddc_phase_word(settings.freq2_hz, settings.freq_correction)
        /\ packet.atten = settings.attenuation
    BY <2>1 DEF Contents
  <2> QED BY <2>4, <2>5, <2>6, <2>7 DEF PacketAsAsked
<1> QED BY <1>1, ConfigInvariance, AskedInvariance, PTL
=============================================================================
