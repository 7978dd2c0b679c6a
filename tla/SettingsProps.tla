--------------------------- MODULE SettingsProps ---------------------------
(***************************************************************************)
(* What the settings must be, stated of modules Config and HighPriority.   *)
(***************************************************************************)
EXTENDS Config

\* The entries that say something about a setting.
Naming(k) == {k} \union (IF k \in {"freq1_hz", "freq2_hz"} THEN {"frequency"} ELSE {})
About(k) ==
    {i \in DOMAIN given :
        /\ given[i].key \in Naming(k)
        /\ k = "rx_antenna" => given[i].val \in MainJack \union ReceiveJack}

\* Of those the command line's count more than the file's, and the last most.
Decisive(k) ==
    LET cli == {i \in About(k) : given[i].from = "options"}
        all == IF cli # {} THEN cli ELSE About(k)
    IN  CHOOSE i \in all : \A j \in all : j <= i
Asked(k) == IF About(k) = {} THEN Defaults[k] ELSE given[Decisive(k)].val

\* Out of range, the nearest number in range is used.
Off(x, v)  == IF x < v THEN v - x ELSE x - v
Nearest(v, range) == CHOOSE x \in range : \A y \in range : Off(x, v) <= Off(y, v)

\* The packet sent to the radio has what was asked for last on the command line,
\* else last in the file, else by default, whatever order the keys that share a
\* setting came in (config.c:118-124, 160-220, README.md:26-64).
PacketAsAsked ==
    Sent =>
        LET c == Asked("freq_correction")
        IN  /\ packet.phase0 \in ddc_phase_word(Asked("freq1_hz"), c)
            /\ packet.phase1 \in ddc_phase_word(Asked("freq2_hz"), c)
            /\ packet.atten = Nearest(Asked("attenuation"), 0..31)
            /\ (MainJack \union ReceiveJack) \intersect packet.alex0
                   = {Asked("rx_antenna")} \union
                         (IF Asked("rx_antenna") \in ReceiveJack THEN {"ANT1"} ELSE {})

\* Whatever numbers were given, what indexes, shifts and sizes in the rest of
\* the program stays within its limits (config.c:65-74).
SettingsInRange ==
    \A k \in DOMAIN Limits : settings[k] \in Limits[k][1] .. Limits[k][2]
=============================================================================
