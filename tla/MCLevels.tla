------------------------------ MODULE MCLevels ------------------------------
(* Values at the ends of 24 bits and of 16 bits, at the 20 dB margin and just *)
(* below zero; and two antennas of which the first hears a strong station.    *)
EXTENDS LevelsProps

MCRaw == [p \in Places |-> {-8388608, 8388607, -32769, -32768, 32768, 3277, -1}]
MCRawSteady == <<{4000000}, {4000000}, {100}, {100}>>
=============================================================================
