----------------------------- MODULE MCSettings -----------------------------
(* Settings for TLC: both sides of every step of the filter ladders, the edges *)
(* of the bands they are made for, and numbers out of range: the clock's        *)
(* frequency, whose phase word would be 2^32, among them.                      *)
EXTENDS SettingsProps

Steps == {1800000, 2500000, 5000000, 6500000, 8000000, 9500000, 13000000,
          16500000, 20000000, 24000000, 35600000, 50000000}
Edges == {0, 990000, 1999999, 3500000, 4000000, 5250000, 7300000, 10150000,
          14350000, 18068000, 21450000, 24890000, 29700000, 54000000}
MCFrequencies == {-1, 122880000} \union Edges \union {s + d : s \in Steps, d \in {-1, 0, 1}}

MCLines == {<<"frequency", 3500000>>, <<"freq1_hz", 7300000>>, <<"freq2_hz", 950000>>,
            <<"attenuation", 32>>, <<"rx_antenna", "EXT1">>, <<"alex_new_pa_board", 0>>,
            <<"diversity", 0>>, <<"streaming_time", -1>>, <<"unknown", 1>>}
MCOptions == ({"freq1_hz"} \X MCFrequencies) \union
             ({"rx_antenna"} \X {"ANT1", "ANT3", "EXT2", "XVTR", "ANT4"}) \union
             {<<"freq2_hz", 1800000>>, <<"freq_correction", 7>>, <<"attenuation", -1>>,
              <<"sample_shift", 9>>, <<"socket_buffer_mb", 0>>, <<"diversity", 1>>}
=============================================================================
