------------------------------- MODULE Config -------------------------------
(***************************************************************************)
(* How the settings come about (config.c): the defaults, the lines of the  *)
(* file named by the first -c, then the options of the command line, and   *)
(* at last the high-priority packet of module HighPriority that they make. *)
(*                                                                         *)
(* A line or an option is a key and a value; how they are spelled, trimmed *)
(* and commented is left out.  The texts (address, file name) and the      *)
(* sample rate are stored as they come, like the frequencies.              *)
(***************************************************************************)
EXTENDS HighPriority, Sequences

CONSTANTS
    Lines, Options,       \* the <<key, value>> there may be of each
    MaxLines, MaxOptions  \* bounds: how many of each are given

IsInt(v) == v \in Int /\ -2147483647 - 1 <= v /\ v <= 2147483647   \* an int

\* What atoi() returns is an int; only the antenna is a text.
ASSUME ConfigAssumption ==
    /\ MaxLines \in Nat /\ MaxOptions \in Nat
    /\ \A l \in Lines \union Options : l[1] # "rx_antenna" => IsInt(l[2])

VARIABLES phase, given    \* history: the lines and options, as they were read

cvars == <<settings, packet, phase, given>>

Defaults ==
    [freq1_hz |-> 990000, freq2_hz |-> 990000, freq_correction |-> 0,
     rx_antenna |-> "ANT1", alex_new_pa_board |-> TRUE, attenuation |-> 0,
     sample_shift |-> 8, socket_buffer_mb |-> 64, streaming_time |-> 0,
     diversity |-> TRUE]

Limits ==
    [attenuation |-> <<0, 31>>, sample_shift |-> <<0, 8>>,
     socket_buffer_mb |-> <<1, 1024>>, streaming_time |-> <<0, 365 * 24 * 3600>>]

ConfigInit ==
    /\ settings = Defaults /\ packet = NoPacket
    /\ phase = "arguments" /\ given = <<>>

-----------------------------------------------------------------------------
(* read_config_file() and the switch of get_config_from_cli() *)

ClampAbove(v, lo, hi) == IF v > hi THEN hi ELSE v        \* mutant: no lower limit
Clamp(v, lo, hi) == IF v < lo THEN lo ELSE IF v > hi THEN hi ELSE v

\* "frequency" of the file sets both receivers.
SetsFirst(key) == IF key = "frequency" THEN {"freq1_hz"} ELSE {key}   \* mutant
Sets(key) == IF key = "frequency" THEN {"freq1_hz", "freq2_hz"} ELSE {key}

\* What a setting becomes.  An antenna nobody knows keeps the one there is.
Becomes(old, key, v) ==
    CASE key \in DOMAIN Limits -> Clamp(v, Limits[key][1], Limits[key][2])
      [] key = "rx_antenna"    -> IF v \in MainJack \union ReceiveJack THEN v ELSE old
      [] key = "diversity"     -> v = 1
      [] key = "alex_new_pa_board" -> v # 0
      [] OTHER                 -> v

\* A line with a key nobody knows is reported, and ignored.
Assign(key, v) ==
    /\ settings' = [k \in DOMAIN settings |->
                       IF k \in Sets(key) THEN Becomes(settings[k], key, v) ELSE settings[k]]
    /\ given' = Append(given, [from |-> phase, key |-> key, val |-> v])

Count(p) == Cardinality({i \in DOMAIN given : given[i].from = p})

\* The arguments are searched for a first -c: its file is read before any
\* option is looked at, wherever the -c stands.
FindFile ==
    /\ phase = "arguments"
    /\ phase' \in {"file", "options", "failed"}
    /\ UNCHANGED <<settings, packet, given>>

ReadLine(key, v) ==
    /\ phase = "file" /\ Count("file") < MaxLines
    /\ Assign(key, v)
    /\ UNCHANGED <<packet, phase>>

FileRead ==
    /\ phase = "file"
    /\ phase' = "options"
    /\ UNCHANGED <<settings, packet, given>>

\* getopt() finds an option; -d, without a value, sets diversity.
Option(key, v) ==
    /\ phase = "options" /\ Count("options") < MaxOptions
    /\ Assign(key, v)
    /\ UNCHANGED <<packet, phase>>

\* No option is left, or one nobody knows ends the program.
OptionsRead ==
    /\ phase = "options"
    /\ phase' \in {"configured", "failed"}
    /\ UNCHANGED <<settings, packet, given>>

Configure ==
    /\ phase = "configured"
    /\ hpsdr_configure_high_priority
    /\ UNCHANGED <<phase, given>>

ConfigNext ==
    \/ FindFile \/ FileRead \/ OptionsRead \/ Configure
    \/ \E l \in Lines : ReadLine(l[1], l[2])
    \/ \E o \in Options : Option(o[1], o[2])

ConfigSpec == ConfigInit /\ [][ConfigNext]_cvars
=============================================================================
