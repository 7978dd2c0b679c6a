----------------------------- MODULE LinkProofs -----------------------------
(***************************************************************************)
(* The sequence tracking follows the radio's stream, for every stream,     *)
(* buffer, batch and width of the sequence numbers the assumption of       *)
(* module Link allows, whatever the network does.                          *)
(***************************************************************************)
EXTENDS LinkProps, SequenceNumbers, SequenceTheorems

\* What ties the tracker's state to the packets accepted so far: they are the
\* radio's, and the number expected is the last one's successor.  Inductive.
Followed ==
    /\ accepted \in Seq(Datagram)
    /\ \A i \in DOMAIN accepted : accepted[i].from = "radio" /\ accepted[i].n \in Packets
    /\ first_pkt = (accepted = <<>>)
    /\ accepted = <<>> => gap_packets = 0
    /\ accepted # <<>> => expected_seq = Wire(Last(accepted).n + 1)
    /\ gap_packets \in Nat /\ reordered_packets \in Nat
    /\ foreign_iq \in Nat /\ malformed \in Nat
    /\ pkt_by_port \in [{"iq", "status"} -> Nat]
    /\ PacketsAccounted

-----------------------------------------------------------------------------
(* Datagrams and sequences of them *)

\* A datagram that reaches the tracking is the radio's, with one of its numbers.
LEMMA ProcessedIsRadios ==
    ASSUME NEW d \in Datagram, Process(d)
    PROVE  d.from = "radio" /\ d.port = "iq" /\ d.n \in Packets
BY DEF Datagram, Process, Foreign

\* Packets are numbers to the provers' arithmetic.
LEMMA PacketsAreNumbers ==
    ASSUME NEW p \in Packets
    PROVE  p \in Nat /\ p \in Int
BY LinkAssumption DEF Packets

\* What is appended is last, and what was there stays in its place.
LEMMA LastAppended ==
    ASSUME NEW S, NEW s \in Seq(S), NEW e \in S
    PROVE  /\ Append(s, e) \in Seq(S) /\ Append(s, e) # <<>>
           /\ Len(Append(s, e)) = Len(s) + 1
           /\ Last(Append(s, e)) = e
           /\ \A i \in 1 .. Len(s) : Append(s, e)[i] = s[i]
           /\ DOMAIN Append(s, e) = 1 .. Len(s) + 1
BY DEF Last

\* The last packet accepted, and the number of one at hand, are not half the
\* space of numbers apart.
LEMMA GapIsDistance ==
    ASSUME Followed, accepted # <<>>, NEW p \in Packets
    PROVE  /\ Last(accepted).n \in Packets
           /\ SignedGap(Wire(p)) = p - Last(accepted).n - 1
<1> DEFINE l == Last(accepted).n
<1>1. Len(accepted) \in DOMAIN accepted
  BY EmptySeq, LenProperties DEF Followed
<1>2. l \in Packets
  BY <1>1 DEF Followed, Last
<1>3. /\ HalfSeq \in Nat \ {0} /\ SeqSpace = HalfSeq + HalfSeq
      /\ FirstPacket \in Nat /\ LastPacket \in Nat /\ LastPacket - FirstPacket < HalfSeq
  BY LinkAssumption DEF HalfSeq
<1>4. p \in Int /\ l \in Int /\ p - (l + 1) \in -HalfSeq .. HalfSeq - 1
  BY <1>2, <1>3 DEF Packets
<1>5. expected_seq = Wire(l + 1)
  BY DEF Followed
<1>6. SignedGap(Wire(p)) =
          Signed(((p % SeqSpace) - ((l + 1) % SeqSpace)) % SeqSpace, SeqSpace, HalfSeq)
  BY <1>5, Zenon DEF SignedGap, Signed, Wire
<1>7. SignedGap(Wire(p)) = p - (l + 1)
  <2>1. l + 1 \in Int /\ SeqSpace \in Nat
    BY <1>3, <1>4
  <2> QED BY <1>3, <1>4, <1>6, <2>1, SignedDistance, Zenon
<1>8. l \in Packets /\ SignedGap(Wire(p)) = p - l - 1
  BY <1>2, <1>4, <1>7
<1> QED BY <1>8 DEF l

-----------------------------------------------------------------------------
(* The invariant *)

\* A packet accepted is the next one of the sequence.
LEMMA AcceptFollowed ==
    ASSUME Followed, NEW d \in Datagram, Process(d), FirstIq(d) \/ NextIq(d)
    PROVE  Followed'
<1>1. d.from = "radio" /\ d.port = "iq" /\ d.n \in Packets
  BY ProcessedIsRadios
<1>2. /\ accepted' = Append(accepted, d) /\ expected_seq' = Wire(d.n + 1)
      /\ reordered_packets' = reordered_packets /\ foreign_iq' = foreign_iq
      /\ malformed' = malformed
      /\ first_pkt' = FALSE
  BY DEF FirstIq, NextIq, Accept, Process, Followed
<1>3. pkt_by_port' = [pkt_by_port EXCEPT !["iq"] = @ + 1]
  BY <1>1 DEF Process, Take
<1>4. /\ accepted' \in Seq(Datagram) /\ accepted' # <<>> /\ Last(accepted') = d
      /\ Len(accepted) \in Nat /\ Len(accepted') = Len(accepted) + 1
      /\ DOMAIN accepted = 1 .. Len(accepted) /\ DOMAIN accepted' = 1 .. Len(accepted) + 1
      /\ \A i \in 1 .. Len(accepted) : accepted'[i] = accepted[i]
      /\ accepted'[Len(accepted) + 1] = d
  BY <1>2, LastAppended, LenProperties DEF Followed
<1>5. \A i \in DOMAIN accepted' : accepted'[i].from = "radio" /\ accepted'[i].n \in Packets
  BY <1>1, <1>4 DEF Followed
<1>6. /\ pkt_by_port' \in [{"iq", "status"} -> Nat]
      /\ pkt_by_port'["iq"]
             = foreign_iq' + malformed' + reordered_packets' + Len(accepted')
  BY <1>2, <1>3, <1>4 DEF Followed, PacketsAccounted
<1>9. d.n \in Nat /\ Last(accepted').n = d.n
  BY <1>1, <1>4, PacketsAreNumbers
<1>7. /\ gap_packets' \in Nat
      /\ gap_packets' + Len(accepted') = Last(accepted').n - Head(accepted').n + 1
  <2>1. CASE first_pkt
    <3>1. accepted = <<>> /\ FirstIq(d)
      BY <2>1 DEF Followed, NextIq
    <3>2. Len(accepted) = 0 /\ Head(accepted') = d
      BY <3>1, <1>2
    <3>3. gap_packets' = 0
      BY <3>1 DEF FirstIq, Followed
    <3>4. Len(accepted') = 1 /\ Head(accepted').n = d.n
      BY <1>4, <3>2
    <3> QED BY <1>9, <3>3, <3>4
  <2>2. CASE ~first_pkt
    <3>1. accepted # <<>> /\ NextIq(d)
      BY <2>2 DEF Followed, FirstIq
    <3>2. Len(accepted) >= 1 /\ Head(accepted') = Head(accepted)
      BY <3>1, <1>2, <1>4 DEF Followed
    <3>3. /\ Last(accepted).n \in Packets
          /\ SignedGap(Wire(d.n)) = d.n - Last(accepted).n - 1
      BY <1>1, <3>1, GapIsDistance
    <3>4. Head(accepted).n \in Packets
      BY <3>1, <3>2, <1>4 DEF Followed
    <3>5. /\ gap_packets' = gap_packets + SignedGap(Wire(d.n))
          /\ SignedGap(Wire(d.n)) >= 0
      BY <3>1 DEF NextIq
    <3>6. gap_packets + Len(accepted) = Last(accepted).n - Head(accepted).n + 1
      BY <3>1 DEF Followed, PacketsAccounted
    <3>7. gap_packets \in Nat
      BY DEF Followed
    <3>8. /\ Len(accepted) \in Nat /\ Len(accepted') = Len(accepted) + 1
          /\ Last(accepted).n \in Int
          /\ Head(accepted').n = Head(accepted).n /\ Head(accepted).n \in Int
      <4>1. Last(accepted).n \in Int /\ Head(accepted).n \in Int
        BY <3>3, <3>4, PacketsAreNumbers
      <4> QED BY <1>4, <3>2, <4>1
    <3> DEFINE x == Last(accepted).n
               y == Head(accepted).n
               g == SignedGap(Wire(d.n))
    <3>9. /\ x \in Int /\ y \in Int /\ d.n \in Nat
          /\ g = d.n - x - 1 /\ g >= 0
          /\ gap_packets + Len(accepted) = x - y + 1
          /\ gap_packets' = gap_packets + g
          /\ Last(accepted').n = d.n /\ Head(accepted').n = y
      BY <1>9, <3>3, <3>5, <3>6, <3>8
    <3> HIDE DEF x, y, g
    <3>10. gap_packets' \in Nat
      BY <3>7, <3>9
    <3>11. gap_packets' + Len(accepted') = d.n - y + 1
      <4>1. gap_packets' = gap_packets + (d.n - x - 1)
        BY <3>9
      <4>2. /\ x \in Int /\ y \in Int /\ d.n \in Int /\ gap_packets \in Int
            /\ gap_packets + Len(accepted) = x - y + 1
        BY <3>7, <3>9
      <4>3. Len(accepted) \in Int /\ Len(accepted') = Len(accepted) + 1
        BY <3>8
      <4> QED BY <4>1, <4>2, <4>3, SMTT(30)
    <3> QED BY <3>9, <3>10, <3>11
  <2> QED BY <2>1, <2>2 DEF Followed
<1> QED BY <1>2, <1>4, <1>5, <1>6, <1>7 DEF Followed, PacketsAccounted

\* A packet that is not accepted is counted, and changes nothing else.
LEMMA SkipFollowed ==
    ASSUME Followed, NEW d \in Datagram,
           SkipForeign(d) \/ SkipStatus(d) \/ SkipMalformed(d) \/ LateIq(d)
    PROVE  Followed'
<1>1. UNCHANGED <<expected_seq, first_pkt, gap_packets, accepted>>
  BY DEF SkipForeign, SkipStatus, SkipMalformed, LateIq, trackVars
<1>2. /\ d.port \in {"iq", "status"}
      /\ pkt_by_port' = [pkt_by_port EXCEPT ![d.port] = @ + 1]
  BY DEF SkipForeign, SkipStatus, SkipMalformed, LateIq, Process, Take, Datagram
<1>3. /\ foreign_iq \in Nat /\ malformed \in Nat /\ reordered_packets \in Nat
      /\ pkt_by_port \in [{"iq", "status"} -> Nat]
  BY DEF Followed
<1>4. pkt_by_port' \in [{"iq", "status"} -> Nat]
  BY <1>2, <1>3
<1>5. /\ foreign_iq' \in Nat /\ malformed' \in Nat /\ reordered_packets' \in Nat
      /\ pkt_by_port'["iq"] - foreign_iq' - malformed' - reordered_packets'
             = pkt_by_port["iq"] - foreign_iq - malformed - reordered_packets
  <2>1. CASE SkipForeign(d)
    <3>1. d.port = "iq" /\ foreign_iq' = foreign_iq + 1 /\ malformed' = malformed
          /\ reordered_packets' = reordered_packets
      BY <2>1 DEF SkipForeign, Foreign, trackVars
    <3> QED BY <1>2, <1>3, <3>1
  <2>2. CASE SkipStatus(d)
    <3>1. foreign_iq' = foreign_iq /\ malformed' = malformed
          /\ reordered_packets' = reordered_packets /\ d.port = "status"
      BY <1>2, <2>2 DEF SkipStatus, trackVars
    <3> QED BY <1>2, <1>3, <3>1
  <2>3. CASE SkipMalformed(d)
    <3>1. d.port = "iq" /\ foreign_iq' = foreign_iq /\ malformed' = malformed + 1
          /\ reordered_packets' = reordered_packets
      BY <2>3 DEF SkipMalformed, trackVars
    <3> QED BY <1>2, <1>3, <3>1
  <2>4. CASE LateIq(d)
    <3>1. d.port = "iq" /\ foreign_iq' = foreign_iq /\ malformed' = malformed
          /\ reordered_packets' = reordered_packets + 1
      BY <2>4 DEF LateIq, Process
    <3> QED BY <1>2, <1>3, <3>1
  <2> QED BY <2>1, <2>2, <2>3, <2>4
<1>6. Len(accepted) \in Nat
  BY LenProperties DEF Followed
<1>7. pkt_by_port'["iq"] = foreign_iq' + malformed' + reordered_packets' + Len(accepted')
  <2>1. pkt_by_port["iq"] = foreign_iq + malformed + reordered_packets + Len(accepted)
    BY DEF Followed, PacketsAccounted
  <2>2. Len(accepted') = Len(accepted)
    BY <1>1
  <2>3. pkt_by_port["iq"] \in Nat /\ pkt_by_port'["iq"] \in Nat
    BY <1>3, <1>4
  <2> QED BY <1>3, <1>5, <1>6, <2>1, <2>2, <2>3, SMTT(30)
<1> QED BY <1>1, <1>4, <1>5, <1>7 DEF Followed, PacketsAccounted

\* Followed holds at first.
LEMMA InitFollowed == Init => Followed
<1> SUFFICES ASSUME Init PROVE Followed
  OBVIOUS
<1>1. accepted = <<>> /\ accepted \in Seq(Datagram) /\ Len(accepted) = 0
  BY EmptySeq DEF Init
<1>2. DOMAIN accepted = {}
  BY <1>1, LenProperties
<1>3. first_pkt = (accepted = <<>>)
  BY <1>1 DEF Init
<1>4. PacketsAccounted
  BY <1>1 DEF Init, PacketsAccounted
<1>5. pkt_by_port \in [{"iq", "status"} -> Nat]
  BY DEF Init
<1>6. gap_packets = 0 /\ gap_packets \in Nat /\ reordered_packets \in Nat /\ foreign_iq \in Nat
      /\ malformed \in Nat
  BY DEF Init
<1> QED BY <1>1, <1>2, <1>3, <1>4, <1>5, <1>6 DEF Followed

\* The variables of the tracking.
LEMMA KernelFollowed ==
    ASSUME Followed, UNCHANGED <<countVars, trackVars>>
    PROVE  Followed'
BY DEF Followed, PacketsAccounted, countVars, trackVars, Last

\* Whatever step is taken, the tracker follows what it was handed.
LEMMA StepFollowed == Followed /\ [Next]_vars => Followed'
<1> SUFFICES ASSUME Followed, [Next]_vars PROVE Followed'
  OBVIOUS
<1>1. CASE \E d \in Datagram : Arrive(d) \/ Handle(d)
  <2>1. PICK d \in Datagram : Arrive(d) \/ Handle(d)
    BY <1>1
  <2>2. CASE Arrive(d)
    BY <2>2, KernelFollowed DEF Arrive
  <2>3. CASE FirstIq(d) \/ NextIq(d)
    BY <2>3, AcceptFollowed DEF FirstIq, NextIq
  <2>4. CASE SkipForeign(d) \/ SkipStatus(d) \/ SkipMalformed(d) \/ LateIq(d)
    BY <2>4, SkipFollowed
  <2> QED BY <2>1, <2>2, <2>3, <2>4 DEF Handle
<1>2. CASE \/ Overflow \/ Recv \/ RecvDone \/ ReadControl \/ Timeout
           \/ UNCHANGED vars
  <2>1. UNCHANGED <<countVars, trackVars>>
    BY <1>2 DEF Overflow, Recv, RecvDone, ReadControl, Timeout, vars
  <2> QED BY <2>1, KernelFollowed
<1> QED BY <1>1, <1>2 DEF Next

\* So it does at all times.
LEMMA FollowedAlways == Spec => []Followed
BY InitFollowed, StepFollowed, PTL DEF Spec

\* Every datagram of the IQ port is exactly one of foreign, malformed, counted as
\* too late or recorded, and the packets recorded and missing span the numbers
\* between the first and the last, whatever the widths and bounds
\* (streaming.c:182-195, 224, 364-371).
THEOREM EveryPacketAccounted == Spec => []PacketsAccounted
<1>1. Followed => PacketsAccounted
  BY DEF Followed
<1> QED BY <1>1, FollowedAlways, PTL

-----------------------------------------------------------------------------
(* The refinement *)

NumbersOf(s) == [i \in DOMAIN s |-> IF s[i].from = "radio" THEN s[i].n ELSE -1]

Radios(s) == /\ s \in Seq(Datagram)
             /\ \A i \in DOMAIN s : s[i].from = "radio" /\ s[i].n \in Packets

\* The abstract sequence has the numbers of the packets accepted.
LEMMA NumbersOfAccepted ==
    ASSUME NEW s, Radios(s)
    PROVE  /\ NumbersOf(s) \in Seq(Nat) /\ Len(NumbersOf(s)) = Len(s)
           /\ \A i \in 1 .. Len(s) : NumbersOf(s)[i] = s[i].n
           /\ NumbersOf(s) = <<>> <=> s = <<>>
           /\ s # <<>> => Last(NumbersOf(s)) = Last(s).n
<1>1. /\ Len(s) \in Nat /\ DOMAIN s = 1 .. Len(s)
      /\ s = <<>> <=> Len(s) = 0
  BY EmptySeq, LenProperties DEF Radios
<1>2. NumbersOf(s) \in [1 .. Len(s) -> Nat]
  BY <1>1, PacketsAreNumbers DEF NumbersOf, Radios
<1>3. NumbersOf(s) \in Seq(Nat) /\ Len(NumbersOf(s)) = Len(s)
  BY <1>1, <1>2
<1>4. \A i \in 1 .. Len(s) : NumbersOf(s)[i] = s[i].n
  BY <1>1 DEF NumbersOf, Radios
<1>5. NumbersOf(s) = <<>> <=> s = <<>>
  BY <1>1, <1>3, EmptySeq
<1>6. s # <<>> => Last(NumbersOf(s)) = Last(s).n
  BY <1>1, <1>3, <1>4 DEF Last
<1> QED BY <1>3, <1>4, <1>5, <1>6

\* One packet more accepted is one number more.
LEMMA NumbersGrow ==
    ASSUME NEW s, Radios(s), NEW d \in Datagram, d.from = "radio", d.n \in Packets
    PROVE  NumbersOf(Append(s, d)) = Append(NumbersOf(s), d.n)
<1> DEFINE t == Append(s, d)
<1>1. /\ s \in Seq(Datagram) /\ DOMAIN s = 1 .. Len(s) /\ Len(s) \in Nat
  BY LenProperties DEF Radios
<1>2. /\ t \in Seq(Datagram) /\ Len(t) = Len(s) + 1 /\ DOMAIN t = 1 .. Len(s) + 1
      /\ \A i \in 1 .. Len(s) : t[i] = s[i]
      /\ t[Len(s) + 1] = d
  BY <1>1
<1>3. Radios(t)
  BY <1>1, <1>2 DEF Radios
<1>4. /\ NumbersOf(s) \in Seq(Nat) /\ Len(NumbersOf(s)) = Len(s)
      /\ \A i \in 1 .. Len(s) : NumbersOf(s)[i] = s[i].n
  BY NumbersOfAccepted
<1>5. /\ NumbersOf(t) \in Seq(Nat) /\ Len(NumbersOf(t)) = Len(t)
      /\ \A i \in 1 .. Len(t) : NumbersOf(t)[i] = t[i].n
  <2> HIDE DEF t
  <2> QED BY <1>3, NumbersOfAccepted
<1>6. d.n \in Nat
  BY PacketsAreNumbers
<1> HIDE DEF t
<1>7. /\ Append(NumbersOf(s), d.n) \in Seq(Nat)
      /\ Len(Append(NumbersOf(s), d.n)) = Len(s) + 1
      /\ \A i \in 1 .. Len(s) : Append(NumbersOf(s), d.n)[i] = s[i].n
      /\ Append(NumbersOf(s), d.n)[Len(s) + 1] = d.n
  BY <1>1, <1>4, <1>6
<1>8. NumbersOf(t) = Append(NumbersOf(s), d.n)
  <2>1. \A i \in 1 .. Len(NumbersOf(t)) : NumbersOf(t)[i] = Append(NumbersOf(s), d.n)[i]
    BY <1>1, <1>2, <1>5, <1>7
  <2> QED BY <1>2, <1>5, <1>7, <2>1, SeqEqual
<1> QED BY <1>8 DEF t

\* The abstract variables.
LEMMA Mapped ==
    Followed => /\ Radios(accepted)
                /\ first_pkt = (accepted = <<>>)
BY DEF Followed, Radios

\* Before the first packet both trackers have seen nothing.
LEMMA InitTracks == Init => Tracking!Init
<1> SUFFICES ASSUME Init PROVE Tracking!Init
  OBVIOUS
<1>1. Radios(accepted) /\ accepted = <<>>
  BY InitFollowed, Mapped DEF Init
<1>2. NumbersOf(accepted) = <<>>
  BY <1>1, NumbersOfAccepted
<1> QED BY <1>2 DEF Init, Tracking!Init, NumbersOf

\* Accepting starts or follows; a late packet is discarded; nothing else is seen.
LEMMA StepTracks ==
    Followed /\ [Next]_vars => [Tracking!Next]_(Tracking!tvars)
<1> SUFFICES ASSUME Followed, [Next]_vars
             PROVE  Tracking!Next \/ UNCHANGED Tracking!tvars
  OBVIOUS
<1> DEFINE R == NumbersOf(accepted)
<1>1. Radios(accepted) /\ first_pkt = (accepted = <<>>)
  BY Mapped
<1>2. (R = <<>> <=> accepted = <<>>) /\ (accepted # <<>> => Last(R) = Last(accepted).n)
  BY <1>1, NumbersOfAccepted
<1>3. CASE \E d \in Datagram : FirstIq(d) \/ NextIq(d) \/ LateIq(d)
  <2>1. PICK d \in Datagram : FirstIq(d) \/ NextIq(d) \/ LateIq(d)
    BY <1>3
  <2>2. d.from = "radio" /\ d.n \in Packets
    BY <2>1, ProcessedIsRadios DEF FirstIq, NextIq, LateIq
  <2>3. ASSUME accepted # <<>>
        PROVE  /\ SignedGap(Wire(d.n)) = d.n - Last(R) - 1
               /\ d.n \in Int /\ Last(R) \in Int
    BY <1>2, <2>2, <2>3, GapIsDistance, PacketsAreNumbers
  <2>4. ASSUME accepted' = Append(accepted, d)
        PROVE  NumbersOf(accepted') = Append(R, d.n)
    BY <1>1, <2>2, <2>4, NumbersGrow
  <2>5. CASE FirstIq(d)
    <3>1. R = <<>> /\ NumbersOf(accepted') = <<d.n>>
          /\ UNCHANGED <<gap_packets, reordered_packets>>
      <4>1. R = <<>> /\ NumbersOf(accepted') = Append(<<>>, d.n)
            /\ UNCHANGED <<gap_packets, reordered_packets>>
        BY <1>1, <1>2, <2>4, <2>5 DEF FirstIq, Accept
      <4>2. Append(<<>>, d.n) = <<d.n>>
        OBVIOUS
      <4> QED BY <4>1, <4>2, Zenon
    <3>2. Tracking!Start(d.n)
      BY <3>1 DEF Tracking!Start, NumbersOf
    <3> QED BY <2>2, <3>2 DEF Tracking!Next
  <2>6. CASE NextIq(d)
    <3>1. /\ accepted # <<>> /\ SignedGap(Wire(d.n)) >= 0
          /\ NumbersOf(accepted') = Append(R, d.n)
          /\ gap_packets' = gap_packets + SignedGap(Wire(d.n))
          /\ reordered_packets' = reordered_packets
      BY <1>1, <2>4, <2>6 DEF NextIq, Accept
    <3>2. d.n > Last(R) /\ gap_packets' = gap_packets + d.n - Last(R) - 1
      BY <2>3, <3>1 DEF Followed
    <3>3. R # <<>>
      BY <1>2, <3>1
    <3>4. Tracking!Follow(d.n)
      BY <3>1, <3>2, <3>3, Zenon DEF Tracking!Follow, Tracking!Last, Last, NumbersOf
    <3> QED BY <2>2, <3>4 DEF Tracking!Next
  <2>7. CASE LateIq(d)
    <3>1. /\ accepted # <<>> /\ SignedGap(Wire(d.n)) < 0
          /\ reordered_packets' = reordered_packets + 1
          /\ accepted' = accepted /\ gap_packets' = gap_packets
      BY <1>1, <2>7 DEF LateIq
    <3>2. d.n <= Last(R)
      BY <2>3, <3>1
    <3>3. R # <<>>
      BY <1>2, <3>1
    <3>4. Tracking!Discard(d.n)
      BY <3>1, <3>2, <3>3, Zenon DEF Tracking!Discard, Tracking!Last, Last, NumbersOf
    <3> QED BY <2>2, <3>4 DEF Tracking!Next
  <2> QED BY <2>1, <2>5, <2>6, <2>7
<1>4. CASE \/ \E d \in Datagram : \/ Arrive(d) \/ SkipForeign(d) \/ SkipStatus(d)
                                  \/ SkipMalformed(d)
           \/ Overflow \/ Recv \/ RecvDone \/ ReadControl \/ Timeout
           \/ UNCHANGED vars
  <2>1. UNCHANGED <<accepted, gap_packets, reordered_packets>>
    BY <1>4 DEF Arrive, SkipForeign, SkipStatus, SkipMalformed, Overflow, Recv,
                RecvDone, ReadControl, Timeout, vars, trackVars
  <2> QED BY <2>1 DEF Tracking!tvars
<1> QED BY <1>3, <1>4 DEF Next, Handle

\* The tracking of 32-bit numbers implements the abstract tracker: what is
\* recorded is the radio's stream in the order sent, every number skipped is
\* counted, and nothing is recorded twice, whatever the network, the socket and
\* another sender do (streaming.c:182-195, 364-371).
THEOREM LinkTracksStream == Spec => ImplementsTracker
<1>1. Followed /\ [Next]_vars => [Tracking!Next]_(Tracking!tvars)
  BY StepTracks
<1> QED BY <1>1, InitTracks, FollowedAlways, PTL DEF Spec, ImplementsTracker, Tracking!Spec

-----------------------------------------------------------------------------
(* Types *)

\* The sequences of datagrams: the kernel's buffer, the batch, and the part of
\* it whose control messages are not yet read.
SequenceTypes ==
    /\ rcvbuf \in Seq(Queued) /\ Len(rcvbuf) <= RcvBuf
    /\ batch \in Seq(Queued) /\ Len(batch) <= BatchMax
    /\ unread \in Seq(Queued)
    /\ arrivals \in 0 .. MaxArrivals /\ sk_drops \in Nat
    /\ rxPc \in {"recv", "control", "process"}
    /\ rxPc = "recv" => unread = batch
    /\ rxPc = "control" => unread # <<>> /\ batch # <<>>
    /\ rxPc = "process" => unread = <<>> /\ batch # <<>>

\* A sequence loses its head, or gets an element more.
LEMMA SequenceSteps ==
    ASSUME NEW s \in Seq(Queued)
    PROVE  /\ Len(s) \in Nat
           /\ s # <<>> => /\ Head(s) \in Queued /\ Tail(s) \in Seq(Queued)
                          /\ Len(Tail(s)) = Len(s) - 1
           /\ \A q \in Queued : /\ Append(s, q) \in Seq(Queued) /\ Append(s, q) # <<>>
                                /\ Len(Append(s, q)) = Len(s) + 1
<1>1. \A q \in Queued : /\ Append(s, q) \in Seq(Queued) /\ Append(s, q) # <<>>
                        /\ Len(Append(s, q)) = Len(s) + 1
  BY AppendProperties
<1>2. s # <<>> => /\ Head(s) \in Queued /\ Tail(s) \in Seq(Queued)
                  /\ Len(Tail(s)) = Len(s) - 1
  BY HeadTailProperties
<1>3. Len(s) \in Nat
  OBVIOUS
<1> QED BY <1>1, <1>2, <1>3

\* The sequences are empty at first.
LEMMA InitSequenceTypes == Init => SequenceTypes
<1> SUFFICES ASSUME Init PROVE SequenceTypes
  OBVIOUS
<1>1. rcvbuf = <<>> /\ batch = <<>> /\ unread = <<>> /\ <<>> \in Seq(Queued)
  BY EmptySeq DEF Init
<1>2. Len(<<>>) = 0
  OBVIOUS
<1> QED BY <1>1, <1>2, LinkAssumption DEF Init, SequenceTypes

\* Every step moves datagrams from one sequence to the next.
LEMMA StepSequenceTypes == SequenceTypes /\ [Next]_vars => SequenceTypes'
<1> SUFFICES ASSUME SequenceTypes, [Next]_vars PROVE SequenceTypes'
  OBVIOUS
<1>1. /\ RcvBuf \in Nat /\ BatchMax \in Nat /\ MaxArrivals \in Nat
      /\ rcvbuf \in Seq(Queued) /\ batch \in Seq(Queued) /\ unread \in Seq(Queued)
      /\ arrivals \in Int /\ sk_drops \in Nat
  BY LinkAssumption DEF SequenceTypes
<1>2. ASSUME NEW d \in Datagram, Arrive(d) PROVE SequenceTypes'
  <2>1. [d |-> d, before |-> sk_drops] \in Queued
    BY <1>1 DEF Queued
  <2>2. rcvbuf' \in Seq(Queued) /\ Len(rcvbuf') = Len(rcvbuf) + 1 /\ Len(rcvbuf) \in Nat
    BY <1>1, <1>2, <2>1, SequenceSteps DEF Arrive
  <2>3. Len(rcvbuf') <= RcvBuf /\ arrivals' \in 0 .. MaxArrivals
    BY <1>1, <1>2, <2>2 DEF Arrive, SequenceTypes
  <2> QED BY <1>2, <2>2, <2>3 DEF Arrive, SequenceTypes
<1>3. ASSUME NEW d \in Datagram, Handle(d) PROVE SequenceTypes'
  <2>1. Take(d)
    BY <1>3 DEF Handle, SkipForeign, SkipStatus, SkipMalformed, FirstIq, NextIq, LateIq,
                Process
  <2>2. rxPc = "process" /\ batch # <<>>
    BY <2>1 DEF Take, SequenceTypes
  <2>3. batch' \in Seq(Queued) /\ Len(batch') = Len(batch) - 1 /\ Len(batch) \in Nat
    BY <1>1, <2>1, <2>2, SequenceSteps DEF Take
  <2>4. rxPc' = IF batch' = <<>> THEN "recv" ELSE "process"
    BY <2>1 DEF Take
  <2>5. Len(batch') <= BatchMax
    BY <1>1, <2>3 DEF SequenceTypes
  <2>6. UNCHANGED <<arrivals, rcvbuf, sk_drops, unread>>
    BY <2>1 DEF Take, netVars
  <2>7. unread = <<>>
    BY <2>2 DEF SequenceTypes
  <2> QED BY <2>2, <2>3, <2>4, <2>5, <2>6, <2>7 DEF SequenceTypes
<1>4. CASE Overflow
  BY <1>1, <1>4 DEF Overflow, SequenceTypes
<1>5. CASE Recv
  <2>1. Head(rcvbuf) \in Queued /\ rcvbuf' \in Seq(Queued) /\ Len(rcvbuf') = Len(rcvbuf) - 1
    BY <1>1, <1>5, SequenceSteps DEF Recv
  <2>2. /\ batch' \in Seq(Queued) /\ batch' # <<>> /\ Len(batch') = Len(batch) + 1
        /\ unread' \in Seq(Queued) /\ unread' # <<>>
        /\ Len(batch) \in Nat /\ Len(rcvbuf) \in Nat
    BY <1>1, <1>5, <2>1, SequenceSteps DEF Recv
  <2>3. Len(batch') <= BatchMax /\ Len(rcvbuf') <= RcvBuf
    BY <1>1, <1>5, <2>1, <2>2 DEF Recv, SequenceTypes
  <2>4. unread' = batch' /\ UNCHANGED <<arrivals, sk_drops, rxPc>>
    BY <1>5 DEF Recv, SequenceTypes
  <2> QED BY <1>5, <2>1, <2>2, <2>3, <2>4 DEF Recv, SequenceTypes
<1>6. CASE RecvDone
  BY <1>6 DEF RecvDone, BatchComplete, SequenceTypes, netVars
<1>7. CASE ReadControl
  <2>1. unread' \in Seq(Queued)
    BY <1>1, <1>7, SequenceSteps DEF ReadControl
  <2>2. rxPc' = IF unread' = <<>> THEN "process" ELSE "control"
    BY <1>7 DEF ReadControl
  <2>3. batch # <<>> /\ UNCHANGED <<arrivals, rcvbuf, sk_drops, batch>>
    BY <1>7 DEF ReadControl, SequenceTypes, netVars
  <2> QED BY <2>1, <2>2, <2>3 DEF SequenceTypes
<1>8. CASE Timeout \/ UNCHANGED vars
  BY <1>8 DEF Timeout, SequenceTypes, vars, netVars
<1> QED BY <1>2, <1>3, <1>4, <1>5, <1>6, <1>7, <1>8 DEF Next

-----------------------------------------------------------------------------
(* The drops *)

\* The counts attached to datagrams that follow each other do not decrease.
Ascending(s, lo, hi) ==
    \A i \in 1 .. Len(s) :
        /\ lo <= s[i].before /\ s[i].before <= hi
        /\ \A j \in i .. Len(s) : s[i].before <= s[j].before

\* What the code has added up is the kernel's count at some datagram already
\* read, and less than one turn of the count behind it; the counts still to be
\* read, in the batch and in the buffer behind it, ascend from there.  Inductive
\* with SequenceTypes.
DropsFollowed ==
    /\ sock_drops_total \in Nat /\ read_drops \in Nat
    /\ last_rxq_ovfl = sock_drops_total % DropSpace
    /\ sock_drops_total <= read_drops /\ read_drops <= sk_drops
    /\ sk_drops - sock_drops_total < DropSpace
    /\ read_drops % DropSpace # 0 => sock_drops_total = read_drops
    /\ Ascending(unread \o rcvbuf, read_drops, sk_drops)

\* A datagram queued now carries the highest count.
LEMMA AscendingAppend ==
    ASSUME NEW s \in Seq(Queued), NEW lo \in Nat, NEW hi \in Nat, lo <= hi,
           Ascending(s, lo, hi), NEW q \in Queued, q.before = hi
    PROVE  Ascending(Append(s, q), lo, hi)
<1> DEFINE t == Append(s, q)
<1>1. /\ Len(s) \in Nat /\ Len(t) = Len(s) + 1 /\ t[Len(s) + 1] = q
      /\ \A i \in 1 .. Len(s) : t[i] = s[i]
  OBVIOUS
<1> HIDE DEF t
<1>2. \A i \in 1 .. Len(s) : lo <= s[i].before /\ s[i].before <= hi
  BY DEF Ascending
<1>3. ASSUME NEW i \in 1 .. Len(t)
      PROVE  /\ lo <= t[i].before /\ t[i].before <= hi
             /\ \A j \in i .. Len(t) : t[i].before <= t[j].before
  <2>1. CASE i = Len(s) + 1
    <3>1. t[i].before = hi /\ \A j \in i .. Len(t) : j = i
      BY <1>1, <2>1
    <3> QED BY <3>1
  <2>2. CASE i # Len(s) + 1
    <3>1. i \in 1 .. Len(s) /\ t[i].before = s[i].before
      BY <1>1, <2>2
    <3>2. lo <= t[i].before /\ t[i].before <= hi
      BY <1>2, <3>1
    <3>3. ASSUME NEW j \in i .. Len(t)
          PROVE  t[i].before <= t[j].before
      <4>1. CASE j = Len(s) + 1
        BY <1>1, <3>2, <4>1
      <4>2. CASE j # Len(s) + 1
        <5>1. j \in i .. Len(s) /\ j \in 1 .. Len(s)
          BY <1>1, <3>1, <4>2
        <5> QED BY <1>1, <3>1, <5>1 DEF Ascending
      <4> QED BY <4>1, <4>2
    <3> QED BY <3>2, <3>3
  <2> QED BY <2>1, <2>2
<1> QED BY <1>3 DEF t, Ascending

\* What follows the first datagram ascends from the first one's count.
LEMMA AscendingTail ==
    ASSUME NEW s \in Seq(Queued), s # <<>>, NEW lo \in Nat, NEW hi \in Nat,
           Ascending(s, lo, hi)
    PROVE  /\ lo <= Head(s).before /\ Head(s).before <= hi
           /\ Ascending(Tail(s), Head(s).before, hi)
<1> DEFINE t == Tail(s)
<1>1. /\ Len(s) \in Nat \ {0} /\ Len(t) = Len(s) - 1 /\ Head(s) = s[1]
      /\ \A i \in 1 .. Len(t) : t[i] = s[i + 1]
  OBVIOUS
<1> HIDE DEF t
<1>2. lo <= Head(s).before /\ Head(s).before <= hi
  BY <1>1 DEF Ascending
<1>3. ASSUME NEW i \in 1 .. Len(t)
      PROVE  /\ Head(s).before <= t[i].before /\ t[i].before <= hi
             /\ \A j \in i .. Len(t) : t[i].before <= t[j].before
  <2>1. i + 1 \in 1 .. Len(s) /\ t[i] = s[i + 1]
    BY <1>1
  <2>2. Head(s).before <= t[i].before /\ t[i].before <= hi
    BY <1>1, <2>1 DEF Ascending
  <2>3. ASSUME NEW j \in i .. Len(t)
        PROVE  t[i].before <= t[j].before
    <3>1. j + 1 \in (i + 1) .. Len(s) /\ t[j] = s[j + 1]
      BY <1>1
    <3> QED BY <2>1, <3>1 DEF Ascending
  <2> QED BY <2>2, <2>3
<1> QED BY <1>2, <1>3 DEF t, Ascending

\* One datagram more dropped.
LEMMA AscendingHigher ==
    ASSUME NEW s \in Seq(Queued), NEW lo \in Nat, NEW hi \in Nat, Ascending(s, lo, hi)
    PROVE  Ascending(s, lo, hi + 1)
<1>1. ASSUME NEW i \in 1 .. Len(s) PROVE s[i].before \in Nat
  <2>1. s[i] \in Queued
    OBVIOUS
  <2> QED BY <2>1 DEF Queued
<1> QED BY <1>1 DEF Ascending

\* The datagrams yet to be read, when one is queued, received or read.
LEMMA PendingSteps ==
    ASSUME NEW u \in Seq(Queued), NEW r \in Seq(Queued)
    PROVE  /\ u \o r \in Seq(Queued)
           /\ \A q \in Queued : u \o Append(r, q) = Append(u \o r, q)
           /\ r # <<>> => Append(u, Head(r)) \o Tail(r) = u \o r
           /\ u # <<>> => /\ u \o r # <<>> /\ Head(u \o r) = Head(u)
                          /\ Tail(u \o r) = Tail(u) \o r
<1>1. u \o r \in Seq(Queued)
  OBVIOUS
<1>2. ASSUME NEW q \in Queued PROVE u \o Append(r, q) = Append(u \o r, q)
  OBVIOUS
<1>3. r # <<>> => Append(u, Head(r)) \o Tail(r) = u \o r
  OBVIOUS
<1>4. u # <<>> => /\ u \o r # <<>> /\ Head(u \o r) = Head(u)
                  /\ Tail(u \o r) = Tail(u) \o r
  OBVIOUS
<1> QED BY <1>1, <1>2, <1>3, <1>4

\* The total after a count was read at which the kernel stood at now.
CountedTo(acc, total, now) ==
    /\ acc.total \in Nat /\ acc.last = acc.total % DropSpace
    /\ total <= acc.total /\ acc.total <= now
    /\ now % DropSpace # 0 => acc.total = now

\* Reading a count: the difference of 32-bit numbers is what was dropped since.
LEMMA CountRead ==
    ASSUME NEW total \in Nat, NEW now \in Nat, total <= now, now - total < DropSpace,
           NEW q \in Queued, q.before = now
    PROVE  CountedTo(AddDrops([last |-> total % DropSpace, total |-> total], q), total, now)
<1> DEFINE acc == AddDrops([last |-> total % DropSpace, total |-> total], q)
<1>1. DropSpace \in Nat \ {0}
  BY LinkAssumption
<1> DEFINE v == now % DropSpace
<1>2. v \in Nat /\ total % DropSpace \in Nat
  BY <1>1
<1>3. (v - (total % DropSpace)) % DropSpace = now - total
  <2>1. now \in Int /\ total \in Int /\ now - total \in 0 .. DropSpace - 1
    BY <1>1
  <2> QED BY <1>1, <2>1, UnsignedDistance, Zenon
<1>4. ASSUME v = 0 PROVE CountedTo(acc, total, now)
  <2>1. acc = [last |-> total % DropSpace, total |-> total]
    BY <1>4 DEF AddDrops
  <2> HIDE DEF acc
  <2> QED BY <1>4, <2>1 DEF CountedTo
<1>5. ASSUME v = total % DropSpace PROVE CountedTo(acc, total, now)
  <2>1. acc = [last |-> total % DropSpace, total |-> total]
    BY <1>5 DEF AddDrops
  <2>2. now = total
    <3>1. now \in Int /\ total \in Int /\ -DropSpace < now - total /\ now - total < DropSpace
      BY <1>1
    <3> QED BY <1>1, <1>5, <3>1, RemaindersDiffer, Zenon
  <2> HIDE DEF acc
  <2> QED BY <2>1, <2>2 DEF CountedTo
<1>6. ASSUME v \notin {0, total % DropSpace} PROVE CountedTo(acc, total, now)
  <2>1. acc = [last |-> v, total |-> total + ((v - (total % DropSpace)) % DropSpace)]
    BY <1>6 DEF AddDrops
  <2>2. acc.last = v /\ acc.total = total + (now - total)
    BY <1>3, <2>1
  <2> HIDE DEF acc
  <2>3. acc.last = v /\ acc.total = now
    BY <2>2
  <2> QED BY <2>3 DEF CountedTo
<1>7. CountedTo(acc, total, now)
  BY <1>4, <1>5, <1>6
<1> QED BY <1>7 DEF acc

\* Nothing was dropped at first.
LEMMA InitDrops == Init => DropsFollowed
<1> SUFFICES ASSUME Init PROVE DropsFollowed
  OBVIOUS
<1>1. unread \o rcvbuf = <<>> /\ Len(<<>>) = 0
  BY DEF Init
<1>2. Ascending(unread \o rcvbuf, read_drops, sk_drops)
  BY <1>1 DEF Ascending
<1>3. DropSpace \in Nat \ {0} /\ 0 % DropSpace = 0
  BY LinkAssumption
<1> QED BY <1>2, <1>3 DEF Init, DropsFollowed

\* The variables of the count.
LEMMA DropsUntouched ==
    ASSUME DropsFollowed, UNCHANGED <<sk_drops, dropVars>>,
           unread' \o rcvbuf' = unread \o rcvbuf
    PROVE  DropsFollowed'
BY DEF DropsFollowed, dropVars

\* Whatever step is taken, the drops counted follow the counts read.
LEMMA StepDrops == SequenceTypes /\ DropsFollowed /\ [Next]_vars => DropsFollowed'
<1> SUFFICES ASSUME SequenceTypes, DropsFollowed, [Next]_vars PROVE DropsFollowed'
  OBVIOUS
<1> DEFINE pending == unread \o rcvbuf
<1>1. /\ rcvbuf \in Seq(Queued) /\ unread \in Seq(Queued) /\ sk_drops \in Nat
      /\ sock_drops_total \in Nat /\ read_drops \in Nat /\ DropSpace \in Nat \ {0}
      /\ last_rxq_ovfl = sock_drops_total % DropSpace
      /\ sock_drops_total <= read_drops /\ read_drops <= sk_drops
      /\ sk_drops - sock_drops_total < DropSpace
      /\ Ascending(pending, read_drops, sk_drops)
  BY LinkAssumption DEF SequenceTypes, DropsFollowed
<1>2. pending \in Seq(Queued)
  BY <1>1
<1>3. ASSUME NEW d \in Datagram, Arrive(d) PROVE DropsFollowed'
  <2> DEFINE q == [d |-> d, before |-> sk_drops]
  <2>1. q \in Queued /\ q.before = sk_drops
    BY <1>1 DEF Queued
  <2>2. rcvbuf' = Append(rcvbuf, q) /\ UNCHANGED <<sk_drops, unread, dropVars>>
    BY <1>3 DEF Arrive
  <2> HIDE DEF q
  <2>3. unread' \o rcvbuf' = Append(pending, q)
    BY <1>1, <2>1, <2>2, PendingSteps
  <2> HIDE DEF pending
  <2>4. Ascending(Append(pending, q), read_drops, sk_drops)
    BY <1>1, <1>2, <2>1, AscendingAppend
  <2> QED BY <2>2, <2>3, <2>4 DEF DropsFollowed, dropVars
<1>4. ASSUME NEW d \in Datagram, Handle(d) PROVE DropsFollowed'
  <2>1. Take(d)
    BY <1>4 DEF Handle, SkipForeign, SkipStatus, SkipMalformed, FirstIq, NextIq, LateIq,
                Process
  <2> QED BY <2>1, DropsUntouched DEF Take, netVars
<1>5. CASE Overflow
  <2>1. sk_drops' = sk_drops + 1 /\ sk_drops + 1 - sock_drops_total < DropSpace
        /\ UNCHANGED <<rcvbuf, unread, dropVars>>
    BY <1>5 DEF Overflow
  <2>2. Ascending(pending, read_drops, sk_drops + 1)
    <3> HIDE DEF pending
    <3> QED BY <1>1, <1>2, AscendingHigher
  <2> QED BY <1>1, <2>1, <2>2 DEF DropsFollowed, dropVars
<1>6. CASE Recv
  <2>1. unread' \o rcvbuf' = unread \o rcvbuf
    BY <1>1, <1>6, PendingSteps DEF Recv
  <2> QED BY <1>6, <2>1, DropsUntouched DEF Recv
<1>7. CASE RecvDone
  BY <1>7, DropsUntouched DEF RecvDone, netVars
<1>8. CASE ReadControl
  <2> DEFINE q == Head(unread)
             acc == AddDrops([last |-> last_rxq_ovfl, total |-> sock_drops_total], q)
  <2>1. /\ last_rxq_ovfl' = acc.last /\ sock_drops_total' = acc.total
        /\ read_drops' = q.before /\ unread # <<>> /\ unread' = Tail(unread)
        /\ UNCHANGED <<rcvbuf, sk_drops>>
    BY <1>8 DEF ReadControl, netVars
  <2>2. pending # <<>> /\ Head(pending) = q /\ unread' \o rcvbuf' = Tail(pending)
    BY <1>1, <2>1, PendingSteps
  <2>3. q \in Queued /\ q.before \in Nat
    <3>1. q \in Queued
      BY <1>1, <2>1, SequenceSteps
    <3> QED BY <3>1 DEF Queued
  <2>4. read_drops <= q.before /\ q.before <= sk_drops
        /\ Ascending(unread' \o rcvbuf', q.before, sk_drops)
    <3> HIDE DEF pending, q
    <3> QED BY <1>1, <1>2, <2>2, AscendingTail
  <2>5. acc = AddDrops([last |-> sock_drops_total % DropSpace,
                        total |-> sock_drops_total], q)
    BY <1>1
  <2> HIDE DEF q, acc, pending
  <2>6. PICK total \in Nat, now \in Nat : sock_drops_total = total /\ q.before = now
    BY <1>1, <2>3
  <2>7. total <= now /\ now - total < DropSpace /\ q \in Queued
        /\ acc = AddDrops([last |-> total % DropSpace, total |-> total], q)
    BY <1>1, <2>3, <2>4, <2>5, <2>6
  <2>8. CountedTo(acc, total, now)
    BY <2>6, <2>7, CountRead, Zenon
  <2>9. /\ acc.total \in Nat /\ acc.last = acc.total % DropSpace
        /\ sock_drops_total <= acc.total /\ acc.total <= q.before
        /\ q.before % DropSpace # 0 => acc.total = q.before
    BY <2>6, <2>8 DEF CountedTo
  <2>10. sk_drops - acc.total < DropSpace
    <3>1. acc.total \in Int /\ sock_drops_total <= acc.total
      BY <2>9
    <3>2. /\ sk_drops \in Int /\ sock_drops_total \in Int /\ DropSpace \in Int
          /\ sk_drops - sock_drops_total < DropSpace
      BY <1>1
    <3> QED BY <3>1, <3>2
  <2> QED BY <2>1, <2>3, <2>4, <2>9, <2>10 DEF DropsFollowed
<1>9. CASE Timeout \/ UNCHANGED vars
  BY <1>9, DropsUntouched DEF Timeout, vars, netVars
<1> QED BY <1>3, <1>4, <1>5, <1>6, <1>7, <1>8, <1>9 DEF Next

\* So they do at all times.
LEMMA DropsAlways == Spec => [](SequenceTypes /\ DropsFollowed)
<1>1. Init => SequenceTypes /\ DropsFollowed
  BY InitSequenceTypes, InitDrops
<1>2. SequenceTypes /\ DropsFollowed /\ [Next]_vars => (SequenceTypes /\ DropsFollowed)'
  BY StepSequenceTypes, StepDrops
<1> QED BY <1>1, <1>2, PTL DEF Spec

\* The drops counted are never more than there were, and are all there were when
\* the last datagram read carried a count, however often the count goes round
\* (hpsdr-protocol2.c:502-511, stats.c:142-146).
THEOREM DropsAreCounted == Spec => []DropsCounted
<1>1. SequenceTypes /\ DropsFollowed => DropsCounted
  BY DEF SequenceTypes, DropsFollowed, DropsCounted
<1> QED BY <1>1, DropsAlways, PTL

\* The number expected is a sequence number.
ExpectedType == expected_seq \in 0 .. SeqSpace - 1

\* It is one from the start and after every packet.
LEMMA ExpectedTypeAlways == Spec => []ExpectedType
<1>1. SeqSpace \in Nat \ {0}
  BY LinkAssumption
<1>2. Init => ExpectedType
  BY <1>1 DEF Init, ExpectedType
<1>3. ExpectedType /\ [Next]_vars => ExpectedType'
  <2> SUFFICES ASSUME ExpectedType, [Next]_vars PROVE ExpectedType'
    OBVIOUS
  <2>1. CASE \E d \in Datagram : FirstIq(d) \/ NextIq(d)
    <3>1. PICK d \in Datagram : FirstIq(d) \/ NextIq(d)
      BY <2>1
    <3>2. expected_seq' = (d.n + 1) % SeqSpace /\ d.n \in Int
      BY <3>1, ProcessedIsRadios, PacketsAreNumbers DEF FirstIq, NextIq, Accept, Wire
    <3> QED BY <1>1, <3>2 DEF ExpectedType
  <2>2. CASE UNCHANGED expected_seq
    BY <2>2 DEF ExpectedType
  <2>3. (\E d \in Datagram : FirstIq(d) \/ NextIq(d)) \/ UNCHANGED expected_seq
    BY DEF Next, Handle, Arrive, SkipForeign, SkipStatus, SkipMalformed, LateIq, Overflow,
           Recv, RecvDone, ReadControl, Timeout, vars, trackVars
  <2> QED BY <2>1, <2>2, <2>3
<1> QED BY <1>2, <1>3, PTL DEF Spec

\* Every variable of the way into the program keeps its type: no buffer holds
\* more than its size, the counts are counts, and the sequence number and the
\* kernel's count kept stay within 32 bits (hpsdr-protocol2.c:471-513,
\* streaming.c:182-195).
THEOREM LinkTypes == Spec => []TypeOK
<1>1. Followed /\ SequenceTypes /\ DropsFollowed /\ ExpectedType => TypeOK
  <2> SUFFICES ASSUME Followed, SequenceTypes, DropsFollowed, ExpectedType PROVE TypeOK
    OBVIOUS
  <2>1. last_rxq_ovfl \in 0 .. DropSpace - 1
    BY LinkAssumption DEF DropsFollowed
  <2>2. first_pkt \in BOOLEAN
    BY Zenon DEF Followed
  <2> QED BY <2>1, <2>2 DEF Followed, SequenceTypes, DropsFollowed, ExpectedType, TypeOK
<1> QED BY <1>1, FollowedAlways, DropsAlways, ExpectedTypeAlways, PTL
=============================================================================
