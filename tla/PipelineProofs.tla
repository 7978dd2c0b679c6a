--------------------------- MODULE PipelineProofs ---------------------------
(***************************************************************************)
(* Theorems about the recording pipeline, for every ring size, packet      *)
(* size, sequence-number width and link the assumptions of module Pipeline *)
(* allow.                                                                  *)
(***************************************************************************)
EXTENDS PipelineProps, SequenceNumbers, TLAPS

-----------------------------------------------------------------------------
(* Arithmetic *)

\* An index advanced by at most the size of the ring wraps back into it.
LEMMA WrapInIndex ==
    ASSUME NEW i \in 0 .. 2 * SamplesSize - 1
    PROVE  Wrap(i) \in Index
BY SizeAssumption DEF Wrap, Index, SizeAssumption

\* Sequence numbers that differ by less than the whole space are equal only if
\* the packets are (streaming.c:185).
LEMMA WireInjective ==
    ASSUME NEW p \in Int, NEW q \in Int, -SeqSpace < p - q, p - q < SeqSpace,
           Wire(p) = Wire(q)
    PROVE  p = q
<1>1. SeqSpace \in Nat \ {0}
  BY LinkAssumption DEF LinkAssumption
<1> QED BY <1>1, RemaindersDiffer DEF Wire

\* Taken modulo the space and read as a signed number, the difference of two
\* sequence numbers is the distance of the packets, as long as that is less
\* than half the space (streaming.c:186).
LEMMA SignedGapExact ==
    ASSUME NEW p \in Int, NEW e \in Int, expected_seq = Wire(e),
           p - e \in -HalfSeq .. HalfSeq - 1
    PROVE  SignedGap(Wire(p)) = p - e
<1>1. SeqSpace \in Nat /\ HalfSeq \in Nat \ {0} /\ SeqSpace = HalfSeq + HalfSeq
  BY LinkAssumption DEF LinkAssumption, HalfSeq
<1>2. SignedGap(Wire(p)) =
          Signed(((p % SeqSpace) - (e % SeqSpace)) % SeqSpace, SeqSpace, HalfSeq)
  BY Zenon DEF SignedGap, Signed, Wire
<1> QED BY <1>1, <1>2, SignedDistance, Zenon

-----------------------------------------------------------------------------
(* Type correctness *)

\* The padding of a hole is no longer than the hole, nor than the room.
LEMMA PadLengthBounds ==
    ASSUME TypeOK, RoomStillThere, NEW p, SignedGap(Wire(p)) \in Nat, rxPc = "recv"
    PROVE  /\ Missing(p) \in Nat /\ Room \in 0 .. SamplesSize
           /\ PadLength(p) \in 0 .. Room
           /\ Missing(p) - PadLength(p) \in Nat
<1>1. QuadsPerPacket \in Nat /\ SamplesSize \in Nat
  BY SizeAssumption DEF SizeAssumption
<1>2. Missing(p) \in Nat
  BY <1>1 DEF Missing
<1>3. Room \in 0 .. SamplesSize
  BY <1>1 DEF Room, TypeOK, RoomStillThere
<1> QED BY <1>1, <1>2, <1>3 DEF PadLength

\* An arriving packet lies in the window the link allows.
LEMMA ArrivalInWindow ==
    ASSUME IInv, NEW p, Arrives(p), ~first_pkt
    PROVE  /\ p \in Nat /\ newest \in Nat
           /\ expected_seq = Wire(newest + 1)
           /\ p - (newest + 1) \in -HalfSeq .. HalfSeq - 1
<1>1. HalfSeq \in Nat /\ MaxStep \in Nat /\ MaxStep < HalfSeq
      /\ MaxDelay \in Nat /\ MaxDelay < HalfSeq /\ FirstPacket \in Nat /\ MaxPacket \in Nat
  BY LinkAssumption DEF LinkAssumption, HalfSeq
<1>2. p \in Nat /\ newest \in Nat
  BY <1>1 DEF Arrives, IInv, TypeOK
<1>3. p - newest \in -MaxDelay .. MaxStep
  BY DEF Arrives
<1>4. expected_seq = Wire(newest + 1)
  BY DEF Arrives, IInv, Tracking
<1> QED BY <1>1, <1>2, <1>3, <1>4

\* What the code computes from two sequence numbers is how many packets are
\* missing before p; it is negative if p is late.
LEMMA GapExact ==
    ASSUME IInv, NEW p, Arrives(p), ~first_pkt
    PROVE  SignedGap(Wire(p)) = p - newest - 1
<1>1. /\ p \in Nat /\ newest \in Nat
      /\ expected_seq = Wire(newest + 1)
      /\ p - (newest + 1) \in -HalfSeq .. HalfSeq - 1
  BY ArrivalInWindow
<1>2. p \in Int /\ newest + 1 \in Int
  BY <1>1
<1>3. SignedGap(Wire(p)) = p - (newest + 1)
  BY <1>1, <1>2, SignedGapExact
<1> QED BY <1>1, <1>3

\* A packet whose number is the expected one is the successor of the newest.
LEMMA NextPktIsSuccessor ==
    ASSUME IInv, NEW p, NextPkt(p)
    PROVE  p = newest + 1
<1>1. Arrives(p) /\ ~first_pkt /\ Wire(p) = expected_seq
  BY DEF NextPkt
<1>2. /\ p \in Nat /\ newest \in Nat
      /\ expected_seq = Wire(newest + 1)
      /\ p - (newest + 1) \in -HalfSeq .. HalfSeq - 1
  BY <1>1, ArrivalInWindow
<1>3. HalfSeq \in Nat /\ SeqSpace \in Nat \ {0} /\ SeqSpace = HalfSeq + HalfSeq
  BY LinkAssumption DEF LinkAssumption, HalfSeq
<1>4. /\ p \in Int /\ newest + 1 \in Int
      /\ -SeqSpace < p - (newest + 1) /\ p - (newest + 1) < SeqSpace
  BY <1>2, <1>3
<1>5. Wire(p) = Wire(newest + 1)
  BY <1>1, <1>2
<1> QED BY <1>4, <1>5, WireInjective

\* A wire sequence number is one.
LEMMA WireInSpace ==
    ASSUME NEW n \in Nat
    PROVE  Wire(n) \in 0 .. SeqSpace - 1
<1>1. SeqSpace \in Nat \ {0} /\ n \in Int
  BY LinkAssumption DEF LinkAssumption
<1> QED BY <1>1, DivMod DEF Wire

\* Every cell lies less than a ring ahead of the write index.
LEMMA AheadType ==
    ASSUME TypeOK, NEW i \in Index
    PROVE  Ahead(i) \in Index
<1>1. samples_resource.write_index \in Index /\ SamplesSize \in Nat \ {0}
  BY SizeAssumption DEF SizeAssumption, TypeOK
<1> QED BY <1>1 DEF Ahead, Index

\* Filling the ring keeps it a ring, whatever integers are stored.
LEMMA FillRingType ==
    ASSUME TypeOK, NEW n \in 0 .. SamplesSize,
           samples_resource' = [write_index |-> Wrap(samples_resource.write_index + n),
                                nused |-> samples_resource.nused + n]
    PROVE  samples_resource' \in [write_index : Index, nused : Nat]
<1>1. /\ samples_resource.write_index \in Index /\ samples_resource.nused \in Nat
  BY DEF TypeOK
<1>2. /\ samples_resource.write_index + n \in 0 .. 2 * SamplesSize - 1
      /\ samples_resource.nused + n \in Nat
  BY <1>1, SizeAssumption DEF Index, SizeAssumption
<1>3. Wrap(samples_resource.write_index + n) \in Index
  BY <1>2, WrapInIndex
<1> QED BY <1>2, <1>3

\* Publishing a descriptor keeps the descriptor ring typed and its spans short.
LEMMA PublishType ==
    ASSUME TypeOK, Bounded, NEW n \in 0 .. SamplesSize, PublishBlock(n)
    PROVE  /\ blocks' \in [Slot -> [num_samples : Nat, samples_index : Index]]
           /\ blocks_resource' \in [read_index : Slot, write_index : Slot, nready : Nat]
           /\ lapped' \in BOOLEAN
           /\ \A i \in Slot : blocks'[i].num_samples <= SamplesSize
           /\ blocks_resource'.nready >= blocks_resource.nready
<1>1. /\ BlocksSize \in Nat \ {0} /\ SamplesSize \in Nat
      /\ blocks_resource.write_index + 1 \in Int
  BY SizeAssumption DEF SizeAssumption, TypeOK, Slot
<1>2. (blocks_resource.write_index + 1) % BlocksSize \in Slot
  BY <1>1, DivMod DEF Slot
<1>3. blocks_resource' = [blocks_resource EXCEPT
            !.write_index = (blocks_resource.write_index + 1) % BlocksSize,
            !.nready = blocks_resource.nready + 1]
  BY DEF PublishBlock
<1>4. blocks' = [blocks EXCEPT ![blocks_resource.write_index] =
                     [num_samples |-> n, samples_index |-> start_index]]
  BY DEF PublishBlock
<1>5. lapped' \in BOOLEAN
  BY DEF PublishBlock
<1>6. /\ blocks' \in [Slot -> [num_samples : Nat, samples_index : Index]]
      /\ \A i \in Slot : blocks'[i].num_samples <= SamplesSize
  <2>1. /\ blocks \in [Slot -> [num_samples : Nat, samples_index : Index]]
        /\ blocks_resource.write_index \in Slot
        /\ \A i \in Slot : blocks[i].num_samples <= SamplesSize
        /\ n \in Nat /\ n <= SamplesSize
    BY <1>1 DEF TypeOK, Bounded
  <2>2. [num_samples |-> n, samples_index |-> start_index]
            \in [num_samples : Nat, samples_index : Index]
    BY <2>1 DEF TypeOK
  <2>3. blocks' \in [Slot -> [num_samples : Nat, samples_index : Index]]
    BY <1>4, <2>1, <2>2
  <2>4. ASSUME NEW i \in Slot
        PROVE  blocks'[i].num_samples <= SamplesSize
    <3>1. CASE i = blocks_resource.write_index
      BY <1>4, <2>1, <3>1
    <3>2. CASE i # blocks_resource.write_index
      BY <1>4, <2>1, <3>2
    <3> QED BY <3>1, <3>2
  <2> QED BY <2>3, <2>4
<1>7. /\ blocks_resource' \in [read_index : Slot, write_index : Slot, nready : Nat]
      /\ blocks_resource'.nready >= blocks_resource.nready
  <2>1. blocks_resource \in [read_index : Slot, write_index : Slot, nready : Nat]
    BY DEF TypeOK
  <2>2. blocks_resource.nready \in Nat /\ blocks_resource.nready + 1 \in Nat
    BY <2>1
  <2>3. blocks_resource'.nready = blocks_resource.nready + 1
    BY <1>3, <2>1
  <2>4. ASSUME NEW w \in Slot, NEW m \in Nat
        PROVE  [blocks_resource EXCEPT !.write_index = w, !.nready = m]
                   \in [read_index : Slot, write_index : Slot, nready : Nat]
    BY <2>1
  <2>5. blocks_resource' \in [read_index : Slot, write_index : Slot, nready : Nat]
    BY <1>2, <1>3, <2>2, <2>4
  <2> QED BY <2>2, <2>3, <2>5
<1> QED BY <1>5, <1>6, <1>7

\* An arrival counts at most a batch of packets after the stop.
LEMMA ArrivesType ==
    ASSUME TypeOK, NEW p, Arrives(p)
    PROVE  afterStop' \in 0 .. BatchMax
<1>1. BatchMax \in Nat /\ afterStop \in 0 .. BatchMax
  BY SizeAssumption DEF SizeAssumption, TypeOK
<1> QED BY <1>1 DEF Arrives

\* A part of the span ends no later than the span.
LEMMA PartEndBounds ==
    ASSUME TypeOK
    PROVE  PartEnd \in Nat /\ PartEnd <= span.total
<1>1. /\ SamplesSize \in Nat \ {0} /\ span.start \in 0 .. SamplesSize - 1
      /\ span.total \in Nat /\ span.done \in Nat
  BY SizeAssumption DEF SizeAssumption, TypeOK, Index
<1> QED BY <1>1 DEF PartEnd

\* The coalescing loop reads a slot of the descriptor ring.
LEMMA TakenIsBlock ==
    ASSUME TypeOK
    PROVE  /\ (blocks_resource.read_index + span.taken) % BlocksSize \in Slot
           /\ NextTaken \in [num_samples : Nat, samples_index : Index]
<1>1. BlocksSize \in Nat \ {0} /\ blocks_resource.read_index + span.taken \in Int
  BY SizeAssumption DEF SizeAssumption, TypeOK, Slot
<1>2. (blocks_resource.read_index + span.taken) % BlocksSize \in Slot
  BY <1>1, DivMod DEF Slot
<1> QED BY <1>2 DEF NextTaken, TypeOK

\* Every counter of the statistics is a number.
LEMMA CounterType ==
    ASSUME TypeOK
    PROVE  /\ stats.total_samples \in Nat /\ stats.total_lost \in Nat
           /\ stats.gap_packets \in Nat /\ stats.gap_samples_padded \in Nat
           /\ stats.reordered_packets \in Nat /\ stats.slipped_samples \in Nat
           /\ stats.failed \in Nat
BY DEF TypeOK, Counter

\* Every step keeps every variable in its type.
LEMMA TypeStep ==
    ASSUME IInv, [Next]_vars
    PROVE  TypeOK'
<1> USE DEF RxPc, OutPc, MainPc, netVars, seqVars, ringVars, blockVars, outVars, mainVars
<1>a. TypeOK /\ Bounded /\ RoomStillThere /\ SpanInRing
  BY DEF IInv
<1>b. /\ SamplesSize \in Nat \ {0} /\ BlocksSize \in Nat \ {0}
      /\ QuadsPerPacket \in 1 .. SamplesSize /\ QuadsPerPacket \in Nat
      /\ FirstPacket \in Nat /\ MaxPacket \in Nat
  BY SizeAssumption, LinkAssumption DEF SizeAssumption, LinkAssumption
<1>c. CASE UNCHANGED vars
  BY <1>a, <1>c DEF TypeOK, vars
<1>1. ASSUME NEW p \in FirstPacket .. MaxPacket, FirstPkt(p)
      PROVE  TypeOK'
  <2>1. p \in Nat /\ p + 1 \in Nat
    BY <1>b, <1>1
  <2>2. Wire(p + 1) \in 0 .. SeqSpace - 1
    BY <2>1, WireInSpace
  <2>3. afterStop' \in 0 .. BatchMax
    BY <1>a, <1>1, ArrivesType DEF FirstPkt
  <2>7. /\ first_pkt' \in BOOLEAN /\ newest' = p /\ origin' = p
        /\ expected_seq' = Wire(p + 1) /\ rxPc' \in RxPc
        /\ UNCHANGED <<npad, start_index, ringVars, blockVars, outVars, stats,
                      mainVars>>
    BY <1>1 DEF FirstPkt
  <2> QED BY <1>a, <2>1, <2>2, <2>3, <2>7 DEF TypeOK
<1>2. ASSUME NEW p \in FirstPacket .. MaxPacket, NextPkt(p)
      PROVE  TypeOK'
  <2>1. p \in Nat /\ p + 1 \in Nat
    BY <1>b, <1>2
  <2>2. Wire(p + 1) \in 0 .. SeqSpace - 1
    BY <2>1, WireInSpace
  <2>3. afterStop' \in 0 .. BatchMax
    BY <1>a, <1>2, ArrivesType DEF NextPkt
  <2>7. /\ newest' = p /\ expected_seq' = Wire(p + 1) /\ rxPc' \in RxPc
        /\ UNCHANGED <<origin, first_pkt, npad, start_index, ringVars, blockVars,
                      outVars, stats, mainVars>>
    BY <1>2 DEF NextPkt
  <2> QED BY <1>a, <2>1, <2>2, <2>3, <2>7 DEF TypeOK
<1>3. ASSUME NEW p \in FirstPacket .. MaxPacket, LatePkt(p)
      PROVE  TypeOK'
  <2>1. afterStop' \in 0 .. BatchMax
    BY <1>a, <1>3, ArrivesType DEF LatePkt
  <2>2. stats' \in [Counter -> Nat]
    <3>1. ASSUME NEW a \in Nat
          PROVE  [stats EXCEPT !.reordered_packets = a] \in [Counter -> Nat]
      BY <1>a DEF TypeOK
    <3>2. stats.reordered_packets + 1 \in Nat
      BY <1>a, CounterType
    <3> QED BY <1>3, <3>1, <3>2 DEF LatePkt
  <2>3. UNCHANGED <<newest, origin, rxPc, seqVars, npad, start_index, ringVars,
                    blockVars, outVars, mainVars>>
    BY <1>3 DEF LatePkt
  <2> QED BY <1>a, <2>1, <2>2, <2>3 DEF TypeOK
<1>4. ASSUME NEW p \in FirstPacket .. MaxPacket, GapWithRoom(p)
      PROVE  TypeOK'
  <2>1. p \in Nat /\ p + 1 \in Nat
    BY <1>b, <1>4
  <2>2. Wire(p + 1) \in 0 .. SeqSpace - 1
    BY <2>1, WireInSpace
  <2>3. afterStop' \in 0 .. BatchMax
    BY <1>a, <1>4, ArrivesType DEF GapWithRoom
  <2>4. rxPc = "recv" /\ SignedGap(Wire(p)) \in Nat
    <3>1. Arrives(p) /\ ~first_pkt /\ SignedGap(Wire(p)) > 0
      BY <1>4 DEF GapWithRoom
    <3>2. SignedGap(Wire(p)) = p - newest - 1
      BY <3>1, GapExact
    <3>3. newest \in Nat /\ p - newest - 1 \in Int
      BY <1>a, <2>1 DEF TypeOK
    <3> QED BY <3>1, <3>2, <3>3 DEF Arrives
  <2>5. /\ Missing(p) \in Nat /\ PadLength(p) \in Nat
        /\ Missing(p) - PadLength(p) \in Nat
    <3>1. /\ Missing(p) \in Nat /\ Room \in 0 .. SamplesSize
          /\ PadLength(p) \in 0 .. Room
          /\ Missing(p) - PadLength(p) \in Nat
      BY <1>a, <2>4, PadLengthBounds
    <3> QED BY <1>b, <3>1
  <2>6. stats' \in [Counter -> Nat]
    <3>1. ASSUME NEW a \in Nat, NEW b \in Nat, NEW c \in Nat, NEW d \in Nat
          PROVE  [stats EXCEPT !.slipped_samples = a, !.gap_packets = b,
                               !.gap_samples_padded = c, !.total_lost = d]
                     \in [Counter -> Nat]
      BY <1>a DEF TypeOK
    <3>2. ASSUME NEW a \in Nat, NEW b \in Nat, NEW c \in Nat
          PROVE  [stats EXCEPT !.slipped_samples = a, !.gap_packets = b,
                               !.gap_samples_padded = c] \in [Counter -> Nat]
      BY <1>a DEF TypeOK
    <3>3. /\ stats.slipped_samples + Missing(p) - PadLength(p) \in Nat
          /\ stats.gap_packets + SignedGap(Wire(p)) \in Nat
          /\ stats.gap_samples_padded + PadLength(p) \in Nat
          /\ stats.total_lost + Missing(p) \in Nat
      BY <1>a, <2>4, <2>5, CounterType
    <3> QED BY <1>4, <3>1, <3>2, <3>3 DEF GapWithRoom
  <2>7. /\ newest' = p /\ npad' = PadLength(p) /\ rxPc' \in RxPc
        /\ UNCHANGED <<origin, seqVars, start_index, ringVars, blockVars, outVars,
                      mainVars>>
    BY <1>4 DEF GapWithRoom
  <2> QED BY <1>a, <2>1, <2>3, <2>5, <2>6, <2>7 DEF TypeOK
<1>5. ASSUME NEW p \in FirstPacket .. MaxPacket, GapWithoutRoom(p)
      PROVE  TypeOK'
  <2>1. p \in Nat /\ p + 1 \in Nat
    BY <1>b, <1>5
  <2>2. Wire(p + 1) \in 0 .. SeqSpace - 1
    BY <2>1, WireInSpace
  <2>3. afterStop' \in 0 .. BatchMax
    BY <1>a, <1>5, ArrivesType DEF GapWithoutRoom
  <2>4. rxPc = "recv" /\ SignedGap(Wire(p)) \in Nat
    <3>1. Arrives(p) /\ ~first_pkt /\ SignedGap(Wire(p)) > 0
      BY <1>5 DEF GapWithoutRoom
    <3>2. SignedGap(Wire(p)) = p - newest - 1
      BY <3>1, GapExact
    <3>3. newest \in Nat /\ p - newest - 1 \in Int
      BY <1>a, <2>1 DEF TypeOK
    <3> QED BY <3>1, <3>2, <3>3 DEF Arrives
  <2>5. /\ Missing(p) \in Nat /\ PadLength(p) \in Nat
        /\ Missing(p) - PadLength(p) \in Nat
    <3>1. /\ Missing(p) \in Nat /\ Room \in 0 .. SamplesSize
          /\ PadLength(p) \in 0 .. Room
          /\ Missing(p) - PadLength(p) \in Nat
      BY <1>a, <2>4, PadLengthBounds
    <3> QED BY <1>b, <3>1
  <2>6. stats' \in [Counter -> Nat]
    <3>1. ASSUME NEW a \in Nat, NEW b \in Nat, NEW c \in Nat, NEW d \in Nat
          PROVE  [stats EXCEPT !.slipped_samples = a, !.gap_packets = b,
                               !.gap_samples_padded = c, !.total_lost = d]
                     \in [Counter -> Nat]
      BY <1>a DEF TypeOK
    <3>2. ASSUME NEW a \in Nat, NEW b \in Nat, NEW c \in Nat
          PROVE  [stats EXCEPT !.slipped_samples = a, !.gap_packets = b,
                               !.gap_samples_padded = c] \in [Counter -> Nat]
      BY <1>a DEF TypeOK
    <3>3. /\ stats.slipped_samples + Missing(p) - PadLength(p) \in Nat
          /\ stats.gap_packets + SignedGap(Wire(p)) \in Nat
          /\ stats.gap_samples_padded + PadLength(p) \in Nat
          /\ stats.total_lost + Missing(p) \in Nat
      BY <1>a, <2>4, <2>5, CounterType
    <3> QED BY <1>5, <3>1, <3>2, <3>3 DEF GapWithoutRoom
  <2>7. /\ newest' = p /\ expected_seq' = Wire(p + 1) /\ rxPc' \in RxPc
        /\ UNCHANGED <<origin, first_pkt, npad, start_index, ringVars, blockVars,
                      outVars, mainVars>>
    BY <1>5 DEF GapWithoutRoom
  <2> QED BY <1>a, <2>1, <2>2, <2>3, <2>6, <2>7 DEF TypeOK
<1>6. CASE Pad
  <2>1. npad \in 0 .. SamplesSize
    BY <1>a, <1>b, <1>6 DEF Pad, Bounded, TypeOK
  <2>2. samples_resource' \in [write_index : Index, nused : Nat]
    BY <1>a, <2>1, <1>6, FillRingType DEF Pad, FillRing
  <2>3. insamples' \in [Index -> Cell]
    <3>1. \A i \in Index : Ahead(i) \in Nat
      BY <1>a, AheadType DEF Index
    <3> DEFINE content == [k \in 0 .. npad - 1 |-> Zero]
    <3>2. \A k \in 0 .. npad - 1 : content[k] \in Cell
      BY DEF Cell, Zero
    <3>3. insamples' = [i \in Index |-> IF Ahead(i) < npad
                                       THEN content[Ahead(i)] ELSE insamples[i]]
      BY <1>6 DEF Pad, FillRing
    <3> HIDE DEF content
    <3> QED BY <1>a, <2>1, <3>1, <3>2, <3>3 DEF TypeOK
  <2>4. start_index' \in Index
    BY <1>a, <1>6 DEF Pad, FillRing, TypeOK
  <2>7. /\ rxPc' \in RxPc
        /\ UNCHANGED <<netVars, seqVars, npad, blockVars, outVars, stats, mainVars>>
    BY <1>6 DEF Pad
  <2> QED BY <1>a, <2>2, <2>3, <2>4, <2>7 DEF TypeOK
<1>7. CASE PadBlock
  <2>1. npad \in 0 .. SamplesSize
    BY <1>a, <1>b, <1>7 DEF PadBlock, Bounded, TypeOK
  <2>2. /\ blocks' \in [Slot -> [num_samples : Nat, samples_index : Index]]
        /\ blocks_resource' \in [read_index : Slot, write_index : Slot, nready : Nat]
        /\ lapped' \in BOOLEAN
    BY <1>a, <2>1, <1>7, PublishType DEF PadBlock
  <2>3. Wire(newest + 1) \in 0 .. SeqSpace - 1
    <3>1. newest + 1 \in Nat
      BY <1>a DEF TypeOK
    <3> QED BY <3>1, WireInSpace
  <2>4. expected_seq' \in 0 .. SeqSpace - 1
    BY <1>7, <2>3 DEF PadBlock
  <2>7. /\ npad' \in Nat /\ rxPc' \in RxPc
        /\ UNCHANGED <<netVars, first_pkt, start_index, ringVars, outVars, stats,
                      mainVars>>
    BY <1>7 DEF PadBlock
  <2> QED BY <1>a, <2>2, <2>4, <2>7 DEF TypeOK
<1>8. CASE Store
  <2>1. QuadsPerPacket \in 0 .. SamplesSize
    BY <1>a, <1>b, <1>8 DEF Store, Bounded, TypeOK
  <2>2. samples_resource' \in [write_index : Index, nused : Nat]
    BY <1>a, <2>1, <1>8, FillRingType DEF Store, FillRing
  <2>3. insamples' \in [Index -> Cell]
    <3> DEFINE content == [k \in 0 .. QuadsPerPacket - 1 |-> Instant(newest, k)]
    <3>1. \A i \in Index : Ahead(i) \in Nat
      BY <1>a, AheadType DEF Index
    <3>2. \A k \in 0 .. QuadsPerPacket - 1 : content[k] \in Cell
      BY <1>a, <1>b DEF Instant, TypeOK, Cell
    <3>3. insamples' = [i \in Index |-> IF Ahead(i) < QuadsPerPacket
                                       THEN content[Ahead(i)] ELSE insamples[i]]
      BY <1>8 DEF Store, FillRing
    <3> HIDE DEF content
    <3> QED BY <1>a, <1>b, <3>1, <3>2, <3>3 DEF TypeOK
  <2>4. start_index' \in Index
    BY <1>a, <1>8 DEF Store, FillRing, TypeOK
  <2>7. /\ rxPc' \in RxPc
        /\ UNCHANGED <<netVars, seqVars, npad, blockVars, outVars, stats, mainVars>>
    BY <1>8 DEF Store
  <2> QED BY <1>a, <2>2, <2>3, <2>4, <2>7 DEF TypeOK
<1>9. CASE Overrun
  <2>1. stats' \in [Counter -> Nat]
    <3>1. ASSUME NEW a \in Nat
          PROVE  [stats EXCEPT !.total_lost = a] \in [Counter -> Nat]
      BY <1>a DEF TypeOK
    <3>2. stats.total_lost + QuadsPerPacket \in Nat
      BY <1>a, <1>b, CounterType
    <3> QED BY <1>9, <3>1, <3>2 DEF Overrun
  <2>7. /\ rxPc' \in RxPc
        /\ UNCHANGED <<netVars, seqVars, npad, start_index, ringVars, blockVars,
                      outVars, mainVars>>
    BY <1>9 DEF Overrun
  <2> QED BY <1>a, <2>1, <2>7 DEF TypeOK
<1>10. CASE StoreBlock
  <2>1. QuadsPerPacket \in 0 .. SamplesSize
    BY <1>b
  <2>2. /\ blocks' \in [Slot -> [num_samples : Nat, samples_index : Index]]
        /\ blocks_resource' \in [read_index : Slot, write_index : Slot, nready : Nat]
        /\ lapped' \in BOOLEAN
    BY <1>a, <2>1, <1>10, PublishType DEF StoreBlock
  <2>3. stats' \in [Counter -> Nat]
    <3>1. ASSUME NEW a \in Nat
          PROVE  [stats EXCEPT !.total_samples = a] \in [Counter -> Nat]
      BY <1>a DEF TypeOK
    <3>2. stats.total_samples + QuadsPerPacket \in Nat
      BY <1>a, <1>b, CounterType
    <3> QED BY <1>10, <3>1, <3>2 DEF StoreBlock
  <2>7. /\ rxPc' \in RxPc
        /\ UNCHANGED <<netVars, seqVars, npad, start_index, ringVars, outVars,
                      mainVars>>
    BY <1>10 DEF StoreBlock
  <2> QED BY <1>a, <2>2, <2>3, <2>7 DEF TypeOK
<1>11. CASE RxExit
  BY <1>a, <1>11 DEF RxExit, TypeOK
<1>12. CASE OutExit
  BY <1>a, <1>12 DEF OutExit, TypeOK
<1>13. CASE Drain
  BY <1>a, <1>13 DEF Drain, TypeOK
<1>14. CASE TakeBlock
  <2>1. span \in [start : Index, total : Nat, taken : Nat, done : Nat]
    BY <1>a DEF TypeOK
  <2>2. NextTaken.num_samples \in Nat
    BY <1>a, TakenIsBlock DEF TypeOK
  <2>3. ASSUME NEW t \in Nat, NEW k \in Nat
        PROVE  [span EXCEPT !.total = t, !.taken = k]
                   \in [start : Index, total : Nat, taken : Nat, done : Nat]
    BY <2>1
  <2>4. span.total + NextTaken.num_samples \in Nat /\ span.taken + 1 \in Nat
    BY <2>1, <2>2
  <2>5. span' \in [start : Index, total : Nat, taken : Nat, done : Nat]
    BY <2>3, <2>4, <1>14 DEF TakeBlock
  <2>7. UNCHANGED <<netVars, rxPc, seqVars, npad, start_index, ringVars,
                      blockVars, outPc, file, stats, mainVars>>
    BY <1>14 DEF TakeBlock
  <2> QED BY <1>a, <2>5, <2>7 DEF TypeOK
<1>15. CASE PopTaken
  <2>1. /\ blocks_resource \in [read_index : Slot, write_index : Slot, nready : Nat]
        /\ span.taken \in Nat
    BY <1>a DEF TypeOK
  <2>2. (blocks_resource.read_index + span.taken) % BlocksSize \in Slot
    <3>1. blocks_resource.read_index + span.taken \in Int
      BY <2>1, <1>b DEF Slot
    <3> QED BY <3>1, <1>b, DivMod DEF Slot
  <2>3. blocks_resource.nready - span.taken \in Nat
    BY <1>a, <2>1, <1>15 DEF PopTaken, Bounded
  <2>4. ASSUME NEW w \in Slot, NEW m \in Nat
        PROVE  [blocks_resource EXCEPT !.read_index = w, !.nready = m]
                   \in [read_index : Slot, write_index : Slot, nready : Nat]
    BY <2>1
  <2>5. blocks_resource' \in [read_index : Slot, write_index : Slot, nready : Nat]
    BY <2>2, <2>3, <2>4, <1>15 DEF PopTaken
  <2>7. /\ outPc' \in OutPc
        /\ UNCHANGED <<netVars, rxPc, seqVars, npad, start_index, ringVars, blocks,
                      lapped, span, file, stats, mainVars>>
    BY <1>15 DEF PopTaken
  <2> QED BY <1>a, <2>5, <2>7 DEF TypeOK
<1>16. ASSUME NEW n \in 1 .. SamplesSize, WriteSome(n)
      PROVE  TypeOK'
  <2>1. /\ span \in [start : Index, total : Nat, taken : Nat, done : Nat]
        /\ n \in Nat /\ n <= PartEnd - span.done /\ PartEnd \in Int
    <3>1. span \in [start : Index, total : Nat, taken : Nat, done : Nat]
      BY <1>a DEF TypeOK
    <3>2. PartEnd \in Nat
      BY <1>a, PartEndBounds
    <3>3. n \in 1 .. PartEnd - span.done
      BY <1>16 DEF WriteSome
    <3> QED BY <3>1, <3>2, <3>3
  <2>2. \A i \in 1 .. n : insamples[Wrap(span.start + span.done + i - 1)] \in Cell
    <3>1. PartEnd <= SamplesSize
      BY <1>a, <1>b, <2>1, PartEndBounds DEF SpanInRing
    <3>2. \A i \in 1 .. n : span.start + span.done + i - 1 \in 0 .. 2 * SamplesSize - 1
      BY <1>b, <2>1, <3>1 DEF Index
    <3>3. \A i \in 1 .. n : Wrap(span.start + span.done + i - 1) \in Index
      BY <3>2, WrapInIndex
    <3> QED BY <1>a, <3>3 DEF TypeOK
  <2>3. [i \in 1 .. n |-> insamples[Wrap(span.start + span.done + i - 1)]] \in Seq(Cell)
    BY <2>1, <2>2
  <2>4. file' \in Seq(Cell)
    BY <1>a, <2>3, <1>16 DEF WriteSome, TypeOK
  <2>5. span' \in [start : Index, total : Nat, taken : Nat, done : Nat]
    <3>1. span.done + n \in Nat
      BY <2>1
    <3> QED BY <2>1, <3>1, <1>16 DEF WriteSome
  <2>7. UNCHANGED <<netVars, rxPc, seqVars, npad, start_index, ringVars,
                      blockVars, outPc, stats, mainVars>>
    BY <1>16 DEF WriteSome
  <2> QED BY <1>a, <2>4, <2>5, <2>7 DEF TypeOK
<1>17. CASE WriteError
  <2>1. /\ span \in [start : Index, total : Nat, taken : Nat, done : Nat]
        /\ PartEnd \in Nat /\ PartEnd - span.done \in Nat
    <3>1. span \in [start : Index, total : Nat, taken : Nat, done : Nat]
      BY <1>a DEF TypeOK
    <3>2. PartEnd \in Nat
      BY <1>a, PartEndBounds
    <3>3. span.done < PartEnd
      BY <1>17 DEF WriteError
    <3> QED BY <3>1, <3>2, <3>3
  <2>2. span' \in [start : Index, total : Nat, taken : Nat, done : Nat]
    BY <2>1, <1>17 DEF WriteError
  <2>3. stats' \in [Counter -> Nat]
    <3>1. stats.failed + PartEnd - span.done \in Nat
      BY <1>a, <2>1, CounterType
    <3>2. ASSUME NEW a \in Nat
          PROVE  [stats EXCEPT !.failed = a] \in [Counter -> Nat]
      BY <1>a DEF TypeOK
    <3> QED BY <3>1, <3>2, <1>17 DEF WriteError
  <2>7. UNCHANGED <<netVars, rxPc, seqVars, npad, start_index, ringVars,
                      blockVars, outPc, file, mainVars>>
    BY <1>17 DEF WriteError
  <2> QED BY <1>a, <2>2, <2>3, <2>7 DEF TypeOK
<1>18. CASE WritesDone
  BY <1>a, <1>18 DEF WritesDone, TypeOK
<1>19. CASE Release
  <2>1. samples_resource' \in [write_index : Index, nused : Nat]
    <3>1. /\ samples_resource \in [write_index : Index, nused : Nat]
          /\ span.total \in Nat
      BY <1>a DEF TypeOK
    <3>2. ASSUME NEW u \in Nat
          PROVE  [samples_resource EXCEPT !.nused = u]
                     \in [write_index : Index, nused : Nat]
      BY <3>1
    <3>3. (IF samples_resource.nused >= span.total
           THEN samples_resource.nused - span.total ELSE 0) \in Nat
      BY <3>1
    <3> QED BY <3>2, <3>3, <1>19 DEF Release
  <2>7. /\ outPc' \in OutPc
        /\ UNCHANGED <<netVars, rxPc, seqVars, npad, start_index, insamples,
                      blockVars, span, file, stats, mainVars>>
    BY <1>19 DEF Release
  <2> QED BY <1>a, <2>1, <2>7 DEF TypeOK
<1>20. CASE StreamSeen
  BY <1>a, <1>20 DEF StreamSeen, TypeOK
<1>21. CASE GiveUp
  BY <1>a, <1>21 DEF GiveUp, TypeOK
<1>22. CASE StopRecording
  <2>1. reported' \in Nat
    BY <1>a, <1>22, CounterType DEF StopRecording
  <2>2. exit_status' \in {"none", "success", "failure"}
    BY <1>22 DEF StopRecording
  <2>7. /\ mainPc' \in MainPc
        /\ UNCHANGED <<netVars, rxPc, seqVars, npad, start_index, ringVars,
                      blockVars, outVars, stats, streaming_active, output_active>>
    BY <1>22 DEF StopRecording
  <2> QED BY <1>a, <2>1, <2>2, <2>7 DEF TypeOK
<1>23. CASE StreamingStop
  BY <1>a, <1>23 DEF StreamingStop, TypeOK
<1>24. CASE OutputClose
  BY <1>a, <1>24 DEF OutputClose, TypeOK
<1>25. CASE BuffersFree
  BY <1>a, <1>25 DEF BuffersFree, TypeOK
<1>26. CASE Terminated
  BY <1>a, <1>26 DEF Terminated, TypeOK, vars
<1> QED
  BY <1>c, <1>1, <1>2, <1>3, <1>4, <1>5, <1>6, <1>7, <1>8, <1>9,
     <1>10, <1>11, <1>12, <1>13, <1>14, <1>15, <1>16, <1>17, <1>18,
     <1>19, <1>20, <1>21, <1>22, <1>23, <1>24, <1>25, <1>26
  DEF Next, Receive, RxWork, OutWork, StopWork

-----------------------------------------------------------------------------
(* Room and spans *)

\* The ring is never overfilled and no span is longer than the ring, whatever
\* the descriptors that were overwritten said.
LEMMA BoundedStep ==
    ASSUME IInv, [Next]_vars
    PROVE  Bounded' /\ RoomStillThere' /\ SpanInRing'
<1> USE DEF netVars, seqVars, ringVars, blockVars, outVars, mainVars
<1>a. TypeOK /\ Bounded /\ RoomStillThere /\ SpanInRing
  BY DEF IInv
<1>b. /\ SamplesSize \in Nat \ {0} /\ QuadsPerPacket \in 1 .. SamplesSize
      /\ CoalesceMax \in 1 .. SamplesSize
  BY SizeAssumption DEF SizeAssumption
<1>c. /\ samples_resource.nused \in Nat /\ npad \in Nat
      /\ span.total \in Nat /\ span.taken \in Nat
      /\ blocks_resource.nready \in Nat
  BY <1>a DEF TypeOK
<1>1. CASE UNCHANGED vars
  BY <1>a, <1>1 DEF vars, Bounded, RoomStillThere, SpanInRing
<1>2. ASSUME NEW p \in FirstPacket .. MaxPacket,
             FirstPkt(p) \/ NextPkt(p) \/ LatePkt(p) \/ GapWithoutRoom(p)
      PROVE  Bounded' /\ RoomStillThere' /\ SpanInRing'
  <2>1. /\ UNCHANGED <<npad, samples_resource, blockVars, outVars>>
        /\ rxPc = "recv" /\ rxPc' \in {"recv", "store"}
    BY <1>2 DEF FirstPkt, NextPkt, LatePkt, GapWithoutRoom, Arrives
  <2> QED BY <1>a, <2>1 DEF Bounded, RoomStillThere, SpanInRing
<1>3. ASSUME NEW p \in FirstPacket .. MaxPacket, GapWithRoom(p)
      PROVE  Bounded' /\ RoomStillThere' /\ SpanInRing'
  <2>1. Arrives(p) /\ ~first_pkt /\ SignedGap(Wire(p)) > 0 /\ rxPc = "recv"
    BY <1>3 DEF GapWithRoom, Arrives
  <2>2. SignedGap(Wire(p)) \in Nat
    <3>1. newest \in Nat /\ p \in Int
      BY <1>a, <2>1, ArrivalInWindow
    <3> QED BY <2>1, <3>1, GapExact
  <2>3. PadLength(p) \in 0 .. Room /\ Room \in 0 .. SamplesSize
    BY <1>a, <2>1, <2>2, PadLengthBounds
  <2>4. /\ npad' = PadLength(p) /\ rxPc' = "pad"
        /\ UNCHANGED <<samples_resource, blockVars, outVars>>
    BY <1>3 DEF GapWithRoom
  <2>5. samples_resource.nused + npad' <= SamplesSize /\ npad' <= SamplesSize
    BY <1>b, <1>c, <2>3, <2>4 DEF Room
  <2> QED BY <1>a, <2>4, <2>5 DEF Bounded, RoomStillThere, SpanInRing
<1>4. CASE Pad
  <2>1. /\ rxPc = "pad" /\ rxPc' = "padBlock"
        /\ samples_resource'.nused = samples_resource.nused + npad
        /\ UNCHANGED <<npad, blockVars, outVars>>
    BY <1>4 DEF Pad, FillRing
  <2> QED BY <1>a, <1>c, <2>1 DEF Bounded, RoomStillThere, SpanInRing
<1>5. CASE PadBlock
  <2>1. npad \in 0 .. SamplesSize /\ PublishBlock(npad)
    BY <1>a, <1>b, <1>c, <1>5 DEF PadBlock, Bounded
  <2>2. \A i \in Slot : blocks'[i].num_samples <= SamplesSize
    BY <1>a, <2>1, PublishType
  <2>3. /\ outPc # "coalesce" /\ rxPc = "padBlock" /\ rxPc' = "store"
        /\ UNCHANGED <<samples_resource, outVars>>
    BY <1>5 DEF PadBlock, PublishBlock, BlocksLocked
  <2> QED BY <1>a, <2>2, <2>3 DEF Bounded, RoomStillThere, SpanInRing
<1>6. CASE Store
  <2>1. /\ rxPc' = "storeBlock" /\ UNCHANGED <<blockVars, outVars>>
        /\ samples_resource'.nused = samples_resource.nused + QuadsPerPacket
        /\ samples_resource.nused + QuadsPerPacket <= SamplesSize
    BY <1>6 DEF Store, FillRing, HasRoom
  <2> QED BY <1>a, <2>1, <1>b, <1>c DEF Bounded, RoomStillThere, SpanInRing
<1>7. CASE StoreBlock
  <2>1. QuadsPerPacket \in 0 .. SamplesSize /\ PublishBlock(QuadsPerPacket)
    BY <1>b, <1>7 DEF StoreBlock
  <2>2. \A i \in Slot : blocks'[i].num_samples <= SamplesSize
    BY <1>a, <2>1, PublishType
  <2>3. /\ outPc # "coalesce" /\ rxPc = "storeBlock" /\ rxPc' = "recv"
        /\ UNCHANGED <<samples_resource, outVars>>
    BY <1>7 DEF StoreBlock, PublishBlock, BlocksLocked
  <2> QED BY <1>a, <2>2, <2>3 DEF Bounded, RoomStillThere, SpanInRing
<1>8. CASE Overrun \/ RxExit
  <2>1. /\ rxPc \in {"recv", "store"} /\ rxPc' \in {"recv", "exited"}
        /\ UNCHANGED <<samples_resource, blockVars, outVars>>
    BY <1>8 DEF Overrun, RxExit
  <2> QED BY <1>a, <2>1 DEF Bounded, RoomStillThere, SpanInRing
<1>9. CASE Drain
  <2>1. /\ span'.total = 0 /\ span'.taken = 0
        /\ UNCHANGED <<rxPc, npad, samples_resource, blockVars>>
    BY <1>9 DEF Drain
  <2> QED BY <1>a, <1>b, <1>c, <2>1 DEF Bounded, RoomStillThere, SpanInRing
<1>10. CASE TakeBlock
  <2>1. NextTaken.num_samples \in 0 .. SamplesSize
    <3>1. NextTaken \in [num_samples : Nat, samples_index : Index]
          /\ (blocks_resource.read_index + span.taken) % BlocksSize \in Slot
      BY <1>a, TakenIsBlock
    <3> QED BY <1>a, <1>b, <3>1 DEF Bounded, NextTaken
  <2>2. span'.total = span.total + NextTaken.num_samples /\ span'.taken = span.taken + 1
    BY <1>a, <1>10 DEF TakeBlock, TypeOK
  <2>3. /\ span.taken < blocks_resource.nready
        /\ span.total > 0 => span.total + NextTaken.num_samples <= CoalesceMax
        /\ UNCHANGED <<rxPc, npad, samples_resource, blockVars>>
    BY <1>b, <1>c, <2>1, <1>10 DEF TakeBlock, CoalesceFull
  <2>4. span'.total <= SamplesSize /\ span'.taken <= blocks_resource.nready
    BY <1>b, <1>c, <2>1, <2>2, <2>3
  <2> QED BY <1>a, <2>3, <2>4 DEF Bounded, RoomStillThere, SpanInRing
<1>11. CASE PopTaken
  <2>1. /\ outPc' = "write" /\ UNCHANGED <<rxPc, npad, samples_resource, blocks, span>>
    BY <1>11 DEF PopTaken
  <2> QED BY <1>a, <2>1 DEF Bounded, RoomStillThere, SpanInRing
<1>12. ASSUME NEW n \in 1 .. SamplesSize, WriteSome(n)
       PROVE  Bounded' /\ RoomStillThere' /\ SpanInRing'
  <2>1. /\ outPc = "write" /\ span'.total = span.total
        /\ UNCHANGED <<rxPc, npad, samples_resource, blockVars, outPc>>
    BY <1>a, <1>12 DEF WriteSome, TypeOK
  <2> QED BY <1>a, <2>1 DEF Bounded, RoomStillThere, SpanInRing
<1>13. CASE WriteError
  <2>1. /\ outPc = "write" /\ span'.total = span.total
        /\ UNCHANGED <<rxPc, npad, samples_resource, blockVars, outPc>>
    BY <1>a, <1>13 DEF WriteError, TypeOK
  <2> QED BY <1>a, <2>1 DEF Bounded, RoomStillThere, SpanInRing
<1>14. CASE OutExit \/ WritesDone
  <2>1. /\ outPc' \in {"exited", "release"}
        /\ UNCHANGED <<rxPc, npad, samples_resource, blockVars, span>>
    BY <1>14 DEF OutExit, WritesDone
  <2> QED BY <1>a, <2>1 DEF Bounded, RoomStillThere, SpanInRing
<1>15. CASE Release
  <2>1. /\ outPc' = "wait" /\ UNCHANGED <<rxPc, npad, blockVars, span>>
        /\ samples_resource'.nused =
               IF samples_resource.nused >= span.total
               THEN samples_resource.nused - span.total ELSE 0
    BY <1>a, <1>15 DEF Release, TypeOK
  <2>2. samples_resource'.nused <= samples_resource.nused /\ samples_resource'.nused \in Nat
    BY <1>c, <2>1
  <2> QED BY <1>a, <1>b, <1>c, <2>1, <2>2 DEF Bounded, RoomStillThere, SpanInRing
<1>16. CASE StreamSeen \/ GiveUp \/ StopRecording \/ StopWork \/ Terminated
  <2>1. UNCHANGED <<rxPc, npad, samples_resource, blockVars, outVars>>
    BY <1>16 DEF StreamSeen, GiveUp, StopRecording, StopWork, StreamingStop,
                 OutputClose, BuffersFree, Terminated, vars
  <2> QED BY <1>a, <2>1 DEF Bounded, RoomStillThere, SpanInRing
<1> QED
  BY <1>1, <1>2, <1>3, <1>4, <1>5, <1>6, <1>7, <1>8, <1>9, <1>10, <1>11, <1>12,
     <1>13, <1>14, <1>15, <1>16
  DEF Next, Receive, RxWork, OutWork

-----------------------------------------------------------------------------
(* Shutdown *)

\* Joining is what orders the end of the threads before the buffers are freed.
LEMMA JoinedStep ==
    ASSUME IInv, [Next]_vars
    PROVE  Joined'
<1> USE DEF netVars, seqVars, ringVars, blockVars, outVars, mainVars
<1>a. Joined
  BY DEF IInv
<1>1. CASE UNCHANGED vars
  BY <1>a, <1>1 DEF vars, Joined
<1>2. CASE Receive
  <2>1. rxPc = "recv" /\ UNCHANGED <<outPc, mainPc>>
    BY <1>2 DEF Receive, FirstPkt, NextPkt, LatePkt, GapWithRoom, GapWithoutRoom, Arrives
  <2> QED BY <1>a, <2>1 DEF Joined
<1>3. CASE RxWork
  <2>1. rxPc # "exited" /\ UNCHANGED <<outPc, mainPc>>
    BY <1>3 DEF RxWork, Pad, PadBlock, Store, Overrun, StoreBlock, RxExit
  <2> QED BY <1>a, <2>1 DEF Joined
<1>4. CASE OutWork
  <2>1. outPc # "exited" /\ UNCHANGED <<rxPc, mainPc>>
    BY <1>4 DEF OutWork, OutExit, Drain, TakeBlock, PopTaken, WriteSome, WriteError,
                WritesDone, Release
  <2> QED BY <1>a, <2>1 DEF Joined
<1>5. CASE StreamSeen \/ GiveUp \/ StopRecording \/ StreamingStop
  <2>1. mainPc' \in {"recording", "stopping", "joinRx"}
    BY <1>5 DEF StreamSeen, GiveUp, StopRecording, StreamingStop
  <2> QED BY <2>1 DEF Joined
<1>6. CASE OutputClose
  BY <1>6 DEF OutputClose, Joined
<1>7. CASE BuffersFree
  BY <1>a, <1>7 DEF BuffersFree, Joined
<1>8. CASE Terminated
  BY <1>a, <1>8 DEF Terminated, vars, Joined
<1> QED
  BY <1>1, <1>2, <1>3, <1>4, <1>5, <1>6, <1>7, <1>8 DEF Next, StopWork

-----------------------------------------------------------------------------
(* The timeline *)

\* The RX thread expects the successor of the newest packet whenever it waits.
LEMMA TrackingStep ==
    ASSUME IInv, [Next]_vars
    PROVE  Tracking'
<1> USE DEF netVars, seqVars, ringVars, blockVars, outVars, mainVars
<1>a. TypeOK /\ Tracking /\ newest \in Nat /\ origin \in Nat
  BY DEF IInv, TypeOK
<1>b. FirstPacket \in Nat /\ MaxPacket \in Nat
  BY LinkAssumption DEF LinkAssumption
<1>1. CASE UNCHANGED vars
  BY <1>a, <1>1 DEF vars, Tracking, Wire
<1>2. ASSUME NEW p \in FirstPacket .. MaxPacket, FirstPkt(p)
      PROVE  Tracking'
  BY <1>b, <1>2 DEF FirstPkt, Tracking, Wire
<1>3. ASSUME NEW p \in FirstPacket .. MaxPacket, NextPkt(p)
      PROVE  Tracking'
  <2>1. p = newest + 1
    BY <1>3, NextPktIsSuccessor
  <2>2. /\ ~first_pkt' /\ newest' = p /\ origin' = origin
        /\ rxPc' = "store" /\ expected_seq' = Wire(p + 1) /\ ~first_pkt
    BY <1>3 DEF NextPkt
  <2> QED BY <1>a, <2>1, <2>2 DEF Tracking, Wire
<1>4. ASSUME NEW p \in FirstPacket .. MaxPacket, LatePkt(p)
      PROVE  Tracking'
  BY <1>a, <1>4 DEF LatePkt, Tracking, Wire
<1>5. ASSUME NEW p \in FirstPacket .. MaxPacket, GapWithRoom(p) \/ GapWithoutRoom(p)
      PROVE  Tracking'
  <2>1. Arrives(p) /\ ~first_pkt /\ SignedGap(Wire(p)) > 0
    BY <1>5 DEF GapWithRoom, GapWithoutRoom
  <2>2. newest <= p
    <3>1. SignedGap(Wire(p)) = p - newest - 1
      BY <2>1, GapExact
    <3> QED BY <1>a, <1>b, <2>1, <3>1
  <2>3. /\ ~first_pkt' /\ newest' = p /\ origin' = origin
        /\ rxPc' = "pad" \/ (rxPc' = "store" /\ expected_seq' = Wire(p + 1))
    BY <1>5, <2>1 DEF GapWithRoom, GapWithoutRoom
  <2> QED BY <1>a, <1>b, <2>2, <2>3 DEF Tracking, Wire
<1>6. CASE PadBlock
  BY <1>a, <1>6 DEF PadBlock, Tracking, Wire
<1>7. CASE Pad \/ Store \/ Overrun \/ StoreBlock \/ RxExit
  <2>1. /\ UNCHANGED <<newest, origin, first_pkt, expected_seq>>
        /\ \/ rxPc = "pad" /\ rxPc' = "padBlock"
           \/ rxPc \in {"store", "storeBlock"} /\ rxPc' \in {"storeBlock", "recv"}
           \/ rxPc = "recv" /\ rxPc' = "exited"
    BY <1>7 DEF Pad, Store, Overrun, StoreBlock, RxExit
  <2> QED BY <1>a, <2>1 DEF Tracking, Wire
<1>8. CASE OutWork \/ StreamSeen \/ GiveUp \/ StopRecording \/ StopWork \/ Terminated
  <2>1. UNCHANGED <<newest, origin, first_pkt, expected_seq, rxPc>>
    BY <1>8 DEF OutWork, OutExit, Drain, TakeBlock, PopTaken, WriteSome, WriteError,
                WritesDone, Release, StreamSeen, GiveUp, StopRecording, StopWork,
                StreamingStop, OutputClose, BuffersFree, Terminated, vars
  <2> QED BY <1>a, <2>1 DEF Tracking, Wire
<1> QED
  BY <1>1, <1>2, <1>3, <1>4, <1>5, <1>6, <1>7, <1>8 DEF Next, Receive, RxWork

\* The sample instants before packet p are those up to the newest packet, its
\* own, and those of the packets missing in between.
LEMMA InstantsAdd ==
    ASSUME NEW o \in Int, NEW m \in Int, NEW p \in Int
    PROVE  /\ (p - o) * QuadsPerPacket =
                  (m - o) * QuadsPerPacket + QuadsPerPacket + (p - m - 1) * QuadsPerPacket
           /\ (m - o) * QuadsPerPacket \in Int
           /\ (p - m - 1) * QuadsPerPacket \in Int
<1>1. QuadsPerPacket \in Nat
  BY SizeAssumption DEF SizeAssumption
<1> QED BY <1>1

\* Every instant that passes is recorded, padded, or reported.
LEMMA AccountedStep ==
    ASSUME IInv, [Next]_vars
    PROVE  TimelineAccounted'
<1> USE DEF netVars, seqVars, ringVars, blockVars, outVars, mainVars
<1>a. /\ TypeOK /\ Tracking /\ TimelineAccounted /\ RoomStillThere
      /\ newest \in Nat /\ origin \in Nat
  BY DEF IInv, TypeOK
<1>b. /\ QuadsPerPacket \in Nat /\ FirstPacket \in Nat /\ MaxPacket \in Nat
  BY SizeAssumption, LinkAssumption DEF SizeAssumption, LinkAssumption
<1>c. /\ Recorded \in Nat /\ ReportedLoss \in Nat
      /\ stats.total_samples \in Nat /\ stats.gap_samples_padded \in Nat
      /\ stats.total_lost \in Nat /\ stats.slipped_samples \in Nat
  BY <1>a, CounterType DEF Recorded, ReportedLoss
<1>d. (newest - origin) * QuadsPerPacket \in Int
  BY <1>a, <1>b
<1> DEFINE Base == (newest - origin) * QuadsPerPacket
<1>e. Elapsed = IF first_pkt THEN 0
                ELSE IF rxPc \in {"recv", "exited"} THEN Base + QuadsPerPacket ELSE Base
  BY <1>a, <1>b, <1>d DEF Elapsed, Instant
<1>1. CASE UNCHANGED vars
  <2>1. UNCHANGED <<Elapsed, Recorded, ReportedLoss>>
    BY <1>1 DEF vars, Elapsed, Instant, Recorded, ReportedLoss
  <2> QED BY <1>a, <2>1 DEF TimelineAccounted
<1>2. ASSUME NEW p \in FirstPacket .. MaxPacket, FirstPkt(p)
      PROVE  TimelineAccounted'
  <2>1. /\ first_pkt /\ ~first_pkt' /\ newest' = p /\ origin' = p /\ rxPc' = "store"
        /\ UNCHANGED stats
    BY <1>2 DEF FirstPkt
  <2>2. Elapsed' = 0
    BY <1>b, <2>1 DEF Elapsed, Instant
  <2>3. Elapsed = 0 /\ UNCHANGED <<Recorded, ReportedLoss>>
    BY <2>1 DEF Elapsed, Recorded, ReportedLoss
  <2> QED BY <1>a, <2>2, <2>3 DEF TimelineAccounted
<1>3. ASSUME NEW p \in FirstPacket .. MaxPacket, NextPkt(p)
      PROVE  TimelineAccounted'
  <2>1. p = newest + 1
    BY <1>3, NextPktIsSuccessor
  <2>2. /\ ~first_pkt /\ ~first_pkt' /\ newest' = p /\ origin' = origin
        /\ rxPc = "recv" /\ rxPc' = "store" /\ UNCHANGED stats
    BY <1>3 DEF NextPkt, Arrives
  <2>3. (p - origin) * QuadsPerPacket = Base + QuadsPerPacket
    BY <1>a, <1>b, <2>1
  <2>4. Elapsed' = Elapsed /\ UNCHANGED <<Recorded, ReportedLoss>>
    BY <1>b, <1>d, <1>e, <2>2, <2>3 DEF Elapsed, Instant, Recorded, ReportedLoss
  <2> QED BY <1>a, <2>4 DEF TimelineAccounted
<1>4. ASSUME NEW p \in FirstPacket .. MaxPacket, LatePkt(p)
      PROVE  TimelineAccounted'
  <2>1. /\ UNCHANGED <<newest, origin, first_pkt, rxPc>>
        /\ stats' = [stats EXCEPT !.reordered_packets = @ + 1]
    BY <1>4 DEF LatePkt
  <2>2. UNCHANGED <<Elapsed, Recorded, ReportedLoss>>
    BY <1>a, <2>1 DEF Elapsed, Instant, Recorded, ReportedLoss, TypeOK
  <2> QED BY <1>a, <2>2 DEF TimelineAccounted
<1>5. ASSUME NEW p \in FirstPacket .. MaxPacket, GapWithRoom(p) \/ GapWithoutRoom(p)
      PROVE  TimelineAccounted'
  <2>1. Arrives(p) /\ ~first_pkt /\ SignedGap(Wire(p)) > 0 /\ rxPc = "recv"
    BY <1>5 DEF GapWithRoom, GapWithoutRoom, Arrives
  <2>2. SignedGap(Wire(p)) = p - newest - 1
    BY <2>1, GapExact
  <2>3. /\ Missing(p) \in Nat /\ Room \in 0 .. SamplesSize
        /\ PadLength(p) \in 0 .. Room
        /\ Missing(p) - PadLength(p) \in Nat
    BY <1>a, <1>b, <2>1, <2>2, PadLengthBounds
  <2>4. PadLength(p) \in Nat
    BY <2>3
  <2>5. (p - origin) * QuadsPerPacket = Base + QuadsPerPacket + Missing(p)
    BY <1>a, <1>b, <2>2, InstantsAdd DEF Missing
  <2>6. Elapsed' = Elapsed + Missing(p)
    <3>1. /\ ~first_pkt' /\ newest' = p /\ origin' = origin /\ rxPc' \in {"pad", "store"}
      BY <1>5, <2>1 DEF GapWithRoom, GapWithoutRoom
    <3>2. Elapsed' = (p - origin) * QuadsPerPacket
      BY <1>a, <1>b, <3>1 DEF Elapsed, Instant
    <3> QED BY <1>b, <1>d, <1>e, <2>1, <2>3, <2>5, <3>2
  <2>7. /\ stats'.total_samples = stats.total_samples
        /\ stats'.gap_samples_padded = stats.gap_samples_padded + PadLength(p)
        /\ stats'.slipped_samples = stats.slipped_samples + Missing(p) - PadLength(p)
        /\ \/ stats'.total_lost = stats.total_lost
           \/ stats'.total_lost = stats.total_lost + Missing(p)
    BY <1>a, <1>5 DEF GapWithRoom, GapWithoutRoom, TypeOK, Counter
  <2>8. /\ Recorded' = Recorded + PadLength(p)
        /\ ReportedLoss' >= ReportedLoss + Missing(p) - PadLength(p)
        /\ ReportedLoss' \in Nat
    BY <1>c, <2>3, <2>4, <2>7 DEF Recorded, ReportedLoss
  <2>9. Elapsed \in Int
    BY <1>b, <1>d, <1>e
  <2> QED BY <1>a, <1>c, <2>3, <2>4, <2>6, <2>8, <2>9 DEF TimelineAccounted
<1>6. CASE Pad \/ PadBlock \/ Store \/ RxExit
  <2>1. /\ UNCHANGED <<newest, origin, first_pkt, stats>>
        /\ rxPc \in {"recv", "exited"} <=> rxPc' \in {"recv", "exited"}
    BY <1>6 DEF Pad, PadBlock, Store, RxExit
  <2>2. UNCHANGED <<Elapsed, Recorded, ReportedLoss>>
    BY <2>1 DEF Elapsed, Instant, Recorded, ReportedLoss
  <2> QED BY <1>a, <2>2 DEF TimelineAccounted
<1>7. CASE Overrun \/ StoreBlock
  <2>1. /\ UNCHANGED <<newest, origin, first_pkt>>
        /\ rxPc \in {"store", "storeBlock"} /\ rxPc' = "recv"
    BY <1>7 DEF Overrun, StoreBlock
  <2>2. ~first_pkt
    BY <1>a, <2>1 DEF Tracking
  <2>3. Elapsed' = Elapsed + QuadsPerPacket /\ Elapsed \in Int
    BY <1>a, <1>b, <1>d, <1>e, <2>1, <2>2 DEF Elapsed, Instant
  <2>4. /\ stats'.gap_samples_padded = stats.gap_samples_padded
        /\ stats'.slipped_samples = stats.slipped_samples
        /\ \/ /\ stats'.total_samples = stats.total_samples
              /\ stats'.total_lost = stats.total_lost + QuadsPerPacket
           \/ /\ stats'.total_samples = stats.total_samples + QuadsPerPacket
              /\ stats'.total_lost = stats.total_lost
    BY <1>a, <1>7 DEF Overrun, StoreBlock, TypeOK, Counter
  <2> QED BY <1>a, <1>b, <1>c, <2>3, <2>4 DEF TimelineAccounted, Recorded, ReportedLoss
<1>8. CASE OutWork \/ StreamSeen \/ GiveUp \/ StopRecording \/ StopWork \/ Terminated
  <2>1. UNCHANGED <<newest, origin, first_pkt, rxPc>>
    BY <1>8 DEF OutWork, OutExit, Drain, TakeBlock, PopTaken, WriteSome, WriteError,
                WritesDone, Release, StreamSeen, GiveUp, StopRecording, StopWork,
                StreamingStop, OutputClose, BuffersFree, Terminated, vars
  <2>2. UNCHANGED stats \/ WriteError
    BY <1>8 DEF OutWork, OutExit, Drain, TakeBlock, PopTaken, WriteSome,
                WritesDone, Release, StreamSeen, GiveUp, StopRecording, StopWork,
                StreamingStop, OutputClose, BuffersFree, Terminated, vars
  <2>3. UNCHANGED <<Recorded, ReportedLoss>>
    BY <1>a, <2>2 DEF WriteError, Recorded, ReportedLoss, TypeOK, Counter
  <2>4. UNCHANGED Elapsed
    BY <2>1 DEF Elapsed, Instant
  <2> QED BY <1>a, <2>3, <2>4 DEF TimelineAccounted
<1> QED
  BY <1>1, <1>2, <1>3, <1>4, <1>5, <1>6, <1>7, <1>8 DEF Next, Receive, RxWork

-----------------------------------------------------------------------------
(* Theorems *)

\* The strengthening holds when the recorder starts.
LEMMA InitIInv ==
    ASSUME Init
    PROVE  IInv
<1>1. /\ SamplesSize \in Nat \ {0} /\ BlocksSize \in Nat \ {0} /\ BatchMax \in Nat
      /\ SeqSpace \in Nat \ {0} /\ FirstPacket \in Nat
  BY SizeAssumption, LinkAssumption DEF SizeAssumption, LinkAssumption
<1>2. 0 \in Index /\ 0 \in Slot /\ 0 \in 0 .. SeqSpace - 1
  BY <1>1 DEF Index, Slot
<1>3. TypeOK
  BY <1>1, <1>2 DEF Init, TypeOK, RxPc, OutPc, MainPc, Counter, Cell, Garbage
<1>4. Bounded /\ RoomStillThere /\ SpanInRing
  BY <1>1 DEF Init, Bounded, RoomStillThere, SpanInRing
<1>5. Tracking /\ Joined
  BY <1>1 DEF Init, Tracking, Joined
<1>6. TimelineAccounted
  BY DEF Init, TimelineAccounted, Elapsed, Recorded, ReportedLoss, Counter
<1> QED BY <1>3, <1>4, <1>5, <1>6 DEF IInv

\* The strengthening is an invariant of the recorder.
THEOREM Invariance == Spec => []IInv
<1>1. Init => IInv
  BY InitIInv
<1>2. IInv /\ [Next]_vars => IInv'
  BY TypeStep, BoundedStep, TrackingStep, JoinedStep, AccountedStep DEF IInv
<1> QED BY <1>1, <1>2, PTL DEF Spec

\* Type correctness, with every ring index inside its ring and every count of
\* used or ready entries a natural number (buffers.c, streaming.c, output.c).
THEOREM TypeCorrect == Spec => []TypeOK
<1>1. IInv => TypeOK
  BY DEF IInv
<1> QED BY <1>1, Invariance, PTL

\* The room measured for the padding is still there when the padding is stored,
\* and the sample ring is never overfilled (streaming.c:213-240, 266).
THEOREM RoomIsKept == Spec => []RoomStillThere
<1>1. IInv => RoomStillThere
  BY DEF IInv
<1> QED BY <1>1, Invariance, PTL

\* No span the output thread writes is longer than the ring, even when the
\* descriptors it was built from were overwritten (output.c:205-228).
THEOREM SpansFit == Spec => []SpanInRing
<1>1. IInv => SpanInRing
  BY DEF IInv
<1> QED BY <1>1, Invariance, PTL

\* The zero-filling is exact: the recording is never longer than the time that
\* passed, and shorter by no more than was reported, across the wrap of the
\* sequence number and whatever is late or missing (streaming.c:185-256).
THEOREM TimelineIsAccounted == Spec => []TimelineAccounted
<1>1. IInv => TimelineAccounted
  BY DEF IInv
<1> QED BY <1>1, Invariance, PTL

\* The buffers are freed only after both threads have exited
\* (streaming.c:390-400, hpsdr-recorder.c:24-30).
THEOREM BuffersStayAlive == Spec => []BuffersAlive
<1>1. IInv => BuffersAlive
  BY DEF IInv, Joined, BuffersAlive
<1> QED BY <1>1, Invariance, PTL
=============================================================================
