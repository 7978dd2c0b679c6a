--------------------------- MODULE TimelineProofs ---------------------------
(***************************************************************************)
(* The recording pipeline implements the timeline the recorder promises,   *)
(* and what follows for the file, for every size of the rings and of the   *)
(* packets.                                                                *)
(***************************************************************************)
EXTENDS PipelineProofs, SequenceTheorems

-----------------------------------------------------------------------------
(* The cells of the sample ring *)

\* The number of quads in use is at most the size of the ring, and its indices
\* are in it.
LEMMA RingTypes ==
    ASSUME IInv
    PROVE  /\ samples_resource.write_index \in 0 .. SamplesSize - 1
           /\ samples_resource.nused \in 0 .. SamplesSize
           /\ SamplesSize \in Nat \ {0} /\ QuadsPerPacket \in 1 .. SamplesSize
<1>1. SamplesSize \in Nat \ {0} /\ QuadsPerPacket \in 1 .. SamplesSize
  BY SizeAssumption DEF SizeAssumption
<1>2. TypeOK /\ RoomStillThere
  BY DEF IInv
<1>3. samples_resource.write_index \in Index /\ samples_resource.nused \in Nat
      /\ npad \in Nat
  BY <1>2 DEF TypeOK
<1> QED BY <1>1, <1>2, <1>3 DEF RoomStillThere, Index

\* The quads in use lie in cells of the ring, and quad k lies k cells after the
\* first.
LEMMA UsedCells ==
    ASSUME IInv, NEW k \in 0 .. samples_resource.nused
    PROVE  /\ UsedCell(k) \in Index
           /\ Wrap(UsedCell(0) + k) = UsedCell(k)
           /\ UsedCell(samples_resource.nused) = samples_resource.write_index
BY RingTypes DEF UsedCell, Wrap, Index

\* The cells in use lie at the far end of the ring, seen from the write index.
LEMMA UsedIsAhead ==
    ASSUME IInv, NEW k \in 0 .. samples_resource.nused - 1
    PROVE  Ahead(UsedCell(k)) = SamplesSize - samples_resource.nused + k
BY RingTypes DEF UsedCell, Ahead

\* Storing n quads where there is room moves no quad in use and changes none.
LEMMA FillKeepsUsed ==
    ASSUME IInv, NEW n \in 0 .. SamplesSize, NEW c, FillRing(n, c),
           samples_resource.nused + n <= SamplesSize
    PROVE  /\ samples_resource'.nused = samples_resource.nused + n
           /\ samples_resource'.write_index = Wrap(samples_resource.write_index + n)
           /\ \A k \in 0 .. samples_resource.nused : UsedCell(k)' = UsedCell(k)
           /\ \A k \in 0 .. samples_resource.nused - 1 :
                  insamples'[UsedCell(k)] = insamples[UsedCell(k)]
<1>1. /\ samples_resource'.nused = samples_resource.nused + n
      /\ samples_resource'.write_index = Wrap(samples_resource.write_index + n)
  BY DEF FillRing
<1>2. ASSUME NEW k \in 0 .. samples_resource.nused
      PROVE  UsedCell(k)' = UsedCell(k)
  BY <1>1, RingTypes DEF UsedCell, Wrap
<1>3. ASSUME NEW k \in 0 .. samples_resource.nused - 1
      PROVE  insamples'[UsedCell(k)] = insamples[UsedCell(k)]
  <2>1. UsedCell(k) \in Index
    BY UsedCells, RingTypes
  <2>2. ~(Ahead(UsedCell(k)) < n)
    BY UsedIsAhead, RingTypes
  <2> QED BY <2>1, <2>2 DEF FillRing
<1> QED BY <1>1, <1>2, <1>3

\* ... and the new quads follow those in use.
LEMMA FillAppends ==
    ASSUME IInv, NEW n \in 0 .. SamplesSize, NEW c, FillRing(n, c),
           samples_resource.nused + n <= SamplesSize,
           NEW k \in samples_resource.nused .. samples_resource.nused + n - 1
    PROVE  insamples'[UsedCell(k)'] = c[k - samples_resource.nused]
<1>1. /\ samples_resource'.nused = samples_resource.nused + n
      /\ samples_resource'.write_index = Wrap(samples_resource.write_index + n)
  BY DEF FillRing
<1> DEFINE j == k - samples_resource.nused
           ahead == samples_resource.write_index + j
<1>2. UsedCell(k)' = IF ahead < SamplesSize THEN ahead ELSE ahead - SamplesSize
  BY <1>1, RingTypes DEF UsedCell, Wrap
<1>3. UsedCell(k)' \in Index /\ Ahead(UsedCell(k)') = j /\ j < n
  BY <1>2, RingTypes DEF Ahead, Index
<1> QED BY <1>3 DEF FillRing

-----------------------------------------------------------------------------
(* What the two rings say of each other *)

\* The remainder of a sum needs only the remainder of a term.
LEMMA ModAdd ==
    ASSUME NEW n \in Nat \ {0}, NEW a \in Int, NEW b \in Int
    PROVE  ((a % n) + b) % n = (a + b) % n
<1> DEFINE x  == (a % n) + b
           y  == a + b
           q  == a \div n
           qx == x \div n
           qy == y \div n
           rx == x % n
           ry == y % n
           m  == qy - qx - q
<1>1. a % n \in 0 .. n - 1 /\ q \in Int /\ a = n * q + (a % n)
  BY DivMod
<1>2. x \in Int /\ y \in Int /\ y = x + n * q
  BY <1>1
<1> HIDE DEF x, y
<1>3. rx \in 0 .. n - 1 /\ qx \in Int /\ x = n * qx + rx
  BY <1>2, DivMod
<1>4. ry \in 0 .. n - 1 /\ qy \in Int /\ y = n * qy + ry
  BY <1>2, DivMod
<1> HIDE DEF q, qx, qy, rx, ry
<1>5. m \in Int /\ n * m = n * qy - n * qx - n * q
  BY <1>1, <1>3, <1>4
<1> HIDE DEF m
<1>6. rx - ry = n * m /\ -n < rx - ry /\ rx - ry < n /\ rx - ry \in Int
  BY <1>1, <1>2, <1>3, <1>4, <1>5
<1>7. rx - ry = 0
  BY <1>5, <1>6, MultipleInWindow
<1>8. rx = ry
  BY <1>3, <1>4, <1>7
<1> QED BY <1>8 DEF rx, ry, x, y

\* A number in range is its own remainder.
LEMMA SmallRemainder ==
    ASSUME NEW n \in Nat \ {0}, NEW a \in 0 .. n - 1
    PROVE  a % n = a
<1>1. a \in Int /\ a % n \in 0 .. n - 1 /\ a \div n \in Int /\ a = n * (a \div n) + (a % n)
  BY DivMod
<1>2. a - (a % n) = 0
  <2>1. /\ a - (a % n) \in Int /\ -n < a - (a % n) /\ a - (a % n) < n
        /\ a - (a % n) = n * (a \div n)
    BY <1>1
  <2> QED BY <1>1, <2>1, MultipleInWindow
<1> QED BY <1>1, <1>2

\* The slots of the descriptor ring, counted from one of them.
LEMMA SlotsFrom ==
    ASSUME NEW r \in Int, NEW j \in Int, NEW k \in Int
    PROVE  /\ (r + k) % BlocksSize \in Slot
           /\ (((r + j) % BlocksSize) + k) % BlocksSize = (r + (j + k)) % BlocksSize
<1>1. BlocksSize \in Nat \ {0} /\ r + k \in Int /\ r + j \in Int
  BY SizeAssumption DEF SizeAssumption
<1>2. (r + k) % BlocksSize \in Slot
  BY <1>1, DivMod DEF Slot
<1>3. (((r + j) % BlocksSize) + k) % BlocksSize = ((r + j) + k) % BlocksSize
  BY <1>1, ModAdd
<1>4. (r + j) + k = r + (j + k)
  OBVIOUS
<1> QED BY <1>2, <1>3, <1>4

\* Slots less than the ring apart are different.
LEMMA SlotsDiffer ==
    ASSUME NEW r \in Int, NEW j \in Int, NEW k \in Int,
           j < k, k - j < BlocksSize
    PROVE  (r + j) % BlocksSize # (r + k) % BlocksSize
<1>1. BlocksSize \in Nat \ {0} /\ r + k \in Int /\ r + j \in Int
  BY SizeAssumption DEF SizeAssumption
<1>2. -BlocksSize < (r + j) - (r + k) /\ (r + j) - (r + k) < BlocksSize
  BY <1>1
<1>3. r + j # r + k
  OBVIOUS
<1> QED BY <1>1, <1>2, <1>3, RemaindersDiffer

\* The types of the descriptor ring.
LEMMA BlockTypes ==
    ASSUME IInv
    PROVE  /\ BlocksSize \in Nat \ {0}
           /\ blocks_resource.read_index \in 0 .. BlocksSize - 1
           /\ blocks_resource.write_index \in 0 .. BlocksSize - 1
           /\ blocks_resource.nready \in Nat
           /\ blocks \in [Slot -> [num_samples : Nat, samples_index : Index]]
           /\ span \in [start : Index, total : Nat, taken : Nat, done : Nat]
           /\ npad \in Nat
BY SizeAssumption DEF SizeAssumption, IInv, TypeOK, Slot

\* Where the descriptors cut the quads in use: what an edge is and is not.
LEMMA EdgeTypes ==
    ASSUME IInv, NEW edge \in [0 .. blocks_resource.nready -> 0 .. Published], Chained(edge)
    PROVE  /\ Unpublished \in Nat /\ Held \in Nat
           /\ Published \in 0 .. samples_resource.nused
           /\ blocks_resource.nready + Held <= Published
           /\ \A k \in 0 .. blocks_resource.nready :
                  edge[k] \in Held .. Published /\ edge[k] \in Nat
<1>1. Unpublished \in Nat /\ Held \in Nat
  BY RingTypes, BlockTypes DEF Unpublished, Held
<1>2. blocks_resource.nready \in Nat /\ samples_resource.nused \in Nat
  BY RingTypes, BlockTypes
<1>3. Published \in Int /\ Published <= samples_resource.nused
  BY <1>1, <1>2 DEF Published
<1>4. 0 \in 0 .. blocks_resource.nready
      /\ blocks_resource.nready \in 0 .. blocks_resource.nready
  BY <1>2
<1>5. edge[0] = Held /\ edge[blocks_resource.nready] = Published
      /\ \A j, k \in 0 .. blocks_resource.nready : j <= k => edge[j] + (k - j) <= edge[k]
  BY DEF Chained
<1>6. Published \in Nat
  BY <1>3, <1>4
<1>7. blocks_resource.nready + Held <= Published
  <2>1. edge[0] + (blocks_resource.nready - 0) <= edge[blocks_resource.nready]
    BY <1>2, <1>4, <1>5
  <2> QED BY <1>1, <1>2, <1>3, <1>5, <2>1
<1>8. ASSUME NEW k \in 0 .. blocks_resource.nready
      PROVE  edge[k] \in Held .. Published /\ edge[k] \in Nat
  <2>1. edge[k] \in 0 .. Published
    OBVIOUS
  <2>2. edge[0] + (k - 0) <= edge[k]
    BY <1>2, <1>4, <1>5
  <2> QED BY <1>1, <1>5, <1>6, <2>1, <2>2
<1> QED BY <1>1, <1>3, <1>6, <1>7, <1>8

\* A step that touches neither ring keeps what they say of each other.
LEMMA RingFrame ==
    ASSUME RingKept, UNCHANGED <<samples_resource, blocks, blocks_resource, outPc, span>>,
           Unpublished' = Unpublished,
           rxPc' \in {"pad", "padBlock"} => npad' >= 1,
           rxPc' \in {"padBlock", "storeBlock"} => UNCHANGED <<rxPc, start_index>>
    PROVE  RingKept'
<1>1. PICK edge \in [0 .. blocks_resource.nready -> 0 .. Published] : Chained(edge)
  BY DEF RingKept
<1>2. UNCHANGED <<Held, Published>>
  BY DEF Held, Published
<1>3. /\ \A k : UsedCell(k)' = UsedCell(k)
      /\ \A k : Ready(k)' = Ready(k)
  BY DEF UsedCell, Ready
<1>4. Chained(edge)'
  BY <1>1, <1>2, <1>3 DEF Chained
<1>5. \E e \in [0 .. blocks_resource'.nready -> 0 .. Published'] : Chained(e)'
  BY <1>1, <1>2, <1>4
<1>6. /\ UsedCell(0)' = UsedCell(0)
      /\ UsedCell(Published)' = UsedCell(Published')
  BY <1>2 DEF UsedCell
<1> QED BY <1>2, <1>3, <1>5 DEF RingKept

\* A step of the output thread that only writes, or that only moves on.
LEMMA WriteKeepsRing ==
    ASSUME RingKept, UNCHANGED <<samples_resource, blocks, blocks_resource, rxPc,
                                 npad, start_index>>,
           UNCHANGED <<Held, span.start>>,
           outPc' \in {"write", "release", "exited"},
           outPc' \in {"write", "release"} => outPc = "write",
           outPc' = "write" => span'.done <= span'.total,
           outPc' = "release" => span'.done = span'.total
    PROVE  RingKept'
<1>1. PICK edge \in [0 .. blocks_resource.nready -> 0 .. Published] : Chained(edge)
  BY DEF RingKept
<1>2. UNCHANGED <<Unpublished, Published>>
  BY DEF Unpublished, Published
<1>3. /\ \A k : UsedCell(k)' = UsedCell(k)
      /\ \A k : Ready(k)' = Ready(k)
  BY DEF UsedCell, Ready
<1>4. Chained(edge)'
  BY <1>1, <1>2, <1>3 DEF Chained
<1>5. \E e \in [0 .. blocks_resource'.nready -> 0 .. Published'] : Chained(e)'
  BY <1>1, <1>2, <1>4
<1> QED BY <1>2, <1>3, <1>5 DEF RingKept

\* Storing quads leaves the descriptors where they are: the new quads are the
\* ones RX has yet to publish.
LEMMA FillKeepsRing ==
    ASSUME IInv, RingKept, NEW n \in 1 .. SamplesSize, NEW c, FillRing(n, c),
           samples_resource.nused + n <= SamplesSize,
           Unpublished = 0, Unpublished' = n,
           rxPc' = "padBlock" => npad' >= 1, rxPc' # "pad",
           UNCHANGED <<blocks, blocks_resource, outPc, span>>
    PROVE  RingKept'
<1>1. PICK edge \in [0 .. blocks_resource.nready -> 0 .. Published] : Chained(edge)
  BY DEF RingKept
<1>2. /\ Published \in 0 .. samples_resource.nused
      /\ blocks_resource.nready \in Nat
      /\ \A k \in 0 .. blocks_resource.nready : edge[k] \in 0 .. samples_resource.nused
  <2>1. /\ Published \in 0 .. samples_resource.nused
        /\ Held \in Nat
        /\ \A k \in 0 .. blocks_resource.nready : edge[k] \in Held .. Published /\ edge[k] \in Nat
    BY <1>1, EdgeTypes
  <2>2. samples_resource.nused \in Nat /\ blocks_resource.nready \in Nat
    BY BlockTypes, RingTypes
  <2>3. ASSUME NEW k \in 0 .. blocks_resource.nready
        PROVE  edge[k] \in 0 .. samples_resource.nused
    BY <2>1, <2>2
  <2> QED BY <2>1, <2>2, <2>3
<1>3. /\ samples_resource'.nused = samples_resource.nused + n
      /\ \A k \in 0 .. samples_resource.nused : UsedCell(k)' = UsedCell(k)
  BY FillKeepsUsed, RingTypes
<1>4. UNCHANGED <<Held, Published>> /\ Published = samples_resource.nused
  BY <1>3, RingTypes DEF Held, Published
<1>5. \A k : Ready(k)' = Ready(k)
  BY DEF Ready
<1>6. Chained(edge)'
  BY <1>1, <1>2, <1>3, <1>4, <1>5 DEF Chained
<1>7. \E e \in [0 .. blocks_resource'.nready -> 0 .. Published'] : Chained(e)'
  BY <1>1, <1>4, <1>6
<1>8. start_index' = UsedCell(Published)'
  <2>1. start_index' = samples_resource.write_index
    BY DEF FillRing
  <2>2. samples_resource'.write_index = Wrap(samples_resource.write_index + n)
    BY DEF FillRing
  <2>3. UsedCell(Published)' = samples_resource.write_index
    BY <1>3, <1>4, <2>2, RingTypes DEF UsedCell, Wrap
  <2> QED BY <2>1, <2>3
<1>9. UsedCell(0)' = UsedCell(0)
  BY <1>3, RingTypes
<1> QED BY <1>4, <1>7, <1>8, <1>9 DEF RingKept

\* Publishing a descriptor appends it to the chain, unless it overwrites one.
LEMMA PublishKeepsRing ==
    ASSUME IInv, RingKept, NEW n \in 1 .. SamplesSize, PublishBlock(n), ~lapped',
           Unpublished = n, Unpublished' = 0, start_index = UsedCell(Published),
           rxPc' \notin {"pad", "padBlock", "storeBlock"},
           UNCHANGED <<samples_resource, outPc, span>>
    PROVE  RingKept'
<1>1. PICK edge \in [0 .. blocks_resource.nready -> 0 .. Published] : Chained(edge)
  BY DEF RingKept
<1>2. PICK N \in Nat, Read \in Int, Pub \in Nat :
          N = blocks_resource.nready /\ Read = blocks_resource.read_index /\ Pub = Published
  BY <1>1, BlockTypes, EdgeTypes, RingTypes
<1> DEFINE last == [num_samples |-> n, samples_index |-> start_index]
           e    == [k \in 0 .. N + 1 |-> IF k = N + 1 THEN Pub + n ELSE edge[k]]
<1>3. /\ n \in Nat \ {0}
      /\ \A k \in 0 .. N : edge[k] \in 0 .. Pub
      /\ edge[N] = Pub
  <2>1. /\ Held \in Nat
        /\ \A k \in 0 .. N : edge[k] \in Held .. Pub /\ edge[k] \in Nat
    BY <1>1, <1>2, EdgeTypes
  <2>2. edge[N] = Pub
    BY <1>1, <1>2 DEF Chained
  <2>3. n \in Nat \ {0}
    BY RingTypes
  <2> QED BY <2>1, <2>2, <2>3
<1>4. Published' = Pub + n /\ Held' = Held /\ Pub + n = samples_resource.nused
  BY <1>2, RingTypes DEF Published, Held
<1>5. /\ ~(N >= BlocksSize)
      /\ blocks_resource' = [blocks_resource EXCEPT
             !.write_index = (blocks_resource.write_index + 1) % BlocksSize,
             !.nready = N + 1]
      /\ blocks' = [blocks EXCEPT ![blocks_resource.write_index] = last]
      /\ outPc # "coalesce"
  BY <1>2 DEF PublishBlock, BlocksLocked
<1>6. blocks_resource \in [read_index : Slot, write_index : Slot, nready : Nat]
  BY DEF IInv, TypeOK
<1>7. /\ blocks_resource'.nready = N + 1
      /\ blocks_resource'.read_index = Read
      /\ blocks_resource'.write_index = (blocks_resource.write_index + 1) % BlocksSize
  BY <1>2, <1>5, <1>6
<1>8. blocks_resource.write_index = (Read + N) % BlocksSize
  BY <1>2 DEF RingKept
<1>9. blocks_resource'.write_index = (Read + (N + 1)) % BlocksSize
  BY <1>7, <1>8, SlotsFrom
<1>10. \A k : UsedCell(k)' = UsedCell(k)
  BY DEF UsedCell
<1>11. ASSUME NEW k \in 0 .. N - 1
       PROVE  Ready(k)' = Ready(k)
  <2>1. k \in Int /\ N \in Int /\ k < N /\ N - k < BlocksSize
    BY <1>2, <1>5, BlockTypes
  <2>2. (Read + k) % BlocksSize \in Slot
    BY <1>2, <2>1, SlotsFrom, Zenon
  <2>3. (Read + k) % BlocksSize # (Read + N) % BlocksSize
    BY <1>2, <2>1, SlotsDiffer, Zenon
  <2>4. /\ Ready(k)' = blocks'[(Read + k) % BlocksSize]
        /\ Ready(k) = blocks[(Read + k) % BlocksSize]
    BY <1>2, <1>7 DEF Ready
  <2> QED BY <1>5, <1>8, <2>1, <2>2, <2>3, <2>4, BlockTypes
<1>12. Ready(N)' = last
  <2>1. (Read + N) % BlocksSize \in Slot
    BY SlotsFrom
  <2>2. Ready(N)' = blocks'[(Read + N) % BlocksSize]
    BY <1>7 DEF Ready
  <2> QED BY <1>5, <1>8, <2>1, <2>2, BlockTypes
<1>13. e \in [0 .. blocks_resource'.nready -> 0 .. Published']
  BY <1>3, <1>4, <1>7
<1>14. Chained(e)'
  <2>1. e[0] = Held' /\ e[N + 1] = Published'
    BY <1>1, <1>4 DEF Chained
  <2>2. ASSUME NEW j \in 0 .. N + 1, NEW k \in 0 .. N + 1, j <= k
        PROVE  e[j] + (k - j) <= e[k]
    <3>1. CASE k # N + 1
      BY <1>1, <1>2, <2>2, <3>1 DEF Chained
    <3>2. CASE k = N + 1 /\ j = N + 1
      BY <1>3, <3>2
    <3>3. CASE k = N + 1 /\ j # N + 1
      <4>1. j \in 0 .. N /\ edge[j] + (N - j) <= edge[N]
        BY <1>1, <1>2, <3>3 DEF Chained
      <4> QED BY <1>3, <3>3, <4>1
    <3> QED BY <3>1, <3>2, <3>3
  <2>3. ASSUME NEW k \in 0 .. N
        PROVE  Ready(k)' = [num_samples   |-> e[k + 1] - e[k],
                            samples_index |-> UsedCell(e[k])']
    <3>1. UsedCell(e[k])' = UsedCell(edge[k]) /\ e[k] = edge[k]
      BY <1>2, <1>10
    <3>2. CASE k # N
      <4>1. k \in 0 .. N - 1 /\ e[k + 1] = edge[k + 1]
        BY <1>2, <3>2
      <4>2. Ready(k) = [num_samples   |-> edge[k + 1] - edge[k],
                        samples_index |-> UsedCell(edge[k])]
        BY <1>1, <1>2, <4>1 DEF Chained
      <4> QED BY <1>11, <3>1, <4>1, <4>2
    <3>3. CASE k = N
      <4>1. e[N + 1] - e[N] = n
        BY <1>2, <1>3
      <4>2. start_index = UsedCell(edge[N])
        BY <1>2, <1>3
      <4> QED BY <1>12, <3>1, <3>3, <4>1, <4>2
    <3> QED BY <3>2, <3>3
  <2> HIDE DEF e
  <2> QED BY <1>5, <1>7, <2>1, <2>2, <2>3 DEF Chained
<1>15. UsedCell(0)' = UsedCell(0)
  BY <1>10
<1> HIDE DEF e
<1>16. N + 1 <= BlocksSize
  BY <1>2, <1>5, BlockTypes
<1>17. \E edge2 \in [0 .. blocks_resource'.nready -> 0 .. Published'] : Chained(edge2)'
  BY <1>13, <1>14
<1> QED BY <1>5, <1>7, <1>9, <1>15, <1>16, <1>17 DEF RingKept

\* A span begins with the oldest quad of the ring.
LEMMA DrainKeepsRing ==
    ASSUME IInv, RingKept, Drain
    PROVE  RingKept'
<1>1. PICK edge \in [0 .. blocks_resource.nready -> 0 .. Published] : Chained(edge)
  BY DEF RingKept
<1>2. /\ outPc = "wait" /\ outPc' = "coalesce" /\ blocks_resource.nready > 0
      /\ span' = [start |-> blocks[blocks_resource.read_index].samples_index,
                  total |-> 0, taken |-> 0, done |-> 0]
      /\ UNCHANGED <<samples_resource, blocks, blocks_resource, rxPc, npad, start_index>>
  BY DEF Drain, WorthDraining, ringVars, blockVars
<1>3. Held = 0 /\ Held' = 0 /\ Published' = Published
  BY <1>2 DEF Held, Published, Unpublished
<1>4. /\ \A k : UsedCell(k)' = UsedCell(k)
      /\ \A k : Ready(k)' = Ready(k)
  BY <1>2 DEF UsedCell, Ready
<1>5. edge[0] = 0 /\ Chained(edge)'
  BY <1>1, <1>2, <1>3, <1>4 DEF Chained
<1>6. span'.start = UsedCell(0)
  <2>1. Ready(0) = blocks[blocks_resource.read_index]
    <3>1. blocks_resource.read_index + 0 = blocks_resource.read_index
      BY BlockTypes
    <3>2. blocks_resource.read_index % BlocksSize = blocks_resource.read_index
      BY BlockTypes, SmallRemainder
    <3> QED BY <3>1, <3>2 DEF Ready
  <2>2. 0 \in 0 .. blocks_resource.nready - 1
    BY <1>2, BlockTypes
  <2>3. Ready(0).samples_index = UsedCell(edge[0])
    BY <1>1, <2>2 DEF Chained
  <2> QED BY <1>2, <1>5, <2>1, <2>3
<1>7. \E e \in [0 .. blocks_resource'.nready -> 0 .. Published'] : Chained(e)'
  BY <1>1, <1>2, <1>3, <1>5
<1>8. UsedCell(Published)' = UsedCell(Published)
  BY <1>2, <1>3 DEF UsedCell
<1>9. UsedCell(0)' = UsedCell(0)
  BY <1>4
<1> QED BY <1>2, <1>6, <1>7, <1>8, <1>9 DEF RingKept

\* The coalescing loop adds up the spans it takes.
LEMMA TakeKeepsRing ==
    ASSUME IInv, RingKept, TakeBlock
    PROVE  RingKept'
<1>1. PICK edge \in [0 .. blocks_resource.nready -> 0 .. Published] : Chained(edge)
  BY DEF RingKept
<1>2. /\ outPc = "coalesce" /\ outPc' = "coalesce" /\ span.taken < blocks_resource.nready
      /\ span' = [span EXCEPT !.total = @ + NextTaken.num_samples, !.taken = @ + 1]
      /\ UNCHANGED <<samples_resource, blocks, blocks_resource, rxPc, npad, start_index>>
  BY DEF TakeBlock, ringVars, blockVars
<1>3. Held' = Held /\ Published' = Published
  BY <1>2 DEF Held, Published, Unpublished
<1>4. /\ \A k : UsedCell(k)' = UsedCell(k)
      /\ \A k : Ready(k)' = Ready(k)
  BY <1>2 DEF UsedCell, Ready
<1>5. /\ span'.total = span.total + Ready(span.taken).num_samples
      /\ span'.taken = span.taken + 1 /\ span'.start = span.start /\ span'.done = span.done
  BY <1>2, BlockTypes DEF NextTaken, Ready
<1>6. span'.total = edge[span'.taken]
  <2>1. /\ span.taken \in 0 .. blocks_resource.nready - 1
        /\ span.taken \in 0 .. blocks_resource.nready
        /\ span.taken + 1 \in 0 .. blocks_resource.nready
    BY <1>2, BlockTypes
  <2>2. span.total = edge[span.taken]
    BY <1>1, <1>2 DEF Chained
  <2>3. Ready(span.taken).num_samples = edge[span.taken + 1] - edge[span.taken]
    BY <1>1, <2>1 DEF Chained
  <2>4. edge[span.taken] \in Int /\ edge[span.taken + 1] \in Int
    BY <1>1, <2>1, EdgeTypes
  <2> QED BY <1>5, <2>2, <2>3, <2>4
<1>7. Chained(edge)'
  BY <1>1, <1>2, <1>3, <1>4, <1>6 DEF Chained
<1>8. \E e \in [0 .. blocks_resource'.nready -> 0 .. Published'] : Chained(e)'
  BY <1>1, <1>2, <1>3, <1>7
<1>9. UsedCell(Published)' = UsedCell(Published) /\ UsedCell(0)' = UsedCell(0)
  BY <1>2, <1>3 DEF UsedCell
<1> QED BY <1>2, <1>5, <1>8, <1>9 DEF RingKept

\* Popping the spans taken leaves the rest of the chain, and holds their quads.
LEMMA PopKeepsRing ==
    ASSUME IInv, RingKept, PopTaken
    PROVE  RingKept'
<1>1. PICK edge \in [0 .. blocks_resource.nready -> 0 .. Published] : Chained(edge)
  BY DEF RingKept
<1>2. PICK N \in Nat, Read \in Int, t \in Nat :
          /\ N = blocks_resource.nready /\ Read = blocks_resource.read_index
          /\ t = span.taken
  BY BlockTypes
<1>3. /\ outPc = "coalesce" /\ outPc' = "write"
      /\ blocks_resource' = [blocks_resource EXCEPT
             !.read_index = (Read + t) % BlocksSize, !.nready = N - t]
      /\ UNCHANGED <<samples_resource, blocks, rxPc, npad, start_index, span>>
  BY <1>2 DEF PopTaken, ringVars
<1>4. t <= N
  BY <1>2, <1>3 DEF IInv, Bounded
<1>5. /\ blocks_resource'.read_index = (Read + t) % BlocksSize
      /\ blocks_resource'.nready = N - t
      /\ blocks_resource'.write_index = blocks_resource.write_index
  <2>1. blocks_resource \in [read_index : Slot, write_index : Slot, nready : Nat]
    BY DEF IInv, TypeOK
  <2> QED BY <1>3, <2>1
<1>6. Held = 0 /\ Held' = span.total /\ Published' = Published
  BY <1>3 DEF Held, Published, Unpublished
<1> DEFINE e == [k \in 0 .. N - t |-> edge[k + t]]
<1>7. span.total = edge[t]
  BY <1>1, <1>2, <1>3 DEF Chained
<1>8. /\ \A k : UsedCell(k)' = UsedCell(k)
      /\ \A k \in Int : Ready(k)' = Ready(t + k)
  <2>1. \A k : UsedCell(k)' = UsedCell(k)
    BY <1>3 DEF UsedCell
  <2>2. ASSUME NEW k \in Int
        PROVE  Ready(k)' = Ready(t + k)
    <3>1. (((Read + t) % BlocksSize) + k) % BlocksSize = (Read + (t + k)) % BlocksSize
      BY SlotsFrom
    <3> QED BY <1>2, <1>3, <1>5, <3>1 DEF Ready
  <2> QED BY <2>1, <2>2
<1>9. e \in [0 .. blocks_resource'.nready -> 0 .. Published']
  <2>1. ASSUME NEW k \in 0 .. N - t
        PROVE  edge[k + t] \in 0 .. Published
    BY <1>1, <1>2, <1>4
  <2> QED BY <1>5, <1>6, <2>1
<1>10. Chained(e)'
  <2>1. e[0] = Held' /\ e[N - t] = Published'
    <3>1. 0 \in 0 .. N - t /\ N - t \in 0 .. N - t /\ 0 + t = t /\ (N - t) + t = N
      BY <1>2, <1>4
    <3>2. e[0] = edge[0 + t] /\ e[N - t] = edge[(N - t) + t]
      BY <3>1
    <3>3. edge[N] = Published
      BY <1>1, <1>2 DEF Chained
    <3> QED BY <1>6, <1>7, <3>1, <3>2, <3>3
  <2>2. ASSUME NEW j \in 0 .. N - t, NEW k \in 0 .. N - t, j <= k
        PROVE  e[j] + (k - j) <= e[k]
    <3>1. j + t \in 0 .. N /\ k + t \in 0 .. N /\ j + t <= k + t
          /\ (k + t) - (j + t) = k - j
      BY <1>2, <1>4, <2>2
    <3>2. edge[j + t] + ((k + t) - (j + t)) <= edge[k + t]
      BY <1>1, <1>2, <3>1 DEF Chained
    <3> QED BY <3>1, <3>2
  <2>3. ASSUME NEW k \in 0 .. N - t - 1
        PROVE  Ready(k)' = [num_samples   |-> e[k + 1] - e[k],
                            samples_index |-> UsedCell(e[k])']
    <3>1. /\ t + k \in 0 .. N - 1 /\ t + k = k + t /\ (t + k) + 1 = (k + 1) + t
          /\ k \in 0 .. N - t /\ k + 1 \in 0 .. N - t /\ k \in Int
      <4>1. k \in Nat /\ k < N - t /\ t \in Nat /\ N \in Nat
        BY <1>2, <1>4
      <4> QED BY <4>1
    <3>2. Ready(t + k) = [num_samples   |-> edge[(t + k) + 1] - edge[t + k],
                          samples_index |-> UsedCell(edge[t + k])]
      BY <1>1, <1>2, <3>1 DEF Chained
    <3>3. e[k] = edge[t + k] /\ e[k + 1] = edge[(t + k) + 1]
      BY <3>1
    <3>4. UsedCell(e[k])' = UsedCell(edge[t + k])
      BY <1>8, <3>3
    <3> HIDE DEF e
    <3> QED BY <1>8, <3>1, <3>2, <3>3, <3>4
  <2> HIDE DEF e
  <2> QED BY <1>3, <1>5, <2>1, <2>2, <2>3 DEF Chained
<1>11. blocks_resource'.write_index = (blocks_resource'.read_index + (N - t)) % BlocksSize
  <2>1. blocks_resource.write_index = (Read + N) % BlocksSize
    BY <1>2 DEF RingKept
  <2>2. ASSUME NEW m \in Int
        PROVE  (((Read + t) % BlocksSize) + m) % BlocksSize = (Read + (t + m)) % BlocksSize
    BY SlotsFrom
  <2>3. N - t \in Int /\ t + (N - t) = N
    BY <1>2
  <2> QED BY <1>5, <2>1, <2>2, <2>3
<1>12. N - t <= BlocksSize
  BY <1>2, <1>4, BlockTypes DEF RingKept
<1> HIDE DEF e
<1>13. \E edge2 \in [0 .. blocks_resource'.nready -> 0 .. Published'] : Chained(edge2)'
  BY <1>9, <1>10
<1>14. UsedCell(Published)' = UsedCell(Published) /\ UsedCell(0)' = UsedCell(0)
  BY <1>3, <1>6 DEF UsedCell
<1>15. span.done <= span.total
  BY <1>3, BlockTypes DEF RingKept
<1> QED BY <1>3, <1>5, <1>11, <1>12, <1>13, <1>14, <1>15 DEF RingKept

\* Releasing a span makes the quad after it the oldest.
LEMMA ReleaseKeepsRing ==
    ASSUME IInv, RingKept, Release
    PROVE  /\ RingKept'
           /\ samples_resource.nused - span.total \in Nat
           /\ samples_resource' = [samples_resource EXCEPT !.nused = @ - span.total]
           /\ \A k : k \in Nat /\ k <= samples_resource.nused - span.total =>
                  UsedCell(k)' = UsedCell(k + span.total)
<1>1. PICK edge \in [0 .. blocks_resource.nready -> 0 .. Published] : Chained(edge)
  BY DEF RingKept
<1>2. PICK N \in Nat, total \in Nat, nused \in Nat :
          /\ N = blocks_resource.nready /\ total = span.total
          /\ nused = samples_resource.nused
  BY BlockTypes, RingTypes
<1>3. /\ outPc = "release" /\ outPc' = "wait"
      /\ samples_resource' = [samples_resource EXCEPT !.nused =
             IF nused >= total THEN nused - total ELSE 0]
      /\ UNCHANGED <<blocks, blocks_resource, rxPc, npad, start_index, span>>
  BY <1>2 DEF Release, blockVars
<1>4. /\ Held = total /\ Held' = 0 /\ Published \in 0 .. nused
      /\ \A k \in 0 .. N : edge[k] \in total .. Published /\ edge[k] \in Nat
      /\ total <= Published
  <2>1. Held = total /\ Held' = 0
    BY <1>2, <1>3 DEF Held
  <2>2. /\ Published \in 0 .. nused
        /\ \A k \in 0 .. N : edge[k] \in Held .. Published /\ edge[k] \in Nat
        /\ N + Held <= Published
    BY <1>1, <1>2, EdgeTypes
  <2> QED BY <1>2, <2>1, <2>2
<1>5. nused - total \in Nat
  BY <1>2, <1>4
<1>6. /\ samples_resource' = [samples_resource EXCEPT !.nused = nused - total]
      /\ samples_resource'.nused = nused - total
      /\ samples_resource'.write_index = samples_resource.write_index
  <2>1. samples_resource' = [samples_resource EXCEPT !.nused = nused - total]
    BY <1>2, <1>3, <1>5
  <2>2. samples_resource \in [write_index : Index, nused : Nat]
    BY DEF IInv, TypeOK
  <2> QED BY <2>1, <2>2
<1>7. ASSUME NEW k \in Nat, k <= nused - total
      PROVE  UsedCell(k)' = UsedCell(k + total)
  BY <1>2, <1>5, <1>6, <1>7, RingTypes DEF UsedCell
<1>8. Published' = Published - total /\ Published' \in Nat
  <2>1. Unpublished' = Unpublished /\ Unpublished \in Nat
    BY <1>1, <1>3, EdgeTypes DEF Unpublished
  <2> QED BY <1>2, <1>4, <1>6, <2>1 DEF Published
<1> DEFINE e == [k \in 0 .. N |-> edge[k] - total]
<1>9. e \in [0 .. blocks_resource'.nready -> 0 .. Published']
  <2>1. ASSUME NEW k \in 0 .. N
        PROVE  edge[k] - total \in 0 .. Published'
    <3>1. edge[k] \in total .. Published /\ edge[k] \in Nat
      BY <1>4
    <3> QED BY <1>2, <1>4, <1>8, <3>1
  <2> QED BY <1>2, <1>3, <2>1
<1>10. Chained(e)'
  <2>1. e[0] = Held' /\ e[N] = Published'
    <3>1. edge[0] = total /\ edge[N] = Published
      BY <1>1, <1>2, <1>4 DEF Chained
    <3>2. 0 \in 0 .. N /\ N \in 0 .. N
      BY <1>2
    <3> QED BY <1>2, <1>4, <1>8, <3>1, <3>2
  <2>2. ASSUME NEW j \in 0 .. N, NEW k \in 0 .. N, j <= k
        PROVE  e[j] + (k - j) <= e[k]
    <3>1. edge[j] + (k - j) <= edge[k]
      BY <1>1, <1>2, <2>2 DEF Chained
    <3>2. edge[j] \in Nat /\ edge[k] \in Nat
      BY <1>4
    <3> QED BY <1>2, <3>1, <3>2
  <2>3. ASSUME NEW k \in 0 .. N - 1
        PROVE  Ready(k)' = [num_samples   |-> e[k + 1] - e[k],
                            samples_index |-> UsedCell(e[k])']
    <3>1. k \in 0 .. N /\ k + 1 \in 0 .. N
      BY <1>2
    <3>2. Ready(k) = [num_samples   |-> edge[k + 1] - edge[k],
                      samples_index |-> UsedCell(edge[k])]
      BY <1>1, <1>2 DEF Chained
    <3>3. /\ edge[k] \in Nat /\ edge[k + 1] \in Nat
          /\ edge[k] \in total .. Published
      BY <1>4, <3>1
    <3>4. /\ e[k] = edge[k] - total /\ e[k + 1] - e[k] = edge[k + 1] - edge[k]
          /\ e[k] \in Nat /\ e[k] + total = edge[k] /\ e[k] <= nused - total
      <4>1. e[k] = edge[k] - total /\ e[k + 1] = edge[k + 1] - total
        BY <3>1
      <4> HIDE DEF e
      <4>2. edge[k] >= total /\ edge[k] <= nused
        BY <1>2, <1>4, <3>3
      <4>3. ASSUME NEW a \in Nat, NEW b \in Nat, a >= total, a <= nused
            PROVE  /\ (b - total) - (a - total) = b - a
                   /\ a - total \in Nat /\ (a - total) + total = a
                   /\ a - total <= nused - total
        BY <1>2, <4>3
      <4> QED BY <3>3, <4>1, <4>2, <4>3
    <3> HIDE DEF e
    <3>5. UsedCell(e[k])' = UsedCell(edge[k])
      BY <1>7, <3>4
    <3>6. Ready(k)' = Ready(k)
      BY <1>3 DEF Ready
    <3> QED BY <3>2, <3>4, <3>5, <3>6
  <2> HIDE DEF e
  <2> QED BY <1>2, <1>3, <2>1, <2>2, <2>3 DEF Chained
<1> HIDE DEF e
<1>11. \E edge2 \in [0 .. blocks_resource'.nready -> 0 .. Published'] : Chained(edge2)'
  BY <1>9, <1>10
<1>12. UsedCell(Published)' = UsedCell(Published)
  BY <1>2, <1>4, <1>6, <1>8, RingTypes DEF UsedCell
<1>13. RingKept'
  BY <1>3, <1>11, <1>12 DEF RingKept
<1> QED BY <1>2, <1>5, <1>6, <1>7, <1>13

\* A descriptor once overwritten stays overwritten.
LEMMA LappedStays ==
    ASSUME [Next]_vars, ~lapped'
    PROVE  ~lapped
<1> USE DEF netVars, seqVars, ringVars, blockVars, outVars, mainVars
<1>1. CASE UNCHANGED vars
  BY <1>1 DEF vars
<1>2. CASE PadBlock \/ StoreBlock
  BY <1>2 DEF PadBlock, StoreBlock, PublishBlock
<1>3. CASE Receive \/ Pad \/ Store \/ Overrun \/ RxExit
  BY <1>3 DEF Receive, FirstPkt, NextPkt, LatePkt, GapWithRoom, GapWithoutRoom,
              Pad, Store, Overrun, RxExit
<1>4. CASE OutWork \/ StreamSeen \/ GiveUp \/ StopRecording \/ StopWork \/ Terminated
  BY <1>4 DEF OutWork, OutExit, Drain, TakeBlock, PopTaken, WriteSome, WriteError,
              WritesDone, Release, StreamSeen, GiveUp, StopRecording, StopWork,
              StreamingStop, OutputClose, BuffersFree, Terminated, vars
<1> QED BY <1>1, <1>2, <1>3, <1>4 DEF Next, RxWork

\* Until a descriptor is overwritten, every step keeps what the rings say of
\* each other.
LEMMA RingStep ==
    ASSUME IInv, IInv', RingKept, [Next]_vars, ~lapped'
    PROVE  RingKept'
<1> USE DEF netVars, seqVars, ringVars, blockVars, outVars, mainVars
<1>a. npad \in Nat /\ npad' \in Nat /\ Bounded /\ RoomStillThere
  BY DEF IInv, TypeOK
<1>b. /\ rxPc \in {"pad", "padBlock"} => npad \in 1 .. SamplesSize
      /\ QuadsPerPacket \in 1 .. SamplesSize
  BY <1>a, RingTypes DEF RingKept, Bounded
<1>1. CASE UNCHANGED vars
  BY <1>1, RingFrame DEF vars, Unpublished, RingKept
<1>2. CASE Receive
  <2>1. /\ rxPc = "recv" /\ rxPc' \in {"recv", "store", "pad"}
        /\ rxPc' = "pad" => npad' > 0
        /\ UNCHANGED <<samples_resource, blocks, blocks_resource, outPc, span>>
    BY <1>2 DEF Receive, FirstPkt, NextPkt, LatePkt, GapWithRoom, GapWithoutRoom, Arrives
  <2>2. Unpublished = 0 /\ Unpublished' = 0
    BY <2>1 DEF Unpublished
  <2> QED BY <1>a, <2>1, <2>2, RingFrame
<1>3. CASE Pad
  <2>1. /\ rxPc = "pad" /\ rxPc' = "padBlock" /\ npad' = npad
        /\ FillRing(npad, [k \in 0 .. npad - 1 |-> Zero])
        /\ UNCHANGED <<blocks, blocks_resource, outPc, span>>
    BY <1>3 DEF Pad
  <2>2. Unpublished = 0 /\ Unpublished' = npad
    BY <2>1 DEF Unpublished
  <2>3. samples_resource.nused + npad <= SamplesSize
    BY <1>a, <2>1 DEF RoomStillThere
  <2>4. npad \in 1 .. SamplesSize /\ npad' >= 1
    BY <1>a, <1>b, <2>1
  <2> QED BY <2>1, <2>2, <2>3, <2>4, FillKeepsRing
<1>4. CASE PadBlock
  <2>1. /\ rxPc = "padBlock" /\ rxPc' = "store" /\ PublishBlock(npad)
        /\ UNCHANGED <<samples_resource, outPc, span>>
    BY <1>4 DEF PadBlock
  <2>2. Unpublished = npad /\ Unpublished' = 0
    BY <2>1 DEF Unpublished
  <2>3. start_index = UsedCell(Published)
    BY <2>1 DEF RingKept
  <2> QED BY <1>b, <2>1, <2>2, <2>3, PublishKeepsRing
<1>5. CASE Store
  <2>1. /\ rxPc = "store" /\ rxPc' = "storeBlock"
        /\ FillRing(QuadsPerPacket, [k \in 0 .. QuadsPerPacket - 1 |-> Instant(newest, k)])
        /\ samples_resource.nused + QuadsPerPacket <= SamplesSize
        /\ UNCHANGED <<blocks, blocks_resource, outPc, span>>
    BY <1>5 DEF Store, HasRoom
  <2>2. Unpublished = 0 /\ Unpublished' = QuadsPerPacket
    BY <2>1 DEF Unpublished
  <2> QED BY <1>b, <2>1, <2>2, FillKeepsRing
<1>6. CASE StoreBlock
  <2>1. /\ rxPc = "storeBlock" /\ rxPc' = "recv" /\ PublishBlock(QuadsPerPacket)
        /\ UNCHANGED <<samples_resource, outPc, span>>
    BY <1>6 DEF StoreBlock
  <2>2. Unpublished = QuadsPerPacket /\ Unpublished' = 0
    BY <2>1 DEF Unpublished
  <2>3. start_index = UsedCell(Published)
    BY <2>1 DEF RingKept
  <2> QED BY <1>b, <2>1, <2>2, <2>3, PublishKeepsRing
<1>7. CASE Overrun \/ RxExit
  <2>1. /\ rxPc \in {"store", "recv"} /\ rxPc' \in {"recv", "exited"}
        /\ UNCHANGED <<samples_resource, blocks, blocks_resource, outPc, span>>
    BY <1>7 DEF Overrun, RxExit
  <2>2. Unpublished = 0 /\ Unpublished' = 0
    BY <2>1 DEF Unpublished
  <2> QED BY <2>1, <2>2, RingFrame
<1>8. CASE OutExit \/ (\E n \in 1 .. SamplesSize : WriteSome(n)) \/ WriteError \/ WritesDone
  <2>1. UNCHANGED <<samples_resource, blocks, blocks_resource, rxPc, npad, start_index>>
    BY <1>8 DEF OutExit, WriteSome, WriteError, WritesDone
  <2>2. /\ PartEnd \in Nat /\ PartEnd <= span.total
        /\ span \in [start : Index, total : Nat, taken : Nat, done : Nat]
    BY PartEndBounds, BlockTypes DEF IInv
  <2>3. CASE OutExit
    <3>1. outPc = "wait" /\ outPc' = "exited" /\ span' = span
      BY <2>3 DEF OutExit
    <3>2. Held' = Held
      BY <3>1 DEF Held
    <3> QED BY <2>1, <3>1, <3>2, WriteKeepsRing
  <2>4. ASSUME NEW n \in 1 .. SamplesSize, WriteSome(n)
        PROVE  RingKept'
    <3>1. /\ outPc = "write" /\ outPc' = "write" /\ n \in 1 .. PartEnd - span.done
          /\ span' = [span EXCEPT !.done = @ + n]
      BY <2>4 DEF WriteSome
    <3>2. /\ span'.start = span.start /\ span'.total = span.total
          /\ span'.done = span.done + n
      BY <2>2, <3>1
    <3>3. span'.done <= span'.total
      BY <2>2, <3>1, <3>2
    <3>4. Held' = Held
      BY <3>1, <3>2 DEF Held
    <3> QED BY <2>1, <3>1, <3>2, <3>3, <3>4, WriteKeepsRing
  <2>5. CASE WriteError
    <3>1. /\ outPc = "write" /\ outPc' = "write" /\ span' = [span EXCEPT !.done = PartEnd]
      BY <2>5 DEF WriteError
    <3>2. span'.start = span.start /\ span'.total = span.total /\ span'.done = PartEnd
      BY <2>2, <3>1
    <3>3. Held' = Held
      BY <3>1, <3>2 DEF Held
    <3> QED BY <2>1, <2>2, <3>1, <3>2, <3>3, WriteKeepsRing
  <2>6. CASE WritesDone
    <3>1. outPc = "write" /\ outPc' = "release" /\ span.done = span.total /\ span' = span
      BY <2>6 DEF WritesDone
    <3>2. Held' = Held
      BY <3>1 DEF Held
    <3> QED BY <2>1, <3>1, <3>2, WriteKeepsRing
  <2> QED BY <1>8, <2>3, <2>4, <2>5, <2>6
<1>9. CASE Drain
  BY <1>9, DrainKeepsRing
<1>10. CASE TakeBlock
  BY <1>10, TakeKeepsRing
<1>11. CASE PopTaken
  BY <1>11, PopKeepsRing
<1>12. CASE Release
  BY <1>12, ReleaseKeepsRing
<1>13. CASE StreamSeen \/ GiveUp \/ StopRecording \/ StopWork \/ Terminated
  <2>1. UNCHANGED <<samples_resource, blocks, blocks_resource, outPc, span, rxPc, npad,
                    start_index>>
    BY <1>13 DEF StreamSeen, GiveUp, StopRecording, StopWork, StreamingStop,
                 OutputClose, BuffersFree, Terminated, vars
  <2>2. Unpublished' = Unpublished
    BY <2>1 DEF Unpublished
  <2>3. rxPc' \in {"pad", "padBlock"} => npad' >= 1
    BY <2>1 DEF RingKept
  <2> QED BY <2>1, <2>2, <2>3, RingFrame
<1> QED
  BY <1>1, <1>2, <1>3, <1>4, <1>5, <1>6, <1>7, <1>8, <1>9, <1>10, <1>11, <1>12, <1>13
  DEF Next, RxWork, OutWork

-----------------------------------------------------------------------------
(* Theorems about the rings *)

\* Nothing is stored at the start and no descriptor is ready.
LEMMA InitRInv ==
    ASSUME Init
    PROVE  RInv
<1>1. IInv
  BY InitIInv
<1>2. RingKept
  <2>1. /\ rxPc = "recv" /\ outPc = "wait"
        /\ samples_resource = [write_index |-> 0, nused |-> 0]
        /\ blocks_resource = [read_index |-> 0, write_index |-> 0, nready |-> 0]
    BY DEF Init
  <2>2. Unpublished = 0 /\ Held = 0 /\ Published = 0
    BY <2>1 DEF Unpublished, Held, Published
  <2> DEFINE e == [k \in 0 .. 0 |-> 0]
  <2>3. e \in [0 .. blocks_resource.nready -> 0 .. Published]
    BY <2>1, <2>2
  <2>4. Chained(e)
    BY <2>1, <2>2 DEF Chained
  <2>5. 0 % BlocksSize = 0
    BY <1>1, BlockTypes, SmallRemainder
  <2> HIDE DEF e
  <2>6. 0 <= BlocksSize
    BY <1>1, BlockTypes
  <2> QED BY <2>1, <2>3, <2>4, <2>5, <2>6 DEF RingKept
<1> QED BY <1>1, <1>2 DEF RInv

\* The two rings agree with each other and with the two threads, until a
\* descriptor is overwritten (streaming.c:136-168, 224-242, output.c:199-254).
THEOREM RingInvariance == Spec => []RInv
<1>1. Init => RInv
  BY InitRInv
<1>2. RInv /\ [Next]_vars => RInv'
  <2> SUFFICES ASSUME RInv, [Next]_vars PROVE RInv'
    OBVIOUS
  <2>1. IInv /\ IInv'
    BY TypeStep, BoundedStep, TrackingStep, JoinedStep, AccountedStep DEF IInv, RInv
  <2>2. ~lapped' => RingKept'
    BY <2>1, LappedStays, RingStep DEF RInv
  <2> QED BY <2>1, <2>2 DEF RInv
<1> QED BY <1>1, <1>2, PTL DEF Spec

-----------------------------------------------------------------------------
(* The quads that wait to be written, as a sequence *)

\* A function on 1 .. n is a sequence of length n.
LEMMA FunctionIsSeq ==
    ASSUME NEW S, NEW n \in Nat, NEW f \in [1 .. n -> S]
    PROVE  f \in Seq(S) /\ Len(f) = n
OBVIOUS

\* The output thread has written no more of its span than there is, and holds
\* no more than is in use.
LEMMA ProgressBounds ==
    ASSUME IInv, RingKept
    PROVE  /\ Progress \in Nat /\ Progress <= Held /\ Held \in Nat
           /\ Held <= samples_resource.nused - Unpublished /\ Unpublished \in Nat
           /\ Waiting \in Nat /\ Progress + Waiting = samples_resource.nused
<1>1. PICK edge \in [0 .. blocks_resource.nready -> 0 .. Published] : Chained(edge)
  BY DEF RingKept
<1>2. /\ Held \in Nat /\ Unpublished \in Nat /\ Published \in 0 .. samples_resource.nused
      /\ blocks_resource.nready + Held <= Published
  BY <1>1, EdgeTypes
<1>3. /\ samples_resource.nused \in Nat /\ blocks_resource.nready \in Nat
      /\ span.done \in Nat /\ span.total \in Nat
  BY RingTypes, BlockTypes
<1>4. Progress \in Nat /\ Progress <= Held
  BY <1>3 DEF RingKept, Progress, Held
<1> QED BY <1>2, <1>3, <1>4 DEF Published, Waiting

\* What waits is a sequence of the quads in use, from the first unwritten one.
LEMMA Queue ==
    ASSUME IInv, RingKept
    PROVE  /\ Unwritten \in Seq(Int) /\ Len(Unwritten) = Waiting
           /\ \A i \in 1 .. Waiting :
                  /\ Unwritten[i] = insamples[UsedCell(Progress + i - 1)]
                  /\ Unwritten[i] \in Int
<1>1. Waiting \in Nat /\ Progress \in Nat /\ Progress + Waiting = samples_resource.nused
  BY ProgressBounds
<1>2. ASSUME NEW i \in 1 .. Waiting
      PROVE  insamples[UsedCell(Progress + i - 1)] \in Int
  <2>1. Progress + i - 1 \in 0 .. samples_resource.nused
    BY <1>1, RingTypes
  <2>2. UsedCell(Progress + i - 1) \in Index
    BY <2>1, UsedCells
  <2>3. insamples \in [Index -> Int]
    BY DEF IInv, TypeOK, Cell
  <2> QED BY <2>2, <2>3
<1>3. Unwritten \in [1 .. Waiting -> Int]
  BY <1>2 DEF Unwritten
<1> QED BY <1>1, <1>2, <1>3, FunctionIsSeq DEF Unwritten

\* The same as a formula, of a state.
LEMMA QueueHolds ==
    IInv /\ RingKept =>
        /\ Unwritten \in Seq(Int) /\ Len(Unwritten) = Waiting
        /\ \A i \in 1 .. Waiting : Unwritten[i] = insamples[UsedCell(Progress + i - 1)]
BY Queue, Zenon

\* And of the state after a step.
LEMMA QueueNext ==
    (IInv /\ RingKept)' =>
        (/\ Unwritten \in Seq(Int) /\ Len(Unwritten) = Waiting
         /\ \A i \in 1 .. Waiting : Unwritten[i] = insamples[UsedCell(Progress + i - 1)])'
BY QueueHolds, PTL

\* Storing quads appends them to what waits.
LEMMA FillEnqueues ==
    ASSUME IInv, IInv', RingKept, RingKept', NEW n \in 1 .. SamplesSize,
           NEW c \in [0 .. n - 1 -> Int], FillRing(n, c),
           samples_resource.nused + n <= SamplesSize, UNCHANGED <<outPc, span>>
    PROVE  Unwritten' = Unwritten \o [i \in 1 .. n |-> c[i - 1]]
<1> DEFINE new == [i \in 1 .. n |-> c[i - 1]]
<1>1. PICK P \in Nat, w \in Nat :
          /\ P = Progress /\ w = Waiting /\ P = Progress'
          /\ P + w = samples_resource.nused
  BY ProgressBounds DEF Progress
<1>2. /\ samples_resource'.nused = samples_resource.nused + n
      /\ \A k \in 0 .. samples_resource.nused : UsedCell(k)' = UsedCell(k)
      /\ \A k \in 0 .. samples_resource.nused - 1 :
             insamples'[UsedCell(k)] = insamples[UsedCell(k)]
  BY FillKeepsUsed, RingTypes
<1>3. n \in Nat \ {0} /\ Waiting' = w + n
  BY <1>1, <1>2, RingTypes DEF Waiting
<1>4. new \in Seq(Int) /\ Len(new) = n
  <2>1. new \in [1 .. n -> Int]
    BY <1>3
  <2> QED BY <1>3, <2>1, FunctionIsSeq
<1>5. /\ Unwritten \in Seq(Int) /\ Len(Unwritten) = w
      /\ \A i \in 1 .. w : Unwritten[i] = insamples[UsedCell(P + i - 1)]
  BY <1>1, Queue
<1>6. /\ Unwritten \o new \in Seq(Int)
      /\ Len(Unwritten \o new) = w + n
      /\ \A i \in 1 .. w + n : (Unwritten \o new)[i] =
             IF i <= w THEN Unwritten[i] ELSE new[i - w]
  <2> HIDE DEF new
  <2> QED BY <1>4, <1>5, ConcatProperties
<1>7. Unwritten' \in Seq(Int) /\ Len(Unwritten') = w + n
  BY <1>3, QueueNext
<1>8. ASSUME NEW i \in 1 .. w + n
      PROVE  Unwritten'[i] = insamples'[UsedCell(P + i - 1)']
  BY <1>1, <1>3 DEF Unwritten, UsedCell
<1>a. /\ P \in Nat /\ w \in Nat /\ n \in Nat \ {0}
      /\ samples_resource.nused = P + w
  BY <1>1, <1>3
<1>9. ASSUME NEW i \in 1 .. w + n
      PROVE  Unwritten'[i] = (Unwritten \o new)[i]
  <2>1. CASE i <= w
    <3>1. i \in 1 .. w
      BY <1>a, <1>a, <2>1
    <3>2. PICK k \in Int : k = P + i - 1
      BY <3>1
    <3>3. k \in 0 .. samples_resource.nused - 1 /\ k \in 0 .. samples_resource.nused
      BY <1>a, <3>1, <3>2
    <3>4. Unwritten[i] = insamples[UsedCell(k)] /\ Unwritten'[i] = insamples'[UsedCell(k)']
      BY <1>5, <1>8, <3>1, <3>2
    <3> QED BY <1>2, <1>6, <2>1, <3>3, <3>4
  <2>2. CASE ~(i <= w)
    <3>1. PICK j \in 0 .. n - 1 : i = w + j + 1
      <4>1. i \in Int /\ i - w - 1 \in 0 .. n - 1
        BY <1>a, <1>a, <2>2
      <4>2. i = w + (i - w - 1) + 1
        BY <1>a, <4>1
      <4> QED BY <4>1, <4>2
    <3>2. PICK k \in Int : k = P + w + j /\ k = P + i - 1
      BY <1>a, <3>1
    <3>3. k \in samples_resource.nused .. samples_resource.nused + n - 1
          /\ k - samples_resource.nused = j
      BY <1>a, <1>a, <3>1, <3>2
    <3>4. insamples'[UsedCell(k)'] = c[j]
      <4>1. n \in 0 .. SamplesSize
        BY RingTypes
      <4>2. insamples'[UsedCell(k)'] = c[k - samples_resource.nused]
        BY <3>3, <4>1, FillAppends, Zenon
      <4> QED BY <3>3, <4>2
    <3>5. new[i - w] = c[j]
      <4>1. j + 1 \in 1 .. n /\ i - w = j + 1 /\ (j + 1) - 1 = j
        BY <1>a, <1>a, <3>1
      <4> QED BY <4>1
    <3> QED BY <1>6, <1>8, <2>2, <3>2, <3>4, <3>5
  <2> QED BY <2>1, <2>2
<1> HIDE DEF new
<1>10. Unwritten' = Unwritten \o new
  BY <1>6, <1>7, <1>9, SeqEqual
<1> QED BY <1>10 DEF new

\* A step that leaves the ring alone and moves on through the span by n quads
\* takes the first n off what waits.
LEMMA WriteDequeues ==
    ASSUME IInv, IInv', RingKept, RingKept', NEW n \in 0 .. Waiting,
           UNCHANGED <<insamples, samples_resource>>, Progress' = Progress + n
    PROVE  Unwritten' = SubSeq(Unwritten, n + 1, Len(Unwritten))
<1>1. PICK P \in Nat, w \in Nat :
          P = Progress /\ w = Waiting /\ P + w = samples_resource.nused
  BY ProgressBounds
<1>2. n \in Nat /\ n <= w /\ Waiting' = w - n /\ w - n \in Nat
  BY <1>1 DEF Waiting
<1>3. /\ Unwritten \in Seq(Int) /\ Len(Unwritten) = w
      /\ \A i \in 1 .. w : /\ Unwritten[i] = insamples[UsedCell(P + i - 1)]
                         /\ Unwritten[i] \in Int
  BY <1>1, Queue
<1>4. Unwritten' \in Seq(Int) /\ Len(Unwritten') = w - n
  BY <1>2, QueueNext
<1> DEFINE rest == SubSeq(Unwritten, n + 1, w)
<1>5. /\ rest \in Seq(Int) /\ Len(rest) = w - n
      /\ \A i \in 1 .. w - n : rest[i] = Unwritten[n + i]
  <2>1. n + 1 \in Int /\ w \in Int
    BY <1>2
  <2>2. ASSUME NEW i \in n + 1 .. w
        PROVE  Unwritten[i] \in Int
    BY <1>2, <1>3
  <2>3. /\ rest \in Seq(Int)
        /\ Len(rest) = IF n + 1 <= w THEN w - (n + 1) + 1 ELSE 0
        /\ \A i \in 1 .. w - (n + 1) + 1 : rest[i] = Unwritten[(n + 1) + i - 1]
    BY <2>1, <2>2, SubSeqProperties
  <2> HIDE DEF rest
  <2>4. ASSUME NEW i \in 1 .. w - n
        PROVE  rest[i] = Unwritten[n + i]
    <3>1. i \in 1 .. w - (n + 1) + 1 /\ (n + 1) + i - 1 = n + i
      BY <1>2
    <3> QED BY <2>3, <3>1
  <2> QED BY <1>2, <2>3, <2>4
<1>6. ASSUME NEW i \in 1 .. w - n
      PROVE  Unwritten'[i] = rest[i]
  <2>1. Unwritten'[i] = insamples[UsedCell(P + n + i - 1)]
    BY <1>1, <1>2 DEF Unwritten, UsedCell
  <2>2. n + i \in 1 .. w /\ P + (n + i) - 1 = P + n + i - 1
    BY <1>1, <1>2
  <2>3. Unwritten[n + i] = insamples[UsedCell(P + n + i - 1)]
    BY <1>3, <2>2
  <2> QED BY <1>5, <2>1, <2>3
<1> HIDE DEF rest
<1>7. Unwritten' = rest
  BY <1>4, <1>5, <1>6, SeqEqual
<1> QED BY <1>3, <1>7 DEF rest

-----------------------------------------------------------------------------
(* The timeline *)

\* A step that leaves the ring and the progress through it alone leaves what
\* waits alone.
LEMMA QueueStays ==
    ASSUME UNCHANGED <<insamples, samples_resource>>, Progress' = Progress
    PROVE  Unwritten' = Unwritten
<1>1. Waiting' = Waiting
  BY DEF Waiting
<1>2. \A k : UsedCell(k)' = UsedCell(k)
  BY DEF UsedCell
<1> QED BY <1>1, <1>2 DEF Unwritten

\* The clock and what was reported are numbers.
LEMMA ClockTypes ==
    ASSUME IInv
    PROVE  /\ Clock \in Int /\ Lost \in Nat
           /\ (newest - origin) * QuadsPerPacket \in Int
           /\ QuadsPerPacket \in Nat \ {0}
<1>1. TypeOK
  BY DEF IInv
<1>2. newest \in Nat /\ origin \in Nat /\ npad \in Nat
  BY <1>1 DEF TypeOK
<1>3. QuadsPerPacket \in Nat \ {0}
  BY RingTypes
<1>4. (newest - origin) * QuadsPerPacket \in Int
  BY <1>2, <1>3
<1>5. Clock \in Int
  BY <1>2, <1>3, <1>4 DEF Clock, Instant
<1>6. Lost \in Nat
  BY <1>1, CounterType DEF Lost, ReportedLoss
<1> QED BY <1>3, <1>4, <1>5, <1>6

\* Where the clock stands between two steps of the RX thread.
LEMMA ClockAt ==
    IInv /\ ~first_pkt =>
        /\ rxPc = "pad" => Clock = (newest - origin) * QuadsPerPacket - npad
        /\ rxPc \in {"padBlock", "store"} => Clock = (newest - origin) * QuadsPerPacket
        /\ rxPc \in {"recv", "storeBlock"} =>
               Clock = (newest - origin) * QuadsPerPacket + QuadsPerPacket
<1> SUFFICES ASSUME IInv, ~first_pkt
             PROVE  /\ rxPc = "pad" => Clock = (newest - origin) * QuadsPerPacket - npad
                    /\ rxPc \in {"padBlock", "store"} =>
                           Clock = (newest - origin) * QuadsPerPacket
                    /\ rxPc \in {"recv", "storeBlock"} =>
                           Clock = (newest - origin) * QuadsPerPacket + QuadsPerPacket
  OBVIOUS
<1> DEFINE Base == (newest - origin) * QuadsPerPacket
<1>1. Base \in Int /\ QuadsPerPacket \in Int /\ npad \in Int
  BY ClockTypes, BlockTypes
<1>2. Instant(newest, 0) = Base + 0 /\ Instant(newest, QuadsPerPacket) = Base + QuadsPerPacket
  BY DEF Instant
<1>3. /\ rxPc = "pad" => Clock = Instant(newest, 0) - npad
      /\ rxPc \in {"padBlock", "store"} => Clock = Instant(newest, 0) - 0
      /\ rxPc \in {"recv", "storeBlock"} => Clock = Instant(newest, QuadsPerPacket) - 0
  BY DEF Clock
<1> HIDE DEF Base
<1>4. /\ rxPc = "pad" => Clock = Base - npad
      /\ rxPc \in {"padBlock", "store"} => Clock = Base
      /\ rxPc \in {"recv", "storeBlock"} => Clock = Base + QuadsPerPacket
  BY <1>1, <1>2, <1>3
<1> QED BY <1>4 DEF Base

\* And of the state after a step.
LEMMA ClockNext ==
    (IInv /\ ~first_pkt)' =>
        (/\ rxPc = "pad" => Clock = (newest - origin) * QuadsPerPacket - npad
         /\ rxPc \in {"padBlock", "store"} => Clock = (newest - origin) * QuadsPerPacket
         /\ rxPc \in {"recv", "storeBlock"} =>
                Clock = (newest - origin) * QuadsPerPacket + QuadsPerPacket)'
BY ClockAt, PTL

\* The clock passes what is reported.
LEMMA SlipStep ==
    ASSUME NEW n \in Nat, Clock \in Int, Clock' = Clock + n,
           Lost \in Int, Lost' \in Int, Lost' >= Lost + n, UNCHANGED <<Unwritten, file>>
    PROVE  T!Next
<1>1. Clock' - Clock = n /\ Clock' = Clock + (Clock' - Clock) /\ Clock' >= Clock
  OBVIOUS
<1>2. Lost' - Lost >= Clock' - Clock
  <2>1. ASSUME NEW a \in Int, NEW b \in Int, b >= a + n
        PROVE  b - a >= n
    BY <2>1
  <2>2. Lost' - Lost >= n
    BY <2>1, Zenon
  <2> QED BY <1>1, <2>2
<1> QED BY <1>1, <1>2 DEF T!Next, T!Slip

\* Padding and samples enter the queue in the order of the clock.
LEMMA PadIsPadWith ==
    ASSUME IInv, IInv', RingKept, RingKept', Pad
    PROVE  T!Next
<1> USE DEF netVars, seqVars, ringVars, blockVars, outVars, mainVars
<1>1. /\ rxPc = "pad" /\ rxPc' = "padBlock"
      /\ FillRing(npad, [k \in 0 .. npad - 1 |-> Zero])
      /\ UNCHANGED <<newest, origin, first_pkt, npad, outPc, span, file, stats>>
  BY DEF Pad
<1>2. npad \in 1 .. SamplesSize /\ samples_resource.nused + npad <= SamplesSize
  BY <1>1, RingTypes DEF RingKept, IInv, TypeOK, Bounded, RoomStillThere
<1>3. npad \in Nat \ {0} /\ npad \in 0 .. SamplesSize
  BY <1>2, RingTypes
<1>4. [k \in 0 .. npad - 1 |-> Zero] \in [0 .. npad - 1 -> Int]
  BY DEF Zero
<1> DEFINE c == [k \in 0 .. npad - 1 |-> Zero]
<1>5. Unwritten' = Unwritten \o [i \in 1 .. npad |-> c[i - 1]]
  <2> HIDE DEF c
  <2>1. FillRing(npad, c) /\ c \in [0 .. npad - 1 -> Int]
    BY <1>1, <1>4 DEF c
  <2> QED BY <1>1, <1>2, <2>1, FillEnqueues
<1>6. [i \in 1 .. npad |-> c[i - 1]] = [i \in 1 .. npad |-> Zero]
  BY <1>3
<1>7. ~first_pkt /\ Clock' = Clock + npad /\ Lost' = Lost
  <2>1. ~first_pkt
    BY <1>1 DEF IInv, Tracking
  <2>2. Lost' = Lost
    BY <1>1 DEF Lost, ReportedLoss
  <2>3. /\ (newest - origin) * QuadsPerPacket \in Int /\ npad \in Nat
    BY <1>3, ClockTypes
  <2>4. Clock = (newest - origin) * QuadsPerPacket - npad
    BY <1>1, <2>1, ClockAt
  <2>5. Clock' = (newest - origin) * QuadsPerPacket
    BY <1>1, <2>1, ClockNext
  <2> QED BY <2>1, <2>2, <2>3, <2>4, <2>5
<1>8. Len(Unwritten) + npad <= SamplesSize
  <2>1. /\ Len(Unwritten) = Waiting /\ Waiting \in Nat /\ Progress \in Nat
        /\ Progress + Waiting = samples_resource.nused
    BY Queue, ProgressBounds
  <2> QED BY <1>2, <1>3, <2>1, RingTypes
<1> DEFINE zeros == [i \in 1 .. npad |-> Zero]
<1>9. Len(zeros) = npad
  BY <1>3
<1>10. Unwritten' = Unwritten \o zeros
  BY <1>5, <1>6
<1> HIDE DEF zeros
<1>11. T!Enqueue(zeros)
  BY <1>1, <1>7, <1>8, <1>9, <1>10 DEF T!Enqueue
<1>12. T!PadWith(npad)
  BY <1>11 DEF zeros, T!PadWith
<1> QED BY <1>2, <1>12 DEF T!Next

\* Storing a packet is the acceptance of its quads.
LEMMA StoreIsAccept ==
    ASSUME IInv, IInv', RingKept, RingKept', Store
    PROVE  T!Next
<1> USE DEF netVars, seqVars, ringVars, blockVars, outVars, mainVars
<1> DEFINE Q == QuadsPerPacket
           Base == (newest - origin) * QuadsPerPacket
           c == [k \in 0 .. Q - 1 |-> Instant(newest, k)]
<1>1. /\ rxPc = "store" /\ rxPc' = "storeBlock" /\ FillRing(Q, c)
      /\ samples_resource.nused + Q <= SamplesSize
      /\ UNCHANGED <<newest, origin, first_pkt, npad, outPc, span, file, stats>>
  BY DEF Store, HasRoom
<1>2. Q \in 1 .. SamplesSize /\ Q \in Nat \ {0} /\ Base \in Int
  BY RingTypes, ClockTypes
<1>3. /\ c \in [0 .. Q - 1 -> Int]
      /\ \A i \in 1 .. Q : c[i - 1] = Base + i - 1
  <2>1. \A k \in 0 .. Q - 1 : Instant(newest, k) = Base + k
    BY DEF Instant
  <2> HIDE DEF Base
  <2>2. \A k \in 0 .. Q - 1 : c[k] = Base + k /\ c[k] \in Int
    BY <1>2, <2>1
  <2>3. c \in [0 .. Q - 1 -> Int]
    BY <2>2
  <2>4. ASSUME NEW i \in 1 .. Q
        PROVE  c[i - 1] = Base + i - 1
    <3>1. i - 1 \in 0 .. Q - 1 /\ Base + i - 1 = Base + (i - 1)
      BY <1>2
    <3> HIDE DEF c
    <3> QED BY <2>2, <3>1
  <2> QED BY <2>3, <2>4
<1>4. Unwritten' = Unwritten \o [i \in 1 .. Q |-> c[i - 1]]
  <2> HIDE DEF c, Base
  <2> QED BY <1>1, <1>2, <1>3, FillEnqueues
<1>5. ~first_pkt
  BY <1>1 DEF IInv, Tracking
<1>6. Clock = Base /\ Clock' = Clock + Q /\ Lost' = Lost
  <2>1. Lost' = Lost
    BY <1>1 DEF Lost, ReportedLoss
  <2>2. Clock = Base
    BY <1>1, <1>5, ClockAt
  <2>3. Clock' = Base + Q
    BY <1>1, <1>5, ClockNext
  <2> HIDE DEF Base
  <2> QED BY <1>2, <2>1, <2>2, <2>3
<1>7. Len(Unwritten) + Q <= SamplesSize
  <2>1. /\ Len(Unwritten) = Waiting /\ Waiting \in Nat /\ Progress \in Nat
        /\ Progress + Waiting = samples_resource.nused
    BY Queue, ProgressBounds
  <2> QED BY <1>1, <1>2, <2>1, RingTypes
<1> DEFINE new == [i \in 1 .. Q |-> Clock + i - 1]
<1>8. Len(new) = Q
  BY <1>2
<1>9. Unwritten' = Unwritten \o new
  <2>1. [i \in 1 .. Q |-> c[i - 1]] = new
    <3> HIDE DEF c, Base
    <3> QED BY <1>3, <1>6
  <2> QED BY <1>4, <2>1
<1> HIDE DEF new
<1>10. T!Enqueue(new)
  BY <1>1, <1>6, <1>7, <1>8, <1>9 DEF T!Enqueue
<1>11. T!Accept(Q)
  BY <1>10 DEF new, T!Accept
<1> QED BY <1>2, <1>11 DEF T!Next

\* Writing takes quads off the queue and puts them in the file, in order.
LEMMA WriteIsWrite ==
    ASSUME IInv, IInv', RingKept, RingKept', NEW n \in 1 .. SamplesSize, WriteSome(n)
    PROVE  T!Next
<1> USE DEF netVars, seqVars, ringVars, blockVars, outVars, mainVars
<1>1. /\ outPc = "write" /\ outPc' = "write" /\ n \in 1 .. PartEnd - span.done
      /\ file' = file \o [i \in 1 .. n |-> insamples[Wrap(span.start + span.done + i - 1)]]
      /\ span' = [span EXCEPT !.done = @ + n]
      /\ UNCHANGED <<newest, origin, first_pkt, npad, rxPc, insamples, samples_resource, stats>>
  BY DEF WriteSome
<1>2. /\ span \in [start : Index, total : Nat, taken : Nat, done : Nat]
      /\ PartEnd \in Nat /\ PartEnd <= span.total
      /\ span'.done = span.done + n
  BY <1>1, BlockTypes, PartEndBounds DEF IInv
<1>3. /\ Progress = span.done /\ Progress' = Progress + n /\ Held = span.total
      /\ span.start = UsedCell(0)
  BY <1>1, <1>2 DEF Progress, Held, RingKept
<1>4. /\ Progress \in Nat /\ Waiting \in Nat /\ Held \in Nat
      /\ Progress + Waiting = samples_resource.nused
      /\ Held <= samples_resource.nused
  BY ProgressBounds, RingTypes
<1>5. n \in Nat \ {0} /\ n <= Waiting
  <2>1. n \in Nat \ {0} /\ n <= span.total - span.done
    BY <1>1, <1>2, RingTypes
  <2> QED BY <1>2, <1>3, <1>4, <2>1
<1>6. Unwritten' = SubSeq(Unwritten, n + 1, Len(Unwritten))
  BY <1>1, <1>3, <1>4, <1>5, WriteDequeues
<1> DEFINE new == [i \in 1 .. n |-> insamples[Wrap(span.start + span.done + i - 1)]]
           head == SubSeq(Unwritten, 1, n)
<1>7. /\ Unwritten \in Seq(Int) /\ Len(Unwritten) = Waiting
      /\ \A i \in 1 .. Waiting : /\ Unwritten[i] = insamples[UsedCell(Progress + i - 1)]
                                 /\ Unwritten[i] \in Int
  BY Queue
<1>8. /\ head \in Seq(Int) /\ Len(head) = n
      /\ \A i \in 1 .. n : head[i] = Unwritten[i]
  <2>1. \A i \in 1 .. n : Unwritten[i] \in Int
    BY <1>4, <1>5, <1>7
  <2>2. 1 \in Int /\ n \in Int /\ n - 1 + 1 = n /\ 1 <= n
    BY <1>5
  <2>3. /\ head \in Seq(Int)
        /\ Len(head) = IF 1 <= n THEN n - 1 + 1 ELSE 0
        /\ \A i \in 1 .. n - 1 + 1 : head[i] = Unwritten[1 + i - 1]
    BY <2>1, <2>2, SubSeqProperties
  <2> HIDE DEF head
  <2>4. \A i \in 1 .. n : 1 + i - 1 = i
    BY <1>5
  <2> QED BY <2>2, <2>3, <2>4
<1>9. ASSUME NEW i \in 1 .. n
      PROVE  new[i] = head[i] /\ new[i] \in Int
  <2>1. /\ span.start + span.done + i - 1 = UsedCell(0) + (Progress + i - 1)
        /\ Progress + i - 1 \in 0 .. samples_resource.nused
        /\ i \in 1 .. Waiting
    <3>1. span.start \in Int
      BY <1>2 DEF Index
    <3> QED BY <1>3, <1>4, <1>5, <3>1
  <2>2. Wrap(span.start + span.done + i - 1) = UsedCell(Progress + i - 1)
    BY <2>1, UsedCells
  <2> QED BY <1>7, <1>8, <2>1, <2>2
<1>10. new \in Seq(Int) /\ Len(new) = n
  <2>1. new \in [1 .. n -> Int]
    BY <1>9
  <2> QED BY <1>5, <2>1, FunctionIsSeq
<1>11. new = head
  <2> HIDE DEF new, head
  <2> QED BY <1>8, <1>9, <1>10, SeqEqual
<1>12. file' = file \o head
  BY <1>1, <1>11
<1>13. Clock' = Clock /\ Lost' = Lost
  BY <1>1 DEF Clock, Instant, Lost, ReportedLoss
<1>14. T!Write(n)
  BY <1>5, <1>6, <1>7, <1>12, <1>13 DEF T!Write
<1> QED BY <1>14 DEF T!Next

\* A failed write takes quads off the queue and reports them.
LEMMA ErrorIsDiscard ==
    ASSUME IInv, IInv', RingKept, RingKept', WriteError
    PROVE  T!Next
<1> USE DEF netVars, seqVars, ringVars, blockVars, outVars, mainVars
<1> DEFINE n == PartEnd - span.done
<1>1. /\ outPc = "write" /\ outPc' = "write" /\ span.done < PartEnd
      /\ stats' = [stats EXCEPT !.failed = @ + PartEnd - span.done]
      /\ span' = [span EXCEPT !.done = PartEnd]
      /\ UNCHANGED <<newest, origin, first_pkt, npad, rxPc, insamples, samples_resource, file>>
  BY DEF WriteError
<1>2. /\ span \in [start : Index, total : Nat, taken : Nat, done : Nat]
      /\ PartEnd \in Nat /\ PartEnd <= span.total
      /\ span'.done = PartEnd
  BY <1>1, BlockTypes, PartEndBounds DEF IInv
<1>3. n \in Nat \ {0} /\ PartEnd = span.done + n
  BY <1>1, <1>2
<1>4. Progress = span.done /\ Progress' = Progress + n /\ Held = span.total
  BY <1>1, <1>2, <1>3 DEF Progress, Held
<1>5. /\ Progress \in Nat /\ Waiting \in Nat /\ Held \in Nat
      /\ Progress + Waiting = samples_resource.nused
      /\ Held <= samples_resource.nused
      /\ samples_resource.nused \in 0 .. SamplesSize
  BY ProgressBounds, RingTypes
<1>6. n <= Waiting /\ n \in 1 .. SamplesSize
  BY <1>2, <1>3, <1>4, <1>5, RingTypes
<1>7. Lost' = Lost + n
  <2>1. TypeOK /\ stats.failed \in Nat /\ ReportedLoss \in Nat
    BY CounterType DEF IInv, ReportedLoss
  <2>2. stats'.failed = stats.failed + PartEnd - span.done /\ ReportedLoss' = ReportedLoss
    BY <1>1, <2>1 DEF TypeOK, Counter, ReportedLoss
  <2>3. stats'.failed = stats.failed + n
    BY <1>2, <2>1, <2>2
  <2> HIDE DEF n
  <2> QED BY <1>3, <2>1, <2>2, <2>3 DEF Lost
<1>8. Clock' = Clock
  BY <1>1 DEF Clock, Instant
<1> HIDE DEF n
<1>9. Unwritten' = SubSeq(Unwritten, n + 1, Len(Unwritten)) /\ Len(Unwritten) = Waiting
  BY <1>1, <1>3, <1>4, <1>5, <1>6, WriteDequeues, Queue
<1>10. T!Discard(n)
  BY <1>1, <1>6, <1>7, <1>8, <1>9 DEF T!Discard
<1> QED BY <1>6, <1>10 DEF T!Next

\* What else the output thread does changes nothing of the timeline.
LEMMA OutStutters ==
    ASSUME IInv, IInv', RingKept, RingKept',
           OutExit \/ Drain \/ TakeBlock \/ PopTaken \/ WritesDone \/ Release
    PROVE  UNCHANGED T!tvars
<1> USE DEF netVars, seqVars, ringVars, blockVars, outVars, mainVars
<1>1. UNCHANGED <<newest, origin, first_pkt, npad, rxPc, insamples, file, stats>>
  BY DEF OutExit, Drain, TakeBlock, PopTaken, WritesDone, Release
<1>2. Clock' = Clock /\ Lost' = Lost
  BY <1>1 DEF Clock, Instant, Lost, ReportedLoss
<1>3. Unwritten' = Unwritten
  <2>1. CASE ~Release
    <3>1. UNCHANGED samples_resource
      BY <2>1 DEF OutExit, Drain, TakeBlock, PopTaken, WritesDone, Release
    <3>2. Progress' = Progress
      <4>1. CASE OutExit \/ Drain \/ TakeBlock
        BY <4>1 DEF OutExit, Drain, TakeBlock, Progress
      <4>2. CASE PopTaken
        <5>1. outPc = "coalesce" /\ outPc' = "write" /\ span' = span /\ span.done = 0
          BY <4>2 DEF PopTaken, RingKept
        <5> QED BY <5>1 DEF Progress
      <4>3. CASE WritesDone
        BY <4>3 DEF WritesDone, Progress
      <4> QED BY <2>1, <4>1, <4>2, <4>3
    <3> QED BY <1>1, <3>1, <3>2, QueueStays
  <2>2. CASE Release
    <3>1. /\ outPc = "release" /\ outPc' = "wait" /\ span.done = span.total
      BY <2>2 DEF Release, RingKept
    <3>2. PICK t \in Nat, nused \in Nat : t = span.total /\ nused = samples_resource.nused
      BY BlockTypes, RingTypes
    <3>3. /\ nused - t \in Nat
          /\ samples_resource' = [samples_resource EXCEPT !.nused = @ - t]
          /\ \A k : k \in Nat /\ k <= nused - t => UsedCell(k)' = UsedCell(k + t)
      BY <2>2, <3>2, ReleaseKeepsRing
    <3>4. Progress = t /\ Progress' = 0 /\ samples_resource'.nused = nused - t
      BY <3>1, <3>2, <3>3 DEF Progress, IInv, TypeOK
    <3>5. Waiting = nused - t /\ Waiting' = Waiting
      BY <3>2, <3>3, <3>4 DEF Waiting
    <3>6. ASSUME NEW i \in 1 .. nused - t
          PROVE  insamples'[UsedCell(0 + i - 1)'] = insamples[UsedCell(t + i - 1)]
      <4>1. PICK k \in Nat : k <= nused - t /\ k = 0 + i - 1 /\ k + t = t + i - 1
        BY <3>2, <3>3
      <4>2. UsedCell(k)' = UsedCell(k + t)
        BY <3>3, <4>1
      <4> QED BY <1>1, <4>1, <4>2
    <3>7. Unwritten = [i \in 1 .. nused - t |-> insamples[UsedCell(t + i - 1)]]
      BY <3>4, <3>5 DEF Unwritten
    <3>8. Unwritten' = [i \in 1 .. nused - t |-> insamples'[UsedCell(0 + i - 1)']]
      BY <3>4, <3>5 DEF Unwritten, UsedCell
    <3> QED BY <3>6, <3>7, <3>8
  <2> QED BY <2>1, <2>2
<1> QED BY <1>1, <1>2, <1>3 DEF T!tvars

\* The first packet, the next one and a late one leave the clock where it is.
LEMMA PacketStutters ==
    ASSUME IInv, IInv', NEW p \in FirstPacket .. MaxPacket,
           FirstPkt(p) \/ NextPkt(p) \/ LatePkt(p)
    PROVE  UNCHANGED T!tvars
<1> USE DEF netVars, seqVars, ringVars, blockVars, outVars, mainVars
<1>1. /\ rxPc = "recv"
      /\ UNCHANGED <<insamples, samples_resource, outPc, span, file>>
  BY DEF FirstPkt, NextPkt, LatePkt, Arrives
<1>2. Unwritten' = Unwritten
  <2>1. Progress' = Progress
    BY <1>1 DEF Progress
  <2> QED BY <1>1, <2>1, QueueStays
<1>3. Lost' = Lost
  <2>1. CASE FirstPkt(p) \/ NextPkt(p)
    BY <2>1 DEF FirstPkt, NextPkt, Lost, ReportedLoss
  <2>2. CASE LatePkt(p)
    BY <2>2 DEF LatePkt, Lost, ReportedLoss, IInv, TypeOK, Counter
  <2> QED BY <2>1, <2>2
<1>a. /\ QuadsPerPacket \in Nat /\ newest \in Nat /\ origin \in Nat /\ p \in Nat
  <2>1. FirstPacket \in Nat /\ MaxPacket \in Nat
    BY LinkAssumption DEF LinkAssumption
  <2>2. newest \in Nat /\ origin \in Nat
    BY DEF IInv, TypeOK
  <2> QED BY <2>1, <2>2, ClockTypes
<1>4. Clock' = Clock
  <2>1. CASE FirstPkt(p)
    <3>1. first_pkt /\ ~first_pkt' /\ newest' = p /\ origin' = p /\ rxPc' = "store"
      BY <2>1 DEF FirstPkt
    <3>2. Instant(newest, 0)' = 0
      BY <1>a, <3>1 DEF Instant
    <3> QED BY <3>1, <3>2 DEF Clock, Instant
  <2>2. CASE NextPkt(p)
    <3>1. p = newest + 1
      BY <2>2, NextPktIsSuccessor
    <3>2. /\ ~first_pkt /\ ~first_pkt' /\ newest' = p /\ origin' = origin
          /\ rxPc' = "store"
      BY <2>2 DEF NextPkt
    <3>3. (p - origin) * QuadsPerPacket = (newest - origin) * QuadsPerPacket + QuadsPerPacket
      BY <1>a, <3>1
    <3>4. /\ (newest - origin) * QuadsPerPacket \in Int
          /\ (p - origin) * QuadsPerPacket \in Int
      BY <1>a
    <3>5. Clock = (newest - origin) * QuadsPerPacket + QuadsPerPacket
      BY <1>1, <3>2, ClockAt
    <3>6. Clock' = (p - origin) * QuadsPerPacket
      BY <3>2, ClockNext
    <3> QED BY <1>a, <3>3, <3>4, <3>5, <3>6
  <2>3. CASE LatePkt(p)
    BY <1>1, <2>3 DEF LatePkt, Clock, Instant
  <2> QED BY <2>1, <2>2, <2>3
<1> QED BY <1>1, <1>2, <1>3, <1>4 DEF T!tvars

\* A hole moves the clock past what is not padded of it, and that is reported.
LEMMA GapIsSlip ==
    ASSUME IInv, IInv', NEW p \in FirstPacket .. MaxPacket,
           GapWithRoom(p) \/ GapWithoutRoom(p)
    PROVE  T!Next
<1> USE DEF netVars, seqVars, ringVars, blockVars, outVars, mainVars
<1>1. /\ Arrives(p) /\ ~first_pkt /\ SignedGap(Wire(p)) > 0 /\ rxPc = "recv"
      /\ newest' = p /\ ~first_pkt' /\ origin' = origin
      /\ UNCHANGED <<insamples, samples_resource, outPc, span, file>>
  BY DEF GapWithRoom, GapWithoutRoom, Arrives
<1>a. /\ TypeOK /\ RoomStillThere
      /\ QuadsPerPacket \in Nat /\ newest \in Nat /\ origin \in Nat /\ p \in Nat
  <2>1. TypeOK /\ RoomStillThere
    BY DEF IInv
  <2>2. FirstPacket \in Nat /\ MaxPacket \in Nat
    BY LinkAssumption DEF LinkAssumption
  <2>3. newest \in Nat /\ origin \in Nat
    BY <2>1 DEF TypeOK
  <2> QED BY <2>1, <2>2, <2>3, ClockTypes
<1>2. SignedGap(Wire(p)) = p - newest - 1
  BY <1>1, GapExact
<1>3. /\ Missing(p) \in Nat /\ PadLength(p) \in Nat
      /\ Missing(p) - PadLength(p) \in Nat
  <2>1. SignedGap(Wire(p)) \in Nat
    BY <1>1, <1>2, <1>a
  <2>2. /\ Missing(p) \in Nat /\ Room \in 0 .. SamplesSize
        /\ PadLength(p) \in 0 .. Room
        /\ Missing(p) - PadLength(p) \in Nat
    BY <1>1, <1>a, <2>1, PadLengthBounds
  <2> QED BY <2>2, RingTypes
<1> DEFINE missed == Missing(p) - PadLength(p)
           Base == (newest - origin) * QuadsPerPacket
           There == (p - origin) * QuadsPerPacket
<1>4. There = Base + QuadsPerPacket + Missing(p) /\ Base \in Int /\ There \in Int
  <2>1. There = Base + QuadsPerPacket + (p - newest - 1) * QuadsPerPacket
    BY <1>a, InstantsAdd
  <2>2. Missing(p) = (p - newest - 1) * QuadsPerPacket
    BY <1>2 DEF Missing
  <2>3. Base \in Int /\ There \in Int
    BY <1>a
  <2> QED BY <2>1, <2>2, <2>3
<1>5. Clock = Base + QuadsPerPacket
  BY <1>1, ClockAt
<1>6. Clock' = Clock + missed
  <2>1. CASE GapWithRoom(p)
    <3>1. rxPc' = "pad" /\ npad' = PadLength(p)
      BY <2>1 DEF GapWithRoom
    <3>2. Clock' = There - PadLength(p)
      BY <1>1, <3>1, ClockNext
    <3> HIDE DEF There, Base
    <3> QED BY <1>3, <1>4, <1>5, <1>a, <3>2
  <2>2. CASE GapWithoutRoom(p)
    <3>1. rxPc' = "store" /\ PadLength(p) <= 0
      BY <2>2 DEF GapWithoutRoom
    <3>2. Clock' = There
      BY <1>1, <3>1, ClockNext
    <3> HIDE DEF There, Base
    <3> QED BY <1>3, <1>4, <1>5, <1>a, <3>1, <3>2
  <2> QED BY <2>1, <2>2
<1>7. Lost' >= Lost + missed
  <2>1. /\ stats'.slipped_samples = stats.slipped_samples + Missing(p) - PadLength(p)
        /\ stats'.failed = stats.failed
        /\ \/ stats'.total_lost = stats.total_lost
           \/ stats'.total_lost = stats.total_lost + Missing(p)
    BY <1>a DEF GapWithRoom, GapWithoutRoom, TypeOK, Counter
  <2> QED BY <1>3, <1>a, <2>1, CounterType DEF Lost, ReportedLoss
<1>8. Unwritten' = Unwritten
  <2>1. Progress' = Progress
    BY <1>1 DEF Progress
  <2> QED BY <1>1, <2>1, QueueStays
<1>9. Clock \in Int /\ Lost \in Int /\ Lost' \in Int
  <2>1. TypeOK'
    BY DEF IInv
  <2>2. stats' \in [Counter -> Nat]
    BY <2>1 DEF TypeOK
  <2>3. Lost' \in Int
    BY <2>2 DEF Lost, ReportedLoss, Counter
  <2> QED BY <2>3, ClockTypes
<1> HIDE DEF missed
<1>10. missed \in Nat
  BY <1>3 DEF missed
<1> QED BY <1>1, <1>6, <1>7, <1>8, <1>9, <1>10, SlipStep

\* A packet that finds no room is passed over and reported.
LEMMA OverrunIsSlip ==
    ASSUME IInv, IInv', Overrun
    PROVE  T!Next
<1> USE DEF netVars, seqVars, ringVars, blockVars, outVars, mainVars
<1>1. /\ rxPc = "store" /\ rxPc' = "recv"
      /\ stats' = [stats EXCEPT !.total_lost = @ + QuadsPerPacket]
      /\ UNCHANGED <<newest, origin, first_pkt, npad, insamples, samples_resource,
                     outPc, span, file>>
  BY DEF Overrun
<1>2. ~first_pkt
  BY <1>1 DEF IInv, Tracking
<1>3. /\ Clock \in Int /\ Lost \in Nat /\ QuadsPerPacket \in Nat
      /\ (newest - origin) * QuadsPerPacket \in Int
  BY ClockTypes
<1>4. Clock' = Clock + QuadsPerPacket
  <2>1. Clock = (newest - origin) * QuadsPerPacket
    BY <1>1, <1>2, ClockAt
  <2>2. Clock' = (newest - origin) * QuadsPerPacket + QuadsPerPacket
    BY <1>1, <1>2, ClockNext
  <2> QED BY <1>3, <2>1, <2>2
<1>5. Lost' = Lost + QuadsPerPacket
  <2>1. TypeOK
    BY DEF IInv
  <2>2. /\ stats'.total_lost = stats.total_lost + QuadsPerPacket
        /\ stats'.slipped_samples = stats.slipped_samples /\ stats'.failed = stats.failed
    BY <1>1, <2>1 DEF TypeOK, Counter
  <2> QED BY <1>3, <2>1, <2>2, CounterType DEF Lost, ReportedLoss
<1>6. Unwritten' = Unwritten
  <2>1. Progress' = Progress
    BY <1>1 DEF Progress
  <2> QED BY <1>1, <2>1, QueueStays
<1>7. Lost' \in Int /\ Lost \in Int /\ Lost' >= Lost + QuadsPerPacket
  BY <1>3, <1>5
<1> QED BY <1>1, <1>3, <1>4, <1>6, <1>7, SlipStep

\* Publishing a descriptor, the end of the RX thread and the main thread change
\* nothing of the timeline.
LEMMA OtherStutters ==
    ASSUME IInv, PadBlock \/ StoreBlock \/ RxExit \/ UNCHANGED vars
                 \/ StreamSeen \/ GiveUp \/ StopRecording \/ StopWork \/ Terminated
    PROVE  UNCHANGED T!tvars
<1> USE DEF netVars, seqVars, ringVars, blockVars, outVars, mainVars
<1>1. UNCHANGED <<newest, origin, first_pkt, insamples, samples_resource, outPc, span, file>>
  BY DEF PadBlock, StoreBlock, RxExit, StreamSeen, GiveUp, StopRecording, StopWork,
         StreamingStop, OutputClose, BuffersFree, Terminated, vars
<1>2. Unwritten' = Unwritten
  <2>1. Progress' = Progress
    BY <1>1 DEF Progress
  <2> QED BY <1>1, <2>1, QueueStays
<1>3. Clock' = Clock
  <2>1. CASE PadBlock
    BY <1>1, <2>1 DEF PadBlock, Clock, Instant
  <2>2. CASE StoreBlock
    BY <1>1, <2>2 DEF StoreBlock, Clock, Instant
  <2>3. CASE RxExit
    BY <1>1, <2>3 DEF RxExit, Clock, Instant
  <2>4. CASE UNCHANGED vars \/ StreamSeen \/ GiveUp \/ StopRecording \/ StopWork \/ Terminated
    <3>1. UNCHANGED <<rxPc, npad>>
      BY <2>4 DEF StreamSeen, GiveUp, StopRecording, StopWork, StreamingStop,
                  OutputClose, BuffersFree, Terminated, vars
    <3> QED BY <1>1, <3>1 DEF Clock, Instant
  <2> QED BY <2>1, <2>2, <2>3, <2>4
<1>4. Lost' = Lost
  <2>1. CASE StoreBlock
    BY <2>1 DEF StoreBlock, Lost, ReportedLoss, IInv, TypeOK, Counter
  <2>2. CASE ~StoreBlock
    <3>1. UNCHANGED stats
      BY <2>2 DEF PadBlock, RxExit, StreamSeen, GiveUp, StopRecording, StopWork,
                  StreamingStop, OutputClose, BuffersFree, Terminated, vars
    <3> QED BY <3>1 DEF Lost, ReportedLoss
  <2> QED BY <2>1, <2>2
<1> QED BY <1>1, <1>2, <1>3, <1>4 DEF T!tvars

\* Until a descriptor is overwritten, every step is one of the timeline or
\* changes nothing of it.
LEMMA StepIsTimeline ==
    ASSUME RInv, RInv', [Next]_vars, ~lapped'
    PROVE  T!Next \/ UNCHANGED T!tvars
<1>1. IInv /\ IInv' /\ RingKept /\ RingKept'
  BY LappedStays DEF RInv
<1>2. CASE Receive
  <2>1. PICK p \in FirstPacket .. MaxPacket :
            \/ FirstPkt(p) \/ NextPkt(p) \/ LatePkt(p)
            \/ GapWithRoom(p) \/ GapWithoutRoom(p)
    BY <1>2 DEF Receive
  <2> QED BY <1>1, <2>1, PacketStutters, GapIsSlip
<1>3. CASE RxWork
  BY <1>1, <1>3, PadIsPadWith, StoreIsAccept, OverrunIsSlip, OtherStutters DEF RxWork
<1>4. CASE OutWork
  BY <1>1, <1>4, WriteIsWrite, ErrorIsDiscard, OutStutters DEF OutWork
<1>5. CASE UNCHANGED vars \/ StreamSeen \/ GiveUp \/ StopRecording \/ StopWork \/ Terminated
  BY <1>1, <1>5, OtherStutters
<1> QED BY <1>2, <1>3, <1>4, <1>5 DEF Next

\* Nothing waits, nothing is written and nothing is reported at the start.
LEMMA InitIsTimeline ==
    ASSUME Init
    PROVE  T!Init
<1>1. /\ first_pkt /\ outPc = "wait" /\ file = <<>>
      /\ samples_resource = [write_index |-> 0, nused |-> 0]
      /\ stats = [c \in Counter |-> 0]
  BY DEF Init
<1>2. Clock = 0 /\ Lost = 0
  BY <1>1 DEF Clock, Lost, ReportedLoss, Counter
<1>3. Unwritten = <<>>
  <2>1. Progress = 0 /\ Waiting = 0
    BY <1>1 DEF Progress, Waiting
  <2>2. Unwritten = [i \in 1 .. 0 |-> insamples[UsedCell(0 + i - 1)]]
    BY <2>1 DEF Unwritten
  <2>3. Unwritten \in Seq(Int) /\ Len(Unwritten) = 0
    <3> DEFINE u == Unwritten
    <3>1. u \in [1 .. 0 -> Int]
      BY <2>2
    <3> HIDE DEF u
    <3>2. u \in Seq(Int) /\ Len(u) = 0
      BY <3>1, FunctionIsSeq
    <3> QED BY <3>2 DEF u
  <2> QED BY <2>3, EmptySeq
<1> QED BY <1>1, <1>2, <1>3 DEF T!Init

\* As long as no descriptor has been overwritten, the RX thread, the rings and
\* the output thread together do what the timeline promises: every step of
\* theirs accepts, pads, slips, writes or discards quads as it says, or changes
\* nothing of it (streaming.c:136-256, output.c:199-254).
THEOREM PipelineIsTimeline == Spec => ImplementsTimeline
<1>1. Init => T!Init
  BY InitIsTimeline
<1>2. RInv /\ RInv' /\ [Next]_vars => [T!Next \/ lapped']_(T!tvars)
  BY StepIsTimeline
<1> QED BY <1>1, <1>2, RingInvariance, PTL DEF Spec, ImplementsTimeline

\* The cells the output thread is writing from are not overwritten meanwhile,
\* although it reads them without a lock (output.c:221-228).
THEOREM SpansAreStable == Spec => SpanStable
<1> DEFINE Kept == \A k \in span.done .. span.total - 1 :
                       LET i == Wrap(span.start + k) IN insamples'[i] = insamples[i]
<1>1. ASSUME RInv, [Next]_vars, outPc = "write", ~lapped'
      PROVE  Kept
  <2>1. IInv /\ RingKept
    BY <1>1, LappedStays DEF RInv
  <2>2. /\ Held <= samples_resource.nused /\ Held = span.total
        /\ span.start = UsedCell(0)
        /\ span.done \in Nat /\ span.total \in Nat
        /\ samples_resource.nused \in Nat
    <3>1. Held \in Nat /\ Unpublished \in Nat /\ Held <= samples_resource.nused - Unpublished
      BY <2>1, ProgressBounds
    <3>2. samples_resource.nused \in Nat
      BY <2>1, RingTypes
    <3>3. Held = span.total /\ span.start = UsedCell(0)
      BY <1>1, <2>1 DEF Held, RingKept
    <3> QED BY <2>1, <3>1, <3>2, <3>3, BlockTypes
  <2>3. ASSUME NEW k \in span.done .. span.total - 1
        PROVE  insamples'[Wrap(span.start + k)] = insamples[Wrap(span.start + k)]
    <3>1. k \in 0 .. samples_resource.nused - 1 /\ k \in 0 .. samples_resource.nused
      BY <2>2
    <3>2. Wrap(span.start + k) = UsedCell(k)
      BY <2>1, <2>2, <3>1, UsedCells
    <3>3. CASE UNCHANGED insamples
      BY <3>3
    <3>4. CASE Pad
      <4>1. rxPc = "pad" /\ FillRing(npad, [j \in 0 .. npad - 1 |-> Zero])
        BY <3>4 DEF Pad
      <4>2. npad \in 0 .. SamplesSize /\ samples_resource.nused + npad <= SamplesSize
        BY <2>1, <4>1, RingTypes DEF RingKept, IInv, TypeOK, Bounded, RoomStillThere
      <4>3. insamples'[UsedCell(k)] = insamples[UsedCell(k)]
        BY <2>1, <3>1, <4>1, <4>2, FillKeepsUsed
      <4> QED BY <3>2, <4>3
    <3>5. CASE Store
      <4>1. /\ FillRing(QuadsPerPacket,
                        [j \in 0 .. QuadsPerPacket - 1 |-> Instant(newest, j)])
            /\ samples_resource.nused + QuadsPerPacket <= SamplesSize
        BY <3>5 DEF Store, HasRoom
      <4>2. QuadsPerPacket \in 0 .. SamplesSize
        BY <2>1, RingTypes
      <4>3. insamples'[UsedCell(k)] = insamples[UsedCell(k)]
        BY <2>1, <3>1, <4>1, <4>2, FillKeepsUsed
      <4> QED BY <3>2, <4>3
    <3>6. CASE ~Pad /\ ~Store
      <4>1. UNCHANGED insamples
        BY <1>1, <3>6
        DEF Next, Receive, FirstPkt, NextPkt, LatePkt, GapWithRoom, GapWithoutRoom,
            RxWork, PadBlock, Overrun, StoreBlock, RxExit, OutWork, OutExit, Drain,
            TakeBlock, PopTaken, WriteSome, WriteError, WritesDone, Release, StreamSeen,
            GiveUp, StopRecording, StopWork, StreamingStop, OutputClose, BuffersFree,
            Terminated, vars, ringVars
      <4> QED BY <4>1
    <3> QED BY <3>4, <3>5, <3>6
  <2> QED BY <2>3
<1>2. RInv /\ [Next]_vars => [outPc = "write" /\ ~lapped' => Kept]_insamples
  BY <1>1
<1> QED BY <1>2, RingInvariance, PTL DEF Spec, SpanStable

-----------------------------------------------------------------------------
(* What the timeline keeps of the recording *)

\* Time that passes without a sample is reported.
LEMMA OrderlySlip ==
    ASSUME NEW clk \in Int, NEW s \in Seq(Int), NEW rep \in Int, NEW n \in Nat,
           NEW more \in Int, more >= rep + n, Orderly(clk, s, rep)
    PROVE  Orderly(clk + n, s, more)
<1>1. Len(s) \in Nat /\ \A i \in 1 .. Len(s) : s[i] \in Int
  OBVIOUS
<1> QED BY <1>1 DEF Orderly

\* The samples of a packet, or zeroes, are appended where the clock stands.
LEMMA OrderlyAppend ==
    ASSUME NEW clk \in Int, NEW s \in Seq(Int), NEW rep \in Int, NEW t \in Seq(Int),
           \/ \A i \in 1 .. Len(t) : t[i] = Zero
           \/ \A i \in 1 .. Len(t) : t[i] = clk + i - 1,
           Orderly(clk, s, rep)
    PROVE  Orderly(clk + Len(t), s \o t, rep)
<1> DEFINE m == Len(s)
           n == Len(t)
           r == s \o t
<1>1. /\ m \in Nat /\ n \in Nat /\ Len(r) = m + n
      /\ \A i \in 1 .. m : s[i] \in Int
      /\ \A i \in 1 .. m + n : r[i] = IF i <= m THEN s[i] ELSE t[i - m]
  OBVIOUS
<1>2. /\ clk - m \in 0 .. rep
      /\ \A i \in 1 .. m : s[i] # Zero =>
             s[i] \in Nat /\ s[i] - (i - 1) \in 0 .. rep /\ clk - s[i] >= m + 1 - i
      /\ \A i, j \in 1 .. m :
             i < j /\ s[i] # Zero /\ s[j] # Zero => j - i <= s[j] - s[i]
  BY DEF Orderly
<1> HIDE DEF m, n, r
<1>3. \A i \in m + 1 .. m + n : r[i] = Zero \/ r[i] = clk + (i - m) - 1
  <2>1. ASSUME NEW i \in m + 1 .. m + n
        PROVE  r[i] = Zero \/ r[i] = clk + (i - m) - 1
    <3>1. i - m \in 1 .. n /\ r[i] = t[i - m]
      BY <1>1
    <3>2. t[i - m] = Zero \/ t[i - m] = clk + (i - m) - 1
      BY <3>1 DEF n
    <3> QED BY <3>1, <3>2
  <2> QED BY <2>1
<1>4. \A i \in 1 .. m : r[i] = s[i]
  BY <1>1
<1>5. ASSUME NEW i \in 1 .. m + n, r[i] # Zero
      PROVE  r[i] \in Nat /\ r[i] - (i - 1) \in 0 .. rep /\ clk + n - r[i] >= m + n + 1 - i
  <2>1. CASE i <= m
    <3>1. i \in 1 .. m /\ r[i] = s[i]
      BY <1>1, <1>4, <2>1
    <3>2. s[i] \in Nat /\ s[i] - (i - 1) \in 0 .. rep /\ clk - s[i] >= m + 1 - i
      BY <1>2, <1>5, <3>1
    <3>3. clk + n - s[i] >= m + n + 1 - i
      <4>1. m \in Int /\ n \in Int /\ s[i] \in Int /\ clk - s[i] >= m + 1 - i
        BY <1>1, <3>2
      <4> QED BY <4>1
    <3> QED BY <3>1, <3>2, <3>3
  <2>2. CASE i > m
    <3>1. r[i] = clk + (i - m) - 1
      BY <1>1, <1>3, <1>5, <2>2
    <3> QED BY <1>1, <1>2, <2>2, <3>1
  <2> QED BY <1>1, <2>1, <2>2
<1>6. ASSUME NEW i \in 1 .. m + n, NEW j \in 1 .. m + n, i < j, r[i] # Zero, r[j] # Zero
      PROVE  j - i <= r[j] - r[i]
  <2>1. CASE j <= m
    <3>1. r[i] = s[i] /\ r[j] = s[j] /\ i \in 1 .. m /\ j \in 1 .. m
      BY <1>1, <1>4, <1>6, <2>1
    <3> QED BY <1>2, <1>6, <3>1
  <2>2. CASE i <= m /\ j > m
    <3>1. r[j] = clk + (j - m) - 1
      BY <1>1, <1>3, <1>6, <2>2
    <3>2. r[i] = s[i] /\ s[i] \in Nat /\ clk - s[i] >= m + 1 - i
      BY <1>1, <1>2, <1>4, <1>6, <2>2
    <3> QED BY <1>1, <2>2, <3>1, <3>2
  <2>3. CASE i > m
    <3>1. r[i] = clk + (i - m) - 1 /\ r[j] = clk + (j - m) - 1
      BY <1>1, <1>3, <1>6, <2>3
    <3> QED BY <1>1, <3>1
  <2> QED BY <1>1, <2>1, <2>2, <2>3
<1>7. clk + n - (m + n) \in 0 .. rep
  BY <1>1, <1>2
<1>8. Orderly(clk + n, r, rep)
  BY <1>1, <1>5, <1>6, <1>7 DEF Orderly
<1> QED BY <1>8 DEF n, r

\* What could not be written leaves the middle of the recording and is reported.
LEMMA OrderlyDiscard ==
    ASSUME NEW clk \in Int, NEW f \in Seq(Int), NEW q \in Seq(Int), NEW rep \in Int,
           NEW n \in 0 .. Len(q), Orderly(clk, f \o q, rep)
    PROVE  Orderly(clk, f \o SubSeq(q, n + 1, Len(q)), rep + n)
<1> DEFINE m == Len(f)
           k == Len(q)
           s == f \o q
           r == f \o SubSeq(q, n + 1, Len(q))
           Was(i) == IF i <= m THEN i ELSE i + n
<1>1. /\ m \in Nat /\ k \in Nat /\ n \in Nat /\ n <= k
      /\ Len(s) = m + k /\ Len(r) = m + k - n
      /\ \A i \in 1 .. m + k : s[i] \in Int
      /\ \A i \in 1 .. m + k : s[i] = IF i <= m THEN f[i] ELSE q[i - m]
  BY SMTT(30)
<1>2. \A i \in 1 .. m + k - n : r[i] = s[Was(i)]
  <2> DEFINE z == SubSeq(q, n + 1, Len(q))
  <2>1. z \in Seq(Int) /\ Len(z) = k - n /\ \A i \in 1 .. k - n : z[i] = q[i + n]
    OBVIOUS
  <2> HIDE DEF z
  <2>2. \A i \in 1 .. m + k - n : r[i] = IF i <= m THEN f[i] ELSE z[i - m]
    <3>1. \A i \in 1 .. Len(f) + Len(z) :
              (f \o z)[i] = IF i <= Len(f) THEN f[i] ELSE z[i - Len(f)]
      BY <2>1
    <3>2. Len(f) + Len(z) = m + k - n
      BY <1>1, <2>1
    <3> QED BY <3>1, <3>2 DEF z
  <2> HIDE DEF m, k, s, r
  <2>3. ASSUME NEW i \in 1 .. m + k - n
        PROVE  r[i] = s[Was(i)]
    <3>1. CASE i <= m
      BY <1>1, <2>2, <3>1
    <3>2. CASE i > m
      <4>1. r[i] = z[i - m] /\ i - m \in 1 .. k - n
        BY <1>1, <2>2, <3>2
      <4>2. z[i - m] = q[i - m + n]
        BY <2>1, <4>1
      <4>3. s[i + n] = q[i + n - m] /\ i + n - m = i - m + n
        BY <1>1, <3>2
      <4>4. Was(i) = i + n
        BY <1>1, <3>2
      <4> QED BY <4>1, <4>2, <4>3, <4>4
    <3> QED BY <1>1, <3>1, <3>2
  <2> QED BY <2>3
<1>3. /\ clk - (m + k) \in 0 .. rep
      /\ \A i \in 1 .. m + k : s[i] # Zero =>
             s[i] \in Nat /\ s[i] - (i - 1) \in 0 .. rep /\ clk - s[i] >= m + k + 1 - i
      /\ \A i, j \in 1 .. m + k :
             i < j /\ s[i] # Zero /\ s[j] # Zero => j - i <= s[j] - s[i]
  BY <1>1 DEF Orderly
<1> HIDE DEF m, k, s, r
<1>a. m \in Nat /\ k \in Nat /\ n \in Nat /\ n <= k
  BY <1>1
<1>4. clk - (m + k - n) \in 0 .. rep + n
  BY <1>1, <1>3
<1>5. ASSUME NEW i \in 1 .. m + k - n, r[i] # Zero
      PROVE  /\ r[i] \in Nat /\ r[i] - (i - 1) \in 0 .. rep + n
             /\ clk - r[i] >= m + k - n + 1 - i
  <2>1. PICK w \in 1 .. m + k : r[i] = s[w] /\ i <= w /\ w <= i + n
    <3>1. r[i] = s[Was(i)]
      BY <1>2
    <3>2. Was(i) \in 1 .. m + k /\ i <= Was(i) /\ Was(i) <= i + n
      BY <1>a
    <3> QED BY <3>1, <3>2
  <2>2. /\ r[i] \in Nat /\ r[i] - (w - 1) \in 0 .. rep
        /\ clk - r[i] >= m + k + 1 - w
    BY <1>3, <1>5, <2>1
  <2>3. /\ i \in Int /\ w \in Int /\ r[i] \in Int /\ rep \in Int /\ clk \in Int /\ n \in Int
        /\ m + k \in Int /\ m + k - n \in Int /\ i <= w /\ w <= i + n
    BY <1>a, <2>1, <2>2
  <2>4. r[i] - (w - 1) >= 0 /\ r[i] - (w - 1) <= rep
    BY <2>2, <2>3
  <2>5. r[i] - (i - 1) >= 0 /\ r[i] - (i - 1) <= rep + n
    <3>1. r[i] - (i - 1) >= 0
      BY <2>3, <2>4
    <3>2. r[i] - (i - 1) <= rep + n
      BY <2>3, <2>4
    <3> QED BY <3>1, <3>2
  <2>6. clk - r[i] >= m + k - n + 1 - i
    <3>1. m \in Int /\ k \in Int /\ clk - r[i] >= m + k + 1 - w
      BY <1>a, <2>2
    <3> QED BY <2>3, <3>1
  <2>7. r[i] - (i - 1) \in 0 .. rep + n
    BY <2>3, <2>5
  <2>8. r[i] \in Nat
    BY <2>2
  <2> QED BY <2>6, <2>7, <2>8
<1>6. ASSUME NEW i \in 1 .. m + k - n, NEW j \in 1 .. m + k - n, i < j,
             r[i] # Zero, r[j] # Zero
      PROVE  j - i <= r[j] - r[i]
  <2>1. PICK v \in 1 .. m + k, w \in 1 .. m + k :
            r[i] = s[v] /\ r[j] = s[w] /\ v < w /\ j - i <= w - v
    <3>1. r[i] = s[Was(i)] /\ r[j] = s[Was(j)]
      BY <1>2, Zenon
    <3>2. Was(i) \in 1 .. m + k /\ Was(j) \in 1 .. m + k
      BY <1>a
    <3>3. Was(i) < Was(j) /\ j - i <= Was(j) - Was(i)
      BY <1>a, <1>6
    <3> QED BY <3>1, <3>2, <3>3
  <2>2. w - v <= s[w] - s[v]
    BY <1>3, <1>6, <2>1
  <2>3. s[v] \in Int /\ s[w] \in Int
    BY <1>1, <2>1
  <2> QED BY <1>1, <2>1, <2>2, <2>3
<1>7. Orderly(clk, r, rep + n)
  BY <1>1, <1>4, <1>5, <1>6 DEF Orderly
<1> QED BY <1>7 DEF r

\* The recording in the ring and in the file are sequences of quads.
LEMMA RecordingTypes ==
    IInv /\ RingKept =>
        /\ Clock \in Int /\ Lost \in Int
        /\ Unwritten \in Seq(Int) /\ file \in Seq(Int)
<1> SUFFICES ASSUME IInv, RingKept
             PROVE  /\ Clock \in Int /\ Lost \in Int
                    /\ Unwritten \in Seq(Int) /\ file \in Seq(Int)
  OBVIOUS
<1>1. Clock \in Int /\ Lost \in Nat
  BY ClockTypes
<1>2. Unwritten \in Seq(Int)
  BY QueueHolds
<1>3. file \in Seq(Int)
  BY DEF IInv, TypeOK, Cell
<1> QED BY <1>1, <1>2, <1>3

\* Three parts of a recording may be joined in either order.
LEMMA Regroup ==
    ASSUME NEW s \in Seq(Int), NEW t \in Seq(Int), NEW u \in Seq(Int)
    PROVE  (s \o t) \o u = s \o (t \o u)
OBVIOUS

\* A step of the timeline, of values rather than of variables.
Moves(clk, f, q, rep, clk2, f2, q2, rep2) ==
    \/ \E n \in 1 .. SamplesSize :
           /\ \/ q2 = q \o [i \in 1 .. n |-> clk + i - 1]
              \/ q2 = q \o [i \in 1 .. n |-> Zero]
           /\ clk2 = clk + n /\ f2 = f /\ rep2 = rep
    \/ \E n \in 1 .. SamplesSize :
           /\ n <= Len(q) /\ q2 = SubSeq(q, n + 1, Len(q)) /\ clk2 = clk
           /\ \/ f2 = f \o SubSeq(q, 1, n) /\ rep2 = rep
              \/ f2 = f /\ rep2 = rep + n
    \/ clk2 >= clk /\ clk2 \in Int /\ rep2 - rep >= clk2 - clk /\ f2 = f /\ q2 = q

\* Every step of the timeline keeps the recording in order.
LEMMA TimelineKeepsOrder ==
    ASSUME NEW clk \in Int, NEW clk2, NEW f \in Seq(Int), NEW f2,
           NEW q \in Seq(Int), NEW q2, NEW rep \in Int, NEW rep2 \in Int,
           Orderly(clk, f \o q, rep), Moves(clk, f, q, rep, clk2, f2, q2, rep2)
    PROVE  Orderly(clk2, f2 \o q2, rep2)
<1>1. CASE \E n \in 1 .. SamplesSize :
               /\ \/ q2 = q \o [i \in 1 .. n |-> clk + i - 1]
                  \/ q2 = q \o [i \in 1 .. n |-> Zero]
               /\ clk2 = clk + n /\ f2 = f /\ rep2 = rep
  <2>1. PICK n \in 1 .. SamplesSize :
            /\ \/ q2 = q \o [i \in 1 .. n |-> clk + i - 1]
               \/ q2 = q \o [i \in 1 .. n |-> Zero]
            /\ clk2 = clk + n /\ f2 = f /\ rep2 = rep
    BY <1>1
  <2>2. PICK t \in Seq(Int) :
            /\ q2 = q \o t /\ Len(t) = n
            /\ \/ \A i \in 1 .. Len(t) : t[i] = Zero
               \/ \A i \in 1 .. Len(t) : t[i] = clk + i - 1
    <3>1. n \in Nat /\ Zero \in Int
      BY SizeAssumption DEF SizeAssumption, Zero
    <3>2. CASE q2 = q \o [i \in 1 .. n |-> Zero]
      <4> DEFINE z == [i \in 1 .. n |-> Zero]
      <4>1. z \in Seq(Int) /\ Len(z) = n /\ \A i \in 1 .. Len(z) : z[i] = Zero
        BY <3>1, FunctionIsSeq
      <4> HIDE DEF z
      <4> QED BY <3>2, <4>1 DEF z
    <3>3. CASE q2 = q \o [i \in 1 .. n |-> clk + i - 1]
      <4> DEFINE z == [i \in 1 .. n |-> clk + i - 1]
      <4>1. z \in Seq(Int) /\ Len(z) = n /\ \A i \in 1 .. Len(z) : z[i] = clk + i - 1
        BY <3>1, FunctionIsSeq
      <4> HIDE DEF z
      <4> QED BY <3>3, <4>1 DEF z
    <3> QED BY <2>1, <3>2, <3>3
  <2>3. f \o q \in Seq(Int) /\ f2 \o q2 = (f \o q) \o t
    <3>1. f2 \o q2 = f \o (q \o t)
      BY <2>1, <2>2
    <3>2. (f \o q) \o t = f \o (q \o t)
      BY Regroup
    <3> QED BY <3>1, <3>2
  <2>4. Orderly(clk + Len(t), (f \o q) \o t, rep)
    BY <2>2, <2>3, OrderlyAppend
  <2> QED BY <2>1, <2>2, <2>3, <2>4
<1>2. CASE \E n \in 1 .. SamplesSize :
               /\ n <= Len(q) /\ q2 = SubSeq(q, n + 1, Len(q)) /\ clk2 = clk
               /\ \/ f2 = f \o SubSeq(q, 1, n) /\ rep2 = rep
                  \/ f2 = f /\ rep2 = rep + n
  <2>1. PICK n \in 1 .. SamplesSize :
            /\ n <= Len(q) /\ q2 = SubSeq(q, n + 1, Len(q)) /\ clk2 = clk
            /\ \/ f2 = f \o SubSeq(q, 1, n) /\ rep2 = rep
               \/ f2 = f /\ rep2 = rep + n
    BY <1>2
  <2>2. n \in 0 .. Len(q)
    BY <2>1, SizeAssumption DEF SizeAssumption
  <2>3. CASE f2 = f \o SubSeq(q, 1, n) /\ rep2 = rep
    <3> DEFINE y == SubSeq(q, 1, n)
               z == SubSeq(q, n + 1, Len(q))
    <3>1. y \in Seq(Int) /\ z \in Seq(Int)
      BY <2>2
    <3>2. f2 \o q2 = (f \o y) \o z
      BY <2>1, <2>3
    <3> HIDE DEF y, z
    <3>3. (f \o y) \o z = f \o q
      <4>1. y \o z = SubSeq(q, 1, Len(q))
        BY <2>2, ConcatAdjacentSubSeq DEF y, z
      <4>2. (f \o y) \o z = f \o (y \o z)
        BY <3>1, Regroup
      <4> QED BY <4>1, <4>2, SubSeqFull
    <3> QED BY <2>1, <2>3, <3>2, <3>3
  <2>4. CASE f2 = f /\ rep2 = rep + n
    BY <2>1, <2>2, <2>4, OrderlyDiscard
  <2> QED BY <2>1, <2>3, <2>4
<1>3. CASE clk2 >= clk /\ clk2 \in Int /\ rep2 - rep >= clk2 - clk /\ f2 = f /\ q2 = q
  <2>1. clk2 - clk \in Nat /\ rep2 >= rep + (clk2 - clk) /\ clk + (clk2 - clk) = clk2
    BY <1>3
  <2>2. f \o q \in Seq(Int)
    OBVIOUS
  <2>3. Orderly(clk + (clk2 - clk), f \o q, rep2)
    BY <2>1, <2>2, OrderlySlip
  <2> QED BY <1>3, <2>1, <2>3
<1> QED BY <1>1, <1>2, <1>3 DEF Moves

\* ... so every step of the pipeline does, until a descriptor is overwritten.
LEMMA OrderlyStep ==
    ASSUME TInv, RInv', [Next]_vars, ~lapped'
    PROVE  Orderly(Clock, file \o Unwritten, Lost)'
<1>1. RInv /\ IInv /\ IInv' /\ RingKept /\ RingKept' /\ Orderly(Clock, file \o Unwritten, Lost)
  BY LappedStays DEF TInv, RInv
<1>2. /\ Clock \in Int /\ Lost \in Int /\ Unwritten \in Seq(Int) /\ file \in Seq(Int)
      /\ (Clock \in Int /\ Lost \in Int /\ Unwritten \in Seq(Int) /\ file \in Seq(Int))'
  <2>1. (IInv /\ RingKept)' => (/\ Clock \in Int /\ Lost \in Int
                                /\ Unwritten \in Seq(Int) /\ file \in Seq(Int))'
    BY RecordingTypes, PTL
  <2> QED BY <1>1, <2>1, RecordingTypes
<1>3. T!Next \/ UNCHANGED T!tvars
  BY <1>1, StepIsTimeline
<1> DEFINE clk == Clock  f == file  q == Unwritten  rep == Lost
<1>a. PICK clk2 \in Int, rep2 \in Int : clk2 = Clock' /\ rep2 = Lost'
  BY <1>2
<1>b. PICK f2 : f2 = file'
  OBVIOUS
<1>c. PICK q2 : q2 = Unwritten'
  OBVIOUS
<1>4. clk2 = Clock' /\ f2 = file' /\ q2 = Unwritten' /\ rep2 = Lost'
  BY <1>a, <1>b, <1>c
<1>5. Moves(clk, f, q, rep, clk2, f2, q2, rep2)
  <2>1. CASE UNCHANGED T!tvars
    <3>1. clk2 = clk /\ f2 = f /\ q2 = q /\ rep2 = rep
      BY <1>4, <2>1 DEF T!tvars
    <3>2. clk2 >= clk /\ rep2 - rep >= clk2 - clk
      BY <1>2, <3>1
    <3> QED BY <1>4, <3>1, <3>2 DEF Moves
  <2>2. CASE Clock' >= Clock /\ T!Slip(Clock' - Clock)
    BY <1>4, <2>2 DEF T!Slip, Moves
  <2>3. ASSUME NEW n \in 1 .. SamplesSize, T!Accept(n)
        PROVE  /\ q2 = q \o [i \in 1 .. n |-> clk + i - 1]
               /\ clk2 = clk + n /\ f2 = f /\ rep2 = rep
    <3> DEFINE s == [i \in 1 .. n |-> clk + i - 1]
    <3>1. Len(s) = n
      BY <1>2, SizeAssumption DEF SizeAssumption
    <3> HIDE DEF s
    <3>2. T!Enqueue(s)
      BY <2>3 DEF T!Accept, s
    <3> QED BY <1>4, <3>1, <3>2 DEF T!Enqueue, s
  <2>4. ASSUME NEW n \in 1 .. SamplesSize, T!PadWith(n)
        PROVE  /\ q2 = q \o [i \in 1 .. n |-> Zero]
               /\ clk2 = clk + n /\ f2 = f /\ rep2 = rep
    <3> DEFINE s == [i \in 1 .. n |-> Zero]
    <3>1. Len(s) = n
      BY SizeAssumption DEF SizeAssumption
    <3> HIDE DEF s
    <3>2. T!Enqueue(s)
      BY <2>4 DEF T!PadWith, s
    <3> QED BY <1>4, <3>1, <3>2 DEF T!Enqueue, s
  <2>5. ASSUME NEW n \in 1 .. SamplesSize, T!Write(n) \/ T!Discard(n)
        PROVE  /\ n <= Len(q) /\ q2 = SubSeq(q, n + 1, Len(q)) /\ clk2 = clk
               /\ \/ f2 = f \o SubSeq(q, 1, n) /\ rep2 = rep
                  \/ f2 = f /\ rep2 = rep + n
    BY <1>4, <2>5 DEF T!Write, T!Discard
  <2> HIDE DEF clk, f, q, rep
  <2> QED BY <1>3, <2>1, <2>2, <2>3, <2>4, <2>5 DEF T!Next, Moves
<1>6. Orderly(clk2, f2 \o q2, rep2)
  <2>1. /\ clk \in Int /\ f \in Seq(Int) /\ q \in Seq(Int) /\ rep \in Int
        /\ Orderly(clk, f \o q, rep)
    BY <1>1, <1>2
  <2> HIDE DEF clk, f, q, rep
  <2>2. ASSUME NEW c \in Int, NEW g \in Seq(Int), NEW w \in Seq(Int), NEW r \in Int,
               Orderly(c, g \o w, r), Moves(c, g, w, r, clk2, f2, q2, rep2)
        PROVE  Orderly(clk2, f2 \o q2, rep2)
    BY <2>2, TimelineKeepsOrder, Zenon
  <2> QED BY <1>5, <2>1, <2>2, Zenon
<1>7. Orderly(Clock', file' \o Unwritten', Lost')
  BY <1>4, <1>6
<1> QED BY <1>7 DEF Orderly

\* What is written and what waits are one recording: each sample once, in
\* order, and at its instant or earlier by no more than was reported, as long as
\* no descriptor has been overwritten (streaming.c:132-134, output.c:46-48).
THEOREM RecordingIsOrderly == Spec => []TInv
<1>1. Init => TInv
  <2> SUFFICES ASSUME Init PROVE TInv
    OBVIOUS
  <2>1. RInv
    BY InitRInv
  <2>2. T!Init
    BY InitIsTimeline
  <2>3. Orderly(Clock, file \o Unwritten, Lost)
    <3>1. Clock = 0 /\ Lost = 0 /\ file = <<>> /\ Unwritten = <<>>
      BY <2>2 DEF T!Init
    <3>2. Orderly(0, <<>> \o <<>>, 0)
      <4> DEFINE none == <<>> \o <<>>
      <4>1. Len(none) = 0
        BY EmptySeq
      <4> HIDE DEF none
      <4>2. Orderly(0, none, 0)
        BY <4>1 DEF Orderly
      <4> QED BY <4>2 DEF none
    <3> QED BY <3>1, <3>2
  <2> QED BY <2>1, <2>3 DEF TInv
<1>2. TInv /\ RInv' /\ [Next]_vars => TInv'
  BY OrderlyStep DEF TInv
<1>3. Spec => []RInv
  BY RingInvariance
<1> QED BY <1>1, <1>2, <1>3, PTL DEF Spec

\* Samples of the recording that are in the file.
LEMMA FileOfRecording ==
    ASSUME TInv, ~lapped
    PROVE  /\ \A i \in DOMAIN file : file[i] \in Nat \/ file[i] = Zero
           /\ \A i \in Samples : file[i] - (i - 1) \in 0 .. Lost
           /\ \A i, j \in Samples : i < j => j - i <= file[j] - file[i]
<1> DEFINE r == file \o Unwritten
<1>1. IInv /\ RingKept /\ Orderly(Clock, r, Lost)
  BY DEF TInv, RInv
<1>2. /\ file \in Seq(Int) /\ Unwritten \in Seq(Int)
  BY <1>1, RecordingTypes
<1>3. /\ DOMAIN file = 1 .. Len(file) /\ Len(file) <= Len(r)
      /\ Len(file) \in Nat /\ Len(r) \in Nat
      /\ \A i \in 1 .. Len(file) : r[i] = file[i]
  BY <1>2
<1> HIDE DEF r
<1>4. \A i \in DOMAIN file : i \in 1 .. Len(r) /\ r[i] = file[i]
  BY <1>3
<1> QED BY <1>1, <1>4 DEF Orderly, Samples

\* A sample lies in the file at its instant, or earlier by no more than was
\* reported lost, slipped or not written (streaming.c:210-222, 132-134).
THEOREM SlipsAreReported == Spec => []SlipIsReported
<1>1. TInv => SlipIsReported
  BY FileOfRecording DEF SlipIsReported, Lost
<1> QED BY <1>1, RecordingIsOrderly, PTL

\* The file holds no sample twice, none out of order and nothing that was never
\* stored (output.c:46-48).
THEOREM FileIsInOrder == Spec => []FileInOrder
<1>1. TInv => FileInOrder
  BY FileOfRecording DEF FileInOrder, Garbage, Zero
<1> QED BY <1>1, RecordingIsOrderly, PTL

=============================================================================
