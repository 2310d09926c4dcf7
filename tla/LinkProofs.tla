----------------------------- MODULE LinkProofs -----------------------------
(***************************************************************************)
(* What Link promises, for every value of its constants.                   *)
(*                                                                         *)
(* The decoder of EdgeTrack stays locked: for frames and bytes of every    *)
(* length, every set of shapes the captures allow, and any number of bits. *)
(* What it reads is the frame that was sent, but for two odd shapes.       *)
(* The carrier-detect program of CarrierSense never takes a wire that has  *)
(* been active for more than Latency ticks for an idle one.  The words of  *)
(* TxFifo reach the wire frame by frame, each behind its pad.              *)
(***************************************************************************)
EXTENDS Link, SequenceTheorems, TLAPS

\* The bits ahead are shapes, and few enough for Middle.
WireKnown ==
  /\ cur \in [bit : {0, 1}, half : 2 .. 4]
  /\ ahead \in Seq(Shapes)
  /\ Len(ahead) <= 3

\* Samples F + 6 * (at + i) after the middle edge of the i-th bit ahead
Drift(i) == grid + 6 * i - Middle(i)

--------------------------------------------------------------------------------
\* The wire as the decoder sees it, sample by sample.

\* What Arrive may add is a shape as the captures have them.
LEMMA AheadShape ==
  ASSUME ahead \in Seq(Shapes), NEW i \in 1 .. Len(ahead)
  PROVE  /\ ahead[i] \in Shapes
         /\ ahead[i].bit \in {0, 1}
         /\ ahead[i].lead \in 2 .. 4 /\ ahead[i].half \in 2 .. 4
         /\ ahead[i].lead + ahead[i].half \in 5 .. 7
<1>1. ahead[i] \in Shapes
  OBVIOUS
<1> QED
  BY <1>1, EdgeTrackAssumption

\* Small numbers, one by one: the provers do not find them for a length.
LEMMA UpToThree ==
  ASSUME NEW n \in Nat, n <= 3
  PROVE  n \in 0 .. 3 /\ (n = 0 \/ n = 1 \/ n = 2 \/ n = 3)
OBVIOUS

\* There are at most three of them.
LEMMA LengthKnown ==
  ASSUME WireKnown
  PROVE  /\ Len(ahead) \in Nat /\ Len(ahead) \in 0 .. 3
         /\ Len(ahead) = 0 \/ Len(ahead) = 1 \/ Len(ahead) = 2 \/ Len(ahead) = 3
<1>1. Len(ahead) \in Nat /\ Len(ahead) <= 3
  BY DEF WireKnown
<1> QED
  BY <1>1, UpToThree, Zenon

\* Whether the i-th bit ahead makes sample p high
HighIn(i, p) ==
  \/ BitAhead(i).bit = 1 /\ p \in Middle(i) - BitAhead(i).half .. Middle(i) - 1
  \/ BitAhead(i).bit = 0 /\ p \in Middle(i) .. EndOf(i) - 1

\* Where the bits ahead lie.
LEMMA WireBounds ==
  ASSUME WireKnown
  PROVE  /\ cur.bit \in {0, 1} /\ cur.half \in 2 .. 4
         /\ Len(ahead) >= 1 =>
              /\ ahead[1].bit \in {0, 1} /\ ahead[1].lead \in 2 .. 4 /\ ahead[1].half \in 2 .. 4
              /\ ahead[1].lead + ahead[1].half \in 5 .. 7
         /\ Len(ahead) >= 2 =>
              /\ ahead[2].bit \in {0, 1} /\ ahead[2].lead \in 2 .. 4 /\ ahead[2].half \in 2 .. 4
              /\ ahead[2].lead + ahead[2].half \in 5 .. 7
         /\ Len(ahead) >= 3 =>
              /\ ahead[3].bit \in {0, 1} /\ ahead[3].lead \in 2 .. 4 /\ ahead[3].half \in 2 .. 4
              /\ ahead[3].lead + ahead[3].half \in 5 .. 7
<1>1. cur.bit \in {0, 1} /\ cur.half \in 2 .. 4
  BY DEF WireKnown
<1>2. Len(ahead) \in Nat /\ ahead \in Seq(Shapes)
  BY DEF WireKnown
<1>3. (Len(ahead) >= 1 => 1 \in 1 .. Len(ahead)) /\ (Len(ahead) >= 2 => 2 \in 1 .. Len(ahead))
      /\ (Len(ahead) >= 3 => 3 \in 1 .. Len(ahead))
  BY <1>2
<1> QED
  BY <1>1, <1>2, <1>3, AheadShape

\* Where their middle edges are.
LEMMA MiddleIs ==
  /\ Middle(0) = 0
  /\ Middle(1) = ahead[1].lead + ahead[1].half
  /\ Middle(2) = ahead[1].lead + ahead[1].half + ahead[2].lead + ahead[2].half
  /\ Middle(3) = ahead[1].lead + ahead[1].half + ahead[2].lead + ahead[2].half
                 + ahead[3].lead + ahead[3].half
BY DEF Middle

\* They follow one another.
LEMMA SumFacts ==
  ASSUME NEW m \in Int, NEW l \in 2 .. 4, NEW h \in 2 .. 4
  PROVE  /\ m + l + h \in Int /\ m + l + h - h \in Int
         /\ m + l + h - h >= m + 2 /\ m + l + h >= m + 4
OBVIOUS

LEMMA MiddleOrder ==
  ASSUME WireKnown
  PROVE  /\ Len(ahead) >= 1 => Middle(1) \in 5 .. 7
         /\ Len(ahead) >= 2 => /\ Middle(2) \in Int /\ Middle(2) - ahead[2].half \in Int
                               /\ Middle(2) - ahead[2].half >= Middle(1) + 2 /\ Middle(2) >= Middle(1) + 4
         /\ Len(ahead) >= 3 => /\ Middle(3) \in Int /\ Middle(3) - ahead[3].half \in Int
                               /\ Middle(3) - ahead[3].half >= Middle(2) + 2 /\ Middle(3) >= Middle(2) + 4
<1>1. Len(ahead) \in Nat
  BY DEF WireKnown
<1>2. (Len(ahead) >= 3 => Len(ahead) >= 2) /\ (Len(ahead) >= 2 => Len(ahead) >= 1)
  BY <1>1
<1>3. Len(ahead) >= 1 => Middle(1) \in 5 .. 7
  BY WireBounds DEF Middle
<1>4. ASSUME Len(ahead) >= 2
      PROVE  /\ Middle(2) \in Int /\ Middle(2) - ahead[2].half \in Int
             /\ Middle(2) - ahead[2].half >= Middle(1) + 2 /\ Middle(2) >= Middle(1) + 4
  <2>1. Middle(1) \in Int /\ ahead[2].lead \in 2 .. 4 /\ ahead[2].half \in 2 .. 4
    BY <1>2, <1>3, <1>4, WireBounds
  <2>2. Middle(2) = Middle(1) + ahead[2].lead + ahead[2].half
    BY ONLY TRUE DEF Middle
  <2> QED
    BY <2>1, <2>2, SumFacts
<1>5. ASSUME Len(ahead) >= 3
      PROVE  /\ Middle(3) \in Int /\ Middle(3) - ahead[3].half \in Int
             /\ Middle(3) - ahead[3].half >= Middle(2) + 2 /\ Middle(3) >= Middle(2) + 4
  <2>1. Middle(2) \in Int /\ ahead[3].lead \in 2 .. 4 /\ ahead[3].half \in 2 .. 4
    BY <1>2, <1>4, <1>5, WireBounds
  <2>2. Middle(3) = Middle(2) + ahead[3].lead + ahead[3].half
    BY ONLY TRUE DEF Middle
  <2> QED
    BY <2>1, <2>2, SumFacts
<1> QED
  BY <1>3, <1>4, <1>5

\* A bit is not high before its first half begins.
LEMMA NotYetHigh ==
  ASSUME NEW i \in Nat \ {0}, NEW p \in Int, NEW m \in Int, NEW h \in Int, Middle(i) = m,
         BitAhead(i).half = h, p < m - h, p < m
  PROVE  ~HighIn(i, p)
<1>1. p \notin m - h .. m - 1
  OBVIOUS
<1>2. p \notin m .. EndOf(i) - 1
  OBVIOUS
<1> QED
  BY <1>1, <1>2 DEF HighIn

\* No bit but the first ahead reaches a sample before the second one's start.
LEMMA Beyond ==
  ASSUME WireKnown, NEW p \in Int, p <= Middle(1) + 1, NEW i \in 2 .. Len(ahead)
  PROVE  ~HighIn(i, p)
<1>1. Len(ahead) \in Nat /\ Len(ahead) <= 3
  BY DEF WireKnown
<1>2. i \in Nat /\ 2 <= i /\ i <= 3 /\ i <= Len(ahead)
  BY <1>1
<1>3. i = 2 \/ i = 3
  BY <1>2
<1>4. ASSUME Len(ahead) >= 2
      PROVE  ~HighIn(2, p)
  <2>1. /\ Len(ahead) >= 1
        /\ Middle(2) \in Int /\ Middle(2) - ahead[2].half \in Int
        /\ Middle(2) - ahead[2].half >= Middle(1) + 2 /\ Middle(2) >= Middle(1) + 4
        /\ Middle(1) \in 5 .. 7
    BY <1>1, <1>4, MiddleOrder
  <2>2. p < Middle(2) - ahead[2].half /\ p < Middle(2)
    BY <2>1
  <2>3. BitAhead(2).half = ahead[2].half /\ ahead[2].half \in Int
    BY <1>4, WireBounds DEF BitAhead
  <2> QED
    BY <2>1, <2>2, <2>3, NotYetHigh
<1>5. ASSUME Len(ahead) >= 3
      PROVE  ~HighIn(3, p)
  <2>1. /\ Len(ahead) >= 1 /\ Len(ahead) >= 2
        /\ Middle(3) \in Int /\ Middle(3) - ahead[3].half \in Int
        /\ Middle(3) - ahead[3].half >= Middle(2) + 2 /\ Middle(3) >= Middle(2) + 4
        /\ Middle(2) \in Int /\ Middle(2) >= Middle(1) + 4 /\ Middle(1) \in 5 .. 7
    BY <1>1, <1>5, MiddleOrder
  <2>2. p < Middle(3) - ahead[3].half /\ p < Middle(3)
    BY <2>1, SMTT(30)
  <2>3. BitAhead(3).half = ahead[3].half /\ ahead[3].half \in Int
    BY <1>5, WireBounds DEF BitAhead
  <2> QED
    BY <2>1, <2>2, <2>3, NotYetHigh, SMTT(30)
<1> QED
  BY <1>1, <1>2, <1>3, <1>4, <1>5

\* So a sample up to there is decided by the bit the decoder is at and the next one.
LEMMA SampleNear ==
  ASSUME WireKnown, Len(ahead) >= 1, NEW p \in Int, p <= Middle(1) + 1
  PROVE  Sample(p) = IF HighIn(0, p) \/ HighIn(1, p) THEN 1 ELSE 0
<1>1. Len(ahead) \in Nat
  BY DEF WireKnown
<1>2. 0 \in 0 .. Len(ahead) /\ 1 \in 0 .. Len(ahead)
  BY <1>1
<1>3. \A i \in 0 .. Len(ahead) : i = 0 \/ i = 1 \/ i \in 2 .. Len(ahead)
  BY <1>1
<1>4. (\E i \in 0 .. Len(ahead) : HighIn(i, p)) <=> HighIn(0, p) \/ HighIn(1, p)
  BY <1>2, <1>3, Beyond
<1> QED
  BY <1>4 DEF Sample, HighIn

\* The first half of the next bit is at the bit's own level.
LEMMA FirstHalf ==
  ASSUME WireKnown, Len(ahead) >= 1,
         NEW p \in Int, Middle(1) - ahead[1].half <= p, p < Middle(1)
  PROVE  Sample(p) = ahead[1].bit
<1>1. ~HighIn(0, p)
  BY WireBounds, MiddleIs DEF HighIn, BitAhead, EndOf, WireKnown
<1>2. HighIn(1, p) <=> ahead[1].bit = 1
  BY WireBounds, MiddleIs DEF HighIn, BitAhead
<1> QED
  BY <1>1, <1>2, SampleNear, WireBounds, MiddleIs

\* From its middle edge on it is at the other one, for two samples at least.
LEMMA SecondHalf ==
  ASSUME WireKnown, Len(ahead) >= 1, NEW p \in {Middle(1), Middle(1) + 1}
  PROVE  Sample(p) = 1 - ahead[1].bit
<1>1. ~HighIn(0, p)
  BY WireBounds, MiddleIs DEF HighIn, BitAhead, EndOf, WireKnown
<1>2. EndOf(1) >= Middle(1) + 2 \/ ahead[1].bit = 1
  BY WireBounds, MiddleIs DEF EndOf, Trail, BitAhead, WireKnown
<1>3. EndOf(1) \in Int
  BY WireBounds, MiddleIs DEF EndOf, Trail, BitAhead, WireKnown
<1>4. ASSUME ahead[1].bit = 0
      PROVE  HighIn(1, p)
  <2>1. p \in Int /\ Middle(1) <= p /\ p <= Middle(1) + 1
    BY WireBounds, MiddleIs
  <2> QED
    BY <1>2, <1>3, <1>4, <2>1, WireBounds, MiddleIs DEF HighIn, BitAhead
<1>5. ASSUME ahead[1].bit = 1
      PROVE  ~HighIn(1, p)
  BY <1>5, WireBounds, MiddleIs DEF HighIn, BitAhead
<1> QED
  BY <1>1, <1>4, <1>5, SampleNear, WireBounds, MiddleIs

\* Before the next bit starts the line is at the second level of the bit the decoder is at.
LEMMA OwnSecondHalf ==
  ASSUME WireKnown, Len(ahead) >= 1, NEW p \in Int, 0 <= p, p < ahead[1].lead
  PROVE  Sample(p) = 1 - cur.bit
<1>1. HighIn(0, p) <=> cur.bit = 0
  BY WireBounds, MiddleIs DEF HighIn, BitAhead, EndOf, WireKnown
<1>2. ~HighIn(1, p)
  BY WireBounds, MiddleIs DEF HighIn, BitAhead, EndOf
<1> QED
  BY <1>1, <1>2, SampleNear, WireBounds, MiddleIs

\* Around the next middle edge.
LEMMA NearEdge ==
  ASSUME WireKnown, Len(ahead) >= 1
  PROVE  /\ ahead[1].bit \in {0, 1} /\ Middle(1) \in 5 .. 7
         /\ Sample(Middle(1) - 2) = ahead[1].bit /\ Sample(Middle(1) - 1) = ahead[1].bit
         /\ Sample(Middle(1)) = 1 - ahead[1].bit /\ Sample(Middle(1) + 1) = 1 - ahead[1].bit
         /\ Middle(1) = 7 \/ ahead[1].half >= 3 => Sample(Middle(1) - 3) = ahead[1].bit
<1>1. /\ ahead[1].bit \in {0, 1} /\ ahead[1].half \in 2 .. 4 /\ ahead[1].lead \in 2 .. 4
      /\ Middle(1) \in 5 .. 7
  BY WireBounds, MiddleOrder
<1>2. Sample(Middle(1) - 2) = ahead[1].bit /\ Sample(Middle(1) - 1) = ahead[1].bit
  BY <1>1, FirstHalf
<1>3. Sample(Middle(1)) = 1 - ahead[1].bit /\ Sample(Middle(1) + 1) = 1 - ahead[1].bit
  BY SecondHalf
<1>4. Middle(1) = 7 => ahead[1].half >= 3
  BY <1>1, MiddleIs
<1>5. ahead[1].half >= 3 => Sample(Middle(1) - 3) = ahead[1].bit
  BY <1>1, FirstHalf
<1> QED
  BY <1>1, <1>2, <1>3, <1>4, <1>5

--------------------------------------------------------------------------------
\* The decoder finds the edges.

\* find_edge_w1 finds the next middle edge from the one before it.
LEMMA TailFinds ==
  ASSUME WireKnown, Len(ahead) >= 1
  PROVE  FindEdge(6) = Middle(1)
<1>. DEFINE b == ahead[1].bit
<1>1. b \in {0, 1} /\ (Middle(1) = 5 \/ Middle(1) = 6 \/ Middle(1) = 7)
  BY NearEdge
<1>2. CASE Middle(1) = 5
  <2>1. Sample(4) = b /\ Sample(5) = 1 - b /\ Sample(6) = 1 - b
    BY <1>2, NearEdge
  <2> QED
    BY <1>1, <1>2, <2>1 DEF FindEdge
<1>3. CASE Middle(1) = 6
  <2>1. Sample(5) = b /\ Sample(6) = 1 - b
    BY <1>3, NearEdge
  <2> QED
    BY <1>1, <1>3, <2>1 DEF FindEdge
<1>4. CASE Middle(1) = 7
  <2>1. Sample(4) = b /\ Sample(5) = b /\ Sample(6) = b /\ Sample(7) = 1 - b
    BY <1>4, NearEdge
  <2> QED
    BY <1>1, <1>4, <2>1 DEF FindEdge
<1> QED
  BY <1>1, <1>2, <1>3, <1>4

LEMMA Differences ==
  ASSUME NEW lo \in Int
  PROVE  /\ Differ(lo) = IF Sample(lo) # Sample(lo + 1) THEN 1 ELSE 0
         /\ Differ(lo + 1) = IF Sample(lo + 1) # Sample(lo + 2) THEN 1 ELSE 0
         /\ Differ(lo + 2) = IF Sample(lo + 2) # Sample(lo + 3) THEN 1 ELSE 0
<1>1. (lo + 1) + 1 = lo + 2 /\ (lo + 2) + 1 = lo + 3
  OBVIOUS
<1> QED
  BY <1>1 DEF Differ

(***************************************************************************)
(* "Branchless find_edge_w1": the table of the fast path is the function   *)
(* of the tail, for any four samples, whether or not they are of a frame.  *)
(* (EDGE_DELTA)                                                            *)
(***************************************************************************)
THEOREM EdgeDeltaIsFindEdge ==
  \A lo \in Int : EdgeDelta(lo) \in {-1, 0, 1} /\ FindEdge(lo + 2) = lo + 2 + EdgeDelta(lo)
<1>1. SUFFICES ASSUME NEW lo \in Int
               PROVE  EdgeDelta(lo) \in {-1, 0, 1} /\ FindEdge(lo + 2) = lo + 2 + EdgeDelta(lo)
  OBVIOUS
<1>. DEFINE e0 == Sample(lo) # Sample(lo + 1)
            e1 == Sample(lo + 1) # Sample(lo + 2)
            e2 == Sample(lo + 2) # Sample(lo + 3)
<1>2. (lo + 2) - 1 = lo + 1 /\ (lo + 2) - 2 = lo /\ (lo + 2) + 1 = lo + 3
  OBVIOUS
<1>3. FindEdge(lo + 2) = IF e1 THEN lo + 2 ELSE IF e0 THEN lo + 1 ELSE IF e2 THEN lo + 3 ELSE lo + 2
  BY <1>2, Zenon DEF FindEdge
<1>4. CASE e1
  <2>1. Differ(lo + 1) = 1 /\ (Differ(lo) = 0 \/ Differ(lo) = 1) /\ (Differ(lo + 2) = 0 \/ Differ(lo + 2) = 1)
    BY <1>4, Differences
  <2>2. EdgeDelta(lo) = 0
    BY <2>1 DEF EdgeDelta, EDGE_DELTA
  <2> QED
    BY <1>3, <1>4, <2>2
<1>5. CASE ~e1 /\ e0
  <2>1. Differ(lo + 1) = 0 /\ Differ(lo) = 1 /\ (Differ(lo + 2) = 0 \/ Differ(lo + 2) = 1)
    BY <1>5, Differences
  <2>2. EdgeDelta(lo) = -1
    BY <2>1 DEF EdgeDelta, EDGE_DELTA
  <2> QED
    BY <1>3, <1>5, <2>2
<1>6. CASE ~e1 /\ ~e0 /\ e2
  <2>1. Differ(lo + 1) = 0 /\ Differ(lo) = 0 /\ Differ(lo + 2) = 1
    BY <1>6, Differences
  <2>2. EdgeDelta(lo) = 1
    BY <2>1 DEF EdgeDelta, EDGE_DELTA
  <2> QED
    BY <1>3, <1>6, <2>2
<1>7. CASE ~e1 /\ ~e0 /\ ~e2
  <2>1. Differ(lo + 1) = 0 /\ Differ(lo) = 0 /\ Differ(lo + 2) = 0
    BY <1>7, Differences
  <2>2. EdgeDelta(lo) = 0
    BY <2>1 DEF EdgeDelta, EDGE_DELTA
  <2> QED
    BY <1>3, <1>7, <2>2
<1> QED
  BY <1>4, <1>5, <1>6, <1>7

\* So does EDGE_DELTA: the tail goes on exactly as the fast path would.
LEMMA FastFinds ==
  ASSUME WireKnown, Len(ahead) >= 1
  PROVE  EdgeDelta(4) \in Int /\ 6 + EdgeDelta(4) = Middle(1)
<1>1. EdgeDelta(4) \in {-1, 0, 1} /\ FindEdge(4 + 2) = 4 + 2 + EdgeDelta(4)
  BY EdgeDeltaIsFindEdge
<1> QED
  BY <1>1, TailFinds

\* The anchor, one sample early or not, unless the next bit is of the shape that AnchorMissed names.
LEMMA AnchorFinds ==
  ASSUME WireKnown, Len(ahead) >= 1, cur.bit = 1, grid \in Int, Drift(1) \in {0, 1},
         ~(ahead[1].bit = 1 /\ ahead[1].half = 2 /\ Drift(1) = 0)
  PROVE  FindEdge(grid + 5) = Middle(1)
<1>. DEFINE b == ahead[1].bit
            M == Middle(1)
<1>1. /\ b \in {0, 1} /\ M \in 5 .. 7
      /\ Sample(M - 2) = b /\ Sample(M - 1) = b /\ Sample(M) = 1 - b
  BY NearEdge
<1>2. CASE Drift(1) = 1
  <2>1. grid + 5 = M
    BY <1>1, <1>2 DEF Drift
  <2> QED
    BY <1>1, <2>1 DEF FindEdge
<1>3. CASE Drift(1) = 0
  <2>1. grid + 5 = M - 1 /\ grid + 5 - 1 = M - 2 /\ grid + 5 - 2 = M - 3 /\ grid + 5 + 1 = M
    BY <1>1, <1>3 DEF Drift
  <2>2. Sample(M - 3) = b
    <3>1. CASE ahead[1].half >= 3
      BY <3>1, NearEdge
    <3>2. CASE ahead[1].half = 2
      <4>1. b = 0
        BY <1>1, <1>3, <3>2
      <4>2. M - 3 \in Int /\ 0 <= M - 3 /\ M - 3 < ahead[1].lead
        BY <1>1, <3>2, MiddleIs, WireBounds
      <4> QED
        BY <4>1, <4>2, OwnSecondHalf
    <3> QED
      BY <3>1, <3>2, WireBounds
  <2> QED
    BY <1>1, <2>1, <2>2 DEF FindEdge
<1> QED
  BY <1>2, <1>3

\* The open loop reads the next bit while the line keeps to the sampler's clock.
LEMMA OpenLoopReads ==
  ASSUME WireKnown, Len(ahead) >= 1, grid \in Int, Drift(1) \in {0, 1}
  PROVE  OpenLoop = ahead[1].bit
<1>1. Middle(1) \in 5 .. 7 /\ grid + 6 - Middle(1) \in {0, 1}
  BY NearEdge DEF Drift
<1>2. grid + 4 = Middle(1) - 2 \/ grid + 4 = Middle(1) - 1
  BY <1>1
<1> QED
  BY <1>2, NearEdge DEF OpenLoop

--------------------------------------------------------------------------------
(***************************************************************************)
(* The inductive invariant: what is known of the wire is a frame on a line *)
(* as Arrive has it, the preamble is read for what it is, and the decoder  *)
(* is locked.                                                              *)
(***************************************************************************)
WireInv ==
  /\ WireKnown
  /\ header \in Headers /\ at \in Nat /\ grid \in Int
  /\ IF run = Open THEN at + Len(ahead) < Last ELSE run \in 0 .. 9 /\ at + Len(ahead) = Last
  /\ at <= Preamble => cur.bit = PreambleBit(at)
  /\ \A i \in 1 .. Len(ahead) :
       /\ at + i <= Preamble => ahead[i].bit = PreambleBit(at + i)
       /\ at + i <= Preamble + MacBits => Drift(i) \in {0, 1}
       /\ at + i = Preamble + 1 /\ ~odd => ~(ahead[i].bit = 1 /\ ahead[i].half = 2 /\ Drift(i) = 0)

StageInv ==
  /\ stage \in {"sfd", "anchor", "fast", "tail", "done"}
  /\ stage = "sfd" => at < Preamble /\ prev = (IF at = 0 THEN NoBit ELSE PreambleBit(at))
  /\ stage = "anchor" => at = Preamble

EdgeInv == WireInv /\ StageInv /\ StaysLocked

LEMMA ProductPositive ==
  ASSUME NEW a \in Nat \ {0}, NEW b \in Nat \ {0}
  PROVE  a * b \in Nat \ {0}
OBVIOUS

\* The frame does not end with the preamble.
LEMMA LastBeyond ==
  ASSUME header \in Headers
  PROVE  Last \in Nat /\ Preamble < Last
<1>1. header.length \in Nat \ {0} /\ MinBytes \in Nat \ {0} /\ ByteBits \in Nat \ {0} /\ Preamble \in Nat
  BY EdgeTrackAssumption
<1>2. Bytes \in Nat \ {0}
  BY <1>1 DEF Bytes
<1>3. Bytes * ByteBits \in Nat \ {0}
  BY <1>1, <1>2, ProductPositive
<1> QED
  BY <1>1, <1>3 DEF Last

\* The only two ones in a row of the preamble are its last two bits.
LEMMA TwoOnes ==
  ASSUME NEW n \in Nat, 0 < n, n < Preamble
  PROVE  PreambleBit(n) = 1 /\ PreambleBit(n + 1) = 1 <=> n + 1 = Preamble
<1>1. Preamble \in Nat /\ Preamble % 2 = 1
  BY EdgeTrackAssumption
<1>2. (n % 2 = 0 /\ (n + 1) % 2 = 1) \/ (n % 2 = 1 /\ (n + 1) % 2 = 0)
  OBVIOUS
<1>3. n + 1 = Preamble => n % 2 = 0
  BY <1>1, <1>2
<1> QED
  BY <1>1, <1>2, <1>3 DEF PreambleBit

\* Decoding a bit needs the next one, and Ready says that it is known.
LEMMA NextKnown ==
  ASSUME WireInv, Ready, at < Last
  PROVE  Len(ahead) >= 1
<1>1. Len(ahead) \in Nat /\ at \in Nat /\ Last \in Nat
  BY LastBeyond DEF WireInv, WireKnown
<1>2. CASE run = Open
  BY <1>1, <1>2 DEF Ready, Needed
<1>3. CASE run # Open
  BY <1>1, <1>3 DEF WireInv
<1> QED
  BY <1>2, <1>3

--------------------------------------------------------------------------------
\* The steps of the wire.

\* MiddleIs in the next state
LEMMA MiddleWillBe ==
  /\ Middle(1)' = ahead'[1].lead + ahead'[1].half
  /\ Middle(2)' = ahead'[1].lead + ahead'[1].half + ahead'[2].lead + ahead'[2].half
  /\ Middle(3)' = ahead'[1].lead + ahead'[1].half + ahead'[2].lead + ahead'[2].half
                  + ahead'[3].lead + ahead'[3].half
<1>1. Middle(1)' = ahead'[1].lead + ahead'[1].half
  BY DEF Middle
<1>2. Middle(2)' = ahead'[1].lead + ahead'[1].half + ahead'[2].lead + ahead'[2].half
  BY DEF Middle
<1>3. Middle(3)' = ahead'[1].lead + ahead'[1].half + ahead'[2].lead + ahead'[2].half
                   + ahead'[3].lead + ahead'[3].half
  BY DEF Middle
<1> QED
  BY <1>1, <1>2, <1>3

\* The bits ahead of the next bit.
LEMMA MiddleTail ==
  ASSUME WireKnown, Len(ahead) >= 1, ahead' = Tail(ahead)
  PROVE  /\ ahead' \in Seq(Shapes) /\ Len(ahead') = Len(ahead) - 1
         /\ \A i \in 1 .. Len(ahead') : i + 1 \in 1 .. Len(ahead) /\ ahead'[i] = ahead[i + 1]
         /\ \A i \in 1 .. Len(ahead') : Middle(i)' = Middle(i + 1) - Middle(1)
<1>1. Len(ahead) \in Nat /\ ahead \in Seq(Shapes) /\ Len(ahead) <= 3
  BY DEF WireKnown
<1>2. ahead' \in Seq(Shapes) /\ Len(ahead') = Len(ahead) - 1
  BY <1>1
<1>3. \A i \in 1 .. Len(ahead') : i + 1 \in 1 .. Len(ahead) /\ ahead'[i] = ahead[i + 1]
  BY <1>1, <1>2
<1>4. Len(ahead) >= 2 => ahead'[1] = ahead[2]
  BY <1>1, <1>2, <1>3
<1>5. Len(ahead) >= 3 => ahead'[2] = ahead[3]
  BY <1>1, <1>2, <1>3
<1>6. /\ Middle(1)' = ahead'[1].lead + ahead'[1].half
      /\ Middle(2)' = ahead'[1].lead + ahead'[1].half + ahead'[2].lead + ahead'[2].half
  BY MiddleWillBe
<1>7. ASSUME Len(ahead) >= 2
      PROVE  Middle(1)' = Middle(2) - Middle(1)
  BY <1>1, <1>4, <1>6, <1>7, WireBounds, MiddleIs
<1>8. ASSUME Len(ahead) >= 3
      PROVE  Middle(2)' = Middle(3) - Middle(1)
  BY <1>1, <1>4, <1>5, <1>6, <1>8, WireBounds, MiddleIs, SMTT(30)
<1>9. \A i \in 1 .. Len(ahead') : Middle(i)' = Middle(i + 1) - Middle(1)
  <2>1. SUFFICES ASSUME NEW i \in 1 .. Len(ahead')
                 PROVE  Middle(i)' = Middle(i + 1) - Middle(1)
    OBVIOUS
  <2>2. i \in Nat /\ 1 <= i /\ i + 1 <= Len(ahead) /\ i + 1 <= 3
    BY <1>1, <1>2
  <2>3. i = 1 \/ i = 2
    BY <2>2
  <2>4. CASE i = 1
    <3>1. Len(ahead) >= 2
      BY <2>2, <2>4
    <3> QED
      BY <1>7, <2>4, <3>1
  <2>5. CASE i = 2
    <3>1. Len(ahead) >= 3
      BY <2>2, <2>5
    <3> QED
      BY <1>8, <2>5, <3>1
  <2> QED
    BY <2>3, <2>4, <2>5
<1> QED
  BY <1>2, <1>3, <1>9

\* One more bit ahead.
LEMMA MiddleAppend ==
  ASSUME WireKnown, NEW s \in Shapes, ahead' = Append(ahead, s),
         NEW CONSTANT n \in 1 .. 3, n = Len(ahead) + 1
  PROVE  /\ ahead' \in Seq(Shapes) /\ Len(ahead') = n
         /\ ahead'[n] = s
         /\ \A i \in 1 .. Len(ahead) : ahead'[i] = ahead[i]
         /\ \A i \in 1 .. Len(ahead) : Middle(i)' = Middle(i)
         /\ Middle(n)' = Middle(n - 1) + s.lead + s.half
<1>1. Len(ahead) \in Nat /\ ahead \in Seq(Shapes)
  BY DEF WireKnown
<1>2. ahead' \in Seq(Shapes) /\ Len(ahead') = n
      /\ ahead'[n] = s /\ \A i \in 1 .. Len(ahead) : ahead'[i] = ahead[i]
  BY <1>1
<1>3. s.lead \in 2 .. 4 /\ s.half \in 2 .. 4
  BY EdgeTrackAssumption
<1>4. /\ Middle(1)' = ahead'[1].lead + ahead'[1].half
      /\ Middle(2)' = ahead'[1].lead + ahead'[1].half + ahead'[2].lead + ahead'[2].half
      /\ Middle(3)' = ahead'[1].lead + ahead'[1].half + ahead'[2].lead + ahead'[2].half
                      + ahead'[3].lead + ahead'[3].half
  BY MiddleWillBe
<1>5. n = 1 \/ n = 2 \/ n = 3
  OBVIOUS
<1>6. CASE n = 1
  <2>1. ahead'[1] = s
    BY <1>2, <1>6
  <2>2. Middle(1)' = Middle(0) + s.lead + s.half
    BY <1>3, <1>4, <2>1, MiddleIs
  <2> QED
    BY <1>2, <1>6, <2>2
<1>7. CASE n = 2
  <2>1. ahead'[1] = ahead[1] /\ ahead'[2] = s
    BY <1>2, <1>7
  <2>2. Middle(1)' = Middle(1)
    BY <1>4, <2>1, MiddleIs
  <2>3. Middle(2)' = Middle(1) + s.lead + s.half
    BY <1>4, <2>1, MiddleIs
  <2> QED
    BY <1>2, <1>7, <2>2, <2>3
<1>8. CASE n = 3
  <2>1. ahead'[1] = ahead[1] /\ ahead'[2] = ahead[2] /\ ahead'[3] = s
    BY <1>2, <1>8
  <2>2. Middle(1)' = Middle(1) /\ Middle(2)' = Middle(2)
    BY <1>4, <2>1, MiddleIs
  <2>3. Middle(3)' = Middle(2) + s.lead + s.half
    BY <1>4, <2>1, MiddleIs
  <2>4. \A i \in 1 .. Len(ahead) : i = 1 \/ i = 2
    BY <1>1, <1>8
  <2> QED
    BY <1>2, <1>8, <2>2, <2>3, <2>4
<1> QED
  BY <1>5, <1>6, <1>7, <1>8

\* The decoder goes on to the next bit, with tr wherever it likes: the wire stays one.
LEMMA Moved ==
  ASSUME WireInv, Len(ahead) >= 1, NEW t, MoveTo(t), UNCHANGED wireVars
  PROVE  WireInv' /\ at' = at + 1 /\ lag' = t - Middle(1) /\ Last' = Last
<1>. DEFINE n == Len(ahead)
<1>1. /\ ahead # <<>> /\ ahead' = Tail(ahead) /\ at' = at + 1 /\ lag' = t - Middle(1)
      /\ cur' = [bit |-> ahead[1].bit, half |-> ahead[1].half]
      /\ grid' = IF at < Preamble + MacBits THEN grid + 6 - Middle(1) ELSE 0
  BY DEF MoveTo
<1>2. header' = header /\ run' = run /\ odd' = odd
  BY DEF wireVars
<1>3. Last' = Last
  BY <1>2 DEF Last, Bytes
<1>4. n \in Nat /\ n <= 3 /\ at \in Nat /\ grid \in Int /\ Preamble \in Nat /\ MacBits \in Nat \ {0} /\ Last \in Nat
  BY LastBeyond, EdgeTrackAssumption DEF WireInv, WireKnown
<1>5. /\ ahead' \in Seq(Shapes) /\ Len(ahead') = n - 1
      /\ \A i \in 1 .. Len(ahead') : i + 1 \in 1 .. n /\ ahead'[i] = ahead[i + 1]
      /\ \A i \in 1 .. Len(ahead') : Middle(i)' = Middle(i + 1) - Middle(1)
  BY <1>1, MiddleTail DEF WireInv
<1>6. WireKnown'
  <2>1. cur' \in [bit : {0, 1}, half : 2 .. 4]
    BY <1>1, WireBounds DEF WireInv
  <2>2. Len(ahead') <= 3
    BY <1>4, <1>5
  <2> QED
    BY <1>5, <2>1, <2>2 DEF WireKnown
<1>7. Middle(1) \in Int
  BY MiddleOrder DEF WireInv
<1>8. header' \in Headers /\ at' \in Nat /\ grid' \in Int
  BY <1>1, <1>2, <1>4, <1>7 DEF WireInv
<1>9. IF run' = Open THEN at' + Len(ahead') < Last' ELSE run' \in 0 .. 9 /\ at' + Len(ahead') = Last'
  <2>1. at' + Len(ahead') = at + n
    BY <1>1, <1>4, <1>5
  <2> QED
    BY <1>2, <1>3, <2>1 DEF WireInv
<1>10. 1 \in 1 .. n
  BY <1>4
<1>11. at' <= Preamble => cur'.bit = PreambleBit(at')
  BY <1>1, <1>4, <1>10 DEF WireInv
<1>12. \A i \in 1 .. Len(ahead') :
         /\ at' + i <= Preamble => ahead'[i].bit = PreambleBit(at' + i)
         /\ at' + i <= Preamble + MacBits => Drift(i)' \in {0, 1}
         /\ at' + i = Preamble + 1 /\ ~odd' =>
              ~(ahead'[i].bit = 1 /\ ahead'[i].half = 2 /\ Drift(i)' = 0)
  <2>1. SUFFICES ASSUME NEW i \in 1 .. Len(ahead')
                 PROVE  /\ at' + i <= Preamble => ahead'[i].bit = PreambleBit(at' + i)
                        /\ at' + i <= Preamble + MacBits => Drift(i)' \in {0, 1}
                        /\ at' + i = Preamble + 1 /\ ~odd' =>
                             ~(ahead'[i].bit = 1 /\ ahead'[i].half = 2 /\ Drift(i)' = 0)
    OBVIOUS
  <2>2. /\ i \in Nat /\ at' + i = at + (i + 1) /\ i + 1 \in 1 .. n /\ ahead'[i] = ahead[i + 1]
        /\ Middle(i)' = Middle(i + 1) - Middle(1)
    BY <1>1, <1>4, <1>5
  <2>3. Middle(i + 1) \in Int
    <3>1. i + 1 = 1 \/ i + 1 = 2 \/ i + 1 = 3
      BY <1>4, <2>2
    <3>2. (i + 1 = 2 => n >= 2) /\ (i + 1 = 3 => n >= 3)
      BY <1>4, <2>2
    <3> QED
      BY <1>7, <3>1, <3>2, MiddleOrder DEF WireInv
  <2>4. at' + i <= Preamble + MacBits => Drift(i)' = Drift(i + 1)
    <3>1. SUFFICES ASSUME at' + i <= Preamble + MacBits
                   PROVE  Drift(i)' = Drift(i + 1)
      OBVIOUS
    <3>2. grid' = grid + 6 - Middle(1)
      BY <1>1, <1>4, <2>2, <3>1
    <3>3. Drift(i)' = grid' + 6 * i - Middle(i)'
      BY DEF Drift
    <3> QED
      BY <1>4, <1>7, <2>2, <2>3, <3>2, <3>3, SMTT(30) DEF Drift
  <2>5. at' + i = Preamble + 1 => at' + i <= Preamble + MacBits
    BY <1>4
  <2> QED
    BY <1>2, <2>2, <2>4, <2>5 DEF WireInv
<1>13. WireInv'
  BY <1>6, <1>8, <1>9, <1>11, <1>12 DEF WireInv, PreambleBit
<1> QED
  BY <1>1, <1>3, <1>13

\* Or stays where it is.
LEMMA Stayed ==
  ASSUME WireInv, UNCHANGED <<wireVars, cur, ahead, at, grid>>
  PROVE  WireInv' /\ Last' = Last
<1>1. /\ header' = header /\ run' = run /\ odd' = odd
      /\ cur' = cur /\ ahead' = ahead /\ at' = at /\ grid' = grid
  BY DEF wireVars
<1>2. Last' = Last
  BY <1>1 DEF Last, Bytes
<1>3. WireKnown'
  BY <1>1 DEF WireKnown, WireInv
<1>4. \A i \in 1 .. Len(ahead) : Drift(i)' = Drift(i)
  BY <1>1 DEF Drift, Middle
<1> QED
  BY <1>1, <1>2, <1>3, <1>4 DEF WireInv, PreambleBit

\* What arrives, with the position the open loop has in it.
LEMMA ArriveIs ==
  ASSUME WireInv, Arrive
  PROVE  \E s \in Shapes : \E n \in 1 .. 3 :
           /\ n = Len(ahead) + 1 /\ ahead' = Append(ahead, s) /\ Len(ahead') = n /\ ahead'[n] = s
           /\ \A i \in 1 .. Len(ahead) : ahead'[i] = ahead[i] /\ Drift(i)' = Drift(i)
           /\ at + n <= Preamble => s.bit = PreambleBit(at + n)
           /\ at + n <= Preamble + MacBits => Drift(n)' \in {0, 1}
           /\ IF at + n < Last THEN run' = Open ELSE \E q \in Slack : run' = q + Trail(s.bit)
           /\ odd' = (odd \/ AnchorMissed(at + n, s, Drift(n)') \/ EndMissed(at + n, s, run'))
<1>1. Len(ahead) < Needed /\ grid' = grid
  BY DEF Arrive
<1>2. PICK s \in Shapes :
        LET m == at + Len(ahead) + 1
            g == grid + 6 * (Len(ahead) + 1) - Middle(Len(ahead)) - s.lead - s.half
        IN /\ m <= Preamble => s.bit = PreambleBit(m)
           /\ m <= Preamble + MacBits => g \in {0, 1}
           /\ ahead' = Append(ahead, s)
           /\ \E r \in IF m < Last THEN {Open} ELSE {q + Trail(s.bit) : q \in Slack} :
                /\ run' = r
                /\ odd' = (odd \/ AnchorMissed(m, s, g) \/ EndMissed(m, s, r))
  BY DEF Arrive
<1>3. Len(ahead) \in Nat /\ Len(ahead) < 3 /\ grid \in Int /\ at \in Nat
  <2>1. Needed = 2 \/ Needed = 3
    BY DEF Needed
  <2> QED
    BY <1>1, <2>1 DEF WireInv, WireKnown
<1>4. PICK n \in 1 .. 3 : n = Len(ahead) + 1
  <2>1. Len(ahead) + 1 \in 1 .. 3
    BY <1>3, LengthKnown DEF WireInv
  <2> QED
    BY <2>1
<1>5. /\ Len(ahead') = n /\ ahead'[n] = s
      /\ \A i \in 1 .. Len(ahead) : ahead'[i] = ahead[i] /\ Middle(i)' = Middle(i)
      /\ Middle(n)' = Middle(n - 1) + s.lead + s.half
  BY <1>2, <1>4, MiddleAppend DEF WireInv
<1>6. \A i \in 1 .. Len(ahead) : Drift(i)' = Drift(i)
  BY <1>1, <1>5 DEF Drift
<1>7. at + Len(ahead) + 1 = at + n /\ n - 1 = Len(ahead)
  BY <1>3, <1>4
<1>8. Drift(n)' = grid + 6 * (Len(ahead) + 1) - Middle(Len(ahead)) - s.lead - s.half
  <2>1. Middle(n - 1) \in Int
    <3>1. n = 1 \/ n = 2 \/ n = 3
      OBVIOUS
    <3>2. n = 1 => Middle(n - 1) \in Int
      BY MiddleIs
    <3>3. n = 2 => Middle(n - 1) \in Int
      BY <1>4, MiddleOrder DEF WireInv
    <3>4. n = 3 => Middle(n - 1) \in Int
      BY <1>4, MiddleOrder DEF WireInv
    <3> QED
      BY <3>1, <3>2, <3>3, <3>4
  <2>2. s.lead \in Int /\ s.half \in Int
    BY EdgeTrackAssumption
  <2>3. Drift(n)' = grid + 6 * n - (Middle(n - 1) + s.lead + s.half)
    BY <1>1, <1>5 DEF Drift
  <2>4. n \in Int /\ grid \in Int
    BY <1>3
  <2>5. Drift(n)' = grid + 6 * n - Middle(n - 1) - s.lead - s.half
    BY <2>1, <2>2, <2>3, <2>4, SMTT(30)
  <2> QED
    BY <1>4, <1>7, <2>5
<1>9. /\ at + n <= Preamble => s.bit = PreambleBit(at + n)
      /\ at + n <= Preamble + MacBits => Drift(n)' \in {0, 1}
      /\ \E r \in IF at + n < Last THEN {Open} ELSE {q + Trail(s.bit) : q \in Slack} :
           /\ run' = r
           /\ odd' = (odd \/ AnchorMissed(at + n, s, Drift(n)') \/ EndMissed(at + n, s, r))
  BY <1>2, <1>7, <1>8
<1>10. IF at + n < Last THEN run' = Open ELSE \E q \in Slack : run' = q + Trail(s.bit)
  BY <1>9
<1>11. odd' = (odd \/ AnchorMissed(at + n, s, Drift(n)') \/ EndMissed(at + n, s, run'))
  BY <1>9
<1> QED
  BY <1>2, <1>4, <1>5, <1>6, <1>9, <1>10, <1>11

\* The next bit arrives as the invariant has it.
LEMMA Arrived ==
  ASSUME WireInv, Arrive
  PROVE  WireInv' /\ at' = at /\ Last' = Last /\ (odd => odd')
<1>1. run = Open /\ header' = header /\ cur' = cur /\ at' = at /\ grid' = grid
  BY DEF Arrive
<1>2. Last' = Last
  BY <1>1 DEF Last, Bytes
<1>3. PICK s \in Shapes, n \in 1 .. 3 :
        /\ n = Len(ahead) + 1 /\ ahead' = Append(ahead, s) /\ Len(ahead') = n /\ ahead'[n] = s
        /\ \A i \in 1 .. Len(ahead) : ahead'[i] = ahead[i] /\ Drift(i)' = Drift(i)
        /\ at + n <= Preamble => s.bit = PreambleBit(at + n)
        /\ at + n <= Preamble + MacBits => Drift(n)' \in {0, 1}
        /\ IF at + n < Last THEN run' = Open ELSE \E q \in Slack : run' = q + Trail(s.bit)
        /\ odd' = (odd \/ AnchorMissed(at + n, s, Drift(n)') \/ EndMissed(at + n, s, run'))
  BY ArriveIs
<1>4. Len(ahead) \in Nat /\ at \in Nat /\ grid \in Int /\ Last \in Nat
  BY LastBeyond DEF WireInv, WireKnown
<1>5. WireKnown'
  <2>1. ahead' \in Seq(Shapes) /\ Len(ahead') <= 3
    BY <1>3, <1>4 DEF WireInv, WireKnown
  <2> QED
    BY <1>1, <2>1 DEF WireInv, WireKnown
<1>6. IF run' = Open THEN at' + Len(ahead') < Last' ELSE run' \in 0 .. 9 /\ at' + Len(ahead') = Last'
  <2>1. at + Len(ahead) < Last
    BY <1>1 DEF WireInv
  <2>2. CASE at + n < Last
    BY <1>1, <1>2, <1>3, <2>2
  <2>3. CASE ~(at + n < Last)
    <3>1. at + n = Last
      BY <1>3, <1>4, <2>1, <2>3
    <3>2. \A q \in Slack : q + Trail(s.bit) \in 0 .. 9
      BY EdgeTrackAssumption DEF Trail
    <3>3. run' \in 0 .. 9
      BY <1>3, <2>3, <3>2
    <3> QED
      BY <1>1, <1>2, <1>3, <3>1, <3>3 DEF Open
  <2> QED
    BY <2>2, <2>3
<1>7. odd => odd'
  BY <1>3
<1>8. \A i \in 1 .. Len(ahead') :
        /\ at' + i <= Preamble => ahead'[i].bit = PreambleBit(at' + i)
        /\ at' + i <= Preamble + MacBits => Drift(i)' \in {0, 1}
        /\ at' + i = Preamble + 1 /\ ~odd' =>
             ~(ahead'[i].bit = 1 /\ ahead'[i].half = 2 /\ Drift(i)' = 0)
  <2> TAKE i \in 1 .. Len(ahead')
  <2>1. i \in 1 .. Len(ahead) \/ i = n
    BY <1>3, <1>4
  <2>2. CASE i \in 1 .. Len(ahead)
    BY <1>1, <1>3, <1>7, <2>2 DEF WireInv
  <2>3. CASE i = n
    <3>1. AnchorMissed(at + n, s, Drift(n)') => odd'
      BY <1>3
    <3> QED
      BY <1>1, <1>3, <2>3, <3>1 DEF AnchorMissed
  <2> QED
    BY <2>1, <2>2, <2>3
<1>9. WireInv'
  BY <1>1, <1>5, <1>6, <1>8 DEF WireInv, PreambleBit
<1> QED
  BY <1>1, <1>2, <1>7, <1>9

--------------------------------------------------------------------------------
(***************************************************************************)
(* The steps of the decoder                                                *)
(***************************************************************************)

LEMMA InitLocked ==
  ASSUME EdgeInit
  PROVE  EdgeInv
<1>1. /\ header \in Headers /\ cur \in [bit : {1}, half : 2 .. 4]
      /\ ahead = <<>> /\ at = 0 /\ run = Open /\ grid = 0 /\ stage = "sfd" /\ prev = NoBit
  BY DEF EdgeInit
<1>2. Len(ahead) = 0 /\ ahead \in Seq(Shapes) /\ cur.bit = 1
  BY <1>1
<1>3. cur \in [bit : {0, 1}, half : 2 .. 4]
  BY <1>1
<1>4. Preamble \in Nat /\ Preamble % 2 = 1
  BY EdgeTrackAssumption
<1>5. 0 < Preamble
  BY <1>4
<1>6. PreambleBit(0) = 1
  BY DEF PreambleBit
<1>7. WireInv
  BY <1>1, <1>2, <1>3, <1>4, <1>6, LastBeyond DEF WireInv, WireKnown
<1>8. StageInv /\ StaysLocked
  BY <1>1, <1>5 DEF StageInv, StaysLocked
<1> QED
  BY <1>7, <1>8 DEF EdgeInv

LEMMA ArriveLocked ==
  ASSUME EdgeInv, Arrive
  PROVE  EdgeInv'
<1>1. WireInv' /\ at' = at /\ Last' = Last /\ (odd => odd')
  BY Arrived DEF EdgeInv
<1>2. stage' = stage /\ prev' = prev /\ lag' = lag
  BY DEF Arrive
<1>3. StageInv'
  BY <1>1, <1>2 DEF EdgeInv, StageInv, PreambleBit
<1>4. StaysLocked'
  BY <1>1, <1>2 DEF EdgeInv, StaysLocked
<1> QED
  BY <1>1, <1>3, <1>4 DEF EdgeInv

\* While the preamble lasts the open loop reads its bits, and takes no others for the SFD.
LEMMA FindSfdLocked ==
  ASSUME EdgeInv, FindSfd
  PROVE  EdgeInv'
<1>1. /\ WireInv /\ stage = "sfd" /\ at < Preamble /\ at \in Nat
      /\ prev = (IF at = 0 THEN NoBit ELSE PreambleBit(at))
  BY DEF EdgeInv, StageInv, FindSfd, WireInv
<1>2. Preamble \in Nat \ {1} /\ Preamble % 2 = 1 /\ MacBits \in Nat
  BY EdgeTrackAssumption
<1>3. Len(ahead) >= 1
  <2>1. at < Last
    BY <1>1, <1>2, LastBeyond DEF WireInv
  <2> QED
    BY <1>1, <2>1, NextKnown DEF FindSfd
<1>4. 1 \in 1 .. Len(ahead) /\ grid \in Int
  BY <1>1, <1>3 DEF WireInv, WireKnown
<1>5. ahead[1].bit = PreambleBit(at + 1) /\ Drift(1) \in {0, 1}
  BY <1>1, <1>2, <1>4 DEF WireInv
<1>6. OpenLoop = PreambleBit(at + 1)
  BY <1>1, <1>3, <1>4, <1>5, OpenLoopReads DEF WireInv
<1>7. WireInv' /\ at' = at + 1
  BY <1>1, <1>3, Moved DEF FindSfd
<1>8. /\ prev' = PreambleBit(at + 1)
      /\ stage' = IF prev = 1 /\ PreambleBit(at + 1) = 1 THEN "anchor" ELSE "sfd"
  BY <1>6 DEF FindSfd
<1>9. prev = 1 /\ PreambleBit(at + 1) = 1 <=> at + 1 = Preamble
  <2>1. CASE at = 0
    BY <1>1, <1>2, <2>1 DEF NoBit
  <2>2. CASE at # 0
    BY <1>1, <2>2, TwoOnes
  <2> QED
    BY <2>1, <2>2
<1>10. StageInv'
  <2>1. CASE at + 1 = Preamble
    BY <1>7, <1>8, <1>9, <2>1 DEF StageInv
  <2>2. CASE at + 1 # Preamble
    BY <1>1, <1>2, <1>7, <1>8, <1>9, <2>2 DEF StageInv, PreambleBit
  <2> QED
    BY <2>1, <2>2
<1>11. StaysLocked'
  BY <1>8 DEF StaysLocked
<1> QED
  BY <1>7, <1>10, <1>11 DEF EdgeInv

LEMMA AnchorLocked ==
  ASSUME EdgeInv, Anchor
  PROVE  EdgeInv'
<1>1. WireInv /\ at = Preamble /\ at \in Nat
  BY DEF EdgeInv, StageInv, Anchor, WireInv
<1>2. Preamble \in Nat /\ MacBits \in Nat \ {0}
  BY EdgeTrackAssumption
<1>3. Len(ahead) >= 1
  BY <1>1, LastBeyond, NextKnown DEF WireInv, Anchor
<1>4. 1 \in 1 .. Len(ahead) /\ grid \in Int
  BY <1>1, <1>3 DEF WireInv, WireKnown
<1>5. /\ cur.bit = 1 /\ Drift(1) \in {0, 1}
      /\ ~odd => ~(ahead[1].bit = 1 /\ ahead[1].half = 2 /\ Drift(1) = 0)
  BY <1>1, <1>2, <1>4 DEF WireInv, PreambleBit
<1>6. WireInv' /\ at' = at + 1 /\ lag' = FindEdge(grid + 5) - Middle(1) /\ odd' = odd
  BY <1>1, <1>3, Moved DEF Anchor, wireVars
<1>7. ~odd => lag' = 0
  <2>1. Middle(1) \in Int
    BY <1>1, <1>3, NearEdge DEF WireInv
  <2>2. ~odd => FindEdge(grid + 5) = Middle(1)
    BY <1>1, <1>3, <1>4, <1>5, AnchorFinds DEF WireInv
  <2> QED
    BY <1>6, <2>1, <2>2
<1>8. StageInv' /\ StaysLocked'
  BY <1>6, <1>7 DEF Anchor, StageInv, StaysLocked
<1> QED
  BY <1>6, <1>8 DEF EdgeInv

\* The fast path ends well before the frame's last bit.
LEMMA FastLocked ==
  ASSUME EdgeInv, Fast
  PROVE  EdgeInv'
<1>1. WireInv /\ stage = "fast" /\ Ready /\ InRun(lag + 20) /\ odd' = odd /\ UNCHANGED wireVars
  BY DEF EdgeInv, Fast, wireVars
<1>2. ~odd => lag = 0
  BY <1>1 DEF EdgeInv, StaysLocked
<1>3. CASE Complete
  <2>1. stage' = "done" /\ UNCHANGED <<cur, ahead, at, grid, lag, pending, peeked>>
    BY <1>3 DEF Fast
  <2>2. WireInv'
    BY <1>1, <2>1, Stayed
  <2> QED
    BY <2>1, <2>2 DEF EdgeInv, StageInv, StaysLocked
<1>4. CASE ~Complete
  <2>1. MoveTo(lag + 6 + EdgeDelta(lag + 4)) /\ stage' = "fast"
    BY <1>1, <1>4 DEF Fast
  <2>2. CASE ahead = <<>>
    <3>1. UNCHANGED <<cur, ahead, at, grid>>
      BY <2>1, <2>2 DEF MoveTo
    <3>2. WireInv'
      BY <1>1, <3>1, Stayed
    <3>3. odd
      <4>1. run \in 0 .. 9
        <5>1. Len(ahead) = 0
          BY <2>2
        <5>2. ~(Len(ahead) >= Needed)
          BY <5>1 DEF Needed
        <5> QED
          BY <1>1, <5>2 DEF Ready, WireInv
      <4>2. Len(ahead) = 0 /\ Middle(Len(ahead)) = 0
        BY <2>2, MiddleIs
      <4>3. ~(0 + 20 <= 0 + run) /\ run # Open
        BY <4>1 DEF Open
      <4> QED
        BY <1>1, <1>2, <4>2, <4>3 DEF InRun
    <3> QED
      BY <1>1, <2>1, <3>2, <3>3 DEF EdgeInv, StageInv, StaysLocked
  <2>3. CASE ahead # <<>>
    <3>1. Len(ahead) >= 1
      BY <1>1, <2>3 DEF WireInv, WireKnown
    <3>2. WireInv' /\ lag' = (lag + 6 + EdgeDelta(lag + 4)) - Middle(1)
      <4>. DEFINE t == lag + 6 + EdgeDelta(lag + 4)
      <4>1. MoveTo(t)
        BY <2>1
      <4>. HIDE DEF t
      <4>2. WireInv' /\ lag' = t - Middle(1)
        BY <1>1, <3>1, <4>1, Moved
      <4> QED
        BY <4>2 DEF t
    <3>3. ~odd => lag' = 0
      <4>1. SUFFICES ASSUME ~odd
                     PROVE  lag' = 0
        OBVIOUS
      <4>2. lag = 0
        BY <1>2, <4>1
      <4>3. lag + 4 = 4 /\ lag + 6 = 6
        BY <4>2
      <4>4. lag' = (6 + EdgeDelta(4)) - Middle(1)
        BY <3>2, <4>3, Zenon
      <4>5. EdgeDelta(4) \in Int /\ 6 + EdgeDelta(4) = Middle(1) /\ Middle(1) \in Int
        BY <1>1, <3>1, FastFinds, NearEdge DEF WireInv
      <4> QED
        BY <4>3, <4>4, <4>5
    <3> QED
      BY <1>1, <2>1, <3>2, <3>3 DEF EdgeInv, StageInv, StaysLocked
  <2> QED
    BY <2>2, <2>3
<1> QED
  BY <1>3, <1>4

LEMMA EndFastLocked ==
  ASSUME EdgeInv, EndFast
  PROVE  EdgeInv'
<1>1. /\ WireInv /\ stage = "fast" /\ stage' = "tail" /\ lag' = lag /\ odd' = odd
      /\ UNCHANGED <<wireVars, cur, ahead, at, grid>>
  BY DEF EdgeInv, EndFast, wireVars
<1>2. WireInv' /\ Last' = Last
  BY <1>1, Stayed
<1> QED
  BY <1>1, <1>2 DEF EdgeInv, StageInv, StaysLocked

\* In the tail the window leaves the run only before the frame's last bit.
LEMMA TailBitLocked ==
  ASSUME EdgeInv, TailBit
  PROVE  EdgeInv'
<1>1. WireInv /\ stage = "tail" /\ Ready /\ odd' = odd /\ UNCHANGED wireVars
  BY DEF EdgeInv, TailBit, wireVars
<1>2. ~odd => lag = 0 \/ at = Last
  BY <1>1 DEF EdgeInv, StaysLocked
<1>3. CASE ~InRun(lag) \/ Complete
  <2>1. stage' = "done" /\ UNCHANGED <<cur, ahead, at, grid>>
    BY <1>3 DEF TailBit
  <2>2. WireInv'
    BY <1>1, <2>1, Stayed
  <2> QED
    BY <2>1, <2>2 DEF EdgeInv, StageInv, StaysLocked
<1>4. CASE InRun(lag) /\ ~Complete
  <2>. DEFINE t == IF InRun(lag + 8) THEN FindEdge(lag + 6) ELSE lag + 6
  <2>1. MoveTo(t) /\ stage' = "tail"
    BY <1>1, <1>4 DEF TailBit
  <2>2. CASE ahead = <<>>
    <3>1. UNCHANGED <<cur, ahead, at, grid>>
      BY <2>1, <2>2 DEF MoveTo
    <3>2. WireInv' /\ Last' = Last
      BY <1>1, <3>1, Stayed
    <3>3. at = Last
      <4>1. Len(ahead) = 0 /\ at \in Nat /\ Last \in Nat
        BY <1>1, <2>2, LastBeyond DEF WireInv
      <4>2. ~(Len(ahead) >= Needed)
        BY <4>1 DEF Needed
      <4> QED
        BY <1>1, <4>1, <4>2 DEF Ready, WireInv
    <3> QED
      BY <2>1, <3>1, <3>2, <3>3 DEF EdgeInv, StageInv, StaysLocked
  <2>3. CASE ahead # <<>>
    <3>1. Len(ahead) >= 1 /\ Len(ahead) \in Nat /\ at \in Nat /\ Last \in Nat
      BY <1>1, <2>3, LastBeyond DEF WireInv, WireKnown
    <3>2. WireInv' /\ lag' = t - Middle(1) /\ at' = at + 1 /\ Last' = Last
      <4>1. MoveTo(t)
        BY <2>1
      <4>. HIDE DEF t
      <4> QED
        BY <1>1, <3>1, <4>1, Moved
    <3>3. at # Last
      BY <1>1, <3>1 DEF WireInv
    <3>4. ~odd => lag' = 0 \/ at' = Last
      <4>1. SUFFICES ASSUME ~odd
                     PROVE  lag' = 0 \/ at' = Last
        OBVIOUS
      <4>2. lag = 0 /\ 0 + 6 = 6 /\ 0 + 8 = 8
        BY <1>2, <3>3, <4>1
      <4>3. CASE InRun(lag + 8)
        <5>1. t = FindEdge(6)
          BY <4>2, <4>3
        <5>2. FindEdge(6) = Middle(1) /\ Middle(1) \in Int
          BY <1>1, <3>1, TailFinds, NearEdge DEF WireInv
        <5> QED
          BY <3>2, <5>1, <5>2
      <4>4. CASE ~InRun(lag + 8)
        <5>1. run # Open /\ ~(8 <= Middle(Len(ahead)) + run)
          BY <4>2, <4>4 DEF InRun
        <5>2. run \in 0 .. 9 /\ at + Len(ahead) = Last
          BY <1>1, <5>1 DEF WireInv
        <5>3. /\ Middle(1) \in 5 .. 7
              /\ Len(ahead) >= 2 => Middle(2) \in Int /\ Middle(2) >= Middle(1) + 4
              /\ Len(ahead) >= 3 => Middle(3) \in Int /\ Middle(3) >= Middle(2) + 4
          BY <1>1, <3>1, MiddleOrder DEF WireInv
        <5>4. Len(ahead) # 2
          <6>1. SUFFICES ASSUME Len(ahead) = 2
                         PROVE  FALSE
            OBVIOUS
          <6>2. ~(8 <= Middle(2) + run)
            BY <5>1, <6>1
          <6> QED
            BY <5>2, <5>3, <6>1, <6>2
        <5>5. Len(ahead) # 3
          <6>1. SUFFICES ASSUME Len(ahead) = 3
                         PROVE  FALSE
            OBVIOUS
          <6>2. ~(8 <= Middle(3) + run)
            BY <5>1, <6>1
          <6> QED
            BY <5>2, <5>3, <6>1, <6>2
        <5>6. Len(ahead) = 1
          BY <1>1, <3>1, <5>4, <5>5, LengthKnown DEF WireInv
        <5> QED
          BY <3>2, <5>2, <5>6
      <4> QED
        BY <4>3, <4>4
    <3> QED
      BY <1>1, <2>1, <3>2, <3>4 DEF EdgeInv, StageInv, StaysLocked
  <2> QED
    BY <2>2, <2>3
<1> QED
  BY <1>3, <1>4

LEMMA IdleLocked ==
  ASSUME EdgeInv, UNCHANGED edgeVars
  PROVE  EdgeInv'
<1>1. WireInv' /\ Last' = Last
  BY Stayed DEF EdgeInv, edgeVars, wireVars
<1> QED
  BY <1>1 DEF EdgeInv, edgeVars, StageInv, StaysLocked, PreambleBit

LEMMA EdgeKept == EdgeInv /\ [EdgeNext]_edgeVars => EdgeInv'
<1>1. SUFFICES ASSUME EdgeInv, [EdgeNext]_edgeVars
               PROVE  EdgeInv'
  OBVIOUS
<1>2. CASE Arrive
  BY <1>1, <1>2, ArriveLocked
<1>3. CASE FindSfd
  BY <1>1, <1>3, FindSfdLocked
<1>4. CASE Anchor
  BY <1>1, <1>4, AnchorLocked
<1>5. CASE Fast
  BY <1>1, <1>5, FastLocked
<1>6. CASE EndFast
  BY <1>1, <1>6, EndFastLocked
<1>7. CASE TailBit
  BY <1>1, <1>7, TailBitLocked
<1>8. CASE UNCHANGED edgeVars
  BY <1>1, <1>8, IdleLocked
<1> QED
  BY <1>1, <1>2, <1>3, <1>4, <1>5, <1>6, <1>7, <1>8 DEF EdgeNext

--------------------------------------------------------------------------------
(***************************************************************************)
(* What the decoder makes of a frame. While tr is on the edges the bits    *)
(* that are pushed are those that were sent; the two odd shapes take it    *)
(* off, one at the first bit and one at the last. The run ends with a bit  *)
(* too few, with the frame's last bit, or with one bit too many.           *)
(***************************************************************************)
FrameBits == Bytes * ByteBits

\* A bit that is known has a shape the decoder cannot follow.
AnchorAhead == \E i \in 1 .. Len(ahead) : AnchorMissed(at + i, ahead[i], Drift(i))
EndAhead    == /\ run # Open /\ Len(ahead) >= 1
               /\ EndMissed(Last, ahead[Len(ahead)], run)

\* tr is on the edge of the bit that is pushed next,
InStep ==
  /\ lag = 0 /\ Preamble + bits + 1 = at /\ pending \in {NoBit, cur.bit}
  /\ stage = "fast" \/ pending # NoBit => at < Last
  /\ odd <=> EndAhead

\* or on the one that starts the first bit,
OnStart ==
  /\ at = Preamble + 1 /\ bits = 0 /\ lag = -2 /\ pending = NoBit
  /\ cur.bit = 1 /\ cur.half = 2 /\ odd

\* or beside the edge of the last bit,
BesideLast ==
  /\ stage = "tail" /\ at = Last /\ bits + 1 = FrameBits /\ pending = NoBit
  /\ (lag = -1 /\ cur.bit = 1 /\ run = 0 /\ ~odd) \/ (lag = 1 /\ odd)

\* or past the frame.
Past ==
  /\ stage = "tail" /\ at = Last /\ pending = NoBit /\ ~odd
  /\ (bits = FrameBits /\ lag \in {5, 6}) \/ (bits = FrameBits + 1 /\ lag \in {11, 12})

\* The last bit's second half is part of the run.
TrailKnown == run # Open => run >= Trail(BitAhead(Len(ahead)).bit)

ReadTypes ==
  /\ bits \in Nat /\ cap \in {Bytes, MaxBytes} /\ good \in BOOLEAN /\ odd \in BOOLEAN
  /\ ~good => odd /\ stage \notin {"sfd", "anchor"}

Unread == stage \in {"sfd", "anchor"} => bits = 0 /\ pending = NoBit /\ (odd <=> AnchorAhead \/ EndAhead)
Read   == stage \in {"fast", "tail"} /\ good => InStep \/ OnStart \/ BesideLast \/ Past
AllRead == stage = "done" /\ good => IF odd THEN bits + 1 = FrameBits ELSE bits \in {FrameBits, FrameBits + 1}

ReadInv == peeked /\ TrailKnown /\ ReadTypes /\ Unread /\ Read /\ AllRead

--------------------------------------------------------------------------------
LEMMA DivIs ==
  ASSUME NEW a \in Nat, NEW b \in Nat \ {0}, NEW r \in Nat, r < b
  PROVE  (a * b + r) \div b = a
<1> DEFINE v == a * b + r
           q == v \div b
           m == v % b
<1>1. v \in Nat
  OBVIOUS
<1>2. q \in Int /\ m \in 0 .. b - 1 /\ v = b * q + m
  BY <1>1
<1> QED
  BY <1>2

LEMMA ProductOrder ==
  ASSUME NEW a \in Nat, NEW c \in Nat, NEW b \in Nat \ {0, 1}, a <= c
  PROVE  a * b \in Nat /\ c * b \in Nat /\ a * b <= c * b /\ c * b # a * b + 1
<1>1. a * b \in Nat /\ c * b \in Nat
  OBVIOUS
<1>2. CASE a = c
  BY <1>1, <1>2
<1>3. CASE a # c
  <2>1. c - a \in Nat /\ c - a >= 1
    BY <1>3
  <2>2. (c - a) * b >= b
    BY <2>1
  <2>3. c * b = a * b + (c - a) * b
    BY <2>1
  <2>4. (c - a) * b \in Nat
    BY <2>1
  <2> QED
    BY <1>1, <2>2, <2>3, <2>4
<1> QED
  BY <1>2, <1>3

\* A frame has two bits at least, and its length is not one bit short of any the buffer allows.
LEMMA FrameBitsAre ==
  ASSUME header \in Headers
  PROVE  /\ FrameBits \in Nat /\ FrameBits >= 2 /\ Last = Preamble + FrameBits
         /\ Bytes * ByteBits = FrameBits
         /\ MaxBytes * ByteBits \in Nat /\ MaxBytes * ByteBits >= FrameBits
         /\ MaxBytes * ByteBits # FrameBits + 1
         /\ Preamble \in Nat /\ Last \in Nat
<1>1. /\ header.length \in 1 .. MaxBytes /\ MinBytes \in Nat \ {0} /\ MaxBytes \in Nat /\ MinBytes <= MaxBytes
      /\ ByteBits \in Nat \ {0, 1} /\ Preamble \in Nat
  BY EdgeTrackAssumption
<1>2. Bytes \in Nat /\ Bytes >= 1 /\ Bytes <= MaxBytes
  BY <1>1 DEF Bytes
<1>3. /\ Bytes * ByteBits \in Nat /\ MaxBytes * ByteBits \in Nat /\ Bytes * ByteBits <= MaxBytes * ByteBits
      /\ MaxBytes * ByteBits # Bytes * ByteBits + 1
  BY <1>1, <1>2, ProductOrder
<1>4. 1 * ByteBits <= Bytes * ByteBits /\ 1 * ByteBits = ByteBits
  BY <1>1, <1>2, ProductOrder
<1>5. Bytes * ByteBits >= 2
  BY <1>1, <1>3, <1>4
<1> QED
  BY <1>1, <1>3, <1>5, LastBeyond DEF FrameBits, Last

\* scan_runs counts whole bytes.
LEMMA BytesRead ==
  ASSUME header \in Headers, bits \in Nat
  PROVE  /\ bits + 1 = FrameBits => FrameLen # Bytes
         /\ bits \in {FrameBits, FrameBits + 1} => FrameLen = Bytes
<1>1. /\ header.length \in 1 .. MaxBytes /\ MinBytes \in Nat \ {0} /\ ByteBits \in Nat \ {0, 1}
  BY EdgeTrackAssumption
<1>2. Bytes \in Nat /\ Bytes >= 1
  BY <1>1 DEF Bytes
<1> DEFINE n == bits \div ByteBits
<1>3. FrameLen = IF header.ip /\ Bytes <= n THEN Bytes ELSE n
  BY DEF FrameLen
<1>4. ASSUME bits + 1 = FrameBits
      PROVE  n = Bytes - 1
  <2>1. Bytes - 1 \in Nat /\ ByteBits - 1 \in Nat /\ ByteBits - 1 < ByteBits /\ ByteBits \in Nat \ {0}
    BY <1>1, <1>2
  <2>2. bits + 1 = Bytes * ByteBits /\ (Bytes - 1) * ByteBits = Bytes * ByteBits - ByteBits
        /\ Bytes * ByteBits \in Nat
    BY <1>1, <1>2, <1>4 DEF FrameBits
  <2>3. bits = (Bytes - 1) * ByteBits + (ByteBits - 1)
    BY <1>1, <2>2
  <2> QED
    BY <2>1, <2>3, DivIs
<1>5. ASSUME bits \in {FrameBits, FrameBits + 1}
      PROVE  n = Bytes
  <2>1. PICK r \in {0, 1} : bits = FrameBits + r
    BY <1>5
  <2>2. bits = Bytes * ByteBits + r /\ r \in Nat /\ r < ByteBits /\ ByteBits \in Nat \ {0}
    BY <1>1, <2>1 DEF FrameBits
  <2> QED
    BY <1>2, <2>2, DivIs
<1> HIDE DEF n
<1>6. n = Bytes - 1 => FrameLen # Bytes
  BY <1>2, <1>3
<1>7. n = Bytes => FrameLen = Bytes
  BY <1>2, <1>3
<1> QED
  BY <1>4, <1>5, <1>6, <1>7

\* A frame is complete only with its last bit.
LEMMA CapKept ==
  ASSUME header \in Headers, cap \in {Bytes, MaxBytes}, bits \in Nat, Push
  PROVE  /\ cap' \in {Bytes, MaxBytes} /\ bits' = bits + 1
         /\ bits + 1 < FrameBits => ~Complete
         /\ bits = FrameBits => ~Complete
<1>1. cap' \in {Bytes, MaxBytes} /\ bits' = bits + 1
  BY DEF Push
<1>2. Complete => bits + 1 = FrameBits \/ bits + 1 = MaxBytes * ByteBits
  BY <1>1, FrameBitsAre DEF Complete
<1> QED
  BY <1>1, <1>2, FrameBitsAre

--------------------------------------------------------------------------------
\* What the samples around the bit the decoder is at are.

\* Nothing ahead has begun before the second sample.
LEMMA SampleOwn ==
  ASSUME WireKnown, NEW p \in Int, p < 2
  PROVE  Sample(p) = IF HighIn(0, p) THEN 1 ELSE 0
<1>1. Len(ahead) \in Nat
  BY DEF WireKnown
<1>2. CASE Len(ahead) >= 1
  <2>1. ahead[1].lead \in 2 .. 4 /\ ahead[1].half \in 2 .. 4 /\ Middle(1) = ahead[1].lead + ahead[1].half
        /\ Middle(1) \in 5 .. 7
    BY <1>2, WireBounds, MiddleIs, MiddleOrder
  <2>2. ~HighIn(1, p)
    BY <2>1 DEF HighIn, BitAhead
  <2>3. p <= Middle(1) + 1
    BY <2>1
  <2> QED
    BY <1>2, <2>2, <2>3, SampleNear
<1>3. CASE Len(ahead) = 0
  <2>1. \A i \in 0 .. Len(ahead) : i = 0
    BY <1>3
  <2>2. 0 \in 0 .. Len(ahead)
    BY <1>3
  <2>3. (\E i \in 0 .. Len(ahead) : HighIn(i, p)) <=> HighIn(0, p)
    BY <2>1, <2>2
  <2> QED
    BY <2>3 DEF Sample, HighIn
<1> QED
  BY <1>1, <1>2, <1>3

\* The sample before the middle edge is the bit, and the one two earlier too; three before it the
\* line may still have been as the last bit left it.
LEMMA OwnBit ==
  ASSUME WireKnown
  PROVE  /\ cur.bit \in {0, 1} /\ Sample(-1) = cur.bit
         /\ cur.bit = 1 => Sample(-2) = 1
         /\ cur.bit = 1 /\ cur.half = 2 => Sample(-3) = 0
<1>1. cur.bit \in {0, 1} /\ cur.half \in 2 .. 4
  BY WireBounds
<1>2. \A p \in {-1, -2, -3} : HighIn(0, p) <=> cur.bit = 1 /\ p >= 0 - cur.half
  <2> TAKE p \in {-1, -2, -3}
  <2>1. p \in Int /\ p < 0 /\ Middle(0) = 0
    BY MiddleIs
  <2>2. p \notin Middle(0) .. EndOf(0) - 1
    BY <2>1
  <2>3. p \in Middle(0) - cur.half .. Middle(0) - 1 <=> p >= 0 - cur.half
    BY <1>1, <2>1
  <2> QED
    BY <2>2, <2>3 DEF HighIn, BitAhead
<1>3. /\ HighIn(0, -1) <=> cur.bit = 1
      /\ HighIn(0, -2) <=> cur.bit = 1
      /\ HighIn(0, -3) <=> cur.bit = 1 /\ cur.half # 2
  BY <1>1, <1>2
<1>4. /\ Sample(-1) = IF HighIn(0, -1) THEN 1 ELSE 0
      /\ Sample(-2) = IF HighIn(0, -2) THEN 1 ELSE 0
      /\ Sample(-3) = IF HighIn(0, -3) THEN 1 ELSE 0
  BY SampleOwn
<1> QED
  BY <1>1, <1>3, <1>4

\* After the frame's last bit the line is at the other level, and then low.
LEMMA AfterFrame ==
  ASSUME WireKnown, ahead = <<>>
  PROVE  /\ Sample(0) = 1 - cur.bit
         /\ \A p \in 2 .. 14 : Sample(p) = 0
<1>1. cur.bit \in {0, 1} /\ cur.half \in 2 .. 4 /\ Len(ahead) = 0 /\ Middle(0) = 0
  BY WireBounds, MiddleIs
<1>2. EndOf(0) = Trail(cur.bit)
  BY <1>1 DEF EndOf, BitAhead, Trail
<1>3. \A i \in 0 .. Len(ahead) : i = 0
  BY <1>1
<1>4. 0 \in 0 .. Len(ahead)
  BY <1>1
<1>5. \A p \in Int : (\E i \in 0 .. Len(ahead) : HighIn(i, p)) <=> HighIn(0, p)
  BY <1>3, <1>4
<1>6. \A p \in Int : Sample(p) = IF HighIn(0, p) THEN 1 ELSE 0
  BY <1>5 DEF Sample, HighIn
<1>7. HighIn(0, 0) <=> cur.bit = 0
  BY <1>1, <1>2 DEF HighIn, BitAhead, Trail
<1>8. \A p \in 2 .. 14 : ~HighIn(0, p)
  <2> TAKE p \in 2 .. 14
  <2>1. p \notin Middle(0) - cur.half .. Middle(0) - 1
    BY <1>1
  <2>2. p \notin Middle(0) .. EndOf(0) - 1
    BY <1>1, <1>2 DEF Trail
  <2> QED
    BY <2>1, <2>2 DEF HighIn, BitAhead
<1> QED
  BY <1>1, <1>6, <1>7, <1>8

\* So no edge is found there.
LEMMA NoEdge ==
  ASSUME WireKnown, ahead = <<>>, NEW c \in {5, 6, 11, 12}
  PROVE  FindEdge(c) = c
<1>1. /\ Sample(c - 2) = 0 /\ Sample(c - 1) = 0 /\ Sample(c) = 0 /\ Sample(c + 1) = 0
  <2>1. {c - 2, c - 1, c, c + 1} \subseteq 2 .. 14
    OBVIOUS
  <2> QED
    BY <2>1, AfterFrame
<1> QED
  BY <1>1 DEF FindEdge

\* The shape of AnchorMissed: the edge that starts the bit is in the window.
LEMMA AnchorMisses ==
  ASSUME WireKnown, Len(ahead) >= 1, cur.bit = 1, grid \in Int,
         ahead[1].bit = 1, ahead[1].half = 2, Drift(1) = 0
  PROVE  FindEdge(grid + 5) = Middle(1) - 2
<1> DEFINE M == Middle(1)
<1>1. M \in 5 .. 7 /\ Sample(M - 2) = 1 /\ Sample(M - 1) = 1
  BY NearEdge
<1>2. grid + 5 = M - 1 /\ grid + 5 - 1 = M - 2 /\ grid + 5 - 2 = M - 3
  BY <1>1 DEF Drift
<1>3. Sample(M - 3) = 0
  <2>1. M - 3 \in Int /\ 0 <= M - 3 /\ M - 3 < ahead[1].lead
    BY <1>1, MiddleIs, WireBounds
  <2> QED
    BY <2>1, OwnSecondHalf
<1> QED
  BY <1>1, <1>2, <1>3 DEF FindEdge

--------------------------------------------------------------------------------
\* The steps of the wire and of the decoder, for what is read.

LEMMA FrameBitsStay ==
  ASSUME UNCHANGED header
  PROVE  FrameBits' = FrameBits /\ Bytes' = Bytes /\ Last' = Last
BY DEF FrameBits, Bytes, Last

LEMMA MovedOn ==
  ASSUME WireInv, TrailKnown, peeked, Len(ahead) >= 1, NEW t, MoveTo(t), UNCHANGED wireVars
  PROVE  /\ cur'.bit = ahead[1].bit /\ cur'.half = ahead[1].half
         /\ TrailKnown' /\ peeked'
         /\ at' = at + 1 /\ lag' = t - Middle(1)
         /\ IF at' = Last THEN ~EndAhead' ELSE (EndAhead' <=> EndAhead)
         /\ at < Preamble => (AnchorAhead' <=> AnchorAhead)
<1>1. /\ ahead # <<>> /\ ahead' = Tail(ahead) /\ at' = at + 1 /\ lag' = t - Middle(1)
      /\ cur' = [bit |-> ahead[1].bit, half |-> ahead[1].half]
      /\ grid' = IF at < Preamble + MacBits THEN grid + 6 - Middle(1) ELSE 0
      /\ (at < Preamble + MacBits => OpenLoop = ahead[1].bit) => peeked'
  <2>1. ahead # <<>>
    OBVIOUS
  <2> QED
    BY <2>1, Zenon DEF MoveTo
<1>2. header' = header /\ run' = run /\ odd' = odd /\ Last' = Last
  BY DEF wireVars, Last, Bytes
<1>3. /\ Len(ahead) \in Nat /\ Len(ahead) <= 3 /\ at \in Nat /\ grid \in Int /\ Last \in Nat
      /\ Preamble \in Nat /\ MacBits \in Nat \ {0}
  BY LastBeyond, EdgeTrackAssumption DEF WireInv, WireKnown
<1>4. /\ Len(ahead') = Len(ahead) - 1
      /\ \A i \in 1 .. Len(ahead') : i + 1 \in 1 .. Len(ahead) /\ ahead'[i] = ahead[i + 1]
      /\ \A i \in 1 .. Len(ahead') : Middle(i)' = Middle(i + 1) - Middle(1)
  BY <1>1, MiddleTail DEF WireInv
<1>5. TrailKnown'
  <2>1. CASE Len(ahead) = 1
    <3>1. BitAhead(Len(ahead)) = ahead[1] /\ BitAhead(Len(ahead))' = cur'
      BY <1>3, <1>4, <2>1 DEF BitAhead
    <3> QED
      BY <1>1, <1>2, <3>1 DEF TrailKnown, Open, Trail
  <2>2. CASE Len(ahead) # 1
    <3>1. Len(ahead') \in 1 .. Len(ahead') /\ Len(ahead') # 0 /\ Len(ahead') + 1 = Len(ahead) /\ Len(ahead) # 0
      BY <1>3, <1>4, <2>2
    <3>2. ahead'[Len(ahead')] = ahead[Len(ahead)]
      BY <1>4, <3>1
    <3>3. BitAhead(Len(ahead)) = ahead[Len(ahead)] /\ BitAhead(Len(ahead))' = ahead'[Len(ahead')]
      BY <3>1 DEF BitAhead
    <3> QED
      BY <1>2, <3>2, <3>3 DEF TrailKnown, Open, Trail
  <2> QED
    BY <2>1, <2>2
<1>6. peeked'
  <2>1. SUFFICES ASSUME at < Preamble + MacBits
                 PROVE  OpenLoop = ahead[1].bit
    BY <1>1
  <2>2. 1 \in 1 .. Len(ahead) /\ at + 1 <= Preamble + MacBits
    BY <1>3, <2>1
  <2>3. Drift(1) \in {0, 1}
    BY <2>2 DEF WireInv
  <2> QED
    BY <1>3, <2>3, OpenLoopReads DEF WireInv
<1>7. IF at' = Last THEN ~EndAhead' ELSE (EndAhead' <=> EndAhead)
  <2>1. CASE run = Open
    BY <1>2, <2>1 DEF EndAhead, Open
  <2>2. CASE run # Open
    <3>1. at + Len(ahead) = Last
      BY <2>2 DEF WireInv
    <3>2. CASE Len(ahead) = 1
      <4>1. at' = Last /\ ~(Len(ahead') >= 1)
        BY <1>1, <1>3, <1>4, <3>1, <3>2
      <4> QED
        BY <4>1 DEF EndAhead
    <3>3. CASE Len(ahead) # 1
      <4>1. at' # Last /\ Len(ahead') \in 1 .. Len(ahead') /\ Len(ahead') >= 1 /\ Len(ahead') + 1 = Len(ahead)
        BY <1>1, <1>3, <1>4, <3>1, <3>3
      <4>2. ahead'[Len(ahead')] = ahead[Len(ahead)]
        BY <1>4, <4>1
      <4> QED
        BY <1>2, <4>1, <4>2 DEF EndAhead, EndMissed, Open
    <3> QED
      BY <3>2, <3>3
  <2> QED
    BY <2>1, <2>2
<1>8. ASSUME at < Preamble
      PROVE  AnchorAhead' <=> AnchorAhead
  <2>1. grid' = grid + 6 - Middle(1) /\ at + 1 # Preamble + 1
    BY <1>1, <1>3, <1>8
  <2>2. \A i \in 1 .. Len(ahead') : at' + i = at + (i + 1) /\ Drift(i)' = Drift(i + 1)
    <3> TAKE i \in 1 .. Len(ahead')
    <3>1. i \in Nat /\ i + 1 \in 1 .. Len(ahead) /\ Middle(i)' = Middle(i + 1) - Middle(1)
      BY <1>3, <1>4
    <3>2. Middle(i + 1) \in Int /\ Middle(1) \in Int
      <4>1. i + 1 = 1 \/ i + 1 = 2 \/ i + 1 = 3
        BY <1>3, <3>1
      <4>2. (i + 1 = 2 => Len(ahead) >= 2) /\ (i + 1 = 3 => Len(ahead) >= 3)
        BY <1>3, <3>1
      <4>3. Middle(1) \in Int
        BY MiddleOrder DEF WireInv
      <4> QED
        BY <4>1, <4>2, <4>3, MiddleOrder DEF WireInv
    <3>3. Drift(i)' = grid' + 6 * i - Middle(i)'
      BY DEF Drift
    <3>4. Drift(i)' = Drift(i + 1)
      BY <1>3, <2>1, <3>1, <3>2, <3>3, SMTT(30) DEF Drift
    <3> QED
      BY <1>1, <1>3, <3>1, <3>4
  <2>3. ASSUME AnchorAhead'
        PROVE  AnchorAhead
    <3>1. PICK i \in 1 .. Len(ahead') : AnchorMissed(at' + i, ahead'[i], Drift(i)')
      BY <2>3 DEF AnchorAhead, AnchorMissed
    <3>2. i + 1 \in 1 .. Len(ahead) /\ AnchorMissed(at + (i + 1), ahead[i + 1], Drift(i + 1))
      BY <1>4, <2>2, <3>1
    <3> QED
      BY <3>2 DEF AnchorAhead
  <2>4. ASSUME AnchorAhead
        PROVE  AnchorAhead'
    <3>1. PICK j \in 1 .. Len(ahead) : AnchorMissed(at + j, ahead[j], Drift(j))
      BY <2>4 DEF AnchorAhead
    <3>2. j # 1
      BY <2>1, <3>1 DEF AnchorMissed
    <3>3. PICK i \in 1 .. Len(ahead') : j = i + 1
      <4>1. j - 1 \in 1 .. Len(ahead') /\ j = (j - 1) + 1
        BY <1>3, <1>4, <3>2
      <4> QED
        BY <4>1
    <3>4. AnchorMissed(at' + i, ahead'[i], Drift(i)')
      BY <1>4, <2>2, <3>1, <3>3
    <3> QED
      BY <3>4 DEF AnchorAhead, AnchorMissed
  <2> QED
    BY <2>3, <2>4
<1> QED
  BY <1>1, <1>5, <1>6, <1>7, <1>8

LEMMA StayedOn ==
  ASSUME UNCHANGED <<wireVars, cur, ahead, at, grid>>
  PROVE  /\ TrailKnown' <=> TrailKnown
         /\ EndAhead' <=> EndAhead
         /\ AnchorAhead' <=> AnchorAhead
         /\ FrameBits' = FrameBits /\ Last' = Last /\ Bytes' = Bytes
<1>1. /\ header' = header /\ run' = run /\ odd' = odd
      /\ cur' = cur /\ ahead' = ahead /\ at' = at /\ grid' = grid
  BY DEF wireVars
<1>2. FrameBits' = FrameBits /\ Last' = Last /\ Bytes' = Bytes
  BY <1>1 DEF FrameBits, Last, Bytes
<1>3. TrailKnown' <=> TrailKnown
  BY <1>1 DEF TrailKnown, Open, Trail, BitAhead
<1>4. EndAhead' <=> EndAhead
  BY <1>1, <1>2 DEF EndAhead, Open, EndMissed
<1>5. \A i \in 1 .. Len(ahead) : Drift(i)' = Drift(i)
  BY <1>1 DEF Drift, Middle
<1>6. AnchorAhead' <=> AnchorAhead
  BY <1>1, <1>5 DEF AnchorAhead, AnchorMissed
<1> QED
  BY <1>2, <1>3, <1>4, <1>6

\* Wherever tr goes.
LEMMA WentOn ==
  ASSUME WireInv, TrailKnown, peeked, NEW t, MoveTo(t), UNCHANGED wireVars
  PROVE  TrailKnown' /\ peeked'
<1>1. CASE ahead = <<>>
  <2>1. UNCHANGED <<cur, ahead, at, grid, peeked>>
    BY <1>1 DEF MoveTo
  <2> QED
    BY <2>1, StayedOn
<1>2. CASE ahead # <<>>
  <2>1. Len(ahead) >= 1
    BY <1>2 DEF WireInv, WireKnown
  <2> QED
    BY <2>1, MovedOn
<1> QED
  BY <1>1, <1>2

LEMMA InitRead ==
  ASSUME EdgeInit
  PROVE  ReadInv
<1>1. /\ header \in Headers /\ ahead = <<>> /\ at = 0 /\ run = Open /\ odd = FALSE
      /\ stage = "sfd" /\ pending = NoBit /\ bits = 0 /\ cap = MaxBytes /\ good = TRUE /\ peeked = TRUE
  BY DEF EdgeInit
<1>2. Len(ahead) = 0
  BY <1>1
<1>3. ~AnchorAhead /\ ~EndAhead
  BY <1>1, <1>2 DEF AnchorAhead, EndAhead
<1>4. TrailKnown /\ ReadTypes
  BY <1>1 DEF TrailKnown, ReadTypes
<1>5. Unread /\ Read /\ AllRead
  BY <1>1, <1>3 DEF Unread, Read, AllRead
<1> QED
  BY <1>1, <1>4, <1>5 DEF ReadInv

LEMMA IdleRead ==
  ASSUME ReadInv, UNCHANGED edgeVars
  PROVE  ReadInv'
<1>1. /\ UNCHANGED <<wireVars, cur, ahead, at, grid>> /\ odd' = odd /\ run' = run /\ cur' = cur /\ at' = at
      /\ stage' = stage /\ lag' = lag /\ pending' = pending /\ bits' = bits /\ cap' = cap
      /\ good' = good /\ peeked' = peeked
  BY DEF edgeVars, wireVars
<1>2. /\ TrailKnown' <=> TrailKnown
      /\ EndAhead' <=> EndAhead
      /\ AnchorAhead' <=> AnchorAhead
      /\ FrameBits' = FrameBits /\ Last' = Last /\ Bytes' = Bytes
  BY <1>1, StayedOn
<1>3. Unread' /\ AllRead' /\ ReadTypes'
  BY <1>1, <1>2 DEF ReadInv, Unread, AllRead, ReadTypes, NoBit
<1>4. Read'
  BY <1>1, <1>2 DEF ReadInv, Read, InStep, OnStart, BesideLast, Past, NoBit
<1> QED
  BY <1>1, <1>2, <1>3, <1>4 DEF ReadInv

LEMMA ArriveRead ==
  ASSUME EdgeInv, ReadInv, Arrive
  PROVE  ReadInv'
<1>1. /\ run = Open /\ header' = header /\ cur' = cur /\ at' = at /\ grid' = grid /\ stage' = stage
      /\ lag' = lag /\ pending' = pending /\ bits' = bits /\ cap' = cap /\ good' = good /\ peeked' = peeked
      /\ stage # "done"
  BY DEF Arrive
<1>2. PICK s \in Shapes, n \in 1 .. 3 :
           /\ n = Len(ahead) + 1 /\ Len(ahead') = n /\ ahead'[n] = s
           /\ \A i \in 1 .. Len(ahead) : ahead'[i] = ahead[i] /\ Drift(i)' = Drift(i)
           /\ IF at + n < Last THEN run' = Open ELSE \E q \in Slack : run' = q + Trail(s.bit)
           /\ odd' = (odd \/ AnchorMissed(at + n, s, Drift(n)') \/ EndMissed(at + n, s, run'))
  BY ArriveIs DEF EdgeInv
<1>3. FrameBits' = FrameBits /\ Last' = Last /\ Bytes' = Bytes
  BY <1>1 DEF FrameBits, Last, Bytes
<1>4. Len(ahead) \in Nat /\ at \in Nat /\ at + Len(ahead) < Last /\ Last \in Nat /\ Preamble \in Nat
  BY <1>1, LastBeyond, EdgeTrackAssumption DEF EdgeInv, WireInv, WireKnown
<1>5. ~EndAhead
  BY <1>1 DEF EndAhead
<1>6. at + n = Last => run' # Open /\ run' >= Trail(s.bit)
  <2>1. SUFFICES ASSUME at + n = Last
                 PROVE  run' # Open /\ run' >= Trail(s.bit)
    OBVIOUS
  <2>2. ~(at + n < Last)
    BY <1>4, <2>1
  <2>3. PICK q \in Slack : run' = q + Trail(s.bit)
    BY <1>2, <2>2
  <2>4. q \in 0 .. 7
    BY EdgeTrackAssumption
  <2> QED
    BY <2>3, <2>4 DEF Open, Trail
<1>7. at + n # Last => run' = Open
  BY <1>2, <1>4
<1>8. EndAhead' <=> EndMissed(at + n, s, run')
  <2>1. EndAhead' <=> run' # Open /\ n >= 1 /\ EndMissed(Last, s, run')
    BY <1>2, <1>3 DEF EndAhead, EndMissed, Open
  <2>2. EndMissed(at + n, s, run') <=> at + n = Last /\ EndMissed(Last, s, run')
    BY DEF EndMissed
  <2> QED
    BY <1>6, <1>7, <2>1, <2>2
<1>9. AnchorAhead' <=> AnchorAhead \/ AnchorMissed(at + n, s, Drift(n)')
  <2>1. \A i \in 1 .. Len(ahead') : i \in 1 .. Len(ahead) \/ i = n
    BY <1>2, <1>4
  <2>2. n \in 1 .. Len(ahead') /\ \A i \in 1 .. Len(ahead) : i \in 1 .. Len(ahead')
    BY <1>2, <1>4
  <2>3. AnchorAhead' <=> \E i \in 1 .. Len(ahead') : AnchorMissed(at + i, ahead'[i], Drift(i)')
    BY <1>1 DEF AnchorAhead, AnchorMissed
  <2> QED
    BY <1>2, <2>1, <2>2, <2>3 DEF AnchorAhead
<1>10. odd' \in BOOLEAN /\ (odd' <=> odd \/ AnchorMissed(at + n, s, Drift(n)') \/ EndAhead')
  BY <1>2, <1>8
<1>11. TrailKnown'
  <2>1. SUFFICES ASSUME run' # Open
                 PROVE  run' >= Trail(s.bit)
    <3>1. BitAhead(Len(ahead))' = s
      BY <1>2 DEF BitAhead
    <3> QED
      BY <3>1 DEF TrailKnown, Open, Trail
  <2> QED
    BY <1>6, <1>7, <2>1
<1>12. ReadTypes'
  BY <1>1, <1>3, <1>10 DEF ReadInv, ReadTypes
<1>13. Unread'
  BY <1>1, <1>5, <1>9, <1>10 DEF ReadInv, Unread, NoBit
<1>14. Read'
  <2>1. SUFFICES ASSUME stage \in {"fast", "tail"}, good
                 PROVE  InStep' \/ OnStart'
    BY <1>1 DEF Read
  <2>2. at # Last
    BY <1>4
  <2>3. CASE OnStart
    BY <1>1, <1>10, <2>3 DEF OnStart, NoBit
  <2>4. CASE InStep
    <3>1. ~odd /\ Preamble + bits + 1 = at
      BY <1>5, <2>4 DEF InStep
    <3>2. bits \in Nat
      BY DEF ReadInv, ReadTypes
    <3>3. ~AnchorMissed(at + n, s, Drift(n)')
      BY <1>4, <3>1, <3>2 DEF AnchorMissed
    <3>4. odd' <=> EndAhead'
      BY <1>10, <3>1, <3>3
    <3> QED
      BY <1>1, <1>3, <2>4, <3>4 DEF InStep, NoBit
  <2> QED
    BY <2>1, <2>2, <2>3, <2>4 DEF ReadInv, Read, BesideLast, Past
<1> QED
  BY <1>1, <1>11, <1>12, <1>13, <1>14 DEF ReadInv, AllRead

LEMMA FindSfdRead ==
  ASSUME EdgeInv, ReadInv, FindSfd
  PROVE  ReadInv'
<1>1. /\ WireInv /\ stage = "sfd" /\ at < Preamble /\ Ready /\ MoveTo(0) /\ UNCHANGED wireVars
      /\ odd' = odd /\ header' = header
      /\ pending' = pending /\ bits' = bits /\ cap' = cap /\ good' = good
      /\ stage' \in {"sfd", "anchor"}
  BY DEF EdgeInv, StageInv, FindSfd, wireVars
<1>2. at \in Nat /\ Preamble \in Nat /\ Preamble < Last /\ Last \in Nat
  BY <1>1, LastBeyond, EdgeTrackAssumption DEF WireInv
<1>3. Len(ahead) >= 1
  BY <1>1, <1>2, NextKnown
<1>4. /\ TrailKnown' /\ peeked' /\ at' = at + 1 /\ (AnchorAhead' <=> AnchorAhead)
      /\ at' # Last => (EndAhead' <=> EndAhead)
  BY <1>1, <1>3, MovedOn DEF ReadInv
<1>5. EndAhead' <=> EndAhead
  BY <1>2, <1>4, <1>1
<1>6. ReadTypes'
  BY <1>1, FrameBitsStay DEF ReadInv, ReadTypes
<1>7. Unread' /\ Read' /\ AllRead'
  BY <1>1, <1>4, <1>5 DEF ReadInv, Unread, Read, AllRead, NoBit
<1> QED
  BY <1>4, <1>6, <1>7 DEF ReadInv

\* Past the anchor tr is on the first bit's middle edge, or on the edge before it.
LEMMA AnchorRead ==
  ASSUME EdgeInv, ReadInv, Anchor
  PROVE  ReadInv'
<1>1. /\ WireInv /\ stage = "anchor" /\ at = Preamble /\ Ready /\ MoveTo(FindEdge(grid + 5)) /\ UNCHANGED wireVars
      /\ odd' = odd /\ header' = header /\ run' = run
      /\ pending' = pending /\ bits' = bits /\ cap' = cap /\ good' = good
      /\ stage' = "fast"
  BY DEF EdgeInv, StageInv, Anchor, wireVars
<1>2. /\ at \in Nat /\ Preamble \in Nat /\ Preamble + 1 < Last /\ Last \in Nat /\ MacBits \in Nat \ {0}
  <2>1. header \in Headers
    BY <1>1 DEF WireInv
  <2>2. FrameBits \in Nat /\ FrameBits >= 2 /\ Last = Preamble + FrameBits /\ Preamble \in Nat /\ Last \in Nat
    BY <2>1, FrameBitsAre
  <2> QED
    BY <1>1, <2>2, EdgeTrackAssumption DEF WireInv
<1>3. Len(ahead) >= 1
  BY <1>1, <1>2, NextKnown
<1>4. /\ TrailKnown' /\ peeked' /\ at' = at + 1 /\ lag' = FindEdge(grid + 5) - Middle(1)
      /\ cur'.bit = ahead[1].bit /\ cur'.half = ahead[1].half
      /\ at' # Last => (EndAhead' <=> EndAhead)
  BY <1>1, <1>3, MovedOn DEF ReadInv
<1>5. at' = Preamble + 1 /\ at' < Last' /\ Last' = Last /\ (EndAhead' <=> EndAhead)
  <2>1. Last' = Last
    BY <1>1, FrameBitsStay
  <2> QED
    BY <1>1, <1>2, <1>4, <2>1
<1>6. ReadTypes'
  BY <1>1, FrameBitsStay DEF ReadInv, ReadTypes
<1>7. bits = 0 /\ pending = NoBit /\ (odd <=> AnchorAhead \/ EndAhead)
  BY <1>1 DEF ReadInv, Unread
<1>8. 1 \in 1 .. Len(ahead) /\ Len(ahead) \in Nat
  BY <1>1, <1>3 DEF WireInv, WireKnown
<1>9. cur.bit = 1 /\ grid \in Int /\ Drift(1) \in {0, 1}
  BY <1>1, <1>2, <1>8 DEF WireInv, PreambleBit
<1>10. AnchorAhead <=> ahead[1].bit = 1 /\ ahead[1].half = 2 /\ Drift(1) = 0
  <2>1. \A i \in 1 .. Len(ahead) : at + i = Preamble + 1 <=> i = 1
    BY <1>1, <1>2
  <2> QED
    BY <1>8, <2>1 DEF AnchorAhead, AnchorMissed
<1>11. Middle(1) \in 5 .. 7
  BY <1>1, <1>3, NearEdge DEF WireInv
<1>12. CASE AnchorAhead
  <2>1. FindEdge(grid + 5) = Middle(1) - 2
    BY <1>1, <1>3, <1>9, <1>10, <1>12, AnchorMisses DEF WireInv
  <2>2. lag' = -2
    BY <1>4, <1>11, <2>1
  <2>3. OnStart'
    BY <1>1, <1>4, <1>5, <1>7, <1>10, <1>12, <2>2 DEF OnStart, NoBit
  <2> QED
    BY <1>1, <1>4, <1>6, <2>3 DEF ReadInv, Unread, Read, AllRead
<1>13. CASE ~AnchorAhead
  <2>1. FindEdge(grid + 5) = Middle(1)
    BY <1>1, <1>3, <1>9, <1>10, <1>13, AnchorFinds DEF WireInv
  <2>2. lag' = 0
    BY <1>4, <1>11, <2>1
  <2>3. InStep'
    <3>1. odd' <=> EndAhead'
      BY <1>1, <1>5, <1>7, <1>13
    <3>2. Preamble + bits' + 1 = at' /\ pending' = NoBit
      BY <1>1, <1>2, <1>5, <1>7
    <3> QED
      BY <1>5, <2>2, <3>1, <3>2 DEF InStep, NoBit
  <2> QED
    BY <1>1, <1>4, <1>6, <2>3 DEF ReadInv, Unread, Read, AllRead
<1> QED
  BY <1>12, <1>13

LEMMA EndFastRead ==
  ASSUME ReadInv, EndFast
  PROVE  ReadInv'
<1>1. /\ UNCHANGED <<wireVars, cur, ahead, at, grid>> /\ odd' = odd /\ run' = run /\ cur' = cur /\ at' = at
      /\ stage = "fast" /\ stage' = "tail" /\ lag' = lag /\ pending' = pending /\ bits' = bits /\ cap' = cap
      /\ good' = good /\ peeked' = peeked
  BY DEF EndFast, wireVars
<1>2. /\ TrailKnown' <=> TrailKnown
      /\ EndAhead' <=> EndAhead
      /\ FrameBits' = FrameBits /\ Last' = Last /\ Bytes' = Bytes
  BY <1>1, StayedOn
<1>3. Unread' /\ AllRead' /\ ReadTypes'
  BY <1>1, <1>2 DEF ReadInv, Unread, AllRead, ReadTypes, NoBit
<1>4. Read'
  BY <1>1, <1>2 DEF ReadInv, Read, InStep, OnStart, BesideLast, Past, NoBit
<1> QED
  BY <1>1, <1>2, <1>3, <1>4 DEF ReadInv

\* A bit that is pushed wrong is one of a run that is odd.
LEMMA BadStays ==
  ASSUME ReadTypes, header \in Headers, Push, UNCHANGED wireVars
  PROVE  /\ bits' \in Nat /\ cap' \in {Bytes, MaxBytes}' /\ good' \in BOOLEAN /\ odd' \in BOOLEAN
         /\ good' => good
<1>1. cap' \in {Bytes, MaxBytes} /\ bits' = bits + 1
  BY CapKept DEF ReadTypes
<1>2. Bytes' = Bytes /\ odd' = odd
  BY DEF wireVars, Bytes
<1>3. good' \in BOOLEAN /\ (good' => good)
  BY DEF Push
<1> QED
  BY <1>1, <1>2, <1>3 DEF ReadTypes

\* The bit under tr is pushed for what it is,
LEMMA PushedRight ==
  ASSUME ReadTypes, Push, good, bits + Preamble + 1 = at => DataBit = cur.bit
  PROVE  good'
BY Zenon DEF Push

\* or not.
LEMMA PushedWrong ==
  ASSUME ReadTypes, Push, bits + Preamble + 1 = at, DataBit # cur.bit
  PROVE  ~good'
BY Zenon DEF Push

\* At the start of the first bit the sample before the edge is not the bit's.
LEMMA StartIsWrong ==
  ASSUME WireInv, ReadTypes, OnStart, Push
  PROVE  ~good'
<1>1. DataBit = Sample(lag - 1) /\ lag - 1 = -3 /\ cur.bit = 1 /\ cur.half = 2
  BY DEF OnStart, DataBit
<1>2. DataBit = 0
  BY <1>1, OwnBit DEF WireInv
<1>3. bits + Preamble + 1 = at
  BY EdgeTrackAssumption DEF OnStart
<1> QED
  BY <1>1, <1>2, <1>3, PushedWrong

LEMMA FastRead ==
  ASSUME EdgeInv, ReadInv, Fast
  PROVE  ReadInv'
<1>1. /\ WireInv /\ stage = "fast" /\ Ready /\ InRun(lag + 20) /\ Push /\ UNCHANGED wireVars
      /\ odd' = odd /\ header' = header /\ run' = run /\ stage' \in {"fast", "done"}
      /\ header \in Headers
  BY DEF EdgeInv, Fast, wireVars, WireInv
<1>2. TrailKnown' /\ peeked'
  <2>1. CASE Complete
    <3>1. UNCHANGED <<cur, ahead, at, grid, peeked>>
      BY <2>1 DEF Fast
    <3> QED
      BY <1>1, <3>1, StayedOn DEF ReadInv
  <2>2. CASE ~Complete
    <3>1. MoveTo(lag + 6 + EdgeDelta(lag + 4))
      BY <2>2 DEF Fast
    <3> QED
      BY <1>1, <3>1, WentOn DEF ReadInv
  <2> QED
    BY <2>1, <2>2
<1>3. CASE ~(good /\ InStep)
  <2>1. ~good'
    <3>1. CASE ~good
      BY <1>1, <3>1, BadStays DEF ReadInv
    <3>2. CASE good
      <4>1. OnStart
        BY <1>1, <1>3, <3>2 DEF ReadInv, Read, BesideLast, Past
      <4> QED
        BY <1>1, <4>1, StartIsWrong DEF ReadInv
    <3> QED
      BY <3>1, <3>2
  <2>2. odd
    BY <1>1, <1>3 DEF ReadInv, ReadTypes, Read, OnStart, BesideLast, Past
  <2>3. ReadTypes'
    BY <1>1, <2>2, BadStays DEF ReadInv, ReadTypes
  <2> QED
    BY <1>1, <1>2, <2>1, <2>3 DEF ReadInv, Unread, Read, AllRead
<1>4. CASE good /\ InStep
  <2>1. /\ lag = 0 /\ Preamble + bits + 1 = at /\ pending \in {NoBit, cur.bit} /\ at < Last
        /\ (odd <=> EndAhead)
    BY <1>1, <1>4 DEF InStep
  <2>2. /\ at \in Nat /\ bits \in Nat /\ Preamble \in Nat /\ Last \in Nat /\ FrameBits \in Nat
        /\ Last = Preamble + FrameBits
    BY <1>1, FrameBitsAre DEF ReadInv, ReadTypes, WireInv
  <2>3. ~Complete /\ bits' = bits + 1
    <3>1. bits + 1 < FrameBits
      BY <2>1, <2>2
    <3> QED
      BY <1>1, <2>2, <3>1, CapKept DEF ReadInv, ReadTypes
  <2>4. Len(ahead) >= 1 /\ Len(ahead) \in Nat
    BY <1>1, <2>1, NextKnown DEF WireInv, WireKnown
  <2>5. /\ MoveTo(lag + 6 + EdgeDelta(lag + 4)) /\ stage' = "fast"
        /\ pending' = Sample(lag + 5 + EdgeDelta(lag + 4))
    BY <1>1, <2>3 DEF Fast
  <2>6. /\ cur'.bit = ahead[1].bit /\ at' = at + 1
        /\ lag' = (lag + 6 + EdgeDelta(lag + 4)) - Middle(1)
        /\ at' # Last => (EndAhead' <=> EndAhead)
    <3>. DEFINE t == lag + 6 + EdgeDelta(lag + 4)
    <3>1. MoveTo(t)
      BY <2>5
    <3>. HIDE DEF t
    <3>2. /\ cur'.bit = ahead[1].bit /\ at' = at + 1 /\ lag' = t - Middle(1)
          /\ at' # Last => (EndAhead' <=> EndAhead)
      BY <1>1, <2>4, <3>1, MovedOn DEF ReadInv
    <3> QED
      BY <3>2 DEF t
  <2>7. lag' = 0 /\ pending' = cur'.bit
    <3>1. lag + 4 = 4 /\ lag + 6 = 6 /\ lag + 5 = 5
      BY <2>1
    <3>2. lag' = (6 + EdgeDelta(4)) - Middle(1) /\ pending' = Sample(5 + EdgeDelta(4))
      BY <2>5, <2>6, <3>1, Zenon
    <3>3. EdgeDelta(4) \in Int /\ 6 + EdgeDelta(4) = Middle(1) /\ Middle(1) \in Int
      BY <1>1, <2>4, FastFinds, NearEdge DEF WireInv
    <3>4. 5 + EdgeDelta(4) = Middle(1) - 1
      BY <3>3
    <3>5. Sample(Middle(1) - 1) = ahead[1].bit
      BY <1>1, <2>4, NearEdge DEF WireInv
    <3> QED
      BY <2>6, <3>2, <3>3, <3>4, <3>5
  <2>8. at' < Last
    <3>1. CASE run = Open
      BY <1>1, <2>2, <2>4, <2>6, <3>1 DEF WireInv
    <3>2. CASE run # Open
      <4>1. at + Len(ahead) = Last /\ run \in 0 .. 9
        BY <1>1, <3>2 DEF WireInv
      <4>2. Len(ahead) # 1
        <5>1. SUFFICES ASSUME Len(ahead) = 1
                       PROVE  FALSE
          OBVIOUS
        <5>2. lag + 20 <= Middle(1) + run
          BY <1>1, <3>2, <5>1 DEF InRun
        <5>3. Middle(1) \in 5 .. 7
          BY <1>1, <2>4, NearEdge DEF WireInv
        <5> QED
          BY <2>1, <4>1, <5>2, <5>3
      <4>3. Len(ahead) >= 2 /\ Len(ahead) \in Nat
        <5>1. Len(ahead) = 1 \/ Len(ahead) = 2 \/ Len(ahead) = 3
          BY <1>1, <2>4, LengthKnown DEF WireInv
        <5>2. Len(ahead) = 2 \/ Len(ahead) = 3
          BY <4>2, <5>1, Zenon
        <5> QED
          BY <5>2
      <4>4. at' = at + 1
        BY <2>6
      <4> QED
        BY <2>2, <4>1, <4>3, <4>4
    <3> QED
      BY <3>1, <3>2
  <2>9. good'
    <3>1. DataBit = cur.bit
      <4>1. lag - 1 = -1
        BY <2>1
      <4>2. Sample(-1) = cur.bit
        BY <1>1, OwnBit DEF WireInv
      <4> QED
        BY <2>1, <4>1, <4>2 DEF DataBit
    <3> QED
      BY <1>1, <1>4, <3>1, PushedRight DEF ReadInv
  <2>10. InStep'
    <3>1. Last' = Last
      BY <1>1, FrameBitsStay
    <3>2. odd' <=> EndAhead'
      BY <1>1, <2>1, <2>2, <2>6, <2>8
    <3>3. Preamble + bits' + 1 = at'
      BY <2>1, <2>2, <2>3, <2>6
    <3> QED
      BY <2>7, <2>8, <3>1, <3>2, <3>3 DEF InStep
  <2>11. ReadTypes'
    BY <1>1, <2>9, BadStays DEF ReadInv, ReadTypes
  <2> QED
    BY <1>2, <2>5, <2>10, <2>11 DEF ReadInv, Unread, Read, AllRead
<1> QED
  BY <1>3, <1>4

\* The bit before the last, and any earlier one, in the tail.
LEMMA TailInStep ==
  ASSUME WireInv, ReadInv, TailBit, stage = "tail", good, InStep, at < Last
  PROVE  good' /\ stage' = "tail" /\ (InStep' \/ BesideLast')
<1>1. /\ lag = 0 /\ Preamble + bits + 1 = at /\ pending \in {NoBit, cur.bit} /\ (odd <=> EndAhead)
      /\ Ready /\ UNCHANGED wireVars /\ odd' = odd /\ header' = header /\ run' = run /\ header \in Headers
  BY DEF InStep, TailBit, wireVars, WireInv
<1>2. /\ at \in Nat /\ bits \in Nat /\ Preamble \in Nat /\ Last \in Nat /\ FrameBits \in Nat
      /\ Last = Preamble + FrameBits
  BY <1>1, FrameBitsAre DEF ReadInv, ReadTypes, WireInv
<1>3. Len(ahead) >= 1 /\ Len(ahead) \in Nat
  BY <1>1, NextKnown DEF WireInv, WireKnown
<1>4. /\ Middle(1) \in 5 .. 7
      /\ Len(ahead) >= 2 => Middle(2) \in Int /\ Middle(2) >= Middle(1) + 4
      /\ Len(ahead) >= 3 => Middle(3) \in Int /\ Middle(3) >= Middle(2) + 4
  BY <1>3, MiddleOrder DEF WireInv
<1>5. run # Open => run \in 0 .. 9 /\ at + Len(ahead) = Last
  BY DEF WireInv
<1>6. Middle(Len(ahead)) \in Nat /\ Middle(Len(ahead)) >= 5 /\ (Len(ahead) # 1 => Middle(Len(ahead)) >= 9)
  <2>1. Len(ahead) = 1 \/ Len(ahead) = 2 \/ Len(ahead) = 3
    BY <1>3, LengthKnown DEF WireInv
  <2>2. CASE Len(ahead) = 1
    BY <1>4, <2>2
  <2>3. CASE Len(ahead) = 2
    BY <1>4, <2>3
  <2>4. CASE Len(ahead) = 3
    BY <1>4, <2>4
  <2> QED
    BY <2>1, <2>2, <2>3, <2>4
<1>7. InRun(lag)
  BY <1>1, <1>5, <1>6 DEF InRun
<1>8. Push /\ pending' = NoBit
  BY <1>7 DEF TailBit
<1>9. ~Complete /\ bits' = bits + 1
  <2>1. bits + 1 < FrameBits
    BY <1>1, <1>2
  <2> QED
    BY <1>1, <1>2, <1>8, <2>1, CapKept DEF ReadInv, ReadTypes
<1>10. good'
  <2>1. lag - 1 = -1
    BY <1>1
  <2>2. Sample(-1) = cur.bit
    BY OwnBit DEF WireInv
  <2>3. DataBit = cur.bit
    BY <1>1, <2>1, <2>2 DEF DataBit
  <2> QED
    BY <1>8, <2>3, PushedRight DEF ReadInv
<1> DEFINE t == IF InRun(8) THEN FindEdge(6) ELSE 6
<1>11. stage' = "tail" /\ MoveTo(t)
  <2>1. stage' = "tail" /\ MoveTo(IF InRun(lag + 8) THEN FindEdge(lag + 6) ELSE lag + 6)
    BY <1>7, <1>9 DEF TailBit
  <2>2. lag + 8 = 8 /\ lag + 6 = 6
    BY <1>1
  <2> QED
    BY <2>1, <2>2, Zenon
<1>12. t = IF InRun(8) THEN Middle(1) ELSE 6
  BY <1>3, TailFinds DEF WireInv
<1> HIDE DEF t
<1>13. /\ cur'.bit = ahead[1].bit /\ at' = at + 1 /\ lag' = t - Middle(1)
       /\ IF at' = Last THEN ~EndAhead' ELSE (EndAhead' <=> EndAhead)
  BY <1>1, <1>3, <1>11, MovedOn DEF ReadInv
<1>14. Preamble + bits' + 1 = at' /\ Last' = Last /\ FrameBits' = FrameBits
  <2>1. at' = at + 1
    BY <1>13
  <2> QED
    BY <1>1, <1>2, <1>9, <2>1, FrameBitsStay
<1>15. ASSUME at' = Last
       PROVE  /\ run # Open => Len(ahead) = 1
              /\ EndAhead <=> run # Open /\ Middle(1) = 5 /\ run <= 2
  <2>1. at' = at + 1
    BY <1>13
  <2>2. run # Open => Len(ahead) = 1
    BY <1>2, <1>3, <1>5, <1>15, <2>1
  <2>3. Middle(1) = ahead[1].lead + ahead[1].half
    BY MiddleIs
  <2> QED
    BY <1>3, <2>2, <2>3 DEF EndAhead, EndMissed
<1>16. CASE InRun(8)
  <2>1. lag' = 0
    BY <1>4, <1>12, <1>13, <1>16
  <2>2. at' = Last => ~EndAhead
    <3>1. SUFFICES ASSUME at' = Last, EndAhead
                   PROVE  FALSE
      OBVIOUS
    <3>2. run # Open /\ Len(ahead) = 1 /\ Middle(1) = 5 /\ run <= 2 /\ run \in 0 .. 9
      BY <1>5, <1>15, <3>1
    <3>3. 8 <= Middle(1) + run
      BY <1>16, <3>2 DEF InRun
    <3> QED
      BY <3>2, <3>3
  <2>3. odd' <=> EndAhead'
    BY <1>1, <1>13, <2>2
  <2>4. InStep'
    BY <1>8, <1>11, <1>14, <2>1, <2>3 DEF InStep, NoBit
  <2> QED
    BY <1>10, <1>11, <2>4
<1>17. CASE ~InRun(8)
  <2>1. run # Open /\ ~(8 <= Middle(Len(ahead)) + run)
    BY <1>17 DEF InRun
  <2>2. run \in 0 .. 9 /\ at + Len(ahead) = Last
    BY <1>5, <2>1
  <2>3. Len(ahead) = 1
    BY <1>6, <2>1, <2>2
  <2>4. at' = Last /\ ~(8 <= Middle(1) + run)
    <3>1. at' = at + 1
      BY <1>13
    <3> QED
      BY <2>1, <2>2, <2>3, <3>1
  <2>5. /\ lag' = 6 - Middle(1)
        /\ EndAhead <=> Middle(1) = 5 /\ run <= 2
        /\ ~EndAhead'
    BY <1>12, <1>13, <1>15, <1>17, <2>1, <2>4
  <2>6. bits' + 1 = FrameBits'
    <3>1. bits' = bits + 1 /\ Preamble + bits' + 1 = Preamble + FrameBits
      BY <1>2, <1>9, <1>14, <2>4
    <3> QED
      BY <1>2, <1>14, <3>1
  <2>7. CASE Middle(1) = 5
    <3>1. lag' = 1 /\ odd'
      BY <1>1, <2>2, <2>4, <2>5, <2>7
    <3>2. BesideLast'
      BY <1>8, <1>11, <1>14, <2>4, <2>6, <3>1 DEF BesideLast, NoBit
    <3> QED
      BY <1>10, <1>11, <3>2
  <2>8. CASE Middle(1) = 6
    <3>1. lag' = 0 /\ ~odd'
      BY <1>1, <2>5, <2>8
    <3>2. InStep'
      BY <1>8, <1>11, <1>14, <2>5, <3>1 DEF InStep, NoBit
    <3> QED
      BY <1>10, <1>11, <3>2
  <2>9. CASE Middle(1) = 7
    <3>1. lag' = -1 /\ ~odd' /\ run = 0
      BY <1>1, <2>2, <2>4, <2>5, <2>9
    <3>2. cur'.bit = 1
      <4>1. BitAhead(Len(ahead)) = ahead[1]
        BY <2>3 DEF BitAhead
      <4>2. 0 >= Trail(ahead[1].bit)
        BY <2>1, <3>1, <4>1 DEF ReadInv, TrailKnown
      <4>3. ahead[1].bit = 1
        BY <4>2 DEF Trail
      <4> QED
        BY <1>13, <4>3
    <3>3. BesideLast'
      BY <1>1, <1>8, <1>11, <1>14, <2>4, <2>6, <3>1, <3>2 DEF BesideLast, NoBit
    <3> QED
      BY <1>10, <1>11, <3>3
  <2> QED
    BY <1>4, <2>7, <2>8, <2>9
<1> QED
  BY <1>16, <1>17

\* At the last bit there is nothing ahead.
LEMMA AtLast ==
  ASSUME WireInv, at = Last
  PROVE  ahead = <<>> /\ run \in 0 .. 9 /\ run # Open /\ ~EndAhead /\ \A p \in Int : InRun(p) <=> p <= run
<1>1. Len(ahead) \in Nat /\ ahead \in Seq(Shapes) /\ Last \in Nat
  BY LastBeyond DEF WireInv, WireKnown
<1>2. Len(ahead) = 0 /\ run \in 0 .. 9 /\ run # Open
  BY <1>1 DEF WireInv
<1>3. ahead = <<>>
  BY <1>1, <1>2
<1>4. Middle(Len(ahead)) + run = run
  BY <1>2, MiddleIs
<1> QED
  BY <1>2, <1>3, <1>4 DEF EndAhead, InRun

\* The last bit, read at its edge or a sample before it.
LEMMA TailLast ==
  ASSUME WireInv, ReadInv, TailBit, stage = "tail", good, at = Last,
         InStep \/ (BesideLast /\ ~odd)
  PROVE  /\ good' /\ ~odd'
         /\ (stage' = "tail" /\ Past') \/ (stage' = "done" /\ bits' = FrameBits')
<1>1. /\ UNCHANGED wireVars /\ odd' = odd /\ header' = header /\ run' = run /\ header \in Headers
  BY DEF TailBit, wireVars, WireInv
<1>2. ahead = <<>> /\ run \in 0 .. 9 /\ ~EndAhead /\ \A p \in Int : InRun(p) <=> p <= run
  BY AtLast
<1>3. /\ at \in Nat /\ bits \in Nat /\ Preamble \in Nat /\ FrameBits \in Nat
      /\ Last = Preamble + FrameBits /\ Last' = Last /\ FrameBits' = FrameBits
  BY <1>1, FrameBitsAre, FrameBitsStay DEF ReadInv, ReadTypes, WireInv
<1>4. ~odd /\ pending = NoBit /\ bits + 1 = FrameBits /\ lag \in {-1, 0} /\ (lag = -1 => cur.bit = 1)
  <2>1. CASE InStep
    BY <1>2, <1>3, <2>1 DEF InStep
  <2>2. CASE BesideLast /\ ~odd
    BY <2>2 DEF BesideLast
  <2> QED
    BY <2>1, <2>2
<1>5. Push /\ pending' = NoBit
  <2>1. InRun(lag)
    BY <1>2, <1>4
  <2> QED
    BY <2>1 DEF TailBit
<1>6. bits' = FrameBits'
  BY <1>3, <1>4, <1>5 DEF Push
<1>7. good'
  <2>1. Sample(-1) = cur.bit /\ (cur.bit = 1 => Sample(-2) = 1)
    BY OwnBit DEF WireInv
  <2>2. DataBit = Sample(lag - 1)
    BY <1>4 DEF DataBit
  <2>3. DataBit = cur.bit
    BY <1>4, <2>1, <2>2
  <2> QED
    BY <1>5, <2>3, PushedRight DEF ReadInv
<1>8. CASE Complete
  BY <1>1, <1>4, <1>6, <1>7, <1>8 DEF TailBit
<1>9. CASE ~Complete
  <2>1. InRun(lag)
    BY <1>2, <1>4
  <2>2. stage' = "tail" /\ lag' = (IF InRun(lag + 8) THEN FindEdge(lag + 6) ELSE lag + 6) /\ at' = at
    BY <1>2, <1>9, <2>1 DEF TailBit, MoveTo
  <2>3. lag + 6 \in {5, 6, 11, 12}
    BY <1>4
  <2>4. FindEdge(lag + 6) = lag + 6
    BY <1>2, <2>3, NoEdge DEF WireInv
  <2>5. lag' \in {5, 6}
    BY <1>4, <2>2, <2>4
  <2>6. Past'
    BY <1>1, <1>3, <1>4, <1>5, <1>6, <2>2, <2>5 DEF Past, NoBit
  <2> QED
    BY <1>1, <1>4, <1>7, <2>2, <2>6
<1> QED
  BY <1>8, <1>9

\* The last bit, looked for a sample after its edge: it is missed, or read as its second half.
LEMMA TailMissed ==
  ASSUME WireInv, ReadInv, TailBit, stage = "tail", good, BesideLast, odd
  PROVE  ~good' \/ (stage' = "done" /\ bits' + 1 = FrameBits')
<1>1. header' = header /\ header \in Headers
  BY DEF TailBit, wireVars, WireInv
<1>2. at = Last /\ lag = 1 /\ bits + 1 = FrameBits /\ pending = NoBit
  BY DEF BesideLast
<1>3. ahead = <<>>
  BY <1>2, AtLast
<1>4. /\ bits \in Nat /\ Preamble \in Nat /\ FrameBits \in Nat
      /\ Last = Preamble + FrameBits /\ FrameBits' = FrameBits
  BY <1>1, FrameBitsAre, FrameBitsStay DEF ReadInv, ReadTypes
<1>5. CASE InRun(lag)
  <2>1. Push
    BY <1>5 DEF TailBit
  <2>2. DataBit = Sample(0)
    BY <1>2 DEF DataBit
  <2>3. Sample(0) = 1 - cur.bit /\ cur.bit \in {0, 1}
    BY <1>3, AfterFrame, WireBounds DEF WireInv
  <2>4. DataBit # cur.bit
    BY <2>2, <2>3
  <2>5. bits + Preamble + 1 = at
    BY <1>2, <1>4
  <2> QED
    BY <2>1, <2>4, <2>5, PushedWrong DEF ReadInv
<1>6. CASE ~InRun(lag)
  BY <1>2, <1>4, <1>6 DEF TailBit
<1> QED
  BY <1>5, <1>6

\* Past the frame at most one bit more is pushed.
LEMMA TailPast ==
  ASSUME WireInv, ReadInv, TailBit, stage = "tail", good, Past
  PROVE  /\ good' /\ ~odd'
         /\ (stage' = "tail" /\ Past') \/ (stage' = "done" /\ bits' \in {FrameBits, FrameBits + 1}')
<1>1. /\ UNCHANGED wireVars /\ odd' = odd /\ header' = header /\ run' = run /\ header \in Headers
  BY DEF TailBit, wireVars, WireInv
<1>2. at = Last /\ ~odd /\ pending = NoBit
  BY DEF Past
<1>3. ahead = <<>> /\ run \in 0 .. 9 /\ \A p \in Int : InRun(p) <=> p <= run
  BY <1>2, AtLast
<1>4. /\ at \in Nat /\ bits \in Nat /\ Preamble \in Nat /\ FrameBits \in Nat
      /\ Last = Preamble + FrameBits /\ Last' = Last /\ FrameBits' = FrameBits
  BY <1>1, FrameBitsAre, FrameBitsStay DEF ReadInv, ReadTypes, WireInv
<1>5. CASE InRun(lag)
  <2>1. bits = FrameBits /\ lag \in {5, 6}
    <3>1. ~(11 <= run) /\ ~(12 <= run)
      BY <1>3
    <3>2. lag \notin {11, 12}
      BY <1>3, <1>5, <3>1
    <3> QED
      BY <3>2 DEF Past
  <2>2. Push /\ pending' = NoBit
    BY <1>5 DEF TailBit
  <2>3. ~Complete /\ bits' = bits + 1
    BY <1>1, <1>4, <2>1, <2>2, CapKept DEF ReadInv, ReadTypes
  <2>4. good'
    <3>1. bits + Preamble + 1 # at
      BY <1>2, <1>4, <2>1
    <3> QED
      BY <2>2, <3>1, PushedRight DEF ReadInv
  <2>5. stage' = "tail" /\ lag' = (IF InRun(lag + 8) THEN FindEdge(lag + 6) ELSE lag + 6) /\ at' = at
    BY <1>3, <1>5, <2>3 DEF TailBit, MoveTo
  <2>6. lag + 6 \in {5, 6, 11, 12}
    BY <2>1
  <2>7. FindEdge(lag + 6) = lag + 6
    BY <1>3, <2>6, NoEdge DEF WireInv
  <2>8. lag' \in {11, 12}
    BY <2>1, <2>5, <2>7
  <2>9. bits' = FrameBits' + 1
    BY <1>4, <2>1, <2>3
  <2>10. Past'
    BY <1>1, <1>2, <1>4, <2>2, <2>5, <2>8, <2>9 DEF Past, NoBit
  <2> QED
    BY <1>1, <1>2, <2>4, <2>5, <2>10
<1>6. CASE ~InRun(lag)
  <2>1. stage' = "done" /\ bits' = bits /\ good' = good
    BY <1>6 DEF TailBit
  <2>2. bits \in {FrameBits, FrameBits + 1}
    BY DEF Past
  <2> QED
    BY <1>1, <1>2, <1>4, <2>1, <2>2
<1> QED
  BY <1>5, <1>6

LEMMA TailBitRead ==
  ASSUME EdgeInv, ReadInv, TailBit
  PROVE  ReadInv'
<1>1. /\ WireInv /\ stage = "tail" /\ UNCHANGED wireVars
      /\ odd' = odd /\ header' = header /\ stage' \in {"tail", "done"} /\ header \in Headers
  BY DEF EdgeInv, TailBit, wireVars, WireInv
<1>2. TrailKnown' /\ peeked'
  <2>1. CASE InRun(lag) /\ ~Complete
    <3>1. MoveTo(IF InRun(lag + 8) THEN FindEdge(lag + 6) ELSE lag + 6)
      BY <2>1 DEF TailBit
    <3> QED
      BY <1>1, <3>1, WentOn DEF ReadInv
  <2>2. CASE ~(InRun(lag) /\ ~Complete)
    <3>1. UNCHANGED <<cur, ahead, at, grid, peeked>>
      BY <2>2 DEF TailBit
    <3> QED
      BY <1>1, <3>1, StayedOn DEF ReadInv
  <2> QED
    BY <2>1, <2>2
<1>3. /\ bits' \in Nat /\ cap' \in {Bytes, MaxBytes}' /\ good' \in BOOLEAN /\ odd' \in BOOLEAN
      /\ good' => good
  <2>1. CASE InRun(lag)
    <3>1. Push
      BY <2>1 DEF TailBit
    <3> QED
      BY <1>1, <3>1, BadStays DEF ReadInv
  <2>2. CASE ~InRun(lag)
    <3>1. bits' = bits /\ cap' = cap /\ good' = good /\ Bytes' = Bytes
      BY <1>1, <2>2, FrameBitsStay DEF TailBit
    <3> QED
      BY <1>1, <3>1 DEF ReadInv, ReadTypes
  <2> QED
    BY <2>1, <2>2
<1>4. SUFFICES /\ ~good' => odd
               /\ good' => \/ stage' = "tail" /\ (InStep \/ OnStart \/ BesideLast \/ Past)'
                           \/ stage' = "done" /\ AllRead'
  BY <1>1, <1>2, <1>3 DEF ReadInv, ReadTypes, Unread, Read, AllRead
<1>5. CASE ~good
  BY <1>3, <1>5 DEF ReadInv, ReadTypes
<1>6. CASE good
  <2>1. InStep \/ OnStart \/ BesideLast \/ Past
    BY <1>1, <1>6 DEF ReadInv, Read
  <2>2. CASE OnStart
    <3>1. InRun(lag)
      <4>1. lag = -2
        BY <2>2 DEF OnStart
      <4>2. run # Open => run \in 0 .. 9
        BY <1>1 DEF WireInv
      <4>3. Middle(Len(ahead)) \in Nat
        <5>1. Len(ahead) = 0 \/ Len(ahead) = 1 \/ Len(ahead) = 2 \/ Len(ahead) = 3
          BY <1>1, LengthKnown DEF WireInv
        <5>2. Len(ahead) = 0 => Middle(Len(ahead)) \in Nat
          BY MiddleIs
        <5>3. Len(ahead) = 1 => Middle(Len(ahead)) \in Nat
          BY <1>1, MiddleOrder DEF WireInv
        <5>4. Len(ahead) = 2 => Middle(Len(ahead)) \in Nat
          BY <1>1, MiddleOrder DEF WireInv
        <5>5. Len(ahead) = 3 => Middle(Len(ahead)) \in Nat
          BY <1>1, MiddleOrder DEF WireInv
        <5> QED
          BY <5>1, <5>2, <5>3, <5>4, <5>5
      <4> QED
        BY <4>1, <4>2, <4>3 DEF InRun
    <3>2. Push
      BY <3>1 DEF TailBit
    <3>3. ~good'
      BY <1>1, <2>2, <3>2, StartIsWrong DEF ReadInv
    <3> QED
      BY <2>2, <3>3 DEF OnStart
  <2>3. CASE InStep /\ at < Last
    BY <1>1, <1>6, <2>3, TailInStep
  <2>4. CASE InStep /\ ~(at < Last)
    <3>1. at = Last
      <4>1. at \in Nat /\ Len(ahead) \in Nat /\ Last \in Nat /\ at + Len(ahead) <= Last
        BY <1>1, LastBeyond DEF WireInv, WireKnown
      <4> QED
        BY <2>4, <4>1
    <3>2. /\ good' /\ ~odd'
          /\ (stage' = "tail" /\ Past') \/ (stage' = "done" /\ bits' = FrameBits')
      BY <1>1, <1>6, <2>4, <3>1, TailLast
    <3> QED
      BY <3>2 DEF AllRead
  <2>5. CASE BesideLast /\ ~odd
    <3>1. /\ good' /\ ~odd'
          /\ (stage' = "tail" /\ Past') \/ (stage' = "done" /\ bits' = FrameBits')
      BY <1>1, <1>6, <2>5, TailLast DEF BesideLast
    <3> QED
      BY <3>1 DEF AllRead
  <2>6. CASE BesideLast /\ odd
    <3>1. ~good' \/ (stage' = "done" /\ bits' + 1 = FrameBits')
      BY <1>1, <1>6, <2>6, TailMissed
    <3> QED
      BY <1>1, <2>6, <3>1 DEF AllRead
  <2>7. CASE Past
    <3>1. /\ good' /\ ~odd'
          /\ (stage' = "tail" /\ Past') \/ (stage' = "done" /\ bits' \in {FrameBits, FrameBits + 1}')
      BY <1>1, <1>6, <2>7, TailPast
    <3> QED
      BY <3>1 DEF AllRead
  <2> QED
    BY <2>1, <2>2, <2>3, <2>4, <2>5, <2>6, <2>7
<1> QED
  BY <1>5, <1>6

LEMMA ReadKept == EdgeInv /\ ReadInv /\ [EdgeNext]_edgeVars => ReadInv'
<1>1. SUFFICES ASSUME EdgeInv, ReadInv, [EdgeNext]_edgeVars
               PROVE  ReadInv'
  OBVIOUS
<1> QED
  BY <1>1, ArriveRead, FindSfdRead, AnchorRead, FastRead, EndFastRead, TailBitRead, IdleRead DEF EdgeNext

LEMMA ReadIsRight == EdgeInv /\ ReadInv => FrameSurvives
<1>1. SUFFICES ASSUME EdgeInv, ReadInv, stage = "done"
               PROVE  FcsOk <=> ~odd
  BY DEF FrameSurvives, ReadInv
<1>2. header \in Headers /\ bits \in Nat
  BY <1>1 DEF EdgeInv, WireInv, ReadInv, ReadTypes
<1>3. /\ bits + 1 = FrameBits => FrameLen # Bytes
      /\ bits \in {FrameBits, FrameBits + 1} => FrameLen = Bytes
  BY <1>2, BytesRead
<1>4. CASE good
  BY <1>1, <1>3, <1>4 DEF ReadInv, AllRead, FcsOk
<1>5. CASE ~good
  BY <1>1, <1>5 DEF ReadInv, ReadTypes, FcsOk
<1> QED
  BY <1>4, <1>5

--------------------------------------------------------------------------------
(***************************************************************************)
(* The carrier-detect program.  Once the wire is active an edge comes      *)
(* every MaxRun samples.  A count that starts during activity sees the     *)
(* next edge in time; one that was already under way may run out once, and *)
(* then the program is a lap and a run away from the flag.  NoticedInv     *)
(* says for each instruction how long the wire can have been active.       *)
(***************************************************************************)
Tracking == {"track_low", "track_high"}
Counting == {"low_cont", "high_cont"}
Labels   == Tracking \cup Counting \cup {"restart", "branch", "edge", "to_edge", "to_idle", "idle", "back"}

HalfOf(n) == n \div 2

\* The level is the one the program is counting.
Follows == level = IF pc \in {"track_high", "high_cont"} THEN 1 ELSE 0

\* The program sees the next edge before its counter runs out.
Enough ==
  /\ pc \in Tracking /\ Follows => 2 * x >= edgeIn
  /\ pc \in Counting => IF Follows THEN 2 * x >= edgeIn + 1 ELSE x >= 1

\* Carrier is present, or will be in n ticks, before the wire has been active for too long.
Within(n) == flag \/ active + n <= Latency + 1

\* The last tick at which a wire that became active unseen may still find the counter at zero.
CountedOut == 2 * MaxRun - 2 * HalfOf(MaxRun) + 1

SenseTypes ==
  /\ level \in {0, 1} /\ edgeIn \in 0 .. MaxRun /\ active \in 0 .. Latency + 1
  /\ pc \in Labels /\ x \in 0 .. GUARD /\ flag \in BOOLEAN
  /\ active = 0 <=> edgeIn = Quiet
  /\ edgeIn = Quiet => level = 0
  /\ pc = "branch" => x = GUARD
  /\ pc \in Counting /\ ~Follows => edgeIn # 1

NoticedInv ==
  active > 0 =>
    /\ pc = "to_idle" => active <= CountedOut
    /\ pc = "idle" => active <= CountedOut + 1
    /\ pc = "back" => flag \/ active <= CountedOut + 2
    /\ pc = "restart" => flag \/ active <= CountedOut + 3
    /\ pc = "branch" => Within(2 * HalfOf(edgeIn) + 4)
    /\ pc \in Tracking /\ ~Enough => active + 2 * x <= CountedOut - 2
    /\ pc \in Counting /\ ~Enough => active + 2 * x <= CountedOut - 1
    /\ pc \in Tracking /\ Follows /\ Enough => Within(2 * HalfOf(edgeIn + 1) + 3)
    /\ pc \in Counting /\ Follows /\ Enough => Within(2 * HalfOf(edgeIn) + 4)
    /\ pc \in Tracking /\ ~Follows => Within(3)
    /\ pc \in Counting /\ ~Follows /\ Enough => Within(4)
    /\ pc = "to_edge" => Within(2)
    /\ pc = "edge" => Within(1)

Noticed == ~flag => ~(active > Latency)

CoreInv ==
  /\ job \in Kinds \cup {"none"} /\ step \in {"none", "wait", "backoff", "go"}
  /\ attempts \in Nat /\ spins \in Nat /\ busy \in BOOLEAN
  /\ step = "wait" => attempts < MaxAttempts /\ spins < SpinLimit
  /\ step = "backoff" => job = "raw" /\ attempts < MaxAttempts
  /\ step = "go" =>
       \/ ~busy
       \/ job = "raw" /\ attempts = MaxAttempts
       \/ job # "raw" /\ spins = SpinLimit

SenseInv == SenseTypes /\ NoticedInv /\ CoreInv

LEMMA HalfIs ==
  ASSUME NEW n \in Nat
  PROVE  HalfOf(n) \in Nat /\ 2 * HalfOf(n) <= n /\ n <= 2 * HalfOf(n) + 1
BY DEF HalfOf

LEMMA SenseConstants ==
  /\ GUARD \in Nat /\ MaxRun \in Nat /\ Latency \in Nat /\ SpinLimit \in Nat /\ MaxAttempts \in Nat
  /\ SpinLimit > 0 /\ MaxAttempts > 0
  /\ 2 <= MaxRun /\ MaxRun <= GUARD /\ Latency >= 2 * MaxRun + 8
  /\ HalfOf(MaxRun) \in Nat /\ 2 * HalfOf(MaxRun) <= MaxRun /\ MaxRun <= 2 * HalfOf(MaxRun) + 1
<1>1. /\ GUARD \in Nat /\ MaxRun \in Nat /\ Latency \in Nat /\ SpinLimit \in Nat /\ MaxAttempts \in Nat
      /\ SpinLimit > 0 /\ MaxAttempts > 0
      /\ 2 <= MaxRun /\ MaxRun <= GUARD /\ Latency >= 2 * MaxRun + 8
  BY CarrierSenseAssumption
<1> QED
  BY <1>1, HalfIs

LEMMA UpTo ==
  ASSUME NEW n \in Nat, NEW i \in 0 .. n
  PROVE  i \in Nat /\ i + 1 \in Nat /\ i <= n
OBVIOUS

\* What a tick does to RO.
LEMMA WireMoves ==
  ASSUME SenseTypes, Wire
  PROVE  /\ level' \in {0, 1} /\ edgeIn' \in 0 .. MaxRun /\ active' \in 0 .. Latency + 1
         /\ active' = 0 <=> edgeIn' = 0
         /\ edgeIn' = 0 => level' = 0
         /\ active' > 0 =>
              \/ active = 0 /\ active' = 1 /\ level = 0 /\ level' = 1 /\ edgeIn' \in 2 .. MaxRun
              \/ active > 0 /\ active' = Age /\ edgeIn > 1 /\ edgeIn' = edgeIn - 1 /\ level' = level
              \/ active > 0 /\ active' = Age /\ edgeIn = 1 /\ edgeIn' \in 2 .. MaxRun /\ level' = 1 - level
<1>1. /\ level \in {0, 1} /\ edgeIn \in 0 .. MaxRun /\ active \in 0 .. Latency + 1
      /\ active = 0 <=> edgeIn = 0
      /\ edgeIn = 0 => level = 0
  BY DEF SenseTypes, Quiet
<1>2. Age \in 1 .. Latency + 1
  BY <1>1, SenseConstants DEF Age
<1>3. CASE edgeIn = Quiet /\ UNCHANGED roVars
  BY <1>1, <1>3 DEF Quiet, roVars
<1>4. CASE edgeIn = Quiet /\ level' = 1 /\ edgeIn' \in 2 .. MaxRun /\ active' = 1
  BY <1>1, <1>4, SenseConstants DEF Quiet
<1>5. CASE edgeIn > 1 /\ edgeIn' = edgeIn - 1 /\ active' = Age /\ UNCHANGED level
  BY <1>1, <1>2, <1>5, SenseConstants
<1>6. CASE edgeIn = 1 /\ level' = 1 - level /\ edgeIn' \in 2 .. MaxRun /\ active' = Age
  BY <1>1, <1>2, <1>6, SenseConstants
<1>7. CASE edgeIn = 1 /\ level = 1 /\ level' = 0 /\ edgeIn' = Quiet /\ active' = 0
  BY <1>1, <1>7, SenseConstants DEF Quiet
<1> QED
  BY <1>3, <1>4, <1>5, <1>6, <1>7 DEF Wire

\* What an instruction does to the types.
LEMMA InstructionTypes ==
  ASSUME SenseTypes, Wire, Instruction
  PROVE  SenseTypes'
<1>1. /\ level' \in {0, 1} /\ edgeIn' \in 0 .. MaxRun /\ active' \in 0 .. Latency + 1
      /\ active' = 0 <=> edgeIn' = 0
      /\ edgeIn' = 0 => level' = 0
      /\ active' > 0 =>
           \/ active = 0 /\ active' = 1 /\ level = 0 /\ level' = 1 /\ edgeIn' \in 2 .. MaxRun
           \/ active > 0 /\ active' = Age /\ edgeIn > 1 /\ edgeIn' = edgeIn - 1 /\ level' = level
           \/ active > 0 /\ active' = Age /\ edgeIn = 1 /\ edgeIn' \in 2 .. MaxRun /\ level' = 1 - level
  BY WireMoves
<1>2. /\ level \in {0, 1} /\ edgeIn \in 0 .. MaxRun /\ x \in 0 .. GUARD /\ flag \in BOOLEAN
      /\ pc \in Labels
  BY DEF SenseTypes
<1>3. x' \in 0 .. GUARD /\ flag' \in BOOLEAN /\ pc' \in Labels
  <2>1. x' = x \/ x' = GUARD \/ (x # 0 /\ x' = x - 1)
    BY DEF Instruction, Goto, CountDown
  <2>2. x' \in 0 .. GUARD
    BY <1>2, <2>1, SenseConstants
  <2>3. flag' \in BOOLEAN
    BY <1>2 DEF Instruction, Goto, CountDown
  <2>4. pc' \in Labels
    BY <1>2 DEF Instruction, Goto, CountDown, Labels, Tracking, Counting
  <2> QED
    BY <2>2, <2>3, <2>4
<1>4. pc' = "branch" => x' = GUARD
  BY <1>2 DEF Instruction, Goto, CountDown
<1>5. pc' \in Counting => level = IF pc' = "high_cont" THEN 1 ELSE 0
  BY <1>2 DEF Instruction, Goto, CountDown, Counting
<1>6. ASSUME pc' \in Counting, ~Follows', edgeIn' = 1
      PROVE  FALSE
  <2>1. pc' \in {"low_cont", "high_cont"} /\ level' # level
    BY <1>5, <1>6 DEF Counting, Follows
  <2>2. active' > 0
    BY <1>1, <1>6, SenseConstants
  <2> QED
    BY <1>1, <1>6, <2>1, <2>2
<1> QED
  BY <1>1, <1>3, <1>4, <1>6 DEF SenseTypes, Quiet

\* A tick keeps every bound: one instruction nearer to the edge, or to the end of the count.
LEMMA TickNoticed ==
  ASSUME SenseTypes, NoticedInv, Wire, Instruction
  PROVE  NoticedInv'
<1> SUFFICES ASSUME active' > 0
             PROVE  NoticedInv'
  BY DEF NoticedInv
<1> USE SenseConstants
<1>1. /\ level' \in {0, 1} /\ edgeIn' \in 0 .. MaxRun /\ active' \in 0 .. Latency + 1
      /\ \/ active = 0 /\ active' = 1 /\ level = 0 /\ level' = 1 /\ edgeIn' \in 2 .. MaxRun
         \/ active > 0 /\ active' = Age /\ edgeIn > 1 /\ edgeIn' = edgeIn - 1 /\ level' = level
         \/ active > 0 /\ active' = Age /\ edgeIn = 1 /\ edgeIn' \in 2 .. MaxRun /\ level' = 1 - level
  BY WireMoves
<1>2. /\ level \in {0, 1} /\ edgeIn \in 0 .. MaxRun /\ active \in 0 .. Latency + 1
      /\ x \in 0 .. GUARD /\ flag \in BOOLEAN /\ pc \in Labels
      /\ active = 0 <=> edgeIn = 0
      /\ pc = "branch" => x = GUARD
      /\ pc \in Counting /\ ~Follows => edgeIn # 1
  BY DEF SenseTypes, Quiet
<1>3. /\ HalfOf(edgeIn) \in Nat /\ 2 * HalfOf(edgeIn) <= edgeIn /\ edgeIn <= 2 * HalfOf(edgeIn) + 1
      /\ HalfOf(edgeIn + 1) \in Nat /\ 2 * HalfOf(edgeIn + 1) <= edgeIn + 1 /\ edgeIn <= 2 * HalfOf(edgeIn + 1)
  <2>1. edgeIn \in Nat /\ edgeIn + 1 \in Nat
    BY <1>2
  <2>2. edgeIn + 1 <= 2 * HalfOf(edgeIn + 1) + 1 /\ HalfOf(edgeIn + 1) \in Nat
    BY <2>1, HalfIs
  <2>3. edgeIn <= 2 * HalfOf(edgeIn + 1)
    BY <2>1, <2>2
  <2> QED
    BY <2>1, <2>3, HalfIs
<1>4. /\ HalfOf(edgeIn') \in Nat /\ 2 * HalfOf(edgeIn') <= edgeIn' /\ edgeIn' <= 2 * HalfOf(edgeIn') + 1
      /\ HalfOf(edgeIn' + 1) \in Nat /\ 2 * HalfOf(edgeIn' + 1) <= edgeIn' + 1 /\ edgeIn' <= 2 * HalfOf(edgeIn' + 1)
  <2>0. edgeIn' \in 0 .. MaxRun
    BY <1>1, Zenon
  <2>1. edgeIn' \in Nat /\ edgeIn' + 1 \in Nat
    BY <2>0, UpTo
  <2>2. edgeIn' + 1 <= 2 * HalfOf(edgeIn' + 1) + 1 /\ HalfOf(edgeIn' + 1) \in Nat
    BY <2>1, HalfIs
  <2>3. edgeIn' <= 2 * HalfOf(edgeIn' + 1)
    BY <2>1, <2>2
  <2> QED
    BY <2>1, <2>3, HalfIs
<1> DEFINE Wakes == active = 0 /\ active' = 1 /\ level = 0 /\ level' = 1 /\ edgeIn' \in 2 .. MaxRun
           Stays == active > 0 /\ active' = Age /\ edgeIn > 1 /\ edgeIn' = edgeIn - 1 /\ level' = level
           Flips == /\ active > 0 /\ active' = Age /\ edgeIn = 1 /\ edgeIn' \in 2 .. MaxRun
                    /\ level' = 1 - level
<1>w. Wakes \/ Stays \/ Flips
  BY <1>1
<1>5. active' = 1 \/ (active <= Latency /\ active' = active + 1) \/ (active > Latency /\ active' = active)
  BY <1>1, <1>2 DEF Age
<1>6. CountedOut = 2 * MaxRun - 2 * HalfOf(MaxRun) + 1 /\ CountedOut >= MaxRun
  BY DEF CountedOut
<1> HIDE DEF CountedOut
<1>7. CASE pc = "restart"
  <2>1. pc' = "branch" /\ flag' = flag
    BY <1>7 DEF Instruction, Goto, CountDown
  <2>2. active > 0 => flag \/ active <= CountedOut + 3
    BY <1>7 DEF NoticedInv
  <2>3. flag' \/ active' + (2 * HalfOf(edgeIn') + 4) <= Latency + 1
    BY <1>1, <1>2, <1>4, <1>5, <1>6, <2>1, <2>2
  <2> QED
    BY <2>1, <2>3 DEF NoticedInv, Within, Tracking, Counting
<1>8. CASE pc = "branch"
  <2>1. pc' = (IF level = 1 THEN "track_high" ELSE "track_low") /\ x' = GUARD /\ flag' = flag
    BY <1>2, <1>8 DEF Instruction, Goto, CountDown
  <2>2. active > 0 => flag \/ active + (2 * HalfOf(edgeIn) + 4) <= Latency + 1
    BY <1>8 DEF NoticedInv, Within
  <2>3. 2 * x' >= edgeIn'
    BY <1>1, <2>1
  <2>4. Enough'
    BY <2>1, <2>3 DEF Enough, Counting
  <2>5. CASE level' = level
    <3>1. flag' \/ active' + (2 * HalfOf(edgeIn' + 1) + 3) <= Latency + 1
      BY <1>1, <1>2, <1>3, <1>4, <1>5, <1>6, <2>1, <2>2, <2>5
    <3>2. Follows'
      BY <1>2, <2>1, <2>5 DEF Follows
    <3> QED
      BY <2>1, <2>4, <3>1, <3>2 DEF NoticedInv, Within, Tracking, Counting
  <2>6. CASE level' # level
    <3>1. flag' \/ active' + 3 <= Latency + 1
      <4>1. CASE Wakes
        BY <1>6, <4>1
      <4>2. CASE Stays
        BY <2>6, <4>2
      <4>3. CASE Flips
        BY <1>2, <1>3, <1>5, <2>1, <2>2, <4>3
      <4> QED
        BY <1>w, <4>1, <4>2, <4>3
    <3>2. ~Follows'
      BY <1>1, <1>2, <2>1, <2>6 DEF Follows
    <3> QED
      BY <2>1, <2>4, <3>1, <3>2 DEF NoticedInv, Within, Tracking, Counting
  <2> QED
    BY <2>5, <2>6
<1>9. CASE pc \in Tracking /\ ~Follows
  <2>1. pc' = (IF pc = "track_high" THEN "to_edge" ELSE "edge") /\ flag' = flag
    BY <1>2, <1>9 DEF Instruction, Goto, CountDown, Tracking, Follows
  <2>2. active > 0 => flag \/ active + 3 <= Latency + 1
    BY <1>9 DEF NoticedInv, Within
  <2>3. flag' \/ active' + 2 <= Latency + 1
    BY <1>2, <1>5, <2>1, <2>2
  <2>4. flag' \/ active' + 1 <= Latency + 1
    BY <1>2, <1>5, <2>1, <2>2
  <2> QED
    BY <2>1, <2>3, <2>4 DEF NoticedInv, Within, Tracking, Counting
<1>10. CASE pc \in Tracking /\ Follows
  <2>1. pc' = (IF pc = "track_high" THEN "high_cont" ELSE "low_cont") /\ flag' = flag /\ x' = x
    BY <1>2, <1>10 DEF Instruction, Goto, CountDown, Tracking, Follows
  <2>2. Follows' <=> level' = level
    BY <1>1, <1>2, <1>10, <2>1 DEF Follows, Tracking
  <2>3. /\ active > 0 /\ 2 * x < edgeIn => active + 2 * x <= CountedOut - 2
        /\ active > 0 /\ 2 * x >= edgeIn => flag \/ active + (2 * HalfOf(edgeIn + 1) + 3) <= Latency + 1
    BY <1>2, <1>10 DEF NoticedInv, Within, Enough, Tracking, Counting
  <2>4. Enough' <=> IF level' = level THEN 2 * x >= edgeIn' + 1 ELSE x >= 1
    BY <2>1, <2>2 DEF Enough, Tracking, Counting
  <2>5. ~Enough' => active' + 2 * x <= CountedOut - 1
    <3> SUFFICES ASSUME ~Enough'
                 PROVE  active' + 2 * x <= CountedOut - 1
      OBVIOUS
    <3>1. CASE Wakes
      BY <1>1, <1>2, <1>6, <2>3, <2>4, <3>1
    <3>2. CASE Stays
      BY <1>1, <1>2, <1>3, <1>4, <1>5, <1>6, <2>3, <2>4, <3>2
    <3>3. CASE Flips
      <4>1. level' # level /\ edgeIn = 1
        BY <1>2, <3>3
      <4>2. x = 0
        BY <1>2, <2>4, <4>1
      <4>3. active <= CountedOut - 2
        BY <1>2, <1>6, <2>3, <3>3, <4>1, <4>2
      <4> QED
        BY <1>2, <1>5, <1>6, <4>2, <4>3
    <3> QED
      BY <1>w, <3>1, <3>2, <3>3
  <2>6. Enough' /\ level' = level => flag \/ active' + (2 * HalfOf(edgeIn') + 4) <= Latency + 1
    BY <1>1, <1>2, <1>3, <1>4, <1>5, <1>6, <2>3, <2>4
  <2>7. Enough' /\ level' # level => flag \/ active' + 4 <= Latency + 1
    <3> SUFFICES ASSUME Enough', level' # level
                 PROVE  flag \/ active' + 4 <= Latency + 1
      OBVIOUS
    <3>1. CASE Wakes
      BY <1>1, <1>2, <1>6, <2>3, <2>4, <3>1
    <3>2. CASE Stays
      BY <1>1, <1>2, <1>3, <1>4, <1>5, <1>6, <2>3, <2>4, <3>2
    <3>3. CASE Flips
      BY <1>1, <1>2, <1>3, <1>4, <1>5, <1>6, <2>3, <2>4, <3>3
    <3> QED
      BY <1>w, <3>1, <3>2, <3>3
  <2> QED
    BY <2>1, <2>2, <2>5, <2>6, <2>7 DEF NoticedInv, Within, Tracking, Counting
<1>11. CASE pc \in Counting /\ x = 0
  <2>1. pc' = "to_idle"
    BY <1>11 DEF Instruction, Goto, CountDown, Counting
  <2>2. active > 0 => active <= CountedOut - 1
    <3>1. ~Enough
      BY <1>2, <1>11 DEF Enough, Counting
    <3> QED
      BY <1>2, <1>11, <3>1 DEF NoticedInv
  <2>3. active' <= CountedOut
    BY <1>1, <1>2, <1>5, <1>6, <2>2
  <2> QED
    BY <2>1, <2>3 DEF NoticedInv, Tracking, Counting
<1>12. CASE pc \in Counting /\ x # 0
  <2>1. pc' = (IF pc = "high_cont" THEN "track_high" ELSE "track_low") /\ flag' = flag /\ x' = x - 1
    BY <1>2, <1>12 DEF Instruction, Goto, CountDown, Counting
  <2>2. Follows' <=> (level' = level <=> Follows)
    BY <1>1, <1>2, <1>12, <2>1 DEF Follows, Counting
  <2>3. /\ active > 0 /\ Follows /\ 2 * x < edgeIn + 1 => active + 2 * x <= CountedOut - 1
        /\ active > 0 /\ Follows /\ 2 * x >= edgeIn + 1 =>
             flag \/ active + (2 * HalfOf(edgeIn) + 4) <= Latency + 1
        /\ active > 0 /\ ~Follows => flag \/ active + 4 <= Latency + 1
    BY <1>2, <1>12 DEF NoticedInv, Within, Enough, Tracking, Counting
  <2>4. Enough' <=> (Follows' => 2 * (x - 1) >= edgeIn')
    BY <2>1 DEF Enough, Tracking, Counting
  <2>5. ~Follows => edgeIn # 1
    BY <1>2, <1>12
  <2>6. CASE ~Follows'
    <3>1. flag \/ active' + 3 <= Latency + 1
      <4>1. CASE Wakes
        BY <1>6, <4>1
      <4>2. CASE Stays
        BY <1>2, <1>3, <1>5, <2>2, <2>3, <2>6, <4>2
      <4>3. CASE Flips
        <5>1. Follows
          BY <2>5, <4>3
        <5> QED
          BY <1>2, <1>3, <1>5, <1>12, <2>3, <4>3, <5>1
      <4> QED
        BY <1>w, <4>1, <4>2, <4>3
    <3> QED
      BY <2>1, <2>4, <2>6, <3>1 DEF NoticedInv, Within, Tracking, Counting
  <2>7. CASE Follows' /\ 2 * (x - 1) >= edgeIn'
    <3>1. flag \/ active' + (2 * HalfOf(edgeIn' + 1) + 3) <= Latency + 1
      BY <1>1, <1>2, <1>3, <1>4, <1>5, <1>6, <2>2, <2>3, <2>5, <2>7
    <3> QED
      BY <2>1, <2>4, <2>7, <3>1 DEF NoticedInv, Within, Tracking, Counting
  <2>8. CASE Follows' /\ 2 * (x - 1) < edgeIn'
    <3>1. active' + 2 * (x - 1) <= CountedOut - 2
      BY <1>1, <1>2, <1>5, <1>6, <1>12, <2>2, <2>3, <2>5, <2>8
    <3>2. ~Enough'
      BY <1>1, <1>2, <2>4, <2>8
    <3> QED
      BY <2>1, <2>8, <3>1, <3>2 DEF NoticedInv, Within, Tracking, Counting
  <2> QED
    BY <1>1, <1>2, <2>6, <2>7, <2>8
<1>13. CASE pc = "to_edge"
  <2>1. pc' = "edge" /\ flag' = flag
    BY <1>13 DEF Instruction, Goto, CountDown
  <2>2. active > 0 => flag \/ active + 2 <= Latency + 1
    BY <1>13 DEF NoticedInv, Within
  <2>3. flag' \/ active' + 1 <= Latency + 1
    BY <1>2, <1>5, <2>1, <2>2
  <2> QED
    BY <2>1, <2>3 DEF NoticedInv, Within, Tracking, Counting
<1>14. CASE pc = "edge"
  <2>1. pc' = "back" /\ flag'
    BY <1>14 DEF Instruction, Goto, CountDown
  <2> QED
    BY <2>1 DEF NoticedInv, Tracking, Counting
<1>15. CASE pc = "to_idle"
  <2>1. pc' = "idle"
    BY <1>15 DEF Instruction, Goto, CountDown
  <2>2. active > 0 => active <= CountedOut
    BY <1>15 DEF NoticedInv
  <2>3. active' <= CountedOut + 1
    BY <1>1, <1>2, <1>5, <1>6, <2>2
  <2> QED
    BY <2>1, <2>3 DEF NoticedInv, Tracking, Counting
<1>16. CASE pc = "idle"
  <2>1. pc' = "back"
    BY <1>16 DEF Instruction, Goto, CountDown
  <2>2. active > 0 => active <= CountedOut + 1
    BY <1>16 DEF NoticedInv
  <2>3. active' <= CountedOut + 2
    BY <1>1, <1>2, <1>5, <1>6, <2>2
  <2> QED
    BY <2>1, <2>3 DEF NoticedInv, Tracking, Counting
<1>17. CASE pc = "back"
  <2>1. pc' = "restart" /\ flag' = flag
    BY <1>17 DEF Instruction, Goto, CountDown
  <2>2. active > 0 => flag \/ active <= CountedOut + 2
    BY <1>17 DEF NoticedInv
  <2>3. flag' \/ active' <= CountedOut + 3
    BY <1>1, <1>2, <1>5, <1>6, <2>1, <2>2
  <2> QED
    BY <2>1, <2>3 DEF NoticedInv, Tracking, Counting
<1> QED
  BY <1>2, <1>7, <1>8, <1>9, <1>10, <1>11, <1>12, <1>13, <1>14, <1>15, <1>16, <1>17 DEF Labels


LEMMA Unnoticed ==
  ASSUME SenseTypes, NoticedInv
  PROVE  Noticed
<1> SUFFICES ASSUME ~flag
             PROVE  active <= Latency
  <2>1. active \in 0 .. Latency + 1 /\ Latency \in Nat
    BY SenseConstants DEF SenseTypes
  <2>2. active <= Latency => ~(active > Latency)
    BY <2>1
  <2> QED
    BY <2>2 DEF Noticed
<1>1. /\ active \in 0 .. Latency + 1 /\ edgeIn \in 0 .. MaxRun /\ x \in 0 .. GUARD /\ pc \in Labels
  BY DEF SenseTypes
<1>2. active \in Nat /\ edgeIn \in Nat /\ edgeIn + 1 \in Nat /\ x \in Nat
  BY <1>1, SenseConstants
<1>3. HalfOf(edgeIn) \in Nat /\ HalfOf(edgeIn + 1) \in Nat
  BY <1>2, HalfIs
<1>4. CountedOut + 3 <= Latency
  BY SenseConstants DEF CountedOut
<1>5. CountedOut \in Int
  BY SenseConstants DEF CountedOut
<1> HIDE DEF CountedOut
<1>6. CASE active = 0
  BY <1>6, SenseConstants
<1>7. CASE active > 0 /\ pc \in Tracking
  <2>1. \/ active + 2 * x <= CountedOut - 2
        \/ active + (2 * HalfOf(edgeIn + 1) + 3) <= Latency + 1
        \/ active + 3 <= Latency + 1
    BY <1>7 DEF NoticedInv, Within
  <2> QED
    BY <1>2, <1>3, <1>4, <1>5, <2>1, SenseConstants
<1>8. CASE active > 0 /\ pc \in Counting
  <2>1. \/ active + 2 * x <= CountedOut - 1
        \/ active + (2 * HalfOf(edgeIn) + 4) <= Latency + 1
        \/ active + 4 <= Latency + 1
    BY <1>8 DEF NoticedInv, Within
  <2> QED
    BY <1>2, <1>3, <1>4, <1>5, <2>1, SenseConstants
<1>9. CASE active > 0 /\ pc \in {"to_idle", "idle", "back", "restart"}
  <2>1. active <= CountedOut \/ active <= CountedOut + 1 \/ active <= CountedOut + 2 \/ active <= CountedOut + 3
    BY <1>9 DEF NoticedInv
  <2> QED
    BY <1>2, <1>4, <1>5, <2>1, SenseConstants
<1>10. CASE active > 0 /\ pc \in {"branch", "to_edge", "edge"}
  <2>1. \/ active + (2 * HalfOf(edgeIn) + 4) <= Latency + 1
        \/ active + 2 <= Latency + 1
        \/ active + 1 <= Latency + 1
    BY <1>10 DEF NoticedInv, Within
  <2> QED
    BY <1>2, <1>3, <2>1, SenseConstants
<1>11. active = 0 \/ active > 0
  BY <1>2
<1> QED
  BY <1>1, <1>6, <1>7, <1>8, <1>9, <1>10, <1>11 DEF Labels

LEMMA SenseStarts == SenseInit => SenseInv
<1> SUFFICES ASSUME SenseInit
             PROVE  SenseInv
  OBVIOUS
<1>1. SenseTypes
  <2>1. /\ level = 0 /\ edgeIn = 0 /\ active = 0 /\ pc = "restart" /\ x = 0 /\ flag = FALSE
    BY DEF SenseInit, Quiet
  <2>2. 0 \in 0 .. MaxRun /\ 0 \in 0 .. Latency + 1 /\ 0 \in 0 .. GUARD
    BY SenseConstants
  <2>3. pc \in Labels /\ pc # "branch" /\ pc \notin Counting
    BY <2>1 DEF Labels, Counting
  <2> QED
    BY <2>1, <2>2, <2>3 DEF SenseTypes, Quiet
<1>2. NoticedInv
  <2>1. ~(active > 0)
    BY DEF SenseInit
  <2> QED
    BY <2>1, Zenon DEF NoticedInv
<1>3. CoreInv
  BY DEF SenseInit, CoreInv
<1> QED
  BY <1>1, <1>2, <1>3 DEF SenseInv

\* A look with the flag clear is at a wire that has not been active for long.
LEMMA LookIs ==
  ASSUME Noticed, Look
  PROVE  busy' \in BOOLEAN /\ (~flag => ~busy')
<1>1. busy' = (active > Latency)
  BY DEF Look
<1>2. busy' \in BOOLEAN
  BY <1>1
<1>3. ~flag => ~busy'
  BY <1>1, Zenon DEF Noticed
<1> QED
  BY <1>2, <1>3

LEMMA WaitStep ==
  ASSUME CoreInv, Noticed, Wait
  PROVE  CoreInv'
<1>1. /\ step = "wait" /\ attempts < MaxAttempts /\ spins < SpinLimit
      /\ attempts' = attempts /\ job' = job /\ job \in Kinds \cup {"none"} /\ attempts \in Nat /\ spins \in Nat
      /\ spins' = IF flag THEN spins + 1 ELSE spins
      /\ step' = IF flag /\ spins' < SpinLimit THEN "wait"
                 ELSE IF job = "raw" THEN "backoff" ELSE "go"
  BY DEF Wait, CoreInv
<1>2. busy' \in BOOLEAN /\ (~flag => ~busy')
  BY LookIs DEF Wait
<1>3. spins' \in Nat /\ spins' <= SpinLimit
  BY <1>1, SenseConstants
<1>4. step' = "wait" => spins' < SpinLimit
  BY <1>1
<1>5. step' = "go" => ~busy' \/ (job # "raw" /\ spins' = SpinLimit)
  <2>1. CASE flag /\ ~(spins' < SpinLimit)
    BY <1>1, <1>3, <2>1, SenseConstants
  <2>2. CASE ~flag
    BY <1>2, <2>2
  <2> QED
    BY <1>1, <2>1, <2>2
<1> QED
  BY <1>1, <1>2, <1>3, <1>4, <1>5 DEF CoreInv

LEMMA AcquireStep ==
  ASSUME CoreInv, Noticed, Acquire
  PROVE  CoreInv'
<1>1. /\ step = "backoff" /\ attempts < MaxAttempts /\ job = "raw"
      /\ job' = job /\ attempts \in Nat /\ spins' = 0
      /\ attempts' = IF flag THEN attempts + 1 ELSE attempts
      /\ step' = IF flag /\ attempts' < MaxAttempts THEN "wait" ELSE "go"
  BY DEF Acquire, CoreInv
<1>2. busy' \in BOOLEAN /\ (~flag => ~busy')
  BY LookIs DEF Acquire
<1>3. attempts' \in Nat /\ attempts' <= MaxAttempts
  BY <1>1, SenseConstants
<1>4. step' = "wait" => attempts' < MaxAttempts /\ spins' < SpinLimit
  BY <1>1, SenseConstants
<1>5. step' = "go" => ~busy' \/ attempts' = MaxAttempts
  <2>1. CASE flag /\ ~(attempts' < MaxAttempts)
    BY <1>3, <2>1, SenseConstants
  <2>2. CASE ~flag
    BY <1>2, <2>2
  <2> QED
    BY <1>1, <2>1, <2>2
<1> QED
  BY <1>1, <1>2, <1>3, <1>4, <1>5 DEF CoreInv, Kinds

LEMMA SenseKept == SenseInv /\ [SenseNext]_senseVars => SenseInv'
<1> SUFFICES ASSUME SenseInv, [SenseNext]_senseVars
             PROVE  SenseInv'
  OBVIOUS
<1>1. SenseTypes /\ NoticedInv /\ CoreInv /\ Noticed
  BY Unnoticed DEF SenseInv
<1>2. CASE Tick
  <2>1. SenseTypes' /\ NoticedInv'
    BY <1>1, <1>2, InstructionTypes, TickNoticed DEF Tick
  <2>2. CoreInv'
    BY <1>1, <1>2 DEF Tick, coreVars, CoreInv
  <2> QED
    BY <2>1, <2>2 DEF SenseInv
<1>3. ASSUME UNCHANGED <<roVars, programVars>>
      PROVE  SenseTypes' /\ NoticedInv'
  <2>1. UNCHANGED <<level, edgeIn, active, pc, x, flag>>
    BY <1>3 DEF roVars, programVars
  <2>2. SenseTypes'
    BY <1>1, <2>1 DEF SenseTypes, Follows
  <2>3. NoticedInv'
    BY <1>1, <2>1 DEF NoticedInv, Enough, Follows, Within
  <2> QED
    BY <2>2, <2>3
<1>4. ASSUME NEW kind \in Kinds, Send(kind)
      PROVE  SenseInv'
  <2>1. CoreInv'
    BY <1>1, <1>4, SenseConstants DEF Send, CoreInv
  <2> QED
    BY <1>3, <1>4, <2>1 DEF Send, SenseInv
<1>5. CASE Wait
  BY <1>1, <1>3, <1>5, WaitStep DEF Wait, SenseInv
<1>6. CASE Acquire
  BY <1>1, <1>3, <1>6, AcquireStep DEF Acquire, SenseInv
<1>7. CASE Transmit
  <2>1. CoreInv'
    BY <1>1, <1>7 DEF Transmit, CoreInv
  <2> QED
    BY <1>3, <1>7, <2>1 DEF Transmit, SenseInv
<1>8. CASE UNCHANGED senseVars
  <2>1. UNCHANGED <<roVars, programVars>> /\ UNCHANGED coreVars
    BY <1>8 DEF senseVars, roVars, programVars, coreVars
  <2>2. CoreInv'
    BY <1>1, <2>1 DEF coreVars, CoreInv
  <2> QED
    BY <1>3, <2>1, <2>2 DEF SenseInv
<1> QED
  BY <1>2, <1>4, <1>5, <1>6, <1>7, <1>8 DEF SenseNext

--------------------------------------------------------------------------------
(***************************************************************************)
(* The transmit FIFO. The stream is what is on the wire and everything     *)
(* that is still to come; only its two ends ever change.                   *)
(***************************************************************************)
Word   == [place : Nat, of : Nat]
Stream == <<line>> \o (fifo \o words)

\* A word that is not the last of its frame has the next one behind it, and that one has no other
\* before it.
Unbroken(s) ==
  \A i \in 1 .. Len(s) - 1 :
    s[i].place < s[i].of \/ s[i + 1].place > 1 => s[i + 1] = [place |-> s[i].place + 1, of |-> s[i].of]

\* The n-th place of the stream has the whole pad before it, g idle words of which, up to and
\* with the first place, may have passed.
PadBefore(s, n, g) ==
  /\ \A i \in 1 .. n - 1 : n - i <= Pad => s[i] = Idle
  /\ g + (n - 2) >= Pad

Spaced(s, g) == \A n \in 2 .. Len(s) : s[n].place = 1 => PadBefore(s, n, g)

\* Whatever comes next finds the last frame complete and padded.
Closed(s, g) == PadBefore(s, Len(s) + 1, g)

FifoInv ==
  /\ line \in Word /\ fifo \in Seq(Word) /\ words \in Seq(Word) /\ gap \in 0 .. Pad
  /\ Unbroken(Stream) /\ Spaced(Stream, gap) /\ Closed(Stream, gap)

LEMMA IdleWord == Idle \in Word /\ Idle.place = 0 /\ Idle.of = 0 /\ Pad \in Nat \ {0}
BY TxFifoAssumption DEF Idle, Word

LEMMA IdlesAre ==
  /\ Idles \in Seq(Word) /\ Len(Idles) = Pad
  /\ \A i \in 1 .. Pad : Idles[i] = Idle
<1>1. Idles \in [1 .. Pad -> Word] /\ Pad \in Nat
  BY IdleWord DEF Idles
<1>2. Idles \in Seq(Word) /\ Len(Idles) = Pad
  BY <1>1
<1> QED
  BY <1>2 DEF Idles

LEMMA FrameIs ==
  ASSUME NEW n \in Nat
  PROVE  /\ Frame(n) \in Seq(Word) /\ Len(Frame(n)) = n
         /\ \A i \in 1 .. n : Frame(n)[i] = [place |-> i, of |-> n]
<1>1. Frame(n) \in [1 .. n -> Word]
  BY DEF Frame, Word
<1>2. Frame(n) \in Seq(Word) /\ Len(Frame(n)) = n
  BY <1>1
<1> QED
  BY <1>2 DEF Frame

\* A frame, or nothing, and the pad behind it.
IsBatch(b, n) ==
  /\ b \in Seq(Word) /\ Len(b) = n + Pad
  /\ \A i \in 1 .. n : b[i] = [place |-> i, of |-> n]
  /\ \A i \in n + 1 .. n + Pad : b[i] = Idle

LEMMA BatchIs ==
  ASSUME NEW n \in Nat
  PROVE  IsBatch(Frame(n) \o Idles, n)
<1>1. /\ Frame(n) \in Seq(Word) /\ Len(Frame(n)) = n /\ Idles \in Seq(Word) /\ Len(Idles) = Pad
      /\ Pad \in Nat
  BY FrameIs, IdlesAre, IdleWord
<1>2. /\ Frame(n) \o Idles \in Seq(Word) /\ Len(Frame(n) \o Idles) = n + Pad
      /\ \A i \in 1 .. n + Pad :
           (Frame(n) \o Idles)[i] = IF i <= n THEN Frame(n)[i] ELSE Idles[i - n]
  <2>1. /\ Frame(n) \o Idles \in Seq(Word)
        /\ Len(Frame(n) \o Idles) = Len(Frame(n)) + Len(Idles)
        /\ \A i \in 1 .. Len(Frame(n)) + Len(Idles) :
             (Frame(n) \o Idles)[i]
               = IF i <= Len(Frame(n)) THEN Frame(n)[i] ELSE Idles[i - Len(Frame(n))]
    BY <1>1, ConcatProperties
  <2> QED
    BY <1>1, <2>1, Zenon
<1>3. \A i \in 1 .. n : (Frame(n) \o Idles)[i] = [place |-> i, of |-> n]
  BY <1>1, <1>2, FrameIs
<1>4. ASSUME NEW i \in n + 1 .. n + Pad
      PROVE  (Frame(n) \o Idles)[i] = Idle
  <2>1. i \in 1 .. n + Pad /\ ~(i <= n) /\ i - n \in 1 .. Pad
    BY <1>1
  <2> QED
    BY <1>2, <2>1, IdlesAre
<1> QED
  BY <1>2, <1>3, <1>4 DEF IsBatch

\* A closed stream may be followed by a frame with its pad, or by a pad alone.
LEMMA BatchFollows ==
  ASSUME NEW s \in Seq(Word), Len(s) >= 1, NEW g \in 0 .. Pad,
         Unbroken(s), Spaced(s, g), Closed(s, g),
         NEW n \in Nat, NEW b, IsBatch(b, n)
  PROVE  Unbroken(s \o b) /\ Spaced(s \o b, g) /\ Closed(s \o b, g)
<1> DEFINE t == s \o b
           m == Len(s)
<1>1. m \in Nat /\ m >= 1 /\ Pad \in Nat /\ Pad >= 1 /\ g \in Nat
  BY IdleWord
<1>2. /\ t \in Seq(Word) /\ Len(t) = m + (n + Pad)
      /\ \A i \in 1 .. m + (n + Pad) : t[i] = IF i <= m THEN s[i] ELSE b[i - m]
  <2>1. b \in Seq(Word) /\ Len(b) = n + Pad
    BY DEF IsBatch
  <2>2. /\ s \o b \in Seq(Word) /\ Len(s \o b) = Len(s) + Len(b)
        /\ \A i \in 1 .. Len(s) + Len(b) :
             (s \o b)[i] = IF i <= Len(s) THEN s[i] ELSE b[i - Len(s)]
    BY <2>1, ConcatProperties
  <2> QED
    BY <2>1, <2>2, Zenon
<1>3. /\ \A i \in 1 .. n : b[i] = [place |-> i, of |-> n]
      /\ \A i \in n + 1 .. n + Pad : b[i] = Idle
  BY DEF IsBatch
<1>4. /\ \A i \in 1 .. m : m + 1 - i <= Pad => s[i] = Idle
      /\ g + (m - 1) >= Pad
  <2>1. (m + 1) - 1 = m /\ (m + 1) - 2 = m - 1
    BY <1>1
  <2> QED
    BY <2>1 DEF Closed, PadBefore
<1>5. \A i \in 1 .. m : t[i] = s[i]
  BY <1>1, <1>2
<1>6. \A i \in m + 1 .. m + n : t[i] = [place |-> i - m, of |-> n]
  <2> TAKE i \in m + 1 .. m + n
  <2>1. i \in 1 .. m + (n + Pad) /\ ~(i <= m) /\ i - m \in 1 .. n
    BY <1>1
  <2> QED
    BY <1>2, <1>3, <2>1
<1>7. \A i \in m + n + 1 .. m + n + Pad : t[i] = Idle
  <2> TAKE i \in m + n + 1 .. m + n + Pad
  <2>1. i \in 1 .. m + (n + Pad) /\ ~(i <= m) /\ i - m \in n + 1 .. n + Pad
    BY <1>1
  <2> QED
    BY <1>2, <1>3, <2>1
<1>8. s[m] = Idle
  BY <1>1, <1>4
<1> HIDE DEF t, m
<1>9. ASSUME NEW i \in 1 .. Len(t) - 1,
             t[i].place < t[i].of \/ t[i + 1].place > 1
      PROVE  t[i + 1] = [place |-> t[i].place + 1, of |-> t[i].of]
  <2>1. i \in 1 .. m + (n + Pad) - 1 /\ i \in Nat
    BY <1>1, <1>2
  <2>2. CASE i < m
    <3>1. i \in 1 .. m /\ i + 1 \in 1 .. m /\ i \in 1 .. m - 1
      BY <1>1, <2>1, <2>2
    <3> QED
      BY <1>5, <1>9, <3>1 DEF Unbroken, m
  <2>3. CASE i = m
    <3>1. t[i] = Idle
      BY <1>1, <1>5, <1>8, <2>3
    <3>2. CASE n = 0
      <4>1. i + 1 \in m + n + 1 .. m + n + Pad
        BY <1>1, <2>3, <3>2
      <4>2. t[i + 1] = Idle
        BY <1>7, <4>1
      <4> QED
        BY <1>9, <3>1, <4>2, IdleWord
    <3>3. CASE n # 0
      <4>1. i + 1 \in m + 1 .. m + n /\ (i + 1) - m = 1
        BY <1>1, <2>3, <3>3
      <4>2. t[i + 1] = [place |-> (i + 1) - m, of |-> n]
        BY <1>6, <4>1
      <4>3. t[i + 1].place = 1
        BY <4>1, <4>2
      <4> QED
        BY <1>9, <3>1, <4>3, IdleWord
    <3> QED
      BY <3>2, <3>3
  <2>4. CASE m < i /\ i < m + n
    <3>1. i \in m + 1 .. m + n /\ i + 1 \in m + 1 .. m + n /\ (i + 1) - m = (i - m) + 1
      BY <1>1, <2>1, <2>4
    <3>2. t[i] = [place |-> i - m, of |-> n] /\ t[i + 1] = [place |-> (i + 1) - m, of |-> n]
      BY <1>6, <3>1
    <3> QED
      BY <3>1, <3>2
  <2>5. CASE m < i /\ i = m + n
    <3>1. i \in m + 1 .. m + n /\ i + 1 \in m + n + 1 .. m + n + Pad /\ i - m = n
      BY <1>1, <2>1, <2>5
    <3>2. t[i] = [place |-> i - m, of |-> n] /\ t[i + 1] = Idle
      BY <1>6, <1>7, <3>1
    <3>3. t[i].place = n /\ t[i].of = n /\ t[i + 1].place = 0
      BY <3>1, <3>2, IdleWord
    <3> QED
      BY <1>9, <3>3
  <2>6. CASE i > m + n
    <3>1. i \in m + n + 1 .. m + n + Pad /\ i + 1 \in m + n + 1 .. m + n + Pad
      BY <1>1, <2>1, <2>6
    <3>2. t[i] = Idle /\ t[i + 1] = Idle
      BY <1>7, <3>1
    <3> QED
      BY <1>9, <3>2, IdleWord
  <2> QED
    BY <1>1, <2>1, <2>2, <2>3, <2>4, <2>5, <2>6
<1>10. ASSUME NEW k \in 2 .. Len(t), t[k].place = 1
       PROVE  PadBefore(t, k, g)
  <2>1. k \in 2 .. m + (n + Pad)
    BY <1>1, <1>2
  <2>2. CASE k <= m
    <3>1. k \in 2 .. m /\ k \in 1 .. m
      BY <1>1, <2>1, <2>2
    <3>2. PadBefore(s, k, g)
      BY <1>5, <1>10, <3>1 DEF Spaced, m
    <3>3. 1 .. k - 1 \subseteq 1 .. m
      BY <1>1, <3>1
    <3> QED
      BY <1>5, <3>2, <3>3 DEF PadBefore
  <2>3. CASE k > m /\ k <= m + n
    <3>1. k \in m + 1 .. m + n
      BY <1>1, <2>1, <2>3
    <3>2. t[k] = [place |-> k - m, of |-> n]
      BY <1>6, <3>1
    <3>7. k - m = 1
      BY <1>10, <3>2
    <3>3. k = m + 1
      BY <1>1, <2>1, <3>7
    <3>4. \A i \in 1 .. k - 1 : i \in 1 .. m
      BY <1>1, <3>3
    <3>5. ASSUME NEW i \in 1 .. k - 1, k - i <= Pad
          PROVE  t[i] = Idle
      <4>1. i \in 1 .. m /\ m + 1 - i <= Pad
        BY <1>1, <3>3, <3>4, <3>5
      <4> QED
        BY <1>4, <1>5, <4>1
    <3>6. g + (k - 2) >= Pad
      BY <1>1, <1>4, <3>3
    <3> QED
      BY <3>5, <3>6 DEF PadBefore
  <2>4. CASE k > m + n
    <3>1. k \in m + n + 1 .. m + n + Pad
      BY <1>1, <2>1, <2>4
    <3> QED
      BY <1>7, <1>10, <3>1, IdleWord
  <2> QED
    BY <1>1, <2>1, <2>2, <2>3, <2>4
<1>11. PadBefore(t, Len(t) + 1, g)
  <2>1. ASSUME NEW i \in 1 .. Len(t) + 1 - 1, Len(t) + 1 - i <= Pad
        PROVE  t[i] = Idle
    <3>1. i \in m + n + 1 .. m + n + Pad
      BY <1>1, <1>2, <2>1
    <3> QED
      BY <1>7, <3>1
  <2>2. g + (Len(t) + 1 - 2) >= Pad
    BY <1>1, <1>2
  <2> QED
    BY <2>1, <2>2 DEF PadBefore
<1> QED
  BY <1>9, <1>10, <1>11 DEF Unbroken, Spaced, Closed, t

\* The next word goes on the wire.
LEMMA NextWord ==
  ASSUME NEW s \in Seq(Word), Len(s) >= 2, NEW g \in 0 .. Pad, NEW h,
         h = IF s[2] # Idle THEN 0 ELSE IF g < Pad THEN g + 1 ELSE Pad,
         Unbroken(s), Spaced(s, g), Closed(s, g)
  PROVE  Unbroken(Tail(s)) /\ Spaced(Tail(s), h) /\ Closed(Tail(s), h)
<1> DEFINE t == Tail(s)
           m == Len(s)
<1>1. /\ m \in Nat /\ m >= 2 /\ t \in Seq(Word) /\ Len(t) = m - 1
      /\ \A i \in 1 .. m - 1 : t[i] = s[i + 1]
  BY HeadTailProperties
<1>2. Pad \in Nat /\ Pad >= 1 /\ g \in Nat /\ g <= Pad /\ h \in 0 .. Pad
  BY IdleWord
<1> HIDE DEF t, m
<1>3. Unbroken(t)
  <2> SUFFICES ASSUME NEW i \in 1 .. Len(t) - 1,
                      t[i].place < t[i].of \/ t[i + 1].place > 1
               PROVE  t[i + 1] = [place |-> t[i].place + 1, of |-> t[i].of]
    BY DEF Unbroken
  <2>1. i \in 1 .. m - 1 /\ i + 1 \in 1 .. m - 1
    BY <1>1
  <2>2. t[i] = s[i + 1] /\ t[i + 1] = s[i + 1 + 1]
    BY <1>1, <2>1
  <2> QED
    BY <2>1, <2>2 DEF Unbroken, m
<1>4. ASSUME NEW n \in 2 .. m, PadBefore(s, n + 1, g)
      PROVE  PadBefore(t, n, h)
  <2>1. /\ \A i \in 1 .. n : n + 1 - i <= Pad => s[i] = Idle
        /\ g + (n - 1) >= Pad
    BY <1>1, <1>2, <1>4 DEF PadBefore
  <2>2. ASSUME NEW i \in 1 .. n - 1, n - i <= Pad
        PROVE  t[i] = Idle
    <3>1. i + 1 \in 1 .. n /\ n + 1 - (i + 1) <= Pad /\ i \in 1 .. m - 1
      BY <1>1, <1>2, <2>2
    <3> QED
      BY <1>1, <2>1, <3>1
  <2>3. h + (n - 2) >= Pad
    <3>1. CASE n - 1 <= Pad
      <4>1. s[2] = Idle
        <5>1. 2 \in 1 .. n /\ n + 1 - 2 <= Pad
          BY <1>1, <1>2, <3>1
        <5> QED
          BY <2>1, <5>1
      <4> QED
        BY <1>1, <1>2, <2>1, <4>1
    <3>2. CASE ~(n - 1 <= Pad)
      BY <1>1, <1>2, <3>2
    <3> QED
      BY <3>1, <3>2
  <2> QED
    BY <2>2, <2>3 DEF PadBefore
<1>5. Spaced(t, h)
  <2> SUFFICES ASSUME NEW n \in 2 .. Len(t), t[n].place = 1
               PROVE  PadBefore(t, n, h)
    BY DEF Spaced
  <2>1. n \in 2 .. m /\ n + 1 \in 2 .. m /\ t[n] = s[n + 1]
    BY <1>1
  <2> QED
    BY <1>4, <2>1 DEF Spaced, m
<1>6. Closed(t, h)
  <2>1. Len(t) + 1 = m /\ m \in 2 .. m
    <3>1. Len(t) = m - 1 /\ m \in Nat /\ m >= 2
      BY <1>1
    <3> QED
      BY <3>1
  <2>2. PadBefore(s, m + 1, g)
    BY DEF Closed, m
  <2> QED
    BY <1>4, <2>1, <2>2 DEF Closed
<1> QED
  BY <1>3, <1>5, <1>6 DEF t

LEMMA FifoStarts == FifoInit => FifoInv
<1> SUFFICES ASSUME FifoInit
             PROVE  FifoInv
  OBVIOUS
<1>1. words = <<>> /\ fifo = <<>> /\ line = Idle /\ gap = Pad
  BY DEF FifoInit
<1>2. Stream = <<Idle>>
  BY <1>1 DEF Stream
<1>3. Len(<<Idle>>) = 1 /\ <<Idle>>[1] = Idle
  OBVIOUS
<1>4. Unbroken(<<Idle>>) /\ Spaced(<<Idle>>, Pad) /\ Closed(<<Idle>>, Pad)
  BY <1>3, IdleWord DEF Unbroken, Spaced, Closed, PadBefore
<1> QED
  BY <1>1, <1>2, <1>4, IdleWord DEF FifoInv

LEMMA StreamIs ==
  ASSUME FifoInv
  PROVE  /\ Stream \in Seq(Word) /\ Len(Stream) = 1 + Len(fifo) + Len(words)
         /\ Stream[1] = line
         /\ fifo # <<>> => Stream[2] = Head(fifo) /\ Len(fifo) >= 1
         /\ Len(fifo) \in Nat /\ Len(words) \in Nat
<1>1. line \in Word /\ fifo \in Seq(Word) /\ words \in Seq(Word) /\ <<line>> \in Seq(Word)
  BY DEF FifoInv
<1>2. /\ fifo \o words \in Seq(Word) /\ Len(fifo \o words) = Len(fifo) + Len(words)
      /\ \A i \in 1 .. Len(fifo) + Len(words) :
           (fifo \o words)[i] = IF i <= Len(fifo) THEN fifo[i] ELSE words[i - Len(fifo)]
  BY <1>1, ConcatProperties
<1>3. /\ Stream \in Seq(Word) /\ Len(Stream) = Len(<<line>>) + Len(fifo \o words)
      /\ \A i \in 1 .. Len(<<line>>) + Len(fifo \o words) :
           Stream[i] = IF i <= Len(<<line>>) THEN <<line>>[i] ELSE (fifo \o words)[i - Len(<<line>>)]
  BY <1>1, <1>2, ConcatProperties DEF Stream
<1>4. Len(<<line>>) = 1 /\ <<line>>[1] = line /\ Len(fifo) \in Nat /\ Len(words) \in Nat
  BY <1>1
<1>5. Len(Stream) = 1 + Len(fifo) + Len(words) /\ Stream[1] = line
  BY <1>2, <1>3, <1>4
<1>6. ASSUME fifo # <<>>
      PROVE  Stream[2] = Head(fifo) /\ Len(fifo) >= 1
  <2>1. Len(fifo) >= 1 /\ Head(fifo) = fifo[1]
    BY <1>1, <1>6
  <2>2. 2 \in 1 .. Len(<<line>>) + Len(fifo \o words) /\ ~(2 <= Len(<<line>>)) /\ 2 - Len(<<line>>) = 1
    BY <1>2, <1>4, <2>1
  <2>3. Stream[2] = (fifo \o words)[1]
    BY <1>3, <2>2
  <2>4. 1 \in 1 .. Len(fifo) + Len(words) /\ 1 <= Len(fifo)
    BY <1>4, <2>1
  <2> QED
    BY <1>2, <2>1, <2>3, <2>4
<1> QED
  BY <1>3, <1>4, <1>5, <1>6

LEMMA HeadAndTail ==
  ASSUME NEW w \in Seq(Word), w # <<>>
  PROVE  <<Head(w)>> \o Tail(w) = w /\ <<Head(w)>> \in Seq(Word) /\ Tail(w) \in Seq(Word)
<1>1. /\ Head(w) \in Word /\ Tail(w) \in Seq(Word) /\ Len(Tail(w)) = Len(w) - 1
      /\ \A i \in 1 .. Len(Tail(w)) : Tail(w)[i] = w[i + 1]
  BY HeadTailProperties
<1>2. <<Head(w)>> \in Seq(Word) /\ Len(<<Head(w)>>) = 1 /\ <<Head(w)>>[1] = w[1] /\ Len(w) \in Nat
  BY <1>1
<1> DEFINE u == <<Head(w)>>
           v == Tail(w)
<1>3. /\ u \o v \in Seq(Word) /\ Len(u \o v) = Len(u) + Len(v)
      /\ \A i \in 1 .. Len(u) + Len(v) : (u \o v)[i] = IF i <= Len(u) THEN u[i] ELSE v[i - Len(u)]
  BY <1>1, <1>2, ConcatProperties
<1>4. u[1] = w[1] /\ Len(u) = 1 /\ Len(v) = Len(w) - 1 /\ \A i \in 1 .. Len(v) : v[i] = w[i + 1]
  BY <1>1, <1>2
<1> HIDE DEF u, v
<1>5. Len(u \o v) = Len(w)
  BY <1>2, <1>3, <1>4
<1>6. ASSUME NEW i \in 1 .. Len(u \o v)
      PROVE  (u \o v)[i] = w[i]
  <2>1. i \in 1 .. Len(u) + Len(v)
    BY <1>3
  <2>2. CASE i = 1
    BY <1>3, <1>4, <2>1, <2>2
  <2>3. CASE i # 1
    <3>1. ~(i <= Len(u)) /\ i - Len(u) = i - 1 /\ i - 1 \in 1 .. Len(v) /\ (i - 1) + 1 = i
      BY <1>2, <1>4, <2>1, <2>3
    <3>2. (u \o v)[i] = v[i - 1]
      BY <1>3, <2>1, <3>1
    <3> QED
      BY <1>4, <3>1, <3>2
  <2> QED
    BY <2>2, <2>3
<1>7. u \o v = w
  BY <1>3, <1>5, <1>6, SeqEqual
<1> QED
  BY <1>1, <1>2, <1>7 DEF u, v

\* The sequence the shifted stream is.
LEMMA TailOfPrefixed ==
  ASSUME NEW l \in Word, NEW w \in Seq(Word)
  PROVE  Tail(<<l>> \o w) = w
<1> DEFINE s == <<l>> \o w
<1>1. <<l>> \in Seq(Word) /\ Len(<<l>>) = 1 /\ <<l>>[1] = l
  OBVIOUS
<1>2. /\ s \in Seq(Word) /\ Len(s) = 1 + Len(w)
      /\ \A i \in 1 .. 1 + Len(w) : s[i] = IF i <= 1 THEN <<l>>[i] ELSE w[i - 1]
  <2>1. /\ s \in Seq(Word) /\ Len(s) = Len(<<l>>) + Len(w)
        /\ \A i \in 1 .. Len(<<l>>) + Len(w) :
             s[i] = IF i <= Len(<<l>>) THEN <<l>>[i] ELSE w[i - Len(<<l>>)]
    BY <1>1, ConcatProperties
  <2> HIDE DEF s
  <2> QED
    BY <1>1, <2>1, Zenon
<1> HIDE DEF s
<1>3. Len(w) \in Nat /\ s # <<>>
  BY <1>2
<1>4. /\ Tail(s) \in Seq(Word) /\ Len(Tail(s)) = Len(s) - 1
      /\ \A i \in 1 .. Len(Tail(s)) : Tail(s)[i] = s[i + 1]
  BY <1>2, <1>3, HeadTailProperties
<1>5. Len(Tail(s)) = Len(w)
  BY <1>2, <1>3, <1>4
<1>6. ASSUME NEW i \in 1 .. Len(Tail(s))
      PROVE  Tail(s)[i] = w[i]
  <2>1. i + 1 \in 1 .. 1 + Len(w) /\ ~(i + 1 <= 1) /\ (i + 1) - 1 = i
    BY <1>3, <1>5
  <2> QED
    BY <1>2, <1>4, <2>1
<1> QED
  BY <1>4, <1>5, <1>6, SeqEqual DEF s

LEMMA Associative ==
  ASSUME NEW u \in Seq(Word), NEW v \in Seq(Word), NEW w \in Seq(Word)
  PROVE  (u \o v) \o w = u \o (v \o w)
<1> HIDE DEF Word
<1> QED
  BY ConcatAssociative, SMTT(30)

\* Core 0 hands a batch over: nothing of what was to come changes.
LEMMA BatchStep ==
  ASSUME FifoInv, words = <<>>, NEW n \in Nat, NEW b, IsBatch(b, n),
         UNCHANGED <<line, gap>>, fifo' \in Seq(Word), words' \in Seq(Word),
         fifo' \o words' = fifo \o b
  PROVE  FifoInv'
<1>1. line \in Word /\ fifo \in Seq(Word) /\ <<line>> \in Seq(Word) /\ b \in Seq(Word)
  BY DEF FifoInv, IsBatch
<1>2. fifo \o words = fifo
  BY <1>1, ConcatEmptySeq
<1>3. Stream' = Stream \o b
  <2>1. (<<line>> \o fifo) \o b = <<line>> \o (fifo \o b)
    BY <1>1, Associative
  <2> QED
    BY <1>2, <2>1 DEF Stream
<1>4. Stream \in Seq(Word) /\ Len(Stream) >= 1
  BY StreamIs
<1>5. Unbroken(Stream \o b) /\ Spaced(Stream \o b, gap) /\ Closed(Stream \o b, gap)
  BY <1>4, BatchFollows DEF FifoInv
<1>6. Unbroken(Stream') /\ Spaced(Stream', gap) /\ Closed(Stream', gap)
  BY <1>3, <1>5
<1> QED
  BY <1>1, <1>6 DEF FifoInv

LEMMA SendFrameStep ==
  ASSUME FifoInv, SendFrame
  PROVE  FifoInv'
<1>1. PICK n \in FrameWords : words' = Frame(n) \o Idles
  BY DEF SendFrame
<1>2. n \in Nat
  BY TxFifoAssumption
<1>3. IsBatch(Frame(n) \o Idles, n)
  BY <1>2, BatchIs
<1>4. words = <<>> /\ UNCHANGED <<fifo, line, gap>>
  BY DEF SendFrame
<1>5. fifo' \in Seq(Word) /\ words' \in Seq(Word) /\ fifo' \o words' = fifo \o (Frame(n) \o Idles)
  BY <1>1, <1>3, <1>4 DEF FifoInv, IsBatch
<1> HIDE DEF FifoInv
<1> QED
  BY <1>2, <1>3, <1>4, <1>5, BatchStep

\* The pulse goes into the FIFO, or is lost and only its pad follows.
LEMMA SendNlpStep ==
  ASSUME FifoInv, SendNlp
  PROVE  FifoInv'
<1>1. words = <<>> /\ UNCHANGED <<line, gap>> /\ words' = Idles
  BY DEF SendNlp
<1>2. fifo \in Seq(Word) /\ Frame(1) \in Seq(Word) /\ Idles \in Seq(Word)
  BY FrameIs, IdlesAre DEF FifoInv
<1>3. CASE Len(fifo) < FifoDepth
  <2>1. fifo' = fifo \o Frame(1)
    BY <1>3 DEF SendNlp
  <2>2. fifo' \in Seq(Word)
    BY <1>2, <2>1, ConcatProperties
  <2>3. fifo' \o words' = fifo \o (Frame(1) \o Idles)
    BY <1>1, <1>2, <2>1, Associative
  <2>4. IsBatch(Frame(1) \o Idles, 1)
    BY BatchIs
  <2> QED
    BY <1>1, <1>2, <2>2, <2>3, <2>4, BatchStep
<1>4. CASE ~(Len(fifo) < FifoDepth)
  <2>1. fifo' = fifo
    BY <1>4 DEF SendNlp
  <2>2. IsBatch(Idles, 0)
    BY IdlesAre, IdleWord DEF IsBatch
  <2> QED
    BY <1>1, <1>2, <2>1, <2>2, BatchStep
<1> QED
  BY <1>3, <1>4

\* A word core 0 writes only moves from one part of the stream to the other.
LEMMA WriteStep ==
  ASSUME FifoInv, Write
  PROVE  FifoInv'
<1>1. /\ words # <<>> /\ UNCHANGED <<line, gap>>
      /\ fifo' = Append(fifo, Head(words)) /\ words' = Tail(words)
  BY DEF Write
<1>2. fifo \in Seq(Word) /\ words \in Seq(Word) /\ Head(words) \in Word
  BY <1>1, HeadTailProperties DEF FifoInv
<1>3. <<Head(words)>> \o Tail(words) = words /\ <<Head(words)>> \in Seq(Word) /\ Tail(words) \in Seq(Word)
  BY <1>1, <1>2, HeadAndTail
<1>4. fifo' = fifo \o <<Head(words)>> /\ fifo' \in Seq(Word)
  BY <1>1, <1>2, AppendIsConcat, AppendProperties
<1>5. fifo' \o words' = fifo \o words
  BY <1>1, <1>2, <1>3, <1>4, Associative
<1>6. Stream' = Stream
  BY <1>1, <1>5 DEF Stream
<1> QED
  BY <1>1, <1>3, <1>4, <1>6 DEF FifoInv

\* With nothing to come the line has been idle for the whole pad.
LEMMA QuietWhenEmpty ==
  ASSUME FifoInv, fifo = <<>>, words = <<>>
  PROVE  line = Idle /\ gap = Pad
<1>1. Len(Stream) = 1 /\ Stream[1] = line /\ Pad \in Nat /\ Pad >= 1 /\ gap \in 0 .. Pad
  BY StreamIs, IdleWord DEF FifoInv
<1>2. PadBefore(Stream, 2, gap)
  BY <1>1 DEF FifoInv, Closed
<1>3. /\ \A i \in 1 .. 1 : 2 - i <= Pad => Stream[i] = Idle
      /\ gap + 0 >= Pad
  BY <1>2 DEF PadBefore
<1> QED
  BY <1>1, <1>3

LEMMA NextOnWire ==
  ASSUME FifoInv, fifo # <<>>
  PROVE  <<Head(fifo)>> \o (Tail(fifo) \o words) = Tail(Stream)
<1>1. line \in Word /\ fifo \in Seq(Word) /\ words \in Seq(Word)
  BY DEF FifoInv
<1>2. <<Head(fifo)>> \o Tail(fifo) = fifo /\ <<Head(fifo)>> \in Seq(Word) /\ Tail(fifo) \in Seq(Word)
  BY <1>1, HeadAndTail
<1>3. <<Head(fifo)>> \o (Tail(fifo) \o words) = fifo \o words
  BY <1>1, <1>2, Associative
<1>4. fifo \o words \in Seq(Word)
  BY <1>1, ConcatProperties
<1> QED
  BY <1>1, <1>3, <1>4, TailOfPrefixed DEF Stream

LEMMA ShiftStep ==
  ASSUME FifoInv, Shift
  PROVE  FifoInv'
<1>1. CASE fifo = <<>>
  <2>1. words = <<>> /\ fifo' = fifo /\ words' = words /\ line' = Idle
    BY <1>1 DEF Shift
  <2>2. line = Idle /\ gap = Pad /\ Pad \in Nat
    BY <1>1, <2>1, QuietWhenEmpty, IdleWord
  <2>3. gap' = gap /\ line' = line
    BY <2>1, <2>2 DEF Shift
  <2> QED
    BY <2>1, <2>3 DEF FifoInv, Stream
<1>2. CASE fifo # <<>>
  <2>1. fifo' = Tail(fifo) /\ words' = words /\ line' = Head(fifo)
    BY <1>2 DEF Shift
  <2>2. Stream' = Tail(Stream)
    BY <1>2, <2>1, NextOnWire DEF Stream
  <2>3. Stream \in Seq(Word) /\ Len(Stream) >= 2 /\ Stream[2] = Head(fifo) /\ gap \in 0 .. Pad
    BY <1>2, StreamIs DEF FifoInv
  <2>4. gap' = IF Stream[2] # Idle THEN 0 ELSE IF gap < Pad THEN gap + 1 ELSE Pad
    BY <2>1, <2>3 DEF Shift
  <2>5. Unbroken(Tail(Stream)) /\ Spaced(Tail(Stream), gap') /\ Closed(Tail(Stream), gap')
    BY <2>3, <2>4, NextWord DEF FifoInv
  <2>6. Unbroken(Stream') /\ Spaced(Stream', gap') /\ Closed(Stream', gap')
    BY <2>2, <2>5
  <2>7. gap' \in 0 .. Pad
    BY <2>3, <2>4, IdleWord
  <2>8. line' \in Word /\ fifo' \in Seq(Word) /\ words' \in Seq(Word)
    BY <1>2, <2>1, HeadTailProperties DEF FifoInv
  <2> QED
    BY <2>6, <2>7, <2>8 DEF FifoInv
<1> QED
  BY <1>1, <1>2

LEMMA FifoKept == FifoInv /\ [FifoNext]_fifoVars => FifoInv'
<1> SUFFICES ASSUME FifoInv, [FifoNext]_fifoVars
             PROVE  FifoInv'
  OBVIOUS
<1>1. CASE SendFrame
  BY <1>1, SendFrameStep
<1>2. CASE SendNlp
  BY <1>2, SendNlpStep
<1>3. CASE Write
  BY <1>3, WriteStep
<1>4. CASE Shift
  BY <1>4, ShiftStep
<1>5. CASE UNCHANGED fifoVars
  BY <1>5 DEF fifoVars, FifoInv, Stream
<1> QED
  BY <1>1, <1>2, <1>3, <1>4, <1>5 DEF FifoNext

\* What FramesSpaced asks of a step.
LEMMA ShiftIsSpaced ==
  ASSUME FifoInv, Shift
  PROVE  /\ line'.place = 1 => gap = Pad
         /\ line.place < line.of \/ line'.place > 1 =>
              line' = [line EXCEPT !.place = @ + 1]
<1>1. CASE fifo = <<>>
  <2>1. words = <<>> /\ line' = Idle
    BY <1>1 DEF Shift
  <2>2. line = Idle
    BY <1>1, <2>1, QuietWhenEmpty
  <2> QED
    BY <2>1, <2>2, IdleWord
<1>2. CASE fifo # <<>>
  <2>1. line' = Head(fifo)
    BY <1>2 DEF Shift
  <2>2. Len(Stream) \in Nat /\ Len(Stream) >= 2 /\ Stream[1] = line /\ Stream[2] = line'
    BY <1>2, <2>1, StreamIs
  <2>3. gap \in 0 .. Pad /\ line \in Word /\ Pad \in Nat
    BY IdleWord DEF FifoInv
  <2>4. ASSUME line'.place = 1
        PROVE  gap = Pad
    <3>1. PadBefore(Stream, 2, gap)
      BY <2>2, <2>4 DEF FifoInv, Spaced
    <3>2. gap + (2 - 2) >= Pad
      BY <3>1 DEF PadBefore
    <3> QED
      BY <2>3, <3>2
  <2>5. ASSUME line.place < line.of \/ line'.place > 1
        PROVE  line' = [line EXCEPT !.place = @ + 1]
    <3>1. 1 \in 1 .. Len(Stream) - 1 /\ 1 + 1 = 2
      BY <2>2
    <3>2. line' = [place |-> line.place + 1, of |-> line.of]
      BY <2>2, <2>5, <3>1 DEF FifoInv, Unbroken
    <3> QED
      BY <2>3, <3>2 DEF Word
  <2> QED
    BY <2>4, <2>5
<1> QED
  BY <1>1, <1>2

--------------------------------------------------------------------------------
(***************************************************************************)
(* The decoder, the carrier program and the FIFO together: RxCarryProofs   *)
(* has the theorems of the fourth part, the images.                        *)
(***************************************************************************)
LinkInv == EdgeInv /\ ReadInv /\ SenseInv /\ FifoInv

LEMMA LinkStarts == LinkInit => LinkInv
BY InitLocked, InitRead, SenseStarts, FifoStarts DEF LinkInit, LinkInv

LEMMA LinkKept == LinkInv /\ [LinkNext]_linkVars => LinkInv'
<1>1. [LinkNext]_linkVars => [EdgeNext]_edgeVars /\ [SenseNext]_senseVars /\ [FifoNext]_fifoVars
  <2>1. LinkNext => [EdgeNext]_edgeVars /\ [SenseNext]_senseVars /\ [FifoNext]_fifoVars
    BY DEF LinkNext
  <2>2. UNCHANGED linkVars => UNCHANGED edgeVars /\ UNCHANGED senseVars /\ UNCHANGED fifoVars
    BY DEF linkVars
  <2> QED
    BY <2>1, <2>2
<1> QED
  BY <1>1, EdgeKept, ReadKept, SenseKept, FifoKept DEF LinkInv

(***************************************************************************)
(* StaysLocked for all frames and shapes: tr is on a middle edge at every  *)
(* bit of every run but those of the two odd shapes, in the fast path and  *)
(* in the tail, however often the clock slips by a sample.                 *)
(* (decode_frame_edge_track)                                               *)
(***************************************************************************)
THEOREM DecoderLocked == LinkSpec => []StaysLocked
<1>1. LinkInv => StaysLocked
  BY DEF LinkInv, EdgeInv
<1> QED
  BY <1>1, LinkStarts, LinkKept, PTL DEF LinkSpec

(***************************************************************************)
(* FrameSurvives for all frames and shapes: a run gives the frame that was *)
(* sent, bit by bit and with its length, whether the fast path or the tail *)
(* reads its last bit and whether or not the run ends with a bit too many, *)
(* and its destination is peeked at right; a run of one of the two odd     *)
(* shapes never passes the FCS.  (decode_frame_edge_track, peek_dst_mac,   *)
(* derive_frame_len, verify_fcs)                                           *)
(***************************************************************************)
THEOREM FramesSurvive == LinkSpec => []FrameSurvives
<1>1. LinkInv => FrameSurvives
  BY ReadIsRight DEF LinkInv
<1> QED
  BY <1>1, LinkStarts, LinkKept, PTL DEF LinkSpec

(***************************************************************************)
(* StartsOnQuietWire for every guard, bound of the waits and longest run:  *)
(* core 0 begins to transmit on a wire it last found quiet, or active for  *)
(* no more than two runs and eight instructions of the program, unless it  *)
(* has used up its looks or attempts.  (csma_acquire, wait_carrier_idle)   *)
(***************************************************************************)
THEOREM QuietWireFound == LinkSpec => StartsOnQuietWire
<1>1. LinkInv /\ [LinkNext]_linkVars =>
        [step = "go" /\ step' = "none" =>
           \/ ~busy
           \/ job = "raw" /\ attempts = MaxAttempts
           \/ job # "raw" /\ spins = SpinLimit]_senseVars
  BY DEF LinkInv, SenseInv, CoreInv
<1> QED
  BY <1>1, LinkStarts, LinkKept, PTL DEF LinkSpec, StartsOnQuietWire

(***************************************************************************)
(* FramesSpaced for FIFOs, pads and frames of every length: a frame starts *)
(* on a line that has been idle for the whole pad and goes on to its last  *)
(* word without a break, although a link pulse may find the FIFO full and  *)
(* be lost.  (send_raw_frame, send_nlp, send_udp_broadcast)                *)
(***************************************************************************)
THEOREM FramesAreSpaced == LinkSpec => FramesSpaced
<1>1. LinkInv /\ [LinkNext]_linkVars =>
        [Shift =>
           /\ line'.place = 1 => gap = Pad
           /\ line.place < line.of \/ line'.place > 1 =>
                line' = [line EXCEPT !.place = @ + 1]]_fifoVars
  BY ShiftIsSpaced DEF LinkInv
<1> QED
  BY <1>1, LinkStarts, LinkKept, PTL DEF LinkSpec, FramesSpaced
================================================================================
