------------------------------- MODULE EdgeTrack -------------------------------
(***************************************************************************)
(* The Manchester decoder of src/eth_rx_dpll.rs, with the open-loop peek   *)
(* at the destination of src/eth_rx.rs, on one run of samples.             *)
(*                                                                         *)
(* On RO a bit is its own level for half a bit and then the opposite one:  *)
(* six samples, with an edge in the middle.  The code knows a bit by the   *)
(* sample before its middle edge, and finds that edge again for every bit, *)
(* so that a clock that drifts is followed.                                *)
(*                                                                         *)
(* A model of all the samples of a frame would have one state per history  *)
(* of its jitter.  Positions here are relative to the middle edge of the   *)
(* bit the decoder is at, and only the next bits of the run are kept: a    *)
(* bit is its value and the length of its first half and of the half       *)
(* before it.  The decoder never looks further.  lag is what the code      *)
(* calls tr, relative to that edge: 0 while it is locked.                  *)
(***************************************************************************)
EXTENDS Integers, Sequences

CONSTANTS
  Preamble,   \* bits from the first falling edge to the end of the SFD, 63 on the wire
  ByteBits,   \* bits of a byte, 8
  MacBits,    \* bits of the destination, 48
  HdrBytes,   \* bytes decoded when the length is read, 18
  MinBytes,   \* shortest frame, 64
  MaxBytes,   \* MAX_FRAME_BYTES
  Headers,    \* bound: what the headers of the frames say
  Shapes,     \* bound: lengths of half bits
  Slack       \* bound: quiet samples in the last byte of a run

(***************************************************************************)
(* The length is read before the shortest frame ends, and no frame is      *)
(* longer than the buffer.  The bit a run may end with beyond the frame is *)
(* no whole byte.                                                          *)
(*                                                                         *)
(* A shape is a bit on the wire.  lead: samples from the previous bit's    *)
(* middle edge to its own start; half: from there to its middle edge.  In  *)
(* the captures of tools/clock-recovery, sampled at 60 MHz, a half bit is  *)
(* 2 to 4 samples long and the middle edges of two bits are 5 to 7 apart.  *)
(***************************************************************************)
ASSUME EdgeTrackAssumption ==
  /\ Preamble \in Nat \ {1} /\ Preamble % 2 = 1
  /\ ByteBits \in Nat \ {0, 1}
  /\ {MacBits, HdrBytes, MinBytes, MaxBytes} \subseteq Nat \ {0}
  /\ HdrBytes <= MinBytes /\ MinBytes <= MaxBytes
  /\ Headers \subseteq [ip : BOOLEAN, length : 1 .. MaxBytes]
  /\ Shapes \subseteq {s \in [bit : {0, 1}, lead : 2 .. 4, half : 2 .. 4] : s.lead + s.half \in 5 .. 7}
  /\ Slack \subseteq 0 .. 7

VARIABLES
  header,   \* history: ip, the EtherType is IPv4, and length, 14 + its total length + 4
  cur,      \* the bit the decoder is at, and the length of its first half
  ahead,    \* the next bits of the run, as far as they are known
  at,       \* number of cur on the wire; the bit with the first falling edge is 0
  run,      \* samples of the run after the last bit's middle edge, or Open
  grid,     \* F + 6 * at, relative to the middle edge of cur; 0 past the destination
  odd,      \* history: the run has one of the shapes the decoder cannot follow
  stage,    \* where decode_frame_edge_track is
  prev,     \* bit read last while the SFD is sought, or NoBit
  lag,      \* tr, relative to the middle edge of cur
  pending,  \* bit the fast path has extracted already, or NoBit
  bits,     \* bits pushed so far
  cap,      \* cap_bytes
  good,     \* history: every bit pushed is the bit that was sent
  peeked    \* history: so is every bit of the destination that is peeked at

wireVars == <<header, run, odd>>
edgeVars == <<header, cur, ahead, at, run, grid, odd,
              stage, prev, lag, pending, bits, cap, good, peeked>>

NoBit == 2
Open == -1

--------------------------------------------------------------------------------
\* The wire

\* The sender pads a short frame.
Bytes == IF header.length < MinBytes THEN MinBytes ELSE header.length

\* number of the frame's last bit
Last == Preamble + Bytes * ByteBits

\* 0x55 and 0xD5 go out as 1 0 1 0 ... 1 0 1 1.
PreambleBit(n) == IF n % 2 = 0 \/ n = Preamble THEN 1 ELSE 0

\* Middle edge of the i-th bit ahead; 0 is cur.
Middle(i) ==
  CASE i = 0 -> 0
    [] i = 1 -> ahead[1].lead + ahead[1].half
    [] i = 2 -> ahead[1].lead + ahead[1].half + ahead[2].lead + ahead[2].half
    [] i = 3 -> ahead[1].lead + ahead[1].half + ahead[2].lead + ahead[2].half
                + ahead[3].lead + ahead[3].half
BitAhead(i) == IF i = 0 THEN cur ELSE ahead[i]

\* The line falls low after the last bit: after its second half, which is high for a 0.
Trail(b) == IF b = 1 THEN 0 ELSE 2
EndOf(i) == Middle(i) + (IF i < Len(ahead) THEN ahead[i + 1].lead ELSE Trail(BitAhead(i).bit))

\* sample_bit of the sample p places after the middle edge of cur
Sample(p) ==
  IF \E i \in 0 .. Len(ahead) :
       \/ BitAhead(i).bit = 1 /\ p \in Middle(i) - BitAhead(i).half .. Middle(i) - 1
       \/ BitAhead(i).bit = 0 /\ p \in Middle(i) .. EndOf(i) - 1
  THEN 1 ELSE 0

\* The run has a sample p - 1, that is, p <= ns_full.
InRun(p) == run = Open \/ p <= Middle(Len(ahead)) + run

\* One bit's decoding looks less than two bits ahead, and asks if the run has 20 more samples.
Needed == IF at + 4 <= Last THEN 2 ELSE 3
Ready == run # Open \/ Len(ahead) >= Needed

(***************************************************************************)
(* Two shapes of a run the decoder does not survive.  The anchor F + 5 is  *)
(* a sample early when the first falling edge was not late; if also the    *)
(* first data bit is 1, as in a broadcast, and its first half is two       *)
(* samples long, the edge that starts the bit is in the window and is      *)
(* taken for the middle one.  And the last bit is read without an edge     *)
(* when the run's end is too near: six samples after the previous edge,    *)
(* although it may be five away.                                           *)
(***************************************************************************)
AnchorMissed(n, s, g) == n = Preamble + 1 /\ s.bit = 1 /\ s.half = 2 /\ g = 0
EndMissed(n, s, r) == n = Last /\ s.lead + s.half = 5 /\ r <= 2

\* One more bit of the run becomes known.  Up to the end of the destination the line keeps to
\* the sampler's clock, one sample early at most: the first falling edge of a run may be late.
Arrive ==
  /\ run = Open
  /\ Len(ahead) < Needed
  /\ stage # "done"
  /\ \E s \in Shapes :
       LET n == at + Len(ahead) + 1
           g == grid + 6 * (Len(ahead) + 1) - Middle(Len(ahead)) - s.lead - s.half
       IN /\ n <= Preamble => s.bit = PreambleBit(n)
          /\ n <= Preamble + MacBits => g \in {0, 1}
          /\ ahead' = Append(ahead, s)
          \* The run ends with the byte of its last high sample.
          /\ \E r \in IF n < Last THEN {Open} ELSE {q + Trail(s.bit) : q \in Slack} :
               /\ run' = r
               /\ odd' = (odd \/ AnchorMissed(n, s, g) \/ EndMissed(n, s, r))
  /\ UNCHANGED <<header, cur, at, grid, stage, prev, lag, pending, bits, cap, good, peeked>>

--------------------------------------------------------------------------------
(***************************************************************************)
(* The decoder                                                             *)
(***************************************************************************)

\* find_edge_w1
FindEdge(c) ==
  IF Sample(c - 1) # Sample(c) THEN c
  ELSE IF Sample(c - 2) # Sample(c - 1) THEN c - 1
  ELSE IF Sample(c) # Sample(c + 1) THEN c + 1
  ELSE c

\* EDGE_DELTA, indexed by the differences of neighbours in a window of four samples
EDGE_DELTA == <<0, -1, 0, 0, 1, -1, 0, 0>>
Differ(p) == IF Sample(p) # Sample(p + 1) THEN 1 ELSE 0
EdgeDeltaReversed(lo) == EDGE_DELTA[1 + Differ(lo + 2) + 2 * Differ(lo + 1) + 4 * Differ(lo)]
EdgeDelta(lo) == EDGE_DELTA[1 + Differ(lo) + 2 * Differ(lo + 1) + 4 * Differ(lo + 2)]

\* Sample F + 4 + 6k of the open loop, in the bit after cur
OpenLoop == Sample(grid + 4)

\* The decoder is at the next bit, with tr at the sample t after the middle edge of cur.  Past
\* the frame's last bit there is none.  peek_dst_mac has read the destination before.
MoveTo(t) ==
  IF ahead = <<>>
  THEN lag' = t /\ UNCHANGED <<cur, ahead, at, grid, peeked>>
  ELSE /\ cur' = [bit |-> ahead[1].bit, half |-> ahead[1].half]
       /\ ahead' = Tail(ahead)
       /\ at' = at + 1
       /\ grid' = IF at < Preamble + MacBits THEN grid + 6 - Middle(1) ELSE 0
       /\ lag' = t - Middle(1)
       /\ peeked' = (peeked /\ (at < Preamble + MacBits => OpenLoop = ahead[1].bit))

\* One step of find_sfd: two ones in a row end it.
FindSfd ==
  /\ stage = "sfd" /\ Ready
  /\ prev' = OpenLoop
  /\ stage' = IF prev = 1 /\ OpenLoop = 1 THEN "anchor" ELSE "sfd"
  /\ MoveTo(0)
  /\ UNCHANGED <<wireVars, pending, bits, cap, good>>

\* The middle edge of the first data bit is looked for around F + 5 + 6 * start.
Anchor ==
  /\ stage = "anchor" /\ Ready
  /\ stage' = "fast"
  /\ MoveTo(FindEdge(grid + 5))
  /\ UNCHANGED <<wireVars, prev, pending, bits, cap, good>>

DataBit == IF pending # NoBit THEN pending ELSE Sample(lag - 1)
PushUnpadded ==
  /\ bits' = bits + 1
  /\ good' = (good /\ (bits + Preamble + 1 = at => DataBit = cur.bit))
  /\ cap' = IF bits + 1 = HdrBytes * ByteBits /\ cap = MaxBytes /\ header.ip THEN header.length ELSE cap

\* The bit at tr - 1 is pushed; with the header in, the length caps the frame.
Push ==
  /\ bits' = bits + 1
  /\ good' = (good /\ (bits + Preamble + 1 = at => DataBit = cur.bit))
  /\ cap' = IF bits + 1 = HdrBytes * ByteBits /\ cap = MaxBytes /\ header.ip THEN Bytes ELSE cap
Complete == bits' = cap' * ByteBits

\* The fast path: one window of four samples around tr + 6 gives the edge and the next bit.
Fast ==
  /\ stage = "fast" /\ Ready
  /\ InRun(lag + 20)
  /\ Push
  /\ IF Complete
     THEN stage' = "done" /\ UNCHANGED <<cur, ahead, at, grid, lag, pending, peeked>>
     ELSE /\ pending' = Sample(lag + 5 + EdgeDelta(lag + 4))
          /\ MoveTo(lag + 6 + EdgeDelta(lag + 4))
          /\ UNCHANGED stage
  /\ UNCHANGED <<wireVars, prev>>

EndFast ==
  /\ stage = "fast" /\ Ready
  /\ ~InRun(lag + 20)
  /\ stage' = "tail"
  /\ UNCHANGED <<wireVars, cur, ahead, at, grid, prev, lag, pending, bits, cap, good, peeked>>

\* The tail: sample by sample, without an edge where the window would leave the run.
TailBit ==
  /\ stage = "tail" /\ Ready
  /\ IF InRun(lag)
     THEN /\ Push
          /\ pending' = NoBit
          /\ IF Complete
             THEN stage' = "done" /\ UNCHANGED <<cur, ahead, at, grid, lag, peeked>>
             ELSE /\ UNCHANGED stage
                  /\ MoveTo(IF InRun(lag + 8) THEN FindEdge(lag + 6) ELSE lag + 6)
     ELSE /\ stage' = "done"
          /\ UNCHANGED <<cur, ahead, at, grid, lag, pending, bits, cap, good, peeked>>
  /\ UNCHANGED <<wireVars, prev>>

\* A run starts in the preamble, and its first falling edge is the middle of a 1.
EdgeInit ==
  /\ header \in Headers
  /\ cur \in [bit : {1}, half : 2 .. 4]
  /\ ahead = <<>> /\ at = 0 /\ run = Open /\ grid = 0 /\ odd = FALSE
  /\ stage = "sfd" /\ prev = NoBit /\ lag = 0 /\ pending = NoBit
  /\ bits = 0 /\ cap = MaxBytes /\ good = TRUE /\ peeked = TRUE

EdgeNext == Arrive \/ FindSfd \/ Anchor \/ Fast \/ EndFast \/ TailBit
EdgeSpec == EdgeInit /\ [][EdgeNext]_edgeVars

--------------------------------------------------------------------------------
\* What scan_runs makes of the decoded bytes: derive_frame_len, and verify_fcs, which takes
\* nothing but the frame that was sent.
FrameLen == LET n == bits \div ByteBits IN IF header.ip /\ Bytes <= n THEN Bytes ELSE n
FcsOk == good /\ FrameLen = Bytes

(***************************************************************************)
(* Properties                                                              *)
(***************************************************************************)

(***************************************************************************)
(* decode_frame_edge_track: however the half bits and the distances of the *)
(* edges vary from bit to bit, tr is the middle edge of the bit that is    *)
(* decoded, over any number of bits, in the fast path and after it in the  *)
(* tail.  Only the last bit's edge may lie outside the window.             *)
(***************************************************************************)
StaysLocked ==
  stage \in {"fast", "tail"} /\ ~odd =>
    \/ lag = 0
    \/ stage = "tail" /\ at = Last

(***************************************************************************)
(* "Re-anchors to each mid-bit edge (±1 sample) so clock drift can't walk  *)
(* the sample point off center": a run gives the frame that was sent,      *)
(* whatever its jitter and wherever the fast path ends, and its            *)
(* destination is peeked at right; a run of one of the two odd shapes      *)
(* never does.                                                             *)
(***************************************************************************)
FrameSurvives ==
  stage = "done" =>
    /\ peeked
    /\ FcsOk <=> ~odd
================================================================================
