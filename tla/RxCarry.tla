-------------------------------- MODULE RxCarry --------------------------------
(***************************************************************************)
(* The sample stream between the DMA and the decoder: EthRx::poll_into of  *)
(* src/eth_rx.rs and the scan of its images in src/eth_mac.rs.             *)
(*                                                                         *)
(* The DMA delivers the wire's samples in halves of fixed size.  A frame   *)
(* is an active run, bytes that are neither 0x00 nor 0xFF, and may         *)
(* straddle halves; poll_into holds an unfinished run back in the carry    *)
(* and puts it in front of the next half's image.                          *)
(*                                                                         *)
(* A byte is its position on the wire, so that an image, a sequence of     *)
(* positions, tells what was copied and not only what it looks like;       *)
(* wire[p] says whether byte p is active.  With the image ring full the    *)
(* same step writes to the discard slot and nobody scans the image: found  *)
(* is what the images hold, and RxPath models the ring that may lose one.  *)
(***************************************************************************)
EXTENDS Integers, Sequences

CONSTANTS
  Half,       \* BUF_BYTES
  MaxCarry,   \* MAX_CARRY_BYTES
  MinRun,     \* shortest run taken for a frame
  MaxHalves   \* bound: halves received

\* The code has MAX_CARRY_BYTES = BUF_BYTES.
ASSUME RxCarryAssumption ==
  /\ {Half, MaxCarry, MinRun} \subseteq Nat \ {0}
  /\ Half <= MaxCarry
  /\ MaxHalves \in Nat

VARIABLES
  wire,     \* history: every byte so far, TRUE for an active one
  carry,    \* carry[..carry_len]
  image,    \* the image handed out last
  dropped,  \* history: positions lost with a capped carry
  found     \* history: the runs scan_runs found, as [first, last] positions

vars == <<wire, carry, image, dropped, found>>

\* STITCH_BUF_BYTES
SlotBytes == Half + MaxCarry

--------------------------------------------------------------------------------
\* Runs

\* scan_runs takes the maximal active runs of an image, the ends of the image counting as
\* quiet; find_active_run_from skips those shorter than MinRun.
RunsIn(img, active) ==
  {r \in [first : 1 .. Len(img), last : 1 .. Len(img)] :
     /\ r.first <= r.last
     /\ \A i \in r.first .. r.last : active[img[i]]
     /\ r.first = 1 \/ ~active[img[r.first - 1]]
     /\ r.last = Len(img) \/ ~active[img[r.last + 1]]}

LongEnough(r) == r.last - r.first + 1 >= MinRun

ScanRuns(img, active) ==
  {[first |-> img[r.first], last |-> img[r.last]] :
     r \in {q \in RunsIn(img, active) : LongEnough(q)}}

--------------------------------------------------------------------------------
\* poll_into

\* k: how much of the new half continues the carried run.
LeadingIgnored(half) == 0
Leading(half) ==
  IF carry = <<>> THEN 0
  ELSE CHOOSE k \in 0 .. Half : /\ \A i \in 1 .. k : half[i]
                                /\ k = Half \/ ~half[k + 1]

\* tail_start: where the trailing run begins, looking back to k and for MaxCarry bytes (never
\* reached before k, since Half <= MaxCarry).
TailStartEarly(half, k) ==
  CHOOSE t \in k .. Half : \A i \in t + 1 .. Half - 1 : half[i]
TailStart(half, k) ==
  CHOOSE t \in k .. Half :
    /\ \A i \in t + 1 .. Half : half[i]
    /\ t = k \/ ~half[t] \/ Half - t = MaxCarry

\* The bytes handed out or dropped; the carry is the rest.
Settled  == Len(wire) - Len(carry)
NewBytes == [i \in 1 .. Half |-> Len(wire) + i]

WholeHalfButOne(half) == carry # <<>> /\ Leading(half) >= Half - 1
WholeHalf(half)       == carry # <<>> /\ Leading(half) = Half

CarryHasRoom == Len(carry) + Half <= MaxCarry

Receive(half) == Len(wire) < MaxHalves * Half /\ wire' = wire \o half

\* The whole half continues the carried run: carry it too if it fits, else drop both and
\* count it (carry_capped).  It never fits where MaxCarry = Half.
CarryOn(half) ==
  /\ Receive(half)
  /\ WholeHalf(half)
  /\ IF CarryHasRoom
     THEN carry' = carry \o NewBytes /\ UNCHANGED dropped
     ELSE /\ carry' = <<>>
          /\ dropped' = dropped \cup Settled + 1 .. Len(wire) + Half
  /\ UNCHANGED <<image, found>>

\* The carry and the half up to its trailing run become an image; that run is the new carry.
StitchNewOnly(t) == SubSeq(NewBytes, 1, t)
Stitch(t) == carry \o SubSeq(NewBytes, 1, t)

HandOut(half) ==
  /\ Receive(half)
  /\ ~WholeHalf(half)
  /\ LET t == TailStart(half, Leading(half))
     IN  /\ image' = Stitch(t)
         /\ carry' = SubSeq(NewBytes, t + 1, Half)
  /\ found' = found \cup ScanRuns(image', wire')
  /\ UNCHANGED dropped

Init == wire = <<>> /\ carry = <<>> /\ image = <<>> /\ dropped = {} /\ found = {}

Next == \E half \in [1 .. Half -> BOOLEAN] : CarryOn(half) \/ HandOut(half)

Spec == Init /\ [][Next]_vars

--------------------------------------------------------------------------------
\* Properties

TypeOK ==
  /\ wire \in Seq(BOOLEAN)
  /\ carry \in Seq(1 .. Len(wire)) /\ Len(carry) <= MaxCarry
  /\ image \in Seq(1 .. Len(wire)) /\ Len(image) <= SlotBytes
  /\ dropped \subseteq 1 .. Len(wire)
  /\ \A r \in found : {r.first, r.last} \subseteq 1 .. Len(wire)

\* The carry is the wire's unfinished run: its bytes, in order, up to the last one received,
\* and nothing quiet among them.
CarryIsOpenRun == \A i \in DOMAIN carry : carry[i] = Settled + i /\ wire[carry[i]]

\* The carry, within its bounds, is what the code takes it for.
CarryInv == TypeOK /\ CarryIsOpenRun

\* An image is one gapless piece of the wire that goes on where the one before it stopped and
\* stops at a quiet byte: whatever halves the samples came in, no byte is lost, repeated or
\* reordered and no run is cut in two.
ImageGoesOn ==
  image' # image =>
    /\ \A i \in DOMAIN image' : image'[i] = Settled + i
    /\ image' = <<>> \/ ~wire'[image'[Len(image')]]
ImagesContinuous == [][ImageGoesOn]_vars

\* The decoder sees every run of the wire exactly as it was sent, however it lay across the
\* halves, as soon as it is over.  Only the remains of a dropped run come in addition.
WireRuns == RunsIn([p \in 1 .. Len(wire) |-> p], wire)
EveryRunFound ==
  {r \in found : r.first - 1 \notin dropped}
    = {r \in WireRuns : LongEnough(r) /\ r.last <= Settled /\ r.first .. r.last \cap dropped = {}}

\* Only a run longer than a half is ever dropped: with 16 KB halves and 9.2 KB frames the
\* branch is unreachable for legal traffic.
OnlyOverlongDropped ==
  \A r \in WireRuns : r.first .. r.last \cap dropped # {} => r.last - r.first + 1 > Half
================================================================================
