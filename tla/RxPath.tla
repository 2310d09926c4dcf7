--------------------------------- MODULE RxPath ---------------------------------
(***************************************************************************)
(* The receive path of src/eth_mac.rs, from a finished DMA half-buffer on  *)
(* core 1 to a frame popped by core 0.                                     *)
(*                                                                         *)
(*   DMA      fills two half-buffers in turn; a finished half raises       *)
(*            DMA_IRQ_0 and has to be serviced to be filled again          *)
(*   IRQ      process_completed_half, on core 1, preempts the thread at    *)
(*            any point: copy the half into the image ring, re-arm         *)
(*   thread   core1_entry: sleep in wfi, then drain_rx_images: decode the  *)
(*            oldest image, publish its frames, merge the statistics       *)
(*   core 0   pops the inbox and once a second snapshots the statistics    *)
(*                                                                         *)
(* Spinlock<0> guards the inbox and the statistics on both cores.  The     *)
(* interrupt handler claims it too, when a carry was capped.               *)
(*                                                                         *)
(* Data: an image is its number, 1 .. MaxTagged in order of production, or *)
(* Quiet once the numbers are used up (its frames are then not followed).  *)
(* A frame is the image it came from and its place in it.                  *)
(***************************************************************************)
EXTENDS Integers, FiniteSets, Sequences

CONSTANTS
  Slots,       \* IMG_SLOTS
  SeqMod,      \* modulus of the ring's sequence numbers, 2^32 in the code
  InboxSlots,  \* INBOX_SLOTS
  MaxTagged,   \* bound: images that are followed
  MaxFrames,   \* bound: frames found in one image
  MaxCaps      \* bound: halves whose carry is capped

ASSUME RxPathAssumption ==
  /\ {Slots, SeqMod, InboxSlots} \subseteq Nat \ {0}
  /\ Slots < SeqMod
  /\ {MaxTagged, MaxFrames, MaxCaps} \subseteq Nat

Quiet  == 0
Images == 0 .. MaxTagged
Seqs   == 0 .. SeqMod - 1
Actors == {"irq", "thread", "core0"}
Frames == [image : Images, nth : 1 .. MaxFrames]

VARIABLES
  armed,     \* half-buffers the DMA may still fill
  done,      \* filled half-buffers nobody has serviced
  pending,   \* DMA_IRQ_0 is pending on core 1
  imgW, imgR,  \* IMG_W, IMG_R
  ring,      \* the image in each ring slot
  capped,    \* RxEngine's carry_capped, not yet merged
  irq,       \* where the interrupt handler is
  thr,       \* where core 1's thread is
  nth,       \* the thread's StatsDelta: frames of the current image published so far
  c0,        \* where core 0 is
  snap,      \* core 0's copy of the statistics, while it snapshots
  lock,      \* holder of Spinlock<0>, or "free"
  inbox,     \* frames published and not popped
  stats,     \* the shared counters: FCS-good frames, inbox drops
  tagged,    \* history: numbers given to images
  owed,      \* history: frames published, neither received by core 0 nor in a snapshot's drops
  unreported,\* history: frames published that no snapshot has counted
  last,      \* history: the frame core 0 received last, <<>> before the first
  caps       \* history: capped carries

dma    == <<armed, done, pending>>
imgs   == <<imgW, imgR, ring>>
shared == <<inbox, stats>>
hist   == <<tagged, owed, unreported, last, caps>>
vars   == <<dma, imgs, capped, irq, thr, nth, c0, snap, lock, shared, hist>>

NoCounts == [ok |-> 0, dropped |-> 0]

--------------------------------------------------------------------------------
\* The ring: producer and consumer sequence numbers, slot = seq % Slots

SeqNext(s) == (s + 1) % SeqMod
SlotOf(s)  == s % Slots
Backlog    == (imgW - imgR) % SeqMod

RingFullOffByOne == Backlog > Slots
RingFull == Backlog >= Slots

\* Sequence numbers published and not yet consumed.
Queued == {(imgR + i) % SeqMod : i \in 0 .. Backlog - 1}

--------------------------------------------------------------------------------
\* The DMA and the interrupt handler

\* The DMA fills the next half, whatever the cores are doing.
DmaComplete ==
  /\ armed > 0
  /\ armed' = armed - 1 /\ done' = done + 1 /\ pending' = TRUE
  /\ UNCHANGED <<imgs, capped, irq, thr, nth, c0, snap, lock, shared, hist>>

\* poll_into hands a finished half back to the DMA. A whole half of noise behind a carry
\* yields no image and is counted as capped.
Rearm == IF done > 0 THEN armed' = armed + 1 /\ done' = done - 1
                     ELSE UNCHANGED <<armed, done>>
Noise == caps < MaxCaps /\ capped' = capped + 1 /\ caps' = caps + 1
Calm  == UNCHANGED <<capped, caps>>

\* Returning to the thread ends its wfi, if the interrupt came during it.
Return == irq' = "idle" /\ thr' = IF thr = "wfi" THEN "check" ELSE thr

\* With the ring full the half goes to the discard slot: the DMA is serviced all the same.
IrqDiscardSkip ==
  /\ irq = "idle" /\ pending /\ RingFull
  /\ pending' = FALSE
  /\ Return
  /\ UNCHANGED <<armed, done, imgs, capped, nth, c0, snap, lock, shared, hist>>
IrqDiscard ==
  /\ irq = "idle" /\ pending /\ RingFull
  /\ pending' = FALSE
  /\ Rearm
  /\ Noise \/ Calm
  /\ Return
  /\ UNCHANGED <<imgs, nth, c0, snap, lock, shared, tagged, owed, unreported, last>>

IrqEnter ==
  /\ irq = "idle" /\ pending /\ ~RingFull
  /\ pending' = FALSE
  /\ irq' = "fill"
  /\ UNCHANGED <<armed, done, imgs, capped, thr, nth, c0, snap, lock, shared, hist>>

\* poll_into writes the image into slot IMG_W % Slots; IMG_W moves only afterwards.
IrqFill ==
  /\ irq = "fill"
  /\ Rearm
  /\ \/ /\ Calm
        /\ ring' = [ring EXCEPT ![SlotOf(imgW)] = IF tagged < MaxTagged THEN tagged + 1 ELSE Quiet]
        /\ tagged' = IF tagged < MaxTagged THEN tagged + 1 ELSE tagged
        /\ irq' = "publish"
     \/ /\ Noise
        /\ irq' = "merge?"
        /\ UNCHANGED <<ring, tagged>>
  /\ UNCHANGED <<pending, imgW, imgR, thr, nth, c0, snap, lock, shared, owed, unreported, last>>

IrqPublish ==
  /\ irq = "publish"
  /\ imgW' = SeqNext(imgW)
  /\ irq' = "merge?"
  /\ UNCHANGED <<dma, imgR, ring, capped, thr, nth, c0, snap, lock, shared, hist>>

\* take_carry_capped: nothing capped, nothing to merge; else the lock is claimed.
IrqDone ==
  /\ irq = "merge?" /\ capped = 0
  /\ Return
  /\ UNCHANGED <<dma, imgs, capped, nth, c0, snap, lock, shared, hist>>

--------------------------------------------------------------------------------
\* Spinlock<0>: claim spins until it is free; the interrupt handler spins too.

LockFreeIgnored == TRUE
LockFree == lock = "free"
Claim(who) == LockFree /\ lock' = who
Release    == lock' = "free"

IrqClaim ==
  /\ irq = "merge?" /\ capped > 0
  /\ Claim("irq")
  /\ irq' = "merge"
  /\ UNCHANGED <<dma, imgs, capped, thr, nth, c0, snap, shared, hist>>

IrqMerge ==
  /\ irq = "merge"
  /\ capped' = 0
  /\ Release
  /\ Return
  /\ UNCHANGED <<dma, imgs, nth, c0, snap, shared, hist>>

--------------------------------------------------------------------------------
\* Core 1's thread. It runs only while no interrupt handler does.

Thread(from, to) == irq = "idle" /\ thr = from /\ thr' = to

\* drain_rx_images returns when the ring is empty; an interrupt may still come before wfi.
ThrCheck ==
  /\ Thread("check", IF imgR = imgW THEN "return" ELSE "scan")
  /\ UNCHANGED <<dma, imgs, capped, irq, nth, c0, snap, lock, shared, hist>>
ThrSleep ==
  /\ Thread("return", "wfi")
  /\ UNCHANGED <<dma, imgs, capped, irq, nth, c0, snap, lock, shared, hist>>

\* scan_runs: one more good frame in the image, or the end of it. Bound: image n holds n
\* frames at most.
FramesIn(n) == IF n = Quiet THEN 0 ELSE IF n < MaxFrames THEN n ELSE MaxFrames
ThrFrame ==
  /\ nth < FramesIn(ring[SlotOf(imgR)])
  /\ Thread("scan", "publish")
  /\ Claim("thread")
  /\ UNCHANGED <<dma, imgs, capped, irq, nth, c0, snap, shared, hist>>
ThrScanned ==
  /\ Thread("scan", "merge")
  /\ Claim("thread")
  /\ UNCHANGED <<dma, imgs, capped, irq, nth, c0, snap, shared, hist>>

\* Drop the oldest frame of a full inbox, append the new one.
MakeRoom == IF Len(inbox) = InboxSlots
            THEN [rest |-> Tail(inbox), lost |-> 1] ELSE [rest |-> inbox, lost |-> 0]

ThrPublish ==
  /\ Thread("publish", "scan")
  /\ inbox' = Append(MakeRoom.rest, [image |-> ring[SlotOf(imgR)], nth |-> nth + 1])
  /\ stats' = [stats EXCEPT !.dropped = @ + MakeRoom.lost]
  /\ nth' = nth + 1
  /\ owed' = owed + 1 /\ unreported' = unreported + 1
  /\ Release
  /\ UNCHANGED <<dma, imgs, capped, irq, c0, snap, tagged, last, caps>>

ThrMerge ==
  /\ Thread("merge", "advance")
  /\ stats' = [stats EXCEPT !.ok = @ + nth]
  /\ nth' = 0
  /\ Release
  /\ UNCHANGED <<dma, imgs, capped, irq, c0, snap, inbox, hist>>

ThrAdvanceNoStore ==
  /\ Thread("advance", "check")
  /\ UNCHANGED <<dma, imgs, capped, irq, nth, c0, snap, lock, shared, hist>>
ThrAdvance ==
  /\ Thread("advance", "check")
  /\ imgR' = SeqNext(imgR)
  /\ UNCHANGED <<dma, imgW, ring, capped, irq, nth, c0, snap, lock, shared, hist>>

--------------------------------------------------------------------------------
\* Core 0

C0Claim(op) ==
  /\ c0 = "run"
  /\ Claim("core0")
  /\ c0' = op
  /\ UNCHANGED <<dma, imgs, capped, irq, thr, nth, snap, shared, hist>>

\* EthMac::receive
NewestFirst(q) == IF q = <<>> THEN [got |-> <<>>, rest |-> <<>>]
                  ELSE [got |-> <<q[Len(q)]>>, rest |-> SubSeq(q, 1, Len(q) - 1)]
PopFront(q) == IF q = <<>> THEN [got |-> <<>>, rest |-> <<>>]
               ELSE [got |-> <<Head(q)>>, rest |-> Tail(q)]

C0Receive ==
  /\ c0 = "receive"
  /\ inbox' = PopFront(inbox).rest
  /\ owed' = owed - Len(PopFront(inbox).got)
  /\ last' = IF PopFront(inbox).got = <<>> THEN last ELSE PopFront(inbox).got
  /\ c0' = "run"
  /\ Release
  /\ UNCHANGED <<dma, imgs, capped, irq, thr, nth, snap, stats, tagged, unreported, caps>>

\* snapshot_rx_stats: copy, then clear, under one claim of the lock.
C0Copy ==
  /\ c0 = "snapshot"
  /\ snap' = stats
  /\ c0' = "clear"
  /\ UNCHANGED <<dma, imgs, capped, irq, thr, nth, lock, shared, hist>>
C0Clear ==
  /\ c0 = "clear"
  /\ stats' = NoCounts
  /\ unreported' = unreported - snap.ok /\ owed' = owed - snap.dropped
  /\ snap' = NoCounts
  /\ c0' = "run"
  /\ Release
  /\ UNCHANGED <<dma, imgs, capped, irq, thr, nth, inbox, tagged, last, caps>>

--------------------------------------------------------------------------------

Init ==
  /\ armed = 2 /\ done = 0 /\ pending = FALSE
  /\ imgW = 0 /\ imgR = 0 /\ ring = [i \in 0 .. Slots - 1 |-> Quiet]
  /\ capped = 0 /\ irq = "idle" /\ thr = "wfi" /\ nth = 0
  /\ c0 = "run" /\ snap = NoCounts /\ lock = "free"
  /\ inbox = <<>> /\ stats = NoCounts
  /\ tagged = 0 /\ owed = 0 /\ unreported = 0 /\ last = <<>> /\ caps = 0

IrqNext    == IrqDiscard \/ IrqEnter \/ IrqFill \/ IrqPublish \/ IrqDone \/ IrqClaim \/ IrqMerge
ThreadNext == ThrCheck \/ ThrSleep \/ ThrFrame \/ ThrScanned \/ ThrPublish \/ ThrMerge \/ ThrAdvance
Core0Next  == (\E op \in {"receive", "snapshot"} : C0Claim(op)) \/ C0Receive \/ C0Copy \/ C0Clear

Next == DmaComplete \/ IrqNext \/ ThreadNext \/ Core0Next

Spec == Init /\ [][Next]_vars

(***************************************************************************)
(* The sampler never stops, so the DMA keeps completing halves; a pending  *)
(* interrupt is taken and its handler runs on.  The handler needs at most  *)
(* 0.6 ms of every half (eth_rx.rs), so the thread runs between two of     *)
(* them for ever: strong fairness.  Core 0 polls for ever, and each core   *)
(* wins the spinlock eventually, as no holder keeps it.                    *)
(***************************************************************************)
FairSpec ==
  Spec /\ WF_vars(DmaComplete) /\ SF_vars(IrqNext) /\ SF_vars(ThreadNext) /\ SF_vars(Core0Next)

--------------------------------------------------------------------------------
\* Properties

TypeOK ==
  /\ armed \in 0 .. 2 /\ done \in 0 .. 2 /\ pending \in BOOLEAN
  /\ imgW \in Seqs /\ imgR \in Seqs /\ ring \in [0 .. Slots - 1 -> Images]
  /\ capped \in 0 .. MaxCaps
  /\ irq \in {"idle", "fill", "publish", "merge?", "merge"}
  /\ thr \in {"wfi", "check", "return", "scan", "publish", "merge", "advance"}
  /\ nth \in 0 .. MaxFrames
  /\ c0 \in {"run", "receive", "snapshot", "clear"}
  /\ snap \in [ok : Nat, dropped : Nat] /\ stats \in [ok : Nat, dropped : Nat]
  /\ lock \in Actors \cup {"free"}
  /\ inbox \in Seq(Frames) /\ Len(inbox) <= InboxSlots
  /\ tagged \in 0 .. MaxTagged /\ owed \in Nat /\ unreported \in Nat
  /\ last \in Seq(Frames) /\ caps \in 0 .. MaxCaps

\* The slot the interrupt handler writes is never one that is published and not yet consumed,
\* so an image is not overwritten while the thread decodes it (the two Safety comments of
\* process_completed_half and drain_rx_images).
SlotExclusive ==
  irq \in {"fill", "publish"} => \A q \in Queued : SlotOf(q) # SlotOf(imgW)

\* Every frame published is popped, in the inbox, or counted as dropped, across snapshots that
\* reset the count at any moment.
FramesConserved == owed = Len(inbox) + stats.dropped

\* Every FCS-good frame is in exactly one of: the thread's delta, the shared counters, a
\* snapshot taken. Holds because copy and clear happen under one claim of the spinlock; while
\* core 0 is between the two, the frames it copied are still in the shared counters.
StatsConserved == unreported = nth + stats.ok

\* Nothing the receive path hands over or counts is lost or counted twice.
RxInv == TypeOK /\ FramesConserved /\ StatsConserved

\* Core 0 sees frames at most once and in the order they were on the wire: two rings, an
\* overflow policy and three actors later.
Later(f, g) == f.image < g.image \/ (f.image = g.image /\ f.nth < g.nth)
DeliveredInOrder ==
  LET all == last \o inbox
  IN  \A i \in 1 .. Len(all) - 1 : Later(all[i], all[i + 1])

\* Every image put in the ring leaves it, although an interrupt that lands between
\* drain_rx_images' last look at the ring and wfi does not wake the thread: its image waits
\* for the next half; unless the capped-carry hang (IrqReturns) has stopped both cores.
Hung == irq = "merge?" /\ capped > 0 /\ lock = "thread"
InRing(n) == \E q \in Queued : ring[SlotOf(q)] = n
ImagesDrained == \A n \in 1 .. MaxTagged : InRing(n) ~> ~InRing(n) \/ Hung

\* Overload does not kill reception: the DMA always gets a half back to fill, whatever backlog
\* the thread has, short of that hang.
RxNeverDies == []<>(armed > 0 \/ Hung)

\* The comment on process_completed_half: the interrupt body takes bounded time. Not so when
\* a carry is capped while the preempted thread holds the spinlock.
IrqReturns == irq # "idle" ~> irq = "idle"
================================================================================
