------------------------------ MODULE RxPathProofs ------------------------------
(***************************************************************************)
(* Safety of the receive path for rings, inboxes and images of any size    *)
(* and sequence numbers of any range, in particular for the code's six     *)
(* slots and 2^32, of which six is no divisor.  The run rxpath_wrap shows  *)
(* what then happens where the numbers wrap; the theorems say that it is   *)
(* all that happens.  The counters never depend on the ring.  The slot     *)
(* being filled is free unless the waiting images straddle the wrap.  And  *)
(* order is kept for every image followed, if these are images from before *)
(* the first wrap (Followed), 2^32 - 6 of them or 108 days.                *)
(*                                                                         *)
(* The images in the ring are followed by their place in it, 0 the oldest. *)
(* Their numbers increase with the place; a frame handed over comes from   *)
(* an image before all of them, or from the oldest and was found before.   *)
(* That the slot being filled is none of theirs keeps this true; the       *)
(* spinlock keeps the counters together.                                   *)
(***************************************************************************)
EXTENDS RxPath, SequenceTheorems, TLAPS

\* A ring that fits the range of its sequence numbers.  The code's does not.
Aligned == SeqMod % Slots = 0

\* If the ring does not fit, the images that are followed come before the first wrap.
Followed == Aligned \/ MaxTagged + Slots <= SeqMod

--------------------------------------------------------------------------------
\* Remainders

LEMMA Quotient ==
  ASSUME NEW m \in Nat \ {0}, NEW x \in Int
  PROVE  x \div m \in Int /\ x = m * (x \div m) + (x % m) /\ x % m \in 0 .. m - 1
OBVIOUS

LEMMA Remainder ==
  ASSUME NEW m \in Nat \ {0}, NEW k \in Int, NEW r \in 0 .. m - 1
  PROVE  (m * k + r) % m = r
OBVIOUS

LEMMA Products ==
  ASSUME NEW a \in Int, NEW b \in Int, NEW c \in Int
  PROVE  a * (b - c) = a * b - a * c /\ (a * b) * c = a * (b * c)
OBVIOUS

\* Less than one lap away
LEMMA LessThanALap ==
  ASSUME NEW m \in Nat \ {0}, NEW x \in Int, -m <= x, x < m + m
  PROVE  x % m = IF x < 0 THEN x + m ELSE IF x < m THEN x ELSE x - m
OBVIOUS

\* Whole laps change nothing.
LEMMA WholeLaps ==
  ASSUME NEW m \in Nat \ {0}, NEW x \in Int, NEW k \in Int
  PROVE  (x - m * k) % m = x % m
<1> DEFINE q == x \div m
           r == x % m
<1>1. q \in Int /\ r \in 0 .. m - 1 /\ x = m * q + r
  BY Quotient
<1> HIDE DEF q, r
<1>2. m * q \in Int /\ m * k \in Int /\ q - k \in Int /\ r \in Int
  BY <1>1
<1>3. x - m * k = m * (q - k) + r
  BY <1>1, <1>2, Products
<1>4. (m * (q - k) + r) % m = r
  BY <1>1, <1>2, Remainder
<1> QED
  BY <1>3, <1>4 DEF r

LEMMA OneLap ==
  ASSUME NEW m \in Nat \ {0}, NEW x \in Int
  PROVE  (x - m) % m = x % m
<1>1. PICK k \in Int : k = 1
  OBVIOUS
<1>2. x - m * k = x - m
  BY <1>1
<1>3. (x - m * k) % m = x % m
  BY WholeLaps
<1> QED
  BY <1>2, <1>3

LEMMA SlotOfLap ==
  ASSUME Aligned, NEW x \in Nat
  PROVE  SlotOf(x % SeqMod) = x % Slots
<1> DEFINE k == SeqMod \div Slots
           q == x \div SeqMod
<1>1. Slots \in Nat \ {0} /\ SeqMod \in Nat \ {0}
  BY RxPathAssumption
<1>2. k \in Int /\ SeqMod = Slots * k
  BY <1>1, Quotient DEF Aligned
<1>3. q \in Int /\ x % SeqMod = x - SeqMod * q
  BY <1>1, Quotient
<1> HIDE DEF k, q
<1>4. SeqMod * q = Slots * (k * q) /\ k * q \in Int
  BY <1>1, <1>2, <1>3, Products
<1>5. x % SeqMod = x - Slots * (k * q)
  BY <1>3, <1>4
<1> QED
  BY <1>1, <1>4, <1>5, WholeLaps DEF SlotOf

\* Numbers less than a ring apart have different remainders.
LEMMA RemaindersApart ==
  ASSUME NEW x \in Nat, NEW y \in Nat, x < y, y - x < Slots
  PROVE  x % Slots # y % Slots
<1>1. Slots \in Nat \ {0}
  BY RxPathAssumption
<1> SUFFICES ASSUME x % Slots = y % Slots
             PROVE  FALSE
  OBVIOUS
<1> DEFINE a == y \div Slots
           b == x \div Slots
           d == a - b
<1>5. /\ a \in Int /\ b \in Int /\ x % Slots \in 0 .. Slots - 1
      /\ y = Slots * a + (x % Slots) /\ x = Slots * b + (x % Slots)
  BY <1>1, Quotient
<1> HIDE DEF a, b
<1>2. d \in Int /\ y - x = Slots * d
  BY <1>1, <1>5, Products
<1> HIDE DEF d
<1>3. d <= 0 => Slots * d <= 0
  BY <1>1, <1>2
<1>4. d >= 1 => Slots * d >= Slots
  BY <1>1, <1>2
<1> QED
  BY <1>1, <1>2, <1>3, <1>4

\* Places less than a ring apart are different slots, if the ring fits the range of the
\* sequence numbers or these do not wrap between them.
LEMMA SlotsApart ==
  ASSUME NEW x \in Nat, NEW y \in Nat, x < y, y - x < Slots, Aligned \/ y < SeqMod
  PROVE  SlotOf(x % SeqMod) # SlotOf(y % SeqMod)
<1>1. x % Slots # y % Slots
  BY RemaindersApart
<1>2. CASE Aligned
  BY <1>1, <1>2, SlotOfLap
<1>3. CASE y < SeqMod
  <2>1. SeqMod \in Nat \ {0}
    BY RxPathAssumption
  <2>2. x % SeqMod = x /\ y % SeqMod = y
    BY <1>3, <2>1, LessThanALap
  <2> QED
    BY <1>1, <2>2 DEF SlotOf
<1> QED
  BY <1>2, <1>3

--------------------------------------------------------------------------------
\* The ring's two positions

\* Slot of the image at each place of the ring
Place == [i \in Nat |-> SlotOf((imgR + i) % SeqMod)]

LEMMA Distance ==
  ASSUME NEW r \in Seqs, NEW w \in Seqs
  PROVE  /\ (w - r) % SeqMod = IF w < r THEN (w - r) + SeqMod ELSE w - r
         /\ (w - r) % SeqMod \in 0 .. SeqMod - 1
<1>1. SeqMod \in Nat \ {0}
  BY RxPathAssumption
<1>2. w - r \in Int /\ -SeqMod <= w - r /\ w - r < SeqMod
  BY <1>1 DEF Seqs
<1>3. (w - r) % SeqMod = IF w - r < 0 THEN (w - r) + SeqMod
                         ELSE IF w - r < SeqMod THEN w - r ELSE (w - r) - SeqMod
  BY <1>1, <1>2, LessThanALap
<1> QED
  BY <1>1, <1>2, <1>3 DEF Seqs

LEMMA Ahead ==
  ASSUME NEW r \in Seqs, NEW i \in 0 .. SeqMod
  PROVE  /\ (r + i) % SeqMod = IF r + i < SeqMod THEN r + i ELSE (r + i) - SeqMod
         /\ (r + i) % SeqMod \in Seqs
<1>1. SeqMod \in Nat \ {0}
  BY RxPathAssumption
<1>2. r + i \in Int /\ 0 <= r + i /\ r + i < SeqMod + SeqMod /\ -SeqMod <= r + i
  BY <1>1 DEF Seqs
<1>3. (r + i) % SeqMod = IF r + i < 0 THEN (r + i) + SeqMod
                         ELSE IF r + i < SeqMod THEN r + i ELSE (r + i) - SeqMod
  BY <1>1, <1>2, LessThanALap
<1> QED
  BY <1>1, <1>2, <1>3 DEF Seqs

LEMMA Successor ==
  ASSUME NEW s \in Seqs
  PROVE  SeqNext(s) \in Seqs /\ SeqNext(s) = IF s + 1 < SeqMod THEN s + 1 ELSE (s + 1) - SeqMod
BY Ahead, RxPathAssumption DEF SeqNext

LEMMA Positions ==
  ASSUME imgW \in Seqs, imgR \in Seqs
  PROVE  /\ Backlog \in 0 .. SeqMod - 1 /\ (imgR + Backlog) % SeqMod = imgW
         /\ imgR = imgW <=> Backlog = 0
         /\ \A i \in Nat : Place[i] \in 0 .. Slots - 1
         /\ Place[0] = SlotOf(imgR) /\ Place[Backlog] = SlotOf(imgW)
<1>1. SeqMod \in Nat \ {0} /\ Slots \in Nat \ {0}
  BY RxPathAssumption
<1>2. Backlog = (IF imgW < imgR THEN (imgW - imgR) + SeqMod ELSE imgW - imgR)
      /\ Backlog \in 0 .. SeqMod - 1
  BY Distance DEF Backlog
<1> HIDE DEF Backlog
<1>3. imgR = imgW <=> Backlog = 0
  BY <1>1, <1>2 DEF Seqs
<1>4. (imgR + Backlog) % SeqMod = imgW
  <2>1. (imgR + Backlog) % SeqMod = IF imgR + Backlog < SeqMod THEN imgR + Backlog
                                    ELSE (imgR + Backlog) - SeqMod
    BY <1>1, <1>2, Ahead
  <2> QED
    BY <1>1, <1>2, <2>1 DEF Seqs
<1>5. ASSUME NEW i \in Nat
      PROVE  Place[i] \in 0 .. Slots - 1
  <2>1. (imgR + i) % SeqMod \in Int
    BY <1>1, Quotient DEF Seqs
  <2> QED
    BY <1>1, <2>1, Quotient DEF Place, SlotOf
<1>6. imgR + 0 = imgR /\ imgR % SeqMod = imgR
  BY <1>1, LessThanALap DEF Seqs
<1>7. Place[0] = SlotOf(imgR) /\ Place[Backlog] = SlotOf(imgW)
  BY <1>1, <1>2, <1>4, <1>6 DEF Place
<1> QED
  BY <1>2, <1>3, <1>4, <1>5, <1>7

LEMMA Grows ==
  ASSUME imgW \in Seqs, imgR \in Seqs, Backlog < Slots, imgW' = SeqNext(imgW), imgR' = imgR
  PROVE  imgW' \in Seqs /\ Backlog' = Backlog + 1 /\ Place' = Place
<1>1. SeqMod \in Nat \ {0} /\ Slots \in Nat \ {0} /\ Slots < SeqMod
  BY RxPathAssumption
<1>2. imgW' \in Seqs /\ imgW' = IF imgW + 1 < SeqMod THEN imgW + 1 ELSE (imgW + 1) - SeqMod
  BY Successor
<1>3. Backlog = IF imgW < imgR THEN (imgW - imgR) + SeqMod ELSE imgW - imgR
  BY Distance DEF Backlog
<1>4. Backlog' = IF imgW' < imgR THEN (imgW' - imgR) + SeqMod ELSE imgW' - imgR
  BY <1>2, Distance DEF Backlog
<1>5. Place' = Place
  BY DEF Place
<1> QED
  BY <1>1, <1>2, <1>3, <1>4, <1>5 DEF Seqs

LEMMA Shrinks ==
  ASSUME imgW \in Seqs, imgR \in Seqs, Backlog >= 1, imgR' = SeqNext(imgR), imgW' = imgW
  PROVE  /\ imgR' \in Seqs /\ Backlog' = Backlog - 1
         /\ \A i \in Nat : Place'[i] = Place[i + 1]
<1>1. SeqMod \in Nat \ {0} /\ Slots \in Nat \ {0}
  BY RxPathAssumption
<1>2. imgR' \in Seqs /\ imgR' = IF imgR + 1 < SeqMod THEN imgR + 1 ELSE (imgR + 1) - SeqMod
  BY Successor
<1>3. Backlog = IF imgW < imgR THEN (imgW - imgR) + SeqMod ELSE imgW - imgR
  BY Distance DEF Backlog
<1>4. Backlog' = IF imgW < imgR' THEN (imgW - imgR') + SeqMod ELSE imgW - imgR'
  BY <1>2, Distance DEF Backlog
<1>5. Backlog' = Backlog - 1
  BY <1>1, <1>2, <1>3, <1>4 DEF Seqs
<1>6. ASSUME NEW i \in Nat
      PROVE  Place'[i] = Place[i + 1]
  <2>1. (imgR' + i) % SeqMod = (imgR + (i + 1)) % SeqMod
    <3>1. CASE imgR + 1 < SeqMod
      BY <1>1, <1>2, <3>1 DEF Seqs
    <3>2. CASE ~(imgR + 1 < SeqMod)
      <4>1. imgR' + i = (imgR + (i + 1)) - SeqMod /\ imgR + (i + 1) \in Int
        BY <1>1, <1>2, <3>2 DEF Seqs
      <4>2. ((imgR + (i + 1)) - SeqMod) % SeqMod = (imgR + (i + 1)) % SeqMod
        BY <1>1, <4>1, OneLap
      <4> QED
        BY <4>1, <4>2
    <3> QED
      BY <3>1, <3>2
  <2>2. Place'[i] = SlotOf((imgR' + i) % SeqMod) /\ Place[i + 1] = SlotOf((imgR + (i + 1)) % SeqMod)
    BY DEF Place, SlotOf
  <2> QED
    BY <2>1, <2>2
<1> QED
  BY <1>2, <1>5, <1>6

--------------------------------------------------------------------------------
(***************************************************************************)
(* The invariant                                                           *)
(***************************************************************************)
\* The spinlock is held by whoever is at a place that needs it.
Turns ==
  /\ lock = "thread" <=> thr \in {"publish", "merge"}
  /\ lock = "core0" <=> c0 # "run"
  /\ lock = "irq" <=> irq = "merge"

Counts ==
  /\ FramesConserved /\ StatsConserved
  /\ c0 = "clear" => snap = stats
  /\ capped <= caps /\ armed + done = 2

RingInv ==
  /\ Backlog <= Slots
  /\ irq \in {"fill", "publish"} => Backlog < Slots
  /\ thr \in {"scan", "publish", "merge", "advance"} => Backlog >= 1
  /\ thr = "publish" => nth < MaxFrames

\* Images filled, with the one that is not yet published, and what is at each place.
Filled == IF irq = "publish" THEN Backlog + 1 ELSE Backlog
Image == [i \in Nat |-> ring[Place[i]]]

Numbered ==
  /\ \A i \in 0 .. Filled - 1 : Image[i] <= tagged /\ (Image[i] = Quiet => tagged = MaxTagged)
  /\ \A i, j \in 0 .. Filled - 1 :
       i < j => Image[j] = Quiet \/ (Image[i] # Quiet /\ Image[i] < Image[j])

\* The frame about to be published is one of the oldest image.
Finding == thr = "publish" => nth < FramesIn(Image[0])

\* If the ring does not fit: as long as images get numbers the sequence has not wrapped, and one
\* that has a number got it before the wrap.
BeforeWrap ==
  \/ Aligned
  \/ /\ tagged < MaxTagged => imgR + Filled = tagged
     /\ \A i \in 0 .. Filled - 1 : Image[i] # Quiet => imgR + i < MaxTagged

\* Frames of the oldest image that may have been handed over
Progress == IF thr = "advance" THEN MaxFrames ELSE nth

HandedOver ==
  {f \in Frames :
     /\ f.image <= tagged
     /\ \A i \in 0 .. Filled - 1 :
          Image[i] # Quiet =>
            f.image < Image[i] \/ (i = 0 /\ f.image = Image[i] /\ f.nth <= Progress)}

InOrder ==
  /\ Len(last) <= 1
  /\ Len(last) = 1 => last[1] \in HandedOver
  /\ \A i \in 1 .. Len(inbox) : inbox[i] \in HandedOver
  /\ Len(last) = 1 => \A i \in 1 .. Len(inbox) : Later(last[1], inbox[i])
  /\ \A i, j \in 1 .. Len(inbox) : i < j => Later(inbox[i], inbox[j])

--------------------------------------------------------------------------------
(***************************************************************************)
(* The inbox                                                               *)
(***************************************************************************)
LEMMA MakeRoomIs ==
  ASSUME inbox \in Seq(Frames), Len(inbox) <= InboxSlots
  PROVE  /\ MakeRoom.rest \in Seq(Frames) /\ MakeRoom.lost \in {0, 1}
         /\ Len(MakeRoom.rest) + MakeRoom.lost = Len(inbox) /\ Len(MakeRoom.rest) < InboxSlots
         /\ \A i \in 1 .. Len(MakeRoom.rest) : MakeRoom.rest[i] = inbox[i + MakeRoom.lost]
<1>1. InboxSlots \in Nat \ {0}
  BY RxPathAssumption
<1>2. CASE Len(inbox) = InboxSlots
  <2>1. inbox # <<>> /\ MakeRoom.rest = Tail(inbox) /\ MakeRoom.lost = 1
    BY <1>1, <1>2 DEF MakeRoom
  <2>2. /\ Tail(inbox) \in Seq(Frames) /\ Len(Tail(inbox)) = Len(inbox) - 1
        /\ \A i \in 1 .. Len(Tail(inbox)) : Tail(inbox)[i] = inbox[i + 1]
    BY <2>1, HeadTailProperties
  <2> QED
    BY <1>1, <1>2, <2>1, <2>2
<1>3. CASE Len(inbox) # InboxSlots
  <2>1. MakeRoom.rest = inbox /\ MakeRoom.lost = 0
    BY <1>3 DEF MakeRoom
  <2> QED
    BY <1>1, <1>3, <2>1
<1> QED
  BY <1>2, <1>3

LEMMA PopFrontIs ==
  ASSUME NEW q \in Seq(Frames)
  PROVE  /\ PopFront(q).got \in Seq(Frames) /\ PopFront(q).rest \in Seq(Frames)
         /\ Len(PopFront(q).got) = IF q = <<>> THEN 0 ELSE 1
         /\ Len(PopFront(q).rest) + Len(PopFront(q).got) = Len(q)
         /\ q # <<>> => PopFront(q).got # <<>> /\ PopFront(q).got[1] = q[1]
         /\ q = <<>> => PopFront(q).got = <<>>
         /\ \A i \in 1 .. Len(PopFront(q).rest) : PopFront(q).rest[i] = q[i + 1]
<1>1. CASE q = <<>>
  BY <1>1 DEF PopFront
<1>2. CASE q # <<>>
  <2>1. PopFront(q).got = <<Head(q)>> /\ PopFront(q).rest = Tail(q)
    BY <1>2 DEF PopFront
  <2>2. /\ Head(q) \in Frames /\ Head(q) = q[1]
        /\ Tail(q) \in Seq(Frames) /\ Len(Tail(q)) = Len(q) - 1
        /\ \A i \in 1 .. Len(Tail(q)) : Tail(q)[i] = q[i + 1]
    BY <1>2, HeadTailProperties
  <2>3. <<Head(q)>> \in Seq(Frames) /\ Len(<<Head(q)>>) = 1 /\ <<Head(q)>>[1] = Head(q)
    BY <2>2
  <2> QED
    BY <1>2, <2>1, <2>2, <2>3
<1> QED
  BY <1>1, <1>2

--------------------------------------------------------------------------------
(***************************************************************************)
(* Types, the lock and the counters                                        *)
(***************************************************************************)
Basics == TypeOK /\ Turns /\ Counts

\* The same of each counter by itself
CountersFit ==
  /\ armed \in 0 .. 2 /\ done \in 0 .. 2 /\ armed + done = 2 /\ pending \in BOOLEAN
  /\ capped \in 0 .. MaxCaps /\ caps \in 0 .. MaxCaps /\ capped <= caps
  /\ tagged \in 0 .. MaxTagged /\ nth \in 0 .. MaxFrames
  /\ stats.ok \in Nat /\ stats.dropped \in Nat /\ Len(inbox) \in Nat
  /\ owed \in Nat /\ unreported \in Nat
  /\ owed = Len(inbox) + stats.dropped /\ unreported = nth + stats.ok
  /\ MaxCaps \in Nat /\ MaxTagged \in Nat /\ MaxFrames \in Nat

LEMMA Numbers == Basics => CountersFit
<1> SUFFICES ASSUME Basics
             PROVE  CountersFit
  OBVIOUS
<1>1. stats.ok \in Nat /\ stats.dropped \in Nat /\ Len(inbox) \in Nat
  BY DEF Basics, TypeOK
<1> QED
  BY <1>1, RxPathAssumption DEF Basics, TypeOK, Counts, FramesConserved, StatsConserved, CountersFit

LEMMA AddOk ==
  ASSUME Basics
  PROVE  /\ [stats EXCEPT !.ok = @ + nth] \in [ok : Nat, dropped : Nat]
         /\ [stats EXCEPT !.ok = @ + nth].ok = stats.ok + nth
         /\ [stats EXCEPT !.ok = @ + nth].dropped = stats.dropped
<1>1. stats \in [ok : Nat, dropped : Nat] /\ nth \in Nat
  BY RxPathAssumption DEF Basics, TypeOK
<1> QED
  BY <1>1

LEMMA AddDropped ==
  ASSUME Basics, NEW n \in Nat
  PROVE  /\ [stats EXCEPT !.dropped = @ + n] \in [ok : Nat, dropped : Nat]
         /\ [stats EXCEPT !.dropped = @ + n].dropped = stats.dropped + n
         /\ [stats EXCEPT !.dropped = @ + n].ok = stats.ok
<1>1. stats \in [ok : Nat, dropped : Nat]
  BY DEF Basics, TypeOK
<1> QED
  BY <1>1

\* A capped carry
LEMMA CapsFit ==
  ASSUME CountersFit, Noise \/ Calm
  PROVE  capped' \in 0 .. MaxCaps /\ caps' \in 0 .. MaxCaps /\ capped' <= caps'
<1>1. capped \in 0 .. MaxCaps /\ caps \in 0 .. MaxCaps /\ capped <= caps /\ MaxCaps \in Nat
  BY DEF CountersFit
<1>2. \/ caps < MaxCaps /\ capped' = capped + 1 /\ caps' = caps + 1
      \/ capped' = capped /\ caps' = caps
  BY DEF Noise, Calm
<1> QED
  BY <1>1, <1>2

LEMMA TaggedFits ==
  ASSUME CountersFit, tagged' = tagged \/ tagged' = IF tagged < MaxTagged THEN tagged + 1 ELSE tagged
  PROVE  tagged' \in 0 .. MaxTagged
<1>1. tagged \in 0 .. MaxTagged /\ MaxTagged \in Nat
  BY DEF CountersFit
<1> QED
  BY <1>1

\* What is left when the drops, or a popped frame, are taken off
LEMMA TakeOff ==
  ASSUME NEW a \in Nat, NEW b \in Nat, NEW c \in Nat, NEW d \in Nat, a = b + c
  PROVE  a - c = b /\ (b - d \in Nat => a - d = (b - d) + c) /\ (d <= b => b - d \in Nat)
OBVIOUS

LEMMA ClearIs ==
  ASSUME Basics, C0Clear
  PROVE  owed' = Len(inbox) /\ unreported' = nth
<1>1. owed' = owed - stats.dropped /\ unreported' = unreported - stats.ok
  BY DEF C0Clear, Basics, Counts
<1>2. CountersFit
  BY Numbers
<1>3. /\ owed = Len(inbox) + stats.dropped /\ unreported = nth + stats.ok
      /\ owed \in Nat /\ Len(inbox) \in Nat /\ stats.dropped \in Nat
      /\ unreported \in Nat /\ nth \in Nat /\ stats.ok \in Nat
  BY <1>2 DEF CountersFit
<1>4. owed - stats.dropped = Len(inbox)
  BY <1>3, TakeOff
<1>5. unreported - stats.ok = nth
  BY <1>3, TakeOff
<1> QED
  BY <1>1, <1>4, <1>5

\* Every action but ThrPublish and C0Receive, one after the other.
LEMMA TypeKept ==
  ASSUME Basics, RingInv, Next
  PROVE  TypeOK' \/ ThrPublish \/ C0Receive
<1>n. CountersFit
  BY Numbers
<1>0. TypeOK
  BY DEF Basics
<1>1. CASE DmaComplete
  <2>1. armed' \in 0 .. 2 /\ done' \in 0 .. 2 /\ pending' \in BOOLEAN
    BY <1>1, <1>n DEF DmaComplete, CountersFit
  <2> QED
    BY <1>0, <1>1, <2>1 DEF DmaComplete, TypeOK, imgs, shared, hist
<1>2. CASE IrqDiscard
  <2>3. Rearm /\ (Noise \/ Calm) /\ pending' = FALSE
    BY <1>2 DEF IrqDiscard
  <2>4. armed' \in 0 .. 2 /\ done' \in 0 .. 2
    BY <2>3, <1>n DEF Rearm, CountersFit
  <2>1. armed' \in 0 .. 2 /\ done' \in 0 .. 2 /\ pending' \in BOOLEAN
    BY <2>3, <2>4
  <2>2. capped' \in 0 .. MaxCaps /\ caps' \in 0 .. MaxCaps
    BY <2>3, <1>n, CapsFit
  <2> QED
    BY <1>0, <1>2, <2>1, <2>2 DEF IrqDiscard, Return, TypeOK, imgs, shared
<1>3. CASE IrqEnter
  BY <1>0, <1>3 DEF IrqEnter, TypeOK, imgs, shared, hist
<1>4. CASE IrqFill
  <2>1. armed' \in 0 .. 2 /\ done' \in 0 .. 2 /\ pending' \in BOOLEAN
    BY <1>4, <1>n DEF IrqFill, Rearm, CountersFit
  <2>4. (Noise \/ Calm) /\ (tagged' = tagged \/ tagged' = IF tagged < MaxTagged THEN tagged + 1 ELSE tagged)
    BY <1>4 DEF IrqFill
  <2>5. tagged' \in 0 .. MaxTagged
    BY <2>4, <1>n, TaggedFits
  <2>6. capped' \in 0 .. MaxCaps /\ caps' \in 0 .. MaxCaps
    BY <2>4, <1>n, CapsFit
  <2>2. capped' \in 0 .. MaxCaps /\ caps' \in 0 .. MaxCaps /\ tagged' \in 0 .. MaxTagged
    BY <2>5, <2>6
  <2>3. ring' \in [0 .. Slots - 1 -> Images]
    <3>1. ring \in [0 .. Slots - 1 -> Images] /\ tagged + 1 \in Int /\ Quiet \in Images
      BY <1>0, <1>n DEF TypeOK, Images, Quiet, CountersFit
    <3>2. tagged < MaxTagged => tagged + 1 \in Images
      BY <1>n DEF Images, CountersFit
    <3>3. ring' = ring \/ \E n \in Images : ring' = [ring EXCEPT ![SlotOf(imgW)] = n]
      BY <1>4, <3>1, <3>2 DEF IrqFill
    <3> QED
      BY <3>1, <3>3
  <2> QED
    BY <1>0, <1>4, <2>1, <2>2, <2>3 DEF IrqFill, TypeOK, shared
<1>5. CASE IrqPublish \/ IrqDone \/ IrqClaim
  BY <1>0, <1>5, Successor
  DEF IrqPublish, IrqDone, IrqClaim, Return, Claim, Actors, TypeOK, dma, imgs, shared, hist
<1>6. CASE IrqMerge
  <2>1. capped' \in 0 .. MaxCaps
    BY <1>6, <1>n DEF IrqMerge, CountersFit
  <2> QED
    BY <1>0, <1>6, <2>1 DEF IrqMerge, Return, Release, TypeOK, dma, imgs, shared, hist
<1>7. CASE ThrCheck \/ ThrSleep
  BY <1>0, <1>7 DEF ThrCheck, ThrSleep, Thread, TypeOK, dma, imgs, shared, hist
<1>8. CASE ThrFrame \/ ThrScanned
  BY <1>0, <1>8 DEF ThrFrame, ThrScanned, Thread, Claim, Actors, TypeOK, dma, imgs, shared, hist
<1>9. CASE ThrMerge
  <2>1. stats' \in [ok : Nat, dropped : Nat] /\ nth' \in 0 .. MaxFrames
    BY <1>9, AddOk, <1>n DEF ThrMerge, CountersFit
  <2> QED
    BY <1>0, <1>9, <2>1 DEF ThrMerge, Thread, Release, TypeOK, dma, imgs, hist
<1>10. CASE ThrAdvance
  BY <1>0, <1>10, Successor DEF ThrAdvance, Thread, TypeOK, dma, shared, hist
<1>11. CASE \E op \in {"receive", "snapshot"} : C0Claim(op)
  BY <1>0, <1>11 DEF C0Claim, Claim, Actors, TypeOK, dma, imgs, shared, hist
<1>12. CASE C0Copy
  BY <1>0, <1>12 DEF C0Copy, TypeOK, dma, imgs, shared, hist
<1>13. CASE C0Clear
  <2>1. owed' = Len(inbox) /\ unreported' = nth
    BY <1>13, ClearIs
  <2>3. owed' \in Nat /\ unreported' \in Nat
    BY <1>n, <2>1 DEF CountersFit
  <2>2. NoCounts \in [ok : Nat, dropped : Nat]
    BY DEF NoCounts
  <2> QED
    BY <1>0, <1>13, <2>3, <2>2 DEF C0Clear, Release, TypeOK, dma, imgs
<1> QED
  BY <1>1, <1>2, <1>3, <1>4, <1>5, <1>6, <1>7, <1>8, <1>9, <1>10, <1>11, <1>12, <1>13
  DEF Next, IrqNext, ThreadNext, Core0Next

LEMMA TurnsKept ==
  ASSUME Basics, Next
  PROVE  Turns'
<1> USE DEF Basics, Turns, TypeOK
<1>1. CASE DmaComplete \/ IrqDiscard \/ IrqEnter \/ IrqFill \/ IrqPublish \/ IrqDone
  BY <1>1 DEF DmaComplete, IrqDiscard, IrqEnter, IrqFill, IrqPublish, IrqDone, Return
<1>2. CASE IrqClaim \/ IrqMerge
  BY <1>2 DEF IrqClaim, IrqMerge, Claim, LockFree, Release, Return
<1>3. CASE ThrCheck \/ ThrSleep \/ ThrAdvance
  BY <1>3 DEF ThrCheck, ThrSleep, ThrAdvance, Thread
<1>4. CASE ThrFrame \/ ThrScanned
  BY <1>4 DEF ThrFrame, ThrScanned, Thread, Claim, LockFree
<1>5. CASE ThrPublish \/ ThrMerge
  BY <1>5 DEF ThrPublish, ThrMerge, Thread, Release
<1>6. CASE (\E op \in {"receive", "snapshot"} : C0Claim(op)) \/ C0Receive \/ C0Copy \/ C0Clear
  BY <1>6 DEF C0Claim, C0Receive, C0Copy, C0Clear, Claim, LockFree, Release
<1> QED
  BY <1>1, <1>2, <1>3, <1>4, <1>5, <1>6 DEF Next, IrqNext, ThreadNext, Core0Next

LEMMA CountsKept ==
  ASSUME Basics, Next
  PROVE  Counts' \/ ThrPublish \/ C0Receive
<1>n. CountersFit
  BY Numbers
<1>0. Counts
  BY DEF Basics
<1> USE DEF Counts, FramesConserved, StatsConserved
<1>1. CASE DmaComplete
  <2>1. armed' = armed - 1 /\ done' = done + 1
    BY <1>1 DEF DmaComplete
  <2>2. armed' + done' = 2
    BY <2>1, <1>n DEF CountersFit
  <2> QED
    BY <1>0, <1>1, <2>2 DEF DmaComplete, shared, hist
<1>2. CASE IrqDiscard \/ IrqFill
  <2>1. armed' + done' = 2
    BY <1>2, <1>n DEF IrqDiscard, IrqFill, Rearm, CountersFit
  <2>2. capped' <= caps'
    BY <1>2, <1>n, CapsFit DEF IrqDiscard, IrqFill
  <2> QED
    BY <1>0, <1>2, <2>1, <2>2 DEF IrqDiscard, IrqFill, shared
<1>3. CASE IrqEnter \/ IrqPublish \/ IrqDone \/ IrqClaim
  BY <1>0, <1>3 DEF IrqEnter, IrqPublish, IrqDone, IrqClaim, dma, shared, hist
<1>4. CASE IrqMerge
  BY <1>0, <1>4, <1>n DEF IrqMerge, dma, shared, hist, CountersFit
<1>5. CASE ThrCheck \/ ThrSleep \/ ThrFrame \/ ThrScanned \/ ThrAdvance
  BY <1>0, <1>5 DEF ThrCheck, ThrSleep, ThrFrame, ThrScanned, ThrAdvance, dma, shared, hist
<1>6. CASE ThrMerge
  <2>1. stats'.ok = stats.ok + nth /\ stats'.dropped = stats.dropped
    BY <1>6, AddOk DEF ThrMerge
  <2>2. c0 # "clear" /\ c0' = c0
    BY <1>6 DEF ThrMerge, Thread, Turns, Basics
  <2> QED
    BY <1>0, <1>6, <2>1, <2>2, <1>n DEF ThrMerge, dma, hist, CountersFit
<1>7. CASE (\E op \in {"receive", "snapshot"} : C0Claim(op)) \/ C0Copy
  BY <1>0, <1>7 DEF C0Claim, C0Copy, dma, shared, hist
<1>8. CASE C0Clear
  <2>1. snap = stats /\ stats'.ok = 0 /\ stats'.dropped = 0 /\ c0' = "run"
    BY <1>0, <1>8 DEF C0Clear, NoCounts
  <2>2. owed' = Len(inbox) /\ unreported' = nth /\ inbox' = inbox /\ nth' = nth
    BY <1>8, ClearIs DEF C0Clear
  <2>4. Len(inbox) \in Nat /\ nth \in Nat
    BY <1>n DEF CountersFit
  <2>3. owed' = Len(inbox') + stats'.dropped /\ unreported' = nth' + stats'.ok
    BY <2>1, <2>2, <2>4
  <2> QED
    BY <1>0, <1>8, <2>1, <2>3 DEF C0Clear, dma
<1> QED
  BY <1>1, <1>2, <1>3, <1>4, <1>5, <1>6, <1>7, <1>8 DEF Next, IrqNext, ThreadNext, Core0Next

LEMMA ThrPublishBasics ==
  ASSUME Basics, RingInv, ThrPublish
  PROVE  Basics'
<1> DEFINE f == [image |-> ring[SlotOf(imgR)], nth |-> nth + 1]
<1>n. CountersFit
  BY Numbers
<1>1. ring[SlotOf(imgR)] \in Images /\ nth < MaxFrames /\ nth \in 0 .. MaxFrames
  BY Positions DEF ThrPublish, Thread, RingInv, Basics, TypeOK
<1>2. nth + 1 \in 1 .. MaxFrames
  BY <1>1, RxPathAssumption
<1>3. f \in Frames
  BY <1>1, <1>2 DEF Frames
<1>4. inbox \in Seq(Frames) /\ Len(inbox) <= InboxSlots
  BY DEF Basics, TypeOK
<1>5. /\ inbox' \in Seq(Frames) /\ Len(inbox') = Len(MakeRoom.rest) + 1
      /\ stats' = [stats EXCEPT !.dropped = @ + MakeRoom.lost]
  <2>1. inbox' = Append(MakeRoom.rest, f) /\ stats' = [stats EXCEPT !.dropped = @ + MakeRoom.lost]
    BY DEF ThrPublish
  <2> HIDE DEF f
  <2> QED
    BY <1>3, <1>4, <2>1, MakeRoomIs, AppendProperties
<1> HIDE DEF f
<1>6. MakeRoom.lost \in {0, 1} /\ Len(inbox') + MakeRoom.lost = Len(inbox) + 1 /\ Len(inbox') <= InboxSlots
  <2>1. /\ MakeRoom.lost \in {0, 1} /\ Len(MakeRoom.rest) + MakeRoom.lost = Len(inbox)
        /\ Len(MakeRoom.rest) < InboxSlots /\ Len(MakeRoom.rest) \in Nat /\ Len(inbox) \in Nat
    BY <1>4, MakeRoomIs
  <2>2. InboxSlots \in Nat
    BY RxPathAssumption
  <2> QED
    BY <1>5, <2>1, <2>2
<1>7. stats'.dropped = stats.dropped + MakeRoom.lost /\ stats'.ok = stats.ok /\ stats' \in [ok : Nat, dropped : Nat]
  BY <1>5, <1>6, AddDropped
<1>8. TypeOK'
  <2>1. /\ owed' \in Nat /\ unreported' \in Nat /\ nth' \in 0 .. MaxFrames /\ lock' \in Actors \cup {"free"}
        /\ thr' \in {"wfi", "check", "return", "scan", "publish", "merge", "advance"}
    <3>1. /\ owed' = owed + 1 /\ unreported' = unreported + 1 /\ nth' = nth + 1 /\ lock' = "free" /\ thr' = "scan"
      BY DEF ThrPublish, Thread, Release
    <3>2. owed \in Nat /\ unreported \in Nat /\ MaxFrames \in Nat
      BY <1>n DEF CountersFit
    <3> QED
      BY <1>2, <3>1, <3>2
  <2> QED
    BY <1>5, <1>6, <1>7, <2>1 DEF ThrPublish, Basics, TypeOK, dma, imgs
<1>9. Turns'
  BY DEF ThrPublish, Thread, Release, Basics, Turns
<1>10. Counts'
  <2>1. owed' = Len(inbox') + stats'.dropped
    <3>1. owed' = owed + 1 /\ Len(inbox') \in Nat
      BY <1>5 DEF ThrPublish
    <3>2. /\ owed = Len(inbox) + stats.dropped /\ Len(inbox) \in Nat /\ stats.dropped \in Nat
          /\ owed \in Nat
      BY <1>n DEF CountersFit
    <3> DEFINE k == MakeRoom.lost
               d == stats.dropped
               n == Len(inbox)
               e == Len(inbox')
    <3>3. k \in Int /\ e + k = n + 1 /\ owed = n + d /\ n \in Int /\ d \in Int /\ e \in Int
      BY <1>6, <3>1, <3>2
    <3>4. owed' = owed + 1 /\ stats'.dropped = d + k
      BY <1>7, <3>1
    <3> HIDE DEF k, d, n, e
    <3>5. owed' = e + (d + k)
      BY <3>3, <3>4
    <3> QED
      BY <3>4, <3>5 DEF e
  <2>2. unreported' = nth' + stats'.ok
    <3>1. unreported' = unreported + 1 /\ nth' = nth + 1
      BY DEF ThrPublish
    <3>2. unreported = nth + stats.ok /\ stats.ok \in Nat /\ nth \in 0 .. MaxFrames /\ MaxFrames \in Nat
      BY <1>n DEF CountersFit
    <3> QED
      BY <1>7, <3>1, <3>2
  <2> QED
    BY <2>1, <2>2 DEF ThrPublish, Thread, Basics, Turns, Counts, FramesConserved, StatsConserved, dma
<1> QED
  BY <1>8, <1>9, <1>10 DEF Basics

LEMMA C0ReceiveBasics ==
  ASSUME Basics, RingInv, C0Receive
  PROVE  Basics'
<1>n. CountersFit
  BY Numbers
<1>1. inbox \in Seq(Frames) /\ Len(inbox) <= InboxSlots
  BY DEF Basics, TypeOK
<1>2. /\ inbox' \in Seq(Frames) /\ Len(PopFront(inbox).got) \in {0, 1}
      /\ Len(inbox') + Len(PopFront(inbox).got) = Len(inbox) /\ last' \in Seq(Frames)
      /\ owed' = owed - Len(PopFront(inbox).got)
  BY <1>1, PopFrontIs DEF C0Receive, Basics, TypeOK
<1>3. owed' = Len(inbox') + stats'.dropped /\ owed' \in Nat /\ Len(inbox') <= InboxSlots
  <2>1. stats' = stats /\ Len(inbox') \in Nat /\ InboxSlots \in Nat
    BY <1>2, RxPathAssumption DEF C0Receive
  <2>2. owed = Len(inbox) + stats.dropped /\ Len(inbox) \in Nat /\ stats.dropped \in Nat
    BY <1>n DEF CountersFit
  <2>3. owed \in Nat /\ Len(PopFront(inbox).got) \in Nat
    BY <1>2, <1>n DEF CountersFit
  <2>4. Len(inbox') = Len(inbox) - Len(PopFront(inbox).got)
    BY <1>2, <2>1, <2>2, <2>3
  <2>5. owed - Len(PopFront(inbox).got) = Len(inbox') + stats.dropped
    BY <2>1, <2>2, <2>3, <2>4, TakeOff
  <2>6. Len(inbox') <= InboxSlots
    BY <1>1, <1>2, <2>1, <2>2, <2>3
  <2>7. owed' \in Nat
    BY <1>2, <2>1, <2>2, <2>5
  <2> QED
    BY <1>2, <2>1, <2>5, <2>6, <2>7
<1>4. TypeOK'
  BY <1>2, <1>3 DEF C0Receive, Release, Basics, TypeOK, dma, imgs
<1>5. Turns'
  BY DEF C0Receive, Release, Basics, Turns
<1> QED
  BY <1>3, <1>4, <1>5 DEF C0Receive, Basics, Turns, Counts, FramesConserved, StatsConserved, dma

LEMMA BasicsKept ==
  ASSUME Basics, RingInv, Next
  PROVE  Basics'
BY TypeKept, TurnsKept, CountsKept, ThrPublishBasics, C0ReceiveBasics DEF Basics

--------------------------------------------------------------------------------
(***************************************************************************)
(* The ring                                                                *)
(***************************************************************************)
LEMMA FillsElsewhere ==
  ASSUME imgW \in Seqs, imgR \in Seqs, Backlog < Slots, NEW i \in 0 .. Backlog - 1,
         Aligned \/ imgR + Backlog < SeqMod
  PROVE  Place[i] # Place[Backlog]
<1>1. Backlog \in Nat /\ imgR \in Nat /\ i \in Nat /\ Slots \in Nat
  BY Positions, RxPathAssumption DEF Seqs
<1> HIDE DEF Backlog
<1>2. /\ imgR + i \in Nat /\ imgR + Backlog \in Nat
      /\ imgR + i < imgR + Backlog /\ (imgR + Backlog) - (imgR + i) < Slots
  BY <1>1
<1>3. SlotOf((imgR + i) % SeqMod) # SlotOf((imgR + Backlog) % SeqMod)
  BY <1>2, SlotsApart
<1> QED
  BY <1>1, <1>3 DEF Place

LEMMA Elsewhere ==
  ASSUME TypeOK
  PROVE  /\ Backlog \in Nat /\ Filled \in Nat
         /\ \A i \in Nat : Image[i] = ring[Place[i]] /\ Image[i] \in 0 .. MaxTagged
         /\ Image[0] = ring[SlotOf(imgR)] /\ Place[Backlog] = SlotOf(imgW)
<1>1. /\ Backlog \in Nat /\ Place[0] = SlotOf(imgR) /\ Place[Backlog] = SlotOf(imgW)
      /\ \A i \in Nat : Place[i] \in 0 .. Slots - 1
  BY Positions DEF TypeOK
<1> HIDE DEF Backlog, Place
<1>2. Filled \in Nat
  BY <1>1 DEF Filled
<1>3. ring \in [0 .. Slots - 1 -> 0 .. MaxTagged]
  BY DEF TypeOK, Images
<1>4. \A i \in Nat : Image[i] = ring[Place[i]] /\ Image[i] \in 0 .. MaxTagged
  BY <1>1, <1>3 DEF Image
<1> QED
  BY <1>1, <1>2, <1>4

\* An image filled in leaves those before it alone; or the waiting images straddle the wrap, none
\* of them has a number any more, nor has the new one.
LEMMA FillIs ==
  ASSUME Followed, TypeOK, RingInv, BeforeWrap, IrqFill, irq' = "publish"
  PROVE  /\ Backlog' = Backlog /\ Filled = Backlog /\ Filled' = Backlog + 1
         /\ \A i \in 0 .. Backlog - 1 : Image'[i] = Image[i]
         /\ Image'[Backlog] = IF tagged < MaxTagged THEN tagged + 1 ELSE Quiet
         /\ tagged' = IF tagged < MaxTagged THEN tagged + 1 ELSE tagged
<1> DEFINE n == IF tagged < MaxTagged THEN tagged + 1 ELSE Quiet
<1>1. /\ ring' = [ring EXCEPT ![SlotOf(imgW)] = n] /\ irq = "fill"
      /\ tagged' = IF tagged < MaxTagged THEN tagged + 1 ELSE tagged
      /\ imgW' = imgW /\ imgR' = imgR
  BY DEF IrqFill
<1>11. ~(tagged < MaxTagged) => n = Quiet
  OBVIOUS
<1> HIDE DEF n
<1>2. /\ Backlog \in Nat /\ Backlog < Slots /\ Place[Backlog] = SlotOf(imgW) /\ Place[0] = SlotOf(imgR)
      /\ \A i \in Nat : Place[i] \in 0 .. Slots - 1
  BY <1>1, Positions DEF RingInv, TypeOK
<1>3. Backlog' = Backlog /\ Place' = Place
  BY <1>1 DEF Backlog, Place
<1>5. ring \in [0 .. Slots - 1 -> Images] /\ imgW \in Seqs /\ imgR \in Seqs
  BY DEF TypeOK
<1>4. Aligned \/ imgR + Backlog < SeqMod => \A i \in 0 .. Backlog - 1 : Place[i] # Place[Backlog]
  BY <1>2, <1>5, FillsElsewhere
<1>6. Filled = Backlog /\ Filled' = Backlog + 1
  BY <1>1, <1>3 DEF Filled
<1>12. ASSUME ~Aligned, ~(imgR + Backlog < SeqMod)
       PROVE  n = Quiet /\ \A i \in 0 .. Backlog - 1 : Image[i] = Quiet
  <2>1. /\ MaxTagged + Slots <= SeqMod
        /\ tagged < MaxTagged => imgR + Backlog = tagged
        /\ \A i \in 0 .. Backlog - 1 : Image[i] # Quiet => imgR + i < MaxTagged
    BY <1>6, <1>12 DEF Followed, BeforeWrap
  <2>2. Slots \in Nat \ {0} /\ SeqMod \in Nat \ {0} /\ MaxTagged \in Nat /\ tagged \in Nat /\ imgR \in Nat
    BY <1>5, RxPathAssumption DEF TypeOK, Seqs
  <2> HIDE DEF Backlog, Image
  <2>3. ~(tagged < MaxTagged)
    BY <1>2, <1>12, <2>1, <2>2
  <2>4. \A i \in 0 .. Backlog - 1 : ~(imgR + i < MaxTagged)
    BY <1>2, <1>12, <2>1, <2>2
  <2> QED
    BY <1>11, <2>1, <2>3, <2>4
<1> HIDE DEF Backlog, Place
<1>7. \A i \in Nat : Image[i] = ring[Place[i]] /\ Image'[i] = ring'[Place[i]]
  BY <1>3 DEF Image
<1> HIDE DEF Image
<1>9. ring'[Place[Backlog]] = n
  BY <1>1, <1>2, <1>5
<1>8. ASSUME NEW i \in 0 .. Backlog - 1
      PROVE  Image'[i] = Image[i]
  <2>1. i \in Nat /\ Image[i] = ring[Place[i]] /\ Image'[i] = ring'[Place[i]]
    BY <1>2, <1>7
  <2>2. CASE Place[i] # Place[Backlog]
    BY <1>1, <1>2, <1>5, <2>1, <2>2
  <2>3. CASE Place[i] = Place[Backlog]
    BY <1>4, <1>9, <1>12, <2>1, <2>3
  <2> QED
    BY <2>2, <2>3
<1> QED
  BY <1>1, <1>2, <1>3, <1>6, <1>7, <1>8, <1>9 DEF n

LEMMA RingKept ==
  ASSUME Basics, RingInv, Next
  PROVE  RingInv'
<1>0. TypeOK /\ imgW \in Seqs /\ imgR \in Seqs /\ Slots \in Nat \ {0} /\ MaxFrames \in Nat
  BY RxPathAssumption DEF Basics, TypeOK
<1>1. Backlog \in Nat /\ (imgR = imgW <=> Backlog = 0)
  BY <1>0, Positions
<1>2. ASSUME imgs' = imgs
      PROVE  Backlog' = Backlog
  BY <1>2 DEF imgs, Backlog
<1>3. CASE DmaComplete \/ IrqClaim \/ C0Receive \/ C0Copy \/ C0Clear
           \/ (\E op \in {"receive", "snapshot"} : C0Claim(op))
  <2>1. imgs' = imgs /\ thr' = thr /\ nth' = nth /\ (irq' = irq \/ irq' \notin {"fill", "publish"})
    BY <1>3 DEF DmaComplete, IrqClaim, C0Receive, C0Copy, C0Clear, C0Claim
  <2> QED
    BY <1>2, <2>1 DEF RingInv
<1>4. CASE IrqDiscard \/ IrqDone \/ IrqMerge
  <2>1. imgs' = imgs /\ nth' = nth /\ irq' = "idle" /\ (thr' = thr \/ thr' = "check")
    BY <1>4 DEF IrqDiscard, IrqDone, IrqMerge, Return
  <2> QED
    BY <1>2, <2>1 DEF RingInv
<1>5. CASE IrqEnter
  <2>1. imgs' = imgs /\ thr' = thr /\ nth' = nth /\ ~(Backlog >= Slots)
    BY <1>5 DEF IrqEnter, RingFull
  <2> QED
    BY <1>0, <1>1, <1>2, <2>1 DEF RingInv
<1>6. CASE IrqFill
  <2>1. /\ imgR' = imgR /\ imgW' = imgW /\ thr' = thr /\ nth' = nth
        /\ irq = "fill" /\ (irq' = "publish" \/ irq' = "merge?")
    BY <1>6 DEF IrqFill
  <2>2. Backlog' = Backlog
    BY <2>1 DEF Backlog
  <2> QED
    BY <2>1, <2>2 DEF RingInv
<1>7. CASE IrqPublish
  <2>1. imgW' = SeqNext(imgW) /\ imgR' = imgR /\ ring' = ring /\ thr' = thr /\ nth' = nth
        /\ irq = "publish" /\ irq' = "merge?"
    BY <1>7 DEF IrqPublish
  <2>2. Backlog < Slots
    BY <2>1 DEF RingInv
  <2>3. Backlog' = Backlog + 1
    BY <1>0, <2>1, <2>2, Grows
  <2>4. Backlog' <= Slots /\ (Backlog >= 1 => Backlog' >= 1)
    BY <1>0, <1>1, <2>2, <2>3
  <2> QED
    BY <2>1, <2>4 DEF RingInv
<1>8. CASE ThrCheck
  <2>1. imgs' = imgs /\ irq' = irq /\ (thr' = "return" \/ (thr' = "scan" /\ imgR # imgW))
    BY <1>8 DEF ThrCheck, Thread
  <2>2. imgR # imgW => Backlog >= 1
    BY <1>1
  <2> QED
    BY <1>2, <2>1, <2>2 DEF RingInv
<1>9. CASE ThrSleep \/ ThrFrame \/ ThrScanned \/ ThrPublish \/ ThrMerge
  <2>1. /\ imgs' = imgs /\ irq' = irq
        /\ \/ thr' = "wfi"
           \/ /\ thr' = "publish" /\ thr = "scan"
              /\ nth' = nth /\ nth < MaxFrames
           \/ thr' \in {"scan", "merge", "advance"} /\ thr \in {"scan", "publish", "merge"}
    <3>1. \A n \in Images : FramesIn(n) <= MaxFrames
      BY <1>0 DEF FramesIn, Images
    <3>2. ring[SlotOf(imgR)] \in Images /\ nth \in Nat
      BY <1>0, Positions DEF TypeOK
    <3>3. FramesIn(ring[SlotOf(imgR)]) \in Int /\ FramesIn(ring[SlotOf(imgR)]) <= MaxFrames
      BY <1>0, <3>1, <3>2, RxPathAssumption DEF FramesIn, Images
    <3>4. nth < FramesIn(ring[SlotOf(imgR)]) => nth < MaxFrames
      BY <1>0, <3>2, <3>3
    <3> QED
      BY <1>9, <3>4 DEF ThrSleep, ThrFrame, ThrScanned, ThrPublish, ThrMerge, Thread
  <2> QED
    BY <1>2, <2>1 DEF RingInv
<1>10. CASE ThrAdvance
  <2>1. /\ imgR' = SeqNext(imgR) /\ imgW' = imgW /\ irq' = irq /\ irq = "idle"
        /\ thr = "advance" /\ thr' = "check"
    BY <1>10 DEF ThrAdvance, Thread
  <2>2. Backlog >= 1 /\ Backlog <= Slots
    BY <2>1 DEF RingInv
  <2>3. Backlog' = Backlog - 1
    BY <1>0, <2>1, <2>2, Shrinks
  <2>4. Backlog' <= Slots
    BY <1>0, <1>1, <2>2, <2>3
  <2> QED
    BY <2>1, <2>4 DEF RingInv
<1> QED
  BY <1>3, <1>4, <1>5, <1>6, <1>7, <1>8, <1>9, <1>10 DEF Next, IrqNext, ThreadNext, Core0Next

--------------------------------------------------------------------------------
(***************************************************************************)
(* The order of the images in the ring and of the frames handed over       *)
(***************************************************************************)
Order == Numbered /\ InOrder

\* What a step may assume of the ring it finds
Ordered == Order /\ Finding /\ BeforeWrap

\* A step that fills no place and hands nothing over
LEMMA OrderFrame ==
  ASSUME TypeOK, Order, Filled' = Filled, Image' = Image, tagged' = tagged,
         inbox' = inbox, last' = last, Progress <= Progress', Progress \in Nat, Progress' \in Nat
  PROVE  Order'
<1>1. Numbered'
  BY DEF Order, Numbered
<1>2. \A f \in Frames : f.nth \in Nat
  BY RxPathAssumption DEF Frames
<1>3. HandedOver \subseteq HandedOver'
  BY <1>2 DEF HandedOver
<1>4. InOrder'
  BY <1>3 DEF Order, InOrder
<1> QED
  BY <1>1, <1>4 DEF Order

LEMMA ProgressIs ==
  ASSUME TypeOK
  PROVE  Progress \in 0 .. MaxFrames /\ nth <= Progress
BY RxPathAssumption DEF TypeOK, Progress

LEMMA FillKeepsOrder ==
  ASSUME Followed, TypeOK, RingInv, Order, BeforeWrap, IrqFill, irq' = "publish"
  PROVE  Order'
<1>1. /\ Backlog \in Nat /\ \A i \in Nat : Image[i] \in 0 .. MaxTagged
      /\ tagged \in 0 .. MaxTagged /\ MaxTagged \in Nat
  BY Elsewhere, RxPathAssumption DEF TypeOK
<1>2. /\ Filled = Backlog /\ Filled' = Backlog + 1
      /\ \A i \in 0 .. Backlog - 1 : Image'[i] = Image[i]
      /\ Image'[Backlog] = IF tagged < MaxTagged THEN tagged + 1 ELSE Quiet
      /\ tagged' = IF tagged < MaxTagged THEN tagged + 1 ELSE tagged
  BY FillIs
<1>3. inbox' = inbox /\ last' = last /\ Progress' = Progress
  BY DEF IrqFill, shared, Progress
<1> HIDE DEF Backlog, Filled, Image, Progress
<1>4. Numbered
  BY DEF Order
<1>5. ASSUME NEW i \in 0 .. Filled' - 1
      PROVE  Image'[i] <= tagged' /\ (Image'[i] = Quiet => tagged' = MaxTagged)
  BY <1>1, <1>2, <1>4 DEF Numbered, Quiet
<1>6. ASSUME NEW i \in 0 .. Filled' - 1, NEW j \in 0 .. Filled' - 1, i < j
      PROVE  Image'[j] = Quiet \/ (Image'[i] # Quiet /\ Image'[i] < Image'[j])
  <2>1. i \in 0 .. Backlog - 1 /\ Image'[i] = Image[i]
    BY <1>1, <1>2, <1>6
  <2>2. CASE j = Backlog
    BY <1>1, <1>2, <1>4, <2>1, <2>2 DEF Numbered, Quiet
  <2>3. CASE j # Backlog
    <3>1. j \in 0 .. Backlog - 1
      BY <1>1, <1>2, <2>3
    <3> QED
      BY <1>2, <1>4, <1>6, <2>1, <3>1 DEF Numbered
  <2> QED
    BY <2>2, <2>3
<1>7. Numbered'
  BY <1>5, <1>6 DEF Numbered
<1>8. ASSUME NEW f \in HandedOver
      PROVE  f \in HandedOver'
  <2>1. f \in Frames /\ f.image \in 0 .. MaxTagged /\ f.image <= tagged
    BY DEF HandedOver, Frames, Images
  <2>2. f.image <= tagged'
    BY <1>1, <1>2, <2>1
  <2>3. ASSUME NEW i \in 0 .. Filled' - 1, Image'[i] # Quiet
        PROVE  f.image < Image'[i] \/ (i = 0 /\ f.image = Image'[i] /\ f.nth <= Progress')
    <3>1. CASE i \in 0 .. Backlog - 1
      BY <1>2, <1>3, <2>3, <3>1 DEF HandedOver
    <3>2. CASE i = Backlog
      BY <1>1, <1>2, <2>1, <2>3, <3>2
    <3> QED
      BY <1>1, <1>2, <3>1, <3>2
  <2> QED
    BY <2>1, <2>2, <2>3 DEF HandedOver
<1>9. InOrder'
  BY <1>3, <1>8 DEF Order, InOrder
<1> QED
  BY <1>7, <1>9 DEF Order

LEMMA AdvanceKeepsOrder ==
  ASSUME TypeOK, RingInv, Order, ThrAdvance
  PROVE  Order'
<1>1. /\ imgR' = SeqNext(imgR) /\ imgW' = imgW /\ irq = "idle" /\ irq' = "idle" /\ ring' = ring
      /\ tagged' = tagged /\ inbox' = inbox /\ last' = last /\ thr = "advance"
  BY DEF ThrAdvance, Thread, hist, shared
<1>2. Backlog \in Nat /\ Backlog >= 1
  BY <1>1, Elsewhere DEF RingInv
<1>3. Backlog' = Backlog - 1 /\ \A i \in Nat : Place'[i] = Place[i + 1]
  BY <1>1, <1>2, Shrinks DEF TypeOK
<1>4. Filled = Backlog /\ Filled' = Backlog'
  BY <1>1 DEF Filled
<1>5. \A i \in Nat : Image'[i] = Image[i + 1]
  <2>1. \A i \in Nat : Image'[i] = ring[Place'[i]] /\ Image[i + 1] = ring[Place[i + 1]]
    BY <1>1 DEF Image
  <2> QED
    BY <1>3, <2>1
<1> HIDE DEF Backlog, Place, Filled, Image
<1>6. ASSUME NEW i \in 0 .. Filled' - 1
      PROVE  i \in Nat /\ i + 1 \in 0 .. Filled - 1 /\ i + 1 # 0 /\ Image'[i] = Image[i + 1]
  BY <1>2, <1>3, <1>4, <1>5
<1>7. \A i, j \in 0 .. Filled' - 1 : i < j => i + 1 < j + 1
  BY <1>2, <1>3, <1>4
<1>8. Numbered'
  BY <1>1, <1>6, <1>7 DEF Order, Numbered
<1>9. HandedOver \subseteq HandedOver'
  BY <1>1, <1>6 DEF HandedOver
<1>10. InOrder'
  BY <1>1, <1>9 DEF Order, InOrder
<1> QED
  BY <1>8, <1>10 DEF Order

\* The frame found next comes after all that were handed over.
LEMMA PublishKeepsOrder ==
  ASSUME Basics, RingInv, Order, Finding, ThrPublish
  PROVE  Order'
<1> DEFINE f == [image |-> Image[0], nth |-> nth + 1]
<1>1. TypeOK /\ Backlog \in Nat /\ Filled \in Nat /\ Image[0] = ring[SlotOf(imgR)]
      /\ \A i \in Nat : Image[i] \in 0 .. MaxTagged
  BY Elsewhere DEF Basics
<1>2. /\ inbox' = Append(MakeRoom.rest, f) /\ last' = last /\ tagged' = tagged /\ nth' = nth + 1
      /\ imgs' = imgs /\ irq' = irq /\ thr = "publish" /\ thr' = "scan"
  BY <1>1 DEF ThrPublish, Thread
<1>3. Filled' = Filled /\ Image' = Image /\ Progress = nth /\ Progress' = nth + 1
  BY <1>2 DEF Filled, Image, Place, Backlog, imgs, Progress
<1>4. Backlog >= 1 /\ nth < FramesIn(Image[0])
  BY <1>1, <1>2 DEF RingInv, Finding
<1>5. Filled >= 1
  BY <1>1, <1>4 DEF Filled
<1> HIDE DEF Backlog, Filled, Image, Progress
<1>6. Image[0] # Quiet /\ nth + 1 \in 1 .. MaxFrames /\ Image[0] \in 1 .. MaxTagged /\ nth \in Nat
  <2>1. nth \in 0 .. MaxFrames /\ MaxFrames \in Nat /\ MaxTagged \in Nat /\ Image[0] \in 0 .. MaxTagged
    BY <1>1, RxPathAssumption DEF TypeOK
  <2>2. Image[0] # Quiet
    BY <1>4, <2>1 DEF FramesIn
  <2>3. nth < MaxFrames
    BY <1>4, <2>1, <2>2 DEF FramesIn
  <2> QED
    BY <2>1, <2>2, <2>3 DEF Quiet
<1>7. Numbered'
  BY <1>2, <1>3 DEF Order, Numbered
<1>8. f \in Frames /\ f.image = Image[0] /\ f.nth = nth + 1
  BY <1>6 DEF Frames, Images
<1> HIDE DEF f
<1>9. \A g \in HandedOver : g \in HandedOver'
  <2>1. \A g \in Frames : g.nth \in Nat
    BY RxPathAssumption DEF Frames
  <2>2. \A g \in Frames : g.nth <= nth => g.nth <= nth + 1
    BY <1>6, <2>1
  <2> QED
    BY <1>2, <1>3, <2>2 DEF HandedOver
<1>10. f \in HandedOver'
  <2>1. Numbered /\ 0 \in 0 .. Filled - 1
    BY <1>1, <1>5 DEF Order
  <2>2. Image[0] <= tagged
    BY <2>1 DEF Numbered
  <2>3. ASSUME NEW i \in 0 .. Filled - 1, Image[i] # Quiet
        PROVE  f.image < Image[i] \/ (i = 0 /\ f.image = Image[i] /\ f.nth <= nth + 1)
    <3>1. CASE i = 0
      BY <1>6, <1>8, <3>1
    <3>2. CASE i # 0
      <4>1. 0 < i
        BY <3>2
      <4> QED
        BY <1>8, <2>1, <2>3, <4>1 DEF Numbered
    <3> QED
      BY <3>1, <3>2
  <2> QED
    BY <1>2, <1>3, <1>8, <2>2, <2>3 DEF HandedOver
<1>11. ASSUME NEW g \in HandedOver
       PROVE  Later(g, f)
  <2>1. g \in Frames /\ (g.image < Image[0] \/ (g.image = Image[0] /\ g.nth <= nth))
    <3>1. 0 \in 0 .. Filled - 1
      BY <1>1, <1>5
    <3> QED
      BY <1>3, <1>6, <3>1 DEF HandedOver
  <2>2. g.nth \in Nat
    BY <2>1, RxPathAssumption DEF Frames
  <2>3. g.nth <= nth => g.nth < nth + 1
    BY <1>6, <2>2
  <2> QED
    BY <1>8, <2>1, <2>3 DEF Later
<1> DEFINE r == MakeRoom.rest
           k == MakeRoom.lost
<1>12. /\ r \in Seq(Frames) /\ k \in {0, 1} /\ Len(inbox) \in Nat
       /\ Len(r) \in Nat /\ Len(r) + k = Len(inbox)
       /\ \A i \in 1 .. Len(r) : r[i] = inbox[i + k]
  BY <1>1, MakeRoomIs DEF TypeOK
<1>20. inbox' = Append(r, f)
  BY <1>2
<1> HIDE DEF r, k
<1>13. /\ Len(inbox') = Len(r) + 1 /\ inbox'[Len(r) + 1] = f
       /\ \A i \in 1 .. Len(r) : inbox'[i] = r[i]
  BY <1>8, <1>12, <1>20, AppendProperties
<1>14. \A i \in 1 .. Len(r) : i + k \in 1 .. Len(inbox) /\ inbox'[i] = inbox[i + k]
  BY <1>12, <1>13
<1>15. \A i \in 1 .. Len(inbox') : i \in 1 .. Len(r) \/ (i = Len(r) + 1 /\ inbox'[i] = f)
  BY <1>12, <1>13
<1>16. \A i \in 1 .. Len(inbox') : inbox'[i] \in HandedOver'
  BY <1>9, <1>10, <1>14, <1>15 DEF Order, InOrder
<1>17. Len(last) = 1 => \A i \in 1 .. Len(inbox') : Later(last[1], inbox'[i])
  BY <1>11, <1>14, <1>15 DEF Order, InOrder
<1>18. ASSUME NEW i \in 1 .. Len(inbox'), NEW j \in 1 .. Len(inbox'), i < j
       PROVE  Later(inbox'[i], inbox'[j])
  <2>1. i \in 1 .. Len(r)
    BY <1>12, <1>13, <1>15, <1>18
  <2>2. CASE j \in 1 .. Len(r)
    <3>1. i + k < j + k /\ i + k \in 1 .. Len(inbox) /\ j + k \in 1 .. Len(inbox)
      BY <1>12, <1>14, <1>18, <2>1, <2>2
    <3> QED
      BY <1>14, <2>1, <2>2, <3>1 DEF Order, InOrder
  <2>3. CASE inbox'[j] = f
    BY <1>11, <1>14, <2>1, <2>3 DEF Order, InOrder
  <2> QED
    BY <1>15, <2>2, <2>3
<1>19. InOrder'
  BY <1>2, <1>9, <1>16, <1>17, <1>18 DEF Order, InOrder
<1> QED
  BY <1>7, <1>19 DEF Order

LEMMA ReceiveKeepsOrder ==
  ASSUME TypeOK, Order, C0Receive
  PROVE  Order'
<1>1. /\ inbox' = PopFront(inbox).rest /\ tagged' = tagged /\ imgs' = imgs
      /\ irq' = irq /\ thr' = thr /\ nth' = nth
      /\ last' = IF PopFront(inbox).got = <<>> THEN last ELSE PopFront(inbox).got
  BY DEF C0Receive
<1>2. Filled' = Filled /\ Image' = Image /\ Progress' = Progress
  BY <1>1 DEF Filled, Image, Place, Backlog, imgs, Progress
<1>3. Numbered'
  BY <1>1, <1>2 DEF Order, Numbered
<1>4. HandedOver' = HandedOver
  BY <1>1, <1>2 DEF HandedOver
<1>5. inbox \in Seq(Frames) /\ Len(inbox) \in Nat
  BY DEF TypeOK
<1>6. CASE inbox = <<>>
  <2>1. inbox' = inbox /\ last' = last
    BY <1>1, <1>6 DEF PopFront
  <2> QED
    BY <1>3, <1>4, <2>1 DEF Order, InOrder
<1>7. CASE inbox # <<>>
  <2>1. /\ Len(last') = 1 /\ last'[1] = inbox[1] /\ Len(inbox') \in Nat /\ Len(inbox') + 1 = Len(inbox)
        /\ \A i \in 1 .. Len(inbox') : inbox'[i] = inbox[i + 1]
    <3>1. /\ PopFront(inbox).got # <<>> /\ PopFront(inbox).got[1] = inbox[1]
          /\ Len(PopFront(inbox).got) = 1
          /\ PopFront(inbox).rest \in Seq(Frames)
          /\ Len(PopFront(inbox).rest) + Len(PopFront(inbox).got) = Len(inbox)
          /\ \A i \in 1 .. Len(PopFront(inbox).rest) : PopFront(inbox).rest[i] = inbox[i + 1]
      BY <1>5, <1>7, PopFrontIs
    <3>2. inbox' = PopFront(inbox).rest /\ last' = PopFront(inbox).got
      BY <1>1, <3>1
    <3>3. inbox' \in Seq(Frames)
      BY <3>1, <3>2
    <3>4. Len(inbox') \in Nat
      BY <3>3
    <3> QED
      BY <3>1, <3>2, <3>4
  <2>2. \A i \in 1 .. Len(inbox') : i + 1 \in 1 .. Len(inbox) /\ 1 < i + 1
    BY <1>5, <2>1
  <2>3. 1 \in 1 .. Len(inbox)
    BY <1>5, <2>1
  <2>4. \A i, j \in 1 .. Len(inbox') : i < j => i + 1 < j + 1
    BY <2>1
  <2>5. InOrder
    BY DEF Order
  <2>6. \A i \in 1 .. Len(inbox') : inbox'[i] \in HandedOver'
    BY <1>4, <2>1, <2>2, <2>5 DEF InOrder
  <2>7. last'[1] \in HandedOver'
    BY <1>4, <2>1, <2>3, <2>5 DEF InOrder
  <2>8. \A i \in 1 .. Len(inbox') : Later(last'[1], inbox'[i])
    BY <2>1, <2>2, <2>3, <2>5 DEF InOrder
  <2>9. \A i, j \in 1 .. Len(inbox') : i < j => Later(inbox'[i], inbox'[j])
    BY <2>1, <2>2, <2>4, <2>5 DEF InOrder
  <2> QED
    BY <1>3, <2>1, <2>6, <2>7, <2>8, <2>9 DEF Order, InOrder
<1> QED
  BY <1>6, <1>7

LEMMA OrderKept ==
  ASSUME Followed, Basics, RingInv, Ordered, Next
  PROVE  Order'
<1>0. /\ TypeOK /\ Progress \in Nat /\ Progress <= MaxFrames /\ nth <= Progress /\ MaxFrames \in Nat
      /\ Order /\ Finding /\ BeforeWrap
  BY ProgressIs, RxPathAssumption DEF Basics, Ordered
<1>1. ASSUME imgs' = imgs, irq = "publish" <=> irq' = "publish"
      PROVE  Filled' = Filled /\ Image' = Image
  BY <1>1 DEF imgs, Filled, Backlog, Image, Place
<1>2. CASE DmaComplete \/ IrqEnter \/ IrqClaim \/ C0Copy \/ C0Clear
           \/ \E op \in {"receive", "snapshot"} : C0Claim(op)
  <2>1. /\ imgs' = imgs /\ (irq = "publish" <=> irq' = "publish") /\ thr' = thr /\ nth' = nth
        /\ inbox' = inbox /\ last' = last /\ tagged' = tagged
    BY <1>2 DEF DmaComplete, IrqEnter, IrqClaim, C0Copy, C0Clear, C0Claim, hist, shared
  <2>2. Progress' = Progress
    BY <2>1 DEF Progress
  <2> QED
    BY <1>0, <1>1, <2>1, <2>2, OrderFrame
<1>3. CASE IrqDiscard \/ IrqDone \/ IrqMerge \/ ThrCheck \/ ThrSleep \/ ThrFrame \/ ThrScanned
  <2>1. /\ imgs' = imgs /\ (irq = "publish" <=> irq' = "publish") /\ nth' = nth
        /\ (thr' = thr \/ (thr # "advance" /\ thr' # "advance"))
        /\ inbox' = inbox /\ last' = last /\ tagged' = tagged
    BY <1>3 DEF IrqDiscard, IrqDone, IrqMerge, ThrCheck, ThrSleep, ThrFrame, ThrScanned, Thread,
                Return, hist, shared
  <2>2. Progress' = Progress
    BY <2>1 DEF Progress
  <2> QED
    BY <1>0, <1>1, <2>1, <2>2, OrderFrame
<1>4. CASE ThrMerge
  <2>1. /\ imgs' = imgs /\ irq' = irq /\ thr' = "advance"
        /\ inbox' = inbox /\ last' = last /\ tagged' = tagged
    BY <1>4 DEF ThrMerge, Thread, hist
  <2>2. Progress' = MaxFrames
    BY <2>1 DEF Progress
  <2> QED
    BY <1>0, <1>1, <2>1, <2>2, OrderFrame
<1>5. CASE IrqFill
  <2>1. CASE irq' = "publish"
    BY <1>0, <1>5, <2>1, FillKeepsOrder
  <2>2. CASE irq' # "publish"
    <3>1. /\ imgs' = imgs /\ irq = "fill" /\ nth' = nth /\ thr' = thr
          /\ inbox' = inbox /\ last' = last /\ tagged' = tagged
      BY <1>5, <2>2 DEF IrqFill, imgs, shared
    <3>2. Progress' = Progress
      BY <3>1 DEF Progress
    <3> QED
      BY <1>0, <1>1, <2>2, <3>1, <3>2, OrderFrame
  <2> QED
    BY <2>1, <2>2
<1>6. CASE IrqPublish
  <2>1. /\ imgW' = SeqNext(imgW) /\ imgR' = imgR /\ ring' = ring /\ irq = "publish" /\ irq' = "merge?"
        /\ thr' = thr /\ nth' = nth /\ inbox' = inbox /\ last' = last /\ tagged' = tagged
    BY <1>6 DEF IrqPublish, hist, shared
  <2>2. Backlog < Slots
    BY <2>1 DEF RingInv
  <2>3. Backlog' = Backlog + 1 /\ Place' = Place
    BY <1>0, <2>1, <2>2, Grows DEF TypeOK
  <2>4. Filled' = Filled
    BY <2>1, <2>3 DEF Filled
  <2>5. Image' = Image /\ Progress' = Progress
    BY <2>1, <2>3 DEF Image, Progress
  <2> QED
    BY <1>0, <2>1, <2>4, <2>5, OrderFrame
<1>7. CASE ThrAdvance
  BY <1>0, <1>7, AdvanceKeepsOrder
<1>8. CASE ThrPublish
  BY <1>0, <1>8, PublishKeepsOrder
<1>9. CASE C0Receive
  BY <1>0, <1>9, ReceiveKeepsOrder
<1> QED
  BY <1>2, <1>3, <1>4, <1>5, <1>6, <1>7, <1>8, <1>9 DEF Next, IrqNext, ThreadNext, Core0Next

\* The oldest image stays what it is while the thread works on it.
LEMMA FindingKept ==
  ASSUME Followed, Basics, RingInv, Ordered, Next
  PROVE  Finding'
<1>0. TypeOK /\ Backlog \in Nat /\ Image[0] = ring[SlotOf(imgR)] /\ BeforeWrap /\ Finding
  BY Elsewhere DEF Basics, Ordered
<1>1. ASSUME thr' = "publish"
      PROVE  Image'[0] = Image[0] /\ nth < FramesIn(Image[0]) /\ nth' = nth
  <2>1. CASE ThrFrame
    <3>1. imgs' = imgs /\ nth' = nth /\ nth < FramesIn(ring[SlotOf(imgR)])
      BY <2>1 DEF ThrFrame
    <3>2. Image' = Image
      BY <3>1 DEF imgs, Image, Place
    <3> QED
      BY <1>0, <3>1, <3>2
  <2>2. CASE IrqFill
    <3>1. thr = "publish" /\ nth' = nth
      BY <1>1, <2>2 DEF IrqFill
    <3>2. CASE irq' = "publish"
      <4>1. 0 \in 0 .. Backlog - 1
        BY <1>0, <3>1 DEF RingInv
      <4>2. Image'[0] = Image[0]
        BY <1>0, <2>2, <3>2, <4>1, FillIs
      <4> QED
        BY <1>0, <3>1, <4>2 DEF Finding
    <3>3. CASE irq' # "publish"
      <4>1. imgs' = imgs
        BY <2>2, <3>3 DEF IrqFill, imgs
      <4>2. Image' = Image
        BY <4>1 DEF imgs, Image, Place
      <4> QED
        BY <1>0, <3>1, <4>2 DEF Finding
    <3> QED
      BY <3>2, <3>3
  <2>3. CASE IrqPublish
    <3>1. ring' = ring /\ imgR' = imgR /\ thr' = thr /\ nth' = nth
      BY <2>3 DEF IrqPublish
    <3>2. Image' = Image
      BY <3>1 DEF Image, Place
    <3> QED
      BY <1>0, <1>1, <3>1, <3>2 DEF Finding
  <2>4. CASE DmaComplete \/ IrqDiscard \/ IrqEnter \/ IrqDone \/ IrqClaim \/ IrqMerge
             \/ (\E op \in {"receive", "snapshot"} : C0Claim(op)) \/ C0Receive \/ C0Copy \/ C0Clear
    <3>1. imgs' = imgs /\ thr = "publish" /\ nth' = nth
      BY <1>1, <2>4 DEF DmaComplete, IrqDiscard, IrqEnter, IrqDone, IrqClaim, IrqMerge, Return, C0Claim,
                        C0Receive, C0Copy, C0Clear
    <3>2. Image' = Image
      BY <3>1 DEF imgs, Image, Place
    <3> QED
      BY <1>0, <3>1, <3>2 DEF Finding
  <2>5. CASE ThrCheck \/ ThrSleep \/ ThrScanned \/ ThrPublish \/ ThrMerge \/ ThrAdvance
    BY <1>1, <2>5 DEF ThrCheck, ThrSleep, ThrScanned, ThrPublish, ThrMerge, ThrAdvance, Thread
  <2> QED
    BY <2>1, <2>2, <2>3, <2>4, <2>5 DEF Next, IrqNext, ThreadNext, Core0Next
<1> QED
  BY <1>1 DEF Finding

LEMMA BeforeWrapKept ==
  ASSUME Followed, Basics, RingInv, Ordered, Next
  PROVE  BeforeWrap'
<1> SUFFICES ASSUME ~Aligned
             PROVE  /\ tagged' < MaxTagged => imgR' + Filled' = tagged'
                    /\ \A i \in 0 .. Filled' - 1 : Image'[i] # Quiet => imgR' + i < MaxTagged
  BY DEF BeforeWrap
<1>0. /\ TypeOK /\ Backlog \in Nat /\ Filled \in Nat /\ \A i \in Nat : Image[i] \in 0 .. MaxTagged
      /\ BeforeWrap /\ MaxTagged + Slots <= SeqMod
      /\ tagged < MaxTagged => imgR + Filled = tagged
      /\ \A i \in 0 .. Filled - 1 : Image[i] # Quiet => imgR + i < MaxTagged
  BY Elsewhere DEF Basics, Ordered, Followed, BeforeWrap
<1>n. /\ Slots \in Nat \ {0} /\ SeqMod \in Nat \ {0} /\ MaxTagged \in Nat
      /\ tagged \in 0 .. MaxTagged /\ imgR \in Seqs /\ imgR \in 0 .. SeqMod - 1
  BY <1>0, RxPathAssumption DEF TypeOK, Seqs
<1>1. CASE imgs' = imgs /\ tagged' = tagged /\ (irq = "publish" <=> irq' = "publish")
  <2>1. Filled' = Filled /\ Image' = Image /\ imgR' = imgR
    BY <1>1 DEF imgs, Filled, Backlog, Image, Place
  <2> QED
    BY <1>0, <1>1, <2>1
<1>2. CASE IrqFill /\ irq' = "publish"
  <2>1. /\ Filled = Backlog /\ Filled' = Backlog + 1 /\ imgR' = imgR
        /\ \A i \in 0 .. Backlog - 1 : Image'[i] = Image[i]
        /\ Image'[Backlog] = IF tagged < MaxTagged THEN tagged + 1 ELSE Quiet
        /\ tagged' = IF tagged < MaxTagged THEN tagged + 1 ELSE tagged
    BY <1>0, <1>2, FillIs DEF IrqFill
  <2> HIDE DEF Backlog, Filled, Image
  <2>2. tagged' < MaxTagged => imgR' + Filled' = tagged'
    BY <1>0, <1>n, <2>1
  <2>3. ASSUME NEW i \in 0 .. Filled' - 1, Image'[i] # Quiet
        PROVE  imgR' + i < MaxTagged
    <3>1. CASE i \in 0 .. Backlog - 1
      BY <1>0, <2>1, <2>3, <3>1
    <3>2. CASE i = Backlog
      BY <1>0, <1>n, <2>1, <2>3, <3>2
    <3> QED
      BY <1>0, <2>1, <3>1, <3>2
  <2> QED
    BY <2>2, <2>3
<1>3. CASE IrqPublish
  <2>1. imgW' = SeqNext(imgW) /\ imgR' = imgR /\ ring' = ring /\ irq = "publish" /\ irq' = "merge?"
        /\ tagged' = tagged
    BY <1>3 DEF IrqPublish, hist
  <2>2. Backlog' = Backlog + 1 /\ Place' = Place
    BY <1>0, <2>1, Grows DEF TypeOK, RingInv
  <2>3. Filled' = Filled /\ Image' = Image
    BY <2>1, <2>2 DEF Filled, Image
  <2> QED
    BY <1>0, <2>1, <2>3
<1>4. CASE ThrAdvance
  <2>1. /\ imgR' = SeqNext(imgR) /\ imgW' = imgW /\ irq = "idle" /\ irq' = "idle" /\ ring' = ring
        /\ tagged' = tagged /\ thr = "advance"
    BY <1>4 DEF ThrAdvance, Thread, hist
  <2>2. Backlog >= 1
    BY <2>1 DEF RingInv
  <2>3. Backlog' = Backlog - 1 /\ \A i \in Nat : Place'[i] = Place[i + 1]
    BY <1>0, <2>1, <2>2, Shrinks DEF TypeOK
  <2>4. Filled = Backlog /\ Filled' = Backlog - 1
    BY <2>1, <2>3 DEF Filled
  <2>5. \A i \in Nat : Image'[i] = Image[i + 1]
    <3>1. \A i \in Nat : Image'[i] = ring[Place'[i]] /\ Image[i + 1] = ring[Place[i + 1]]
      BY <2>1 DEF Image
    <3> QED
      BY <2>3, <3>1
  <2>6. imgR' = IF imgR + 1 < SeqMod THEN imgR + 1 ELSE (imgR + 1) - SeqMod
    BY <1>n, <2>1, Successor
  <2> HIDE DEF Backlog, Filled, Image, Place
  <2>7. tagged' < MaxTagged => imgR' + Filled' = tagged'
    BY <1>0, <1>n, <2>1, <2>2, <2>4, <2>6
  <2>8. ASSUME NEW i \in 0 .. Filled' - 1, Image'[i] # Quiet
        PROVE  imgR' + i < MaxTagged
    <3>1. i \in Nat /\ i + 1 \in 0 .. Filled - 1 /\ Image[i + 1] # Quiet
      BY <1>0, <2>2, <2>4, <2>5, <2>8
    <3>2. imgR + (i + 1) < MaxTagged
      BY <1>0, <3>1
    <3> QED
      BY <1>n, <2>6, <3>1, <3>2
  <2> QED
    BY <2>7, <2>8
<1>5. CASE DmaComplete \/ IrqDiscard \/ IrqEnter \/ IrqDone \/ IrqClaim \/ IrqMerge
           \/ (IrqFill /\ irq' # "publish")
  <2>1. imgs' = imgs /\ tagged' = tagged /\ (irq = "publish" <=> irq' = "publish")
    BY <1>5 DEF DmaComplete, IrqDiscard, IrqEnter, IrqDone, IrqClaim, IrqMerge, IrqFill, Return, imgs, hist
  <2> QED
    BY <1>1, <2>1
<1>6. CASE ThrCheck \/ ThrSleep \/ ThrFrame \/ ThrScanned \/ ThrPublish \/ ThrMerge
           \/ (\E op \in {"receive", "snapshot"} : C0Claim(op)) \/ C0Receive \/ C0Copy \/ C0Clear
  <2>1. imgs' = imgs /\ tagged' = tagged /\ (irq = "publish" <=> irq' = "publish")
    BY <1>6 DEF ThrCheck, ThrSleep, ThrFrame, ThrScanned, ThrPublish, ThrMerge, C0Claim, C0Receive,
                C0Copy, C0Clear, hist
  <2> QED
    BY <1>1, <2>1
<1> QED
  BY <1>2, <1>3, <1>4, <1>5, <1>6 DEF Next, IrqNext, ThreadNext, Core0Next

--------------------------------------------------------------------------------
(***************************************************************************)
(* Putting the parts together                                              *)
(***************************************************************************)
PathInv == Basics /\ RingInv

LEMMA PathStarts == Init => PathInv /\ Ordered
<1> SUFFICES ASSUME Init
             PROVE  PathInv /\ Ordered
  OBVIOUS
<1>1. /\ SeqMod \in Nat \ {0} /\ Slots \in Nat \ {0} /\ InboxSlots \in Nat \ {0}
      /\ MaxTagged \in Nat /\ MaxFrames \in Nat /\ MaxCaps \in Nat
  BY RxPathAssumption
<1>2. imgW \in Seqs /\ imgR \in Seqs
  BY <1>1 DEF Init, Seqs
<1>3. <<>> \in Seq(Frames) /\ Len(<<>>) = 0 /\ NoCounts \in [ok : Nat, dropped : Nat]
  BY EmptySeq DEF NoCounts
<1>4. inbox \in Seq(Frames) /\ Len(inbox) = 0 /\ last \in Seq(Frames) /\ Len(last) = 0
  BY <1>3 DEF Init
<1>5. TypeOK
  <2>1. ring \in [0 .. Slots - 1 -> Images]
    BY <1>1 DEF Init, Images, Quiet
  <2>2. armed \in 0 .. 2 /\ done \in 0 .. 2 /\ capped \in 0 .. MaxCaps /\ nth \in 0 .. MaxFrames
        /\ tagged \in 0 .. MaxTagged /\ owed \in Nat /\ unreported \in Nat /\ caps \in 0 .. MaxCaps
        /\ Len(inbox) <= InboxSlots
    BY <1>1, <1>4 DEF Init
  <2> QED
    BY <1>2, <1>3, <1>4, <2>1, <2>2 DEF Init, TypeOK
<1>6. Turns
  BY DEF Init, Turns
<1>7. Counts
  BY <1>4 DEF Init, Counts, FramesConserved, StatsConserved, NoCounts
<1>8. Backlog = 0
  BY <1>2, Positions DEF Init
<1>9. RingInv
  BY <1>1, <1>8 DEF Init, RingInv
<1>10. Filled = 0
  BY <1>8 DEF Init, Filled
<1>11. Numbered
  BY <1>10 DEF Numbered
<1>12. InOrder
  BY <1>4 DEF InOrder
<1>13. Finding /\ BeforeWrap
  BY <1>1, <1>10 DEF Init, Finding, BeforeWrap
<1> QED
  BY <1>5, <1>6, <1>7, <1>9, <1>11, <1>12, <1>13 DEF PathInv, Basics, Order, Ordered

LEMMA PathIdles ==
  ASSUME PathInv, UNCHANGED vars
  PROVE  PathInv'
<1>1. /\ imgs' = imgs /\ dma' = dma /\ shared' = shared /\ hist' = hist /\ capped' = capped /\ irq' = irq
      /\ thr' = thr /\ nth' = nth /\ c0' = c0 /\ snap' = snap /\ lock' = lock
  BY DEF vars
<1>2. Basics'
  BY <1>1 DEF PathInv, Basics, TypeOK, Turns, Counts, FramesConserved, StatsConserved, dma, imgs, shared, hist
<1>3. Backlog' = Backlog /\ ring' = ring /\ imgR' = imgR
  BY <1>1 DEF Backlog, imgs
<1>4. RingInv'
  BY <1>1, <1>3 DEF PathInv, RingInv
<1> QED
  BY <1>2, <1>4 DEF PathInv

LEMMA OrderIdles ==
  ASSUME PathInv, Ordered, UNCHANGED vars
  PROVE  Ordered'
<1>1. /\ imgs' = imgs /\ shared' = shared /\ hist' = hist /\ irq' = irq /\ thr' = thr /\ nth' = nth
  BY DEF vars
<1>2. /\ Filled' = Filled /\ Image' = Image /\ Progress' = Progress /\ tagged' = tagged /\ imgR' = imgR
      /\ inbox' = inbox /\ last' = last
  BY <1>1 DEF Filled, Image, Place, Backlog, Progress, imgs, shared, hist
<1>3. Progress \in Nat /\ Progress <= Progress'
  BY <1>2, ProgressIs, RxPathAssumption DEF PathInv, Basics
<1>4. Order'
  BY <1>2, <1>3, OrderFrame DEF PathInv, Basics, Ordered
<1>5. Finding' /\ BeforeWrap'
  BY <1>1, <1>2 DEF Ordered, Finding, BeforeWrap
<1> QED
  BY <1>4, <1>5 DEF Ordered

\* The inductive invariant of the receive path holds under the interrupt handler, the thread
\* and core 0 in any interleaving.
THEOREM PathKept == Spec => []PathInv
<1>1. Init => PathInv
  BY PathStarts
<1>2. PathInv /\ [Next]_vars => PathInv'
  BY BasicsKept, RingKept, PathIdles DEF PathInv
<1> QED
  BY <1>1, <1>2, PTL DEF Spec

\* So does the order of the images that are followed.
THEOREM OrderHolds == Followed => (Spec => []Ordered)
<1> SUFFICES ASSUME Followed
             PROVE  Spec => []Ordered
  OBVIOUS
<1>1. Init => Ordered
  BY PathStarts
<1>2. PathInv /\ Ordered /\ [Next]_vars => Ordered'
  <2> SUFFICES ASSUME PathInv, Ordered, [Next]_vars
               PROVE  Ordered'
    OBVIOUS
  <2>1. CASE Next
    BY <2>1, OrderKept, FindingKept, BeforeWrapKept DEF PathInv, Ordered
  <2>2. CASE UNCHANGED vars
    BY <2>2, OrderIdles
  <2> QED
    BY <2>1, <2>2
<1> QED
  BY <1>1, <1>2, PathKept, PTL DEF Spec

\* Nothing the receive path hands over or counts is lost or counted twice, whoever holds the
\* spinlock and however many frames the inbox has dropped (scan_runs, merge_stats,
\* EthMac::receive, snapshot_rx_stats).  It holds for the code's six slots and 2^32 as for all others:
\* an image overwritten where the sequence wraps costs frames before they are found, not after.
THEOREM NothingLost == Spec => []RxInv
<1>1. PathInv => RxInv
  BY DEF PathInv, Basics, Counts, RxInv
<1> QED
  BY <1>1, PathKept, PTL

\* The interrupt handler never writes the slot of an image that waits for the thread or is
\* being decoded (process_completed_half, drain_rx_images), except, in a ring whose size does not
\* divide the range of the sequence numbers, while the images that wait straddle their wrap.
THEOREM SlotsExclusive == Spec => [](Aligned \/ imgR <= imgW => SlotExclusive)
<1>1. PathInv => (Aligned \/ imgR <= imgW => SlotExclusive)
  <2> SUFFICES ASSUME PathInv, Aligned \/ imgR <= imgW, irq \in {"fill", "publish"}, NEW q \in Queued
               PROVE  SlotOf(q) # SlotOf(imgW)
    BY DEF SlotExclusive
  <2>1. imgW \in Seqs /\ imgR \in Seqs /\ Backlog < Slots
    BY DEF PathInv, Basics, TypeOK, RingInv
  <2>4. imgR <= imgW => imgR + Backlog < SeqMod
    <3>1. Backlog = IF imgW < imgR THEN (imgW - imgR) + SeqMod ELSE imgW - imgR
      BY <2>1, Distance DEF Backlog
    <3> QED
      BY <2>1, <3>1, RxPathAssumption DEF Seqs
  <2>2. PICK i \in 0 .. Backlog - 1 : q = (imgR + i) % SeqMod
    BY DEF Queued
  <2>3. Place[i] # Place[Backlog] /\ Place[Backlog] = SlotOf(imgW) /\ i \in Nat
    <3>1. i \in Nat /\ Place[Backlog] = SlotOf(imgW)
      BY <2>1, Positions
    <3> QED
      BY <2>1, <2>4, <3>1, FillsElsewhere
  <2>5. Place[i] = SlotOf(q)
    BY <2>2, <2>3 DEF Place
  <2> QED
    BY <2>3, <2>5
<1> QED
  BY <1>1, PathKept, PTL

\* Frames reach core 0 once and in the order of the wire, over the image ring, the inbox and
\* its drops (drain_rx_images, scan_runs, EthMac::receive).  For the code: those of the first
\* 2^32 - 6 images, until the sequence wraps.
THEOREM InOrderOfTheWire == Followed => (Spec => []DeliveredInOrder)
<1> SUFFICES ASSUME Followed
             PROVE  Spec => []DeliveredInOrder
  OBVIOUS
<1>1. PathInv /\ Ordered => DeliveredInOrder
  <2> SUFFICES ASSUME PathInv, Ordered
               PROVE  DeliveredInOrder
    OBVIOUS
  <2> DEFINE all == last \o inbox
             n == Len(last)
             m == Len(inbox)
  <2>1. last \in Seq(Frames) /\ inbox \in Seq(Frames) /\ n \in Nat /\ m \in Nat
    BY DEF PathInv, Basics, TypeOK
  <2>2. /\ Len(all) = n + m
        /\ \A i \in 1 .. n + m : all[i] = IF i <= n THEN last[i] ELSE inbox[i - n]
    BY <2>1, ConcatProperties
  <2>3. /\ n <= 1
        /\ n = 1 => \A i \in 1 .. m : Later(last[1], inbox[i])
        /\ \A i, j \in 1 .. m : i < j => Later(inbox[i], inbox[j])
    BY DEF Ordered, Order, InOrder
  <2> HIDE DEF all, n, m
  <2>4. ASSUME NEW i \in 1 .. Len(all) - 1
        PROVE  Later(all[i], all[i + 1])
    <3>1. i \in 1 .. n + m /\ i + 1 \in 1 .. n + m
      BY <2>1, <2>2
    <3>2. CASE i <= n
      <4>1. n = 1 /\ i = 1 /\ i + 1 > n /\ (i + 1) - n = 1 /\ 1 \in 1 .. m
        BY <2>1, <2>3, <3>1, <3>2
      <4>2. all[i] = last[1] /\ all[i + 1] = inbox[1]
        BY <2>1, <2>2, <3>1, <4>1
      <4> QED
        BY <2>3, <4>1, <4>2
    <3>3. CASE ~(i <= n)
      <4>1. /\ ~(i + 1 <= n) /\ i - n \in 1 .. m /\ (i + 1) - n \in 1 .. m
            /\ i - n < (i + 1) - n
        BY <2>1, <3>1, <3>3
      <4>2. all[i] = inbox[i - n] /\ all[i + 1] = inbox[(i + 1) - n]
        BY <2>2, <3>1, <3>3, <4>1
      <4> QED
        BY <2>3, <4>1, <4>2
    <3> QED
      BY <3>2, <3>3
  <2> QED
    BY <2>4 DEF DeliveredInOrder, all
<1> QED
  BY <1>1, PathKept, OrderHolds, PTL
================================================================================
