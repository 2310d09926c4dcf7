----------------------------- MODULE RxCarryProofs -----------------------------
(***************************************************************************)
(* Proofs about RxCarry, for every half and carry size with Half <=        *)
(* MaxCarry, every wire and any number of halves.                          *)
(*                                                                         *)
(* The inductive invariant is TypeOK with CarryIsOpenRun: what poll_into   *)
(* puts in front of the next half is the unfinished run and nothing else.  *)
(* Both loops of poll_into are CHOOSEs of a first or last byte, whose      *)
(* existence is the least-number principle.                                *)
(* Under it the drops lie in runs longer than a half, and FoundInv, which  *)
(* says where the settled part of the wire may end, gives EveryRunFound.   *)
(***************************************************************************)
EXTENDS RxCarry, TLAPS, FiniteSetTheorems, SequenceTheorems, WellFoundedInduction

HalfBuffer == [1 .. Half -> BOOLEAN]

IInv == TypeOK /\ CarryIsOpenRun

--------------------------------------------------------------------------------
\* The loops

\* A nonempty subset of an interval from 0 has a least element: its initial segments are
\* finite, and the strict subset relation on finite sets is well founded.
LEMMA LeastElement ==
  ASSUME NEW n \in Nat, NEW S \in SUBSET (0 .. n), S # {}
  PROVE  \E m \in S : \A j \in S : m <= j
<1> DEFINE Prefixes == {0 .. j : j \in S}
           Shorter  == StrictSubsetOrdering(0 .. n)
<1>1. IsFiniteSet(0 .. n)
  <2>1. 0 \in Int /\ n \in Int
    OBVIOUS
  <2> QED
    BY <2>1, FS_Interval, Zenon
<1>2. \A j \in S : 0 .. j \in SUBSET (0 .. n) /\ IsFiniteSet(0 .. j)
  <2> TAKE j \in S
  <2>1. 0 .. j \in SUBSET (0 .. n)
    OBVIOUS
  <2> QED
    BY <1>1, <2>1, FS_Subset
<1>3. Prefixes \subseteq FiniteSubsetsOf(0 .. n) /\ Prefixes # {}
  BY <1>2 DEF FiniteSubsetsOf
<1>4. IsWellFoundedOn(Shorter, FiniteSubsetsOf(0 .. n))
  BY FS_StrictSubsetOrderingWellFounded
<1>5. PICK P \in Prefixes : \A Q \in Prefixes : ~(<<Q, P>> \in Shorter)
  <2> HIDE DEF Prefixes, Shorter
  <2> QED
    BY <1>3, <1>4, WFMin
<1>6. PICK m \in S : P = 0 .. m
  OBVIOUS
<1>7. ASSUME NEW j \in S, j < m
      PROVE  FALSE
  <2>1. 0 .. j \subseteq 0 .. m /\ 0 .. j # 0 .. m
    BY <1>7
  <2> QED
    BY <1>2, <1>5, <1>6, <2>1, ZenonT(30) DEF StrictSubsetOrdering
<1> QED
  BY <1>7

LEMMA LeadingRun ==
  ASSUME NEW half \in HalfBuffer
  PROVE  /\ Leading(half) \in 0 .. Half
         /\ carry = <<>> => Leading(half) = 0
         /\ carry # <<>> => /\ \A i \in 1 .. Leading(half) : half[i]
                            /\ Leading(half) = Half \/ ~half[Leading(half) + 1]
<1> USE RxCarryAssumption DEF HalfBuffer
<1> DEFINE Ends == {j \in 0 .. Half : j = Half \/ ~half[j + 1]}
<1>1. PICK m \in Ends : \A j \in Ends : m <= j
  <2>1. Ends \in SUBSET (0 .. Half) /\ Half \in Ends
    OBVIOUS
  <2> QED
    BY <2>1, LeastElement
<1>2. ASSUME NEW i \in 1 .. m
      PROVE  half[i]
  <2>1. i - 1 \notin Ends
    BY <1>1, <1>2
  <2> QED
    BY <1>1, <1>2, <2>1
<1> DEFINE Good(k) == /\ \A i \in 1 .. k : half[i]
                      /\ k = Half \/ ~half[k + 1]
<1>3. m \in 0 .. Half /\ Good(m)
  BY <1>1, <1>2
<1>4. carry # <<>> => Leading(half) = CHOOSE k \in 0 .. Half : Good(k)
  BY DEF Leading
<1>5. carry # <<>> => Leading(half) \in 0 .. Half /\ Good(Leading(half))
  <2> HIDE DEF Good
  <2> QED
    BY <1>3, <1>4
<1>6. carry = <<>> => Leading(half) = 0
  BY DEF Leading
<1> QED
  BY <1>5, <1>6

LEMMA TrailingRun ==
  ASSUME NEW half \in HalfBuffer, NEW k \in 0 .. Half
  PROVE  /\ TailStart(half, k) \in k .. Half
         /\ \A i \in TailStart(half, k) + 1 .. Half : half[i]
         /\ TailStart(half, k) = k \/ ~half[TailStart(half, k)]
<1> USE RxCarryAssumption DEF HalfBuffer
<1> DEFINE Starts == {t \in k .. Half : \A i \in t + 1 .. Half : half[i]}
<1>1. PICK m \in Starts : \A j \in Starts : m <= j
  <2>1. Starts \in SUBSET (0 .. Half) /\ Half \in Starts
    OBVIOUS
  <2> QED
    BY <2>1, LeastElement
<1>2. m = k \/ ~half[m]
  <2> SUFFICES ASSUME m # k, half[m]
               PROVE  FALSE
    BY <1>1
  <2>1. m - 1 \in k .. Half
    BY <1>1
  <2>2. \A i \in m .. Half : half[i]
    BY <1>1
  <2>3. m - 1 \in Starts
    BY <1>1, <2>1, <2>2
  <2> QED
    BY <1>1, <2>3
<1> DEFINE Good(t) == /\ \A i \in t + 1 .. Half : half[i]
                      /\ t = k \/ ~half[t] \/ Half - t = MaxCarry
<1>3. m \in k .. Half /\ Good(m)
  BY <1>1, <1>2
<1>4. TailStart(half, k) = CHOOSE t \in k .. Half : Good(t)
  BY DEF TailStart
<1>5. TailStart(half, k) \in k .. Half /\ Good(TailStart(half, k))
  <2> HIDE DEF Good
  <2> QED
    BY <1>3, <1>4
<1>6. Half - TailStart(half, k) = MaxCarry => TailStart(half, k) = k
  BY <1>5
<1> QED
  BY <1>5, <1>6

LEMMA Sizes == {Half, MaxCarry} \subseteq Nat \ {0} /\ Half \in Nat /\ Half > 0 /\ Half <= MaxCarry
BY RxCarryAssumption

--------------------------------------------------------------------------------
\* What one half does to the stream

\* The wire grows by the half; older bytes keep their place.
LEMMA WireGrows ==
  ASSUME TypeOK, NEW half \in HalfBuffer, Receive(half)
  PROVE  /\ wire' \in Seq(BOOLEAN) /\ Len(wire') = Len(wire) + Half
         /\ \A p \in 1 .. Len(wire) : wire'[p] = wire[p]
         /\ \A i \in 1 .. Half : wire'[Len(wire) + i] = half[i]
<1>1. wire \in Seq(BOOLEAN) /\ half \in Seq(BOOLEAN) /\ Len(half) = Half /\ Half \in Nat
  <2>1. Half \in Nat /\ half \in [1 .. Half -> BOOLEAN]
    BY Sizes DEF HalfBuffer
  <2>2. half \in Seq(BOOLEAN) /\ Len(half) = Half
    BY <2>1
  <2> QED
    BY <2>1, <2>2 DEF TypeOK
<1>2. /\ wire' \in Seq(BOOLEAN) /\ Len(wire') = Len(wire) + Half
      /\ \A i \in 1 .. Len(wire) + Half :
           wire'[i] = IF i <= Len(wire) THEN wire[i] ELSE half[i - Len(wire)]
  BY <1>1, ConcatProperties DEF Receive
<1>3. Len(wire) \in Nat /\ Half \in Nat
  BY <1>1
<1>4. \A p \in 1 .. Len(wire) : wire'[p] = wire[p]
  BY <1>2, <1>3
<1>5. \A i \in 1 .. Half : wire'[Len(wire) + i] = half[i]
  <2> TAKE i \in 1 .. Half
  <2>1. Len(wire) + i \in 1 .. Len(wire) + Half /\ ~(Len(wire) + i <= Len(wire))
        /\ (Len(wire) + i) - Len(wire) = i
    BY <1>3
  <2> HIDE DEF Receive
  <2> QED
    BY <1>2, <2>1
<1> QED
  BY <1>2, <1>4, <1>5

LEMMA NewBytesAre ==
  ASSUME TypeOK
  PROVE  /\ NewBytes \in Seq(Nat) /\ Len(NewBytes) = Half
         /\ \A i \in 1 .. Half : NewBytes[i] = Len(wire) + i
<1>1. Len(wire) \in Nat /\ Half \in Nat
  BY Sizes DEF TypeOK
<1>2. NewBytes \in [1 .. Half -> Nat] /\ \A i \in 1 .. Half : NewBytes[i] = Len(wire) + i
  BY <1>1 DEF NewBytes
<1>3. NewBytes \in Seq(Nat) /\ Len(NewBytes) = Half
  BY <1>1, <1>2
<1> QED
  BY <1>2, <1>3

\* A sequence of n successive positions from a.
IsPiece(s, a, n) == s \in Seq(Nat) /\ Len(s) = n /\ \A i \in 1 .. n : s[i] = a + i

LEMMA JoinPieces ==
  ASSUME NEW s, NEW u, NEW a \in Nat, NEW n \in Nat, NEW k \in Nat,
         IsPiece(s, a, n), IsPiece(u, a + n, k)
  PROVE  IsPiece(s \o u, a, n + k)
<1>1. /\ s \o u \in Seq(Nat) /\ Len(s \o u) = n + k
      /\ \A i \in 1 .. n + k : (s \o u)[i] = IF i <= n THEN s[i] ELSE u[i - n]
  BY ConcatProperties, ZenonT(30) DEF IsPiece
<1>2. \A i \in 1 .. n + k : (s \o u)[i] = a + i
  <2> TAKE i \in 1 .. n + k
  <2>1. CASE i <= n
    BY <1>1, <2>1 DEF IsPiece
  <2>2. CASE ~(i <= n)
    <3>1. i - n \in 1 .. k /\ a + n + (i - n) = a + i
      BY <2>2
    <3> QED
      BY <1>1, <2>2, <3>1 DEF IsPiece
  <2> QED
    BY <2>1, <2>2
<1> QED
  BY <1>1, <1>2 DEF IsPiece

LEMMA CutPiece ==
  ASSUME NEW s, NEW a \in Nat, NEW n \in Nat, NEW i \in 1 .. n + 1, NEW j \in i - 1 .. n,
         IsPiece(s, a, n)
  PROVE  IsPiece(SubSeq(s, i, j), a + i - 1, j - i + 1)
<1>1. \A p \in i .. j : s[p] \in Nat
  BY DEF IsPiece
<1>2. i \in Int /\ j \in Int
  OBVIOUS
<1>3. /\ SubSeq(s, i, j) \in Seq(Nat)
      /\ Len(SubSeq(s, i, j)) = IF i <= j THEN j - i + 1 ELSE 0
      /\ \A p \in 1 .. j - i + 1 : SubSeq(s, i, j)[p] = s[i + p - 1]
  BY <1>1, <1>2, SubSeqProperties
<1>4. \A p \in 1 .. j - i + 1 : s[i + p - 1] = a + i - 1 + p
  BY DEF IsPiece
<1> QED
  BY <1>3, <1>4 DEF IsPiece

\* The carry is the last piece of the wire, the new bytes the next.
LEMMA CarryThenNew ==
  ASSUME IInv
  PROVE  /\ Settled \in Nat /\ Len(carry) \in Nat /\ Len(wire) = Settled + Len(carry)
         /\ IsPiece(carry, Settled, Len(carry))
         /\ IsPiece(NewBytes, Len(wire), Half)
<1>1. carry \in Seq(1 .. Len(wire)) /\ wire \in Seq(BOOLEAN)
  BY DEF IInv, TypeOK
<1>2. Len(carry) \in Nat /\ Len(wire) \in Nat /\ DOMAIN carry = 1 .. Len(carry)
  BY <1>1
<1>3. \A i \in 1 .. Len(carry) : carry[i] \in 1 .. Len(wire) /\ carry[i] = Settled + i
  BY <1>1, <1>2 DEF IInv, CarryIsOpenRun
<1>4. Len(wire) = Settled + Len(carry) /\ Settled \in Int
  BY <1>2 DEF Settled
<1>5. Settled \in Nat
  <2>1. CASE Len(carry) = 0
    BY <1>2, <1>4, <2>1
  <2>2. CASE Len(carry) > 0
    BY <1>2, <1>3, <1>4, <2>2
  <2> QED
    BY <1>2, <2>1, <2>2
<1>6. IsPiece(carry, Settled, Len(carry))
  <2>1. carry \in Seq(Nat)
    BY <1>1, <1>2
  <2> QED
    BY <1>3, <2>1 DEF IsPiece
<1>7. IsPiece(NewBytes, Len(wire), Half)
  BY NewBytesAre DEF IInv, IsPiece
<1> QED
  BY <1>2, <1>4, <1>5, <1>6, <1>7

LEMMA PieceType ==
  ASSUME NEW s, NEW a \in Nat, NEW n \in Nat, NEW top \in Nat, IsPiece(s, a, n), a + n <= top
  PROVE  s \in Seq(1 .. top) /\ Len(s) = n
<1>1. s \in Seq(Nat) /\ Len(s) = n /\ s \in [1 .. n -> Nat]
  BY LenProperties DEF IsPiece
<1>2. \A i \in 1 .. n : s[i] \in 1 .. top
  BY DEF IsPiece
<1>3. s \in [1 .. n -> 1 .. top]
  BY <1>1, <1>2
<1> QED
  BY <1>1, <1>3

\* A piece of active bytes that ends the wire is an open run.
LEMMA OpenRun ==
  ASSUME NEW w, NEW c, NEW a \in Nat, NEW n \in Nat,
         IsPiece(c, a, n), Len(w) = a + n, \A p \in a + 1 .. a + n : w[p]
  PROVE  /\ Len(w) - Len(c) = a
         /\ \A i \in DOMAIN c : c[i] = Len(w) - Len(c) + i /\ w[c[i]]
<1>1. c \in Seq(Nat) /\ Len(c) = n /\ DOMAIN c = 1 .. n
  BY DEF IsPiece
<1>2. \A i \in 1 .. n : c[i] = a + i /\ a + i \in a + 1 .. a + n
  BY DEF IsPiece
<1> QED
  BY <1>1, <1>2

\* What was a position on the wire still is one on a longer wire.
LEMMA StillTyped ==
  ASSUME TypeOK, NEW top \in Nat, Len(wire) <= top
  PROVE  /\ image \in Seq(1 .. top) /\ dropped \subseteq 1 .. top
         /\ \A r \in found : {r.first, r.last} \subseteq 1 .. top
<1>1. Len(wire) \in Nat
  BY DEF TypeOK
<1>2. 1 .. Len(wire) \subseteq 1 .. top
  BY <1>1
<1>3. image \in Seq(1 .. top)
  BY <1>2, SeqMonotonic DEF TypeOK
<1> QED
  BY <1>2, <1>3 DEF TypeOK

LEMMA ScanRunsType ==
  ASSUME NEW img, NEW active, NEW top \in Nat, img \in Seq(1 .. top),
         NEW r \in ScanRuns(img, active)
  PROVE  {r.first, r.last} \subseteq 1 .. top
<1>1. PICK q \in RunsIn(img, active) : r = [first |-> img[q.first], last |-> img[q.last]]
  BY DEF ScanRuns
<1>2. q.first \in 1 .. Len(img) /\ q.last \in 1 .. Len(img)
  BY <1>1 DEF RunsIn
<1>3. img[q.first] \in 1 .. top /\ img[q.last] \in 1 .. top
  BY <1>2, ElementOfSeq
<1> QED
  BY <1>1, <1>3

--------------------------------------------------------------------------------
\* The two ways through poll_into

\* A carried run that the half continues is active to the half's last byte.
LEMMA CarryOnActive ==
  ASSUME IInv, NEW half \in HalfBuffer, CarryOn(half)
  PROVE  \A p \in Settled + 1 .. Len(wire) + Half : wire'[p]
<1>1. /\ wire' \in Seq(BOOLEAN) /\ Len(wire') = Len(wire) + Half
      /\ \A p \in 1 .. Len(wire) : wire'[p] = wire[p]
      /\ \A i \in 1 .. Half : wire'[Len(wire) + i] = half[i]
  BY WireGrows DEF IInv, CarryOn
<1>2. /\ Settled \in Nat /\ Len(carry) \in Nat /\ Len(wire) = Settled + Len(carry)
      /\ IsPiece(carry, Settled, Len(carry)) /\ IsPiece(NewBytes, Len(wire), Half)
      /\ Half \in Nat /\ MaxCarry \in Nat
  BY CarryThenNew, Sizes
<1>3. \A i \in 1 .. Half : half[i]
  <2>1. carry # <<>> /\ Leading(half) = Half
    BY DEF CarryOn, WholeHalf
  <2> QED
    BY <2>1, LeadingRun
<1> TAKE p \in Settled + 1 .. Len(wire) + Half
<1>4. CASE p <= Len(wire)
  <2>1. p - Settled \in 1 .. Len(carry) /\ p \in 1 .. Len(wire)
    BY <1>2, <1>4
  <2>2. carry[p - Settled] = p /\ wire[carry[p - Settled]]
    <3>1. DOMAIN carry = 1 .. Len(carry)
      BY DEF IInv, TypeOK
    <3> QED
      BY <1>2, <2>1, <3>1 DEF IInv, CarryIsOpenRun
  <2> QED
    BY <1>1, <2>1, <2>2
<1>5. CASE ~(p <= Len(wire))
  <2>1. p - Len(wire) \in 1 .. Half /\ Len(wire) + (p - Len(wire)) = p
    BY <1>2, <1>5
  <2> QED
    BY <1>1, <1>3, <2>1
<1> QED
  BY <1>4, <1>5

LEMMA CarryOnKeepsInvariant ==
  ASSUME IInv, NEW half \in HalfBuffer, CarryOn(half)
  PROVE  IInv'
<1>1. /\ wire' \in Seq(BOOLEAN) /\ Len(wire') = Len(wire) + Half
      /\ \A p \in 1 .. Len(wire) : wire'[p] = wire[p]
      /\ \A i \in 1 .. Half : wire'[Len(wire) + i] = half[i]
  BY WireGrows DEF IInv, CarryOn
<1>2. /\ Settled \in Nat /\ Len(carry) \in Nat /\ Len(wire) = Settled + Len(carry)
      /\ IsPiece(carry, Settled, Len(carry)) /\ IsPiece(NewBytes, Len(wire), Half)
      /\ Half \in Nat /\ MaxCarry \in Nat
  BY CarryThenNew, Sizes
<1>4. \A p \in Settled + 1 .. Len(wire) + Half : wire'[p]
  BY CarryOnActive
<1>5. image' = image /\ found' = found
  BY DEF CarryOn
<1>6. CASE CarryHasRoom
  <2>1. carry' = carry \o NewBytes /\ dropped' = dropped
    BY <1>6 DEF CarryOn
  <2>2. IsPiece(carry', Settled, Len(carry) + Half)
    BY <1>2, <2>1, JoinPieces
  <2>3. Len(carry) + Half \in Nat /\ Len(wire') = Settled + (Len(carry) + Half)
    BY <1>1, <1>2
  <2>4. \A p \in Settled + 1 .. Settled + (Len(carry) + Half) : wire'[p]
    BY <1>2, <1>4
  <2>5. CarryIsOpenRun'
    BY <1>2, <2>2, <2>3, <2>4, OpenRun DEF CarryIsOpenRun, Settled
  <2>6. carry' \in Seq(1 .. Len(wire')) /\ Len(carry') <= MaxCarry
    <3>1. Len(wire') \in Nat /\ Settled + (Len(carry) + Half) <= Len(wire')
      BY <1>2, <2>3
    <3>2. carry' \in Seq(1 .. Len(wire')) /\ Len(carry') = Len(carry) + Half
      BY <1>2, <2>2, <2>3, <3>1, PieceType
    <3> QED
      BY <1>6, <3>2 DEF CarryHasRoom
  <2> QED
    BY <1>1, <1>2, <1>5, <2>1, <2>5, <2>6, StillTyped DEF IInv, TypeOK
<1>7. CASE ~CarryHasRoom
  <2>1. carry' = <<>> /\ dropped' = dropped \cup Settled + 1 .. Len(wire) + Half
    BY <1>7 DEF CarryOn
  <2>2. CarryIsOpenRun'
    BY <2>1 DEF CarryIsOpenRun
  <2>3. carry' \in Seq(1 .. Len(wire')) /\ Len(carry') <= MaxCarry
    BY <1>2, <2>1
  <2>4. Settled + 1 .. Len(wire) + Half \subseteq 1 .. Len(wire')
    BY <1>1, <1>2
  <2>5. TypeOK'
    <3>1. Len(wire') \in Nat /\ Len(wire) <= Len(wire') /\ TypeOK
      BY <1>1, <1>2 DEF IInv
    <3>2. /\ image \in Seq(1 .. Len(wire')) /\ dropped \subseteq 1 .. Len(wire')
          /\ \A r \in found : {r.first, r.last} \subseteq 1 .. Len(wire')
      BY <3>1, StillTyped
    <3>3. dropped' \subseteq 1 .. Len(wire')
      BY <2>1, <2>4, <3>2
    <3>4. Len(image) <= SlotBytes
      BY <3>1 DEF TypeOK
    <3>5. wire' \in Seq(BOOLEAN)
      BY <1>1
    <3> QED
      BY <1>5, <2>3, <3>2, <3>3, <3>4, <3>5 DEF TypeOK, SlotBytes
  <2> QED
    BY <2>2, <2>5 DEF IInv
<1> QED
  BY <1>6, <1>7

\* The image that poll_into hands out and the carry it keeps.
LEMMA HandOutPieces ==
  ASSUME IInv, NEW half \in HalfBuffer, HandOut(half),
         NEW t, t = TailStart(half, Leading(half))
  PROVE  /\ t \in 0 .. Half
         /\ IsPiece(image', Settled, Len(carry) + t)
         /\ IsPiece(carry', Len(wire) + t, Half - t)
         /\ \A i \in t + 1 .. Half : half[i]
         /\ t > 0 => ~half[t]
         /\ t = 0 => carry = <<>>
<1>1. /\ Settled \in Nat /\ Len(carry) \in Nat /\ Len(wire) = Settled + Len(carry)
      /\ IsPiece(carry, Settled, Len(carry)) /\ IsPiece(NewBytes, Len(wire), Half)
  BY CarryThenNew
<1>2. Half \in Nat /\ Half > 0
  BY Sizes
<1>3. /\ Leading(half) \in 0 .. Half
      /\ carry = <<>> => Leading(half) = 0
      /\ carry # <<>> => Leading(half) = Half \/ ~half[Leading(half) + 1]
  BY LeadingRun
<1>4. /\ t \in Leading(half) .. Half
      /\ \A i \in t + 1 .. Half : half[i]
      /\ t = Leading(half) \/ ~half[t]
  BY <1>3, TrailingRun
<1>5. carry # <<>> => Leading(half) < Half
  BY <1>2, <1>3 DEF HandOut, WholeHalf
<1>6. carry # <<>> => t # Leading(half)
  <2> SUFFICES ASSUME carry # <<>>, t = Leading(half)
               PROVE  FALSE
    OBVIOUS
  <2>1. ~half[t + 1] /\ t + 1 \in t + 1 .. Half
    BY <1>2, <1>3, <1>5
  <2> QED
    BY <1>4, <2>1
<1>7. t \in 0 .. Half
  BY <1>2, <1>3, <1>4
<1>8. t > 0 => ~half[t]
  BY <1>3, <1>4, <1>6, <1>7
<1>9. t = 0 => carry = <<>>
  BY <1>2, <1>3, <1>4, <1>6
<1>10. image' = carry \o SubSeq(NewBytes, 1, t) /\ carry' = SubSeq(NewBytes, t + 1, Half)
  BY DEF HandOut, Stitch
<1>11. Len(wire) \in Nat
  BY <1>1
<1>12. IsPiece(image', Settled, Len(carry) + t)
  <2>1. 1 \in 1 .. Half + 1 /\ t \in 1 - 1 .. Half
    BY <1>2, <1>7
  <2>2. IsPiece(SubSeq(NewBytes, 1, t), Len(wire) + 1 - 1, t - 1 + 1)
    BY <1>1, <1>2, <1>11, <2>1, CutPiece
  <2>3. Len(wire) + 1 - 1 = Settled + Len(carry) /\ t - 1 + 1 = t
    BY <1>1, <1>7
  <2>4. IsPiece(SubSeq(NewBytes, 1, t), Settled + Len(carry), t)
    BY <2>2, <2>3
  <2> QED
    BY <1>1, <1>7, <1>10, <2>4, JoinPieces
<1>13. IsPiece(carry', Len(wire) + t, Half - t)
  <2>1. t + 1 \in 1 .. Half + 1 /\ Half \in (t + 1) - 1 .. Half
    BY <1>2, <1>7
  <2>2. IsPiece(SubSeq(NewBytes, t + 1, Half), Len(wire) + (t + 1) - 1, Half - (t + 1) + 1)
    BY <1>1, <1>2, <1>11, <2>1, CutPiece
  <2>3. Len(wire) + (t + 1) - 1 = Len(wire) + t /\ Half - (t + 1) + 1 = Half - t
    BY <1>2, <1>7, <1>11
  <2> QED
    BY <1>10, <2>2, <2>3
<1> QED
  BY <1>4, <1>7, <1>8, <1>9, <1>12, <1>13

LEMMA HandOutKeepsInvariant ==
  ASSUME IInv, NEW half \in HalfBuffer, HandOut(half)
  PROVE  IInv'
<1> DEFINE t == TailStart(half, Leading(half))
<1>1. /\ wire' \in Seq(BOOLEAN) /\ Len(wire') = Len(wire) + Half
      /\ \A i \in 1 .. Half : wire'[Len(wire) + i] = half[i]
  BY WireGrows DEF IInv, HandOut
<1>2. /\ Settled \in Nat /\ Len(carry) \in Nat /\ Len(wire) = Settled + Len(carry)
      /\ Half \in Nat /\ MaxCarry \in Nat /\ Half <= MaxCarry
  BY CarryThenNew, Sizes
<1>3. /\ t \in 0 .. Half
      /\ IsPiece(image', Settled, Len(carry) + t)
      /\ IsPiece(carry', Len(wire) + t, Half - t)
      /\ \A i \in t + 1 .. Half : half[i]
  BY HandOutPieces
<1> HIDE DEF t
<1>4. CarryIsOpenRun'
  <2>1. Len(wire) + t \in Nat /\ Half - t \in Nat /\ Len(wire') = (Len(wire) + t) + (Half - t)
    BY <1>1, <1>2, <1>3
  <2>2. \A p \in (Len(wire) + t) + 1 .. (Len(wire) + t) + (Half - t) : wire'[p]
    <3> TAKE p \in (Len(wire) + t) + 1 .. (Len(wire) + t) + (Half - t)
    <3>1. p - Len(wire) \in t + 1 .. Half /\ p - Len(wire) \in 1 .. Half
          /\ Len(wire) + (p - Len(wire)) = p
      BY <1>2, <1>3
    <3> QED
      BY <1>1, <1>3, <3>1
  <2> QED
    BY <1>3, <2>1, <2>2, OpenRun DEF CarryIsOpenRun, Settled
<1>5. /\ Len(wire') \in Nat /\ Len(wire) <= Len(wire') /\ TypeOK
      /\ Len(carry) + t \in Nat /\ Settled + (Len(carry) + t) <= Len(wire')
      /\ Len(wire) + t \in Nat /\ Half - t \in Nat /\ (Len(wire) + t) + (Half - t) <= Len(wire')
      /\ Half - t <= MaxCarry
  BY <1>1, <1>2, <1>3 DEF IInv
<1>6. carry' \in Seq(1 .. Len(wire')) /\ Len(carry') <= MaxCarry
  <2>1. carry' \in Seq(1 .. Len(wire')) /\ Len(carry') = Half - t
    BY <1>3, <1>5, PieceType
  <2> QED
    BY <1>5, <2>1
<1>7. image' \in Seq(1 .. Len(wire')) /\ Len(image') <= SlotBytes
  <2>1. image' \in Seq(1 .. Len(wire')) /\ Len(image') = Len(carry) + t
    BY <1>2, <1>3, <1>5, PieceType
  <2>2. Len(carry) <= MaxCarry
    BY <1>5 DEF TypeOK
  <2> QED
    BY <1>2, <1>3, <2>1, <2>2 DEF SlotBytes
<1>8. dropped' \subseteq 1 .. Len(wire')
  BY <1>5, StillTyped DEF HandOut
<1>9. \A r \in found' : {r.first, r.last} \subseteq 1 .. Len(wire')
  <2>1. \A r \in found : {r.first, r.last} \subseteq 1 .. Len(wire')
    BY <1>5, StillTyped
  <2>2. \A r \in ScanRuns(image', wire') : {r.first, r.last} \subseteq 1 .. Len(wire')
    BY <1>5, <1>7, ScanRunsType
  <2>3. found' = found \cup ScanRuns(image', wire')
    BY DEF HandOut
  <2> QED
    BY <2>1, <2>2, <2>3
<1>10. TypeOK'
  BY <1>1, <1>6, <1>7, <1>8, <1>9 DEF TypeOK, SlotBytes
<1> QED
  BY <1>4, <1>10 DEF IInv

--------------------------------------------------------------------------------
\* The invariant of the specification

LEMMA InitEstablishesInvariant == Init => IInv
<1> SUFFICES ASSUME Init
             PROVE  IInv
  OBVIOUS
<1>1. /\ wire = <<>> /\ carry = <<>> /\ image = <<>> /\ dropped = {} /\ found = {}
      /\ Half \in Nat /\ MaxCarry \in Nat
  BY Sizes DEF Init
<1>2. TypeOK
  BY <1>1 DEF TypeOK, SlotBytes
<1>3. CarryIsOpenRun
  BY <1>1 DEF CarryIsOpenRun
<1> QED
  BY <1>2, <1>3 DEF IInv

LEMMA NextKeepsInvariant == IInv /\ [Next]_vars => IInv'
<1> SUFFICES ASSUME IInv, [Next]_vars
             PROVE  IInv'
  OBVIOUS
<1>1. CASE Next
  <2>1. PICK half \in HalfBuffer : CarryOn(half) \/ HandOut(half)
    BY <1>1 DEF Next, HalfBuffer
  <2> QED
    BY <2>1, CarryOnKeepsInvariant, HandOutKeepsInvariant
<1>2. CASE UNCHANGED vars
  BY <1>2 DEF vars, IInv, TypeOK, CarryIsOpenRun, Settled
<1> QED
  BY <1>1, <1>2

LEMMA InvariantHolds == Spec => []IInv
<1>1. Init => IInv
  BY InitEstablishesInvariant
<1>2. IInv /\ [Next]_vars => IInv'
  BY NextKeepsInvariant
<1> QED
  BY <1>1, <1>2, PTL DEF Spec

\* poll_into never writes past its buffers: the carry fits MAX_CARRY_BYTES and the stitched
\* image fits STITCH_BUF_BYTES, and both hold bytes that were received.
THEOREM TypeCorrect == Spec => []TypeOK
<1>1. IInv => TypeOK
  BY DEF IInv
<1> QED
  BY <1>1, InvariantHolds, PTL

\* What poll_into carries to the next half fits and is exactly the wire's unfinished run.
THEOREM CarryExact == Spec => []CarryInv
<1>1. IInv => CarryInv
  BY DEF IInv, CarryInv
<1> QED
  BY <1>1, InvariantHolds, PTL

\* Each image poll_into hands out is a gapless piece of the wire that goes on where the last
\* one stopped, and it stops at a quiet byte.
LEMMA StepGoesOn == IInv /\ [Next]_vars => [ImageGoesOn]_vars
<1> SUFFICES ASSUME IInv, [Next]_vars, image' # image
             PROVE  ImageGoesOn
  BY DEF ImageGoesOn
<1>1. PICK half \in HalfBuffer : HandOut(half)
  BY DEF Next, HalfBuffer, CarryOn, vars
<1> DEFINE t == TailStart(half, Leading(half))
<1>2. /\ Settled \in Nat /\ Len(carry) \in Nat /\ Len(wire) = Settled + Len(carry)
  BY CarryThenNew
<1>3. /\ t \in 0 .. Half
      /\ IsPiece(image', Settled, Len(carry) + t)
      /\ t > 0 => ~half[t]
      /\ t = 0 => carry = <<>>
  BY <1>1, HandOutPieces
<1>4. \A i \in 1 .. Half : wire'[Len(wire) + i] = half[i]
  BY <1>1, WireGrows DEF IInv, HandOut
<1>5. Half \in Nat
  BY Sizes
<1> HIDE DEF t
<1>6. DOMAIN image' = 1 .. Len(carry) + t /\ Len(image') = Len(carry) + t
  BY <1>3 DEF IsPiece
<1>7. \A i \in DOMAIN image' : image'[i] = Settled + i
  BY <1>3, <1>6 DEF IsPiece
<1>8. image' = <<>> \/ ~wire'[image'[Len(image')]]
  <2>1. CASE t = 0
    <3>1. image' \in Seq(Nat) /\ Len(image') = 0
      BY <1>3, <2>1 DEF IsPiece
    <3> QED
      BY <3>1
  <2>2. CASE t > 0
    <3>1. Len(carry) + t \in 1 .. Len(carry) + t /\ t \in 1 .. Half
      BY <1>2, <1>3, <1>5, <2>2
    <3>2. image'[Len(image')] = Settled + (Len(carry) + t)
      BY <1>6, <1>7, <3>1
    <3>3. Settled + (Len(carry) + t) = Len(wire) + t
      BY <1>2, <1>3
    <3> QED
      BY <1>3, <1>4, <2>2, <3>1, <3>2, <3>3
  <2> QED
    BY <1>3, <2>1, <2>2
<1> QED
  BY <1>7, <1>8 DEF ImageGoesOn

\* For every wire and every way its frames lie across the halves, the decoder's images are
\* the wire itself, cut only where it is quiet.
THEOREM Continuity == Spec => ImagesContinuous
<1>1. IInv /\ [Next]_vars => [ImageGoesOn]_vars
  BY StepGoesOn
<1> QED
  BY <1>1, InvariantHolds, PTL DEF Spec, ImagesContinuous

--------------------------------------------------------------------------------
\* What is dropped

\* Every dropped byte lies in a stretch of active bytes longer than a half.  The stretch need
\* not be a whole run: the run may have begun in an earlier drop and may go on.
InOverlong(w, p) ==
  \E a \in 1 .. Len(w), b \in 1 .. Len(w) :
    a <= p /\ p <= b /\ b - a + 1 > Half /\ \A q \in a .. b : w[q]
DropsOverlong == \A p \in dropped : InOverlong(wire, p)

LEMMA DropKeepsOverlong ==
  ASSUME IInv, DropsOverlong, NEW half \in HalfBuffer, CarryOn(half) \/ HandOut(half)
  PROVE  DropsOverlong'
<1>1. /\ wire' \in Seq(BOOLEAN) /\ Len(wire') = Len(wire) + Half
      /\ \A p \in 1 .. Len(wire) : wire'[p] = wire[p]
      /\ \A i \in 1 .. Half : wire'[Len(wire) + i] = half[i]
  BY WireGrows DEF IInv, CarryOn, HandOut
<1>2. /\ Settled \in Nat /\ Len(carry) \in Nat /\ Len(wire) = Settled + Len(carry)
      /\ Half \in Nat
  BY CarryThenNew, Sizes
<1>3. ASSUME NEW p, InOverlong(wire, p)
      PROVE  InOverlong(wire', p)
  <2>1. PICK a \in 1 .. Len(wire), b \in 1 .. Len(wire) :
          a <= p /\ p <= b /\ b - a + 1 > Half /\ \A q \in a .. b : wire[q]
    BY <1>3 DEF InOverlong
  <2>2. a \in 1 .. Len(wire') /\ b \in 1 .. Len(wire')
    BY <1>1, <1>2
  <2>3. \A q \in a .. b : wire'[q]
    <3>1. a .. b \subseteq 1 .. Len(wire)
      BY <1>2
    <3> QED
      BY <1>1, <2>1, <3>1
  <2> QED
    BY <2>1, <2>2, <2>3 DEF InOverlong
<1>4. CASE dropped' = dropped
  BY <1>3, <1>4 DEF DropsOverlong
<1>5. CASE dropped' # dropped
  <2>1. CarryOn(half) /\ dropped' = dropped \cup Settled + 1 .. Len(wire) + Half
    BY <1>5 DEF CarryOn, HandOut
  <2>2. \A q \in Settled + 1 .. Len(wire) + Half : wire'[q]
    BY <2>1, CarryOnActive
  <2>3. Len(carry) > 0
    <3>1. carry # <<>> /\ carry \in Seq(1 .. Len(wire))
      BY <2>1 DEF CarryOn, WholeHalf, IInv, TypeOK
    <3> QED
      BY <3>1
  <2>4. ASSUME NEW p \in Settled + 1 .. Len(wire) + Half
        PROVE  InOverlong(wire', p)
    <3>1. /\ Settled + 1 \in 1 .. Len(wire') /\ Len(wire) + Half \in 1 .. Len(wire')
          /\ Settled + 1 <= p /\ p <= Len(wire) + Half
          /\ (Len(wire) + Half) - (Settled + 1) + 1 > Half
      BY <1>1, <1>2, <2>3
    <3> QED
      BY <2>2, <3>1 DEF InOverlong
  <2> QED
    BY <1>3, <2>1, <2>4 DEF DropsOverlong
<1> QED
  BY <1>4, <1>5

\* A run of the wire takes in every active stretch it meets.
LEMMA RunTakesIn ==
  ASSUME TypeOK, NEW r \in WireRuns, NEW a \in 1 .. Len(wire), NEW b \in 1 .. Len(wire),
         \A q \in a .. b : wire[q], NEW p \in r.first .. r.last, a <= p, p <= b
  PROVE  r.first \in Nat /\ r.last \in Nat /\ r.first <= a /\ b <= r.last
<1>1. Len(wire) \in Nat
  BY DEF TypeOK
<1> DEFINE here == [q \in 1 .. Len(wire) |-> q]
<1>2. Len(here) = Len(wire) /\ \A q \in 1 .. Len(wire) : here[q] = q
  BY <1>1
<1>3. r \in RunsIn(here, wire)
  BY DEF WireRuns
<1> HIDE DEF here
<1>4. /\ r.first \in 1 .. Len(wire) /\ r.last \in 1 .. Len(wire)
      /\ r.first = 1 \/ ~wire[here[r.first - 1]]
      /\ r.last = Len(wire) \/ ~wire[here[r.last + 1]]
  BY <1>2, <1>3 DEF RunsIn
<1>5. ASSUME a < r.first
      PROVE  FALSE
  <2>1. r.first - 1 \in a .. b /\ r.first - 1 \in 1 .. Len(wire) /\ r.first # 1
    BY <1>1, <1>4, <1>5
  <2> QED
    BY <1>2, <1>4, <2>1
<1>6. ASSUME r.last < b
      PROVE  FALSE
  <2>1. r.last + 1 \in a .. b /\ r.last + 1 \in 1 .. Len(wire) /\ r.last # Len(wire)
    BY <1>1, <1>4, <1>6
  <2> QED
    BY <1>2, <1>4, <2>1
<1> QED
  BY <1>1, <1>4, <1>5, <1>6

LEMMA DropsAreOverlong == IInv /\ DropsOverlong => OnlyOverlongDropped
<1> SUFFICES ASSUME IInv, DropsOverlong, NEW r \in WireRuns, r.first .. r.last \cap dropped # {}
             PROVE  r.last - r.first + 1 > Half
  BY DEF OnlyOverlongDropped
<1>1. PICK p \in r.first .. r.last : p \in dropped
  OBVIOUS
<1>2. PICK a \in 1 .. Len(wire), b \in 1 .. Len(wire) :
        a <= p /\ p <= b /\ b - a + 1 > Half /\ \A q \in a .. b : wire[q]
  BY <1>1 DEF DropsOverlong, InOverlong
<1>3. r.first \in Nat /\ r.last \in Nat /\ r.first <= a /\ b <= r.last
  BY <1>1, <1>2, RunTakesIn DEF IInv
<1>4. Half \in Nat /\ a \in Int /\ b \in Int
  BY Sizes
<1> QED
  BY <1>2, <1>3, <1>4

\* poll_into's capped carry only ever discards bytes of runs longer than one DMA half, which
\* no legal frame is: MAX_CARRY_BYTES costs no traffic.
THEOREM OverlongOnly == Spec => []OnlyOverlongDropped
<1>1. Init => DropsOverlong
  BY DEF Init, DropsOverlong
<1>2. IInv /\ DropsOverlong /\ [Next]_vars => DropsOverlong'
  <2> SUFFICES ASSUME IInv, DropsOverlong, [Next]_vars
               PROVE  DropsOverlong'
    OBVIOUS
  <2>1. CASE Next
    <3>1. PICK half \in HalfBuffer : CarryOn(half) \/ HandOut(half)
      BY <2>1 DEF Next, HalfBuffer
    <3> QED
      BY <3>1, DropKeepsOverlong
  <2>2. CASE UNCHANGED vars
    BY <2>2 DEF vars, DropsOverlong, InOverlong
  <2> QED
    BY <2>1, <2>2
<1>3. IInv /\ DropsOverlong => OnlyOverlongDropped
  BY DropsAreOverlong
<1> QED
  BY <1>1, <1>2, <1>3, InvariantHolds, PTL DEF Spec
--------------------------------------------------------------------------------
\* Every run is found. An image ends at a quiet byte or, empty, where it began, and the bytes
\* of a drop are gone: so the settled part of the wire ends in a quiet byte or a dropped one,
\* and no run of the wire lies across its end.

\* The runs over by position s, none of their bytes dropped.
Over(w, s, d) ==
  {r \in [first : 1 .. s, last : 1 .. s] :
     /\ r.first <= r.last /\ r.last < s
     /\ \A p \in r.first .. r.last : w[p]
     /\ r.first = 1 \/ ~w[r.first - 1]
     /\ ~w[r.last + 1]
     /\ LongEnough(r)
     /\ r.first .. r.last \cap d = {}}

\* The runs scan_runs finds in the piece of the wire between s and e.
PieceRuns(w, s, e) ==
  {r \in [first : s + 1 .. e, last : s + 1 .. e] :
     /\ r.first <= r.last
     /\ \A p \in r.first .. r.last : w[p]
     /\ r.first = s + 1 \/ ~w[r.first - 1]
     /\ r.last = e \/ ~w[r.last + 1]
     /\ LongEnough(r)}

FoundInv ==
  /\ Settled = 0 \/ ~wire[Settled] \/ Settled \in dropped
  /\ \A p \in dropped : p \in 1 .. Settled /\ wire[p]
  /\ \A r \in found : r.first \in 1 .. Settled
  /\ {r \in found : r.first - 1 \notin dropped} = Over(wire, Settled, dropped)

LEMMA ScanOfPiece ==
  ASSUME NEW img, NEW w, NEW s \in Nat, NEW n \in Nat, IsPiece(img, s, n)
  PROVE  ScanRuns(img, w) = PieceRuns(w, s, s + n)
<1> USE RxCarryAssumption
<1>1. Len(img) = n /\ \A i \in 1 .. n : img[i] = s + i
  BY DEF IsPiece
<1>2. ASSUME NEW q \in RunsIn(img, w), LongEnough(q)
      PROVE  [first |-> img[q.first], last |-> img[q.last]] \in PieceRuns(w, s, s + n)
  <2> DEFINE r == [first |-> img[q.first], last |-> img[q.last]]
  <2>1. /\ q.first \in 1 .. n /\ q.last \in 1 .. n /\ q.first <= q.last
        /\ \A i \in q.first .. q.last : w[img[i]]
        /\ q.first = 1 \/ ~w[img[q.first - 1]]
        /\ q.last = n \/ ~w[img[q.last + 1]]
    BY <1>1 DEF RunsIn
  <2>2. r.first = s + q.first /\ r.last = s + q.last
    BY <1>1, <2>1
  <2>3. \A p \in r.first .. r.last : w[p]
    <3> TAKE p \in r.first .. r.last
    <3>1. p - s \in q.first .. q.last /\ p - s \in 1 .. n /\ s + (p - s) = p
      <4> HIDE DEF r
      <4> QED
        BY <2>1, <2>2
    <3>2. img[p - s] = p /\ w[img[p - s]]
      BY <1>1, <2>1, <3>1
    <3> QED
      BY <3>2
  <2>4. r.first = s + 1 \/ ~w[r.first - 1]
    <3> SUFFICES ASSUME q.first # 1
                 PROVE  ~w[r.first - 1]
      BY <2>2
    <3>1. q.first - 1 \in 1 .. n /\ s + (q.first - 1) = r.first - 1
      BY <2>1, <2>2
    <3> QED
      BY <1>1, <2>1, <3>1
  <2>5. r.last = s + n \/ ~w[r.last + 1]
    <3> SUFFICES ASSUME q.last # n
                 PROVE  ~w[r.last + 1]
      BY <2>2
    <3>1. q.last + 1 \in 1 .. n /\ s + (q.last + 1) = r.last + 1
      BY <2>1, <2>2
    <3> QED
      BY <1>1, <2>1, <3>1
  <2>6. LongEnough(r) /\ r.first <= r.last /\ r \in [first : s + 1 .. s + n, last : s + 1 .. s + n]
    <3>1. q.first \in Int /\ q.last \in Int
      BY <2>1
    <3>2. /\ r.last - r.first + 1 = q.last - q.first + 1 /\ r.first <= r.last
          /\ r.first \in s + 1 .. s + n /\ r.last \in s + 1 .. s + n
      <4> HIDE DEF r
      <4> QED
        BY <2>1, <2>2, <3>1
    <3> QED
      BY <1>2, <3>2 DEF LongEnough
  <2> HIDE DEF r
  <2>7. r \in PieceRuns(w, s, s + n)
    BY <2>3, <2>4, <2>5, <2>6 DEF PieceRuns
  <2> QED
    BY <2>7 DEF r
<1>3. ASSUME NEW r \in PieceRuns(w, s, s + n)
      PROVE  \E q \in RunsIn(img, w) :
               LongEnough(q) /\ r = [first |-> img[q.first], last |-> img[q.last]]
  <2> DEFINE q == [first |-> r.first - s, last |-> r.last - s]
  <2>1. /\ r \in [first : s + 1 .. s + n, last : s + 1 .. s + n] /\ r.first <= r.last
        /\ \A p \in r.first .. r.last : w[p]
        /\ r.first = s + 1 \/ ~w[r.first - 1]
        /\ r.last = s + n \/ ~w[r.last + 1]
        /\ LongEnough(r)
    BY DEF PieceRuns
  <2>2. /\ r.first \in s + 1 .. s + n /\ r.last \in s + 1 .. s + n
        /\ r = [first |-> r.first, last |-> r.last]
    BY <2>1
  <2>3. /\ q.first \in 1 .. n /\ q.last \in 1 .. n /\ q.first <= q.last
        /\ s + q.first = r.first /\ s + q.last = r.last
    BY <2>1, <2>2
  <2>4. img[q.first] = r.first /\ img[q.last] = r.last
    BY <1>1, <2>3
  <2>5. LongEnough(q)
    BY <2>1, <2>2 DEF LongEnough
  <2>6. \A i \in q.first .. q.last : w[img[i]]
    <3> TAKE i \in q.first .. q.last
    <3>1. i \in 1 .. n /\ s + i \in r.first .. r.last
      <4> HIDE DEF q
      <4> QED
        BY <2>2, <2>3
    <3> QED
      BY <1>1, <2>1, <3>1
  <2>7. q.first = 1 \/ ~w[img[q.first - 1]]
    <3> SUFFICES ASSUME q.first # 1
                 PROVE  ~w[img[q.first - 1]]
      OBVIOUS
    <3>1. q.first - 1 \in 1 .. n /\ s + (q.first - 1) = r.first - 1 /\ r.first # s + 1
      <4> HIDE DEF q
      <4> QED
        BY <2>2, <2>3
    <3> QED
      BY <1>1, <2>1, <3>1
  <2>8. q.last = n \/ ~w[img[q.last + 1]]
    <3> SUFFICES ASSUME q.last # n
                 PROVE  ~w[img[q.last + 1]]
      OBVIOUS
    <3>1. q.last + 1 \in 1 .. n /\ s + (q.last + 1) = r.last + 1 /\ r.last # s + n
      <4> HIDE DEF q
      <4> QED
        BY <2>2, <2>3
    <3> QED
      BY <1>1, <2>1, <3>1
  <2>9. q \in [first : 1 .. Len(img), last : 1 .. Len(img)]
    BY <1>1, <2>3
  <2> HIDE DEF q
  <2>10. q \in RunsIn(img, w)
    BY <1>1, <2>3, <2>6, <2>7, <2>8, <2>9 DEF RunsIn
  <2> QED
    BY <2>2, <2>4, <2>5, <2>10
<1> QED
  BY <1>2, <1>3 DEF ScanRuns

\* The runs the property speaks of are those over at the settled end.
LEMMA RunsOver ==
  ASSUME TypeOK, Settled \in Nat, Settled <= Len(wire),
         Settled = 0 \/ ~wire[Settled] \/ Settled \in dropped
  PROVE  {r \in WireRuns : LongEnough(r) /\ r.last <= Settled /\ r.first .. r.last \cap dropped = {}}
           = Over(wire, Settled, dropped)
<1> DEFINE here == [p \in 1 .. Len(wire) |-> p]
           Shown == {r \in WireRuns : /\ LongEnough(r) /\ r.last <= Settled
                                      /\ r.first .. r.last \cap dropped = {}}
<1>1. Len(wire) \in Nat
  BY DEF TypeOK
<1>2. Len(here) = Len(wire) /\ (\A p \in 1 .. Len(wire) : here[p] = p) /\ WireRuns = RunsIn(here, wire)
  BY <1>1 DEF WireRuns
<1> HIDE DEF here
<1>3. ASSUME NEW r \in Shown
      PROVE  r \in Over(wire, Settled, dropped)
  <2>1. /\ r \in [first : 1 .. Len(wire), last : 1 .. Len(wire)] /\ r.first <= r.last
        /\ \A p \in r.first .. r.last : wire[here[p]]
        /\ r.first = 1 \/ ~wire[here[r.first - 1]]
        /\ r.last = Len(wire) \/ ~wire[here[r.last + 1]]
        /\ LongEnough(r) /\ r.last <= Settled /\ r.first .. r.last \cap dropped = {}
    BY <1>2 DEF RunsIn
  <2>2. /\ r.first \in 1 .. Len(wire) /\ r.last \in 1 .. Len(wire)
        /\ r = [first |-> r.first, last |-> r.last]
    BY <2>1
  <2>3. \A p \in r.first .. r.last : p \in 1 .. Len(wire) /\ wire[p]
    <3> TAKE p \in r.first .. r.last
    <3>1. p \in 1 .. Len(wire)
      BY <1>1, <2>2
    <3> QED
      BY <1>2, <2>1, <3>1
  <2>4. r.last < Settled
    <3> SUFFICES ASSUME r.last = Settled
                 PROVE  FALSE
      BY <1>1, <2>1, <2>2
    <3>1. r.last \in r.first .. r.last /\ r.last # 0
      BY <2>1, <2>2
    <3> QED
      BY <2>1, <2>3, <3>1
  <2>5. r.first = 1 \/ ~wire[r.first - 1]
    <3> SUFFICES ASSUME r.first # 1
                 PROVE  ~wire[r.first - 1]
      OBVIOUS
    <3>1. r.first - 1 \in 1 .. Len(wire)
      BY <2>2
    <3> QED
      BY <1>2, <2>1, <3>1
  <2>6. ~wire[r.last + 1]
    <3>1. r.last + 1 \in 1 .. Len(wire) /\ r.last # Len(wire)
      BY <1>1, <2>2, <2>4
    <3> QED
      BY <1>2, <2>1, <3>1
  <2>7. r \in [first : 1 .. Settled, last : 1 .. Settled]
    <3>1. r.first \in 1 .. Settled /\ r.last \in 1 .. Settled
      BY <2>1, <2>2, <2>4
    <3> QED
      BY <2>2, <3>1
  <2> QED
    BY <2>1, <2>3, <2>4, <2>5, <2>6, <2>7 DEF Over
<1>4. ASSUME NEW r \in Over(wire, Settled, dropped)
      PROVE  r \in Shown
  <2>1. /\ r \in [first : 1 .. Settled, last : 1 .. Settled] /\ r.first <= r.last
        /\ r.last < Settled
        /\ \A p \in r.first .. r.last : wire[p]
        /\ r.first = 1 \/ ~wire[r.first - 1]
        /\ ~wire[r.last + 1]
        /\ LongEnough(r) /\ r.first .. r.last \cap dropped = {}
    BY DEF Over
  <2>2. /\ r.first \in 1 .. Settled /\ r.last \in 1 .. Settled
        /\ r = [first |-> r.first, last |-> r.last]
    BY <2>1
  <2>3. r \in [first : 1 .. Len(wire), last : 1 .. Len(wire)]
    <3>1. r.first \in 1 .. Len(wire) /\ r.last \in 1 .. Len(wire)
      BY <1>1, <2>2
    <3> QED
      BY <2>2, <3>1
  <2>4. \A p \in r.first .. r.last : wire[here[p]]
    <3> TAKE p \in r.first .. r.last
    <3>1. p \in 1 .. Len(wire)
      BY <1>1, <2>2
    <3> QED
      BY <1>2, <2>1, <3>1
  <2>5. r.first = 1 \/ ~wire[here[r.first - 1]]
    <3> SUFFICES ASSUME r.first # 1
                 PROVE  ~wire[here[r.first - 1]]
      OBVIOUS
    <3>1. r.first - 1 \in 1 .. Len(wire)
      BY <1>1, <2>2
    <3> QED
      BY <1>2, <2>1, <3>1
  <2>6. ~wire[here[r.last + 1]]
    <3>1. r.last + 1 \in 1 .. Len(wire)
      BY <1>1, <2>1, <2>2
    <3> QED
      BY <1>2, <2>1, <3>1
  <2>7. r \in RunsIn(here, wire)
    BY <1>2, <2>1, <2>3, <2>4, <2>5, <2>6 DEF RunsIn
  <2>8. r.last <= Settled
    BY <2>1, <2>2
  <2> QED
    BY <1>2, <2>1, <2>7, <2>8
<1> QED
  BY <1>3, <1>4

\* What is over at s does not depend on the wire beyond.
LEMMA OverStays ==
  ASSUME NEW w, NEW w2, NEW s \in Nat, NEW d, \A p \in 1 .. s : w2[p] = w[p]
  PROVE  Over(w2, s, d) = Over(w, s, d)
<1>1. ASSUME NEW r \in [first : 1 .. s, last : 1 .. s], r.first <= r.last, r.last < s
      PROVE  /\ (\A p \in r.first .. r.last : w2[p]) <=> (\A p \in r.first .. r.last : w[p])
             /\ (r.first = 1 \/ ~w2[r.first - 1]) <=> (r.first = 1 \/ ~w[r.first - 1])
             /\ ~w2[r.last + 1] <=> ~w[r.last + 1]
  <2>1. r.first \in 1 .. s /\ r.last \in 1 .. s
    OBVIOUS
  <2>2. r.first .. r.last \subseteq 1 .. s
    BY <2>1
  <2>3. r.first = 1 \/ r.first - 1 \in 1 .. s
    BY <2>1
  <2>4. r.last + 1 \in 1 .. s
    BY <1>1, <2>1
  <2> QED
    BY <2>2, <2>3, <2>4
<1> QED
  BY <1>1 DEF Over

LEMMA CarryOnKeepsFound ==
  ASSUME IInv, FoundInv, NEW half \in HalfBuffer, CarryOn(half)
  PROVE  FoundInv'
<1>1. /\ wire' \in Seq(BOOLEAN) /\ Len(wire') = Len(wire) + Half
      /\ \A p \in 1 .. Len(wire) : wire'[p] = wire[p]
  BY WireGrows DEF IInv, CarryOn
<1>2. /\ Settled \in Nat /\ Len(carry) \in Nat /\ Len(wire) = Settled + Len(carry)
      /\ IsPiece(carry, Settled, Len(carry)) /\ IsPiece(NewBytes, Len(wire), Half)
      /\ Half \in Nat /\ Half > 0
  BY CarryThenNew, Sizes
<1>3. /\ Settled = 0 \/ ~wire[Settled] \/ Settled \in dropped
      /\ \A p \in dropped : p \in 1 .. Settled /\ wire[p]
      /\ \A r \in found : r.first \in 1 .. Settled
      /\ {r \in found : r.first - 1 \notin dropped} = Over(wire, Settled, dropped)
  BY DEF FoundInv
<1>4. found' = found
  BY DEF CarryOn
<1>5. 1 .. Settled \subseteq 1 .. Len(wire)
  BY <1>2
<1>6. Over(wire', Settled, dropped) = Over(wire, Settled, dropped)
  BY <1>1, <1>2, <1>5, OverStays
<1>7. CASE CarryHasRoom
  <2>1. carry' = carry \o NewBytes /\ dropped' = dropped
    BY <1>7 DEF CarryOn
  <2>2. Len(carry') = Len(carry) + Half
    <3>1. IsPiece(carry', Settled, Len(carry) + Half)
      BY <1>2, <2>1, JoinPieces
    <3> QED
      BY <3>1 DEF IsPiece
  <2>3. Settled' = Settled
    <3>1. Settled' = (Len(wire) + Half) - (Len(carry) + Half)
      BY <1>1, <2>2 DEF Settled
    <3> QED
      BY <1>2, <3>1
  <2>4. Settled = 0 \/ ~wire'[Settled] \/ Settled \in dropped
    <3>1. Settled = 0 \/ Settled \in 1 .. Len(wire)
      BY <1>2
    <3> QED
      BY <1>1, <1>3, <3>1
  <2>5. \A p \in dropped : p \in 1 .. Settled /\ wire'[p]
    BY <1>1, <1>3, <1>5
  <2> QED
    BY <1>3, <1>4, <1>6, <2>1, <2>3, <2>4, <2>5 DEF FoundInv
<1>8. CASE ~CarryHasRoom
  <2> DEFINE gone == Settled + 1 .. Len(wire) + Half
             end  == Len(wire) + Half
  <2>1. carry' = <<>> /\ dropped' = dropped \cup gone
    BY <1>8 DEF CarryOn
  <2>2. Settled' = end
    <3>1. Len(carry') = 0
      BY <2>1
    <3>2. Settled' = (Len(wire) + Half) - 0
      BY <1>1, <3>1 DEF Settled
    <3> QED
      BY <1>2, <3>2
  <2>3. end \in gone /\ end \in Nat /\ Settled < end /\ gone \subseteq 1 .. end
    BY <1>2
  <2>4. \A p \in gone : wire'[p]
    BY CarryOnActive
  <2>5. \A p \in dropped' : p \in 1 .. Settled' /\ wire'[p]
    <3>1. ASSUME NEW p \in dropped
          PROVE  p \in 1 .. end /\ wire'[p]
      <4>1. p \in 1 .. Settled /\ wire[p]
        BY <1>3
      <4>2. p \in 1 .. end /\ p \in 1 .. Len(wire)
        BY <1>2, <4>1
      <4> QED
        BY <1>1, <4>1, <4>2
    <3>2. ASSUME NEW p \in gone
          PROVE  p \in 1 .. end /\ wire'[p]
      BY <2>3, <2>4
    <3> QED
      BY <2>1, <2>2, <3>1, <3>2
  <2>6. \A r \in found : r.first \in 1 .. Settled' /\ r.first - 1 \notin gone
    <3> TAKE r \in found
    <3>1. r.first \in 1 .. Settled
      BY <1>3
    <3> QED
      BY <1>2, <2>2, <3>1
  <2>7. {r \in found' : r.first - 1 \notin dropped'} = {r \in found : r.first - 1 \notin dropped}
    BY <1>4, <2>1, <2>6
  <2>8. ASSUME NEW r \in Over(wire', end, dropped')
        PROVE  r \in Over(wire', Settled, dropped)
    <3>1. /\ r \in [first : 1 .. end, last : 1 .. end] /\ r.first <= r.last
          /\ r.last < end
          /\ \A p \in r.first .. r.last : wire'[p]
          /\ r.first = 1 \/ ~wire'[r.first - 1]
          /\ ~wire'[r.last + 1]
          /\ LongEnough(r) /\ r.first .. r.last \cap dropped' = {}
      BY DEF Over
    <3>2. /\ r.first \in 1 .. end /\ r.last \in 1 .. end
          /\ r = [first |-> r.first, last |-> r.last]
      BY <3>1
    <3>3. r.last \in r.first .. r.last
      BY <3>1, <3>2
    <3>4. r.last <= Settled
      <4>1. r.last \notin gone
        BY <2>1, <3>1, <3>3
      <4> QED
        BY <1>2, <3>2, <4>1
    <3>5. r.last # Settled
      <4> SUFFICES ASSUME r.last = Settled
                   PROVE  FALSE
        OBVIOUS
      <4>1. Settled \in 1 .. Len(wire)
        BY <1>2, <3>2
      <4>2. wire'[Settled] /\ Settled \notin dropped'
        BY <3>1, <3>3
      <4> QED
        BY <1>1, <1>3, <2>1, <4>1, <4>2
    <3>6. r.last < Settled /\ r \in [first : 1 .. Settled, last : 1 .. Settled]
      <4>1. r.last < Settled /\ r.first \in 1 .. Settled /\ r.last \in 1 .. Settled
        BY <1>2, <3>1, <3>2, <3>4, <3>5
      <4> QED
        BY <3>2, <4>1
    <3>7. r.first .. r.last \cap dropped = {}
      BY <2>1, <3>1
    <3> QED
      BY <3>1, <3>6, <3>7 DEF Over
  <2>9. ASSUME NEW r \in Over(wire', Settled, dropped)
        PROVE  r \in Over(wire', end, dropped')
    <3>1. /\ r \in [first : 1 .. Settled, last : 1 .. Settled] /\ r.first <= r.last
          /\ r.last < Settled
          /\ \A p \in r.first .. r.last : wire'[p]
          /\ r.first = 1 \/ ~wire'[r.first - 1]
          /\ ~wire'[r.last + 1]
          /\ LongEnough(r) /\ r.first .. r.last \cap dropped = {}
      BY DEF Over
    <3>2. /\ r.first \in 1 .. Settled /\ r.last \in 1 .. Settled
          /\ r = [first |-> r.first, last |-> r.last]
      BY <3>1
    <3>3. r.last < end /\ r \in [first : 1 .. end, last : 1 .. end]
      <4>1. r.last < end /\ r.first \in 1 .. end /\ r.last \in 1 .. end
        BY <1>2, <3>1, <3>2
      <4> QED
        BY <3>2, <4>1
    <3>4. r.first .. r.last \cap gone = {}
      BY <1>2, <3>2
    <3>5. r.first .. r.last \cap dropped' = {}
      BY <2>1, <3>1, <3>4
    <3> QED
      BY <3>1, <3>3, <3>5 DEF Over
  <2>10. Over(wire', end, dropped') = Over(wire', Settled, dropped)
    BY <2>8, <2>9
  <2>11. Settled' \in dropped'
    BY <2>1, <2>2, <2>3
  <2>12. {r \in found' : r.first - 1 \notin dropped'} = Over(wire', Settled', dropped')
    BY <1>3, <1>6, <2>2, <2>7, <2>10
  <2>13. \A r \in found' : r.first \in 1 .. Settled'
    BY <1>4, <2>6
  <2> HIDE DEF gone, end
  <2> QED
    BY <2>5, <2>11, <2>12, <2>13 DEF FoundInv
<1> QED
  BY <1>7, <1>8

\* The runs over by the end of an image are those over before it and those found in it.
LEMMA OverExtends ==
  ASSUME NEW w, NEW s \in Nat, NEW e \in Nat, s <= e, NEW d,
         s = 0 \/ ~w[s] \/ s \in d, \A p \in d : p \in 1 .. s /\ w[p],
         s < e => ~w[e]
  PROVE  Over(w, e, d) = Over(w, s, d) \cup {r \in PieceRuns(w, s, e) : r.first - 1 \notin d}
<1>1. ASSUME NEW r \in Over(w, s, d)
      PROVE  r \in Over(w, e, d)
  <2>1. /\ r \in [first : 1 .. s, last : 1 .. s] /\ r.first <= r.last /\ r.last < s
        /\ \A p \in r.first .. r.last : w[p]
        /\ r.first = 1 \/ ~w[r.first - 1]
        /\ ~w[r.last + 1]
        /\ LongEnough(r) /\ r.first .. r.last \cap d = {}
    BY DEF Over
  <2>2. /\ r.first \in 1 .. s /\ r.last \in 1 .. s /\ r = [first |-> r.first, last |-> r.last]
    BY <2>1
  <2>3. r.last < e /\ r.first \in 1 .. e /\ r.last \in 1 .. e
    BY <2>1, <2>2
  <2>4. r \in [first : 1 .. e, last : 1 .. e]
    BY <2>2, <2>3
  <2> QED
    BY <2>1, <2>3, <2>4 DEF Over
<1>2. ASSUME NEW r \in PieceRuns(w, s, e), r.first - 1 \notin d
      PROVE  r \in Over(w, e, d)
  <2>1. /\ r \in [first : s + 1 .. e, last : s + 1 .. e] /\ r.first <= r.last
        /\ \A p \in r.first .. r.last : w[p]
        /\ r.first = s + 1 \/ ~w[r.first - 1]
        /\ r.last = e \/ ~w[r.last + 1]
        /\ LongEnough(r)
    BY DEF PieceRuns
  <2>2. /\ r.first \in s + 1 .. e /\ r.last \in s + 1 .. e
        /\ r = [first |-> r.first, last |-> r.last]
    BY <2>1
  <2>3. r.last < e
    <3>1. r.last \in r.first .. r.last /\ s < e
      BY <2>1, <2>2
    <3>2. r.last # e
      BY <2>1, <3>1
    <3> QED
      BY <2>2, <3>2
  <2>4. r.first = 1 \/ ~w[r.first - 1]
    <3> SUFFICES ASSUME r.first = s + 1
                 PROVE  r.first = 1 \/ ~w[r.first - 1]
      BY <2>1
    <3>1. r.first - 1 = s
      OBVIOUS
    <3> QED
      BY <1>2, <3>1
  <2>5. r.first .. r.last \cap d = {}
    <3> SUFFICES ASSUME NEW p \in r.first .. r.last, p \in d
                 PROVE  FALSE
      OBVIOUS
    <3>1. p \in 1 .. s
      OBVIOUS
    <3> QED
      BY <2>2, <3>1
  <2>6. r \in [first : 1 .. e, last : 1 .. e]
    <3>1. r.first \in 1 .. e /\ r.last \in 1 .. e
      BY <2>2
    <3> QED
      BY <2>2, <3>1
  <2>7. ~w[r.last + 1]
    BY <2>1, <2>2, <2>3
  <2> QED
    BY <2>1, <2>3, <2>4, <2>5, <2>6, <2>7 DEF Over
<1>3. ASSUME NEW r \in Over(w, e, d), r \notin Over(w, s, d)
      PROVE  r \in PieceRuns(w, s, e) /\ r.first - 1 \notin d
  <2>1. /\ r \in [first : 1 .. e, last : 1 .. e] /\ r.first <= r.last /\ r.last < e
        /\ \A p \in r.first .. r.last : w[p]
        /\ r.first = 1 \/ ~w[r.first - 1]
        /\ ~w[r.last + 1]
        /\ LongEnough(r) /\ r.first .. r.last \cap d = {}
    BY DEF Over
  <2>2. /\ r.first \in 1 .. e /\ r.last \in 1 .. e /\ r = [first |-> r.first, last |-> r.last]
    BY <2>1
  <2>3. ~(r.last < s)
    <3> SUFFICES ASSUME r.last < s
                 PROVE  FALSE
      OBVIOUS
    <3>1. r.first \in 1 .. s /\ r.last \in 1 .. s
      BY <2>1, <2>2
    <3>2. r \in [first : 1 .. s, last : 1 .. s]
      BY <2>2, <3>1
    <3>3. r \in Over(w, s, d)
      BY <2>1, <3>2 DEF Over
    <3> QED
      BY <1>3, <3>3
  <2>4. ~(r.first <= s)
    <3> SUFFICES ASSUME r.first <= s
                 PROVE  FALSE
      OBVIOUS
    <3>1. s \in r.first .. r.last /\ s # 0
      BY <2>2, <2>3
    <3> QED
      BY <2>1, <3>1
  <2>5. r.first \in s + 1 .. e /\ r.last \in s + 1 .. e
    BY <2>1, <2>2, <2>4
  <2>6. r.first - 1 \notin d
    <3> SUFFICES ASSUME r.first - 1 \in d
                 PROVE  FALSE
      OBVIOUS
    <3>1. r.first - 1 \in 1 .. s /\ w[r.first - 1]
      OBVIOUS
    <3>2. r.first # 1
      BY <2>2, <3>1
    <3> QED
      BY <2>1, <3>1, <3>2
  <2>7. r.first = s + 1 \/ ~w[r.first - 1]
    BY <2>1, <2>2, <2>5
  <2>8. r \in [first : s + 1 .. e, last : s + 1 .. e]
    BY <2>2, <2>5
  <2> QED
    BY <2>1, <2>6, <2>7, <2>8 DEF PieceRuns
<1> QED
  BY <1>1, <1>2, <1>3

LEMMA HandOutKeepsFound ==
  ASSUME IInv, FoundInv, NEW half \in HalfBuffer, HandOut(half)
  PROVE  FoundInv'
<1> DEFINE t   == TailStart(half, Leading(half))
           end == Len(wire) + t
<1>1. /\ wire' \in Seq(BOOLEAN) /\ Len(wire') = Len(wire) + Half
      /\ \A p \in 1 .. Len(wire) : wire'[p] = wire[p]
      /\ \A i \in 1 .. Half : wire'[Len(wire) + i] = half[i]
  BY WireGrows DEF IInv, HandOut
<1>2. /\ Settled \in Nat /\ Len(carry) \in Nat /\ Len(wire) = Settled + Len(carry)
      /\ Half \in Nat /\ Half > 0
  BY CarryThenNew, Sizes
<1>3. /\ t \in 0 .. Half
      /\ IsPiece(image', Settled, Len(carry) + t)
      /\ IsPiece(carry', Len(wire) + t, Half - t)
      /\ t > 0 => ~half[t]
      /\ t = 0 => carry = <<>>
  BY HandOutPieces
<1> HIDE DEF t
<1>4. /\ Settled = 0 \/ ~wire[Settled] \/ Settled \in dropped
      /\ \A p \in dropped : p \in 1 .. Settled /\ wire[p]
      /\ \A r \in found : r.first \in 1 .. Settled
      /\ {r \in found : r.first - 1 \notin dropped} = Over(wire, Settled, dropped)
  BY DEF FoundInv
<1>5. found' = found \cup ScanRuns(image', wire') /\ dropped' = dropped
  BY DEF HandOut
<1>6. Settled' = end /\ end \in Nat /\ Settled <= end
  <2>1. Settled' = (Len(wire) + Half) - (Half - t)
    BY <1>1, <1>3 DEF Settled, IsPiece
  <2> QED
    BY <1>2, <1>3, <2>1
<1>7. ScanRuns(image', wire') = PieceRuns(wire', Settled, end)
  <2>1. Len(carry) + t \in Nat /\ Settled + (Len(carry) + t) = end
    BY <1>2, <1>3
  <2> QED
    BY <1>2, <1>3, <2>1, ScanOfPiece
<1>8. 1 .. Settled \subseteq 1 .. Len(wire)
  BY <1>2
<1>9. \A p \in dropped : p \in 1 .. Settled /\ wire'[p]
  BY <1>1, <1>4, <1>8
<1>10. Settled = 0 \/ ~wire'[Settled] \/ Settled \in dropped
  <2>1. Settled = 0 \/ Settled \in 1 .. Len(wire)
    BY <1>2
  <2> QED
    BY <1>1, <1>4, <2>1
<1>11. Settled < end => ~wire'[end]
  <2>1. CASE t = 0
    <3>1. Len(carry) = 0
      BY <1>3, <2>1
    <3> QED
      BY <1>2, <2>1, <3>1
  <2>2. CASE t > 0
    <3>1. t \in 1 .. Half
      BY <1>2, <1>3, <2>2
    <3> QED
      BY <1>1, <1>3, <2>2, <3>1
  <2> QED
    BY <1>3, <2>1, <2>2
<1> HIDE DEF end
<1>12. Over(wire', end, dropped)
         = Over(wire', Settled, dropped)
             \cup {r \in PieceRuns(wire', Settled, end) : r.first - 1 \notin dropped}
  <2> DEFINE w == wire'
  <2>1. Settled \in Nat /\ end \in Nat /\ Settled <= end
    BY <1>2, <1>6
  <2>2. /\ Settled = 0 \/ ~w[Settled] \/ Settled \in dropped
        /\ \A p \in dropped : p \in 1 .. Settled /\ w[p]
        /\ Settled < end => ~w[end]
    BY <1>9, <1>10, <1>11
  <2> HIDE DEF w
  <2>3. Over(w, end, dropped)
          = Over(w, Settled, dropped)
              \cup {r \in PieceRuns(w, Settled, end) : r.first - 1 \notin dropped}
    BY <2>1, <2>2, OverExtends
  <2> QED
    BY <2>3 DEF w
<1>13. Over(wire', Settled, dropped) = Over(wire, Settled, dropped)
  BY <1>1, <1>2, <1>8, OverStays
<1>14. {r \in found' : r.first - 1 \notin dropped'} = Over(wire', end, dropped)
  BY <1>4, <1>5, <1>7, <1>12, <1>13
<1>15. \A r \in found' : r.first \in 1 .. end
  <2>1. ASSUME NEW r \in found
        PROVE  r.first \in 1 .. end
    <3>1. r.first \in 1 .. Settled
      BY <1>4
    <3> QED
      BY <1>2, <1>6, <3>1
  <2>2. ASSUME NEW r \in PieceRuns(wire', Settled, end)
        PROVE  r.first \in 1 .. end
    <3>1. r.first \in Settled + 1 .. end
      BY DEF PieceRuns
    <3> QED
      BY <1>2, <1>6, <3>1
  <2> QED
    BY <1>5, <1>7, <2>1, <2>2
<1>16. end = 0 \/ ~wire'[end] \/ end \in dropped
  <2>1. Settled = end \/ Settled < end
    BY <1>2, <1>6
  <2> QED
    BY <1>10, <1>11, <2>1
<1>17. \A p \in dropped' : p \in 1 .. end /\ wire'[p]
  <2> SUFFICES ASSUME NEW p \in dropped
               PROVE  p \in 1 .. end /\ wire'[p]
    BY <1>5
  <2>1. p \in 1 .. Settled /\ wire'[p]
    BY <1>9
  <2> QED
    BY <1>2, <1>6, <2>1
<1> QED
  BY <1>5, <1>6, <1>14, <1>15, <1>16, <1>17 DEF FoundInv

\* Spec => []EveryRunFound. Whatever lengths the runs have and wherever the ends of the DMA
\* halves fall, scan_runs finds every run that is over and was not dropped, as it was sent,
\* and finds nothing else but what is left of a dropped one.
THEOREM RunsFound == Spec => []EveryRunFound
<1>1. Init => FoundInv
  <2> SUFFICES ASSUME Init
               PROVE  FoundInv
    OBVIOUS
  <2>1. wire = <<>> /\ carry = <<>> /\ dropped = {} /\ found = {}
    BY DEF Init
  <2>2. Settled = 0
    BY <2>1 DEF Settled
  <2>3. Over(wire, 0, {}) = {}
    BY DEF Over
  <2> QED
    BY <2>1, <2>2, <2>3 DEF FoundInv
<1>2. IInv /\ FoundInv /\ [Next]_vars => FoundInv'
  <2> SUFFICES ASSUME IInv, FoundInv, [Next]_vars
               PROVE  FoundInv'
    OBVIOUS
  <2>1. CASE Next
    <3>1. PICK half \in HalfBuffer : CarryOn(half) \/ HandOut(half)
      BY <2>1 DEF Next, HalfBuffer
    <3> QED
      BY <3>1, CarryOnKeepsFound, HandOutKeepsFound
  <2>2. CASE UNCHANGED vars
    BY <2>2 DEF vars, FoundInv, Settled
  <2> QED
    BY <2>1, <2>2
<1>3. IInv /\ FoundInv => EveryRunFound
  <2> SUFFICES ASSUME IInv, FoundInv
               PROVE  EveryRunFound
    OBVIOUS
  <2>1. Settled \in Nat /\ Settled <= Len(wire) /\ TypeOK
    BY CarryThenNew DEF IInv
  <2> QED
    BY <2>1, RunsOver DEF FoundInv, EveryRunFound
<1> QED
  BY <1>1, <1>2, <1>3, InvariantHolds, PTL DEF Spec
================================================================================
