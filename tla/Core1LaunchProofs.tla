--------------------------- MODULE Core1LaunchProofs ---------------------------
(***************************************************************************)
(* launch_core1_riscv returns Ok only for a core 1 that has jumped, with   *)
(* FIFOs of any depth and any budget of failures.                          *)
(*                                                                         *)
(* What core 0 writes is a series of beginnings of CmdSeq, one for each    *)
(* attempt, and nothing of it is lost on the way.  So the last word always *)
(* follows the five before it, however late core 1 reads them: its echo,   *)
(* be it of an attempt given up long ago, comes from a core that has seen  *)
(* the whole sequence.                                                     *)
(***************************************************************************)
EXTENDS Core1Launch, SequenceTheorems, TLAPS

Word == 0 .. 4

\* The i-th word of what core 1 has understood, g words of the sequence, and of what it has yet
\* to read, q
Sent(g, q, i) == IF i <= g THEN CmdSeq[i] ELSE q[i - g]

\* Every word but a 0 comes after those that precede it in the sequence.
InOrder(g, q) ==
  \A i \in 1 .. g + Len(q) :
    /\ Sent(g, q, i) = 1 => i >= 3 /\ Sent(g, q, i - 1) = 0 /\ Sent(g, q, i - 2) = 0
    /\ Sent(g, q, i) >= 2 => i >= 2 /\ Sent(g, q, i - 1) = Sent(g, q, i) - 1

\* The latest attempt has written k words.
EndsWith(g, q, k) ==
  /\ k >= 1 => g + Len(q) >= 1 /\ Sent(g, q, g + Len(q)) = CmdSeq[k]
  /\ k = 2 => g + Len(q) >= 2 /\ Sent(g, q, g + Len(q) - 1) = 0

\* Words this attempt has written
Written == IF pc = "read" THEN seq ELSE seq - 1

LaunchType ==
  /\ TypeOK
  /\ toCore1 \in Seq(Word) /\ toCore0 \in Seq(Word)

LaunchInv ==
  /\ LaunchType
  /\ InOrder(got, toCore1)
  /\ pc \in {"flush", "write", "read"} => EndsWith(got, toCore1, Written)
  /\ pc # "err" => fails <= MaxFails
  /\ \A i \in 1 .. Len(toCore0) : toCore0[i] = 4 => Jumped
  /\ OkMeansStarted

LEMMA YetToRead ==
  ASSUME NEW g, NEW q, NEW i, ~(i <= g)
  PROVE  Sent(g, q, i) = q[i - g]
BY DEF Sent

LEMMA Words ==
  /\ CmdSeq[1] = 0 /\ CmdSeq[2] = 0 /\ CmdSeq[3] = 1 /\ CmdSeq[4] = 2 /\ CmdSeq[5] = 3 /\ CmdSeq[6] = 4
  /\ Len(CmdSeq) = 6
BY DEF CmdSeq

LEMMA WordsAre ==
  /\ \A k \in 1 .. 6 : CmdSeq[k] \in Word /\ CmdSeq[k] = IF k <= 2 THEN 0 ELSE k - 2
<1>1. \A k \in 1 .. 6 : k = 1 \/ k = 2 \/ k = 3 \/ k = 4 \/ k = 5 \/ k = 6
  OBVIOUS
<1> QED
  BY <1>1, Words DEF Word

--------------------------------------------------------------------------------
\* One word more at the end.

LEMMA WriteInOrder ==
  ASSUME NEW g \in 0 .. 6, NEW q \in Seq(Word), NEW k \in 1 .. 6,
         InOrder(g, q), EndsWith(g, q, k - 1)
  PROVE  /\ InOrder(g, Append(q, CmdSeq[k]))
         /\ EndsWith(g, Append(q, CmdSeq[k]), k)
<1> DEFINE r == Append(q, CmdSeq[k])
           n == g + Len(q)
<1>1. CmdSeq[k] \in Word /\ CmdSeq[k] = IF k <= 2 THEN 0 ELSE k - 2
  BY WordsAre
<1>2. /\ Len(q) \in Nat /\ n \in Nat /\ Len(r) = Len(q) + 1 /\ r \in Seq(Word)
      /\ \A i \in 1 .. Len(q) : r[i] = q[i]
      /\ r[Len(q) + 1] = CmdSeq[k]
  BY <1>1
<1>. HIDE DEF r
<1>3. \A i \in Int : i <= n => Sent(g, r, i) = Sent(g, q, i)
  <2>1. \A i \in Int : i <= n /\ ~(i <= g) => i - g \in 1 .. Len(q)
    BY <1>2
  <2> QED
    BY <1>2, <2>1 DEF Sent
<1>4. Sent(g, r, n + 1) = CmdSeq[k]
  <2>1. ~(n + 1 <= g) /\ n + 1 - g = Len(q) + 1
    BY <1>2
  <2> QED
    BY <1>2, <2>1 DEF Sent
<1>. HIDE DEF n
<1>5. g + Len(q) = n /\ g + Len(r) = n + 1
  BY <1>2 DEF n
<1>6. k - 1 >= 1 => n >= 1 /\ Sent(g, q, n) = CmdSeq[k - 1]
  BY <1>5 DEF EndsWith
<1>7. k - 1 = 2 => n >= 2 /\ Sent(g, q, n - 1) = 0
  BY <1>5 DEF EndsWith
<1>8. k >= 2 => CmdSeq[k - 1] = IF k - 1 <= 2 THEN 0 ELSE k - 3
  <2>1. k >= 2 => k - 1 \in 1 .. 6
    OBVIOUS
  <2> QED
    BY <2>1, WordsAre
<1>9. /\ k >= 2 => n >= 1 /\ Sent(g, r, n) = CmdSeq[k - 1]
      /\ k = 3 => n >= 2 /\ Sent(g, r, n - 1) = 0
  BY <1>2, <1>3, <1>6, <1>7
<1>10. ASSUME NEW i \in 1 .. n + 1
       PROVE  /\ Sent(g, r, i) = 1 => i >= 3 /\ Sent(g, r, i - 1) = 0 /\ Sent(g, r, i - 2) = 0
              /\ Sent(g, r, i) >= 2 => i >= 2 /\ Sent(g, r, i - 1) = Sent(g, r, i) - 1
  <2>1. CASE i <= n
    <3>1. i \in 1 .. n
      BY <1>2, <2>1
    <3>2. /\ Sent(g, q, i) = 1 => i >= 3 /\ Sent(g, q, i - 1) = 0 /\ Sent(g, q, i - 2) = 0
          /\ Sent(g, q, i) >= 2 => i >= 2 /\ Sent(g, q, i - 1) = Sent(g, q, i) - 1
      BY <1>5, <3>1 DEF InOrder
    <3>3. Sent(g, r, i) = Sent(g, q, i) /\ Sent(g, r, i - 1) = Sent(g, q, i - 1)
          /\ Sent(g, r, i - 2) = Sent(g, q, i - 2)
      BY <1>2, <1>3, <2>1
    <3> QED
      BY <3>2, <3>3
  <2>2. CASE i = n + 1
    <3>1. i - 1 = n /\ i - 2 = n - 1
      BY <1>2, <2>2
    <3>2. CASE k <= 2
      BY <1>1, <1>4, <2>2, <3>2
    <3>3. CASE k = 3
      BY <1>1, <1>2, <1>4, <1>8, <1>9, <2>2, <3>1, <3>3
    <3>4. CASE k > 3
      BY <1>1, <1>2, <1>4, <1>8, <1>9, <2>2, <3>1, <3>4
    <3> QED
      BY <3>2, <3>3, <3>4
  <2> QED
    BY <1>2, <2>1, <2>2
<1>11. InOrder(g, r)
  BY <1>5, <1>10 DEF InOrder
<1>12. EndsWith(g, r, k)
  <2>1. k = 2 => n >= 1 /\ Sent(g, r, n) = 0
    BY <1>8, <1>9
  <2> QED
    BY <1>2, <1>4, <1>5, <2>1 DEF EndsWith
<1> QED
  BY <1>11, <1>12 DEF r
--------------------------------------------------------------------------------
\* Core 1 reads a word.

\* What it makes of the word w after g words of the sequence.
Heard(g, w) ==
  IF w = CmdSeq[g + 1] THEN g + 1 ELSE IF w = 0 THEN (IF g = 2 THEN 2 ELSE 1) ELSE 0

\* The word it reads is the next one of the sequence, or the first one of another attempt.
LEMMA NextOrFirst ==
  ASSUME NEW g \in 0 .. 5, NEW q \in Seq(Word), q # <<>>, InOrder(g, q)
  PROVE  Head(q) = CmdSeq[g + 1] \/ (Head(q) = 0 /\ g >= 2)
<1>1. Len(q) \in Nat /\ Len(q) >= 1 /\ q[1] = Head(q) /\ Head(q) \in Word
  <2>1. Len(q) \in Nat /\ Len(q) # 0
    BY EmptySeq
  <2> QED
    BY <2>1
<1>2. ~(g + 1 <= g) /\ g + 1 - g = 1 /\ g + 1 \in 1 .. g + Len(q) /\ g + 1 \in 1 .. 6
  BY <1>1
<1>3. Sent(g, q, g + 1) = Head(q)
  BY <1>1, <1>2 DEF Sent
<1>4. g <= g /\ g - 1 <= g /\ g + 1 - 1 = g /\ g + 1 - 2 = g - 1
  OBVIOUS
<1>5. Sent(g, q, g) = CmdSeq[g] /\ Sent(g, q, g - 1) = CmdSeq[g - 1]
  BY <1>4 DEF Sent
<1>6. /\ Head(q) = 1 => g + 1 >= 3 /\ CmdSeq[g] = 0 /\ CmdSeq[g - 1] = 0
      /\ Head(q) >= 2 => g + 1 >= 2 /\ CmdSeq[g] = Head(q) - 1
  BY <1>2, <1>3, <1>4, <1>5 DEF InOrder
<1>7. g >= 1 => CmdSeq[g] = IF g <= 2 THEN 0 ELSE g - 2
  <2>1. g >= 1 => g \in 1 .. 6
    OBVIOUS
  <2> QED
    BY <2>1, WordsAre
<1>8. CmdSeq[g + 1] \in Int /\ (g <= 1 => CmdSeq[g + 1] = 0) /\ (g >= 2 => CmdSeq[g + 1] = g - 1)
  BY <1>2, WordsAre DEF Word
<1>9. CASE Head(q) = 0
  <2>1. CASE g <= 1
    BY <1>8, <1>9, <2>1
  <2>2. CASE g >= 2
    BY <1>9, <2>2
  <2> QED
    BY <2>1, <2>2
<1>10. CASE Head(q) = 1
  <2>1. g = 2
    BY <1>6, <1>7, <1>10
  <2> QED
    BY <1>8, <1>10, <2>1
<1>11. CASE Head(q) >= 2
  <2>1. Head(q) \in Int
    BY <1>1 DEF Word
  <2>2. g >= 1 /\ g > 2
    BY <1>6, <1>7, <1>11, <2>1
  <2>3. g - 2 = Head(q) - 1
    BY <1>6, <1>7, <1>11, <2>2
  <2> QED
    BY <1>8, <2>1, <2>2, <2>3
<1> QED
  BY <1>1, <1>9, <1>10, <1>11 DEF Word
LEMMA ReadInOrder ==
  ASSUME NEW g \in 0 .. 5, NEW q \in Seq(Word), q # <<>>, InOrder(g, q),
         NEW k \in 0 .. 6, EndsWith(g, q, k)
  PROVE  /\ Heard(g, Head(q)) \in 0 .. 6
         /\ InOrder(Heard(g, Head(q)), Tail(q))
         /\ EndsWith(Heard(g, Head(q)), Tail(q), k)
         /\ Head(q) = 4 => Heard(g, Head(q)) = 6
<1> DEFINE h == Heard(g, Head(q))
           r == Tail(q)
           m == Len(q) - 1
           shift == g + 1 - h
<1>1. /\ Len(q) \in Nat /\ m \in Nat /\ q[1] = Head(q) /\ Head(q) \in Word
      /\ r \in Seq(Word) /\ Len(r) = m /\ Len(q) = m + 1
      /\ \A i \in 1 .. m : r[i] = q[i + 1]
  <2>1. Len(q) \in Nat /\ Len(q) # 0
    BY EmptySeq
  <2> QED
    BY <2>1
<1>2. Head(q) = CmdSeq[g + 1] \/ (Head(q) = 0 /\ g >= 2)
  BY NextOrFirst
<1>3. CmdSeq[g + 1] \in Int /\ (g <= 1 => CmdSeq[g + 1] = 0) /\ (g >= 2 => CmdSeq[g + 1] = g - 1)
  <2>1. g + 1 \in 1 .. 6
    OBVIOUS
  <2> QED
    BY <2>1, WordsAre DEF Word
<1>4. \/ h = g + 1 /\ Head(q) = CmdSeq[g + 1]
      \/ h = 2 /\ g = 2 /\ Head(q) = 0
      \/ h = 1 /\ g > 2 /\ Head(q) = 0
  BY <1>2, <1>3 DEF Heard
<1>5. Head(q) = 4 => h = 6
  BY <1>3, <1>4
<1>. HIDE DEF h, r, m
<1>6. h \in 0 .. 6 /\ shift \in 0 .. 5 /\ h + m + shift = g + Len(q) /\ h + Len(r) = h + m
  BY <1>1, <1>4
\* What core 1 has understood and has yet to read is as before, without its first words.
<1>7. ASSUME NEW i \in 1 .. h + m
      PROVE  Sent(h, r, i) = Sent(g, q, i + shift)
  <2>1. CASE i > h
    <3>1. ~(i <= h) /\ i - h \in 1 .. m /\ ~(i + shift <= g) /\ (i + shift) - g = i - h + 1
      BY <1>1, <1>4, <2>1, SMTT(30)
    <3>2. Sent(h, r, i) = r[i - h] /\ Sent(g, q, i + shift) = q[(i + shift) - g]
      <4>. HIDE DEF shift
      <4> QED
        BY <3>1, YetToRead
    <3>3. r[i - h] = q[i - h + 1]
      BY <1>1, <3>1
    <3> QED
      BY <3>1, <3>2, <3>3
  <2>2. CASE i <= h /\ h = g + 1
    <3>1. i + shift = i
      BY <2>2
    <3>2. CASE i <= g
      BY <2>2, <3>1, <3>2 DEF Sent
    <3>3. CASE i = g + 1
      <4>1. ~(i <= g) /\ i - g = 1 /\ i <= h
        BY <2>2, <3>3
      <4> QED
        BY <1>1, <1>4, <2>2, <3>1, <3>3, <4>1 DEF Sent
    <3> QED
      BY <2>2, <3>2, <3>3
  <2>3. CASE i <= h /\ h = 2 /\ g = 2 /\ Head(q) = 0
    <3>1. i + shift = 2 \/ i + shift = 3
      BY <2>3
    <3>2. Sent(h, r, i) = 0
      BY <2>3, Words DEF Sent
    <3>3. Sent(g, q, 2) = 0 /\ Sent(g, q, 3) = 0
      BY <1>1, <2>3, Words DEF Sent
    <3> QED
      BY <3>1, <3>2, <3>3
  <2>4. CASE i <= h /\ h = 1 /\ g > 2 /\ Head(q) = 0
    <3>1. i = 1 /\ i + shift = g + 1 /\ ~(g + 1 <= g) /\ g + 1 - g = 1
      BY <2>4
    <3> QED
      BY <1>1, <2>4, <3>1, Words DEF Sent
  <2> QED
    BY <1>4, <1>6, <2>1, <2>2, <2>3, <2>4
<1>8. \A i \in 1 .. g + Len(q) : Sent(g, q, i) \in Word
  <2> TAKE i \in 1 .. g + Len(q)
  <2>1. CASE i <= g
    BY <2>1, WordsAre DEF Sent
  <2>2. CASE i > g
    <3>1. ~(i <= g) /\ i - g \in 1 .. Len(q)
      BY <1>1, <2>2
    <3> QED
      BY <3>1 DEF Sent
  <2> QED
    BY <1>1, <2>1, <2>2
\* A 0 cannot be missed: only zeros are.
<1>9. shift > 0 => \A i \in 1 .. 2 : i <= h => Sent(h, r, i) = 0
  BY <1>4, Words DEF Sent
<1>10. InOrder(h, r)
  <2> SUFFICES ASSUME NEW i \in 1 .. h + m
               PROVE  /\ Sent(h, r, i) = 1 => i >= 3 /\ Sent(h, r, i - 1) = 0 /\ Sent(h, r, i - 2) = 0
                      /\ Sent(h, r, i) >= 2 => i >= 2 /\ Sent(h, r, i - 1) = Sent(h, r, i) - 1
    BY <1>6 DEF InOrder
  <2> DEFINE j == i + shift
  <2>1. j \in 1 .. g + Len(q) /\ j \in Int
    BY <1>1, <1>6
  <2>2. /\ Sent(g, q, j) = 1 => j >= 3 /\ Sent(g, q, j - 1) = 0 /\ Sent(g, q, j - 2) = 0
        /\ Sent(g, q, j) >= 2 => j >= 2 /\ Sent(g, q, j - 1) = Sent(g, q, j) - 1
    BY <2>1 DEF InOrder
  <2>3. Sent(h, r, i) = Sent(g, q, j)
    BY <1>7
  <2>4. i >= 2 => Sent(h, r, i - 1) = Sent(g, q, j - 1)
    <3>1. i >= 2 => i - 1 \in 1 .. h + m /\ i - 1 + shift = j - 1
      BY <1>1, <1>6
    <3> QED
      BY <1>7, <3>1
  <2>5. i >= 3 => Sent(h, r, i - 2) = Sent(g, q, j - 2)
    <3>1. i >= 3 => i - 2 \in 1 .. h + m /\ i - 2 + shift = j - 2
      BY <1>1, <1>6
    <3> QED
      BY <1>7, <3>1
  <2>6. shift = 0 => j = i
    BY <1>6
  <2>7. ASSUME shift > 0
        PROVE  /\ Sent(h, r, i) = 1 => i >= 3
               /\ Sent(h, r, i) >= 2 => i >= 2
    <3>1. CASE i <= h
      BY <1>4, <1>9, <2>7, <3>1
    <3>2. CASE i > h /\ h = 2
      BY <3>2
    <3>3. CASE i > h /\ h = 1 /\ g > 2
      <4>1. i = 2 => j - 1 = g + 1 /\ j - 2 = g
        BY <3>3
      <4>2. Sent(g, q, g) = CmdSeq[g] /\ CmdSeq[g] = g - 2
        <5>1. g \in 1 .. 6
          BY <3>3
        <5> QED
          BY <3>3, <5>1, WordsAre DEF Sent
      <4>3. i = 2 => Sent(g, q, j) # 1
        BY <2>2, <3>3, <4>1, <4>2
      <4> QED
        BY <2>3, <3>3, <4>3
    <3> QED
      BY <1>4, <2>7, <3>1, <3>2, <3>3
  <2>8. shift = 0 \/ shift > 0
    BY <1>6
  <2>. HIDE DEF j
  <2>9. (Sent(h, r, i) = 1 => i >= 3) /\ (Sent(h, r, i) >= 2 => i >= 2)
    BY <2>2, <2>3, <2>6, <2>7, <2>8
  <2> QED
    BY <2>2, <2>3, <2>4, <2>5, <2>9
<1>11. EndsWith(h, r, k)
  <2>1. /\ k >= 1 => g + Len(q) >= 1 /\ Sent(g, q, g + Len(q)) = CmdSeq[k]
        /\ k = 2 => g + Len(q) >= 2 /\ Sent(g, q, g + Len(q) - 1) = 0
    BY DEF EndsWith
  <2>2. h + m >= 1 /\ h + m \in 1 .. h + m /\ h + m + shift = g + Len(q)
    BY <1>1, <1>4, <1>6
  <2>3. Sent(h, r, h + m) = Sent(g, q, g + Len(q))
    BY <1>7, <2>2
  <2>4. ASSUME k = 2
        PROVE  h + m >= 2 /\ Sent(h, r, h + m - 1) = 0
    <3>1. CASE h + m >= 2
      <4>1. h + m - 1 \in 1 .. h + m /\ h + m - 1 + shift = g + Len(q) - 1
        BY <1>1, <1>6, <3>1
      <4> QED
        BY <1>7, <2>1, <2>4, <3>1, <4>1
    <3>2. CASE h + m = 1 /\ h = 1 /\ g > 2
      <4>1. g + Len(q) - 1 = g /\ g \in 1 .. 6
        BY <1>1, <3>2
      <4>2. Sent(g, q, g) = g - 2
        BY <3>2, <4>1, WordsAre DEF Sent
      <4> QED
        BY <2>1, <2>4, <3>2, <4>1, <4>2
    <3>3. CASE h + m = 1 /\ h = g + 1
      <4>1. g + Len(q) = 1
        BY <1>1, <3>3
      <4> QED
        BY <2>1, <2>4, <4>1
    <3> QED
      BY <1>1, <1>4, <1>6, <2>2, <3>1, <3>2, <3>3
  <2>5. k >= 1 => h + m >= 1 /\ Sent(h, r, h + m) = CmdSeq[k]
    BY <2>1, <2>2, <2>3
  <2>6. Len(r) = m
    BY <1>1
  <2>. HIDE DEF shift
  <2> QED
    BY <2>4, <2>5, <2>6, Zenon DEF EndsWith
<1> QED
  BY <1>5, <1>6, <1>10, <1>11 DEF h, r
--------------------------------------------------------------------------------
\* One step of the launch.

LEMMA LaunchInitGood == Init => LaunchInv
<1> SUFFICES ASSUME Init
             PROVE  LaunchInv
  OBVIOUS
<1>1. LaunchType /\ (pc # "err" => fails <= MaxFails) /\ pc = "flush" /\ Written = 0
  BY Core1LaunchAssumption, Words DEF Init, LaunchType, TypeOK, Written
<1>2. Len(toCore1) = 0 /\ Len(toCore0) = 0 /\ got = 0
  BY DEF Init
<1>3. InOrder(got, toCore1) /\ EndsWith(got, toCore1, Written)
  BY <1>1, <1>2 DEF InOrder, EndsWith
<1> QED
  BY <1>1, <1>2, <1>3 DEF LaunchInv, OkMeansStarted

\* Core 0's steps but the write leave what core 1 understands and reads.
LEMMA StreamKept ==
  ASSUME LaunchInv, got' = got, toCore1' = toCore1, Written' \in {0, Written},
         pc \in {"flush", "write", "read"}
  PROVE  /\ InOrder(got', toCore1')
         /\ EndsWith(got', toCore1', Written')
<1>1. InOrder(got, toCore1) /\ EndsWith(got, toCore1, Written)
  BY DEF LaunchInv
<1>2. EndsWith(got, toCore1, 0)
  BY DEF EndsWith
<1> QED
  BY <1>1, <1>2

LEMMA FlushGood ==
  ASSUME LaunchInv, Flush
  PROVE  LaunchInv'
<1>1. LaunchType' /\ pc = "flush" /\ pc' = "write" /\ got' = got /\ toCore1' = toCore1 /\ seq' = seq
      /\ fails' = fails
  BY Core1LaunchAssumption DEF LaunchInv, LaunchType, TypeOK, Flush
<1>2. Written' = Written
  BY <1>1 DEF Written
<1>3. \A i \in 1 .. Len(toCore0') : toCore0'[i] = 4 => Jumped'
  <2>1. toCore0' = toCore0 \/ Len(toCore0') = 0
    BY DEF Flush
  <2> QED
    BY <1>1, <2>1 DEF LaunchInv, Jumped
<1> QED
  BY <1>1, <1>2, <1>3, StreamKept DEF LaunchInv, OkMeansStarted

LEMMA WriteGood ==
  ASSUME LaunchInv, Write
  PROVE  LaunchInv'
<1>1. /\ pc = "write" /\ pc' = "read" /\ seq' = seq /\ got' = got /\ fails' = fails /\ toCore0' = toCore0
      /\ toCore1' = Append(toCore1, CmdSeq[seq])
      /\ seq \in 1 .. 6 /\ got \in 0 .. 6 /\ toCore1 \in Seq(Word)
  BY Words DEF Write, LaunchInv, LaunchType, TypeOK
<1>2. Written = seq - 1 /\ Written' = seq
  BY <1>1 DEF Written
<1>3. CmdSeq[seq] \in Word
  BY <1>1, WordsAre
<1>4. toCore1' \in Seq(Word) /\ Len(toCore1') <= FifoDepth
  BY <1>1, <1>3, Core1LaunchAssumption DEF Write
<1>5. LaunchType'
  BY <1>1, <1>4 DEF LaunchInv, LaunchType, TypeOK
<1>6. InOrder(got, toCore1) /\ EndsWith(got, toCore1, seq - 1)
  BY <1>1, <1>2 DEF LaunchInv
<1>7. InOrder(got', toCore1') /\ EndsWith(got', toCore1', Written')
  BY <1>1, <1>2, <1>6, WriteInOrder
<1> QED
  BY <1>1, <1>5, <1>7 DEF LaunchInv, OkMeansStarted, Jumped

LEMMA StartOverGood ==
  ASSUME LaunchInv, pc = "read", StartOver
  PROVE  /\ seq' \in 1 .. Len(CmdSeq) /\ fails' \in 0 .. MaxFails + 1
         /\ pc' \in {"flush", "err"} /\ (pc' # "err" => fails' <= MaxFails)
         /\ Written' = 0
BY Core1LaunchAssumption, Words DEF LaunchInv, LaunchType, TypeOK, StartOver, Written

LEMMA ReadTimeoutGood ==
  ASSUME LaunchInv, ReadTimeout
  PROVE  LaunchInv'
<1>1. pc = "read" /\ StartOver /\ got' = got /\ toCore1' = toCore1 /\ toCore0' = toCore0
  BY DEF ReadTimeout
<1>2. LaunchType'
  BY <1>1, StartOverGood DEF LaunchInv, LaunchType, TypeOK
<1> QED
  BY <1>1, <1>2, StartOverGood, StreamKept DEF LaunchInv, OkMeansStarted, Jumped

LEMMA ReadGood ==
  ASSUME LaunchInv, Read
  PROVE  LaunchInv'
<1>1. /\ pc = "read" /\ toCore0 # <<>> /\ toCore0 \in Seq(Word) /\ toCore0' = Tail(toCore0)
      /\ got' = got /\ toCore1' = toCore1 /\ seq \in 1 .. 6
  BY Words DEF Read, LaunchInv, LaunchType, TypeOK
<1>2. Len(toCore0) \in Nat /\ Len(toCore0) >= 1
  <2>1. Len(toCore0) \in Nat /\ Len(toCore0) # 0
    BY <1>1, EmptySeq
  <2> QED
    BY <2>1
<1>3. /\ toCore0' \in Seq(Word) /\ Len(toCore0') = Len(toCore0) - 1
      /\ \A i \in 1 .. Len(toCore0') : toCore0'[i] = toCore0[i + 1]
      /\ Head(toCore0) = toCore0[1]
  BY <1>1, <1>2
<1>4. \A i \in 1 .. Len(toCore0) : toCore0[i] = 4 => Jumped
  BY DEF LaunchInv
<1>5. \A i \in 1 .. Len(toCore0') : toCore0'[i] = 4 => Jumped'
  BY <1>1, <1>2, <1>3, <1>4 DEF Jumped
<1>6. Head(toCore0) = 4 => Jumped
  BY <1>2, <1>3, <1>4
<1>7. Len(toCore0') <= FifoDepth
  BY <1>2, <1>3, Core1LaunchAssumption DEF LaunchInv, LaunchType, TypeOK
<1>8. CASE Echoes(Head(toCore0))
  <2>1. /\ seq' = (IF seq < 6 THEN seq + 1 ELSE seq)
        /\ pc' = (IF seq < 6 THEN "flush" ELSE "ok")
        /\ fails' = fails
    BY <1>8, Words DEF Read
  <2>2. LaunchType'
    BY <1>1, <1>3, <1>7, <2>1, Words DEF LaunchInv, LaunchType, TypeOK
  <2>3. CASE seq < 6
    <3>1. Written' = Written /\ pc' = "flush"
      BY <1>1, <2>1, <2>3 DEF Written
    <3> QED
      BY <1>1, <1>5, <2>1, <2>2, <3>1, StreamKept DEF LaunchInv, OkMeansStarted
  <2>4. CASE seq = 6
    <3>1. Jumped /\ Jumped' /\ pc' = "ok"
      BY <1>1, <1>6, <1>8, <2>1, <2>4, Words DEF Echoes, Jumped
    <3> QED
      BY <1>1, <1>5, <2>1, <2>2, <3>1 DEF LaunchInv, OkMeansStarted
  <2> QED
    BY <1>1, <2>3, <2>4
<1>9. CASE ~Echoes(Head(toCore0))
  <2>1. StartOver
    BY <1>9 DEF Read
  <2>2. LaunchType'
    BY <1>1, <1>3, <1>7, <2>1, StartOverGood DEF LaunchInv, LaunchType, TypeOK
  <2> QED
    BY <1>1, <1>5, <2>1, <2>2, StartOverGood, StreamKept DEF LaunchInv, OkMeansStarted
<1> QED
  BY <1>8, <1>9

LEMMA EchoGood ==
  ASSUME LaunchInv, Core1Echo
  PROVE  LaunchInv'
<1> DEFINE w == Head(toCore1)
<1>1. /\ toCore1 # <<>> /\ toCore1 \in Seq(Word) /\ toCore0 \in Seq(Word)
      /\ toCore1' = Tail(toCore1) /\ toCore0' = Append(toCore0, w)
      /\ pc' = pc /\ seq' = seq /\ fails' = fails
      /\ got \in 0 .. 5 /\ got' = Heard(got, w) /\ seq \in 1 .. 6
      /\ Len(toCore0) < FifoDepth /\ ~Jumped
  BY Words DEF Core1Echo, Jumped, LaunchInv, LaunchType, TypeOK, Heard
<1>2. Len(toCore1) \in Nat /\ Len(toCore1) >= 1 /\ w \in Word
  <2>1. Len(toCore1) \in Nat /\ Len(toCore1) # 0
    BY <1>1, EmptySeq
  <2> QED
    BY <1>1, <2>1
<1>3. Len(toCore1') = Len(toCore1) - 1 /\ toCore1' \in Seq(Word)
  BY <1>1, <1>2
<1>4. Written' = Written /\ (pc \in {"flush", "write", "read"} => Written \in 0 .. 6)
  BY <1>1 DEF Written
<1>5. InOrder(got, toCore1) /\ (pc \in {"flush", "write", "read"} => EndsWith(got, toCore1, Written))
  BY DEF LaunchInv
<1>6. EndsWith(got, toCore1, 0)
  BY DEF EndsWith
<1>. HIDE DEF w
<1>7. got' \in 0 .. 6 /\ InOrder(got', toCore1') /\ (w = 4 => got' = 6)
  BY <1>1, <1>5, <1>6, ReadInOrder DEF w
<1>8. pc \in {"flush", "write", "read"} => EndsWith(got', toCore1', Written')
  BY <1>1, <1>4, <1>5, ReadInOrder DEF w
<1>9. /\ toCore0' \in Seq(Word) /\ Len(toCore0') = Len(toCore0) + 1
      /\ \A i \in 1 .. Len(toCore0) : toCore0'[i] = toCore0[i]
      /\ toCore0'[Len(toCore0) + 1] = w
  BY <1>1, <1>2
<1>10. ASSUME NEW i \in 1 .. Len(toCore0'), toCore0'[i] = 4
       PROVE  Jumped'
  <2>1. i \in 1 .. Len(toCore0) \/ i = Len(toCore0) + 1
    BY <1>1, <1>9
  <2>2. ~(i \in 1 .. Len(toCore0))
    BY <1>1, <1>9, <1>10 DEF LaunchInv
  <2> QED
    BY <1>7, <1>9, <1>10, <2>1, <2>2, Words DEF Jumped
<1>11. LaunchType'
  BY <1>1, <1>2, <1>3, <1>7, <1>9, Words, Core1LaunchAssumption DEF LaunchInv, LaunchType, TypeOK
<1>12. pc # "ok"
  BY <1>1 DEF LaunchInv, OkMeansStarted
<1> QED
  BY <1>1, <1>7, <1>8, <1>10, <1>11, <1>12 DEF LaunchInv, OkMeansStarted

LEMMA LaunchStepGood ==
  ASSUME LaunchInv, Next
  PROVE  LaunchInv'
BY FlushGood, WriteGood, ReadGood, ReadTimeoutGood, EchoGood DEF Next, Core0Next

\* Ok is returned for a core 1 that has jumped and for no other, in every interleaving of the two
\* cores, whatever the depth of the FIFOs and the number of attempts.  (launch_core1_riscv)
THEOREM LaunchIsHonest == Spec => []OkMeansStarted
<1>1. LaunchInv /\ UNCHANGED vars => LaunchInv'
  BY DEF vars, LaunchInv, LaunchType, TypeOK, Written, OkMeansStarted, Jumped
<1>2. LaunchInv /\ [Next]_vars => LaunchInv'
  BY <1>1, LaunchStepGood
<1>3. LaunchInv => OkMeansStarted
  BY DEF LaunchInv
<1> QED
  BY <1>2, <1>3, LaunchInitGood, PTL DEF Spec
================================================================================
