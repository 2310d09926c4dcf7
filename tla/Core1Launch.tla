------------------------------ MODULE Core1Launch ------------------------------
(***************************************************************************)
(* launch_core1_riscv (src/multicore_riscv.rs): core 0 sends six words to  *)
(* the bootrom of core 1 through a hardware FIFO, reading each one's echo  *)
(* with a timeout and starting over on a timeout or a mismatch.            *)
(*                                                                         *)
(* Core 1's bootrom is outside the repository.  It is taken to do what the *)
(* handshake relies on: it pops words in order, echoes each one, and jumps *)
(* to the entry once it has seen the six words in sequence.  It may be     *)
(* late by any amount (a timeout can fire whenever no echo is there), or   *)
(* dead from the start.                                                    *)
(***************************************************************************)
EXTENDS Integers, Sequences

CONSTANTS
  FifoDepth,   \* words each of the two SIO FIFOs holds
  MaxFails,    \* MAX_FAILS
  Core1Alive   \* whether core 1 runs its bootrom at all

ASSUME Core1LaunchAssumption ==
  FifoDepth \in Nat \ {0} /\ MaxFails \in Nat /\ Core1Alive \in BOOLEAN

\* The three addresses (mtvec, sp, trampoline) are three words other than 0 and 1.
CmdSeq == <<0, 0, 1, 2, 3, 4>>

VARIABLES
  pc,      \* core 0: "flush", "write", "read", "ok", "err"
  seq,     \* index into cmd_seq, from 1
  fails,
  toCore1, toCore0,   \* the SIO FIFOs
  got      \* words of the sequence core 1 has seen; 6 once it has jumped

vars == <<pc, seq, fails, toCore1, toCore0, got>>

Jumped == got = Len(CmdSeq)

\* Before each 0 the stale echoes are drained and core 1 is woken.
Flush ==
  /\ pc = "flush"
  /\ toCore0' = IF CmdSeq[seq] = 0 THEN <<>> ELSE toCore0
  /\ pc' = "write"
  /\ UNCHANGED <<seq, fails, toCore1, got>>

\* write_blocking waits for room for as long as it takes.
Write ==
  /\ pc = "write"
  /\ Len(toCore1) < FifoDepth
  /\ toCore1' = Append(toCore1, CmdSeq[seq])
  /\ pc' = "read"
  /\ UNCHANGED <<seq, fails, toCore0, got>>

StartOver ==
  /\ seq' = 1
  /\ fails' = fails + 1
  /\ pc' = IF fails + 1 > MaxFails THEN "err" ELSE "flush"

\* The echo, if it is the word just sent, moves to the next word.
EchoesAny(w) == w \in 0 .. 4
Echoes(w)    == w = CmdSeq[seq]

Read ==
  /\ pc = "read" /\ toCore0 # <<>>
  /\ toCore0' = Tail(toCore0)
  /\ IF Echoes(Head(toCore0))
     THEN /\ seq' = IF seq < Len(CmdSeq) THEN seq + 1 ELSE seq
          /\ pc' = IF seq < Len(CmdSeq) THEN "flush" ELSE "ok"
          /\ UNCHANGED fails
     ELSE StartOver
  /\ UNCHANGED <<toCore1, got>>

\* READ_SPINS polls found no echo.
ReadTimeout ==
  /\ pc = "read" /\ toCore0 = <<>>
  /\ StartOver
  /\ UNCHANGED <<toCore1, toCore0, got>>

\* The bootrom: pop a word, echo it, follow the sequence. A 0 out of place begins it anew
\* (a third 0 keeps it after the second), anything else out of place drops it.
Core1Echo ==
  /\ Core1Alive /\ ~Jumped
  /\ toCore1 # <<>> /\ Len(toCore0) < FifoDepth
  /\ LET w == Head(toCore1)
     IN  got' = IF w = CmdSeq[got + 1] THEN got + 1
                ELSE IF w = 0 THEN (IF got = 2 THEN 2 ELSE 1) ELSE 0
  /\ toCore0' = Append(toCore0, Head(toCore1))
  /\ toCore1' = Tail(toCore1)
  /\ UNCHANGED <<pc, seq, fails>>

Init ==
  /\ pc = "flush" /\ seq = 1 /\ fails = 0
  /\ toCore1 = <<>> /\ toCore0 = <<>> /\ got = 0

Core0Next == Flush \/ Write \/ Read \/ ReadTimeout
Next == Core0Next \/ Core1Echo
Spec == Init /\ [][Next]_vars

\* Core 0 runs nothing else while it launches.
FairSpec == Spec /\ WF_vars(Core0Next) /\ WF_vars(Core1Echo)

--------------------------------------------------------------------------------
\* Properties

TypeOK ==
  /\ pc \in {"flush", "write", "read", "ok", "err"}
  /\ seq \in 1 .. Len(CmdSeq) /\ fails \in 0 .. MaxFails + 1
  /\ Len(toCore1) <= FifoDepth /\ Len(toCore0) <= FifoDepth
  /\ got \in 0 .. Len(CmdSeq)

\* Ok is returned only once core 1 has jumped: no echo left over from an attempt that timed out
\* is taken for the answer to the last word.
OkMeansStarted == pc = "ok" => Jumped

\* The launch is bounded: it returns, with Ok or with an error, even if core 1 is dead
\* (main.rs, above install_rx). A dead core 1 never empties the FIFO, and write_blocking on a
\* full one waits for ever, before the retry budget is spent.
LaunchReturns == <>(pc \in {"ok", "err"})
================================================================================
