------------------------------ MODULE CarrierSense ------------------------------
(***************************************************************************)
(* How src/eth_tx.rs of a half-duplex build finds the wire free: the PIO   *)
(* program that tells whether RO is active, and core 0's waiting, backing  *)
(* off and looking again before it transmits.                              *)
(*                                                                         *)
(* A tick is a cycle of the carrier-detect program, at 60 MHz: one sample  *)
(* of RO and one instruction.  Core 0 runs at its own speed between ticks; *)
(* a backoff takes as long as it likes, and so does the time from the last *)
(* look to the first bit, in which core 0 may be interrupted.              *)
(*                                                                         *)
(* The pin's synchronizer delays RO by two cycles for every instruction    *)
(* alike; level is what comes out of it.                                   *)
(***************************************************************************)
EXTENDS Integers

CONSTANTS
  GUARD,          \* the program's count of stable samples, 8
  SpinLimit,      \* CARRIER_WAIT_SPINS
  MaxAttempts,    \* CSMA_MAX_ATTEMPTS
  MaxRun,         \* bound: samples between two edges of an active wire
  Latency         \* bound: ticks an active wire may go unnoticed

\* Edges are at least two samples apart, and two seven-sample runs fit into the guard.  A wire
\* goes unnoticed while the program counts out a run, and then for eight instructions and a run.
ASSUME CarrierSenseAssumption ==
  /\ {GUARD, SpinLimit, MaxAttempts, Latency} \subseteq Nat \ {0}
  /\ MaxRun \in 2 .. GUARD
  /\ Latency >= 2 * MaxRun + 8

VARIABLES
  level,     \* RO, 0 or 1
  edgeIn,    \* samples until RO's next edge, or Quiet
  active,    \* history: ticks since the wire became active, at most Latency + 1; 0 if quiet
  pc,        \* the carrier program's next instruction
  x,         \* its counter
  flag,      \* PIO IRQ flag 0: carrier present
  job,       \* what core 0 is to send, or "none"
  step,      \* where it is: "none", "wait", "backoff", "go"
  attempts,  \* csma_acquire: attempts that found the wire taken
  spins,     \* wait_carrier_idle: looks that found it so
  busy       \* history: at the core's last look the wire had been active for over Latency ticks

roVars == <<level, edgeIn, active>>
programVars == <<pc, x, flag>>
coreVars == <<job, step, attempts, spins, busy>>
senseVars == <<level, edgeIn, active, pc, x, flag, job, step, attempts, spins, busy>>

Quiet == 0

--------------------------------------------------------------------------------
\* The wire and the carrier-detect program

Age == IF active > Latency THEN active ELSE active + 1

\* A peer sends, with an edge every MaxRun samples at most, for as long as it likes; it stops
\* with RO low.
Wire ==
  \/ edgeIn = Quiet /\ UNCHANGED roVars
  \/ edgeIn = Quiet /\ level' = 1 /\ edgeIn' \in 2 .. MaxRun /\ active' = 1
  \/ edgeIn > 1 /\ edgeIn' = edgeIn - 1 /\ active' = Age /\ UNCHANGED level
  \/ edgeIn = 1 /\ level' = 1 - level /\ edgeIn' \in 2 .. MaxRun /\ active' = Age
  \/ edgeIn = 1 /\ level = 1 /\ level' = 0 /\ edgeIn' = Quiet /\ active' = 0

GotoPastSet(label) == pc' = (IF label = "restart" THEN "branch" ELSE label) /\ UNCHANGED <<x, flag>>
Goto(label) == pc' = label /\ UNCHANGED <<x, flag>>

\* jmp x--: what is left in x after the last round is never read.
CountDown(label) ==
  /\ pc' = IF x = 0 THEN "to_idle" ELSE label
  /\ x' = IF x = 0 THEN GUARD ELSE x - 1
  /\ UNCHANGED flag

\* One instruction of cs_program; both ends of the program jump back to its start.
Instruction ==
  \/ pc = "restart" /\ pc' = "branch" /\ x' = GUARD /\ UNCHANGED flag
  \/ pc = "branch" /\ Goto(IF level = 1 THEN "track_high" ELSE "track_low")
  \/ pc = "track_low" /\ Goto(IF level = 1 THEN "edge" ELSE "low_cont")
  \/ pc = "track_high" /\ Goto(IF level = 1 THEN "high_cont" ELSE "to_edge")
  \/ pc = "low_cont" /\ CountDown("track_low")
  \/ pc = "high_cont" /\ CountDown("track_high")
  \/ pc = "to_edge" /\ Goto("edge")
  \/ pc = "to_idle" /\ Goto("idle")
  \/ pc = "edge" /\ flag' = TRUE /\ pc' = "back" /\ UNCHANGED x
  \/ pc = "idle" /\ flag' = FALSE /\ pc' = "back" /\ UNCHANGED x
  \/ pc = "back" /\ Goto("restart")

Tick == Wire /\ Instruction /\ UNCHANGED coreVars

--------------------------------------------------------------------------------
\* Core 0

\* send_raw_frame acquires the wire; send_nlp and send_udp_broadcast only wait.
Kinds == {"raw", "nlp", "udp"}

Send(kind) ==
  /\ job = "none"
  /\ job' = kind /\ step' = "wait" /\ attempts' = 0 /\ spins' = 0
  /\ UNCHANGED <<roVars, programVars, busy>>

\* carrier_present
Look == busy' = (active > Latency)

WaitForEver ==
  /\ step = "wait"
  /\ Look
  /\ UNCHANGED spins
  /\ step' = IF flag THEN "wait" ELSE IF job = "raw" THEN "backoff" ELSE "go"
  /\ UNCHANGED <<roVars, programVars, job, attempts>>

\* wait_carrier_idle: one look, and the way on when it is the last.
Wait ==
  /\ step = "wait"
  /\ Look
  /\ spins' = IF flag THEN spins + 1 ELSE spins
  /\ step' = IF flag /\ spins' < SpinLimit THEN "wait"
             ELSE IF job = "raw" THEN "backoff" ELSE "go"
  /\ UNCHANGED <<roVars, programVars, job, attempts>>

\* csma_acquire after a backoff: the wire is taken if it is still idle, and after the last
\* attempt in any case.
Acquire ==
  /\ step = "backoff"
  /\ Look
  /\ attempts' = IF flag THEN attempts + 1 ELSE attempts
  /\ step' = IF flag /\ attempts' < MaxAttempts THEN "wait" ELSE "go"
  /\ spins' = 0
  /\ UNCHANGED <<roVars, programVars, job>>

\* The frame, the broadcast or the link pulse is on the wire.
Transmit ==
  /\ step = "go"
  /\ job' = "none" /\ step' = "none"
  /\ UNCHANGED <<roVars, programVars, attempts, spins, busy>>

SenseInit ==
  /\ level = 0 /\ edgeIn = Quiet /\ active = 0
  /\ pc = "restart" /\ x = 0 /\ flag = FALSE
  /\ job = "none" /\ step = "none" /\ attempts = 0 /\ spins = 0 /\ busy = FALSE

SenseNext == Tick \/ (\E kind \in Kinds : Send(kind)) \/ Wait \/ Acquire \/ Transmit

--------------------------------------------------------------------------------
(***************************************************************************)
(* Properties                                                              *)
(***************************************************************************)

(***************************************************************************)
(* csma_acquire, wait_carrier_idle and the carrier program: a transmission *)
(* begins on a wire that was quiet, or had become active within the last   *)
(* Latency ticks, when core 0 looked last; or the wire was still taken     *)
(* after CSMA_MAX_ATTEMPTS, or, for a link pulse or a broadcast, after     *)
(* CARRIER_WAIT_SPINS.  The program never takes a frame in progress for an *)
(* idle wire, whenever it starts to count and wherever the edges fall.     *)
(***************************************************************************)
StartsOnQuietWire ==
  [][step = "go" /\ step' = "none" =>
       \/ ~busy
       \/ job = "raw" /\ attempts = MaxAttempts
       \/ job # "raw" /\ spins = SpinLimit]_senseVars

\* CARRIER_WAIT_SPINS, "Bounded so a stuck flag can't wedge TX": every transmission goes out,
\* even if a peer never stops sending.
Transmits == job # "none" ~> job = "none"
================================================================================
