------------------------------- MODULE TimeDriver -------------------------------
(***************************************************************************)
(* The embassy time driver of src/wireless.rs and the watchdog feeder that *)
(* depends on it.  A timer queue, a 64-bit microsecond counter and ALARM0, *)
(* which compares the counter's low word: the driver works out when to     *)
(* fire, and writes it a little later.  The queue, the executor and the    *)
(* timer are external.                                                     *)
(*                                                                         *)
(* Times are relative to the counter, which never ends: `due` and `alarm`  *)
(* count down with every tick.                                             *)
(***************************************************************************)
EXTENDS Integers, FiniteSets

CONSTANTS
  Task, Feeder,   \* tasks that wait on timers, watchdog_feed_task among them
  None,           \* no deadline, no alarm
  Wrap,           \* ticks after which the low word repeats, 2^32
  Delays,         \* what the other tasks wait for
  FeedEvery,      \* WDT_FEED_MS
  WdtTimeout,     \* WDT_TIMEOUT_US
  MaxLate         \* bound: ticks that pass while the core works off what is pending

ASSUME TimeAssumption ==
  /\ Feeder \in Task /\ None \notin Int
  /\ Wrap \in Nat \ {0} /\ Delays \subseteq Nat \ {0}
  /\ {FeedEvery, WdtTimeout} \subseteq Nat \ {0} /\ MaxLate \in Nat

\* Between two feeds the core may settle late twice; a low word lasts longer than the watchdog.
ASSUME FeedAssumption ==
  FeedEvery + 1 + 2 * MaxLate < WdtTimeout /\ WdtTimeout + MaxLate <= Wrap

VARIABLES
  due,     \* the timer queue: ticks to each task's deadline, None while it is awake
  alarm,   \* ticks to ALARM0's next match, None when it is not armed
  inte, intr,   \* ALARM0's interrupt: enabled, latched
  driver,  \* the critical section: at rest, about to read the clock, or to write ALARM0, for `next`
  late,    \* ticks since the core last had nothing to do
  fed,     \* ticks since the watchdog was fed
  missed   \* history: the last write of ALARM0 came after its target

timeVars == <<due, alarm, inte, intr, driver, late, fed, missed>>

Rest == [at |-> "rest", next |-> None]

TimeInit ==
  /\ due = [t \in Task |-> None]
  /\ alarm = None /\ inte = FALSE /\ intr = FALSE
  /\ driver = Rest
  /\ late = 0 /\ fed = 0 /\ missed = FALSE

Less(n) == IF n = None THEN None ELSE n - 1
IrqPending == inte /\ intr
Awake == {t \in Task : due[t] = None}
Busy == driver.at # "rest" \/ IrqPending \/ Awake # {}

\* The core is done with a stretch of work when nothing is pending any more.
Settled == late' = IF Busy' THEN late ELSE 0

\* One microsecond.  A match latches the interrupt and disarms the alarm.
Tick ==
  /\ fed < WdtTimeout
  /\ Busy => late < MaxLate
  /\ due' = [t \in Task |-> Less(due[t])]
  /\ alarm' = IF alarm = 1 THEN None ELSE Less(alarm)
  /\ intr' = (intr \/ alarm = 1)
  /\ driver' = [driver EXCEPT !.next = Less(@)]
  /\ late' = IF Busy THEN late + 1 ELSE 0
  /\ fed' = fed + 1
  /\ UNCHANGED <<inte, missed>>

\* next_expiration: wakes what has expired in queue q, and what is left decides the next deadline.
Expired(q) == {t \in Task : q[t] # None /\ q[t] <= 0}
NextExpirationFarthest(q) ==
  LET left == {q[t] : t \in Task \ Expired(q)} \ {None} IN
  /\ due' = [t \in Task |-> IF t \in Expired(q) THEN None ELSE q[t]]
  /\ driver' = [at |-> "read", next |-> IF left = {} THEN None
                                         ELSE CHOOSE n \in left : \A o \in left : o <= n]

NextExpiration(q) ==
  LET left == {q[t] : t \in Task \ Expired(q)} \ {None} IN
  /\ due' = [t \in Task |-> IF t \in Expired(q) THEN None ELSE q[t]]
  /\ driver' = [at |-> "read", next |-> IF left = {} THEN None
                                         ELSE CHOOSE n \in left : \A o \in left : n <= o]

\* The executor polls task t, which waits again: schedule_wake.  The queue reports a new earliest
\* deadline; for a later one it may report a change as well, or not.
Poll(t) ==
  /\ driver.at = "rest" /\ t \in Awake
  /\ \E d \in IF t = Feeder THEN {FeedEvery} ELSE Delays :
       LET q == [due EXCEPT ![t] = d]
           earliest == \A u \in Task \ Awake : d < due[u] IN
       \/ NextExpiration(q)
       \/ ~earliest /\ due' = q /\ UNCHANGED driver
  /\ fed' = IF t = Feeder THEN 0 ELSE fed
  /\ UNCHANGED <<alarm, inte, intr, missed>>
  /\ Settled

TIMER0_IRQ_0Once ==
  /\ driver.at = "rest" /\ IrqPending
  /\ intr' = FALSE
  /\ due' = [t \in Task |-> IF t \in Expired(due) THEN None ELSE due[t]] /\ UNCHANGED driver
  /\ UNCHANGED <<alarm, inte, fed, missed>>
  /\ Settled

\* Acknowledges the interrupt, then serves the queue.
TIMER0_IRQ_0 ==
  /\ driver.at = "rest" /\ IrqPending
  /\ intr' = FALSE
  /\ NextExpiration(due)
  /\ UNCHANGED <<alarm, inte, fed, missed>>
  /\ Settled

Target(next) ==
  IF next <= 0 THEN 2 ELSE IF next > Wrap - 1 THEN Wrap - 1 ELSE next

\* arm_alarm up to the write.
ReadClock ==
  /\ driver.at = "read"
  /\ IF driver.next = None
     THEN inte' = FALSE /\ driver' = Rest
     ELSE inte' = TRUE /\ driver' = [at |-> "write", next |-> Target(driver.next)]
  /\ UNCHANGED <<due, alarm, intr, fed, missed>>
  /\ Settled

\* ALARM0 takes the target's low word.  A target that is just now may match or not; one that has
\* passed, or was further off than the low word reaches, matches with the low word.
WriteAlarm ==
  /\ driver.at = "write"
  /\ \/ alarm' = ((driver.next - 1) % Wrap) + 1 /\ missed' = (driver.next <= 0) /\ UNCHANGED intr
     \/ driver.next = 0 /\ alarm' = None /\ intr' = TRUE /\ missed' = FALSE
  /\ driver' = Rest
  /\ UNCHANGED <<due, inte, fed>>
  /\ Settled

\* The watchdog runs out: the board starts again.
WdtFires == fed = WdtTimeout

TimeNext == Tick \/ (\E t \in Task : Poll(t)) \/ TIMER0_IRQ_0 \/ ReadClock \/ WriteAlarm

(***************************************************************************)
(* Correctness                                                             *)
(***************************************************************************)
\* Every deadline, near or beyond the alarm's reach, wakes its task within a few ticks, unless the
\* last alarm was written after its target had passed.  (arm_alarm, TIMER0_IRQ_0)
OnTime == \A t \in Task : due[t] # None => due[t] >= -(1 + 2 * MaxLate) \/ missed

\* The feeder keeps the watchdog quiet: the board is reset only after a missed alarm.
\* (watchdog_feed_task, arm_alarm)
ResetsOnlyMissed == WdtFires => missed
================================================================================
