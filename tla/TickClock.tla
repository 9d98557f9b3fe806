----------------------------- MODULE TickClock ------------------------------
(* The tick counter of the BIOS data area (src/clock.c): the timer interrupt  *)
(* that advances it and counts midnights, the services of int 1ah that read   *)
(* and set it, and the timers that the BIOS itself runs on it                 *)
(* (irqtimer_calc_ticks(), irqtimer_check(): keystroke timeouts, serial and   *)
(* printer timeouts, the boot retry).                                         *)
EXTENDS Integers

CONSTANTS
  TICKS_PER_DAY,  \* 1573040 in the code
  RolloverWord,   \* 2^8: timer_rollover is a u8
  Settings,       \* the values programs set the counter to
  Counts,         \* the numbers of ticks that timers are set to
  MaxTicks        \* bound: the number of timer interrupts

\* A timer is at most half a day long, or irqtimer_check() takes it for one
\* that has passed.
ASSUME TickAssumption ==
  /\ TICKS_PER_DAY \in Nat \ {0, 1}
  /\ RolloverWord \in Nat \ {0}
  /\ Settings \subseteq Nat
  /\ Counts \subseteq {n \in Nat : 2 * (n + 1) <= TICKS_PER_DAY}
  /\ MaxTicks \in Nat

VARIABLES
  timer_counter, timer_rollover,
  days,      \* the midnights that programs were told of
  since,     \* the ticks since the counter was last set
  base,      \* what it was set to
  timer      \* the BIOS timer in use, or NoTimer

tickVars == <<timer_counter, timer_rollover, days, since, base, timer>>

NoTimer == [end |-> 0, count |-> 0, elapsed |-> 0, on |-> FALSE, sound |-> TRUE]

TickTypeOK ==
  /\ timer_counter \in 0 .. TICKS_PER_DAY - 1 \/ timer_counter \in Settings
  /\ timer_rollover \in 0 .. RolloverWord - 1
  /\ days \in Nat
  /\ since \in 0 .. MaxTicks
  /\ base \in 0 .. TICKS_PER_DAY - 1 \/ base \in Settings
  /\ timer.end \in 0 .. TICKS_PER_DAY - 1
  /\ timer.count \in Counts \cup {0}

----------------------------------------------------------------------------

\* Deviation: midnight is one tick late.
Advanced_late(c) == IF c + 1 > TICKS_PER_DAY THEN 0 ELSE c + 1

Advanced(c) == IF c + 1 >= TICKS_PER_DAY THEN 0 ELSE c + 1

clock_update ==
  /\ since < MaxTicks
  /\ timer_counter' = Advanced(timer_counter)
  /\ timer_rollover' =
       IF timer_counter' = 0 THEN (timer_rollover + 1) % RolloverWord
       ELSE timer_rollover
  /\ since' = since + 1
  /\ timer' = IF timer.on /\ timer.sound THEN [timer EXCEPT !.elapsed = @ + 1]
              ELSE timer
  /\ UNCHANGED <<days, base>>

\* Get the counter; al is the number of midnights since the last call.
handle_1a00 ==
  /\ days' = days + timer_rollover
  /\ timer_rollover' = 0
  /\ UNCHANGED <<timer_counter, since, base, timer>>

\* Set the counter.  A timer that is waited for (the program is an interrupt
\* handler then) is no longer a measure of time.
handle_1a01(ticks) ==
  /\ timer_counter' = ticks
  /\ timer_rollover' = 0
  /\ days' = 0
  /\ since' = 0
  /\ base' = ticks
  /\ timer' = [timer EXCEPT !.sound = ~timer.on]

----------------------------------------------------------------------------

irqtimer_calc_ticks(count) == (timer_counter + count + 1) % TICKS_PER_DAY

irqtimer_check(end) ==
  ((timer_counter + TICKS_PER_DAY - end) % TICKS_PER_DAY)
    < (TICKS_PER_DAY \div 2)

\* Start to wait.  A counter beyond the end of the day, which only handle_1a01
\* stores, makes no sound timer.
SetTimer(count) ==
  /\ ~timer.on
  /\ timer' = [end |-> irqtimer_calc_ticks(count), count |-> count, elapsed |-> 0,
               on |-> TRUE, sound |-> timer_counter < TICKS_PER_DAY]
  /\ UNCHANGED <<timer_counter, timer_rollover, days, since, base>>

\* The loop around irqtimer_check() ends.
TimerPasses ==
  /\ timer.on
  /\ irqtimer_check(timer.end)
  /\ timer' = NoTimer
  /\ UNCHANGED <<timer_counter, timer_rollover, days, since, base>>

----------------------------------------------------------------------------

TickInit ==
  /\ timer_counter \in 0 .. TICKS_PER_DAY - 1
  /\ base = timer_counter
  /\ timer_rollover = 0
  /\ days = 0
  /\ since = 0
  /\ timer = NoTimer

TickNext ==
  \/ clock_update
  \/ handle_1a00
  \/ \E ticks \in Settings : handle_1a01(ticks)
  \/ \E count \in Counts : SetTimer(count)
  \/ TimerPasses

----------------------------------------------------------------------------
(* Properties                                                                 *)

\* A program that adds up the midnights it is told of never loses or repeats
\* one, whenever it asks: days and counter together are the ticks since the
\* counter was set (to a time of day, and with less than 2^8 midnights
\* between two calls).
DateKept ==
  base < TICKS_PER_DAY =>
    (days + timer_rollover) * TICKS_PER_DAY + timer_counter = base + since

\* A BIOS timer is exact.  It has not passed before "count" full ticks have
\* (irqtimer_calc_ticks: "the timer value at 'count' number of full timer ticks
\* in the future"; the first tick may have been almost over when it was set),
\* and from then on, and for half a day, whoever looks finds that it has
\* passed: across midnight too.
TimerExact ==
  timer.on /\ timer.sound
    /\ timer.elapsed <= timer.count + (TICKS_PER_DAY \div 2) =>
      (irqtimer_check(timer.end) <=> timer.elapsed > timer.count)

\* The time that programs and timers are told is the time that has passed,
\* across midnight too.
TimeKept == TickTypeOK /\ DateKept /\ TimerExact

TickSpec == TickInit /\ [][TickNext]_tickVars

\* The only thing that can spoil the date is that timer_rollover, a u8, wraps: that a
\* program asks for the time before the next midnight is one too many for it.
AskedInTime ==
  ~(/\ base < TICKS_PER_DAY
    /\ timer_rollover = RolloverWord - 1
    /\ Advanced(timer_counter) = 0
    /\ clock_update)

=============================================================================
