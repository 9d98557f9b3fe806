----------------------------- MODULE ClockSetup -----------------------------
(* How clock_setup() (src/clock.c) derives the tick counter of the BIOS data  *)
(* area from the time of day in the RTC, with the 32 bit arithmetic of        *)
(* ticks_from_ms() (src/hw/timer.c).                                          *)
(*                                                                            *)
(* The intermediate value t of ticks_from_ms() does not fit TLC's integers.   *)
(* It is kept as a pair: 3000 * q + r with r < 3000, where 3000 is            *)
(* 1000 * PMTIMER_TO_PIT, the number t is divided by in the end.              *)
EXTENDS Integers

VARIABLES
  hours, minutes, seconds,  \* the registers of the RTC, in BCD
  timer_counter,            \* the tick counter
  ready                     \* clock_setup() has run

vars == <<hours, minutes, seconds, timer_counter, ready>>

TICKS_PER_DAY == 1573040

----------------------------------------------------------------------------

bcd2bin(val) == (val % 16) + (val \div 16) * 10

Bcd(n) == (n \div 10) * 16 + (n % 10)

CeilDiv(n, d) == (n + d - 1) \div d

\* DIV_ROUND_UP((u64)ms * PMTIMER_HZ, PIT_TICK_INTERVAL) for ms = 1000 * sec,
\* plus the 2999 of the DIV_ROUND_UP that follows.  1000 * 3579545 / 65536 is
\* 18 * 3000 + 619 + 4277 / 8192.
Scaled(sec) ==
  LET x == 619 * sec + CeilDiv(4277 * sec, 8192) + 2999
  IN  [q |-> 18 * sec + x \div 3000, r |-> x % 3000]

\* 2^32 = 3000 * WordQ + WordR: what is lost when t is stored in a u32.
WordQ == 1431655
WordR == 2296

\* The quotient by 3000 after the truncation.
Truncated(v) ==
  CASE v.q < WordQ \/ (v.q = WordQ /\ v.r < WordR) -> v.q
    [] v.q >= WordQ /\ v.r >= WordR -> v.q - WordQ
    [] OTHER -> v.q - WordQ - 1

ticks_from_seconds(sec) == Truncated(Scaled(sec))

----------------------------------------------------------------------------

Init ==
  /\ \E h \in 0 .. 23, m, s \in 0 .. 59 :
       hours = Bcd(h) /\ minutes = Bcd(m) /\ seconds = Bcd(s)
  /\ timer_counter = 0
  /\ ready = FALSE

clock_setup ==
  /\ ~ready
  /\ timer_counter' =
       ticks_from_seconds((bcd2bin(hours) * 60 + bcd2bin(minutes)) * 60
                            + bcd2bin(seconds)) % TICKS_PER_DAY
  /\ ready' = TRUE
  /\ UNCHANGED <<hours, minutes, seconds>>

Running == ready /\ UNCHANGED vars

Next == clock_setup \/ Running

Spec == Init /\ [][Next]_vars

----------------------------------------------------------------------------

\* The second of the day the registers show, digit by digit.
SecondOfDay ==
  LET Value(reg) == CHOOSE n \in 0 .. 59 : Bcd(n) = reg
  IN  (Value(hours) * 60 + Value(minutes)) * 60 + Value(seconds)

\* The tick counter tells the time of day: out of TICKS_PER_DAY ticks as many
\* have passed as out of the 86400 seconds of a day (TICKS_PER_DAY / 86400 =
\* 19663 / 1080), give or take four ticks of rounding.
CounterTellsTime ==
  ready =>
    LET expected == (SecondOfDay * 19663) \div 1080
    IN  timer_counter \in expected - 4 .. expected + 4
============================================================================
