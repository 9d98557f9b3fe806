-------------------------------- MODULE Rtc --------------------------------
(* The real time clock chip, its periodic interrupt and the services on top   *)
(* of it (src/hw/rtc.c and the RTC part of src/clock.c): the user timer of    *)
(* int 15h ah=83h and ah=86h, the clock and alarm services of int 1ah, and    *)
(* IRQ8.                                                                      *)
(*                                                                            *)
(* A program calls the services; so do its handlers of int 1ch (called from   *)
(* IRQ0) and int 4ah (called from IRQ8 for an alarm), in the middle of        *)
(* whatever the program waits for.  A BIOS call runs without interrupts       *)
(* except where it yields: in rtc_updating() and in the wait of ah=86h.       *)
EXTENDS Integers

Services == {"8300", "8301", "86", "1a03", "1a05", "1a06", "1a07", "rom"}

\* What the BIOS meets: the services that a program calls, those that its
\* interrupt handlers call, whether rtc_updating() may find an update in
\* progress, and whether an update may never end.
World ==
  [prog : SUBSET Services, hook : SUBSET (Services \ {"86", "rom"}),
   sees : BOOLEAN, hangs : BOOLEAN]

CONSTANTS
  Intervals,    \* the intervals asked for, in periods of the interrupt
  Worlds        \* the worlds considered

ASSUME RtcAssumption ==
  /\ Intervals \subseteq Nat
  /\ Worlds \subseteq World

Contexts == {"prog", "alarm", "tick"}

VARIABLES
  s,      \* the state of the chip and of the user timer, see State
  irr,    \* IRQ8 is latched in the interrupt controller
  rom,    \* an option rom runs between start_preempt() and finish_preempt()
  pc,     \* pc[c]: what context c is doing
  val8,   \* val8[c]: Status Register B as read by handle_1a06()
  savedP, \* the periodic bit of registerC, while int 4ah is called
  world   \* the world the BIOS is in

vars == <<s, irr, rom, pc, val8, savedP, world>>

Updating == {"1a03", "1a05", "1a06"}

\* What is left of an interval, which the interrupt counts down.
Left == UNION {0 .. i : i \in Intervals \cup {0}}

State ==
  [users   : 0 .. 2,                      \* RTCusers
   pie     : BOOLEAN, aie : BOOLEAN,      \* Status Register B
   pf      : BOOLEAN, af  : BOOLEAN,      \* Status Register C
   pending : BOOLEAN,                     \* rtc_wait_flag
   flag    : {"none", "user", "stack"},   \* user_wait_complete_flag
   left    : Left,                        \* user_wait_timeout
   status  : BOOLEAN]                     \* statusflag of handle_1586()

TypeOK ==
  /\ s \in State
  /\ irr \in BOOLEAN
  /\ rom \in BOOLEAN
  /\ pc \in [Contexts -> {"off", "user", "wait86"} \cup Updating]
  /\ val8 \in [Contexts -> BOOLEAN]
  /\ savedP \in BOOLEAN
  /\ world \in Worlds

----------------------------------------------------------------------------
(* rtc.c                                                                      *)

\* Deviation: every user turns the interrupt on, and every one off again.
rtc_release_any(r) == [r EXCEPT !.users = @ - 1, !.pie = FALSE]

rtc_use(r) ==
  [r EXCEPT !.users = @ + 1, !.pie = IF r.users = 0 THEN TRUE ELSE @]

rtc_release(r) ==
  [r EXCEPT !.users = @ - 1, !.pie = IF r.users = 1 THEN FALSE ELSE @]

rtc_setup(r) ==
  [r EXCEPT !.pie = FALSE, !.aie = FALSE, !.pf = FALSE, !.af = FALSE]

----------------------------------------------------------------------------
(* The user timer                                                             *)

\* The interval timer is taken, unless it is in use.
set_usertimer(r, left, flag) ==
  IF r.pending THEN r
  ELSE rtc_use([r EXCEPT !.pending = TRUE, !.flag = flag, !.left = left])

clear_usertimer(r) ==
  IF r.pending THEN rtc_release([r EXCEPT !.pending = FALSE]) ELSE r

\* Deviation: the flag byte is not written.
PeriodicNoFlag(r) ==
  IF ~r.pending THEN r
  ELSE IF r.left > 0 THEN [r EXCEPT !.left = @ - 1]
  ELSE clear_usertimer(r)

\* The periodic part of handle_70().  check_preempt() is in module Threads.
Periodic(r) ==
  IF ~r.pending THEN r
  ELSE IF r.left > 0 THEN [r EXCEPT !.left = @ - 1]
  ELSE clear_usertimer([r EXCEPT !.status = @ \/ r.flag = "stack"])

----------------------------------------------------------------------------
(* The chip raises IRQ8 when an enabled event has occurred; a rising edge is  *)
(* latched.                                                                   *)

Line(r) == (r.pie /\ r.pf) \/ (r.aie /\ r.af)

Becomes(r) == s' = r /\ irr' = (irr \/ (Line(r) /\ ~Line(s)))

\* The context on top of the interrupts that have not returned.
Top ==
  IF pc["tick"] # "off" THEN "tick"
  ELSE IF pc["alarm"] # "off" THEN "alarm" ELSE "prog"

\* An event occurs; the bits of Status Register C do not depend on the enable
\* bits.
PeriodElapses ==
  /\ ~s.pf
  /\ Becomes([s EXCEPT !.pf = TRUE])
  /\ UNCHANGED <<rom, pc, val8, savedP, world>>

AlarmElapses ==
  /\ ~s.af
  /\ Becomes([s EXCEPT !.af = TRUE])
  /\ UNCHANGED <<rom, pc, val8, savedP, world>>

----------------------------------------------------------------------------
(* Services.  c is the calling context.                                       *)

Calls(c) == IF c = "prog" THEN world.prog ELSE world.hook

MayCall(c, service) ==
  /\ c = Top
  /\ pc[c] = "user"
  /\ service \in Calls(c)

handle_158300(c) ==
  /\ MayCall(c, "8300")
  /\ \E left \in Intervals : Becomes(set_usertimer(s, left, "user"))
  /\ UNCHANGED <<rom, pc, val8, savedP, world>>

handle_158301(c) ==
  /\ MayCall(c, "8301")
  /\ Becomes(clear_usertimer(s))
  /\ UNCHANGED <<rom, pc, val8, savedP, world>>

\* Wait, unless the timer is in use.
handle_1586 ==
  /\ MayCall("prog", "86")
  /\ ~s.pending
  /\ \E left \in Intervals :
       Becomes(set_usertimer([s EXCEPT !.status = FALSE], left, "stack"))
  /\ pc' = [pc EXCEPT !["prog"] = "wait86"]
  /\ UNCHANGED <<rom, val8, savedP, world>>

\* Deviation: the time left is looked at in place of the flag.
WaitOver_early == s.left = 0

WaitOver == s.status

EndWait86 ==
  /\ Top = "prog"
  /\ pc["prog"] = "wait86"
  /\ WaitOver
  /\ pc' = [pc EXCEPT !["prog"] = "user"]
  /\ UNCHANGED <<s, irr, rom, val8, savedP, world>>

\* Status Register B as the service writes it in the end.
WriteB(service, r, pie) ==
  IF service = "1a06" THEN [r EXCEPT !.pie = pie, !.aie = TRUE] ELSE r

\* The clock services.  handle_1a06() reads Status Register B and refuses a
\* second alarm before it calls rtc_updating().
handle_1a03_05_06(c, service) ==
  /\ MayCall(c, service)
  /\ service = "1a06" => ~s.aie
  /\ \/ /\ Becomes(WriteB(service, s, s.pie))
        /\ UNCHANGED <<pc, val8>>
     \/ /\ world.sees
        /\ pc' = [pc EXCEPT ![c] = service]
        /\ val8' = [val8 EXCEPT ![c] = s.pie]
        /\ UNCHANGED <<s, irr>>
  /\ UNCHANGED <<rom, savedP, world>>

\* rtc_updating() returns: the update has ended.
UpdateEnds(c) ==
  /\ c = Top
  /\ pc[c] \in Updating
  /\ Becomes(WriteB(pc[c], s, val8[c]))
  /\ pc' = [pc EXCEPT ![c] = "user"]
  /\ UNCHANGED <<rom, val8, savedP, world>>

\* rtc_updating() times out: the chip is set up again, and except for
\* handle_1a05() the service goes on.
UpdateTimesOut(c) ==
  /\ world.hangs
  /\ c = Top
  /\ pc[c] \in Updating
  /\ Becomes(WriteB(pc[c], rtc_setup(s), val8[c]))
  /\ pc' = [pc EXCEPT ![c] = "user"]
  /\ UNCHANGED <<rom, val8, savedP, world>>

handle_1a07(c) ==
  /\ MayCall(c, "1a07")
  /\ Becomes([s EXCEPT !.aie = FALSE])
  /\ UNCHANGED <<rom, pc, val8, savedP, world>>

\* start_preempt() and finish_preempt() around an option rom, which is the
\* program in between.
start_preempt ==
  /\ MayCall("prog", "rom")
  /\ ~rom
  /\ rom' = TRUE
  /\ Becomes(rtc_use(s))
  /\ UNCHANGED <<pc, val8, savedP, world>>

finish_preempt ==
  /\ MayCall("prog", "rom")
  /\ rom
  /\ rom' = FALSE
  /\ Becomes(rtc_release(s))
  /\ UNCHANGED <<pc, val8, savedP, world>>

----------------------------------------------------------------------------
(* Interrupts                                                                 *)

\* IRQ0 calls int 1ch.  It has the highest priority.
handle_08 ==
  /\ pc["tick"] = "off"
  /\ pc' = [pc EXCEPT !["tick"] = "user"]
  /\ UNCHANGED <<s, irr, rom, val8, savedP, world>>

TickReturns ==
  /\ pc["tick"] = "user"
  /\ pc' = [pc EXCEPT !["tick"] = "off"]
  /\ UNCHANGED <<s, irr, rom, val8, savedP, world>>

\* IRQ8.  Reading Status Register C clears it.
handle_70 ==
  LET r == [s EXCEPT !.pf = FALSE, !.af = FALSE]
  IN  /\ irr
      /\ pc["tick"] = "off" /\ pc["alarm"] = "off"
      /\ irr' = FALSE
      /\ \/ /\ ~s.pie /\ ~s.aie
            /\ s' = r
            /\ UNCHANGED <<pc, savedP>>
         \/ /\ s.pie \/ s.aie
            /\ s.af
            /\ s' = r
            /\ pc' = [pc EXCEPT !["alarm"] = "user"]
            /\ savedP' = s.pf
         \/ /\ s.pie \/ s.aie
            /\ ~s.af
            /\ s' = IF s.pf THEN Periodic(r) ELSE r
            /\ UNCHANGED <<pc, savedP>>
      /\ UNCHANGED <<rom, val8, world>>

\* int 4ah returns, and handle_70() goes on with the bits it has read.
AlarmReturns ==
  /\ Top = "alarm" /\ pc["alarm"] = "user"
  /\ pc' = [pc EXCEPT !["alarm"] = "off"]
  /\ Becomes(IF savedP THEN Periodic(s) ELSE s)
  /\ UNCHANGED <<rom, val8, savedP, world>>

----------------------------------------------------------------------------

Init ==
  /\ s = [users |-> 0, pie |-> FALSE, aie |-> FALSE, pf |-> FALSE, af |-> FALSE,
          pending |-> FALSE, flag |-> "none", left |-> 0, status |-> FALSE]
  /\ irr = FALSE
  /\ rom = FALSE
  /\ pc = [c \in Contexts |-> IF c = "prog" THEN "user" ELSE "off"]
  /\ val8 = [c \in Contexts |-> FALSE]
  /\ savedP = FALSE
  /\ world \in Worlds

Call(c) ==
  \/ handle_158300(c)
  \/ handle_158301(c)
  \/ \E service \in Updating : handle_1a03_05_06(c, service)
  \/ handle_1a07(c)

Next ==
  \/ \E c \in Contexts : Call(c) \/ UpdateEnds(c) \/ UpdateTimesOut(c)
  \/ handle_1586 \/ EndWait86
  \/ start_preempt \/ finish_preempt
  \/ PeriodElapses \/ AlarmElapses
  \/ handle_08 \/ TickReturns \/ handle_70 \/ AlarmReturns

Spec == Init /\ [][Next]_vars

\* The chip keeps ticking; an interrupt that is latched, and the return of a
\* handler, are not put off for ever by further interrupts, which come at a
\* much lower rate than their handlers need; rtc_updating() ends.
Fairness ==
  /\ WF_vars(PeriodElapses)
  /\ SF_vars(handle_70)
  /\ SF_vars(AlarmReturns)
  /\ SF_vars(TickReturns)
  /\ SF_vars(EndWait86)
  /\ \A c \in Contexts : SF_vars(UpdateEnds(c) \/ UpdateTimesOut(c))

FairSpec == Spec /\ Fairness

----------------------------------------------------------------------------
(* Properties                                                                 *)

\* RTCusers counts the interval in progress and the option rom that runs,
\* however calls, handlers and interrupts alternate.
UsersCounted ==
  s.users = (IF s.pending THEN 1 ELSE 0) + (IF rom THEN 1 ELSE 0)

\* No service writes Status Register B after a wait: updates end, and alarms
\* are not set or are set at once.
KeepsB ==
  ~world.hangs /\ ("1a06" \in world.prog \cup world.hook => ~world.sees)

\* The periodic interrupt is on exactly as long as it has a user, in a world
\* where no service writes an old value of Status Register B.
PeriodicOn == KeepsB => (s.pie <=> s.users > 0)

\* rtc_use() and rtc_release() are paired over every order of intervals,
\* cancellations, option roms and interrupts, and the chip agrees.
PeriodicCounted == TypeOK /\ UsersCounted /\ PeriodicOn

\* handle_70() writes to the stack of handle_1586() only while that waits.
NoDanglingFlag ==
  s.pending /\ s.flag = "stack" => pc["prog"] = "wait86"

\* int 15h ah=86h waits for the time asked for, and then returns, unless a
\* handler cancels the interval.
WaitEnds ==
  KeepsB /\ "8301" \notin world.hook /\ pc["prog"] = "wait86"
    ~> pc["prog"] = "user"

\* An interval that was set comes to an end.
IntervalEnds == KeepsB /\ s.pending ~> ~s.pending

\* Waits and intervals end: the interrupt is on while they need it, and it
\* writes the flag of the call that waits.
IntervalsServed == WaitEnds /\ IntervalEnds

\* The clock services leave the periodic interrupt as it is, as the comments
\* about Status Register B in handle_1a03(), handle_1a05() and handle_1a06()
\* have it.
ServicesKeepPeriodic ==
  [][\A c \in Contexts :
       pc[c] \in Updating /\ pc'[c] = "user" => s'.pie = s.pie]_vars

----------------------------------------------------------------------------
(* The worlds of the runs: everything at once; without alarms, with updates   *)
(* that end; and without updates, with alarms and handlers that do not        *)
(* cancel.                                                                    *)

MCWorlds ==
  {[prog |-> Services, hook |-> {"8300", "8301"},
    sees |-> TRUE, hangs |-> TRUE],
   [prog |-> Services \ {"1a06"}, hook |-> {"8300", "1a03", "1a05", "1a07"},
    sees |-> TRUE, hangs |-> FALSE],
   [prog |-> Services, hook |-> {"8300", "8301", "1a06", "1a07"},
    sees |-> FALSE, hangs |-> FALSE]}

\* One program, no handlers, alarms that may have to wait for an update.
StaleWorlds ==
  {[prog |-> {"8300", "1a06"}, hook |-> {}, sees |-> TRUE, hangs |-> FALSE]}

============================================================================
