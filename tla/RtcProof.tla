------------------------------ MODULE RtcProof ------------------------------
(***************************************************************************)
(* The properties of the two clocks.  Of module Rtc, for every set of      *)
(* intervals and in every world: whatever the program and its handlers     *)
(* call, and whether or not updates are met and end.  Of module TickClock, *)
(* for a day of any length: what the tick counter and its timers tell.     *)
(***************************************************************************)
EXTENDS Rtc, TickClock, TLAPS

----------------------------------------------------------------------------
(* The inductive invariants.                                               *)

\* RTCusers of r counts the interval of r and the option rom.
Counted(r, running) ==
  r.users = (IF r.pending THEN 1 ELSE 0) + (IF running THEN 1 ELSE 0)

\* The chip of r interrupts periodically as long as r has a user.
On(r) == r.pie <=> r.users > 0

\* In a world where Status Register B is kept, no handle_1a06() waits with an
\* old value of it.
NoOldB == \A c \in Contexts : pc[c] # "1a06"

CountInv ==
  /\ Counted(s, rom)
  /\ KeepsB => NoOldB /\ On(s)

\* The interval of handle_1586() in r is in progress.
OnStack(r) == r.pending /\ r.flag = "stack"

\* handle_1586() is on the stack as long as the interval may write to its
\* frame: it returns once the flag is set, and that ends the interval.
FlagInv ==
  /\ NoDanglingFlag
  /\ pc["prog"] = "wait86" /\ s.status => ~OnStack(s)

IInv == TypeOK /\ CountInv /\ FlagInv

----------------------------------------------------------------------------
(* The operations on the state of the chip and the timer.                  *)

\* The time left fits its type until the interval is over: handle_70() never
\* counts below zero.
LEMMA LeftType ==
  /\ Intervals \subseteq Left
  /\ 0 \in Left
  /\ \A n \in Left : n > 0 => n - 1 \in Left
<1>1. Intervals \subseteq Left
  <2> SUFFICES ASSUME NEW i \in Intervals
               PROVE  i \in Left
    OBVIOUS
  <2>1. i \in 0 .. i
    BY RtcAssumption
  <2> QED
    BY <2>1 DEF Left
<1>2. 0 \in Left
  <2>1. 0 \in 0 .. 0
    OBVIOUS
  <2> QED
    BY <2>1 DEF Left
<1>3. ASSUME NEW n \in Left, n > 0
      PROVE  n - 1 \in Left
  <2>1. PICK i \in Intervals \cup {0} : n \in 0 .. i
    BY <1>3 DEF Left
  <2>2. n - 1 \in 0 .. i
    BY <2>1, <1>3, RtcAssumption
  <2> QED
    BY <2>1, <2>2 DEF Left
<1> QED
  BY <1>1, <1>2, <1>3

\* A write to one field of the state.
LEMMA Fields ==
  ASSUME NEW r \in State
  PROVE  /\ r.users \in 0 .. 2 /\ r.pie \in BOOLEAN /\ r.aie \in BOOLEAN
         /\ r.pf \in BOOLEAN /\ r.af \in BOOLEAN /\ r.pending \in BOOLEAN
         /\ r.flag \in {"none", "user", "stack"} /\ r.left \in Left
         /\ r.status \in BOOLEAN
  BY DEF State

\* An assignment to one field leaves a clock.
LEMMA Writes ==
  ASSUME NEW r \in State, NEW v \in BOOLEAN
  PROVE  /\ \A n \in 0 .. 2 : [r EXCEPT !.users = n] \in State
         /\ \A n \in Left : [r EXCEPT !.left = n] \in State
         /\ \A f \in {"none", "user", "stack"} : [r EXCEPT !.flag = f] \in State
         /\ [r EXCEPT !.pie = v] \in State
         /\ [r EXCEPT !.aie = v] \in State
         /\ [r EXCEPT !.pf = v] \in State
         /\ [r EXCEPT !.af = v] \in State
         /\ [r EXCEPT !.pending = v] \in State
         /\ [r EXCEPT !.status = v] \in State
<1>1. \A n \in 0 .. 2 : [r EXCEPT !.users = n] \in State
  BY DEF State
<1>2. \A n \in Left : [r EXCEPT !.left = n] \in State
  BY DEF State
<1>3. \A f \in {"none", "user", "stack"} : [r EXCEPT !.flag = f] \in State
  BY DEF State
<1>4. [r EXCEPT !.pie = v] \in State /\ [r EXCEPT !.aie = v] \in State
  BY DEF State
<1>5. [r EXCEPT !.pf = v] \in State /\ [r EXCEPT !.af = v] \in State
  BY DEF State
<1>6. [r EXCEPT !.pending = v] \in State /\ [r EXCEPT !.status = v] \in State
  BY DEF State
<1> QED
  BY <1>1, <1>2, <1>3, <1>4, <1>5, <1>6

\* rtc_use() and rtc_release() stay within the two users there are, keep the
\* interrupt on exactly as long as there is one, and change nothing else.
LEMMA UseType ==
  ASSUME NEW r \in State, r.users < 2
  PROVE  /\ rtc_use(r) \in State
         /\ rtc_use(r).users = r.users + 1
         /\ On(r) => On(rtc_use(r))
         /\ rtc_use(r).pending = r.pending /\ rtc_use(r).flag = r.flag
         /\ rtc_use(r).status = r.status
<1> DEFINE q == [r EXCEPT !.users = @ + 1]
           pie == IF r.users = 0 THEN TRUE ELSE r.pie
<1>1. r.users \in 0 .. 2 /\ pie \in BOOLEAN /\ r.users + 1 \in 0 .. 2
  <2>1. r.users \in 0 .. 2
    BY Fields
  <2>2. r.users + 1 \in 0 .. 2
    BY <2>1
  <2>3. r.pie \in BOOLEAN
    BY Fields
  <2>4. pie \in BOOLEAN
    BY <2>3
  <2> QED
    BY <2>1, <2>2, <2>4
<1>2. q \in State
  BY <1>1, Writes
<1>3. rtc_use(r) = [q EXCEPT !.pie = pie]
  BY DEF rtc_use
<1>4. rtc_use(r) \in State
  BY <1>1, <1>2, <1>3, Writes, ZenonT(40)
<1>5. /\ rtc_use(r).users = r.users + 1 /\ rtc_use(r).pie = pie
      /\ rtc_use(r).pending = r.pending /\ rtc_use(r).flag = r.flag
      /\ rtc_use(r).status = r.status
  BY DEF rtc_use, State
<1> QED
  BY <1>1, <1>4, <1>5 DEF On

\* rtc_release() gives back one use and keeps what is on consistent.
LEMMA ReleaseType ==
  ASSUME NEW r \in State, r.users > 0
  PROVE  /\ rtc_release(r) \in State
         /\ rtc_release(r).users = r.users - 1
         /\ On(r) => On(rtc_release(r))
         /\ rtc_release(r).pending = r.pending /\ rtc_release(r).flag = r.flag
         /\ rtc_release(r).status = r.status
<1> DEFINE q == [r EXCEPT !.users = @ - 1]
           pie == IF r.users = 1 THEN FALSE ELSE r.pie
<1>1. r.users \in 0 .. 2 /\ pie \in BOOLEAN /\ r.users - 1 \in 0 .. 2
  <2>1. r.users \in 0 .. 2
    BY Fields
  <2>2. r.users - 1 \in 0 .. 2
    BY <2>1
  <2>3. r.pie \in BOOLEAN
    BY Fields
  <2>4. pie \in BOOLEAN
    BY <2>3
  <2> QED
    BY <2>1, <2>2, <2>4
<1>2. q \in State
  BY <1>1, Writes
<1>3. rtc_release(r) = [q EXCEPT !.pie = pie]
  BY DEF rtc_release
<1>4. rtc_release(r) \in State
  BY <1>1, <1>2, <1>3, Writes
<1>5. /\ rtc_release(r).users = r.users - 1 /\ rtc_release(r).pie = pie
      /\ rtc_release(r).pending = r.pending /\ rtc_release(r).flag = r.flag
      /\ rtc_release(r).status = r.status
  BY DEF rtc_release, State
<1> QED
  BY <1>1, <1>4, <1>5 DEF On

\* An interval that is taken is counted; it may write to the frame of
\* handle_1586() if that is what its flag is.
LEMMA TimerIsSet ==
  ASSUME NEW r \in State, NEW running \in BOOLEAN, Counted(r, running),
         NEW left \in Intervals, NEW flag \in {"user", "stack"}
  PROVE  LET t == set_usertimer(r, left, flag)
         IN  /\ t \in State /\ Counted(t, running) /\ (On(r) => On(t))
             /\ flag = "user" /\ OnStack(t) => OnStack(r)
             /\ t.status = r.status
<1> DEFINE t == set_usertimer(r, left, flag)
           p == [r EXCEPT !.pending = TRUE]
           f == [p EXCEPT !.flag = flag]
           q == [f EXCEPT !.left = left]
<1>1. CASE r.pending
  BY <1>1 DEF set_usertimer
<1>2. CASE ~r.pending
  <2>1. t = rtc_use(q)
    BY <1>2 DEF set_usertimer
  <2>2. q \in State
    <3>1. p \in State
      BY Writes
    <3>2. f \in State
      BY <3>1, Writes
    <3> QED
      BY <3>2, Writes, LeftType
  <2>3. /\ q.users = r.users /\ q.pie = r.pie /\ q.status = r.status
        /\ q.pending = TRUE /\ q.flag = flag
    BY DEF State
  <2> HIDE DEF q, p, f
  <2>4. q.users < 2 /\ r.users \in 0 .. 2
    BY <1>2, <2>3, Fields DEF Counted
  <2>5. t \in State /\ t.users = r.users + 1 /\ (On(q) => On(t))
        /\ t.pending = TRUE /\ t.flag = flag /\ t.status = r.status
    BY <2>1, <2>2, <2>3, <2>4, UseType
  <2>6. Counted(t, running)
    BY <1>2, <2>4, <2>5 DEF Counted
  <2>7. On(r) => On(t)
    BY <2>3, <2>5 DEF On
  <2> QED
    BY <2>5, <2>6, <2>7 DEF OnStack
<1> QED
  BY <1>1, <1>2

\* An interval that is cancelled or over is not counted any more.
LEMMA ClearTimer ==
  ASSUME NEW r \in State, NEW running \in BOOLEAN, Counted(r, running)
  PROVE  LET t == clear_usertimer(r)
         IN  /\ t \in State /\ Counted(t, running) /\ (On(r) => On(t))
             /\ ~OnStack(t) /\ t.status = r.status
<1> DEFINE t == clear_usertimer(r)
           q == [r EXCEPT !.pending = FALSE]
<1>1. CASE ~r.pending
  BY <1>1 DEF clear_usertimer, OnStack
<1>2. CASE r.pending
  <2>1. t = rtc_release(q)
    BY <1>2 DEF clear_usertimer
  <2>2. q \in State
    BY Writes
  <2>3. /\ q.users = r.users /\ q.pie = r.pie /\ q.status = r.status
        /\ q.pending = FALSE
    BY DEF State
  <2> HIDE DEF q
  <2>4. q.users > 0 /\ r.users \in 0 .. 2
    BY <1>2, <2>3, Fields DEF Counted
  <2>5. t \in State /\ t.users = r.users - 1 /\ (On(q) => On(t))
        /\ t.pending = FALSE /\ t.status = r.status
    BY <2>1, <2>2, <2>3, <2>4, ReleaseType
  <2>6. Counted(t, running)
    BY <1>2, <2>4, <2>5 DEF Counted
  <2>7. On(r) => On(t)
    BY <2>3, <2>5 DEF On
  <2> QED
    BY <2>5, <2>6, <2>7 DEF OnStack
<1> QED
  BY <1>1, <1>2

\* The interrupt counts an interval down, and ends it when it sets the flag.
LEMMA PeriodicTimer ==
  ASSUME NEW r \in State, NEW running \in BOOLEAN, Counted(r, running)
  PROVE  LET t == Periodic(r)
         IN  /\ t \in State /\ Counted(t, running) /\ (On(r) => On(t))
             /\ OnStack(t) => OnStack(r) /\ t.status = r.status
<1> DEFINE t == Periodic(r)
           d == [r EXCEPT !.left = @ - 1]
           q == [r EXCEPT !.status = @ \/ r.flag = "stack"]
<1>1. CASE ~r.pending
  BY <1>1 DEF Periodic
<1>2. CASE r.pending /\ r.left > 0
  <2>1. t = d
    BY <1>2 DEF Periodic
  <2>2. d \in State
    BY <1>2, Fields, Writes, LeftType
  <2>3. /\ d.users = r.users /\ d.pie = r.pie /\ d.status = r.status
        /\ d.pending = r.pending /\ d.flag = r.flag
    BY DEF State
  <2> QED
    BY <2>1, <2>2, <2>3 DEF Counted, On, OnStack
<1>3. CASE r.pending /\ ~(r.left > 0)
  <2>1. t = clear_usertimer(q)
    BY <1>3 DEF Periodic
  <2>2. q \in State
    BY Fields, Writes
  <2>3. q.users = r.users /\ q.pie = r.pie /\ q.pending = r.pending
    BY DEF State
  <2> HIDE DEF q
  <2>4. Counted(q, running) /\ (On(r) => On(q))
    BY <2>3 DEF Counted, On
  <2> QED
    BY <2>1, <2>2, <2>4, ClearTimer
<1> QED
  BY <1>1, <1>2, <1>3

----------------------------------------------------------------------------
(* The steps.                                                              *)

PCs == {"off", "user", "wait86"} \cup Updating

\* What the steps but that of handle_1586() have in common: they start no
\* interval of its kind, and none of them leaves its wait while there is one.
LEMMA StepInv ==
  ASSUME IInv,
         s' \in State, Counted(s', rom'), KeepsB /\ On(s) => On(s'),
         OnStack(s') => OnStack(s) /\ s'.status = s.status,
         irr' \in BOOLEAN, rom' \in BOOLEAN, savedP' \in BOOLEAN,
         pc' \in [Contexts -> PCs], val8' \in [Contexts -> BOOLEAN],
         world' = world,
         pc["prog"] = "wait86" => pc'["prog"] = "wait86" \/ ~OnStack(s),
         KeepsB => NoOldB'
  PROVE  IInv'
<1>1. TypeOK'
  BY DEF IInv, TypeOK, PCs
<1>2. CountInv'
  BY DEF IInv, CountInv, KeepsB, Counted, On
<1>3. FlagInv'
  BY DEF IInv, FlagInv, NoDanglingFlag, OnStack
<1> QED
  BY <1>1, <1>2, <1>3 DEF IInv

\* The same for the steps that write to the chip only.
LEMMA ChipStep ==
  ASSUME IInv, UNCHANGED <<rom, pc, val8, savedP, world>>,
         s' \in State, irr' \in BOOLEAN, s'.users = s.users,
         s'.pending = s.pending, s'.flag = s.flag, s'.status = s.status,
         KeepsB => s'.pie = s.pie
  PROVE  IInv'
<1>1. Counted(s', rom') /\ (KeepsB /\ On(s) => On(s'))
  BY DEF IInv, CountInv, Counted, On
<1>2. OnStack(s') => OnStack(s) /\ s'.status = s.status
  BY DEF OnStack
<1>3. KeepsB => NoOldB'
  BY DEF IInv, CountInv, NoOldB
<1> QED
  BY <1>1, <1>2, <1>3, StepInv DEF IInv, TypeOK, PCs

\* Every call of a service preserves the inductive invariant.
LEMMA CallStep ==
  ASSUME IInv, NEW c \in Contexts, Call(c)
  PROVE  IInv'
<1> USE DEF Becomes
<1>0. /\ s \in State /\ rom \in BOOLEAN /\ Counted(s, rom)
      /\ KeepsB => NoOldB
      /\ irr \in BOOLEAN /\ savedP \in BOOLEAN /\ pc \in [Contexts -> PCs]
      /\ val8 \in [Contexts -> BOOLEAN]
  BY DEF IInv, TypeOK, CountInv, PCs
<1>1. CASE handle_158300(c)
  <2>1. PICK left \in Intervals : Becomes(set_usertimer(s, left, "user"))
    BY <1>1 DEF handle_158300
  <2>2. UNCHANGED <<rom, pc, val8, savedP, world>>
    BY <1>1 DEF handle_158300
  <2>3. /\ s' \in State /\ Counted(s', rom') /\ (On(s) => On(s'))
        /\ OnStack(s') => OnStack(s) /\ s'.status = s.status
    BY <1>0, <2>1, <2>2, TimerIsSet
  <2>4. irr' \in BOOLEAN
    BY <1>0, <2>1
  <2>5. KeepsB => NoOldB'
    BY <1>0, <2>2 DEF NoOldB
  <2> QED
    BY <1>0, <2>2, <2>3, <2>4, <2>5, StepInv
<1>2. CASE handle_158301(c)
  <2>1. s' = clear_usertimer(s) /\ irr' \in BOOLEAN
    BY <1>0, <1>2 DEF handle_158301
  <2>2. UNCHANGED <<rom, pc, val8, savedP, world>>
    BY <1>2 DEF handle_158301
  <2>3. /\ s' \in State /\ Counted(s', rom') /\ (On(s) => On(s'))
        /\ OnStack(s') => OnStack(s) /\ s'.status = s.status
    BY <1>0, <2>1, <2>2, ClearTimer
  <2>4. KeepsB => NoOldB'
    BY <1>0, <2>2 DEF NoOldB
  <2> QED
    BY <1>0, <2>1, <2>2, <2>3, <2>4, StepInv
<1>3. ASSUME NEW service \in Updating, handle_1a03_05_06(c, service)
      PROVE  IInv'
  <2>0. UNCHANGED <<rom, savedP, world>> /\ MayCall(c, service)
    BY <1>3 DEF handle_1a03_05_06
  <2>1. CASE Becomes(WriteB(service, s, s.pie)) /\ UNCHANGED <<pc, val8>>
    <3>1. s' = WriteB(service, s, s.pie) /\ irr' \in BOOLEAN
      BY <1>0, <2>1
    <3> DEFINE q == [s EXCEPT !.pie = s.pie]
    <3>2. q \in State /\ [q EXCEPT !.aie = TRUE] \in State
      BY <1>0, Fields, Writes
    <3>3. s' \in State
      BY <1>0, <3>1, <3>2 DEF WriteB
    <3>4. /\ s'.users = s.users /\ s'.pending = s.pending /\ s'.flag = s.flag
          /\ s'.status = s.status /\ s'.pie = s.pie
      BY <1>0, <3>1 DEF WriteB, State
    <3> QED
      BY <2>0, <2>1, <3>1, <3>3, <3>4, ChipStep
  <2>2. CASE /\ world.sees
             /\ pc' = [pc EXCEPT ![c] = service]
             /\ val8' = [val8 EXCEPT ![c] = s.pie]
             /\ UNCHANGED <<s, irr>>
    <3>1. KeepsB => service # "1a06"
      BY <2>0, <2>2 DEF KeepsB, MayCall, Calls
    <3>2. KeepsB => NoOldB'
      BY <1>0, <2>2, <3>1 DEF NoOldB
    <3>3. pc' \in [Contexts -> PCs]
      BY <1>0, <2>2 DEF PCs
    <3>4. val8' \in [Contexts -> BOOLEAN]
      BY <1>0, <2>2, Fields
    <3>5. pc["prog"] = "wait86" => pc'["prog"] = "wait86"
      BY <1>0, <2>0, <2>2 DEF MayCall, Contexts
    <3>6. Counted(s', rom') /\ (On(s) => On(s')) /\ (OnStack(s') => OnStack(s))
      BY <1>0, <2>0, <2>2
    <3> QED
      BY <1>0, <2>0, <2>2, <3>2, <3>3, <3>4, <3>5, <3>6, StepInv
  <2> QED
    BY <1>3, <2>1, <2>2 DEF handle_1a03_05_06
<1>4. CASE handle_1a07(c)
  <2>1. s' = [s EXCEPT !.aie = FALSE] /\ irr' \in BOOLEAN
    BY <1>0, <1>4 DEF handle_1a07
  <2>2. s' \in State
    BY <1>0, <2>1, Writes
  <2>3. /\ s'.users = s.users /\ s'.pending = s.pending /\ s'.flag = s.flag
        /\ s'.status = s.status /\ s'.pie = s.pie
    BY <1>0, <2>1 DEF State
  <2> QED
    BY <1>4, <2>1, <2>2, <2>3, ChipStep DEF handle_1a07
<1> QED
  BY <1>1, <1>2, <1>3, <1>4 DEF Call

\* The end of a clock service that has waited.
LEMMA UpdateStep ==
  ASSUME IInv, NEW c \in Contexts, UpdateEnds(c) \/ UpdateTimesOut(c)
  PROVE  IInv'
<1>0. /\ s \in State /\ irr \in BOOLEAN /\ pc \in [Contexts -> PCs]
      /\ val8 \in [Contexts -> BOOLEAN] /\ rom \in BOOLEAN /\ savedP \in BOOLEAN
      /\ Counted(s, rom) /\ (KeepsB => NoOldB)
  BY DEF IInv, TypeOK, CountInv, PCs
<1>1. /\ pc[c] \in Updating /\ pc' = [pc EXCEPT ![c] = "user"]
      /\ UNCHANGED <<rom, val8, savedP, world>>
  BY DEF UpdateEnds, UpdateTimesOut
<1>2. PICK r \in {s, rtc_setup(s)} :
        /\ s' = WriteB(pc[c], r, val8[c]) /\ irr' \in BOOLEAN
        /\ r # s => world.hangs
  BY <1>0 DEF UpdateEnds, UpdateTimesOut, Becomes
<1>3. /\ r \in State /\ r.users = s.users /\ r.pending = s.pending
      /\ r.flag = s.flag /\ r.status = s.status
  <2>1. CASE r = s
    BY <1>0, <2>1
  <2>2. CASE r = rtc_setup(s)
    <3> DEFINE q1 == [s EXCEPT !.pie = FALSE]
               q2 == [q1 EXCEPT !.aie = FALSE]
               q3 == [q2 EXCEPT !.pf = FALSE]
    <3>1. q1 \in State
      BY <1>0, Writes
    <3>2. q2 \in State
      BY <3>1, Writes
    <3>3. q3 \in State
      BY <3>2, Writes
    <3>4. [q3 EXCEPT !.af = FALSE] \in State
      BY <3>3, Writes
    <3> QED
      BY <1>0, <2>2, <3>4 DEF rtc_setup, State
  <2> QED
    BY <2>1, <2>2
<1>4. /\ s' \in State /\ s'.users = s.users /\ s'.pending = s.pending
      /\ s'.flag = s.flag /\ s'.status = s.status
  <2> DEFINE q == [r EXCEPT !.pie = val8[c]]
  <2>1. q \in State
    BY <1>0, <1>3, Writes
  <2>2. [q EXCEPT !.aie = TRUE] \in State
    BY <2>1, Writes
  <2> QED
    BY <1>2, <1>3, <2>2 DEF WriteB, State
<1>5. KeepsB => s'.pie = s.pie
  BY <1>0, <1>2 DEF KeepsB, NoOldB, WriteB
<1>6. KeepsB /\ On(s) => On(s')
  BY <1>4, <1>5 DEF On
<1>7. Counted(s', rom') /\ (OnStack(s') => OnStack(s) /\ s'.status = s.status)
  BY <1>0, <1>1, <1>4 DEF Counted, OnStack
<1>8. pc' \in [Contexts -> PCs] /\ (KeepsB => NoOldB')
  BY <1>0, <1>1 DEF PCs, NoOldB
<1>9. pc["prog"] = "wait86" => pc'["prog"] = "wait86"
  BY <1>0, <1>1 DEF Contexts, Updating
<1> QED
  BY <1>0, <1>1, <1>2, <1>4, <1>6, <1>7, <1>8, <1>9, StepInv

\* The call that waits clears its flag before it starts an interval.
LEMMA WaitStep ==
  ASSUME IInv, handle_1586
  PROVE  IInv'
<1>0. /\ s \in State /\ irr \in BOOLEAN /\ pc \in [Contexts -> PCs]
      /\ rom \in BOOLEAN /\ Counted(s, rom) /\ (KeepsB => NoOldB /\ On(s))
  BY DEF IInv, TypeOK, CountInv, PCs
<1> DEFINE q == [s EXCEPT !.status = FALSE]
<1>1. PICK left \in Intervals : Becomes(set_usertimer(q, left, "stack"))
  BY DEF handle_1586
<1>2. q \in State /\ Counted(q, rom) /\ (On(s) => On(q)) /\ q.status = FALSE
  <2>1. q \in State
    BY <1>0, Writes
  <2>2. /\ q.users = s.users /\ q.pending = s.pending /\ q.pie = s.pie
        /\ q.status = FALSE
    BY <1>0 DEF State
  <2> HIDE DEF q
  <2> QED
    BY <1>0, <2>1, <2>2 DEF Counted, On
<1>3. s' = set_usertimer(q, left, "stack") /\ irr' \in BOOLEAN
  BY <1>0, <1>1 DEF Becomes
<1> HIDE DEF q
<1>4. s' \in State /\ Counted(s', rom) /\ (On(s) => On(s')) /\ s'.status = FALSE
  BY <1>0, <1>2, <1>3, TimerIsSet
<1>5. pc' = [pc EXCEPT !["prog"] = "wait86"] /\ UNCHANGED <<rom, val8, savedP, world>>
  BY DEF handle_1586
<1>6. /\ pc' \in [Contexts -> PCs] /\ pc'["prog"] = "wait86"
      /\ (KeepsB => NoOldB')
  BY <1>0, <1>5 DEF PCs, NoOldB, Contexts
<1>7. TypeOK'
  BY <1>3, <1>4, <1>5, <1>6 DEF IInv, TypeOK, PCs
<1>8. CountInv'
  BY <1>0, <1>4, <1>5, <1>6 DEF CountInv, KeepsB
<1>9. FlagInv'
  BY <1>4, <1>6 DEF FlagInv, NoDanglingFlag
<1> QED
  BY <1>7, <1>8, <1>9 DEF IInv

\* start_preempt() and finish_preempt(): rom says whether RTCusers counts them.
LEMMA RomStep ==
  ASSUME IInv, start_preempt \/ finish_preempt
  PROVE  IInv'
<1>0. /\ s \in State /\ irr \in BOOLEAN /\ pc \in [Contexts -> PCs]
      /\ val8 \in [Contexts -> BOOLEAN] /\ rom \in BOOLEAN /\ savedP \in BOOLEAN
      /\ Counted(s, rom) /\ (KeepsB => NoOldB) /\ s.users \in 0 .. 2
  BY Fields DEF IInv, TypeOK, CountInv, PCs
<1>1. UNCHANGED <<pc, val8, savedP, world>> /\ irr' \in BOOLEAN
  BY <1>0 DEF start_preempt, finish_preempt, Becomes
<1>2. /\ s' \in State /\ Counted(s', rom') /\ rom' \in BOOLEAN
      /\ On(s) => On(s')
      /\ s'.pending = s.pending /\ s'.flag = s.flag /\ s'.status = s.status
  <2>1. CASE start_preempt
    <3>1. ~rom /\ rom' = TRUE /\ s' = rtc_use(s)
      BY <2>1 DEF start_preempt, Becomes
    <3>2. s.users < 2
      BY <1>0, <3>1 DEF Counted
    <3>3. /\ s' \in State /\ s'.users = s.users + 1 /\ (On(s) => On(s'))
          /\ s'.pending = s.pending /\ s'.flag = s.flag /\ s'.status = s.status
      BY <1>0, <3>1, <3>2, UseType
    <3>4. Counted(s', rom')
      BY <1>0, <3>1, <3>3 DEF Counted
    <3> QED
      BY <3>1, <3>3, <3>4
  <2>2. CASE finish_preempt
    <3>1. rom /\ rom' = FALSE /\ s' = rtc_release(s)
      BY <2>2 DEF finish_preempt, Becomes
    <3>2. s.users > 0
      BY <1>0, <3>1 DEF Counted
    <3>3. /\ s' \in State /\ s'.users = s.users - 1 /\ (On(s) => On(s'))
          /\ s'.pending = s.pending /\ s'.flag = s.flag /\ s'.status = s.status
      BY <1>0, <3>1, <3>2, ReleaseType
    <3>4. Counted(s', rom')
      BY <1>0, <3>1, <3>3 DEF Counted
    <3> QED
      BY <3>1, <3>3, <3>4
  <2> QED
    BY <2>1, <2>2
<1>3. OnStack(s') => OnStack(s) /\ s'.status = s.status
  BY <1>2 DEF OnStack
<1>4. KeepsB => NoOldB'
  BY <1>0, <1>1 DEF NoOldB
<1> QED
  BY <1>0, <1>1, <1>2, <1>3, <1>4, StepInv

\* Interrupts begin and return, and handle_70() counts the interval down,
\* before or after the handlers of an alarm.
LEMMA InterruptStep ==
  ASSUME IInv, handle_08 \/ TickReturns \/ handle_70 \/ AlarmReturns
  PROVE  IInv'
<1>0. /\ s \in State /\ irr \in BOOLEAN /\ pc \in [Contexts -> PCs]
      /\ val8 \in [Contexts -> BOOLEAN] /\ rom \in BOOLEAN /\ savedP \in BOOLEAN
      /\ Counted(s, rom) /\ (KeepsB => NoOldB)
  BY DEF IInv, TypeOK, CountInv, PCs
<1> DEFINE q == [s EXCEPT !.pf = FALSE]
           r == [q EXCEPT !.af = FALSE]
<1>1. UNCHANGED <<rom, val8, world>>
  BY DEF handle_08, TickReturns, handle_70, AlarmReturns
<1>2. /\ r \in State /\ Counted(r, rom) /\ (On(s) => On(r))
      /\ OnStack(r) => OnStack(s) /\ r.status = s.status
  <2>1. q \in State
    BY <1>0, Writes
  <2>2. r \in State
    BY <2>1, Writes
  <2>3. /\ r.users = s.users /\ r.pending = s.pending /\ r.flag = s.flag
        /\ r.status = s.status /\ r.pie = s.pie
    BY <1>0 DEF State
  <2> QED
    BY <1>0, <2>2, <2>3 DEF Counted, On, OnStack
<1>3. s' \in {s, r, Periodic(r), Periodic(s)}
  BY DEF handle_08, TickReturns, handle_70, AlarmReturns, Becomes
<1> HIDE DEF r, q
<1>4. /\ s' \in State /\ Counted(s', rom') /\ (On(s) => On(s'))
      /\ OnStack(s') => OnStack(s) /\ s'.status = s.status
  <2>1. ASSUME NEW t \in {s, r}
        PROVE  LET p == Periodic(t)
               IN  /\ p \in State /\ Counted(p, rom) /\ (On(t) => On(p))
                   /\ OnStack(p) => OnStack(t) /\ p.status = t.status
    BY <1>0, <1>2, PeriodicTimer
  <2> QED
    BY <1>0, <1>1, <1>2, <1>3, <2>1
<1>5. irr' \in BOOLEAN
  BY <1>0 DEF handle_08, TickReturns, handle_70, AlarmReturns, Becomes
<1>6. savedP' \in BOOLEAN
  BY <1>0, Fields DEF handle_08, TickReturns, handle_70, AlarmReturns
<1>7. \/ pc' = pc
      \/ \E c \in {"tick", "alarm"}, step \in {"user", "off"} :
           pc' = [pc EXCEPT ![c] = step]
  BY DEF handle_08, TickReturns, handle_70, AlarmReturns
<1>8. /\ pc' \in [Contexts -> PCs] /\ pc'["prog"] = pc["prog"]
      /\ KeepsB => NoOldB'
  BY <1>0, <1>7 DEF PCs, NoOldB, Contexts
<1> QED
  BY <1>0, <1>1, <1>4, <1>5, <1>6, <1>8, StepInv

\* The other steps: events on the chip, and the return of handle_1586().
LEMMA OtherStep ==
  ASSUME IInv, PeriodElapses \/ AlarmElapses \/ EndWait86 \/ UNCHANGED vars
  PROVE  IInv'
<1>0. /\ s \in State /\ irr \in BOOLEAN /\ pc \in [Contexts -> PCs]
      /\ val8 \in [Contexts -> BOOLEAN] /\ rom \in BOOLEAN /\ savedP \in BOOLEAN
      /\ Counted(s, rom) /\ (KeepsB => NoOldB)
  BY DEF IInv, TypeOK, CountInv, PCs
<1>1. CASE PeriodElapses \/ AlarmElapses
  <2>1. /\ s' \in {[s EXCEPT !.pf = TRUE], [s EXCEPT !.af = TRUE]} /\ irr' \in BOOLEAN
        /\ UNCHANGED <<rom, pc, val8, savedP, world>>
    BY <1>0, <1>1 DEF PeriodElapses, AlarmElapses, Becomes
  <2>2. s' \in State
    BY <1>0, <2>1, Writes
  <2>3. /\ s'.users = s.users /\ s'.pending = s.pending /\ s'.flag = s.flag
        /\ s'.status = s.status /\ s'.pie = s.pie
    BY <1>0, <2>1 DEF State
  <2> QED
    BY <2>1, <2>2, <2>3, ChipStep
<1>2. CASE EndWait86
  <2>1. /\ pc["prog"] = "wait86" /\ s.status
        /\ pc' = [pc EXCEPT !["prog"] = "user"]
        /\ UNCHANGED <<s, irr, rom, val8, savedP, world>>
    BY <1>2 DEF EndWait86, WaitOver
  <2>2. ~OnStack(s)
    BY <2>1 DEF IInv, FlagInv
  <2>3. pc' \in [Contexts -> PCs] /\ (KeepsB => NoOldB')
    BY <1>0, <2>1 DEF PCs, NoOldB, Contexts
  <2>4. s' = s /\ Counted(s', rom') /\ (On(s) => On(s'))
    BY <1>0, <2>1
  <2> QED
    BY <1>0, <2>1, <2>2, <2>3, <2>4, StepInv
<1>3. CASE UNCHANGED vars
  BY <1>0, <1>3, ChipStep DEF vars
<1> QED
  BY <1>1, <1>2, <1>3

----------------------------------------------------------------------------

\* The inductive invariant holds at the start.
LEMMA InitIInv == Init => IInv
<1> SUFFICES ASSUME Init
             PROVE  IInv
  OBVIOUS
<1>1. TypeOK
  <2>1. s \in State
    BY LeftType DEF Init, State
  <2>2. pc \in [Contexts -> PCs] /\ val8 \in [Contexts -> BOOLEAN]
    BY DEF Init, PCs
  <2> QED
    BY <2>1, <2>2 DEF Init, TypeOK, PCs
<1>2. CountInv
  BY DEF Init, CountInv, Counted, On, NoOldB, Contexts
<1>3. FlagInv
  BY DEF Init, FlagInv, NoDanglingFlag, Contexts
<1> QED
  BY <1>1, <1>2, <1>3 DEF IInv

\* Every step preserves the inductive invariant.
LEMMA NextIInv == IInv /\ [Next]_vars => IInv'
<1> SUFFICES ASSUME IInv, [Next]_vars
             PROVE  IInv'
  OBVIOUS
<1> QED
  BY CallStep, UpdateStep, WaitStep, RomStep, InterruptStep, OtherStep DEF Next

\* The inductive invariant holds in every reachable state.
LEMMA Invariance == Spec => []IInv
  BY InitIInv, NextIInv, PTL DEF Spec

\* RTCusers counts the interval in progress and the option rom that runs, and
\* in every world where no handle_1a06() writes an old Status Register B the
\* periodic interrupt is on exactly as long as it has a user: rtc_use() and
\* rtc_release() are paired over every order of calls and interrupts.
THEOREM UsersCorrect == Spec => []PeriodicCounted
<1>1. IInv => PeriodicCounted
  BY DEF IInv, CountInv, PeriodicCounted, UsersCounted, Counted, PeriodicOn, On
<1> QED
  BY <1>1, Invariance, PTL

\* handle_70() writes to the stack of handle_1586() only while that waits,
\* whatever the handlers that interrupt it set and cancel.
THEOREM FlagCorrect == Spec => []NoDanglingFlag
<1>1. IInv => NoDanglingFlag
  BY DEF IInv, FlagInv
<1> QED
  BY <1>1, Invariance, PTL

----------------------------------------------------------------------------
(* The tick counter.  The only thing that can spoil the date is that          *)
(* timer_rollover, a u8, wraps: the theorems say so in a hypothesis on the    *)
(* behaviour, which the bound of the model-checked instance implies.          *)

Timers == [end : 0 .. TICKS_PER_DAY - 1, count : Counts \cup {0}, elapsed : Nat,
           on : BOOLEAN, sound : BOOLEAN]

\* The counter is beyond the end of the day only after a program set it there.
TickRange == base < TICKS_PER_DAY => timer_counter < TICKS_PER_DAY

\* The end of a sound timer is as far ahead of the counter as ticks are left,
\* but for whole days.
TimerInv ==
  timer.on /\ timer.sound =>
    /\ timer_counter < TICKS_PER_DAY
    /\ timer.count \in Counts
    /\ \E q \in Int : timer_counter + timer.count + 1 - timer.elapsed
                        = timer.end + q * TICKS_PER_DAY

TickInv ==
  /\ TickTypeOK
  /\ timer \in Timers
  /\ TickRange
  /\ DateKept
  /\ TimerInv

\* What is left when whole days are taken off.
LEMMA WholeDays ==
  ASSUME NEW D \in Nat \ {0}, NEW q \in Int, NEW x \in 0 .. D - 1
  PROVE  (q * D + x) % D = x
  BY SMTT(30)

\* A distance less than a day ahead or behind.
LEMMA Distance ==
  ASSUME NEW D \in Nat \ {0}, NEW y \in (1 - D) .. (D - 1)
  PROVE  (y + D) % D = IF y < 0 THEN y + D ELSE y
<1>1. CASE y < 0
  <2>1. y + D \in 0 .. D - 1 /\ 0 * D = 0
    BY <1>1
  <2>2. (0 * D + (y + D)) % D = y + D
    BY <2>1, WholeDays
  <2> QED
    BY <1>1, <2>1, <2>2
<1>2. CASE ~(y < 0)
  <2>1. y \in 0 .. D - 1 /\ 1 * D = D /\ D + y = y + D
    BY <1>2
  <2>2. (1 * D + y) % D = y
    BY <2>1, WholeDays
  <2> QED
    BY <1>2, <2>1, <2>2
<1> QED
  BY <1>1, <1>2

\* A remainder is smaller than the day.
LEMMA Remainder ==
  ASSUME NEW D \in Nat \ {0}, NEW n \in Int
  PROVE  /\ n % D \in 0 .. D - 1
         /\ \E q \in Int : n = q * D + (n % D)
<1>1. n % D \in 0 .. D - 1
  OBVIOUS
<1>2. n \div D \in Int /\ n = (n \div D) * D + (n % D)
  BY SMTT(30)
<1> QED
  BY <1>1, <1>2, Zenon

\* The invariant holds when the clock is set up.
LEMMA TickInitInv ==
  ASSUME TickInit
  PROVE  TickInv
<1>1. TickTypeOK
  BY TickAssumption DEF TickInit, TickTypeOK, NoTimer
<1>2. timer \in Timers
  BY TickAssumption DEF TickInit, Timers, NoTimer
<1>3. TickRange /\ TimerInv
  BY TickAssumption DEF TickInit, TickRange, TimerInv, NoTimer
<1>4. DateKept
  <2>1. timer_counter \in Int /\ 0 * TICKS_PER_DAY = 0
    BY TickAssumption DEF TickInit
  <2> QED
    BY <2>1 DEF TickInit, DateKept
<1> QED
  BY <1>1, <1>2, <1>3, <1>4 DEF TickInv

\* The types alone, the settings of the programs being numbers.
LEMMA TickTypes ==
  ASSUME TickInv
  PROVE  /\ TICKS_PER_DAY \in Nat \ {0, 1} /\ RolloverWord \in Nat \ {0}
         /\ timer_counter \in Nat /\ base \in Nat /\ days \in Nat /\ since \in Nat
         /\ timer_rollover \in 0 .. RolloverWord - 1
<1>1. /\ TICKS_PER_DAY \in Nat \ {0, 1} /\ RolloverWord \in Nat \ {0}
      /\ \A n \in Settings : n \in Nat
      /\ MaxTicks \in Nat
  BY TickAssumption
<1>2. \A n \in 0 .. TICKS_PER_DAY - 1 : n \in Nat
  BY <1>1
<1>3. timer_counter \in Nat /\ base \in Nat
  BY <1>1, <1>2, Zenon DEF TickInv, TickTypeOK
<1>4. since \in 0 .. MaxTicks /\ days \in Nat
      /\ timer_rollover \in 0 .. RolloverWord - 1
  BY DEF TickInv, TickTypeOK
<1> QED
  BY <1>1, <1>3, <1>4

\* The counter after a tick: one more, or the first tick of the next day.
LEMMA TickAdvances ==
  ASSUME TickInv
  PROVE  /\ timer_counter \in Nat
         /\ Advanced(timer_counter) \in 0 .. TICKS_PER_DAY - 1
         /\ timer_counter < TICKS_PER_DAY =>
              Advanced(timer_counter)
                = IF timer_counter = TICKS_PER_DAY - 1 THEN 0 ELSE timer_counter + 1
  BY TickTypes DEF Advanced

\* A timer interrupt keeps the date, if timer_rollover does not wrap.
LEMMA TickKeepsDate ==
  ASSUME TickInv, clock_update, AskedInTime
  PROVE  DateKept'
<1> SUFFICES ASSUME base < TICKS_PER_DAY
             PROVE  (days + timer_rollover') * TICKS_PER_DAY + timer_counter'
                      = base + (since + 1)
  BY DEF clock_update, DateKept
<1> DEFINE D == TICKS_PER_DAY
           r == timer_rollover
<1>1. /\ D \in Nat \ {0, 1} /\ RolloverWord \in Nat \ {0}
      /\ r \in 0 .. RolloverWord - 1 /\ days \in Nat /\ since \in Nat
      /\ base \in Nat /\ timer_counter \in 0 .. D - 1
      /\ (days + r) * D + timer_counter = base + since
  <2>1. timer_counter < D /\ (days + r) * D + timer_counter = base + since
    BY DEF TickInv, TickRange, DateKept
  <2> QED
    BY <2>1, TickTypes
<1>2. timer_counter' = IF timer_counter = D - 1 THEN 0 ELSE timer_counter + 1
  BY <1>1, TickAdvances DEF clock_update
<1>3. CASE timer_counter = D - 1
  <2>1. timer_counter' = 0
    BY <1>2, <1>3
  <2>2. r # RolloverWord - 1
    BY <2>1 DEF AskedInTime, clock_update
  <2>3. (r + 1) % RolloverWord = r + 1
    <3>1. r + 1 \in 0 .. RolloverWord - 1 /\ 0 * RolloverWord = 0
      BY <1>1, <2>2
    <3>2. (0 * RolloverWord + (r + 1)) % RolloverWord = r + 1
      BY <1>1, <3>1, WholeDays
    <3> QED
      BY <1>1, <3>1, <3>2
  <2>4. timer_rollover' = r + 1
    BY <2>1, <2>3 DEF clock_update
  <2>5. \A k \in Nat : (k + 1) * D = k * D + D
    BY <1>1
  <2>6. days + r \in Nat /\ days + (r + 1) = (days + r) + 1
    BY <1>1
  <2>7. (days + (r + 1)) * D = (days + r) * D + D
    BY <2>5, <2>6
  <2>8. (days + r) * D \in Nat
    BY <1>1, <2>6
  <2> HIDE DEF r, D
  <2>9. (days + (r + 1)) * D + 0 = base + (since + 1)
    BY <1>1, <1>3, <2>7, <2>8
  <2> QED
    BY <2>1, <2>4, <2>9 DEF r, D
<1>4. CASE timer_counter # D - 1
  <2>1. timer_counter' = timer_counter + 1 /\ timer_rollover' = r
    BY <1>1, <1>2, <1>4 DEF clock_update
  <2>2. (days + r) * D \in Nat
    BY <1>1
  <2> HIDE DEF r, D
  <2>3. (days + r) * D + (timer_counter + 1) = base + (since + 1)
    BY <1>1, <2>2
  <2> QED
    BY <2>1, <2>3 DEF r, D
<1> QED
  BY <1>3, <1>4

\* A timer interrupt brings the counter one tick nearer to the end of a timer.
LEMMA TickMovesTimer ==
  ASSUME TickInv, clock_update
  PROVE  TimerInv' /\ timer' \in Timers
<1>1. CASE ~(timer.on /\ timer.sound)
  BY <1>1 DEF TickInv, clock_update, TimerInv
<1>2. CASE timer.on /\ timer.sound
  <2> DEFINE D == TICKS_PER_DAY
  <2>1. timer' = [timer EXCEPT !.elapsed = @ + 1]
    BY <1>2 DEF clock_update
  <2>2. /\ timer'.end = timer.end /\ timer'.count = timer.count
        /\ timer'.on = timer.on /\ timer'.sound = timer.sound
        /\ timer'.elapsed = timer.elapsed + 1
        /\ timer' \in Timers
    BY <2>1 DEF TickInv, Timers
  <2>3. PICK q \in Int : timer_counter + timer.count + 1 - timer.elapsed
                           = timer.end + q * D
    BY <1>2 DEF TickInv, TimerInv
  <2>4. /\ D \in Nat \ {0, 1} /\ timer_counter \in 0 .. D - 1
        /\ timer.count \in Nat /\ timer.count \in Counts
        /\ timer.elapsed \in Nat /\ timer.end \in Nat
        /\ timer_counter' = IF timer_counter = D - 1 THEN 0 ELSE timer_counter + 1
    BY <1>2, TickAssumption, TickAdvances
    DEF TickInv, TimerInv, Timers, clock_update
  <2> DEFINE a == q * D
             b == (q - 1) * D
  <2>5. a \in Int /\ q - 1 \in Int /\ b = a - D
    BY <2>4
  <2> HIDE DEF a, b, D
  <2>6. \/ timer_counter' + timer.count + 1 - (timer.elapsed + 1) = timer.end + a
        \/ timer_counter' + timer.count + 1 - (timer.elapsed + 1) = timer.end + b
    <3>1. timer_counter + timer.count + 1 - timer.elapsed = timer.end + a
      BY <2>3 DEF a
    <3> QED
      BY <2>4, <2>5, <3>1
  <2>7. \E k \in Int : timer_counter' + timer.count + 1 - (timer.elapsed + 1)
                         = timer.end + k * D
    BY <2>5, <2>6 DEF a, b
  <2>8. timer_counter' < D
    BY <2>4
  <2> QED
    BY <2>2, <2>4, <2>7, <2>8 DEF TimerInv, D
<1> QED
  BY <1>1, <1>2

\* irqtimer_calc_ticks() makes a timer whose end is the given ticks ahead.
LEMMA TimerStarts ==
  ASSUME TickInv, NEW count \in Counts, SetTimer(count)
  PROVE  /\ timer'.end \in 0 .. TICKS_PER_DAY - 1
         /\ timer' \in Timers
         /\ TimerInv'
<1> DEFINE D == TICKS_PER_DAY
           e == irqtimer_calc_ticks(count)
<1>1. D \in Nat \ {0, 1} /\ timer_counter \in Nat /\ count \in Nat
  BY TickAssumption, TickAdvances
<1>2. timer_counter + count + 1 \in Int
  BY <1>1
<1>3. e \in 0 .. D - 1 /\ \E q \in Int : timer_counter + count + 1 = q * D + e
  BY <1>1, <1>2, Remainder DEF irqtimer_calc_ticks
<1> HIDE DEF e, D
<1>4. /\ timer' = [end |-> e, count |-> count, elapsed |-> 0, on |-> TRUE,
                   sound |-> timer_counter < D]
      /\ timer_counter' = timer_counter
  BY DEF SetTimer, e, D
<1>5. timer' \in Timers /\ timer'.end = e
  BY <1>1, <1>3, <1>4 DEF Timers, D
<1>6. ASSUME timer'.sound
      PROVE  timer_counter < D /\ \E q \in Int : timer_counter + count + 1 - 0 = e + q * D
  <2>1. timer_counter < D
    BY <1>4, <1>6
  <2>2. PICK q \in Int : timer_counter + count + 1 = q * D + e
    BY <1>3
  <2>3. q * D \in Int /\ e \in Int
    BY <1>1, <1>3
  <2>4. timer_counter + count + 1 - 0 = e + q * D
    BY <1>1, <2>2, <2>3
  <2> QED
    BY <2>1, <2>4
<1>7. TimerInv'
  BY <1>4, <1>6 DEF TimerInv, D
<1> QED
  BY <1>3, <1>5, <1>7 DEF D

\* Each operation keeps the invariant.
LEMMA TickStep ==
  ASSUME TickInv, [TickNext]_tickVars, AskedInTime
  PROVE  TickInv'
<1>1. CASE clock_update
  <2>1. TickTypeOK'
    <3>1. timer_counter' \in 0 .. TICKS_PER_DAY - 1
      BY <1>1, TickAdvances DEF clock_update
    <3>2. timer_rollover' \in 0 .. RolloverWord - 1
      BY <1>1, TickTypes DEF clock_update
    <3>3. since' \in 0 .. MaxTicks
      BY <1>1, TickAssumption DEF clock_update, TickInv, TickTypeOK
    <3>4. timer'.end = timer.end /\ timer'.count = timer.count
      BY <1>1 DEF clock_update, TickInv, Timers
    <3> QED
      BY <1>1, <3>1, <3>2, <3>3, <3>4 DEF clock_update, TickInv, TickTypeOK
  <2>2. TickRange'
    BY <1>1, TickTypes, TickAdvances DEF clock_update, TickRange
  <2> QED
    BY <1>1, <2>1, <2>2, TickKeepsDate, TickMovesTimer DEF TickInv
<1>2. CASE handle_1a00
  <2>1. DateKept'
    <3>1. days + timer_rollover \in Nat
          /\ (days + timer_rollover) + 0 = days + timer_rollover
      BY TickTypes
    <3> QED
      BY <1>2, <3>1 DEF handle_1a00, TickInv, DateKept
  <2>2. TickTypeOK'
    BY <1>2, TickTypes DEF handle_1a00, TickInv, TickTypeOK
  <2> QED
    BY <1>2, <2>1, <2>2 DEF handle_1a00, TickInv, TickRange, TimerInv
<1>3. ASSUME NEW ticks \in Settings, handle_1a01(ticks)
      PROVE  TickInv'
  <2>1. ticks \in Nat
    BY TickAssumption
  <2>2. /\ timer'.end = timer.end /\ timer'.count = timer.count
        /\ timer'.on = timer.on /\ timer'.sound = ~timer.on /\ timer' \in Timers
    BY <1>3 DEF handle_1a01, TickInv, Timers
  <2>3. TickTypeOK'
    BY <1>3, <2>2, TickTypes, TickAssumption DEF handle_1a01, TickInv, TickTypeOK
  <2>4. DateKept' /\ TickRange'
    <3>1. (0 + 0) * TICKS_PER_DAY + ticks = ticks + 0
      BY <2>1, TickTypes
    <3> QED
      BY <1>3, <3>1 DEF handle_1a01, DateKept, TickRange
  <2>5. TimerInv'
    BY <2>2 DEF TimerInv
  <2> QED
    BY <2>2, <2>3, <2>4, <2>5 DEF TickInv
<1>4. ASSUME NEW count \in Counts, SetTimer(count)
      PROVE  TickInv'
  <2>1. timer'.end \in 0 .. TICKS_PER_DAY - 1 /\ timer' \in Timers /\ TimerInv'
    BY <1>4, TimerStarts
  <2>2. TickTypeOK'
    BY <1>4, <2>1 DEF SetTimer, TickInv, TickTypeOK, Timers
  <2> QED
    BY <1>4, <2>1, <2>2 DEF SetTimer, TickInv, DateKept, TickRange
<1>5. CASE TimerPasses
  <2>1. timer' \in Timers /\ timer'.end \in 0 .. TICKS_PER_DAY - 1
        /\ timer'.count = 0 /\ TimerInv'
    BY <1>5, TickTypes DEF TimerPasses, NoTimer, Timers, TimerInv
  <2> QED
    BY <1>5, <2>1 DEF TimerPasses, TickInv, TickTypeOK, DateKept, TickRange
<1>6. CASE UNCHANGED tickVars
  BY <1>6 DEF tickVars, TickInv, TickTypeOK, TickRange, DateKept, TimerInv
<1> QED
  BY <1>1, <1>2, <1>3, <1>4, <1>5, <1>6 DEF TickNext

\* What the invariant says of irqtimer_check().
LEMMA InvTellsTime ==
  ASSUME TickInv
  PROVE  TimeKept
<1> SUFFICES ASSUME timer.on, timer.sound,
                    timer.elapsed <= timer.count + (TICKS_PER_DAY \div 2)
             PROVE  irqtimer_check(timer.end) <=> timer.elapsed > timer.count
  BY DEF TickInv, TimeKept, TimerExact
<1> DEFINE D == TICKS_PER_DAY
           H == TICKS_PER_DAY \div 2
           y == timer_counter - timer.end
           x == timer.elapsed - timer.count - 1
<1>1. D \in Nat \ {0, 1} /\ H \in Nat /\ 2 * H <= D /\ D <= 2 * H + 1
  BY TickTypes
<1>2. /\ timer_counter \in 0 .. D - 1 /\ timer.end \in 0 .. D - 1
      /\ timer.elapsed \in Nat /\ timer.count \in Nat /\ timer.count \in Counts
      /\ timer.elapsed <= timer.count + H
  <2>1. timer_counter < D /\ timer.count \in Counts /\ timer.elapsed \in Nat
        /\ timer.end \in 0 .. D - 1
    BY DEF TickInv, TimerInv, Timers
  <2>2. timer.count \in Nat
    BY <2>1, TickAssumption
  <2> QED
    BY <2>1, <2>2, TickTypes
<1>3. 2 * (timer.count + 1) <= D
  BY <1>2, TickAssumption
<1>4. y \in (1 - D) .. (D - 1) /\ x \in Int /\ -H <= x /\ x < H
  BY <1>1, <1>2, <1>3
<1>5. PICK q \in Int : timer_counter + timer.count + 1 - timer.elapsed
                         = timer.end + q * D
  BY DEF TickInv, TimerInv
<1>6. y = x + q * D
  <2>1. q * D \in Int
    BY <1>1
  <2> DEFINE a == q * D
  <2> HIDE DEF a
  <2>2. timer_counter + timer.count + 1 - timer.elapsed = timer.end + a /\ a \in Int
    BY <1>5, <2>1 DEF a
  <2>3. timer_counter - timer.end = (timer.elapsed - timer.count - 1) + a
    BY <1>2, <2>2
  <2> QED
    BY <2>3 DEF a
<1>7. (y + D) % D = IF y < 0 THEN y + D ELSE y
  BY <1>1, <1>4, Distance
<1>8. timer_counter + D - timer.end = y + D
  BY <1>1, <1>2
<1>9. irqtimer_check(timer.end) <=> (IF y < 0 THEN y + D ELSE y) < H
  BY <1>7, <1>8 DEF irqtimer_check
<1> HIDE DEF D, H, x, y
<1>10. y = x \/ y = x + D \/ y = x - D
  <2>1. CASE q >= 2
    <3>1. q * D >= 2 * D
      BY <1>1, <2>1
    <3> QED
      BY <1>1, <1>4, <1>6, <3>1
  <2>2. CASE q <= -2
    <3>1. q * D <= -(2 * D)
      BY <1>1, <2>2
    <3> QED
      BY <1>1, <1>4, <1>6, <3>1
  <2>3. CASE q \in {-1, 0, 1}
    BY <1>1, <1>4, <1>6, <2>3
  <2> QED
    BY <2>1, <2>2, <2>3
<1>11. irqtimer_check(timer.end) <=> x >= 0
  BY <1>1, <1>4, <1>9, <1>10
<1> QED
  BY <1>2, <1>11 DEF x

\* A program that asks for the time before timer_rollover wraps is told of every
\* midnight once, and a timer passes after its ticks and not before, for every
\* length of the day and every setting of the counter.
THEOREM TimeCorrect == TickSpec /\ [][AskedInTime]_tickVars => []TimeKept
<1>1. TickInit => TickInv
  BY TickInitInv
<1>2. TickInv /\ [TickNext]_tickVars /\ [AskedInTime]_tickVars => TickInv'
  <2>1. ASSUME TickInv, UNCHANGED tickVars
        PROVE  TickInv'
    BY <2>1 DEF tickVars, TickInv, TickTypeOK, TickRange, DateKept, TimerInv
  <2> QED
    BY <2>1, TickStep
<1>3. TickInv => TimeKept
  BY InvTellsTime
<1> QED
  BY <1>1, <1>2, <1>3, PTL DEF TickSpec

\* While fewer ticks come than timer_rollover can count midnights for, nobody has
\* to ask: the clock alone keeps the date and the timers.
THEOREM DaysCorrect ==
  ASSUME MaxTicks <= (RolloverWord - 1) * TICKS_PER_DAY
  PROVE  TickSpec => []TimeKept
<1>1. TickInit => TickInv
  BY TickInitInv
<1>2. ASSUME TickInv
      PROVE  AskedInTime
  <2> SUFFICES ASSUME base < TICKS_PER_DAY, timer_rollover = RolloverWord - 1,
                      Advanced(timer_counter) = 0, clock_update
               PROVE  FALSE
    BY DEF AskedInTime
  <2> DEFINE D == TICKS_PER_DAY
             R == RolloverWord - 1
             c == R * D
             b == (days + R) * D
  <2>1. c \in Nat /\ b \in Nat /\ c <= b /\ D \in Nat
    <3>1. D \in Nat /\ R \in Nat /\ days \in Nat
      BY <1>2, TickTypes
    <3>2. days * D \in Nat /\ R * D \in Nat /\ (days + R) * D = days * D + R * D
      BY <3>1
    <3> QED
      BY <3>1, <3>2
  <2>2. b + timer_counter = base + since /\ timer_counter < D
    BY <1>2 DEF TickInv, DateKept, TickRange
  <2>3. timer_counter = D - 1 /\ base \in Nat /\ since \in Nat
    BY <1>2, <2>2, TickAdvances, TickTypes
  <2>4. MaxTicks \in Nat /\ MaxTicks <= c /\ since < MaxTicks
    BY TickAssumption DEF clock_update
  <2> HIDE DEF b, c
  <2> QED
    BY <2>1, <2>2, <2>3, <2>4
<1>3. TickInv /\ [TickNext]_tickVars => TickInv'
  BY <1>2, TickStep
<1>4. TickInv => TimeKept
  BY InvTellsTime
<1> QED
  BY <1>1, <1>3, <1>4, PTL DEF TickSpec

=============================================================================
