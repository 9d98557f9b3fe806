---------------------------- MODULE ThreadsProof ----------------------------
(***************************************************************************)
(* Who runs where.  The properties of module Threads for every set of      *)
(* thread stacks, every set of jobs and every number of mutexes; and those *)
(* of module Smp, the start of the other CPUs on one stack, for every      *)
(* number of CPUs and of MSRs.                                             *)
(***************************************************************************)
EXTENDS Threads, Smp, FiniteSetTheorems, TLAPS

----------------------------------------------------------------------------
(* The inductive invariant.                                                *)

\* mutex_s.isLocked says exactly whether some context holds the mutex.
LockInv ==
  /\ \A m \in Mutex : isLocked[m] <=> \E t \in ThreadInfo : m \in held[t]
  /\ \A t \in ThreadInfo : pc[t] = "mutex" => want[t] \in Mutex
  /\ MutualExclusion

\* The running jobs are the ones on the stacks of the ring's contexts, each
\* of them at one place.
CallsInv ==
  /\ \A c \in ThreadInfo : c \notin Ring => calls[c] = <<>>
  /\ \A c \in ThreadInfo : \A i \in 1 .. Len(calls[c]) :
       status[calls[c][i]] = "running"
  /\ \A j \in Job : status[j] = "running" =>
       \E c \in ThreadInfo : \E i \in 1 .. Len(calls[c]) : calls[c][i] = j
  /\ \A c, d \in ThreadInfo :
       \A i \in 1 .. Len(calls[c]), k \in 1 .. Len(calls[d]) :
         calls[c][i] = calls[d][k] => c = d /\ i = k

\* maininit() waits and boots in its own code, and boots without threads.
PhaseInv ==
  /\ phase \in {"join", "lastjoin"} \cup Past => calls[Main] = <<>>
  /\ phase \in Past => live = {}

\* A thread runs while an option rom is active only because of preemption.
PreemptInv ==
  /\ PreemptionBalanced
  /\ pc[Main] = "rom" => (CanPreempt <=> ThreadControl = 2)
  /\ pc[Main] = "rom" /\ cur # Main => CanPreempt

RingInv == RingLinked /\ RingIsOneCycle /\ OnLiveStack

IInv ==
  /\ TypeOK
  /\ RingInv
  /\ LockInv
  /\ CallsInv
  /\ PhaseInv
  /\ PreemptInv

----------------------------------------------------------------------------
(* The ring.                                                               *)

\* hlist_add_after() of a fresh stack behind a context of the ring, as in
\* run_thread(), leaves one doubly linked cycle through MainThread.
LEMMA RingAdd ==
  ASSUME TypeOK, RingLinked, RingIsOneCycle,
         NEW c \in Ring, NEW t \in Thread \ live,
         hlist_add_after(t, c), live' = live \cup {t}
  PROVE  RingLinked' /\ RingIsOneCycle'
<1>0. /\ next \in [ThreadInfo -> ThreadInfo] /\ pprev \in [ThreadInfo -> ThreadInfo]
      /\ Ring \subseteq ThreadInfo /\ t \in ThreadInfo /\ Main \notin Thread
  BY ThreadsAssumption DEF TypeOK, ThreadInfo, Ring
<1> USE <1>0 DEF Ring, RingLinked, hlist_add_after
<1>1. /\ t \notin Ring /\ next[c] \in Ring /\ Ring' = Ring \cup {t}
      /\ next'[t] = next[c] /\ next'[c] = t
      /\ \A x \in Ring : x # c => next'[x] = next[x]
  OBVIOUS
<1>2. RingLinked'
  <2>1. /\ pprev'[next[c]] = t /\ pprev'[t] = c
        /\ \A x \in Ring : x # next[c] => pprev'[x] = pprev[x]
    BY <1>1
  <2>2. ASSUME NEW x \in Ring'
        PROVE  next'[x] \in Ring' /\ pprev'[next'[x]] = x
    BY <1>1, <2>1
  <2>3. ASSUME NEW x \in Ring'
        PROVE  pprev'[x] \in Ring' /\ next'[pprev'[x]] = x
    BY <1>1, <2>1
  <2> QED
    BY <2>2, <2>3
<1>3. ASSUME NEW S \in SUBSET (Ring'), S # {}, \A x \in S : next'[x] \in S
      PROVE  Main \in S
  <2>1. \A x \in S \ {t} : next[x] \in S \ {t}
    BY <1>1, <1>3
  <2>2. S \ {t} # {}
    BY <1>1, <1>3
  <2>3. S \ {t} \in SUBSET Ring
    BY <1>1, <1>3
  <2> QED
    BY <2>1, <2>2, <2>3 DEF RingIsOneCycle
<1> QED
  BY <1>2, <1>3 DEF RingIsOneCycle

\* hlist_del() of a thread, as in __end_thread(), does so too, and the
\* context it was linked to is still in the ring.
LEMMA RingDel ==
  ASSUME TypeOK, RingLinked, RingIsOneCycle,
         NEW t \in live, hlist_del(t), live' = live \ {t}
  PROVE  RingLinked' /\ RingIsOneCycle' /\ next[t] \in Ring'
<1>0. /\ next \in [ThreadInfo -> ThreadInfo] /\ pprev \in [ThreadInfo -> ThreadInfo]
      /\ Ring \subseteq ThreadInfo /\ t \in ThreadInfo /\ t # Main
  BY ThreadsAssumption DEF TypeOK, ThreadInfo, Ring
<1> USE <1>0 DEF Ring, RingLinked, hlist_del
<1> DEFINE p == pprev[t]
           n == next[t]
<1>1. /\ t # Main /\ t \in Ring /\ Ring' = Ring \ {t}
      /\ p \in Ring /\ next[p] = t /\ n \in Ring
      /\ next'[p] = n
      /\ \A x \in Ring : x # p => next'[x] = next[x] /\ next[x] # t
  OBVIOUS
<1>2. n # t /\ p # t
  <2>1. ASSUME n = t PROVE FALSE
    <3> DEFINE S == {t}
    <3>1. S \in SUBSET Ring /\ S # {} /\ \A x \in S : next[x] \in S
      BY <1>1, <2>1
    <3> HIDE DEF S
    <3>2. Main \in S
      BY <3>1 DEF RingIsOneCycle
    <3> QED
      BY <1>1, <3>2 DEF S
  <2> QED
    BY <1>1, <2>1
<1>3. RingLinked'
  <2>1. /\ pprev'[n] = p
        /\ \A x \in Ring : x # n => pprev'[x] = pprev[x]
    BY <1>1
  <2>2. ASSUME NEW x \in Ring'
        PROVE  next'[x] \in Ring' /\ pprev'[next'[x]] = x
    <3>1. CASE x = p
      BY <1>1, <1>2, <2>1, <3>1
    <3>2. CASE x # p
      <4>1. next[x] \in Ring /\ pprev[next[x]] = x /\ next[x] # n /\ next[x] # t
        BY <1>1, <3>2
      <4> QED
        BY <1>1, <2>1, <3>2, <4>1
    <3> QED
      BY <3>1, <3>2
  <2>3. ASSUME NEW x \in Ring'
        PROVE  pprev'[x] \in Ring' /\ next'[pprev'[x]] = x
    BY <1>1, <1>2, <2>1
  <2> QED
    BY <2>2, <2>3
<1>4. ASSUME NEW S \in SUBSET (Ring'), S # {}, \A x \in S : next'[x] \in S
      PROVE  Main \in S
  <2> DEFINE T == IF p \in S THEN S \cup {t} ELSE S
  <2>1. T \in SUBSET Ring /\ T # {}
    BY <1>1, <1>4
  <2>2. \A x \in T : next[x] \in T
    BY <1>1, <1>4
  <2>3. Main \in T
    BY <2>1, <2>2 DEF RingIsOneCycle
  <2> QED
    BY <1>1, <2>3
<1> QED
  BY <1>1, <1>2, <1>3, <1>4 DEF RingIsOneCycle

\* When MainThread is its own successor there is no thread: the test in
\* have_threads() is exact.
LEMMA AloneInRing ==
  ASSUME TypeOK, RingLinked, RingIsOneCycle, ~have_threads
  PROVE  live = {}
<1> USE ThreadsAssumption DEF TypeOK, ThreadInfo, Ring, RingLinked, have_threads
<1>1. \A x \in live : next[x] \in live
  OBVIOUS
<1>2. live \in SUBSET Ring /\ Main \notin live
  OBVIOUS
<1> QED
  BY <1>1, <1>2 DEF RingIsOneCycle

----------------------------------------------------------------------------
(* One lemma per part of the invariant.                                    *)

PcType == [ThreadInfo -> {"idle", "run", "mutex", "preempt", "join", "rom"}]

\* A scheduler call leaves every job a natural number of them.
LEMMA SpendType ==
  ASSUME TypeOK, NEW j \in Job, Spend(j)
  PROVE  fuel' \in [Job -> Nat]
<1>1. fuel \in [Job -> Nat]
  BY DEF TypeOK
<1> QED
  BY <1>1 DEF Spend

\* Every action leaves the variables in their types.
LEMMA TypeStep ==
  ASSUME IInv, Next
  PROVE  TypeOK'
<1> USE ThreadsAssumption DEF ThreadInfo, ringVars, lockVars, jobVars,
        postVars, rtcVars, switch_next
<1>0. TypeOK /\ next[cur] \in ThreadInfo /\ cur \in ThreadInfo
  BY DEF IInv, TypeOK
<1>1. ASSUME NEW j \in Job, NEW k \in Job \cup {NoJob}, StartThread(k, j)
      PROVE  TypeOK'
  <2>1. PICK t \in Thread \ live :
          /\ hlist_add_after(t, cur)
          /\ live' = live \cup {t}
          /\ pc' = [pc EXCEPT ![t] = "run"]
          /\ calls' = [calls EXCEPT ![t] = <<j>>]
          /\ cur' = t
    BY <1>1 DEF StartThread
  <2>2. next' \in [ThreadInfo -> ThreadInfo] /\ pprev' \in [ThreadInfo -> ThreadInfo]
    BY <1>0, <2>1 DEF TypeOK, PcType, hlist_add_after
  <2>3. calls' \in [ThreadInfo -> Seq(Job)]
    BY <1>0, <2>1 DEF TypeOK, PcType
  <2>4. fuel' \in [Job -> Nat]
    <3>1. Launches(k, j)
      BY <1>1 DEF StartThread
    <3> QED
      BY <1>0, <3>1, SpendType DEF TypeOK, PcType, Launches
  <2>5. status' \in [Job -> {"todo", "running", "done"}]
    BY <1>0, <1>1 DEF TypeOK, PcType, StartThread
  <2>6. UNCHANGED <<lockVars, touched, postVars, rtcVars>>
    BY <1>1 DEF StartThread
  <2> QED
    BY <1>0, <2>1, <2>2, <2>3, <2>4, <2>5, <2>6 DEF TypeOK, PcType
<1>2. ASSUME NEW j \in Job, NEW k \in Job \cup {NoJob}, RunInPlace(k, j)
      PROVE  TypeOK'
  <2>1. fuel' \in [Job -> Nat]
    <3>1. Launches(k, j)
      BY <1>2 DEF RunInPlace
    <3> QED
      BY <1>0, <3>1, SpendType DEF TypeOK, PcType, Launches
  <2>2. calls' \in [ThreadInfo -> Seq(Job)]
    <3>1. calls \in [ThreadInfo -> Seq(Job)]
      BY <1>0 DEF TypeOK, PcType
    <3>2. calls' = [calls EXCEPT ![cur] = Append(@, j)]
      BY <1>2 DEF RunInPlace
    <3> QED
      BY <1>0, <3>1, <3>2
  <2>3. status' \in [Job -> {"todo", "running", "done"}]
    BY <1>0, <1>2 DEF TypeOK, PcType, RunInPlace
  <2>4. UNCHANGED <<cur, ringVars, pc, lockVars, touched, postVars, rtcVars>>
    BY <1>2 DEF RunInPlace
  <2> QED
    BY <1>0, <2>1, <2>2, <2>3, <2>4 DEF TypeOK, PcType
<1>3. ASSUME NEW j \in Job, Returns(j)
      PROVE  /\ calls' \in [ThreadInfo -> Seq(Job)]
             /\ status' \in [Job -> {"todo", "running", "done"}]
  BY <1>0, <1>3 DEF TypeOK, PcType, Returns, Runs
<1>4. ASSUME NEW j \in Job, ReturnInPlace(j)
      PROVE  TypeOK'
  BY <1>0, <1>3, <1>4 DEF TypeOK, PcType, ReturnInPlace
<1>5. ASSUME NEW j \in Job, EndThread(j)
      PROVE  TypeOK'
  <2>1. next' \in [ThreadInfo -> ThreadInfo] /\ pprev' \in [ThreadInfo -> ThreadInfo]
    BY <1>0, <1>5 DEF TypeOK, PcType, EndThread, hlist_del
  <2> QED
    BY <1>0, <1>3, <1>5, <2>1 DEF TypeOK, PcType, EndThread
<1>6. ASSUME NEW j \in Job, Yield(j)
      PROVE  TypeOK'
  BY <1>0, <1>6 DEF TypeOK, PcType, Yield, Spend
<1>7. ASSUME NEW m \in Mutex, TryLock(m)
      PROVE  /\ cur' \in ThreadInfo
             /\ pc' \in PcType
             /\ want' \in [ThreadInfo -> Nat]
             /\ isLocked' \in [Mutex -> BOOLEAN]
             /\ held' \in [ThreadInfo -> SUBSET Mutex]
  <2>1. m \in Nat
    BY DEF Mutex
  <2>2. pc \in PcType /\ want \in [ThreadInfo -> Nat] /\ cur \in ThreadInfo
    BY <1>0 DEF TypeOK, PcType
  <2>3. isLocked \in [Mutex -> BOOLEAN] /\ held \in [ThreadInfo -> SUBSET Mutex]
    BY <1>0 DEF TypeOK, PcType
  <2>4. CASE isLocked[m]
    <3>1. /\ pc' = [pc EXCEPT ![cur] = "mutex"]
          /\ want' = [want EXCEPT ![cur] = m]
          /\ cur' = next[cur]
          /\ isLocked' = isLocked /\ held' = held
      BY <1>7, <2>4 DEF TryLock
    <3> QED
      BY <1>0, <2>1, <2>2, <2>3, <3>1 DEF PcType
  <2>5. CASE ~isLocked[m]
    <3>1. /\ pc' = [pc EXCEPT ![cur] = "run"]
          /\ isLocked' = [isLocked EXCEPT ![m] = TRUE]
          /\ held' = [held EXCEPT ![cur] = @ \cup {m}]
          /\ cur' = cur /\ want' = want
      BY <1>7, <2>5 DEF TryLock
    <3>2. isLocked' \in [Mutex -> BOOLEAN]
      BY <2>3, <3>1
    <3>3. held' \in [ThreadInfo -> SUBSET Mutex]
      BY <2>2, <2>3, <3>1
    <3> QED
      BY <2>2, <3>1, <3>2, <3>3 DEF PcType
  <2> QED
    BY <2>4, <2>5
<1>8. ASSUME NEW j \in Job, NEW m \in Mutex, mutex_lock(j, m)
      PROVE  TypeOK'
  <2>1. fuel' \in [Job -> Nat]
    BY <1>0, <1>8 DEF TypeOK, PcType, mutex_lock, Spend
  <2>2. TryLock(m) /\ UNCHANGED <<ringVars, jobVars, touched, postVars, rtcVars>>
    BY <1>8 DEF mutex_lock
  <2> QED
    BY <1>0, <1>7, <2>1, <2>2 DEF TypeOK, PcType
<1>9. ASSUME NEW j \in Job, NEW m \in Mutex, mutex_unlock(j, m)
      PROVE  TypeOK'
  BY <1>0, <1>9 DEF TypeOK, PcType, mutex_unlock
<1>10. ASSUME NEW j \in Job, Touch(j) \/ TouchSpin(j)
       PROVE  TypeOK'
  <2>1. fuel' \in [Job -> Nat]
    BY <1>0, <1>10, SpendType DEF TypeOK, PcType, Touch, TouchSpin
  <2>2. /\ WaitThenTouch(j)
        /\ UNCHANGED <<ringVars, lockVars, jobVars, postVars, rtcVars>>
    BY <1>10 DEF Touch, TouchSpin
  <2>3. /\ cur' \in ThreadInfo /\ touched' \subseteq Job
        /\ pc' \in PcType
    BY <1>0, <2>2 DEF TypeOK, PcType, WaitThenTouch
  <2> QED
    BY <1>0, <2>1, <2>2, <2>3 DEF TypeOK, PcType
<1>11. CASE mutex_spin
  <2>1. want[cur] \in Mutex
    BY <1>0, <1>11 DEF mutex_spin, IInv, LockInv
  <2>2. /\ TryLock(want[cur])
        /\ UNCHANGED <<ringVars, jobVars, fuel, touched, postVars, rtcVars>>
    BY <1>11 DEF mutex_spin
  <2> QED
    BY <1>0, <1>7, <2>1, <2>2 DEF TypeOK, PcType
<1>12. CASE Proceed
  <2>1. phase' \in Phases
    <3>1. CASE threads_during_optionroms
      BY <1>12, <3>1 DEF Proceed, NextPhase, Phases
    <3>2. CASE ~threads_during_optionroms
      BY <1>12, <3>2 DEF Proceed, NextPhase, Phases
    <3> QED
      BY <3>1, <3>2
  <2>2. /\ roms' = 0
        /\ UNCHANGED <<cur, ringVars, pc, lockVars, jobVars, fuel, touched,
                       ThreadControl, rtcVars>>
    BY <1>12 DEF Proceed
  <2> QED
    BY <1>0, <2>1, <2>2 DEF TypeOK, PcType
<1>13. CASE wait_threads
  BY <1>0, <1>13 DEF TypeOK, PcType, wait_threads, Phases
<1>14. CASE CallRom
  <2>1. roms' \in Nat /\ RTCusers' \in Nat /\ CanPreempt' \in BOOLEAN
    <3>1. roms \in Nat /\ RTCusers \in Nat /\ CanPreempt \in BOOLEAN
      BY <1>0 DEF TypeOK, PcType
    <3>2. roms' = roms + 1 /\ RTCusers' \in {RTCusers, RTCusers + 1}
      BY <1>14 DEF CallRom
    <3>3. CanPreempt' = TRUE \/ CanPreempt' = CanPreempt
      BY <1>14 DEF CallRom
    <3>4. roms' \in Nat /\ RTCusers' \in Nat
      BY <3>1, <3>2
    <3>5. CanPreempt' \in BOOLEAN
      BY <3>1, <3>3, Zenon
    <3> QED
      BY <3>4, <3>5
  <2>2. pc' \in PcType
    BY <1>0, <1>14 DEF TypeOK, PcType, CallRom
  <2>3. UNCHANGED <<cur, ringVars, lockVars, jobVars, fuel, touched, phase,
                    ThreadControl>>
    BY <1>14 DEF CallRom
  <2> QED
    BY <1>0, <2>1, <2>2, <2>3 DEF TypeOK, PcType
<1>15. CASE RtcIrq
  BY <1>0, <1>15 DEF TypeOK, PcType, RtcIrq
<1>16. CASE RomReturn
  <2>1. RTCusers' \in Nat /\ CanPreempt' \in BOOLEAN
    <3>1. RTCusers \in Nat /\ CanPreempt \in BOOLEAN
      BY <1>0 DEF TypeOK, PcType
    <3>2. /\ pc[Main] = "rom" => (CanPreempt <=> threads_during_optionroms)
          /\ CanPreempt => RTCusers = 1
      BY DEF IInv, PreemptInv, PreemptionBalanced, threads_during_optionroms
    <3>3. (RTCusers = 1 /\ RTCusers' = RTCusers - 1) \/ RTCusers' = RTCusers
      BY <1>16, <3>2 DEF RomReturn
    <3>4. CanPreempt' = FALSE \/ CanPreempt' = CanPreempt
      BY <1>16 DEF RomReturn
    <3>5. RTCusers' \in Nat
      BY <3>1, <3>3
    <3>6. CanPreempt' \in BOOLEAN
      BY <3>1, <3>4, Zenon
    <3> QED
      BY <3>5, <3>6
  <2>2. pc' \in PcType
    BY <1>0, <1>16 DEF TypeOK, PcType, RomReturn
  <2>3. cur' \in ThreadInfo
    BY <1>0, <1>16 DEF RomReturn
  <2>4. UNCHANGED <<ringVars, lockVars, jobVars, fuel, touched, postVars>>
    BY <1>16 DEF RomReturn
  <2> QED
    BY <1>0, <2>1, <2>2, <2>3, <2>4 DEF TypeOK, PcType
<1>17. CASE Booted
  BY <1>0, <1>17 DEF TypeOK, PcType, Booted, vars
<1> QED
  BY <1>1, <1>2, <1>4, <1>5, <1>6, <1>8, <1>9, <1>10, <1>11, <1>12, <1>13,
     <1>14, <1>15, <1>16, <1>17 DEF Next, JobStep

\* Only StartThread and EndThread relink the ring; every other action keeps
\* it and goes on where it is or at the ring's next context.
LEMMA RingStep ==
  ASSUME IInv, Next
  PROVE  RingInv'
<1> USE DEF IInv, RingInv
<1>1. ASSUME NEW j \in Job, NEW k \in Job \cup {NoJob}, StartThread(k, j)
      PROVE  RingInv'
  <2>1. PICK t \in Thread \ live : /\ hlist_add_after(t, cur)
                                   /\ live' = live \cup {t} /\ cur' = t
    BY <1>1 DEF StartThread
  <2>2. RingLinked' /\ RingIsOneCycle'
    BY <2>1, RingAdd DEF OnLiveStack
  <2> QED
    BY <2>1, <2>2 DEF OnLiveStack, Ring
<1>2. ASSUME NEW j \in Job, EndThread(j)
      PROVE  RingInv'
  <2>1. cur \in live /\ hlist_del(cur) /\ live' = live \ {cur} /\ cur' = next[cur]
    BY <1>2 DEF EndThread, OnLiveStack, Ring, switch_next
  <2>2. RingLinked' /\ RingIsOneCycle' /\ next[cur] \in Ring'
    BY <2>1, RingDel
  <2> QED
    BY <2>1, <2>2 DEF OnLiveStack
<1>3. ASSUME UNCHANGED ringVars, cur' \in {cur, next[cur]}
      PROVE  RingInv'
  BY <1>3 DEF ringVars, Ring, RingLinked, RingIsOneCycle, OnLiveStack
<1>4. CASE \E j \in Job : \E k \in Job \cup {NoJob} : RunInPlace(k, j)
  BY <1>4, <1>3 DEF RunInPlace, ringVars
<1>5. CASE \E j \in Job : ReturnInPlace(j) \/ Yield(j) \/ Touch(j) \/ TouchSpin(j)
  BY <1>5, <1>3 DEF ReturnInPlace, Yield, Touch, TouchSpin, WaitThenTouch,
                    switch_next, ringVars
<1>6. CASE \E j \in Job, m \in Mutex : mutex_lock(j, m) \/ mutex_unlock(j, m)
  BY <1>6, <1>3 DEF mutex_lock, mutex_unlock, TryLock, switch_next, ringVars
<1>7. CASE mutex_spin
  BY <1>7, <1>3 DEF mutex_spin, TryLock, switch_next, ringVars
<1>8. CASE Proceed \/ wait_threads \/ CallRom \/ RtcIrq \/ RomReturn \/ Booted
  BY <1>8, <1>3 DEF Proceed, wait_threads, CallRom, RtcIrq, RomReturn, Booted,
                    vars, switch_next, ringVars
<1> QED
  BY <1>1, <1>2, <1>4, <1>5, <1>6, <1>7, <1>8 DEF Next, JobStep

\* mutex_lock() sets isLocked for the context that takes the mutex and
\* mutex_unlock() clears it; no other action touches a mutex.
LEMMA LockStep ==
  ASSUME IInv, Next
  PROVE  LockInv'
<1>0. /\ cur \in ThreadInfo
      /\ pc \in PcType
      /\ want \in [ThreadInfo -> Nat]
      /\ isLocked \in [Mutex -> BOOLEAN]
      /\ held \in [ThreadInfo -> SUBSET Mutex]
  BY DEF IInv, TypeOK, PcType
<1>1. /\ \A m \in Mutex : isLocked[m] <=> \E t \in ThreadInfo : m \in held[t]
      /\ \A t \in ThreadInfo : pc[t] = "mutex" => want[t] \in Mutex
      /\ \A t, u \in ThreadInfo : t # u => held[t] \cap held[u] = {}
  BY DEF IInv, LockInv, MutualExclusion
<1>2. ASSUME UNCHANGED lockVars,
             \A t \in ThreadInfo : pc'[t] = "mutex" => pc[t] = "mutex"
      PROVE  LockInv'
  BY <1>1, <1>2 DEF LockInv, MutualExclusion, lockVars
<1>3. ASSUME NEW m \in Mutex, TryLock(m)
      PROVE  LockInv'
  <2>1. CASE isLocked[m]
    <3>1. /\ pc' = [pc EXCEPT ![cur] = "mutex"]
          /\ want' = [want EXCEPT ![cur] = m]
          /\ isLocked' = isLocked /\ held' = held
      BY <1>3, <2>1 DEF TryLock
    <3>2. \A t \in ThreadInfo : pc'[t] = "mutex" => want'[t] \in Mutex
      BY <1>0, <1>1, <3>1 DEF PcType
    <3> QED
      BY <1>1, <3>1, <3>2 DEF LockInv, MutualExclusion
  <2>2. CASE ~isLocked[m]
    <3>1. /\ pc' = [pc EXCEPT ![cur] = "run"]
          /\ isLocked' = [isLocked EXCEPT ![m] = TRUE]
          /\ held' = [held EXCEPT ![cur] = @ \cup {m}]
          /\ want' = want
      BY <1>3, <2>2 DEF TryLock
    <3>2. \A t \in ThreadInfo : m \notin held[t]
      BY <1>1, <2>2
    <3>3. \A t \in ThreadInfo : pc'[t] = "mutex" => want'[t] \in Mutex
      BY <1>0, <1>1, <3>1 DEF PcType
    <3>4. \A t, u \in ThreadInfo : t # u => held'[t] \cap held'[u] = {}
      BY <1>0, <1>1, <3>1, <3>2
    <3>5. ASSUME NEW n \in Mutex
          PROVE  isLocked'[n] <=> \E t \in ThreadInfo : n \in held'[t]
      <4>1. CASE n = m
        BY <1>0, <3>1, <4>1
      <4>2. CASE n # m
        <5>1. isLocked'[n] = isLocked[n]
          BY <1>0, <3>1, <4>2
        <5>2. \A t \in ThreadInfo : n \in held'[t] <=> n \in held[t]
          BY <1>0, <3>1, <4>2
        <5> QED
          BY <1>1, <5>1, <5>2
      <4> QED
        BY <4>1, <4>2
    <3> QED
      BY <3>3, <3>4, <3>5 DEF LockInv, MutualExclusion
  <2> QED
    BY <2>1, <2>2
<1>4. ASSUME NEW j \in Job, NEW m \in Mutex, mutex_unlock(j, m)
      PROVE  LockInv'
  <2>1. /\ m \in held[cur]
        /\ isLocked' = [isLocked EXCEPT ![m] = FALSE]
        /\ held' = [held EXCEPT ![cur] = @ \ {m}]
        /\ want' = want /\ pc' = pc
    BY <1>4 DEF mutex_unlock
  <2>2. \A t, u \in ThreadInfo : t # u => held'[t] \cap held'[u] = {}
    BY <1>0, <1>1, <2>1
  <2>3. ASSUME NEW n \in Mutex
        PROVE  isLocked'[n] <=> \E t \in ThreadInfo : n \in held'[t]
    <3>1. CASE n = m
      <4>1. ~isLocked'[n]
        BY <1>0, <2>1, <3>1
      <4>2. \A t \in ThreadInfo : n \notin held'[t]
        BY <1>0, <1>1, <2>1, <3>1
      <4> QED
        BY <4>1, <4>2
    <3>2. CASE n # m
      <4>1. isLocked'[n] = isLocked[n]
        BY <1>0, <2>1, <3>2
      <4>2. \A t \in ThreadInfo : n \in held'[t] <=> n \in held[t]
        BY <1>0, <2>1, <3>2
      <4> QED
        BY <1>1, <4>1, <4>2
    <3> QED
      BY <3>1, <3>2
  <2> QED
    BY <1>1, <2>1, <2>2, <2>3 DEF LockInv, MutualExclusion
<1>5. CASE \E j \in Job : \E k \in Job \cup {NoJob} : StartThread(k, j) \/ RunInPlace(k, j)
  BY <1>0, <1>2, <1>5 DEF StartThread, RunInPlace, PcType
<1>6. CASE \E j \in Job : ReturnInPlace(j) \/ EndThread(j) \/ Yield(j)
  BY <1>0, <1>2, <1>6 DEF ReturnInPlace, EndThread, Yield, PcType
<1>7. CASE \E j \in Job : Touch(j) \/ TouchSpin(j)
  BY <1>0, <1>2, <1>7 DEF Touch, TouchSpin, WaitThenTouch, PcType
<1>8. CASE \E j \in Job, m \in Mutex : mutex_lock(j, m)
  BY <1>3, <1>8 DEF mutex_lock
<1>9. CASE mutex_spin
  BY <1>0, <1>1, <1>3, <1>9 DEF mutex_spin
<1>10. CASE Proceed \/ RtcIrq \/ Booted
  BY <1>2, <1>10 DEF Proceed, RtcIrq, Booted, vars, lockVars
<1>11. CASE wait_threads \/ CallRom \/ RomReturn
  BY <1>0, <1>2, <1>11 DEF wait_threads, CallRom, RomReturn, PcType
<1> QED
  BY <1>4, <1>5, <1>6, <1>7, <1>8, <1>9, <1>10, <1>11 DEF Next, JobStep

\* A job is pushed on the stack of one context when it is started and popped
\* when it returns; a thread's stack is freed with its last job.
LEMMA CallsStep ==
  ASSUME IInv, Next
  PROVE  CallsInv'
<1> USE DEF ThreadInfo
<1>0. /\ cur \in ThreadInfo /\ cur \in Ring /\ live \subseteq Thread
      /\ status \in [Job -> {"todo", "running", "done"}]
      /\ calls \in [ThreadInfo -> Seq(Job)]
      /\ Main \notin Thread
  BY ThreadsAssumption DEF IInv, TypeOK, RingInv, OnLiveStack
<1>1. /\ \A c \in ThreadInfo : c \notin Ring => calls[c] = <<>>
      /\ \A c \in ThreadInfo : \A i \in 1 .. Len(calls[c]) :
           status[calls[c][i]] = "running"
      /\ \A j \in Job : status[j] = "running" =>
           \E c \in ThreadInfo : \E i \in 1 .. Len(calls[c]) : calls[c][i] = j
      /\ \A c, d \in ThreadInfo :
           \A i \in 1 .. Len(calls[c]), k \in 1 .. Len(calls[d]) :
             calls[c][i] = calls[d][k] => c = d /\ i = k
  BY DEF IInv, CallsInv
<1>2. ASSUME UNCHANGED <<jobVars, live>>
      PROVE  CallsInv'
  BY <1>1, <1>2 DEF CallsInv, jobVars, Ring
<1>3. ASSUME NEW j \in Job, status[j] # "running", NEW c \in Ring',
             live \subseteq live',
             status' = [status EXCEPT ![j] = "running"],
             calls' = [calls EXCEPT ![c] = Append(calls[c], j)],
             c \in ThreadInfo
      PROVE  CallsInv'
  <2>1. /\ \A d \in ThreadInfo : d # c => calls'[d] = calls[d]
        /\ Len(calls'[c]) = Len(calls[c]) + 1
        /\ calls'[c][Len(calls[c]) + 1] = j
        /\ \A i \in 1 .. Len(calls[c]) : calls'[c][i] = calls[c][i]
        /\ \A d \in ThreadInfo : Len(calls[d]) \in Nat
    BY <1>0, <1>3
  <2>2. \A d \in ThreadInfo : \A i \in 1 .. Len(calls[d]) :
          calls[d][i] \in Job /\ calls[d][i] # j
    BY <1>0, <1>1, <1>3
  <2>3. \A d \in ThreadInfo : \A i \in 1 .. Len(calls'[d]) :
          \/ i \in 1 .. Len(calls[d]) /\ calls'[d][i] = calls[d][i]
          \/ d = c /\ i = Len(calls[c]) + 1 /\ calls'[d][i] = j
    BY <2>1
  <2>4. ASSUME NEW d \in ThreadInfo, d \notin Ring'
        PROVE  calls'[d] = <<>>
    BY <1>1, <1>3, <2>1, <2>4 DEF Ring
  <2>5. ASSUME NEW d \in ThreadInfo, NEW i \in 1 .. Len(calls'[d])
        PROVE  status'[calls'[d][i]] = "running"
    BY <1>0, <1>1, <1>3, <2>2, <2>3
  <2>6. ASSUME NEW k \in Job, status'[k] = "running"
        PROVE  \E d \in ThreadInfo : \E i \in 1 .. Len(calls'[d]) : calls'[d][i] = k
    <3>1. CASE k = j
      BY <1>3, <2>1, <3>1
    <3>2. CASE k # j
      <4>0. PICK d \in ThreadInfo : \E i \in 1 .. Len(calls[d]) : calls[d][i] = k
        BY <1>0, <1>1, <1>3, <2>6, <3>2
      <4>1. PICK i \in 1 .. Len(calls[d]) : calls[d][i] = k
        BY <4>0
      <4>2. i \in 1 .. Len(calls'[d]) /\ calls'[d][i] = k
        BY <2>1, <4>1
      <4> QED
        BY <4>2
    <3> QED
      BY <3>1, <3>2
  <2>7. ASSUME NEW d \in ThreadInfo, NEW e \in ThreadInfo,
               NEW i \in 1 .. Len(calls'[d]), NEW k \in 1 .. Len(calls'[e]),
               calls'[d][i] = calls'[e][k]
        PROVE  d = e /\ i = k
    BY <1>1, <2>2, <2>3, <2>7
  <2> QED
    BY <2>4, <2>5, <2>6, <2>7 DEF CallsInv
<1>4. ASSUME NEW j \in Job, Returns(j), live' \subseteq live,
             live \subseteq live' \cup {cur},
             cur \notin Ring' => Len(calls[cur]) = 1
      PROVE  CallsInv'
  <2> DEFINE n == Len(calls[cur])
  <2>0. /\ calls[cur] # <<>> /\ calls[cur][n] = j
        /\ status' = [status EXCEPT ![j] = "done"]
        /\ calls' = [calls EXCEPT ![cur] = SubSeq(@, 1, Len(@) - 1)]
    BY <1>4 DEF Returns, Runs
  <2>1. /\ \A d \in ThreadInfo : d # cur => calls'[d] = calls[d]
        /\ n \in 1 .. n /\ n \in Nat
        /\ Len(calls'[cur]) = n - 1
        /\ \A i \in 1 .. n - 1 : calls'[cur][i] = calls[cur][i]
        /\ calls'[cur] \in Seq(Job)
    BY <1>0, <2>0
  <2>2. \A d \in ThreadInfo : \A i \in 1 .. Len(calls'[d]) :
          /\ i \in 1 .. Len(calls[d]) /\ calls'[d][i] = calls[d][i]
          /\ ~(d = cur /\ i = n)
    BY <2>1, SMTT(40)
  <2>3. ASSUME NEW d \in ThreadInfo, d \notin Ring'
        PROVE  calls'[d] = <<>>
    <3>1. CASE d = cur
      <4>1. Len(calls'[cur]) = 0 /\ calls'[cur] \in Seq(Job)
        BY <1>4, <2>1, <2>3, <3>1
      <4> QED
        BY <3>1, <4>1
    <3>2. CASE d # cur
      BY <1>1, <1>4, <2>1, <2>3, <3>2 DEF Ring
    <3> QED
      BY <3>1, <3>2
  <2>4. ASSUME NEW d \in ThreadInfo, NEW i \in 1 .. Len(calls'[d])
        PROVE  status'[calls'[d][i]] = "running"
    <3>0. i \in 1 .. Len(calls[d]) /\ ~(d = cur /\ i = n)
      BY <2>2
    <3>1. calls[d][i] # j /\ status[calls[d][i]] = "running" /\ calls[d][i] \in Job
      <4>1. status[calls[d][i]] = "running"
        BY <1>1, <3>0
      <4>2. calls[d][i] # j
        BY <1>0, <1>1, <2>0, <2>1, <3>0
      <4>3. calls[d] \in Seq(Job)
        BY <1>0
      <4> QED
        BY <3>0, <4>1, <4>2, <4>3
    <3> QED
      BY <1>0, <2>0, <2>2, <3>1
  <2>5. ASSUME NEW k \in Job, status'[k] = "running"
        PROVE  \E d \in ThreadInfo : \E i \in 1 .. Len(calls'[d]) : calls'[d][i] = k
    <3>1. k # j /\ status[k] = "running"
      BY <1>0, <2>0, <2>5
    <3>0. PICK d \in ThreadInfo : \E i \in 1 .. Len(calls[d]) : calls[d][i] = k
      BY <1>1, <3>1
    <3>2. PICK i \in 1 .. Len(calls[d]) : calls[d][i] = k
      BY <3>0
    <3>3. i \in 1 .. Len(calls'[d]) /\ calls'[d][i] = k
      BY <2>0, <2>1, <3>1, <3>2
    <3> QED
      BY <3>3
  <2>6. ASSUME NEW d \in ThreadInfo, NEW e \in ThreadInfo,
               NEW i \in 1 .. Len(calls'[d]), NEW k \in 1 .. Len(calls'[e]),
               calls'[d][i] = calls'[e][k]
        PROVE  d = e /\ i = k
    BY <1>1, <2>2, <2>6
  <2> QED
    BY <2>3, <2>4, <2>5, <2>6 DEF CallsInv
<1>5. ASSUME NEW j \in Job, NEW k \in Job \cup {NoJob}, StartThread(k, j)
      PROVE  CallsInv'
  <2>1. PICK t \in Thread \ live :
          /\ live' = live \cup {t}
          /\ calls' = [calls EXCEPT ![t] = <<j>>]
    BY <1>5 DEF StartThread
  <2>2. /\ status[j] # "running"
        /\ status' = [status EXCEPT ![j] = "running"]
    BY <1>5 DEF StartThread, Launches
  <2>3. calls[t] = <<>>
    BY <1>0, <1>1 DEF Ring
  <2>4. calls' = [calls EXCEPT ![t] = Append(calls[t], j)]
    BY <2>1, <2>3
  <2> QED
    BY <1>3, <2>1, <2>2, <2>4 DEF Ring
<1>6. ASSUME NEW j \in Job, NEW k \in Job \cup {NoJob}, RunInPlace(k, j)
      PROVE  CallsInv'
  <2>1. /\ status[j] # "running"
        /\ status' = [status EXCEPT ![j] = "running"]
        /\ calls' = [calls EXCEPT ![cur] = Append(calls[cur], j)]
        /\ live' = live
    BY <1>6 DEF RunInPlace, Launches, ringVars
  <2> QED
    BY <1>0, <1>3, <2>1 DEF Ring
<1>7. ASSUME NEW j \in Job, ReturnInPlace(j) \/ EndThread(j)
      PROVE  CallsInv'
  BY <1>0, <1>4, <1>7 DEF ReturnInPlace, EndThread, ringVars, Ring
<1>8. CASE \E j \in Job : Yield(j) \/ Touch(j) \/ TouchSpin(j)
  BY <1>2, <1>8 DEF Yield, Touch, TouchSpin, ringVars
<1>9. CASE \E j \in Job, m \in Mutex : mutex_lock(j, m) \/ mutex_unlock(j, m)
  BY <1>2, <1>9 DEF mutex_lock, mutex_unlock, ringVars
<1>10. CASE mutex_spin \/ Proceed \/ wait_threads \/ CallRom \/ RtcIrq \/ RomReturn
  BY <1>2, <1>10 DEF mutex_spin, Proceed, wait_threads, CallRom, RtcIrq,
                     RomReturn, ringVars
<1>11. CASE Booted
  BY <1>2, <1>11 DEF Booted, vars, jobVars
<1> QED
  BY <1>5, <1>6, <1>7, <1>8, <1>9, <1>10, <1>11 DEF Next, JobStep

\* After the boot began nothing runs that could start a job: only MainThread
\* is left, and it is in maininit()'s own code.
LEMMA NoLaunchAfterBoot ==
  ASSUME IInv, NEW j \in Job, NEW k \in Job \cup {NoJob}, Launches(k, j)
  PROVE  /\ phase \notin Past
         /\ cur = Main => phase \notin {"join", "lastjoin"} \cup Past
<1>1. ASSUME cur = Main
      PROVE  phase \notin {"join", "lastjoin"} \cup Past
  BY <1>1 DEF IInv, PhaseInv, Launches, Runs, Past
<1>2. ASSUME phase \in Past
      PROVE  cur = Main
  BY <1>2 DEF IInv, PhaseInv, RingInv, OnLiveStack, Ring
<1> QED
  BY <1>1, <1>2

\* maininit() passes wait_threads() only when no thread is left.
LEMMA PhaseStep ==
  ASSUME IInv, Next
  PROVE  PhaseInv'
<1>0. /\ phase \in {"join", "lastjoin"} \cup Past => calls[Main] = <<>>
      /\ phase \in Past => live = {}
      /\ calls \in [ThreadInfo -> Seq(Job)]
      /\ Main \in ThreadInfo /\ cur \in ThreadInfo /\ cur \in Ring
      /\ Main \notin Thread
  BY ThreadsAssumption DEF IInv, PhaseInv, TypeOK, ThreadInfo, RingInv, OnLiveStack
<1>1. ASSUME phase' = phase, calls'[Main] = calls[Main], live' \subseteq live
      PROVE  PhaseInv'
  BY <1>0, <1>1 DEF PhaseInv
<1>2. ASSUME NEW j \in Job, NEW k \in Job \cup {NoJob}, StartThread(k, j)
      PROVE  PhaseInv'
  <2>1. phase' = phase /\ phase \notin Past
    BY <1>2, NoLaunchAfterBoot DEF StartThread, postVars
  <2>2. calls'[Main] = calls[Main]
    BY <1>0, <1>2 DEF StartThread
  <2> QED
    BY <1>0, <2>1, <2>2 DEF PhaseInv
<1>3. ASSUME NEW j \in Job, NEW k \in Job \cup {NoJob}, RunInPlace(k, j)
      PROVE  PhaseInv'
  <2>1. /\ phase' = phase /\ phase \notin Past
        /\ cur = Main => phase \notin {"join", "lastjoin"} \cup Past
    BY <1>3, NoLaunchAfterBoot DEF RunInPlace, postVars
  <2>2. cur # Main => calls'[Main] = calls[Main]
    BY <1>0, <1>3 DEF RunInPlace
  <2> QED
    BY <1>0, <2>1, <2>2 DEF PhaseInv
<1>4. ASSUME NEW j \in Job, ReturnInPlace(j) \/ EndThread(j)
      PROVE  PhaseInv'
  <2>1. /\ phase' = phase /\ live' \subseteq live
        /\ cur = Main => calls[Main] # <<>>
        /\ cur # Main => calls'[Main] = calls[Main]
    BY <1>0, <1>4 DEF ReturnInPlace, EndThread, Returns, Runs, ringVars, postVars
  <2> QED
    BY <1>0, <2>1 DEF PhaseInv, Ring
<1>5. CASE \E j \in Job : Yield(j) \/ Touch(j) \/ TouchSpin(j)
  BY <1>1, <1>5 DEF Yield, Touch, TouchSpin, ringVars, jobVars, postVars
<1>6. CASE \E j \in Job, m \in Mutex : mutex_lock(j, m) \/ mutex_unlock(j, m)
  BY <1>1, <1>6 DEF mutex_lock, mutex_unlock, ringVars, jobVars, postVars
<1>7. CASE mutex_spin \/ CallRom \/ RtcIrq \/ RomReturn
  BY <1>1, <1>7 DEF mutex_spin, CallRom, RtcIrq, RomReturn, ringVars, jobVars,
                    postVars
<1>8. CASE Proceed
  <2>1. /\ calls[Main] = <<>> /\ calls' = calls /\ live' = live
        /\ phase' \in Past => phase \in Past
    <3>1. CASE threads_during_optionroms
      BY <1>8, <3>1 DEF Proceed, InMaininit, NoJobOn, NextPhase, jobVars, ringVars, Past
    <3>2. CASE ~threads_during_optionroms
      BY <1>8, <3>2 DEF Proceed, InMaininit, NoJobOn, NextPhase, jobVars, ringVars, Past
    <3> QED
      BY <3>1, <3>2
  <2> QED
    BY <1>0, <2>1 DEF PhaseInv
<1>9. CASE wait_threads
  <2>1. calls[Main] = <<>> /\ calls' = calls /\ live' = live
    BY <1>9 DEF wait_threads, NoJobOn, jobVars, ringVars
  <2>2. CASE have_threads
    BY <1>0, <1>9, <2>1, <2>2 DEF wait_threads, PhaseInv
  <2>3. CASE ~have_threads
    <3>1. live = {}
      BY <2>3, AloneInRing DEF IInv, RingInv
    <3> QED
      BY <2>1, <3>1 DEF PhaseInv
  <2> QED
    BY <2>2, <2>3
<1>10. CASE Booted
  BY <1>1, <1>10 DEF Booted, vars
<1> QED
  BY <1>2, <1>3, <1>4, <1>5, <1>6, <1>7, <1>8, <1>9, <1>10 DEF Next, JobStep

\* Only CallRom and RomReturn change CanPreempt and RTCusers, and only RtcIrq
\* leaves an option rom for a thread.
LEMMA PreemptStep ==
  ASSUME IInv, Next
  PROVE  PreemptInv'
<1>0. /\ cur \in ThreadInfo /\ Main \in ThreadInfo /\ Main \notin Thread
      /\ pc \in PcType
  BY ThreadsAssumption DEF IInv, TypeOK, ThreadInfo, PcType
<1>1. /\ CanPreempt => pc[Main] = "rom"
      /\ RTCusers = IF CanPreempt THEN 1 ELSE 0
      /\ pc[Main] = "rom" => (CanPreempt <=> ThreadControl = 2)
      /\ pc[Main] = "rom" /\ cur # Main => CanPreempt
  BY DEF IInv, PreemptInv, PreemptionBalanced
<1>2. ASSUME UNCHANGED <<rtcVars, ThreadControl>>,
             pc'[Main] = "rom" <=> pc[Main] = "rom",
             pc[Main] = "rom" /\ cur' # Main => cur # Main
      PROVE  PreemptInv'
  BY <1>1, <1>2 DEF PreemptInv, PreemptionBalanced, rtcVars
<1>3. ASSUME NEW j \in Job, NEW k \in Job \cup {NoJob},
             StartThread(k, j) \/ RunInPlace(k, j)
      PROVE  PreemptInv'
  <2>1. pc[cur] = "run" /\ UNCHANGED <<rtcVars, ThreadControl>>
    BY <1>3 DEF StartThread, RunInPlace, Launches, postVars
  <2>2. pc'[Main] = pc[Main]
    BY <1>0, <1>3 DEF StartThread, RunInPlace, PcType
  <2> QED
    BY <1>2, <2>1, <2>2
<1>4. ASSUME NEW j \in Job, ReturnInPlace(j) \/ EndThread(j) \/ Yield(j)
      PROVE  PreemptInv'
  <2>1. pc[cur] = "run" /\ UNCHANGED <<rtcVars, ThreadControl>>
    BY <1>4 DEF ReturnInPlace, EndThread, Yield, Returns, postVars
  <2>2. pc'[Main] = pc[Main]
    BY <1>0, <1>4 DEF ReturnInPlace, EndThread, Yield, PcType
  <2> QED
    BY <1>2, <2>1, <2>2
<1>5. ASSUME NEW j \in Job, Touch(j) \/ TouchSpin(j)
      PROVE  PreemptInv'
  <2>1. pc[cur] # "rom" /\ UNCHANGED <<rtcVars, ThreadControl>>
    BY <1>5 DEF Touch, TouchSpin, postVars
  <2>2. pc' = [pc EXCEPT ![cur] = "run"] \/ pc' = [pc EXCEPT ![cur] = "preempt"]
    BY <1>5 DEF Touch, TouchSpin, WaitThenTouch
  <2>3. pc'[Main] = "rom" <=> pc[Main] = "rom"
    BY <1>0, <2>1, <2>2 DEF PcType
  <2> QED
    BY <1>2, <2>1, <2>3
<1>6. ASSUME NEW m, pc[cur] # "rom", TryLock(m), UNCHANGED <<rtcVars, ThreadControl>>
      PROVE  PreemptInv'
  <2>1. pc' = [pc EXCEPT ![cur] = "run"] \/ pc' = [pc EXCEPT ![cur] = "mutex"]
    BY <1>6 DEF TryLock
  <2>2. pc'[Main] = "rom" <=> pc[Main] = "rom"
    BY <1>0, <1>6, <2>1 DEF PcType
  <2> QED
    BY <1>2, <1>6, <2>2
<1>7. CASE \E j \in Job, m \in Mutex : mutex_lock(j, m)
  BY <1>6, <1>7 DEF mutex_lock, postVars
<1>8. CASE mutex_spin
  BY <1>6, <1>8 DEF mutex_spin, postVars
<1>9. CASE \E j \in Job, m \in Mutex : mutex_unlock(j, m)
  BY <1>2, <1>9 DEF mutex_unlock, postVars
<1>10. CASE Proceed
  BY <1>2, <1>10 DEF Proceed
<1>11. CASE wait_threads
  <2>1. pc[Main] # "rom" /\ UNCHANGED <<rtcVars, ThreadControl>>
    BY <1>11 DEF wait_threads
  <2>2. pc'[Main] # "rom"
    BY <1>0, <1>11 DEF wait_threads, PcType
  <2> QED
    BY <1>2, <2>1, <2>2
<1>12. CASE CallRom
  <2>1. cur' = Main /\ pc'[Main] = "rom" /\ ThreadControl' = ThreadControl
    BY <1>0, <1>12 DEF CallRom, InMaininit, PcType
  <2>2. ~CanPreempt /\ RTCusers = 0
    BY <1>1, <1>12 DEF CallRom, InMaininit
  <2>3. CASE threads_during_optionroms
    <3>1. CanPreempt' = TRUE /\ RTCusers' = 1
      BY <1>12, <2>2, <2>3 DEF CallRom
    <3> QED
      BY <2>1, <2>3, <3>1 DEF PreemptInv, PreemptionBalanced,
                              threads_during_optionroms
  <2>4. CASE ~threads_during_optionroms
    <3>1. CanPreempt' = CanPreempt /\ RTCusers' = 0
      BY <1>12, <2>2, <2>4 DEF CallRom, rtcVars
    <3> QED
      BY <2>1, <2>2, <2>4, <3>1 DEF PreemptInv, PreemptionBalanced,
                                    threads_during_optionroms
  <2> QED
    BY <2>3, <2>4
<1>13. CASE RtcIrq
  <2>1. /\ UNCHANGED <<pc, rtcVars, ThreadControl>>
        /\ CanPreempt
    BY <1>13 DEF RtcIrq, postVars
  <2> QED
    BY <1>1, <2>1 DEF PreemptInv, PreemptionBalanced, rtcVars
<1>14. CASE RomReturn
  <2>1. pc[Main] = "rom" /\ pc'[Main] = "run" /\ ThreadControl' = ThreadControl
    BY <1>0, <1>14 DEF RomReturn, PcType, postVars
  <2>2. CASE threads_during_optionroms
    <3>1. RTCusers = 1
      BY <1>1, <2>1, <2>2 DEF threads_during_optionroms
    <3>2. CanPreempt' = FALSE /\ RTCusers' = 0
      BY <1>14, <2>2, <3>1 DEF RomReturn
    <3> QED
      BY <2>1, <3>2 DEF PreemptInv, PreemptionBalanced
  <2>3. CASE ~threads_during_optionroms
    <3>1. ~CanPreempt /\ RTCusers = 0
      BY <1>1, <2>1, <2>3 DEF threads_during_optionroms
    <3>2. CanPreempt' = CanPreempt /\ RTCusers' = 0
      BY <1>14, <2>3, <3>1 DEF RomReturn, rtcVars
    <3> QED
      BY <2>1, <3>1, <3>2 DEF PreemptInv, PreemptionBalanced
  <2> QED
    BY <2>2, <2>3
<1>15. CASE Booted
  BY <1>2, <1>15 DEF Booted, vars, rtcVars
<1> QED
  BY <1>3, <1>4, <1>5, <1>7, <1>8, <1>9, <1>10, <1>11, <1>12, <1>13, <1>14,
     <1>15 DEF Next, JobStep

----------------------------------------------------------------------------
(* The theorems.                                                           *)

\* The initial state satisfies the invariant.
LEMMA InitIInv == Init => IInv
<1> SUFFICES ASSUME Init PROVE IInv
  OBVIOUS
<1> USE ThreadsAssumption DEF Init, ThreadInfo
<1>1. TypeOK
  <2>1. cur \in ThreadInfo /\ next \in [ThreadInfo -> ThreadInfo]
        /\ pprev \in [ThreadInfo -> ThreadInfo] /\ live \subseteq Thread
    OBVIOUS
  <2>2. pc \in PcType
    BY DEF PcType
  <2>3. want \in [ThreadInfo -> Nat] /\ held \in [ThreadInfo -> SUBSET Mutex]
        /\ isLocked \in [Mutex -> BOOLEAN]
    OBVIOUS
  <2>4. /\ status \in [Job -> {"todo", "running", "done"}]
        /\ calls \in [ThreadInfo -> Seq(Job)]
        /\ fuel \in [Job -> Nat] /\ touched \subseteq Job
    OBVIOUS
  <2>5. phase \in Phases
    BY DEF Phases, FirstPhase
  <2>6. roms \in Nat /\ ThreadControl \in 0 .. 2 /\ CanPreempt \in BOOLEAN
        /\ RTCusers \in Nat
    OBVIOUS
  <2> QED
    BY <2>1, <2>2, <2>3, <2>4, <2>5, <2>6 DEF TypeOK, PcType
<1>2. RingInv
  BY ZenonT(40) DEF RingInv, RingLinked, RingIsOneCycle, OnLiveStack, Ring
<1>3. LockInv
  BY ZenonT(40) DEF LockInv, MutualExclusion
<1>4. CallsInv
  BY DEF CallsInv
<1>5. PhaseInv
  BY DEF PhaseInv, FirstPhase
<1>6. PreemptInv
  BY DEF PreemptInv, PreemptionBalanced
<1> QED
  BY <1>1, <1>2, <1>3, <1>4, <1>5, <1>6 DEF IInv

\* The invariant is inductive.
LEMMA NextIInv == IInv /\ [Next]_vars => IInv'
<1>1. ASSUME IInv, Next PROVE IInv'
  BY <1>1, TypeStep, RingStep, LockStep, CallsStep, PhaseStep, PreemptStep
  DEF IInv
<1>2. ASSUME IInv, UNCHANGED vars PROVE IInv'
  <2> USE <1>2 DEF vars, IInv
  <2>1. TypeOK'
    BY DEF TypeOK
  <2>2. RingInv'
    BY DEF RingInv, RingLinked, RingIsOneCycle, OnLiveStack, Ring
  <2>3. LockInv'
    BY DEF LockInv, MutualExclusion
  <2>4. CallsInv'
    BY DEF CallsInv, Ring
  <2>5. PhaseInv' /\ PreemptInv'
    BY DEF PhaseInv, PreemptInv, PreemptionBalanced
  <2> QED
    BY <2>1, <2>2, <2>3, <2>4, <2>5
<1> QED
  BY <1>1, <1>2

\* Every state of the thread system satisfies the inductive invariant.
THEOREM Invariance == Spec => []IInv
  BY InitIInv, NextIInv, PTL DEF Spec

\* All values the scheduler keeps have their types, whatever the drivers do.
THEOREM TypeCorrect == Spec => []TypeOK
<1>1. IInv => TypeOK
  BY DEF IInv
<1> QED
  BY <1>1, Invariance, PTL

\* The contexts form one doubly linked ring at every moment, and the running
\* context is one of them: switch_next() never lands on a freed stack and
\* reaches every thread.
THEOREM RingCorrect == Spec => [](RingLinked /\ RingIsOneCycle /\ OnLiveStack)
<1>1. IInv => RingLinked /\ RingIsOneCycle /\ OnLiveStack
  BY DEF IInv, RingInv
<1> QED
  BY <1>1, Invariance, PTL

\* A mutex excludes every other context, threads switched to from the RTC
\* interrupt included.
THEOREM MutexCorrect == Spec => []MutualExclusion
<1>1. IInv => MutualExclusion
  BY DEF IInv, LockInv
<1> QED
  BY <1>1, Invariance, PTL

\* maininit() reaches the boot only when no thread exists and no hardware
\* setup function is in the middle of its work.
THEOREM BootCorrect == Spec => []BootAfterSetup
<1>1. ASSUME IInv PROVE BootAfterSetup
  <2>1. SUFFICES ASSUME phase \in Past PROVE live = {} /\ \A j \in Job : status[j] # "running"
    BY DEF BootAfterSetup
  <2>2. live = {} /\ \A c \in ThreadInfo : calls[c] = <<>>
    BY <1>1, <2>1 DEF IInv, PhaseInv, CallsInv, Ring, ThreadInfo
  <2>3. \A c \in ThreadInfo : Len(calls[c]) = 0
    BY <2>2
  <2>4. \A j \in Job : status[j] = "running" =>
          \E c \in ThreadInfo : \E i \in 1 .. Len(calls[c]) : calls[c][i] = j
    BY <1>1 DEF IInv, CallsInv
  <2> QED
    BY <2>2, <2>3, <2>4
<1> QED
  BY <1>1, Invariance, PTL

\* start_preempt() and finish_preempt() keep the use count of the RTC
\* interrupt and the preemption flag in step.
THEOREM PreemptCorrect == Spec => []PreemptionBalanced
<1>1. IInv => PreemptionBalanced
  BY DEF IInv, PreemptInv
<1> QED
  BY <1>1, Invariance, PTL

\* wait_preempt() does its job: an access it guards is never made while an
\* option rom is running.
THEOREM RomCorrect == Spec => RomUndisturbed
<1>1. ASSUME IInv, Next, touched' # touched PROVE pc[Main] # "rom"
  <2>1. PICK j \in Job : Touch(j) \/ TouchSpin(j)
    BY <1>1 DEF Next, JobStep, StartThread, RunInPlace, ReturnInPlace, EndThread,
       Yield, mutex_lock, mutex_unlock, mutex_spin, Proceed, wait_threads,
       CallRom, RtcIrq, RomReturn, Booted, vars
  <2>2. ~MustWaitPreempt /\ pc[cur] # "rom"
    BY <1>1, <2>1 DEF Touch, TouchSpin, WaitThenTouch
  <2> QED
    BY <1>1, <2>2 DEF MustWaitPreempt, IInv, PreemptInv
<1>2. IInv /\ [Next]_vars => [touched' # touched => pc[Main] # "rom"]_vars
  BY <1>1 DEF vars
<1> QED
  BY <1>2, Invariance, PTL DEF Spec, RomUndisturbed

\* The thread system implements HardwareSetup: a job is started once, before
\* the boot, returns once, and the boot waits for the running ones.
THEOREM Refinement == Spec => ImplementsHardwareSetup
<1>1. Init => Abstract!AbsInit
  BY DEF Init, FirstPhase, Past, Abstract!AbsInit
<1>2. ASSUME IInv, Next
      PROVE  Abstract!AbsNext \/ UNCHANGED <<status, phase \in Past>>
  <2>1. ASSUME NEW j \in Job, NEW k \in Job \cup {NoJob},
               StartThread(k, j) \/ RunInPlace(k, j)
        PROVE  Abstract!Start(j)
    <3>1. Launches(k, j) /\ phase' = phase
          /\ status' = [status EXCEPT ![j] = "running"]
      BY <2>1 DEF StartThread, RunInPlace, postVars
    <3>2. phase \notin Past /\ status[j] = "todo"
      BY <1>2, <3>1, NoLaunchAfterBoot DEF Launches
    <3> QED
      BY <3>1, <3>2 DEF Abstract!Start
  <2>2. ASSUME NEW j \in Job, ReturnInPlace(j) \/ EndThread(j)
        PROVE  Abstract!Finish(j)
    <3>1. Returns(j) /\ phase' = phase
      BY <2>2 DEF ReturnInPlace, EndThread, postVars
    <3>2. status[j] = "running"
      <4>1. calls[cur] \in Seq(Job) /\ cur \in ThreadInfo
        BY <1>2 DEF IInv, TypeOK
      <4>2. calls[cur] # <<>> /\ calls[cur][Len(calls[cur])] = j
        BY <3>1 DEF Returns, Runs
      <4>3. Len(calls[cur]) \in 1 .. Len(calls[cur])
        BY <4>1, <4>2
      <4> QED
        BY <1>2, <4>1, <4>2, <4>3 DEF IInv, CallsInv
    <3> QED
      BY <3>1, <3>2 DEF Abstract!Finish, Returns
  <2>3. CASE \E j \in Job : Yield(j) \/ Touch(j) \/ TouchSpin(j)
    BY <2>3 DEF Yield, Touch, TouchSpin, jobVars, postVars
  <2>4. CASE \E j \in Job, m \in Mutex : mutex_lock(j, m) \/ mutex_unlock(j, m)
    BY <2>4 DEF mutex_lock, mutex_unlock, jobVars, postVars
  <2>5. CASE mutex_spin \/ CallRom \/ RtcIrq \/ RomReturn
    BY <2>5 DEF mutex_spin, CallRom, RtcIrq, RomReturn, jobVars, postVars
  <2>6. CASE Proceed
    <3>1. phase \in DOMAIN NextPhase /\ phase' = NextPhase[phase] /\ status' = status
      BY <2>6 DEF Proceed, jobVars
    <3>2. phase' \in Past <=> phase \in Past
      <4>1. CASE threads_during_optionroms
        BY <3>1, <4>1 DEF NextPhase, Past
      <4>2. CASE ~threads_during_optionroms
        BY <3>1, <4>2 DEF NextPhase, Past
      <4> QED
        BY <4>1, <4>2
    <3> QED
      BY <3>1, <3>2
  <2>7. CASE wait_threads
    <3>1. status' = status /\ phase \notin Past /\ calls[Main] = <<>>
      BY <2>7 DEF wait_threads, jobVars, NoJobOn, Past
    <3>2. CASE phase' \in Past
      <4>1. live = {}
        <5>1. ~have_threads
          BY <2>7, <3>1, <3>2 DEF wait_threads
        <5> QED
          BY <1>2, <5>1, AloneInRing DEF IInv, RingInv
      <4>2. \A c \in ThreadInfo : calls[c] = <<>>
        BY <1>2, <3>1, <4>1 DEF IInv, CallsInv, Ring, ThreadInfo
      <4>3. \A c \in ThreadInfo : Len(calls[c]) = 0
        BY <4>2
      <4>4. \A j \in Job : status[j] # "running"
        BY <1>2, <4>3 DEF IInv, CallsInv
      <4> QED
        BY <3>1, <3>2, <4>4 DEF Abstract!AbsNext, Abstract!Boot
    <3>3. CASE phase' \notin Past
      BY <3>1, <3>3
    <3> QED
      BY <3>2, <3>3
  <2>8. CASE Booted
    BY <2>8 DEF Booted, vars
  <2> QED
    BY <1>2, <2>1, <2>2, <2>3, <2>4, <2>5, <2>6, <2>7, <2>8
    DEF Next, JobStep, Abstract!AbsNext
<1>3. IInv /\ [Next]_vars => [Abstract!AbsNext]_(Abstract!absVars)
  BY <1>2 DEF vars, Abstract!absVars
<1> QED
  BY <1>1, <1>3, Invariance, PTL DEF Spec, ImplementsHardwareSetup, Abstract!AbsSpec

----------------------------------------------------------------------------
(* The start of the other CPUs: the lock of the stack tells who is on it.     *)

Stacked == {c \in APs : ap[c] \in {"stack", "done"}}
Finished == {c \in APs : ap[c] \in {"done", "halt"}}

SmpTypeOK ==
  /\ smp_msr_count \in 0 .. MsrSize
  /\ CountCPUs \in Nat
  /\ SMPLock \in {0, 1}
  /\ msrs \in [CPUs -> Nat]
  /\ bsp \in [pc : {"setup", "resume", "counting", "waiting", "os"}, resumes : Nat]
  /\ ap \in [APs -> {"off", "sipi", "spin", "stack", "done", "halt"}]

\* Between scans the other CPUs are all off or all done.
AtRest ==
  /\ bsp.pc \in {"setup", "resume"} => \A c \in APs : ap[c] = "off"
  /\ bsp.pc = "os" => (\A c \in APs : ap[c] = "halt") /\ CountCPUs = Cardinality(APs) + 1

\* During one they find the code that starts them, and are counted as they leave it.
Scanning ==
  bsp.pc \in {"counting", "waiting"} =>
    /\ trampoline = "entry_smp"
    /\ CountCPUs = Cardinality(Finished) + 1

\* Whoever holds the lock is on the stack, which the boot CPU has given.
LockTellsStack ==
  /\ bsp.pc = "counting" => SMPLock = 1 /\ Stacked = {}
  /\ bsp.pc = "waiting" =>
       /\ SMPStack = "bsp"
       /\ SMPLock = 0 => Stacked = {}
       /\ \A c, d \in Stacked : c = d

\* The table holds what the boot CPU has written, and those that were started wrote it.
MsrsFollow ==
  /\ smp_msr_count <= msrs[BSP]
  /\ smp_msr_count < MsrSize => msrs[BSP] = smp_msr_count
  /\ \A c \in Finished : msrs[c] = smp_msr_count

SmpInv == SmpTypeOK /\ AtRest /\ Scanning /\ LockTellsStack /\ MsrsFollow

\* The boot CPU waits for a count, and a full count means that all have finished.
LEMMA FinishedFinite ==
  /\ IsFiniteSet(Finished) /\ Cardinality(Finished) \in Nat
  /\ IsFiniteSet(APs) /\ Cardinality(APs) \in Nat
  /\ Cardinality(Finished) = Cardinality(APs) => Finished = APs
<1>1. IsFiniteSet(APs) /\ Finished \in SUBSET APs
  BY SmpAssumption DEF Finished
<1>2. IsFiniteSet(Finished) /\ (Cardinality(APs) = Cardinality(Finished) => APs = Finished)
  BY <1>1, FS_Subset
<1> QED
  BY <1>1, <1>2, FS_CardinalityType

\* Before the first scan all other CPUs are off, and the table is empty.
LEMMA SmpStarts == SmpInit => SmpInv
<1> SUFFICES ASSUME SmpInit PROVE SmpInv
  OBVIOUS
<1>1. SmpTypeOK
  BY SmpAssumption DEF SmpInit, SmpTypeOK, CPUs
<1>2. AtRest /\ Scanning /\ LockTellsStack
  BY DEF SmpInit, AtRest, Scanning, LockTellsStack
<1>3. MsrsFollow
  BY SmpAssumption DEF SmpInit, MsrsFollow, Finished, CPUs
<1> QED
  BY <1>1, <1>2, <1>3 DEF SmpInv

\* What leaves all CPUs where they are leaves these sets alone.
LEMMA SameCpus ==
  ASSUME UNCHANGED ap
  PROVE  Finished' = Finished /\ Stacked' = Stacked
BY DEF Finished, Stacked

\* What is written to the boot CPU's MSR goes to the table while it has room.
LEMMA WrmsrKeeps == SmpInv /\ wrmsr_smp => SmpInv'
<1> SUFFICES ASSUME SmpInv, wrmsr_smp PROVE SmpInv'
  OBVIOUS
<1>1. /\ bsp.pc = "setup" /\ UNCHANGED <<CountCPUs, SMPLock, SMPStack, trampoline, bsp, ap>>
      /\ msrs' = [msrs EXCEPT ![BSP] = @ + 1]
      /\ smp_msr_count' = IF smp_msr_count < MsrSize THEN smp_msr_count + 1 ELSE smp_msr_count
  BY DEF wrmsr_smp
<1>2. SmpTypeOK /\ AtRest /\ MsrsFollow /\ Finished = {} /\ BSP \in CPUs
  BY <1>1 DEF SmpInv, AtRest, Finished, CPUs
<1>3. msrs'[BSP] = msrs[BSP] + 1 /\ msrs' \in [CPUs -> Nat] /\ msrs[BSP] \in Nat
  BY <1>1, <1>2 DEF SmpTypeOK
<1>4. SmpTypeOK'
  BY <1>1, <1>2, <1>3, SmpAssumption DEF SmpTypeOK
<1>5. AtRest' /\ Scanning' /\ LockTellsStack'
  BY <1>1, <1>2 DEF AtRest, Scanning, LockTellsStack
<1>6. MsrsFollow'
  <2>1. Finished' = {}
    BY <1>1, <1>2 DEF Finished
  <2>2. smp_msr_count \in 0 .. MsrSize
    BY <1>2 DEF SmpTypeOK
  <2> QED
    BY <1>1, <1>2, <1>3, <2>1, <2>2, SmpAssumption DEF MsrsFollow
<1> QED
  BY <1>4, <1>5, <1>6 DEF SmpInv

\* A scan starts with the lock taken and the stack empty.
LEMMA ScanKeeps == SmpInv /\ smp_scan => SmpInv'
<1> SUFFICES ASSUME SmpInv, smp_scan PROVE SmpInv'
  OBVIOUS
<1>1. /\ CountCPUs' = 1 /\ trampoline' = "entry_smp" /\ SMPLock' = 1
      /\ ap' = [c \in APs |-> "sipi"] /\ bsp' = [bsp EXCEPT !.pc = "counting"]
      /\ UNCHANGED <<smp_msr_count, SMPStack, msrs>>
  BY DEF smp_scan, LockBeforeSipi
<1>2. SmpTypeOK /\ MsrsFollow
  BY DEF SmpInv
<1>3. SmpTypeOK' /\ bsp'.pc = "counting"
  BY <1>1, <1>2 DEF SmpTypeOK
<1>4. Finished' = {} /\ Stacked' = {}
  BY <1>1 DEF Finished, Stacked
<1>5. AtRest' /\ LockTellsStack'
  BY <1>1, <1>3, <1>4 DEF AtRest, LockTellsStack
<1>6. Scanning'
  BY <1>1, <1>3, <1>4, FS_EmptySet DEF Scanning
<1>7. MsrsFollow'
  BY <1>1, <1>2, <1>4 DEF MsrsFollow
<1> QED
  BY <1>3, <1>5, <1>6, <1>7 DEF SmpInv

\* The boot CPU gives the stack away with the lock, and takes it back.
LEMMA BootCpuKeeps == SmpInv /\ (Release \/ Reacquire) => SmpInv'
<1> SUFFICES ASSUME SmpInv, Release \/ Reacquire PROVE SmpInv'
  OBVIOUS
<1>1. /\ UNCHANGED <<smp_msr_count, CountCPUs, trampoline, msrs, ap>>
      /\ bsp.pc \in {"counting", "waiting"}
  BY DEF Release, Reacquire
<1>2. SmpTypeOK /\ Scanning /\ LockTellsStack /\ MsrsFollow
  BY DEF SmpInv
<1>3. SmpTypeOK' /\ bsp'.pc \in {"counting", "waiting"}
  <2>1. CASE Release
    BY <1>1, <1>2, <2>1 DEF SmpTypeOK, Release
  <2>2. CASE Reacquire
    BY <1>1, <1>2, <2>2 DEF SmpTypeOK, Reacquire
  <2> QED
    BY <2>1, <2>2
<1>4. Finished' = Finished /\ Stacked' = Stacked
  BY <1>1, SameCpus
<1>5. AtRest' /\ Scanning' /\ MsrsFollow'
  BY <1>1, <1>2, <1>3, <1>4 DEF AtRest, Scanning, MsrsFollow
<1>6. LockTellsStack'
  <2>1. CASE Release
    <3>1. bsp.pc = "counting" /\ bsp'.pc = "waiting" /\ SMPStack' = "bsp" /\ SMPLock' = 0
      BY <1>2, <2>1 DEF SmpTypeOK, Release
    <3> QED
      BY <1>2, <1>4, <3>1 DEF LockTellsStack
  <2>2. CASE Reacquire
    <3>1. /\ bsp.pc = "waiting" /\ bsp'.pc = "counting" /\ SMPLock = 0 /\ SMPLock' = 1
          /\ SMPStack' = SMPStack
      BY <1>2, <2>2 DEF SmpTypeOK, Reacquire
    <3> QED
      BY <1>2, <1>4, <3>1 DEF LockTellsStack
  <2> QED
    BY <2>1, <2>2
<1> QED
  BY <1>3, <1>5, <1>6 DEF SmpInv

\* When the count is full all others have left the stack.
LEMMA CountedKeeps == SmpInv /\ Counted => SmpInv'
<1> SUFFICES ASSUME SmpInv, Counted PROVE SmpInv'
  OBVIOUS
<1>1. /\ bsp.pc = "counting" /\ CountCPUs = Cardinality(APs) + 1
      /\ bsp' = [bsp EXCEPT !.pc = "os"]
      /\ UNCHANGED <<smp_msr_count, CountCPUs, SMPLock, SMPStack, msrs, ap>>
  BY DEF Counted
<1>2. SmpTypeOK /\ Scanning /\ LockTellsStack /\ MsrsFollow
  BY DEF SmpInv
<1>3. SmpTypeOK' /\ bsp'.pc = "os"
  BY <1>1, <1>2 DEF SmpTypeOK
<1>4. Finished = APs
  <2>1. Cardinality(Finished) + 1 = Cardinality(APs) + 1
    BY <1>1, <1>2 DEF Scanning
  <2> QED
    BY <2>1, FinishedFinite
<1>5. \A c \in APs : ap[c] = "halt"
  <2>1. Stacked = {}
    BY <1>1, <1>2 DEF LockTellsStack
  <2> QED
    BY <1>4, <2>1 DEF Finished, Stacked
<1>6. AtRest' /\ Scanning' /\ LockTellsStack'
  BY <1>1, <1>3, <1>5 DEF AtRest, Scanning, LockTellsStack
<1>7. MsrsFollow'
  BY <1>1, <1>2, SameCpus DEF MsrsFollow
<1> QED
  BY <1>3, <1>6, <1>7 DEF SmpInv

\* A resume starts them all again.
LEMMA ResumeKeeps == SmpInv /\ Resume => SmpInv'
<1> SUFFICES ASSUME SmpInv, Resume PROVE SmpInv'
  OBVIOUS
<1>1. /\ bsp' = [bsp EXCEPT !.pc = "resume", !.resumes = @ + 1]
      /\ msrs' = [c \in CPUs |-> IF c = BSP THEN smp_msr_count ELSE 0]
      /\ ap' = [c \in APs |-> "off"]
      /\ UNCHANGED <<smp_msr_count, CountCPUs, SMPLock, SMPStack, trampoline>>
  BY DEF Resume
<1>2. SmpTypeOK /\ smp_msr_count \in Nat
  BY SmpAssumption DEF SmpInv, SmpTypeOK
<1>3. bsp' \in [pc : {"resume"}, resumes : Nat] /\ bsp'.pc = "resume"
  <2>1. /\ bsp = [pc |-> bsp.pc, resumes |-> bsp.resumes]
        /\ bsp.resumes + 1 \in Nat
    BY <1>2 DEF SmpTypeOK
  <2>2. bsp' = [pc |-> "resume", resumes |-> bsp.resumes + 1]
    BY <1>1, <2>1
  <2> QED
    BY <2>1, <2>2
<1>4. SmpTypeOK'
  <2>1. msrs' \in [CPUs -> Nat] /\ ap' \in [APs -> {"off"}]
    BY <1>1, <1>2
  <2> QED
    BY <1>1, <1>2, <1>3, <2>1 DEF SmpTypeOK
<1>5. AtRest' /\ Scanning' /\ LockTellsStack'
  BY <1>1, <1>3 DEF AtRest, Scanning, LockTellsStack
<1>6. MsrsFollow'
  <2>1. Finished' = {} /\ msrs'[BSP] = smp_msr_count
    BY <1>1 DEF Finished, CPUs
  <2> QED
    BY <1>1, <1>2, <2>1 DEF MsrsFollow
<1> QED
  BY <1>4, <1>5, <1>6 DEF SmpInv

\* While one of the others is between "off" and "halt" the boot CPU is in smp_scan(), and
\* while one has the stack it waits for it.
LEMMA WhoRuns ==
  ASSUME SmpInv, NEW c \in APs, ap[c] \notin {"off", "halt"}
  PROVE  /\ bsp.pc \in {"counting", "waiting"}
         /\ ap[c] \in {"stack", "done"} => bsp.pc = "waiting"
<1>1. bsp.pc \in {"setup", "resume", "counting", "waiting", "os"}
  BY DEF SmpInv, SmpTypeOK
<1>2. bsp.pc \in {"counting", "waiting"}
  BY <1>1 DEF SmpInv, AtRest
<1> QED
  BY <1>2 DEF SmpInv, LockTellsStack, Stacked

\* A CPU that finds the trampoline starts to spin.
LEMMA StartKeeps == ASSUME NEW c \in APs PROVE SmpInv /\ Start(c) => SmpInv'
<1> SUFFICES ASSUME SmpInv, Start(c) PROVE SmpInv'
  OBVIOUS
<1>1. /\ ap[c] = "sipi"
      /\ UNCHANGED <<smp_msr_count, CountCPUs, SMPLock, SMPStack, trampoline, msrs, bsp>>
  BY DEF Start
<1>2. bsp.pc \in {"counting", "waiting"}
  BY <1>1, WhoRuns
<1>3. SmpTypeOK /\ Scanning /\ LockTellsStack /\ MsrsFollow
  BY DEF SmpInv
<1>4. ap' = [ap EXCEPT ![c] = "spin"]
  BY <1>2, <1>3 DEF Start, Scanning
<1>5. SmpTypeOK'
  BY <1>1, <1>3, <1>4 DEF SmpTypeOK
<1>6. Finished' = Finished /\ Stacked' = Stacked
  BY <1>1, <1>3, <1>4 DEF Finished, Stacked, SmpTypeOK
<1>7. AtRest' /\ Scanning' /\ LockTellsStack' /\ MsrsFollow'
  BY <1>1, <1>2, <1>3, <1>6 DEF AtRest, Scanning, LockTellsStack, MsrsFollow
<1> QED
  BY <1>5, <1>7 DEF SmpInv

\* The lock lets one CPU on the stack.
LEMMA AcquireKeeps == ASSUME NEW c \in APs PROVE SmpInv /\ Acquire(c) => SmpInv'
<1> SUFFICES ASSUME SmpInv, Acquire(c) PROVE SmpInv'
  OBVIOUS
<1>1. /\ ap[c] = "spin" /\ SMPLock = 0 /\ SMPLock' = 1
      /\ UNCHANGED <<smp_msr_count, CountCPUs, SMPStack, trampoline, msrs, bsp>>
  BY DEF Acquire
<1>2. SmpTypeOK /\ Scanning /\ LockTellsStack /\ MsrsFollow
  BY DEF SmpInv
<1>3. bsp.pc = "waiting" /\ SMPStack = "bsp" /\ Stacked = {}
  BY <1>1, <1>2, WhoRuns DEF LockTellsStack
<1>4. ap' = [ap EXCEPT ![c] = "stack"]
  BY <1>3 DEF Acquire
<1>5. SmpTypeOK'
  BY <1>1, <1>2, <1>4 DEF SmpTypeOK
<1>6. Finished' = Finished /\ Stacked' = {c}
  BY <1>1, <1>2, <1>3, <1>4 DEF Finished, Stacked, SmpTypeOK
<1>7. AtRest' /\ Scanning' /\ LockTellsStack' /\ MsrsFollow'
  BY <1>1, <1>2, <1>3, <1>6 DEF AtRest, Scanning, LockTellsStack, MsrsFollow
<1> QED
  BY <1>5, <1>7 DEF SmpInv

\* It is counted, and takes the MSRs of the table.
LEMMA HandleKeeps == ASSUME NEW c \in APs PROVE SmpInv /\ handle_smp(c) => SmpInv'
<1> SUFFICES ASSUME SmpInv, handle_smp(c) PROVE SmpInv'
  OBVIOUS
<1>1. /\ ap[c] = "stack"
      /\ msrs' = [msrs EXCEPT ![c] = smp_msr_count] /\ CountCPUs' = CountCPUs + 1
      /\ ap' = [ap EXCEPT ![c] = "done"]
      /\ UNCHANGED <<smp_msr_count, SMPLock, SMPStack, trampoline, bsp>>
  BY DEF handle_smp
<1>2. SmpTypeOK /\ Scanning /\ LockTellsStack /\ MsrsFollow
  BY DEF SmpInv
<1>3. bsp.pc = "waiting"
  BY <1>1, WhoRuns
<1>4. SmpTypeOK' /\ c # BSP /\ c \in CPUs /\ BSP \in CPUs
  BY <1>1, <1>2, SmpAssumption DEF SmpTypeOK, CPUs
<1>5. Finished' = Finished \cup {c} /\ c \notin Finished /\ Stacked' = Stacked
  BY <1>1, <1>2 DEF Finished, Stacked, SmpTypeOK
<1>6. Cardinality(Finished') = Cardinality(Finished) + 1
  BY <1>5, FinishedFinite, FS_AddElement
<1>7. AtRest' /\ Scanning' /\ LockTellsStack'
  BY <1>1, <1>2, <1>3, <1>5, <1>6 DEF AtRest, Scanning, LockTellsStack
<1>8. MsrsFollow'
  <2>1. msrs'[BSP] = msrs[BSP] /\ msrs'[c] = smp_msr_count
    BY <1>1, <1>2, <1>4 DEF SmpTypeOK
  <2>2. ASSUME NEW d \in Finished' PROVE msrs'[d] = smp_msr_count
    <3>1. CASE d = c
      BY <2>1, <3>1
    <3>2. CASE d # c
      <4>1. d \in Finished /\ d \in CPUs
        BY <1>5, <3>2 DEF Finished, CPUs
      <4> QED
        BY <1>1, <1>2, <3>2, <4>1 DEF SmpTypeOK, MsrsFollow
    <3> QED
      BY <3>1, <3>2
  <2> QED
    BY <1>1, <1>2, <2>1, <2>2 DEF MsrsFollow
<1> QED
  BY <1>4, <1>7, <1>8 DEF SmpInv

\* It leaves the stack with the lock.
LEMMA HaltKeeps == ASSUME NEW c \in APs PROVE SmpInv /\ Halt(c) => SmpInv'
<1> SUFFICES ASSUME SmpInv, Halt(c) PROVE SmpInv'
  OBVIOUS
<1>1. /\ ap[c] = "done" /\ SMPLock' = 0 /\ ap' = [ap EXCEPT ![c] = "halt"]
      /\ UNCHANGED <<smp_msr_count, CountCPUs, SMPStack, trampoline, msrs, bsp>>
  BY DEF Halt
<1>2. SmpTypeOK /\ Scanning /\ LockTellsStack /\ MsrsFollow
  BY DEF SmpInv
<1>3. bsp.pc = "waiting"
  BY <1>1, WhoRuns
<1>4. SmpTypeOK'
  BY <1>1, <1>2 DEF SmpTypeOK
<1>5. Finished' = Finished /\ Stacked' = Stacked \ {c} /\ c \in Stacked
  BY <1>1, <1>2 DEF Finished, Stacked, SmpTypeOK
<1>6. Stacked' = {}
  BY <1>2, <1>3, <1>5 DEF LockTellsStack
<1>7. AtRest' /\ Scanning' /\ LockTellsStack' /\ MsrsFollow'
  BY <1>1, <1>2, <1>3, <1>5, <1>6 DEF AtRest, Scanning, LockTellsStack, MsrsFollow
<1> QED
  BY <1>4, <1>7 DEF SmpInv

\* Every step of any CPU keeps these.
LEMMA SmpStep == SmpInv /\ [SmpNext]_smpVars => SmpInv'
<1> SUFFICES ASSUME SmpInv, [SmpNext]_smpVars PROVE SmpInv'
  OBVIOUS
<1>1. CASE SmpNext
  BY <1>1, WrmsrKeeps, ScanKeeps, BootCpuKeeps, CountedKeeps, ResumeKeeps, StartKeeps,
     AcquireKeeps, HandleKeeps, HaltKeeps DEF SmpNext
<1>2. CASE UNCHANGED smpVars
  BY <1>2, SameCpus
  DEF smpVars, SmpInv, SmpTypeOK, AtRest, Scanning, LockTellsStack, MsrsFollow
<1> QED
  BY <1>1, <1>2

\* One CPU at a time on the stack, and none forgotten.
LEMMA SmpHolds == SmpInv => CPUsStarted
<1> SUFFICES ASSUME SmpInv PROVE CPUsStarted
  OBVIOUS
<1>1. Cardinality(OnStack) <= 1
  <2>1. OnStack = {} \/ \E c : OnStack = {c}
    <3>1. OnStack = Stacked \cup (IF bsp.pc = "waiting" THEN {} ELSE {BSP})
      BY DEF OnStack, Stacked
    <3>2. bsp.pc # "waiting" => Stacked = {}
      BY WhoRuns DEF Stacked
    <3>3. bsp.pc = "waiting" => \A c, d \in Stacked : c = d
      BY DEF SmpInv, LockTellsStack
    <3> QED
      BY <3>1, <3>2, <3>3
  <2>2. CASE OnStack = {}
    BY <2>2, FS_EmptySet
  <2>3. ASSUME NEW c, OnStack = {c} PROVE Cardinality(OnStack) = 1
    BY <2>3, FS_Singleton
  <2> QED
    BY <2>1, <2>2, <2>3
<1>2. "lost" \notin {ap[c] : c \in APs}
  BY DEF SmpInv, SmpTypeOK
<1>3. ASSUME bsp.pc = "os"
      PROVE  /\ \A c \in APs :
                  ap[c] = "halt" /\ (msrs[BSP] <= MsrSize => msrs[c] = msrs[BSP])
             /\ CountCPUs = Cardinality(CPUs)
  <2>1. (\A c \in APs : ap[c] = "halt") /\ CountCPUs = Cardinality(APs) + 1
    BY <1>3 DEF SmpInv, AtRest
  <2>2. Cardinality(CPUs) = Cardinality(APs) + 1
    BY SmpAssumption, FS_AddElement DEF CPUs
  <2>3. msrs[BSP] <= MsrSize => msrs[BSP] = smp_msr_count
    <3>1. smp_msr_count \in Nat /\ smp_msr_count <= MsrSize /\ msrs[BSP] \in Nat
      BY SmpAssumption DEF SmpInv, SmpTypeOK, CPUs
    <3> QED
      BY <3>1, SmpAssumption DEF SmpInv, MsrsFollow
  <2>4. \A c \in APs : msrs[c] = smp_msr_count
    BY <2>1 DEF SmpInv, MsrsFollow, Finished
  <2> QED
    BY <2>1, <2>2, <2>3, <2>4
<1> QED
  BY <1>1, <1>2, <1>3 DEF CPUsStarted

\* smp_scan and entry_smp: for any number of CPUs and MSRs, and through every resume, no two CPUs
\* are on the one stack at a time, none starts before the code it needs is there, and when the
\* boot CPU goes on it has counted them all and each holds the MSRs it was given.
THEOREM StartCorrect == SmpSpec => []CPUsStarted
<1>1. SmpInit => SmpInv
  BY SmpStarts
<1>2. SmpInv /\ [SmpNext]_smpVars => SmpInv'
  BY SmpStep
<1>3. SmpInv => CPUsStarted
  BY SmpHolds
<1> QED
  BY <1>1, <1>2, <1>3, PTL DEF SmpSpec

=============================================================================
