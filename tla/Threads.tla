------------------------------ MODULE Threads ------------------------------
(***************************************************************************)
(* The cooperative threads of SeaBIOS (src/stacks.c) under the POST phase  *)
(* that uses them (src/post.c, maininit).                                  *)
(*                                                                         *)
(* Every context -- MainThread or a thread -- owns a stack; the contexts   *)
(* are linked in a ring and exactly one of them, cur, runs.  A context     *)
(* gives the CPU away only in switch_next(), which goes to the ring's next *)
(* context.  The one exception is the RTC interrupt: while an option rom   *)
(* runs on the main stack with CanPreempt set, the interrupt handler       *)
(* switches away from MainThread.                                          *)
(*                                                                         *)
(* The hardware setup functions passed to run_thread() are jobs.  A job is *)
(* abstracted to the scheduler calls it makes: yield, mutex_lock and       *)
(* mutex_unlock, run_thread, wait_preempt followed by the access it        *)
(* protects (pci_enable_*, zonelow_expand), and its return.                *)
(***************************************************************************)
EXTENDS Naturals, Sequences

CONSTANTS
  Thread,   \* the thread stacks memalign_tmphigh() can hand out
  Main,     \* MainThread
  Job,      \* the functions passed to run_thread()
  NoJob,    \* "called by no job"
  NMutex,   \* number of mutexes
  Fuel,     \* bound: scheduler calls a job makes before it returns
  MaxRoms   \* bound: option roms run in each of the three rom phases

ASSUME ThreadsAssumption ==
  /\ Main \notin Thread
  /\ NoJob \notin Job
  /\ NMutex \in Nat
  /\ Fuel \in Nat
  /\ MaxRoms \in Nat

ThreadInfo == Thread \cup {Main}

\* Mutexes are numbered in the order in which the drivers nest them
\* (usb resetlock before a hub's lock or the xhci command lock).
Mutex == 1 .. NMutex

VARIABLES
  cur,           \* the context whose stack is in %esp (getCurThread)
  next,          \* node.next of each thread_info
  pprev,         \* node.pprev, as the thread_info whose next field it points to
  live,          \* the thread stacks that are allocated
  pc,            \* where each context is in the scheduler's functions
  want,          \* the mutex a context spins on in mutex_lock()
  isLocked,      \* mutex_s.isLocked
  held,          \* the mutexes a context is between locking and unlocking
  status,        \* whether a job is still to be started, runs or has returned
  calls,         \* the jobs on each context's stack, the innermost call last
  fuel,          \* scheduler calls left to each job
  touched,       \* the jobs that made an access guarded by wait_preempt()
  phase,         \* where maininit() is
  roms,          \* option roms run in this phase
  ThreadControl, \* romfile etc/threads: 0 none, 1 threads, 2 also in roms
  CanPreempt,    \* RTC interrupts may run threads
  RTCusers       \* users of the periodic RTC interrupt

ringVars == <<next, pprev, live>>
lockVars == <<want, isLocked, held>>
jobVars  == <<status, calls>>
postVars == <<phase, roms, ThreadControl>>
rtcVars  == <<CanPreempt, RTCusers>>

vars == <<cur, next, pprev, live, pc, want, isLocked, held, status, calls,
          fuel, touched, phase, roms, ThreadControl, CanPreempt, RTCusers>>

Phases == {"vgarom", "hw", "join", "optionrom", "lastjoin", "prepareboot", "boot"}

\* wait_threads() has returned for the last time.
Past == {"prepareboot", "boot"}

TypeOK ==
  /\ cur \in ThreadInfo
  /\ next \in [ThreadInfo -> ThreadInfo]
  /\ pprev \in [ThreadInfo -> ThreadInfo]
  /\ live \subseteq Thread
  /\ pc \in [ThreadInfo -> {"idle", "run", "mutex", "preempt", "join", "rom"}]
  /\ want \in [ThreadInfo -> Nat]
  /\ isLocked \in [Mutex -> BOOLEAN]
  /\ held \in [ThreadInfo -> SUBSET Mutex]
  /\ status \in [Job -> {"todo", "running", "done"}]
  /\ calls \in [ThreadInfo -> Seq(Job)]
  /\ fuel \in [Job -> Nat]
  /\ touched \subseteq Job
  /\ phase \in Phases
  /\ roms \in Nat
  /\ ThreadControl \in 0 .. 2
  /\ CanPreempt \in BOOLEAN
  /\ RTCusers \in Nat

----------------------------------------------------------------------------
(* Reading the state.                                                      *)

have_threads == next[Main] # Main

threads_during_optionroms == ThreadControl = 2

\* Job j is what context c executes now.
Runs(c, j) == calls[c] # <<>> /\ calls[c][Len(calls[c])] = j

\* Context c executes no job; for MainThread: it is in maininit's own code.
NoJobOn(c) == calls[c] = <<>>

\* A scheduler call of job j, one of the Fuel many it may make.
Spend(j) ==
  /\ fuel[j] > 0
  /\ fuel' = [fuel EXCEPT ![j] = @ - 1]

----------------------------------------------------------------------------
(* Scheduler primitives.                                                   *)

\* Leave c's stack for the next one of the ring (c itself if it is alone).
switch_next(c) == cur' = next[c]

\* Deviation: prev->next is overwritten before it is read.
hlist_add_after_swapped(t, c) ==
  /\ next' = [next EXCEPT ![t] = t, ![c] = t]
  /\ pprev' = [pprev EXCEPT ![next[c]] = t, ![t] = c]

hlist_add_after(t, c) ==
  /\ next'  = [next EXCEPT ![t] = next[c], ![c] = t]
  /\ pprev' = [pprev EXCEPT ![next[c]] = t, ![t] = c]

hlist_del(t) ==
  /\ next'  = [next EXCEPT ![pprev[t]] = next[t]]
  /\ pprev' = [pprev EXCEPT ![next[t]] = pprev[t]]

----------------------------------------------------------------------------
(* run_thread().                                                           *)

\* The caller: job k, or device_hardware_setup() itself (k = NoJob).
\* No caller in the drivers holds a mutex.
Launches(k, j) ==
  /\ pc[cur] = "run"
  /\ held[cur] = {}
  /\ status[j] = "todo"
  /\ \/ k = NoJob /\ cur = Main /\ NoJobOn(Main) /\ phase = "hw" /\ UNCHANGED fuel
     \/ k \in Job /\ Runs(cur, k) /\ Spend(k)

\* A stack is available: link it behind the caller and run on it at once.
StartThread(k, j) ==
  /\ Launches(k, j)
  /\ ThreadControl # 0
  /\ \E t \in Thread \ live :
       /\ hlist_add_after(t, cur)
       /\ live' = live \cup {t}
       /\ pc' = [pc EXCEPT ![t] = "run"]
       /\ calls' = [calls EXCEPT ![t] = <<j>>]
       /\ cur' = t
  /\ status' = [status EXCEPT ![j] = "running"]
  /\ UNCHANGED <<lockVars, touched, postVars, rtcVars>>

\* No threads, or no memory for a stack: call the function in place.
RunInPlace(k, j) ==
  /\ Launches(k, j)
  /\ calls' = [calls EXCEPT ![cur] = Append(@, j)]
  /\ status' = [status EXCEPT ![j] = "running"]
  /\ UNCHANGED <<cur, ringVars, pc, lockVars, touched, postVars, rtcVars>>

----------------------------------------------------------------------------
(* The end of a job.                                                       *)

Returns(j) ==
  /\ pc[cur] = "run"
  /\ Runs(cur, j)
  /\ held[cur] = {}
  /\ status' = [status EXCEPT ![j] = "done"]
  /\ calls' = [calls EXCEPT ![cur] = SubSeq(@, 1, Len(@) - 1)]

\* The job was called in place: back to its caller on the same stack.
ReturnInPlace(j) ==
  /\ Returns(j)
  /\ cur = Main \/ Len(calls[cur]) > 1
  /\ UNCHANGED <<cur, ringVars, pc, lockVars, fuel, touched, postVars, rtcVars>>

\* The thread's function returned: run_thread's asm reads node.next, has
\* __end_thread() unlink and free the stack, and switches to that next.
EndThread(j) ==
  /\ Returns(j)
  /\ cur # Main /\ Len(calls[cur]) = 1
  /\ hlist_del(cur)
  /\ live' = live \ {cur}
  /\ pc' = [pc EXCEPT ![cur] = "idle"]
  /\ switch_next(cur)
  /\ UNCHANGED <<lockVars, fuel, touched, postVars, rtcVars>>

----------------------------------------------------------------------------
(* Scheduler calls of a job.                                               *)

Yield(j) ==
  /\ pc[cur] = "run"
  /\ Runs(cur, j)
  /\ Spend(j)
  /\ switch_next(cur)
  /\ UNCHANGED <<ringVars, pc, lockVars, jobVars, touched, postVars, rtcVars>>

\* One turn of mutex_lock's loop: take the mutex, or yield and look again.
TryLock(m) ==
  \/ /\ ~isLocked[m]
     /\ isLocked' = [isLocked EXCEPT ![m] = TRUE]
     /\ held' = [held EXCEPT ![cur] = @ \cup {m}]
     /\ pc' = [pc EXCEPT ![cur] = "run"]
     /\ UNCHANGED <<cur, want>>
  \/ /\ isLocked[m]
     /\ pc' = [pc EXCEPT ![cur] = "mutex"]
     /\ want' = [want EXCEPT ![cur] = m]
     /\ switch_next(cur)
     /\ UNCHANGED <<isLocked, held>>

mutex_lock(j, m) ==
  /\ pc[cur] = "run"
  /\ Runs(cur, j)
  /\ \A h \in held[cur] : h < m
  /\ Spend(j)
  /\ TryLock(m)
  /\ UNCHANGED <<ringVars, jobVars, touched, postVars, rtcVars>>

\* Deviation: "if" for "while": after one yield the mutex is taken unseen.
mutex_spin_once ==
  /\ pc[cur] = "mutex"
  /\ isLocked' = [isLocked EXCEPT ![want[cur]] = TRUE]
  /\ held' = [held EXCEPT ![cur] = @ \cup {want[cur]}]
  /\ pc' = [pc EXCEPT ![cur] = "run"]
  /\ UNCHANGED <<cur, want, ringVars, jobVars, fuel, touched, postVars, rtcVars>>

mutex_spin ==
  /\ pc[cur] = "mutex"
  /\ TryLock(want[cur])
  /\ UNCHANGED <<ringVars, jobVars, fuel, touched, postVars, rtcVars>>

\* Deviation: isLocked is not cleared.
mutex_unlock_forgets(j, m) ==
  /\ pc[cur] = "run"
  /\ Runs(cur, j)
  /\ m \in held[cur]
  /\ held' = [held EXCEPT ![cur] = @ \ {m}]
  /\ UNCHANGED <<cur, ringVars, pc, want, isLocked, jobVars, fuel, touched,
                 postVars, rtcVars>>

mutex_unlock(j, m) ==
  /\ pc[cur] = "run"
  /\ Runs(cur, j)
  /\ m \in held[cur]
  /\ isLocked' = [isLocked EXCEPT ![m] = FALSE]
  /\ held' = [held EXCEPT ![cur] = @ \ {m}]
  /\ UNCHANGED <<cur, ringVars, pc, want, jobVars, fuel, touched, postVars,
                 rtcVars>>

\* Deviation: nobody waits.
NeverWaitPreempt == FALSE

\* wait_preempt()'s loop condition: only threads wait, and only for a rom.
MustWaitPreempt == cur # Main /\ CanPreempt

\* One turn of wait_preempt's loop and, once it is left, the guarded access.
WaitThenTouch(j) ==
  \/ /\ MustWaitPreempt
     /\ pc' = [pc EXCEPT ![cur] = "preempt"]
     /\ switch_next(cur)
     /\ UNCHANGED touched
  \/ /\ ~MustWaitPreempt
     /\ pc' = [pc EXCEPT ![cur] = "run"]
     /\ touched' = touched \cup {j}
     /\ UNCHANGED cur

Touch(j) ==
  /\ pc[cur] = "run"
  /\ Runs(cur, j)
  /\ Spend(j)
  /\ WaitThenTouch(j)
  /\ UNCHANGED <<ringVars, lockVars, jobVars, postVars, rtcVars>>

TouchSpin(j) ==
  /\ pc[cur] = "preempt"
  /\ Runs(cur, j)
  /\ WaitThenTouch(j)
  /\ UNCHANGED <<ringVars, lockVars, jobVars, fuel, postVars, rtcVars>>

----------------------------------------------------------------------------
(* MainThread: maininit(), option roms and wait_threads().                 *)

InMaininit == cur = Main /\ pc[Main] = "run" /\ NoJobOn(Main)

\* The statements of maininit() in the order ThreadControl selects.
NextPhase ==
  IF threads_during_optionroms
  THEN [hw |-> "vgarom", vgarom |-> "optionrom", optionrom |-> "lastjoin",
        prepareboot |-> "boot"]
  ELSE [vgarom |-> "hw", hw |-> "join", optionrom |-> "lastjoin",
        prepareboot |-> "boot"]

FirstPhase(tc) == IF tc = 2 THEN "hw" ELSE "vgarom"

Proceed ==
  /\ InMaininit
  /\ phase \in DOMAIN NextPhase
  /\ phase' = NextPhase[phase]
  /\ roms' = 0
  /\ UNCHANGED <<cur, ringVars, pc, lockVars, jobVars, fuel, touched,
                 ThreadControl, rtcVars>>

\* Deviation: one yield instead of the loop.
wait_threads_once ==
  /\ cur = Main /\ pc[Main] \in {"run", "join"} /\ NoJobOn(Main)
  /\ phase \in {"join", "lastjoin"}
  /\ pc' = [pc EXCEPT ![Main] = "run"]
  /\ phase' = IF phase = "join" THEN "optionrom" ELSE "prepareboot"
  /\ roms' = 0
  /\ switch_next(Main)
  /\ UNCHANGED <<ringVars, lockVars, jobVars, fuel, touched, ThreadControl,
                 rtcVars>>

\* wait_threads(): the loop, then the phase behind it.
wait_threads ==
  /\ cur = Main /\ pc[Main] \in {"run", "join"} /\ NoJobOn(Main)
  /\ phase \in {"join", "lastjoin"}
  /\ \/ /\ have_threads
        /\ pc' = [pc EXCEPT ![Main] = "join"]
        /\ switch_next(Main)
        /\ UNCHANGED <<phase, roms>>
     \/ /\ ~have_threads
        /\ pc' = [pc EXCEPT ![Main] = "run"]
        /\ phase' = IF phase = "join" THEN "optionrom" ELSE "prepareboot"
        /\ roms' = 0
        /\ UNCHANGED cur
  /\ UNCHANGED <<ringVars, lockVars, jobVars, fuel, touched, ThreadControl,
                 rtcVars>>

\* __callrom() up to the jump into the rom: start_preempt(), rtc_use().  It
\* runs the roms of vgarom_setup() and optionrom_setup() and, in
\* prepareboot(), the boot connection vectors they registered.
CallRom ==
  /\ InMaininit
  /\ phase \in {"vgarom", "optionrom", "prepareboot"}
  /\ roms < MaxRoms
  /\ roms' = roms + 1
  /\ pc' = [pc EXCEPT ![Main] = "rom"]
  /\ IF threads_during_optionroms
     THEN CanPreempt' = TRUE /\ RTCusers' = RTCusers + 1
     ELSE UNCHANGED rtcVars
  /\ UNCHANGED <<cur, ringVars, lockVars, jobVars, fuel, touched, phase,
                 ThreadControl>>

\* handle_70() in the rom: check_preempt() -> call32(yield_preempt).
RtcIrq ==
  /\ cur = Main /\ pc[Main] = "rom"
  /\ RTCusers > 0
  /\ CanPreempt /\ have_threads
  /\ switch_next(Main)
  /\ UNCHANGED <<ringVars, pc, lockVars, jobVars, fuel, touched, postVars,
                 rtcVars>>

\* Deviation: finish_preempt() without rtc_release().
RomReturnKeepsRtc ==
  /\ cur = Main /\ pc[Main] = "rom"
  /\ pc' = [pc EXCEPT ![Main] = "run"]
  /\ CanPreempt' = FALSE
  /\ switch_next(Main)
  /\ UNCHANGED <<ringVars, lockVars, jobVars, fuel, touched, postVars, RTCusers>>

\* The rom returned: finish_preempt(), rtc_release(), yield().
RomReturn ==
  /\ cur = Main /\ pc[Main] = "rom"
  /\ pc' = [pc EXCEPT ![Main] = "run"]
  /\ IF threads_during_optionroms
     THEN CanPreempt' = FALSE /\ RTCusers' = RTCusers - 1
     ELSE UNCHANGED rtcVars
  /\ switch_next(Main)
  /\ UNCHANGED <<ringVars, lockVars, jobVars, fuel, touched, postVars>>

----------------------------------------------------------------------------

Init ==
  /\ cur = Main
  /\ next = [t \in ThreadInfo |-> t]
  /\ pprev = [t \in ThreadInfo |-> t]
  /\ live = {}
  /\ pc = [t \in ThreadInfo |-> IF t = Main THEN "run" ELSE "idle"]
  /\ want = [t \in ThreadInfo |-> 0]
  /\ isLocked = [m \in Mutex |-> FALSE]
  /\ held = [t \in ThreadInfo |-> {}]
  /\ status = [j \in Job |-> "todo"]
  /\ calls = [t \in ThreadInfo |-> <<>>]
  /\ fuel = [j \in Job |-> Fuel]
  /\ touched = {}
  /\ ThreadControl \in 0 .. 2
  /\ phase = FirstPhase(ThreadControl)
  /\ roms = 0
  /\ CanPreempt = FALSE
  /\ RTCusers = 0

\* startBoot() has jumped to int 19: the POST phase is over.
Booted == phase = "boot" /\ UNCHANGED vars

JobStep(j) ==
  \/ \E k \in Job \cup {NoJob} : StartThread(k, j) \/ RunInPlace(k, j)
  \/ ReturnInPlace(j)
  \/ EndThread(j)
  \/ Yield(j)
  \/ \E m \in Mutex : mutex_lock(j, m) \/ mutex_unlock(j, m)
  \/ Touch(j)
  \/ TouchSpin(j)

Next ==
  \/ \E j \in Job : JobStep(j)
  \/ mutex_spin
  \/ Proceed
  \/ wait_threads
  \/ CallRom
  \/ RtcIrq
  \/ RomReturn
  \/ Booted

Spec == Init /\ [][Next]_vars

\* The CPU always runs some context, and code interrupted in an option rom
\* makes progress between two RTC interrupts.
FairSpec == Spec /\ WF_vars(Next) /\ SF_vars(RomReturn)

----------------------------------------------------------------------------
(* Properties.                                                             *)

Ring == live \cup {Main}

\* The node pointers of the contexts that exist (hlist_add_after in
\* run_thread, hlist_del in __end_thread) are a doubly linked ring: next and
\* pprev are inverse to each other and never lead to a freed stack.
RingLinked ==
  \A t \in Ring : /\ next[t] \in Ring /\ pprev[next[t]] = t
                  /\ pprev[t] \in Ring /\ next[pprev[t]] = t

\* The ring is a single cycle: no group of contexts is closed under next
\* without containing MainThread, so every context gets the CPU when the
\* others yield, and have_threads() sees every thread.
RingIsOneCycle ==
  \A S \in SUBSET Ring :
    S # {} /\ (\A t \in S : next[t] \in S) => Main \in S

\* %esp is never on a stack that __end_thread() freed.
OnLiveStack == cur \in Ring

\* No two contexts are between mutex_lock() and mutex_unlock() of one mutex.
MutualExclusion ==
  \A t, u \in ThreadInfo : t # u => held[t] \cap held[u] = {}

\* When maininit() goes on to prepareboot(), which ends the life of the
\* temporary memory, no thread exists and every hardware setup function that
\* run_thread() was given has returned.
BootAfterSetup ==
  phase \in Past => live = {} /\ \A j \in Job : status[j] # "running"

\* start_preempt() and finish_preempt() pair up: threads are run from the RTC
\* interrupt only in an option rom, and the interrupt has a user exactly then.
PreemptionBalanced ==
  /\ CanPreempt => pc[Main] = "rom"
  /\ RTCusers = IF CanPreempt THEN 1 ELSE 0

\* A thread makes an access guarded by wait_preempt() -- moving the EBDA,
\* enabling a PCI device -- only while no option rom is running.
RomUndisturbed ==
  [][touched' # touched => pc[Main] # "rom"]_vars

Abstract == INSTANCE HardwareSetup WITH booted <- (phase \in Past)

\* run_thread(), the ring, the mutexes and the preemption together behave
\* as the abstract HardwareSetup: each job runs once and to its end, and the
\* boot waits for all of them.
ImplementsHardwareSetup == Abstract!AbsSpec

\* The POST phase ends: no mutex, preemption or ring position blocks
\* wait_threads() for ever.
EventuallyBoots == <>(phase = "boot")

============================================================================
