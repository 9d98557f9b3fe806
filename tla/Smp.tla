---------------------------------- MODULE Smp ----------------------------------
(***************************************************************************)
(* The start of the other CPUs, in POST and again after a suspend          *)
(* (src/fw/smp.c, entry_smp in src/romlayout.S): they all run on the boot  *)
(* CPU's stack, one at a time, which it gives away and takes back until it *)
(* has counted them.                                                       *)
(***************************************************************************)
EXTENDS Naturals, FiniteSets

CONSTANTS
  BSP,         \* the boot CPU
  APs,         \* the others
  MsrSize,     \* ARRAY_SIZE(smp_msr)
  MaxWrites,   \* bound on the calls of wrmsr_smp(); 15, and two a variable range
  MaxResumes   \* bound on the suspends

ASSUME SmpAssumption == IsFiniteSet(APs) /\ BSP \notin APs /\ MsrSize \in Nat

VARIABLES
  smp_msr_count,
  CountCPUs,
  SMPLock, SMPStack,  \* SMPStack tells whose stack pointer it holds
  trampoline,         \* what is at BUILD_AP_BOOT_ADDR: "entry_smp" or what was there
  msrs,               \* how many of the recorded MSRs each CPU has written
  bsp, ap             \* where the CPUs are

smpVars == <<smp_msr_count, CountCPUs, SMPLock, SMPStack, trampoline, msrs, bsp, ap>>

CPUs == APs \cup {BSP}

----------------------------------------------------------------------------
(* The boot CPU                                                              *)

\* wrmsr_smp(), by mtrr_setup() and msr_feature_control_setup(): the boot CPU
\* writes the MSR, and notes it for the others if there is room.
wrmsr_smp ==
  /\ bsp.pc = "setup"
  /\ msrs[BSP] < MaxWrites
  /\ msrs' = [msrs EXCEPT ![BSP] = @ + 1]
  /\ smp_msr_count' = IF smp_msr_count < MsrSize THEN smp_msr_count + 1 ELSE smp_msr_count
  /\ UNCHANGED <<CountCPUs, SMPLock, SMPStack, trampoline, bsp, ap>>

\* Deviation: the lock is free when the others start.
LockBeforeSipi_free == 0
LockBeforeSipi == 1

\* smp_scan() up to the SIPI, which resets the others and starts them at the
\* trampoline.
smp_scan ==
  /\ bsp.pc \in {"setup", "resume"}
  /\ CountCPUs' = 1
  /\ trampoline' = "entry_smp"
  /\ SMPLock' = LockBeforeSipi
  /\ ap' = [c \in APs |-> "sipi"]
  /\ bsp' = [bsp EXCEPT !.pc = "counting"]
  /\ UNCHANGED <<smp_msr_count, SMPStack, msrs>>

\* Not all have been counted: the stack and the lock are given away.
Release ==
  /\ bsp.pc = "counting"
  /\ CountCPUs # Cardinality(APs) + 1
  /\ SMPStack' = "bsp"
  /\ SMPLock' = 0
  /\ bsp' = [bsp EXCEPT !.pc = "waiting"]
  /\ UNCHANGED <<smp_msr_count, CountCPUs, trampoline, msrs, ap>>

\* lock btsl
Reacquire ==
  /\ bsp.pc = "waiting"
  /\ SMPLock = 0
  /\ SMPLock' = 1
  /\ bsp' = [bsp EXCEPT !.pc = "counting"]
  /\ UNCHANGED <<smp_msr_count, CountCPUs, SMPStack, trampoline, msrs, ap>>

\* All are counted: the memory is restored.
Counted ==
  /\ bsp.pc = "counting"
  /\ CountCPUs = Cardinality(APs) + 1
  /\ trampoline' = "memory"
  /\ bsp' = [bsp EXCEPT !.pc = "os"]
  /\ UNCHANGED <<smp_msr_count, CountCPUs, SMPLock, SMPStack, msrs, ap>>

\* The system sleeps, every CPU loses its MSRs, and smp_resume() begins.
Resume ==
  /\ bsp.pc = "os"
  /\ bsp.resumes < MaxResumes
  /\ bsp' = [bsp EXCEPT !.pc = "resume", !.resumes = @ + 1]
  /\ msrs' = [c \in CPUs |-> IF c = BSP THEN smp_msr_count ELSE 0]
  /\ ap' = [c \in APs |-> "off"]
  /\ UNCHANGED <<smp_msr_count, CountCPUs, SMPLock, SMPStack, trampoline>>

----------------------------------------------------------------------------
(* The others                                                                *)

\* A CPU executes what it finds at the trampoline.
Start(c) ==
  /\ ap[c] = "sipi"
  /\ ap' = [ap EXCEPT ![c] = IF trampoline = "entry_smp" THEN "spin" ELSE "lost"]
  /\ UNCHANGED <<smp_msr_count, CountCPUs, SMPLock, SMPStack, trampoline, msrs, bsp>>

\* entry_smp: it takes the lock and the stack.
Acquire(c) ==
  /\ ap[c] = "spin"
  /\ SMPLock = 0
  /\ SMPLock' = 1
  /\ ap' = [ap EXCEPT ![c] = IF SMPStack = "bsp" THEN "stack" ELSE "lost"]
  /\ UNCHANGED <<smp_msr_count, CountCPUs, SMPStack, trampoline, msrs, bsp>>

handle_smp(c) ==
  /\ ap[c] = "stack"
  /\ msrs' = [msrs EXCEPT ![c] = smp_msr_count]
  /\ CountCPUs' = CountCPUs + 1
  /\ ap' = [ap EXCEPT ![c] = "done"]
  /\ UNCHANGED <<smp_msr_count, SMPLock, SMPStack, trampoline, bsp>>

\* The lock is released, and the CPU halts.
Halt(c) ==
  /\ ap[c] = "done"
  /\ SMPLock' = 0
  /\ ap' = [ap EXCEPT ![c] = "halt"]
  /\ UNCHANGED <<smp_msr_count, CountCPUs, SMPStack, trampoline, msrs, bsp>>

----------------------------------------------------------------------------

SmpInit ==
  /\ smp_msr_count = 0
  /\ CountCPUs = 0
  /\ SMPLock = 0
  /\ SMPStack = "none"
  /\ trampoline = "memory"
  /\ msrs = [c \in CPUs |-> 0]
  /\ bsp = [pc |-> "setup", resumes |-> 0]
  /\ ap = [c \in APs |-> "off"]

SmpNext ==
  \/ wrmsr_smp \/ smp_scan \/ Release \/ Reacquire \/ Counted \/ Resume
  \/ \E c \in APs : Start(c) \/ Acquire(c) \/ handle_smp(c) \/ Halt(c)

SmpSpec == SmpInit /\ [][SmpNext]_smpVars

----------------------------------------------------------------------------
(* Properties                                                                 *)

OnStack == {c \in APs : ap[c] \in {"stack", "done"}} \cup
           (IF bsp.pc = "waiting" THEN {} ELSE {BSP})

\* In whatever order the CPUs start and win the lock, in POST and after a
\* suspend: one CPU at a time is on the stack, and none on one that is not given;
\* no CPU is sent to the trampoline's place when that holds other data again; and
\* when the scan ends every CPU has been counted once, and has written all MSRs
\* the boot CPU has, if smp_msr had room for them.
CPUsStarted ==
  /\ Cardinality(OnStack) <= 1
  /\ "lost" \notin {ap[c] : c \in APs}
  /\ bsp.pc = "os" =>
       /\ \A c \in APs :
            ap[c] = "halt" /\ (msrs[BSP] <= MsrSize => msrs[c] = msrs[BSP])
       /\ CountCPUs = Cardinality(CPUs)
=============================================================================
