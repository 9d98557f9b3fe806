--------------------------- MODULE HardwareSetup ---------------------------
(***************************************************************************)
(* What the thread system of SeaBIOS promises to the POST phase: hardware  *)
(* setup jobs run to completion in any order and interleaving, each one    *)
(* once, and the boot begins when no job is running; after that no job     *)
(* starts.  How the jobs share the CPU is not visible here.                *)
(***************************************************************************)
CONSTANT Job

VARIABLES
  status,   \* what has become of each job
  booted    \* startBoot() has been reached

absVars == <<status, booted>>

AbsInit ==
  /\ status = [j \in Job |-> "todo"]
  /\ booted = FALSE

Start(j) ==
  /\ ~booted
  /\ status[j] = "todo"
  /\ status' = [status EXCEPT ![j] = "running"]
  /\ UNCHANGED booted

Finish(j) ==
  /\ status[j] = "running"
  /\ status' = [status EXCEPT ![j] = "done"]
  /\ UNCHANGED booted

Boot ==
  /\ ~booted
  /\ \A j \in Job : status[j] # "running"
  /\ booted' = TRUE
  /\ UNCHANGED status

AbsNext == Boot \/ \E j \in Job : Start(j) \/ Finish(j)

AbsSpec == AbsInit /\ [][AbsNext]_absVars
============================================================================
