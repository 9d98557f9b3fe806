------------------------------- MODULE AhciPort -------------------------------
(***************************************************************************)
(* A port of an AHCI controller (src/hw/ahci.c): the thread that finds out *)
(* what is on it and moves its command list to permanent memory, then the  *)
(* commands of requests, one at a time.                                    *)
(*                                                                         *)
(* The command list, the received FIS area and the command table are       *)
(* allocated and freed together: they are one block.  The controller reads *)
(* the buffer's address from the table when it moves the data.             *)
(***************************************************************************)
EXTENDS Naturals

CONSTANTS
  Kinds,        \* of what the port may have: "disk", "cd", "other", "none"
  Worlds        \* bounds: how much of each of "left" there may be

VARIABLES
  pc,
  port,         \* the driver's: [block, atapi]
  live,         \* the blocks that are allocated
  hba,          \* the port's registers and what the controller is doing
  device,       \* [kind, state]; the state is "idle", "busy" or "drq"
  table,        \* the command in the command table: [cmd, n]
  moved,        \* the last data: [cmd, buf] are the command's and the buffer's n
  req,          \* the command waited for, and its end
  left

vars == <<pc, port, live, hba, device, table, moved, req, left>>

None == [cmd |-> "none", n |-> 0]

Spend(what) == left[what] > 0 /\ left' = [left EXCEPT ![what] = @ - 1]

----------------------------------------------------------------------------
(* Registers                                                                 *)

\* PORT_CMD: fre, st and what follows them, fr and cr; ci: PORT_CMD_ISSUE; is:
\* PORT_IRQ_STAT; pio and d2h: the status bytes of the received FISes.
HbaOff ==
  [block |-> "none", fre |-> FALSE, fr |-> FALSE, st |-> FALSE, cr |-> FALSE,
   ci |-> FALSE, is |-> {}, pio |-> "ok", d2h |-> "ok", active |-> None,
   halted |-> FALSE]

\* Clearing ST takes the command away and ends the stop after an error.
Stop(h) == [h EXCEPT !.st = FALSE, !.ci = FALSE, !.active = None, !.halted = FALSE]
Start(h) == [h EXCEPT !.st = TRUE, !.cr = TRUE]
Running(h) == h.fre \/ h.fr \/ h.st \/ h.cr

----------------------------------------------------------------------------
(* ahci_command().  "behind": when the command was issued the controller      *)
(* still had an earlier one; "mistaken": one such request has succeeded;      *)
(* "gaveup": one was given up since the last recovery; "late": the wait for    *)
(* the port to stop was given up.                                             *)

\* Deviation: what is left of an earlier command's interrupts is not cleared.
Issue_stale(h) == [h EXCEPT !.ci = TRUE]
Issue(h) == [h EXCEPT !.ci = TRUE, !.is = {}]

ahci_command(cmd, then) ==
  LET n == req.n + 1
  IN  /\ table' = [cmd |-> cmd, n |-> n]
      /\ hba' = Issue(hba)
      /\ req' = [req EXCEPT !.n = n, !.then = then, !.ok = FALSE,
                            !.behind = hba.ci \/ hba.active # None]
      /\ pc' = "wait"

\* The FIS that PORT_IRQ_STAT tells of.
Status == IF "pio" \in hba.is THEN hba.pio ELSE hba.d2h

\* An interrupt that ends nothing: other bits, or a status that is busy.
PollOn ==
  /\ pc = "wait" /\ hba.is # {}
  /\ hba.is \cap {"pio", "d2h"} = {} \/ Status = "busy"
  /\ hba' = [hba EXCEPT !.is = {}]
  /\ UNCHANGED <<pc, port, live, device, table, moved, req, left>>

PollSuccess ==
  /\ pc = "wait" /\ hba.is \cap {"pio", "d2h"} # {} /\ Status = "ok"
  /\ hba' = [hba EXCEPT !.is = {}]
  /\ req' = [req EXCEPT !.ok = TRUE, !.mistaken = @ \/ req.behind]
  /\ pc' = req.then
  /\ UNCHANGED <<port, live, device, table, moved, left>>

PollError ==
  /\ pc = "wait" /\ hba.is \cap {"pio", "d2h"} # {} /\ Status = "error"
  /\ hba' = Stop([hba EXCEPT !.is = {}])
  /\ pc' = "recover"
  /\ UNCHANGED <<port, live, device, table, moved, req, left>>

GiveUp ==
  /\ pc = "wait" /\ hba.is \cap {"pio", "d2h"} = {}
  /\ Spend("timeouts")
  /\ hba' = [hba EXCEPT !.is = {}]
  /\ req' = [req EXCEPT !.gaveup = TRUE]
  /\ pc' = req.then
  /\ UNCHANGED <<port, live, device, table, moved>>

\* Deviation: the device is not reset.
Recovered_busy == device
\* COMRESET if the device is busy or has data.
Recovered == [device EXCEPT !.state = "idle"]

\* The controller has stopped (there is no timeout).
Recover ==
  /\ pc = "recover" /\ ~hba.cr
  /\ device' = Recovered
  /\ hba' = Start([hba EXCEPT !.is = {}])
  /\ req' = [req EXCEPT !.gaveup = FALSE]
  /\ pc' = req.then
  /\ UNCHANGED <<port, live, table, moved, left>>

----------------------------------------------------------------------------
(* ahci_port_reset(), with what its callers go on with                       *)

ResetStep ==
  /\ pc \in {"reset", "release", "realloc"} /\ Running(hba)
  /\ hba' = Stop([hba EXCEPT !.fre = FALSE])
  /\ hba' # hba
  /\ UNCHANGED <<pc, port, live, device, table, moved, req, left>>

\* What follows the reset: ahci_port_setup(), the end of ahci_port_release(), or
\* that of ahci_port_realloc(), where an allocation may fail.
AfterReset(late) ==
  LET h == [hba EXCEPT !.is = {}]
      r == [req EXCEPT !.late = @ \/ late]
  IN  \/ /\ pc = "reset"
         /\ hba' = [h EXCEPT !.fre = TRUE, !.fr = TRUE]
         /\ pc' = "link"
         /\ req' = r
         /\ UNCHANGED <<port, live, left>>
      \/ /\ pc = "release"
         /\ live' = live \ {port.block}
         /\ hba' = h
         /\ pc' = "gone"
         /\ req' = r
         /\ UNCHANGED <<port, left>>
      \/ /\ pc = "realloc"
         /\ live' = (live \ {"tmp"}) \cup {"high"}
         /\ port' = [port EXCEPT !.block = "high"]
         /\ hba' = Start([h EXCEPT !.block = "high", !.fre = TRUE, !.fr = TRUE])
         /\ pc' = "ready"
         /\ req' = [r EXCEPT !.ok = FALSE]
         /\ UNCHANGED left
      \/ /\ pc = "realloc" /\ ~late
         /\ Spend("failures")
         /\ live' = live \ {"tmp"}
         /\ hba' = h
         /\ pc' = "gone"
         /\ req' = r
         /\ UNCHANGED port

ahci_port_reset ==
  /\ ~Running(hba)
  /\ AfterReset(FALSE)
  /\ UNCHANGED <<device, table, moved>>

ResetGivesUp ==
  /\ Running(hba) /\ ~hba.fre /\ ~hba.st
  /\ left.timeouts > 0
  /\ AfterReset(TRUE)
  /\ UNCHANGED <<device, table, moved>>

----------------------------------------------------------------------------
(* Detection                                                                 *)

ahci_port_alloc ==
  /\ pc = "alloc"
  /\ \/ /\ live' = {"tmp"}
        /\ hba' = [hba EXCEPT !.block = "tmp"]
        /\ pc' = "reset"
        /\ UNCHANGED left
     \/ /\ Spend("failures")
        /\ pc' = "gone"
        /\ UNCHANGED <<live, hba>>
  /\ UNCHANGED <<port, device, table, moved, req>>

\* The link comes up or does not.
Link ==
  /\ pc = "link"
  /\ \/ device.kind # "none" /\ pc' = "busy" /\ UNCHANGED left
     \/ device.kind = "none" /\ pc' = "release" /\ UNCHANGED left
     \/ device.kind # "none" /\ Spend("timeouts") /\ pc' = "release"
  /\ UNCHANGED <<port, live, hba, device, table, moved, req>>

\* The device becomes ready, and is told to identify itself, or does not.
DeviceReady ==
  /\ pc = "busy"
  /\ \/ /\ device.state = "idle"
        /\ table' = [cmd |-> "identify_packet", n |-> req.n + 1]
        /\ hba' = Issue(Start(hba))
        /\ req' = [req EXCEPT !.n = @ + 1, !.then = "packet", !.ok = FALSE]
        /\ pc' = "wait"
        /\ UNCHANGED left
     \/ /\ Spend("timeouts")
        /\ pc' = "release"
        /\ UNCHANGED <<table, hba, req>>
  /\ UNCHANGED <<port, live, device, moved>>

\* The end of IDENTIFY PACKET DEVICE.  A device that is not a CD is let go.
IdentifyEnds ==
  /\ pc = "packet"
  /\ IF req.ok
     THEN /\ port' = [port EXCEPT !.atapi = TRUE]
          /\ pc' = IF device.kind = "other" THEN "release" ELSE "realloc"
          /\ UNCHANGED <<table, hba, req>>
     ELSE ahci_command("identify", "disk") /\ UNCHANGED port
  /\ UNCHANGED <<live, device, moved, left>>

\* The end of IDENTIFY DEVICE; the mode is set, whether or not that succeeds.
DiskFound ==
  /\ pc = "disk"
  /\ IF req.ok THEN ahci_command("set_features", "realloc")
     ELSE pc' = "release" /\ UNCHANGED <<table, hba, req>>
  /\ UNCHANGED <<port, live, device, moved, left>>

\* ahci_port_realloc() has no memory for the port itself.
NoPort ==
  /\ pc = "realloc" /\ hba.fre
  /\ Spend("failures")
  /\ pc' = "release"
  /\ UNCHANGED <<port, live, hba, device, table, moved, req>>

\* Requests after POST.
ahci_process_op ==
  /\ pc = "ready"
  /\ Spend("requests")
  /\ ahci_command(IF port.atapi THEN "packet" ELSE "readwrite", "ready")
  /\ UNCHANGED <<port, live, device, moved>>

----------------------------------------------------------------------------
(* The controller and the device                                             *)

\* Does this kind of device know the command?
Knows(kind, cmd) ==
  \/ kind = "disk" /\ cmd \in {"identify", "set_features", "readwrite"}
  \/ kind \in {"cd", "other"} /\ cmd \in {"identify_packet", "packet"}

Fetch ==
  /\ hba.st /\ hba.ci /\ ~hba.halted /\ hba.active = None
  /\ device.state = "idle"
  /\ hba' = [hba EXCEPT !.active = table]
  /\ device' = [device EXCEPT !.state = "busy"]
  /\ UNCHANGED <<pc, port, live, table, moved, req, left>>

\* Done: a data-in command by PIO ends with the PIO setup FIS.
Done ==
  /\ hba.active # None /\ Knows(device.kind, hba.active.cmd)
  /\ hba' = LET fis == IF hba.active.cmd \in {"identify", "identify_packet"}
                      THEN "pio" ELSE "d2h"
            IN  [hba EXCEPT !.active = None, !.ci = FALSE, !.is = @ \cup {fis},
                            ![fis] = "ok"]
  /\ moved' = [cmd |-> hba.active.n, buf |-> table.n]
  /\ device' = [device EXCEPT !.state = "idle"]
  /\ UNCHANGED <<pc, port, live, table, req, left>>

\* The command fails; the device may stay busy or with data to move.
Failed ==
  /\ hba.active # None
  /\ IF Knows(device.kind, hba.active.cmd) THEN Spend("errors") ELSE UNCHANGED left
  /\ hba' = [hba EXCEPT !.active = None, !.halted = TRUE, !.is = @ \cup {"d2h"},
                        !.d2h = "error"]
  /\ \E state \in {"idle", "busy", "drq"} : device' = [device EXCEPT !.state = state]
  /\ UNCHANGED <<pc, port, live, table, moved, req>>

\* On its way: an interrupt bit of another kind, or a FIS with a busy status.
Noise(bit) ==
  /\ hba.active # None
  /\ Spend("noise")
  /\ hba' = [hba EXCEPT !.is = @ \cup {bit}, !.d2h = IF bit = "d2h" THEN "busy" ELSE @]
  /\ UNCHANGED <<pc, port, live, device, table, moved, req>>

\* CR and FR follow ST and FRE.
Stopped ==
  /\ \/ hba.cr /\ ~hba.st /\ hba' = [hba EXCEPT !.cr = FALSE]
     \/ hba.fr /\ ~hba.fre /\ ~hba.cr /\ hba' = [hba EXCEPT !.fr = FALSE]
  /\ UNCHANGED <<pc, port, live, device, table, moved, req, left>>

\* A device that was busy when its command was taken away, or since power on.
Settles ==
  /\ device.state = "busy" /\ hba.active = None
  /\ device' = [device EXCEPT !.state = "idle"]
  /\ UNCHANGED <<pc, port, live, hba, table, moved, req, left>>

----------------------------------------------------------------------------

Init ==
  /\ pc = "alloc"
  /\ port = [block |-> "tmp", atapi |-> FALSE]
  /\ live = {}
  /\ hba = HbaOff
  /\ device \in [kind : Kinds, state : {"idle", "busy"}]
  /\ table = None
  /\ moved = [cmd |-> 0, buf |-> 0]
  /\ req = [n |-> 0, then |-> "gone", ok |-> FALSE, behind |-> FALSE, gaveup |-> FALSE,
            late |-> FALSE, mistaken |-> FALSE]
  /\ left \in Worlds

Next ==
  \/ ahci_port_alloc \/ ResetStep \/ ahci_port_reset \/ ResetGivesUp
  \/ Link \/ DeviceReady \/ IdentifyEnds \/ DiskFound \/ NoPort \/ ahci_process_op
  \/ PollOn \/ PollSuccess \/ PollError \/ GiveUp \/ Recover
  \/ Fetch \/ Done \/ Failed \/ Stopped \/ Settles
  \/ \E bit \in {"d2h", "other"} : Noise(bit)

Spec == Init /\ [][Next]_vars

----------------------------------------------------------------------------
(* Properties                                                                 *)

\* Whatever fails while a port is set up and used: a request that succeeds was carried
\* out, and its data is in its buffer, unless the controller still had an earlier
\* command when it was issued, which only happens if one was given up since the last
\* recovery from an error; after every other end of a request the port takes the next.
\* The controller has no list or FIS area in memory that was freed, unless it took
\* longer than AHCI_RESET_TIMEOUT to stop; and what is registered as a CD is one.
PortTrue ==
  /\ pc # "wait" /\ req.ok /\ ~req.behind => moved = [cmd |-> req.n, buf |-> req.n]
  /\ pc = "wait" /\ req.behind => req.gaveup
  /\ pc = "ready" /\ ~req.gaveup =>
       /\ hba.st /\ hba.fre /\ ~hba.ci /\ ~hba.halted /\ hba.active = None
       /\ device.state # "drq"
  /\ Running(hba) => hba.block \in live \/ req.late
  /\ pc = "ready" => port.atapi = (device.kind = "cd") \/ req.mistaken
=============================================================================
