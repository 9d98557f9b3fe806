-------------------------------- MODULE Floppy --------------------------------
(***************************************************************************)
(* The floppy driver (src/hw/floppy.c): requests of int 13h become         *)
(* commands to the controller, between which interrupts (int 0Eh) and      *)
(* clock ticks (int 08h) come in wherever the driver yields.               *)
(*                                                                         *)
(* The bytes of a command go out in one step, and those of its result come *)
(* in in one.  The time a motor needs to spin up, which only builds        *)
(* without CONFIG_QEMU wait for, is part of the wait for the controller to *)
(* take the command.                                                       *)
(***************************************************************************)
EXTENDS Naturals, FiniteSets

CONSTANTS
  FloppyDrives, Cylinders,
  FloppyCommands, \* of int 13h: "reset", "verify", "transfer" (read, write, format)
  PIO_TIMEOUT, IRQ_TIMEOUT,  \* FLOPPY_PIO_TIMEOUT, FLOPPY_IRQ_TIMEOUT, in ticks
  MOTOR_TICKS,    \* FLOPPY_MOTOR_TICKS
  MOTOR_MAX,      \* 255
  MediaTypes,     \* how many types of media floppy_media_sense() tries
  MaxOps          \* bound

\* The motor is kept on longer than a command can take.
ASSUME FloppyAssumption ==
  /\ FloppyDrives # {} /\ 0 \in Cylinders
  /\ {PIO_TIMEOUT, IRQ_TIMEOUT, MOTOR_TICKS, MOTOR_MAX} \subseteq Nat
  /\ MediaTypes \in Nat \ {0}
  /\ PIO_TIMEOUT + IRQ_TIMEOUT < MOTOR_MAX

VARIABLES
  bda,        \* [irq, recal, media, track, motor_counter]
  FloppyDOR,  \* [motor, irq, reset]
  fdc,        \* the controller: [phase, cmd, irq, senses, bytes, ok]
  drive,      \* [head, astray, specified]; the head of a drive that is astray
              \* did not arrive where it was last sent, or the driver gave up on it
  op          \* the request and the command in progress

floppyVars == <<bda, FloppyDOR, fdc, drive, op>>

----------------------------------------------------------------------------
(* Commands                                                                  *)

WaitsIrq(c) == c \in {"RECALIBRATE", "SEEK", "READID", "DMA"}
Receive(c) == CASE c \in {"READID", "DMA"} -> 7 [] c = "CHECKIRQ" -> 2 [] OTHER -> 0

\* The command a step of a request sends.
CommandOf(step) ==
  CASE step = "recal" -> "RECALIBRATE" [] step = "sense" -> "READID"
    [] step = "specify" -> "SPECIFY" [] step = "seek" -> "SEEK" [] OTHER -> "DMA"

\* The loops of floppy_pio() and floppy_wait_irq(), usleep(), and the caller.
AtYield == op.pc \in {"idle", "settle", "enabling", "sending", "waiting", "receiving"}

Limit == IF op.pc \in {"enabling", "waiting"} THEN IRQ_TIMEOUT ELSE PIO_TIMEOUT

\* Main status register: ready for a byte from the CPU, or with one for it.
Ready == fdc.phase \in {"idle", "seeking"}
HasResult == fdc.phase = "result"

\* The controller with nothing to do, told or not.
At(phase, senses) ==
  [phase |-> phase, irq |-> FALSE, senses |-> senses, bytes |-> 0, ok |-> TRUE, to |-> 0]
InReset == At("reset", 0)

\* floppy_reset(), the BIOS data area.
Forgotten ==
  [bda EXCEPT !.recal = {}, !.media = {}, !.track = [d \in FloppyDrives |-> 0],
              !.irq = FALSE]

----------------------------------------------------------------------------
(* Requests.  A request goes through the steps of floppy_prep() and the       *)
(* transfer; at pc "start" a step is about to send its command.               *)

StartStep(step) == [op EXCEPT !.pc = "start", !.step = step, !.tries = MediaTypes]

\* Between requests the driver keeps nothing; "n" and "unspecified" are history.
Idle ==
  [pc |-> "idle", command |-> "reset", drive |-> CHOOSE d \in FloppyDrives : TRUE,
   cylinder |-> 0, step |-> "reset", cmd |-> "CHECKIRQ", checks |-> 0, tries |-> 0,
   time |-> 0, unspecified |-> FALSE, n |-> 0]

Return(o) == [Idle EXCEPT !.unspecified = o.unspecified, !.n = o.n]

\* The end of floppy_prep(), with the drive on track t.
AfterPrep(t) ==
  IF op.cylinder # t THEN StartStep("seek")
  ELSE IF op.command = "verify" THEN Return(op) ELSE StartStep("transfer")

floppy_process_op(c, d, cyl) ==
  /\ op.pc = "idle"
  /\ op.n < MaxOps
  /\ c = "reset" => d = op.drive /\ cyl = op.cylinder
  /\ LET o == [op EXCEPT !.command = c, !.drive = d, !.cylinder = cyl, !.n = @ + 1]
     IN  IF c = "reset"
         THEN /\ bda' = Forgotten
              /\ FloppyDOR' = [FloppyDOR EXCEPT !.irq = FALSE, !.reset = FALSE]
              /\ fdc' = InReset
              /\ op' = [o EXCEPT !.pc = "start", !.step = "reset", !.unspecified = FALSE]
         ELSE /\ LET first == IF d \notin bda.recal \cap bda.media THEN "recal"
                             ELSE IF cyl # bda.track[d] THEN "seek" ELSE "transfer"
                 IN  op' = IF first = "transfer" /\ c = "verify" THEN Return(o)
                           ELSE [o EXCEPT !.pc = "start", !.step = first,
                                          !.tries = MediaTypes]
              /\ UNCHANGED <<bda, FloppyDOR, fdc>>
  /\ UNCHANGED drive

\* Deviation: the motor is kept on as long as after a command.
MotorKept_briefly == [bda EXCEPT !.motor_counter = MOTOR_TICKS]
\* The tick is kept from turning the motor off during a command.
MotorKept == [bda EXCEPT !.motor_counter = MOTOR_MAX]

\* floppy_drive_pio() up to floppy_pio(); SPECIFY goes to floppy_pio() at once.
\* With the controller off, floppy_enable_controller() up to its usleep().
floppy_drive_pio ==
  /\ op.pc = "start"
  /\ IF op.step # "specify" /\ ~FloppyDOR.reset
     THEN /\ FloppyDOR' = [FloppyDOR EXCEPT !.irq = TRUE]
          /\ op' = [op EXCEPT !.pc = "settle", !.time = 0]
          /\ UNCHANGED bda
     ELSE /\ op' = [op EXCEPT !.pc = "sending", !.cmd = CommandOf(op.step), !.time = 0]
          /\ IF op.step = "specify" THEN UNCHANGED <<bda, FloppyDOR>>
             ELSE /\ bda' = MotorKept
                  /\ FloppyDOR' = [motor |-> {op.drive}, irq |-> TRUE, reset |-> TRUE]
  /\ UNCHANGED <<fdc, drive>>

\* The reset bit is set; floppy_wait_irq() begins.
LeaveReset ==
  /\ op.pc = "settle"
  /\ FloppyDOR' = [FloppyDOR EXCEPT !.irq = TRUE, !.reset = TRUE]
  /\ fdc' = [fdc EXCEPT !.phase = "resetting"]
  /\ bda' = [bda EXCEPT !.irq = FALSE]
  /\ op' = [op EXCEPT !.pc = "enabling", !.time = 0]
  /\ UNCHANGED drive

\* floppy_wait_irq() sees the interrupt.
IrqSeen ==
  /\ bda.irq
  /\ op.time < IRQ_TIMEOUT
  /\ bda' = [bda EXCEPT !.irq = FALSE]
  /\ \/ /\ op.pc = "enabling"
        /\ op' = [op EXCEPT !.pc = "sending", !.cmd = "CHECKIRQ", !.checks = 4, !.time = 0]
     \/ /\ op.pc = "waiting"
        /\ op' = [op EXCEPT !.pc = "receiving", !.time = 0]
  /\ UNCHANGED <<FloppyDOR, fdc, drive>>

\* The controller takes the command; it answers one it does not know, and a sense
\* command if it has nothing to tell, with one byte.  floppy_wait_irq() begins.
Send(known) ==
  /\ op.pc = "sending"
  /\ Ready
  /\ known \/ op.cmd # "CHECKIRQ"
  /\ fdc' = CASE ~known -> [fdc EXCEPT !.phase = "result", !.bytes = 1]
              [] op.cmd = "CHECKIRQ" ->
                   [fdc EXCEPT !.phase = "result", !.irq = FALSE,
                      !.bytes = IF fdc.senses > 0 THEN 2 ELSE 1,
                      !.senses = IF @ > 0 THEN @ - 1 ELSE 0]
              [] known /\ op.cmd \in {"RECALIBRATE", "SEEK"} ->
                   [fdc EXCEPT !.phase = "seeking",
                               !.to = IF op.cmd = "SEEK" THEN op.cylinder ELSE 0]
              [] known /\ op.cmd = "SPECIFY" -> fdc
              [] known /\ op.cmd \in {"READID", "DMA"} -> [fdc EXCEPT !.phase = "exec"]
  /\ drive' = [drive EXCEPT !.specified = @ \/ (known /\ op.cmd = "SPECIFY")]
  /\ bda' = [bda EXCEPT !.irq = @ /\ ~WaitsIrq(op.cmd)]
  /\ op' = [op EXCEPT !.pc = IF WaitsIrq(op.cmd) THEN "waiting" ELSE "receiving",
                      !.time = 0]
  /\ UNCHANGED FloppyDOR

----------------------------------------------------------------------------
(* What follows a command                                                    *)

\* floppy_drive_pio() resets the counter when its command has ended either way.
DriveCommandEnds(b) ==
  IF op.checks = 0 /\ op.cmd \notin {"CHECKIRQ", "SPECIFY"}
  THEN [b EXCEPT !.motor_counter = MOTOR_TICKS] ELSE b

\* A READ ID that fails: floppy_media_sense() tries the next type.  Which error is
\* returned is left out.
Failed ==
  IF op.step = "sense" /\ op.tries > 1
  THEN [op EXCEPT !.pc = "start", !.tries = @ - 1, !.checks = 0]
  ELSE [Return(op) EXCEPT !.unspecified = @ \/ op.step = "specify"]

\* The step is done.
StepEnds(b) ==
  CASE op.step = "recal" ->
         /\ bda' = [b EXCEPT !.recal = @ \cup {op.drive}, !.track[op.drive] = 0]
         /\ op' = StartStep("sense")
    [] op.step = "sense" ->
         bda' = [b EXCEPT !.media = @ \cup {op.drive}] /\ op' = StartStep("specify")
    [] op.step = "specify" -> bda' = b /\ op' = AfterPrep(b.track[op.drive])
    [] op.step = "seek" ->
         /\ bda' = [b EXCEPT !.track[op.drive] = op.cylinder]
         /\ op' = IF op.command = "verify" THEN Return(op) ELSE StartStep("transfer")
    [] OTHER -> bda' = b /\ op' = Return(op)

\* floppy_pio() returns success; ok tells the status bytes.
PioEnds(ok) ==
  CASE op.cmd = "CHECKIRQ" /\ op.checks > 1 ->
         op' = [op EXCEPT !.pc = "sending", !.checks = @ - 1, !.time = 0] /\ UNCHANGED bda
    [] op.cmd = "CHECKIRQ" /\ op.checks = 1 ->
         /\ op' = IF op.step = "reset" THEN Return(op)
                  ELSE [op EXCEPT !.pc = "start", !.checks = 0]
         /\ UNCHANGED bda
    [] op.cmd \in {"SEEK", "RECALIBRATE"} ->
         /\ op' = [op EXCEPT !.pc = "sending", !.cmd = "CHECKIRQ", !.time = 0]
         /\ bda' = DriveCommandEnds(bda)
    [] OTHER ->
         IF ok THEN StepEnds(DriveCommandEnds(bda))
         ELSE op' = Failed /\ bda' = DriveCommandEnds(bda)

Moved(cyl, arrived) ==
  [drive EXCEPT !.head[op.drive] = cyl,
                !.astray = IF arrived THEN @ \ {op.drive} ELSE @ \cup {op.drive}]

\* floppy_disable_controller(), and an error is returned.  A drive that was moving
\* its head stops somewhere.
Disable ==
  /\ FloppyDOR' = [FloppyDOR EXCEPT !.irq = FALSE, !.reset = FALSE]
  /\ fdc' = InReset
  /\ \E cyl \in IF fdc.phase = "seeking" THEN Cylinders ELSE {drive.head[op.drive]} :
       drive' = IF op.step \in {"recal", "seek"} THEN Moved(cyl, FALSE) ELSE drive
  /\ op' = Failed
  /\ bda' = DriveCommandEnds(bda)

\* The response is as long as expected.
ReceiveAll ==
  /\ op.pc = "receiving"
  /\ IF Receive(op.cmd) = 0 THEN Ready ELSE HasResult /\ fdc.bytes = Receive(op.cmd)
  /\ fdc' = IF HasResult THEN At("idle", fdc.senses) ELSE fdc
  /\ PioEnds(fdc.ok \/ Receive(op.cmd) # 7)
  /\ UNCHANGED <<FloppyDOR, drive>>

\* A byte goes in the wrong direction.
OutOfStep ==
  /\ \/ op.pc = "sending" /\ HasResult
     \/ /\ op.pc = "receiving"
        /\ IF Receive(op.cmd) = 0 THEN HasResult
           ELSE Ready \/ (HasResult /\ fdc.bytes # Receive(op.cmd))
  /\ Disable

TimesOut ==
  /\ \/ op.pc \in {"sending", "receiving"} /\ ~Ready /\ ~HasResult
     \/ op.pc \in {"enabling", "waiting"}
  /\ op.time = Limit
  /\ Disable

----------------------------------------------------------------------------
(* Interrupts, and the controller                                            *)

\* Interrupts reach the driver where it yields.
handle_0e ==
  /\ AtYield
  /\ fdc.irq /\ FloppyDOR.irq
  /\ fdc' = [fdc EXCEPT !.irq = FALSE]
  /\ bda' = [bda EXCEPT !.irq = TRUE]
  /\ UNCHANGED <<FloppyDOR, drive, op>>

\* int 08h; time passes.
floppy_tick ==
  /\ AtYield
  /\ IF op.pc \in {"idle", "settle"} THEN bda.motor_counter > 0 /\ op' = op
     ELSE op.time < Limit /\ op' = [op EXCEPT !.time = @ + 1]
  /\ bda' = [bda EXCEPT !.motor_counter = IF @ > 0 THEN @ - 1 ELSE 0]
  /\ FloppyDOR' = [FloppyDOR EXCEPT !.motor = IF bda.motor_counter = 1 THEN {} ELSE @]
  /\ UNCHANGED <<fdc, drive>>

\* The controller is out of reset, a drive has moved its head or has not, which
\* floppy_drive_pio() does not look at, or a command with a result is done.
Completes(ok) ==
  /\ \/ /\ fdc.phase = "resetting" /\ ok
        /\ fdc' = [fdc EXCEPT !.phase = "idle", !.irq = TRUE, !.senses = 4]
        /\ UNCHANGED drive
     \/ /\ fdc.phase = "seeking"
        /\ fdc' = [fdc EXCEPT !.phase = "idle", !.irq = TRUE, !.senses = 1, !.to = 0]
        /\ IF ok THEN drive' = Moved(fdc.to, TRUE)
           ELSE drive' = Moved(drive.head[op.drive], FALSE)
     \/ /\ fdc.phase = "exec"
        /\ fdc' = [fdc EXCEPT !.phase = "result", !.irq = TRUE, !.bytes = 7, !.ok = ok]
        /\ UNCHANGED drive
  /\ UNCHANGED <<bda, FloppyDOR, op>>

----------------------------------------------------------------------------

\* floppy_setup() leaves the controller in reset.
FloppyInit ==
  /\ bda = [irq |-> FALSE, recal |-> {}, media |-> {}, track |-> [d \in FloppyDrives |-> 0],
            motor_counter |-> 0]
  /\ FloppyDOR = [motor |-> {}, irq |-> FALSE, reset |-> FALSE]
  /\ fdc = InReset
  /\ drive \in [head : [FloppyDrives -> Cylinders], astray : {{}}, specified : {FALSE}]
  /\ op = Idle

FloppyNext ==
  \/ \E c \in FloppyCommands, d \in FloppyDrives, cyl \in Cylinders :
       floppy_process_op(c, d, cyl)
  \/ floppy_drive_pio \/ LeaveReset \/ IrqSeen \/ ReceiveAll \/ OutOfStep \/ TimesOut
  \/ handle_0e \/ floppy_tick
  \/ \E ok \in BOOLEAN : Send(ok) \/ Completes(ok)

FloppySpec == FloppyInit /\ [][FloppyNext]_floppyVars

----------------------------------------------------------------------------
(* Properties                                                                 *)

\* However requests fail, controllers hang and interrupts come late, and whatever
\* the tick does to the motor meanwhile: a command is never sent into the result
\* of an earlier one; while a drive moves its head or transfers, its motor is on
\* and the interrupt enabled; and a transfer finds the head on the cylinder the
\* caller asked for, unless its last move failed or was given up, and the controller
\* programmed, unless that was given up since the last reset.
FloppyInStep ==
  /\ op.pc = "sending" => ~HasResult
  /\ fdc.phase \in {"seeking", "exec"} /\ op.pc # "idle" =>
       FloppyDOR.motor = {op.drive} /\ FloppyDOR.irq /\ FloppyDOR.reset
  /\ fdc.phase = "exec" /\ op.step = "transfer" =>
       /\ drive.head[op.drive] = op.cylinder \/ op.drive \in drive.astray
       /\ drive.specified \/ op.unspecified
  /\ op.pc = "idle" => fdc.phase \in {"reset", "idle"}
  /\ ~FloppyDOR.reset <=> fdc.phase = "reset"
=============================================================================
