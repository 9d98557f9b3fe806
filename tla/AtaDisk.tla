------------------------------- MODULE AtaDisk -------------------------------
(* src/hw/ata.c: the two drives of an ATA channel, found and then used.       *)
(*                                                                            *)
(* A block that crosses the data port or the bus is recorded in "moved" as    *)
(* [write, slave, lba, place].  A number that takes several registers is split*)
(* into digits that are as small as the instance needs: SectorCount and Lba24 *)
(* are the moduli of a count and an address register.  The drives work between*)
(* any two accesses, and every wait may end by its timeout first.             *)
EXTENDS Integers, Sequences, SequencesExt

CONSTANTS
  Worlds,        \* [kinds, busmaster, requests, timeouts, errors]: what may happen
  Requests,      \* [command, slave, lba, count, buf, odd]: the callers' requests
  DiskSize,
  SectorCount,   \* 2^8: what a sector count register holds
  Lba24,         \* 2^24: what the address registers of one write hold
  Lba28,         \* 2^28: what they hold with the device register
  Segment,       \* 64 KiB, in blocks: no descriptor crosses its multiples
  MaxPrds        \* descriptors for which there is room

VARIABLES
  world,         \* the machine that runs
  drv,           \* the step, the request and the locals of the driver
  found,         \* the drives that were registered: for each, its type
  select,        \* the drive that the registers belong to
  nien,          \* ATA_CB_DC_NIEN: interrupts are masked
  bm,            \* the bus master: its start, active and interrupt bits, its table
  drive,         \* the drives: external, as the driver meets them
  moved,         \* the blocks that the request under way has moved
  left           \* what may still happen

vars == <<world, drv, found, select, nien, bm, drive, moved, left>>

Slaves == {0, 1}

LOCAL Least(a, b) == IF a < b THEN a ELSE b
LOCAL Most(a, b) == IF a > b THEN a ELSE b

----------------------------------------------------------------------------
(* The commands.                                                              *)

\* Deviation: the sector count alone decides.
Extended_count(op) == op.count >= SectorCount

\* ata_readwrite(): long addresses and counts take the registers twice.
Extended(op) == op.count >= SectorCount \/ op.lba + op.count >= Lba28

\* The registers of a command.
Registers(op) ==
  [ext |-> Extended(op),
   count |-> op.count % SectorCount, count2 |-> op.count \div SectorCount,
   lba |-> op.lba % Lba24, lba2 |-> op.lba \div Lba24,
   device |-> IF Extended(op) THEN 0 ELSE (op.lba \div Lba24) % (Lba28 \div Lba24)]

\* What a drive takes registers for: a count of 0 is the largest.
Decoded(r) ==
  LET n == IF r.ext THEN r.count2 * SectorCount + r.count ELSE r.count
  IN [lba |-> r.lba + Lba24 * (IF r.ext THEN r.lba2 ELSE r.device),
      count |-> IF n # 0 THEN n ELSE IF r.ext THEN SectorCount * SectorCount
                ELSE SectorCount]

\* ata_try_dma(): the parts of the buffer in different segments.  A descriptor's count
\* is taken modulo the segment's size.
Prds(op) ==
  [k \in 1 .. ((op.buf + op.count - 1) \div Segment) - (op.buf \div Segment) + 1 |->
     LET first == Most(op.buf, (op.buf \div Segment + k - 1) * Segment)
         end == Least(op.buf + op.count, (op.buf \div Segment + k) * Segment)
     IN [addr |-> first, count |-> (end - first) % Segment]]

\* The places that the bus master takes the blocks to or from.
Places(table) ==
  FlattenSeq([k \in 1 .. Len(table) |->
    [i \in 1 .. IF table[k].count = 0 THEN Segment ELSE table[k].count |->
       table[k].addr + i - 1]])

UsesDma(op) ==
  /\ op.command \in {"read", "write"} /\ found[op.slave] = "ata"
  /\ world.busmaster /\ ~op.odd /\ Len(Prds(op)) <= MaxPrds

----------------------------------------------------------------------------
(* The drives: external.  A command that is written while a drive is busy or  *)
(* has data to exchange is not taken.                                         *)

Idle == [state |-> "idle", command |-> "none", lba |-> 0, count |-> 0, done |-> 0,
         phase |-> "none"]

Busy(s) == drive[s].state = "busy"
Drq(s) == drive[s].state = "drq"
Err(s) == drive[s].state = "error"
Absent(s) == world.kinds[s] = "none"

Take(s, op) ==
  IF Absent(s) \/ Busy(s) \/ Drq(s) THEN drive
  ELSE LET d == IF found[s] = "ata" THEN Decoded(Registers(op))
                ELSE [lba |-> op.lba, count |-> op.count]
       IN [drive EXCEPT ![s] = [state |-> "busy", command |-> op.command, lba |-> d.lba,
             count |-> d.count, done |-> 0,
             phase |-> CASE UsesDma(op) -> "dma"
                         [] found[s] = "atapi" -> "packet"
                         [] OTHER -> "pio"]]

\* What a drive answers to: the identify command of its own kind, and blocks it has.
Valid(s) ==
  LET d == drive[s]
  IN CASE d.command = "identify" -> world.kinds[s] = "ata"
       [] d.command = "identify_packet" -> world.kinds[s] = "atapi"
       [] OTHER -> world.kinds[s] = found[s] /\ d.lba + d.count <= DiskSize

Move(s, place) ==
  moved' = moved \cup {[write |-> drive[s].command = "write", slave |-> s,
                        lba |-> drive[s].lba + drive[s].done, place |-> place]}

\* An interrupt is latched by the bus master.
Interrupt(b) == IF nien THEN b ELSE [b EXCEPT !.irq = TRUE]

\* A drive goes on with its command, by itself.
DriveWorks(s) ==
  LET d == drive[s]
      dma == d.phase = "dma" /\ d.command # "none"
      goes == [d EXCEPT !.state = IF d.phase = "packet" \/ d.done < d.count THEN "drq"
                                  ELSE "idle"]
  IN /\ Busy(s)
     /\ \/ /\ d.command = "none"
           /\ drive' = [drive EXCEPT ![s] = Idle]
           /\ UNCHANGED <<bm, moved, left>>
        \/ /\ d.command # "none" /\ ~dma /\ Valid(s)
           /\ drive' = [drive EXCEPT ![s] = goes]
           /\ bm' = Interrupt(bm)
           /\ UNCHANGED <<moved, left>>
        \/ /\ dma /\ Valid(s) /\ bm.start /\ select = s
           /\ drive' = [drive EXCEPT ![s].done = @ + 1,
                                     ![s].state = IF d.done + 1 < d.count THEN @
                                                  ELSE "idle"]
           /\ Move(s, Places(bm.table)[d.done + 1])
           /\ bm' = IF d.done + 1 < d.count THEN bm
                    ELSE Interrupt([bm EXCEPT !.active = FALSE])
           /\ UNCHANGED left
        \/ /\ d.command # "none"
           /\ IF Valid(s) /\ (dma => bm.start)
              THEN left.errors > 0 /\ left' = [left EXCEPT !.errors = @ - 1]
              ELSE UNCHANGED left
           /\ drive' = [drive EXCEPT ![s].state = "error"]
           /\ bm' = Interrupt(bm)
           /\ UNCHANGED moved
     /\ UNCHANGED <<world, drv, found, select, nien>>

\* The data port is read or written.
Exchange(s, write, place) ==
  LET d == drive[s]
  IN IF Drq(s) /\ d.phase # "packet" /\ (d.command = "write") = write
     THEN /\ Move(s, place)
          /\ drive' = [drive EXCEPT ![s].done = @ + 1,
               ![s].state = IF d.done + 1 < d.count \/ write THEN "busy" ELSE "idle"]
     ELSE UNCHANGED <<drive, moved>>

----------------------------------------------------------------------------
(* Requests.                                                                  *)

Goto(d, pc) == [d EXCEPT !.pc = pc]

\* A request ends with interrupts enabled, whatever became of it.
End(ret) == /\ drv' = [Goto(drv, drv.next) EXCEPT !.ret = ret]
            /\ nien' = FALSE

\* ata_pio_cmd_data(), ata_dma_cmd_data() and ata_atapi_process_op() begin.
Begin(op, next) ==
  /\ drv' = [drv EXCEPT !.pc = "send", !.op = op, !.more = op.count, !.ret = 0,
                        !.next = next]
  /\ nien' = ~UsesDma(op)
  /\ moved' = {}
  /\ bm' = IF UsesDma(op) THEN [bm EXCEPT !.irq = FALSE, !.table = Prds(op)] ELSE bm

\* send_cmd(): the drive that is selected is not busy; another one may have to be
\* selected, which must not be busy either.
Send ==
  /\ drv.pc = "send" /\ ~Busy(select)
  /\ select' = drv.op.slave
  /\ IF select = drv.op.slave
     THEN /\ drive' = Take(select, drv.op)
          /\ drv' = Goto(drv, IF UsesDma(drv.op) THEN "start" ELSE "data")
     ELSE drv' = Goto(drv, "send") /\ UNCHANGED drive
  /\ UNCHANGED <<world, found, nien, bm, moved, left>>

\* ata_wait_data(), and the packet of ata_atapi_process_op().
WaitData ==
  /\ drv.pc = "data" /\ ~Busy(select)
  /\ IF Err(select) \/ ~Drq(select)
     THEN End(-4) /\ UNCHANGED drive
     ELSE IF found[select] = "atapi"
     THEN /\ drive' = IF drive[select].phase = "packet"
                      THEN [drive EXCEPT ![select].state = "busy", ![select].phase = "pio"]
                      ELSE drive
          /\ drv' = Goto(drv, "packet")
          /\ UNCHANGED nien
     ELSE drv' = Goto(drv, "transfer") /\ UNCHANGED <<nien, drive>>
  /\ UNCHANGED <<world, found, select, bm, moved, left>>

\* ata_atapi_process_op(): the packet has been taken.
Packet ==
  /\ drv.pc = "packet" /\ ~Busy(select)
  /\ CASE Err(select) -> End(-2)
       [] ~Err(select) /\ drv.op.count = 0 -> End(0)
       [] ~Err(select) /\ drv.op.count # 0 ->
            IF Drq(select) THEN drv' = Goto(drv, "transfer") /\ UNCHANGED nien
            ELSE End(-3)
  /\ UNCHANGED <<world, found, select, bm, drive, moved, left>>

\* ata_pio_transfer(): a block.
Transfer ==
  /\ drv.pc = "transfer"
  /\ Exchange(select, drv.op.command = "write", drv.op.buf + drv.op.count - drv.more)
  /\ drv' = Goto(drv, "block")
  /\ UNCHANGED <<world, found, select, nien, bm, left>>

\* ata_pio_transfer(): the drive is done with the block.
Block ==
  /\ drv.pc = "block" /\ ~Busy(select)
  /\ IF drv.more = 1 THEN End(IF Err(select) \/ Drq(select) THEN -7 ELSE 0)
     ELSE IF Drq(select)
     THEN drv' = [Goto(drv, "transfer") EXCEPT !.more = @ - 1] /\ UNCHANGED nien
     ELSE End(-6)
  /\ UNCHANGED <<world, found, select, bm, drive, moved, left>>

\* ata_dma_transfer(): the bus master starts,
Start ==
  /\ drv.pc = "start"
  /\ bm' = [bm EXCEPT !.start = TRUE, !.active = TRUE]
  /\ drv' = Goto(drv, "interrupt")
  /\ UNCHANGED <<world, found, select, nien, drive, moved, left>>

\* has seen an interrupt, or has not in time, and stops;
Stop(irq) ==
  /\ bm' = [bm EXCEPT !.start = FALSE, !.active = FALSE]
  /\ drv' = [Goto(drv, "stopped") EXCEPT !.ret = IF irq /\ ~bm.active THEN 0 ELSE -1]

SeeInterrupt ==
  /\ drv.pc = "interrupt" /\ bm.irq
  /\ Stop(TRUE)
  /\ UNCHANGED <<world, found, select, nien, drive, moved, left>>

\* the drive must be done too.
Stopped ==
  /\ drv.pc = "stopped" /\ ~Busy(select)
  /\ End(IF Err(select) \/ Drq(select) THEN -1 ELSE drv.ret)
  /\ UNCHANGED <<world, found, select, bm, drive, moved, left>>

\* ata_reset(): both drives drop what they do, and the channel is theirs again.
Reset(next, slave) ==
  /\ drive' = [s \in Slaves |-> IF Absent(s) THEN Idle ELSE [Idle EXCEPT !.state = "busy"]]
  /\ select' = 0
  /\ nien' = TRUE
  /\ drv' = [drv EXCEPT !.pc = "resetting", !.next = next, !.op.slave = slave, !.ret = 0,
                        !.op.command = "reset", !.settled = TRUE,
                        !.reset = TRUE]
  /\ moved' = {}

\* ata_reset(): the first drive is not busy, then the second when it is the one.
Resetting ==
  /\ drv.pc = "resetting" /\ ~Busy(select)
  /\ select' = drv.op.slave
  /\ IF select = drv.op.slave THEN End(0) ELSE UNCHANGED <<drv, nien>>
  /\ UNCHANGED <<world, found, bm, drive, moved, left>>

\* A wait ends by its timeout: what the drive does is no longer known.
GiveUp ==
  /\ drv.pc \in {"send", "data", "packet", "block", "interrupt", "stopped", "resetting"}
  /\ left.timeouts > 0
  /\ left' = [left EXCEPT !.timeouts = @ - 1]
  /\ IF drv.pc = "interrupt"
     THEN /\ bm' = [bm EXCEPT !.start = FALSE, !.active = FALSE]
          /\ drv' = [Goto(drv, "stopped") EXCEPT !.ret = -1, !.settled = FALSE]
          /\ UNCHANGED nien
     ELSE /\ drv' = [Goto(drv, drv.next) EXCEPT !.settled = FALSE,
                       !.ret = IF drv.pc = "resetting" THEN 0 ELSE -1]
          /\ nien' = FALSE
          /\ UNCHANGED bm
  /\ UNCHANGED <<world, found, select, drive, moved>>

----------------------------------------------------------------------------
(* ata_detect(): the drives of the channel.                                   *)

NextSlave(d) == IF d.slave = 0 THEN [d EXCEPT !.pc = "power", !.slave = 1]
                ELSE Goto(d, "idle")

\* powerup_await_non_bsy(), for the drive that is selected and the one that is looked
\* for; registers that keep what is written to them; and the channel is reset once.
Power ==
  /\ drv.pc = "power" /\ ~Busy(select)
  /\ IF select # drv.slave
     THEN select' = drv.slave /\ UNCHANGED <<drv, nien, drive, moved>>
     ELSE IF \A s \in Slaves : Absent(s)
     THEN drv' = NextSlave(drv) /\ UNCHANGED <<select, nien, drive, moved>>
     ELSE IF drv.reset
     THEN drv' = Goto(drv, "atapi") /\ UNCHANGED <<select, nien, drive, moved>>
     ELSE Reset("atapi", drv.slave)
  /\ UNCHANGED <<world, found, bm, left>>

PowerTimeout ==
  /\ drv.pc = "power" /\ Busy(select) /\ left.timeouts > 0
  /\ left' = [left EXCEPT !.timeouts = @ - 1]
  /\ drv' = NextSlave(drv)
  /\ UNCHANGED <<world, found, select, nien, bm, drive, moved>>

Identify(command) ==
  [command |-> command, slave |-> drv.slave, lba |-> 1, count |-> 1, buf |-> 0,
   odd |-> TRUE]

\* init_drive_atapi() asks first, and init_drive_ata() when the drive is ready.
IdentifyPacket ==
  /\ drv.pc = "atapi"
  /\ Begin(Identify("identify_packet"), "identified")
  /\ UNCHANGED <<world, found, select, drive, left>>

\* What the drive says may be lost for want of memory.
Identified ==
  /\ drv.pc = "identified"
  /\ LET type == IF drv.op.command = "identify" THEN "ata" ELSE "atapi"
     IN \/ /\ drv.ret = 0
           /\ found' = [found EXCEPT ![drv.slave] = type]
           /\ \/ drv' = NextSlave(drv)
              \/ /\ drv.slave = 0 /\ Absent(1)
                 /\ drv' = Goto(drv, "idle")
           /\ UNCHANGED <<nien, bm, moved, left>>
        \/ /\ IF drv.ret = 0 THEN left.errors > 0 /\ left' = [left EXCEPT !.errors = @ - 1]
              ELSE UNCHANGED left
           /\ IF type = "ata" \/ Absent(select)
              THEN drv' = NextSlave(drv) /\ UNCHANGED <<nien, bm, moved>>
              ELSE ~Busy(select) /\ Begin(Identify("identify"), "identified")
           /\ UNCHANGED found
        \/ /\ type = "atapi" /\ drv.ret # 0 /\ Busy(select) /\ left.timeouts > 0
           /\ left' = [left EXCEPT !.timeouts = @ - 1]
           /\ drv' = NextSlave(drv)
           /\ UNCHANGED <<found, nien, bm, moved>>
  /\ UNCHANGED <<world, select, drive>>

----------------------------------------------------------------------------
(* ata_process_op() and ata_atapi_process_op().                               *)

\* A request that the registers need not be touched for.
Answer(op, ret) ==
  /\ drv' = [drv EXCEPT !.op = op, !.ret = ret]
  /\ moved' = {}
  /\ UNCHANGED <<select, nien, bm, drive>>

process_op ==
  /\ drv.pc = "idle" /\ left.requests > 0
  /\ left' = [left EXCEPT !.requests = @ - 1]
  /\ \E op \in Requests :
       LET type == found[op.slave]
       IN /\ type # "none"
          /\ CASE op.command = "reset" /\ type = "ata" ->
                    Reset("idle", op.slave) /\ UNCHANGED bm
               [] op.command = "reset" /\ type = "atapi" -> Answer(op, 0)
               [] op.command = "isready" /\ type = "ata" ->
                    Answer(op, IF Busy(select) \/ Absent(select) THEN -1 ELSE 0)
               [] op.command = "write" /\ type = "atapi" -> Answer(op, -1)
               [] OTHER -> Begin(op, "idle") /\ UNCHANGED <<select, drive>>
  /\ UNCHANGED <<world, found>>

Init ==
  /\ world \in Worlds
  /\ drv = [pc |-> "power", op |-> [command |-> "none", slave |-> 0, lba |-> 0,
             count |-> 0, buf |-> 0, odd |-> FALSE], more |-> 0, ret |-> 0,
             next |-> "idle", settled |-> TRUE, slave |-> 0, reset |-> FALSE]
  /\ found = [s \in Slaves |-> "none"]
  /\ select = 0 /\ nien = FALSE
  /\ bm = [start |-> FALSE, active |-> FALSE, irq |-> FALSE, table |-> <<>>]
  /\ drive = [s \in Slaves |-> IF Absent(s) THEN Idle ELSE [Idle EXCEPT !.state = "busy"]]
  /\ moved = {} /\ left = world

Next ==
  \/ Power \/ PowerTimeout \/ IdentifyPacket \/ Identified \/ process_op \/ Send
  \/ WaitData \/ Packet \/ Transfer \/ Block \/ Start \/ SeeInterrupt \/ Stopped
  \/ Resetting \/ GiveUp \/ \E s \in Slaves : DriveWorks(s)

Spec == Init /\ [][Next]_vars

----------------------------------------------------------------------------
(* What must hold.                                                            *)

\* The blocks that a request is for, and the places they belong to.
Wanted(op) ==
  {[write |-> op.command = "write", slave |-> op.slave, lba |-> op.lba + i,
    place |-> op.buf + i] : i \in 0 .. op.count - 1}

\* Unless a wait has been given up since the last reset of the channel, no request moves
\* a block that it was not for, and one that succeeds has moved them all, whatever
\* registers, segments and earlier errors lie in between.
TransfersExact ==
  drv.settled =>
    /\ moved \subseteq Wanted(drv.op)
    /\ drv.pc \in {"idle", "identified"} /\ drv.ret = 0
         /\ drv.op.command \in {"read", "write", "identify", "identify_packet"} =>
         moved = Wanted(drv.op)

\* Between requests the bus master stands still and interrupts are not masked, without
\* which no transfer by the bus master would ever end.
ChannelFree == drv.pc = "idle" => ~nien /\ ~bm.start

\* Unless a wait is given up, a drive is registered as what it is, and only an error
\* keeps it from being found.
DrivesFound ==
  left.timeouts = world.timeouts =>
    \A s \in Slaves :
      /\ found[s] \in {world.kinds[s], "none"}
      /\ drv.pc = "idle" /\ found[s] = "none" => Absent(s) \/ left.errors < world.errors

ChannelTrue == TransfersExact /\ ChannelFree /\ DrivesFound

=============================================================================
