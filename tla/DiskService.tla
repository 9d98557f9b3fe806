----------------------------- MODULE DiskService -----------------------------
(***************************************************************************)
(* Int 13h from the registers to the driver and back: the drive numbers    *)
(* and the emulated drive of a bootable CD (src/disk.c), the dispatch      *)
(* (src/block.c), the emulated drive itself, which reads a real one        *)
(* (src/cdrom.c), and what the drivers of ATA, ATAPI and AHCI drives leave *)
(* behind when they fail (src/hw/ata.c, src/hw/ahci.c).                    *)
(*                                                                         *)
(* Memory and disks are sequences of 512-byte sectors; each sector holds a *)
(* token that says where its data came from.  A call is one step.          *)
(***************************************************************************)
EXTENDS Integers, Sequences

CONSTANTS
  Calls,        \* the register contents programs call int 13h with
  Images,       \* the CD images booted: [media, ilba]; media 0 has no emulation
  DiskSize,     \* sectors of a disk; a quarter of it are a CD's blocks
  MemorySize,   \* sectors of the caller's memory
  Boundary,     \* sectors in 64 KiB
  MaxCount,     \* 128
  MaxCalls,     \* bound
  Geometry      \* [nlh, nls, nlc], the CHS geometry of the drives

VARIABLES
  memory, disk, bounce_buf,
  CDEmu,               \* [media, emulated_drive, ilba]
  floppy_last_status, disk_last_status,
  last                 \* the last call, what it found and what it returned

vars == <<memory, disk, bounce_buf, CDEmu, floppy_last_status, disk_last_status, last>>

EXTSTART_HD == 128
EXTSTART_CD == 224

\* IDMap: two hard disks, one CD, and one floppy drive.
getDrive(extdrive) ==
  CASE extdrive = 0 -> "floppy"
    [] extdrive = EXTSTART_HD -> "ata"
    [] extdrive = EXTSTART_HD + 1 -> "ahci"
    [] extdrive = EXTSTART_CD -> "atapi"
    [] OTHER -> "none"

Drives == {"floppy", "ata", "ahci", "atapi"}
BlockSectors(drive) == IF drive = "atapi" THEN 4 ELSE 1

Success == 0
EPARAM == 1
EWRITEPROTECT == 3
EBOUNDARY == 9
EBADTRACK == 11

----------------------------------------------------------------------------
(* Drivers.  A request is [drive, command, lba, count, buf, odd]; buf is -1   *)
(* for the bounce buffer.  A world is what a request changes.  A driver       *)
(* returns a set of outcomes: what it returns, what it leaves in op->count,   *)
(* and the world.                                                             *)

World == [memory |-> memory, disk |-> disk, bounce |-> bounce_buf]

\* The first n blocks of the request are transferred.
Transferred(w, op, n) ==
  LET s == n * BlockSectors(op.drive)
      from == op.lba * BlockSectors(op.drive)
  IN  CASE op.command = "read" /\ op.buf = -1 ->
             [w EXCEPT !.bounce = [k \in 1 .. 4 |-> IF k <= s THEN w.disk[op.drive][from + k - 1]
                                                    ELSE w.bounce[k]]]
        [] op.command = "read" /\ op.buf # -1 ->
             [w EXCEPT !.memory = [a \in DOMAIN w.memory |->
                IF a \in op.buf .. op.buf + s - 1 THEN w.disk[op.drive][from + (a - op.buf)]
                ELSE w.memory[a]]]
        [] OTHER ->
             [w EXCEPT !.disk[op.drive] = [l \in DOMAIN w.disk[op.drive] |->
                IF l \in from .. from + s - 1 THEN w.memory[op.buf + (l - from)]
                ELSE w.disk[op.drive][l]]]

Out(ret, count, w) == [ret |-> ret, count |-> count, world |-> w]

\* The drive does it all, if it has so many blocks.
Whole(w, op) ==
  IF (op.lba + op.count) * BlockSectors(op.drive) <= DiskSize
  THEN {Out(Success, op.count, Transferred(w, op, op.count))} ELSE {}

\* The blocks of the request that exist.
Reach(op) ==
  {n \in 0 .. op.count : n = 0 \/ (op.lba + n) * BlockSectors(op.drive) <= DiskSize}

\* ata_pio_transfer() gives up after moving n blocks: the drive did not become
\* ready again, has no more data, or failed in the end (with the count unchanged).
PioStops(w, op, n) ==
  LET moved == Transferred(w, op, n)
  IN  {Out(EBADTRACK, n - 1, moved)}
      \cup (IF n < op.count THEN {Out(EBADTRACK, n, moved)}
            ELSE {Out(EBADTRACK, op.count, moved)})

\* Commands by PIO fail before any data moves, or in ata_pio_transfer().
ata_pio(w, op) ==
  Whole(w, op)
    \cup {Out(EBADTRACK, op.count, w)}
    \cup UNION {PioStops(w, op, n) : n \in Reach(op) \ {0}}

\* A DMA command that fails may have moved any number of blocks; the count is
\* unchanged.  AHCI moves a misaligned buffer through the bounce buffer block by
\* block.
dma_readwrite(w, op) ==
  LET moved(n) == IF op.odd /\ op.drive = "ahci" /\ n > 0
                  THEN [Transferred(w, op, n) EXCEPT !.bounce[1] =
                          IF op.command = "read" THEN w.disk[op.drive][op.lba + n - 1]
                          ELSE w.memory[op.buf + n - 1]]
                  ELSE Transferred(w, op, n)
  IN  {[o EXCEPT !.world = moved(op.count)] : o \in Whole(w, op)}
        \cup {Out(EBADTRACK, op.count, moved(n)) : n \in Reach(op)}

default_process_op(w, op) ==
  {Out(IF op.command = "verify" THEN Success ELSE EPARAM, op.count, w)}

\* floppy_prep() may fail; after it nothing is done.
floppy_verify(w, op) == {Out(ret, op.count, w) : ret \in {Success, EBADTRACK}}

driver_process_op(w, op) ==
  CASE op.command = "verify" ->
         IF op.drive = "floppy" THEN floppy_verify(w, op) ELSE default_process_op(w, op)
    [] op.command = "write" /\ op.drive = "atapi" -> {Out(EWRITEPROTECT, op.count, w)}
    [] op.command # "verify" /\ op.drive \in {"ahci", "floppy"} -> dma_readwrite(w, op)
    [] op.drive = "ata" \/ (op.drive = "atapi" /\ op.command = "read") -> ata_pio(w, op)

\* Deviation: a driver's count is believed.
Checked_believes(w, op, sectors, outcomes) ==
  IF op.count * sectors > Boundary THEN {Out(EBOUNDARY, 0, w)} ELSE outcomes

\* process_op(): the boundary before, and the count after a failure.
Checked(w, op, sectors, outcomes) ==
  IF op.count * sectors > Boundary THEN {Out(EBOUNDARY, 0, w)}
  ELSE {IF o.ret # Success /\ o.count = op.count THEN [o EXCEPT !.count = 0] ELSE o :
          o \in outcomes}

process_op(w, op) == Checked(w, op, BlockSectors(op.drive), driver_process_op(w, op))

----------------------------------------------------------------------------
(* The emulated drive                                                       *)

Smaller(a, b) == IF a < b THEN a ELSE b

\* Copy n sectors from the bounce buffer, skipping the first "skip".
CopyBounce(w, buf, skip, n) ==
  [w EXCEPT !.memory = [a \in DOMAIN w.memory |->
     IF a \in buf .. buf + n - 1 THEN w.bounce[skip + (a - buf) + 1] ELSE w.memory[a]]]

Block(lba, count, buf) ==
  [drive |-> "atapi", command |-> "read", lba |-> lba, count |-> count, buf |-> buf,
   odd |-> FALSE]

\* The three parts of cdemu_read().  "left" is count, "at" dop.lba; a part that
\* fails ends it.
FirstBlock(s, skip) ==
  LET n == Smaller(4 - skip, s.left)
  IN  IF skip = 0 THEN {s}
      ELSE {IF o.ret # Success THEN [s EXCEPT !.ret = o.ret, !.world = o.world]
            ELSE [s EXCEPT !.left = @ - n, !.buf = @ + n, !.count = n, !.at = @ + 1,
                    !.world = CopyBounce(o.world, s.buf, skip, n)] :
              o \in process_op(s.world, Block(s.at, 1, -1))}

WholeBlocks(s) ==
  IF s.ret # Success \/ s.left <= 3 THEN {s}
  ELSE {[s EXCEPT !.count = @ + o.count * 4, !.ret = o.ret, !.world = o.world,
           !.left = @ % 4, !.buf = @ + (s.left - (s.left % 4)), !.at = @ + (s.left \div 4)] :
          o \in process_op(s.world, Block(s.at, s.left \div 4, s.buf))}

LastBlock(s) ==
  IF s.ret # Success \/ s.left = 0 THEN {s}
  ELSE {IF o.ret # Success THEN [s EXCEPT !.ret = o.ret, !.world = o.world]
        ELSE [s EXCEPT !.count = @ + s.left, !.world = CopyBounce(o.world, s.buf, 0, s.left)] :
          o \in process_op(s.world, Block(s.at, 1, -1))}

cdemu_read(w, op) ==
  LET s == [left |-> op.count, buf |-> op.buf, at |-> CDEmu.ilba + op.lba \div 4,
            count |-> 0, ret |-> Success, world |-> w]
  IN  {Out(z.ret, z.count, z.world) :
         z \in UNION {LastBlock(y) :
                 y \in UNION {WholeBlocks(x) : x \in FirstBlock(s, op.lba % 4)}}}

cdemu_process_op(w, op) ==
  Checked(w, op, 1,
    CASE op.command = "read" -> cdemu_read(w, op)
      [] op.command = "write" -> {Out(EWRITEPROTECT, op.count, w)}
      [] OTHER -> default_process_op(w, op))

----------------------------------------------------------------------------
(* Int 13h                                                                  *)

\* handle_13(): which drive a number means.
Emulated(dl) == CDEmu.media # 0 /\ dl = CDEmu.emulated_drive

SameClass(a, b) == (a < EXTSTART_HD) <=> (b < EXTSTART_HD)

Target(dl) ==
  IF Emulated(dl) THEN "cdemu"
  ELSE getDrive(IF CDEmu.media # 0 /\ dl < EXTSTART_CD /\ SameClass(dl, CDEmu.emulated_drive)
                THEN dl - 1 ELSE dl)

\* basic_access() translates CHS, extended_access() takes the LBA as it is.
InGeometry(c) ==
  /\ c.al \in 1 .. MaxCount /\ c.sector > 0
  /\ c.cylinder < Geometry.nlc /\ c.head < Geometry.nlh /\ c.sector <= Geometry.nls

Lba(c) == (c.cylinder * Geometry.nlh + c.head) * Geometry.nls + c.sector - 1

Op(c) ==
  [drive |-> Target(c.dl), command |-> c.command, count |-> c.al, buf |-> c.buf, odd |-> c.odd,
   lba |-> IF c.ext THEN c.lba ELSE Lba(c)]

Refusal(c) ==
  IF c.ext
  THEN Target(c.dl) \in {"cdemu", "floppy", "none"} \/ c.lba * BlockSectors(Target(c.dl)) >= DiskSize
  ELSE Target(c.dl) \in {"atapi", "none"} \/ ~InGeometry(c)

Return(c, o) ==
  /\ memory' = o.world.memory
  /\ disk' = o.world.disk
  /\ bounce_buf' = o.world.bounce
  /\ IF c.dl < EXTSTART_HD
     THEN floppy_last_status' = o.ret /\ UNCHANGED disk_last_status
     ELSE disk_last_status' = o.ret /\ UNCHANGED floppy_last_status
  /\ last' = [call |-> c, target |-> Target(c.dl), refused |-> Refusal(c), ah |-> o.ret,
              lba |-> Op(c).lba,
              al |-> o.count, memory |-> memory, disk |-> disk, n |-> last.n + 1]
  /\ UNCHANGED CDEmu

\* disk_1302() to disk_1304() and disk_1342() to disk_1344().
access(c) ==
  IF Refusal(c) THEN Return(c, Out(EPARAM, 0, World))
  ELSE \E o \in IF Target(c.dl) = "cdemu" THEN cdemu_process_op(World, Op(c))
                ELSE process_op(World, Op(c)) : Return(c, o)

\* cdrom_boot(), as far as it concerns the emulation; one CD is booted.
cdrom_boot(image) ==
  /\ CDEmu = [media |-> 0, emulated_drive |-> 0, ilba |-> 0]
  /\ CDEmu' = [media |-> image.media, ilba |-> image.ilba,
               emulated_drive |-> CASE image.media = 0 -> EXTSTART_CD
                                    [] image.media \in 1 .. 3 -> 0
                                    [] OTHER -> EXTSTART_HD]
  /\ UNCHANGED <<memory, disk, bounce_buf, floppy_last_status, disk_last_status, last>>

\* Terminate the emulation.
cdemu_134b ==
  /\ CDEmu.media # 0
  /\ CDEmu' = [CDEmu EXCEPT !.media = 0]
  /\ disk_last_status' = Success
  /\ UNCHANGED <<memory, disk, bounce_buf, floppy_last_status, last>>

----------------------------------------------------------------------------

Init ==
  /\ memory = [a \in 0 .. MemorySize - 1 |-> <<"memory", a>>]
  /\ disk = [d \in Drives |-> [l \in 0 .. DiskSize - 1 |-> <<d, l>>]]
  /\ bounce_buf = [k \in 1 .. 4 |-> <<"bounce", k>>]
  /\ CDEmu = [media |-> 0, emulated_drive |-> 0, ilba |-> 0]
  /\ floppy_last_status = Success
  /\ disk_last_status = Success
  /\ last = [refused |-> TRUE, n |-> 0]

Next ==
  \/ last.n < MaxCalls /\ \E c \in Calls : access(c)
  \/ \E image \in Images : cdrom_boot(image)
  \/ cdemu_134b

Spec == Init /\ [][Next]_vars

----------------------------------------------------------------------------
(* Properties                                                                 *)

Numbers == {0, 1, EXTSTART_HD, EXTSTART_HD + 1, EXTSTART_HD + 2, EXTSTART_CD}

\* Whether or not a CD is emulated, before, during or after: no two numbers mean
\* one drive, and every drive has a number.
NumbersDistinct ==
  LET target == [a \in Numbers |-> Target(a)]
  IN  /\ \A a, b \in Numbers : target[a] = target[b] => a = b \/ target[a] = "none"
      /\ Drives \subseteq {target[a] : a \in Numbers}

\* Where sector k of the last call is.
Where(k) ==
  IF last.target = "cdemu" THEN <<"atapi", 4 * CDEmu.ilba + last.lba + k>>
  ELSE <<last.target, last.lba * BlockSectors(last.target) + k>>

\* What int 13h says of a transfer is true: if it reports success, it has done
\* all of it; if it reports a failure, the number of sectors it returns in al
\* (or in the packet) have been transferred from the start on, whichever part
\* of a split request, of an unaligned one or of one on the emulated drive
\* failed; and nothing beyond the request was touched.
CountTold ==
  ~last.refused =>
    LET c == last.call
        unit == IF last.target = "atapi" THEN 4 ELSE 1
        told == last.al * unit
        asked == c.al * unit
    IN  /\ last.ah = Success => last.al = c.al
        /\ last.al <= c.al
        /\ \A a \in DOMAIN memory :
             /\ c.command = "read" /\ a \in c.buf .. c.buf + told - 1 =>
                  LET w == Where(a - c.buf) IN memory[a] = last.disk[w[1]][w[2]]
             /\ c.command # "read" \/ a \notin c.buf .. c.buf + asked - 1 =>
                  memory[a] = last.memory[a]
        /\ \A d \in Drives :
             IF c.command = "write" /\ d = last.target
             THEN \A l \in 0 .. DiskSize - 1 :
                    IF l \in last.lba .. last.lba + asked - 1
                    THEN l - last.lba < told => disk[d][l] = last.memory[c.buf + (l - last.lba)]
                    ELSE disk[d][l] = last.disk[d][l]
             ELSE disk[d] = last.disk[d]

CallsHonest == NumbersDistinct /\ CountTold
=============================================================================
