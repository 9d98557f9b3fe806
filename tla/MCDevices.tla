------------------------------ MODULE MCDevices ------------------------------
(* Components that do not touch each other's state, checked side by side:     *)
(* "part" is the one that runs, and the variables of the others are Off.      *)
EXTENDS DevicesProof, TickClock, Smp, TLC

CONSTANTS
  Parts,         \* the components that run
  PciMachines

\* Each component that is instanced maps its variables to the first ones of these.
VARIABLES part, v1, v2, v3, v4, v5, v6, v7, v8, v9, v10, v11, v12

\* The rest of them, from the n-th on.
from12 == <<v12>>
from11 == <<v11, from12>>
from10 == <<v10, from11>>
from9 == <<v9, from10>>
from8 == <<v8, from9>>
from7 == <<v7, from8>>
from5 == <<v5, v6, from7>>
from4 == <<v4, from5>>
shared == <<v1, v2, v3, from4>>

Off == "off"

Off12 == v12 = Off
Off11 == v11 = Off /\ Off12
Off10 == v10 = Off /\ Off11
Off9 == v9 = Off /\ Off10
Off8 == v8 = Off /\ Off9
Off7 == v7 = Off /\ Off8
Off5 == v5 = Off /\ v6 = Off /\ Off7
Off4 == v4 = Off /\ Off5
Off1 == v1 = Off /\ v2 = Off /\ v3 = Off /\ Off4

----------------------------------------------------------------------------
(* The NVMe driver: reads of one and of two pages, of a page with a list, and *)
(* of more than a command takes; a write; a buffer at an odd address.         *)

NvmeRequest(command, buf, odd, lba, count) ==
  [command |-> command, buf |-> buf, odd |-> odd, lba |-> lba, count |-> count]

NvmeRequests ==
  {NvmeRequest("read", buf, FALSE, 0, count) : buf \in 0 .. 1, count \in {1, 3, 4, 7}}
    \cup {NvmeRequest("write", 1, FALSE, 1, 3), NvmeRequest("read", 2, TRUE, 0, 1)}

Nvme == INSTANCE NvmeDisk WITH
  QueueLength <- 4, PageSize <- 2, NVME_MAX_PRPL_ENTRIES <- 2, max_req_size <- 7,
  Requests <- NvmeRequests, MemorySize <- 8, DiskSize <- 8, MaxRequests <- 3,
  MaxTimeouts <- 1,
  op <- v1, sq <- v2, cq <- v3, prpl <- v4, ctrl <- v5, memory <- v6, disk <- v7,
  ivt <- v8

----------------------------------------------------------------------------
(* The xHCI rings: two threads whose requests fill the rings, one of which is *)
(* given up; or a keyboard's reports, with a port event among them.           *)

MCXhciWorlds ==
  {[requests |-> 3, timeouts |-> 1, ports |-> 0, reports |-> 0],
   [requests |-> 1, timeouts |-> 0, ports |-> 1, reports |-> 3]}

----------------------------------------------------------------------------
(* The EHCI schedules: two threads, one that gives up a doorbell; a failure;   *)
(* pipes used again, freed and refused; and a keyboard's reports.              *)

EhciWorld(pipes, types, requests, n, timeouts, doorbells, errors, reports) ==
  [pipes |-> pipes, types |-> types, requests |-> requests, tds |-> n,
   timeouts |-> timeouts, doorbells |-> doorbells, errors |-> errors, reports |-> reports]

EhciWorlds ==
  {EhciWorld(2, {"bulk"}, 2, 1, 2, 1, 0, 0), EhciWorld(2, {"bulk"}, 2, 2, 1, 0, 1, 0),
   EhciWorld(4, {"bulk"}, 1, 1, 1, 0, 0, 0),
   EhciWorld(5, {"control", "bulk"}, 0, 1, 0, 0, 0, 0), EhciWorld(0, {}, 0, 1, 0, 0, 1, 4)}

Ehci == INSTANCE EhciSchedule WITH
  Threads <- UsbThreads, Main <- "main", QHs <- 1 .. 3, ReportTds <- 2,
  Worlds <- EhciWorlds,
  qh <- v1, allocated <- v2, freelist <- v3, regs <- v4, hc <- v5, thread <- v6,
  tds <- v7, cpu <- v8, intr <- v9, left <- v10, astray <- v11

----------------------------------------------------------------------------
(* The UHCI schedule and the OHCI lists: two threads whose requests fail, are  *)
(* given up or lose an answer; pipes used again, freed and refused; interrupt *)
(* pipes in a table of four frames; and a keyboard's reports.                 *)

Schedule(size, types, exps, pipes) ==
  [frames |-> size, pipes |-> pipes, types |-> types, exps |-> exps, requests |-> 0,
   packets |-> {}, timeouts |-> 0, errors |-> 0, lost |-> 0, reports |-> 0]

Transfers(w, requests, packets, errors, lost) ==
  [w EXCEPT !.requests = requests, !.packets = packets, !.timeouts = 1,
            !.errors = errors, !.lost = lost]

\* What both drivers meet; "bulk" is what they transfer without a setup packet.
SlowWorlds(bulk) ==
  {bulk, Transfers(Schedule(1, {"control"}, {}, 1), 2, {3}, 1, 1),
   Schedule(4, {"intr"}, {0, 1, 2}, 3),
   [Schedule(1, {}, {}, 0) EXCEPT !.errors = 1, !.reports = 4]}

UhciWorlds ==
  SlowWorlds(Transfers(Schedule(1, {"bulk"}, {}, 2), 2, {3}, 0, 1))
    \cup {Schedule(1, {"control", "bulk", "intr"}, {0}, 3),
          Transfers(Schedule(1, {"control", "bulk"}, {}, 2), 1, {2}, 0, 0)}

Uhci == INSTANCE UhciSchedule WITH
  Threads <- UsbThreads, Main <- "main", QHs <- 1 .. 3, STACKTDS <- 2, ReportTds <- 2,
  Worlds <- UhciWorlds,
  qh <- v1, links <- v2, control_qh <- v3, allocated <- v4, freelist <- v5, hc <- v6,
  thread <- v7, tds <- v8, device <- v9, intr <- v10, left <- v11

OhciWorlds ==
  SlowWorlds(Transfers(Schedule(1, {"bulk"}, {}, 2), 2, {2}, 0, 1))
    \cup {Schedule(1, {"control", "bulk"}, {0}, 3),
          Transfers(Schedule(1, {"control"}, {}, 2), 1, {2}, 0, 0)}

Ohci == INSTANCE OhciLists WITH
  Threads <- UsbThreads, Main <- "main", EDs <- 1 .. 3, ReportTds <- 3,
  Worlds <- OhciWorlds,
  ed <- v1, int_table <- v2, allocated <- v3, freelist <- v4, regs <- v5, hc <- v6,
  thread <- v7, tds <- v8, device <- v9, intr <- v10, left <- v11

----------------------------------------------------------------------------
(* Two EHCI controllers, each with a companion and a port; one failure.       *)

Shared == INSTANCE Companions WITH
  Ehcis <- 1 .. 2, Slow <- {"u1", "u2"}, Ports <- {"p1", "p2"},
  EhciOf <- [p1 |-> 1, p2 |-> 2], CompanionOf <- [p1 |-> "u1", p2 |-> "u2"],
  MaxFailures <- 1,
  speed <- v1, present <- v2, main <- v3, PendingEHCI <- v4, configflag <- v5,
  owner <- v6, ehci <- v7, slow <- v8, fast_port <- v9, slow_port <- v10,
  failures <- v11, late <- v12

----------------------------------------------------------------------------
(* A virtio queue: the lists of virtio_blk_op() and of requests without data. *)

VirtioLists ==
  {[out |-> <<"hdr">>, in |-> <<"data", "status">>],
   [out |-> <<"hdr", "data">>, in |-> <<"status">>],
   [out |-> <<"hdr">>, in |-> <<"status">>]}

----------------------------------------------------------------------------
(* The disk services: a CD that emulates nothing, a floppy or a hard disk;    *)
(* counts up to and above the limit, at the end of the disk, across 64 KiB.   *)

ChsCall(dl, al, buf, cylinder, head, sector) ==
  [dl |-> dl, ext |-> FALSE, lba |-> 0, command |-> "read", al |-> al, buf |-> buf,
   odd |-> FALSE, cylinder |-> cylinder, head |-> head, sector |-> sector]

ExtCall(dl, command, lba, al, odd) ==
  [dl |-> dl, ext |-> TRUE, lba |-> lba, command |-> command, al |-> al, buf |-> 0,
   odd |-> odd, cylinder |-> 0, head |-> 0, sector |-> 0]

DiskCalls ==
  {ChsCall(dl, al, 1, 0, 0, sector) : dl \in {0, 128}, al \in {1, 6}, sector \in {1, 2}}
    \cup {ChsCall(128, 3, 0, 2, 1, 2)}
    \cup {ChsCall(0, al, 1, 1, 1, 2) : al \in {2, 5}}
    \cup {ExtCall(dl, command, 1, 2, TRUE) :
            dl \in {129, 130}, command \in {"read", "write"}}
    \cup {ExtCall(224, "read", 1, al, FALSE) : al \in {1, 3}}
    \cup {ExtCall(129, "verify", 0, 9, FALSE)}
    \cup {[ChsCall(0, 2, 1, 0, 0, 1) EXCEPT !.command = "verify"]}

Disks == INSTANCE DiskService WITH
  Calls <- DiskCalls, Images <- {[media |-> m, ilba |-> 1] : m \in {0, 2, 4}},
  DiskSize <- 16, MemorySize <- 9, Boundary <- 8, MaxCount <- 7, MaxCalls <- 2,
  Geometry <- [nlh |-> 2, nls |-> 2, nlc |-> 3],
  memory <- v1, disk <- v2, bounce_buf <- v3, CDEmu <- v4, floppy_last_status <- v5,
  disk_last_status <- v6, last <- v7

----------------------------------------------------------------------------
(* Calls between 16 and 32 bit mode, nested up to six deep, from real mode, *)
(* from the protected mode of a program and from an interrupt handler.        *)

ModeEnvironments ==
  {[ss |-> "os", a20 |-> TRUE, gdt |-> "os", nmi |-> TRUE, pe |-> TRUE],
   [ss |-> "user", a20 |-> FALSE, gdt |-> "dos", nmi |-> TRUE, pe |-> FALSE],
   [ss |-> "handler", a20 |-> TRUE, gdt |-> "dos", nmi |-> FALSE, pe |-> FALSE]}

----------------------------------------------------------------------------
(* A floppy drive, two hard disks, two CDs (one emulates a hard disk), a rom   *)
(* with a boot entry and a network card that is listed below HALT.            *)

BootEntry(type, prio, dtype, cntl, name) ==
  [type |-> type, prio |-> prio, dtype |-> dtype, cntl |-> cntl, name |-> name]

BootEntries ==
  {BootEntry(1, 101, 1, 0, "fd"), BootEntry(2, 2, 2, 0, "hd0"),
   BootEntry(2, 103, 2, 1, "hd1"), BootEntry(3, 1, 3, 0, "cd0"),
   BootEntry(3, 103, 3, 1, "cd1"), BootEntry(129, 103, 0, 0, "rom"),
   BootEntry(128, 104, 0, 0, "pxe")}

Boot == INSTANCE BootSequence WITH
  Entries <- BootEntries, HaltPrio <- 104, Menu <- 5, MaxBEV <- 5,
  Media <- [cd0 |-> 4, cd1 |-> 0], MaxTries <- 6,
  pc <- v1, BootList <- v2, BEV <- v3, IDMap <- v4, CDEmu <- v5, BootSequence <- v6,
  tries <- v7

----------------------------------------------------------------------------
(* Two bridges, one behind the other or side by side, and three functions.    *)

Bar(type, size, is64) == [type |-> type, size |-> size, is64 |-> is64]

NoReserve == [bus |-> -1, io |-> 0, mem |-> 0, pref |-> 0]

Function ==
  [bridge |-> FALSE, usb |-> FALSE, pref64 |-> FALSE, hotplug |-> FALSE, pcie |-> FALSE,
   reserve |-> NoReserve, windows |-> {}, on |-> 0, root |-> 0, bars |-> <<>>]

Functions ==
  {[Function EXCEPT !.bars = bars] : bars \in
     {<<Bar("mem", 1, FALSE), Bar("io", 1, FALSE)>>,
      <<Bar("mem", 8, FALSE), Bar("io", 2, FALSE), Bar("mem", 0, FALSE)>>,
      <<Bar("pref", 16, TRUE), Bar("mem", 1, FALSE)>>,
      <<Bar("pref", 8, FALSE), Bar("mem", 4, TRUE)>>}}
    \cup {[Function EXCEPT !.bars = <<Bar("mem", 2, TRUE)>>, !.usb = TRUE]}

Bridge(hotplug, pcie, reserve) ==
  [Function EXCEPT !.bridge = TRUE, !.windows = {"io", "mem", "pref"}, !.pref64 = TRUE,
                   !.hotplug = hotplug, !.pcie = pcie, !.reserve = reserve]

Reserving == [bus |-> 2, io |-> 8, mem |-> 3, pref |-> 20]

Machine(bridges, functions, extraroots, start) ==
  [devs |-> bridges \o functions, extraroots |-> extraroots, pcimem_start |-> start,
   RamSizeOver4G |-> 8, reserved_memory_end |-> 0]

MCMachines ==
  {Machine(<<b1, [b2 EXCEPT !.on = o]>>,
           <<[f1 EXCEPT !.on = 2], [f2 EXCEPT !.on = 1],
             [f3 EXCEPT !.root = IF x THEN 5 ELSE 0]>>, x, IF x THEN 0 ELSE 32) :
     b1 \in {Bridge(FALSE, TRUE, NoReserve), Bridge(TRUE, FALSE, Reserving)},
     b2 \in {Bridge(FALSE, TRUE, NoReserve), Bridge(TRUE, TRUE, NoReserve),
             Bridge(TRUE, FALSE, Reserving)},
     o \in {0, 1}, f1, f2, f3 \in Functions, x \in BOOLEAN}

\* A bridge with another one behind it asks for no bus at all, or for one.
SmallReservations ==
  {Machine(<<Bridge(TRUE, TRUE, [NoReserve EXCEPT !.bus = n]),
             [Bridge(FALSE, TRUE, NoReserve) EXCEPT !.on = 1],
             Bridge(FALSE, TRUE, NoReserve)>>, <<f>>, FALSE, 0) :
     n \in 0 .. 1, f \in Functions}

Pci == INSTANCE PciResources WITH
  Machines <- PciMachines, MaxBus <- 6, PCI_BRIDGE_IO_MIN <- 4, PCI_BRIDGE_MEM_MIN <- 4,
  IoTop <- 64, pci_io_low_end <- 40, pcimem_end <- 64, FourG <- 72, HugePage <- 16,
  machine <- v1, pc <- v2, path <- v3, root <- v4, pci_bus <- v5, bus <- v6, todo <- v7,
  region <- v8, base <- v9, bar <- v10, window <- v11

----------------------------------------------------------------------------
(* A USB keyboard with two places in its reports.                             *)

Hid == INSTANCE UsbKeyboard WITH
  Keys <- {"A", "B", "C", "PrtScr"}, Modifiers <- {"Alt", "Shift"}, Slots <- 2, Wait <- 3,
  held <- v1, LastUSBkey <- v2, seen <- v3

----------------------------------------------------------------------------
(* The serial console: five calls on a screen of three rows and two columns,   *)
(* or four keys, of which two are sequences, in a buffer for five bytes.       *)

Console == INSTANCE Sercon WITH
  Rows <- 3, Cols <- 2, RxSize <- 5, ESC <- "ESC", Chars <- {"ESC", "a", "["},
  termseq <- [up |-> <<"ESC", "[", "A">>, f5 |-> <<"ESC", "[", "1", "~">>],
  Worlds <- {[calls |-> 5, keys |-> 0], [calls |-> 0, keys |-> 4]},
  bda <- v1, con <- v2, term <- v3, screen <- v4, rx_buf <- v5, keys <- v6, line <- v7,
  left <- v8, lost <- v9

----------------------------------------------------------------------------
(* Text on the screen: every layout of video memory, two pages, two fonts, and *)
(* a cursor drawn by hardware or by the timer.                                *)

VgaMachines ==
  {[model |-> model, emulate |-> FALSE, height |-> 2] : model \in {"text", "planar", "cga"}}
    \cup {[model |-> model, emulate |-> TRUE, height |-> 2] : model \in {"text", "direct"}}

VgaHeights == {2, 4}
VgaPages == {0, 1}

Vga == INSTANCE VgaText WITH
  Cols <- 2, Heights <- VgaHeights, Lines <- 4, LineLength <- 3, Bank <- 8,
  PageAlign <- 3, Pages <- VgaPages, Machines <- VgaMachines, MaxCalls <- 3,
  machine <- v1, bda <- v2, swcursor <- v3, fb <- v4, crtc <- v5, saved <- v6,
  calls <- v7, picture <- v8, unsettled <- v9

----------------------------------------------------------------------------
(* The measurement log: logs that hold everything and that overflow at once,  *)
(* with a TPM of either version, started by Xen, without one or without a log. *)

TpmMachine(version, area, xen, smbios) ==
  [version |-> version, area |-> area, xen |-> xen, smbios |-> smbios]

TpmMachines ==
  {TpmMachine("1.2", area, FALSE, FALSE) : area \in {3, 14}}
    \cup {TpmMachine("2", area, FALSE, TRUE) : area \in {1, 6, 14}}
    \cup {TpmMachine("1.2", 14, TRUE, FALSE), TpmMachine("2", 14, TRUE, FALSE),
          TpmMachine("none", 14, FALSE, TRUE), TpmMachine("2", 0, FALSE, FALSE)}

Tpm == INSTANCE TpmLog WITH
  Machines <- TpmMachines, Separators <- 2, MaxCalls <- 3, MaxFaults <- 1,
  pc <- v1, tpm <- v2, bios <- v3, tpm_state <- v4, todo <- v5, made <- v6,
  faults <- v7, calls <- v8, answer <- v9

----------------------------------------------------------------------------
(* The table loader: an RSDP, tables that point to each other, one that is     *)
(* loaded twice or not there, and two devices that are told addresses.         *)

Allocate(file, zone) == [command |-> "allocate", file |-> file, zone |-> zone]

AddPointer(dest, cell, src) ==
  [command |-> "add_pointer", dest |-> dest, offset |-> cell, src |-> src]

AddChecksum(file, cell, length) ==
  [command |-> "add_checksum", file |-> file, offset |-> cell, start |-> 1,
   length |-> length]

WritePointer(dest, cell, src, src_offset, short) ==
  [command |-> "write_pointer", dest |-> dest, offset |-> cell, src |-> src,
   src_offset |-> src_offset, short |-> short]

Tables == [rsdp |-> <<5, 7, 2, 0>>, tables |-> <<3, 0, 9, 1, 4>>, guid |-> <<1, 2>>]

LoaderCommands(more, src, short) ==
  <<Allocate("rsdp", "fseg"), Allocate("tables", "high"), Allocate(more, "high"),
    Allocate("guid", "high"), AddPointer("tables", 4, "tables"),
    AddPointer("tables", 5, "guid"), AddChecksum("tables", 2, 5),
    [command |-> "unknown"], AddPointer("rsdp", 3, "tables"),
    AddChecksum("rsdp", 2, 3), AddChecksum("rsdp", 4, 4),
    WritePointer("vmgenid_addr", 0, "guid", 1, FALSE),
    WritePointer("hwerr", 8, src, 0, short)>>

LoaderHosts ==
  {[rsdp |-> "rsdp", rsdplen |-> 4, content |-> Tables,
    places |-> {[file |-> "vmgenid_addr", offset |-> 0], [file |-> "hwerr", offset |-> 8]},
    commands |-> LoaderCommands(more, src, short), dma |-> dma] :
   more \in {"missing", "guid"}, src \in {"tables", "rsdp"}, short, dma \in BOOLEAN}

Loader == INSTANCE RomfileLoader WITH
  Hosts <- LoaderHosts, ZoneSize <- 8, HighStart <- 20, PtrLimit <- 16, Mod <- 16,
  MaxFailures <- 2,
  pc <- v1, host <- v2, offset <- v3, files <- v4, free <- v5,
  romfile_pointer_list <- v6, device <- v7, RsdpAddr <- v8, failures <- v9,
  unrecorded <- v10

----------------------------------------------------------------------------
(* A port of an AHCI controller with each kind of device, and three requests.  *)

Ahci == INSTANCE AhciPort WITH
  Kinds <- {"disk", "cd", "other", "none"},
  Worlds <- {[requests |-> 3, timeouts |-> n, errors |-> 2 - n, noise |-> 1,
              failures |-> 1] : n \in 0 .. 2},
  pc <- v1, port <- v2, live <- v3, hba <- v4, device <- v5, table <- v6, moved <- v7,
  req <- v8, left <- v9

----------------------------------------------------------------------------
(* An ATA channel: a disk and a CD, one of them or nothing; requests at and    *)
(* across the limits of the short commands, of a segment and of the disk.     *)

AtaRequest(command, slave, lba, count, buf, odd) ==
  [command |-> command, slave |-> slave, lba |-> lba, count |-> count, buf |-> buf,
   odd |-> odd]

AtaRequests ==
  {AtaRequest(command, 0, lba, count, 1, FALSE) :
     command \in {"read", "write"}, lba \in {1, 7, 9}, count \in {1, 3}}
    \cup {AtaRequest("write", 0, 2, 4, 0, TRUE), AtaRequest("read", 0, 0, 6, 1, FALSE),
          AtaRequest("read", 0, 14, 3, 0, TRUE), AtaRequest("read", 1, 5, 2, 1, FALSE),
          AtaRequest("write", 1, 1, 1, 0, TRUE)}
    \cup {AtaRequest(command, slave, 0, 0, 0, FALSE) :
            command \in {"isready", "reset"}, slave \in {0, 1}}

AtaWorld(first, second, busmaster, requests, timeouts, errors) ==
  [kinds |-> (0 :> first @@ 1 :> second), busmaster |-> busmaster,
   requests |-> requests, timeouts |-> timeouts, errors |-> errors]

AtaWorlds ==
  {AtaWorld("ata", "atapi", busmaster, 2, n, 1 - n) :
     busmaster \in BOOLEAN, n \in {0, 1}}
    \cup {AtaWorld("none", "ata", TRUE, 0, 1, 0), AtaWorld("none", "none", TRUE, 0, 1, 0),
          AtaWorld("atapi", "none", TRUE, 1, 1, 0)}

Ata == INSTANCE AtaDisk WITH
  Worlds <- AtaWorlds, Requests <- AtaRequests, DiskSize <- 16, SectorCount <- 4,
  Lba24 <- 4, Lba28 <- 8, Segment <- 2, MaxPrds <- 3,
  world <- v1, drv <- v2, found <- v3, select <- v4, nien <- v5, bm <- v6, drive <- v7,
  moved <- v8, left <- v9

----------------------------------------------------------------------------
(* Cards of every kind, with base clocks below, at and above their limits.     *)

SdMachine(kind, version, mhz) == [kind |-> kind, version |-> version, base |-> mhz]

SdMachines ==
  {SdMachine("sd1", 1, 50), SdMachine("sdhc", 2, 50), SdMachine("mmc", 1, 63),
   SdMachine("mmc4", 2, 255), SdMachine("sd2", 2, 1), SdMachine("sd2", 1, 1),
   SdMachine("sd2", 1, 0)}

Card == INSTANCE SdCard WITH
  Machines <- SdMachines, Counts <- {1, 2},
  Worlds <- {[requests |-> 3, timeouts |-> 0, errors |-> 1],
             [requests |-> 1, timeouts |-> 1, errors |-> 1]},
  machine <- v1, drv <- v2, hc <- v3, clock <- v4, data <- v5, left <- v6

----------------------------------------------------------------------------
(* Drives behind three SCSI adapters; on PVSCSI more commands than its rings    *)
(* and their indices hold.                                                    *)

ScsiWorld(kind, type, m, reads, timeouts, errors) ==
  [kind |-> kind, type |-> type, medium |-> m, reads |-> reads, timeouts |-> timeouts,
   errors |-> errors]

ScsiWorlds ==
  {ScsiWorld(kind, "disk", m, 2, n, 1) :
     kind \in {"megasas", "mpt"}, m \in {"present", "soon"}, n \in {0, 1}}
    \cup {ScsiWorld("pvscsi", "disk", m, 4, 0, 2) : m \in {"present", "soon", "absent"}}
    \cup {ScsiWorld("mpt", type, "absent", 2, 1, 0) : type \in {"cd", "other", "disk"}}

Scsi == INSTANCE ScsiAdapters WITH
  Worlds <- ScsiWorlds, LUNs <- {0, 1}, Entries <- 2, IdxWord <- 4, READY_TIME <- 2,
  IN_PROGRESS_TIME <- 2,
  world <- v1, drv <- v2, frame <- v3, mpt <- v4, ring <- v5, executing <- v6,
  done <- v7, medium <- v8

----------------------------------------------------------------------------
(* A TPM with a FIFO, with a command buffer, and with both; one of its buffers  *)
(* is out of reach.                                                           *)

Interface(id, tis, crb, high, locality) ==
  [there |-> TRUE, id |-> id, tis |-> tis, crb |-> crb, high |-> high,
   locality |-> locality]

Chip == INSTANCE TpmDriver WITH
  Machines <- {Interface("old", FALSE, FALSE, FALSE, -1),
               Interface("fifo", TRUE, TRUE, FALSE, 4),
               Interface("fifo", FALSE, TRUE, FALSE, 0),
               Interface("crb", FALSE, TRUE, TRUE, -1)},
  Commands <- {2, 3}, crb_cmd_size <- 2, Bursts <- {1, 3}, Responses <- {2, 4},
  Header <- 2, Rooms <- {3, 4},
  Worlds <- {[requests |-> 3, timeouts |-> 2, errors |-> 0],
             [requests |-> 2, timeouts |-> 1, errors |-> 1]},
  machine <- v1, drv <- v2, tpm <- v3, left <- v4

----------------------------------------------------------------------------
(* Devices on an xHCI controller: slow ones behind hubs of full and of high    *)
(* speed, whose commands are given up or fail; and one that is unplugged.     *)

UsbDevice(hub, port, usb_speed, kind, endpoints) ==
  [hub |-> hub, port |-> port, speed |-> usb_speed, kind |-> kind,
   endpoints |-> endpoints]

HubTrees ==
  [chain |-> ("1" :> UsbDevice("root", 2, "high", "hub", <<>>)
              @@ "2" :> UsbDevice("1", 1, "full", "hub", <<>>)
              @@ "3" :> UsbDevice("2", 3, "low", "hid", <<"in1">>)),
   beside |-> ("1" :> UsbDevice("root", 1, "high", "hub", <<>>)
               @@ "2" :> UsbDevice("1", 2, "full", "hid", <<"in1">>)
               @@ "3" :> UsbDevice("1", 1, "high", "disk", <<"in1", "out2">>)),
   apart |-> ("1" :> UsbDevice("root", 1, "full", "hub", <<>>)
              @@ "2" :> UsbDevice("1", 2, "low", "hid", <<"in1">>)
              @@ "3" :> UsbDevice("root", 2, "super", "disk", <<"in1">>))]

SlotWorld(tree, timeouts, errors, unplugs) ==
  [tree |-> HubTrees[tree], timeouts |-> timeouts, failures |-> errors,
   unplugs |-> unplugs]

Addresses == INSTANCE XhciSlots WITH
  Devices <- {"1", "2", "3"}, Root <- "root", Nobody <- "nobody", Slots <- 1 .. 3,
  Worlds <- {SlotWorld("chain", 1, 1, 0), SlotWorld("chain", 2, 0, 0),
             SlotWorld("beside", 2, 0, 0), SlotWorld("apart", 0, 0, 1)},
  main <- v1, dev <- v2, devs <- v3, cmds <- v4, lock <- v5, slot <- v6, gone <- v7,
  left <- v8

----------------------------------------------------------------------------
(* Option roms of a display, of a network card with an image for another       *)
(* processor, of disk controllers, and in files: more than the area holds.    *)

Rom(name, size, file, pnp, valid) ==
  [name |-> name, size |-> size, file |-> file, pnp |-> pnp, valid |-> valid]
RomImage(rom, matches) == [rom |-> rom, matches |-> matches, last |-> matches]
RomAfters(rom) ==
  [size : {0, 1, rom.size}, valid : {rom.valid, FALSE}, takes : BOOLEAN]

RomDevice(name, class, images, file) ==
  [name |-> name, class |-> class, decodes |-> class = "vga", driver |-> name = "ahci",
   address |-> IF images = <<>> THEN "bad" ELSE "good", images |-> images, file |-> file]

NoFile == Rom("none", 0, 0, <<>>, FALSE)
Display(class) ==
  RomDevice("display", class, <<RomImage(Rom("vgabios", 3, 3, <<>>, TRUE), TRUE)>>, NoFile)
Nic(pnp) ==
  RomDevice("nic", "disk", <<RomImage(Rom("efi", 2, 2, <<>>, TRUE), FALSE),
                             RomImage(Rom("nic", 3, 3, pnp, TRUE), TRUE)>>, NoFile)
Hba(valid) ==
  RomDevice("hba", "disk", <<RomImage(Rom("hba", 2, 2, <<>>, valid), TRUE)>>, NoFile)
Raid == RomDevice("raid", "disk", <<>>, Rom("raid", 2, 1, <<"bcv">>, TRUE))
Driven ==
  RomDevice("ahci", "disk", <<RomImage(Rom("ahci", 2, 2, <<"bcv">>, TRUE), TRUE)>>, NoFile)

RomWorld(devices, vgafiles, enforce, run) ==
  [devices |-> devices, vgafiles |-> vgafiles, EnforceChecksum |-> enforce,
   RunPCIroms |-> run,
   genfiles |-> <<Rom("linuxboot", 1, 2, <<"bev">>, TRUE), Rom("sga", 3, 3, <<>>, TRUE)>>]

RomWorlds ==
  {RomWorld(<<d1, d2, d3>>, <<>>, enforce, 2) :
     d1 \in {Display("vga"), Display("other")},
     d2 \in {Nic(<<"bev">>), Nic(<<"bcv", "bcv", "none", "bev">>), Raid},
     d3 \in {Hba(TRUE), Hba(FALSE), Driven}, enforce \in BOOLEAN}
    \cup {RomWorld(<<Display("vga"), Hba(TRUE)>>,
                   <<Rom("vgafile", 2, 2, <<>>, TRUE)>>, TRUE, run) : run \in 0 .. 2}

Roms == INSTANCE OptionRoms WITH
  Worlds <- RomWorlds, Afters <- RomAfters, OPTION_ROM_ALIGN <- 2, Blocks <- 14,
  world <- v1, pc <- v2, todo <- v3, RomEnd <- v4, area <- v5, ivt19 <- v6,
  post_vga <- v7, sources <- v8, vectors <- v9, kept <- v10, measured <- v11

----------------------------------------------------------------------------
(* One component runs.                                                        *)

\* The components whose modules are extended.
Own == {"e820", "ticks", "xhci", "virtio", "floppy", "modes", "cpus", "restart"}

ownVars == <<e820_list, tickVars, xhciVars, virtioVars, floppyVars, modeVars, smpVars,
             restartVars>>

OwnInit ==
  /\ IF part = "e820" THEN Init ELSE e820_list = <<>>
  /\ TickInit /\ (part # "ticks" => timer_counter = 0)
  /\ IF part = "xhci" THEN XhciInit
     ELSE /\ rings = Off /\ evts = Off /\ hc = Off /\ er = Off
          /\ lock = Off /\ thread = Off /\ budget = Off /\ intr = Off
  /\ IF part = "virtio" THEN VirtioInit
     ELSE /\ desc = Off /\ vq = Off /\ avail = Off /\ used = Off
          /\ device = Off /\ req = [pc |-> Off]
  /\ IF part = "floppy" THEN FloppyInit
     ELSE /\ bda = Off /\ FloppyDOR = [reset |-> TRUE] /\ fdc = [phase |-> Off]
          /\ drive = Off /\ op = [pc |-> Off]
  /\ IF part = "modes" THEN ModeInit
     ELSE /\ mode_cpu = [mode |-> Off] /\ Call16Data = Off /\ ExtraStack = Off
          /\ StackPos = Off /\ smm = Off /\ frames = <<>> /\ restored = TRUE
  /\ IF part = "cpus" THEN SmpInit
     ELSE /\ smp_msr_count = Off /\ CountCPUs = Off /\ SMPLock = Off
          /\ SMPStack = Off /\ trampoline = Off /\ msrs = Off
          /\ bsp = [pc |-> Off] /\ ap = [c \in APs |-> Off]
  /\ IF part = "restart" THEN RestartInit
     ELSE /\ pristine = Off /\ cpu = Off /\ ram = Off /\ pam = Off
          /\ cmos = Off /\ suspended = Off /\ attempts = 0
          /\ resets = Off

OwnNext ==
  /\ part \in Own
  /\ IF part = "e820" THEN Next ELSE UNCHANGED e820_list
  /\ IF part = "ticks" THEN TickNext ELSE UNCHANGED tickVars
  /\ IF part = "xhci" THEN XhciNext ELSE UNCHANGED xhciVars
  /\ IF part = "virtio" THEN VirtioNext ELSE UNCHANGED virtioVars
  /\ IF part = "floppy" THEN FloppyNext ELSE UNCHANGED floppyVars
  /\ IF part = "modes" THEN ModeNext ELSE UNCHANGED modeVars
  /\ IF part = "cpus" THEN SmpNext ELSE UNCHANGED smpVars
  /\ IF part = "restart" THEN RestartNext ELSE UNCHANGED restartVars

InstanceInit ==
  \/ part = "nvme" /\ Nvme!Init /\ Off9
  \/ part = "ehci" /\ Ehci!Init /\ Off12
  \/ part = "uhci" /\ Uhci!Init /\ Off12
  \/ part = "ohci" /\ Ohci!Init /\ Off12
  \/ part = "companions" /\ Shared!Init
  \/ part = "disks" /\ Disks!Init /\ Off8
  \/ part = "boot" /\ Boot!Init /\ Off8
  \/ part = "pci" /\ Pci!pciInit /\ Off12
  \/ part = "hid" /\ Hid!Init /\ Off4
  \/ part = "sercon" /\ Console!Init /\ Off10
  \/ part = "vga" /\ Vga!Init /\ Off10
  \/ part = "tpm" /\ Tpm!Init /\ Off10
  \/ part = "loader" /\ Loader!Init /\ Off11
  \/ part = "ahci" /\ Ahci!Init /\ Off10
  \/ part = "ata" /\ Ata!Init /\ Off10
  \/ part = "sdcard" /\ Card!Init /\ Off7
  \/ part = "scsi" /\ Scsi!Init /\ Off9
  \/ part = "chip" /\ Chip!Init /\ Off5
  \/ part = "slots" /\ Addresses!Init /\ Off9
  \/ part = "roms" /\ Roms!Init /\ Off12
  \/ part \in Own /\ Off1

InstanceNext ==
  \/ part = "nvme" /\ UNCHANGED from9 /\ Nvme!Next
  \/ part = "ehci" /\ UNCHANGED from12 /\ Ehci!Next
  \/ part = "uhci" /\ UNCHANGED from12 /\ Uhci!Next
  \/ part = "ohci" /\ UNCHANGED from12 /\ Ohci!Next
  \/ part = "companions" /\ Shared!Next
  \/ part = "disks" /\ UNCHANGED from8 /\ Disks!Next
  \/ part = "boot" /\ UNCHANGED from8 /\ Boot!Next
  \/ part = "pci" /\ UNCHANGED from12 /\ Pci!pciNext
  \/ part = "hid" /\ UNCHANGED from4 /\ Hid!Next
  \/ part = "sercon" /\ UNCHANGED from10 /\ Console!Next
  \/ part = "vga" /\ UNCHANGED from10 /\ Vga!Next
  \/ part = "tpm" /\ UNCHANGED from10 /\ Tpm!Next
  \/ part = "loader" /\ UNCHANGED from11 /\ Loader!Next
  \/ part = "ahci" /\ UNCHANGED from10 /\ Ahci!Next
  \/ part = "ata" /\ UNCHANGED from10 /\ Ata!Next
  \/ part = "sdcard" /\ UNCHANGED from7 /\ Card!Next
  \/ part = "scsi" /\ UNCHANGED from9 /\ Scsi!Next
  \/ part = "chip" /\ UNCHANGED from5 /\ Chip!Next
  \/ part = "slots" /\ UNCHANGED from9 /\ Addresses!Next
  \/ part = "roms" /\ UNCHANGED from12 /\ Roms!Next

MCInit == part \in Parts /\ OwnInit /\ InstanceInit

MCNext ==
  /\ UNCHANGED part
  /\ \/ UNCHANGED shared /\ OwnNext
     \/ UNCHANGED ownVars /\ InstanceNext

MCVars == <<part, ownVars, shared>>

\* No host controller driver tells its threads apart.
UsbSymmetry == Permutations(UsbThreads)

MCSpec == MCInit /\ [][MCNext]_MCVars

----------------------------------------------------------------------------
(* The properties of the components, stated where their actions are; TimeKept *)
(* also holds of the state TickClock has while another component runs.        *)

\* e820_add() and e820_remove() leave the memory map that was described, in its
\* shortest form.
MemoryMapExact == part = "e820" => Canonical /\ DescribesExactly

\* nvme_process_op(), the drivers of AHCI ports, ATA channels, SD cards and three SCSI
\* adapters transfer each block of a request to its place, whatever commands they split
\* it into, however queues have wrapped and whatever an earlier command has left behind.
RequestsDelivered ==
  /\ part = "nvme" => Nvme!RequestsDelivered
  /\ part = "ahci" => Ahci!PortTrue
  /\ part = "ata" => Ata!ChannelTrue
  /\ part = "sdcard" => Card!CardTrue
  /\ part = "scsi" => Scsi!AdapterTrue

\* xhci_event_wait() returns the code of the caller's own TRB, whoever has run
\* xhci_process_events() meanwhile, and reports arrive in order.
RequestsAnswered == part = "xhci" => RequestsServed

\* The waits of ehci_waittick(), uhci_waittick() and ohci_waittick() and the ways pipes
\* are unlinked leave a controller nothing to follow into memory that is used for
\* something else, and what the drivers take for done the devices have taken.
ScheduleSafe ==
  /\ part = "ehci" => Ehci!ScheduleSafe
  /\ part = "uhci" => Uhci!ScheduleSafe
  /\ part = "ohci" => Ohci!ListsSafe

\* The status and the count that int 13h returns are true of memory and disk.
CallsHonest == part = "disks" => Disks!CallsHonest

\* optionrom_setup() registers the boot vectors of exactly the roms that stay, and
\* bcv_prepboot() and int 18h try every entry once, in order of priority.
BootOrderKept ==
  /\ part = "boot" => Boot!BootOrderKept
  /\ part = "roms" => Roms!RomsTrue

\* "Boot Failure recovery: try the next device.": do_boot() reads from the
\* device whose turn it is.
NextDeviceTried == part = "boot" => Boot!NextDeviceTried

\* pci_bios_init_bus_rec() gives every bridge the numbers of all buses behind it.
BusesReachable == part = "pci" => Pci!BusesReachable

\* pci_setup() gives every function addresses that its bridges forward,
\* ehci_wait_controllers() gives every device at a shared port one driver, and
\* xhci_alloc_pipe() gives every device a slot that the controller knows it by.
DevicesReachable ==
  /\ part = "pci" => Pci!DevicesReachable
  /\ part = "companions" => Shared!PortsClaimed
  /\ part = "slots" => Addresses!SlotsTrue

\* What handle_key() tells process_key() follows the keyboard's reports.
ReportsFollowed == part = "hid" => Hid!ReportsFollowed

\* Whatever int 10h writes and scrolls, video memory holds it, also after the timer
\* has drawn a cursor into it and swcursor_pre_handle10() has taken it away; on a serial
\* console what sercon_lazy_flush() has put off shows as if it had been sent at once, and
\* sercon_check_event() finds the keys in the bytes that have come.
ScreenTrue ==
  /\ part = "vga" => Vga!ScreenTrue
  /\ part = "sercon" => Console!ConsoleTrue

\* tpm_add_measurement_to_log() and int 1Ah extend and log in one order, and what
\* tpmhw_transmit() returns is the TPM's response to the command it was given.
LogTellsPcrs ==
  /\ part = "tpm" => Tpm!LogTellsPcrs
  /\ part = "chip" => Chip!AnswersTrue

\* romfile_loader_execute() leaves tables that are linked and sum to zero, and
\* romfile_fw_cfg_resume() tells the devices again.
TablesLinked == part = "loader" => Loader!TablesLinked

----------------------------------------------------------------------------

\* Beside the other components too, e820_add() and e820_remove() leave the memory map
\* that was described, for every size of the array.
THEOREM MapStaysExact == MCSpec => []MemoryMapExact
<1> DEFINE I == part = "e820" => MapInv
<1>1. MCInit => I
  BY MapStarts, ZenonT(40) DEF MCInit, OwnInit
<1>2. I /\ [MCNext]_MCVars => I'
  <2> SUFFICES ASSUME I, [MCNext]_MCVars, part' = "e820" PROVE MapInv'
    OBVIOUS
  <2>1. part' = part /\ (OwnNext \/ UNCHANGED ownVars)
    BY Zenon DEF MCNext, MCVars
  <2>2. UNCHANGED ownVars => UNCHANGED e820_list
    BY Zenon DEF ownVars
  <2>3. OwnNext => Next
    BY <2>1, Zenon DEF OwnNext
  <2> QED
    BY <2>1, <2>2, <2>3, MapStep
<1>3. I => MemoryMapExact
  BY MapIsCanonical, MapIsExact DEF MemoryMapExact
<1> QED
  BY <1>1, <1>2, <1>3, PTL DEF MCSpec

\* Beside the other components too, a request to an xHCI device returns the code of its
\* own last TRB, and reports are in order up to the first transfer that fails, for every
\* number of threads and size of the rings.
THEOREM RequestsStayAnswered == MCSpec => []RequestsAnswered
<1> DEFINE I == part = "xhci" => XhciInv
<1>1. MCInit => I
  BY XhciStarts, ZenonT(40) DEF MCInit, OwnInit
<1>2. I /\ [MCNext]_MCVars => I'
  <2> SUFFICES ASSUME I, [MCNext]_MCVars, part' = "xhci" PROVE XhciInv'
    OBVIOUS
  <2>1. part' = part /\ (OwnNext \/ UNCHANGED ownVars)
    BY Zenon DEF MCNext, MCVars
  <2>2. UNCHANGED ownVars => UNCHANGED xhciVars
    BY Zenon DEF ownVars
  <2>3. OwnNext => XhciNext
    BY <2>1, Zenon DEF OwnNext
  <2> QED
    BY <2>1, <2>2, <2>3, XhciSteps
<1>3. I => RequestsAnswered
  BY XhciAnswers DEF RequestsAnswered
<1> QED
  BY <1>1, <1>2, <1>3, PTL DEF MCSpec

=============================================================================
