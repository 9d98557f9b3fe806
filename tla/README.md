# SeaBIOS in TLA+

This directory models the parts of SeaBIOS that keep state over time: the
threads of the POST phase, the memory map and the allocator, the enumeration of
USB devices and the schedules of their controllers, the clocks, the keyboard and
the PS/2 port, the queues of NVMe, xHCI and virtio, AHCI, ATA, SD and SCSI drives,
the disk services and the floppy controller, mode switches, the start of the CPUs,
the boot order, the setup of PCI, the consoles, the TPM with its measurement log and
the table loader. TLC checks each of them on a small instance. The core of them --
the threads, the memory map, memory allocation, the clocks, the enumeration of USB
devices, the keyboard, the PS/2 port, mode switches, the start of the CPUs and of the
machine, virtio queues and the floppy driver -- is also proved correct with TLAPS, for
every value of the constants.

Source paths below are relative to `src/src/`.

Contents: 1 the system and its components; 2 the modules and how they relate to
the code; 3 the runs; 4 fairness; 5 the proofs; 6 where code and comments
disagree; 7 what is left out; 8 the plan.

## 1. The system

A BIOS has two lives.

* In the **POST phase** `maininit()` (`post.c`) sets up tables and memory, starts
  the drivers in cooperative threads, runs option roms and boots. There is one
  CPU (the others are started and parked). Control moves from thread to thread
  only in `yield()` and what calls it -- with one exception, an RTC interrupt in
  an option rom.
* **At run time** the BIOS is a set of services (int 10h-1ah) and interrupt
  handlers (int 08h, 09h, 70h, 74h) which share the BIOS data area (BDA), the
  extended one (EBDA) and a few variables in low memory. Services run with
  interrupts off but let them in wherever they wait. Handlers call hooks of the
  program, which call services again, in the middle of the one that waits.

So the concurrency that matters is: threads interleaved at `yield()`; services
and handlers interleaved and *nested*; and devices which go on by themselves,
answer late or do not answer.

### 1.1 Modelled components

**Cooperative threads, mutexes, preemption** (`stacks.c`, `list.h`, the order of
phases in `post.c`). State: the ring of `thread_info`, `mutex_s.isLocked`,
`CanPreempt`, `RTCusers`, `ThreadControl`. Operations: `run_thread`,
`__end_thread`, `yield`, `mutex_lock/unlock`, `wait_threads`,
`wait_preempt/start_preempt/finish_preempt`, `check_preempt`. Used by every
driver. Hard: a thread's stack is linked and freed while the others are in the
middle of their work; functions run in place when there is no memory for a
stack; option roms are preempted from an interrupt. Correct when: the ring is
always one cycle, mutexes exclude, an option rom is never disturbed, the boot
waits for all setup functions and is reached.

**e820 memory map** (`e820map.c`). State: `e820_list`, a bounded array.
Operations: `e820_add`, `e820_remove`. Hard: splitting, trimming and merging at
the boundaries, and the full array. Correct when: the list is canonical and
says of each address what was last said of it.

**Memory allocation and PMM** (`malloc.c`, `pmm.c`, the rom area of
`optionroms.c`). State: five zones of ranges, the bookkeeping allocated from the
zones themselves, the place of the EBDA and the size of base memory in the BDA,
the end of the confirmed roms. Operations: `malloc_palloc`, `malloc_pfree`,
`malloc_sethandle`, `malloc_findhandle`, `zonelow_expand`, `rom_reserve`,
`rom_confirm`, PMM functions 0-2, `malloc_prepboot`. Option roms take memory
behind its back. Hard: the bookkeeping of an allocation is an allocation, which
can fail half way; `ZoneLow` grows over the EBDA, or shrinks under the roms.
Correct when: no byte is handed out twice or lost, and permanent memory is not
RAM in the map at boot.

**USB enumeration and hubs** (`hw/usb.c`, `hw/usb-hub.c`, root hubs of
UHCI/OHCI/EHCI). State: `hub->threads`, `hub->devcount`, `cntl->resetlock`,
`hub->lock`, `cntl->maxaddr`, the free list of pipes. Operations:
`usb_enumerate`, `usb_hub_port_setup`, `usb_set_address`, `configure_usb_device`,
`usb_hub_setup`, port requests. Hard: a thread per port, recursively; each
request may fail, be lost, or be obeyed although it failed; structures on the
stack of a thread others refer to. Correct when: a request reaches one device,
pipes are neither leaked nor shared, the hub outlives its threads, devices with
a driver stay reachable, and the enumeration ends.

**Real time clock, interval timer** (`hw/rtc.c`, `clock.c`). State: `RTCusers`,
the status registers B and C of the chip, `rtc_wait_flag`, the time left and
flag pointer of the user timer. Operations: int 15h ah=83h/86h, int 1ah ah=03h,
05h, 06h, 07h, IRQ8, `start_preempt`. Hard: services nested in handlers, a
register read before and written after a wait, a pointer to a stack frame.
Correct when: the periodic interrupt is on as long as it is needed, and waits
end.

**Tick counter** (`clock.c`, `hw/timer.c`). State: `timer_counter`,
`timer_rollover`. Operations: IRQ0, int 1ah ah=00h/01h, `irqtimer_*`,
`clock_setup`. Hard: midnight, widths. Correct when: no day is lost and timers
last as long as they should.

**Keyboard** (`kbd.c`). State: `kbd_flag0/1`, `kbd_led`, the ring of keys.
Operations: int 09h, int 16h, ctrl-break, ctrl-alt-del, `kbd_init`. Hard: e0/e1
prefixes and their wrapping shifts, interrupts between the steps of a service,
a ring read by program and hooks. Correct when: flags agree with the keys that
are held, and the ring is a queue.

**PS/2 port and mouse** (`hw/ps2port.c`, `mouse.c`). State: `Ps2ctr`, the
controller's control byte and its one output buffer, `mouse_flag1/2`,
`mouse_data`, the handler's address. Operations: `__ps2_command`,
`ps2_recvbyte`, `ps2_keyboard_setup`, int 15h c2h, IRQ1 and IRQ12. Hard: command
dialogues and key strokes arrive through the same buffer; refusals, silence,
late answers; commands given from handlers. Correct when: the port is left as it
was found, answers are not keys, packets arrive whole, commands end.

**NVMe** (`hw/nvme.c`). State: the submission queue's head and tail, the
completion queue's head and phase, the page list and the bounce buffer.
Operations: `nvme_process_op`, `nvme_cmd_readwrite`, `nvme_wait`. Hard: the phase
flips at the wrap; a request is several commands over lists of pages; a command
that is given up completes later. Correct when: the driver and the controller
agree on what is in the queues, and what is reported was transferred.

**xHCI rings** (`hw/usb-xhci.c`). State: the command, transfer and event rings,
`nidx`, `eidx`, `cs`, the last event of each ring. Operations: `xhci_trb_queue`,
`xhci_process_events`, `xhci_event_wait`, `xhci_cmd_submit`, `xhci_send_pipe`,
`xhci_poll_intr`. Hard: any thread takes events off for all; link TRBs and cycle
bits; events after a timeout; transfers that fail. Correct when: a request returns its own
result.

**xHCI slots** (`hw/usb-xhci.c`). State: `devs[]`, the slot of each default pipe, what
the controller keeps for a slot. Operations: `xhci_alloc_pipe`, `xhci_alloc_inctx`,
`xhci_config_hub`, `configure_xhci`. Hard: commands fail one by one, are given up and
still carried out, devices are unplugged. Correct when: the controller knows each
device at its place, behind the hub that splits its transactions, and writes to no
memory that was freed.

**EHCI schedules** (`hw/usb-ehci.c`, the free list of `hw/usb.c`). State: the ring of
queue heads, the free list, the doorbell bits of USBCMD and USBSTS, descriptors on
the stacks of callers, the ring of an interrupt pipe. Operations:
`ehci_realloc_pipe`, `ehci_send_pipe`, `ehci_wait_td`, `ehci_reset_pipe`,
`ehci_waittick`, `ehci_free_pipes`, `ehci_poll_intr`. Hard: the controller walks the
ring and writes back what it works on while threads change both; they share one
doorbell. Correct when: it never gets to memory that is used for something else.

**UHCI schedule** (`hw/usb-uhci.c`). State: the frame list, the chain of queue heads
behind it (`control_qh`), the ring of descriptors on a caller's stack, data toggles.
Operations: `uhci_realloc_pipe`, `uhci_send_pipe`, `wait_td`, `wait_pipe`,
`uhci_waittick`, `uhci_free_pipes`, `uhci_poll_intr`. Hard: the ring is filled while
the controller works it off, and the controller cannot be told to stop: before memory
goes, the driver waits for a frame. Correct when: the controller stays on what is
there, and a request that succeeded was taken once by the device.

**OHCI lists** (`hw/usb-ohci.c`). State: the control and the bulk list, `int_table`, the
enable bits and current EDs of the controller. Operations: `ohci_realloc_pipe`,
`ohci_send_pipe`, `wait_ed`, `ohci_waittick`, `ohci_free_pipes`, `ohci_poll_intr`. Hard:
as UHCI; the controller remembers where it is in a list that is unlinked.

**Companion controllers** (`ehci_wait_controllers`, the root hubs of `hw/usb-ehci.c`,
`usb-uhci.c`, `usb-ohci.c`). State: `PendingEHCI`, CONFIGFLAG, PORT_OWNER. Operations:
`configure_ehci`, `ehci_hub_detect`, `ehci_hub_reset` and those of the companions. Hard:
one port, two drivers with a thread each, no lock. Correct when: a device has one
driver and no companion waits for ever.

**Virtio rings** (`hw/virtio-ring.c`). State: descriptors and their free list,
two rings with 16 bit indices. Operations: `vring_add_buf`, `vring_kick`,
`vring_get_buf`. Hard: descriptors are recycled in another order and number.
Correct when: the device gets the buffers of this request and no others.

**AHCI port** (`hw/ahci.c`). State: the registers of a port (command list running, FIS
reception, the issued command, interrupt bits), the blocks its list is in, `port->atapi`.
Operations: `ahci_port_alloc`, `ahci_port_setup`, `ahci_port_realloc`,
`ahci_port_release`, `ahci_command`, `ahci_port_reset`. Hard: every command may fail, be
given up or report late, and what it leaves must not be taken by the next; memory is
freed under a port that may still run. Correct when: a request that succeeds was
carried out, and the port takes the next one after every end.

**ATA channel** (`hw/ata.c`). State: the registers two drives share, the interrupt mask,
the bus master, what was found. Operations: `ata_detect`, `ata_process_op`,
`ata_atapi_process_op`, `ata_reset`. Hard: commands in two widths, three kinds of
transfer, buffers across 64 KiB, errors in each step. Correct when: a request moves the
blocks it is for and no others, and leaves the channel usable.

**SD card** (`hw/sdcard.c`). State: `irq_status` and what the controller has under way,
the kind of the card. Operations: `sdcard_card_setup`, `sdcard_readwrite`,
`sdcard_pio`, `sdcard_set_frequency`. Hard: the bits stay, whichever command set them;
what kind of card it is comes out of which commands fail. Correct when: data is that of
its own command, and a card is taken for what it is.

**SCSI adapters** (`hw/blockcmd.c`, `megasas.c`, `mpt-scsi.c`, `pvscsi.c`). State: frames,
reply queues, rings with free-running indices; the tries and the time of the wait for a
medium. Operations: `scsi_drive_setup`, `scsi_is_ready`, the three `*_process_op`. Hard:
three ways to be told of an end, of a command that may have been given up. Correct when:
an end is that of the command that is waited for.

**TPM interfaces** (`hw/tpm_drivers.c`). State: `TPMHW_driver_to_use`, the TPM's state
and locality. Operations: `tpmhw_probe`, `tpmhw_transmit`. Hard: a command that was
given up goes on. Correct when: a response is that of the caller's command.

**Disk services** (`disk.c`, `block.c`, `cdrom.c`, and what `hw/ata.c` and
`hw/ahci.c` leave behind). State: the drive maps, `CDEmu`, `bounce_buf`, the last
status of int 13h, memory and disks. Operations: reads, writes and verifies of
int 13h, int 13h ah=4bh, `cdrom_boot`. Hard: a request fails in the middle, is
split, is unaligned or is emulated in other units. Correct when: statuses and
counts are true.

**Floppy** (`hw/floppy.c`). State: interrupt, calibration, track, media and motor
bytes of the BDA, `FloppyDOR`, the controller's phase. Operations:
`floppy_process_op`, IRQ6, the tick. Hard: every step may fail or time out while
the drive goes on; the tick counts the motor down meanwhile. Correct when: the
BIOS and the controller stay, or get back, in step.

**Mode switches, SMM** (`stacks.c`, `romlayout.S`, `fw/smm.c`). State: `Call16Data`,
`StackPos`, the extra stack, the SMM save areas, the CPU's mode, stack, A20,
descriptor tables and NMI mask. Operations: the entry points, `stack_hop`,
`stack_hop_back`, `call32`, `call16`, `farcall16`. Hard: they nest, and there is
one save area of each kind. Correct when: each gives back what it found.

**Other CPUs** (`fw/smp.c`, `fw/mtrr.c`). State: `SMPLock`, `SMPStack`, `CountCPUs`,
`smp_msr`, the trampoline at 0x10000. Operations: `smp_scan`, `handle_smp`,
`wrmsr_smp`, `smp_resume`. Hard: all CPUs share one stack. Correct when: one CPU is
on it at a time and each is counted and set up once.

**Restart** (`post.c`, `resume.c`, `fw/shadow.c`). State: `HaveRunPost` and the image
around it at 0xf0000, the PAM registers, the reset code in CMOS. Operations: the
reset vector, `handle_post`, `handle_resume`, `qemu_reboot`, `make_bios_*`. Hard: a
reset leaves memory as it is and may come between any two steps. Correct when: POST
begins with a fresh image, a resume with what a finished POST has left.

**Option roms** (`optionroms.c`). State: the area at 0xc0000 up to `RomEnd`, the source
of each rom, interrupt 19h. Operations: `vgarom_setup`, `optionrom_setup`,
`init_optionrom`. Hard: roms change themselves while they run, and the boot vectors
are searched for in what they leave. Correct when: each rom that stays has its
vectors, once, and none of the others has.

**Boot order** (`boot.c`). State: `BootList`, the table of boot vectors, the drive
maps, `CDEmu`, the place in the sequence. Operations: `bootentry_add`, the menu,
`bcv_prepboot`, int 19h, int 18h. Hard: entries come in any order from threads;
the table is bounded; devices change their numbers. Correct when: devices are
tried once each, in order of priority.

**PCI setup** (`fw/pciinit.c`). State: bus numbers of bridges, the lists of areas of
each bus, their bases. Operations: the passes of `pci_setup`. Hard: sums and
alignments up the tree, reservations for hotplug, memory that is too small.
Correct when: every function is reached at its bus and its addresses, by nothing
else.

**USB keyboard** (`hw/usb-hid.c`). State: `LastUSBkey`. Operation: `handle_key`. Hard:
only differences of reports are known; rollover; repeats. Correct when: what
`process_key` is told fits the reports, key for key.

**Serial console** (`sercon.c`). State: the character that waits, the last attribute
and place sent, `rx_buf`. Operations: int 10h, `sercon_check_event` at the tick. Hard:
output is put off until it cannot be any longer; keys are sequences of bytes that
arrive in pieces. Correct when: the terminal shows what was written, and keys are
those that were typed.

**VGA BIOS** (`vgasrc/`). State: cursors, page, rows and height of characters in the
BIOS data area, video memory in four layouts, `BF_SWCURSOR`, the display's start and
cursor. Operations: int 10h, `swcursor_check_event` at the tick. Hard: where the
hardware has no cursor the timer draws one into the picture, and every call that
touches the picture must take it away first; scrolls move memory over itself;
lines of a CGA mode lie in two banks. Correct when: memory holds what the calls
have written, on every page.

**TPM and measurement log** (`tcgbios.c`). State: `TPM_version`, `TPM_working`,
`tpm20_pcr_selection`, `TPM_interface_shutdown`, the log and its end. Operations:
`tpm_setup`, the `tpm_add_*`, `tpm_option_rom`, `tpm_prepboot`, int 1ah ah=bbh,
`tpm_s3_resume`. Hard: a register is extended first and logged afterwards, and
the log has a fixed size; any command may fail, or be obeyed without an answer;
programs use the TPM whether the BIOS still does or not. Correct when: the log
gives the registers, except for what is known to be missing.

**Table loader** (`fw/romfile_loader.c`). State: the loaded files, the list of
written pointers. Operations: the four commands, `romfile_loader_execute`,
`romfile_fw_cfg_resume`. Hard: commands build on each other, and each may be
skipped; devices forget what they were told. Correct when: pointers lead to the
tables, sums are zero, and devices know the same after a resume.

### 1.2 How the parts interact

| From | To | By |
|---|---|---|
| `maininit` | drivers | `run_thread`, `wait_threads` (Threads) |
| drivers, PMM | allocator | `malloc_*`, `memalign_*`, `free` (Malloc) |
| threads | allocator | a stack is `memalign_tmphigh()` -- failure is "run in place" (Threads, UsbEnum) |
| allocator | e820 map | permanent PMM blocks, `malloc_prepboot` (Malloc, E820) |
| allocator | threads | `zonelow_expand` calls `wait_preempt` before it moves the EBDA (Threads: `Touch`) |
| option rom | threads | IRQ8 -> `check_preempt` (Threads: `RtcIrq`) |
| threads, user timer | RTC | `rtc_use/rtc_release` share `RTCusers` (Rtc: `start_preempt`, `set_usertimer`) |
| int 16h | PS/2 port | `kbd_command` (Keyboard: `set_leds`; Ps2Port: operation `leds`) |
| PS/2 port | keyboard, mouse | `process_key`, `process_mouse` |
| USB | threads | `run_thread`, mutexes (UsbEnum) |
| USB keyboard | keyboard | `process_key` (UsbKeyboard: `Told`) |
| EHCI, xHCI requests | threads | `yield` in `ehci_waittick` and `xhci_event_wait`, the mutex of the command ring (EhciSchedule: `cpu`; XhciRings: `lock`) |
| UHCI, OHCI requests | threads | `yield` in `wait_td`, `wait_pipe`, `wait_ed` and the waits for a frame (UhciSchedule, OhciLists: `waittick`) |
| companions | EHCI | `PendingEHCI`, PORT_OWNER (Companions: `Routed`, `GiveAway`) |
| int 13h | drivers | `process_op` (DiskService, ScsiAdapters, AtaDisk); `floppy_process_op`, `nvme_process_op`, `ahci_process_op`, `sdcard_readwrite` |
| measurement log | TPM interfaces | `tpmhw_transmit`: answered, refused or lost (TpmLog: `Outcomes`; TpmDriver) |
| option roms | allocator, boot order | `rom_reserve`, `rom_confirm`; `boot_add_bcv`, `boot_add_bev` (OptionRoms; Malloc, BootSequence) |
| USB | xHCI slots | `alloc_pipe`, `realloc_pipe` with a hub's default pipe (XhciSlots; UsbEnum for any controller) |
| AHCI port | allocator | the command list is temporary until the port is known to have a drive |
| int 19h, int 18h | disks, CDs | `call_boot_entry`, drive maps and `CDEmu` (BootSequence, DiskService) |
| 16 bit services | 32 bit drivers | `call32`, `call16`, stack hops (ModeSwitch) |
| timer tick | floppy, USB keyboard, tick counter | `floppy_tick`, `usb_check_event`, `clock_update` |
| timer tick | serial console, VGA BIOS | `sercon_check_event`, `swcursor_check_event` |
| int 19h, option roms | measurement log | `tpm_add_bcv`, `tpm_option_rom` (TpmLog: `Booted`) |
| table loader | allocator | `_malloc` in ZoneHigh and ZoneFSeg, which may fail (RomfileLoader) |
| resume | TPM, devices of the host | `tpm_s3_resume`, `romfile_fw_cfg_resume` (TpmLog, RomfileLoader) |
| resume | other CPUs | `smp_resume` replays the MSRs (Smp) |

### 1.3 Components that are not modelled

| Component | Source | State and what is hard | Why not |
|---|---|---|---|
| USB storage | `hw/usb-msc.c`, `hw/usb-uas.c` | command, data, status, one after the other; no retry | its transfers are in the controllers' models, its setup in ScsiAdapters |
| serial services | `serial.c` | int 14h, int 17h: polling with a timeout | no state |
| timer calibration | `hw/timer.c` | measurement | no state |
| tables, other platforms, output, build tools | `fw/acpi.c`, ... | fixed sequences of writes, data layout, formatting | nothing to check |
| VBE, registers of VGA cards | `vgasrc/vbe.c`, `vgasrc/*.c` | sequences of register writes, tables of modes | no order of their own |

Parts of modelled components are missing too; the notes in `PROJECT.json` say
which. Two of them are known to matter: the setup of two USB keyboards by two
threads (`usb-hid.c:66` tests `keyboard_pipe`, waits, and sets it, so that the
first keyboard is lost) and a keyboard that releases PrtScr or Pause after the
modifiers have changed (209 gives another code than was pressed).

`PROJECT.json` lists all 35 with the reasons, and 40 hazards at the lines
where they bite.

## 2. The modules

Names are those of the code where TLA+ allows it. Each `\* Deviation:`
definition is a plausible bug in the definition below it; it is not part of any
specification and is used to see that a property notices the bug.

| Module | Models | States | 
|---|---|---|
| `Threads` | the thread system under `maininit` | TLC 572 000, proved |
| `HardwareSetup` | what it promises | abstract |
| `ThreadsProof` | theorems about `Threads` and `Smp` | - |
| `E820` | `e820map.c` | 980, proved |
| `Malloc` | `malloc.c`, `pmm.c`, the option rom area | 21 000, proved in part |
| `MallocProof` | theorems about `Malloc` | - |
| `Allocator` | what it promises | abstract |
| `UsbEnum` | `usb.c`, `usb-hub.c` | 139 000, proved |
| `UsbEnumProof` | theorems about `UsbEnum` | - |
| `Rtc` | RTC and user timer | 41 000, proved |
| `RtcProof` | theorems about `Rtc` and `TickClock` | - |
| `TickClock` | tick counter and `irqtimer_*` | 63 000, proved |
| `ClockSetup` | `clock_setup`, `ticks_from_ms` | 172 800 |
| `Keyboard` | `kbd.c` | 996 000, proved |
| `KeyboardProof` | theorems about `Keyboard` | - |
| `KeyQueue` | what int 16h promises | abstract |
| `Ps2Port` | `ps2port.c`, `mouse.c` | 858 000, proved |
| `Ps2PortProof` | theorems about `Ps2Port` | - |
| `NvmeDisk` | `hw/nvme.c` | 141 000 |
| `XhciRings` | `hw/usb-xhci.c` | 86 000, proved |
| `XhciSlots` | `hw/usb-xhci.c`, `hw/usb.c` | 122 000 |
| `AhciPort` | `hw/ahci.c` | 9 600 |
| `AtaDisk` | `hw/ata.c` | 56 000 |
| `SdCard` | `hw/sdcard.c` | 19 000 |
| `ScsiAdapters` | `blockcmd.c`, `megasas.c`, `mpt-scsi.c`, `pvscsi.c` | 18 000 |
| `TpmDriver` | `hw/tpm_drivers.c` | 18 000 |
| `EhciSchedule` | `hw/usb-ehci.c` | 307 000 |
| `UhciSchedule` | `hw/usb-uhci.c` | 200 000 |
| `OhciLists` | `hw/usb-ohci.c` | 112 000 |
| `Companions` | root hubs of EHCI, UHCI, OHCI | 47 000 |
| `VirtioRing` | `hw/virtio-ring.c`, `virtio_blk_op` | 460, proved |
| `DiskService` | `disk.c`, `block.c`, `cdrom.c`, `ata.c`, `ahci.c` | 43 000 |
| `Floppy` | `hw/floppy.c` | 135 000, proved |
| `ModeSwitch` | `stacks.c`, `romlayout.S`, `fw/smm.c` | 21 000, proved |
| `Smp` | `fw/smp.c` | 1 100, proved |
| `Restart` | `post.c`, `resume.c`, `fw/shadow.c` | 23 000, proved |
| `OptionRoms` | `optionroms.c` | 85 000 |
| `BootSequence` | `boot.c` | 18 000 |
| `PciResources` | `fw/pciinit.c` | 91 000 |
| `UsbKeyboard` | `hw/usb-hid.c` | 55 000 |
| `Sercon` | `sercon.c` | 231 000 |
| `VgaText` | `vgasrc/vgabios.c`, `vgafb.c`, `swcursor.c` | 34 000 |
| `TpmLog` | `tcgbios.c` | 123 000 |
| `RomfileLoader` | `fw/romfile_loader.c` | 1 900 |
| `DevicesProof` | theorems about `E820`, `Restart`, `VirtioRing`, `Floppy`, `ModeSwitch` and `XhciRings` | - |
| `MCDevices` | the components of the rows above from `NvmeDisk` on, `E820` and `TickClock`, side by side | 2 061 000 |

### Threads, HardwareSetup

A context is `MainThread` or a stack of `Thread`. `next` and `pprev` are the two
pointers of each `node`; `hlist_add_after` and `hlist_del` are the assignments of
`list.h`. `pc` tells where a context is in the scheduler's loops: `mutex`
(`mutex_lock` spins), `preempt` (`wait_preempt` spins), `join` (`wait_threads`),
`rom` (in an option rom). `calls` is the stack of functions that run in a
context: one more for each `run_thread` that found no memory. A step is the code
between two scheduler calls, which is atomic because nothing else can run.
A hardware setup function is the sequence of scheduler calls it makes, in any
order that drivers make them: mutexes nest in one order, and no driver starts a
thread or returns while it holds one. `phase` is the position in `maininit`,
which depends on `etc/threads` (`ThreadControl`). The abstract specification
says that jobs run each once and to the end, in any interleaving, and that the
boot starts when none runs; its `booted` is `phase \in Past`.

### E820

`e820_add`'s two loops are two operators, `Place` (split or extend the entry in
which the range begins) and `Absorb` (remove what it covers, trim or merge what
it ends in), each with the position where the loop stops. `insert_e820` drops
an entry when the array is full, also in the middle of `e820_add`.

### Malloc, Allocator

The functions are operators on a record of the memory's state, so that a handler
which makes several calls is one action. A range's `at` is the address of the
`allocinfo_s` that describes it: inside an `allocdetail_s` in a temporary zone,
or on the stack of `malloc_palloc` while that has not found space for one
(`TempDetail`, `TempData`). The case in which the second reservation
fails and the first is undone is therefore in the model. A layout (a
constant) gives a build's addresses and what is asked for. `u32` arithmetic is
modulo `Word`, segments and kilobytes in the BDA have their own widths. The
refinement mapping hides the bookkeeping: the blocks are the used ranges that do
not describe themselves.

### UsbEnum

A step is the code between two points at which a thread can lose the CPU. `pc[p]`
is where `usb_hub_port_setup` is for port `p`, `pc[h]` for a hub also where
`usb_enumerate` is. `dev` and `addr` are the hardware's view, which may differ
from the software's: a `set_address` that failed may have been obeyed. `todo`,
`inplace` are the loop of `usb_enumerate`; `made` and `free` count pipes.

### Rtc

`s` is the chip and the user timer, `irr` the latched interrupt; `pc[c]` for the
program and for the handlers of int 1ch and int 4ah tells whether it is in the
program's own code or waits within a service. The user timer's flag is either a
byte of the program or `statusflag` on the stack of `handle_1586`. A world
(constant) tells which services are used where and whether an update of the
clock may be in progress or never end.

### TickClock, ClockSetup

`TickClock` has the handler, the two services and one BIOS timer, with history
variables (`days`, `since`, `base`, `timer.elapsed`) that only properties read.
`ClockSetup` computes what `clock_setup` stores for each second of a day with the
real constants; `t` of `ticks_from_ms` is a pair because it exceeds TLC's
integers.

### Keyboard, KeyQueue

The keyboard sends real byte sequences: prefixes, the shifts that wrap keys of
the cursor block, the two forms of Pause and PrtScr. `__process_key` is the
switch of the code over flags and byte. An int 16h call of the program has two
points at which interrupts come in, `set_leds` and the wait for a key; hooks
raised by the machine (int 05h, 15h, 1bh) call int 16h in the middle of it.
`KeyQueue` is a bounded queue; `Contents` is the ring read from head to tail.

### Ps2Port

`frames` is the stack of what runs: the program (empty), a command, a handler of
either interrupt, a command that the handler gives, and so on. A command goes
through *flush* (the `yield` after both devices are shut out), *send*, *recv*,
and its end, *good* or *fail*, which restores the control byte, or *failed*,
which does not. The controller has one output buffer for two devices
and raises an interrupt when a byte enters it or when the interrupt is enabled
over a byte that is there. Devices obey, refuse or are silent. `budget` bounds
calls, keys, packets and faults; `events` remembers what the properties speak of.

### NvmeDisk

`op` is the request in progress: `idle`, `loop` (about to build the next command)
or `wait`. `sq` and `cq` are the driver's queues, `ctrl` the controller's side of
them, which fetches a command, executes it at any time later and posts its
completion, also after the driver gave up. Memory is an array of blocks; `NULL`
pointers are modelled, since the code writes through one when
`nvme_get_next_sqe` has no entry (`ivt` says that it did).

### AhciPort

`pc` is the place in the thread that sets the port up, and `wait` or `recover` while
`ahci_command` runs; `req.then` is where it returns to. `hba` holds the bits the driver
reads and writes and the command the controller has; `block` is where its list is, `live`
what is allocated. `Fetch`, `Done`, `Failed`, `Noise`, `Stopped` and `Settles` are the
hardware. The data of a command goes to the address that the table has when it moves,
which need not be that command's any more: `moved` keeps both. `req.behind` is true
for a command that was issued while the controller had an earlier one.

### AtaDisk

A step is the code between two waits of `await_ide`. Registers are split into digits, so
that the instance reaches the widths of a sector count, of one write of the address and
of both with small numbers; `Decoded` is how a drive reads them, `Places` how the bus
master reads descriptors. `moved` are the blocks that have crossed, by drive, address and
place in memory, whoever meant them. A drive that is busy or has data does not take a
command. `drv.settled` becomes false when a wait is given up and true at a reset.

### SdCard

`drv.cmd` is the command of `sdcard_card_setup` or of a request, `Following` the command
that comes next. `hc.irq` are the bits of `irq_status`; blocks are named by request and
number. The kinds differ in the commands they know. `drv.suspect` marks requests after
a wait was given up without a reset of the controller.

### ScsiAdapters

`world.kind` is the adapter. `executing` are the commands it has, which it completes in
any order, the given-up ones too. Time is counted in rounds of the loop of
`scsi_is_ready`. What a request sense returns after a mistaken success is any of the
senses the code tells apart.

### TpmDriver

Commands and responses are sequences of bytes that name their command and place, so
that a mixed one shows. `Ready` is what writing TIS_STS_COMMAND_READY does in each state
of the TPM, which takes time to abort. `drv.behind` is the command that a CRB was
executing when it was started again.

### XhciRings

`rings[r]` is `struct xhci_ring` with its TRBs and the last event, `hc[r]` the
controller's place in it, `evts` and `er` the two sides of the event ring. `n`
numbers TRBs, so that a property can tell one round of a ring from the next; the
driver never sees it. `thread[t]` is in a request or not; a world says how many
requests, timeouts, reports and port events there are. Any TRB may fail; a transfer
that does halts its ring, that of the interrupt pipe too.

### XhciSlots

`dev[d]` is the thread of the port where `d` may be: `pc`, where it goes on `then`,
the last completion code, the slot and the pipes. `tree` says which hubs are between
a device and the root, `slot[n]` is what the controller has been told of slot `n`, and
`cmds.queue` holds the commands it has yet to carry out, also those that were given up.
`memory` has the rings that were allocated. An input context is freed as soon as its
command is given up, although the controller may read it later: after such a command
(`cmds.late`) the property says nothing of endpoints.

### EhciSchedule

A thread runs on while it holds `cpu` and gives the CPU away where it yields; each
write that the controller can see is a step, because it runs all the time. `hc` is
the QH it looks at and the transaction under way, whose token it writes back at
the end. A TD is named by the thread on whose stack it is and the number of the
request, so that a property can tell a stack that is used again; `astray` holds the
pipes for which a doorbell was given up or whose token was written back after
their reset. `intr` is an interrupt pipe, which shares nothing with the ring.

### UhciSchedule

`qh` are the queue heads with their `next`, `element` and what the driver keeps beside
them, `links` the frame list, `tds[t]` the descriptors on the stack of thread `t`. `hc`
is the frame, the QH it looks at and the transaction under way: it reads a TD, the
device takes the packet or not, and the queue moves on in a step of its own. A thread
between the two writes that link a pipe is in `link`; in `fill` it fills its ring, in
`wait` it waits for the end, in `waittick` for a frame. `device` is the other end of the
pipe: its toggle and how many packets of the request came in order. `sure` becomes
false when the controller moves on a queue that was cut meanwhile, `even` when a
request begins with toggles that differ.

### OhciLists

As `UhciSchedule`, with a list for each type. `regs` are the enable bits, the heads and
the current EDs; what `hc` serves follows the enable bits at the next frame. A
request's TDs are complete before its ED is no longer skipped. `FreeControl` is one
step, since the control list is stopped.

### Companions

A port leads to its companion until CONFIGFLAG is set, and after PORT_OWNER is. Every
port has a thread on both sides (`fast_port`, `slow_port`); `Attach` is the device that
answers some time after power. `late` are the ports at which a device appeared on a side
that had stopped looking.

### VirtioRing

The descriptor table with its links and flags, `free_head` and `last_used_idx`
of the driver, the two rings in memory, the device. A request takes as many
descriptors as it has buffers, and one request is under way at a time, as in
the drivers.

### DiskService

A call of int 13h is one step, since nothing interrupts it that reads its data;
the step relates the call to each way in which it may end. Memory and disks
hold distinct sectors, so that a property can see what arrived where. The
operators follow the calls: `access`, `process_op`, `driver_process_op`, then
`ata_pio`, `dma_readwrite` or `cdemu_read`.

### Floppy

`op` is the request with the step of `floppy_prep` or of the transfer it is in
and the state of `floppy_pio`; `fdc` and `drive` are the hardware, which finishes
commands by itself. `drive.astray` and `specified` are what only hardware
knows: whether the head is where the last command should have put it, and
whether SPECIFY has been taken.

### ModeSwitch

`mode_cpu` is the mode and what goes with it. `frames` is the stack of operations in
progress, each with the state it found and, where the code saves something on
its stack, what it saved. `restored` becomes false when an operation returns to
another state than it found. Stacks are depths; the extra stack is an array,
so that two users of one place show.

### Smp

`bsp` is the boot CPU in setup, waiting or in the OS; `ap[c]` a CPU that is
off, at the lock, on the stack, done or halted. A start-up interrupt may reach a
CPU late.

### Restart

The image is three pieces: `HaveRunPost` and what is below and above it, because
`qemu_reboot()` copies it in that order. `pam` says whether memory or flash is seen at
0xf0000 and what is locked; on a machine without a pristine copy the flash is that
memory. `HardReset` and `PowerCycle` are possible at every step.

### OptionRoms

A rom is a name with its size in the header, its size as a file, its boot headers and
its checksum; `area` knows of each block which rom it is of and which part. What a
rom makes of itself is any of `Afters`. `kept` and `measured` are histories.

### BootSequence

`BootList` is filled in any order, then the menu, `bcv_prepboot` and the sequence
of int 19h and int 18h run. `tries` records each attempt and where its first
sector was read from.

### PciResources

`pc` is the pass of `pci_setup`; each step handles one bridge, one device or one
bus. `machine` is one of the machines of the instance; `bus` what is written to
the bridges; `region` the lists per bus and type; `bar` and `window` the result.

### UsbKeyboard

`held` is the keys on the keyboard; a report lists them in any order, or says
rollover. `seen` follows what `process_key` has been told.

### Sercon

The functions of lazy output are operators on a record of the cursor, the driver's
variables and the terminal. `screen` is what the calls mean by themselves: what a
video BIOS would show. `con.owed` counts lines that the terminal has yet to
scroll. `lost` names why the two may differ: calls the console answers with less than was
asked (`Shifts`), until a mode set clears both. `line` is what was typed and what of it has arrived; a tick takes all that has.

### VgaText

`fb` is video memory by address, `picture` what the calls mean by place, and
`AddressOf` leads from one to the other. In text modes a cell is a character with its
attribute, in graphics modes an octet, reduced to its first and last pixel, of
which the glyphs of the instance differ. `machine.emulate` is `vga_emulate_text()`.
In graphics modes calls write on the first page whatever page they are given; the
text mode of `cbvga.c` clears its first page only. `unsettled` marks that the cell of
the cursor has changed while the cursor was drawn, by a font (ah=11h) or a restored
state (ah=1Ch): `swcursor_pre_handle10` does not know these calls, and the cursor is then
taken away where it is not. Nothing in the code keeps a character from a cursor below
the screen out of the memory behind it (`OnScreen`).

### TpmLog

`tpm.pcrs` is the sequence of all extensions with who asked for each and whether
it was answered; what is measured is a number, so a register cannot have one
value by two ways. `bios` holds the variables of `tcgbios.c`, `bios.step` the place in
`tpm12_startup` or `tpm20_startup`, and `todo` the measurements a function of the BIOS
has still to make. A command is carried out, refused, or carried out and its
answer lost; `tpm_set_failure` follows in the same step.

### RomfileLoader

`host` is what QEMU offers: tables, commands and the places that take a pointer.
A step is a command with everything it rejects. A table is a sequence of cells,
each a byte or a pointer, and sums are modulo `Mod`. `device` is what the devices
know; a suspend empties it.

### MCDevices

These components share no state. `part` says which one runs, and the variables of
the others keep one value, so that the state space is the sum of theirs. Components
that theorems name are extended and have variables of their own; the others are
instances that take turns at `v1` to `v12`. The threads
of the USB drivers are model values under `SYMMETRY UsbSymmetry`: the drivers compare
threads with nothing but themselves, and no property of the run is temporal.

## 3. The runs

Each property is violated by at least one deviation (the mutants in
`PROJECT.json`), under the same configuration.

**threads** (`Threads.cfg`): 2 stacks, 3 jobs, 2 mutexes, 2 scheduler calls per
job, one option rom per phase, all values of `ThreadControl`. Two stacks and
three jobs give nesting, execution in place and a ring of three, in which
unlinking the middle, the last and the only thread all occur; two calls let a job
lock a mutex and lose the CPU, start another job, or wait for a rom. Shows:
`RingIsOneCycle`, `MutualExclusion`, `PreemptionBalanced`, `RomUndisturbed`,
`ImplementsHardwareSetup`, and `EventuallyBoots`: no mutex, ring position or
preemption keeps the machine from booting.

**malloc** (`Malloc.cfg`): 112 units of memory in three layouts (at the end of
`Malloc`): drivers and PMM that exhaust zones and bookkeeping; option roms
against `ZoneLow`; `ZoneLow` against the EBDA while roms take base memory and PMM is
asked for more than there is. All
memory fits few blocks, so exhaustion at every step of every function occurs.
`ZonesIntact` (types, no byte in two ranges, none in no range), `PmmTellsTruth`
(handles find their block, and what PMM reports as free can be allocated), `MemoryKept`
(neither roms nor EBDA overlap allocations; at boot, what is allocated for good is
not RAM), `ImplementsAllocator`. All four hold until `ZoneLow` is overdrawn
(`overdrawn`, section 6, `malloc.c:210`); the run takes the step that does it and
looks no further (`MCUntilOverdrawn`).

**usb** (`UsbEnum.cfg`): two root ports, a hub with two ports, all failures, three
addresses for four devices. `AddressesExclusive`, `HubOutlivesThreads`,
`PipesAndDriversKept`, and `EndsWithMemory`: without a failed
allocation of a `struct usbdevice_s`, the enumeration ends.
**usb_oom**: with such a failure it need not (section 6).

**rtc** (`Rtc.cfg`): intervals of 0 and 1 periods in three worlds.
`PeriodicCounted`: `RTCusers` is exact through every nesting of intervals,
cancellations and option roms; where no service writes an old register B, the
interrupt is on exactly as long as there is a user. `NoDanglingFlag`: the flag on
a stack frame is written only while its function waits. `IntervalsServed`: waits
and intervals end. **rtc_stale**: where a service does write an old value
(section 6).

**clock_evening**: all 86400 seconds.

**kbd** (`Keyboard.cfg`): 3 presses with their repeats and releases, of ctrl, alt,
NumLock, Delete, Pause and PrtScr, a ring of 3 places, three services. Three
presses reach ctrl-alt-del, wrapped keys with ctrl or NumLock, ctrl-break and a
full ring. `FlagsTellKeys` (types, the flags of each key, the count of lock
presses), `ImplementsKeyQueue`.

**ps2** (`Ps2Port.cfg`): the setup of the keyboard and 3 services, two commands
nested, two keys (the second is in the buffer while the handler of the first runs),
two packets (an incomplete one needs a second to show), one fault. `PortRestored`,
`HandlerPresent`, `CommandsEnd` and `BytesDelivered` (answers are not processed as
keys, packets arrive whole). The exceptions named in the properties (late answers,
nested commands, a controller that does not respond, a command given from a handler
that holds back an interrupt or while the mouse streams, mouse commands while the
mouse streams) are histories for which the code has no defence; each was first a
counterexample. With four services (7 680 000 states, more than a run may take)
nothing changes.

**devices** (`Devices.cfg`, `MCDevices`): twenty-eight components, each with one property
and its own bounds.

* *e820*: every sequence of calls over 5 addresses and 3 types with an array of 4
  entries, which fills up. An operation touches at most two entries and their
  neighbours, so lists of four contain every local situation. `MemoryMapExact`:
  the list is sorted, disjoint and merged, and each call
  gives its addresses the type and no other; a full array forgets, but never
  turns reserved memory into RAM.
* *ticks*: days of 8 ticks, 17 ticks, a rollover byte that wraps at 4, settings up
  to and beyond a day. `TimeKept`: no midnight is lost and a timer passes neither
  early nor late.
* *nvme*: queues of 4, pages of 2 blocks, lists of 2 pages, commands of 7 blocks;
  three requests of 1 to 7 blocks, one at an odd address, one timeout. The queues
  wrap, a list is needed, a request is split and bounced. `RequestsDelivered`.
* *ahci*: disk, CD, another packet device or none, each busy or idle at first; three
  requests, two of timeouts and errors, an interrupt that ends nothing, a failed
  allocation. *ata*: a disk with a CD, a disk alone as the second drive, a CD alone, or
  nothing, with and without a bus master; reads and writes of 1 to 6 blocks at both
  limits of the short commands, across segments and the end of the disk, two in a row,
  with a timeout or an error. *sdcard*: SD and MMC of each generation at base clocks from
  none to 255 MHz, three requests of one or two blocks with an error, or one with a timeout.
  *scsi*: MegaRAID and MPT with a disk that is ready or becomes ready, PVSCSI with more
  commands than its ring of two and indices of two bits hold, two LUNs, other targets.
  All of `RequestsDelivered`.
* *xhci*: rings of 4, two threads with three requests of which one is given up,
  or a port event between three reports. Every ring wraps, every TRB may fail.
  `RequestsAnswered`.
* *slots*: a slow device behind hubs of full and high speed, behind one hub beside a fast
  one, and behind a slow hub beside a device that is unplugged; two timeouts, or one
  and a failure of anything. Three devices are the fewest with a hub between a slow device
  and its translator. `DevicesReachable`.
* *ehci*: two threads and three QHs: two requests each with two timeouts and a
  doorbell that is given up; two TDs each with a timeout and a failure; four and
  five pipes, used again by type, unlinked one after the other or refused; four
  reports and a failure in a ring of two. `ScheduleSafe`.
* *uhci*, *ohci*: two threads, three QHs or EDs: two bulk requests of three (two) TDs on
  two pipes, with one given up and one answer lost, the UHCI ring of two being shorter
  than a request; two control requests with a failure too; three interrupt pipes with
  periods of 1, 2 and 4 frames in a table of four; mixed pipes, used again by type,
  refused, unlinked and freed; four reports and a failure in a small ring. A table of
  one frame is enough where no interrupt pipe has a period. `ScheduleSafe`.
* *companions*: two EHCI controllers, each with a companion and a port, devices of every
  speed or none, one failure anywhere. `DevicesReachable`.
* *virtio*: 4 descriptors, indices modulo 8, nine requests of two or three buffers:
  both indices and the free list go round. `RequestHandedOver`.
* *disks*: two calls on four drives and each kind of emulation, counts up
  to and above the limit, at the end of the disk, across a 64 KiB boundary, at odd
  addresses. `CallsHonest`.
* *floppy*: two drives, two cylinders, two requests; a wait that is longer than
  the motor's countdown; two kinds of media. `FloppyInStep`.
* *modes*: nesting up to six deep from three environments and from 32 bit code,
  with and without SMM. `ModesRestored`.
* *cpus*: three CPUs besides the boot CPU, three writes of MSRs to a table of two,
  two resumes. *restart*: three resets or losses of power at any step, with and without
  a pristine image, memory of four granules with two positions each. `CPUsStarted` and
  `RestartTrue`.
* *boot*: seven entries in any order for a table of five, one below HALT, six
  attempts. *roms*: a display of either class, a card with an image for another
  processor and up to four boot headers, disk controllers with a wrong checksum, a file
  or a driver, two roms from files; each may shrink, vanish, spoil its checksum or take
  interrupt 19h. Fourteen blocks are too few for all of them. `BootOrderKept`.
* *pci*: 3 000 machines of two bridges, nested or side by side, with and without
  reservations, and three functions, with a second root or in memory that is too
  small for some. Six buses. `DevicesReachable`.
* *hid*: four keys and two modifiers, reports of two places. `ReportsFollowed`.
* *sercon*: five calls of int 10h on 3 rows of 2 columns, with ticks in between, windows of
  two or three rows, runs within a line and beyond it; four
  keys, of which two are sequences, in a buffer of five bytes. `ScreenTrue`.
* *vga*: five machines (text with and without a cursor of hardware, CGA, planar and
  packed pixels), two by two characters, two pages, two fonts, three calls of
  int 10h with ticks in between. `ScreenTrue`: the
  memory shows what was written under the cursor that is drawn, the display follows
  the page and its cursor, letters can be read back.
* *tpm*: both versions, logs that hold everything, overflow in the middle or at
  once, no log, no TPM, a TPM started by Xen; three of option roms, boots, calls of int
  1ah and suspends, one failure. *chip*: TIS 1.3, a TPM with
  both interfaces, a CRB, one out of reach; three commands of two lengths, one longer than
  the CRB's buffer, with two timeouts, or two with a timeout and an error. `LogTellsPcrs`.
* *loader*: three tables, one loaded twice or another not there, pointers that are
  too long for their place, two failures of the allocator. `TablesLinked`.

**boot_next** and **pci_buses** (`BootNext.cfg`, `PciBuses.cfg`): the same module
with the parts *boot* and *pci* alone (section 6). The machines of **pci_buses**
reserve fewer buses than are behind the bridge; those of **devices** do not.

`CHECK_DEADLOCK FALSE` is used where the system legitimately stops: `usb_oom`
and `usb` (the hang of section 6 is a stop), `kbd` (presses are bounded),
`ps2` (budgets are) and `devices` (requests are, and PCI setup ends).

## 4. Fairness

* `Threads`: `WF(Next)` -- the CPU always executes something. The choice among
  enabled steps is the job's own; which context runs is determined by the ring,
  so no fairness between threads is assumed: that every thread gets its turn is a
  consequence of `RingIsOneCycle`. `SF(RomReturn)`: between two RTC interrupts
  (about 1 ms) an option rom makes progress, so it returns.
* `UsbEnum`: `WF(Next)`. Polls that find nothing are not steps and
  are bounded by timeouts; some thread that can go on does.
* `Rtc`: `WF(PeriodElapses)`, the chip ticks. `SF` on `handle_70`, the returns of
  handlers, `EndWait86` and the end of `rtc_updating`: further interrupts do not
  put these off for ever, since their rate is far below the time a handler takes.
  Nothing forces a program to call or to return from anything else.
* `Ps2Port`: `WF(Next)`. That commands end follows from the timeout of
  `ps2_recvbyte`, which is a step, with bounded calls and reports.

`Malloc`, `Keyboard` and the components of `MCDevices` have safety properties
only: their operations end by themselves, by a timeout, or wait for a user or
for a device without a timeout (`virtio-blk.c:68`), which the code accepts.

## 5. The proofs

TLAPS proves the following for every value of the constants, from the assumption
that the module of the model names (`ThreadsAssumption`, ...): numbers are natural,
sizes are not zero, a port's hub comes before it, and the like. TLC evaluates these
assumptions in the runs.

| Theorem | Statement |
|---|---|
| `ThreadsProof!TypeCorrect` | `Spec => []TypeOK` (not a property of the run; it is part of `IInv`) |
| `ThreadsProof!RingCorrect` | `Spec => [](RingLinked /\ RingIsOneCycle /\ OnLiveStack)` |
| `ThreadsProof!MutexCorrect` | `Spec => []MutualExclusion` |
| `ThreadsProof!BootCorrect` | `Spec => []BootAfterSetup` |
| `ThreadsProof!PreemptCorrect` | `Spec => []PreemptionBalanced` |
| `ThreadsProof!RomCorrect` | `Spec => RomUndisturbed` |
| `ThreadsProof!Refinement` | `Spec => ImplementsHardwareSetup` |
| `RtcProof!UsersCorrect` | `Spec => []PeriodicCounted` |
| `RtcProof!FlagCorrect` | `Spec => []NoDanglingFlag` |
| `UsbEnumProof!AddressesCorrect` | `Spec => []AddressesExclusive` |
| `UsbEnumProof!HubsOutlive` | `Spec => []HubOutlivesThreads` |
| `UsbEnumProof!PipesCorrect` | `Spec => []PipesAndDriversKept` |
| `KeyboardProof!FlagsCorrect` | `Spec => []FlagsTellKeys` |
| `KeyboardProof!RingIsQueue` | `Spec => ImplementsKeyQueue` |
| `RtcProof!TimeCorrect` | `TickSpec /\ [][AskedInTime]_tickVars => []TimeKept` |
| `RtcProof!DaysCorrect` | `TickSpec => []TimeKept`, with fewer midnights than `timer_rollover` counts |
| `Ps2PortProof!PortCorrect` | `Spec => []PortRestored` |
| `Ps2PortProof!HandlerCorrect` | `Spec => []HandlerPresent` |
| `Ps2PortProof!AnswersCorrect` | `Spec => []AnswersNotKeys` (a part of `BytesDelivered`) |
| `Ps2PortProof!BytesCorrect` | `Spec => []BytesDelivered` |
| `MallocProof!ZonesCorrect` | `Spec => []ZonesIntact` |
| `MallocProof!AllocatorImplemented` | `Spec => ImplementsAllocator` |
| `MallocProof!MemoryCorrect` | `Spec => []MemoryKept` |
| `DevicesProof!ListCorrect` | `Spec => []Canonical` (the first part of `MemoryMapExact`) |
| `DevicesProof!MapCorrect` | `Spec => []DescribesExactly` (the second part) |
| `MCDevices!MapStaysExact` | `MCSpec => []MemoryMapExact` (the two together) |
| `ThreadsProof!StartCorrect` | `SmpSpec => []CPUsStarted` |
| `DevicesProof!RestartCorrect` | `RestartSpec => []RestartTrue` |
| `DevicesProof!QueueCorrect` | `VirtioSpec => []RequestHandedOver` |
| `DevicesProof!DrivesCorrect` | `FloppySpec => []FloppyInStep` |
| `DevicesProof!ModesCorrect` | `ModeSpec => []ModesRestored` |
| `DevicesProof!RequestsKept` | `XhciSpec => []RequestsServed` |
| `MCDevices!RequestsStayAnswered` | `MCSpec => []RequestsAnswered` (the same beside the other components) |

Every proof has the same frame. None of the properties is inductive; `IInv`
strengthens them, in named parts. There is a lemma per part, or per action, that says
the part survives a step; `NextIInv` puts them together, `Invariance` is
`Spec => []IInv`, and a theorem follows from its own part.

### ThreadsProof

For every set of stacks and jobs (finite or not), every number of mutexes, every
bound `Fuel` and `MaxRoms`.

* **Ring.** `RingIsOneCycle` -- every non-empty set of contexts closed under `next`
  contains `MainThread` -- needs no counting or reachability and survives
  `hlist_add_after` and `hlist_del` by set reasoning (`RingAdd`, `RingDel`), but
  only if `next` and `pprev` are inverse (`RingLinked`) and the running context
  is in the ring (`OnLiveStack`). From it `AloneInRing`: when `have_threads()`
  is false there is no thread, although it looks at one pointer only.
* **Locks.** `isLocked[m]` iff someone holds `m`; without it `mutex_lock` could
  take a mutex that is held.
* **Calls.** The running jobs are exactly those on the stacks of contexts in the
  ring, each in one place. With `AloneInRing` this gives `BootCorrect`: no thread
  and an empty main stack leave no running job. `NoLaunchAfterBoot` adds that
  none is started later.
* **Phase** and **preemption**: who may be where; a context other than
  `MainThread` runs during a rom only with `CanPreempt`, so a thread that passed
  `wait_preempt`'s test has not been overtaken by a rom (`RomCorrect`).

`Refinement` maps each action to `Start`, `Finish`, `Boot` or a stutter.

### RtcProof

For every set of intervals and in every world. `CountInv`: `RTCusers` counts the
interval and the rom, and where nobody writes an old Status Register B (`KeepsB`) no
one holds an old value of it (`NoOldB`); without the second part `rtc_use` would not
be known to turn the interrupt on for good. `FlagInv`: a set flag on the stack of
`handle_1586` means its interval is over. Nothing is proved of the claim that the run
`rtc_stale` refutes.

### UsbEnumProof

For every tree of hubs, every number of addresses. The holder of `resetlock` is the
port between reset and recovery (`ResetInv`), each place of a port's code knows what
its device answers to (`DeviceInv`), and the address that is being given out is above
all in use, whether or not the device took it (`AddressInv`); together no two answer
to one address. A running port has a hub that is in `usb_enumerate` (`TreeInv`), whose
`threads` is the number of its ports that have not ended (`ThreadsInv`, a
cardinality: one port ends, the count falls by one); so it cannot be zero while one
runs. `DriverInv` and `PipeInv` are the accounts of drivers and pipes. That
no port runs when the root hub's loop is over (`AllQuiet`) takes an induction along
the tree, done as a minimal counterexample. The proof found `DeviceInv` too
weak at first: a port that is done must not be left with a device at address zero
unless a set_address was refused and the disconnect failed.

### KeyboardProof

For any number of presses, locks and places of the ring. `SequenceInv` lists what can
be left of a key's bytes and the prefix (`LAST_E0`, `LAST_E1`) it is read under: no
half of a sequence survives its last byte. `HeldInv` relates each flag to the set of
keys held while the byte that sets it is still on its way, `LockInv` does so for
NumLock, `CountInv` for the resets by ctrl-alt-del. A lemma per shape of sequence says what
`__process_key` makes of its first byte. `RingIsQueue` shows that every action puts one key
behind `Contents`, removes the first, empties it or leaves it, also when head and tail
wrap.

### RtcProof: the tick counter

For every length of the day and every setting of the counter. What is left of a timer
is the distance of its end from the counter but for whole days (`TimerInv`), and the
distance decides `irqtimer_check` while it is less than half a day. The u8
`timer_rollover` wraps after 256 midnights that nobody asks about, and then days are
lost: `TimeCorrect` has this as a hypothesis on the behaviour (`AskedInTime`), which
is the exact one; `DaysCorrect` derives it from a bound on the ticks, the one that the
run's constants satisfy.

### Ps2PortProof

For any number of calls, keys, packets and faults, and any depth of nesting. First
what holds whatever goes wrong: each frame is at a place of its command's script
(`FramesInv`), commands of the setup are alone (`SetupInv`), the lowest command on the
stack saved an open port (`PortInv`) -- a nested one saves the port shut, so the
property is true only because the lowest restores last -- and a handler is enabled
only if there is one (`HandlerInv`).

Then two regimes, histories in which the properties' exceptions did not occur. While it is
*calm* (nothing late, nested or stuck) there is one command and, from the moment
its device is let in, no interrupt can come in (`ControlInv`); what a device has
sent and nobody has read holds the answers awaited, in place and no others
(`AnswersInv`, with `Fits`: the answer stands behind what was already under way); and a
keyboard interrupt finds a key (`HeldInv`, unless `held`). While besides it is *unmixed*
(no command disturbs a mouse that sends) the unread bytes of the mouse continue the
packet of which `mouse_flag1` bytes were read, and end with a whole one (`AlignInv`); no
command to the keyboard finds a mouse byte in the buffer, because the interrupts are
served in `flush` (`PathInv`). The transport of bytes between device, buffer
and reader is in lemmas on sequences (`SentTransferred`, `OtherRead`, `AnswerRead`,
`WholeMore`, `WholeRead`).

The proof changed the model's bounds and a property. `HeldInv` did not go through for a
keyboard interrupt that another in service holds back; with two keys instead of one
TLC showed the behaviour of section 6 that ends in `held`, which `AnswersNotKeys` now names.

### DevicesProof: the memory map

For an array of any size, any address space and any set of types. The invariant is
pairwise (`Ordered`): of two entries the first ends before the second begins, and where
they touch their types differ. It is in terms of all pairs, not of neighbours, so that
no induction along the array is needed. The three things the loops do to it
each have a lemma that says what becomes of the list and of what it says of every
address: entries removed (`RemoveKeeps`), one shortened (`ShrinkKeeps`), one inserted
where there is room (`InsertFits`, `Gap`). `Split` is what the first loop hands on and
`Absorbed` what the second does; the first is proved for each of the three kinds of
entry it can stop at (`PlaceBetween`, `PlaceJoins`, `PlaceCuts`), the second for its
three ends (`AbsorbLeavesGap`). `HoleMade` and `RangeMade` put them together. That a
full array forgets ranges twice in one call at most -- the tail of the entry that is split
and the new range -- is why the exception begins at two free entries.

### ThreadsProof: the start of the other CPUs

For every finite set of CPUs and size of the table of MSRs. `CPUsStarted` says of a CPU on
the stack that it is alone there; what makes that inductive is `LockTellsStack`: while the
boot CPU counts it holds the lock itself and nobody is on the stack, and while it waits, a free
lock means that nobody is. `Scanning` has the number: `CountCPUs` is one more than the
cardinality of the CPUs that have been counted, so the boot CPU's loop, which only compares two
numbers, ends when each of them has (`SmpAssumption` has the boot CPU outside that set,
`FinishedFinite` does the counting). `MsrsFollow` relates the MSRs of a CPU that has finished to
the table, in POST as in a resume, also where the table was too small.

### DevicesProof: restarts

For memory of any size and any number of resets (`RestartAssumption`: the granules and their
unit are natural numbers). `Progress` says, for each step of a POST, a resume and a reboot,
what the pieces below and above `HaveRunPost` hold, and `HaveRunPost` itself. What
the property needs beside it is about the moment of a reset, which may come at any step:
wherever the CPU would see `HaveRunPost` clear it sees a whole image (`BeginsWhole`). The
order in which `qemu_reboot()` copies makes this true: `HaveRunPost`, which the image has clear,
is written when the pieces below and above it are those of the image already. `CodeTrue` relates the
reset code in CMOS memory, which survives everything, to what may follow it (a resume only of a
system that was suspended), and `AttemptsTrue` the mark that `qemu_reboot()` leaves in
`HaveRunPost` to the number of its attempts.

### DevicesProof: virtio queues

For a ring of any length, indices that wrap at any number above 1, any lists of buffers
that fit in the ring (`VirtioAssumption`; the drivers ask for no more descriptors than the
queue has). As one request is under way at a time and a chain is freed
as a whole, the free list is always in the order of the table: from `free_head` each
descriptor is followed by the next, with the last one open. With that, `next`, which the proof
would otherwise have to follow through any permutation, is known at each step of
`vring_add_buf` and `detach_buf`; the indices of driver and device differ by the request
under way, modulo the width.

### DevicesProof: the floppy driver

For any drives, cylinders, commands and kinds of media. `FloppyInv` has what the driver
cannot see: the controller is where the driver takes it to be (`PhaseFits`), an interrupt that
is on its way or was noted is that of the command in progress and never one of a command
that was given up, because giving up is followed by a reset (`IrqFits`), which step of a
request sends which command (`CommandFits`), and the motor's countdown is longer
than what is left of the waits (`MotorLasts`). The last needs `FloppyAssumption`: the
two timeouts together are less than the countdown, in the code 1 and 5 seconds, about 111
ticks, against 255. `HeadsKnown` and `Programmed` say which commands have been obeyed since
the last reset. The exceptions of `FloppyInStep` (a head astray, a SPECIFY that was
given up) are exactly those the invariant has to make.

### DevicesProof: mode switches

For an extra stack of any size, any environments and any depth. The calls in progress are
levels (`CpuAt`, `PosAt`): at each the processor is in a state it may be in (`Sane`), and
each call made of the level below what a call of its kind makes (`Entered`). Two things
are shared by all of them. `StackPos`: a value saved on the extra stack is above what any
level from then on may write (`CellsKept`, with `Bound`), which is what `stack_hop_back()`
ensures when it lowers `StackPos` while it is away. `Call16Data`: in 32-bit mode it holds
what the innermost `call32()` needs to return (`DataFits`), although `call16()` empties it; its
return saves the same values again, because a function called by `call16()` runs in
the environment of the `call32()` around it (`Within`), or of POST (`Far`). There are two
lemmas for all actions: a call, or a return, that does what the levels say keeps the
invariant (`CallKeeps`, `ReturnKeeps`); an action's own lemma shows that it does, and for
a return, field by field, that the processor is in the state the call has found.
`ModeAssumption` says no more than that no caller's stack is in the segment of the extra stack.

### DevicesProof: the rings of xHCI

For rings of any size and any number of threads (`XhciAssumption`: a ring has two entries
beside its link, and the names of the rings differ). Driver and controller share
nothing but entries and their cycle bits; `XhciInv` says what these are worth. The entries
of a ring before `nidx` carry the driver's cycle bit and the last numbers, those behind it the
other bit and the numbers of the round before (`RingFilled`); with that the place of a TRB
follows from its number (`Behind`), and the controller's place and bit from the number
of the TRBs it has carried out (`Follows`), across the link and for every round. On the event
ring the bits are the other way round: what lies before the controller's place has its bit
(`EventsFilled`), so the driver's own index and bit tell it how many events it has not
taken. `EventsUpTo` is the part about threads: the events of a ring that nobody has taken
are of TRBs behind the last one taken, in the order of the TRBs, which is why the event taken last
is the one `xhci_ring_busy()` has to look at, whoever has copied it there, and why a late event of a
request that was given up cannot make a later one look done. `RequestersInv` ties a
thread's request to the last TRB of its ring -- for the command ring by the mutex -- and
`IntrInv` the one transfer of an interrupt pipe to its buffer: there are as many reports as
transfers carried out, but for the one that failed, behind which the ring is halted and nothing
is handed on (`ReportOf`).

A lemma each says what queueing a TRB (`QueueGrows`), taking an event (`TakeKeeps`) and posting one
(`EventPosted`) do to these; that `xhci_process_events()` keeps them is an induction
over its rounds, by a least counterexample (`Drained`). `NotBusy` is what the driver's test is
worth: a ring that is not busy has the event of its last TRB. Rings on which more than a whole ring of
requests was given up are excepted (`over`), as in the property.

### MallocProof

For every layout of memory, any set of requests, handles and option roms. The
assumptions on a layout (`LayoutsAssumption`) are four. `AddressesInOrder`: its areas
lie as the linker script, `config.h` and the e820 map put them (`layoutrom.py:271` keeps
`zonelow_base` at or above `BUILD_ROM_START`, where `RomEnd` begins). `Addressable`: they are
below 4G, and base memory is within what `ebda_seg` and `mem_size_kb` can hold.
`FindsRoom`: setup finds space for its own bookkeeping. `SizesAskable`: what a driver
asks for is below 4G together with its alignment, a multiple of `MALLOC_MIN_ALIGN`;
what PMM is asked for passes the test of `handle_pmm00` (`(s32)size > 0`).

Nothing bounds a request by the memory there is, and `zonelow_expand`
(`malloc.c:196-211`) subtracts it without a test. So where `ZoneLow` grows (no
`UPPERMEMORY`), the three theorems claim what they say until a step overdraws `ZoneLow`: until it
moves the EBDA although the request, or the EBDA below it, does not fit in the
memory below (`Overdraws`; `overdrawn` remembers it). A request that is too large and is refused, because
the EBDA cannot be moved, is not excepted. The step itself is in the
model; what it leaves, a range of `ZoneLow` that ends below its start, is not claimed to be
sound. `UntilOverdrawn` is the invariant that is proved: `overdrawn` or `MallocInv`.

A list is reasoned about by two things that stay while its ranges change: the *tags* of
its ranges (start, size, description) and the bytes it covers. `ListOK` is what makes
`alloc_free` lossless: behind each range in use is, adjacent, the one it was cut from,
so the last range of a list is always free; it is not a property of the run, and
`ZonesIntact` is not inductive without it. `Books` says that each range in use is
described by a detail that is itself a range in use (or describes itself), `Settled` that between two calls no
description is on a caller's stack, `Placed` that each zone has exactly what it was
given and that `ZoneLow` lies above the EBDA. Together these are `MemoryOK`, and `MallocInv` is
`MemoryOK` with the types.

The proof goes up with the code: one list (`AllocNew`, `AllocFree`, `Inserted`), all zones
(`TakeInZone`, `FreeInZones`, `SettleZones`), the bookkeeping (`AllocNewDetail`,
`AllocAdd`), setup (`SetupOK`, by induction over the regions as a least counterexample),
`PallocKeeps` with the reservation that is undone when its bookkeeping does not fit, `GrownKeeps` for the
move of the EBDA, `FreeKeeps`, `RomKeeps`, and a lemma per handler. On the way each
lemma says what becomes of the blocks; `AllocatorImplemented` reads off that a handler
adds one or removes one.

`MemoryCorrect` needs more than `MallocInv`, for what it says of the end of POST depends
on what the e820 map held all along. `OwnersInv` adds, while the machine has not booted,
`RamKept` (nothing between the first EBDA and the f-segment's end, and nothing of the
high table, is ever RAM) and `PermKept` (each permanent block that PMM took from
`ZoneTmpHigh` is still a block, and was taken out of the map when it was handed out); and
always `RomsBelow` (`ZoneLow` begins above confirmed and running roms) and `Owned` (what
an option rom took is either below an EBDA that can then no longer move, because it is not at the
end of base memory, or above one that still can). Two lemmas carry it: `LowKept`, part of
what is proved of `malloc_palloc`, says that what `ZoneLow` gains lies below the
end of the EBDA's old place, and that the EBDA moves down only, and only from the end of
base memory; `PrepbootOwners` that what `malloc_prepboot` gives back (`GivebackFree`) has
no byte in use.

The model was restated for the proof: `alloc_add`, `alloc_find` and
`malloc_findhandle` find a place or a range by its position, as the loops do, instead of
by a recursion over the list, and setup is a function of the layout.

### What is only model-checked

* Liveness (`EventuallyBoots`, `EndsWithMemory`, `EnumerationEnds`, `IntervalsServed`,
  `CommandsEnd`): fairness and ENABLED are out of the prover's reach.
* `PmmTellsTruth` of `Malloc`. That PMM finds space where there is some needs two facts
  that `MallocInv` does not have. One is that the ends of a layout's areas are multiples of
  `MALLOC_MIN_ALIGN`: `malloc_getspace` counts free bytes without those that alignment
  takes, so without it the property is false. The other is about `handle`.
* The components of `MCDevices` that the table above does not name.
* What a recursive definition computes for every input (the loop of `malloc_preinit`, the
  folds of `RomfileLoader` and `VgaText`): the provers have no induction over data.

## 6. Where the code and its comments disagree

Each has a run whose expected result is the violation.

* **boot_next**, `boot.c:1029`. After a CD that emulates a drive was booted and its
  code returned with int 18h ("Boot Failure recovery: try the next device",
  1054), nothing ends the emulation: the next disk's number still means the image
  (`disk.c:751`), and the same boot sector is started again instead of the next.
* **pci_buses**, `fw/pciinit.c:823`. A bridge that reserves fewer bus numbers than were
  found behind it, or whose reservation is refused, gets a number that was never
  made absolute as its subordinate bus: the buses behind are cut off and the next
  bridge is given a number that is in use.

* **usb_oom**, `hw/usb.c:484`. `usb_enumerate` counts all ports in `hub->threads`
  in advance; when `malloc_tmphigh` fails for one, nothing counts it down and
  the loop "Wait for threads to complete" never ends.
* **rtc_stale**, `clock.c:222`. `handle_1a06` reads register B, waits in
  `rtc_updating` (interrupts come in) and writes the value back with the alarm
  bit. If the last interval ended meanwhile, the periodic interrupt is on again
  without a user; if one began, it never ends.
* **clock_evening**, `hw/timer.c:301`. `ticks_from_ms` stores a 64 bit product in a
  `u32`. From 21:50:35 to midnight the tick counter starts near zero.

Seen while modelling, without a run of their own:

* `hw/nvme.c:143`, `hw/nvme.c:443`: after a command was given up, its completion is taken for
  the next command's; with the queue's rule for "full", the entry for the next
  command is a null pointer, which is not looked at.
* `hw/sdcard.c:257`: selecting the card leaves SI_TRANS_DONE set; as nothing clears it,
  each wait for the end of a transfer finds the bit of the one before, so a write is
  reported done while the card is busy, and an error of its data ends the next command.
* `hw/megasas.c:154`: status 0x2d ("SCSI done with error") counts as success, and
  `scsi_status` is not looked at: a refused read is reported as good. A completion that
  comes after its command was given up goes to the frame of the next one.
* `hw/mpt-scsi.c:167`: the read "to turn interrupt off" takes a second reply when there
  is one; `AdapterTrue` finds that only after a command was given up.
* `hw/pvscsi.c:182`: without memory for the rings, `ring_dsc` stays null and
  `pvscsi_process_op` reads through it.
* `hw/ata.c:170`: after a wait was given up, a drive that offers data ignores the next
  command, and its data is taken as that of the next; a write may go to
  the old address, and detection may register a CD as a disk. `TransfersExact` asks
  for nothing until the channel is reset. `isready` (137) reads the status of whichever drive
  is selected; `op->count` stays the full count when a command is refused at once.
* `hw/tpm_drivers.c:478`: nothing aborts a command of the CRB that was given up, so that the
  next caller may get its response (`drv.behind`); `set_timeouts` (195) has no effect
  on the CRB.
* `hw/ahci.c:152`: a command that was given up is not aborted either; the next is issued
  behind it (`req.behind`).
* `hw/usb-ehci.c:165`: when the doorbell's answer comes after it was given up, nobody
  acknowledges it: every later `ehci_waittick` waits for the bit to go, in vain, and
  memory is then used again without the controller's consent.
* `hw/usb-ehci.c:502`: a transaction that is under way when the token is cleared
  writes its token back, and the queue goes on with a TD that is no longer there.
  `ScheduleSafe` excepts both kinds of pipes (`astray`).
* `hw/usb-ehci.c:633` ("XXX - check for errors"): the buffer of a failed transfer is
  taken for a report, and the pipe stays halted.
* `hw/usb-xhci.c:1203`: likewise `xhci_poll_intr` looks at no completion code: the
  report before is handed on once more for a transfer that failed, and the ring stays
  halted. `RequestsAnswered` excepts that one report (`ReportOf`).
* `hw/usb-uhci.c:374`, `hw/usb-ohci.c:409`: a bulk pipe that is used again for another
  device keeps the data toggle it had (EHCI clears it, `usb-ehci.c:470`); the new
  device takes the first packet for one it has had. `AllTaken` excepts it (`even`).
* `hw/usb-uhci.c:421`: a controller that is writing back when the queue is cut moves it
  on to the next TD, which is then on a stack that is used again (`sure`).
* `hw/usb-ohci.c:445`: `wait_ed` compares the queue's head without its halted bit with the
  tail, so a request whose last TD has failed counts as done.
* `hw/usb-ohci.c:160`: bulk EDs on the free list are never unlinked or freed.
* `hw/usb-ohci.c:192`: `! status & OHCI_HCR` is `(!status) & OHCI_HCR`.
* `hw/usb-ehci.c:92`, `hw/usb.c:477`: a companion looks at a port for 100 ms; EHCI resets
  its ports one after the other and may give a full-speed device away later (`late`).
* `sercon.c:347`: a mode set does not drop the character that waits, which then appears
  on the cleared screen, and `sercon_attr_last` becomes 0, which was never sent, so
  that black on black is not sent when it is asked for.
* `sercon.c:349`: a mode set with bit 7 of al, to keep the screen, resets the terminal,
  which clears it.
* `sercon.c:380`, `sercon.c:390`: int 10h ah=06h clears the whole screen or nothing, and
  for any window and any number of lines sends one CR LF, without noting that the
  terminal's cursor has moved: it scrolls what was asked only if that is the whole
  screen by one line, with the cursor at the start of the last row.
* `sercon.c:422`: a run of int 10h ah=09h that passes the end of its line is printed
  with line wrap off, so the rest of it is lost.
* `sercon.c:219`: lines that scroll are lost when the next move is not to the start of
  the last row. `TerminalShowsScreen` excepts these histories, from the call on until a
  mode set clears the screen (`Shifts`).
* `sercon.c:508`: int 10h ah=07h, 0ah and 13h do not reach the terminal, and ah=08h
  (`sercon.c:398`) answers a blank wherever the cursor is. Not in the model.
* `sercon.c:98`: while the line is busy, `yield` lets the timer tick in, which flushes
  the buffer a second time in the middle of a flush. The model's line is never busy.
* `sercon.c:674`: an unknown escape sequence is held back as long as bytes come, and
  what finds no room behind it is dropped.
* `vgasrc/swcursor.c:76`: a font load or a restored state changes the cell of the cursor
  while it is drawn; taken away elsewhere, it leaves one inverted cell and makes
  another. `ScreenTrue` excepts this (`unsettled`).
* `hw/floppy.c:531`: when SPECIFY fails, the bits that `floppy_prep` looks at are already
  set, so it is not given again until a program resets the drive; `FloppyInStep`
  asks for it unless it was given up.
* `fw/mtrr.c`: 15 MSRs and two for each variable MTRR are recorded; with more than
  eight of these the table of 32 (`smp.c:27`) is too small and the others differ.
* `usb-hid.c:209`, `usb-hid.c:66`: see section 1.3.
* `tcgbios.c:1027`: a measurement that does not fit into the log is lost without a
  trace, after its register was extended.
* `tcgbios.c:1449`: TCG_HashLogEvent writes a SHA1 hash into the log of a TPM 2.0,
  whose entries hold a list of digests (`std/tcg.h:509`); `LogTellsPcrs` asks for the
  form of entries that extend a register. `hash_log_extend` does not use its
  `event` argument, so a compact call (1655) logs what is behind its structure.
* `fw/romfile_loader.h:59` says that WRITE_POINTER adds; the code overwrites.
* `fw/romfile_loader.c:186`, `fw/paravirt.c:501`: without DMA the host's interface takes no
  writes, the command fails and the devices are told nothing; the loader goes on.
  `TablesLinked` says so (`host.dma`).

* `clock.c:145`, `clock.c:192`: when `rtc_updating` times out, `rtc_setup` turns the periodic
  interrupt off although it has users (world `hangs`; `PeriodicCounted` and
  `IntervalsServed` speak of worlds where updates end).
* `clock.c:427`: a handler that cancels the interval (ah=83h, al=01h) leaves
  ah=86h waiting for ever; `WaitEnds` excludes it.
* `clock.c:489`: an alarm flag that is set while alarms are off calls int 4ah at
  the next periodic interrupt.
* `malloc.c:210-211`: for a request larger than the memory below the EBDA the
  subtraction wraps, the comparison with `BUILD_EBDA_MINIMUM` accepts the result
  and the EBDA is moved out of base memory, while the request fails. Of the callers only
  PMM's could ask for that much permanent low memory (more than 640 KiB). `Malloc` models the
  step and its properties and theorems hold until it is taken (`overdrawn`).
* `kbd.c:246`: `set_leds` stores the flags it read before the dialogue.
* `kbd.c:509`: releasing one of two held ctrl (or alt) keys clears
  CTRLACTIVE (ALTACTIVE) while the other is held; `FlagsTellKeys` asks about
  these two bits only with no key held.
* `hw/ps2port.c`: `handle_09` re-enables the keyboard in the flush window of a
  command, where its answer can be delayed by a key; an answer after the timeout
  is processed as a key; a nested command that turns the mouse on or off is
  undone when the outer one restores; a packet in the buffer is discarded by a
  mouse command, or by a keyboard command given from within a handler. A command
  that a handler of the keyboard's interrupt gives (int 15h ah=4fh) cannot flush a
  further key, because the interrupt in service holds the key's own back: the command
  discards the byte, and `handle_09`, called afterwards, reads the stale buffer,
  an acknowledgement, as a key (the event `held`).

## 7. Abstractions and bounds

* Payloads are model values or members of small sets: keycodes name the entry of
  the table they are read from, mouse bytes their place in the packet.
* Formatting, logging and the read-only services of int 16h are left out.
* `Fuel`, `MaxRoms`, `MaxTicks`, `MaxPresses`, `MaxCalls`, `MaxCommands`, `MaxKeys`,
  `MaxPackets`, `MaxFaults`, `Top`, `Layouts`, `Worlds` bound the instances; each is a
  constant, commented where it is declared.
* `Rtc` leaves out the clock and alarm registers that the services copy; an
  interval is a number of periods instead of microseconds. `TickClock` leaves out
  what IRQ0 does for others (floppy motor, USB, PS/2 and serial polls, int 1ch).
* A request that a driver submits and waits for is cut into as few steps as its
  hardware can tell apart; registers of controllers are kept only as far as they
  decide what comes next.
* Time is not measured. A timeout may occur whenever the awaited event has not;
  in `Ps2Port` a timeout before an answer that is on its way is a fault.
* Parts are checked separately. Where one relies on another, it is modelled
  as a choice over everything the other may do: allocation fails or not
  (Threads, UsbEnum), a command to the keyboard succeeds or not (Keyboard).

## 8. Plan

What the models do not reach yet, the more important first:

1. **Composition**: `Rtc` with `Threads` through `RTCusers`; `Keyboard` over the
   abstract port of `Ps2Port`, fed by `UsbKeyboard` and `Sercon`; the drivers under
   `DiskService`; `TpmLog` over `TpmDriver`; `RomfileLoader` over `Allocator`.
2. **Drivers**: ESP and LSI adapters, USB mass storage, the admin queue of NVMe,
   discovery and shutdown of the USB controllers.
3. **VGA**: modes and windows of VBE, saving and restoring registers.

Proofs, beside those of section 5, in this order:

* `XhciSlots`: a slot the controller has addressed is in `devs`, for any tree;
* `EhciSchedule`: `ScheduleSafe` for any number of threads and pipes;
* `ScsiAdapters`: the rings of PVSCSI agree, for any width of the indices;
* `TpmDriver`: `ExecutesWhole` for any commands and bursts;
* `Malloc`: `PmmTellsTruth`, for layouts whose areas end at multiples of the alignment.
