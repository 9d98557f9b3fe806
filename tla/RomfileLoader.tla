----------------------------- MODULE RomfileLoader -----------------------------
(***************************************************************************)
(* The table loader (src/fw/romfile_loader.c): the host passes tables and  *)
(* a list of commands that place them in memory, link them, add checksums  *)
(* and tell devices of the host where they are.  After a suspend, when the *)
(* devices have forgotten it, they are told again (src/resume.c).          *)
(*                                                                         *)
(* A cell of a table is a byte or a pointer; "Mod" is 256 for checksums.   *)
(***************************************************************************)
EXTENDS Integers, Sequences, SequencesExt, FiniteSetsExt

CONSTANTS
  Hosts,        \* tables with their contents, the commands for them, and whether
                \* the host's interface does DMA
  ZoneSize,     \* of each zone, in cells
  HighStart,    \* the lowest address of ZoneHigh; ZoneFSeg starts at 1
  PtrLimit,     \* addresses below it fit into a short pointer
  Mod,
  MaxFailures   \* bound on the allocations and reads that fail

VARIABLES
  pc,           \* "loading", "os" or "asleep"
  host, offset, \* offset into the commands
  files,        \* files->files
  free,         \* the space that is left in the zones
  romfile_pointer_list,
  device,       \* what the devices know, by file and offset
  RsdpAddr,
  failures, unrecorded

vars == <<pc, host, offset, files, free, romfile_pointer_list, device, RsdpAddr,
          failures, unrecorded>>

NULL == 0
Commands == host.commands
Entry == Commands[offset]
Forgotten == [place \in host.places |-> 0]

Init ==
  /\ pc = "loading"
  /\ host \in Hosts
  /\ offset = 1
  /\ files = <<>>
  /\ free = [high |-> ZoneSize, fseg |-> ZoneSize]
  /\ romfile_pointer_list = <<>>
  /\ device = Forgotten
  /\ RsdpAddr = NULL
  /\ failures = 0 /\ unrecorded = {}

----------------------------------------------------------------------------

Loaded(name) == \E k \in DOMAIN files : files[k].name = name
Index(name) == CHOOSE k \in DOMAIN files :
                 /\ files[k].name = name
                 /\ \A j \in 1 .. k - 1 : files[j].name # name
romfile_loader_find(name) == files[Index(name)]

May(command) == pc = "loading" /\ offset <= Len(Commands) /\ Entry.command = command
Skip == offset' = offset + 1

\* A zone is cut from its end.
HasRoom(name, zone) == Len(host.content[name]) <= free[zone]
Address(name, zone) ==
  (IF zone = "high" THEN HighStart ELSE 1) + free[zone] - Len(host.content[name])

\* A table that is not there, gets no memory or cannot be read is left out.
romfile_loader_allocate ==
  /\ May("allocate")
  /\ Skip
  /\ IF Entry.file \in DOMAIN host.content /\ HasRoom(Entry.file, Entry.zone)
     THEN \/ /\ files' = Append(files, [name |-> Entry.file, zone |-> Entry.zone,
                                        data |-> Address(Entry.file, Entry.zone),
                                        cells |-> host.content[Entry.file]])
             /\ free' = [free EXCEPT ![Entry.zone] = @ - Len(host.content[Entry.file])]
             /\ UNCHANGED failures
          \/ /\ failures < MaxFailures
             /\ failures' = failures + 1
             /\ UNCHANGED <<files, free>>
     ELSE UNCHANGED <<files, free, failures>>
  /\ UNCHANGED <<pc, host, romfile_pointer_list, device, RsdpAddr, unrecorded>>

SetCell(name, cell, value) ==
  files' = [files EXCEPT ![Index(name)].cells[cell] = value]

\* The pointer that is in the table is an offset, to which the address is added.
romfile_loader_add_pointer ==
  /\ May("add_pointer")
  /\ Skip
  /\ IF /\ Loaded(Entry.dest) /\ Loaded(Entry.src)
        /\ Entry.offset \in DOMAIN romfile_loader_find(Entry.dest).cells
     THEN SetCell(Entry.dest, Entry.offset,
                  romfile_loader_find(Entry.dest).cells[Entry.offset]
                    + romfile_loader_find(Entry.src).data)
     ELSE UNCHANGED files
  /\ UNCHANGED <<pc, host, free, romfile_pointer_list, device, RsdpAddr, failures,
                 unrecorded>>

checksum(cells, start, length) ==
  FoldLeft(LAMBDA x, y : x + y, 0, SubSeq(cells, start, start + length - 1))

\* Deviation: the sum is written over the byte, not taken from it.
ChecksumByte_sum(old, sum) == (Mod - (sum % Mod)) % Mod
ChecksumByte(old, sum) == (old - sum) % Mod

romfile_loader_add_checksum ==
  /\ May("add_checksum")
  /\ Skip
  /\ IF /\ Loaded(Entry.file)
        /\ Entry.start + Entry.length - 1 <= Len(romfile_loader_find(Entry.file).cells)
     THEN LET cells == romfile_loader_find(Entry.file).cells
          IN  SetCell(Entry.file, Entry.offset,
                      ChecksumByte(cells[Entry.offset],
                                   checksum(cells, Entry.start, Entry.length)))
     ELSE UNCHANGED files
  /\ UNCHANGED <<pc, host, free, romfile_pointer_list, device, RsdpAddr, failures,
                 unrecorded>>

Pointer == romfile_loader_find(Entry.src).data + Entry.src_offset
Place == [file |-> Entry.dest, offset |-> Entry.offset]

\* A device is told a pointer that fits into its place, if the host takes writes, which
\* it does by DMA only.  The pointer is noted for a resume if there is memory for the
\* note.
romfile_loader_write_pointer ==
  /\ May("write_pointer")
  /\ Skip
  /\ IF /\ Place \in host.places /\ Loaded(Entry.src)
        /\ Entry.src_offset < Len(romfile_loader_find(Entry.src).cells)
        /\ Entry.short => Pointer < PtrLimit
        /\ host.dma
     THEN /\ device' = [device EXCEPT ![Place] = Pointer]
          /\ \/ /\ romfile_pointer_list' =
                     <<[place |-> Place, pointer |-> Pointer]>> \o romfile_pointer_list
                /\ UNCHANGED <<failures, unrecorded>>
             \/ /\ failures < MaxFailures
                /\ failures' = failures + 1
                /\ unrecorded' = unrecorded \cup {Place}
                /\ UNCHANGED romfile_pointer_list
     ELSE UNCHANGED <<device, romfile_pointer_list, failures, unrecorded>>
  /\ UNCHANGED <<pc, host, files, free, RsdpAddr>>

\* Without memory for the list of tables no command is carried out.
NothingLoaded ==
  /\ pc = "loading" /\ offset = 1
  /\ failures < MaxFailures
  /\ failures' = failures + 1
  /\ offset' = Len(Commands) + 1
  /\ UNCHANGED <<pc, host, files, free, romfile_pointer_list, device, RsdpAddr, unrecorded>>

UnknownCommand ==
  /\ May("unknown")
  /\ Skip
  /\ UNCHANGED <<pc, host, files, free, romfile_pointer_list, device, RsdpAddr,
                 failures, unrecorded>>

----------------------------------------------------------------------------

\* find_acpi_rsdp() searches the F segment for the table with a valid checksum;
\* without it acpi_setup() builds tables of its own.
IsRsdp(f) == /\ f.name = host.rsdp /\ f.zone = "fseg"
             /\ checksum(f.cells, 1, host.rsdplen) % Mod = 0

qemu_platform_setup ==
  /\ pc = "loading" /\ offset > Len(Commands)
  /\ pc' = "os"
  /\ LET found == {files[k].data : k \in {j \in DOMAIN files : IsRsdp(files[j])}}
     IN  RsdpAddr' = IF found = {} THEN NULL ELSE Min(found)
  /\ UNCHANGED <<host, offset, files, free, romfile_pointer_list, device, failures,
                 unrecorded>>

Suspend ==
  /\ pc = "os"
  /\ pc' = "asleep"
  /\ device' = Forgotten
  /\ UNCHANGED <<host, offset, files, free, romfile_pointer_list, RsdpAddr, failures,
                 unrecorded>>

\* The notes are written in the order of the list, the last one first.
romfile_fw_cfg_resume ==
  /\ pc = "asleep"
  /\ pc' = "os"
  /\ device' = FoldLeft(LAMBDA d, e : [d EXCEPT ![e.place] = e.pointer], device,
                        romfile_pointer_list)
  /\ UNCHANGED <<host, offset, files, free, romfile_pointer_list, RsdpAddr, failures,
                 unrecorded>>

Next ==
  \/ romfile_loader_allocate
  \/ romfile_loader_add_pointer
  \/ romfile_loader_add_checksum
  \/ romfile_loader_write_pointer
  \/ UnknownCommand
  \/ NothingLoaded
  \/ qemu_platform_setup
  \/ Suspend
  \/ romfile_fw_cfg_resume

----------------------------------------------------------------------------

Of(command) == {Commands[k] : k \in {j \in DOMAIN Commands : Commands[j].command = command}}
Original(name, cell) == host.content[name][cell]
Cell(name, cell) == romfile_loader_find(name).cells[cell]
Fits(c) == c.short => romfile_loader_find(c.src).data + c.src_offset < PtrLimit

\* What the operating system and the devices find when all commands have run,
\* and again after each resume (romfile_loader.c:44, :106, :153): a pointer
\* between two tables that are loaded leads to its table, and one to a table
\* that is not is still an offset; no later command has broken a checksum; a
\* device knows exactly the pointers that its places hold, unless there was no
\* memory for the note, and nothing where the host takes no writes
\* (romfile_loader.c:186); the RSDP is found if it is loaded.
TablesLinked ==
  pc = "os" =>
    /\ \A c \in Of("add_pointer") : Loaded(c.dest) =>
         Cell(c.dest, c.offset) =
           Original(c.dest, c.offset)
             + (IF Loaded(c.src) THEN romfile_loader_find(c.src).data ELSE 0)
    /\ \A c \in Of("add_checksum") : Loaded(c.file) =>
         checksum(romfile_loader_find(c.file).cells, c.start, c.length) % Mod = 0
    /\ \A c \in Of("write_pointer") :
         LET place == [file |-> c.dest, offset |-> c.offset]
             told  == IF host.dma /\ Loaded(c.src) /\ Fits(c)
                      THEN romfile_loader_find(c.src).data + c.src_offset ELSE 0
         IN  device[place] = told \/ (place \in unrecorded /\ device[place] = 0)
    /\ RsdpAddr # NULL <=> Loaded(host.rsdp)

=============================================================================
