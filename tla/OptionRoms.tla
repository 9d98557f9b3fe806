------------------------------ MODULE OptionRoms ------------------------------
(***************************************************************************)
(* Option roms (src/optionroms.c): copied from PCI devices and from files  *)
(* to the area at 0xc0000, each behind the one before, measured, run, and  *)
(* searched for boot vectors.  A rom may change itself while it runs:      *)
(* become shorter, or go away, or spoil its checksum, or take interrupt    *)
(* 19h.  Memory is blocks of 512 bytes, each known by the rom it is of.    *)
(***************************************************************************)
EXTENDS Naturals, Sequences, SequencesExt

CONSTANTS
  Worlds,            \* [devices, vgafiles, genfiles, EnforceChecksum, RunPCIroms]
  Afters(_),         \* what a rom may have made of itself: its size, whether its
                     \* checksum is right, and whether it has taken interrupt 19h
  OPTION_ROM_ALIGN,  \* in blocks
  Blocks             \* of the area, up to rom_get_max()

VARIABLES
  world,
  pc,           \* vgarom_setup(), then optionrom_setup()
  todo,         \* what is left of the list it goes through
  RomEnd,
  area,         \* [0 .. Blocks - 1 -> block]
  ivt19,        \* the roms that have taken interrupt 19h, each from the one before
  post_vga,     \* where the roms of displays end
  sources,      \* setRomSource()
  vectors,      \* what boot_add_bcv() and boot_add_bev() were told
  kept,         \* a history: roms that were confirmed, and from where they came
  measured      \* a history: roms that tpm_option_rom() has measured

vars == <<world, pc, todo, RomEnd, area, ivt19, post_vga, sources, vectors, kept, measured>>

NoRom == [name |-> "none", size |-> 0, file |-> 0, pnp |-> <<>>, valid |-> FALSE]
Align(n) ==
  ((n + OPTION_ROM_ALIGN - 1) \div OPTION_ROM_ALIGN) * OPTION_ROM_ALIGN

Zero == [name |-> "zero", off |-> 0, size |-> 0, valid |-> FALSE, rom |-> NoRom]

----------------------------------------------------------------------------
(* Memory                                                                      *)

rom_reserve(size) == Align(RomEnd + size) <= Blocks

\* A rom's blocks, from p on.
Copied(rom, blocks, p) ==
  [i \in DOMAIN area |->
     IF i \in p .. p + blocks - 1
     THEN [name |-> rom.name, off |-> i - p, size |-> rom.size, valid |-> rom.valid,
           rom |-> rom]
     ELSE area[i]]

\* All that the checksum covers is the rom's.
Sums(mem, p) ==
  LET b == mem[p]
  IN  /\ b.valid /\ p + b.size <= Blocks
      /\ \A i \in 0 .. b.size - 1 : mem[p + i].name = b.name /\ mem[p + i].off = i

is_valid_rom(mem, p) ==
  /\ mem[p].rom # NoRom /\ mem[p].off = 0 /\ mem[p].size # 0
  /\ world.EnforceChecksum => Sums(mem, p)

----------------------------------------------------------------------------
(* init_optionrom(), of a rom that was copied to RomEnd                        *)

IsPnp(rom) == rom.pnp # <<>>

\* The interrupt of a PCI rom that should have registered a vector instead is given
\* back, unless an earlier rom had it.
Recaptured(rom, isvga, file) == ivt19 = <<>> /\ ~file /\ ~isvga /\ IsPnp(rom)

Confirm(mem, rom, source, isvga) ==
  IF rom_reserve(mem[RomEnd].size)
  THEN /\ RomEnd' = Align(RomEnd + mem[RomEnd].size)
       /\ kept' = IF isvga THEN kept
                  ELSE Append(kept, [at |-> RomEnd, source |-> source, rom |-> rom,
                                     b |-> mem[RomEnd]])
  ELSE UNCHANGED <<RomEnd, kept>>

init_optionrom(mem, rom, source, isvga, file) ==
  IF ~is_valid_rom(mem, RomEnd) \/ ~rom_reserve(rom.size)
  THEN area' = mem /\ UNCHANGED <<RomEnd, ivt19, kept, measured>>
  ELSE /\ measured' = measured \cup {<<RomEnd, rom.name>>}
       /\ IF isvga \/ IsPnp(rom)
          THEN \E a \in Afters(rom) :
                 /\ area' = [mem EXCEPT ![RomEnd].size = a.size, ![RomEnd].valid = a.valid]
                 /\ ivt19' = IF a.takes /\ ~Recaptured(rom, isvga, file)
                             THEN Append(ivt19, rom.name) ELSE ivt19
          ELSE area' = mem /\ UNCHANGED ivt19
       /\ Confirm(area', rom, source, isvga)

SetSource(isvga, source) ==
  sources' = IF isvga THEN sources ELSE [sources EXCEPT ![RomEnd] = source]

\* deploy_romfile(): the file's size counts, not the header's.
DeployFile(rom, source, isvga) ==
  IF rom_reserve(rom.file)
  THEN /\ SetSource(isvga, source)
       /\ init_optionrom(Copied(rom, rom.file, RomEnd), rom, source, isvga, TRUE)
  ELSE UNCHANGED <<area, RomEnd, ivt19, kept, measured, sources>>

----------------------------------------------------------------------------
(* PCI roms                                                                    *)

\* The images of a rom up to the first that is the last one.
Images(d) ==
  LET all == d.images
      ends == {i \in DOMAIN all : all[i].last \/ all[i].matches}
  IN  IF ends = {} THEN all
      ELSE SubSeq(all, 1, CHOOSE i \in ends : \A j \in ends : i <= j)

\* map_pcirom(): the first image for the device and this processor.
Matching(d) ==
  IF d.address # "good" THEN {}
  ELSE {Images(d)[i].rom : i \in {i \in DOMAIN Images(d) : Images(d)[i].matches}}

\* init_pcirom(), with a file for the device or with its own rom.
InitPciRom(d, isvga) ==
  IF d.file # NoRom THEN DeployFile(d.file, d.name, isvga)
  ELSE IF ~(world.RunPCIroms > 1 \/ (world.RunPCIroms = 1 /\ isvga))
  THEN UNCHANGED <<area, RomEnd, ivt19, kept, measured, sources>>
  ELSE IF \E rom \in Matching(d) : rom_reserve(rom.size)
  THEN \E rom \in Matching(d) :
         /\ SetSource(isvga, d.name)
         /\ init_optionrom(Copied(rom, rom.size, RomEnd), rom, d.name, isvga, FALSE)
  ELSE UNCHANGED <<area, RomEnd, ivt19, kept, measured, sources>>

----------------------------------------------------------------------------
(* vgarom_setup()                                                              *)

Goto(next, list) == pc' = next /\ todo' = list
IsVga(d) == d.class = "vga" /\ d.decodes

\* The first display that decodes the addresses of a VGA.
VgaPci ==
  /\ pc = "vga"
  /\ LET vga == SelectSeq(world.devices, IsVga)
     IN  IF vga = <<>>
         THEN /\ Goto("other", SelectSeq(world.devices, LAMBDA d : d.class = "other"))
              /\ UNCHANGED <<area, RomEnd, ivt19, kept, measured, sources>>
         ELSE Goto("vgafiles", world.vgafiles) /\ InitPciRom(vga[1], TRUE)
  /\ UNCHANGED <<world, post_vga, vectors>>

\* try_setup_display_other(): the first of the others that has a rom.
OtherDisplay ==
  /\ pc = "other"
  /\ IF todo = <<>>
     THEN /\ Goto("vgafiles", world.vgafiles)
          /\ UNCHANGED <<area, RomEnd, ivt19, kept, measured, sources>>
     ELSE LET d == Head(todo)
          IN  /\ IF \E rom \in Matching(d) : rom_reserve(rom.size)
                 THEN /\ Goto("vgafiles", world.vgafiles)
                      /\ \E rom \in Matching(d) :
                           init_optionrom(Copied(rom, rom.size, RomEnd), rom, d.name,
                                          TRUE, FALSE)
                 ELSE /\ Goto("other", Tail(todo))
                      /\ UNCHANGED <<area, RomEnd, ivt19, kept, measured>>
              /\ UNCHANGED sources
  /\ UNCHANGED <<world, post_vga, vectors>>

RunFileRom(isvga) ==
  /\ DeployFile(Head(todo), Head(todo).name, isvga)
  /\ Goto(pc, Tail(todo))
  /\ UNCHANGED <<world, post_vga, vectors>>

VgaFile == pc = "vgafiles" /\ todo # <<>> /\ RunFileRom(TRUE)

----------------------------------------------------------------------------
(* optionrom_setup()                                                           *)

Skipped(d) == d.class \in {"vga", "other"} \/ d.driver

VgaEnd ==
  /\ pc = "vgafiles" /\ todo = <<>>
  /\ Goto("pci", SelectSeq(world.devices, LAMBDA d : ~Skipped(d)))
  /\ post_vga' = RomEnd
  /\ UNCHANGED <<world, RomEnd, area, ivt19, sources, vectors, kept, measured>>

PciRom ==
  /\ pc = "pci"
  /\ IF todo = <<>>
     THEN /\ Goto("genfiles", world.genfiles)
          /\ UNCHANGED <<area, RomEnd, ivt19, kept, measured, sources>>
     ELSE InitPciRom(Head(todo), FALSE) /\ Goto("pci", Tail(todo))
  /\ UNCHANGED <<world, post_vga, vectors>>

GenFile == pc = "genfiles" /\ todo # <<>> /\ RunFileRom(FALSE)

\* The headers that are looked at: up to one that is no boot vector.
Capabilities(rom) ==
  LET ends == {i \in DOMAIN rom.pnp : rom.pnp[i] = "none"}
  IN  IF ends = {} THEN rom.pnp
      ELSE SubSeq(rom.pnp, 1, (CHOOSE i \in ends : \A j \in ends : i <= j) - 1)

\* getRomPriority() asks for where the rom came from and the number of the header.
Vectors(rom, at, source) ==
  IF ~IsPnp(rom) THEN <<[kind |-> "bcv", at |-> at, source |-> source, instance |-> 0]>>
  ELSE [i \in DOMAIN Capabilities(rom) |->
          [kind |-> Capabilities(rom)[i], at |-> at, source |-> source,
           instance |-> i - 1]]

\* Deviation: the next rom is looked for right behind the last one.
Behind_last(pos, size) == pos + size

Behind(pos, size) == pos + Align(size)

\* The roms from pos on, one after the other; what is no rom is skipped.
Scan[pos \in 0 .. 2 * Blocks] ==
  IF pos >= RomEnd THEN <<>>
  ELSE IF ~is_valid_rom(area, pos) THEN Scan[pos + OPTION_ROM_ALIGN]
  ELSE Vectors(area[pos].rom, pos, sources[pos]) \o Scan[Behind(pos, area[pos].size)]

AddVectors ==
  /\ pc = "genfiles" /\ todo = <<>>
  /\ vectors' = Scan[post_vga]
  /\ Goto("done", <<>>)
  /\ UNCHANGED <<world, RomEnd, area, ivt19, post_vga, sources, kept, measured>>

----------------------------------------------------------------------------

\* vgarom_setup() clears the area.
Init ==
  /\ world \in Worlds
  /\ pc = "vga" /\ todo = <<>>
  /\ RomEnd = 0 /\ area = [i \in 0 .. Blocks - 1 |-> Zero]
  /\ ivt19 = <<>>
  /\ sources = [i \in 0 .. Blocks - 1 |-> "none"]
  /\ post_vga = 0 /\ vectors = <<>> /\ kept = <<>> /\ measured = {}

Next == VgaPci \/ OtherDisplay \/ VgaFile \/ VgaEnd \/ PciRom \/ GenFile \/ AddVectors

Spec == Init /\ [][Next]_vars
----------------------------------------------------------------------------
(* Properties                                                                 *)

\* A rom that is still one.
Lives(k) == k.b.size # 0 /\ (world.EnforceChecksum => k.b.valid)

\* Whatever earlier roms leave in the area, shrink to or fail with: exactly the roms
\* that were initialised after those of displays have boot vectors, each where it lies,
\* in order and under the name of what it came from; they were measured, and lie there
\* whole.  The first to take interrupt 19h is no rom of a PCI device that could have
\* registered a vector.
RomsTrue ==
  /\ pc = "done" =>
       LET live == SelectSeq(kept, Lives)
       IN  /\ vectors = FlattenSeq([i \in DOMAIN live |->
                                     Vectors(live[i].rom, live[i].at, live[i].source)])
           /\ \A i \in DOMAIN live :
                /\ <<live[i].at, live[i].rom.name>> \in measured
                /\ world.EnforceChecksum => Sums(area, live[i].at)
  /\ \A i \in DOMAIN world.devices, n \in DOMAIN ivt19 :
       LET d == world.devices[i]
       IN  ~IsVga(d) /\ d.class = "disk" /\ d.file = NoRom /\ n = 1 =>
             \A rom \in Matching(d) : IsPnp(rom) => ivt19[n] # rom.name
=============================================================================
