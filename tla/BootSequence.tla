----------------------------- MODULE BootSequence -----------------------------
(***************************************************************************)
(* From the devices drivers find to the one that boots: the boot list, the *)
(* menu, the drives' numbers and the boot vectors, and int 19h and int 18h *)
(* that try one after the other (src/boot.c, map_*_drive() in src/block.c, *)
(* cdrom_boot() in src/cdrom.c).                                           *)
(***************************************************************************)
EXTENDS Integers, Sequences

CONSTANTS
  Entries,    \* what drivers register: [type, prio, dtype, cntl, name]
  HaltPrio,   \* priority of "HALT" in the boot order, or -1
  Menu,       \* ARRAY_SIZE(menuchars)
  MaxBEV,     \* ARRAY_SIZE(BEV)
  Media,      \* of a CD by name: -1 if it does not boot, or 0, 1 .. 3, 4
  MaxTries    \* bound

VARIABLES
  pc,           \* "drivers", "menu", "ready", "code", "failing", "halted"
  BootList,
  BEV,          \* the boot vectors: [type, what]
  IDMap,        \* names of the drives: [hd, floppy, cd]; a rom's drive is in hd
  CDEmu,        \* [media, emulated_drive, drive]
  BootSequence,
  tries         \* what int 19h and int 18h tried so far, since int 19h: [bev, from]

vars == <<pc, BootList, BEV, IDMap, CDEmu, BootSequence, tries>>

FLOPPY == 1
HARDDISK == 2
CDROM == 3
BCV == 129
HALT == 240

Halting == [type |-> HALT, prio |-> HaltPrio, dtype |-> 0, cntl |-> 0, name |-> "halt"]

----------------------------------------------------------------------------
(* The boot list                                                             *)

\* Entry a goes before b.
Before(a, b) ==
  \/ a.prio < b.prio
  \/ /\ a.prio = b.prio
     /\ \/ a.type < b.type
        \/ /\ a.type = b.type /\ a.type <= CDROM
           /\ a.dtype < b.dtype \/ (a.dtype = b.dtype /\ a.cntl < b.cntl)

Inserted(list, e) ==
  LET at == {i \in 1 .. Len(list) : Before(e, list[i])}
      i  == IF at = {} THEN Len(list) + 1 ELSE CHOOSE k \in at : \A l \in at : k <= l
  IN  SubSeq(list, 1, i - 1) \o <<e>> \o SubSeq(list, i, Len(list))

Listed == {BootList[i] : i \in 1 .. Len(BootList)}

\* boot_add_floppy() and the others, by drivers that run side by side.
bootentry_add(e) ==
  /\ pc = "drivers"
  /\ e \notin Listed
  /\ BootList' = Inserted(BootList, e)
  /\ UNCHANGED <<pc, BEV, IDMap, CDEmu, BootSequence, tries>>

\* The menu is shown when wait_threads() has seen the drivers out, or not shown.
interactive_bootmenu ==
  /\ pc = "drivers"
  /\ pc' = "menu"
  /\ \/ UNCHANGED BootList
     \/ \E i \in 1 .. Len(BootList) :
          /\ i <= Menu
          /\ BootList' = <<[BootList[i] EXCEPT !.prio = 0]>> \o SubSeq(BootList, 1, i - 1)
                           \o SubSeq(BootList, i + 1, Len(BootList))
  /\ UNCHANGED <<BEV, IDMap, CDEmu, BootSequence, tries>>

----------------------------------------------------------------------------
(* Numbers and vectors                                                       *)

Kind(e) == IF e.type = BCV THEN HARDDISK ELSE e.type

\* add_bev(), for a list of vectors one after the other.
add_bev(bevs, type, what) ==
  LET have == type \in {FLOPPY, HARDDISK} /\ \E i \in 1 .. Len(bevs.seen) : bevs.seen[i] = type
  IN  [seen |-> Append(bevs.seen, type),
       bev  |-> IF have \/ Len(bevs.bev) >= MaxBEV THEN bevs.bev
                ELSE Append(bevs.bev, [type |-> type, what |-> what])]

Vectors(list) ==
  LET added[i \in 0 .. Len(list)] ==
        IF i = 0 THEN [seen |-> <<>>, bev |-> <<>>]
        ELSE add_bev(added[i - 1], Kind(list[i]), list[i].name)
  IN  add_bev(add_bev(added[Len(list)], FLOPPY, "floppy"), HARDDISK, "harddisk").bev

Named(list, kind) ==
  LET mine == SelectSeq(list, LAMBDA e : Kind(e) = kind)
  IN  [i \in 1 .. Len(mine) |-> mine[i].name]

bcv_prepboot ==
  /\ pc = "menu"
  /\ LET list == IF HaltPrio >= 0 THEN Inserted(BootList, Halting) ELSE BootList
     IN  /\ BootList' = list
         /\ IDMap' = [hd |-> Named(list, HARDDISK), floppy |-> Named(list, FLOPPY),
                      cd |-> Named(list, CDROM)]
         /\ BEV' = Vectors(list)
  /\ pc' = "ready"
  /\ UNCHANGED <<CDEmu, BootSequence, tries>>

----------------------------------------------------------------------------
(* Booting                                                                   *)

At(list, i) == IF i \in 0 .. Len(list) - 1 THEN list[i + 1] ELSE "none"

Real(name) == [image |-> FALSE, name |-> name]
None == Real("none")

\* The drive int 13h means by a number, or the image of a CD.
Drive(dl) ==
  LET shifted == CDEmu.media # 0 /\ dl < 224 /\ ((dl < 128) <=> (CDEmu.emulated_drive < 128))
      ext == IF shifted THEN dl - 1 ELSE dl
  IN  CASE CDEmu.media # 0 /\ dl = CDEmu.emulated_drive -> [image |-> TRUE, name |-> CDEmu.drive]
        [] OTHER -> Real(IF ext >= 128 THEN At(IDMap.hd, ext - 128) ELSE At(IDMap.floppy, ext))

Index(list, name) == CHOOSE i \in 1 .. Len(list) : list[i] = name

\* cdrom_boot() for a CD that is bootable, if its image can be read.
CDEmuAfter(cd) ==
  CASE Media[cd] = 0 ->
         [CDEmu EXCEPT !.drive = cd, !.emulated_drive = 223 + Index(IDMap.cd, cd)]
    [] Media[cd] \in 1 .. 3 ->
         [media |-> Media[cd], drive |-> cd, emulated_drive |-> 0]
    [] OTHER ->
         [media |-> Media[cd], drive |-> cd, emulated_drive |-> 128]

Tried(before, seq, from) == tries' = Append(before, [bev |-> BEV[seq + 1], from |-> from])

\* boot_disk(): it boots if there is a drive and what is read is bootable.
boot_disk(before, seq, dl) ==
  /\ Tried(before, seq, Drive(dl))
  /\ pc' \in (IF Drive(dl) = None THEN {"failing"} ELSE {"failing", "code"})
  /\ UNCHANGED CDEmu

\* boot_cdrom(); the last read may fail when most is set.
boot_cdrom(before, seq, cd) ==
  /\ Tried(before, seq, Real(cd))
  /\ \/ pc' = "failing" /\ UNCHANGED CDEmu
     \/ /\ Media[cd] >= 0
        /\ \/ pc' = "failing" /\ CDEmu' = [CDEmu EXCEPT !.drive = cd]
           \/ pc' = "code" /\ CDEmu' = CDEmuAfter(cd)

\* "before" is what was tried since int 19h.
do_boot(before, seq) ==
  /\ BootSequence' = seq
  /\ UNCHANGED <<BootList, BEV, IDMap>>
  /\ IF seq >= Len(BEV) \/ BEV[seq + 1].type = HALT
     THEN pc' = "halted" /\ tries' = before /\ UNCHANGED CDEmu
     ELSE CASE BEV[seq + 1].type = FLOPPY -> boot_disk(before, seq, 0)
            [] BEV[seq + 1].type = HARDDISK -> boot_disk(before, seq, 128)
            [] BEV[seq + 1].type = CDROM -> boot_cdrom(before, seq, BEV[seq + 1].what)
            [] OTHER -> pc' = "code" /\ Tried(before, seq, Real(BEV[seq + 1].what)) /\ UNCHANGED CDEmu

\* The BIOS, or a boot program that gives up, calls int 19h.
handle_19 ==
  /\ pc \in {"ready", "code"}
  /\ Len(tries) < MaxTries
  /\ do_boot(<<>>, 0)

\* Deviation: the entry that failed is tried again.
NextInSequence_kept == BootSequence
NextInSequence == BootSequence + 1

\* An attempt has failed, or a boot program or boot rom has returned or given up.
handle_18 ==
  /\ pc \in {"failing", "code"}
  /\ Len(tries) < MaxTries
  /\ do_boot(tries, NextInSequence)

----------------------------------------------------------------------------

Init ==
  /\ pc = "drivers"
  /\ BootList = <<>>
  /\ BEV = <<>>
  /\ IDMap = [hd |-> <<>>, floppy |-> <<>>, cd |-> <<>>]
  /\ CDEmu = [media |-> 0, emulated_drive |-> 0, drive |-> "none"]
  /\ BootSequence = -1
  /\ tries = <<>>

Next ==
  \/ \E e \in Entries : bootentry_add(e)
  \/ interactive_bootmenu \/ bcv_prepboot
  \/ handle_19 \/ handle_18

Spec == Init /\ [][Next]_vars

----------------------------------------------------------------------------
(* Properties                                                                 *)

\* What the drive of a vector is.
Own(b) ==
  Real(CASE b.type = FLOPPY -> At(IDMap.floppy, 0)
         [] b.type = HARDDISK -> At(IDMap.hd, 0)
         [] OTHER -> b.what)

\* Index of the first list entry that leads to vector b, or beyond the list.
Rank(b) ==
  LET mine == {i \in 1 .. Len(BootList) :
                 Kind(BootList[i]) = b.type /\ (b.type \in {FLOPPY, HARDDISK} \/ BootList[i].name = b.what)}
  IN  IF mine = {} THEN Len(BootList) + b.type ELSE CHOOSE i \in mine : \A k \in mine : i <= k

\* In whatever order drivers have registered them, entries stand in order of
\* priority; every attempt since int 19h is for the next vector, in the order of
\* the list and none twice, and none for what stands below HALT; every entry has
\* a vector, up to the limit; and as long as no emulated CD has been booted, what
\* is read comes from the drive whose turn it is.
BootOrderKept ==
  /\ \A i, k \in 1 .. Len(BootList) : i < k => ~Before(BootList[k], BootList[i])
  /\ \A i, k \in 1 .. Len(tries) : i < k => Rank(tries[i].bev) < Rank(tries[k].bev)
  /\ \A i \in 1 .. Len(tries), k \in 1 .. Len(BootList) :
       BootList[k].type = HALT => Rank(tries[i].bev) < k
  /\ pc \in {"ready", "code", "failing", "halted"} =>
       \A e \in Listed :
         \/ Len(BEV) = MaxBEV
         \/ \E i \in 1 .. Len(BEV) :
              BEV[i].type = Kind(e) /\ (e.type \in {FLOPPY, HARDDISK, BCV} \/ BEV[i].what = e.name)
  /\ CDEmu.media = 0 => \A i \in 1 .. Len(tries) : tries[i].from = Own(tries[i].bev)

\* The boot reads from the device whose turn it is ("try the next device").
NextDeviceTried ==
  \A i \in 1 .. Len(tries) : tries[i].from = Own(tries[i].bev)
=============================================================================
