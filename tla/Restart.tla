------------------------------- MODULE Restart -------------------------------
(***************************************************************************)
(* Restarts (src/post.c, src/resume.c, src/fw/shadow.c): the machine's     *)
(* code and variables are copied to the memory at 0xf0000, which a reset   *)
(* leaves as it is.  HaveRunPost, a word in the middle of it, tells the    *)
(* code at the reset vector whether to begin or to resume.  A reset may    *)
(* come at any time; so may the loss of power.                             *)
(***************************************************************************)
EXTENDS Naturals

CONSTANTS
  Granules,     \* of 16KiB, below 0xf0000; PAM registers have two each
  Unit,         \* positions in a granule
  MaxResets     \* a bound: resets that nobody asked for

ASSUME RestartAssumption == Granules \in Nat /\ Unit \in Nat

VARIABLES
  pristine,     \* is there a copy of the image that nobody writes to?
  cpu,          \* where the processor is
  ram,          \* the memory: HaveRunPost and what is below and above it: "image" as in
                \* the image, "used" after POST has begun, "none" before it is copied
  pam,          \* what of it is memory rather than flash, and may be written; the
                \* granules below that may not; the end of the roms, and of their area
  cmos,         \* CMOS_RESET_CODE
  suspended,    \* the operating system has asked for a resume
  attempts,     \* resets that tryReboot() has asked for, one after the other
  resets

restartVars == <<pristine, cpu, ram, pam, cmos, suspended, attempts, resets>>

Image == [below |-> "image", HaveRunPost |-> 0, above |-> "image"]
S3 == 254       \* 0xfe
Jumps == {5, 10, 11, 12}
Unimplemented == (1 .. 4) \cup (6 .. 9)

\* What the processor sees at 0xf0000.  Without a pristine copy the flash is the memory.
Flash == IF pristine THEN Image ELSE ram
Seen == IF pam.ram THEN ram ELSE Flash

Goto(where) == cpu' = where

----------------------------------------------------------------------------
(* entry_post, handle_post() and dopost()                                      *)

entry_post ==
  /\ cpu = "reset"
  /\ Goto(IF Seen.HaveRunPost # 0 THEN "entry_resume" ELSE "handle_post")
  /\ UNCHANGED <<pristine, ram, pam, cmos, suspended, attempts, resets>>

\* The memory is made writable, and gets its content if it was not in use.
Shadowed == IF pam.ram THEN ram ELSE Flash
Writable == [pam EXCEPT !.ram = TRUE, !.writable = TRUE, !.readonly = {}]

make_bios_writable ==
  /\ cpu = "handle_post"
  /\ ram' = Shadowed /\ pam' = Writable
  /\ Goto("code_mutable_preinit")
  /\ UNCHANGED <<pristine, cmos, suspended, attempts, resets>>

\* Before anything is changed: the reset code is cleared, then POST is marked as begun.
ClearResetCode ==
  /\ cpu = "code_mutable_preinit"
  /\ cmos' = 0
  /\ Goto("mark")
  /\ UNCHANGED <<pristine, ram, pam, suspended, attempts, resets>>

MarkPost ==
  /\ cpu = "mark"
  /\ ram' = [ram EXCEPT !.HaveRunPost = 1]
  /\ Goto("dopost")
  /\ UNCHANGED <<pristine, pam, cmos, suspended, attempts, resets>>

\* Variables and code (updateRelocs()) change.
dopost ==
  /\ cpu = "dopost"
  /\ ram' = [ram EXCEPT !.below = "used", !.above = "used"]
  /\ Goto("maininit")
  /\ UNCHANGED <<pristine, pam, cmos, suspended, attempts, resets>>

prepareboot ==
  /\ cpu = "maininit"
  /\ ram' = [ram EXCEPT !.HaveRunPost = 2]
  /\ Goto("make_bios_readonly")
  /\ UNCHANGED <<pristine, pam, cmos, suspended, attempts, resets>>

----------------------------------------------------------------------------
(* make_bios_readonly_intel()                                                  *)

\* A granule that ends above the area is not locked, nor is one above the roms, nor any
\* above these.
Protects(g, romlast, rommax) == romlast >= g * Unit /\ rommax >= (g + 1) * Unit

ReadOnly(romlast, rommax) ==
  {g \in 0 .. Granules - 1 : \A h \in 0 .. g : Protects(h, romlast, rommax)}

make_bios_readonly ==
  /\ cpu = "make_bios_readonly"
  /\ \E rommax \in 0 .. Granules * Unit : \E romlast \in 0 .. rommax :
       pam' = [pam EXCEPT !.writable = FALSE, !.readonly = ReadOnly(romlast, rommax),
                          !.romlast = romlast, !.rommax = rommax]
  /\ Goto("os")
  /\ suspended' = FALSE /\ attempts' = 0
  /\ UNCHANGED <<pristine, ram, cmos, resets>>

----------------------------------------------------------------------------
(* handle_resume() and handle_resume32()                                       *)

handle_resume ==
  /\ cpu = "entry_resume"
  /\ cmos' = 0
  /\ Goto(CASE cmos \in Unimplemented -> "panic"
            [] cmos \in Jumps -> "os"
            [] cmos = S3 -> "s3_resume"
            [] OTHER -> "qemu_reboot")
  /\ UNCHANGED <<pristine, ram, pam, suspended, attempts, resets>>

\* The system's vector is called; or there is none.
s3_resume ==
  /\ cpu = "s3_resume"
  /\ \/ Goto("os") /\ pam' = [pam EXCEPT !.writable = FALSE] /\ suspended' = FALSE
     \/ Goto("qemu_reboot") /\ UNCHANGED <<pam, suspended>>
  /\ UNCHANGED <<pristine, ram, cmos, attempts, resets>>

----------------------------------------------------------------------------
(* qemu_reboot()                                                               *)

\* Deviation: the image is copied from its start to its end.
CopyOrder_straight == <<"below", "HaveRunPost", "above">>

\* HaveRunPost comes last.
CopyOrder == <<"below", "above", "HaveRunPost">>

qemu_reboot ==
  /\ cpu = "qemu_reboot"
  /\ \/ /\ Flash.HaveRunPost = 0
        /\ pam' = Writable /\ Goto("copy_1") /\ UNCHANGED ram
     \/ /\ Flash.HaveRunPost # 0 /\ ram.HaveRunPost = 3
        /\ Goto("off") /\ UNCHANGED <<ram, pam>>
     \/ /\ Flash.HaveRunPost # 0 /\ ram.HaveRunPost # 3
        /\ pam' = Writable /\ ram' = [ram EXCEPT !.HaveRunPost = 3]
        /\ Goto("outb")
  /\ UNCHANGED <<pristine, cmos, suspended, attempts, resets>>

Pc(i) == CASE i = 1 -> "copy_1" [] i = 2 -> "copy_2" [] i = 3 -> "copy_3" [] i = 4 -> "outb"

Copy ==
  /\ \E i \in 1 .. 3 :
       /\ cpu = Pc(i) /\ Goto(Pc(i + 1))
       /\ ram' = [ram EXCEPT ![CopyOrder[i]] = Image[CopyOrder[i]]]
  /\ UNCHANGED <<pristine, pam, cmos, suspended, attempts, resets>>

RequestReset ==
  /\ cpu = "outb"
  /\ Goto("reset") /\ attempts' = attempts + 1
  /\ UNCHANGED <<pristine, ram, pam, cmos, suspended, resets>>

----------------------------------------------------------------------------
(* The machine and what runs on it                                             *)

\* A watchdog or a button, wherever the processor is.
HardReset ==
  /\ cpu \notin {"off", "reset"} /\ resets < MaxResets
  /\ Goto("reset") /\ resets' = resets + 1 /\ attempts' = 0
  /\ UNCHANGED <<pristine, ram, pam, cmos, suspended>>

\* The code is lost, CMOS memory is not.
PowerCycle ==
  /\ resets < MaxResets
  /\ Goto("reset") /\ resets' = resets + 1
  /\ ram' = IF pristine THEN [Image EXCEPT !.below = "none", !.above = "none"] ELSE Image
  /\ pam' = [ram |-> FALSE, writable |-> FALSE, readonly |-> {}, romlast |-> 0,
             rommax |-> 0]
  /\ suspended' = FALSE /\ attempts' = 0
  /\ UNCHANGED <<pristine, cmos>>

\* The system sets a reset code, and then restarts or jumps to the reset vector; or
\* ctrl-alt-del does the latter.
Reboot ==
  /\ cpu = "os"
  /\ cmos' \in {cmos, 1} \cup Jumps /\ Goto("reset")
  /\ UNCHANGED <<pristine, ram, pam, suspended, attempts, resets>>

\* The machine wakes up through a reset.
Suspend ==
  /\ cpu = "os"
  /\ cmos' = S3 /\ suspended' = TRUE /\ Goto("reset")
  /\ UNCHANGED <<pristine, ram, pam, attempts, resets>>

----------------------------------------------------------------------------

\* Power is turned on; CMOS memory still holds anything.
RestartInit ==
  /\ pristine \in BOOLEAN
  /\ cpu = "reset"
  /\ ram = IF pristine THEN [Image EXCEPT !.below = "none", !.above = "none"] ELSE Image
  /\ pam = [ram |-> FALSE, writable |-> FALSE, readonly |-> {}, romlast |-> 0,
            rommax |-> 0]
  /\ cmos \in {0, 10, S3}
  /\ suspended = FALSE /\ attempts = 0 /\ resets = 0

RestartNext ==
  \/ entry_post \/ make_bios_writable \/ ClearResetCode \/ MarkPost \/ dopost
  \/ prepareboot \/ make_bios_readonly \/ handle_resume \/ s3_resume \/ qemu_reboot \/ Copy
  \/ RequestReset \/ HardReset \/ PowerCycle \/ Reboot \/ Suspend

RestartSpec == RestartInit /\ [][RestartNext]_restartVars
----------------------------------------------------------------------------
(* Properties                                                                 *)

\* Wherever a reset or a loss of power comes in: POST begins with the code and the
\* variables of the image; the system and its resume only run on those of a POST that
\* has finished, and a resume only if the system was suspended since; a machine without
\* an image to restart from does not restart forever; and what is locked are the granules
\* of the roms, and nothing that memory is allocated from.
RestartTrue ==
  /\ cpu = "dopost" => ram.below = "image" /\ ram.above = "image"
  /\ cpu \in {"os", "s3_resume"} =>
       ram.below = "used" /\ ram.above = "used" /\ ram.HaveRunPost = 2
  /\ cpu = "s3_resume" => suspended
  /\ attempts <= 1
  /\ cpu = "os" =>
       /\ ~pam.writable
       /\ \A g \in 0 .. Granules - 1 :
            /\ g * Unit < pam.romlast /\ (g + 1) * Unit <= pam.rommax => g \in pam.readonly
            /\ g \in pam.readonly => (g + 1) * Unit <= pam.rommax
=============================================================================
