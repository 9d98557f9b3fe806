-------------------------------- MODULE TpmLog ---------------------------------
(***************************************************************************)
(* Measurements of the boot (src/tcgbios.c): each extends a register (PCR) *)
(* of the TPM and is then written to the event log, from which the         *)
(* registers must be computed again.  The BIOS measures, programs do       *)
(* through int 1Ah, and the TPM may refuse a command, or carry it out and  *)
(* its answer is lost.                                                     *)
(*                                                                         *)
(* What is measured is a number, so that no two digests are the same.      *)
(***************************************************************************)
EXTENDS Naturals, Sequences

CONSTANTS
  Machines,     \* the version of the TPM, its log area, Xen, an SMBIOS table
  Separators,   \* PCRs 0 to 7
  MaxCalls,     \* bound on option roms, boots, calls of int 1Ah and suspends
  MaxFaults     \* bound on the commands that fail

VARIABLES
  pc,
  tpm,          \* the TPM; its registers are the sequence of what extended them
  bios,         \* the variables of tcgbios.c
  tpm_state,    \* the log; "used" is log_area_next_entry - log_area_start_address
  todo,         \* what the BIOS goes on to measure
  made, faults, calls,
  answer        \* of the last int 1Ah

vars == <<pc, tpm, bios, tpm_state, todo, made, faults, calls, answer>>

None == [rc |-> "none", number |-> 0, digest |-> 0]

Init ==
  /\ pc = "setup"
  /\ \E m \in Machines :
       /\ tpm = [version |-> m.version, started |-> m.xen, active |-> TRUE,
                 saved |-> FALSE, pcrs |-> <<>>]
       /\ bios = [TPM_version |-> "none", working |-> FALSE, presence |-> FALSE,
                  pcr_selection |-> FALSE, shutdown |-> FALSE, step |-> 1,
                  xen |-> m.xen, smbios |-> m.smbios]
       /\ tpm_state = [area |-> m.area, used |-> 0, entries |-> <<>>]
  /\ todo = <<>> /\ made = 0 /\ faults = 0 /\ calls = 0 /\ answer = None

----------------------------------------------------------------------------
(* The TPM: what may become of a command                                    *)

Outcomes(sensible) ==
  IF tpm.started /\ tpm.active /\ sensible
  THEN {"ok"} \cup (IF faults < MaxFaults THEN {"refused", "lost"} ELSE {})
  ELSE {"refused"}

CountFault(o, sensible) ==
  faults' = IF Outcomes(sensible) # {"refused"} /\ o # "ok" THEN faults + 1 ELSE faults

\* An extension is carried out unless it is refused.
Extended(e, o, by) ==
  [tpm EXCEPT !.pcrs = IF o = "refused" THEN @
                       ELSE Append(@, [digest |-> e.digest, pcr |-> e.pcr, size |-> e.size,
                                       answered |-> o = "ok", by |-> by])]

----------------------------------------------------------------------------
(* The log                                                                  *)

Fits(e) == tpm_state.area > 0 /\ tpm_state.used + e.size <= tpm_state.area

tpm_log_event(e) ==
  IF Fits(e)
  THEN [tpm_state EXCEPT !.used = @ + e.size, !.entries = Append(@, e)]
  ELSE tpm_state

\* An entry: "form" is how its digest is laid out, a SHA1 hash or a list of
\* hashes; "extends" is whether a register was to be extended with it.
Entry(pcr, size, form, extends) ==
  [digest |-> made + 1, pcr |-> pcr, size |-> size, form |-> form, extends |-> extends]

Form == IF bios.TPM_version = "2" THEN "list" ELSE "sha1"

----------------------------------------------------------------------------
(* Setup                                                                    *)

\* tpm_set_failure(): the attempt to deactivate the TPM may fail as well, and
\* does not keep a TPM 2.0 from extending its registers.
Deactivated(t, d) == [t EXCEPT !.active = @ /\ (bios.TPM_version = "2" \/ ~d)]

Measures(pcr, sizes) == [k \in DOMAIN sizes |-> [pcr |-> pcr, size |-> sizes[k]]]

tpm_setup ==
  /\ pc = "setup"
  /\ IF tpm_state.area = 0 \/ tpm.version = "none"
     THEN pc' = "post" /\ UNCHANGED bios
     ELSE /\ bios' = [bios EXCEPT !.TPM_version = tpm.version, !.working = TRUE]
          /\ pc' = IF bios.xen THEN "post" ELSE "startup"
  /\ UNCHANGED <<tpm, tpm_state, todo, made, faults, calls, answer>>

Steps ==
  [v \in {"1.2", "2"} |->
     IF v = "1.2"
     THEN <<"Startup", "PhysicalPresence", "timeouts", "SelfTest", "ResetEstablishmentBit">>
     ELSE <<"Startup", "SelfTest", "pcrbanks", "EfiSpecIdEvent">>]

Step == Steps[bios.TPM_version][bios.step]

\* tpm_set_failure() after the command of a step.
StartupFails(t) ==
  /\ \E d \in BOOLEAN : tpm' = Deactivated(t, d)
  /\ bios' = [bios EXCEPT !.working = FALSE]
  /\ pc' = "post"
  /\ UNCHANGED todo

StartupGoesOn(t) ==
  /\ tpm' = t
  /\ bios' = [bios EXCEPT !.step = @ + 1, !.pcr_selection = @ \/ Step = "pcrbanks"]
  /\ IF bios.step = Len(Steps[bios.TPM_version])
     THEN /\ pc' = "post"
          /\ todo' = (IF bios.smbios THEN Measures(1, <<2>>) ELSE <<>>) \o Measures(2, <<1>>)
     ELSE UNCHANGED <<pc, todo>>

\* tpm12_startup(), tpm20_startup(): a command that resets the registers and
\* starts the TPM, and others.
Startup ==
  /\ pc = "startup" /\ Step = "Startup"
  /\ \E o \in {"ok"} \cup (IF faults < MaxFaults THEN {"refused", "lost"} ELSE {}) :
       /\ LET t == [tpm EXCEPT !.started = (o # "refused"), !.pcrs = <<>>]
          IN  IF o = "ok" THEN StartupGoesOn(t) ELSE StartupFails(t)
       /\ faults' = IF o = "ok" THEN faults ELSE faults + 1
  /\ UNCHANGED <<tpm_state, made, calls, answer>>

\* Physical presence that cannot be asserted is no failure.
PhysicalPresence ==
  /\ pc = "startup" /\ Step = "PhysicalPresence"
  /\ \E o \in Outcomes(TRUE) :
       /\ bios' = [bios EXCEPT !.presence = (o = "ok"), !.step = @ + 1]
       /\ CountFault(o, TRUE)
  /\ UNCHANGED <<pc, tpm, tpm_state, todo, made, calls, answer>>

StartupCommand ==
  /\ pc = "startup" /\ Step \in {"timeouts", "SelfTest", "ResetEstablishmentBit", "pcrbanks"}
  /\ \E o \in Outcomes(TRUE) :
       /\ IF o = "ok" THEN StartupGoesOn(tpm) ELSE StartupFails(tpm)
       /\ CountFault(o, TRUE)
  /\ UNCHANGED <<tpm_state, made, calls, answer>>

\* tpm20_write_EfiSpecIdEventStruct(): the first entry says what the digests
\* of the others are.
SpecId == [digest |-> 0, pcr |-> 0, size |-> 2, form |-> "sha1", extends |-> FALSE]

EfiSpecIdEvent ==
  /\ pc = "startup" /\ Step = "EfiSpecIdEvent"
  /\ tpm_state' = tpm_log_event(SpecId)
  /\ IF Fits(SpecId) THEN StartupGoesOn(tpm) ELSE StartupFails(tpm)
  /\ UNCHANGED <<made, faults, calls, answer>>

tpm_startup == Startup \/ PhysicalPresence \/ StartupCommand \/ EfiSpecIdEvent

----------------------------------------------------------------------------
(* Measurements of the BIOS                                                 *)

\* Deviation: what the TPM did not confirm is logged as well.
LogsAfter_any(o) == TRUE
LogsAfter(o) == o = "ok"

\* tpm_build_digest() needs the list of hashes that a TPM 2.0 computes.
Digestible == bios.TPM_version # "2" \/ bios.pcr_selection

tpm_add_measurement_to_log ==
  /\ todo # <<>>
  /\ todo' = Tail(todo)
  /\ made' = made + 1
  /\ IF bios.working /\ Digestible
     THEN \E o \in Outcomes(TRUE), d \in BOOLEAN :
            LET e == Entry(Head(todo).pcr, Head(todo).size, Form, TRUE)
                t == Extended(e, o, "bios")
            IN  /\ tpm' = IF o = "ok" THEN t ELSE Deactivated(t, d)
                /\ bios' = [bios EXCEPT !.working = (o = "ok")]
                /\ tpm_state' = IF LogsAfter(o) THEN tpm_log_event(e) ELSE tpm_state
                /\ CountFault(o, TRUE)
     ELSE UNCHANGED <<tpm, bios, tpm_state, faults>>
  /\ UNCHANGED <<pc, calls, answer>>

Quiet == todo = <<>> /\ calls < MaxCalls

tpm_option_rom ==
  /\ pc = "post" /\ Quiet
  /\ bios.working
  /\ todo' = Measures(2, <<2>>)
  /\ UNCHANGED <<pc, tpm, bios, tpm_state, made, faults, answer>>
  /\ calls' = calls + 1

\* The lock of physical presence may fail; the commands of a TPM 2.0 may not.
tpm_prepboot ==
  /\ pc = "post" /\ todo = <<>>
  /\ IF bios.TPM_version = "2"
     THEN \E o \in Outcomes(TRUE), d \in BOOLEAN :
            /\ tpm' = IF o = "ok" THEN tpm ELSE Deactivated(tpm, d)
            /\ bios' = [bios EXCEPT !.working = @ /\ o = "ok"]
            /\ CountFault(o, TRUE)
     ELSE UNCHANGED <<tpm, bios, faults>>
  /\ pc' = "boot"
  /\ todo' = Measures(4, <<1>>) \o [k \in 1 .. Separators |-> [pcr |-> k - 1, size |-> 1]]
  /\ UNCHANGED <<tpm_state, made, calls, answer>>

\* tpm_add_bcv(), tpm_add_cdrom(), tpm_add_cdrom_catalog(): the action, then
\* the boot sector and its partition table, the boot image or the catalog.
Booted == {Measures(4, <<1, 1>>) \o Measures(5, <<1>>), Measures(4, <<1, 1>>),
           Measures(4, <<1>>) \o Measures(5, <<1>>)}

tpm_add_boot ==
  /\ pc = "boot" /\ Quiet
  /\ bios.working
  /\ todo' \in Booted
  /\ UNCHANGED <<pc, tpm, bios, tpm_state, made, faults, answer>>
  /\ calls' = calls + 1

----------------------------------------------------------------------------
(* Int 1Ah                                                                  *)

\* Programs and option roms call it, whether the BIOS still uses the TPM or not.
Called == pc \in {"post", "boot"} /\ Quiet

hash_log_extend(e, o) ==
  CASE e.extends /\ o # "ok" -> [log |-> tpm_state, rc |-> "COMMAND_ERROR"]
    [] ~(e.extends /\ o # "ok") /\ ~Fits(e) -> [log |-> tpm_state, rc |-> "LOGOVERFLOW"]
    [] OTHER -> [log |-> tpm_log_event(e), rc |-> "success"]

\* TCG_HashLogExtendEvent, TCG_CompactHashLogExtendEvent and TCG_HashLogEvent:
\* the digest is a SHA1 hash, which is no digest for a TPM 2.0.
HashLogEvent(extends) ==
  /\ Called
  /\ ~bios.shutdown
  /\ made' = made + 1
  /\ LET e == Entry(4, 1, "sha1", extends)
         sensible == bios.TPM_version = "1.2"
     IN  \E o \in IF extends THEN Outcomes(sensible) ELSE {"none"} :
           LET r == hash_log_extend(e, o)
           IN  /\ tpm_state' = r.log
               /\ tpm' = IF extends THEN Extended(e, o, "program") ELSE tpm
               /\ answer' = [rc |-> r.rc, number |-> Len(r.log.entries),
                             digest |-> IF extends THEN e.digest ELSE 0]
               /\ IF extends THEN CountFault(o, sensible) ELSE UNCHANGED faults
  /\ UNCHANGED <<pc, bios, todo>>
  /\ calls' = calls + 1

\* TCG_PassThroughToTPM: a program extends a register and writes no log.
pass_through_to_tpm ==
  /\ Called
  /\ ~bios.shutdown
  /\ made' = made + 1
  /\ \E o \in Outcomes(TRUE) :
       /\ tpm' = Extended(Entry(4, 1, Form, TRUE), o, "passthrough")
       /\ answer' = [None EXCEPT !.rc = IF o = "lost" THEN "FATAL_COM_ERROR" ELSE "passed"]
       /\ CountFault(o, TRUE)
  /\ UNCHANGED <<pc, bios, tpm_state, todo>>
  /\ calls' = calls + 1

shutdown_preboot_interface ==
  /\ Called
  /\ ~bios.shutdown
  /\ bios' = [bios EXCEPT !.shutdown = TRUE]
  /\ answer' = None
  /\ UNCHANGED <<pc, tpm, tpm_state, todo, made, faults>>
  /\ calls' = calls + 1

----------------------------------------------------------------------------
(* Suspend and resume                                                       *)

\* The operating system has the TPM save its registers, or forgets to.
Suspend ==
  /\ pc = "boot" /\ Quiet
  /\ pc' = "asleep"
  /\ \E saved \in BOOLEAN : tpm' = [tpm EXCEPT !.saved = saved /\ tpm.started, !.started = FALSE]
  /\ UNCHANGED <<bios, tpm_state, todo, made, faults, answer>>
  /\ calls' = calls + 1

\* tpm_s3_resume(): a TPM that has saved nothing refuses to start with its old
\* state.
tpm_s3_resume ==
  /\ pc = "asleep"
  /\ pc' = "boot"
  /\ IF bios.working
     THEN \E o \in IF tpm.saved
                   THEN {"ok"} \cup (IF faults < MaxFaults THEN {"refused", "lost"} ELSE {})
                   ELSE {"refused"}, d \in BOOLEAN :
            LET t == [tpm EXCEPT !.started = (o # "refused")]
            IN  /\ tpm' = IF o = "ok" THEN t ELSE Deactivated(t, d)
                /\ bios' = [bios EXCEPT !.working = (o = "ok")]
                /\ faults' = IF tpm.saved /\ o # "ok" THEN faults + 1 ELSE faults
     ELSE UNCHANGED <<tpm, bios, faults>>
  /\ UNCHANGED <<tpm_state, todo, made, calls, answer>>

Next ==
  \/ tpm_setup
  \/ tpm_startup
  \/ tpm_add_measurement_to_log
  \/ tpm_option_rom
  \/ tpm_prepboot
  \/ tpm_add_boot
  \/ \E extends \in BOOLEAN : HashLogEvent(extends)
  \/ pass_through_to_tpm
  \/ shutdown_preboot_interface
  \/ Suspend
  \/ tpm_s3_resume

----------------------------------------------------------------------------

InLog == SelectSeq(tpm_state.entries, LAMBDA e : e.extends)
Digests(s) == {s[k].digest : k \in DOMAIN s}
Same(e, f) == e.digest = f.digest /\ e.pcr = f.pcr

\* The log tells the registers of a TPM that is used (tcgbios.c:1006, :1437).
\* Its entries are extensions, in their order.  An extension is not in it only
\* if a program went past the log, if its answer was lost (and then the BIOS no
\* longer works with the TPM, unless a program had asked for it), or if the log
\* had no room for it; programs are told the number of their entry.  Digests are
\* in the form that the version of the TPM asks for.
LogTellsPcrs ==
  LET known == SelectSeq(tpm.pcrs, LAMBDA e : e.digest \in Digests(InLog))
  IN  /\ tpm_state.used <= tpm_state.area
      /\ Len(known) = Len(InLog)
      /\ \A k \in DOMAIN known : Same(known[k], InLog[k])
      /\ \A k \in DOMAIN tpm.pcrs :
           LET e == tpm.pcrs[k]
           IN  \/ e.digest \in Digests(InLog)
               \/ e.by = "passthrough"
               \/ ~e.answered /\ (e.by = "program" \/ ~bios.working)
               \/ ~Fits(e)
      /\ answer.rc = "success" /\ answer.digest # 0 =>
           Same(tpm_state.entries[answer.number], [digest |-> answer.digest, pcr |-> 4])
      /\ bios.working /\ pc \in {"post", "boot"} => tpm.started
      /\ \A k \in DOMAIN InLog : InLog[k].form = Form

=============================================================================
