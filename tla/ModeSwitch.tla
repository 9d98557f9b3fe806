------------------------------ MODULE ModeSwitch ------------------------------
(***************************************************************************)
(* How SeaBIOS moves between the mode and stack of whoever called it and   *)
(* its own: entry on the extra stack (src/romlayout.S), stack_hop(),       *)
(* stack_hop_back(), call32() and call16() (src/stacks.c), the last two    *)
(* also by way of system management mode (src/fw/smm.c).  They nest, for   *)
(* code that waits goes back to its caller's mode and stack to let         *)
(* interrupts in, and a handler may enter the BIOS again.                  *)
(***************************************************************************)
EXTENDS Naturals, Sequences

CONSTANTS
  EXTRA_STACK_SIZE,  \* BUILD_EXTRA_STACK_SIZE; one unit a call
  DISABLE_A20,       \* CONFIG_DISABLE_A20
  Environments,      \* [ss, a20, gdt, nmi, pe] of programs and interrupt handlers
  MaxDepth           \* bound on the nesting

\* The extra stack is in a segment of SeaBIOS's own.
ASSUME ModeAssumption ==
  /\ EXTRA_STACK_SIZE \in Nat /\ MaxDepth \in Nat /\ DISABLE_A20 \in BOOLEAN
  /\ \A env \in Environments :
       /\ env = [ss |-> env.ss, a20 |-> env.a20, gdt |-> env.gdt, nmi |-> env.nmi,
                 pe |-> env.pe]
       /\ {env.a20, env.nmi, env.pe} \subseteq BOOLEAN
       /\ env.ss # "low"

VARIABLES
  mode_cpu,         \* [mode, ss, sp, a20, gdt, nmi, pe]; nmi tells that it is enabled
  Call16Data,  \* [method, ss, a20, gdt, nmi]
  ExtraStack,  \* what its units hold: ss:sp where one was saved
  StackPos,
  smm,         \* [have, backup2, backup_a20]: HaveSmmCall32 and handle_smi()'s state
  frames,      \* the calls in progress, each with what it keeps on its stack
  restored     \* FALSE when a return has left its caller another environment

modeVars == <<mode_cpu, Call16Data, ExtraStack, StackPos, smm, frames, restored>>

Innermost == frames[Len(frames)]
SEG_LOW == "low"

\* on_extra_stack()
OnExtra == mode_cpu.mode = "real" /\ mode_cpu.ss = SEG_LOW

----------------------------------------------------------------------------
(* Saving and restoring the caller's environment.  A machine m has the cpu,   *)
(* Call16Data and smm.                                                        *)

ModeMachine == [cpu |-> mode_cpu, data |-> Call16Data, smm |-> smm]

call32_prep(method, m) ==
  LET saved == [m.data EXCEPT !.ss = m.cpu.ss, !.nmi = m.cpu.nmi, !.method = method]
  IN  IF method = "smm"
      THEN [m EXCEPT !.data = saved, !.cpu.nmi = FALSE]
      ELSE [m EXCEPT !.data = [saved EXCEPT !.gdt = m.cpu.gdt, !.a20 = m.cpu.a20],
                     !.cpu.a20 = TRUE, !.cpu.nmi = FALSE]

call32_post(m) ==
  LET cleared == [m EXCEPT !.data.method = "none", !.data.ss = "zero",
                           !.cpu.nmi = @ \/ m.data.nmi]
  IN  IF m.data.method = "smm" THEN cleared
      ELSE [cleared EXCEPT !.cpu.gdt = m.data.gdt, !.cpu.a20 = @ /\ m.data.a20]

\* transition32_nmi_off, and handle_smi() for CALL32SMM_ENTERID.
Enter32(method, m) ==
  IF method = "smm"
  THEN [m EXCEPT !.smm.backup2 = [gdt |-> m.cpu.gdt, pe |-> m.cpu.pe],
                 !.smm.backup_a20 = m.cpu.a20,
                 !.cpu = [@ EXCEPT !.mode = "flat", !.gdt = "bios", !.pe = FALSE, !.a20 = TRUE]]
  ELSE [m EXCEPT !.cpu = [@ EXCEPT !.mode = "flat", !.gdt = "bios"]]

\* transition16 and transition16big, and handle_smi() for CALL32SMM_RETURNID.
Leave32(method, m) ==
  IF method = "smm"
  THEN [m EXCEPT !.cpu = [@ EXCEPT !.mode = "real", !.gdt = m.smm.backup2.gdt,
                                   !.pe = m.smm.backup2.pe,
                                   !.a20 = m.cpu.a20 /\ m.smm.backup_a20]]
  ELSE [m EXCEPT !.cpu = [@ EXCEPT !.mode = "real"]]

Becomes(m) == mode_cpu' = m.cpu /\ Call16Data' = m.data /\ smm' = m.smm

\* What a caller must find again.
Kept(c) == <<c.mode, c.ss, c.sp, c.a20, c.gdt, c.nmi, c.pe>>

\* A call of the given kind, with its own "save".  It takes a unit of the stack
\* it is made on; "junk" is whatever it pushes.
Junk == [ss |-> "junk", sp |-> 0]

Call(kind, save) ==
  /\ Len(frames) < MaxDepth
  /\ frames' = Append(frames, [kind |-> kind, was |-> mode_cpu, pos |-> StackPos, save |-> save])

PushOn(c) ==
  IF c.ss = SEG_LOW THEN [ExtraStack EXCEPT ![c.sp - 1] = Junk] ELSE ExtraStack

\* What the last call has pushed there is junk when it returns.
Freed ==
  [i \in DOMAIN ExtraStack |->
     IF i < (IF Innermost.was.ss = SEG_LOW THEN Innermost.was.sp ELSE Innermost.pos) THEN Junk ELSE ExtraStack[i]]

Room == mode_cpu.sp > 1

\* The last call returns; c and pos are what it leaves.
Returns(kind, c, pos) ==
  /\ frames # <<>>
  /\ Innermost.kind = kind
  /\ frames' = SubSeq(frames, 1, Len(frames) - 1)
  /\ restored' = (restored /\ Kept(c) = Kept(Innermost.was) /\ pos = Innermost.pos)
  /\ ExtraStack' = Freed

----------------------------------------------------------------------------
(* Entry and the extra stack                                                 *)

\* Programs call, and interrupts come in where check_irqs() has got back to the
\* caller's mode and stack.  (Where it was there all the time, the interrupt finds
\* the BIOS as the program left it.)
Outside ==
  /\ mode_cpu.mode = "real" /\ ~OnExtra
  /\ frames # <<>> => Innermost.kind \in {"hop_back", "call16"}

\* A program or handler, in an environment and on a stack of its own, enters the
\* BIOS by irqentry_extrastack or irqentry_arg_extrastack, or by irqentry_arg,
\* which stays on its stack.
EnterBios(env, extra) ==
  /\ Outside
  /\ Call("entry", [env |-> env, extra |-> extra])
  /\ IF extra
     THEN /\ ExtraStack' = [ExtraStack EXCEPT ![StackPos - 1] = [ss |-> env.ss, sp |-> mode_cpu.sp - 1]]
          /\ mode_cpu' = [mode |-> "real", ss |-> SEG_LOW, sp |-> StackPos - 1, a20 |-> env.a20,
                     gdt |-> env.gdt, nmi |-> env.nmi, pe |-> env.pe]
     ELSE /\ mode_cpu' = [mode |-> "real", ss |-> env.ss, sp |-> mode_cpu.sp - 1, a20 |-> env.a20,
                     gdt |-> env.gdt, nmi |-> env.nmi, pe |-> env.pe]
          /\ UNCHANGED ExtraStack
  /\ IF extra THEN StackPos > 1 ELSE Room
  /\ UNCHANGED <<Call16Data, StackPos, smm, restored>>

\* It finds its environment, and goes back to what it interrupted.
EntryReturns ==
  /\ frames # <<>> /\ Innermost.kind = "entry"
  /\ LET s   == IF Innermost.save.extra THEN ExtraStack[mode_cpu.sp] ELSE [ss |-> mode_cpu.ss, sp |-> mode_cpu.sp]
         env == Innermost.save.env
     IN  /\ restored' = (/\ restored
                         /\ s = [ss |-> env.ss, sp |-> Innermost.was.sp - 1]
                         /\ mode_cpu.mode = "real" /\ StackPos = Innermost.pos
                         /\ env = [ss |-> env.ss, a20 |-> mode_cpu.a20, gdt |-> mode_cpu.gdt, nmi |-> mode_cpu.nmi, pe |-> mode_cpu.pe])
         /\ mode_cpu' = Innermost.was
         /\ frames' = SubSeq(frames, 1, Len(frames) - 1)
  /\ ExtraStack' = Freed
  /\ UNCHANGED <<Call16Data, StackPos, smm>>

InBios16 == frames # <<>> /\ mode_cpu.mode = "real"

\* __stack_hop(); on the extra stack it is a plain call.
stack_hop ==
  /\ InBios16 /\ ~OnExtra /\ StackPos > 1
  /\ Call("hop", "none")
  /\ ExtraStack' = [ExtraStack EXCEPT ![StackPos - 1] = [ss |-> mode_cpu.ss, sp |-> mode_cpu.sp]]
  /\ mode_cpu' = [mode_cpu EXCEPT !.ss = SEG_LOW, !.sp = StackPos - 1]
  /\ UNCHANGED <<Call16Data, StackPos, smm, restored>>

HopReturns ==
  LET s == ExtraStack[mode_cpu.sp]
      c == [mode_cpu EXCEPT !.ss = s.ss, !.sp = s.sp]
  IN  /\ Returns("hop", c, StackPos)
      /\ mode_cpu' = c
      /\ UNCHANGED <<Call16Data, StackPos, smm>>

\* Deviation: the extra stack is not kept while its user is away.
PosWhileAway_kept == StackPos

\* What is above stays in use while its user is away on the caller's stack.
PosWhileAway == mode_cpu.sp

\* __stack_hop_back() in 16-bit mode; off the extra stack it is a plain call, and
\* in 32-bit mode it is call16().
stack_hop_back ==
  /\ InBios16 /\ OnExtra
  /\ Call("hop_back", "none")
  /\ LET s == ExtraStack[StackPos - 1]
     IN  mode_cpu' = [mode_cpu EXCEPT !.ss = s.ss, !.sp = s.sp]
  /\ StackPos' = PosWhileAway
  /\ UNCHANGED <<Call16Data, ExtraStack, smm, restored>>

HopBackReturns ==
  LET c == [mode_cpu EXCEPT !.ss = Innermost.was.ss, !.sp = Innermost.was.sp]
  IN  /\ Returns("hop_back", c, Innermost.pos)
      /\ mode_cpu' = c
      /\ StackPos' = Innermost.pos
      /\ UNCHANGED <<Call16Data, smm>>

----------------------------------------------------------------------------
(* Modes                                                                     *)

\* __call32() and call32_smm(); in 16-bit protected mode only the latter can.
call32 ==
  LET method == IF smm.have THEN "smm" ELSE "big"
      m == Enter32(method, call32_prep(method, ModeMachine))
  IN  /\ InBios16 /\ Room
      /\ smm.have \/ ~mode_cpu.pe
      /\ Call("call32", method)
      /\ ExtraStack' = PushOn(mode_cpu)
      /\ Becomes([m EXCEPT !.cpu.sp = @ - 1])
      /\ UNCHANGED <<StackPos, restored>>

\* ss and esp are on the stack; the rest call32_post() restores.
Call32Returns ==
  LET m == call32_post(Leave32(Innermost.save, ModeMachine))
      c == [m.cpu EXCEPT !.ss = Innermost.was.ss, !.sp = Innermost.was.sp]
  IN  /\ Returns("call32", c, StackPos)
      /\ Becomes([m EXCEPT !.cpu = c])
      /\ UNCHANGED StackPos

\* call16() or call16_smm(), and call16_helper() up to func(), in machine m.
Call16(m) ==
  LET via == IF m.data.method = "smm" THEN "smm" ELSE "big"
      left == Leave32(via, m)
      c == call32_post([left EXCEPT !.cpu.ss = m.data.ss])
  IN  /\ mode_cpu.mode = "flat" /\ Room
      /\ Call("call16", [via |-> via, stack |-> mode_cpu.ss, method |-> m.data.method])
      /\ ExtraStack' = PushOn(mode_cpu)
      /\ Becomes([c EXCEPT !.cpu.sp = @ - 1])
      /\ UNCHANGED <<StackPos, restored>>

call16 == frames # <<>> /\ Call16(ModeMachine)

\* farcall16() and farcall16big(), by the main thread during POST and boot:
\* call16_override() comes first.
farcall16(big) ==
  /\ frames = <<>>
  /\ Call16([ModeMachine EXCEPT !.data =
               [method |-> IF big THEN "big" ELSE "none", ss |-> "zero", gdt |-> "none",
                nmi |-> TRUE, a20 |-> big \/ ~DISABLE_A20]])

\* call16_helper() after func().
Call16Returns ==
  LET m == Enter32(Innermost.save.via, call32_prep(Innermost.save.method, ModeMachine))
      c == [m.cpu EXCEPT !.ss = Innermost.save.stack, !.sp = Innermost.was.sp]
  IN  /\ Returns("call16", c, StackPos)
      /\ Becomes([m EXCEPT !.cpu = c])
      /\ UNCHANGED StackPos

----------------------------------------------------------------------------

\* A program runs, or SeaBIOS itself does in POST.
ModeInit ==
  /\ \/ \E env \in Environments :
          mode_cpu = [mode |-> "real", ss |-> env.ss, sp |-> 2 * MaxDepth, a20 |-> env.a20,
                 gdt |-> env.gdt, nmi |-> env.nmi, pe |-> env.pe]
     \/ mode_cpu = [mode |-> "flat", ss |-> "zero", sp |-> 2 * MaxDepth, a20 |-> TRUE,
               gdt |-> "bios", nmi |-> FALSE, pe |-> FALSE]
  /\ Call16Data = [method |-> "none", ss |-> "zero", a20 |-> TRUE, gdt |-> "none", nmi |-> TRUE]
  /\ ExtraStack = [i \in 1 .. EXTRA_STACK_SIZE |-> Junk]
  /\ StackPos = EXTRA_STACK_SIZE + 1
  /\ smm \in [have : BOOLEAN, backup2 : {[gdt |-> "none", pe |-> FALSE]}, backup_a20 : {TRUE}]
  /\ frames = <<>>
  /\ restored = TRUE

ModeNext ==
  \/ \E env \in Environments, extra \in BOOLEAN : EnterBios(env, extra)
  \/ EntryReturns
  \/ stack_hop \/ HopReturns
  \/ stack_hop_back \/ HopBackReturns
  \/ call32 \/ Call32Returns
  \/ call16 \/ (\E big \in BOOLEAN : farcall16(big)) \/ Call16Returns

ModeSpec == ModeInit /\ [][ModeNext]_modeVars

----------------------------------------------------------------------------
(* Properties                                                                 *)

\* The innermost call32() around the call16() in progress, if there is one.
Around == {i \in 1 .. Len(frames) : frames[i].kind = "call32"}

\* However entries, hops and mode switches nest, every one of them gives back
\* the mode, stack, A20 gate, descriptor table and NMI mask it found, though
\* there is one Call16Data and one StackPos for all of them; nothing on the
\* extra stack is overwritten while somebody is away from it; 32-bit code runs
\* with the A20 gate open; and a function called by call16() runs in the mode,
\* and on the stack, of the last call32().
ModesRestored ==
  /\ restored
  /\ mode_cpu.mode = "flat" => mode_cpu.a20 /\ mode_cpu.gdt = "bios" /\ ~mode_cpu.nmi
  /\ frames # <<>> /\ Innermost.kind = "call16" /\ Around # {} =>
       LET was == frames[CHOOSE i \in Around : \A j \in Around : j <= i].was
       IN  /\ mode_cpu.ss = was.ss
           /\ <<mode_cpu.a20, mode_cpu.gdt, mode_cpu.nmi, mode_cpu.pe>> = <<was.a20, was.gdt, was.nmi, was.pe>>
=============================================================================
