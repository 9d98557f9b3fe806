------------------------------- MODULE Ps2Port --------------------------------
(* The PS/2 port (src/hw/ps2port.c) and the mouse on it (src/mouse.c): the    *)
(* dialogue of a command with the keyboard or the mouse, which runs with the  *)
(* other device shut out, the two interrupts that come in before, during and  *)
(* after it, and the handlers of programs that these call and that may give   *)
(* commands themselves.                                                       *)
(*                                                                            *)
(* The program, the handlers and the commands form a stack of frames, the     *)
(* running one last.  The controller is the one of the machine: one output    *)
(* buffer for both devices, an interrupt when a byte enters it.               *)
EXTENDS Naturals, Sequences, FiniteSets

CONSTANTS
  Ops,         \* the services that programs use, among UserOps
  MaxCalls,    \* bound: how often they use one
  MaxCommands, \* bound: commands that are under way at a time
  MaxKeys,     \* bound: bytes of keys
  MaxPackets,  \* bound: mouse packets
  MaxFaults    \* bound: bytes that a device or the controller does not take
               \* or that come too late

\* leds:    a keyboard command with a parameter (set_leds() of int 16h)
\* enable, disable:  int 15h c200
\* init:    c205
\* install, remove:  c207 with a handler and without
\* rate:    c202, which stands for c203 and c206 too
UserOps == {"leds", "enable", "disable", "init", "install", "remove", "rate"}

ASSUME Ps2Assumption ==
  /\ Ops \subseteq UserOps
  /\ {MaxCalls, MaxCommands, MaxKeys, MaxPackets, MaxFaults} \subseteq Nat

VARIABLES
  Ps2ctr,    \* the control byte as the BIOS remembers it, a set of bits
  ctr,       \* the control byte in the controller
  obuf,      \* its output buffer
  pend,      \* the interrupts that the PIC has latched
  out,       \* by device: the bytes it has not sent yet
  reports,   \* by device: it sends keys or packets by itself
  frames,
  setup,     \* how far ps2_keyboard_setup() is
  mouse_flag1, mouse_flag2, mouse_data, far_call_pointer,
  budget,    \* the calls, keys, packets and faults that are left
  events     \* what has happened so far that the properties speak of

hwVars == <<ctr, obuf, pend>>
devVars == <<out, reports>>
mouseVars == <<mouse_flag1, mouse_flag2, mouse_data, far_call_pointer>>
vars == <<Ps2ctr, hwVars, devVars, frames, setup, mouseVars, budget, events>>

Device == {"kbd", "aux"}
Bits == {"KBDINT", "AUXINT", "KBDDIS", "AUXDIS"}
INT(d) == IF d = "kbd" THEN "KBDINT" ELSE "AUXINT"
DIS(d) == IF d = "kbd" THEN "KBDDIS" ELSE "AUXDIS"

Key == "key"
Packet == <<"m0", "m1", "m2">>
Byte == {"key", "m0", "m1", "m2", "ack", "nak", "val"}
Answer == {"ack", "nak", "val"}

SetupOps == {"bat", "dis", "scan", "on"}
DeviceOf(op) == IF op \in SetupOps \cup {"leds"} THEN "kbd" ELSE "aux"

\* The bytes of a dialogue: sent ("cmd", "arg"), each to be acknowledged, or
\* received ("val").
Script(op) ==
  CASE op \in {"leds", "rate", "scan"} -> <<"cmd", "arg">>
    [] op \in {"enable", "disable", "remove", "dis", "on"} -> <<"cmd">>
    [] op = "bat" -> <<"cmd", "val">>
    [] op = "init" -> <<"cmd", "val", "val">>

Event == {"late", "nested", "inside", "held", "stuck", "leaked", "null", "torn", "mixed"}

TypeOK ==
  /\ Ps2ctr \subseteq Bits /\ ctr \subseteq Bits
  /\ obuf \in [full : BOOLEAN, dev : Device, byte : Byte]
  /\ pend \subseteq Device
  /\ out \in [Device -> Seq(Byte)]
  /\ reports \subseteq Device
  /\ \A i \in DOMAIN frames :
       frames[i].kind \in Device \cup {"cmd"} /\ frames[i].saved \subseteq Bits
  /\ setup \in {"start", "done", "off"} \cup SetupOps
  /\ mouse_flag1 \in 0 .. 2
  /\ mouse_flag2 \in [count : {0, 3}, on : BOOLEAN]
  /\ mouse_data \in [0 .. 2 -> Byte]
  /\ far_call_pointer \in {"null", "handler"}
  /\ events \subseteq Event

-------------------------------------------------------------------------------
(* The machine                                                                *)

Top == frames[Len(frames)]
Executing == IF frames = <<>> THEN "program" ELSE Top.kind
InCommand(places) == Executing = "cmd" /\ Top.at \in places
Pop == SubSeq(frames, 1, Len(frames) - 1)
SetTop(f) == [frames EXCEPT ![Len(frames)] = f]

\* Writing c to the controller raises the interrupt of a byte in the buffer
\* that had none before.
WriteCtr(c) ==
  /\ ctr' = c
  /\ pend' = IF obuf.full /\ INT(obuf.dev) \in c \ ctr THEN pend \cup {obuf.dev}
             ELSE pend

Fault ==
  budget.faults > 0 /\ budget' = [budget EXCEPT !.faults = @ - 1]

\* The controller does not take a byte of the control byte's command.
Stuck == events' = events \cup {"stuck"} /\ Fault /\ UNCHANGED <<ctr, pend>>

\* A byte goes from a device into the buffer.
Transfer(d) ==
  /\ ~obuf.full /\ out[d] # <<>> /\ DIS(d) \notin ctr
  /\ obuf' = [full |-> TRUE, dev |-> d, byte |-> Head(out[d])]
  /\ out' = [out EXCEPT ![d] = Tail(@)]
  /\ pend' = IF INT(d) \in ctr THEN pend \cup {d} ELSE pend
  /\ UNCHANGED <<Ps2ctr, ctr, reports, frames, setup, mouseVars, budget, events>>

\* A key is typed, or the mouse moves.
Report(d) ==
  /\ d \in reports /\ budget[d] > 0
  /\ out' = [out EXCEPT ![d] = IF d = "kbd" THEN Append(@, Key) ELSE @ \o Packet]
  /\ budget' = [budget EXCEPT ![d] = @ - 1]
  /\ UNCHANGED <<Ps2ctr, hwVars, reports, frames, setup, mouseVars, events>>

\* What a device answers to a byte sent to it.
Answers(op, part) ==
  <<"ack">> \o (IF part = "cmd" /\ op = "bat" THEN <<"val">>
                ELSE IF part = "cmd" /\ op = "init" THEN <<"val", "val">> ELSE <<>>)

\* It takes the byte, refuses it, or is silent.
React(op, part) ==
  LET d == DeviceOf(op)
  IN  \E a \in {Answers(op, part), <<"nak">>, <<>>} :
        /\ IF a = Answers(op, part) THEN UNCHANGED budget ELSE Fault
        /\ out' = [out EXCEPT ![d] = IF op \in {"bat", "init"} /\ a # <<>> THEN a
                                     ELSE @ \o a]
        /\ reports' = IF part # "cmd" \/ a \in {<<>>, <<"nak">>} THEN reports
                      ELSE IF op \in {"enable", "on", "bat"} THEN reports \cup {d}
                      ELSE IF op \in {"disable", "remove", "init", "dis"}
                      THEN reports \ {d} ELSE reports

\* The keyboard interrupt takes precedence over the one of the mouse; neither
\* comes in before the end of interrupt of one of its own priority or above.
InService(d) == \E i \in DOMAIN frames : frames[i].kind = d

Deliverable ==
  {d \in pend : IF d = "kbd" THEN ~InService("kbd")
                ELSE ~InService("kbd") /\ ~InService("aux")}

\* Interrupts are on: in the program, in a handler, and in yield().
CanInterrupt == Executing = "cmd" => Top.at \in {"flush", "recv"}

-------------------------------------------------------------------------------
(* __ps2_command()                                                            *)

\* Both devices disabled, no interrupts.
Shut(c) == (c \cup {"AUXDIS", "KBDDIS"}) \ {"KBDINT", "AUXINT"}

\* Ps2ctr as the callers of __ps2_command() leave it: ps2_mouse_command() for
\* the two commands that turn the mouse on and off, ps2_keyboard_setup() for
\* the one that turns the keyboard on.
Updated(op) ==
  CASE op = "enable" -> (Ps2ctr \cup {"AUXINT"}) \ {"AUXDIS"}
    [] op \in {"disable", "remove"} -> (Ps2ctr \cup {"AUXDIS"}) \ {"AUXINT"}
    [] op = "on" -> {"AUXDIS", "KBDINT"}
    [] OTHER -> Ps2ctr

Commands == {i \in DOMAIN frames : frames[i].kind = "cmd"}

MouseBusy ==
  \/ "aux" \in reports \/ out["aux"] # <<>> \/ mouse_flag1 # 0
  \/ obuf.full /\ obuf.dev = "aux"

\* Up to yield(): the devices are shut out.  A controller that does not take
\* the byte ends the command at once.
Begin(op, cost) ==
  LET frame(at) == [kind |-> "cmd", op |-> op, at |-> at, rest |-> Script(op),
                    saved |-> Updated(op), flags |-> mouse_flag2]
      noted == (IF Commands # {} THEN {"nested"} ELSE {})
                 \cup (IF frames # <<>> /\ MouseBusy THEN {"inside"} ELSE {})
                 \cup (IF "kbd" \in pend /\ InService("kbd") THEN {"held"} ELSE {})
                 \cup (IF DeviceOf(op) = "aux" /\ MouseBusy THEN {"mixed"} ELSE {})
  IN  /\ Ps2ctr' = Updated(op)
      /\ \/ /\ WriteCtr(Shut(Updated(op)))
            /\ frames' = Append(frames, frame("flush"))
            /\ events' = events \cup noted
            /\ budget' = [budget EXCEPT !.calls = @ - cost]
         \/ /\ frames' = Append(frames, frame("failed"))
            /\ events' = events \cup noted \cup {"stuck"}
            /\ budget.faults > 0
            /\ budget' = [budget EXCEPT !.calls = @ - cost, !.faults = @ - 1]
            /\ UNCHANGED <<ctr, pend>>
      /\ UNCHANGED <<obuf, devVars, setup>>

\* Deviation: yield() is left out.
EndFlush_early ==
  /\ InCommand({"flush"})
  /\ Ps2ctr' = Shut(Top.saved)
  /\ \/ /\ WriteCtr(Shut(Top.saved) \ {DIS(DeviceOf(Top.op))})
        /\ frames' = SetTop([Top EXCEPT !.at = "send"])
        /\ UNCHANGED <<events, budget>>
     \/ /\ frames' = SetTop([Top EXCEPT !.at = "fail"])
        /\ Stuck
  /\ UNCHANGED <<obuf, devVars, setup, mouseVars>>

\* yield() returns when every interrupt that can come in has; then the device
\* of the command is let in.
EndFlush ==
  /\ InCommand({"flush"})
  /\ Deliverable = {}
  /\ Ps2ctr' = Shut(Top.saved)
  /\ \/ /\ WriteCtr(Shut(Top.saved) \ {DIS(DeviceOf(Top.op))})
        /\ frames' = SetTop([Top EXCEPT !.at = "send"])
        /\ UNCHANGED <<events, budget>>
     \/ /\ frames' = SetTop([Top EXCEPT !.at = "fail"])
        /\ Stuck
  /\ UNCHANGED <<obuf, devVars, setup, mouseVars>>

\* ps2_sendbyte() up to the wait for the acknowledgement.
SendByte ==
  /\ InCommand({"send"})
  /\ React(Top.op, Head(Top.rest))
  /\ frames' = SetTop([Top EXCEPT !.at = "recv"])
  /\ UNCHANGED <<Ps2ctr, hwVars, setup, mouseVars, events>>

\* Where the dialogue goes on when its next byte is done.
Proceed ==
  LET rest == Tail(Top.rest)
  IN  [Top EXCEPT !.rest = rest,
                  !.at = IF rest = <<>> THEN "good"
                         ELSE IF Head(rest) = "val" THEN "recv" ELSE "send"]

\* ps2_recvbyte() finds a byte: the one it waits for, a refusal, or one that it
\* discards.
RecvByte ==
  /\ InCommand({"recv"})
  /\ obuf.full
  /\ obuf' = [obuf EXCEPT !.full = FALSE]
  /\ frames' = IF obuf.dev # DeviceOf(Top.op) THEN frames
               ELSE IF Head(Top.rest) = "val" \/ obuf.byte = "ack" THEN SetTop(Proceed)
               ELSE IF obuf.byte = "nak" THEN SetTop([Top EXCEPT !.at = "fail"])
               ELSE frames
  /\ UNCHANGED <<Ps2ctr, ctr, pend, devVars, setup, mouseVars, budget, events>>

\* Deviation: ps2_recvbyte() waits as long as it takes.
RecvTimeout_never == FALSE /\ UNCHANGED vars

\* The timer of ps2_recvbyte() has run out: nothing has come, or not in time.
RecvTimeout ==
  /\ InCommand({"recv"})
  /\ ~obuf.full
  /\ LET d == DeviceOf(Top.op)
     IN  IF out[d] = <<>> \/ DIS(d) \in ctr THEN UNCHANGED budget ELSE Fault
  /\ frames' = SetTop([Top EXCEPT !.at = "fail"])
  /\ events' = events \cup {"late"}
  /\ UNCHANGED <<Ps2ctr, hwVars, devVars, setup, mouseVars>>

\* Deviation: the flags that were read are stored as they were.
Epilogue_keeps(f) ==
  IF f.op = "remove"
  THEN /\ mouse_flag2' = f.flags
       /\ far_call_pointer' = "null"
       /\ UNCHANGED <<mouse_flag1, mouse_data>>
  ELSE UNCHANGED mouseVars

\* What the services do when the command has returned.  mouse_15c207() stores
\* the flags it read before the command.
Epilogue(f) ==
  IF f.op = "remove"
  THEN /\ mouse_flag2' = [f.flags EXCEPT !.on = FALSE]
       /\ far_call_pointer' = "null"
       /\ UNCHANGED <<mouse_flag1, mouse_data>>
  ELSE UNCHANGED mouseVars

\* ps2_keyboard_setup() behind each of its commands; the first is repeated
\* until the keyboard has started up, and tells whether its self test passed.
NextSetup(f, ok) ==
  CASE f.op = "bat" -> IF ok THEN {"dis", "off"} ELSE {"bat", "off"}
    [] f.op = "dis" -> IF ok THEN {"scan"} ELSE {"off"}
    [] f.op = "scan" -> IF ok THEN {"on"} ELSE {"off"}
    [] f.op = "on" -> {"done"}
    [] OTHER -> {setup}

\* Deviation: a command that failed leaves the devices as they are.
Finish_open ==
  /\ InCommand({"good", "fail", "failed"})
  /\ \/ /\ Top.at = "good"
        /\ Ps2ctr' = Top.saved /\ WriteCtr(Top.saved)
        /\ UNCHANGED <<events, budget>>
        /\ setup' \in NextSetup(Top, TRUE)
     \/ /\ Top.at # "good"
        /\ UNCHANGED <<Ps2ctr, ctr, pend, events, budget>>
        /\ setup' \in NextSetup(Top, FALSE)
  /\ frames' = Pop
  /\ Epilogue(Top)
  /\ UNCHANGED <<obuf, devVars>>

\* The end of the command: Ps2ctr and the controller are restored, unless the
\* command failed in its first step, and the service returns.
Finish ==
  /\ InCommand({"good", "fail", "failed"})
  /\ \/ /\ Top.at # "failed"
        /\ Ps2ctr' = Top.saved /\ WriteCtr(Top.saved)
        /\ UNCHANGED <<events, budget>>
        /\ setup' \in NextSetup(Top, Top.at = "good")
     \/ /\ Top.at # "failed"
        /\ Ps2ctr' = Top.saved /\ Stuck
        /\ setup' \in NextSetup(Top, FALSE)
     \/ /\ Top.at = "failed"
        /\ UNCHANGED <<Ps2ctr, ctr, pend, events, budget>>
        /\ setup' \in NextSetup(Top, FALSE)
  /\ frames' = Pop
  /\ Epilogue(Top)
  /\ UNCHANGED <<obuf, devVars>>

-------------------------------------------------------------------------------
(* The services, and the setup.                                               *)

\* A program, or a handler, uses a service.  Without a handler installed,
\* c200 does not turn the mouse on.
MayCall ==
  /\ setup \in {"done", "off"}
  /\ Executing # "cmd"
  /\ Cardinality(Commands) < MaxCommands
  /\ budget.calls > 0

Command(op) ==
  /\ MayCall /\ op \in Ops \ {"install", "init"}
  /\ op = "enable" => mouse_flag2.on
  /\ op = "remove" => mouse_flag2.on
  /\ Begin(op, 1)
  /\ UNCHANGED mouseVars

\* mouse_15c205() forgets the handler and what has come of a packet.
Initialize ==
  /\ MayCall /\ "init" \in Ops
  /\ Begin("init", 1)
  /\ mouse_flag1' = 0 /\ mouse_flag2' = [count |-> 3, on |-> FALSE]
  /\ UNCHANGED <<mouse_data, far_call_pointer>>

\* mouse_15c207() with a handler.
Install ==
  /\ MayCall /\ "install" \in Ops
  /\ mouse_flag2' = [mouse_flag2 EXCEPT !.on = TRUE]
  /\ far_call_pointer' = "handler"
  /\ budget' = [budget EXCEPT !.calls = @ - 1]
  /\ events' = events \cup (IF MouseBusy THEN {"mixed"} ELSE {})
  /\ UNCHANGED <<Ps2ctr, hwVars, devVars, frames, setup, mouse_flag1, mouse_data>>

\* Up to the self tests: both devices are disabled and whatever is in the
\* buffer is dropped.  An absent or broken controller ends the setup on the way.
SetupProbe ==
  /\ setup = "start" /\ frames = <<>>
  /\ obuf' = [obuf EXCEPT !.full = FALSE]
  /\ \/ setup' = "bat" /\ ctr' = ctr \cup {"KBDDIS", "AUXDIS"}
     \/ /\ setup' = "off"
        /\ ctr' \in {ctr, ctr \cup {"KBDDIS"}, ctr \cup {"KBDDIS", "AUXDIS"}}
  /\ UNCHANGED <<Ps2ctr, pend, devVars, frames, mouseVars, budget, events>>

SetupCommand ==
  /\ setup \in SetupOps /\ frames = <<>>
  /\ Begin(setup, 0)
  /\ UNCHANGED mouseVars

-------------------------------------------------------------------------------
(* The interrupts                                                             *)

Enter(d) == frames' = Append(frames, [kind |-> d, op |-> "none", at |-> "hook",
                                      rest |-> <<>>, saved |-> {}, flags |-> mouse_flag2])

\* What the handler is called with.
Called ==
  (IF far_call_pointer = "null" THEN {"null"} ELSE {})
    \cup (IF mouse_flag2.count = 3 /\ mouse_data' # [i \in 0 .. 2 |-> Packet[i + 1]]
          THEN {"torn"} ELSE {})

\* The next byte of a packet; the last one calls the handler.
process_mouse(data) ==
  IF ~mouse_flag2.on
  THEN UNCHANGED <<mouseVars, frames, events>>
  ELSE /\ mouse_data' = [mouse_data EXCEPT ![mouse_flag1] = data]
       /\ IF mouse_flag1 + 1 < mouse_flag2.count
          THEN /\ mouse_flag1' = mouse_flag1 + 1
               /\ UNCHANGED <<frames, events>>
          ELSE /\ mouse_flag1' = 0
               /\ events' = events \cup Called
               /\ Enter("aux")
       /\ UNCHANGED <<mouse_flag2, far_call_pointer>>

handle_74 ==
  /\ CanInterrupt /\ "aux" \in Deliverable
  /\ pend' = pend \ {"aux"}
  /\ IF obuf.full /\ obuf.dev = "aux"
     THEN /\ obuf' = [obuf EXCEPT !.full = FALSE]
          /\ IF "AUXINT" \in Ps2ctr THEN process_mouse(obuf.byte)
             ELSE UNCHANGED <<mouseVars, frames, events>>
     ELSE UNCHANGED <<obuf, mouseVars, frames, events>>
  /\ UNCHANGED <<Ps2ctr, ctr, devVars, setup, budget>>

\* The handler of the program returns to process_mouse().
EndMouse ==
  /\ Executing = "aux"
  /\ frames' = Pop
  /\ UNCHANGED <<Ps2ctr, hwVars, devVars, setup, mouseVars, budget, events>>

\* An empty buffer reads as the byte it held last.
handle_09 ==
  /\ CanInterrupt /\ "kbd" \in Deliverable
  /\ pend' = pend \ {"kbd"}
  /\ IF obuf.full /\ obuf.dev = "aux"
     THEN UNCHANGED <<obuf, frames, events>>
     ELSE /\ obuf' = [obuf EXCEPT !.full = FALSE]
          /\ IF "KBDINT" \in Ps2ctr
             THEN /\ events' = IF obuf.byte \in Answer THEN events \cup {"leaked"} ELSE events
                  /\ Enter("kbd")
             ELSE UNCHANGED <<frames, events>>
  /\ UNCHANGED <<Ps2ctr, ctr, devVars, setup, mouseVars, budget>>

\* process_key() returns from the handlers it called; "some old programs
\* expect ISR to turn keyboard back on".
EndKey ==
  /\ Executing = "kbd"
  /\ frames' = Pop
  /\ \/ WriteCtr(ctr \ {"KBDDIS"}) /\ UNCHANGED <<events, budget>>
     \/ Stuck
  /\ UNCHANGED <<Ps2ctr, obuf, devVars, setup, mouseVars>>

-------------------------------------------------------------------------------

Init ==
  /\ Ps2ctr = {"KBDDIS", "AUXDIS"}
  /\ ctr = {"KBDINT", "AUXINT"}
  /\ obuf = [full |-> FALSE, dev |-> "kbd", byte |-> Key]
  /\ pend = {}
  /\ out = [d \in Device |-> <<>>]
  /\ reports = {"kbd"}
  /\ frames = <<>>
  /\ setup = "start"
  /\ mouse_flag1 = 0 /\ mouse_flag2 = [count |-> 0, on |-> FALSE]
  /\ mouse_data = [i \in 0 .. 2 |-> "m0"]
  /\ far_call_pointer = "null"
  /\ budget = [calls |-> MaxCalls, kbd |-> MaxKeys, aux |-> MaxPackets,
               faults |-> MaxFaults]
  /\ events = {}

Next ==
  \/ \E d \in Device : Transfer(d) \/ Report(d)
  \/ SetupProbe \/ SetupCommand
  \/ \E op \in Ops : Command(op)
  \/ Initialize \/ Install
  \/ EndFlush \/ SendByte \/ RecvByte \/ RecvTimeout \/ Finish
  \/ handle_74 \/ EndMouse \/ handle_09 \/ EndKey

Spec == Init /\ [][Next]_vars

\* The CPU runs, the hardware moves bytes, and handlers return.
FairSpec == Spec /\ WF_vars(Next)

-------------------------------------------------------------------------------
(* Properties                                                                 *)

\* Whenever no command and no handler is under way, the controller is set as
\* Ps2ctr says, the keyboard is on with its interrupt, and the mouse is either
\* on with its interrupt or off: whatever failed, timed out, was interrupted or
\* given from within a handler, __ps2_command() restored what it found.
PortRestored ==
  /\ TypeOK
  /\ frames = <<>> /\ setup = "done" /\ "stuck" \notin events =>
       /\ ctr = Ps2ctr
       /\ "KBDINT" \in Ps2ctr /\ "KBDDIS" \notin Ps2ctr
       /\ "AUXINT" \in Ps2ctr <=> "AUXDIS" \notin Ps2ctr

\* The answers of a device stay in the dialogue: none is processed as a key,
\* unless it came after the timeout of a command or commands were nested, or the
\* command was given while the keyboard interrupt in service held back the one of
\* a further key: yield() cannot flush that one, the command discards its key, and
\* handle_09 then reads the byte that was read last once more.
AnswersNotKeys ==
  "leaked" \in events => events \cap {"late", "nested", "held", "stuck"} # {}

\* invoke_mouse_handler() does not call a handler that was removed, although
\* mouse_15c207() lets interrupts in between reading and writing the flags.
HandlerPresent == "null" \notin events

\* A mouse handler gets the three bytes of one packet: keyboard commands that a
\* program gives in the middle of a packet lose none of them.  Commands to a
\* mouse that is sending do, as a handler that is installed then gets the rest
\* of a packet, and so may timeouts and nested commands.  So does a command that
\* an interrupt handler gives: yield() cannot deliver the byte of the mouse that
\* is in the buffer, because the interrupt in service holds its own back.
PacketsWhole ==
  "torn" \in events => events \cap {"late", "nested", "inside", "stuck", "mixed"} # {}

\* What a device sends gets to whom it is meant for, whole, while commands,
\* interrupts and programs read the same port: answers to the command, packets
\* to the handler.
BytesDelivered == AnswersNotKeys /\ PacketsWhole

\* Every command ends, whatever the device answers.
CommandsEnd == []<>(frames = <<>>)

===============================================================================
