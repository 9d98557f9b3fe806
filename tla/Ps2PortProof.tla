---------------------------- MODULE Ps2PortProof ------------------------------
(* Proofs that the PS/2 port is restored, that handlers are there when called, *)
(* that answers are not taken for keys, and that packets are whole.            *)
EXTENDS Ps2Port, TLAPS

-------------------------------------------------------------------------------
(* Proofs of PortRestored and HandlerPresent, for any number of calls, keys,   *)
(* packets and faults, and any depth of nesting.  A command saves Ps2ctr as it *)
(* finds it, and one that interrupts another in the middle finds it shut: what *)
(* counts is the lowest command on the stack, the last one to restore.         *)

Places == {"hook", "flush", "send", "recv", "good", "fail", "failed"}
Flags2 == [count : {0, 3}, on : BOOLEAN]
Frame == [kind : Device \cup {"cmd"}, op : UserOps \cup SetupOps \cup {"none"},
          at : Places, rest : Seq({"cmd", "arg", "val"}), saved : SUBSET Bits,
          flags : Flags2]

\* What can be left of the script of a command in the dialogue.
Rests(op) ==
  CASE op \in {"leds", "rate", "scan"} -> {<<"cmd", "arg">>, <<"arg">>}
    [] op \in {"enable", "disable", "remove", "dis", "on"} -> {<<"cmd">>}
    [] op = "bat" -> {<<"cmd", "val">>, <<"val">>}
    [] op = "init" -> {<<"cmd", "val", "val">>, <<"val", "val">>, <<"val">>}

CommandOps == (UserOps \cup SetupOps) \ {"install"}

\* A command is at a place of its script.
Scripted(f) ==
  /\ f.op \in CommandOps /\ f.at # "hook"
  /\ f.at = "flush" => f.rest = Script(f.op)
  /\ f.at \in {"send", "recv"} => f.rest \in Rests(f.op)
  /\ f.at = "send" => Head(f.rest) # "val"

\* A frame that can run, and that fails at once only if the controller was stuck.
FrameSound(f) ==
  /\ f \in Frame
  /\ f.at \in {"flush", "send", "recv"} => f.rest # <<>>
  /\ f.at = "failed" => "stuck" \in events
  /\ f.kind = "cmd" => Scripted(f)

FramesInv ==
  /\ frames \in Seq(Frame)
  /\ \A i \in DOMAIN frames : FrameSound(frames[i])

\* A command of the setup has the port for itself.
SetupInv ==
  \A i \in DOMAIN frames :
    frames[i].op \in SetupOps => i = 1 /\ frames[i].op = setup

\* The keyboard is on, the mouse on or off.
Open(c) ==
  /\ "KBDINT" \in c /\ "KBDDIS" \notin c
  /\ "AUXINT" \in c <=> "AUXDIS" \notin c

\* Nobody talks to the devices, or the one who restores the port last saved it open.
PortInv ==
  "stuck" \notin events =>
    /\ setup = "done" /\ Commands = {} => ctr = Ps2ctr /\ Open(Ps2ctr)
    /\ \A i \in Commands :
         /\ \A j \in Commands : i <= j
         /\ setup = "done" \/ frames[i].op = "on"
         => Open(frames[i].saved)

HandlerInv ==
  /\ mouse_flag2.on => far_call_pointer = "handler"
  /\ "null" \notin events

IInv == TypeOK /\ FramesInv /\ SetupInv /\ PortInv /\ HandlerInv

\* The scripts, and where they lead.
LEMMA Scripts ==
  ASSUME NEW op \in CommandOps
  PROVE  /\ Script(op) \in Seq({"cmd", "arg", "val"}) /\ Script(op) # <<>>
         /\ Script(op) \in Rests(op) /\ Head(Script(op)) = "cmd"
         /\ \A r \in Rests(op) :
              /\ r \in Seq({"cmd", "arg", "val"}) /\ r # <<>>
              /\ Tail(r) # <<>> => Tail(r) \in Rests(op)
<1> DEFINE Parts == {"cmd", "arg", "val"}
<1>1. /\ <<"cmd", "arg">> \in Seq(Parts) /\ <<"cmd", "arg">> # <<>>
      /\ <<"cmd">> \in Seq(Parts) /\ <<"cmd">> # <<>>
      /\ <<"arg">> \in Seq(Parts) /\ <<"arg">> # <<>>
      /\ <<"val">> \in Seq(Parts) /\ <<"val">> # <<>>
      /\ <<"cmd", "val">> \in Seq(Parts) /\ <<"cmd", "val">> # <<>>
      /\ <<"val", "val">> \in Seq(Parts) /\ <<"val", "val">> # <<>>
      /\ <<"cmd", "val", "val">> \in Seq(Parts) /\ <<"cmd", "val", "val">> # <<>>
  OBVIOUS
<1>2. /\ Tail(<<"cmd", "arg">>) = <<"arg">> /\ Tail(<<"cmd">>) = <<>>
      /\ Tail(<<"arg">>) = <<>> /\ Tail(<<"val">>) = <<>>
      /\ Tail(<<"cmd", "val">>) = <<"val">> /\ Tail(<<"val", "val">>) = <<"val">>
      /\ Tail(<<"cmd", "val", "val">>) = <<"val", "val">>
      /\ Head(<<"cmd", "arg">>) = "cmd" /\ Head(<<"cmd">>) = "cmd"
      /\ Head(<<"cmd", "val">>) = "cmd" /\ Head(<<"cmd", "val", "val">>) = "cmd"
  OBVIOUS
<1>3. CASE op \in {"leds", "rate", "scan"}
  <2>1. Script(op) = <<"cmd", "arg">> /\ Rests(op) = {<<"cmd", "arg">>, <<"arg">>}
    BY <1>3 DEF Script, Rests
  <2> QED
    BY <1>1, <1>2, <2>1, Zenon
<1>4. CASE op \in {"enable", "disable", "remove", "dis", "on"}
  <2>1. Script(op) = <<"cmd">> /\ Rests(op) = {<<"cmd">>}
    BY <1>4 DEF Script, Rests
  <2> QED
    BY <1>1, <1>2, <2>1, Zenon
<1>5. CASE op = "bat"
  <2>1. Script(op) = <<"cmd", "val">> /\ Rests(op) = {<<"cmd", "val">>, <<"val">>}
    BY <1>5 DEF Script, Rests
  <2> QED
    BY <1>1, <1>2, <2>1, Zenon
<1>6. CASE op = "init"
  <2>1. /\ Script(op) = <<"cmd", "val", "val">>
        /\ Rests(op) = {<<"cmd", "val", "val">>, <<"val", "val">>, <<"val">>}
    BY <1>6 DEF Script, Rests
  <2> QED
    BY <1>1, <1>2, <2>1, Zenon
<1> QED
  BY <1>3, <1>4, <1>5, <1>6 DEF CommandOps, UserOps, SetupOps

\* What is on the stack when a frame is added, changed or removed.
LEMMA Pushed ==
  ASSUME FramesInv, NEW f \in Frame
  PROVE  /\ Append(frames, f) \in Seq(Frame)
         /\ DOMAIN Append(frames, f) = 1 .. Len(frames) + 1
         /\ Append(frames, f)[Len(frames) + 1] = f
         /\ \A i \in DOMAIN frames : Append(frames, f)[i] = frames[i]
         /\ DOMAIN frames = 1 .. Len(frames) /\ Len(frames) \in Nat
  BY DEF FramesInv

\* What is below the frame that ends.
LEMMA Popped ==
  ASSUME FramesInv, frames # <<>>
  PROVE  /\ Pop \in Seq(Frame)
         /\ DOMAIN Pop = 1 .. Len(frames) - 1 /\ Len(Pop) = Len(frames) - 1
         /\ \A i \in 1 .. Len(frames) - 1 : Pop[i] = frames[i]
         /\ DOMAIN frames = 1 .. Len(frames) /\ Len(frames) \in Nat \ {0}
<1> DEFINE n == Len(frames)
<1>1. frames \in Seq(Frame) /\ n \in Nat \ {0} /\ DOMAIN frames = 1 .. n
  BY DEF FramesInv
<1>2. /\ Pop \in Seq(Frame) /\ DOMAIN Pop = 1 .. n - 1
      /\ \A i \in 1 .. n - 1 : Pop[i] = frames[i]
  BY <1>1 DEF Pop
<1>3. Len(Pop) = n - 1
  <2>1. n - 1 \in Nat /\ (1 <= n - 1 \/ n - 1 = 0)
    BY <1>1
  <2>2. Len(SubSeq(frames, 1, n - 1)) = IF 1 <= n - 1 THEN (n - 1) - 1 + 1 ELSE 0
    BY <1>1, <2>1
  <2> QED
    BY <2>1, <2>2 DEF Pop
<1> QED
  BY <1>1, <1>2, <1>3

\* A frame that goes on.
LEMMA TopSet ==
  ASSUME FramesInv, frames # <<>>, NEW f \in Frame
  PROVE  /\ SetTop(f) \in Seq(Frame)
         /\ DOMAIN SetTop(f) = DOMAIN frames
         /\ SetTop(f)[Len(frames)] = f
         /\ \A i \in DOMAIN frames : i # Len(frames) => SetTop(f)[i] = frames[i]
         /\ Len(frames) \in DOMAIN frames
  BY DEF FramesInv, SetTop

\* The types of what a frame saves.
LEMMA FrameTypes ==
  ASSUME NEW s \in Seq(Frame), NEW i \in DOMAIN s
  PROVE  s[i].kind \in Device \cup {"cmd"} /\ s[i].saved \subseteq Bits
<1>1. s[i] \in Frame
  OBVIOUS
<1> QED
  BY <1>1 DEF Frame

\* The running frame.
LEMMA TopRuns ==
  ASSUME FramesInv, frames # <<>>
  PROVE  /\ Len(frames) \in DOMAIN frames /\ Top = frames[Len(frames)]
         /\ FrameSound(Top) /\ Top \in Frame
  BY DEF FramesInv, Top, FrameSound

\* The values the control byte takes.
LEMMA ControlBytes ==
  ASSUME Ps2ctr \subseteq Bits
  PROVE  /\ \A op : Updated(op) \subseteq Bits
         /\ \A c \in SUBSET Bits : Shut(c) \subseteq Bits
  BY DEF Updated, Shut, Bits

\* Writing it raises interrupts of devices only.
LEMMA ControlWrites ==
  ASSUME TypeOK, NEW c \in SUBSET Bits, WriteCtr(c)
  PROVE  ctr' \subseteq Bits /\ pend' \subseteq Device /\ ctr' = c
  BY DEF TypeOK, WriteCtr

\* An interrupt that calls a handler leaves the port as it is.
LEMMA HandlerEnters ==
  ASSUME FramesInv, SetupInv, PortInv, NEW d \in Device, mouse_flag2 \in Flags2,
         Enter(d), events \subseteq events', setup' = setup,
         "stuck" \in events' => "stuck" \in events, UNCHANGED <<Ps2ctr, ctr>>
  PROVE  FramesInv' /\ SetupInv' /\ PortInv'
<1> DEFINE f == [kind |-> d, op |-> "none", at |-> "hook", rest |-> <<>>, saved |-> {},
                 flags |-> mouse_flag2]
           n == Len(frames)
<1>1. f \in Frame /\ f.kind = d /\ f.op = "none" /\ f.at = "hook"
  <2>1. <<>> \in Seq({"cmd", "arg", "val"})
    OBVIOUS
  <2> QED
    BY <2>1 DEF Frame, Places
<1>2. frames' = Append(frames, f)
  BY DEF Enter
<1>3. d # "cmd" /\ "none" \notin SetupOps
  BY DEF Device, SetupOps
<1> HIDE DEF f
<1>4. /\ frames' \in Seq(Frame) /\ DOMAIN frames' = 1 .. n + 1 /\ frames'[n + 1] = f
      /\ \A i \in DOMAIN frames : frames'[i] = frames[i]
      /\ DOMAIN frames = 1 .. n /\ n \in Nat
  BY <1>1, <1>2, Pushed
<1>5. DOMAIN frames' = DOMAIN frames \cup {n + 1} /\ n + 1 \notin DOMAIN frames
  BY <1>4
<1>6. Commands' = Commands
  BY <1>1, <1>3, <1>4, <1>5 DEF Commands
<1>7. FramesInv'
  BY <1>1, <1>3, <1>4, <1>5 DEF FramesInv, FrameSound
<1>8. SetupInv'
  BY <1>1, <1>3, <1>4, <1>5 DEF SetupInv
<1>9. \A i \in Commands : frames'[i] = frames[i]
  BY <1>4 DEF Commands
<1> QED
  BY <1>6, <1>7, <1>8, <1>9 DEF PortInv

\* A handler returns; the keyboard may be turned on again.
LEMMA HandlerLeaves ==
  ASSUME FramesInv, SetupInv, PortInv, frames # <<>>, Top.kind # "cmd",
         frames' = Pop, events \subseteq events', setup' = setup, Ps2ctr' = Ps2ctr,
         ctr' \in {ctr, ctr \ {"KBDDIS"}}
  PROVE  FramesInv' /\ SetupInv' /\ PortInv'
<1> DEFINE n == Len(frames)
<1>1. /\ frames' \in Seq(Frame) /\ DOMAIN frames' = 1 .. n - 1
      /\ \A i \in 1 .. n - 1 : frames'[i] = frames[i]
      /\ DOMAIN frames = 1 .. n /\ n \in Nat \ {0}
  BY Popped
<1>2. DOMAIN frames = DOMAIN frames' \cup {n}
  BY <1>1
<1>3. frames[n].kind # "cmd"
  BY DEF Top
<1>4. Commands' = Commands
  BY <1>1, <1>2, <1>3 DEF Commands
<1>5. FramesInv' /\ SetupInv'
  BY <1>1, <1>2 DEF FramesInv, SetupInv, FrameSound
<1>6. \A i \in Commands : frames'[i] = frames[i]
  BY <1>1, <1>2, <1>3 DEF Commands
<1>7. ctr = Ps2ctr /\ Open(Ps2ctr) => ctr' = Ps2ctr'
  BY DEF Open
<1> QED
  BY <1>4, <1>5, <1>6, <1>7 DEF PortInv, Open

\* A step within the running command, which may write the control byte.
LEMMA CommandMoves ==
  ASSUME FramesInv, SetupInv, PortInv, frames # <<>>, Top.kind = "cmd",
         NEW f \in Frame, frames' = SetTop(f), FrameSound(f)',
         f.kind = "cmd", f.op = Top.op, f.saved = Top.saved,
         events \subseteq events', setup' = setup
  PROVE  FramesInv' /\ SetupInv' /\ PortInv'
<1> DEFINE n == Len(frames)
<1>1. /\ frames' \in Seq(Frame) /\ DOMAIN frames' = DOMAIN frames /\ frames'[n] = f
      /\ \A i \in DOMAIN frames : i # n => frames'[i] = frames[i]
      /\ n \in DOMAIN frames
  BY TopSet
<1>2. frames[n] = Top
  BY DEF Top
<1>3. \A i \in DOMAIN frames : /\ frames'[i].kind = frames[i].kind
                               /\ frames'[i].op = frames[i].op
                               /\ frames'[i].saved = frames[i].saved
  BY <1>1, <1>2
<1>4. FramesInv'
  BY <1>1 DEF FramesInv, FrameSound
<1>5. SetupInv'
  BY <1>1, <1>3 DEF SetupInv
<1>6. Commands' = Commands /\ Commands \subseteq DOMAIN frames /\ n \in Commands
  BY <1>1, <1>2, <1>3 DEF Commands
<1> QED
  BY <1>3, <1>4, <1>5, <1>6 DEF PortInv

\* A command begins.  The lowest one finds the port open, or opens it itself.
LEMMA CommandBegins ==
  ASSUME IInv, NEW op \in UserOps \cup SetupOps, NEW cost, op # "install",
         Begin(op, cost), mouse_flag2 \in Flags2,
         op \in SetupOps => frames = <<>> /\ op = setup
  PROVE  /\ FramesInv' /\ SetupInv' /\ PortInv'
         /\ Ps2ctr' \subseteq Bits /\ ctr' \subseteq Bits /\ pend' \subseteq Device
         /\ events' \subseteq Event /\ ("null" \in events' => "null" \in events)
<1> DEFINE n == Len(frames)
           g == [kind |-> "cmd", op |-> op, at |-> "flush", rest |-> Script(op),
                 saved |-> Updated(op), flags |-> mouse_flag2]
           h == [kind |-> "cmd", op |-> op, at |-> "failed", rest |-> Script(op),
                 saved |-> Updated(op), flags |-> mouse_flag2]
<1>1. Updated(op) \subseteq Bits /\ Shut(Updated(op)) \subseteq Bits
  BY ControlBytes DEF IInv, TypeOK
<1>2. /\ Script(op) \in Seq({"cmd", "arg", "val"}) /\ Script(op) # <<>>
  BY Scripts DEF CommandOps
<1>3. g \in Frame /\ h \in Frame
  BY <1>1, <1>2 DEF Frame, Places
<1>4. /\ events \subseteq events' /\ events' \subseteq Event
      /\ ("null" \in events' => "null" \in events)
  BY DEF Begin, IInv, TypeOK, Event
<1>5. Ps2ctr' = Updated(op) /\ setup' = setup
  BY DEF Begin
<1>6. ctr' \subseteq Bits /\ pend' \subseteq Device
  <2>1. CASE WriteCtr(Shut(Updated(op)))
    BY <1>1, <2>1, ControlWrites DEF IInv
  <2>2. CASE UNCHANGED <<ctr, pend>>
    BY <2>2 DEF IInv, TypeOK
  <2> QED
    BY <2>1, <2>2 DEF Begin
<1>7. \/ frames' = Append(frames, g)
      \/ frames' = Append(frames, h) /\ "stuck" \in events'
  BY DEF Begin
<1>8. PICK f \in {g, h} : /\ frames' = Append(frames, f)
                          /\ f = h => "stuck" \in events'
  BY <1>7
<1>9. /\ f \in Frame /\ f.kind = "cmd" /\ f.op = op /\ f.saved = Updated(op)
      /\ FrameSound(f)'
  BY <1>2, <1>3, <1>8 DEF FrameSound, Scripted, CommandOps
<1> HIDE DEF g, h
<1>10. /\ frames' \in Seq(Frame) /\ DOMAIN frames' = 1 .. n + 1 /\ frames'[n + 1] = f
       /\ \A i \in DOMAIN frames : frames'[i] = frames[i]
       /\ DOMAIN frames = 1 .. n /\ n \in Nat
  BY <1>8, <1>9, Pushed DEF IInv
<1>11. /\ DOMAIN frames' = DOMAIN frames \cup {n + 1} /\ n + 1 \notin DOMAIN frames
       /\ \A i \in DOMAIN frames : ~(n + 1 <= i)
  BY <1>10
<1>12. FramesInv'
  BY <1>4, <1>9, <1>10, <1>11 DEF IInv, FramesInv, FrameSound
<1>13. SetupInv'
  <2>1. CASE op \in SetupOps
    <3>1. n = 0 /\ DOMAIN frames = {} /\ n + 1 = 1
      BY <1>10, <2>1
    <3> QED
      BY <1>5, <1>9, <1>10, <1>11, <2>1, <3>1 DEF SetupInv
  <2>2. CASE op \notin SetupOps
    BY <1>5, <1>9, <1>10, <1>11, <2>2 DEF IInv, SetupInv
  <2> QED
    BY <2>1, <2>2
<1>14. Commands' = Commands \cup {n + 1} /\ Commands \subseteq DOMAIN frames
  BY <1>9, <1>10, <1>11 DEF Commands
<1>15. ASSUME "stuck" \notin events', Commands = {}, setup = "done" \/ op = "on"
       PROVE  Open(f.saved)
  <2>1. CASE op = "on"
    BY <1>9, <2>1 DEF Open, Updated
  <2>2. CASE op # "on" /\ setup = "done"
    <3>1. Open(Ps2ctr)
      BY <1>4, <1>15, <2>2 DEF IInv, PortInv
    <3> QED
      BY <1>9, <2>2, <3>1 DEF Open, Updated
  <2> QED
    BY <1>15, <2>1, <2>2
<1>16. PortInv'
  <2> SUFFICES ASSUME "stuck" \notin events', NEW i \in Commands',
                      \A j \in Commands' : i <= j,
                      setup = "done" \/ frames'[i].op = "on"
               PROVE  Open(frames'[i].saved)
    BY <1>5, <1>14 DEF PortInv
  <2>1. CASE i = n + 1
    <3>1. Commands = {}
      BY <1>11, <1>14, <2>1
    <3> QED
      BY <1>9, <1>10, <1>15, <2>1, <3>1
  <2>2. CASE i \in Commands
    <3>1. frames'[i] = frames[i]
      BY <1>10, <1>14, <2>2
    <3>2. "stuck" \notin events
      BY <1>4
    <3> QED
      BY <1>14, <2>2, <3>1, <3>2 DEF IInv, PortInv
  <2> QED
    BY <1>14, <2>1, <2>2
<1> QED
  BY <1>1, <1>4, <1>5, <1>6, <1>12, <1>13, <1>16

\* What a command saved is restored, if the controller takes it; only the last
\* command of ps2_keyboard_setup() ends the setup.
LEMMA CommandEnds ==
  ASSUME IInv, Finish
  PROVE  /\ FramesInv' /\ SetupInv' /\ PortInv' /\ HandlerInv' /\ TypeOK'
<1> DEFINE n == Len(frames)
<1>1. frames # <<>> /\ Top.kind = "cmd" /\ frames' = Pop
  BY DEF Finish, InCommand, Executing
<1>2. /\ frames' \in Seq(Frame) /\ DOMAIN frames' = 1 .. n - 1
      /\ \A i \in 1 .. n - 1 : frames'[i] = frames[i]
      /\ DOMAIN frames = 1 .. n /\ n \in Nat \ {0}
  BY <1>1, Popped DEF IInv
<1>3. Top = frames[n] /\ FrameSound(Top) /\ Top \in Frame
  BY <1>1, TopRuns DEF IInv
<1>4. /\ events \subseteq events' /\ events' \subseteq Event
      /\ ("null" \in events' => "null" \in events)
  BY DEF Finish, Stuck, IInv, TypeOK, Event
<1>5. /\ Top.saved \subseteq Bits /\ Top.flags \in Flags2
      /\ Top.op \in UserOps \cup SetupOps \cup {"none"}
  BY <1>3 DEF Frame
<1>6. /\ Ps2ctr' \subseteq Bits /\ ctr' \subseteq Bits /\ pend' \subseteq Device
      /\ "stuck" \notin events' => Ps2ctr' = Top.saved /\ ctr' = Top.saved
  <2>1. CASE Ps2ctr' = Top.saved /\ WriteCtr(Top.saved)
    BY <1>5, <2>1, ControlWrites DEF IInv
  <2>2. CASE Ps2ctr' = Top.saved /\ Stuck
    BY <1>5, <2>2 DEF Stuck, IInv, TypeOK
  <2>3. CASE Top.at = "failed" /\ UNCHANGED <<Ps2ctr, ctr, pend>>
    BY <1>3, <1>4, <2>3 DEF FrameSound, IInv, TypeOK
  <2> QED
    BY <2>1, <2>2, <2>3 DEF Finish
<1>7. setup' \in NextSetup(Top, TRUE) \cup NextSetup(Top, FALSE)
  BY DEF Finish
<1>8. /\ setup' \in {"start", "done", "off"} \cup SetupOps
      /\ setup' = setup \/ Top.op \in SetupOps
      /\ setup' = "done" => setup = "done" \/ Top.op = "on"
  <2>1. CASE Top.op = "bat"
    BY <1>7, <2>1 DEF NextSetup, SetupOps
  <2>2. CASE Top.op = "dis"
    BY <1>7, <2>2 DEF NextSetup, SetupOps
  <2>3. CASE Top.op = "scan"
    BY <1>7, <2>3 DEF NextSetup, SetupOps
  <2>4. CASE Top.op = "on"
    BY <1>7, <2>4 DEF NextSetup, SetupOps
  <2>5. CASE Top.op \notin SetupOps
    BY <1>7, <2>5 DEF NextSetup, SetupOps, IInv, TypeOK
  <2> QED
    BY <2>1, <2>2, <2>3, <2>4, <2>5 DEF SetupOps
<1>9. /\ mouse_flag2' \in Flags2
      /\ far_call_pointer' \in {"null", "handler"}
      /\ mouse_flag2'.on => far_call_pointer' = "handler"
      /\ UNCHANGED <<mouse_flag1, mouse_data>>
  <2>1. CASE Top.op = "remove"
    <3>1. /\ mouse_flag2' = [Top.flags EXCEPT !.on = FALSE]
          /\ far_call_pointer' = "null" /\ UNCHANGED <<mouse_flag1, mouse_data>>
      BY <2>1 DEF Finish, Epilogue
    <3>2. mouse_flag2' \in Flags2 /\ mouse_flag2'.on = FALSE
      BY <1>5, <3>1 DEF Flags2
    <3> QED
      BY <3>1, <3>2
  <2>2. CASE Top.op # "remove"
    BY <2>2 DEF Finish, Epilogue, mouseVars, IInv, TypeOK, HandlerInv, Flags2
  <2> QED
    BY <2>1, <2>2
<1>10. DOMAIN frames = DOMAIN frames' \cup {n} /\ n \notin DOMAIN frames'
  BY <1>2
<1>11. FramesInv'
  BY <1>2, <1>4, <1>10 DEF IInv, FramesInv, FrameSound
<1>12. ASSUME NEW i \in DOMAIN frames', Top.op \in SetupOps
       PROVE  FALSE
  <2>1. n = 1
    BY <1>2, <1>3, <1>12 DEF IInv, SetupInv
  <2> QED
    BY <1>2, <1>12, <2>1
<1>13. SetupInv'
  BY <1>2, <1>8, <1>10, <1>12 DEF IInv, SetupInv
<1>14. Commands = Commands' \cup {n} /\ Commands' \subseteq DOMAIN frames'
  BY <1>1, <1>2, <1>3, <1>10 DEF Commands
<1>15. PortInv'
  <2> SUFFICES ASSUME "stuck" \notin events'
               PROVE  /\ setup' = "done" /\ Commands' = {} => Open(Top.saved)
                      /\ \A i \in Commands' :
                           /\ \A j \in Commands' : i <= j
                           /\ setup' = "done" \/ frames'[i].op = "on"
                           => Open(frames'[i].saved)
    BY <1>6 DEF PortInv
  <2>1. "stuck" \notin events
    BY <1>4
  <2>2. ASSUME setup' = "done", Commands' = {}
        PROVE  Open(Top.saved)
    <3>1. n \in Commands /\ \A j \in Commands : n <= j
      BY <1>2, <1>14, <2>2
    <3> QED
      BY <1>3, <1>8, <2>1, <2>2, <3>1 DEF IInv, PortInv
  <2>3. ASSUME NEW i \in Commands', \A j \in Commands' : i <= j,
               setup' = "done" \/ frames'[i].op = "on"
        PROVE  Open(frames'[i].saved)
    <3>1. frames'[i] = frames[i] /\ i <= n
      BY <1>2, <1>14
    <3>2. \A j \in Commands : i <= j
      BY <1>14, <2>3, <3>1
    <3>3. setup' = setup
      BY <1>8, <1>12, <1>14
    <3> QED
      BY <1>14, <2>1, <2>3, <3>1, <3>2, <3>3 DEF IInv, PortInv
  <2> QED
    BY <2>2, <2>3
<1>16. HandlerInv'
  BY <1>4, <1>9 DEF IInv, HandlerInv
<1>17. /\ obuf' = obuf /\ out' = out /\ reports' = reports
  BY DEF Finish, devVars
<1>18. TypeOK'
  <2>1. \A i \in DOMAIN frames' :
          frames'[i].kind \in Device \cup {"cmd"} /\ frames'[i].saved \subseteq Bits
    BY <1>2, FrameTypes
  <2> QED
    BY <1>4, <1>6, <1>8, <1>9, <1>17, <2>1 DEF IInv, TypeOK, Flags2
<1> QED
  BY <1>11, <1>13, <1>15, <1>16, <1>18

\* The bytes that devices send are bytes.
LEMMA BytesMove ==
  ASSUME TypeOK
  PROVE  /\ \A d \in Device : out[d] \in Seq(Byte) /\ reports \cup {d} \subseteq Device
         /\ \A s \in Seq(Byte) : s # <<>> => Head(s) \in Byte /\ Tail(s) \in Seq(Byte)
         /\ \A s \in Seq(Byte) : Append(s, Key) \in Seq(Byte) /\ s \o Packet \in Seq(Byte)
         /\ \A op, part : Answers(op, part) \in Seq(Byte) /\ <<"nak">> \in Seq(Byte)
         /\ <<>> \in Seq(Byte)
         /\ \A s, t \in Seq(Byte) : s \o t \in Seq(Byte)
<1>1. \A d \in Device : out[d] \in Seq(Byte) /\ reports \cup {d} \subseteq Device
  BY DEF TypeOK
<1>2. \A s \in Seq(Byte) : s # <<>> => Head(s) \in Byte /\ Tail(s) \in Seq(Byte)
  OBVIOUS
<1>3. /\ Packet \in Seq(Byte) /\ Key \in Byte /\ <<"nak">> \in Seq(Byte)
      /\ <<>> \in Seq(Byte) /\ <<"ack">> \in Seq(Byte) /\ <<"val">> \in Seq(Byte)
      /\ <<"val", "val">> \in Seq(Byte)
  BY DEF Packet, Key, Byte
<1>4. \A s, t \in Seq(Byte) : s \o t \in Seq(Byte)
  OBVIOUS
<1>5. \A s \in Seq(Byte) : Append(s, Key) \in Seq(Byte) /\ s \o Packet \in Seq(Byte)
  BY <1>3, <1>4
<1>6. ASSUME NEW op, NEW part
      PROVE  Answers(op, part) \in Seq(Byte)
  BY <1>3, <1>4 DEF Answers
<1> QED
  BY <1>1, <1>2, <1>3, <1>4, <1>5, <1>6

\* Steps of the machine that neither the stack nor the controller shows.
LEMMA Unseen ==
  ASSUME IInv, UNCHANGED <<Ps2ctr, ctr, frames, setup, mouse_flag2, far_call_pointer>>,
         UNCHANGED events
  PROVE  FramesInv' /\ SetupInv' /\ PortInv' /\ HandlerInv'
  BY DEF IInv, FramesInv, FrameSound, SetupInv, PortInv, HandlerInv, Commands

\* The hardware moves a byte or a device sends one: no frame sees it.
LEMMA MachineKeeps ==
  ASSUME IInv, NEW d \in Device, Transfer(d) \/ Report(d)
  PROVE  IInv'
<1>1. FramesInv' /\ SetupInv' /\ PortInv' /\ HandlerInv'
  BY Unseen DEF Transfer, Report, hwVars, mouseVars
<1>2. CASE Transfer(d)
  <2>1. obuf' = [full |-> TRUE, dev |-> d, byte |-> Head(out[d])] /\ Head(out[d]) \in Byte
    BY <1>2, BytesMove DEF IInv, Transfer
  <2>2. out' = [out EXCEPT ![d] = Tail(@)] /\ Tail(out[d]) \in Seq(Byte)
    BY <1>2, BytesMove DEF IInv, Transfer
  <2>3. pend' \subseteq Device
    BY <1>2 DEF IInv, Transfer, TypeOK
  <2> QED
    BY <1>1, <1>2, <2>1, <2>2, <2>3 DEF IInv, Transfer, TypeOK, mouseVars
<1>3. CASE Report(d)
  <2>1. /\ out' = [out EXCEPT ![d] = IF d = "kbd" THEN Append(@, Key) ELSE @ \o Packet]
        /\ Append(out[d], Key) \in Seq(Byte) /\ out[d] \o Packet \in Seq(Byte)
    BY <1>3, BytesMove DEF IInv, Report
  <2> QED
    BY <1>1, <1>3, <2>1 DEF IInv, Report, TypeOK, hwVars, mouseVars
<1> QED
  BY <1>2, <1>3

\* The steps of the dialogue.
LEMMA DialogueKeeps ==
  ASSUME IInv, EndFlush \/ SendByte \/ RecvByte \/ RecvTimeout
  PROVE  IInv'
<1>1. /\ frames # <<>> /\ Top.kind = "cmd"
      /\ Top.at \in {"flush", "send", "recv"}
  BY DEF EndFlush, SendByte, RecvByte, RecvTimeout, InCommand, Executing
<1>2. /\ FrameSound(Top) /\ Top \in Frame /\ Top.rest # <<>>
      /\ Top.rest \in Seq({"cmd", "arg", "val"})
      /\ Top.saved \subseteq Bits
  BY <1>1, TopRuns DEF IInv, FrameSound, Frame
<1>3. /\ events \subseteq events' /\ events' \subseteq Event
      /\ ("null" \in events' => "null" \in events)
  BY DEF EndFlush, SendByte, RecvByte, RecvTimeout, Stuck, Fault, IInv, TypeOK, Event
<1>4. /\ setup' = setup /\ UNCHANGED mouseVars
  BY DEF EndFlush, SendByte, RecvByte, RecvTimeout
<1> DEFINE Moved(a) == [Top EXCEPT !.at = a]
<1>5. ASSUME NEW a \in {"send", "recv", "fail"}
      PROVE  /\ Moved(a) \in Frame /\ Moved(a).kind = "cmd" /\ Moved(a).op = Top.op
             /\ Moved(a).saved = Top.saved /\ Moved(a).at = a /\ Moved(a).rest = Top.rest
  BY <1>1, <1>2 DEF Frame, Places
<1>5a. Scripted(Top) /\ Top.op \in CommandOps
  BY <1>1, <1>2 DEF FrameSound, Scripted
<1>5b. ASSUME NEW a \in {"send", "recv", "fail"},
             a = "send" => EndFlush, a = "recv" => SendByte
      PROVE  Scripted(Moved(a))
  <2>1. CASE a = "fail"
    BY <1>5, <1>5a, <2>1 DEF Scripted
  <2>2. CASE a = "send"
    <3>1. Top.at = "flush"
      BY <1>5b, <2>2 DEF EndFlush, InCommand
    <3>2. Top.rest \in Rests(Top.op) /\ Head(Top.rest) = "cmd"
      BY <1>5a, <3>1, Scripts DEF Scripted
    <3> QED
      BY <1>5, <1>5a, <2>2, <3>2 DEF Scripted
  <2>3. CASE a = "recv"
    <3>1. Top.at = "send"
      BY <1>5b, <2>3 DEF SendByte, InCommand
    <3>2. Top.rest \in Rests(Top.op)
      BY <1>5a, <3>1 DEF Scripted
    <3> QED
      BY <1>5, <1>5a, <2>3, <3>2 DEF Scripted
  <2> QED
    BY <2>1, <2>2, <2>3
<1>6. /\ Proceed \in Frame /\ Proceed.kind = "cmd" /\ Proceed.op = Top.op
      /\ Proceed.saved = Top.saved /\ Proceed.at # "failed"
      /\ Proceed.at \in {"flush", "send", "recv"} => Proceed.rest # <<>>
      /\ Proceed.at \in {"good", "recv", "send"} /\ Proceed.rest = Tail(Top.rest)
      /\ Proceed.at = "send" => Head(Proceed.rest) # "val"
  <2>1. Tail(Top.rest) \in Seq({"cmd", "arg", "val"})
    BY <1>2
  <2> QED
    BY <1>1, <1>2, <2>1, ZenonT(40) DEF Proceed, Frame, Places
<1>7. /\ ctr' \subseteq Bits /\ pend' \subseteq Device /\ Ps2ctr' \subseteq Bits
      /\ obuf' \in [full : BOOLEAN, dev : Device, byte : Byte]
  <2>1. CASE EndFlush
    <3>1. Shut(Top.saved) \subseteq Bits
      BY <1>2, ControlBytes DEF IInv, TypeOK
    <3>2. CASE WriteCtr(Shut(Top.saved) \ {DIS(DeviceOf(Top.op))})
      BY <2>1, <3>1, <3>2, ControlWrites DEF IInv, TypeOK, EndFlush
    <3>3. CASE Stuck
      BY <2>1, <3>1, <3>3 DEF IInv, TypeOK, EndFlush, Stuck
    <3> QED
      BY <2>1, <3>2, <3>3 DEF EndFlush
  <2>2. CASE SendByte \/ RecvTimeout
    BY <2>2 DEF IInv, TypeOK, SendByte, RecvTimeout, hwVars
  <2>3. CASE RecvByte
    BY <2>3 DEF IInv, TypeOK, RecvByte
  <2> QED
    BY <2>1, <2>2, <2>3
<1>8. reports' \subseteq Device /\ out' \in [Device -> Seq(Byte)]
  <2>1. CASE SendByte
    <3>1. DeviceOf(Top.op) \in Device
      BY DEF DeviceOf, Device
    <3> DEFINE d == DeviceOf(Top.op)
    <3>2. PICK a \in {Answers(Top.op, Head(Top.rest)), <<"nak">>, <<>>} :
            /\ out' = [out EXCEPT ![d] = IF Top.op \in {"bat", "init"} /\ a # <<>> THEN a
                                         ELSE @ \o a]
            /\ reports' \in {reports, reports \cup {d}, reports \ {d}}
      BY <2>1 DEF SendByte, React
    <3>3. a \in Seq(Byte)
      <4>1. /\ Answers(Top.op, Head(Top.rest)) \in Seq(Byte)
            /\ <<"nak">> \in Seq(Byte) /\ <<>> \in Seq(Byte)
        BY BytesMove DEF IInv
      <4> QED
        BY <3>2, <4>1
    <3>4. out[d] \in Seq(Byte) /\ out[d] \o a \in Seq(Byte)
      BY <3>1, <3>3, BytesMove DEF IInv
    <3> HIDE DEF d
    <3> QED
      BY <3>1, <3>2, <3>3, <3>4 DEF IInv, TypeOK, d
  <2>2. CASE EndFlush \/ RecvByte \/ RecvTimeout
    BY <2>2 DEF IInv, TypeOK, EndFlush, RecvByte, RecvTimeout, devVars
  <2> QED
    BY <2>1, <2>2
<1>6a. RecvByte => Scripted(Proceed)
  <2> SUFFICES ASSUME RecvByte
               PROVE  Scripted(Proceed)
    OBVIOUS
  <2>1. Top.at = "recv"
    BY DEF RecvByte, InCommand
  <2>2. Proceed.rest # <<>> => Proceed.rest \in Rests(Proceed.op)
    BY <1>6, <1>5a, <2>1, Scripts DEF Scripted
  <2> QED
    BY <1>6, <1>5a, <2>2 DEF Scripted
<1>9. \/ frames' = frames
      \/ \E f \in {Moved("send"), Moved("recv"), Moved("fail"), Proceed} :
           frames' = SetTop(f) /\ Scripted(f)
  <2>1. CASE EndFlush
    BY <1>5b, <2>1 DEF EndFlush
  <2>2. CASE SendByte
    BY <1>5b, <2>2 DEF SendByte
  <2>3. CASE RecvByte
    BY <1>5b, <1>6a, <2>3 DEF RecvByte
  <2>4. CASE RecvTimeout
    BY <1>5b, <2>4 DEF RecvTimeout
  <2> QED
    BY <2>1, <2>2, <2>3, <2>4
<1>10. FramesInv' /\ SetupInv' /\ PortInv'
  <2>1. CASE frames' = frames
    <3>1. Len(frames) \in Commands
      BY <1>1, TopRuns DEF IInv, Commands
    <3>2. Commands' = Commands
      BY <2>1 DEF Commands
    <3> QED
      BY <1>3, <1>4, <2>1, <3>1, <3>2
      DEF IInv, FramesInv, FrameSound, SetupInv, PortInv
  <2>2. ASSUME NEW f \in {Moved("send"), Moved("recv"), Moved("fail"), Proceed},
               frames' = SetTop(f), Scripted(f)
        PROVE  FramesInv' /\ SetupInv' /\ PortInv'
    <3>1. /\ f \in Frame /\ f.kind = "cmd" /\ f.op = Top.op /\ f.saved = Top.saved
          /\ f.at \in {"send", "recv"} => f.rest # <<>>
          /\ f.at \notin {"flush", "failed"}
      BY <1>2, <1>5, <1>6, ZenonT(30)
    <3>2. FrameSound(f)'
      BY <2>2, <3>1 DEF FrameSound, Scripted
    <3> HIDE DEF Moved
    <3> QED
      BY <1>1, <1>3, <1>4, <2>2, <3>1, <3>2, CommandMoves DEF IInv
  <2> QED
    BY <1>9, <2>1, <2>2
<1>11. HandlerInv'
  BY <1>3, <1>4 DEF IInv, HandlerInv, mouseVars
<1>12. TypeOK'
  <2>1. \A i \in DOMAIN frames' :
          frames'[i].kind \in Device \cup {"cmd"} /\ frames'[i].saved \subseteq Bits
    BY <1>10, FrameTypes DEF FramesInv
  <2> QED
    BY <1>3, <1>4, <1>7, <1>8, <2>1 DEF IInv, TypeOK, mouseVars
<1> QED
  BY <1>10, <1>11, <1>12 DEF IInv

\* The services and the setup.
LEMMA ServicesKeep ==
  ASSUME IInv,
         SetupProbe \/ SetupCommand \/ Initialize \/ Install \/ \E op \in Ops : Command(op)
  PROVE  IInv'
<1> USE DEF IInv
<1>1. mouse_flag2 \in Flags2 /\ mouse_flag1 \in 0 .. 2
  BY DEF TypeOK, Flags2
<1>2. CASE SetupProbe
  <2>1. Commands = {} /\ setup' \in {"bat", "off"} /\ frames = <<>> /\ DOMAIN frames = {}
    BY <1>2 DEF SetupProbe, Commands
  <2>2. FramesInv' /\ SetupInv' /\ PortInv' /\ HandlerInv'
    BY <1>2, <2>1
    DEF SetupProbe, FramesInv, SetupInv, PortInv, HandlerInv, Commands, mouseVars
  <2>3. /\ obuf' \in [full : BOOLEAN, dev : Device, byte : Byte]
        /\ ctr' \subseteq Bits /\ setup' \in {"start", "done", "off"} \cup SetupOps
    BY <1>2 DEF SetupProbe, TypeOK, Bits, SetupOps
  <2> QED
    BY <1>2, <2>2, <2>3 DEF SetupProbe, TypeOK, devVars, mouseVars
<1>3. ASSUME NEW op \in UserOps \cup SetupOps, NEW cost, op # "install", Begin(op, cost),
             op \in SetupOps => frames = <<>> /\ op = setup,
             mouse_flag1' \in 0 .. 2, mouse_flag2' \in Flags2,
             mouse_flag2'.on => mouse_flag2.on,
             UNCHANGED <<mouse_data, far_call_pointer>>
      PROVE  IInv'
  <2>1. /\ FramesInv' /\ SetupInv' /\ PortInv'
        /\ Ps2ctr' \subseteq Bits /\ ctr' \subseteq Bits /\ pend' \subseteq Device
        /\ events' \subseteq Event /\ ("null" \in events' => "null" \in events)
    BY <1>1, <1>3, CommandBegins
  <2>2. HandlerInv'
    BY <1>3, <2>1 DEF HandlerInv
  <2>3. UNCHANGED <<obuf, out, reports, setup>>
    BY <1>3 DEF Begin, devVars
  <2>4. \A i \in DOMAIN frames' :
          frames'[i].kind \in Device \cup {"cmd"} /\ frames'[i].saved \subseteq Bits
    BY <2>1, FrameTypes DEF FramesInv
  <2> QED
    BY <1>3, <2>1, <2>2, <2>3, <2>4 DEF TypeOK, Flags2
<1>4. CASE SetupCommand
  <2>1. /\ setup \in UserOps \cup SetupOps /\ setup # "install" /\ Begin(setup, 0)
        /\ frames = <<>> /\ UNCHANGED mouseVars
    BY <1>4 DEF SetupCommand, SetupOps
  <2> QED
    BY <1>1, <1>3, <2>1 DEF mouseVars
<1>5. ASSUME NEW op \in Ops, Command(op)
      PROVE  IInv'
  <2>1. /\ op \in UserOps \cup SetupOps /\ op # "install" /\ op \notin SetupOps
        /\ Begin(op, 1) /\ UNCHANGED mouseVars
    BY <1>5, Ps2Assumption DEF Command, UserOps, SetupOps
  <2> QED
    BY <1>1, <1>3, <2>1 DEF mouseVars
<1>6. CASE Initialize
  <2>1. /\ "init" \in UserOps \cup SetupOps /\ "init" \notin SetupOps /\ Begin("init", 1)
        /\ mouse_flag1' = 0 /\ mouse_flag2' = [count |-> 3, on |-> FALSE]
        /\ UNCHANGED <<mouse_data, far_call_pointer>>
    BY <1>6 DEF Initialize, UserOps, SetupOps
  <2>2. mouse_flag2' \in Flags2 /\ mouse_flag2'.on = FALSE /\ mouse_flag1' \in 0 .. 2
    BY <2>1 DEF Flags2
  <2> QED
    BY <1>3, <2>1, <2>2
<1>7. CASE Install
  <2>1. /\ mouse_flag2' = [mouse_flag2 EXCEPT !.on = TRUE] /\ mouse_flag2' \in Flags2
        /\ far_call_pointer' = "handler"
    BY <1>1, <1>7 DEF Install, Flags2
  <2>2. /\ events \subseteq events' /\ events' \subseteq Event
        /\ ("null" \in events' => "null" \in events)
        /\ ("stuck" \in events' => "stuck" \in events)
    BY <1>7 DEF Install, TypeOK, Event
  <2>3. UNCHANGED <<Ps2ctr, ctr, pend, obuf, out, reports, frames, setup,
                    mouse_flag1, mouse_data>>
    BY <1>7 DEF Install, hwVars, devVars
  <2>4. FramesInv' /\ SetupInv' /\ PortInv'
    BY <2>2, <2>3 DEF FramesInv, FrameSound, SetupInv, PortInv, Commands
  <2>5. HandlerInv'
    BY <2>1, <2>2 DEF HandlerInv
  <2> QED
    BY <2>1, <2>2, <2>3, <2>4, <2>5 DEF TypeOK, Flags2
<1> QED
  BY <1>2, <1>4, <1>5, <1>6, <1>7

\* The interrupts, and the return from the handlers they call.
LEMMA InterruptsKeep ==
  ASSUME IInv, handle_74 \/ EndMouse \/ handle_09 \/ EndKey
  PROVE  IInv'
<1> USE DEF IInv
<1>1. mouse_flag2 \in Flags2
  BY DEF TypeOK, Flags2
<1>2. CASE handle_74
  <2>1. /\ UNCHANGED <<Ps2ctr, ctr, out, reports, setup>> /\ pend' \subseteq Device
        /\ obuf' \in [full : BOOLEAN, dev : Device, byte : Byte] /\ obuf.byte \in Byte
    BY <1>2 DEF handle_74, TypeOK, devVars
  <2>2. CASE UNCHANGED <<mouseVars, frames, events>>
    <3>1. FramesInv' /\ SetupInv' /\ PortInv' /\ HandlerInv'
      BY <2>1, <2>2, Unseen DEF mouseVars
    <3> QED
      BY <2>1, <2>2, <3>1 DEF TypeOK, mouseVars
  <2>3. CASE process_mouse(obuf.byte) /\ mouse_flag2.on
    <3>1. /\ mouse_data' = [mouse_data EXCEPT ![mouse_flag1] = obuf.byte]
          /\ UNCHANGED <<mouse_flag2, far_call_pointer>>
          /\ far_call_pointer = "handler"
      BY <2>3 DEF process_mouse, HandlerInv
    <3>2. mouse_data' \in [0 .. 2 -> Byte] /\ mouse_flag1' \in 0 .. 2
      BY <2>1, <2>3, <3>1 DEF process_mouse, TypeOK
    <3>3. \/ UNCHANGED <<frames, events>>
          \/ /\ events' \subseteq events \cup {"torn"} /\ events \subseteq events'
             /\ Enter("aux")
      BY <2>3, <3>1 DEF process_mouse, Called
    <3>4. events' \subseteq Event /\ ("null" \in events' => "null" \in events)
      BY <3>3 DEF TypeOK, Event
    <3>5. FramesInv' /\ SetupInv' /\ PortInv'
      <4>1. CASE UNCHANGED <<frames, events>>
        BY <2>1, <4>1 DEF FramesInv, FrameSound, SetupInv, PortInv, Commands
      <4>2. CASE events' \subseteq events \cup {"torn"} /\ events \subseteq events'
                   /\ Enter("aux")
        BY <1>1, <2>1, <4>2, HandlerEnters DEF Device
      <4> QED
        BY <3>3, <4>1, <4>2
    <3>6. HandlerInv'
      BY <3>1, <3>4 DEF HandlerInv
    <3>7. \A i \in DOMAIN frames' :
            frames'[i].kind \in Device \cup {"cmd"} /\ frames'[i].saved \subseteq Bits
      BY <3>5, FrameTypes DEF FramesInv
    <3> QED
      BY <2>1, <3>1, <3>2, <3>4, <3>5, <3>6, <3>7 DEF TypeOK
  <2> QED
    BY <1>2, <2>2, <2>3 DEF handle_74, process_mouse
<1>3. CASE handle_09
  <2>1. /\ UNCHANGED <<Ps2ctr, ctr, out, reports, setup, mouseVars>>
        /\ pend' \subseteq Device
        /\ obuf' \in [full : BOOLEAN, dev : Device, byte : Byte]
    BY <1>3 DEF handle_09, TypeOK, devVars
  <2>2. \/ UNCHANGED <<frames, events>>
        \/ /\ events' \subseteq events \cup {"leaked"} /\ events \subseteq events'
           /\ Enter("kbd")
    BY <1>3 DEF handle_09
  <2>3. events' \subseteq Event /\ ("null" \in events' => "null" \in events)
    BY <2>2 DEF TypeOK, Event
  <2>4. FramesInv' /\ SetupInv' /\ PortInv'
    <3>1. CASE UNCHANGED <<frames, events>>
      BY <2>1, <3>1 DEF FramesInv, FrameSound, SetupInv, PortInv, Commands
    <3>2. CASE events' \subseteq events \cup {"leaked"} /\ events \subseteq events'
                 /\ Enter("kbd")
      BY <1>1, <2>1, <3>2, HandlerEnters DEF Device
    <3> QED
      BY <2>2, <3>1, <3>2
  <2>5. HandlerInv'
    BY <2>1, <2>3 DEF HandlerInv, mouseVars
  <2>6. \A i \in DOMAIN frames' :
          frames'[i].kind \in Device \cup {"cmd"} /\ frames'[i].saved \subseteq Bits
    BY <2>4, FrameTypes DEF FramesInv
  <2> QED
    BY <2>1, <2>3, <2>4, <2>5, <2>6 DEF TypeOK, mouseVars
<1>4. CASE EndMouse \/ EndKey
  <2>1. /\ frames # <<>> /\ Top.kind # "cmd" /\ frames' = Pop
        /\ UNCHANGED <<Ps2ctr, obuf, out, reports, setup, mouseVars>>
    BY <1>4 DEF EndMouse, EndKey, Executing, hwVars, devVars
  <2>2. /\ events \subseteq events' /\ events' \subseteq Event
        /\ ("null" \in events' => "null" \in events)
    BY <1>4 DEF EndMouse, EndKey, Stuck, TypeOK, Event
  <2>3. ctr' \in {ctr, ctr \ {"KBDDIS"}} /\ pend' \subseteq Device
    <3>1. CASE WriteCtr(ctr \ {"KBDDIS"})
      BY <3>1, ControlWrites DEF TypeOK
    <3>2. CASE UNCHANGED <<ctr, pend>>
      BY <3>2 DEF TypeOK
    <3> QED
      BY <1>4, <3>1, <3>2 DEF EndMouse, EndKey, Stuck, hwVars
  <2>4. FramesInv' /\ SetupInv' /\ PortInv'
    BY <2>1, <2>2, <2>3, HandlerLeaves
  <2>5. HandlerInv'
    BY <2>1, <2>2 DEF HandlerInv, mouseVars
  <2>6. \A i \in DOMAIN frames' :
          frames'[i].kind \in Device \cup {"cmd"} /\ frames'[i].saved \subseteq Bits
    BY <2>4, FrameTypes DEF FramesInv
  <2>7. ctr' \subseteq Bits
    BY <2>3 DEF TypeOK
  <2> QED
    BY <2>1, <2>2, <2>3, <2>4, <2>5, <2>6, <2>7 DEF TypeOK, mouseVars
<1> QED
  BY <1>2, <1>3, <1>4

\* The invariant holds at the start.
LEMMA InitIInv ==
  ASSUME Init
  PROVE  IInv
<1>1. frames = <<>> /\ DOMAIN frames = {} /\ frames \in Seq(Frame) /\ setup = "start"
  BY DEF Init
<1>2. TypeOK
  <2>1. <<>> \in Seq(Byte)
    OBVIOUS
  <2> QED
    BY <1>1, <2>1 DEF Init, TypeOK, Bits, Device, Byte, Key, Event
<1> QED
  BY <1>1, <1>2 DEF Init, IInv, FramesInv, SetupInv, PortInv, HandlerInv, Commands

\* Every step preserves the inductive invariant.
LEMMA NextIInv ==
  ASSUME IInv, [Next]_vars
  PROVE  IInv'
<1>1. CASE UNCHANGED vars
  BY <1>1 DEF vars, hwVars, devVars, mouseVars, IInv, TypeOK, FramesInv, FrameSound,
       SetupInv, PortInv, HandlerInv, Commands
<1>2. CASE Finish
  BY <1>2, CommandEnds DEF IInv
<1> QED
  BY <1>1, <1>2, MachineKeeps, DialogueKeeps, ServicesKeep, InterruptsKeep DEF Next

\* The inductive invariant holds in every reachable state.
LEMMA Invariance == Spec => []IInv
<1>1. Init => IInv
  BY InitIInv
<1>2. IInv /\ [Next]_vars => IInv'
  BY NextIInv
<1> QED
  BY <1>1, <1>2, PTL DEF Spec

\* __ps2_command() leaves the port as it found it, for any number of calls, keys and
\* packets, however deep commands of interrupt handlers nest, and whatever fails.
THEOREM PortCorrect == Spec => []PortRestored
<1>1. IInv => PortRestored
  <2>1. IInv /\ frames = <<>> => Commands = {}
    BY DEF Commands
  <2> QED
    BY <2>1 DEF IInv, PortInv, PortRestored, Open
<1> QED
  BY <1>1, Invariance, PTL

\* No interrupt of the mouse calls a handler that is not there.
THEOREM HandlerCorrect == Spec => []HandlerPresent
<1>1. IInv => HandlerPresent
  BY DEF IInv, HandlerInv, HandlerPresent
<1> QED
  BY <1>1, Invariance, PTL

-------------------------------------------------------------------------------
(* Proof of BytesDelivered.  As long as no command is late, stuck or nested,   *)
(* there is one at a time, and from the moment its device is let in to its end *)
(* no interrupt comes in.                                                      *)

Calm == events \cap {"late", "nested", "stuck"} = {}

InDialogue == frames # <<>> /\ Top.kind = "cmd" /\ Top.at # "flush"

OneCommand == \A i, j \in Commands : i = j

\* Interrupts are shut out while a command is under way, those that were pending
\* are through or held back when the dialogue begins, and the mouse is only let in
\* by its own commands.
ShutOut ==
  \A i \in Commands :
    /\ "KBDINT" \notin ctr /\ "AUXINT" \notin ctr
    /\ frames[i].at # "flush" => i = Len(frames) /\ Deliverable = {}
    /\ (frames[i].at # "flush" /\ DeviceOf(frames[i].op) = "aux") \/ "AUXDIS" \in ctr

ControlInv == Calm => OneCommand /\ ShutOut

\* What went wrong once stays on record.
LEMMA EventsGrow ==
  ASSUME [Next]_vars
  PROVE  events \subseteq events'
<1>1. CASE Next
  BY <1>1, ZenonT(40) DEF Next, Transfer, Report, SetupProbe, SetupCommand, Command, Initialize,
       Install, Begin, EndFlush, SendByte, RecvByte, RecvTimeout, Finish, Stuck,
       handle_74, process_mouse, EndMouse, handle_09, EndKey
<1> QED
  BY <1>1 DEF vars

\* While a command waits for its answers, or has got them, no interrupt comes in.
LEMMA Undisturbed ==
  ASSUME FramesInv, OneCommand, ShutOut
  PROVE  /\ InDialogue <=> \E i \in Commands : frames[i].at # "flush"
         /\ handle_74 \/ handle_09 \/ EndMouse \/ EndKey => ~InDialogue
<1>1. InDialogue => /\ Len(frames) \in Commands
                    /\ frames[Len(frames)].at # "flush"
  BY TopRuns DEF InDialogue, Commands
<1>2. ASSUME NEW i \in Commands, frames[i].at # "flush"
      PROVE  InDialogue /\ Deliverable = {}
  <2>1. i = Len(frames) /\ Deliverable = {} /\ i \in DOMAIN frames /\ frames[i].kind = "cmd"
    BY <1>2 DEF ShutOut, Commands
  <2>2. frames # <<>>
    BY <2>1 DEF FramesInv
  <2> QED
    BY <1>2, <2>1, <2>2 DEF InDialogue, Top
<1>3. handle_74 \/ handle_09 => Deliverable # {}
  BY DEF handle_74, handle_09
<1>4. EndMouse \/ EndKey => ~InDialogue
  BY DEF EndMouse, EndKey, Executing, InDialogue
<1> QED
  BY <1>1, <1>2, <1>3, <1>4

\* Calling a handler: the commands are those there were.
LEMMA Entering ==
  ASSUME FramesInv, NEW d \in Device, Enter(d)
  PROVE  /\ Commands' = Commands /\ Commands \subseteq 1 .. Len(frames)
         /\ \A i \in Commands : frames'[i] = frames[i]
         /\ Len(frames') = Len(frames) + 1 /\ Len(frames) \in Nat
         /\ frames' # <<>> /\ Top'.kind = d
         /\ \A i \in 1 .. Len(frames) : frames'[i] = frames[i]
         /\ frames'[Len(frames) + 1].kind = d
<1> DEFINE f == [kind |-> d, op |-> "none", at |-> "hook", rest |-> <<>>, saved |-> {},
                 flags |-> mouse_flag2]
           n == Len(frames)
<1>1. f.kind = d /\ d # "cmd" /\ frames' = Append(frames, f)
  BY DEF Enter, Device
<1> HIDE DEF f
<1>2. /\ frames \in Seq(Frame) /\ DOMAIN frames = 1 .. n /\ n \in Nat
      /\ DOMAIN frames' = 1 .. n + 1 /\ Len(frames') = n + 1 /\ frames'[n + 1] = f
      /\ \A i \in 1 .. n : frames'[i] = frames[i]
  BY <1>1 DEF FramesInv
<1>3. Commands' = Commands
  BY <1>1, <1>2 DEF Commands
<1>4. frames' # <<>> /\ Top'.kind = d
  BY <1>1, <1>2 DEF Top
<1> QED
  BY <1>1, <1>2, <1>3, <1>4 DEF Commands

\* Its return.
LEMMA Leaving ==
  ASSUME FramesInv, frames # <<>>, Top.kind # "cmd", frames' = Pop
  PROVE  /\ Commands' = Commands
         /\ \A i \in Commands : frames'[i] = frames[i]
         /\ \A i \in 1 .. Len(frames) - 1 : frames'[i] = frames[i]
         /\ Len(frames') = Len(frames) - 1 /\ Len(frames) \in Nat \ {0}
         /\ Commands \subseteq 1 .. Len(frames) - 1
<1> DEFINE n == Len(frames)
<1>1. /\ DOMAIN frames = 1 .. n /\ n \in Nat \ {0} /\ DOMAIN frames' = 1 .. n - 1
      /\ \A i \in 1 .. n - 1 : frames'[i] = frames[i]
      /\ Len(frames') = n - 1
  BY Popped
<1>2. frames[n].kind # "cmd"
  BY DEF Top
<1>3. Commands' = Commands /\ Commands \subseteq 1 .. n - 1
  BY <1>1, <1>2 DEF Commands
<1> QED
  BY <1>1, <1>3

\* A command that is not nested is the only one.
LEMMA Beginning ==
  ASSUME IInv, NEW op, NEW cost, Begin(op, cost), Calm'
  PROVE  /\ Commands = {} /\ Commands' = {Len(frames) + 1}
         /\ Len(frames') = Len(frames) + 1 /\ Len(frames) \in Nat
         /\ \A i \in 1 .. Len(frames) : frames'[i] = frames[i]
         /\ Top'.kind = "cmd" /\ Top'.op = op /\ Top'.at = "flush"
         /\ Top'.saved = Updated(op) /\ Top'.flags = mouse_flag2
         /\ frames' # <<>> /\ Top' = frames'[Len(frames) + 1]
         /\ WriteCtr(Shut(Updated(op))) /\ Ps2ctr' = Updated(op)
<1> DEFINE n == Len(frames)
           g == [kind |-> "cmd", op |-> op, at |-> "flush", rest |-> Script(op),
                 saved |-> Updated(op), flags |-> mouse_flag2]
<1>1. Commands = {}
  BY DEF Begin, Calm
<1>2. frames' = Append(frames, g) /\ WriteCtr(Shut(Updated(op))) /\ Ps2ctr' = Updated(op)
  BY DEF Begin, Calm
<1>3. /\ g.kind = "cmd" /\ g.op = op /\ g.at = "flush" /\ g.saved = Updated(op)
      /\ g.flags = mouse_flag2
  OBVIOUS
<1> HIDE DEF g
<1>4. /\ frames \in Seq(Frame) /\ DOMAIN frames = 1 .. n /\ n \in Nat
      /\ DOMAIN frames' = 1 .. n + 1 /\ Len(frames') = n + 1 /\ frames'[n + 1] = g
      /\ \A i \in 1 .. n : frames'[i] = frames[i]
  BY <1>2 DEF IInv, FramesInv
<1>5. Commands' = {n + 1}
  BY <1>1, <1>3, <1>4 DEF Commands
<1>6. frames' # <<>> /\ Top' = g
  BY <1>4 DEF Top
<1> QED
  BY <1>1, <1>2, <1>3, <1>4, <1>5, <1>6

\* The dialogue moves on.
LEMMA Moving ==
  ASSUME FramesInv, frames # <<>>, Top.kind = "cmd", NEW f, frames' = SetTop(f),
         f.kind = "cmd"
  PROVE  /\ Commands' = Commands /\ Len(frames') = Len(frames) /\ Top' = f
         /\ frames' # <<>> /\ Len(frames) \in Commands
         /\ frames[Len(frames)] = Top
         /\ frames'[Len(frames)] = f
         /\ \A i \in 1 .. Len(frames) : i # Len(frames) => frames'[i] = frames[i]
         /\ \A i \in 1 .. Len(frames) : frames'[i].kind = frames[i].kind
         /\ DOMAIN frames = 1 .. Len(frames) /\ DOMAIN frames' = DOMAIN frames
         /\ Len(frames) \in Nat \ {0}
<1> DEFINE n == Len(frames)
<1>1. /\ DOMAIN frames = 1 .. n /\ DOMAIN frames' = 1 .. n /\ Len(frames') = n
      /\ n \in 1 .. n /\ frames'[n] = f /\ frames[n] = Top /\ n \in Nat \ {0}
      /\ \A i \in 1 .. n : i # n => frames'[i] = frames[i]
  BY DEF FramesInv, SetTop, Top
<1>2. \A i \in 1 .. n : frames'[i].kind = frames[i].kind
  BY <1>1, ZenonT(40)
<1>3. Commands' = Commands /\ n \in Commands
  BY <1>1, <1>2, ZenonT(40) DEF Commands
<1>4. Top' = f /\ frames' # <<>>
  BY <1>1, ZenonT(40) DEF Top
<1> QED
  BY <1>1, <1>2, <1>3, <1>4, ZenonT(40)

\* The only command ends.
LEMMA Ending ==
  ASSUME FramesInv, OneCommand, Finish
  PROVE  /\ Commands = {Len(frames)} /\ Commands' = {} /\ Len(frames) \in Nat \ {0}
         /\ Top = frames[Len(frames)] /\ InDialogue /\ ~InDialogue'
         /\ Top.at \in {"good", "fail", "failed"}
<1> DEFINE n == Len(frames)
<1>1. /\ frames # <<>> /\ Top.kind = "cmd" /\ frames' = Pop
      /\ Top.at \in {"good", "fail", "failed"}
  BY DEF Finish, InCommand, Executing
<1>2. /\ DOMAIN frames = 1 .. n /\ n \in Nat \ {0} /\ DOMAIN frames' = 1 .. n - 1
      /\ \A i \in 1 .. n - 1 : frames'[i] = frames[i]
      /\ Len(frames') = n - 1
      /\ Top = frames[n]
  BY <1>1, Popped DEF Top
<1>3. n \in Commands
  BY <1>1, <1>2 DEF Commands
<1>4. Commands = {n} /\ Commands' = {}
  BY <1>2, <1>3 DEF Commands, OneCommand
<1>5. ~InDialogue'
  <2>1. frames' # <<>> => Len(frames') \in DOMAIN frames'
    BY <1>1, <1>2 DEF FramesInv, Pop
  <2> QED
    BY <1>4, <2>1 DEF InDialogue, Commands, Top
<1> QED
  BY <1>1, <1>2, <1>4, <1>5 DEF InDialogue

\* What is deliverable depends on what is pending and in service.
LEMMA SameService ==
  ASSUME pend' = pend, DOMAIN frames' = DOMAIN frames,
         \A i \in DOMAIN frames : frames'[i].kind = frames[i].kind
  PROVE  Deliverable' = Deliverable
<1>1. \A d : InService(d)' <=> InService(d)
  BY DEF InService
<1> QED
  BY <1>1 DEF Deliverable

\* The interrupts of the devices stay off in a command.
LEMMA NoInterruptRaised ==
  ASSUME NEW c \in SUBSET Bits, WriteCtr(c), "KBDINT" \notin c, "AUXINT" \notin c
  PROVE  ctr' = c /\ pend' = pend
  BY DEF WriteCtr, INT

\* A step that leaves the stack alone.
LEMMA Staying ==
  ASSUME frames' = frames
  PROVE  /\ Commands' = Commands /\ (InDialogue' <=> InDialogue) /\ Top' = Top
         /\ OneCommand => OneCommand'
  BY DEF Commands, InDialogue, Top, OneCommand

\* A command that is not late, stuck or nested is alone and shuts the others out.
LEMMA ControlStep ==
  ASSUME IInv, ControlInv, [Next]_vars
  PROVE  ControlInv'
<1> SUFFICES ASSUME Calm'
             PROVE  OneCommand' /\ ShutOut'
  BY DEF ControlInv
<1>1. Calm /\ OneCommand /\ ShutOut /\ FramesInv
  BY EventsGrow DEF Calm, ControlInv, IInv
<1>2. ASSUME frames' = frames, ctr' = ctr \/ Commands = {},
             pend' = pend \/ Commands = {}
      PROVE  OneCommand' /\ ShutOut'
  <2>1. Commands' = Commands /\ OneCommand'
    BY <1>1, <1>2, Staying
  <2>2. pend' = pend => Deliverable' = Deliverable
    BY <1>2, SameService
  <2> QED
    BY <1>1, <1>2, <2>1, <2>2 DEF ShutOut
<1>3. ASSUME ~InDialogue, Commands' = Commands,
             \A i \in Commands : frames'[i] = frames[i],
             ctr' \in {ctr, ctr \ {"KBDDIS"}}
      PROVE  OneCommand' /\ ShutOut'
  <2>1. \A i \in Commands : frames[i].at = "flush"
    BY <1>1, <1>3, Undisturbed
  <2> QED
    BY <1>1, <1>3, <2>1 DEF OneCommand, ShutOut
<1>4. ASSUME NEW d \in Device, Transfer(d)
      PROVE  OneCommand' /\ ShutOut'
  <2>1. Commands # {} => pend' = pend
    BY <1>1, <1>4 DEF Transfer, ShutOut, INT
  <2> QED
    BY <1>2, <1>4, <2>1 DEF Transfer
<1>5. ASSUME NEW d \in Device, Report(d)
      PROVE  OneCommand' /\ ShutOut'
  BY <1>2, <1>5 DEF Report, hwVars
<1>6. CASE SetupProbe
  <2>1. Commands = {}
    BY <1>6 DEF SetupProbe, Commands
  <2> QED
    BY <1>2, <1>6, <2>1 DEF SetupProbe
<1>7. ASSUME NEW op, NEW cost, Begin(op, cost)
      PROVE  OneCommand' /\ ShutOut'
  <2>1. /\ Commands' = {Len(frames) + 1} /\ frames'[Len(frames) + 1].at = "flush"
        /\ WriteCtr(Shut(Updated(op)))
    BY <1>7, Beginning
  <2>2. ctr' = Shut(Updated(op))
    BY <2>1 DEF WriteCtr
  <2> QED
    BY <2>1, <2>2 DEF OneCommand, ShutOut, Shut
<1>8. CASE Install
  BY <1>2, <1>8 DEF Install, hwVars
<1>9. CASE EndFlush
  <2> DEFINE f == [Top EXCEPT !.at = "send"]
             c == Shut(Top.saved) \ {DIS(DeviceOf(Top.op))}
             n == Len(frames)
  <2>1. /\ frames # <<>> /\ Top.kind = "cmd" /\ Top.at = "flush" /\ Deliverable = {}
        /\ frames' = SetTop(f) /\ WriteCtr(c)
    BY <1>9 DEF EndFlush, InCommand, Executing, Stuck, Calm
  <2>2. /\ Top \in Frame /\ Top.saved \subseteq Bits
    BY <1>1, <2>1, TopRuns DEF Frame
  <2>3. f.kind = "cmd" /\ f.op = Top.op /\ f.at = "send"
    BY <2>1, <2>2 DEF Frame
  <2>4. c \in SUBSET Bits /\ "KBDINT" \notin c /\ "AUXINT" \notin c
    BY <2>2, ControlBytes DEF IInv, TypeOK, Shut
  <2>5. ctr' = c /\ pend' = pend
    BY <2>1, <2>4, NoInterruptRaised
  <2>6. "AUXDIS" \in c \/ DeviceOf(Top.op) = "aux"
    BY DEF Shut, DIS, DeviceOf
  <2> HIDE DEF f, c
  <2>7. /\ Commands' = Commands /\ Len(frames') = n /\ frames'[n] = f /\ n \in Commands
        /\ \A i \in 1 .. n : frames'[i].kind = frames[i].kind
        /\ DOMAIN frames = 1 .. n /\ DOMAIN frames' = DOMAIN frames
    BY <1>1, <2>1, <2>3, Moving
  <2>8. Deliverable' = {}
    BY <2>1, <2>5, <2>7, SameService
  <2>9. OneCommand' /\ \A i \in Commands' : i = n
    BY <1>1, <2>7 DEF OneCommand
  <2> QED
    BY <2>3, <2>4, <2>5, <2>6, <2>7, <2>8, <2>9 DEF ShutOut
<1>10. ASSUME InDialogue, frames' = frames \/ \E f : /\ frames' = SetTop(f)
                                                    /\ f.kind = "cmd" /\ f.op = Top.op
                                                    /\ f.at # "flush",
              UNCHANGED <<ctr, pend>>
       PROVE  OneCommand' /\ ShutOut'
  <2>1. CASE frames' = frames
    BY <1>2, <1>10, <2>1
  <2>2. ASSUME NEW f, frames' = SetTop(f), f.kind = "cmd", f.op = Top.op,
               f.at # "flush"
        PROVE  OneCommand' /\ ShutOut'
    <3> DEFINE n == Len(frames)
    <3>1. frames # <<>> /\ Top.kind = "cmd" /\ Top.at # "flush"
      BY <1>10 DEF InDialogue
    <3>2. /\ Commands' = Commands /\ Len(frames') = n /\ frames'[n] = f /\ n \in Commands
          /\ frames[n] = Top
          /\ \A i \in 1 .. n : frames'[i].kind = frames[i].kind
          /\ DOMAIN frames = 1 .. n /\ DOMAIN frames' = DOMAIN frames
      BY <1>1, <2>2, <3>1, Moving
    <3>3. Deliverable' = {} /\ Deliverable = {}
      BY <1>1, <1>10, <3>1, <3>2, SameService DEF ShutOut
    <3>4. OneCommand' /\ \A i \in Commands' : i = n
      BY <1>1, <3>2 DEF OneCommand
    <3> QED
      BY <1>1, <1>10, <2>2, <3>1, <3>2, <3>3, <3>4 DEF ShutOut
  <2> QED
    BY <1>10, <2>1, <2>2
<1>11. CASE SendByte \/ RecvByte
  <2>1. /\ frames # <<>> /\ Top.kind = "cmd" /\ Top.at # "flush" /\ UNCHANGED <<ctr, pend>>
    BY <1>11 DEF SendByte, RecvByte, InCommand, Executing, hwVars
  <2>2. Top \in Frame
    BY <1>1, <2>1, TopRuns
  <2>3. ASSUME NEW f \in {[Top EXCEPT !.at = "recv"], [Top EXCEPT !.at = "fail"], Proceed}
        PROVE  f.kind = "cmd" /\ f.op = Top.op /\ f.at # "flush"
    BY <2>1, <2>2 DEF Frame, Proceed
  <2>4. \/ frames' = frames
        \/ \E f \in {[Top EXCEPT !.at = "recv"], [Top EXCEPT !.at = "fail"], Proceed} :
             frames' = SetTop(f)
    BY <1>11 DEF SendByte, RecvByte
  <2> QED
    BY <1>10, <2>1, <2>3, <2>4 DEF InDialogue
<1>12. CASE RecvTimeout
  BY <1>12 DEF RecvTimeout, Calm
<1>13. CASE Finish
  BY <1>1, <1>13, Ending DEF OneCommand, ShutOut
<1>14. CASE handle_74 \/ handle_09
  <2>1. ~InDialogue /\ ctr' = ctr
    BY <1>1, <1>14, Undisturbed DEF handle_74, handle_09
  <2>2. frames' = frames \/ \E d \in Device : Enter(d)
    BY <1>14 DEF handle_74, handle_09, process_mouse, Device
  <2>3. CASE frames' = frames
    BY <1>3, <2>1, <2>3, Staying
  <2>4. ASSUME NEW d \in Device, Enter(d)
        PROVE  OneCommand' /\ ShutOut'
    BY <1>1, <1>3, <2>1, <2>4, Entering
  <2> QED
    BY <2>2, <2>3, <2>4
<1>15. CASE EndMouse \/ EndKey
  <2>1. ~InDialogue /\ frames # <<>> /\ Top.kind # "cmd" /\ frames' = Pop
    BY <1>1, <1>15, Undisturbed DEF EndMouse, EndKey, Executing
  <2>2. ctr' \in {ctr, ctr \ {"KBDDIS"}}
    BY <1>15 DEF EndMouse, EndKey, WriteCtr, Stuck, hwVars
  <2> QED
    BY <1>1, <1>3, <2>1, <2>2, Leaving
<1>16. CASE UNCHANGED vars
  BY <1>2, <1>16 DEF vars, hwVars
<1> QED
  BY <1>4, <1>5, <1>6, <1>7, <1>8, <1>9, <1>11, <1>12, <1>13, <1>14, <1>15, <1>16
  DEF Next, SetupCommand, Command, Initialize

-------------------------------------------------------------------------------
(* What a device has sent and nobody has read: keys and packets, and the       *)
(* answers that the command under way waits for.                               *)

Sent(d) == IF obuf.full /\ obuf.dev = d THEN <<obuf.byte>> \o out[d] ELSE out[d]

Reported(d) == IF d = "kbd" THEN <<Key>> ELSE Packet

NoAnswer(s) == \A i \in 1 .. Len(s) : s[i] \notin Answer

\* e is in s behind k bytes, and there are no other answers.
Fits(s, k, e) ==
  /\ k + Len(e) <= Len(s)
  /\ \A i \in 1 .. Len(s) : IF k < i /\ i <= k + Len(e) THEN s[i] = e[i - k]
                            ELSE s[i] \notin Answer

\* The device is silent, or its answers come: a value at once, an acknowledgement
\* behind bytes that were under way.
Replied(s, f) ==
  \/ NoAnswer(s)
  \/ Head(f.rest) = "val" /\ Fits(s, 0, f.rest)
  \/ /\ Head(f.rest) # "val"
     /\ \E k \in Nat : Fits(s, k, <<"nak">>) \/ Fits(s, k, Answers(f.op, Head(f.rest)))

Awaiting(d) == InDialogue /\ Top.at = "recv" /\ DeviceOf(Top.op) = d

AnswersInv ==
  Calm => \A d \in Device : IF Awaiting(d) THEN Replied(Sent(d), Top)
                            ELSE NoAnswer(Sent(d))

\* An interrupt of the keyboard finds a key.
HeldInv ==
  Calm /\ "held" \notin events =>
    /\ "leaked" \notin events
    /\ "kbd" \in pend =>
         /\ ~InDialogue /\ obuf.byte \notin Answer
         /\ \A i \in Commands : \A j \in 1 .. i - 1 : frames[j].kind # "kbd"

\* More bytes that are no answers.
LEMMA NoMoreAnswers ==
  ASSUME NEW s \in Seq(Byte), NEW t \in Seq(Byte), NoAnswer(s), NoAnswer(t)
  PROVE  NoAnswer(s \o t)
<1>1. /\ Len(s \o t) = Len(s) + Len(t) /\ Len(s) \in Nat /\ Len(t) \in Nat
      /\ \A i \in 1 .. Len(s) + Len(t) :
           (s \o t)[i] = IF i <= Len(s) THEN s[i] ELSE t[i - Len(s)]
  OBVIOUS
<1>2. \A i \in 1 .. Len(s) + Len(t) : i <= Len(s) => i \in 1 .. Len(s)
  BY <1>1
<1>3. \A i \in 1 .. Len(s) + Len(t) : ~(i <= Len(s)) => i - Len(s) \in 1 .. Len(t)
  BY <1>1
<1> QED
  BY <1>1, <1>2, <1>3 DEF NoAnswer

\* Answers that have come, with more bytes behind them.
LEMMA MoreBytes ==
  ASSUME NEW s \in Seq(Byte), NEW t \in Seq(Byte), NEW e \in Seq(Byte), NEW k \in Nat,
         Fits(s, k, e), NoAnswer(t)
  PROVE  Fits(s \o t, k, e)
<1>1. /\ Len(s \o t) = Len(s) + Len(t) /\ Len(s) \in Nat /\ Len(t) \in Nat
      /\ \A i \in 1 .. Len(s) + Len(t) :
           (s \o t)[i] = IF i <= Len(s) THEN s[i] ELSE t[i - Len(s)]
      /\ Len(e) \in Nat
  OBVIOUS
<1>2. k + Len(e) <= Len(s)
  BY DEF Fits
<1>3. ASSUME NEW i \in 1 .. Len(s) + Len(t)
      PROVE  IF k < i /\ i <= k + Len(e) THEN (s \o t)[i] = e[i - k]
             ELSE (s \o t)[i] \notin Answer
  <2>1. CASE i <= Len(s)
    <3>1. i \in 1 .. Len(s) /\ (s \o t)[i] = s[i]
      BY <1>1, <2>1
    <3> QED
      BY <3>1 DEF Fits
  <2>2. CASE ~(i <= Len(s))
    <3>1. i - Len(s) \in 1 .. Len(t) /\ (s \o t)[i] = t[i - Len(s)] /\ ~(i <= k + Len(e))
      BY <1>1, <1>2, <2>2
    <3> QED
      BY <3>1 DEF NoAnswer
  <2> QED
    BY <2>1, <2>2
<1> QED
  BY <1>1, <1>2, <1>3 DEF Fits

\* The answers come behind what is there.
LEMMA AnswersCome ==
  ASSUME NEW s \in Seq(Byte), NEW e \in Seq(Byte), NoAnswer(s)
  PROVE  Len(s) \in Nat /\ Fits(s \o e, Len(s), e)
<1>1. /\ Len(s \o e) = Len(s) + Len(e) /\ Len(s) \in Nat /\ Len(e) \in Nat
      /\ \A i \in 1 .. Len(s) + Len(e) :
           (s \o e)[i] = IF i <= Len(s) THEN s[i] ELSE e[i - Len(s)]
  OBVIOUS
<1>2. ASSUME NEW i \in 1 .. Len(s) + Len(e)
      PROVE  IF Len(s) < i /\ i <= Len(s) + Len(e) THEN (s \o e)[i] = e[i - Len(s)]
             ELSE (s \o e)[i] \notin Answer
  <2>1. CASE i <= Len(s)
    <3>1. i \in 1 .. Len(s) /\ (s \o e)[i] = s[i] /\ ~(Len(s) < i)
      BY <1>1, <2>1
    <3> QED
      BY <3>1 DEF NoAnswer
  <2>2. CASE ~(i <= Len(s))
    BY <1>1, <2>2
  <2> QED
    BY <2>1, <2>2
<1> QED
  BY <1>1, <1>2 DEF Fits

\* Reading a byte.
LEMMA NoneRead ==
  ASSUME NEW s \in Seq(Byte), s # <<>>, NoAnswer(s)
  PROVE  Head(s) \notin Answer /\ NoAnswer(Tail(s))
<1>1. /\ Len(s) \in Nat \ {0} /\ Len(Tail(s)) = Len(s) - 1 /\ Head(s) = s[1]
      /\ \A i \in 1 .. Len(s) - 1 : Tail(s)[i] = s[i + 1] /\ i + 1 \in 1 .. Len(s)
  OBVIOUS
<1>2. 1 \in 1 .. Len(s)
  BY <1>1
<1> QED
  BY <1>1, <1>2 DEF NoAnswer

\* Reading a byte that was under way before the answer brings the answer nearer.
LEMMA OtherRead ==
  ASSUME NEW s \in Seq(Byte), s # <<>>, NEW e \in Seq(Byte), NEW k \in Nat \ {0},
         Fits(s, k, e)
  PROVE  Head(s) \notin Answer /\ k - 1 \in Nat /\ Fits(Tail(s), k - 1, e)
<1>1. /\ Len(s) \in Nat \ {0} /\ Len(Tail(s)) = Len(s) - 1 /\ Head(s) = s[1]
      /\ \A i \in 1 .. Len(s) - 1 : Tail(s)[i] = s[i + 1] /\ i + 1 \in 1 .. Len(s)
      /\ Len(e) \in Nat
  OBVIOUS
<1>2. 1 \in 1 .. Len(s) /\ ~(k < 1) /\ k - 1 \in Nat
  BY <1>1
<1>3. Head(s) \notin Answer
  BY <1>1, <1>2 DEF Fits
<1>4. ASSUME NEW i \in 1 .. Len(s) - 1
      PROVE  IF k - 1 < i /\ i <= k - 1 + Len(e) THEN Tail(s)[i] = e[i - (k - 1)]
             ELSE Tail(s)[i] \notin Answer
  <2>1. /\ i + 1 \in 1 .. Len(s) /\ Tail(s)[i] = s[i + 1]
        /\ (i + 1) - k = i - (k - 1)
        /\ (k < i + 1 /\ i + 1 <= k + Len(e)) <=> (k - 1 < i /\ i <= k - 1 + Len(e))
    BY <1>1, <1>2
  <2> QED
    BY <2>1 DEF Fits
<1>5. k - 1 + Len(e) <= Len(s) - 1
  BY <1>1 DEF Fits
<1> QED
  BY <1>1, <1>2, <1>3, <1>4, <1>5 DEF Fits

\* Reading the first byte of an answer leaves the rest of it.
LEMMA AnswerRead ==
  ASSUME NEW s \in Seq(Byte), NEW e \in Seq(Byte), e # <<>>, Fits(s, 0, e)
  PROVE  /\ s # <<>> /\ Head(s) = Head(e) /\ Tail(e) \in Seq(Byte)
         /\ Fits(Tail(s), 0, Tail(e))
<1>1. Len(s) \in Nat /\ Len(e) \in Nat \ {0} /\ Len(e) <= Len(s)
  BY DEF Fits
<1>2. s # <<>>
  BY <1>1
<1>3. /\ Len(Tail(s)) = Len(s) - 1 /\ Head(s) = s[1]
      /\ \A i \in 1 .. Len(s) - 1 : Tail(s)[i] = s[i + 1] /\ i + 1 \in 1 .. Len(s)
  BY <1>2
<1>4. /\ Len(Tail(e)) = Len(e) - 1 /\ Head(e) = e[1] /\ Tail(e) \in Seq(Byte)
      /\ \A i \in 1 .. Len(e) - 1 : Tail(e)[i] = e[i + 1]
  OBVIOUS
<1>5. Head(s) = Head(e)
  <2>1. 1 \in 1 .. Len(s) /\ 0 < 1 /\ 1 <= 0 + Len(e) /\ 1 - 0 = 1
    BY <1>1
  <2> QED
    BY <1>3, <1>4, <2>1 DEF Fits
<1>6. ASSUME NEW i \in 1 .. Len(s) - 1
      PROVE  IF 0 < i /\ i <= 0 + (Len(e) - 1) THEN Tail(s)[i] = Tail(e)[i - 0]
             ELSE Tail(s)[i] \notin Answer
  <2>1. /\ i + 1 \in 1 .. Len(s) /\ Tail(s)[i] = s[i + 1] /\ 0 < i /\ 0 < i + 1
        /\ (i + 1) - 0 = i + 1 /\ i - 0 = i
        /\ i + 1 <= 0 + Len(e) <=> i <= 0 + (Len(e) - 1)
    BY <1>1, <1>3
  <2>2. i <= 0 + (Len(e) - 1) => Tail(e)[i] = e[i + 1]
    BY <1>1, <1>4, <2>1
  <2> QED
    BY <2>1, <2>2 DEF Fits
<1>7. 0 + (Len(e) - 1) <= Len(s) - 1
  BY <1>1
<1> QED
  BY <1>2, <1>3, <1>4, <1>5, <1>6, <1>7 DEF Fits

\* Nothing is left to fit.
LEMMA NothingFits ==
  ASSUME NEW s \in Seq(Byte), Fits(s, 0, <<>>)
  PROVE  NoAnswer(s)
  BY DEF Fits, NoAnswer

\* What is sent are bytes, whichever part of it is in the buffer.
LEMMA SentTypes ==
  ASSUME TypeOK, NEW d \in Device
  PROVE  Sent(d) \in Seq(Byte) /\ out[d] \in Seq(Byte) /\ obuf.byte \in Byte
<1>1. obuf.byte \in Byte /\ out[d] \in Seq(Byte)
  BY DEF TypeOK
<1>2. <<obuf.byte>> \in Seq(Byte)
  BY <1>1
<1>3. <<obuf.byte>> \o out[d] \in Seq(Byte)
  BY <1>1, <1>2
<1> QED
  BY <1>1, <1>3 DEF Sent

\* A byte that moves into the buffer is still one that nobody has read.
LEMMA SentTransferred ==
  ASSUME TypeOK, NEW e \in Device, Transfer(e), NEW d \in Device
  PROVE  Sent(d)' = Sent(d)
<1>1. /\ ~obuf.full /\ out[e] # <<>> /\ out[e] \in Seq(Byte)
      /\ obuf' = [full |-> TRUE, dev |-> e, byte |-> Head(out[e])]
      /\ out' = [out EXCEPT ![e] = Tail(@)]
      /\ out \in [Device -> Seq(Byte)]
  BY SentTypes DEF Transfer, TypeOK
<1>2. <<Head(out[e])>> \o Tail(out[e]) = out[e]
  BY <1>1
<1>3. CASE d = e
  BY <1>1, <1>2, <1>3 DEF Sent
<1>4. CASE d # e
  BY <1>1, <1>4 DEF Sent
<1> QED
  BY <1>3, <1>4

\* A device that reports adds the bytes of a key or a packet, none of an answer.
LEMMA SentReported ==
  ASSUME TypeOK, NEW e \in Device, Report(e), NEW d \in Device
  PROVE  /\ Reported(e) \in Seq(Byte) /\ NoAnswer(Reported(e))
         /\ Sent(d)' = IF d = e THEN Sent(d) \o Reported(e) ELSE Sent(d)
<1> DEFINE t == Reported(e)
<1>1. t \in Seq(Byte) /\ NoAnswer(t)
  <2>1. <<"key">> \in Seq(Byte) /\ NoAnswer(<<"key">>)
    BY DEF Byte, NoAnswer, Answer
  <2>2. <<"m0", "m1", "m2">> \in Seq(Byte) /\ NoAnswer(<<"m0", "m1", "m2">>)
    BY DEF Byte, NoAnswer, Answer
  <2> QED
    BY <2>1, <2>2 DEF Reported, Key, Packet
<1>2. out[e] \in Seq(Byte) /\ out \in [Device -> Seq(Byte)] /\ obuf.byte \in Byte
  BY SentTypes DEF TypeOK
<1>3. out' = [out EXCEPT ![e] = @ \o t] /\ obuf' = obuf
  <2>1. Append(out[e], Key) = out[e] \o <<Key>>
    BY <1>2 DEF Key, Byte
  <2> QED
    BY <2>1 DEF Report, Reported, hwVars
<1> HIDE DEF t
<1>4. (<<obuf.byte>> \o out[e]) \o t = <<obuf.byte>> \o (out[e] \o t)
  <2>1. \A b \in Byte : \A s \in Seq(Byte), u \in Seq(Byte) :
          (<<b>> \o s) \o u = <<b>> \o (s \o u)
    OBVIOUS
  <2> QED
    BY <1>1, <1>2, <2>1
<1>5. CASE d = e
  BY <1>1, <1>2, <1>3, <1>4, <1>5 DEF Sent, t
<1>6. CASE d # e
  BY <1>1, <1>2, <1>3, <1>6 DEF Sent, t
<1> QED
  BY <1>5, <1>6

\* Reading the buffer takes the first byte of the device that sent it.
LEMMA SentRead ==
  ASSUME TypeOK, obuf' = [obuf EXCEPT !.full = FALSE], out' = out
  PROVE  /\ obuf.dev \in Device
         /\ \A d \in Device : ~(obuf.full /\ d = obuf.dev) => Sent(d)' = Sent(d)
         /\ obuf.full => /\ Sent(obuf.dev) # <<>> /\ Head(Sent(obuf.dev)) = obuf.byte
                         /\ Sent(obuf.dev)' = Tail(Sent(obuf.dev))
<1>1. /\ obuf \in [full : BOOLEAN, dev : Device, byte : Byte]
      /\ obuf' = [full |-> FALSE, dev |-> obuf.dev, byte |-> obuf.byte]
  BY DEF TypeOK
<1>2. ~obuf'.full /\ obuf.dev \in Device
  BY <1>1
<1>3. \A d \in Device : Sent(d)' = out[d]
  BY <1>2 DEF Sent
<1>4. ASSUME obuf.full
      PROVE  /\ Sent(obuf.dev) # <<>> /\ Head(Sent(obuf.dev)) = obuf.byte
             /\ Tail(Sent(obuf.dev)) = out[obuf.dev]
  <2>1. Sent(obuf.dev) = <<obuf.byte>> \o out[obuf.dev]
    BY <1>4 DEF Sent
  <2>2. obuf.byte \in Byte /\ out[obuf.dev] \in Seq(Byte)
    BY <1>2, SentTypes
  <2> QED
    BY <2>1, <2>2
<1> QED
  BY <1>2, <1>3, <1>4 DEF Sent

\* What a device answers to the byte of a script that is sent, and what is then
\* left of the script.
LEMMA AnswersOf ==
  ASSUME NEW op \in CommandOps, NEW r \in Rests(op)
  PROVE  /\ r # <<>>
         /\ Head(r) = "val" => /\ r \in Seq(Byte)
                               /\ Tail(r) # <<>> => Head(Tail(r)) = "val"
         /\ Answers(op, Head(r)) \in Seq(Byte) /\ Answers(op, Head(r)) # <<>>
         /\ Head(Answers(op, Head(r))) = "ack"
         /\ Head(r) # "val" =>
              Tail(Answers(op, Head(r))) =
                IF Tail(r) # <<>> /\ Head(Tail(r)) = "val" THEN Tail(r) ELSE <<>>
<1>1. /\ <<"cmd", "arg">> # <<>> /\ <<"cmd">> # <<>> /\ <<"arg">> # <<>>
      /\ <<"val">> # <<>> /\ <<"cmd", "val">> # <<>> /\ <<"val", "val">> # <<>>
      /\ <<"cmd", "val", "val">> # <<>>
      /\ Tail(<<"cmd", "arg">>) = <<"arg">> /\ Tail(<<"cmd">>) = <<>>
      /\ Tail(<<"arg">>) = <<>> /\ Tail(<<"val">>) = <<>>
      /\ Tail(<<"cmd", "val">>) = <<"val">> /\ Tail(<<"val", "val">>) = <<"val">>
      /\ Tail(<<"cmd", "val", "val">>) = <<"val", "val">>
  OBVIOUS
<1>2. /\ Head(<<"cmd", "arg">>) = "cmd" /\ Head(<<"cmd">>) = "cmd"
      /\ Head(<<"arg">>) = "arg" /\ Head(<<"val">>) = "val"
      /\ Head(<<"cmd", "val">>) = "cmd" /\ Head(<<"val", "val">>) = "val"
      /\ Head(<<"cmd", "val", "val">>) = "cmd"
      /\ "cmd" # "arg" /\ "cmd" # "val" /\ "arg" # "val"
  OBVIOUS
<1>3. "ack" \in Byte /\ <<>> \in Seq(Byte)
      /\ <<"val">> \in Seq(Byte) /\ <<"val", "val">> \in Seq(Byte)
  BY DEF Byte
<1>4. \A b \in Byte : \A s \in Seq(Byte) :
        /\ <<b>> \o s \in Seq(Byte) /\ <<b>> \o s # <<>>
        /\ Head(<<b>> \o s) = b /\ Tail(<<b>> \o s) = s
  OBVIOUS
<1>5. \A s \in Seq(Byte) :
        /\ <<"ack">> \o s \in Seq(Byte) /\ <<"ack">> \o s # <<>>
        /\ Head(<<"ack">> \o s) = "ack" /\ Tail(<<"ack">> \o s) = s
  BY <1>3, <1>4
<1> DEFINE Rest(q) == IF Tail(q) # <<>> /\ Head(Tail(q)) = "val" THEN Tail(q) ELSE <<>>
           Fine(q) == /\ q # <<>>
                      /\ Head(q) = "val" => /\ q \in Seq(Byte)
                                            /\ Tail(q) # <<>> => Head(Tail(q)) = "val"
<1>6. ASSUME Fine(r), NEW s \in Seq(Byte), Answers(op, Head(r)) = <<"ack">> \o s,
             Head(r) # "val" => s = Rest(r)
      PROVE  /\ r # <<>>
             /\ Head(r) = "val" => /\ r \in Seq(Byte)
                                   /\ Tail(r) # <<>> => Head(Tail(r)) = "val"
             /\ Answers(op, Head(r)) \in Seq(Byte) /\ Answers(op, Head(r)) # <<>>
             /\ Head(Answers(op, Head(r))) = "ack"
             /\ Head(r) # "val" => Tail(Answers(op, Head(r))) = Rest(r)
  <2>1. /\ <<"ack">> \o s \in Seq(Byte) /\ <<"ack">> \o s # <<>>
        /\ Head(<<"ack">> \o s) = "ack" /\ Tail(<<"ack">> \o s) = s
    BY <1>5, <1>6
  <2> HIDE DEF Rest
  <2> QED
    BY <1>6, <2>1, Zenon
<1>7. /\ Fine(<<"cmd", "arg">>) /\ Rest(<<"cmd", "arg">>) = <<>>
      /\ Fine(<<"arg">>) /\ Rest(<<"arg">>) = <<>>
      /\ Fine(<<"cmd">>) /\ Rest(<<"cmd">>) = <<>>
  BY <1>1, <1>2
<1>8. /\ Fine(<<"cmd", "val">>) /\ Rest(<<"cmd", "val">>) = <<"val">>
      /\ Fine(<<"cmd", "val", "val">>)
      /\ Rest(<<"cmd", "val", "val">>) = <<"val", "val">>
  BY <1>1, <1>2
<1>9. Fine(<<"val">>) /\ Fine(<<"val", "val">>)
  BY <1>1, <1>2, <1>3
<1> HIDE DEF Rest, Fine
<1>10. CASE \/ op \in {"leds", "rate", "scan"}
            \/ op \in {"enable", "disable", "remove", "dis", "on"}
  <2>1. /\ r \in {<<"cmd", "arg">>, <<"arg">>, <<"cmd">>} /\ op # "bat" /\ op # "init"
    BY <1>10 DEF Rests
  <2>2. Answers(op, Head(r)) = <<"ack">> \o <<>>
    BY <2>1, Zenon DEF Answers
  <2>3. Fine(r) /\ Rest(r) = <<>>
    BY <1>7, <2>1, Zenon
  <2> QED
    BY <1>3, <1>6, <2>2, <2>3 DEF Rest
<1>11. CASE op \in {"bat", "init"} /\ Head(r) = "cmd"
  <2>1. \/ op = "bat" /\ r = <<"cmd", "val">>
        \/ op = "init" /\ r = <<"cmd", "val", "val">>
    BY <1>2, <1>11 DEF Rests
  <2>2. CASE op = "bat" /\ r = <<"cmd", "val">>
    <3>1. Answers(op, Head(r)) = <<"ack">> \o <<"val">>
      BY <1>11, <2>2, Zenon DEF Answers
    <3>2. Fine(r) /\ Rest(r) = <<"val">>
      BY <1>8, <2>2, Zenon
    <3> QED
      BY <1>3, <1>6, <3>1, <3>2 DEF Rest
  <2>3. CASE op = "init" /\ r = <<"cmd", "val", "val">>
    <3>1. Answers(op, Head(r)) = <<"ack">> \o <<"val", "val">>
      <4>1. op # "bat"
        BY <2>3
      <4> QED
        BY <1>11, <2>3, <4>1, Zenon DEF Answers
    <3>2. Fine(r) /\ Rest(r) = <<"val", "val">>
      BY <1>8, <2>3, Zenon
    <3> QED
      BY <1>3, <1>6, <3>1, <3>2 DEF Rest
  <2> QED
    BY <2>1, <2>2, <2>3
<1>12. CASE op \in {"bat", "init"} /\ Head(r) # "cmd"
  <2>1. r \in {<<"val">>, <<"val", "val">>}
    BY <1>2, <1>12 DEF Rests
  <2>2. Answers(op, Head(r)) = <<"ack">> \o <<>>
    BY <1>12, Zenon DEF Answers
  <2>3. Fine(r) /\ Head(r) = "val"
    BY <1>2, <1>9, <2>1, Zenon
  <2> QED
    BY <1>3, <1>6, <2>2, <2>3 DEF Rest
<1> QED
  BY <1>10, <1>11, <1>12 DEF CommandOps, UserOps, SetupOps

\* The device of the command takes a byte: its answer is behind what was under way.
LEMMA SentAnswered ==
  ASSUME TypeOK, NEW op, NEW part, React(op, part), obuf' = obuf,
         NEW d \in Device, NoAnswer(Sent(d)), Answers(op, part) \in Seq(Byte)
  PROVE  IF d = DeviceOf(op)
         THEN \E a \in {Answers(op, part), <<"nak">>, <<>>} :
                \E s \in Seq(Byte) : NoAnswer(s) /\ Sent(d)' = s \o a
         ELSE Sent(d)' = Sent(d)
<1>1. PICK a \in {Answers(op, part), <<"nak">>, <<>>} :
        out' = [out EXCEPT ![DeviceOf(op)] = IF op \in {"bat", "init"} /\ a # <<>> THEN a
                                             ELSE @ \o a]
  BY DEF React
<1>2. a \in Seq(Byte) /\ out \in [Device -> Seq(Byte)] /\ obuf.byte \in Byte
      /\ out[d] \in Seq(Byte) /\ Sent(d) \in Seq(Byte)
  BY <1>1, BytesMove, SentTypes DEF TypeOK
<1>3. CASE d # DeviceOf(op)
  BY <1>1, <1>2, <1>3 DEF Sent
<1>4. ASSUME d = DeviceOf(op)
      PROVE  \E s \in Seq(Byte) : NoAnswer(s) /\ Sent(d)' = s \o a
  <2>1. out'[d] \in {a, out[d] \o a}
    BY <1>1, <1>2, <1>4
  <2>2. CASE obuf.full /\ obuf.dev = d
    <3>1. Sent(d) = <<obuf.byte>> \o out[d] /\ Sent(d)' = <<obuf.byte>> \o out'[d]
      BY <2>2 DEF Sent
    <3>2. /\ <<obuf.byte>> \in Seq(Byte)
          /\ Sent(d) # <<>> /\ Head(Sent(d)) = obuf.byte
          /\ <<obuf.byte>> \o (out[d] \o a) = (<<obuf.byte>> \o out[d]) \o a
      <4>1. \A b \in Byte : \A u \in Seq(Byte) :
              <<b>> \in Seq(Byte) /\ <<b>> \o u # <<>> /\ Head(<<b>> \o u) = b
        OBVIOUS
      <4>2. \A b \in Byte : \A u \in Seq(Byte), v \in Seq(Byte) :
              <<b>> \o (u \o v) = (<<b>> \o u) \o v
        BY SMTT(40)
      <4> QED
        BY <1>2, <3>1, <4>1, <4>2
    <3>3. NoAnswer(<<obuf.byte>>)
      <4>1. obuf.byte \notin Answer
        BY <1>2, <3>2, NoneRead
      <4> QED
        BY <4>1 DEF NoAnswer
    <3> QED
      BY <1>2, <2>1, <3>1, <3>2, <3>3
  <2>3. CASE ~(obuf.full /\ obuf.dev = d)
    <3>1. Sent(d) = out[d] /\ Sent(d)' = out'[d]
      BY <2>3 DEF Sent
    <3>2. <<>> \in Seq(Byte) /\ NoAnswer(<<>>) /\ a = <<>> \o a
      BY <1>2 DEF NoAnswer
    <3> QED
      BY <1>2, <2>1, <3>1, <3>2
  <2> QED
    BY <2>2, <2>3
<1> QED
  BY <1>1, <1>3, <1>4

\* More keys and packets come behind what is awaited.
LEMMA MoreReplied ==
  ASSUME NEW s \in Seq(Byte), NEW t \in Seq(Byte), NoAnswer(t), NEW f, Replied(s, f),
         f.op \in CommandOps, f.rest \in Rests(f.op)
  PROVE  Replied(s \o t, f)
<1>1. CASE NoAnswer(s)
  BY <1>1, NoMoreAnswers DEF Replied
<1>2. CASE Head(f.rest) = "val" /\ Fits(s, 0, f.rest)
  <2>1. f.rest \in Seq(Byte)
    BY <1>2, AnswersOf
  <2>2. Fits(s \o t, 0, f.rest)
    BY <1>2, <2>1, MoreBytes
  <2> QED
    BY <1>2, <2>2 DEF Replied
<1>3. ASSUME Head(f.rest) # "val", NEW k \in Nat,
             NEW e \in {<<"nak">>, Answers(f.op, Head(f.rest))}, Fits(s, k, e)
      PROVE  Replied(s \o t, f)
  <2>1. e \in Seq(Byte)
    <3>1. <<"nak">> \in Seq(Byte)
      BY DEF Byte
    <3> QED
      BY <1>3, <3>1, AnswersOf
  <2>2. Fits(s \o t, k, e)
    BY <1>3, <2>1, MoreBytes
  <2> QED
    BY <1>3, <2>2 DEF Replied
<1> QED
  BY <1>1, <1>2, <1>3 DEF Replied

\* Between commands, before a dialogue and behind its answers, nothing is awaited.
LEMMA DialogueShut ==
  ASSUME IInv, ControlInv, Calm
  PROVE  /\ frames = <<>> => ~InDialogue
         /\ handle_74 \/ handle_09 \/ EndMouse \/ EndKey => ~InDialogue /\ ~InDialogue'
         /\ \A op, cost : Begin(op, cost) /\ Calm' => ~InDialogue /\ ~InDialogue'
<1>1. OneCommand /\ ShutOut /\ FramesInv
  BY DEF ControlInv, IInv
<1>2. frames = <<>> => ~InDialogue
  BY DEF InDialogue
<1>3. ASSUME handle_74 \/ handle_09
      PROVE  ~InDialogue /\ ~InDialogue'
  <2>1. ~InDialogue
    BY <1>1, <1>3, Undisturbed
  <2>2. frames' = frames \/ \E d \in Device : Enter(d)
    BY <1>3 DEF handle_74, handle_09, process_mouse, Device
  <2>3. ASSUME NEW d \in Device, Enter(d)
        PROVE  ~InDialogue'
    <3>1. Top'.kind = d /\ d # "cmd"
      BY <1>1, <2>3, Entering DEF Device
    <3> QED
      BY <3>1 DEF InDialogue
  <2> QED
    BY <2>1, <2>2, <2>3, Staying
<1>4. ASSUME EndMouse \/ EndKey
      PROVE  ~InDialogue /\ ~InDialogue'
  <2> DEFINE n == Len(frames)
  <2>1. ~InDialogue /\ frames # <<>> /\ Top.kind # "cmd" /\ frames' = Pop
    BY <1>1, <1>4, Undisturbed DEF EndMouse, EndKey, Executing
  <2>2. /\ Commands' = Commands /\ Commands \subseteq 1 .. n - 1 /\ n \in Nat \ {0}
        /\ \A i \in 1 .. n - 1 : frames'[i] = frames[i]
        /\ Len(frames') = n - 1
    BY <1>1, <2>1, Leaving
  <2>3. ASSUME InDialogue'
        PROVE  FALSE
    <3>1. frames' # <<>> /\ Top'.kind = "cmd" /\ Top'.at # "flush" /\ Top' = frames'[n - 1]
      BY <2>2, <2>3 DEF InDialogue, Top
    <3>2. n - 1 \in 1 .. n - 1
      BY <1>1, <2>1, <2>2, <3>1, Popped
    <3>3. n - 1 \in Commands /\ frames[n - 1].at # "flush"
      BY <1>1, <2>2, <3>1, <3>2 DEF Commands, FramesInv
    <3> QED
      BY <1>1, <2>2, <3>3 DEF ShutOut
  <2> QED
    BY <2>1, <2>3
<1>5. ASSUME NEW op, NEW cost, Begin(op, cost), Calm'
      PROVE  ~InDialogue /\ ~InDialogue'
  <2>1. Commands = {} /\ Top'.at = "flush"
    BY <1>5, Beginning
  <2>2. InDialogue => Len(frames) \in Commands
    BY <1>1, TopRuns DEF InDialogue, Commands
  <2> QED
    BY <2>1, <2>2 DEF InDialogue
<1> QED
  BY <1>2, <1>3, <1>4, <1>5

\* The bytes that ps2_recvbyte() reads leave the rest of the answers for the rest of
\* the script.
LEMMA AnswersTaken ==
  ASSUME IInv, Calm, AnswersInv, RecvByte, NEW d \in Device
  PROVE  IF Awaiting(d)' THEN Replied(Sent(d), Top)' ELSE NoAnswer(Sent(d))'
<1> DEFINE s == Sent(d)
           rest == Top.rest
<1>1. /\ frames # <<>> /\ Top.kind = "cmd" /\ Top.at = "recv" /\ InDialogue
      /\ FramesInv /\ Top \in Frame /\ Top.op \in CommandOps /\ rest \in Rests(Top.op)
      /\ TypeOK
  <2>1. frames # <<>> /\ Top.kind = "cmd" /\ Top.at = "recv" /\ FramesInv /\ TypeOK
    BY DEF RecvByte, InCommand, Executing, IInv
  <2>2. FrameSound(Top) /\ Top \in Frame
    BY <2>1, TopRuns
  <2> QED
    BY <2>1, <2>2 DEF FrameSound, Scripted, InDialogue
<1>2. /\ obuf.full /\ obuf' = [obuf EXCEPT !.full = FALSE] /\ out' = out
  BY DEF RecvByte, devVars
<1>3. ASSUME d # obuf.dev, frames' = frames \/ \E f : frames' = SetTop(f) /\ f.kind = "cmd"
                                                       /\ f.op = Top.op,
             d = DeviceOf(Top.op) => frames' = frames
      PROVE  IF Awaiting(d)' THEN Replied(s', Top') ELSE NoAnswer(s')
  <2>1. s' = s
    BY <1>1, <1>2, <1>3, SentRead
  <2>2. CASE frames' = frames
    BY <2>1, <2>2, Staying DEF AnswersInv, Awaiting
  <2>3. CASE d # DeviceOf(Top.op)
    <3>1. NoAnswer(s) /\ (frames' = frames => ~Awaiting(d)')
      BY <2>3, Staying DEF AnswersInv, Awaiting
    <3>2. ~Awaiting(d)'
      BY <1>1, <1>3, <2>3, <3>1, Moving DEF Awaiting
    <3> QED
      BY <2>1, <3>1, <3>2
  <2> QED
    BY <1>3, <2>2, <2>3
<1>4. ASSUME NEW f, frames' = SetTop(f), f.kind = "cmd"
      PROVE  Top' = f /\ (InDialogue' <=> f.at # "flush")
  BY <1>1, <1>4, Moving DEF InDialogue
<1>5. ASSUME NEW g \in {[Top EXCEPT !.at = "fail"], Proceed}
      PROVE  g.kind = "cmd" /\ g.op = Top.op /\ g.at # "flush"
  BY <1>1, <1>5 DEF Frame, Proceed
<1>6. CASE obuf.dev # d
  <2>1. frames' = frames \/ \E f : frames' = SetTop(f) /\ f.kind = "cmd" /\ f.op = Top.op
    BY <1>5 DEF RecvByte
  <2>2. d = DeviceOf(Top.op) => frames' = frames
    BY <1>6 DEF RecvByte
  <2> QED
    BY <1>3, <1>6, <2>1, <2>2
<1>7. CASE obuf.dev = d
  <2>1. /\ s \in Seq(Byte) /\ s # <<>> /\ Head(s) = obuf.byte /\ s' = Tail(s)
        /\ Tail(s) \in Seq(Byte)
    <3>1. s \in Seq(Byte) /\ s # <<>> /\ Head(s) = obuf.byte /\ s' = Tail(s)
      BY <1>1, <1>2, <1>7, SentRead, SentTypes
    <3> QED
      BY <3>1
  <2>2. CASE DeviceOf(Top.op) # d
    <3>1. frames' = frames /\ ~Awaiting(d) /\ NoAnswer(s)
      BY <1>7, <2>2 DEF RecvByte, Awaiting, AnswersInv
    <3>2. ~Awaiting(d)'
      BY <3>1, Staying DEF Awaiting
    <3> QED
      BY <2>1, <3>1, <3>2, NoneRead
  <2>3. CASE DeviceOf(Top.op) = d
    <3>1. Replied(s, Top)
      BY <1>1, <2>3 DEF AnswersInv, Awaiting
    <3>2. /\ frames' = IF Head(rest) = "val" \/ obuf.byte = "ack" THEN SetTop(Proceed)
                       ELSE IF obuf.byte = "nak" THEN SetTop([Top EXCEPT !.at = "fail"])
                       ELSE frames
      BY <1>7, <2>3 DEF RecvByte
    <3>3. /\ Proceed.at = IF Tail(rest) = <<>> THEN "good"
                          ELSE IF Head(Tail(rest)) = "val" THEN "recv" ELSE "send"
          /\ Proceed.rest = Tail(rest)
      BY <1>1 DEF Frame, Proceed
    <3>4. ASSUME NoAnswer(Tail(s))
          PROVE  Replied(s', Top') /\ NoAnswer(s')
      BY <2>1, <3>4 DEF Replied
    <3>5. CASE NoAnswer(s)
      BY <2>1, <3>4, <3>5, NoneRead
    <3>6. CASE Head(rest) = "val" /\ Fits(s, 0, rest)
      <4>1. /\ rest \in Seq(Byte) /\ rest # <<>>
            /\ Tail(rest) # <<>> => Head(Tail(rest)) = "val"
        BY <1>1, <3>6, AnswersOf
      <4>2. Fits(Tail(s), 0, Tail(rest))
        BY <2>1, <3>6, <4>1, AnswerRead
      <4>3. CASE Tail(rest) = <<>>
        BY <2>1, <3>4, <4>2, <4>3, NothingFits
      <4>4. CASE Tail(rest) # <<>>
        <5>1. Top' = Proceed /\ Proceed.at = "recv" /\ InDialogue' /\ Proceed.op = Top.op
          BY <1>4, <1>5, <3>2, <3>3, <3>6, <4>1, <4>4
        <5>2. Replied(s', Top')
          BY <2>1, <3>3, <4>1, <4>2, <4>4, <5>1 DEF Replied
        <5>3. Awaiting(d)'
          BY <2>3, <5>1 DEF Awaiting
        <5> QED
          BY <5>2, <5>3
      <4> QED
        BY <4>3, <4>4
    <3>7. ASSUME Head(rest) # "val", NEW k \in Nat,
                 NEW e \in {<<"nak">>, Answers(Top.op, Head(rest))}, Fits(s, k, e)
          PROVE  IF Awaiting(d)' THEN Replied(s', Top') ELSE NoAnswer(s')
      <4> DEFINE A == Answers(Top.op, Head(rest))
      <4>1. /\ A \in Seq(Byte) /\ A # <<>> /\ Head(A) = "ack"
            /\ Tail(A) = IF Tail(rest) # <<>> /\ Head(Tail(rest)) = "val" THEN Tail(rest)
                         ELSE <<>>
        BY <1>1, <3>7, AnswersOf
      <4>2. /\ <<"nak">> \in Seq(Byte) /\ <<"nak">> # <<>> /\ Head(<<"nak">>) = "nak"
            /\ Tail(<<"nak">>) = <<>>
        BY DEF Byte
      <4> HIDE DEF A
      <4>3. e \in {<<"nak">>, A} /\ e \in Seq(Byte) /\ e # <<>>
        BY <3>7, <4>1, <4>2 DEF A
      <4>4. CASE k # 0
        <5>1. Head(s) \notin Answer /\ k - 1 \in Nat /\ Fits(Tail(s), k - 1, e)
          BY <2>1, <3>7, <4>3, <4>4, OtherRead
        <5>2. frames' = frames
          BY <2>1, <3>2, <3>7, <5>1 DEF Answer
        <5>3. Top' = Top /\ (InDialogue' <=> InDialogue)
          BY <5>2, Staying
        <5>4. Replied(s', Top')
          BY <2>1, <3>7, <5>1, <5>3 DEF Replied
        <5>5. Awaiting(d)'
          BY <1>1, <2>3, <5>3 DEF Awaiting
        <5> QED
          BY <5>4, <5>5
      <4>5. CASE k = 0
        <5>1. Head(s) = Head(e) /\ Fits(Tail(s), 0, Tail(e))
          BY <2>1, <3>7, <4>3, <4>5, AnswerRead
        <5>2. CASE Tail(e) = <<>>
          BY <2>1, <3>4, <5>1, <5>2, NothingFits
        <5>3. CASE Tail(e) # <<>>
          <6>1. e = A /\ Tail(e) = Tail(rest) /\ Tail(rest) # <<>> /\ Head(Tail(rest)) = "val"
            BY <4>1, <4>2, <4>3, <5>3
          <6>2. /\ frames' = SetTop(Proceed)
                /\ Proceed.at = "recv"
            BY <2>1, <3>2, <3>3, <4>1, <5>1, <6>1
          <6>3. Top' = Proceed /\ InDialogue' /\ Proceed.op = Top.op
            BY <1>4, <1>5, <6>2
          <6>4. Replied(s', Top')
            BY <2>1, <3>3, <5>1, <6>1, <6>3 DEF Replied
          <6>5. Awaiting(d)'
            BY <2>3, <6>2, <6>3 DEF Awaiting
          <6> QED
            BY <6>4, <6>5
        <5> QED
          BY <5>2, <5>3
      <4> QED
        BY <4>4, <4>5
    <3> QED
      BY <3>1, <3>5, <3>6, <3>7 DEF Replied
  <2> QED
    BY <2>2, <2>3
<1> QED
  BY <1>6, <1>7

\* What the devices have sent holds the answers that are waited for, and no others.
LEMMA AnswersStep ==
  ASSUME IInv, ControlInv, ControlInv', AnswersInv, [Next]_vars
  PROVE  AnswersInv'
<1> SUFFICES ASSUME Calm', NEW d \in Device
             PROVE  IF Awaiting(d)' THEN Replied(Sent(d), Top)' ELSE NoAnswer(Sent(d))'
  BY DEF AnswersInv
<1> DEFINE s == Sent(d)
<1>1. Calm /\ OneCommand /\ TypeOK /\ FramesInv
  BY EventsGrow DEF Calm, ControlInv, IInv
<1>2. IF Awaiting(d) THEN Replied(s, Top) ELSE NoAnswer(s)
  BY <1>1 DEF AnswersInv
<1>3. ASSUME frames' = frames, s' = s
      PROVE  IF Awaiting(d)' THEN Replied(s', Top') ELSE NoAnswer(s')
  BY <1>2, <1>3, Staying DEF Awaiting
<1>4. ASSUME ~Awaiting(d), ~Awaiting(d)', s' = s
      PROVE  IF Awaiting(d)' THEN Replied(s', Top') ELSE NoAnswer(s')
  BY <1>2, <1>4
<1>5. ASSUME NEW e \in Device, Transfer(e)
      PROVE  IF Awaiting(d)' THEN Replied(s', Top') ELSE NoAnswer(s')
  <2>1. frames' = frames /\ s' = s
    BY <1>1, <1>5, SentTransferred DEF Transfer
  <2> QED
    BY <1>3, <2>1
<1>6. ASSUME NEW e \in Device, Report(e)
      PROVE  IF Awaiting(d)' THEN Replied(s', Top') ELSE NoAnswer(s')
  <2>1. frames' = frames /\ s \in Seq(Byte)
    BY <1>1, <1>6, SentTypes DEF Report
  <2>2. s' = s \/ \E t \in Seq(Byte) : NoAnswer(t) /\ s' = s \o t
    BY <1>1, <1>6, SentReported, Zenon
  <2>3. ASSUME NEW t \in Seq(Byte), NoAnswer(t), s' = s \o t
        PROVE  IF Awaiting(d)' THEN Replied(s', Top') ELSE NoAnswer(s')
    <3>1. CASE Awaiting(d)
      <4>1. frames # <<>> /\ Top.kind = "cmd" /\ Top.at = "recv"
        BY <3>1 DEF Awaiting, InDialogue
      <4>2. Top.op \in CommandOps /\ Top.rest \in Rests(Top.op)
        BY <1>1, <4>1, TopRuns DEF FrameSound, Scripted
      <4>3. Replied(s \o t, Top)
        BY <1>2, <2>1, <2>3, <3>1, <4>2, MoreReplied
      <4>4. Top' = Top /\ Awaiting(d)'
        BY <2>1, <3>1, Staying DEF Awaiting
      <4> QED
        BY <2>3, <4>3, <4>4
    <3>2. CASE ~Awaiting(d)
      <4>1. ~Awaiting(d)'
        BY <2>1, <3>2, Staying DEF Awaiting
      <4> QED
        BY <1>2, <2>1, <2>3, <3>2, <4>1, NoMoreAnswers
    <3> QED
      BY <3>1, <3>2
  <2> QED
    BY <1>3, <2>1, <2>2, <2>3
<1>7. ASSUME ~InDialogue, ~InDialogue', obuf' \in {obuf, [obuf EXCEPT !.full = FALSE]},
             out' = out
      PROVE  IF Awaiting(d)' THEN Replied(s', Top') ELSE NoAnswer(s')
  <2>1. NoAnswer(s) /\ ~Awaiting(d)' /\ s \in Seq(Byte)
    BY <1>1, <1>2, <1>7, SentTypes DEF Awaiting
  <2>2. s' = s \/ (s # <<>> /\ s' = Tail(s))
    <3>1. CASE obuf' = obuf
      BY <1>7, <3>1 DEF Sent
    <3>2. CASE obuf' = [obuf EXCEPT !.full = FALSE]
      BY <1>1, <1>7, <3>2, SentRead
    <3> QED
      BY <1>7, <3>1, <3>2
  <2>3. NoAnswer(s')
    BY <2>1, <2>2, NoneRead
  <2> QED
    BY <2>1, <2>3
<1>8. CASE SetupProbe
  <2>1. /\ frames = <<>> /\ frames' = <<>> /\ obuf' = [obuf EXCEPT !.full = FALSE]
        /\ out' = out
    BY <1>8 DEF SetupProbe, devVars
  <2> QED
    BY <1>7, <2>1 DEF InDialogue
<1>9. ASSUME NEW op, NEW cost, Begin(op, cost)
      PROVE  IF Awaiting(d)' THEN Replied(s', Top') ELSE NoAnswer(s')
  <2>1. ~InDialogue /\ ~InDialogue'
    BY <1>1, <1>9, DialogueShut
  <2>2. obuf' = obuf /\ out' = out
    BY <1>9 DEF Begin, devVars
  <2> QED
    BY <1>7, <2>1, <2>2
<1>10. CASE Install
  BY <1>3, <1>10 DEF Install, hwVars, devVars, Sent
<1>11. CASE EndFlush
  <2>1. /\ frames # <<>> /\ Top.kind = "cmd" /\ Top.at = "flush" /\ ~InDialogue
        /\ frames' = SetTop([Top EXCEPT !.at = "send"]) /\ obuf' = obuf /\ out' = out
    BY <1>11 DEF EndFlush, InCommand, Executing, Stuck, Calm, devVars, InDialogue
  <2>2. [Top EXCEPT !.at = "send"].kind = "cmd" /\ [Top EXCEPT !.at = "send"].at = "send"
    BY <1>1, <2>1, TopRuns DEF Frame
  <2>3. Top'.at = "send"
    BY <1>1, <2>1, <2>2, Moving
  <2> QED
    BY <1>4, <2>1, <2>3 DEF Awaiting, Sent
<1>12. CASE SendByte
  <2> DEFINE f == [Top EXCEPT !.at = "recv"]
             part == Head(Top.rest)
  <2>1. /\ frames # <<>> /\ Top.kind = "cmd" /\ Top.at = "send" /\ InDialogue
        /\ frames' = SetTop(f) /\ obuf' = obuf /\ React(Top.op, part)
    BY <1>12 DEF SendByte, InCommand, Executing, InDialogue, hwVars
  <2>2. /\ Top.op \in CommandOps /\ Top.rest \in Rests(Top.op) /\ part # "val"
        /\ Top \in Frame
    BY <1>1, <2>1, TopRuns DEF FrameSound, Scripted
  <2>3. /\ f.kind = "cmd" /\ f.at = "recv" /\ f.op = Top.op /\ f.rest = Top.rest
    BY <2>1, <2>2 DEF Frame
  <2>4. Top' = f /\ InDialogue' /\ (Awaiting(d)' <=> DeviceOf(Top.op) = d)
    BY <1>1, <2>1, <2>3, Moving DEF InDialogue, Awaiting
  <2>5. NoAnswer(s) /\ Answers(Top.op, part) \in Seq(Byte)
    BY <1>2, <2>1, <2>2, AnswersOf DEF Awaiting
  <2>6. CASE DeviceOf(Top.op) # d
    BY <1>1, <2>1, <2>4, <2>5, <2>6, SentAnswered
  <2>7. CASE DeviceOf(Top.op) = d
    <3>1. PICK a \in {Answers(Top.op, part), <<"nak">>, <<>>} :
            \E p \in Seq(Byte) : NoAnswer(p) /\ s' = p \o a
      BY <1>1, <2>1, <2>5, <2>7, SentAnswered
    <3>2. PICK p \in Seq(Byte) : NoAnswer(p) /\ s' = p \o a
      BY <3>1
    <3>3. a \in Seq(Byte)
      BY <1>1, <2>5, BytesMove
    <3>4. Len(p) \in Nat /\ Fits(s', Len(p), a)
      BY <3>2, <3>3, AnswersCome
    <3>5. a = <<>> => NoAnswer(s')
      BY <3>2, <3>3
    <3>6. Replied(s', f)
      BY <2>2, <2>3, <3>4, <3>5 DEF Replied
    <3> QED
      BY <2>4, <2>7, <3>6
  <2> QED
    BY <2>6, <2>7
<1>13. CASE RecvByte
  BY <1>1, <1>13, AnswersTaken
<1>14. CASE RecvTimeout
  BY <1>14 DEF RecvTimeout, Calm
<1>15. CASE Finish
  <2>1. Top.at \in {"good", "fail", "failed"} /\ ~InDialogue'
    BY <1>1, <1>15, Ending
  <2>2. s' = s
    BY <1>15 DEF Finish, devVars, Sent
  <2> QED
    BY <1>4, <2>1, <2>2 DEF Awaiting
<1>16. CASE handle_74 \/ handle_09 \/ EndMouse \/ EndKey
  <2>1. ~InDialogue /\ ~InDialogue'
    BY <1>1, <1>16, DialogueShut
  <2>2. out' = out /\ obuf' \in {obuf, [obuf EXCEPT !.full = FALSE]}
    BY <1>16 DEF handle_74, handle_09, EndMouse, EndKey, devVars, hwVars
  <2> QED
    BY <1>7, <2>1, <2>2
<1>17. CASE UNCHANGED vars
  BY <1>3, <1>17 DEF vars, hwVars, devVars, Sent
<1> QED
  BY <1>5, <1>6, <1>8, <1>9, <1>10, <1>11, <1>12, <1>13, <1>14, <1>15, <1>16, <1>17
  DEF Next, SetupCommand, Command, Initialize

\* The keyboard interrupt that handle_09() serves finds no answer in the buffer.
LEMMA HeldStep ==
  ASSUME IInv, ControlInv, ControlInv', AnswersInv, AnswersInv', HeldInv, [Next]_vars
  PROVE  HeldInv'
<1> SUFFICES ASSUME Calm', "held" \notin events'
             PROVE  /\ "leaked" \notin events'
                    /\ "kbd" \in pend' =>
                         /\ ~InDialogue' /\ obuf'.byte \notin Answer
                         /\ \A i \in Commands' :
                              \A j \in 1 .. i - 1 : frames'[j].kind # "kbd"
  BY DEF HeldInv
<1> DEFINE Clear == \A i \in Commands : \A j \in 1 .. i - 1 : frames[j].kind # "kbd"
<1>1. /\ Calm /\ OneCommand /\ ShutOut /\ TypeOK /\ FramesInv
      /\ "held" \notin events
  BY EventsGrow DEF Calm, ControlInv, IInv
<1>2. /\ "leaked" \notin events
      /\ "kbd" \in pend => ~InDialogue /\ obuf.byte \notin Answer /\ Clear
  BY <1>1 DEF HeldInv
<1>3. obuf \in [full : BOOLEAN, dev : Device, byte : Byte]
  BY <1>1 DEF TypeOK
<1>4. CASE "kbd" \notin pend' /\ events' = events
  BY <1>2, <1>4
<1>5. ASSUME frames' = frames, pend' = pend, obuf'.byte = obuf.byte,
             "leaked" \notin events'
      PROVE  /\ "leaked" \notin events'
             /\ "kbd" \in pend' =>
                  /\ ~InDialogue' /\ obuf'.byte \notin Answer
                  /\ \A i \in Commands' : \A j \in 1 .. i - 1 : frames'[j].kind # "kbd"
  BY <1>2, <1>5, Staying
<1>6. ASSUME NEW e \in Device, Transfer(e)
      PROVE  /\ "leaked" \notin events'
             /\ "kbd" \in pend' =>
                  /\ ~InDialogue' /\ obuf'.byte \notin Answer
                  /\ \A i \in Commands' : \A j \in 1 .. i - 1 : frames'[j].kind # "kbd"
  <2>1. /\ frames' = frames /\ events' = events /\ out[e] # <<>> /\ ~obuf.full
        /\ obuf' = [full |-> TRUE, dev |-> e, byte |-> Head(out[e])]
        /\ pend' = IF INT(e) \in ctr THEN pend \cup {e} ELSE pend
    BY <1>6 DEF Transfer
  <2>2. CASE Commands = {}
    <3>1. Len(frames) \notin Commands
      BY <2>2
    <3>2. ~InDialogue
      BY <1>1, <3>1, TopRuns DEF InDialogue, Commands
    <3>3. NoAnswer(Sent(e)) /\ Sent(e) = out[e] /\ Sent(e) \in Seq(Byte)
      BY <1>1, <1>6, <2>1, <3>2, SentTypes DEF AnswersInv, Awaiting, Sent
    <3>4. Head(out[e]) \notin Answer
      BY <2>1, <3>3, NoneRead
    <3> QED
      BY <1>2, <2>1, <2>2, <3>2, <3>4, Staying
  <2>3. CASE Commands # {}
    <3>1. pend' = pend
      BY <1>1, <1>6, <2>1, <2>3 DEF ShutOut, INT
    <3>2. CASE InDialogue
      BY <1>2, <2>1, <3>1, <3>2
    <3>3. CASE ~InDialogue
      <4>1. NoAnswer(Sent(e)) /\ Sent(e) = out[e] /\ Sent(e) \in Seq(Byte)
        BY <1>1, <1>6, <2>1, <3>3, SentTypes DEF AnswersInv, Awaiting, Sent
      <4>2. Head(out[e]) \notin Answer
        BY <2>1, <4>1, NoneRead
      <4> QED
        BY <1>2, <2>1, <3>1, <3>3, <4>2, Staying
    <3> QED
      BY <3>2, <3>3
  <2> QED
    BY <2>2, <2>3
<1>7. ASSUME NEW e \in Device, Report(e)
      PROVE  /\ "leaked" \notin events'
             /\ "kbd" \in pend' =>
                  /\ ~InDialogue' /\ obuf'.byte \notin Answer
                  /\ \A i \in Commands' : \A j \in 1 .. i - 1 : frames'[j].kind # "kbd"
  <2>1. frames' = frames /\ pend' = pend /\ obuf' = obuf /\ events' = events
    BY <1>7 DEF Report, hwVars
  <2> QED
    BY <1>2, <1>5, <2>1
<1>8. CASE SetupProbe
  <2>1. frames' = frames /\ pend' = pend /\ obuf'.byte = obuf.byte /\ events' = events
    BY <1>3, <1>8 DEF SetupProbe
  <2> QED
    BY <1>2, <1>5, <2>1
<1>9. ASSUME NEW op, NEW cost, Begin(op, cost)
      PROVE  /\ "leaked" \notin events'
             /\ "kbd" \in pend' =>
                  /\ ~InDialogue' /\ obuf'.byte \notin Answer
                  /\ \A i \in Commands' : \A j \in 1 .. i - 1 : frames'[j].kind # "kbd"
  <2> DEFINE n == Len(frames)
  <2>1. /\ Commands' = {n + 1} /\ n \in Nat /\ WriteCtr(Shut(Updated(op)))
        /\ \A i \in 1 .. n : frames'[i] = frames[i]
    BY <1>9, Beginning
  <2>2. pend' = pend
    <3>1. /\ "KBDINT" \notin Shut(Updated(op)) /\ "AUXINT" \notin Shut(Updated(op))
          /\ Shut(Updated(op)) \in SUBSET Bits
      BY <1>1, ControlBytes DEF Shut, TypeOK
    <3> QED
      BY <2>1, <3>1, NoInterruptRaised
  <2>3. "leaked" \notin events' /\ obuf' = obuf
    BY <1>2, <1>9 DEF Begin
  <2>4. ~InDialogue'
    BY <1>1, <1>9, DialogueShut
  <2>5. "kbd" \in pend => ~InService("kbd")
    BY <1>9 DEF Begin
  <2>6. "kbd" \in pend => \A j \in 1 .. n : frames[j].kind # "kbd"
    BY <1>1, <2>5 DEF InService, FramesInv
  <2> QED
    BY <1>2, <2>1, <2>2, <2>3, <2>4, <2>6
<1>10. CASE Install
  <2>1. frames' = frames /\ pend' = pend /\ obuf' = obuf /\ "leaked" \notin events'
    BY <1>2, <1>10 DEF Install, hwVars
  <2> QED
    BY <1>5, <2>1
<1>11. CASE EndFlush
  <2> DEFINE n == Len(frames)
             c == Shut(Top.saved) \ {DIS(DeviceOf(Top.op))}
  <2>1. /\ frames # <<>> /\ Top.kind = "cmd" /\ Deliverable = {}
        /\ WriteCtr(c) /\ events' = events
    BY <1>11 DEF EndFlush, InCommand, Executing, Stuck, Calm
  <2>2. n \in Commands /\ frames[n] = Top /\ n \in Nat \ {0} /\ DOMAIN frames = 1 .. n
        /\ Top.saved \subseteq Bits
    BY <1>1, <2>1, TopRuns, Popped DEF Commands, Frame
  <2>3. pend' = pend
    <3>1. /\ "KBDINT" \notin c /\ "AUXINT" \notin c /\ c \in SUBSET Bits
      BY <1>1, <2>2, ControlBytes DEF Shut, TypeOK
    <3> HIDE DEF c
    <3> QED
      BY <2>1, <3>1, NoInterruptRaised
  <2>4. ASSUME "kbd" \in pend
        PROVE  FALSE
    <3>1. \A j \in 1 .. n - 1 : frames[j].kind # "kbd"
      BY <1>2, <2>2, <2>4
    <3>2. ~InService("kbd")
      BY <2>1, <2>2, <3>1 DEF InService
    <3> QED
      BY <2>1, <2>4, <3>2 DEF Deliverable
  <2> QED
    BY <1>4, <2>1, <2>3, <2>4
<1>12. CASE SendByte \/ RecvByte
  <2>1. pend' = pend /\ events' = events /\ InDialogue
    BY <1>12 DEF SendByte, RecvByte, InCommand, Executing, hwVars, InDialogue
  <2> QED
    BY <1>2, <1>4, <2>1
<1>13. CASE RecvTimeout
  BY <1>13 DEF RecvTimeout, Calm
<1>14. CASE Finish
  <2>1. Commands' = {} /\ ~InDialogue' /\ InDialogue
    BY <1>1, <1>14, Ending
  <2>2. events' = events /\ obuf' = obuf
    BY <1>14 DEF Finish, Stuck, Calm
  <2>3. "kbd" \notin pend
    BY <1>2, <2>1
  <2>4. "kbd" \in pend' => obuf.full /\ obuf.dev = "kbd"
    BY <1>14, <2>3 DEF Finish, Stuck, WriteCtr
  <2>5. ASSUME obuf.full, obuf.dev = "kbd"
        PROVE  obuf.byte \notin Answer
    <3>1. NoAnswer(Sent("kbd")')
      BY <2>1 DEF AnswersInv, Awaiting, Device
    <3>2. Sent("kbd")' = Sent("kbd")
      BY <1>14 DEF Finish, devVars, Sent
    <3>3. /\ Sent("kbd") = <<obuf.byte>> \o out["kbd"]
          /\ obuf.byte \in Byte /\ out["kbd"] \in Seq(Byte)
      BY <1>1, <2>5, SentTypes DEF Sent, Device
    <3>4. /\ Sent("kbd") # <<>> /\ Head(Sent("kbd")) = obuf.byte
          /\ Sent("kbd") \in Seq(Byte)
      <4>1. \A b \in Byte : \A u \in Seq(Byte) :
              <<b>> \o u \in Seq(Byte) /\ <<b>> \o u # <<>> /\ Head(<<b>> \o u) = b
        OBVIOUS
      <4> QED
        BY <3>3, <4>1
    <3> QED
      BY <3>1, <3>2, <3>4, NoneRead
  <2> QED
    BY <1>2, <2>1, <2>2, <2>4, <2>5
<1>15. CASE handle_74
  <2>1. /\ ~InDialogue' /\ ("kbd" \in pend' => "kbd" \in pend)
    BY <1>1, <1>15, DialogueShut DEF handle_74
  <2>2. obuf'.byte = obuf.byte /\ "leaked" \notin events'
    BY <1>2, <1>3, <1>15 DEF handle_74, process_mouse, Called
  <2>3. CASE frames' = frames
    BY <1>2, <2>1, <2>2, <2>3, Staying
  <2>4. CASE Enter("aux")
    <3>1. /\ Commands' = Commands /\ Commands \subseteq 1 .. Len(frames)
          /\ \A i \in 1 .. Len(frames) : frames'[i] = frames[i]
          /\ Len(frames) \in Nat
      BY <1>1, <2>4, Entering DEF Device
    <3>2. \A i \in Commands : \A j \in 1 .. i - 1 : j \in 1 .. Len(frames)
      BY <3>1
    <3> QED
      BY <1>2, <2>1, <2>2, <3>1, <3>2
  <2> QED
    BY <1>15, <2>3, <2>4 DEF handle_74, process_mouse
<1>16. CASE handle_09
  <2>1. "kbd" \notin pend' /\ "kbd" \in pend
    BY <1>16 DEF handle_09, Deliverable
  <2>2. "leaked" \notin events'
    BY <1>2, <1>16, <2>1 DEF handle_09
  <2> QED
    BY <2>1, <2>2
<1>17. CASE EndMouse \/ EndKey
  <2> DEFINE n == Len(frames)
  <2>1. ~InDialogue /\ frames # <<>> /\ Top.kind # "cmd" /\ frames' = Pop /\ ~InDialogue'
    BY <1>1, <1>17, Undisturbed, DialogueShut DEF EndMouse, EndKey, Executing
  <2>2. pend' = pend /\ events' = events /\ obuf' = obuf
    BY <1>17 DEF EndMouse, EndKey, WriteCtr, Stuck, hwVars, Calm
  <2>3. /\ Commands' = Commands /\ Commands \subseteq 1 .. n - 1 /\ n \in Nat \ {0}
        /\ \A i \in 1 .. n - 1 : frames'[i] = frames[i]
    BY <1>1, <2>1, Leaving
  <2>4. \A i \in Commands : \A j \in 1 .. i - 1 : j \in 1 .. n - 1
    BY <2>3
  <2> QED
    BY <1>2, <2>1, <2>2, <2>3, <2>4
<1>18. CASE UNCHANGED vars
  <2>1. frames' = frames /\ pend' = pend /\ obuf' = obuf /\ events' = events
    BY <1>18 DEF vars, hwVars
  <2> QED
    BY <1>2, <1>5, <2>1
<1> QED
  BY <1>6, <1>7, <1>8, <1>9, <1>10, <1>11, <1>12, <1>13, <1>14, <1>15, <1>16, <1>17, <1>18
  DEF Next, SetupCommand, Command, Initialize

\* Processes read answers as keys only if a command timed out, was nested or was
\* given behind a key that waits.
LEMMA AnswersStart == Init => ControlInv /\ AnswersInv /\ HeldInv
<1> SUFFICES ASSUME Init
             PROVE  ControlInv /\ AnswersInv /\ HeldInv
  OBVIOUS
<1>1. /\ frames = <<>> /\ events = {} /\ pend = {} /\ ~obuf.full
      /\ \A d \in Device : out[d] = <<>>
  BY DEF Init
<1>2. Commands = {} /\ ~InDialogue
  BY <1>1 DEF Commands, InDialogue
<1>3. \A d \in Device : NoAnswer(Sent(d))
  BY <1>1 DEF NoAnswer, Sent
<1> QED
  BY <1>1, <1>2, <1>3 DEF ControlInv, OneCommand, ShutOut, AnswersInv, HeldInv, Awaiting

\* The three parts about the dialogue hold in every reachable state.
LEMMA DialogueInvariance == Spec => [](ControlInv /\ AnswersInv /\ HeldInv)
<1> DEFINE Inv == ControlInv /\ AnswersInv /\ HeldInv
<1>1. Init => Inv
  BY AnswersStart
<1>2. IInv /\ IInv' /\ Inv /\ [Next]_vars => Inv'
  BY ControlStep, AnswersStep, HeldStep
<1> QED
  BY <1>1, <1>2, Invariance, PTL DEF Spec

\* The answers of the keyboard and the mouse stay in the dialogue of the command, for
\* any number of calls, keys, packets and faults: ps2_recvbyte() takes them all.
THEOREM AnswersCorrect == Spec => []AnswersNotKeys
<1>1. HeldInv => AnswersNotKeys
  BY DEF HeldInv, Calm, AnswersNotKeys
<1> QED
  BY <1>1, DialogueInvariance, PTL

-------------------------------------------------------------------------------
(* The packets.  Commands to the mouse that are not mixed with what it sends   *)
(* find it silent, so it is turned on once and talks from then on: commands to *)
(* the keyboard start between the interrupts, and its bytes wait for their end *)
(* outside the buffer.                                                         *)

Unmixed == events \cap {"late", "nested", "inside", "stuck", "mixed"} = {}

Quiet ==
  /\ mouse_flag1 = 0
  /\ \A i \in 1 .. Len(Sent("aux")) : Sent("aux")[i] \in Answer

\* s goes on with a packet of which m bytes have been read, and ends with a packet.
Whole(s, m) ==
  /\ \A i \in 1 .. Len(s) : s[i] = Packet[((m + (i - 1)) % 3) + 1]
  /\ (m + Len(s)) % 3 = 0

\* The acknowledgement of the command that turned the mouse on may be ahead.
Stream == IF Awaiting("aux") THEN Tail(Sent("aux")) ELSE Sent("aux")

AlignInv ==
  /\ Awaiting("aux") => Sent("aux") # <<>> /\ Head(Sent("aux")) = "ack"
  /\ mouse_flag2.count = 3 =>
       /\ Whole(Stream, mouse_flag1)
       /\ \A j \in 0 .. 2 : j < mouse_flag1 => mouse_data[j] = Packet[j + 1]

PathInv ==
  /\ \A i \in Commands :
       /\ "AUXINT" \in frames[i].saved
       /\ IF DeviceOf(frames[i].op) = "kbd" THEN i = 1
          ELSE frames[i].op = "enable" /\ frames[i].at \in {"recv", "good", "fail"}
  /\ ~InDialogue => "AUXINT" \in Ps2ctr
  /\ Commands = {} => "AUXINT" \in ctr
  /\ obuf.full /\ obuf.dev = "aux" =>
       IF InDialogue THEN Top.op = "enable" ELSE "aux" \in pend

Talking == mouse_flag2.on /\ setup \in {"done", "off"} /\ AlignInv /\ PathInv

EnableInv ==
  \A i \in Commands : frames[i].op = "enable" =>
    /\ mouse_flag2.on /\ setup \in {"done", "off"}
    /\ "AUXINT" \in frames[i].saved

PacketInv ==
  Unmixed => /\ "torn" \notin events
             /\ EnableInv
             /\ IF "aux" \in reports THEN Talking ELSE Quiet

\* What is left of a number of bytes when whole packets are taken off.
LEMMA Thirds ==
  /\ \A a \in Nat : a % 3 = 0 => \E q \in Nat : a = 3 * q
  /\ \A q \in Nat : \A j \in 0 .. 2 : (3 * q + j) % 3 = j
  /\ \A a \in Nat : (a + 3) % 3 = a % 3
<1>1. \A a \in Nat : a % 3 = 0 => \E q \in Nat : a = 3 * q
  BY SMTT(30)
<1>2. \A q \in Nat : \A j \in 0 .. 2 : (3 * q + j) % 3 = j
  BY SMTT(30)
<1>3. \A a \in Nat : (a + 3) % 3 = a % 3
  BY SMTT(30)
<1> QED
  BY <1>1, <1>2, <1>3

\* Another packet behind whole ones.
LEMMA WholeMore ==
  ASSUME NEW s \in Seq(Byte), NEW m \in 0 .. 2, Whole(s, m)
  PROVE  Whole(s \o Packet, m)
<1> DEFINE n == Len(s)
           u == s \o Packet
<1>0. n \in Nat
  OBVIOUS
<1>1. n \in Nat /\ (m + n) % 3 = 0 /\ Packet \in Seq(Byte) /\ Len(Packet) = 3
  BY DEF Whole, Packet, Byte
<1>2. /\ Len(u) = n + 3
      /\ \A i \in 1 .. n + 3 : u[i] = IF i <= n THEN s[i] ELSE Packet[i - n]
  <2>1. \A p, q \in Seq(Byte) :
          /\ Len(p \o q) = Len(p) + Len(q)
          /\ \A i \in 1 .. Len(p) + Len(q) :
               (p \o q)[i] = IF i <= Len(p) THEN p[i] ELSE q[i - Len(p)]
    OBVIOUS
  <2> QED
    BY <1>1, <2>1
<1> HIDE DEF n, u
<1>3. \A i \in 1 .. n : u[i] = Packet[((m + (i - 1)) % 3) + 1]
  BY <1>1, <1>2 DEF Whole, n
<1>4. ASSUME NEW i \in n + 1 .. n + 3
      PROVE  u[i] = Packet[((m + (i - 1)) % 3) + 1]
  <2>1. (m + (i - 1)) % 3 = (i - 1) - n
    <3>1. m + n \in Nat
      BY <1>0
    <3>2. PICK q \in Nat : m + n = 3 * q
      BY <1>1, <3>1, Thirds, Zenon
    <3>3. PICK j \in 0 .. 2 : i - 1 = n + j
      <4>1. (i - 1) - n \in 0 .. 2 /\ i - 1 = n + ((i - 1) - n)
        BY <1>0
      <4> QED
        BY <4>1
    <3>4. m + (i - 1) = 3 * q + j /\ (i - 1) - n = j
      BY <1>0, <3>2, <3>3
    <3>5. (3 * q + j) % 3 = j
      BY Thirds, Zenon
    <3> QED
      BY <3>4, <3>5, Zenon
  <2>2. ((m + (i - 1)) % 3) + 1 = i - n
    BY <1>0, <2>1
  <2>3. i \in 1 .. n + 3 /\ ~(i <= n)
    BY <1>0
  <2>4. u[i] = Packet[i - n]
    BY <1>2, <2>3
  <2> QED
    BY <2>2, <2>4, Zenon
<1>5. (m + (n + 3)) % 3 = 0
  <2>1. m + n \in Nat /\ m + (n + 3) = (m + n) + 3
    BY <1>0
  <2>2. ((m + n) + 3) % 3 = (m + n) % 3
    BY <2>1, Thirds, Zenon
  <2> QED
    BY <1>1, <2>1, <2>2, Zenon
<1>6. \A i \in 1 .. n + 3 : i \in 1 .. n \/ i \in n + 1 .. n + 3
  BY <1>0
<1>7. \A i \in 1 .. n + 3 : u[i] = Packet[((m + (i - 1)) % 3) + 1]
  BY <1>3, <1>4, <1>6, Zenon
<1>8. \A i \in 1 .. Len(u) : u[i] = Packet[((m + (i - 1)) % 3) + 1]
  BY <1>2, <1>7, Zenon
<1>9. (m + Len(u)) % 3 = 0
  BY <1>2, <1>5, Zenon
<1> QED
  BY <1>8, <1>9, Zenon DEF Whole, u

\* The next byte of a packet.
LEMMA WholeRead ==
  ASSUME NEW s \in Seq(Byte), s # <<>>, NEW m \in 0 .. 2, Whole(s, m)
  PROVE  /\ Head(s) = Packet[m + 1]
         /\ m < 2 => Whole(Tail(s), m + 1)
         /\ m = 2 => Whole(Tail(s), 0)
<1> DEFINE n == Len(s)
<1>0. n \in Nat \ {0}
  OBVIOUS
<1>1. /\ n \in Nat \ {0} /\ Len(Tail(s)) = n - 1 /\ Head(s) = s[1]
      /\ \A i \in 1 .. n - 1 : Tail(s)[i] = s[i + 1] /\ i + 1 \in 1 .. n
      /\ (m + n) % 3 = 0
  BY DEF Whole
<1>a. \A i \in 1 .. n : s[i] = Packet[((m + (i - 1)) % 3) + 1]
  BY DEF Whole
<1> HIDE DEF n
<1>2. Head(s) = Packet[m + 1]
  <2>1. 1 \in 1 .. n /\ ((m + (1 - 1)) % 3) + 1 = m + 1
    BY <1>0
  <2>2. s[1] = Packet[((m + (1 - 1)) % 3) + 1]
    BY <1>a, <2>1, Zenon
  <2> QED
    BY <1>1, <2>1, <2>2, Zenon
<1>3. ASSUME NEW i \in 1 .. n - 1
      PROVE  Tail(s)[i] = Packet[((m + i) % 3) + 1]
  <2>1. i + 1 \in 1 .. n /\ (i + 1) - 1 = i
    BY <1>0
  <2>2. s[i + 1] = Packet[((m + ((i + 1) - 1)) % 3) + 1]
    BY <1>a, <2>1, Zenon
  <2> QED
    BY <1>1, <2>1, <2>2, Zenon
<1>4. ASSUME m < 2
      PROVE  Whole(Tail(s), m + 1)
  <2>1. \A i \in 1 .. n - 1 : (m + 1) + (i - 1) = m + i
    BY <1>0
  <2>2. (m + 1) + (n - 1) = m + n
    BY <1>0
  <2> QED
    BY <1>1, <1>3, <2>1, <2>2, Zenon DEF Whole
<1>5. ASSUME m = 2
      PROVE  Whole(Tail(s), 0)
  <2>1. ASSUME NEW i \in 1 .. n
        PROVE  (0 + (i - 1)) % 3 = (m + i) % 3
    <3>1. i - 1 \in Nat /\ 0 + (i - 1) = i - 1 /\ m + i = (i - 1) + 3
      BY <1>0, <1>5
    <3>2. ((i - 1) + 3) % 3 = (i - 1) % 3
      BY <3>1, Thirds, Zenon
    <3> QED
      BY <3>1, <3>2, Zenon
  <2>2. (0 + (n - 1)) % 3 = 0
    <3>1. n \in 1 .. n
      BY <1>0
    <3>2. (0 + (n - 1)) % 3 = (m + n) % 3
      BY <2>1, <3>1, Zenon
    <3> QED
      BY <1>1, <3>2, Zenon
  <2>3. \A i \in 1 .. n - 1 : i \in 1 .. n
    BY <1>0
  <2>4. \A i \in 1 .. n - 1 : (0 + (i - 1)) % 3 = (m + i) % 3
    BY <2>1, <2>3, Zenon
  <2>5. \A i \in 1 .. n - 1 : Tail(s)[i] = Packet[((0 + (i - 1)) % 3) + 1]
    BY <1>3, <2>4, Zenon
  <2> QED
    BY <1>1, <2>2, <2>5, Zenon DEF Whole
<1> QED
  BY <1>2, <1>4, <1>5

\* The commands through the steps that neither begin nor end one.
LEMMA CommandsKept ==
  ASSUME IInv,
         EndFlush \/ SendByte \/ RecvByte \/ RecvTimeout
           \/ handle_74 \/ handle_09 \/ EndMouse \/ EndKey
  PROVE  /\ Commands' = Commands /\ setup' = setup /\ mouse_flag2' = mouse_flag2
         /\ \A i \in Commands : /\ frames'[i].op = frames[i].op
                                /\ frames'[i].saved = frames[i].saved
<1>1. FramesInv
  BY DEF IInv
<1>2. setup' = setup /\ mouse_flag2' = mouse_flag2
  BY DEF EndFlush, SendByte, RecvByte, RecvTimeout, handle_74, process_mouse, handle_09,
         EndMouse, EndKey, mouseVars
<1>3. CASE frames' = frames
  BY <1>2, <1>3, Staying
<1>4. ASSUME EndFlush \/ SendByte \/ RecvByte \/ RecvTimeout
      PROVE  /\ Commands' = Commands
             /\ \A i \in Commands : /\ frames'[i].op = frames[i].op
                                    /\ frames'[i].saved = frames[i].saved
  <2> DEFINE Moves == {[Top EXCEPT !.at = "send"], [Top EXCEPT !.at = "recv"],
                       [Top EXCEPT !.at = "fail"], Proceed}
  <2>1. frames # <<>> /\ Top.kind = "cmd"
    BY <1>4 DEF EndFlush, SendByte, RecvByte, RecvTimeout, InCommand, Executing
  <2>2. Top \in Frame
    BY <1>1, <2>1, TopRuns
  <2>3. \A f \in Moves : f.kind = "cmd" /\ f.op = Top.op /\ f.saved = Top.saved
    BY <2>1, <2>2 DEF Frame, Proceed
  <2>4. frames' = frames \/ \E f \in Moves : frames' = SetTop(f)
    BY <1>4 DEF EndFlush, SendByte, RecvByte, RecvTimeout
  <2> HIDE DEF Moves
  <2>5. CASE frames' = frames
    BY <2>5, Staying
  <2>6. ASSUME NEW f \in Moves, frames' = SetTop(f)
        PROVE  /\ Commands' = Commands
               /\ \A i \in Commands : /\ frames'[i].op = frames[i].op
                                      /\ frames'[i].saved = frames[i].saved
    <3>1. /\ Commands' = Commands /\ frames[Len(frames)] = Top /\ frames'[Len(frames)] = f
          /\ \A i \in 1 .. Len(frames) : i # Len(frames) => frames'[i] = frames[i]
          /\ DOMAIN frames = 1 .. Len(frames)
      BY <1>1, <2>1, <2>3, <2>6, Moving
    <3>2. f.op = Top.op /\ f.saved = Top.saved
      BY <2>3
    <3>3. Commands \subseteq DOMAIN frames
      BY DEF Commands
    <3>4. ASSUME NEW i \in Commands
          PROVE  frames'[i].op = frames[i].op /\ frames'[i].saved = frames[i].saved
      <4>1. CASE i = Len(frames)
        <5>1. frames'[i] = f /\ frames[i] = Top
          BY <3>1, <4>1, Zenon
        <5> QED
          BY <3>2, <5>1, Zenon
      <4>2. CASE i # Len(frames)
        <5>1. i \in 1 .. Len(frames)
          BY <3>1, <3>3, Zenon
        <5>2. frames'[i] = frames[i]
          BY <3>1, <4>2, <5>1, Zenon
        <5> QED
          BY <5>2, Zenon
      <4> QED
        BY <4>1, <4>2
    <3> QED
      BY <3>1, <3>4, Zenon
  <2> QED
    BY <2>4, <2>5, <2>6
<1>5. ASSUME handle_74 \/ handle_09
      PROVE  /\ Commands' = Commands
             /\ \A i \in Commands : frames'[i] = frames[i]
  <2>1. frames' = frames \/ \E d \in Device : Enter(d)
    BY <1>5 DEF handle_74, handle_09, process_mouse, Device
  <2> QED
    BY <1>1, <2>1, Staying, Entering
<1>6. ASSUME EndMouse \/ EndKey
      PROVE  /\ Commands' = Commands
             /\ \A i \in Commands : frames'[i] = frames[i]
  <2>1. frames # <<>> /\ Top.kind # "cmd" /\ frames' = Pop
    BY <1>6 DEF EndMouse, EndKey, Executing
  <2> QED
    BY <1>1, <2>1, Leaving
<1> QED
  BY <1>2, <1>4, <1>5, <1>6

\* Commands to the mouse and its switch in mouse_flag2 stay in step.
LEMMA EnableStep ==
  ASSUME IInv, ControlInv, EnableInv, Calm', [Next]_vars
  PROVE  EnableInv'
<1>1. Calm /\ OneCommand /\ FramesInv
  BY EventsGrow DEF Calm, ControlInv, IInv
<1>2. ASSUME frames' = frames, setup' = setup, mouse_flag2.on => mouse_flag2'.on
      PROVE  EnableInv'
  BY <1>2, Staying DEF EnableInv
<1>3. CASE Commands' = {}
  BY <1>3 DEF EnableInv
<1>4. CASE \E d \in Device : Transfer(d) \/ Report(d)
  BY <1>2, <1>4 DEF Transfer, Report, mouseVars
<1>5. CASE SetupProbe
  <2>1. Commands' = {}
    BY <1>5 DEF SetupProbe, Commands
  <2> QED
    BY <1>3, <2>1
<1>6. ASSUME NEW op, NEW cost, Begin(op, cost),
             op = "enable" => mouse_flag2'.on /\ setup \in {"done", "off"}
      PROVE  EnableInv'
  <2> DEFINE n == Len(frames)
  <2>1. /\ Commands' = {n + 1} /\ Top'.op = op /\ Top'.saved = Updated(op)
        /\ Top' = frames'[n + 1]
    BY <1>6, Beginning
  <2>2. setup' = setup /\ "AUXINT" \in Updated("enable")
    BY <1>6 DEF Begin, Updated
  <2> QED
    BY <1>6, <2>1, <2>2 DEF EnableInv
<1>7. CASE SetupCommand
  BY <1>6, <1>7 DEF SetupCommand, SetupOps
<1>8. ASSUME NEW op \in Ops, Command(op)
      PROVE  EnableInv'
  BY <1>6, <1>8 DEF Command, MayCall, mouseVars
<1>9. CASE Initialize
  BY <1>6, <1>9 DEF Initialize
<1>10. CASE Install
  <2>1. mouse_flag2' = [mouse_flag2 EXCEPT !.on = TRUE]
    BY <1>10 DEF Install
  <2>2. mouse_flag2 \in Flags2
    BY DEF IInv, TypeOK, Flags2
  <2>3. mouse_flag2'.on
    BY <2>1, <2>2 DEF Flags2
  <2> QED
    BY <1>2, <1>10, <2>3 DEF Install
<1>11. CASE EndFlush \/ SendByte \/ RecvByte \/ RecvTimeout
              \/ handle_74 \/ handle_09 \/ EndMouse \/ EndKey
  BY <1>11, CommandsKept DEF EnableInv
<1>12. CASE Finish
  BY <1>1, <1>3, <1>12, Ending
<1>13. CASE UNCHANGED vars
  BY <1>2, <1>13 DEF vars, mouseVars
<1> QED
  BY <1>4, <1>5, <1>7, <1>8, <1>9, <1>10, <1>11, <1>12, <1>13 DEF Next

\* A mouse that has not been turned on has sent nothing, unless it answers.
LEMMA QuietSends ==
  ASSUME TypeOK, AnswersInv, Calm, Quiet, ~Awaiting("aux")
  PROVE  /\ Sent("aux") = <<>> /\ out["aux"] = <<>>
         /\ ~(obuf.full /\ obuf.dev = "aux")
<1>1. /\ Sent("aux") \in Seq(Byte) /\ obuf.byte \in Byte /\ out["aux"] \in Seq(Byte)
      /\ NoAnswer(Sent("aux"))
  BY SentTypes DEF AnswersInv, Device
<1>2. Len(Sent("aux")) = 0
  <2>1. Len(Sent("aux")) \in Nat /\ 1 \notin 1 .. Len(Sent("aux"))
    BY <1>1 DEF Quiet, NoAnswer
  <2> QED
    BY <2>1
<1>3. Sent("aux") = <<>>
  BY <1>1, <1>2
<1>4. <<obuf.byte>> \o out["aux"] # <<>>
  BY <1>1
<1> QED
  BY <1>3, <1>4 DEF Sent

\* Whatever a device answers is made of the bytes of answers.
LEMMA AnswersOnly ==
  ASSUME NEW op, NEW part, NEW a \in {Answers(op, part), <<"nak">>, <<>>}
  PROVE  \A i \in 1 .. Len(a) : a[i] \in Answer
<1> DEFINE Pure(s) == s \in Seq(Answer)
<1>1. Pure(<<>>) /\ Pure(<<"nak">>) /\ Pure(<<"ack">>) /\ Pure(<<"val">>)
      /\ Pure(<<"val", "val">>)
  BY DEF Answer
<1>2. \A s, t : Pure(s) /\ Pure(t) => Pure(s \o t)
  OBVIOUS
<1> HIDE DEF Pure
<1>3. Pure(Answers(op, part))
  BY <1>1, <1>2 DEF Answers
<1>4. Pure(a)
  BY <1>1, <1>3
<1> QED
  BY <1>4 DEF Pure

\* While the mouse is silent it stays so, until the command that turns it on is
\* acknowledged.
LEMMA QuietStep ==
  ASSUME IInv, ControlInv, AnswersInv, EnableInv, Unmixed', "aux" \notin reports,
         Quiet, "torn" \notin events, [Next]_vars
  PROVE  /\ "torn" \notin events'
         /\ IF "aux" \in reports' THEN Talking' ELSE Quiet'
<1> DEFINE s == Sent("aux")
<1>1. /\ Calm' /\ Calm /\ OneCommand /\ TypeOK /\ FramesInv /\ s \in Seq(Byte)
      /\ "aux" \in Device
  BY EventsGrow, SentTypes DEF Unmixed, Calm, ControlInv, IInv, Device
<1>2. ASSUME "aux" \notin reports', mouse_flag1' = 0, s' = s \/ (s # <<>> /\ s' = Tail(s)),
             "torn" \notin events'
      PROVE  /\ "torn" \notin events'
             /\ IF "aux" \in reports' THEN Talking' ELSE Quiet'
  <2>1. s # <<>> => \A i \in 1 .. Len(Tail(s)) : /\ Tail(s)[i] = s[i + 1]
                                                 /\ i + 1 \in 1 .. Len(s)
    BY <1>1
  <2>2. \A i \in 1 .. Len(s') : s'[i] \in Answer
    BY <1>2, <2>1 DEF Quiet
  <2> QED
    BY <1>2, <2>2 DEF Quiet
<1>3. ASSUME reports' = reports, mouse_flag1' = 0, "torn" \notin events', out' = out,
             obuf' \in {obuf, [obuf EXCEPT !.full = FALSE]}
      PROVE  /\ "torn" \notin events'
             /\ IF "aux" \in reports' THEN Talking' ELSE Quiet'
  <2>1. s' = s \/ (s # <<>> /\ s' = Tail(s))
    <3>1. CASE obuf' = obuf
      BY <1>3, <3>1 DEF Sent
    <3>2. CASE obuf' = [obuf EXCEPT !.full = FALSE]
      BY <1>1, <1>3, <3>2, SentRead
    <3> QED
      BY <1>3, <3>1, <3>2
  <2> QED
    BY <1>2, <1>3, <2>1
<1>4. mouse_flag1 = 0
  BY DEF Quiet
<1>5. ASSUME NEW d \in Device, Transfer(d)
      PROVE  /\ "torn" \notin events'
             /\ IF "aux" \in reports' THEN Talking' ELSE Quiet'
  <2>1. s' = s
    BY <1>1, <1>5, SentTransferred
  <2> QED
    BY <1>2, <1>4, <1>5, <2>1 DEF Transfer, mouseVars
<1>6. ASSUME NEW d \in Device, Report(d)
      PROVE  /\ "torn" \notin events'
             /\ IF "aux" \in reports' THEN Talking' ELSE Quiet'
  <2>1. s' = s
    BY <1>1, <1>6, SentReported DEF Report
  <2> QED
    BY <1>2, <1>4, <1>6, <2>1 DEF Report, mouseVars
<1>7. CASE SetupProbe
  BY <1>3, <1>4, <1>7 DEF SetupProbe, devVars, mouseVars
<1>8. ASSUME NEW op, NEW cost, Begin(op, cost), mouse_flag1' = 0
      PROVE  /\ "torn" \notin events'
             /\ IF "aux" \in reports' THEN Talking' ELSE Quiet'
  <2>1. reports' = reports /\ out' = out /\ obuf' = obuf /\ "torn" \notin events'
    BY <1>8 DEF Begin, devVars
  <2> QED
    BY <1>3, <1>8, <2>1
<1>9. CASE SetupCommand \/ Initialize \/ \E op \in Ops : Command(op)
  BY <1>4, <1>8, <1>9 DEF SetupCommand, Command, Initialize, mouseVars
<1>10. CASE Install
  BY <1>3, <1>4, <1>10 DEF Install, devVars, hwVars
<1>11. CASE EndFlush
  BY <1>3, <1>4, <1>11 DEF EndFlush, devVars, mouseVars, Stuck
<1>12. CASE SendByte
  <2> DEFINE op == Top.op
             part == Head(Top.rest)
             f == [Top EXCEPT !.at = "recv"]
             n == Len(frames)
  <2>1. /\ frames # <<>> /\ Top.kind = "cmd" /\ Top.at = "send" /\ InDialogue
        /\ frames' = SetTop(f) /\ UNCHANGED <<Ps2ctr, hwVars, setup, mouseVars, events>>
        /\ React(op, part)
    BY <1>12 DEF SendByte, InCommand, Executing, InDialogue
  <2>2. Top \in Frame /\ op \in CommandOps
    BY <1>1, <2>1, TopRuns DEF FrameSound, Scripted
  <2>3. obuf' = obuf /\ mouse_flag1' = 0 /\ events' = events
    BY <1>4, <2>1 DEF hwVars, mouseVars
  <2>4. PICK a \in {Answers(op, part), <<"nak">>, <<>>} :
          /\ out' = [out EXCEPT ![DeviceOf(op)] = IF op \in {"bat", "init"} /\ a # <<>> THEN a
                                                  ELSE @ \o a]
          /\ reports' = IF part # "cmd" \/ a \in {<<>>, <<"nak">>} THEN reports
                        ELSE IF op \in {"enable", "on", "bat"} THEN reports \cup {DeviceOf(op)}
                        ELSE IF op \in {"disable", "remove", "init", "dis"}
                        THEN reports \ {DeviceOf(op)} ELSE reports
    BY <2>1 DEF React
  <2>5. out \in [Device -> Seq(Byte)] /\ a \in Seq(Byte)
    <3>1. out \in [Device -> Seq(Byte)]
      BY <1>1 DEF TypeOK
    <3>2. Answers(op, part) \in Seq(Byte) /\ <<"nak">> \in Seq(Byte) /\ <<>> \in Seq(Byte)
      BY <1>1, BytesMove
    <3> QED
      BY <2>4, <3>1, <3>2
  <2>6. CASE DeviceOf(op) # "aux"
    <3>1. "aux" \notin reports' /\ out'["aux"] = out["aux"]
      BY <2>4, <2>5, <2>6 DEF Device
    <3>2. s' = s
      BY <2>3, <3>1 DEF Sent
    <3> QED
      BY <1>2, <2>3, <3>1, <3>2
  <2>7. CASE DeviceOf(op) = "aux"
    <3>1. out["aux"] = <<>> /\ ~(obuf.full /\ obuf.dev = "aux")
      BY <1>1, <2>1, QuietSends DEF Awaiting
    <3>2. out'["aux"] = a
      BY <2>4, <2>5, <2>7, <3>1 DEF Device
    <3>3. s' = a
      BY <2>3, <3>1, <3>2 DEF Sent
    <3>4. CASE "aux" \notin reports'
      BY <2>3, <2>4, <3>3, <3>4, AnswersOnly DEF Quiet
    <3>5. CASE "aux" \in reports'
      <4>1. op = "enable" /\ a = Answers(op, part)
        <5>1. part = "cmd" /\ a \notin {<<>>, <<"nak">>}
          BY <2>4, <3>5
        <5>2. op \in {"enable", "on", "bat"}
          BY <2>4, <3>5, <5>1
        <5>3. op \notin {"on", "bat"}
          BY <2>7 DEF DeviceOf, SetupOps
        <5> QED
          BY <2>4, <5>1, <5>2, <5>3
      <4>2. a = <<"ack">> /\ a # <<>> /\ Head(a) = "ack" /\ Tail(a) = <<>>
        <5>1. a = <<"ack">> \o <<>>
          BY <4>1 DEF Answers
        <5>2. <<"ack">> \o <<>> = <<"ack">>
          OBVIOUS
        <5> QED
          BY <5>1, <5>2
      <4>3. /\ f.kind = "cmd" /\ f.op = "enable" /\ f.at = "recv" /\ f.saved = Top.saved
        BY <2>1, <2>2, <4>1 DEF Frame
      <4>4. /\ Commands' = Commands /\ Top' = f /\ frames' # <<>> /\ n \in Commands
            /\ frames[n] = Top /\ frames'[n] = f
        BY <1>1, <2>1, <4>3, Moving
      <4>5. InDialogue' /\ Awaiting("aux")'
        BY <2>7, <4>1, <4>3, <4>4 DEF InDialogue, Awaiting
      <4>6. mouse_flag2.on /\ setup \in {"done", "off"} /\ "AUXINT" \in Top.saved
        BY <4>1, <4>4 DEF EnableInv
      <4>7. mouse_flag2'.on /\ setup' \in {"done", "off"}
        BY <2>1, <4>6 DEF mouseVars
      <4>8. AlignInv'
        <5>1. Sent("aux")' # <<>> /\ Head(Sent("aux")') = "ack" /\ Stream' = <<>>
          BY <3>3, <4>2, <4>5 DEF Stream
        <5>2. Whole(<<>>, 0)
          BY DEF Whole
        <5> QED
          BY <2>3, <5>1, <5>2 DEF AlignInv
      <4>9. \A i \in Commands' : i = n
        BY <1>1, <4>4 DEF OneCommand
      <4>10. PathInv'
        BY <2>7, <4>1, <4>3, <4>4, <4>5, <4>6, <4>9 DEF PathInv
      <4> QED
        BY <2>3, <3>5, <4>7, <4>8, <4>10 DEF Talking
    <3> QED
      BY <3>4, <3>5
  <2> QED
    BY <2>6, <2>7
<1>13. CASE RecvByte
  BY <1>3, <1>4, <1>13 DEF RecvByte, devVars, mouseVars
<1>14. CASE RecvTimeout
  BY <1>1, <1>14 DEF RecvTimeout, Calm
<1>15. CASE Finish
  BY <1>3, <1>4, <1>15 DEF Finish, Epilogue, devVars, mouseVars, Stuck
<1>16. CASE handle_74
  <2>1. ~InDialogue
    BY <1>1, <1>16, DialogueShut
  <2>2. ~(obuf.full /\ obuf.dev = "aux")
    BY <1>1, <2>1, QuietSends DEF Awaiting
  <2> QED
    BY <1>3, <1>4, <1>16, <2>2 DEF handle_74, devVars, mouseVars
<1>17. CASE handle_09
  BY <1>3, <1>4, <1>17 DEF handle_09, devVars, mouseVars
<1>18. CASE EndMouse \/ EndKey
  BY <1>3, <1>4, <1>18 DEF EndMouse, EndKey, devVars, hwVars, mouseVars, Stuck
<1>19. CASE UNCHANGED vars
  BY <1>3, <1>4, <1>19 DEF vars, devVars, hwVars, mouseVars
<1> QED
  BY <1>5, <1>6, <1>7, <1>9, <1>10, <1>11, <1>12, <1>13, <1>14, <1>15, <1>16, <1>17,
     <1>18, <1>19 DEF Next

\* What can happen while the mouse talks.
LEMMA TalkingSteps ==
  ASSUME IInv, ControlInv, Unmixed', Calm, "aux" \in reports, Talking
  PROVE  /\ ~SetupProbe /\ ~SetupCommand /\ ~Initialize /\ ~Install
         /\ \A op \in Ops : Command(op) =>
              DeviceOf(op) = "kbd" /\ frames = <<>> /\ Updated(op) = Ps2ctr
         /\ EndFlush \/ SendByte => DeviceOf(Top.op) = "kbd" /\ Len(frames) = 1
         /\ Finish => /\ "AUXINT" \in Top.saved /\ Top.op \notin SetupOps
                      /\ Top.op # "remove" /\ Top.at # "failed"
<1>1. /\ FramesInv /\ OneCommand /\ MouseBusy /\ setup \in {"done", "off"}
      /\ SetupInv /\ PathInv
  BY DEF IInv, ControlInv, MouseBusy, Talking
<1>2. ~SetupProbe /\ ~SetupCommand /\ ~Install
  BY <1>1 DEF SetupProbe, SetupCommand, Install, SetupOps, Unmixed
<1>3. \A op, cost : Begin(op, cost) => DeviceOf(op) # "aux" /\ frames = <<>>
  BY <1>1 DEF Begin, Unmixed
<1>4. ~Initialize
  BY <1>3 DEF Initialize, DeviceOf, SetupOps
<1>5. ASSUME NEW op \in Ops, Command(op)
      PROVE  DeviceOf(op) = "kbd" /\ frames = <<>> /\ Updated(op) = Ps2ctr
  <2>1. DeviceOf(op) # "aux" /\ frames = <<>>
    BY <1>3, <1>5 DEF Command
  <2>2. op \in UserOps
    BY Ps2Assumption
  <2>3. op = "leds"
    BY <2>1, <2>2 DEF DeviceOf, UserOps, SetupOps
  <2> QED
    BY <2>1, <2>3 DEF DeviceOf, Updated
<1>6. ASSUME frames # <<>>, Top.kind = "cmd"
      PROVE  /\ Len(frames) \in Commands /\ frames[Len(frames)] = Top /\ FrameSound(Top)
  BY <1>1, <1>6, TopRuns DEF Commands
<1>7. ASSUME EndFlush \/ SendByte
      PROVE  DeviceOf(Top.op) = "kbd" /\ Len(frames) = 1
  <2>1. frames # <<>> /\ Top.kind = "cmd" /\ Top.at \in {"flush", "send"}
    BY <1>7 DEF EndFlush, SendByte, InCommand, Executing
  <2> QED
    BY <1>1, <1>6, <2>1 DEF PathInv
<1>8. ASSUME Finish
      PROVE  /\ "AUXINT" \in Top.saved /\ Top.op \notin SetupOps
             /\ Top.op # "remove" /\ Top.at # "failed"
  <2>1. frames # <<>> /\ Top.kind = "cmd"
    BY <1>8 DEF Finish, InCommand, Executing
  <2>2. "AUXINT" \in Top.saved /\ Top.op # "remove"
    BY <1>1, <1>6, <2>1 DEF PathInv, DeviceOf, SetupOps
  <2>3. Top.at # "failed"
    BY <1>6, <2>1 DEF FrameSound, Calm
  <2>4. Top.op \notin SetupOps
    <3>1. Len(frames) \in DOMAIN frames
      BY <1>6, <2>1 DEF Commands
    <3> QED
      BY <1>1, <1>6, <2>1, <3>1 DEF SetupInv, SetupOps
  <2> QED
    BY <2>2, <2>3, <2>4
<1> QED
  BY <1>2, <1>4, <1>5, <1>7, <1>8

\* The bytes of the mouse wait outside the buffer while others use the port, and its
\* interrupt is pending for one that is inside.
LEMMA PathStep ==
  ASSUME IInv, ControlInv, Unmixed', "aux" \in reports, Talking, [Next]_vars
  PROVE  PathInv'
<1> DEFINE n == Len(frames)
           Waits == obuf.full /\ obuf.dev = "aux"
           Path(i) == /\ "AUXINT" \in frames[i].saved
                      /\ IF DeviceOf(frames[i].op) = "kbd" THEN i = 1
                         ELSE frames[i].op = "enable" /\ frames[i].at \in {"recv", "good", "fail"}
<1>1. /\ Calm' /\ Calm /\ OneCommand /\ ShutOut /\ TypeOK /\ FramesInv
  BY EventsGrow DEF Unmixed, Calm, ControlInv, IInv
<1>2. /\ \A i \in Commands : Path(i)
      /\ ~InDialogue => "AUXINT" \in Ps2ctr
      /\ Commands = {} => "AUXINT" \in ctr
      /\ Waits => IF InDialogue THEN Top.op = "enable" ELSE "aux" \in pend
  BY DEF Talking, PathInv
<1>3. ASSUME \A i \in Commands' : Path(i)',
             ~InDialogue' => "AUXINT" \in Ps2ctr',
             Commands' = {} => "AUXINT" \in ctr',
             Waits' => IF InDialogue' THEN Top'.op = "enable" ELSE "aux" \in pend'
      PROVE  PathInv'
  BY <1>3 DEF PathInv
<1> HIDE DEF Path
<1>4. ASSUME frames' = frames, Ps2ctr' = Ps2ctr, ctr' = ctr,
             Waits' => IF InDialogue THEN Top.op = "enable" ELSE "aux" \in pend'
      PROVE  PathInv'
  <2>1. Commands' = Commands /\ (InDialogue' <=> InDialogue) /\ Top' = Top
    BY <1>4, Staying
  <2>2. \A i : Path(i)' <=> Path(i)
    BY <1>4 DEF Path
  <2> QED
    BY <1>2, <1>3, <1>4, <2>1, <2>2
<1>5. ASSUME NEW d \in Device, Transfer(d)
      PROVE  PathInv'
  <2>1. /\ frames' = frames /\ Ps2ctr' = Ps2ctr /\ ctr' = ctr
        /\ DIS(d) \notin ctr /\ obuf' = [full |-> TRUE, dev |-> d, byte |-> Head(out[d])]
        /\ pend' = IF INT(d) \in ctr THEN pend \cup {d} ELSE pend
    BY <1>5 DEF Transfer
  <2>2. CASE d = "kbd"
    BY <1>4, <2>1, <2>2
  <2>3. CASE d = "aux" /\ Commands = {}
    <3>1. "aux" \in pend'
      BY <1>2, <2>1, <2>3 DEF INT
    <3>2. ~InDialogue
      BY <1>1, <2>3, Undisturbed
    <3> QED
      BY <1>4, <2>1, <3>1, <3>2
  <2>4. CASE d = "aux" /\ Commands # {}
    <3>1. PICK i \in Commands : TRUE
      BY <2>4
    <3>2. frames[i].at # "flush" /\ DeviceOf(frames[i].op) = "aux" /\ i = n
      BY <1>1, <2>1, <2>4, <3>1 DEF ShutOut, DIS
    <3>3. InDialogue /\ frames[i].op = "enable"
      BY <1>1, <1>2, <3>2, Undisturbed DEF Path
    <3> QED
      BY <1>4, <2>1, <3>2, <3>3 DEF Top
  <2> QED
    BY <2>2, <2>3, <2>4 DEF Device
<1>6. CASE \E d \in Device : Report(d)
  BY <1>2, <1>4, <1>6 DEF Report, hwVars
<1>7. ASSUME NEW op \in Ops, Command(op)
      PROVE  PathInv'
  <2>1. DeviceOf(op) = "kbd" /\ frames = <<>> /\ Updated(op) = Ps2ctr
    BY <1>1, <1>7, TalkingSteps
  <2>2. Begin(op, 1) /\ obuf' = obuf
    BY <1>7 DEF Command, Begin
  <2>3. /\ Commands' = {n + 1} /\ n = 0 /\ Top'.op = op /\ Top'.saved = Ps2ctr
        /\ Top' = frames'[n + 1] /\ WriteCtr(Shut(Ps2ctr)) /\ Ps2ctr' = Ps2ctr
    BY <2>1, <2>2, <1>1, Beginning
  <2>4. ~InDialogue /\ ~InDialogue'
    BY <1>1, <2>2, DialogueShut
  <2>5. pend' = pend
    <3>1. /\ "KBDINT" \notin Shut(Ps2ctr) /\ "AUXINT" \notin Shut(Ps2ctr)
          /\ Shut(Ps2ctr) \in SUBSET Bits
      BY <1>1, ControlBytes DEF Shut, TypeOK
    <3> QED
      BY <2>3, <3>1, NoInterruptRaised
  <2>6. \A i \in Commands' : Path(i)'
    <3>1. frames'[1].op = op /\ frames'[1].saved = Ps2ctr /\ "AUXINT" \in Ps2ctr
      BY <1>2, <2>3, <2>4
    <3> QED
      BY <2>1, <2>3, <3>1 DEF Path
  <2> QED
    BY <1>2, <1>3, <2>2, <2>3, <2>4, <2>5, <2>6
<1>8. ASSUME EndFlush \/ SendByte
      PROVE  PathInv'
  <2>1. DeviceOf(Top.op) = "kbd" /\ n = 1
    BY <1>1, <1>8, TalkingSteps
  <2>2. PICK at \in {"send", "recv"} : frames' = SetTop([Top EXCEPT !.at = at])
    BY <1>1, <1>8 DEF EndFlush, SendByte, Stuck, Calm
  <2>3. frames # <<>> /\ Top.kind = "cmd" /\ obuf' = obuf
    BY <1>8 DEF EndFlush, SendByte, InCommand, Executing, hwVars
  <2>4. Top \in Frame
    BY <1>1, <2>3, TopRuns
  <2>5. /\ [Top EXCEPT !.at = at].kind = "cmd" /\ [Top EXCEPT !.at = at].op = Top.op
        /\ [Top EXCEPT !.at = at].at # "flush"
    BY <2>2, <2>3, <2>4 DEF Frame
  <2>6. /\ Commands' = Commands /\ Top'.kind = "cmd" /\ Top'.at # "flush" /\ frames' # <<>>
        /\ n \in Commands /\ frames[n] = Top
    BY <1>1, <2>2, <2>3, <2>5, Moving
  <2>7. InDialogue'
    BY <2>6 DEF InDialogue
  <2>8. /\ \A i \in Commands : /\ frames'[i].op = frames[i].op
                               /\ frames'[i].saved = frames[i].saved
    BY <1>8, CommandsKept
  <2>9. \A i \in Commands' : Path(i)'
    <3>1. \A i \in Commands : i = 1
      BY <1>1, <2>1, <2>6 DEF OneCommand
    <3>2. Path(1) /\ DeviceOf(frames[1].op) = "kbd" /\ 1 \in Commands
      BY <1>2, <2>1, <2>6
    <3>3. Path(1)'
      BY <2>8, <3>2 DEF Path
    <3> QED
      BY <2>6, <3>1, <3>3
  <2>10. ~Waits
    <3>1. CASE EndFlush
      <4>1. ~InDialogue /\ Deliverable = {}
        BY <3>1 DEF EndFlush, InCommand, Executing, InDialogue
      <4>2. \A d \in Device : ~InService(d)
        BY <1>1, <2>1, <2>3, <2>6 DEF InService, Device, FramesInv
      <4>3. "aux" \notin pend
        BY <4>1, <4>2 DEF Deliverable, Device
      <4> QED
        BY <1>2, <4>1, <4>3
    <3>2. CASE SendByte
      <4>1. InDialogue
        BY <3>2 DEF SendByte, InCommand, Executing, InDialogue
      <4>2. Top.op # "enable"
        BY <2>1 DEF DeviceOf, SetupOps
      <4> QED
        BY <1>2, <4>1, <4>2
    <3> QED
      BY <1>8, <3>1, <3>2
  <2> QED
    BY <1>3, <2>3, <2>6, <2>7, <2>9, <2>10
<1>9. CASE RecvByte
  <2>1. /\ frames # <<>> /\ Top.kind = "cmd" /\ Top.at = "recv" /\ InDialogue
        /\ Ps2ctr' = Ps2ctr /\ ctr' = ctr /\ ~Waits'
    BY <1>1, <1>9 DEF RecvByte, InCommand, Executing, InDialogue, TypeOK
  <2>2. CASE frames' = frames
    BY <1>4, <2>1, <2>2
  <2>3. ASSUME NEW f \in {[Top EXCEPT !.at = "fail"], Proceed}, frames' = SetTop(f)
        PROVE  PathInv'
    <3>1. Top \in Frame /\ (Top.op = "enable" => Top.rest = <<"cmd">>)
      BY <1>1, <2>1, TopRuns DEF FrameSound, Scripted, Rests
    <3>2. Tail(<<"cmd">>) = <<>>
      OBVIOUS
    <3>3. /\ f.kind = "cmd" /\ f.op = Top.op /\ f.saved = Top.saved /\ f.at # "flush"
          /\ Top.op = "enable" => f.at \in {"good", "fail"}
      BY <2>1, <2>3, <3>1, <3>2 DEF Frame, Proceed
    <3>4. /\ Commands' = Commands /\ Top' = f /\ frames' # <<>>
          /\ n \in Commands /\ frames[n] = Top /\ frames'[n] = f
      BY <1>1, <2>1, <2>3, <3>3, Moving
    <3>5. InDialogue'
      BY <3>3, <3>4 DEF InDialogue
    <3>6. \A i \in Commands' : i = n
      BY <1>1, <3>4 DEF OneCommand
    <3>7. \A i \in Commands' : Path(i)'
      <4>1. Path(n)
        BY <1>2, <3>4
      <4>2. frames'[n].saved = Top.saved /\ frames'[n].op = Top.op /\ frames'[n].at = f.at
        BY <3>3, <3>4
      <4> QED
        BY <3>3, <3>4, <3>6, <4>1, <4>2 DEF Path
    <3> QED
      BY <1>3, <2>1, <3>4, <3>5, <3>7
  <2> QED
    BY <1>9, <2>2, <2>3 DEF RecvByte
<1>10. CASE RecvTimeout
  BY <1>1, <1>10 DEF RecvTimeout, Calm
<1>11. CASE Finish
  <2>1. "AUXINT" \in Top.saved /\ Top.at # "failed"
    BY <1>1, <1>11, TalkingSteps
  <2>2. Commands' = {} /\ n \in Commands /\ ~InDialogue'
    BY <1>1, <1>11, Ending
  <2>3. Ps2ctr' = Top.saved /\ WriteCtr(Top.saved) /\ obuf' = obuf
    BY <1>1, <1>11, <2>1 DEF Finish, Stuck, Calm
  <2>4. "AUXINT" \notin ctr
    BY <1>1, <2>2 DEF ShutOut
  <2>5. ctr' = Top.saved /\ (Waits => "aux" \in pend')
    BY <2>1, <2>3, <2>4 DEF WriteCtr, INT
  <2> QED
    BY <1>3, <2>1, <2>2, <2>3, <2>5
<1>12. CASE handle_74 \/ handle_09 \/ EndMouse \/ EndKey
  <2>1. ~InDialogue /\ ~InDialogue'
    BY <1>1, <1>12, DialogueShut
  <2>2. Commands' = Commands /\ \A i \in Commands : frames'[i] = frames[i]
    <3>1. CASE handle_74 \/ handle_09
      <4>1. frames' = frames \/ \E d \in Device : Enter(d)
        BY <3>1 DEF handle_74, handle_09, process_mouse, Device
      <4> QED
        BY <1>1, <4>1, Staying, Entering
    <3>2. CASE EndMouse \/ EndKey
      <4>1. frames # <<>> /\ Top.kind # "cmd" /\ frames' = Pop
        BY <3>2 DEF EndMouse, EndKey, Executing
      <4> QED
        BY <1>1, <4>1, Leaving
    <3> QED
      BY <1>12, <3>1, <3>2
  <2>3. \A i \in Commands' : Path(i)'
    BY <1>2, <2>2 DEF Path
  <2>4. Ps2ctr' = Ps2ctr /\ ("AUXINT" \in ctr => "AUXINT" \in ctr')
    BY <1>12 DEF handle_74, handle_09, EndMouse, EndKey, WriteCtr, Stuck, hwVars
  <2>5. Waits' => Waits /\ ("aux" \in pend => "aux" \in pend')
    BY <1>1, <1>12 DEF handle_74, handle_09, EndMouse, EndKey, WriteCtr, Stuck, hwVars, TypeOK
  <2> QED
    BY <1>2, <1>3, <2>1, <2>2, <2>3, <2>4, <2>5
<1>13. CASE UNCHANGED vars
  BY <1>2, <1>4, <1>13 DEF vars, hwVars
<1> QED
  BY <1>1, <1>5, <1>6, <1>7, <1>8, <1>9, <1>10, <1>11, <1>12, <1>13, TalkingSteps DEF Next

\* process_mouse() puts the next byte of the packet in its place, and calls the
\* handler with a whole one.
LEMMA ByteProcessed ==
  ASSUME IInv, ControlInv, AnswersInv, Unmixed', "aux" \in reports, Talking,
         handle_74, "torn" \notin events
  PROVE  AlignInv' /\ "torn" \notin events'
<1> DEFINE s == Sent("aux")
           m == mouse_flag1
<1>1. /\ Calm /\ TypeOK /\ s \in Seq(Byte) /\ "aux" \in Device
  <2>1. events \subseteq events'
    BY DEF handle_74, process_mouse
  <2> QED
    BY <2>1, SentTypes DEF Unmixed, Calm, IInv, Device
<1>2. ~InDialogue /\ ~InDialogue'
  BY <1>1, DialogueShut
<1>3. ~Awaiting("aux") /\ ~Awaiting("aux")' /\ Stream = s /\ Stream' = s'
  BY <1>2 DEF Awaiting, Stream
<1>4. /\ mouse_flag2.on /\ "AUXINT" \in Ps2ctr /\ m \in 0 .. 2
      /\ mouse_data \in [0 .. 2 -> Byte] /\ mouse_flag2.count \in {0, 3}
      /\ mouse_flag2.count = 3 =>
           Whole(s, m) /\ \A j \in 0 .. 2 : j < m => mouse_data[j] = Packet[j + 1]
  BY <1>1, <1>2, <1>3 DEF Talking, PathInv, AlignInv, TypeOK
<1>5. CASE ~(obuf.full /\ obuf.dev = "aux")
  <2>1. /\ UNCHANGED <<obuf, out, mouse_flag1, mouse_flag2, mouse_data, events>>
    BY <1>5 DEF handle_74, mouseVars, devVars
  <2>2. s' = s
    BY <2>1 DEF Sent
  <2> QED
    BY <1>3, <1>4, <2>1, <2>2 DEF AlignInv
<1>6. CASE obuf.full /\ obuf.dev = "aux"
  <2>1. /\ obuf' = [obuf EXCEPT !.full = FALSE] /\ out' = out
        /\ mouse_data' = [mouse_data EXCEPT ![m] = obuf.byte]
        /\ mouse_flag2' = mouse_flag2
        /\ IF m + 1 < mouse_flag2.count THEN mouse_flag1' = m + 1 /\ events' = events
           ELSE mouse_flag1' = 0 /\ events' = events \cup Called
    BY <1>4, <1>6 DEF handle_74, process_mouse, devVars
  <2>2. s # <<>> /\ Head(s) = obuf.byte /\ s' = Tail(s)
    BY <1>1, <1>6, <2>1, SentRead
  <2>3. CASE mouse_flag2.count = 0
    <3>1. mouse_flag2'.count # 3 /\ "torn" \notin Called
      BY <2>1, <2>3 DEF Called
    <3> QED
      BY <1>3, <1>4, <2>1, <2>3, <3>1 DEF AlignInv
  <2>4. CASE mouse_flag2.count = 3
    <3>1. /\ obuf.byte = Packet[m + 1]
          /\ m < 2 => Whole(s', m + 1)
          /\ m = 2 => Whole(s', 0)
      BY <1>1, <1>4, <2>2, <2>4, WholeRead
    <3>2. /\ mouse_data' \in [0 .. 2 -> Byte]
          /\ \A j \in 0 .. 2 : j < m + 1 => mouse_data'[j] = Packet[j + 1]
      <4>1. obuf.byte \in Byte /\ mouse_data \in [0 .. 2 -> Byte] /\ m \in 0 .. 2
        BY <1>1, <1>4 DEF TypeOK
      <4>2. \A j \in 0 .. 2 : mouse_data'[j] = IF j = m THEN obuf.byte ELSE mouse_data[j]
        BY <2>1, <4>1
      <4>3. \A j \in 0 .. 2 : j < m + 1 => j = m \/ j < m
        BY <4>1
      <4> QED
        BY <1>4, <2>1, <2>4, <3>1, <4>1, <4>2, <4>3
    <3>3. CASE m < 2
      <4>1. mouse_flag1' = m + 1 /\ events' = events
        BY <1>4, <2>1, <2>4, <3>3
      <4> QED
        BY <1>3, <3>1, <3>2, <3>3, <4>1 DEF AlignInv
    <3>4. CASE m = 2
      <4>1. mouse_flag1' = 0 /\ events' = events \cup Called
        BY <2>1, <2>4, <3>4
      <4>2. mouse_data' = [i \in 0 .. 2 |-> Packet[i + 1]]
        <5>1. \A j \in 0 .. 2 : mouse_data'[j] = Packet[j + 1]
          BY <3>2, <3>4
        <5> QED
          BY <3>2, <5>1
      <4>3. "torn" \notin Called
        BY <4>2 DEF Called
      <4>4. \A j \in 0 .. 2 : ~(j < 0)
        OBVIOUS
      <4> QED
        BY <1>3, <3>1, <3>4, <4>1, <4>3, <4>4 DEF AlignInv
    <3> QED
      BY <1>4, <3>3, <3>4
  <2> QED
    BY <1>4, <2>3, <2>4
<1> QED
  BY <1>5, <1>6

\* mouse_flag1 counts the bytes of the packet whose rest is still to come.
LEMMA AlignStep ==
  ASSUME IInv, ControlInv, AnswersInv, Unmixed', "aux" \in reports, Talking,
         "torn" \notin events, [Next]_vars
  PROVE  AlignInv' /\ "torn" \notin events'
<1> DEFINE s == Sent("aux")
           Same == UNCHANGED <<mouse_flag1, mouse_flag2, mouse_data>>
<1>1. /\ Calm' /\ Calm /\ OneCommand /\ TypeOK /\ FramesInv /\ s \in Seq(Byte)
      /\ "aux" \in Device /\ AlignInv
  BY EventsGrow, SentTypes DEF Unmixed, Calm, ControlInv, IInv, Device, Talking
<1>2. ASSUME frames' = frames, s' = s, Same, "torn" \notin events'
      PROVE  AlignInv' /\ "torn" \notin events'
  <2>1. (Awaiting("aux")' <=> Awaiting("aux")) /\ Stream' = Stream
    BY <1>2, Staying DEF Awaiting, Stream
  <2> QED
    BY <1>1, <1>2, <2>1 DEF AlignInv
<1>3. ASSUME ~Awaiting("aux"), ~Awaiting("aux")', s' = s, Same, "torn" \notin events'
      PROVE  AlignInv' /\ "torn" \notin events'
  <2>1. Stream' = Stream
    BY <1>3 DEF Stream
  <2> QED
    BY <1>1, <1>3, <2>1 DEF AlignInv
<1>4. ASSUME NEW d \in Device, Transfer(d)
      PROVE  AlignInv' /\ "torn" \notin events'
  <2>1. s' = s
    BY <1>1, <1>4, SentTransferred
  <2> QED
    BY <1>2, <1>4, <2>1 DEF Transfer, mouseVars
<1>5. ASSUME NEW d \in Device, Report(d)
      PROVE  AlignInv' /\ "torn" \notin events'
  <2>1. frames' = frames /\ Same /\ events' = events
    BY <1>5 DEF Report, mouseVars
  <2>2. CASE d # "aux"
    <3>1. s' = s
      BY <1>1, <1>5, <2>2, SentReported
    <3> QED
      BY <1>2, <2>1, <3>1
  <2>3. CASE d = "aux"
    <3>1. s' = s \o Packet /\ Packet \in Seq(Byte)
      BY <1>1, <1>5, <2>3, SentReported DEF Reported
    <3>2. Awaiting("aux")' <=> Awaiting("aux")
      BY <2>1, Staying DEF Awaiting
    <3>3. \A p, q \in Seq(Byte) :
            p # <<>> => /\ p \o q # <<>> /\ Head(p \o q) = Head(p)
                        /\ Tail(p \o q) = Tail(p) \o q /\ Tail(p) \in Seq(Byte)
      OBVIOUS
    <3>4. Stream' = Stream \o Packet /\ Stream \in Seq(Byte)
      BY <1>1, <3>1, <3>2, <3>3 DEF Stream, AlignInv
    <3>5. Awaiting("aux")' => s' # <<>> /\ Head(s') = "ack"
      BY <1>1, <3>1, <3>2, <3>3 DEF AlignInv
    <3>6. mouse_flag2.count = 3 => Whole(Stream \o Packet, mouse_flag1)
      <4>1. mouse_flag1 \in 0 .. 2
        BY <1>1 DEF TypeOK
      <4> QED
        BY <1>1, <3>4, <4>1, WholeMore DEF AlignInv
    <3> QED
      BY <1>1, <2>1, <3>4, <3>5, <3>6 DEF AlignInv
  <2> QED
    BY <2>2, <2>3
<1>6. ASSUME NEW op \in Ops, Command(op)
      PROVE  AlignInv' /\ "torn" \notin events'
  <2>1. Begin(op, 1) /\ Same
    BY <1>6 DEF Command, mouseVars
  <2>2. ~InDialogue /\ ~InDialogue'
    BY <1>1, <2>1, DialogueShut
  <2>3. s' = s /\ "torn" \notin events'
    BY <2>1 DEF Begin, Sent, devVars
  <2> QED
    BY <1>3, <2>1, <2>2, <2>3 DEF Awaiting
<1>7. ASSUME EndFlush \/ SendByte
      PROVE  AlignInv' /\ "torn" \notin events'
  <2>1. DeviceOf(Top.op) = "kbd"
    BY <1>1, <1>7, TalkingSteps
  <2>2. /\ frames # <<>> /\ Top.kind = "cmd" /\ obuf' = obuf /\ Same
        /\ Top.at \in {"flush", "send"}
    BY <1>7 DEF EndFlush, SendByte, InCommand, Executing, hwVars, mouseVars
  <2>3. Len(frames) \in Commands /\ Commands' = Commands
    BY <1>1, <1>7, <2>2, TopRuns, CommandsKept DEF Commands
  <2>4. frames'[Len(frames)].op = Top.op
    BY <1>7, <2>3, CommandsKept DEF Top
  <2>5. Len(frames') = Len(frames)
    BY <1>1, <1>7 DEF EndFlush, SendByte, Stuck, Calm, SetTop, FramesInv
  <2>6. ~Awaiting("aux") /\ ~Awaiting("aux")'
    BY <2>1, <2>4, <2>5 DEF Awaiting, Top
  <2>7. "torn" \notin events'
    BY <1>7 DEF EndFlush, SendByte, Stuck
  <2>8. out'["aux"] = out["aux"]
    <3>1. CASE EndFlush
      BY <3>1 DEF EndFlush, devVars
    <3>2. CASE SendByte
      <4>1. React(Top.op, Head(Top.rest)) /\ out \in [Device -> Seq(Byte)]
        BY <1>1, <3>2 DEF SendByte, TypeOK
      <4> QED
        BY <2>1, <4>1 DEF React, Device
    <3> QED
      BY <1>7, <3>1, <3>2
  <2>9. s' = s
    BY <2>2, <2>8 DEF Sent
  <2> QED
    BY <1>3, <2>2, <2>6, <2>7, <2>9
<1>8. CASE RecvByte
  <2>1. /\ frames # <<>> /\ Top.kind = "cmd" /\ Top.at = "recv" /\ InDialogue
        /\ obuf.full /\ obuf' = [obuf EXCEPT !.full = FALSE] /\ out' = out /\ Same
        /\ events' = events
    BY <1>8 DEF RecvByte, InCommand, Executing, InDialogue, devVars, mouseVars
  <2>2. Top \in Frame /\ (Top.op = "enable" => Top.rest = <<"cmd">>)
    BY <1>1, <2>1, TopRuns DEF FrameSound, Scripted, Rests
  <2>3. \A f \in {[Top EXCEPT !.at = "fail"], Proceed} : f.kind = "cmd" /\ f.op = Top.op
    BY <2>1, <2>2 DEF Frame, Proceed
  <2>4. CASE obuf.dev # "aux"
    <3>1. s' = s
      BY <1>1, <2>1, <2>4, SentRead
    <3>2. CASE frames' = frames
      BY <1>2, <2>1, <3>1, <3>2
    <3>3. CASE frames' # frames
      <4>1. DeviceOf(Top.op) # "aux"
        BY <1>8, <2>4, <3>3 DEF RecvByte
      <4>2. Top'.op = Top.op
        <5>1. \E f \in {[Top EXCEPT !.at = "fail"], Proceed} : frames' = SetTop(f)
          BY <1>8, <3>3 DEF RecvByte
        <5> QED
          BY <1>1, <2>1, <2>3, <5>1, Moving
      <4>3. ~Awaiting("aux") /\ ~Awaiting("aux")'
        BY <4>1, <4>2 DEF Awaiting
      <4> QED
        BY <1>3, <2>1, <3>1, <4>3
    <3> QED
      BY <3>2, <3>3
  <2>5. CASE obuf.dev = "aux"
    <3>1. Top.op = "enable" /\ DeviceOf(Top.op) = "aux"
      BY <2>1, <2>5 DEF Talking, PathInv, DeviceOf, SetupOps
    <3>2. Awaiting("aux")
      BY <2>1, <3>1 DEF Awaiting
    <3>3. s # <<>> /\ Head(s) = obuf.byte /\ s' = Tail(s)
      BY <1>1, <2>1, <2>5, SentRead
    <3>4. obuf.byte = "ack"
      BY <1>1, <3>2, <3>3 DEF AlignInv
    <3>5. frames' = SetTop(Proceed)
      BY <1>8, <2>5, <3>1, <3>4 DEF RecvByte
    <3>6. Proceed.at = "good"
      <4>1. Tail(<<"cmd">>) = <<>>
        OBVIOUS
      <4> QED
        BY <2>2, <3>1, <4>1 DEF Proceed, Frame
    <3>7. Top' = Proceed
      BY <1>1, <2>1, <2>3, <3>5, Moving
    <3>8. ~Awaiting("aux")'
      BY <3>6, <3>7 DEF Awaiting
    <3>9. Stream' = Stream
      BY <3>2, <3>3, <3>8 DEF Stream
    <3> QED
      BY <1>1, <2>1, <3>8, <3>9 DEF AlignInv
  <2> QED
    BY <2>4, <2>5
<1>9. CASE RecvTimeout
  BY <1>1, <1>9 DEF RecvTimeout, Calm
<1>10. CASE Finish
  <2>1. Top.op # "remove"
    BY <1>1, <1>10, TalkingSteps
  <2>2. Top.at \in {"good", "fail", "failed"} /\ ~InDialogue'
    BY <1>1, <1>10, Ending
  <2>3. Same /\ s' = s /\ "torn" \notin events'
    BY <1>10, <2>1 DEF Finish, Epilogue, mouseVars, devVars, Sent, Stuck
  <2> QED
    BY <1>3, <2>2, <2>3 DEF Awaiting
<1>11. CASE handle_74
  BY <1>11, ByteProcessed
<1>12. CASE handle_09 \/ EndMouse \/ EndKey
  <2>1. ~InDialogue /\ ~InDialogue'
    BY <1>1, <1>12, DialogueShut
  <2>2. Same /\ "torn" \notin events'
    BY <1>12 DEF handle_09, EndMouse, EndKey, mouseVars, Stuck
  <2>3. s' = s
    <3>1. CASE obuf' = obuf
      BY <1>12, <3>1 DEF handle_09, EndMouse, EndKey, devVars, Sent
    <3>2. CASE obuf' # obuf
      <4>1. /\ obuf' = [obuf EXCEPT !.full = FALSE] /\ ~(obuf.full /\ obuf.dev = "aux")
            /\ out' = out
        BY <1>12, <3>2 DEF handle_09, EndMouse, EndKey, hwVars, devVars
      <4> QED
        BY <1>1, <4>1, SentRead
    <3> QED
      BY <3>1, <3>2
  <2> QED
    BY <1>3, <2>1, <2>2, <2>3 DEF Awaiting
<1>13. CASE UNCHANGED vars
  BY <1>2, <1>13 DEF vars, hwVars, devVars, mouseVars, Sent
<1> QED
  BY <1>1, <1>4, <1>5, <1>6, <1>7, <1>8, <1>9, <1>10, <1>11, <1>12, <1>13, TalkingSteps
  DEF Next

\* Once it talks the mouse is not turned off, its handler stays installed, and the
\* setup of the keyboard is over.
LEMMA TalkStep ==
  ASSUME IInv, ControlInv, AnswersInv, Unmixed', "aux" \in reports, Talking,
         "torn" \notin events, [Next]_vars
  PROVE  "torn" \notin events' /\ "aux" \in reports' /\ Talking'
<1>1. Calm' /\ Calm /\ mouse_flag2.on /\ setup \in {"done", "off"} /\ SetupInv
  BY EventsGrow DEF Unmixed, Calm, Talking, IInv
<1>2. ASSUME "aux" \in reports', mouse_flag2'.on, setup' \in {"done", "off"}
      PROVE  "torn" \notin events' /\ "aux" \in reports' /\ Talking'
  BY <1>2, AlignStep, PathStep DEF Talking
<1>3. ASSUME reports' = reports, mouse_flag2' = mouse_flag2, setup' = setup
      PROVE  "torn" \notin events' /\ "aux" \in reports' /\ Talking'
  BY <1>1, <1>2, <1>3
<1>4. CASE \E d \in Device : Transfer(d) \/ Report(d)
  BY <1>3, <1>4 DEF Transfer, Report, mouseVars
<1>5. CASE \E op \in Ops : Command(op)
  BY <1>3, <1>5 DEF Command, Begin, devVars, mouseVars
<1>6. CASE SendByte
  <2>1. DeviceOf(Top.op) = "kbd"
    BY <1>1, <1>6, TalkingSteps
  <2>2. React(Top.op, Head(Top.rest)) /\ mouse_flag2' = mouse_flag2 /\ setup' = setup
    BY <1>6 DEF SendByte, mouseVars
  <2>3. "aux" \in reports'
    BY <2>1, <2>2 DEF React
  <2> QED
    BY <1>1, <1>2, <2>2, <2>3
<1>7. CASE EndFlush \/ RecvByte \/ handle_74 \/ handle_09 \/ EndMouse \/ EndKey
  BY <1>3, <1>7 DEF EndFlush, RecvByte, handle_74, process_mouse, handle_09, EndMouse,
                    EndKey, devVars, mouseVars
<1>8. CASE RecvTimeout
  BY <1>1, <1>8 DEF RecvTimeout, Calm
<1>9. CASE Finish
  <2>1. Top.op \notin SetupOps /\ Top.op # "remove"
    BY <1>1, <1>9, TalkingSteps
  <2>2. \A ok : NextSetup(Top, ok) = {setup}
    BY <2>1 DEF NextSetup, SetupOps
  <2> QED
    BY <1>3, <1>9, <2>1, <2>2 DEF Finish, Epilogue, devVars, mouseVars
<1>10. CASE UNCHANGED vars
  BY <1>3, <1>10 DEF vars, devVars, mouseVars
<1> QED
  BY <1>1, <1>4, <1>5, <1>6, <1>7, <1>8, <1>9, <1>10, TalkingSteps DEF Next

\* Every step preserves the invariant of the packets.
LEMMA PacketStep ==
  ASSUME IInv, ControlInv, AnswersInv, PacketInv, [Next]_vars
  PROVE  PacketInv'
<1> SUFFICES ASSUME Unmixed'
             PROVE  /\ "torn" \notin events' /\ EnableInv'
                    /\ IF "aux" \in reports' THEN Talking' ELSE Quiet'
  BY DEF PacketInv
<1>1. Unmixed /\ Calm'
  BY EventsGrow DEF Unmixed, Calm
<1>2. /\ "torn" \notin events /\ EnableInv
      /\ IF "aux" \in reports THEN Talking ELSE Quiet
  BY <1>1 DEF PacketInv
<1>3. EnableInv'
  BY <1>1, <1>2, EnableStep
<1> QED
  BY <1>2, <1>3, TalkStep, QuietStep

\* The invariant of the packets holds in every reachable state.
LEMMA PacketInvariance == Spec => []PacketInv
<1>1. Init => PacketInv
  <2> SUFFICES ASSUME Init
               PROVE  PacketInv
    OBVIOUS
  <2>1. /\ frames = <<>> /\ events = {} /\ "aux" \notin reports /\ mouse_flag1 = 0
        /\ Sent("aux") = <<>>
    BY DEF Init, Sent, Device
  <2> QED
    BY <2>1 DEF PacketInv, EnableInv, Commands, Quiet
<1> DEFINE Inv == ControlInv /\ AnswersInv /\ HeldInv
<1>2. IInv /\ Inv /\ PacketInv /\ [Next]_vars => PacketInv'
  BY PacketStep
<1> QED
  BY <1>1, <1>2, Invariance, DialogueInvariance, PTL DEF Spec

\* What the devices send gets whole to whom it is meant for: answers stay in the
\* dialogue, and the handler of the mouse is called with the bytes of one packet,
\* for any number of calls, keys, packets and faults.
THEOREM BytesCorrect == Spec => []BytesDelivered
<1>1. PacketInv => PacketsWhole
  BY DEF PacketInv, Unmixed, PacketsWhole
<1>2. AnswersNotKeys /\ PacketsWhole => BytesDelivered
  BY DEF BytesDelivered
<1> QED
  BY <1>1, <1>2, AnswersCorrect, PacketInvariance, PTL
===============================================================================
