------------------------------ MODULE XhciSlots ------------------------------
(***************************************************************************)
(* What the xHCI driver tells its controller about devices                 *)
(* (src/hw/usb-xhci.c, called from src/hw/usb.c): a slot for each, where   *)
(* it is in the tree of hubs, and its endpoints.  A thread per port sets   *)
(* a device up with commands, one at a time; commands fail, are given up   *)
(* and carried out later, and devices go away meanwhile.  The rings that   *)
(* commands and transfers take are those of XhciRings.                     *)
(***************************************************************************)
EXTENDS Integers, Sequences, FiniteSets, SequencesExt

CONSTANTS
  Devices,      \* places where a device may be
  Root, Nobody,
  Slots,        \* the numbers of the controller's slots
  Worlds        \* bounds: how much of each of "left" there may be, and the tree of the
                \* devices: [Devices -> [hub, port, speed, kind, endpoints]], where
                \* hub is Root or a device

VARIABLES
  main,         \* configure_xhci(): its pc, and whether the controller runs
  dev,          \* what each port's thread does, with the default pipe's slot
  devs,         \* the slots whose entry of devs[] points to a context
  cmds,         \* commands the controller has not carried out, and the last event
  lock,         \* the holders of resetlock and of cmds->lock
  slot,         \* the controller: [Slots -> context it keeps]
  gone,         \* devices of the root hub that were unplugged
  left

vars == <<main, dev, devs, cmds, lock, slot, gone, left>>

Spend(what) == left[what] > 0 /\ left' = [left EXCEPT ![what] = @ - 1]

tree == left.tree

\* The device itself, its hub, the hub's hub and so on.
Chain(d) ==
  LET up[n \in Nat] == IF n = 0 THEN <<d>>
                       ELSE LET c == up[n - 1] IN
                            IF tree[Last(c)].hub = Root THEN c
                            ELSE Append(c, tree[Last(c)].hub)
  IN  up[Cardinality(Devices)]

IsSlow(d) == tree[d].speed \in {"low", "full"}
Unplugged(d) == Last(Chain(d)) \in gone

----------------------------------------------------------------------------
(* xhci_alloc_inctx(): where a device is                                       *)

NoTt == [slot |-> 0, port |-> 0]

\* Deviation: a hub of full speed counts as the one that splits the transactions.
TransactionTranslator_nearest(d) ==
  IF tree[d].hub = Root \/ ~IsSlow(d) THEN NoTt
  ELSE [slot |-> dev[tree[d].hub].slot, port |-> tree[d].port]

\* The hub of high speed that splits transactions for d: d's own hub, or what the
\* context of that hub says.
TransactionTranslator(d) ==
  LET h == tree[d].hub
  IN  IF h = Root \/ ~IsSlow(d) THEN NoTt
      ELSE IF tree[h].speed = "high"
           THEN [slot |-> dev[h].slot, port |-> tree[d].port]
           ELSE slot[dev[h].slot].tt

\* The port of the root hub, and the ports of the hubs from there to the device.
Place(d) ==
  LET way == Reverse(Chain(d))
  IN  [i \in 1 .. Len(way) |-> tree[way[i]].port]

xhci_alloc_inctx(d, entry) ==
  [place |-> Place(d), tt |-> TransactionTranslator(d), entry |-> entry]

NoContext == [place |-> <<>>, tt |-> NoTt, entry |-> "none"]

----------------------------------------------------------------------------
(* xhci_cmd_submit()                                                           *)

Goto(d, pc) == [dev EXCEPT ![d].pc = pc]

\* The thread sends a command and goes on at "then".
Submit(d, kind, n, inctx, then) ==
  /\ lock.cmds = Nobody
  /\ lock' = [lock EXCEPT !.cmds = d]
  /\ cmds' = [cmds EXCEPT !.queue = Append(@, [kind |-> kind, slot |-> n,
                                               inctx |-> inctx, dev |-> d])]
  /\ dev' = [dev EXCEPT ![d].pc = "wait", ![d].then = then]

\* With an input context, only while something is connected to the root hub's port.
SubmitContext(d, kind, n, inctx, then) ==
  IF Unplugged(d)
  THEN dev' = [dev EXCEPT ![d].pc = then, ![d].cc = "lost"] /\ UNCHANGED <<lock, cmds>>
  ELSE Submit(d, kind, n, inctx, then)

\* xhci_event_wait(): the ring is empty, and the last event is the command's own.
CommandComplete(d) ==
  /\ dev[d].pc = "wait" /\ cmds.queue = <<>>
  /\ dev' = [dev EXCEPT ![d].pc = dev[d].then, ![d].cc = cmds.cc,
                        ![d].slot = IF dev[d].then = "enabled" THEN cmds.slot ELSE @]
  /\ lock' = [lock EXCEPT !.cmds = Nobody]
  /\ UNCHANGED <<main, devs, cmds, slot, gone, left>>

CommandTimeout(d) ==
  /\ dev[d].pc = "wait" /\ cmds.queue # <<>>
  /\ Spend("timeouts")
  /\ dev' = [dev EXCEPT ![d].pc = dev[d].then, ![d].cc = "timeout"]
  /\ lock' = [lock EXCEPT !.cmds = Nobody]
  /\ cmds' = [cmds EXCEPT !.late = TRUE]
  /\ UNCHANGED <<main, devs, slot, gone>>

----------------------------------------------------------------------------
(* usb_hub_port_setup() and usb_set_address(), up to the default pipe          *)

\* Enumeration of the hub has begun.
Enumerated(d) == IF tree[d].hub = Root THEN main.pc = "ports"
                 ELSE dev[tree[d].hub].pc = "ports"

\* Something is there, or not; what asks a hub may fail.
Detect(d) ==
  /\ dev[d].pc = "detect" /\ Enumerated(d)
  /\ \/ ~Unplugged(d) /\ dev' = Goto(d, "reset")
     \/ dev' = Goto(d, "done")
  /\ UNCHANGED <<main, devs, cmds, lock, slot, gone, left>>

\* The reset fails if the device is gone or the link does not come up, the pipe or
\* its input context if there is no memory.
Reset(d) ==
  /\ dev[d].pc = "reset" /\ lock.reset = Nobody
  /\ \/ /\ ~Unplugged(d)
        /\ dev' = Goto(d, IF tree[d].hub = Root THEN "enable" ELSE "hub")
        /\ lock' = [lock EXCEPT !.reset = d]
        /\ UNCHANGED left
     \/ /\ Unplugged(d) /\ dev' = Goto(d, "done") /\ UNCHANGED <<lock, left>>
     \/ /\ Spend("failures") /\ dev' = Goto(d, "done") /\ UNCHANGED lock
  /\ UNCHANGED <<main, devs, cmds, slot, gone>>

AllocFails(d) ==
  /\ dev' = Goto(d, "done")
  /\ lock' = [lock EXCEPT !.reset = Nobody]

\* xhci_config_hub(): the hub's slot is told that it is a hub, unless it is configured.
ConfigHub(d) ==
  LET h == tree[d].hub
  IN  /\ dev[d].pc = "hub"
      /\ IF slot[dev[h].slot].state = "configured"
         THEN dev' = Goto(d, "enable") /\ UNCHANGED <<lock, cmds>>
         ELSE SubmitContext(d, "configure", dev[h].slot, xhci_alloc_inctx(h, "hub"),
                            "hub_set")
      /\ UNCHANGED <<main, devs, slot, gone, left>>

HubConfigured(d) ==
  /\ dev[d].pc = "hub_set"
  /\ IF dev[d].cc = "success" THEN dev' = Goto(d, "enable") /\ UNCHANGED lock
     ELSE AllocFails(d)
  /\ UNCHANGED <<main, devs, cmds, slot, gone, left>>

EnableSlot(d) ==
  /\ dev[d].pc = "enable"
  /\ \/ Submit(d, "enable", 0, NoContext, "enabled") /\ UNCHANGED left
     \/ Spend("failures") /\ AllocFails(d) /\ UNCHANGED cmds
  /\ UNCHANGED <<main, devs, slot, gone>>

\* The context is entered and the device is given an address.
AddressDevice(d) ==
  /\ dev[d].pc = "enabled"
  /\ IF dev[d].cc = "success"
     THEN /\ devs' = devs \cup {dev[d].slot}
          /\ SubmitContext(d, "address", dev[d].slot, xhci_alloc_inctx(d, "control"),
                           "addressed")
     ELSE AllocFails(d) /\ UNCHANGED <<devs, cmds>>
  /\ UNCHANGED <<main, slot, gone, left>>

\* The pipe is there; xhci_send_pipe() has nothing to do for SET_ADDRESS.
Addressed(d) ==
  /\ dev[d].pc = "addressed" /\ dev[d].cc = "success"
  /\ dev' = [dev EXCEPT ![d].pc = "describe", ![d].pipes = {"control"},
                        ![d].memory = {"control"}]
  /\ lock' = [lock EXCEPT !.reset = Nobody]
  /\ UNCHANGED <<main, devs, cmds, slot, gone, left>>

\* The slot is given back.
DisableSlot(d) ==
  /\ dev[d].pc = "addressed" /\ dev[d].cc # "success"
  /\ Submit(d, "disable", dev[d].slot, NoContext, "disabled")
  /\ UNCHANGED <<main, devs, slot, gone, left>>

\* Deviation: the context is freed even if the slot could not be disabled.
Freed_always(d) == TRUE

\* The context is freed only if the controller has no more use for it.
Freed(d) == dev[d].cc = "success"

SlotDisabled(d) ==
  /\ dev[d].pc = "disabled"
  /\ devs' = IF Freed(d) THEN devs \ {dev[d].slot} ELSE devs
  /\ dev' = [dev EXCEPT ![d].pc = "done", ![d].slot = 0]
  /\ lock' = [lock EXCEPT !.reset = Nobody]
  /\ UNCHANGED <<main, cmds, slot, gone, left>>

----------------------------------------------------------------------------
(* configure_usb_device()                                                      *)

\* Requests on the default pipe fail, or there is no driver: the pipe is no longer
\* used, but the slot stays.
Undone(d) == [dev EXCEPT ![d].pc = "done", ![d].pipes = {}]

\* xhci_realloc_pipe(): the size of the packets turns out to be another one.
Describe(d) ==
  /\ dev[d].pc = "describe"
  /\ \/ /\ dev' = Goto(d, "configure") /\ UNCHANGED <<cmds, lock, left>>
     \/ /\ tree[d].speed = "full"
        /\ SubmitContext(d, "evaluate", dev[d].slot, xhci_alloc_inctx(d, "control"),
                         "configure")
        /\ UNCHANGED left
     \/ /\ Unplugged(d) /\ dev' = Undone(d) /\ UNCHANGED <<cmds, lock, left>>
     \/ /\ Spend("failures") /\ dev' = Undone(d) /\ UNCHANGED <<cmds, lock>>
  /\ UNCHANGED <<main, devs, slot, gone>>

\* The driver is chosen: a hub's looks at its ports, the others ask for pipes.
Configure(d) ==
  /\ dev[d].pc = "configure"
  /\ dev' = IF Unplugged(d) THEN Undone(d)
            ELSE Goto(d, IF tree[d].kind = "hub" THEN "ports" ELSE "pipe")
  /\ UNCHANGED <<main, devs, cmds, lock, slot, gone, left>>

\* The endpoint whose turn it is.
Endpoint(d) == tree[d].endpoints[Cardinality(dev[d].pipes)]

\* xhci_alloc_pipe() of another endpoint: there is memory for its ring.
AllocPipe(d) ==
  /\ dev[d].pc = "pipe"
  /\ dev[d].memory = dev[d].pipes
  /\ dev' = IF Cardinality(dev[d].pipes) > Len(tree[d].endpoints)
            THEN [dev EXCEPT ![d].pc = "done", ![d].driver = TRUE]
            ELSE [dev EXCEPT ![d].memory = @ \cup {Endpoint(d)}]
  /\ UNCHANGED <<main, devs, cmds, lock, slot, gone, left>>

ConfigurePipe(d) ==
  /\ dev[d].pc = "pipe" /\ dev[d].memory # dev[d].pipes
  /\ SubmitContext(d, "configure", dev[d].slot, xhci_alloc_inctx(d, Endpoint(d)), "piped")
  /\ UNCHANGED <<main, devs, slot, gone, left>>

\* A pipe that the controller does not know is freed, those before it are only put
\* on the list of unused ones.
PipeConfigured(d) ==
  /\ dev[d].pc = "piped"
  /\ dev' = IF dev[d].cc = "success"
            THEN [dev EXCEPT ![d].pc = "pipe", ![d].pipes = @ \cup {Endpoint(d)}]
            ELSE [Undone(d) EXCEPT ![d].memory = @ \ {Endpoint(d)}]
  /\ UNCHANGED <<main, devs, cmds, lock, slot, gone, left>>

\* usb_hub_setup() returns when the threads of all ports are done.
HubDone(d) ==
  LET behind == {c \in Devices : tree[c].hub = d}
  IN  /\ dev[d].pc = "ports" /\ \A c \in behind : dev[c].pc = "done"
      /\ dev' = IF \E c \in behind : dev[c].driver
                THEN [dev EXCEPT ![d].pc = "done", ![d].driver = TRUE] ELSE Undone(d)
      /\ UNCHANGED <<main, devs, cmds, lock, slot, gone, left>>

----------------------------------------------------------------------------
(* configure_xhci()                                                            *)

\* The controller is reset, told where its tables are, and started; or there is no
\* memory, or it does not come out of a reset.
Start ==
  /\ main.pc = "setup"
  /\ \/ main' = [pc |-> "ports", running |-> TRUE, memory |-> TRUE] /\ UNCHANGED left
     \/ /\ Spend("failures")
        /\ main' = [pc |-> "end", running |-> FALSE, memory |-> FALSE]
  /\ UNCHANGED <<dev, devs, cmds, lock, slot, gone>>

Count == Cardinality({d \in Devices : tree[d].hub = Root /\ dev[d].driver})

\* Without devices the controller is stopped and its memory freed.
PortsDone ==
  /\ main.pc = "ports"
  /\ \A d \in Devices : tree[d].hub = Root => dev[d].pc = "done"
  /\ main' = [pc |-> "end", running |-> Count # 0, memory |-> Count # 0]
  /\ UNCHANGED <<dev, devs, cmds, lock, slot, gone, left>>

----------------------------------------------------------------------------
(* The controller                                                              *)

\* The commands whose slot is not in the state they need fail, and a device may
\* refuse its address, or the bus an endpoint.
Refused(c) ==
  CASE c.kind = "enable" -> \A n \in Slots : slot[n].state # "disabled"
    [] c.kind = "disable" -> slot[c.slot].state = "disabled"
    [] c.kind = "address" -> slot[c.slot].state # "enabled" \/ Unplugged(c.dev)
    [] OTHER -> slot[c.slot].state \notin {"addressed", "configured"}

NoSlot == [state |-> "disabled", place |-> <<>>, tt |-> NoTt, hub |-> FALSE, eps |-> {}]

\* What a slot is told.  A slot without other endpoints than the first counts as
\* configured or not.
SlotAfter(c) ==
  LET s == slot[c.slot]
  IN  CASE c.kind = "disable" -> {NoSlot}
        [] c.kind = "address" ->
             {[s EXCEPT !.state = "addressed", !.place = c.inctx.place,
                        !.tt = c.inctx.tt, !.eps = {"control"}]}
        [] c.kind = "configure" /\ c.inctx.entry = "hub" ->
             {[s EXCEPT !.state = st, !.hub = TRUE] :
                st \in {"configured"} \cup {s.state}}
        [] c.kind = "configure" /\ c.inctx.entry # "hub" ->
             {[s EXCEPT !.state = "configured", !.eps = @ \cup {c.inctx.entry}]}
        [] OTHER -> {s}

Carry(cc, n) == cmds' = [cmds EXCEPT !.queue = Tail(@), !.cc = cc, !.slot = n]

CarryOut ==
  /\ cmds.queue # <<>> /\ main.running
  /\ LET c == Head(cmds.queue)
     IN  /\ \/ /\ Refused(c)
               /\ Carry("error", 0) /\ UNCHANGED <<slot, left>>
            \/ /\ Spend("failures")
               /\ Carry("error", 0) /\ UNCHANGED slot
            \/ /\ ~Refused(c) /\ c.kind = "enable"
               /\ \E n \in Slots :
                    /\ slot[n].state = "disabled"
                    /\ slot' = [slot EXCEPT ![n].state = "enabled"]
                    /\ Carry("success", n)
               /\ UNCHANGED left
            \/ /\ ~Refused(c) /\ c.kind # "enable"
               /\ \E s \in SlotAfter(c) : slot' = [slot EXCEPT ![c.slot] = s]
               /\ Carry("success", c.slot)
               /\ UNCHANGED left
  /\ UNCHANGED <<main, dev, devs, lock, gone>>

\* Somebody pulls a plug out.
Unplug(d) ==
  /\ tree[d].hub = Root /\ d \notin gone
  /\ Spend("unplugs")
  /\ gone' = gone \cup {d}
  /\ UNCHANGED <<main, dev, devs, cmds, lock, slot>>

----------------------------------------------------------------------------

Init ==
  /\ main = [pc |-> "setup", running |-> FALSE, memory |-> TRUE]
  /\ dev = [d \in Devices |-> [pc |-> "detect", then |-> "none", cc |-> "none",
                               slot |-> 0, pipes |-> {}, memory |-> {}, driver |-> FALSE]]
  /\ devs = {}
  /\ cmds = [queue |-> <<>>, cc |-> "none", slot |-> 0, late |-> FALSE]
  /\ lock = [reset |-> Nobody, cmds |-> Nobody]
  /\ slot = [n \in Slots |-> NoSlot]
  /\ gone = {}
  /\ left \in Worlds

Next ==
  \/ Start \/ PortsDone \/ CarryOut
  \/ \E d \in Devices :
       \/ CommandComplete(d) \/ CommandTimeout(d) \/ Detect(d) \/ Reset(d)
       \/ ConfigHub(d) \/ HubConfigured(d) \/ EnableSlot(d) \/ AddressDevice(d)
       \/ Addressed(d) \/ DisableSlot(d) \/ SlotDisabled(d)
       \/ Describe(d) \/ Configure(d) \/ AllocPipe(d) \/ ConfigurePipe(d)
       \/ PipeConfigured(d) \/ HubDone(d) \/ Unplug(d)

Spec == Init /\ [][Next]_vars
----------------------------------------------------------------------------
(* Properties                                                                 *)

\* The hub of high speed nearest to a slow device, and the port below it.
Splitter(d) ==
  LET c == Chain(d)
      fast == {i \in 2 .. Len(c) : tree[c[i]].speed = "high"}
  IN  IF fast = {} \/ ~IsSlow(d) THEN NoTt
      ELSE LET i == CHOOSE i \in fast : \A j \in fast : i <= j
           IN  [slot |-> dev[c[i]].slot, port |-> tree[c[i - 1]].port]

\* Whichever commands fail, come late or are never answered, and whatever is unplugged
\* meanwhile: a device with a pipe has a slot of its own, which the controller knows to
\* be in the device's place, behind the hub that splits its transactions; the hubs on
\* the way are known as hubs.  The controller has a context to write to for every slot
\* it has addressed, and no endpoint of it but those of pipes, unless a command was
\* given up.
SlotsTrue ==
  /\ \A d \in Devices : dev[d].pipes # {} =>
       /\ slot[dev[d].slot].state \in {"addressed", "configured"}
       /\ slot[dev[d].slot].place = Place(d)
       /\ slot[dev[d].slot].tt = Splitter(d)
       /\ LET c == Chain(d)
          IN  \A i \in 2 .. Len(c) : slot[dev[c[i]].slot].hub
       /\ \A o \in Devices \ {d} : dev[o].slot # dev[d].slot
       /\ dev[d].pc = "done" /\ dev[d].driver =>
            dev[d].pipes \subseteq slot[dev[d].slot].eps /\ main.memory
  /\ \A n \in Slots :
       slot[n].state \in {"addressed", "configured"} /\ main.running => n \in devs
  /\ ~cmds.late =>
       \A d \in Devices : dev[d].pipes # {} =>
         slot[dev[d].slot].eps \subseteq dev[d].memory
=============================================================================
