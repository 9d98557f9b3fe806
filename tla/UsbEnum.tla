------------------------------ MODULE UsbEnum ------------------------------
(* The enumeration of the USB devices behind one controller                  *)
(* (src/hw/usb.c, src/hw/usb-hub.c and the root hubs of the UHCI, OHCI and    *)
(* EHCI drivers).                                                             *)
(*                                                                            *)
(* usb_enumerate() starts a thread of usb_hub_port_setup() for every port of  *)
(* a hub, or runs it in place when there is no memory for a stack, and waits  *)
(* until hub->threads is zero.  The device of a port may be a hub, whose      *)
(* driver calls usb_enumerate() again with a struct usbhub_s on the stack of  *)
(* the thread.  A step here is the code between two points where a thread     *)
(* can lose the CPU (yield, msleep, a transfer).  A poll that is repeated     *)
(* because the hardware is not ready yet changes nothing and is not a step;   *)
(* the timeouts of the loops bound the repetition.                            *)
EXTENDS Integers, FiniteSets

CONSTANTS
  Ports,       \* the ports of all hubs behind the controller, numbers from 1
  Parent,      \* Parent[p]: the hub of port p, which is a port or Root
  Hubs,        \* the ports a hub may be attached to
  USB_MAXADDR, \* the last device address
  DeviceOom    \* may malloc_tmphigh(sizeof(*usbdev)) fail?

Root == 0
NoPort == -1
Nodes == Ports \cup {Root}
Below(h) == {p \in Ports : Parent[p] = h}

ASSUME UsbAssumption ==
  /\ IsFiniteSet(Ports)
  /\ Ports \subseteq Nat \ {0}
  /\ Hubs \subseteq Ports
  /\ Parent \in [Ports -> Hubs \cup {Root}]
  /\ \A p \in Ports : Parent[p] < p
  /\ USB_MAXADDR \in Nat
  /\ DeviceOom \in BOOLEAN

VARIABLES
  pc,        \* pc[n]: where the code that handles port n is
  todo,      \* todo[h]: the ports that the loop of usb_enumerate() has ahead
  inplace,   \* inplace[h]: the port set up on the stack of usb_enumerate()
  threads,   \* hub->threads
  devcount,  \* hub->devcount
  resetlock, \* the holder of cntl->resetlock
  hublock,   \* hublock[h]: the holder of hub->lock
  maxaddr,   \* cntl->maxaddr
  devaddr,   \* usbdev->devaddr
  pipe,      \* pipe[p]: does usbdev->defpipe point to a pipe?
  free,      \* the number of control pipes on cntl->freelist
  made,      \* the number of control pipes ever allocated
  driver,    \* driver[p]: the driver of port p's device was set up
  dev,       \* hardware: the state of the device at port p
  addr,      \* hardware: the address it answers to
  stuck,     \* hardware: the ports whose hub refused to disable them
  running    \* the controller is left running

software == <<todo, inplace, threads, devcount, driver>>
pipes    == <<pipe, free, made>>
hardware == <<dev, addr, stuck>>
vars == <<pc, software, resetlock, hublock, maxaddr, devaddr, pipes, hardware,
          running>>

Steps == {"idle", "detect", "lock", "reset", "resetwait", "address",
          "setaddr", "recovery", "abort", "configure", "enumerate", "wait",
          "drop", "done"}

TypeOK ==
  /\ pc \in [Nodes -> Steps]
  /\ todo \in [Nodes -> SUBSET Ports]
  /\ inplace \in [Nodes -> Ports \cup {NoPort}]
  /\ threads \in [Nodes -> 0 .. Cardinality(Ports)]
  /\ devcount \in [Nodes -> 0 .. Cardinality(Ports)]
  /\ resetlock \in Ports \cup {NoPort}
  /\ hublock \in [Nodes -> Ports \cup {NoPort}]
  /\ maxaddr \in 0 .. USB_MAXADDR
  /\ devaddr \in [Ports -> 0 .. USB_MAXADDR]
  /\ pipe \in [Ports -> BOOLEAN]
  /\ free \in 0 .. Cardinality(Ports)
  /\ made \in 0 .. Cardinality(Ports)
  /\ driver \in [Ports -> BOOLEAN]
  /\ dev \in [Ports -> {"off", "default", "addressed"}]
  /\ addr \in [Ports -> 0 .. USB_MAXADDR]
  /\ stuck \subseteq Ports
  /\ running \in BOOLEAN

----------------------------------------------------------------------------
(* Hub requests.  The root hub's ports are registers; every request to an     *)
(* external hub is a transfer on the hub's own pipe, under hub->lock.         *)

AsksHub == {"detect", "reset", "resetwait", "abort", "drop"}

\* Port p may complete the request it makes of its hub.
Ready(p) == Parent[p] = Root \/ hublock[Parent[p]] = p

\* mutex_lock(&hub->lock) at the start of a request.
LockHub(p) ==
  /\ pc[p] \in AsksHub
  /\ Parent[p] # Root
  /\ hublock[Parent[p]] = NoPort
  /\ hublock' = [hublock EXCEPT ![Parent[p]] = p]
  /\ UNCHANGED <<pc, software, resetlock, maxaddr, devaddr, pipes, hardware,
                 running>>

\* mutex_unlock(&hub->lock) after the transfer.
UnlockHub(p) ==
  hublock' = IF Parent[p] = Root THEN hublock
             ELSE [hublock EXCEPT ![Parent[p]] = NoPort]

GoTo(p, step) == pc' = [pc EXCEPT ![p] = step]

\* Deviation: hub->threads is not decremented on this path.
FinishForgets(p, count) ==
  /\ GoTo(p, "done")
  /\ devcount' = [devcount EXCEPT ![Parent[p]] = @ + count]
  /\ inplace' = [inplace EXCEPT ![Parent[p]] = IF @ = p THEN NoPort ELSE @]
  /\ driver' = [driver EXCEPT ![p] = count = 1]
  /\ UNCHANGED <<threads, todo>>

\* Deviation: the count of the last port replaces that of the others.
FinishOverwrites(p, count) ==
  /\ GoTo(p, "done")
  /\ threads' = [threads EXCEPT ![Parent[p]] = @ - 1]
  /\ devcount' = [devcount EXCEPT ![Parent[p]] = count]
  /\ inplace' = [inplace EXCEPT ![Parent[p]] = IF @ = p THEN NoPort ELSE @]
  /\ driver' = [driver EXCEPT ![p] = count = 1]
  /\ UNCHANGED todo

\* The end of usb_hub_port_setup().
Finish(p, count) ==
  /\ GoTo(p, "done")
  /\ threads' = [threads EXCEPT ![Parent[p]] = @ - 1]
  /\ devcount' = [devcount EXCEPT ![Parent[p]] = @ + count]
  /\ inplace' = [inplace EXCEPT ![Parent[p]] = IF @ = p THEN NoPort ELSE @]
  /\ driver' = [driver EXCEPT ![p] = count = 1]
  /\ UNCHANGED todo

\* hub->op->disconnect(); the error of an external hub is only logged.
Disconnect(p) ==
  \/ dev' = [dev EXCEPT ![p] = "off"] /\ UNCHANGED <<addr, stuck>>
  \/ Parent[p] # Root /\ stuck' = stuck \cup {p} /\ UNCHANGED <<dev, addr>>

FreePipe(p) ==
  /\ pipe' = [pipe EXCEPT ![p] = FALSE]
  /\ free' = free + 1
  /\ UNCHANGED made

----------------------------------------------------------------------------
(* usb_hub_port_setup()                                                       *)

Detect(p) ==
  /\ pc[p] = "detect" /\ Ready(p)
  /\ \/ GoTo(p, "lock") /\ UNCHANGED software
     \/ Finish(p, 0)
  /\ UnlockHub(p)
  /\ UNCHANGED <<resetlock, maxaddr, devaddr, pipes, hardware, running>>

LockReset(p) ==
  /\ pc[p] = "lock"
  /\ resetlock = NoPort
  /\ resetlock' = p
  /\ GoTo(p, "reset")
  /\ UNCHANGED <<software, hublock, maxaddr, devaddr, pipes, hardware, running>>

\* The device is reset, and answers to address zero from now on.
Reset(p) ==
  /\ pc[p] = "reset" /\ Ready(p)
  /\ \/ /\ dev' = [dev EXCEPT ![p] = "default"]
        /\ addr' = [addr EXCEPT ![p] = 0]
        /\ GoTo(p, "resetwait")
     \/ Parent[p] # Root /\ GoTo(p, "abort") /\ UNCHANGED <<dev, addr>>
  /\ UnlockHub(p)
  /\ UNCHANGED <<software, resetlock, maxaddr, devaddr, pipes, stuck, running>>

\* The reset is complete, fails or times out, or the device is gone.
ResetWait(p) ==
  /\ pc[p] = "resetwait" /\ Ready(p)
  /\ \/ GoTo(p, "address") /\ UNCHANGED <<software, dev, resetlock>>
     \/ GoTo(p, "abort") /\ UNCHANGED <<software, dev, resetlock>>
     \/ /\ dev' = [dev EXCEPT ![p] = "off"]
        /\ resetlock' = NoPort
        /\ Finish(p, 0)
  /\ UnlockHub(p)
  /\ UNCHANGED <<maxaddr, devaddr, pipes, addr, stuck, running>>

AddressesLeft == maxaddr < USB_MAXADDR

\* usb_set_address() as far as the allocation of a pipe, which comes from the
\* freelist or from malloc_tmphigh().
Address(p) ==
  /\ pc[p] = "address"
  /\ \/ /\ AddressesLeft
        /\ free > 0
        /\ free' = free - 1 /\ UNCHANGED made
        /\ pipe' = [pipe EXCEPT ![p] = TRUE]
        /\ GoTo(p, "setaddr")
     \/ /\ AddressesLeft
        /\ free = 0
        /\ made' = made + 1 /\ UNCHANGED free
        /\ pipe' = [pipe EXCEPT ![p] = TRUE]
        /\ GoTo(p, "setaddr")
     \/ /\ ~AddressesLeft \/ free = 0
        /\ GoTo(p, "abort") /\ UNCHANGED pipes
  /\ UNCHANGED <<software, resetlock, hublock, maxaddr, devaddr, hardware,
                 running>>

\* The set_address command.  The device may take the address although the
\* command fails.
SetAddress(p) ==
  /\ pc[p] = "setaddr"
  /\ \/ dev' = [dev EXCEPT ![p] = "addressed"]
        /\ addr' = [addr EXCEPT ![p] = maxaddr + 1]
     \/ UNCHANGED <<dev, addr>>
  /\ \/ GoTo(p, "recovery") /\ dev'[p] = "addressed" /\ UNCHANGED pipes
     \/ GoTo(p, "abort") /\ FreePipe(p)
  /\ UNCHANGED <<software, resetlock, hublock, maxaddr, devaddr, stuck, running>>

\* After the recovery time.  usb_realloc_pipe() puts the pipe on the freelist
\* and takes it off again.
Recovery(p) ==
  /\ pc[p] = "recovery"
  /\ maxaddr' = maxaddr + 1
  /\ devaddr' = [devaddr EXCEPT ![p] = maxaddr']
  /\ resetlock' = NoPort
  /\ GoTo(p, "configure")
  /\ UNCHANGED <<software, hublock, pipes, hardware, running>>

\* Deviation: a device that failed is not disconnected.
AbortConnected(p) ==
  /\ pc[p] = "abort" /\ Ready(p)
  /\ resetlock' = NoPort
  /\ Finish(p, 0)
  /\ UnlockHub(p)
  /\ UNCHANGED <<maxaddr, devaddr, pipes, hardware, running>>

\* A failed reset or set_address command: disconnect, and resetfail.
Abort(p) ==
  /\ pc[p] = "abort" /\ Ready(p)
  /\ Disconnect(p)
  /\ resetlock' = NoPort
  /\ Finish(p, 0)
  /\ UnlockHub(p)
  /\ UNCHANGED <<maxaddr, devaddr, pipes, running>>

\* configure_usb_device(): there is no driver or an error, a driver is set
\* up, or the device is a hub that is enumerated in turn.
Configure(p) ==
  /\ pc[p] = "configure"
  /\ \/ GoTo(p, "drop") /\ FreePipe(p) /\ UNCHANGED software
     \/ p \notin Hubs /\ Finish(p, 1) /\ FreePipe(p)
     \/ /\ p \in Hubs
        /\ GoTo(p, "enumerate")
        /\ threads' = [threads EXCEPT ![p] = Cardinality(Below(p))]
        /\ todo' = [todo EXCEPT ![p] = Below(p)]
        /\ UNCHANGED <<inplace, devcount, driver, pipes>>
  /\ UNCHANGED <<resetlock, hublock, maxaddr, devaddr, hardware, running>>

Drop(p) ==
  /\ pc[p] = "drop" /\ Ready(p)
  /\ Disconnect(p)
  /\ Finish(p, 0)
  /\ UnlockHub(p)
  /\ UNCHANGED <<resetlock, maxaddr, devaddr, pipes, running>>

----------------------------------------------------------------------------
(* usb_enumerate()                                                            *)

NextPort(h) == CHOOSE p \in todo[h] : \A q \in todo[h] : p <= q

\* run_thread(usb_hub_port_setup): a thread, or a call in place.
Launch(h) ==
  /\ pc[h] = "enumerate"
  /\ inplace[h] = NoPort
  /\ todo[h] # {}
  /\ todo' = [todo EXCEPT ![h] = @ \ {NextPort(h)}]
  /\ GoTo(NextPort(h), "detect")
  /\ \/ UNCHANGED inplace
     \/ inplace' = [inplace EXCEPT ![h] = NextPort(h)]
  /\ UNCHANGED <<threads, devcount, driver, resetlock, hublock, maxaddr,
                 devaddr, pipes, hardware, running>>

\* malloc_tmphigh(sizeof(*usbdev)) fails: the loop goes on.
LaunchFails(h) ==
  /\ DeviceOom
  /\ pc[h] = "enumerate"
  /\ inplace[h] = NoPort
  /\ todo[h] # {}
  /\ todo' = [todo EXCEPT ![h] = @ \ {NextPort(h)}]
  /\ UNCHANGED <<pc, inplace, threads, devcount, driver, resetlock, hublock,
                 maxaddr, devaddr, pipes, hardware, running>>

LoopEnds(h) ==
  /\ pc[h] = "enumerate"
  /\ inplace[h] = NoPort
  /\ todo[h] = {}
  /\ GoTo(h, "wait")
  /\ UNCHANGED <<software, resetlock, hublock, maxaddr, devaddr, pipes,
                 hardware, running>>

\* Deviation: usb_enumerate() does not wait for its threads.
ThreadsComplete_nowait(h) == TRUE

ThreadsComplete(h) == threads[h] = 0

\* The end of usb_hub_setup(): a hub without devices is not kept.
HubSetupEnds(p) ==
  /\ p # Root
  /\ pc[p] = "wait" /\ ThreadsComplete(p)
  /\ FreePipe(p)
  /\ \/ devcount[p] # 0 /\ Finish(p, 1)
     \/ devcount[p] = 0 /\ GoTo(p, "drop") /\ UNCHANGED software
  /\ UNCHANGED <<resetlock, hublock, maxaddr, devaddr, hardware, running>>

\* The controller's configure function: free the pipes of the freelist and
\* shut the controller down if there is no device.
ControllerEnds ==
  /\ pc[Root] = "wait" /\ ThreadsComplete(Root)
  /\ GoTo(Root, "done")
  /\ free' = 0
  /\ made' = made - free
  /\ running' = (devcount[Root] # 0)
  /\ UNCHANGED <<software, resetlock, hublock, maxaddr, devaddr, pipe, hardware>>

Complete == pc[Root] = "done" /\ UNCHANGED vars

----------------------------------------------------------------------------

Init ==
  /\ pc = [n \in Nodes |-> IF n = Root THEN "enumerate" ELSE "idle"]
  /\ todo = [n \in Nodes |-> IF n = Root THEN Below(Root) ELSE {}]
  /\ inplace = [n \in Nodes |-> NoPort]
  /\ threads = [n \in Nodes |-> IF n = Root THEN Cardinality(Below(Root)) ELSE 0]
  /\ devcount = [n \in Nodes |-> 0]
  /\ resetlock = NoPort
  /\ hublock = [n \in Nodes |-> NoPort]
  /\ maxaddr = 0
  /\ devaddr = [p \in Ports |-> 0]
  /\ pipe = [p \in Ports |-> FALSE]
  /\ free = 0
  /\ made = 0
  /\ driver = [p \in Ports |-> FALSE]
  /\ dev = [p \in Ports |-> "off"]
  /\ addr = [p \in Ports |-> 0]
  /\ stuck = {}
  /\ running = TRUE

PortStep(p) ==
  \/ LockHub(p) \/ Detect(p) \/ LockReset(p) \/ Reset(p) \/ ResetWait(p)
  \/ Address(p) \/ SetAddress(p) \/ Recovery(p) \/ Abort(p) \/ Configure(p)
  \/ HubSetupEnds(p) \/ Drop(p)

HubStep(h) == Launch(h) \/ LaunchFails(h) \/ LoopEnds(h)

Next ==
  \/ \E p \in Ports : PortStep(p)
  \/ \E h \in Nodes : HubStep(h)
  \/ ControllerEnds
  \/ Complete

Spec == Init /\ [][Next]_vars

\* yield() passes the CPU on from thread to thread, so some thread that can
\* make progress does.
FairSpec == Spec /\ WF_vars(Next)

----------------------------------------------------------------------------
(* Properties                                                                 *)

\* At most one device answers to address zero: the device whose port holds
\* cntl->resetlock.  (A hub that refuses to disable the port of a failed
\* device is the exception the code cannot help.)
AddressZeroExclusive ==
  \A p \in Ports : dev[p] = "default" /\ p \notin stuck => resetlock = p

\* No two devices answer to the same address, although the failure of a
\* set_address command does not tell whether the device took the address and
\* the same address is tried again for the next device.
UniqueAddresses ==
  \A p, q \in Ports \ stuck :
    dev[p] = "addressed" /\ dev[q] = "addressed" /\ p # q => addr[p] # addr[q]

\* A request reaches one device only, whichever requests failed before.
AddressesExclusive == TypeOK /\ AddressZeroExclusive /\ UniqueAddresses

\* The struct usbhub_s that a port's thread uses is on the stack of
\* usb_hub_setup(): the hub's code is still in usb_enumerate(), counts the
\* thread, and has not freed the pipe of the hub, as long as a thread of its
\* ports runs.
HubOutlivesThreads ==
  \A p \in Ports :
    pc[p] \notin {"idle", "done"} =>
      /\ pc[Parent[p]] \in {"enumerate", "wait"}
      /\ threads[Parent[p]] > 0
      /\ Parent[p] # Root => pipe[Parent[p]]

\* Control pipes are neither leaked nor shared: every pipe ever made is the
\* default pipe of one device or on the freelist, and none is in use once the
\* controller's setup is over.
PipesAccounted ==
  /\ made = free + Cardinality({p \in Ports : pipe[p]})
  /\ pc[Root] = "done" => made = 0

\* A device with a driver stays reachable: the hub it is behind is neither
\* disconnected nor, for a root port, is the controller shut down, when the
\* hub's setup is over.
DriversReachable ==
  \A p \in Ports :
    driver[p] /\ pc[Parent[p]] = "done" =>
      IF Parent[p] = Root THEN running
      ELSE dev[Parent[p]] = "addressed" /\ driver[Parent[p]]

\* Whatever fails on one port or in one request, what a driver uses stays and what
\* nobody uses is given back (configure_usb_device(), usb_hub_setup()).
PipesAndDriversKept == PipesAccounted /\ DriversReachable

\* The enumeration comes to an end: usb_enumerate() is not left waiting for
\* threads, and no lock is kept.
EnumerationEnds == <>(pc[Root] = "done")

\* A port was passed over for want of memory.
Skipped ==
  \E p \in Ports :
    /\ pc[p] = "idle" /\ p \notin todo[Parent[p]]
    /\ pc[Parent[p]] \in {"enumerate", "wait"}

\* As long as there is memory for every struct usbdevice_s, the enumeration
\* ends whatever the devices and the hubs do.
EndsWithMemory == <>(pc[Root] = "done" \/ Skipped)

-------------------------------------------------------------------------------
(* The ports of the runs: two root ports, a hub behind the first with two      *)
(* ports of its own.                                                           *)

MCPorts == 1 .. 4
MCHubs == {1}
MCParent == [p \in MCPorts |-> IF p <= 2 THEN Root ELSE 1]

============================================================================
