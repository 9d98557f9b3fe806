---------------------------- MODULE UsbEnumProof ----------------------------
(***************************************************************************)
(* The safety properties of module UsbEnum for every tree of hubs, every   *)
(* number of addresses, and with or without enough memory.                 *)
(***************************************************************************)
EXTENDS UsbEnum, FiniteSetTheorems, WellFoundedInduction, TLAPS

----------------------------------------------------------------------------
(* The inductive invariant.                                                *)

\* usb_hub_port_setup() runs on the port.
Active(p) == pc[p] \notin {"idle", "done"}

\* The code that holds cntl->resetlock.
Holding == {"reset", "resetwait", "address", "setaddr", "recovery", "abort"}

\* cntl->resetlock is held by the one port whose device may answer to address
\* zero.
ResetInv == \A p \in Ports : resetlock = p <=> pc[p] \in Holding

\* What the device of port p is, as far as the code for the port has come.
DeviceInv ==
  \A p \in Ports :
    /\ pc[p] \in {"idle", "detect", "lock", "reset"} => dev[p] = "off"
    /\ pc[p] \in {"resetwait", "address", "setaddr"} => dev[p] = "default"
    /\ pc[p] \in {"recovery", "configure", "enumerate", "wait", "drop"}
         => dev[p] = "addressed"
    /\ pc[p] \in {"setaddr", "recovery"} => maxaddr < USB_MAXADDR
    /\ p \in stuck => pc[p] = "done"
    /\ pc[p] = "done" /\ p \notin stuck => dev[p] # "default"

\* The address that is being given out is above all others in use, whether or
\* not the device took it.
AddressInv ==
  \A p \in Ports \ stuck : dev[p] = "addressed" =>
    IF pc[p] \in Holding THEN addr[p] = maxaddr + 1 ELSE addr[p] <= maxaddr

\* Ports are set up while their hub is in usb_enumerate(), each of them once.
TreeInv ==
  /\ pc[Root] \in {"enumerate", "wait", "done"}
  /\ \A h \in Nodes : todo[h] \subseteq Below(h)
  /\ \A p \in Ports : p \in todo[Parent[p]] => pc[p] = "idle"
  /\ \A p \in Ports : Active(p) => pc[Parent[p]] \in {"enumerate", "wait"}
  /\ \A p \in Ports :
       pc[p] = "done" => pc[Parent[p]] \in {"enumerate", "wait", "drop", "done"}

Unfinished(h) == {p \in Below(h) : pc[p] # "done"}

\* hub->threads counts the ports that are not finished.
ThreadsInv ==
  \A h \in Nodes :
    pc[h] \in {"enumerate", "wait"} => threads[h] = Cardinality(Unfinished(h))

\* hub->devcount counts the ports with a driver, which keeps the port's device
\* and its hub.
DriverInv ==
  /\ \A h \in Nodes : devcount[h] = Cardinality({p \in Below(h) : driver[p]})
  /\ \A p \in Ports : driver[p] => pc[p] = "done" /\ dev[p] = "addressed"
  /\ \A p \in Ports :
       driver[p] /\ Parent[p] # Root /\ pc[Parent[p]] \in {"drop", "done"}
         => driver[Parent[p]]
  /\ pc[Root] = "done" => running = (devcount[Root] # 0)

\* The port's code has a pipe between usb_set_address() and the end of
\* configure_usb_device().
PipeInv ==
  /\ \A p \in Ports :
       pipe[p] <=> pc[p] \in {"setaddr", "recovery", "configure", "enumerate", "wait"}
  /\ PipesAccounted

IInv ==
  /\ TypeOK
  /\ ResetInv
  /\ DeviceInv
  /\ AddressInv /\ UniqueAddresses
  /\ TreeInv
  /\ ThreadsInv
  /\ DriverInv
  /\ PipeInv

----------------------------------------------------------------------------
(* The tree of ports and hubs.                                             *)

\* The parent of a port is a port before it, or the controller.
LEMMA TreeFacts ==
  /\ Root \notin Ports /\ NoPort \notin Ports /\ Root \in Nodes /\ Ports \subseteq Nodes
  /\ Parent \in [Ports -> Nodes]
  /\ \A p \in Ports : Parent[p] # p
  /\ Ports \subseteq Nat
<1>1. Root \notin Ports /\ NoPort \notin Ports /\ Ports \subseteq Nat
  BY UsbAssumption DEF Root, NoPort
<1>2. Parent \in [Ports -> Nodes] /\ Root \in Nodes /\ Ports \subseteq Nodes
  BY UsbAssumption DEF Nodes
<1>3. ASSUME NEW p \in Ports, Parent[p] = p
      PROVE  FALSE
  <2>1. p < p /\ p \in Nat
    BY <1>1, <1>3, UsbAssumption
  <2> QED
    BY <2>1
<1> QED
  BY <1>1, <1>2, <1>3

\* Every set of ports that is not empty has a first one.
LEMMA FirstPort ==
  ASSUME NEW S \in SUBSET Ports, S # {}
  PROVE  \E p \in S : \A q \in S : p <= q
<1>1. S \subseteq Nat
  BY TreeFacts
<1>2. PICK p \in S : \A q \in S : ~(<<q, p>> \in OpToRel(<, Nat))
  BY <1>1, WFMin, NatLessThanWellFounded, Zenon
<1>3. \A q \in S : ~(q < p)
  BY <1>1, <1>2, Zenon DEF OpToRel
<1> QED
  BY <1>1, <1>3

\* usb_enumerate() goes through the ports of its hub.
LEMMA NextPortType ==
  ASSUME NEW h \in Nodes, todo[h] \subseteq Ports, todo[h] # {}
  PROVE  NextPort(h) \in todo[h]
  BY FirstPort DEF NextPort

----------------------------------------------------------------------------
(* What the steps do to the tree.                                          *)

\* A step of usb_hub_port_setup(): to another point, into usb_enumerate() for
\* the hub at the port, or to the end.
Moves(p) ==
  /\ Active(p) /\ pc[p] # "enumerate"
  /\ pc[p] = "wait" => threads[p] = 0
  /\ \/ \E b \in Steps \ {"idle", "enumerate", "wait", "done"} :
          /\ GoTo(p, b) /\ UNCHANGED software
          /\ b = "drop" =>
               \/ pc[p] \in {"configure", "drop"}
               \/ pc[p] = "wait" /\ devcount[p] = 0
          /\ pc[p] \in {"wait", "drop"} => b = "drop"
     \/ /\ pc[p] = "configure" /\ GoTo(p, "enumerate")
        /\ threads' = [threads EXCEPT ![p] = Cardinality(Below(p))]
        /\ todo' = [todo EXCEPT ![p] = Below(p)]
        /\ UNCHANGED <<inplace, devcount, driver>>
     \/ \E count \in {0, 1} :
          /\ Finish(p, count)
          /\ count = 1 =>
               pc[p] = "configure" \/ (pc[p] = "wait" /\ devcount[p] # 0)
          /\ pc[p] = "wait" => count = 1

\* Where a step takes the thread of a port.
LEMMA PortMoves ==
  ASSUME TypeOK, NEW p \in Ports, PortStep(p)
  PROVE  Moves(p)
<1> USE DEF Moves, Active
<1>1. CASE LockHub(p)
  BY <1>1, TreeFacts DEF LockHub, AsksHub, GoTo, Steps, TypeOK
<1>2. CASE Detect(p)
  BY <1>2, TreeFacts DEF Detect, Steps
<1>3. CASE LockReset(p)
  BY <1>3, TreeFacts DEF LockReset, Steps
<1>4. CASE Reset(p)
  BY <1>4, TreeFacts DEF Reset, Steps
<1>5. CASE ResetWait(p)
  BY <1>5, TreeFacts DEF ResetWait, Steps
<1>6. CASE Address(p)
  BY <1>6, TreeFacts DEF Address, Steps
<1>7. CASE SetAddress(p)
  BY <1>7, TreeFacts DEF SetAddress, Steps
<1>8. CASE Recovery(p)
  BY <1>8, TreeFacts DEF Recovery, Steps
<1>9. CASE Abort(p)
  BY <1>9, TreeFacts DEF Abort, Steps
<1>10. CASE Configure(p)
  BY <1>10, TreeFacts DEF Configure, Steps
<1>11. CASE HubSetupEnds(p)
  BY <1>11, TreeFacts DEF HubSetupEnds, ThreadsComplete, Steps
<1>12. CASE Drop(p)
  BY <1>12, TreeFacts DEF Drop, Steps
<1> QED
  BY <1>1, <1>2, <1>3, <1>4, <1>5, <1>6, <1>7, <1>8, <1>9, <1>10, <1>11, <1>12 DEF PortStep

\* The hardware behind other ports stays as it is, and so does the device at
\* a port whose code has come to configure_usb_device().
LEMMA PortDevices ==
  ASSUME TypeOK, NEW p \in Ports, PortStep(p)
  PROVE  /\ \A q \in Ports : q # p => dev'[q] = dev[q]
         /\ pc[p] \in {"configure", "wait"} => dev' = dev
         /\ running' = running
<1> USE DEF TypeOK, Disconnect, hardware
<1>1. CASE LockHub(p)
  BY <1>1 DEF LockHub, AsksHub
<1>2. CASE Detect(p)
  BY <1>2 DEF Detect
<1>3. CASE LockReset(p)
  BY <1>3 DEF LockReset
<1>4. CASE Reset(p)
  BY <1>4 DEF Reset
<1>5. CASE ResetWait(p)
  BY <1>5 DEF ResetWait
<1>6. CASE Address(p)
  BY <1>6 DEF Address
<1>7. CASE SetAddress(p)
  BY <1>7 DEF SetAddress
<1>8. CASE Recovery(p)
  BY <1>8 DEF Recovery
<1>9. CASE Abort(p)
  BY <1>9 DEF Abort
<1>10. CASE Configure(p)
  BY <1>10 DEF Configure
<1>11. CASE HubSetupEnds(p)
  BY <1>11 DEF HubSetupEnds
<1>12. CASE Drop(p)
  BY <1>12 DEF Drop
<1> QED
  BY <1>1, <1>2, <1>3, <1>4, <1>5, <1>6, <1>7, <1>8, <1>9, <1>10, <1>11, <1>12 DEF PortStep
\* A step of the loop of usb_enumerate() that starts a port.
Launches(h, p) ==
  /\ Parent[p] = h /\ pc[h] = "enumerate"
  /\ p \in todo[h] /\ todo' = [todo EXCEPT ![h] = @ \ {p}]
  /\ pc[p] = "idle" /\ GoTo(p, "detect")
  /\ inplace' \in {inplace, [inplace EXCEPT ![h] = p]}
  /\ UNCHANGED <<threads, devcount, driver, resetlock, hublock, maxaddr, devaddr,
                 pipes, hardware, running>>

\* usb_enumerate() of a hub starts the thread of a port that it still has to do.
LEMMA HubLaunches ==
  ASSUME TypeOK, TreeInv, NEW h \in Nodes, Launch(h)
  PROVE  \E p \in Ports : Launches(h, p)
<1> DEFINE p == NextPort(h)
<1>1. todo[h] \subseteq Ports /\ todo[h] # {} /\ todo[h] \subseteq Below(h)
  BY DEF Launch, TypeOK, TreeInv
<1>2. p \in todo[h]
  BY <1>1, NextPortType
<1>3. p \in Ports /\ Parent[p] = h /\ pc[p] = "idle"
  BY <1>1, <1>2 DEF Below, TreeInv
<1>4. inplace' \in {inplace, [inplace EXCEPT ![h] = p]}
  BY DEF Launch
<1> HIDE DEF p
<1>5. /\ pc[h] = "enumerate" /\ todo' = [todo EXCEPT ![h] = @ \ {p}] /\ GoTo(p, "detect")
      /\ UNCHANGED <<threads, devcount, driver, resetlock, hublock, maxaddr, devaddr,
                     pipes, hardware, running>>
  BY DEF Launch, p
<1> QED
  BY <1>2, <1>3, <1>4, <1>5 DEF Launches

----------------------------------------------------------------------------
(* The parts of the invariant, step by step.                               *)

\* The lock around reset and set_address is released wherever these end.
LEMMA ResetStep ==
  ASSUME IInv, [Next]_vars
  PROVE  ResetInv'
<1>0. TypeOK /\ ResetInv /\ DeviceInv /\ AddressInv /\ UniqueAddresses /\ TreeInv
      /\ ThreadsInv /\ DriverInv /\ PipeInv
  BY DEF IInv
<1> USE TreeFacts DEF TypeOK, ResetInv, Holding, Steps
<1>1. ASSUME NEW p \in Ports, PortStep(p)
      PROVE  ResetInv'
  <2>1. CASE LockHub(p)
    BY <1>0, <2>1 DEF LockHub, GoTo, Finish, Disconnect, FreePipe, software, pipes, hardware
  <2>2. CASE Detect(p)
    BY <1>0, <2>2 DEF Detect, GoTo, Finish, Disconnect, FreePipe, software, pipes, hardware
  <2>3. CASE LockReset(p)
    BY <1>0, <2>3
       DEF LockReset, GoTo, Finish, Disconnect, FreePipe, software, pipes, hardware
  <2>4. CASE Reset(p)
    BY <1>0, <2>4 DEF Reset, GoTo, Finish, Disconnect, FreePipe, software, pipes, hardware
  <2>5. CASE ResetWait(p)
    BY <1>0, <2>5
       DEF ResetWait, GoTo, Finish, Disconnect, FreePipe, software, pipes, hardware
  <2>6. CASE Address(p)
    BY <1>0, <2>6 DEF Address, GoTo, Finish, Disconnect, FreePipe, software, pipes, hardware
  <2>7. CASE SetAddress(p)
    BY <1>0, <2>7
       DEF SetAddress, GoTo, Finish, Disconnect, FreePipe, software, pipes, hardware
  <2>8. CASE Recovery(p)
    BY <1>0, <2>8
       DEF Recovery, GoTo, Finish, Disconnect, FreePipe, software, pipes, hardware
  <2>9. CASE Abort(p)
    BY <1>0, <2>9 DEF Abort, GoTo, Finish, Disconnect, FreePipe, software, pipes, hardware
  <2>10. CASE Configure(p)
    BY <1>0, <2>10
       DEF Configure, GoTo, Finish, Disconnect, FreePipe, software, pipes, hardware
  <2>11. CASE HubSetupEnds(p)
    BY <1>0, <2>11
       DEF HubSetupEnds, GoTo, Finish, Disconnect, FreePipe, software, pipes, hardware
  <2>12. CASE Drop(p)
    BY <1>0, <2>12 DEF Drop, GoTo, Finish, Disconnect, FreePipe, software, pipes, hardware
  <2> QED
    BY <1>1, <2>1, <2>2, <2>3, <2>4, <2>5, <2>6, <2>7, <2>8, <2>9, <2>10, <2>11, <2>12
       DEF PortStep
<1>2. ASSUME NEW h \in Nodes, HubStep(h)
      PROVE  ResetInv'
  <2>1. CASE Launch(h)
    <3>1. PICK p \in Ports : Launches(h, p)
      BY <1>0, <2>1, HubLaunches
    <3> QED
      BY <1>0, <3>1 DEF Launches, GoTo, pipes, hardware
  <2>2. CASE LaunchFails(h)
    BY <1>0, <2>2 DEF LaunchFails, GoTo, pipes, hardware
  <2>3. CASE LoopEnds(h)
    BY <1>0, <2>3 DEF LoopEnds, GoTo, pipes, hardware
  <2> QED
    BY <1>2, <2>1, <2>2, <2>3 DEF HubStep
<1>3. CASE ControllerEnds
  BY <1>0, <1>3 DEF ControllerEnds, GoTo, pipes, hardware
<1>4. CASE UNCHANGED vars
  BY <1>0, <1>4 DEF vars, pipes, hardware
<1> QED
  BY <1>1, <1>2, <1>3, <1>4 DEF Next, Complete

\* The hardware is where the code has brought it.
LEMMA DeviceStep ==
  ASSUME IInv, [Next]_vars
  PROVE  DeviceInv'
<1>0. TypeOK /\ ResetInv /\ DeviceInv /\ AddressInv /\ UniqueAddresses /\ TreeInv
      /\ ThreadsInv /\ DriverInv /\ PipeInv
  BY DEF IInv
<1> USE TreeFacts DEF TypeOK, DeviceInv, ResetInv, Holding, Steps
<1>1. ASSUME NEW p \in Ports, PortStep(p)
      PROVE  DeviceInv'
  <2>1. CASE LockHub(p)
    BY <1>0, <2>1 DEF LockHub, GoTo, Finish, Disconnect, FreePipe, software, pipes, hardware
  <2>2. CASE Detect(p)
    BY <1>0, <2>2 DEF Detect, GoTo, Finish, Disconnect, FreePipe, software, pipes, hardware
  <2>3. CASE LockReset(p)
    BY <1>0, <2>3
       DEF LockReset, GoTo, Finish, Disconnect, FreePipe, software, pipes, hardware
  <2>4. CASE Reset(p)
    BY <1>0, <2>4 DEF Reset, GoTo, Finish, Disconnect, FreePipe, software, pipes, hardware
  <2>5. CASE ResetWait(p)
    BY <1>0, <2>5
       DEF ResetWait, GoTo, Finish, Disconnect, FreePipe, software, pipes, hardware
  <2>6. CASE Address(p)
    <3>1. /\ pc[p] = "address"
          /\ pc' \in {[pc EXCEPT ![p] = "setaddr"], [pc EXCEPT ![p] = "abort"]}
          /\ pc'[p] = "setaddr" => maxaddr < USB_MAXADDR
          /\ UNCHANGED <<maxaddr, hardware>>
      BY <1>0, <2>6 DEF Address, AddressesLeft, GoTo
    <3> QED
      BY <1>0, <3>1 DEF hardware
  <2>7. CASE SetAddress(p)
    BY <1>0, <2>7
       DEF SetAddress, GoTo, Finish, Disconnect, FreePipe, software, pipes, hardware
  <2>8. CASE Recovery(p)
    BY <1>0, <2>8
       DEF Recovery, GoTo, Finish, Disconnect, FreePipe, software, pipes, hardware
  <2>9. CASE Abort(p)
    BY <1>0, <2>9 DEF Abort, GoTo, Finish, Disconnect, FreePipe, software, pipes, hardware
  <2>10. CASE Configure(p)
    BY <1>0, <2>10
       DEF Configure, GoTo, Finish, Disconnect, FreePipe, software, pipes, hardware
  <2>11. CASE HubSetupEnds(p)
    BY <1>0, <2>11
       DEF HubSetupEnds, GoTo, Finish, Disconnect, FreePipe, software, pipes, hardware
  <2>12. CASE Drop(p)
    BY <1>0, <2>12 DEF Drop, GoTo, Finish, Disconnect, FreePipe, software, pipes, hardware
  <2> QED
    BY <1>1, <2>1, <2>2, <2>3, <2>4, <2>5, <2>6, <2>7, <2>8, <2>9, <2>10, <2>11, <2>12
       DEF PortStep
<1>2. ASSUME NEW h \in Nodes, HubStep(h)
      PROVE  DeviceInv'
  <2>1. CASE Launch(h)
    <3>1. PICK p \in Ports : Launches(h, p)
      BY <1>0, <2>1, HubLaunches
    <3> QED
      BY <1>0, <3>1 DEF Launches, GoTo, pipes, hardware
  <2>2. CASE LaunchFails(h)
    BY <1>0, <2>2 DEF LaunchFails, GoTo, pipes, hardware
  <2>3. CASE LoopEnds(h)
    BY <1>0, <2>3 DEF LoopEnds, GoTo, pipes, hardware
  <2> QED
    BY <1>2, <2>1, <2>2, <2>3 DEF HubStep
<1>3. CASE ControllerEnds
  BY <1>0, <1>3 DEF ControllerEnds, GoTo, pipes, hardware
<1>4. CASE UNCHANGED vars
  BY <1>0, <1>4 DEF vars, pipes, hardware
<1> QED
  BY <1>1, <1>2, <1>3, <1>4 DEF Next, Complete

\* The address that is tried again after a failure belongs to one device.
LEMMA AddressStep ==
  ASSUME IInv, [Next]_vars
  PROVE  (AddressInv /\ UniqueAddresses)'
<1>0. TypeOK /\ ResetInv /\ DeviceInv /\ AddressInv /\ UniqueAddresses /\ TreeInv
      /\ ThreadsInv /\ DriverInv /\ PipeInv
  BY DEF IInv
<1> USE TreeFacts DEF TypeOK, AddressInv, UniqueAddresses, DeviceInv, ResetInv, Holding,
Steps
<1>1. ASSUME NEW p \in Ports, PortStep(p)
      PROVE  (AddressInv /\ UniqueAddresses)'
  <2>1. CASE LockHub(p)
    BY <1>0, <2>1 DEF LockHub, GoTo, Finish, Disconnect, FreePipe, software, pipes, hardware
  <2>2. CASE Detect(p)
    BY <1>0, <2>2 DEF Detect, GoTo, Finish, Disconnect, FreePipe, software, pipes, hardware
  <2>3. CASE LockReset(p)
    BY <1>0, <2>3
       DEF LockReset, GoTo, Finish, Disconnect, FreePipe, software, pipes, hardware
  <2>4. CASE Reset(p)
    BY <1>0, <2>4 DEF Reset, GoTo, Finish, Disconnect, FreePipe, software, pipes, hardware
  <2>5. CASE ResetWait(p)
    BY <1>0, <2>5
       DEF ResetWait, GoTo, Finish, Disconnect, FreePipe, software, pipes, hardware
  <2>6. CASE Address(p)
    BY <1>0, <2>6 DEF Address, GoTo, Finish, Disconnect, FreePipe, software, pipes, hardware
  <2>7. CASE SetAddress(p)
    BY <1>0, <2>7
       DEF SetAddress, GoTo, Finish, Disconnect, FreePipe, software, pipes, hardware
  <2>8. CASE Recovery(p)
    BY <1>0, <2>8
       DEF Recovery, GoTo, Finish, Disconnect, FreePipe, software, pipes, hardware
  <2>9. CASE Abort(p)
    <3>1. /\ pc[p] = "abort" /\ pc' = [pc EXCEPT ![p] = "done"]
          /\ UNCHANGED <<maxaddr, addr>>
          /\ \/ dev' = [dev EXCEPT ![p] = "off"] /\ UNCHANGED stuck
             \/ stuck' = stuck \cup {p} /\ UNCHANGED dev
      BY <2>9 DEF Abort, Disconnect, Finish, GoTo
    <3>2. \A q \in Ports : q # p => pc'[q] = pc[q] /\ (q \in stuck' <=> q \in stuck)
                                  /\ dev'[q] = dev[q]
      BY <1>0, <3>1
    <3>3. dev'[p] # "addressed" \/ p \in stuck'
      BY <1>0, <3>1
    <3> QED
      BY <1>0, <3>1, <3>2, <3>3
  <2>10. CASE Configure(p)
    BY <1>0, <2>10
       DEF Configure, GoTo, Finish, Disconnect, FreePipe, software, pipes, hardware
  <2>11. CASE HubSetupEnds(p)
    BY <1>0, <2>11
       DEF HubSetupEnds, GoTo, Finish, Disconnect, FreePipe, software, pipes, hardware
  <2>12. CASE Drop(p)
    BY <1>0, <2>12 DEF Drop, GoTo, Finish, Disconnect, FreePipe, software, pipes, hardware
  <2> QED
    BY <1>1, <2>1, <2>2, <2>3, <2>4, <2>5, <2>6, <2>7, <2>8, <2>9, <2>10, <2>11, <2>12
       DEF PortStep
<1>2. ASSUME NEW h \in Nodes, HubStep(h)
      PROVE  (AddressInv /\ UniqueAddresses)'
  <2>1. CASE Launch(h)
    <3>1. PICK p \in Ports : Launches(h, p)
      BY <1>0, <2>1, HubLaunches
    <3> QED
      BY <1>0, <3>1 DEF Launches, GoTo, pipes, hardware
  <2>2. CASE LaunchFails(h)
    BY <1>0, <2>2 DEF LaunchFails, GoTo, pipes, hardware
  <2>3. CASE LoopEnds(h)
    BY <1>0, <2>3 DEF LoopEnds, GoTo, pipes, hardware
  <2> QED
    BY <1>2, <2>1, <2>2, <2>3 DEF HubStep
<1>3. CASE ControllerEnds
  BY <1>0, <1>3 DEF ControllerEnds, GoTo, pipes, hardware
<1>4. CASE UNCHANGED vars
  BY <1>0, <1>4 DEF vars, pipes, hardware
<1> QED
  BY <1>1, <1>2, <1>3, <1>4 DEF Next, Complete

\* Only a port that nobody waits for is finished while its own ports are not.
LEMMA TreeStep ==
  ASSUME IInv, [Next]_vars
  PROVE  TreeInv'
<1>0. TypeOK /\ ResetInv /\ DeviceInv /\ AddressInv /\ UniqueAddresses /\ TreeInv
      /\ ThreadsInv /\ DriverInv /\ PipeInv
  BY DEF IInv
<1> USE TreeFacts DEF TypeOK, TreeInv, Active, Below
<1>1. ASSUME NEW p \in Ports, Moves(p)
      PROVE  TreeInv'
  <2>1. pc[p] = "wait" => \A q \in Ports : Parent[q] = p => pc[q] = "done"
    <3>1. pc[p] = "wait" => Cardinality(Unfinished(p)) = 0
      BY <1>0, <1>1 DEF Moves, ThreadsInv
    <3>2. IsFiniteSet(Unfinished(p))
      BY UsbAssumption, FS_Subset DEF Unfinished
    <3>3. pc[p] = "wait" => Unfinished(p) = {}
      BY <3>1, <3>2, FS_EmptySet
    <3> QED
      BY <3>3 DEF Unfinished
  <2>2. CASE \E b \in Steps \ {"idle", "enumerate", "wait", "done"} :
               /\ GoTo(p, b) /\ UNCHANGED software
               /\ pc[p] \in {"wait", "drop"} => b = "drop"
    <3>1. PICK b \in Steps \ {"idle", "enumerate", "wait", "done"} :
            /\ GoTo(p, b) /\ UNCHANGED software
            /\ pc[p] \in {"wait", "drop"} => b = "drop"
      BY <2>2
    <3>2. /\ pc' = [pc EXCEPT ![p] = b] /\ todo' = todo
          /\ pc[p] \notin {"idle", "done", "enumerate"}
      BY <1>1, <3>1 DEF Moves, GoTo, software
    <3>3. \A q \in Ports : Active(q)' => Active(q)
      BY <1>0, <3>2
    <3>4. \A q \in Ports : pc'[q] = "done" => pc[q] = "done"
      BY <1>0, <3>1, <3>2
    <3>5. \A q \in Ports : Active(q)' => pc'[Parent[q]] \in {"enumerate", "wait"}
      BY <1>0, <2>1, <3>2, <3>3
    <3>6. \A q \in Ports : pc[q] = "done" =>
            pc'[Parent[q]] \in {"enumerate", "wait", "drop", "done"}
      <4>1. ASSUME NEW q \in Ports, pc[q] = "done", Parent[q] = p
            PROVE  b = "drop"
        BY <1>0, <3>1, <3>2, <4>1
      <4> QED
        BY <1>0, <3>2, <4>1
    <3> QED
      BY <1>0, <3>2, <3>3, <3>4, <3>5, <3>6
  <2>3. CASE /\ pc[p] = "configure" /\ GoTo(p, "enumerate")
             /\ todo' = [todo EXCEPT ![p] = Below(p)]
    BY <1>0, <2>3 DEF GoTo
  <2>4. CASE GoTo(p, "done") /\ UNCHANGED todo
    BY <1>0, <1>1, <2>1, <2>4 DEF Moves, GoTo
  <2> QED
    BY <1>1, <2>2, <2>3, <2>4 DEF Moves, Finish
<1>2. ASSUME NEW h \in Nodes, HubStep(h)
      PROVE  TreeInv'
  <2>1. CASE Launch(h)
    <3>1. PICK p \in Ports : Launches(h, p)
      BY <1>0, <2>1, HubLaunches
    <3> QED
      BY <1>0, <3>1 DEF Launches, GoTo
  <2>2. CASE LaunchFails(h)
    BY <1>0, <2>2 DEF LaunchFails
  <2>3. CASE LoopEnds(h)
    BY <1>0, <2>3 DEF LoopEnds, GoTo, software
  <2> QED
    BY <1>2, <2>1, <2>2, <2>3 DEF HubStep
<1>3. CASE ControllerEnds
  <2>1. /\ pc[Root] = "wait" /\ threads[Root] = 0
        /\ pc' = [pc EXCEPT ![Root] = "done"] /\ UNCHANGED todo
    BY <1>3 DEF ControllerEnds, ThreadsComplete, GoTo, software
  <2>2. Cardinality(Unfinished(Root)) = 0
    BY <1>0, <2>1 DEF ThreadsInv
  <2>3. IsFiniteSet(Unfinished(Root))
    BY UsbAssumption, FS_Subset DEF Unfinished
  <2>4. \A q \in Ports : Parent[q] = Root => pc[q] = "done"
    BY <2>2, <2>3, FS_EmptySet DEF Unfinished
  <2> QED
    BY <1>0, <2>1, <2>4
<1>4. CASE UNCHANGED vars
  BY <1>0, <1>4 DEF vars, software
<1> QED
  BY <1>0, <1>1, <1>2, <1>3, <1>4, PortMoves DEF Next, Complete

\* hub->threads is set before the first port starts, and every port that ends
\* takes one off.
LEMMA ThreadsStep ==
  ASSUME IInv, [Next]_vars
  PROVE  ThreadsInv'
<1>0. TypeOK /\ ResetInv /\ DeviceInv /\ AddressInv /\ UniqueAddresses /\ TreeInv
      /\ ThreadsInv /\ DriverInv /\ PipeInv
  BY DEF IInv
<1> USE TreeFacts DEF TypeOK, ThreadsInv
<1>f. \A h \in Nodes : IsFiniteSet(Unfinished(h))
  BY UsbAssumption, FS_Subset DEF Unfinished, Below
<1>1. ASSUME NEW p \in Ports, Moves(p)
      PROVE  ThreadsInv'
  <2>1. CASE \E b \in Steps \ {"idle", "enumerate", "wait", "done"} :
               GoTo(p, b) /\ UNCHANGED software
    <3>1. \A h \in Nodes : Unfinished(h)' = Unfinished(h)
      BY <1>0, <1>1, <2>1 DEF Moves, Active, GoTo, Unfinished, Below
    <3> QED
      BY <1>0, <2>1, <3>1 DEF GoTo, software
  <2>2. CASE /\ pc[p] = "configure" /\ GoTo(p, "enumerate")
             /\ threads' = [threads EXCEPT ![p] = Cardinality(Below(p))]
    <3>1. \A h \in Nodes : Unfinished(h)' = Unfinished(h)
      BY <1>0, <2>2 DEF GoTo, Unfinished, Below
    <3>2. Unfinished(p) = Below(p)
      BY <1>0, <2>2 DEF TreeInv, Active, Unfinished, Below
    <3> QED
      BY <1>0, <2>2, <3>1, <3>2 DEF GoTo
  <2>3. CASE /\ GoTo(p, "done")
             /\ threads' = [threads EXCEPT ![Parent[p]] = @ - 1]
    <3>1. \A h \in Nodes : Unfinished(h)' = Unfinished(h) \ {p}
      BY <1>0, <2>3 DEF GoTo, Unfinished, Below
    <3>2. p \in Unfinished(Parent[p]) /\ pc[Parent[p]] \in {"enumerate", "wait"}
      BY <1>0, <1>1 DEF Moves, Active, Unfinished, Below, TreeInv
    <3>3. \A h \in Nodes : h # Parent[p] => Unfinished(h)' = Unfinished(h)
      BY <3>1 DEF Unfinished, Below
    <3>4. Cardinality(Unfinished(Parent[p])') = Cardinality(Unfinished(Parent[p])) - 1
      BY <1>f, <3>1, <3>2, FS_RemoveElement, ZenonT(30)
    <3> QED
      BY <1>0, <2>3, <3>2, <3>3, <3>4 DEF GoTo
  <2> QED
    BY <1>1, <2>1, <2>2, <2>3 DEF Moves, Finish
<1>2. ASSUME NEW h \in Nodes, HubStep(h)
      PROVE  ThreadsInv'
  <2>1. CASE Launch(h)
    <3>1. PICK p \in Ports : Launches(h, p)
      BY <1>0, <2>1, HubLaunches
    <3>2. \A k \in Nodes : Unfinished(k)' = Unfinished(k)
      BY <1>0, <3>1 DEF Launches, GoTo, Unfinished, Below
    <3> QED
      BY <1>0, <3>1, <3>2 DEF Launches, GoTo
  <2>2. CASE LaunchFails(h)
    BY <1>0, <2>2 DEF LaunchFails, Unfinished
  <2>3. CASE LoopEnds(h)
    <3>1. \A k \in Nodes : Unfinished(k)' = Unfinished(k)
      BY <1>0, <2>3 DEF LoopEnds, GoTo, Unfinished, Below
    <3> QED
      BY <1>0, <2>3, <3>1 DEF LoopEnds, GoTo, software
  <2> QED
    BY <1>2, <2>1, <2>2, <2>3 DEF HubStep
<1>3. CASE ControllerEnds
  <2>1. pc' = [pc EXCEPT ![Root] = "done"] /\ UNCHANGED threads
    BY <1>3 DEF ControllerEnds, GoTo, software
  <2>2. \A k \in Nodes : Unfinished(k)' = Unfinished(k)
    BY <1>0, <2>1 DEF Unfinished, Below
  <2> QED
    BY <1>0, <2>1, <2>2
<1>4. CASE UNCHANGED vars
  BY <1>0, <1>4 DEF vars, software, Unfinished
<1> QED
  BY <1>0, <1>1, <1>2, <1>3, <1>4, PortMoves DEF Next, Complete

\* hub->devcount counts a port when its driver is set up, and the hub above has
\* not looked at it before.
LEMMA DriverStep ==
  ASSUME IInv, [Next]_vars
  PROVE  DriverInv'
<1>0. TypeOK /\ ResetInv /\ DeviceInv /\ AddressInv /\ UniqueAddresses /\ TreeInv
      /\ ThreadsInv /\ DriverInv /\ PipeInv
  BY DEF IInv
<1> DEFINE Drivers(h) == {q \in Below(h) : driver[q]}
<1> USE TreeFacts DEF TypeOK, DriverInv
<1>f. \A h \in Nodes : IsFiniteSet(Drivers(h))
  BY UsbAssumption, FS_Subset DEF Below
<1>1. ASSUME NEW p \in Ports, Moves(p),
             \A q \in Ports : q # p => dev'[q] = dev[q],
             pc[p] \in {"configure", "wait"} => dev' = dev, running' = running
      PROVE  DriverInv'
  <2>0. /\ Active(p) /\ ~driver[p] /\ pc[p] # "enumerate"
        /\ pc[Parent[p]] \in {"enumerate", "wait"}
    BY <1>0, <1>1 DEF Moves, Active, TreeInv
  <2>a. \A q \in Ports : Parent[q] = p /\ driver[q] => pc[p] = "wait" /\ devcount[p] # 0
    <3>1. ASSUME NEW q \in Ports, Parent[q] = p, driver[q]
          PROVE  pc[p] = "wait" /\ devcount[p] # 0
      <4>1. pc[p] \in {"wait", "drop"}
        BY <1>0, <2>0, <3>1 DEF TreeInv, Active
      <4>2. pc[p] # "drop"
        BY <1>0, <2>0, <3>1
      <4>3. Drivers(p) # {}
        BY <3>1 DEF Below
      <4>4. devcount[p] = Cardinality(Drivers(p))
        BY <1>0
      <4> QED
        BY <1>f, <4>1, <4>2, <4>3, <4>4, FS_EmptySet
    <3> QED
      BY <3>1
  <2>1. CASE \E b \in Steps \ {"idle", "enumerate", "wait", "done"} :
               /\ GoTo(p, b) /\ UNCHANGED software
               /\ b = "drop" =>
                    \/ pc[p] \in {"configure", "drop"}
                    \/ pc[p] = "wait" /\ devcount[p] = 0
    <3>1. UNCHANGED <<devcount, driver>> /\ (\A h \in Nodes : Drivers(h)' = Drivers(h))
      BY <2>1 DEF software, Below
    <3>2. \A q \in Ports : driver[q] => q # p /\ pc'[q] = "done" /\ dev'[q] = "addressed"
      BY <1>0, <1>1, <2>0, <2>1 DEF GoTo
    <3>3. ASSUME NEW q \in Ports, driver[q], Parent[q] # Root,
                 pc'[Parent[q]] \in {"drop", "done"}
          PROVE  driver[Parent[q]]
      <4>1. Parent[q] # p
        BY <1>0, <2>1, <2>a, <3>3 DEF GoTo
      <4> QED
        BY <1>0, <2>1, <3>3, <4>1 DEF GoTo
    <3>4. pc'[Root] = pc[Root]
      BY <1>0, <2>1 DEF GoTo
    <3> QED
      BY <1>0, <1>1, <3>1, <3>2, <3>3, <3>4
  <2>2. CASE GoTo(p, "enumerate") /\ UNCHANGED <<devcount, driver>>
    <3>1. \A h \in Nodes : Drivers(h)' = Drivers(h)
      BY <2>2 DEF Below
    <3>2. \A q \in Ports : driver[q] => q # p /\ pc'[q] = "done" /\ dev'[q] = "addressed"
      BY <1>0, <1>1, <2>0, <2>2 DEF GoTo
    <3> QED
      BY <1>0, <1>1, <2>2, <3>1, <3>2 DEF GoTo
  <2>3. ASSUME NEW count \in {0, 1}, Finish(p, count),
               count = 1 => pc[p] = "configure" \/ (pc[p] = "wait" /\ devcount[p] # 0),
               pc[p] = "wait" => count = 1
        PROVE  DriverInv'
    <3>1. /\ pc' = [pc EXCEPT ![p] = "done"]
          /\ driver' = [driver EXCEPT ![p] = count = 1]
          /\ devcount' = [devcount EXCEPT ![Parent[p]] = @ + count]
      BY <2>3 DEF Finish, GoTo
    <3>2. /\ \A q \in Ports : q # p => driver'[q] = driver[q]
          /\ driver'[p] <=> count = 1
      BY <1>0, <3>1
    <3>3. \A h \in Nodes : devcount'[h] = Cardinality(Drivers(h)')
      <4>1. ASSUME NEW h \in Nodes, count = 0 \/ h # Parent[p]
            PROVE  devcount'[h] = Cardinality(Drivers(h)')
        <5>1. Drivers(h)' = Drivers(h)
          <6>1. \A q \in Below(h) : q = p => count = 0
            BY <4>1 DEF Below
          <6>2. \A q \in Below(h) : driver'[q] <=> driver[q]
            BY <2>0, <3>2, <6>1 DEF Below
          <6> QED
            BY <6>2 DEF Below
        <5>2. devcount'[h] = devcount[h]
          BY <1>0, <3>1, <4>1
        <5> QED
          BY <1>0, <5>1, <5>2
      <4>2. CASE count = 1
        <5>1. p \notin Drivers(Parent[p]) /\ IsFiniteSet(Drivers(Parent[p]))
          BY <1>f, <2>0
        <5>2. Cardinality(Drivers(Parent[p]) \cup {p}) = Cardinality(Drivers(Parent[p])) + 1
          BY <5>1, FS_AddElement
        <5>3. Drivers(Parent[p])' = Drivers(Parent[p]) \cup {p}
          BY <3>2, <4>2 DEF Below
        <5>4. devcount'[Parent[p]] = devcount[Parent[p]] + 1
          BY <1>0, <3>1, <4>2
        <5>5. devcount[Parent[p]] = Cardinality(Drivers(Parent[p]))
          BY <1>0
        <5>6. devcount'[Parent[p]] = Cardinality(Drivers(Parent[p])')
          BY <5>2, <5>3, <5>4, <5>5
        <5> QED
          BY <4>1, <5>6
      <4> QED
        BY <4>1, <4>2
    <3>4. \A q \in Ports : driver'[q] => pc'[q] = "done" /\ dev'[q] = "addressed"
      <4>1. \A q \in Ports : q # p /\ driver'[q] => pc'[q] = "done" /\ dev'[q] = "addressed"
        BY <1>0, <1>1, <3>1
      <4>2. driver'[p] => pc'[p] = "done" /\ dev'[p] = "addressed"
        BY <1>0, <1>1, <2>3, <3>1, ZenonT(30) DEF DeviceInv
      <4> QED
        BY <4>1, <4>2
    <3>5. ASSUME NEW q \in Ports, driver'[q], Parent[q] # Root,
                 pc'[Parent[q]] \in {"drop", "done"}
          PROVE  driver'[Parent[q]]
      <4>1. CASE q = p
        BY <1>0, <2>0, <3>1, <3>5, <4>1
      <4>2. CASE q # p /\ Parent[q] = p
        BY <1>0, <2>3, <2>a, <3>1, <3>5, <4>2
      <4>3. CASE q # p /\ Parent[q] # p
        BY <1>0, <3>1, <3>5, <4>3
      <4> QED
        BY <4>1, <4>2, <4>3
    <3>6. pc'[Root] = "done" => running' = (devcount'[Root] # 0)
      <4>1. pc'[Root] = pc[Root]
        BY <1>0, <3>1
      <4>2. pc[Root] = "done" => Parent[p] # Root
        BY <2>0
      <4> QED
        BY <1>0, <1>1, <3>1, <4>1, <4>2
    <3> QED
      BY <3>3, <3>4, <3>5, <3>6
  <2> QED
    BY <1>1, <2>1, <2>2, <2>3 DEF Moves
<1>2. ASSUME NEW h \in Nodes, HubStep(h)
      PROVE  DriverInv'
  <2>1. UNCHANGED <<driver, devcount, running, dev>>
    BY <1>2 DEF HubStep, Launch, LaunchFails, LoopEnds, hardware, software
  <2>2. \A q \in Nodes : pc'[q] # pc[q] => pc[q] # "done" /\ pc'[q] \in {"detect", "wait"}
    <3>1. CASE Launch(h)
      <4>1. PICK p \in Ports : Launches(h, p)
        BY <1>0, <3>1, HubLaunches
      <4> QED
        BY <1>0, <4>1 DEF Launches, GoTo
    <3>2. CASE LaunchFails(h)
      BY <3>2 DEF LaunchFails
    <3>3. CASE LoopEnds(h)
      BY <1>0, <3>3 DEF LoopEnds, GoTo
    <3> QED
      BY <1>2, <3>1, <3>2, <3>3 DEF HubStep
  <2>3. \A k \in Nodes : Drivers(k)' = Drivers(k)
    BY <2>1 DEF Below
  <2>4. \A q \in Ports : driver'[q] => pc'[q] = "done" /\ dev'[q] = "addressed"
    BY <1>0, <2>1, <2>2
  <2>5. \A q \in Nodes : pc'[q] \in {"drop", "done"} => pc'[q] = pc[q]
    BY <2>2
  <2>6. \A k \in Nodes : devcount'[k] = Cardinality(Drivers(k)')
    <3>1. \A k \in Nodes : devcount[k] = Cardinality(Drivers(k))
      BY <1>0
    <3> HIDE DEF Drivers
    <3> QED
      BY <2>1, <2>3, <3>1
  <2>7. \A q \in Ports :
          driver'[q] /\ Parent[q] # Root /\ pc'[Parent[q]] \in {"drop", "done"}
            => driver'[Parent[q]]
    BY <1>0, <2>1, <2>5
  <2>8. pc'[Root] = "done" => running' = (devcount'[Root] # 0)
    BY <1>0, <2>1, <2>5
  <2> QED
    BY <2>4, <2>6, <2>7, <2>8
<1>3. CASE ControllerEnds
  <2>1. /\ pc[Root] = "wait" /\ pc' = [pc EXCEPT ![Root] = "done"]
        /\ UNCHANGED <<devcount, driver, dev>> /\ running' = (devcount[Root] # 0)
    BY <1>3 DEF ControllerEnds, GoTo, software, hardware
  <2>2. \A k \in Nodes : Drivers(k)' = Drivers(k)
    BY <2>1 DEF Below
  <2> QED
    BY <1>0, <2>1, <2>2
<1>4. CASE UNCHANGED vars
  BY <1>0, <1>4 DEF vars, software, hardware
<1> QED
  BY <1>0, <1>1, <1>2, <1>3, <1>4, PortMoves, PortDevices DEF Next, Complete

\* Where a pipe comes and goes: usb_set_address() takes one off the freelist or
\* makes one, and it goes to the freelist when the code is done with it.
PipeSteps == {"setaddr", "recovery", "configure", "enumerate", "wait"}

PipeMoves(p) ==
  \/ UNCHANGED pipes /\ (pc'[p] \in PipeSteps <=> pc[p] \in PipeSteps)
  \/ /\ pc[p] \notin PipeSteps /\ pc'[p] \in PipeSteps
     /\ pipe' = [pipe EXCEPT ![p] = TRUE]
     /\ \/ free > 0 /\ free' = free - 1 /\ made' = made
        \/ free = 0 /\ free' = free /\ made' = made + 1
  \/ pc[p] \in PipeSteps /\ pc'[p] \notin PipeSteps /\ FreePipe(p)

\* A step of a port takes a pipe when it gets to the steps that use one, and frees it
\* when it leaves them.
LEMMA PortPipes ==
  ASSUME TypeOK, NEW p \in Ports, PortStep(p)
  PROVE  PipeMoves(p) /\ pc' = [pc EXCEPT ![p] = pc'[p]]
<1> USE TreeFacts DEF TypeOK, PipeMoves, PipeSteps, GoTo
<1>1. CASE LockHub(p)
  BY <1>1 DEF LockHub, AsksHub, Steps, pipes
<1>2. CASE Detect(p)
  BY <1>2 DEF Detect, Finish, pipes, FreePipe
<1>3. CASE LockReset(p)
  BY <1>3 DEF LockReset, Finish, pipes, FreePipe
<1>4. CASE Reset(p)
  BY <1>4 DEF Reset, Finish, pipes, FreePipe
<1>5. CASE ResetWait(p)
  BY <1>5 DEF ResetWait, Finish, pipes, FreePipe
<1>6. CASE Address(p)
  BY <1>6 DEF Address, Finish, pipes, FreePipe
<1>7. CASE SetAddress(p)
  BY <1>7 DEF SetAddress, Finish, pipes, FreePipe
<1>8. CASE Recovery(p)
  BY <1>8 DEF Recovery, Finish, pipes, FreePipe
<1>9. CASE Abort(p)
  BY <1>9 DEF Abort, Finish, pipes, FreePipe
<1>10. CASE Configure(p)
  BY <1>10 DEF Configure, Finish, pipes, FreePipe
<1>11. CASE HubSetupEnds(p)
  BY <1>11 DEF HubSetupEnds, Finish, pipes, FreePipe
<1>12. CASE Drop(p)
  BY <1>12 DEF Drop, Finish, pipes, FreePipe
<1> QED
  BY <1>1, <1>2, <1>3, <1>4, <1>5, <1>6, <1>7, <1>8, <1>9, <1>10, <1>11, <1>12 DEF PortStep

\* When the root hub's ports are finished, so are all.
LEMMA AllQuiet ==
  ASSUME TypeOK, TreeInv, \A p \in Below(Root) : ~Active(p)
  PROVE  \A p \in Ports : ~Active(p)
<1> DEFINE S == {p \in Ports : Active(p)}
<1>1. SUFFICES ASSUME S # {}
               PROVE  FALSE
  OBVIOUS
<1>2. PICK p \in S : \A q \in S : p <= q
  <2> HIDE DEF S
  <2>1. S \in SUBSET Ports
    BY DEF S
  <2> QED
    BY <1>1, <2>1, FirstPort
<1>3. Parent[p] # Root
  BY <1>2 DEF Below
<1>4. Parent[p] \in Ports /\ Parent[p] < p
  BY <1>2, <1>3, UsbAssumption, TreeFacts DEF Nodes
<1>5. Parent[p] \in S
  BY <1>2, <1>4 DEF TreeInv, Active
<1>6. p \in Nat /\ Parent[p] \in Nat
  BY <1>2, <1>4, TreeFacts
<1> QED
  BY <1>2, <1>4, <1>5, <1>6

\* Every step keeps the account of the control pipes.
LEMMA PipeStep ==
  ASSUME IInv, [Next]_vars
  PROVE  PipeInv' /\ free' \in 0 .. Cardinality(Ports) /\ made' \in 0 .. Cardinality(Ports)
<1>0. TypeOK /\ ResetInv /\ DeviceInv /\ AddressInv /\ UniqueAddresses /\ TreeInv
      /\ ThreadsInv /\ DriverInv /\ PipeInv
  BY DEF IInv
<1> DEFINE Users == {p \in Ports : pipe[p]}
           N == Cardinality(Ports)
<1> USE TreeFacts DEF TypeOK, PipeInv, PipesAccounted
<1>f. /\ IsFiniteSet(Users) /\ Cardinality(Users) \in Nat /\ N \in Nat
      /\ Cardinality(Users) <= N
  BY UsbAssumption, FS_Subset, FS_CardinalityType
<1>g. free \in 0 .. N /\ made \in 0 .. N /\ made = free + Cardinality(Users)
  BY <1>0
<1>1. ASSUME NEW p \in Ports, PipeMoves(p), pc' = [pc EXCEPT ![p] = pc'[p]], Active(p)
      PROVE  PipeInv' /\ free' \in 0 .. N /\ made' \in 0 .. N
  <2>0. pc'[Root] # "done"
    <3>1. pc'[Root] = pc[Root]
      BY <1>0, <1>1
    <3>2. ASSUME pc[Root] = "done"
          PROVE  FALSE
      <4>1. \A q \in Below(Root) : ~Active(q)
        BY <1>0, <3>2 DEF TreeInv, Below
      <4> QED
        BY <1>0, <1>1, <4>1, AllQuiet
    <3> QED
      BY <3>1, <3>2
  <2>1. \A q \in Ports : q # p => pc'[q] = pc[q]
    BY <1>0, <1>1
  <2>2. CASE UNCHANGED pipes /\ (pc'[p] \in PipeSteps <=> pc[p] \in PipeSteps)
    <3>1. \A q \in Ports : pipe'[q] <=> pc'[q] \in PipeSteps
      BY <1>0, <2>1, <2>2 DEF pipes, PipeSteps
    <3>2. Users' = Users /\ free' = free /\ made' = made
      BY <2>2 DEF pipes
    <3> QED
      BY <1>0, <1>g, <2>0, <3>1, <3>2 DEF PipeSteps
  <2>3. CASE /\ pc[p] \notin PipeSteps /\ pc'[p] \in PipeSteps
             /\ pipe' = [pipe EXCEPT ![p] = TRUE]
             /\ \/ free > 0 /\ free' = free - 1 /\ made' = made
                \/ free = 0 /\ free' = free /\ made' = made + 1
    <3>1. \A q \in Ports : pipe'[q] <=> pc'[q] \in PipeSteps
      BY <1>0, <2>1, <2>3 DEF PipeSteps
    <3>2. p \notin Users /\ Users' = Users \cup {p}
      BY <1>0, <2>3 DEF PipeSteps
    <3>3. Cardinality(Users') = Cardinality(Users) + 1
      BY <1>f, <3>2, FS_AddElement
    <3>4. Cardinality(Users') <= N
      BY UsbAssumption, FS_Subset
    <3>5. /\ made' = free' + Cardinality(Users')
          /\ free' \in 0 .. N /\ made' \in 0 .. N
      BY <1>f, <1>g, <2>3, <3>3, <3>4
    <3> QED
      BY <2>0, <3>1, <3>5 DEF PipeSteps
  <2>4. CASE pc[p] \in PipeSteps /\ pc'[p] \notin PipeSteps /\ FreePipe(p)
    <3>1. \A q \in Ports : pipe'[q] <=> pc'[q] \in PipeSteps
      BY <1>0, <2>1, <2>4 DEF PipeSteps, FreePipe
    <3>2. p \in Users /\ Users' = Users \ {p}
      BY <1>0, <2>4 DEF PipeSteps, FreePipe
    <3>3. Cardinality(Users') = Cardinality(Users) - 1
      <4> DEFINE S == Users
                 T == Users'
      <4>1. IsFiniteSet(S) /\ p \in S /\ T = S \ {p}
        BY <1>f, <3>2
      <4> HIDE DEF S, T
      <4>2. Cardinality(T) = Cardinality(S) - 1
        BY <4>1, FS_RemoveElement
      <4> QED
        BY <4>2 DEF S, T
    <3>4. Cardinality(Users') \in Nat
      <4>1. IsFiniteSet(Users')
        BY <1>f, <3>2, FS_RemoveElement
      <4> QED
        BY <4>1, FS_CardinalityType
    <3>5. /\ made' = free' + Cardinality(Users')
          /\ free' \in 0 .. N /\ made' \in 0 .. N
      BY <1>f, <1>g, <2>4, <3>3, <3>4 DEF FreePipe
    <3> QED
      BY <2>0, <3>1, <3>5 DEF PipeSteps
  <2> QED
    BY <1>1, <2>2, <2>3, <2>4 DEF PipeMoves
<1>2. ASSUME NEW h \in Nodes, HubStep(h)
      PROVE  PipeInv' /\ free' \in 0 .. N /\ made' \in 0 .. N
  <2>1. UNCHANGED pipes
    BY <1>2 DEF HubStep, Launch, LaunchFails, LoopEnds, pipes
  <2>2. /\ \A q \in Ports : pc'[q] \in PipeSteps <=> pc[q] \in PipeSteps
        /\ pc'[Root] = "done" => pc[Root] = "done"
    <3>1. CASE Launch(h)
      <4>1. PICK p \in Ports : Launches(h, p)
        BY <1>0, <3>1, HubLaunches
      <4> QED
        BY <1>0, <4>1 DEF Launches, GoTo, PipeSteps
    <3>2. CASE LaunchFails(h)
      BY <3>2 DEF LaunchFails
    <3>3. CASE LoopEnds(h)
      BY <1>0, <3>3 DEF LoopEnds, GoTo, PipeSteps
    <3> QED
      BY <1>2, <3>1, <3>2, <3>3 DEF HubStep
  <2> QED
    BY <1>0, <1>g, <2>1, <2>2 DEF pipes, PipeSteps
<1>3. CASE ControllerEnds
  <2>1. /\ threads[Root] = 0 /\ pc[Root] = "wait" /\ pc' = [pc EXCEPT ![Root] = "done"]
        /\ free' = 0 /\ made' = made - free /\ UNCHANGED pipe
    BY <1>3 DEF ControllerEnds, ThreadsComplete, GoTo
  <2>2. Cardinality(Unfinished(Root)) = 0 /\ IsFiniteSet(Unfinished(Root))
    BY <1>0, <2>1, UsbAssumption, FS_Subset DEF ThreadsInv, Unfinished, Below
  <2>3. \A p \in Below(Root) : ~Active(p)
    BY <2>2, FS_EmptySet DEF Unfinished, Active
  <2>4. \A p \in Ports : ~Active(p)
    BY <1>0, <2>3, AllQuiet
  <2>5. Users = {} /\ Users' = {}
    BY <1>0, <2>1, <2>4 DEF Active
  <2>6. Cardinality(Users) = 0 /\ Cardinality(Users') = 0
    BY <2>5, FS_EmptySet
  <2>7. made' = 0 /\ made' = free' + Cardinality(Users') /\ 0 \in 0 .. N
    BY <1>f, <1>g, <2>1, <2>6
  <2>8. \A p \in Ports : pc'[p] = pc[p]
    BY <1>0, <2>1
  <2> QED
    BY <1>0, <2>1, <2>7, <2>8
<1>4. CASE UNCHANGED vars
  BY <1>0, <1>g, <1>4 DEF vars, pipes
<1>5. \A p \in Ports : PortStep(p) => Active(p)
  BY <1>0, PortMoves DEF Moves
<1> QED
  BY <1>0, <1>1, <1>2, <1>3, <1>4, <1>5, PortPipes DEF Next, Complete

\* The counts of usb_enumerate() are between zero and the number of ports.
LEMMA CountTypes ==
  ASSUME IInv, [Next]_vars
  PROVE  /\ threads' \in [Nodes -> 0 .. Cardinality(Ports)]
         /\ devcount' \in [Nodes -> 0 .. Cardinality(Ports)]
<1>0. TypeOK /\ ResetInv /\ DeviceInv /\ AddressInv /\ UniqueAddresses /\ TreeInv
      /\ ThreadsInv /\ DriverInv /\ PipeInv
  BY DEF IInv
<1> DEFINE N == Cardinality(Ports)
<1>f. /\ N \in Nat
      /\ \A S \in SUBSET Ports : Cardinality(S) \in 0 .. N
      /\ \A h \in Nodes : IsFiniteSet(Unfinished(h))
  <2>1. N \in Nat
    BY UsbAssumption, FS_CardinalityType
  <2>2. ASSUME NEW S \in SUBSET Ports
        PROVE  IsFiniteSet(S) /\ Cardinality(S) \in 0 .. N
    <3>1. IsFiniteSet(S) /\ Cardinality(S) <= N
      BY UsbAssumption, FS_Subset
    <3>2. Cardinality(S) \in Nat
      BY <3>1, FS_CardinalityType
    <3> QED
      BY <2>1, <3>1, <3>2
  <2>3. \A h \in Nodes : Unfinished(h) \in SUBSET Ports
    BY DEF Unfinished, Below
  <2> QED
    BY <2>1, <2>2, <2>3
<1> HIDE DEF N
<1>t. threads \in [Nodes -> 0 .. N] /\ devcount \in [Nodes -> 0 .. N]
  BY <1>0 DEF TypeOK, N
<1>1. ASSUME NEW p \in Ports, Moves(p)
      PROVE  threads' \in [Nodes -> 0 .. N] /\ devcount' \in [Nodes -> Int]
  <2>1. CASE UNCHANGED <<threads, devcount>>
    BY <1>f, <1>t, <2>1
  <2>2. CASE /\ threads' = [threads EXCEPT ![p] = Cardinality(Below(p))]
             /\ UNCHANGED devcount
    <3>1. Cardinality(Below(p)) \in 0 .. N
      BY <1>f DEF Below
    <3>2. threads' \in [Nodes -> 0 .. N]
      BY <1>t, <2>2, <3>1
    <3> QED
      BY <1>f, <1>t, <2>2, <3>2
  <2>3. ASSUME NEW count \in {0, 1}, Finish(p, count)
        PROVE  threads' \in [Nodes -> 0 .. N] /\ devcount' \in [Nodes -> Int]
    <3>1. Parent[p] \in Nodes /\ pc[Parent[p]] \in {"enumerate", "wait"}
      BY <1>0, <1>1, TreeFacts DEF Moves, Active, TreeInv
    <3>2. threads[Parent[p]] = Cardinality(Unfinished(Parent[p]))
      BY <1>0, <3>1 DEF ThreadsInv
    <3>3. Unfinished(Parent[p]) # {}
      BY <1>1 DEF Moves, Active, Unfinished, Below
    <3>4. Cardinality(Unfinished(Parent[p])) # 0
      BY <1>f, <3>1, <3>3, FS_EmptySet
    <3>5. threads[Parent[p]] - 1 \in 0 .. N
      BY <1>f, <1>t, <3>1, <3>2, <3>4
    <3>6. /\ threads' = [threads EXCEPT ![Parent[p]] = @ - 1]
          /\ devcount' = [devcount EXCEPT ![Parent[p]] = @ + count]
      BY <2>3 DEF Finish
    <3>7. threads' \in [Nodes -> 0 .. N]
      BY <1>t, <3>5, <3>6
    <3>8. devcount' \in [Nodes -> Int]
      <4>1. devcount \in [Nodes -> Int]
        BY <1>f, <1>t
      <4>2. devcount[Parent[p]] + count \in Int
        BY <3>1, <4>1
      <4> QED
        BY <3>6, <4>1, <4>2
    <3> QED
      BY <3>7, <3>8
  <2> QED
    BY <1>1, <2>1, <2>2, <2>3 DEF Moves, software
<1>2. ASSUME NEW h \in Nodes, HubStep(h)
      PROVE  UNCHANGED <<threads, devcount>>
  BY <1>2 DEF HubStep, Launch, LaunchFails, LoopEnds, software
<1>3. ControllerEnds \/ UNCHANGED vars => UNCHANGED <<threads, devcount>>
  BY DEF ControllerEnds, vars, software
<1>4. threads' \in [Nodes -> 0 .. N] /\ devcount' \in [Nodes -> Int]
  <2>1. UNCHANGED <<threads, devcount>>
          => threads' \in [Nodes -> 0 .. N] /\ devcount' \in [Nodes -> Int]
    BY <1>f, <1>t
  <2> QED
    BY <1>0, <1>1, <1>2, <1>3, <2>1, PortMoves DEF Next, Complete
<1>5. \A h \in Nodes : devcount'[h] \in 0 .. N
  <2>1. \A h \in Nodes : devcount'[h] = Cardinality({q \in Below(h) : driver'[q]})
    BY DriverStep DEF DriverInv, Below
  <2>2. \A h \in Nodes : {q \in Below(h) : driver'[q]} \in SUBSET Ports
    BY DEF Below
  <2> QED
    BY <1>f, <2>1, <2>2
<1> QED
  BY <1>4, <1>5 DEF N

\* The other variables.
FlowOK ==
  /\ pc \in [Nodes -> Steps]
  /\ todo \in [Nodes -> SUBSET Ports]
  /\ inplace \in [Nodes -> Ports \cup {NoPort}]
  /\ driver \in [Ports -> BOOLEAN]

RestOK ==
  /\ FlowOK
  /\ resetlock \in Ports \cup {NoPort}
  /\ hublock \in [Nodes -> Ports \cup {NoPort}]
  /\ maxaddr \in 0 .. USB_MAXADDR
  /\ devaddr \in [Ports -> 0 .. USB_MAXADDR]
  /\ pipe \in [Ports -> BOOLEAN]
  /\ dev \in [Ports -> {"off", "default", "addressed"}]
  /\ addr \in [Ports -> 0 .. USB_MAXADDR]
  /\ stuck \subseteq Ports
  /\ running \in BOOLEAN

\* Every step preserves the type invariant.
LEMMA TypeStep ==
  ASSUME IInv, [Next]_vars
  PROVE  TypeOK'
<1>0. TypeOK /\ ResetInv /\ DeviceInv /\ AddressInv /\ UniqueAddresses /\ TreeInv
      /\ ThreadsInv /\ DriverInv /\ PipeInv
  BY DEF IInv
<1> USE TreeFacts
<1>r. RestOK /\ USB_MAXADDR \in Nat
  BY <1>0, UsbAssumption DEF TypeOK, RestOK, FlowOK
<1>1. ASSUME NEW p \in Ports, PortStep(p)
      PROVE  RestOK'
  <2>a. ASSUME NEW count \in {0, 1}, Finish(p, count)
        PROVE  FlowOK'
    <3>1. /\ pc' = [pc EXCEPT ![p] = "done"] /\ UNCHANGED todo
          /\ inplace' = [inplace EXCEPT ![Parent[p]] = IF @ = p THEN NoPort ELSE @]
          /\ driver' = [driver EXCEPT ![p] = count = 1]
      BY <2>a DEF Finish, GoTo
    <3>2. pc' \in [Nodes -> Steps] /\ todo' \in [Nodes -> SUBSET Ports]
      BY <1>r, <3>1 DEF RestOK, FlowOK, Steps
    <3>3. inplace' \in [Nodes -> Ports \cup {NoPort}]
      BY <1>r, <3>1 DEF RestOK, FlowOK
    <3>4. driver' \in [Ports -> BOOLEAN]
      BY <1>r, <3>1 DEF RestOK, FlowOK
    <3> QED
      BY <3>2, <3>3, <3>4 DEF FlowOK
  <2>b. ASSUME NEW step \in Steps, GoTo(p, step), UNCHANGED software
        PROVE  FlowOK'
    BY <1>r, <2>b DEF RestOK, FlowOK, GoTo, software
  <2>c. UnlockHub(p) => hublock' \in [Nodes -> Ports \cup {NoPort}]
    BY <1>r DEF RestOK, UnlockHub
  <2>d. FreePipe(p) \/ UNCHANGED pipes => pipe' \in [Ports -> BOOLEAN]
    BY <1>r DEF RestOK, FreePipe, pipes
  <2>e. "drop" \in Steps /\ "abort" \in Steps /\ "lock" \in Steps /\ "address" \in Steps
        /\ "recovery" \in Steps /\ "enumerate" \in Steps
    BY DEF Steps
  <2>1. CASE LockHub(p)
    BY <1>r, <2>1 DEF RestOK, FlowOK, LockHub, software, pipes, hardware
  <2>2. CASE Detect(p)
    <3>1. FlowOK' /\ hublock' \in [Nodes -> Ports \cup {NoPort}]
      BY <2>a, <2>b, <2>c, <2>e, <2>2 DEF Detect
    <3> QED
      BY <1>r, <3>1, <2>2 DEF RestOK, Detect, pipes, hardware
  <2>3. CASE LockReset(p)
    BY <1>r, <2>3
       DEF RestOK, FlowOK, Steps, LockReset, UnlockHub, GoTo, Finish, Disconnect,
           FreePipe, software, pipes, hardware
  <2>4. CASE Reset(p)
    BY <1>r, <2>4
       DEF RestOK, FlowOK, Steps, Reset, UnlockHub, GoTo, Finish, Disconnect, FreePipe,
           software, pipes, hardware
  <2>5. CASE ResetWait(p)
    <3>1. FlowOK' /\ hublock' \in [Nodes -> Ports \cup {NoPort}]
      BY <2>a, <2>b, <2>c, <2>e, <2>5 DEF ResetWait
    <3>2. /\ dev' \in {dev, [dev EXCEPT ![p] = "off"]} /\ resetlock' \in {resetlock, NoPort}
          /\ UNCHANGED <<maxaddr, devaddr, pipe, addr, stuck, running>>
      BY <2>5 DEF ResetWait, pipes
    <3> QED
      BY <1>r, <3>1, <3>2 DEF RestOK
  <2>6. CASE Address(p)
    BY <1>r, <2>6
       DEF RestOK, FlowOK, Steps, Address, UnlockHub, GoTo, Finish, Disconnect, FreePipe,
           software, pipes, hardware
  <2>7. CASE SetAddress(p)
    <3>1. FlowOK' /\ pipe' \in [Ports -> BOOLEAN]
      BY <2>b, <2>d, <2>e, <2>7 DEF SetAddress
    <3>2. maxaddr + 1 \in 0 .. USB_MAXADDR
      BY <1>0, <1>r, <2>7 DEF SetAddress, DeviceInv, RestOK
    <3>3. /\ dev' \in {dev, [dev EXCEPT ![p] = "addressed"]}
          /\ addr' \in {addr, [addr EXCEPT ![p] = maxaddr + 1]}
          /\ UNCHANGED <<resetlock, hublock, maxaddr, devaddr, stuck, running>>
      BY <2>7 DEF SetAddress
    <3> QED
      BY <1>r, <3>1, <3>2, <3>3 DEF RestOK
  <2>8. CASE Recovery(p)
    BY <1>0, <1>r, <2>8
       DEF RestOK, FlowOK, Steps, Recovery, DeviceInv, UnlockHub, GoTo, Finish,
           Disconnect, FreePipe, software, pipes, hardware
  <2>9. CASE Abort(p)
    BY <1>r, <2>9
       DEF RestOK, FlowOK, Steps, Abort, UnlockHub, GoTo, Finish, Disconnect, FreePipe,
           software, pipes, hardware
  <2>10. CASE Configure(p)
    <3>1. FlowOK'
      <4>1. CASE /\ GoTo(p, "enumerate") /\ UNCHANGED <<inplace, driver>>
                 /\ todo' = [todo EXCEPT ![p] = Below(p)]
        BY <1>r, <2>e, <4>1 DEF RestOK, FlowOK, GoTo, Below
      <4> QED
        BY <2>a, <2>b, <2>e, <4>1, <2>10 DEF Configure
    <3>2. pipe' \in [Ports -> BOOLEAN]
      BY <2>d, <2>10 DEF Configure
    <3> QED
      BY <1>r, <3>1, <3>2, <2>10 DEF RestOK, Configure, hardware
  <2>11. CASE HubSetupEnds(p)
    <3>1. FlowOK' /\ pipe' \in [Ports -> BOOLEAN]
      BY <2>a, <2>b, <2>d, <2>e, <2>11 DEF HubSetupEnds
    <3> QED
      BY <1>r, <3>1, <2>11 DEF RestOK, HubSetupEnds, hardware
  <2>12. CASE Drop(p)
    BY <1>r, <2>12
       DEF RestOK, FlowOK, Steps, Drop, UnlockHub, GoTo, Finish, Disconnect, FreePipe,
           software, pipes, hardware
  <2> QED
    BY <1>1, <2>1, <2>2, <2>3, <2>4, <2>5, <2>6, <2>7, <2>8, <2>9, <2>10, <2>11, <2>12
       DEF PortStep
<1>2. ASSUME NEW h \in Nodes, HubStep(h)
      PROVE  RestOK'
  <2>1. CASE Launch(h)
    <3>1. PICK p \in Ports : Launches(h, p)
      BY <1>0, <2>1, HubLaunches
    <3> QED
      BY <1>r, <3>1 DEF RestOK, FlowOK, Steps, Launches, GoTo, pipes, hardware
  <2>2. CASE LaunchFails(h)
    BY <1>r, <2>2 DEF RestOK, FlowOK, LaunchFails, pipes, hardware
  <2>3. CASE LoopEnds(h)
    BY <1>r, <2>3 DEF RestOK, FlowOK, Steps, LoopEnds, GoTo, software, pipes, hardware
  <2> QED
    BY <1>2, <2>1, <2>2, <2>3 DEF HubStep
<1>3. ASSUME ControllerEnds
      PROVE  RestOK'
  <2>1. running' \in BOOLEAN
    BY <1>3 DEF ControllerEnds
  <2> QED
    BY <1>r, <1>3, <2>1
       DEF RestOK, FlowOK, Steps, ControllerEnds, GoTo, software, hardware
<1>4. ASSUME UNCHANGED vars
      PROVE  RestOK'
  BY <1>r, <1>4 DEF RestOK, FlowOK, vars, software, pipes, hardware
<1>5. RestOK'
  BY <1>1, <1>2, <1>3, <1>4 DEF Next, Complete
<1> QED
  BY <1>5, CountTypes, PipeStep DEF TypeOK, RestOK, FlowOK

----------------------------------------------------------------------------

\* The inductive invariant holds at the start.
LEMMA InitIInv == Init => IInv
<1> SUFFICES ASSUME Init
             PROVE  IInv
  OBVIOUS
<1> USE TreeFacts DEF Init
<1>n. /\ Cardinality(Ports) \in Nat /\ USB_MAXADDR \in Nat
      /\ Cardinality({}) = 0 /\ IsFiniteSet({})
      /\ Cardinality(Below(Root)) \in 0 .. Cardinality(Ports)
  <2>1. Below(Root) \in SUBSET Ports
    BY DEF Below
  <2>2. /\ IsFiniteSet(Below(Root)) /\ Cardinality(Below(Root)) <= Cardinality(Ports)
        /\ Cardinality(Ports) \in Nat
    BY <2>1, UsbAssumption, FS_Subset, FS_CardinalityType
  <2>3. Cardinality(Below(Root)) \in Nat
    BY <2>2, FS_CardinalityType
  <2> QED
    BY <2>2, <2>3, UsbAssumption, FS_EmptySet
<1>1. TypeOK
  BY <1>n DEF TypeOK, Steps, Below
<1>2. ResetInv /\ DeviceInv /\ AddressInv /\ UniqueAddresses
  BY DEF ResetInv, DeviceInv, AddressInv, UniqueAddresses, Holding, Nodes
<1>3. TreeInv
  BY DEF TreeInv, Active, Below, Nodes
<1>4. ThreadsInv
  <2>1. Unfinished(Root) = Below(Root)
    BY DEF Unfinished, Below, Nodes
  <2> QED
    BY <2>1 DEF ThreadsInv
<1>5. DriverInv
  <2>1. \A h \in Nodes : {p \in Below(h) : driver[p]} = {}
    BY DEF Below
  <2> QED
    BY <1>n, <2>1 DEF DriverInv
<1>6. PipeInv
  <2>1. {p \in Ports : pipe[p]} = {}
    OBVIOUS
  <2> QED
    BY <1>n, <2>1 DEF PipeInv, PipesAccounted, Nodes
<1> QED
  BY <1>1, <1>2, <1>3, <1>4, <1>5, <1>6 DEF IInv

\* Every step preserves the inductive invariant.
LEMMA NextIInv == IInv /\ [Next]_vars => IInv'
  BY TypeStep, ResetStep, DeviceStep, AddressStep, TreeStep, ThreadsStep, DriverStep,
     PipeStep DEF IInv

\* The inductive invariant holds in every reachable state.
LEMMA Invariance == Spec => []IInv
  BY InitIInv, NextIInv, PTL DEF Spec

\* A request reaches one device only: at most one device answers to address
\* zero, the one whose port holds cntl->resetlock, and no two to the same other
\* address, whichever set_address commands failed.
THEOREM AddressesCorrect == Spec => []AddressesExclusive
<1>1. IInv => AddressesExclusive
  <2> SUFFICES ASSUME IInv
               PROVE  AddressesExclusive
    OBVIOUS
  <2>1. AddressZeroExclusive
    <3>1. ASSUME NEW p \in Ports, dev[p] = "default", p \notin stuck
          PROVE  resetlock = p
      BY <3>1 DEF IInv, TypeOK, Steps, DeviceInv, ResetInv, Holding, Nodes
    <3> QED
      BY <3>1 DEF AddressZeroExclusive
  <2> QED
    BY <2>1 DEF IInv, AddressesExclusive
<1> QED
  BY <1>1, Invariance, PTL

\* The struct usbhub_s on the stack of a hub's thread, and the hub's pipe, are
\* there as long as a thread of one of its ports runs.
THEOREM HubsOutlive == Spec => []HubOutlivesThreads
<1>1. IInv => HubOutlivesThreads
  <2> SUFFICES ASSUME IInv, NEW p \in Ports, Active(p)
               PROVE  /\ pc[Parent[p]] \in {"enumerate", "wait"}
                      /\ threads[Parent[p]] > 0
                      /\ Parent[p] # Root => pipe[Parent[p]]
    BY DEF HubOutlivesThreads, Active
  <2>1. Parent[p] \in Nodes /\ pc[Parent[p]] \in {"enumerate", "wait"}
    BY TreeFacts DEF IInv, TreeInv
  <2>2. p \in Unfinished(Parent[p])
    BY DEF Unfinished, Below, Active
  <2>3. IsFiniteSet(Unfinished(Parent[p]))
    BY UsbAssumption, FS_Subset DEF Unfinished, Below
  <2>4. Cardinality(Unfinished(Parent[p])) \in Nat \ {0}
    BY <2>2, <2>3, FS_EmptySet, FS_CardinalityType
  <2>5. threads[Parent[p]] > 0
    BY <2>1, <2>4 DEF IInv, ThreadsInv
  <2>6. Parent[p] # Root => pipe[Parent[p]]
    BY <2>1 DEF IInv, PipeInv, Nodes
  <2> QED
    BY <2>1, <2>5, <2>6
<1> QED
  BY <1>1, Invariance, PTL

\* Every pipe ever made is the default pipe of one device or on the freelist,
\* and none is left in the end; a device with a driver stays reachable.
THEOREM PipesCorrect == Spec => []PipesAndDriversKept
<1>1. IInv => PipesAndDriversKept
  <2> SUFFICES ASSUME IInv
               PROVE  DriversReachable
    BY DEF IInv, PipeInv, PipesAndDriversKept
  <2> SUFFICES ASSUME NEW p \in Ports, driver[p], pc[Parent[p]] = "done"
               PROVE  IF Parent[p] = Root THEN running
                      ELSE dev[Parent[p]] = "addressed" /\ driver[Parent[p]]
    BY DEF DriversReachable
  <2>1. CASE Parent[p] = Root
    <3> DEFINE S == {q \in Below(Root) : driver[q]}
    <3>1. p \in S
      BY <2>1 DEF Below
    <3>2. IsFiniteSet(S)
      BY UsbAssumption, FS_Subset DEF Below
    <3>3. Cardinality(S) # 0
      BY <3>1, <3>2, FS_EmptySet
    <3>4. devcount[Root] = Cardinality(S)
      BY TreeFacts DEF IInv, DriverInv
    <3>5. running = (devcount[Root] # 0)
      BY <2>1 DEF IInv, DriverInv
    <3> QED
      BY <2>1, <3>3, <3>4, <3>5
  <2>2. CASE Parent[p] # Root
    BY <2>2, TreeFacts, ZenonT(30) DEF IInv, DriverInv, Nodes
  <2> QED
    BY <2>1, <2>2
<1> QED
  BY <1>1, Invariance, PTL

=============================================================================
