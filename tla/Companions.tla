----------------------------- MODULE Companions ------------------------------
(***************************************************************************)
(* Ports that an EHCI controller shares with slower companion controllers  *)
(* (src/hw/usb-ehci.c, usb-uhci.c, usb-ohci.c, usb.c).  A port leads to    *)
(* its companion until the EHCI controller is configured, and again after  *)
(* that driver has given the port away because of the device's speed.      *)
(* Companions wait until no EHCI controller is left to be configured.      *)
(*                                                                         *)
(* Threads give the CPU away only where they wait.  Every port has a       *)
(* thread of its own on either side (usb_hub_port_setup).                  *)
(***************************************************************************)
EXTENDS Integers, FiniteSets

CONSTANTS
  Ehcis,         \* in the order of the PCI bus: 1 .. n
  Slow,          \* the companion controllers
  Ports,
  EhciOf,        \* [Ports -> Ehcis]
  CompanionOf,   \* [Ports -> Slow]
  MaxFailures

VARIABLES
  speed,         \* of the device that is or comes into a port, or "none"
  present,       \* the ports whose devices have answered
  main,          \* the EHCI controller usb_setup() has come to
  PendingEHCI,
  configflag,    \* the EHCI controllers that ports lead to
  owner,         \* PORT_OWNER, by port
  ehci, slow,    \* the thread of each controller
  fast_port, slow_port,   \* the thread of each port, on either side
  failures,
  late           \* ports with whose device nobody reckoned any more (history)

found == <<speed, present>>
setup == <<main, PendingEHCI>>
routing == <<configflag, owner>>
vars == <<found, setup, routing, ehci, slow, fast_port, slow_port, failures, late>>

Init ==
  /\ speed \in [Ports -> {"none", "low", "full", "high"}]
  /\ present = {}
  /\ main = 1
  /\ PendingEHCI = 0
  /\ configflag = {} /\ owner = {}
  /\ ehci = [e \in Ehcis |-> "off"]
  /\ slow = [c \in Slow |-> "off"]
  /\ fast_port = [p \in Ports |-> "off"]
  /\ slow_port = [p \in Ports |-> "off"]
  /\ failures = 0
  /\ late = {}

LeadsToEhci(p) == EhciOf[p] \in configflag /\ p \notin owner

Fails(yes) == failures' = failures + (IF yes THEN 1 ELSE 0) /\ failures' <= MaxFailures

----------------------------------------------------------------------------
(* Setup                                                                    *)

\* The thread of configure_ehci() begins at once and allocates; without memory for
\* its controller there is none.
ehci_controller_setup ==
  /\ main \in Ehcis
  /\ main' = main + 1
  /\ \/ /\ ehci' = [ehci EXCEPT ![main] = "reset"]
        /\ PendingEHCI' = PendingEHCI + 1
        /\ Fails(FALSE)
     \/ /\ ehci' = [ehci EXCEPT ![main] = "end"]
        /\ Fails(TRUE)
        /\ UNCHANGED PendingEHCI
  /\ UNCHANGED <<found, routing, slow, fast_port, slow_port, late>>

\* The wait for the end of the reset is over, and ports lead to the controller; if it
\* cannot be configured they stay where they are.
configure_ehci(e) ==
  /\ ehci[e] = "reset"
  /\ \E done \in BOOLEAN :
       /\ Fails(~done)
       /\ IF done
          THEN /\ configflag' = configflag \cup {e}
               /\ owner' = {p \in owner : EhciOf[p] # e}
               /\ ehci' = [ehci EXCEPT ![e] = "ports"]
               /\ fast_port' = [p \in Ports |-> IF EhciOf[p] = e THEN "detect"
                                               ELSE fast_port[p]]
          ELSE /\ ehci' = [ehci EXCEPT ![e] = "end"]
               /\ UNCHANGED <<configflag, owner, fast_port>>
  /\ PendingEHCI' = PendingEHCI - 1
  /\ UNCHANGED <<found, main, slow, slow_port, late>>

\* uhci_setup() and ohci_setup() come after ehci_setup().
companion_controller_setup(c) ==
  /\ main \notin Ehcis /\ slow[c] = "off"
  /\ slow' = [slow EXCEPT ![c] = "wait"]
  /\ UNCHANGED <<found, setup, routing, ehci, fast_port, slow_port, failures, late>>

\* Deviation: companions look at their ports at once.
Routed_assumed == TRUE
\* ehci_wait_controllers()
Routed == PendingEHCI = 0

check_companion_ports(c) ==
  /\ slow[c] = "wait"
  /\ Routed
  /\ slow' = [slow EXCEPT ![c] = "ports"]
  /\ slow_port' = [p \in Ports |-> IF CompanionOf[p] = c THEN "detect" ELSE slow_port[p]]
  /\ UNCHANGED <<found, setup, routing, ehci, fast_port, failures, late>>

----------------------------------------------------------------------------
(* Ports                                                                    *)

\* A device answers some time after its port has power.
Attach(p) ==
  /\ speed[p] # "none" /\ p \notin present
  /\ present' = present \cup {p}
  /\ late' = IF (IF LeadsToEhci(p) THEN fast_port[p] ELSE slow_port[p]) = "none"
             THEN late \cup {p} ELSE late
  /\ UNCHANGED <<speed, setup, routing, ehci, slow, fast_port, slow_port, failures>>

\* The companion may have stopped looking when it gets the port.
GiveAway(p) ==
  /\ owner' = owner \cup {p}
  /\ fast_port' = [fast_port EXCEPT ![p] = "given"]
  /\ late' = IF slow_port[p] = "none" THEN late \cup {p} ELSE late

\* ehci_hub_detect(), which tells a low speed device from the state of its lines.
ehci_hub_detect(p) ==
  /\ fast_port[p] = "detect"
  /\ IF p \in present /\ speed[p] = "low"
     THEN GiveAway(p) /\ UNCHANGED configflag
     ELSE /\ fast_port' = [fast_port EXCEPT ![p] =
                             IF p \in present THEN "reset" ELSE "none"]
          /\ UNCHANGED <<routing, late>>
  /\ UNCHANGED <<found, setup, ehci, slow, slow_port, failures>>

\* ehci_hub_reset() and what follows for a device of high speed.
ehci_hub_reset(p) ==
  /\ fast_port[p] = "reset"
  /\ \/ /\ speed[p] # "high"
        /\ GiveAway(p)
        /\ UNCHANGED <<configflag, failures>>
     \/ /\ speed[p] = "high"
        /\ \E failed \in BOOLEAN :
             /\ Fails(failed)
             /\ fast_port' = [fast_port EXCEPT ![p] = IF failed THEN "failed" ELSE "driver"]
        /\ UNCHANGED <<routing, late>>
  /\ UNCHANGED <<found, setup, ehci, slow, slow_port>>

\* uhci_hub_detect(), ohci_hub_detect(): until the time is over.
slow_hub_detect(p) ==
  /\ slow_port[p] = "detect"
  /\ LET seen == p \in present /\ ~LeadsToEhci(p)
     IN  slow_port' = [slow_port EXCEPT ![p] = IF seen THEN "reset" ELSE "none"]
  /\ UNCHANGED <<found, setup, routing, ehci, slow, fast_port, failures, late>>

slow_hub_reset(p) ==
  /\ slow_port[p] = "reset"
  /\ \E failed \in BOOLEAN :
       /\ LeadsToEhci(p) => failed
       /\ Fails(failed)
       /\ slow_port' = [slow_port EXCEPT ![p] = IF failed THEN "failed" ELSE "driver"]
  /\ UNCHANGED <<found, setup, routing, ehci, slow, fast_port, late>>

\* usb_enumerate() returns when the threads of all ports have ended.
Over(p, threads) == threads[p] \notin {"off", "detect", "reset"}

EhciEnds(e) ==
  /\ ehci[e] = "ports" /\ \A p \in Ports : EhciOf[p] = e => Over(p, fast_port)
  /\ ehci' = [ehci EXCEPT ![e] = "end"]
  /\ UNCHANGED <<found, setup, routing, slow, fast_port, slow_port, failures, late>>

SlowEnds(c) ==
  /\ slow[c] = "ports" /\ \A p \in Ports : CompanionOf[p] = c => Over(p, slow_port)
  /\ slow' = [slow EXCEPT ![c] = "end"]
  /\ UNCHANGED <<found, setup, routing, ehci, fast_port, slow_port, failures, late>>

Next ==
  \/ ehci_controller_setup
  \/ \E e \in Ehcis : configure_ehci(e) \/ EhciEnds(e)
  \/ \E c \in Slow :
       companion_controller_setup(c) \/ check_companion_ports(c) \/ SlowEnds(c)
  \/ \E p \in Ports :
       \/ Attach(p)
       \/ ehci_hub_detect(p) \/ ehci_hub_reset(p)
       \/ slow_hub_detect(p) \/ slow_hub_reset(p)

----------------------------------------------------------------------------

Ended == (\A e \in Ehcis : ehci[e] = "end") /\ (\A c \in Slow : slow[c] = "end")

\* No port is taken away from a driver that has begun with it
\* (usb-ehci.c:339, "This forces OHCI/UHCI setup to always be after any EHCI ports
\* are routed to EHCI"), a device is driven on one side, the fast one if it can be, and
\* companions wait only while there is something to wait for.  When all is over
\* every device has a driver, but for those that failed or came too late: a companion
\* looks for 100 ms, and full speed devices are given away one after the other.
PortsClaimed ==
  /\ \A p \in Ports :
       /\ slow_port[p] \in {"reset", "driver"} => ~LeadsToEhci(p)
       /\ fast_port[p] \in {"reset", "driver"} => LeadsToEhci(p)
       /\ {fast_port[p], slow_port[p]} # {"driver"}
       /\ fast_port[p] = "driver" => speed[p] = "high"
  /\ PendingEHCI > 0 => \E e \in Ehcis : ehci[e] = "reset"
  /\ Ended => \A p \in present \ late :
                {fast_port[p], slow_port[p]} \cap {"driver", "failed"} # {}

=============================================================================
