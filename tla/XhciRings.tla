------------------------------ MODULE XhciRings ------------------------------
(***************************************************************************)
(* The rings between the xHCI driver and its controller                    *)
(* (src/hw/usb-xhci.c): a ring of commands and one of transfers per pipe,  *)
(* which the driver fills, and the one ring of events, which whoever       *)
(* happens to wait drains for everybody.  Threads give the CPU away only   *)
(* in xhci_event_wait() and mutex_lock(); the interrupt pipe is polled     *)
(* from the timer interrupt, which comes in where a thread yields.  The    *)
(* controller runs all the time.                                           *)
(***************************************************************************)
EXTENDS Integers, Sequences

CONSTANTS
  UsbThreads,      \* threads that set up devices; each has a control pipe
  Cmds, Intr,      \* the names of the command ring and of an interrupt pipe's
  XHCI_RING_ITEMS, \* entries of a ring
  XhciWorlds       \* bounds: how many requests, requests given up (fewer than a
                   \* ring has entries), port events and reports there are

\* A ring has its link and more than one entry beside it.
ASSUME XhciAssumption ==
  /\ XHCI_RING_ITEMS \in Nat /\ XHCI_RING_ITEMS >= 3
  /\ Cmds # Intr /\ {Cmds, Intr} \cap UsbThreads = {}
  /\ "port" \notin UsbThreads \cup {Cmds, Intr}
  /\ "nobody" \notin UsbThreads

VARIABLES
  rings,    \* [Rings -> struct xhci_ring]; a ring with its copy of an event
  evts,     \* the event ring, as the driver sees it
  hc,       \* the controller's own position on each ring
  er,       \* and on the event ring
  lock,     \* the holder of cmds->lock, or Nobody
  thread,   \* what each thread does
  budget,   \* what is left of the bounds
  intr      \* the interrupt pipe and its buffer

xhciVars == <<rings, evts, hc, er, lock, thread, budget, intr>>

Rings == UsbThreads \cup {Cmds, Intr}
Nobody == "nobody"
Link == "link"
RingIndex == 0 .. XHCI_RING_ITEMS - 1

\* A TRB is known by its number on its ring (n; not in the code).
NoTrb == [n |-> 0, kind |-> "none", c |-> 0]
NoEvent == [ring |-> Cmds, index |-> 0, n |-> 0, cc |-> 0, c |-> 0]

----------------------------------------------------------------------------
(* Filling a ring                                                           *)

\* One more TRB fills the ring, which then looks empty (a history: nothing in the
\* code looks).
Overruns(r) == r.over \/ r.n + 1 - r.evt.n >= XHCI_RING_ITEMS - 1

Wraps(r) == r.nidx >= XHCI_RING_ITEMS - 1

\* Deviation: a ring that wraps keeps its cycle bit.
CycleOfNext_kept(r) == r.cs

CycleOfNext(r) == IF Wraps(r) THEN 1 - r.cs ELSE r.cs

\* Add a TRB, behind a link to the start of the ring if it is the last entry's
\* turn.  Nothing checks that the controller is done with the entry.
xhci_trb_queue(r, kind) ==
  LET at == IF Wraps(r) THEN 0 ELSE r.nidx
      cs == CycleOfNext(r)
  IN  [r EXCEPT
         !.trbs = [i \in RingIndex |->
            CASE i = at -> [n |-> r.n + 1, kind |-> kind, c |-> cs]
              [] i = r.nidx /\ i # at -> [n |-> 0, kind |-> Link, c |-> r.cs]
              [] OTHER -> r.trbs[i]],
         !.nidx = at + 1, !.cs = cs, !.n = @ + 1, !.over = Overruns(r)]

xhci_xfer_normal(r) == xhci_trb_queue(r, "ioc")

xhci_xfer_setup(r, data) ==
  LET s == xhci_trb_queue(r, "stage")
      d == IF data THEN xhci_trb_queue(s, "stage") ELSE s
  IN  xhci_trb_queue(d, "ioc")

xhci_ring_busy(r) == r.eidx # r.nidx

----------------------------------------------------------------------------
(* Draining the event ring                                                  *)

\* The rings and the event ring when the next event was looked at, and taken if the
\* controller has written it.
TakeEvent(s) ==
  LET e == s.evts.trbs[s.evts.nidx]
      last == s.evts.nidx + 1 = XHCI_RING_ITEMS
  IN  IF e.c # s.evts.cs THEN s
      ELSE [rings |-> IF e.ring \in Rings
                      THEN [s.rings EXCEPT ![e.ring] =
                              [@ EXCEPT !.evt = e, !.eidx = e.index + 1]]
                      ELSE s.rings,
            evts  |-> [s.evts EXCEPT !.nidx = IF last THEN 0 ELSE @ + 1,
                                     !.cs = IF last THEN 1 - @ ELSE @,
                                     !.taken = @ + 1]]

\* The same after at most k further events.
After[k \in 0 .. XHCI_RING_ITEMS] ==
  IF k = 0 THEN [rings |-> rings, evts |-> evts] ELSE TakeEvent(After[k - 1])

xhci_process_events == After[XHCI_RING_ITEMS]

----------------------------------------------------------------------------
(* The threads                                                              *)

IdleThread(t) == thread[t].pc = "idle" /\ budget.requests > 0

\* A request was queued on ring r: the first look at the events comes before
\* the first yield(), but the controller cannot have answered yet.
Submitted(t, r) ==
  /\ thread' = [thread EXCEPT ![t] = [@ EXCEPT !.pc = "wait", !.ring = r,
                                        !.want = rings'[r].n]]
  /\ budget' = [budget EXCEPT !.requests = @ - 1]

\* xhci_send_pipe()
xhci_send_pipe(t) ==
  /\ IdleThread(t)
  /\ \E r \in {xhci_xfer_normal(rings[t]), xhci_xfer_setup(rings[t], TRUE),
               xhci_xfer_setup(rings[t], FALSE)} :
       rings' = [rings EXCEPT ![t] = r]
  /\ Submitted(t, t)
  /\ UNCHANGED <<evts, hc, er, lock, intr>>

\* xhci_cmd_submit() of a device that is still connected, when the mutex is free.
xhci_cmd_submit(t) ==
  /\ IdleThread(t)
  /\ lock = Nobody
  /\ lock' = t
  /\ rings' = [rings EXCEPT ![Cmds] = xhci_trb_queue(@, "ioc")]
  /\ Submitted(t, Cmds)
  /\ UNCHANGED <<evts, hc, er, intr>>

Unlocked(t) == IF thread[t].ring = Cmds THEN Nobody ELSE lock

\* One round of xhci_event_wait(): drain the events and look at the own ring.
xhci_event_wait(t) ==
  LET r == thread[t].ring
  IN  /\ thread[t].pc = "wait"
      /\ rings' = xhci_process_events.rings
      /\ evts' = xhci_process_events.evts
      /\ IF xhci_ring_busy(rings'[r])
         THEN UNCHANGED <<thread, lock>>
         ELSE /\ thread' = [thread EXCEPT ![t] = [@ EXCEPT !.pc = "idle",
                              !.got = rings'[r].evt.n, !.cc = rings'[r].evt.cc]]
              /\ lock' = Unlocked(t)
      /\ UNCHANGED <<hc, er, intr, budget>>

\* The same, when the time is over.
WaitTimesOut(t) ==
  LET r == thread[t].ring
  IN  /\ thread[t].pc = "wait"
      /\ budget.timeouts > 0
      /\ rings' = xhci_process_events.rings
      /\ evts' = xhci_process_events.evts
      /\ xhci_ring_busy(rings'[r])
      /\ thread' = [thread EXCEPT ![t] = [@ EXCEPT !.pc = "idle", !.got = 0, !.cc = -1,
                                            !.want = 0]]
      /\ budget' = [budget EXCEPT !.timeouts = @ - 1]
      /\ lock' = Unlocked(t)
      /\ UNCHANGED <<hc, er, intr>>

\* The timer interrupt polls the interrupt pipe: the first time it only queues a
\* transfer; later, when the ring is empty, it takes what is in the buffer for a
\* report, whatever the completion code, and queues the next.
xhci_poll_intr ==
  LET after == IF intr.bufused THEN xhci_process_events
               ELSE [rings |-> rings, evts |-> evts]
      busy  == intr.bufused /\ xhci_ring_busy(after.rings[Intr])
  IN  /\ intr.polls < budget.reports
      /\ evts' = after.evts
      /\ rings' = IF busy THEN after.rings
                  ELSE [after.rings EXCEPT ![Intr] = xhci_xfer_normal(@)]
      /\ intr' = [intr EXCEPT !.bufused = TRUE,
                    !.polls = IF busy THEN @ ELSE @ + 1,
                    !.data = IF ~busy /\ intr.bufused THEN Append(@, intr.buf) ELSE @]
      /\ UNCHANGED <<hc, er, lock, thread, budget>>

----------------------------------------------------------------------------
(* The controller                                                           *)

\* Where it is on ring r, a link followed.
Position(r) ==
  LET trb == rings[r].trbs[hc[r].deq]
  IN  IF trb.kind = Link /\ trb.c = hc[r].cs
      THEN [deq |-> 0, cs |-> 1 - hc[r].cs] ELSE [deq |-> hc[r].deq, cs |-> hc[r].cs]

Current(r) == rings[r].trbs[Position(r).deq]
Runs(r) == Current(r).c = Position(r).cs /\ ~hc[r].halted

EventRoom == (er.enq + 1) % XHCI_RING_ITEMS # evts.nidx

Post(ring, index, n, cc) ==
  LET last == er.enq + 1 = XHCI_RING_ITEMS
  IN  /\ EventRoom
      /\ evts' = [evts EXCEPT !.trbs[er.enq] =
                    [ring |-> ring, index |-> index, n |-> n, cc |-> cc, c |-> er.cs]]
      /\ er' = [er EXCEPT !.enq = IF last THEN 0 ELSE @ + 1,
                  !.cs = IF last THEN 1 - @ ELSE @, !.posted = @ + 1]

\* A TRB is done; there is an event if it asked for one or failed.  A transfer
\* that fails halts its ring, and leaves the buffer of a report as it was.
TrbCompletes(r, ok) ==
  LET p == Position(r)
      trb == Current(r)
  IN  /\ Runs(r)
      /\ r = Intr => intr.sent < budget.reports
      /\ hc' = [hc EXCEPT ![r] = [deq |-> p.deq + 1, cs |-> p.cs, n |-> hc[r].n + 1,
                                  halted |-> ~ok /\ r # Cmds]]
      /\ IF ok /\ trb.kind = "stage" THEN UNCHANGED <<evts, er>>
         ELSE Post(r, p.deq, trb.n, IF ok THEN 1 ELSE 4)
      /\ intr' = IF r = Intr /\ ok THEN [intr EXCEPT !.buf = intr.sent + 1, !.sent = @ + 1]
                 ELSE intr
      /\ UNCHANGED <<rings, lock, thread, budget>>

PortStatusChange ==
  /\ budget.ports > 0
  /\ EventRoom
  /\ evts' = [evts EXCEPT !.trbs[er.enq] =
                [ring |-> "port", index |-> 0, n |-> 0, cc |-> 1, c |-> er.cs]]
  /\ er' = LET last == er.enq + 1 = XHCI_RING_ITEMS
           IN  [enq |-> IF last THEN 0 ELSE er.enq + 1,
                cs |-> IF last THEN 1 - er.cs ELSE er.cs,
                posted |-> er.posted + 1]
  /\ budget' = [budget EXCEPT !.ports = @ - 1]
  /\ UNCHANGED <<rings, hc, lock, thread, intr>>

----------------------------------------------------------------------------

XhciInit ==
  /\ rings = [r \in Rings |-> [trbs |-> [i \in RingIndex |-> NoTrb], nidx |-> 0, eidx |-> 0,
                               cs |-> 1, evt |-> NoEvent, n |-> 0, over |-> FALSE]]
  /\ evts = [trbs |-> [i \in RingIndex |-> NoEvent], nidx |-> 0, cs |-> 1, taken |-> 0]
  /\ hc = [r \in Rings |-> [deq |-> 0, cs |-> 1, n |-> 0, halted |-> FALSE]]
  /\ er = [enq |-> 0, cs |-> 1, posted |-> 0]
  /\ budget \in XhciWorlds
  /\ lock = Nobody
  /\ thread = [t \in UsbThreads |-> [pc |-> "idle", ring |-> t, want |-> 0, got |-> 0,
                                  cc |-> 0]]
  /\ intr = [bufused |-> FALSE, buf |-> 0, sent |-> 0, polls |-> 0, data |-> <<>>]

XhciNext ==
  \/ \E t \in UsbThreads : \/ xhci_send_pipe(t)
                        \/ xhci_cmd_submit(t)
                        \/ xhci_event_wait(t)
                        \/ WaitTimesOut(t)
  \/ xhci_poll_intr
  \/ \E r \in Rings, ok \in BOOLEAN : TrbCompletes(r, ok)
  \/ PortStatusChange

XhciSpec == XhciInit /\ [][XhciNext]_xhciVars

----------------------------------------------------------------------------
(* Properties                                                                 *)

\* The driver sees an event exactly when the controller has posted one nobody
\* took, across every wrap of the event ring.
EventsAgree ==
  (evts.trbs[evts.nidx].c = evts.cs) <=> evts.taken < er.posted

\* The controller finds each TRB that was queued, in order and once, and nothing
\* that an entry held in an earlier round.
TrbsInOrder ==
  \A r \in Rings :
    ~hc[r].halted /\ ~rings[r].over =>
      /\ Runs(r) <=> hc[r].n < rings[r].n
      /\ Runs(r) => Current(r).n = hc[r].n + 1

\* A request returns the completion code of its own last TRB, or times out:
\* although any thread or interrupt may take the event off the ring, although
\* completions of requests that were given up come in later, and although the
\* rings wrap.  (As long as less than a whole ring of TRBs was given up.)
OwnResult ==
  \A t \in UsbThreads :
    thread[t].pc = "idle" /\ thread[t].cc >= 0 /\ ~rings[thread[t].ring].over =>
      thread[t].got = thread[t].want

\* What the pipe's i-th transfer brings: a new report, but nothing if it fails.
ReportOf(i) == IF hc[Intr].halted /\ i = hc[Intr].n THEN i - 1 ELSE i

\* Each report of the interrupt pipe's device is handed on once, in order.  Only a
\* transfer that failed, which nobody sees, has the report before handed on again;
\* it is the last one.
ReportsInOrder == \A i \in 1 .. Len(intr.data) : intr.data[i] = ReportOf(i)

RingsTyped ==
  /\ \A r \in Rings : rings[r].nidx \in RingIndex /\ rings[r].eidx \in 0 .. XHCI_RING_ITEMS - 1
  /\ evts.nidx \in RingIndex
  /\ lock \in UsbThreads \cup {Nobody}

RequestsServed == RingsTyped /\ EventsAgree /\ TrbsInOrder /\ OwnResult /\ ReportsInOrder
=============================================================================
