---------------------------- MODULE EhciSchedule -----------------------------
(***************************************************************************)
(* The schedules that the EHCI driver shares with its controller           *)
(* (src/hw/usb-ehci.c): a ring of queue heads (QHs), one per pipe, to      *)
(* which pipes are added while the controller walks along it; transfer     *)
(* descriptors (TDs) on the stack of the caller, which gives up waiting    *)
(* after a time; and a ring of TDs for the reports of a keyboard.  Before  *)
(* memory goes the driver rings a doorbell, and the controller answers     *)
(* when it has let go of what it was looking at.                           *)
(*                                                                         *)
(* Threads give the CPU away only where they wait; the controller runs all *)
(* the time, also between two writes of a thread.                          *)
(***************************************************************************)
EXTENDS Integers, SequencesExt

CONSTANTS
  Threads,      \* each sets up a device
  Main,         \* the thread of configure_ehci()
  QHs,          \* the memory for pipes: numbers
  ReportTds,    \* of an interrupt pipe
  Worlds        \* bounds: pipes taken and their types, requests and their TDs,
                \* requests and doorbells given up, failed transactions, reports

VARIABLES
  qh, allocated, freelist,
  regs,         \* the doorbell's bits in USBCMD and USBSTS
  hc,           \* the controller: the QH it looks at, its transaction
  thread,
  tds,          \* what is on each thread's stack
  cpu,          \* the thread that does not give the CPU away now, or Nobody
  intr,         \* an interrupt pipe
  left,         \* what is left of the bounds
  astray        \* pipes the driver can no longer be sure of (history)

vars == <<qh, allocated, freelist, regs, hc, thread, tds, cpu, intr, left, astray>>

Nobody == "nobody"
async_qh == 0
Everyone == Threads \cup {Main}
TERM == [of |-> Nobody, id |-> 0, k |-> 0]
NoTransaction == [pipe |-> async_qh, td |-> TERM]
Slots == 0 .. ReportTds - 1

Init ==
  /\ \E w \in Worlds : left = w
  /\ qh = [p \in QHs \cup {async_qh} |->
             [next |-> async_qh, eptype |-> "none", qtd_next |-> TERM, current |-> TERM,
              token |-> IF p = async_qh THEN "halted" ELSE "idle"]]
  /\ allocated = {} /\ freelist = <<>>
  /\ regs = [IAAD |-> FALSE, IAA |-> FALSE]
  /\ hc = [at |-> async_qh, busy |-> NoTransaction]
  /\ thread = [t \in Everyone |-> [pc |-> "run", pipes |-> {}, pipe |-> async_qh,
                                   rc |-> "none"]]
  /\ tds = [t \in Threads |-> [id |-> 0, live |-> FALSE, status |-> <<>>]]
  /\ cpu = Nobody
  /\ intr = [status |-> [i \in Slots |-> "active"], data |-> [i \in Slots |-> 0],
             hc |-> 0, next_td |-> 0, halted |-> FALSE, sent |-> 0, seen |-> <<>>]
  /\ astray = {}

Runs(t) == cpu \in {Nobody, t}
Goto(t, pc) == thread' = [thread EXCEPT ![t].pc = pc]

----------------------------------------------------------------------------
(* Pipes                                                                    *)

\* usb_get_freelist(): the place of the first pipe of a type in a list, or 0.
Reusable(list, type) ==
  LET fits == {i \in DOMAIN list : qh[list[i]].eptype = type}
  IN  IF fits = {} THEN 0 ELSE CHOOSE i \in fits : \A j \in fits : i <= j

\* A pipe of the free list is still on the ring.
UseAgain(t, list, type, pipes) ==
  LET i == Reusable(list, type)
  IN  /\ i # 0
      /\ freelist' = RemoveAt(list, i)
      /\ qh' = [qh EXCEPT ![list[i]].token = "idle"]
      /\ thread' = [thread EXCEPT ![t].pipes = pipes \cup {list[i]}]
      /\ UNCHANGED <<allocated, cpu>>

\* A new one is linked in two writes; without memory there is none.
NewPipe(t, list, type, pipes) ==
  /\ Reusable(list, type) = 0
  /\ freelist' = list
  /\ \/ /\ QHs = allocated
        /\ thread' = [thread EXCEPT ![t].pipes = pipes]
        /\ UNCHANGED <<qh, allocated, cpu>>
     \/ /\ QHs # allocated
        /\ LET p == Min(QHs \ allocated)
           IN  /\ allocated' = allocated \cup {p}
               /\ qh' = [qh EXCEPT ![p].next = qh[async_qh].next, ![p].eptype = type]
               /\ thread' = [thread EXCEPT ![t].pc = "link", ![t].pipe = p,
                                           ![t].pipes = pipes]
        /\ cpu' = t

\* The pipe it is called with goes to the free list, and without a descriptor of
\* the new endpoint that is all.
ehci_realloc_pipe(t) ==
  /\ thread[t].pc = "run"
  /\ \E upipe \in thread[t].pipes \cup {async_qh}, type \in left.types \cup {"none"} :
       LET list  == IF upipe = async_qh THEN freelist ELSE <<upipe>> \o freelist
           pipes == thread[t].pipes \ {upipe}
       IN  \/ /\ type = "none" /\ upipe # async_qh
              /\ freelist' = list
              /\ thread' = [thread EXCEPT ![t].pipes = pipes]
              /\ UNCHANGED <<qh, allocated, cpu, left>>
           \/ /\ type # "none" /\ left.pipes > 0
              /\ left' = [left EXCEPT !.pipes = @ - 1]
              /\ \/ UseAgain(t, list, type, pipes)
                 \/ NewPipe(t, list, type, pipes)
  /\ UNCHANGED <<regs, hc, tds, intr, astray>>

Link(t) ==
  /\ thread[t].pc = "link"
  /\ qh' = [qh EXCEPT ![async_qh].next = thread[t].pipe]
  /\ thread' = [thread EXCEPT ![t].pc = "run", ![t].pipe = async_qh,
                              ![t].pipes = @ \cup {thread[t].pipe}]
  /\ cpu' = Nobody
  /\ UNCHANGED <<allocated, freelist, regs, hc, tds, intr, left, astray>>

----------------------------------------------------------------------------
(* Requests                                                                 *)

Live(td) == tds[td.of].live /\ tds[td.of].id = td.id
Behind(td) == IF td.k = Len(tds[td.of].status) THEN TERM ELSE [td EXCEPT !.k = @ + 1]
Pending(t) == {k \in DOMAIN tds[t].status : tds[t].status[k] # "done"}
\* The state of the TD that ehci_wait_td() waits for.
Awaited(t) == tds[t].status[CHOOSE k \in Pending(t) : \A j \in Pending(t) : k <= j]

\* The TDs are built and then given to the controller in one write.
ehci_send_pipe(t) ==
  /\ thread[t].pc = "run"
  /\ left.requests > 0
  /\ left' = [left EXCEPT !.requests = @ - 1]
  /\ \E p \in thread[t].pipes, n \in 1 .. left.tds :
       /\ tds' = [tds EXCEPT ![t] = [id |-> @.id + 1, live |-> TRUE,
                                     status |-> [k \in 1 .. n |-> "active"]]]
       /\ qh' = [qh EXCEPT ![p].qtd_next = [of |-> t, id |-> tds[t].id + 1, k |-> 1]]
       /\ thread' = [thread EXCEPT ![t].pc = "wait", ![t].pipe = p]
  /\ UNCHANGED <<allocated, freelist, regs, hc, cpu, intr, astray>>

\* The caller's stack is used for something else.
Returns(t) ==
  /\ thread' = [thread EXCEPT ![t].pc = "run", ![t].pipe = async_qh, ![t].rc = "none"]
  /\ tds' = [tds EXCEPT ![t].live = FALSE, ![t].status = <<>>]
  /\ cpu' = Nobody

AllDone(t) ==
  /\ thread[t].pc = "wait"
  /\ Pending(t) = {}
  /\ Returns(t)
  /\ UNCHANGED <<qh, allocated, freelist, regs, hc, intr, left, astray>>

\* ehci_wait_td() finds an error, or a TD still active when the time is over.
TdFailed(t) ==
  /\ thread[t].pc = "wait"
  /\ Pending(t) # {}
  /\ \/ /\ Awaited(t) = "halted"
        /\ thread' = [thread EXCEPT ![t].pc = "reset", ![t].rc = "halted"]
        /\ UNCHANGED left
     \/ /\ Awaited(t) = "active"
        /\ left.timeouts > 0
        /\ left' = [left EXCEPT !.timeouts = @ - 1]
        /\ thread' = [thread EXCEPT ![t].pc = "reset", ![t].rc = "timeout"]
  /\ cpu' = t
  /\ UNCHANGED <<qh, allocated, freelist, regs, hc, tds, intr, astray>>

\* ehci_reset_pipe(): the queue is cut, then what is under way is stopped.
ehci_reset_pipe(t) ==
  /\ thread[t].pc = "reset"
  /\ qh' = [qh EXCEPT ![thread[t].pipe].qtd_next = TERM]
  /\ Goto(t, "stop")
  /\ UNCHANGED <<allocated, freelist, regs, hc, tds, cpu, intr, left, astray>>

StopToken(t) ==
  /\ thread[t].pc = "stop"
  /\ qh' = [qh EXCEPT ![thread[t].pipe].token = "idle"]
  /\ IF thread[t].rc = "halted" THEN Returns(t)
     ELSE Goto(t, "access") /\ UNCHANGED <<tds, cpu>>
  /\ UNCHANGED <<allocated, freelist, regs, hc, intr, left, astray>>

----------------------------------------------------------------------------
(* ehci_waittick()                                                          *)

\* What a thread goes on with: a request returns, configure_ehci() frees.
Over(t) ==
  IF t = Main THEN Goto(t, "free") /\ cpu' = t /\ UNCHANGED tds ELSE Returns(t)

\* Deviation: an answer that nobody has taken does not keep the doorbell from being rung.
AnswerGone_skipped == TRUE
AnswerGone == ~regs.IAA

\* USBSTS and USBCMD are read one after the other; without access the thread yields.
Access(t) ==
  /\ thread[t].pc = "access"
  /\ AnswerGone
  /\ Goto(t, "ring")
  /\ cpu' = t
  /\ UNCHANGED <<qh, allocated, freelist, regs, hc, tds, intr, left, astray>>

Ring(t) ==
  /\ thread[t].pc = "ring"
  /\ IF regs.IAAD
     THEN Goto(t, "access") /\ UNCHANGED regs
     ELSE Goto(t, "rung") /\ regs' = [regs EXCEPT !.IAAD = TRUE]
  /\ cpu' = Nobody
  /\ UNCHANGED <<qh, allocated, freelist, hc, tds, intr, left, astray>>

Rung(t) ==
  /\ thread[t].pc = "rung"
  /\ regs.IAA
  /\ regs' = [regs EXCEPT !.IAA = FALSE]
  /\ Over(t)
  /\ UNCHANGED <<qh, allocated, freelist, hc, intr, left, astray>>

\* warn_timeout(): whatever the doorbell was rung for goes its way.
GivesUp(t) ==
  /\ thread[t].pc \in {"access", "rung"}
  /\ left.doorbells > 0
  /\ left' = [left EXCEPT !.doorbells = @ - 1]
  /\ astray' = astray \cup (IF t = Main THEN {freelist[i] : i \in DOMAIN freelist}
                            ELSE {thread[t].pipe})
  /\ Over(t)
  /\ UNCHANGED <<qh, allocated, freelist, regs, hc, intr>>

----------------------------------------------------------------------------
(* ehci_free_pipes(), when all devices are set up                           *)

Ends(t) ==
  /\ thread[t].pc = "run"
  /\ Goto(t, "end")
  /\ UNCHANGED <<qh, allocated, freelist, regs, hc, tds, cpu, intr, left, astray>>

\* thread[Main].pipe is "pos"; usb_is_freelist() tells a free pipe by the field it
\* shares with the pointer to the controller.
Unlink ==
  /\ thread[Main].pc = "run"
  /\ \A t \in Threads : thread[t].pc = "end"
  /\ LET pos  == thread[Main].pipe
         next == qh[pos].next
     IN  \/ /\ next = async_qh
            /\ Goto(Main, "access")
            /\ UNCHANGED qh
         \/ /\ next # async_qh /\ \E i \in DOMAIN freelist : freelist[i] = next
            /\ qh' = [qh EXCEPT ![pos].next = qh[next].next]
            /\ UNCHANGED thread
         \/ /\ next # async_qh /\ \A i \in DOMAIN freelist : freelist[i] # next
            /\ thread' = [thread EXCEPT ![Main].pipe = next]
            /\ UNCHANGED qh
  /\ UNCHANGED <<allocated, freelist, regs, hc, tds, cpu, intr, left, astray>>

ehci_free_pipes ==
  /\ thread[Main].pc = "free"
  /\ allocated' = allocated \ {freelist[i] : i \in DOMAIN freelist}
  /\ freelist' = <<>>
  /\ Goto(Main, "end")
  /\ cpu' = Nobody
  /\ UNCHANGED <<qh, regs, hc, tds, intr, left, astray>>

----------------------------------------------------------------------------
(* The controller and the devices                                           *)

Resting == hc.busy = NoTransaction
Here == qh[hc.at]

\* It looks at one QH at a time.
HcAdvance ==
  /\ Resting /\ hc.at \in allocated \cup {async_qh}
  /\ hc' = [hc EXCEPT !.at = Here.next]
  /\ UNCHANGED <<qh, allocated, freelist, regs, thread, tds, cpu, intr, left, astray>>

HcFetch ==
  /\ Resting /\ Here.token = "idle" /\ Here.qtd_next # TERM
  /\ Live(Here.qtd_next) /\ tds[Here.qtd_next.of].status[Here.qtd_next.k] = "active"
  /\ qh' = [qh EXCEPT ![hc.at].current = Here.qtd_next,
                      ![hc.at].qtd_next = Behind(Here.qtd_next),
                      ![hc.at].token = "active"]
  /\ UNCHANGED <<allocated, freelist, regs, hc, thread, tds, cpu, intr, left, astray>>

HcStart ==
  /\ Resting /\ Here.token = "active"
  /\ hc' = [hc EXCEPT !.busy = [pipe |-> hc.at, td |-> Here.current]]
  /\ UNCHANGED <<qh, allocated, freelist, regs, thread, tds, cpu, intr, left, astray>>

\* A transaction succeeds, fails, or the device has no time, and the token that
\* the controller read when it began is written back.
HcEnd ==
  /\ ~Resting
  /\ hc' = [hc EXCEPT !.busy = NoTransaction]
  /\ LET p == hc.busy.pipe
         td == hc.busy.td
     IN  \E outcome \in {"done", "active"} \cup (IF left.errors > 0 THEN {"halted"} ELSE {}) :
           /\ tds' = IF Live(td) THEN [tds EXCEPT ![td.of].status[td.k] = outcome] ELSE tds
           /\ qh' = IF outcome = "done"
                     THEN [qh EXCEPT ![p].token = "idle", ![p].current = TERM]
                     ELSE [qh EXCEPT ![p].token = outcome]
           /\ astray' = IF qh[p].token # "active" /\ outcome # "done"
                        THEN astray \cup {p} ELSE astray
           /\ left' = IF outcome = "halted" THEN [left EXCEPT !.errors = @ - 1] ELSE left
  /\ UNCHANGED <<allocated, freelist, regs, thread, cpu, intr>>

\* It answers the doorbell at the head of the ring, with nothing else at hand.
HcAnswer ==
  /\ regs.IAAD
  /\ Resting /\ hc.at = async_qh
  /\ regs' = [IAAD |-> FALSE, IAA |-> TRUE]
  /\ UNCHANGED <<qh, allocated, freelist, hc, thread, tds, cpu, intr, left, astray>>

----------------------------------------------------------------------------
(* The reports of a keyboard                                                *)

NextSlot(i) == (i + 1) % ReportTds

\* A report arrives, or the transfer fails and the pipe halts.
HcReport ==
  /\ ~intr.halted /\ intr.status[intr.hc] = "active"
  /\ \/ /\ left.reports > 0
        /\ left' = [left EXCEPT !.reports = @ - 1]
        /\ intr' = [intr EXCEPT !.sent = @ + 1, !.data[intr.hc] = intr.sent + 1,
                                !.status[intr.hc] = "done", !.hc = NextSlot(intr.hc)]
     \/ /\ left.reports > 0 /\ left.errors > 0
        /\ left' = [left EXCEPT !.errors = @ - 1]
        /\ intr' = [intr EXCEPT !.status[intr.hc] = "halted", !.halted = TRUE]
  /\ UNCHANGED <<qh, allocated, freelist, regs, hc, thread, tds, cpu, astray>>

\* Whatever ended the TD, its buffer is taken for a report.
ehci_poll_intr ==
  /\ intr.status[intr.next_td] # "active"
  /\ intr' = [intr EXCEPT !.seen = Append(@, intr.data[intr.next_td]),
                          !.next_td = NextSlot(intr.next_td),
                          !.status[intr.next_td] = "active"]
  /\ UNCHANGED <<qh, allocated, freelist, regs, hc, thread, tds, cpu, left, astray>>

Next ==
  \/ \E t \in Threads :
       /\ Runs(t)
       /\ \/ ehci_realloc_pipe(t) \/ Link(t)
          \/ ehci_send_pipe(t) \/ AllDone(t) \/ TdFailed(t)
          \/ ehci_reset_pipe(t) \/ StopToken(t) \/ Ends(t)
  \/ \E t \in Everyone :
       /\ Runs(t)
       /\ Access(t) \/ Ring(t) \/ Rung(t) \/ GivesUp(t)
  \/ /\ Runs(Main)
     /\ Unlink \/ ehci_free_pipes
  \/ HcAdvance
  \/ HcFetch
  \/ HcStart
  \/ HcEnd
  \/ HcAnswer
  \/ HcReport
  \/ ehci_poll_intr

----------------------------------------------------------------------------

\* The QHs the controller comes to, from where it is.
WithinReach ==
  LET Reached[n \in 0 .. Cardinality(QHs) + 1] ==
        IF n = 0 THEN {hc.at} ELSE Reached[n - 1] \cup {qh[p].next : p \in Reached[n - 1]}
  IN  Reached[Cardinality(QHs) + 1]

Clean(p) ==
  /\ qh[p].token = "active" => Live(qh[p].current)
  /\ qh[p].qtd_next # TERM => Live(qh[p].qtd_next)

\* What the controller may look at is there (usb-ehci.c:145, "ensuring safe memory
\* release"): it leads to no QH that is freed, to no TD of a request that has
\* returned, and is not in the middle of one; a pipe that waits to be used again
\* is idle.  Pipes are excepted for which nobody waited to the end, or whose state
\* the controller wrote back after it was reset.  Reports are read once and in
\* order, but for what is in the buffer when a transfer has failed.
ScheduleSafe ==
  /\ \A p \in WithinReach : p \in allocated \cup {async_qh} \cup astray
  /\ \A p \in allocated \ astray : Clean(p)
  /\ Resting \/ Live(hc.busy.td) \/ hc.busy.pipe \in astray
  /\ \A i \in DOMAIN freelist : qh[freelist[i]].token = "idle" \/ freelist[i] \in astray
  /\ \A k \in DOMAIN intr.seen :
       intr.seen[k] = k \/ (k = Len(intr.seen) /\ intr.halted)

=============================================================================
