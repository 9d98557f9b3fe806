---------------------------- MODULE UhciSchedule -----------------------------
(***************************************************************************)
(* The schedule that the UHCI driver shares with its controller            *)
(* (src/hw/usb-uhci.c).  In every frame the controller walks from the      *)
(* frame's link through the queue heads (QHs) of the pipes: interrupt      *)
(* pipes by their period, then control, then bulk pipes.  The transfer     *)
(* descriptors (TDs) of a request are a ring on the stack of its caller,   *)
(* filled while the controller works it off.  Before memory goes the       *)
(* driver waits for the next frame.                                        *)
(*                                                                         *)
(* Threads give the CPU away only where they wait, and a running           *)
(* controller always comes to the next frame.                              *)
(***************************************************************************)
EXTENDS Integers, SequencesExt

CONSTANTS
  Threads,      \* each sets up a device
  Main,         \* the thread of configure_uhci()
  QHs,          \* the memory for pipes: numbers
  STACKTDS,
  ReportTds,    \* of an interrupt pipe
  Worlds        \* entries of the frame list, a power of two, and bounds: pipes taken
                \* and their types, requests and their packets, requests given up,
                \* failed transactions, lost answers, reports

VARIABLES
  qh, links, control_qh, allocated, freelist,
  hc,           \* the controller: frame, the QH it looks at, its transaction
  thread,
  tds,          \* what is on each thread's stack
  device,       \* what is at the other end of each pipe
  intr,         \* the reports of an interrupt pipe
  left          \* what is left of the bounds

schedule == <<qh, links, control_qh, allocated>>
vars == <<schedule, freelist, hc, thread, tds, device, intr, left>>

intr_qh == 0    \* the first queue head, at which every frame arrives
term_qh == -1   \* the last one, never freed and without work
Everyone == Threads \cup {Main}
TERM == [of |-> Main, id |-> 0, k |-> 0]
NoTransaction == [pipe |-> intr_qh, td |-> TERM]
Slots == 0 .. ReportTds - 1
Idle == [status |-> "idle"]

Init ==
  /\ \E w \in Worlds : left = w
  /\ qh = [p \in QHs \cup {intr_qh} |->
             [next |-> term_qh, element |-> TERM, eptype |-> "none", exp |-> 0,
              toggle |-> 0]]
  /\ links = [f \in 0 .. left.frames - 1 |-> intr_qh]
  /\ control_qh = intr_qh
  /\ allocated = {} /\ freelist = <<>>
  /\ hc = [frame |-> 0, at |-> intr_qh, busy |-> NoTransaction]
  /\ thread = [t \in Everyone |-> [pc |-> "run", pipes |-> {}, pipe |-> intr_qh,
                                   pos |-> 0, n |-> 0, toggle |-> 0]]
  /\ tds = [t \in Threads |-> [id |-> 0, live |-> FALSE, slot |-> <<>>]]
  /\ device = [p \in QHs |-> [toggle |-> 0, got |-> 0, sure |-> TRUE, even |-> TRUE]]
  /\ intr = [status |-> [i \in Slots |-> "active"], data |-> [i \in Slots |-> 0],
             hc |-> 0, next_td |-> 0, failed |-> FALSE, sent |-> 0, seen |-> <<>>]

Goto(t, pc) == thread' = [thread EXCEPT ![t].pc = pc]

----------------------------------------------------------------------------
(* Pipes                                                                    *)

\* usb_get_freelist(): the place of the first pipe of a type in a list, or 0.
Reusable(list, type) ==
  LET fits == {i \in DOMAIN list : qh[list[i]].eptype = type}
  IN  IF fits = {} \/ type = "intr" THEN 0
      ELSE CHOOSE i \in fits : \A j \in fits : i <= j

\* A pipe of the free list is still in the schedule.  It keeps the data toggle of the
\* endpoint it had; the new one begins with 0.
UseAgain(t, list, type, pipes) ==
  LET i == Reusable(list, type)
  IN  /\ i # 0
      /\ freelist' = RemoveAt(list, i)
      /\ thread' = [thread EXCEPT ![t].pipes = pipes \cup {list[i]}]
      /\ device' = [device EXCEPT ![list[i]].toggle = 0]
      /\ UNCHANGED <<qh, allocated>>

\* The first entry of the frame list that leads to an interrupt pipe.
StartPos(exp) == 2 ^ (exp - 1)

\* Behind which QH a new pipe comes; none for a pipe that frames lead to.
Before(type, exp) == IF type = "intr" THEN intr_qh ELSE control_qh

NewPipe(t, list, type, exp, pipes) ==
  /\ Reusable(list, type) = 0
  /\ freelist' = list
  /\ \/ /\ QHs = allocated
        /\ thread' = [thread EXCEPT ![t].pipes = pipes]
        /\ UNCHANGED <<qh, allocated>>
     \/ /\ QHs # allocated
        /\ LET p == Min(QHs \ allocated)
           IN  /\ allocated' = allocated \cup {p}
               /\ qh' = [qh EXCEPT ![p].eptype = type, ![p].exp = exp,
                           ![p].next = IF exp = 0 THEN qh[Before(type, exp)].next
                                       ELSE links[StartPos(exp)]]
               /\ thread' = [thread EXCEPT ![t].pc = "link", ![t].pipe = p,
                                           ![t].pipes = pipes]
  /\ UNCHANGED device

\* No thread is between the two writes that link a pipe.
NoLinking == \A t \in Threads : thread[t].pc # "link"

\* The pipe it is called with goes to the free list, and without a descriptor of
\* the new endpoint that is all.  Drivers keep their interrupt pipes.
uhci_realloc_pipe(t) ==
  /\ thread[t].pc = "run" /\ NoLinking
  /\ \E upipe \in thread[t].pipes \cup {intr_qh}, type \in left.types \cup {"none"} :
       LET list  == IF upipe = intr_qh THEN freelist ELSE <<upipe>> \o freelist
           pipes == thread[t].pipes \ {upipe}
       IN  /\ upipe # intr_qh => qh[upipe].eptype # "intr"
           /\ \/ /\ type = "none" /\ upipe # intr_qh
                 /\ freelist' = list
                 /\ thread' = [thread EXCEPT ![t].pipes = pipes]
                 /\ UNCHANGED <<qh, allocated, device, left>>
              \/ /\ type # "none" /\ left.pipes > 0
                 /\ left' = [left EXCEPT !.pipes = @ - 1]
                 /\ \/ UseAgain(t, list, type, pipes)
                    \/ \E exp \in IF type = "intr" THEN left.exps ELSE {0} :
                         NewPipe(t, list, type, exp, pipes)
  /\ UNCHANGED <<links, control_qh, hc, tds, intr>>

Link(t) ==
  /\ thread[t].pc = "link"
  /\ LET p == thread[t].pipe
         e == qh[p].exp
         after == Before(qh[p].eptype, e)
     IN  /\ IF e = 0
            THEN /\ qh' = [qh EXCEPT ![after].next = p]
                 /\ control_qh' = IF \/ qh[p].eptype = "control"
                                     \/ qh[p].eptype = "intr" /\ control_qh = intr_qh
                                  THEN p ELSE control_qh
                 /\ UNCHANGED links
            ELSE /\ links' = [f \in DOMAIN links |->
                                IF f >= StartPos(e) /\ (f - StartPos(e)) % 2 ^ e = 0
                                THEN p ELSE links[f]]
                 /\ UNCHANGED <<qh, control_qh>>
         /\ thread' = [thread EXCEPT ![t].pc = "run", ![t].pipe = intr_qh,
                                     ![t].pipes = @ \cup {p}]
  /\ UNCHANGED <<allocated, freelist, hc, tds, device, intr, left>>

----------------------------------------------------------------------------
(* Requests                                                                 *)

Live(td) == td # TERM /\ tds[td.of].live /\ tds[td.of].id = td.id
Slot(td) == tds[td.of].slot[td.k]

\* The ring is given to the controller first and then filled.
uhci_send_pipe(t) ==
  /\ thread[t].pc = "run"
  /\ left.requests > 0
  /\ left' = [left EXCEPT !.requests = @ - 1]
  /\ \E p \in thread[t].pipes, n \in left.packets :
       /\ qh[p].eptype # "intr" /\ (qh[p].eptype = "control" => n > 1)
       /\ tds' = [tds EXCEPT ![t] = [id |-> @.id + 1, live |-> TRUE,
                                     slot |-> [k \in 0 .. STACKTDS - 1 |-> Idle]]]
       /\ qh' = [qh EXCEPT ![p].element = [of |-> t, id |-> tds[t].id + 1, k |-> 0]]
       /\ thread' = [thread EXCEPT ![t].pc = "fill", ![t].pipe = p, ![t].pos = 0,
                                   ![t].n = n, ![t].toggle = qh[p].toggle]
       /\ device' = [device EXCEPT ![p].got = 0,
                      ![p].even = \/ qh[p].eptype = "control"
                                  \/ qh[p].toggle = device[p].toggle]
  /\ UNCHANGED <<links, control_qh, allocated, freelist, hc, intr>>

NextTd(t) == thread[t].pos % STACKTDS
PacketKind(t) ==
  IF qh[thread[t].pipe].eptype # "control" THEN "data"
  ELSE IF thread[t].pos = 0 THEN "setup"
  ELSE IF thread[t].pos = thread[t].n - 1 THEN "status" ELSE "data"

\* Deviation: a TD is used again although the controller has not done it.
TdFree_always(status) == TRUE
\* wait_td()
TdFree(status) == status \in {"idle", "done"}

\* A TD for the next packet; after the last one the toggle is kept.
Fill(t) ==
  /\ thread[t].pc = "fill" /\ TdFree(tds[t].slot[NextTd(t)].status)
  /\ LET p == thread[t].pipe
         last == thread[t].pos = thread[t].n - 1
         kind == PacketKind(t)
         toggle == CASE kind = "setup" -> 1 [] kind = "data" -> 1 - thread[t].toggle
                     [] kind = "status" -> thread[t].toggle
     IN  /\ tds' = [tds EXCEPT ![t].slot[NextTd(t)] =
                      [status |-> "active", nr |-> thread[t].pos, kind |-> kind,
                       toggle |-> IF kind = "data" THEN thread[t].toggle ELSE 1,
                       link |-> IF last THEN TERM
                                ELSE [of |-> t, id |-> tds[t].id,
                                      k |-> (thread[t].pos + 1) % STACKTDS]]]
         /\ thread' = [thread EXCEPT ![t].pos = @ + 1, ![t].toggle = toggle,
                                     ![t].pc = IF last THEN "wait" ELSE "fill"]
         /\ qh' = IF last THEN [qh EXCEPT ![p].toggle = toggle] ELSE qh
  /\ UNCHANGED <<links, control_qh, allocated, freelist, hc, device, intr, left>>

\* The caller's stack is used for something else.
Returns(t) ==
  /\ thread' = [thread EXCEPT ![t].pc = "run", ![t].pipe = intr_qh,
                              ![t].pos = 0, ![t].n = 0, ![t].toggle = 0]
  /\ tds' = [tds EXCEPT ![t].live = FALSE, ![t].slot = <<>>]

\* wait_pipe() finds the queue empty.
PipeDone(t) ==
  /\ thread[t].pc = "wait"
  /\ qh[thread[t].pipe].element = TERM
  /\ Returns(t)
  /\ UNCHANGED <<schedule, freelist, hc, device, intr, left>>

\* The TD a thread waits for.
Awaited(t) ==
  IF thread[t].pc = "fill" THEN tds[t].slot[NextTd(t)]
  ELSE IF Live(qh[thread[t].pipe].element) THEN Slot(qh[thread[t].pipe].element) ELSE Idle

\* wait_td() or wait_pipe() gives up: the queue is cut.
GivesUp(t) ==
  /\ LET p == thread[t].pipe
     IN  /\ \/ thread[t].pc = "fill" /\ ~TdFree(Awaited(t).status)
            \/ thread[t].pc = "wait" /\ qh[p].element # TERM
         /\ \/ Awaited(t).status = "error" /\ UNCHANGED left
            \/ /\ Awaited(t).status # "error" /\ left.timeouts > 0
               /\ left' = [left EXCEPT !.timeouts = @ - 1]
         /\ qh' = [qh EXCEPT ![p].element = TERM]
  /\ Goto(t, "waittick")
  /\ UNCHANGED <<links, control_qh, allocated, freelist, hc, tds, device, intr>>

\* A frame has begun since uhci_waittick() was called.
Ticked(t) ==
  /\ thread[t].pc = "ticked"
  /\ IF t = Main THEN Goto(t, "free") /\ UNCHANGED tds ELSE Returns(t)
  /\ UNCHANGED <<schedule, freelist, hc, device, intr, left>>

----------------------------------------------------------------------------
(* uhci_free_pipes(), when all devices are set up                           *)

Ends(t) ==
  /\ thread[t].pc = "run"
  /\ Goto(t, "end")
  /\ UNCHANGED <<schedule, freelist, hc, tds, device, intr, left>>

\* thread[Main].pipe is "pos"; it begins where frame 0 does.
Unlink ==
  /\ thread[Main].pc = "run"
  /\ \A t \in Threads : thread[t].pc = "end"
  /\ LET pos  == thread[Main].pipe
         next == qh[pos].next
     IN  \/ /\ next = term_qh
            /\ Goto(Main, "waittick")
            /\ UNCHANGED qh
         \/ /\ next # term_qh /\ \E i \in DOMAIN freelist : freelist[i] = next
            /\ qh' = [qh EXCEPT ![pos].next = qh[next].next]
            /\ UNCHANGED thread
         \/ /\ next # term_qh /\ \A i \in DOMAIN freelist : freelist[i] # next
            /\ thread' = [thread EXCEPT ![Main].pipe = next]
            /\ UNCHANGED qh
  /\ UNCHANGED <<links, control_qh, allocated, freelist, hc, tds, device, intr, left>>

uhci_free_pipes ==
  /\ thread[Main].pc = "free"
  /\ allocated' = allocated \ {freelist[i] : i \in DOMAIN freelist}
  /\ freelist' = <<>>
  /\ Goto(Main, "end")
  /\ UNCHANGED <<qh, links, control_qh, hc, tds, device, intr, left>>

----------------------------------------------------------------------------
(* The controller and the devices                                           *)

Resting == hc.busy = NoTransaction

\* The next frame begins, also when this one's work is not done.
HcFrame ==
  /\ Resting
  /\ LET f == (hc.frame + 1) % left.frames
     IN  hc' = [hc EXCEPT !.frame = f, !.at = links[f]]
  /\ thread' = [t \in Everyone |-> IF thread[t].pc = "waittick"
                                   THEN [thread[t] EXCEPT !.pc = "ticked"] ELSE thread[t]]
  /\ UNCHANGED <<schedule, freelist, tds, device, intr, left>>

HcAdvance ==
  /\ Resting /\ hc.at \in allocated \cup {intr_qh}
  /\ hc' = [hc EXCEPT !.at = qh[hc.at].next]
  /\ UNCHANGED <<schedule, freelist, thread, tds, device, intr, left>>

\* It reads a TD that is active.
HcStart ==
  /\ Resting /\ hc.at \in allocated
  /\ LET td == qh[hc.at].element
     IN  /\ td # TERM /\ Live(td) /\ Slot(td).status = "active"
         /\ hc' = [hc EXCEPT !.busy = [pipe |-> hc.at, td |-> td, read |-> Slot(td)]]
  /\ UNCHANGED <<schedule, freelist, thread, tds, device, intr, left>>

\* The device takes a packet unless its toggle says that it had it before; "got" is
\* how many of the request have come in order, or -1.
Took(d, packet) ==
  CASE packet.kind = "setup" -> [d EXCEPT !.toggle = 1, !.got = 1]
    [] packet.kind = "status" ->
         [d EXCEPT !.got = IF @ \in {packet.nr, packet.nr + 1} THEN packet.nr + 1 ELSE -1]
    [] packet.kind = "data" /\ packet.toggle = d.toggle ->
         [d EXCEPT !.toggle = 1 - @, !.got = IF @ = packet.nr THEN @ + 1 ELSE -1]
    [] OTHER -> d

SetStatus(td, status) ==
  IF Live(td) THEN [tds EXCEPT ![td.of].slot[td.k].status = status] ELSE tds

\* The device takes the packet and the TD is done; its answer is lost; it takes
\* nothing now; or the controller has tried often enough.
HcTransact ==
  /\ ~Resting /\ hc.busy.read.status = "active"
  /\ LET p == hc.busy.pipe
         td == hc.busy.td
         taken == [device EXCEPT ![p] = Took(@, hc.busy.read)]
     IN  \/ /\ device' = taken
            /\ tds' = SetStatus(td, "done")
            /\ hc' = [hc EXCEPT !.busy.read.status = "done"]
            /\ UNCHANGED left
         \/ /\ device' \in {device} \cup (IF left.lost > 0 THEN {taken} ELSE {})
            /\ left' = IF device' = device THEN left ELSE [left EXCEPT !.lost = @ - 1]
            /\ hc' = [hc EXCEPT !.busy = NoTransaction]
            /\ UNCHANGED tds
         \/ /\ left.errors > 0
            /\ left' = [left EXCEPT !.errors = @ - 1]
            /\ tds' = SetStatus(td, "error")
            /\ hc' = [hc EXCEPT !.busy = NoTransaction]
            /\ UNCHANGED device
  /\ UNCHANGED <<schedule, freelist, thread, intr>>

\* The queue goes on behind a TD that is done, even if it was cut meanwhile.
HcRetire ==
  /\ ~Resting /\ hc.busy.read.status = "done"
  /\ LET p == hc.busy.pipe
     IN  /\ qh' = [qh EXCEPT ![p].element = hc.busy.read.link]
         /\ device' = [device EXCEPT ![p].sure = @ /\ qh[p].element = hc.busy.td]
  /\ hc' = [hc EXCEPT !.busy = NoTransaction]
  /\ UNCHANGED <<links, control_qh, allocated, freelist, thread, tds, intr, left>>

----------------------------------------------------------------------------
(* The reports of a keyboard                                                *)

NextSlot(i) == (i + 1) % ReportTds

\* A report arrives, or the controller gives the transfer up; the queue stays at a TD
\* that has failed.
HcReport ==
  /\ left.reports > 0 /\ intr.status[intr.hc] = "active"
  /\ \/ /\ left' = [left EXCEPT !.reports = @ - 1]
        /\ intr' = [intr EXCEPT !.sent = @ + 1, !.data[intr.hc] = intr.sent + 1,
                                !.status[intr.hc] = "done", !.hc = NextSlot(intr.hc)]
     \/ /\ left.errors > 0
        /\ left' = [left EXCEPT !.errors = @ - 1]
        /\ intr' = [intr EXCEPT !.status[intr.hc] = "error", !.failed = TRUE]
  /\ UNCHANGED <<schedule, freelist, hc, thread, tds, device>>

\* Whatever ended the TD, its buffer is taken for a report.
uhci_poll_intr ==
  /\ intr.status[intr.next_td] # "active"
  /\ intr' = [intr EXCEPT !.seen = Append(@, intr.data[intr.next_td]),
                          !.next_td = NextSlot(intr.next_td),
                          !.status[intr.next_td] = "active"]
  /\ UNCHANGED <<schedule, freelist, hc, thread, tds, device, left>>

Next ==
  \/ \E t \in Threads :
       \/ uhci_realloc_pipe(t) \/ Link(t)
       \/ uhci_send_pipe(t) \/ Fill(t) \/ PipeDone(t) \/ GivesUp(t) \/ Ends(t)
  \/ \E t \in Everyone : Ticked(t)
  \/ Unlink
  \/ uhci_free_pipes
  \/ HcFrame
  \/ HcAdvance
  \/ HcStart
  \/ HcTransact
  \/ HcRetire
  \/ HcReport
  \/ uhci_poll_intr

----------------------------------------------------------------------------

\* The QHs on the way from one, until the last one or what the way does not leave.
Way(from) ==
  LET Steps[n \in 0 .. Cardinality(QHs) + 1] ==
        IF n = 0 THEN <<from>>
        ELSE LET way == Steps[n - 1]
             IN  IF Last(way) = term_qh THEN way ELSE Append(way, qh[Last(way)].next)
      way == Steps[Cardinality(QHs) + 1]
  IN  IF Last(way) = term_qh THEN Front(way) ELSE way

\* The pipes that somebody uses.
InUse == UNION {thread[t].pipes : t \in Threads}

\* The controller looks only at what is there (usb-uhci.c:116, "ensuring safe memory
\* release"): it comes to no QH that is freed, and to no TD of a request that has
\* returned but on a pipe whose queue the controller moved on after it was cut.
MemoryKept ==
  /\ hc.at = term_qh \/ ToSet(Way(hc.at)) \subseteq allocated \cup {intr_qh}
  /\ \A p \in allocated :
       device[p].sure /\ qh[p].element # TERM => Live(qh[p].element)
  /\ Resting \/ Live(hc.busy.td) \/ ~device[hc.busy.pipe].sure

\* Of the frames of its period an interrupt pipe is in exactly one; those of all
\* frames come before control pipes, and these before bulk pipes.
FramesOrdered ==
  /\ \A f \in DOMAIN links :
       LET way == Way(links[f])
           Rank(p) == CASE qh[p].eptype = "control" -> 1 [] qh[p].eptype = "bulk" -> 2
                        [] OTHER -> 0
       IN  /\ Cardinality(ToSet(way)) = Len(way)
           /\ \A i \in 2 .. Len(way) : Rank(way[i - 1]) <= Rank(way[i])
  /\ \A p \in InUse :
       \A f \in DOMAIN links :
         LET period == 2 ^ qh[p].exp
         IN  Cardinality({g \in 0 .. period - 1 :
                            p \in ToSet(Way(links[(f + g) % left.frames]))}) = 1

\* When a request has succeeded, the device has taken all of its packets, each once,
\* and both ends agree about the next toggle, if they did when it began: after a
\* failure, or on a bulk pipe that is used again, they need not.
AllTaken ==
  \A t \in Threads :
    LET p == thread[t].pipe
    IN  /\ thread[t].pc = "wait" /\ qh[p].element = TERM
        /\ device[p].sure /\ device[p].even
        => /\ device[p].got = thread[t].n
           /\ qh[p].eptype = "bulk" => device[p].toggle = qh[p].toggle

\* Until a transfer fails, reports are read once and in order.
ReportsInOrder == intr.failed \/ \A k \in DOMAIN intr.seen : intr.seen[k] = k

ScheduleSafe == MemoryKept /\ FramesOrdered /\ AllTaken /\ ReportsInOrder

=============================================================================
