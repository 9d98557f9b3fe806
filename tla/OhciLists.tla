------------------------------ MODULE OhciLists ------------------------------
(***************************************************************************)
(* The lists that the OHCI driver shares with its controller               *)
(* (src/hw/usb-ohci.c): endpoint descriptors (EDs), one per pipe, in a     *)
(* list for control and one for bulk pipes, at whose places the controller *)
(* goes on from frame to frame, and a table of lists for interrupt pipes.  *)
(* The transfer descriptors (TDs) of a request are on the stack of its     *)
(* caller; an ED is skipped while it has no request.  Before memory goes   *)
(* the driver stops the lists and waits for the next frame.                *)
(*                                                                         *)
(* Threads give the CPU away only where they wait, and a running           *)
(* controller always comes to the next frame.                              *)
(***************************************************************************)
EXTENDS Integers, SequencesExt

CONSTANTS
  Threads,      \* each sets up a device
  Main,         \* the thread of configure_ohci()
  EDs,          \* the memory for pipes: numbers
  ReportTds,    \* of an interrupt pipe
  Worlds        \* entries of int_table, a power of two, and bounds: pipes taken
                \* and their types, requests and their TDs, requests given up,
                \* failed transactions, lost answers, reports

VARIABLES
  ed, int_table, allocated, freelist,
  regs,         \* which lists are enabled, their heads and current EDs
  hc,           \* the controller: frame, the lists it serves, its transaction
  thread, tds, device,
  intr,         \* the reports of an interrupt pipe
  left          \* what is left of the bounds

lists == <<ed, int_table, allocated>>
vars == <<lists, freelist, regs, hc, thread, tds, device, intr, left>>

NoEd == -1
intr_ed == 0
Async == {"control", "bulk"}
Everyone == Threads \cup {Main}
NoTd == [of |-> Main, id |-> 0, k |-> 0]
NoTransaction == [pipe |-> intr_ed, td |-> NoTd]

Init ==
  /\ \E w \in Worlds : left = w
  /\ ed = [p \in EDs \cup {intr_ed} |->
             [next |-> NoEd, skip |-> TRUE, head |-> NoTd, tail |-> NoTd, carry |-> 0,
              halted |-> FALSE, eptype |-> "none", exp |-> 0]]
  /\ int_table = [f \in 0 .. left.frames - 1 |-> intr_ed]
  /\ allocated = {} /\ freelist = <<>>
  /\ regs = [enabled |-> TRUE, head |-> [l \in Async |-> NoEd],
             current |-> [l \in Async |-> NoEd]]
  /\ hc = [frame |-> 0, at |-> intr_ed, serves |-> TRUE, busy |-> NoTransaction]
  /\ thread = [t \in Everyone |-> [pc |-> "run", pipes |-> {}, pipe |-> intr_ed]]
  /\ tds = [t \in Threads |-> [id |-> 0, live |-> FALSE, n |-> 0]]
  /\ device = [p \in EDs |-> [toggle |-> 0, got |-> 0, even |-> TRUE]]
  /\ intr = [head |-> 0, tail |-> ReportTds - 1, data |-> [i \in 0 .. ReportTds - 1 |-> 0],
             halted |-> FALSE, sent |-> 0, seen |-> <<>>]

Goto(t, pc) == thread' = [thread EXCEPT ![t].pc = pc]

----------------------------------------------------------------------------
(* Pipes                                                                    *)

\* usb_get_freelist(): the place of the first pipe of a type in a list, or 0.
Reusable(list, type) ==
  LET fits == {i \in DOMAIN list : ed[list[i]].eptype = type}
  IN  IF fits = {} \/ type = "intr" THEN 0
      ELSE CHOOSE i \in fits : \A j \in fits : i <= j

\* A pipe of the free list is still in its list, with the toggle carry it had; the
\* new endpoint begins with 0.
UseAgain(t, list, type, pipes) ==
  LET i == Reusable(list, type)
  IN  /\ i # 0
      /\ freelist' = RemoveAt(list, i)
      /\ thread' = [thread EXCEPT ![t].pipes = pipes \cup {list[i]}]
      /\ device' = [device EXCEPT ![list[i]].toggle = 0]
      /\ ed' = [ed EXCEPT ![list[i]].skip = TRUE]
      /\ UNCHANGED allocated

\* The first entry of int_table that leads to an interrupt pipe.
StartPos(exp) == 2 ^ (exp - 1)

\* What a new pipe is put before.
Behind(type, exp) ==
  IF type # "intr" THEN regs.head[type]
  ELSE IF exp = 0 THEN ed[intr_ed].next ELSE int_table[StartPos(exp)]

NewPipe(t, list, type, exp, pipes) ==
  /\ Reusable(list, type) = 0
  /\ freelist' = list
  /\ \/ /\ EDs = allocated
        /\ thread' = [thread EXCEPT ![t].pipes = pipes]
        /\ UNCHANGED <<ed, allocated>>
     \/ /\ EDs # allocated
        /\ LET p == Min(EDs \ allocated)
           IN  /\ allocated' = allocated \cup {p}
               /\ ed' = [ed EXCEPT ![p].eptype = type, ![p].exp = exp,
                                   ![p].next = Behind(type, exp)]
               /\ thread' = [thread EXCEPT ![t].pc = "link", ![t].pipe = p,
                                           ![t].pipes = pipes]
  /\ UNCHANGED device

NoLinking == \A t \in Threads : thread[t].pc # "link"

\* The pipe it is called with goes to the free list, and without a descriptor of
\* the new endpoint that is all.  Drivers keep their interrupt pipes.
ohci_realloc_pipe(t) ==
  /\ thread[t].pc = "run" /\ NoLinking
  /\ \E upipe \in thread[t].pipes \cup {intr_ed}, type \in left.types \cup {"none"} :
       LET list  == IF upipe = intr_ed THEN freelist ELSE <<upipe>> \o freelist
           pipes == thread[t].pipes \ {upipe}
       IN  /\ upipe # intr_ed => ed[upipe].eptype # "intr"
           /\ \/ /\ type = "none" /\ upipe # intr_ed
                 /\ freelist' = list
                 /\ thread' = [thread EXCEPT ![t].pipes = pipes]
                 /\ UNCHANGED <<ed, allocated, device, left>>
              \/ /\ type # "none" /\ left.pipes > 0
                 /\ left' = [left EXCEPT !.pipes = @ - 1]
                 /\ \/ UseAgain(t, list, type, pipes)
                    \/ \E exp \in IF type = "intr" THEN left.exps ELSE {0} :
                         NewPipe(t, list, type, exp, pipes)
  /\ UNCHANGED <<int_table, regs, hc, tds, intr>>

Link(t) ==
  /\ thread[t].pc = "link"
  /\ LET p == thread[t].pipe
         e == ed[p].exp
     IN  /\ \/ /\ ed[p].eptype \in Async
               /\ regs' = [regs EXCEPT !.head[ed[p].eptype] = p]
               /\ UNCHANGED <<ed, int_table>>
            \/ /\ ed[p].eptype = "intr" /\ e = 0
               /\ ed' = [ed EXCEPT ![intr_ed].next = p]
               /\ UNCHANGED <<int_table, regs>>
            \/ /\ e > 0
               /\ int_table' = [f \in DOMAIN int_table |->
                                  IF f >= StartPos(e) /\ (f - StartPos(e)) % 2 ^ e = 0
                                  THEN p ELSE int_table[f]]
               /\ UNCHANGED <<ed, regs>>
         /\ thread' = [thread EXCEPT ![t].pc = "run", ![t].pipe = intr_ed,
                                     ![t].pipes = @ \cup {p}]
  /\ UNCHANGED <<allocated, freelist, hc, tds, device, intr, left>>

----------------------------------------------------------------------------
(* Requests                                                                 *)

Live(td) == td # NoTd /\ tds[td.of].live /\ tds[td.of].id = td.id

\* The TDs are complete before the ED is no longer skipped.
ohci_send_pipe(t) ==
  /\ thread[t].pc = "run"
  /\ left.requests > 0
  /\ left' = [left EXCEPT !.requests = @ - 1]
  /\ \E p \in thread[t].pipes, n \in left.packets :
       LET td == [of |-> t, id |-> tds[t].id + 1, k |-> 1]
       IN  /\ ed[p].eptype \in Async /\ (ed[p].eptype = "control" => n \in {2, 3})
           /\ tds' = [tds EXCEPT ![t] = [id |-> td.id, live |-> TRUE, n |-> n]]
           /\ ed' = [ed EXCEPT ![p].head = td, ![p].tail = [td EXCEPT !.k = n + 1],
                               ![p].halted = FALSE, ![p].skip = FALSE]
           /\ device' = [device EXCEPT ![p].got = 0,
                           ![p].even = \/ ed[p].eptype = "control"
                                       \/ ed[p].carry = device[p].toggle]
           /\ thread' = [thread EXCEPT ![t].pc = "wait", ![t].pipe = p]
  /\ UNCHANGED <<int_table, allocated, freelist, regs, hc, intr>>

\* The caller's stack is used for something else.
Returns(t) ==
  /\ thread' = [thread EXCEPT ![t].pc = "run", ![t].pipe = intr_ed]
  /\ tds' = [tds EXCEPT ![t].live = FALSE, ![t].n = 0]

\* Nothing is left in the queue, even if it has halted.
Emptied(p) == ed[p].head = ed[p].tail

\* wait_ed()
EdDone(t) ==
  /\ thread[t].pc = "wait" /\ Emptied(thread[t].pipe)
  /\ ed' = [ed EXCEPT ![thread[t].pipe].skip = TRUE]
  /\ Returns(t)
  /\ UNCHANGED <<int_table, allocated, freelist, regs, hc, device, intr, left>>

\* Deviation: a request that is given up returns in the same frame.
AfterGivenUp_returns == "ticked"
AfterGivenUp == "waittick"

\* A queue that has halted never empties; others may take too long.
GivesUp(t) ==
  /\ thread[t].pc = "wait" /\ ~Emptied(thread[t].pipe)
  /\ \/ ed[thread[t].pipe].halted /\ UNCHANGED left
     \/ left.timeouts > 0 /\ left' = [left EXCEPT !.timeouts = @ - 1]
  /\ ed' = [ed EXCEPT ![thread[t].pipe].skip = TRUE]
  /\ Goto(t, AfterGivenUp)
  /\ UNCHANGED <<int_table, allocated, freelist, regs, hc, tds, device, intr>>

\* A frame has begun since ohci_waittick() was called.
Ticked(t) ==
  /\ thread[t].pc = "ticked"
  /\ IF t = Main THEN Goto(t, "unlink") /\ UNCHANGED tds ELSE Returns(t)
  /\ UNCHANGED <<lists, freelist, regs, hc, device, intr, left>>

----------------------------------------------------------------------------
(* ohci_free_pipes(), when all devices are set up                           *)

Ends(t) ==
  /\ thread[t].pc = "run"
  /\ Goto(t, "end")
  /\ UNCHANGED <<lists, freelist, regs, hc, tds, device, intr, left>>

StopLists ==
  /\ thread[Main].pc = "run"
  /\ \A t \in Threads : thread[t].pc = "end"
  /\ regs' = [regs EXCEPT !.enabled = FALSE]
  /\ Goto(Main, "waittick")
  /\ UNCHANGED <<lists, freelist, hc, tds, device, intr, left>>

\* Control pipes of the free list are unlinked and freed; bulk pipes stay for ever.
FreeControl ==
  /\ thread[Main].pc = "unlink"
  /\ LET Unused(p) == p \in ToSet(freelist)
         After[n \in 0 .. Cardinality(EDs), p \in EDs \cup {NoEd}] ==
           IF n = 0 \/ p = NoEd \/ ~Unused(p) THEN p ELSE After[n - 1, ed[p].next]
         Skipped(p) == After[Cardinality(EDs), p]
         control == {p \in allocated : ed[p].eptype = "control"}
     IN  /\ regs' = [regs EXCEPT !.head["control"] = Skipped(@)]
         /\ ed' = [p \in DOMAIN ed |->
                     IF p \in control /\ ~Unused(p)
                     THEN [ed[p] EXCEPT !.next = Skipped(@)] ELSE ed[p]]
         /\ allocated' = allocated \ {p \in control : Unused(p)}
  /\ Goto(Main, "restart")
  /\ UNCHANGED <<int_table, freelist, hc, tds, device, intr, left>>

RestartLists ==
  /\ thread[Main].pc = "restart"
  /\ regs' = [regs EXCEPT !.enabled = TRUE, !.current = [l \in Async |-> NoEd]]
  /\ freelist' = <<>>
  /\ Goto(Main, "end")
  /\ UNCHANGED <<lists, hc, tds, device, intr, left>>

----------------------------------------------------------------------------
(* The controller and the devices                                           *)

Resting == hc.busy = NoTransaction

\* The next frame begins; a list that was enabled or stopped is so from here.
HcFrame ==
  /\ Resting
  /\ LET f == (hc.frame + 1) % left.frames
     IN  hc' = [hc EXCEPT !.frame = f, !.at = int_table[f], !.serves = regs.enabled]
  /\ thread' = [t \in Everyone |-> IF thread[t].pc = "waittick"
                                   THEN [thread[t] EXCEPT !.pc = "ticked"] ELSE thread[t]]
  /\ UNCHANGED <<lists, freelist, regs, tds, device, intr, left>>

HcPeriodic ==
  /\ Resting /\ hc.at \in allocated \cup {intr_ed}
  /\ hc' = [hc EXCEPT !.at = ed[hc.at].next]
  /\ UNCHANGED <<lists, freelist, regs, thread, tds, device, intr, left>>

\* It goes on in a list, and begins again at its head.
HcCurrent(l) ==
  /\ Resting /\ hc.serves
  /\ LET p == regs.current[l]
     IN  /\ p \in allocated \cup {NoEd}
         /\ regs' = [regs EXCEPT !.current[l] = IF p = NoEd THEN regs.head[l]
                                                ELSE ed[p].next]
  /\ UNCHANGED <<lists, freelist, hc, thread, tds, device, intr, left>>

HcStart(l) ==
  /\ Resting /\ hc.serves /\ regs.current[l] \in allocated
  /\ LET p == regs.current[l]
     IN  /\ ~ed[p].skip /\ ~ed[p].halted /\ ~Emptied(p) /\ Live(ed[p].head)
         /\ hc' = [hc EXCEPT !.busy = [pipe |-> p, td |-> ed[p].head]]
  /\ UNCHANGED <<lists, freelist, regs, thread, tds, device, intr, left>>

PacketKind(p, td) ==
  IF ed[p].eptype # "control" THEN "data"
  ELSE IF td.k = 1 THEN "setup" ELSE IF td.k = ed[p].tail.k - 1 THEN "status" ELSE "data"

\* The device takes a packet unless its toggle says that it had it before; "got" is
\* how many of the request have come in order, or -1.
Took(d, p, td) ==
  LET kind == PacketKind(p, td)
      toggle == IF kind = "data" /\ ed[p].eptype = "bulk" THEN ed[p].carry ELSE 1
  IN  CASE kind = "setup" -> [d EXCEPT !.toggle = 1, !.got = 1]
        [] kind = "status" -> [d EXCEPT !.got = IF @ \in {td.k - 1, td.k} THEN td.k ELSE -1]
        [] kind = "data" /\ toggle = d.toggle ->
             [d EXCEPT !.toggle = 1 - @, !.got = IF @ = td.k - 1 THEN td.k ELSE -1]
        [] OTHER -> d

Retired(p, td, halted) ==
  [ed EXCEPT ![p].head = [td EXCEPT !.k = @ + 1], ![p].halted = halted,
             ![p].carry = IF halted \/ PacketKind(p, td) # "data" THEN @ ELSE 1 - @]

\* The device takes the packet and the TD is retired; its answer is lost; it takes
\* nothing now; or the TD is retired with an error and the queue halts.
HcTransact ==
  /\ ~Resting
  /\ LET p == hc.busy.pipe
         td == hc.busy.td
         taken == [device EXCEPT ![p] = Took(@, p, td)]
     IN  \/ /\ device' = taken
            /\ ed' = Retired(p, td, FALSE)
            /\ UNCHANGED left
         \/ /\ device' \in {device} \cup (IF left.lost > 0 THEN {taken} ELSE {})
            /\ left' = IF device' = device THEN left ELSE [left EXCEPT !.lost = @ - 1]
            /\ UNCHANGED ed
         \/ /\ left.errors > 0
            /\ left' = [left EXCEPT !.errors = @ - 1]
            /\ ed' = Retired(p, td, TRUE)
            /\ UNCHANGED device
  /\ hc' = [hc EXCEPT !.busy = NoTransaction]
  /\ UNCHANGED <<int_table, allocated, freelist, regs, thread, tds, intr>>

----------------------------------------------------------------------------
(* The reports of a keyboard                                                *)

NextSlot(i) == (i + 1) % ReportTds

HcReport ==
  /\ left.reports > 0 /\ intr.head # intr.tail /\ ~intr.halted
  /\ left' = [left EXCEPT !.reports = @ - 1]
  /\ \/ intr' = [intr EXCEPT !.sent = @ + 1, !.data[intr.head] = intr.sent + 1,
                             !.head = NextSlot(intr.head)]
     \/ /\ left.errors > 0
        /\ intr' = [intr EXCEPT !.halted = TRUE, !.head = NextSlot(intr.head)]
  /\ UNCHANGED <<lists, freelist, regs, hc, thread, tds, device>>

\* The TD behind the tail is the oldest that may hold a report; the tail comes into use.
ohci_poll_intr ==
  LET next == NextSlot(intr.tail)
  IN  /\ intr.head # next
      /\ intr' = [intr EXCEPT !.seen = Append(@, intr.data[next]), !.tail = next]
      /\ UNCHANGED <<lists, freelist, regs, hc, thread, tds, device, left>>

Next ==
  \/ \E t \in Threads :
       \/ ohci_realloc_pipe(t) \/ Link(t)
       \/ ohci_send_pipe(t) \/ EdDone(t) \/ GivesUp(t) \/ Ends(t)
  \/ \E t \in Everyone : Ticked(t)
  \/ StopLists
  \/ FreeControl
  \/ RestartLists
  \/ HcFrame
  \/ HcPeriodic
  \/ \E l \in Async : HcCurrent(l) \/ HcStart(l)
  \/ HcTransact
  \/ HcReport
  \/ ohci_poll_intr

----------------------------------------------------------------------------

\* The EDs on the way from one, until the end or what the way does not leave.
Way(from) ==
  LET Steps[n \in 0 .. Cardinality(EDs) + 2] ==
        IF n = 0 THEN <<from>>
        ELSE LET way == Steps[n - 1]
             IN  IF Last(way) = NoEd THEN way ELSE Append(way, ed[Last(way)].next)
      way == Steps[Cardinality(EDs) + 2]
  IN  IF Last(way) = NoEd THEN Front(way) ELSE way

\* The controller looks only at what is there (usb-ohci.c:124, "ensuring safe memory
\* release"): from where it is and from where it will begin again it comes to no ED
\* that is freed, and to no TD of a request that has returned.
MemoryKept ==
  LET There(p) == ToSet(Way(p)) \subseteq allocated \cup {intr_ed}
  IN  /\ There(hc.at)
      /\ hc.serves \/ regs.enabled =>
           \A l \in Async : There(regs.current[l]) /\ There(regs.head[l])
      /\ \A p \in allocated : ed[p].skip \/ Emptied(p) \/ Live(ed[p].head)
      /\ Resting \/ Live(hc.busy.td)

\* The pipes that somebody uses.
InUse == UNION {thread[t].pipes : t \in Threads}

\* A pipe is once in its list; of the frames of its period an interrupt pipe is in
\* exactly one.
ListsComplete ==
  /\ \A l \in Async :
       LET way == Way(regs.head[l])
       IN  /\ Cardinality(ToSet(way)) = Len(way)
           /\ {p \in InUse : ed[p].eptype = l} \subseteq ToSet(way)
  /\ \A f \in DOMAIN int_table :
       /\ LET way == Way(int_table[f]) IN Cardinality(ToSet(way)) = Len(way)
       /\ \A p \in InUse : ed[p].eptype = "intr" =>
            Cardinality({g \in 0 .. 2 ^ ed[p].exp - 1 :
                           p \in ToSet(Way(int_table[(f + g) % left.frames]))}) = 1

\* When a request has succeeded, the device has taken all of its packets, each once,
\* and both ends agree about the next toggle, if they did when it began.  Excepted is
\* a request whose last TD has failed: wait_ed() does not look whether the queue has
\* halted.
AllTaken ==
  \A t \in Threads :
    LET p == thread[t].pipe
    IN  /\ thread[t].pc = "wait" /\ Emptied(p)
        /\ ~ed[p].halted /\ device[p].even
        => /\ device[p].got = tds[t].n
           /\ ed[p].eptype = "bulk" => device[p].toggle = ed[p].carry

\* Reports are read once and in order, but for what is in the buffer when a transfer
\* has failed.
ReportsInOrder ==
  \A k \in DOMAIN intr.seen :
    intr.seen[k] = k \/ (k = Len(intr.seen) /\ intr.halted)

ListsSafe == MemoryKept /\ ListsComplete /\ AllTaken /\ ReportsInOrder

=============================================================================
