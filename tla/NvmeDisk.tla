------------------------------ MODULE NvmeDisk -------------------------------
(***************************************************************************)
(* Disk requests on an NVMe namespace (src/hw/nvme.c): the split of a      *)
(* request into commands, the submission and completion queue, and the     *)
(* controller, which executes commands in order, whenever it likes, also   *)
(* after nvme_wait() has given up on them.                                 *)
(*                                                                         *)
(* Memory is counted in blocks of the disk.  A block of memory or disk     *)
(* holds a token that says where its data came from.                       *)
(***************************************************************************)
EXTENDS Integers, Sequences

CONSTANTS
  QueueLength,             \* a power of two; mask + 1 in the code
  PageSize,                \* in blocks
  NVME_MAX_PRPL_ENTRIES,
  max_req_size,            \* the longest command the controller takes
  Requests,                \* the struct disk_op_s that callers pass
  MemorySize,              \* callers' memory; dma_buffer is the page behind it
  DiskSize,
  MaxRequests,             \* bound: the number of requests
  MaxTimeouts              \* bound: the number of commands given up

VARIABLES
  op,      \* the request in progress and how far it is
  sq, cq,  \* struct nvme_sq, struct nvme_cq
  prpl,    \* the list of further pages; the controller reads it
  ctrl,    \* the controller's own pointers into the queues
  memory, disk,
  ivt      \* memory at address zero was written to

vars == <<op, sq, cq, prpl, ctrl, memory, disk, ivt>>

NULL == -1      \* second pages that are none
PrpList == -2

dma_buffer == MemorySize
Slots == 0 .. QueueLength - 1
NextSlot(i) == (i + 1) % QueueLength
Cleared == [cid |-> 0, opc |-> "none", lba |-> 0, count |-> 0, prp1 |-> 0, prp2 |-> NULL]

NoData == [memory |-> <<>>, disk |-> <<>>]
Idle == [pc |-> "idle", req |-> <<>>, i |-> 0, res |-> "none", cmd |-> Cleared,
         want |-> NoData, n |-> 0, timeouts |-> 0]

----------------------------------------------------------------------------
(* The split of a request into commands                                     *)

Smaller(a, b) == IF a < b THEN a ELSE b
FurtherPages(size) == (size - 1) \div PageSize

\* How many blocks one command can transfer at the buffer, and the pages behind
\* the first; 0 if the bounce buffer must be used.
nvme_build_prpl(base, blocks) ==
  LET count  == Smaller(blocks, max_req_size)
      offset == base % PageSize
  IN  CASE count + offset <= PageSize -> [count |-> count, list |-> <<>>]
        [] count + offset > PageSize /\ offset # 0 -> [count |-> 0, list |-> <<>>]
        [] OTHER ->
             IF FurtherPages(count) > NVME_MAX_PRPL_ENTRIES
             THEN [count |-> 0, list |-> <<>>]
             ELSE [count |-> count,
                   list  |-> [k \in 1 .. FurtherPages(count) |-> base + k * PageSize]]

\* What the command says of its second page: nothing, the page, or the list
\* (which the controller reads when it executes the command).
Prp2(count, list) ==
  CASE count > 2 * PageSize -> PrpList
    [] count > PageSize /\ count <= 2 * PageSize -> list[1]
    [] OTHER -> NULL

\* The next command of the request: where its data goes and whether it is
\* copied through dma_buffer.
NextCommand ==
  LET left   == op.req.count - op.i
      buf    == op.req.buf + op.i
      direct == nvme_build_prpl(buf, left)
      blocks == IF direct.count > 0 THEN direct.count ELSE Smaller(left, PageSize)
      list   == direct.list
  IN  [bounce |-> direct.count = 0, list |-> list,
       cmd |-> [cid |-> sq.tail, opc |-> op.req.command, lba |-> op.req.lba + op.i,
                count |-> blocks, prp1 |-> IF direct.count = 0 THEN dma_buffer ELSE buf,
                prp2 |-> Prp2(blocks, list)]]

----------------------------------------------------------------------------
(* The queues                                                               *)

nvme_poll_cq == cq.cqe[cq.head].p = cq.phase

\* nvme_get_next_sqe() returns NULL.
QueueSaysFull == NextSlot(sq.head) = sq.tail

\* Deviation: the phase is not flipped when the queue wraps.
nvme_consume_cqe_phase ==
  /\ cq' = [cq EXCEPT !.head = NextSlot(cq.head), !.taken = @ + 1]
  /\ sq' = [sq EXCEPT !.head = cq.cqe[cq.head].sq_head]

nvme_consume_cqe ==
  /\ cq' = [cq EXCEPT !.head = NextSlot(cq.head), !.taken = @ + 1,
              !.phase = IF NextSlot(cq.head) < cq.head THEN 1 - @ ELSE @]
  /\ sq' = [sq EXCEPT !.head = cq.cqe[cq.head].sq_head]

----------------------------------------------------------------------------
(* The driver                                                               *)

Moved(m, to, d, from, count) ==
  [a \in DOMAIN m |-> IF a \in to .. to + count - 1 THEN d[from + (a - to)] ELSE m[a]]

\* nvme_process_op().  "want" is what memory and disk must be like in the end.
nvme_process_op(req) ==
  /\ op.pc = "idle"
  /\ op.n < MaxRequests
  /\ op' = [Idle EXCEPT !.pc = "loop", !.req = req, !.res = "success",
              !.n = op.n + 1, !.timeouts = op.timeouts,
              !.want = [memory |-> IF req.command = "read"
                                   THEN Moved(memory, req.buf, disk, req.lba, req.count)
                                   ELSE memory,
                        disk   |-> IF req.command = "write"
                                   THEN Moved(disk, req.lba, memory, req.buf, req.count)
                                   ELSE disk]]
  /\ UNCHANGED <<sq, cq, prpl, ctrl, memory, disk, ivt>>

\* A buffer that is not dword aligned is refused, unless it is bounced.
Refused == op.req.odd /\ ~NextCommand.bounce

RefuseMisaligned ==
  /\ op.pc = "loop"
  /\ Refused
  /\ op' = [op EXCEPT !.pc = "idle", !.res = "ebadtrack"]
  /\ prpl' = NextCommand.list
  /\ UNCHANGED <<sq, cq, ctrl, memory, disk, ivt>>

\* nvme_io_readwrite() up to nvme_commit_sqe().  It does not look whether it got
\* an entry: without one it writes the command to address zero, and commits
\* what the entry at the tail held.
nvme_io_readwrite ==
  LET c == NextCommand
  IN  /\ op.pc = "loop"
      /\ ~Refused
      /\ prpl' = c.list
      /\ memory' = IF c.bounce /\ op.req.command = "write"
                   THEN Moved(memory, dma_buffer, memory, op.req.buf + op.i, c.cmd.count)
                   ELSE memory
      /\ sq' = [sq EXCEPT !.tail = NextSlot(@),
                  !.sqe[sq.tail] = IF QueueSaysFull THEN @ ELSE c.cmd]
      /\ ivt' = (ivt \/ QueueSaysFull)
      /\ op' = [op EXCEPT !.pc = "wait", !.cmd = c.cmd]
      /\ UNCHANGED <<cq, ctrl, disk>>

\* nvme_wait() returns and the loop of nvme_cmd_readwrite() goes on.
Finish(ok) ==
  LET last == op.i + op.cmd.count >= op.req.count
  IN  op' = [op EXCEPT !.i = @ + op.cmd.count,
               !.res = IF ok THEN @ ELSE "ebadtrack",
               !.pc  = IF ok /\ ~last THEN "loop" ELSE "idle"]

TakeCompletion ==
  /\ op.pc = "wait"
  /\ nvme_poll_cq
  /\ nvme_consume_cqe
  /\ Finish(cq.cqe[cq.head].ok)
  /\ memory' = IF /\ cq.cqe[cq.head].ok
                  /\ op.req.command = "read"
                  /\ op.cmd.prp1 = dma_buffer
               THEN Moved(memory, op.req.buf + op.i, memory, dma_buffer, op.cmd.count)
               ELSE memory
  /\ UNCHANGED <<prpl, ctrl, disk, ivt>>

\* No completion for five seconds.  The command stays where it is.
GiveUp ==
  /\ op.pc = "wait"
  /\ ~nvme_poll_cq
  /\ op.timeouts < MaxTimeouts
  /\ op' = [op EXCEPT !.i = @ + op.cmd.count, !.res = "ebadtrack", !.pc = "idle",
              !.timeouts = @ + 1]
  /\ UNCHANGED <<sq, cq, prpl, ctrl, memory, disk, ivt>>

----------------------------------------------------------------------------
(* The controller                                                           *)

\* Where block k of a command's data is.
DataAt(c, k) ==
  LET offset == c.prp1 % PageSize
      page   == (offset + k) \div PageSize
      base   == IF c.prp2 = PrpList THEN prpl[page] ELSE c.prp2
  IN  IF page = 0 THEN c.prp1 + k ELSE base + ((offset + k) % PageSize)

HasAddress(c, k) ==
  ((c.prp1 % PageSize) + k) \div PageSize <=
    CASE c.prp2 = NULL -> 0 [] c.prp2 = PrpList -> Len(prpl) [] OTHER -> 1

\* A command that makes no sense fails; any other may fail.
Sensible(c) == c.opc # "none" /\ \A k \in 0 .. c.count - 1 : HasAddress(c, k)

Execute(ok) ==
  LET c == sq.sqe[ctrl.fetched]
  IN  /\ ctrl.fetched # sq.tail
      /\ NextSlot(ctrl.posting) # cq.head
      /\ ok => Sensible(c)
      /\ memory' = IF ok /\ c.opc = "read"
                   THEN [a \in DOMAIN memory |->
                           LET ks == {k \in 0 .. c.count - 1 : DataAt(c, k) = a}
                           IN  IF ks = {} THEN memory[a]
                               ELSE disk[c.lba + (CHOOSE k \in ks : \A j \in ks : j <= k)]]
                   ELSE memory
      /\ disk' = IF ok /\ c.opc = "write"
                 THEN [l \in DOMAIN disk |->
                         IF l \in c.lba .. c.lba + c.count - 1
                         THEN memory[DataAt(c, l - c.lba)] ELSE disk[l]]
                 ELSE disk
      /\ cq' = [cq EXCEPT !.cqe[ctrl.posting] =
                  [p |-> ctrl.phase, cid |-> c.cid, ok |-> ok,
                   sq_head |-> NextSlot(ctrl.fetched)]]
      /\ ctrl' = [fetched |-> NextSlot(ctrl.fetched), posting |-> NextSlot(ctrl.posting),
                  phase |-> IF ctrl.posting = QueueLength - 1 THEN 1 - ctrl.phase
                            ELSE ctrl.phase,
                  posted |-> ctrl.posted + 1]
      /\ UNCHANGED <<op, sq, prpl, ivt>>

----------------------------------------------------------------------------

\* nvme_init_sq(), nvme_init_cq(): entries are zeroed, so the first pass of the
\* controller is told by phase 1.
Init ==
  /\ op = Idle
  /\ sq = [head |-> 0, tail |-> 0, sqe |-> [i \in Slots |-> Cleared]]
  /\ cq = [head |-> 0, phase |-> 1, taken |-> 0,
           cqe |-> [i \in Slots |-> [p |-> 0, cid |-> 0, ok |-> FALSE, sq_head |-> 0]]]
  /\ prpl = <<>>
  /\ ctrl = [fetched |-> 0, posting |-> 0, phase |-> 1, posted |-> 0]
  /\ memory = [a \in 0 .. MemorySize + PageSize - 1 |-> <<"memory", a>>]
  /\ disk = [l \in 0 .. DiskSize - 1 |-> <<"disk", l>>]
  /\ ivt = FALSE

Driver ==
  \/ \E req \in Requests : nvme_process_op(req)
  \/ RefuseMisaligned
  \/ nvme_io_readwrite
  \/ TakeCompletion
  \/ GiveUp

Next == Driver \/ \E ok \in BOOLEAN : Execute(ok)

Spec == Init /\ [][Next]_vars

----------------------------------------------------------------------------
(* Properties                                                                 *)

TypeOK ==
  /\ sq.head \in Slots /\ sq.tail \in Slots
  /\ cq.head \in Slots /\ cq.phase \in {0, 1}
  /\ ctrl.fetched \in Slots /\ ctrl.posting \in Slots
  /\ op.pc \in {"idle", "loop", "wait"}

\* The driver sees an entry exactly when the controller has posted one it did
\* not take, however often both queues have wrapped, and thinks a slot free
\* only when the controller has fetched it.
QueuesAgree ==
  /\ nvme_poll_cq <=> cq.taken < ctrl.posted
  /\ (ctrl.fetched + QueueLength - sq.head) % QueueLength
       <= (sq.tail + QueueLength - sq.head) % QueueLength

User(m) == [a \in 0 .. MemorySize - 1 |-> m[a]]

\* As long as no command was given up, a completion is that of the command that
\* is waited for, and a request that succeeds has transferred each of its
\* blocks to its place and touched nothing else, address zero included, whether in one command or
\* several, over a list of pages or through the bounce buffer.
Delivers ==
  op.timeouts = 0 =>
    /\ ~ivt
    /\ op.pc = "wait" /\ nvme_poll_cq => cq.cqe[cq.head].cid = op.cmd.cid
    /\ op.pc = "idle" /\ op.res = "success" =>
         User(memory) = User(op.want.memory) /\ disk = op.want.disk

RequestsDelivered == TypeOK /\ QueuesAgree /\ Delivers

=============================================================================
