------------------------------ MODULE TpmDriver ------------------------------
(* src/hw/tpm_drivers.c: the two interfaces of a TPM and tpmhw_transmit().    *)
(*                                                                            *)
(* A command is a sequence of bytes that name it; a response names what was   *)
(* executed.  One request is under way at a time, since the callers run in the*)
(* main thread; the TPM works between any two of its steps, and every wait may*)
(* end by its timeout first.                                                  *)
EXTENDS Integers, Sequences

CONSTANTS
  Machines,      \* [there, id, tis, crb, high, locality]: what the registers say; id is
                 \* the interface that is active, "fifo" or "crb", or "old" (TIS 1.3)
  Commands,      \* the lengths of commands
  crb_cmd_size,  \* the room for a command that the CRB says it has
  Bursts,        \* the burst counts that the FIFO tells
  Responses,     \* the lengths of responses
  Header,        \* sizeof(struct tpm_rsp_header)
  Rooms,         \* the lengths of the callers' buffers
  Worlds         \* [requests, timeouts, errors]: what may happen

VARIABLES
  machine,       \* the machine that runs
  drv,           \* TPMHW_driver_to_use and the locals of tpmhw_transmit()
  tpm,           \* the TPM
  left           \* what may still happen

vars == <<machine, drv, tpm, left>>

LOCAL Least(a, b) == IF a < b THEN a ELSE b

----------------------------------------------------------------------------
(* The TPM: external, as the driver meets it.                                 *)

Command(req) == [i \in 1 .. req.len |-> [of |-> req.id, byte |-> i, len |-> req.len]]

Response(command, n) == [i \in 1 .. n |-> [to |-> command, byte |-> i, len |-> n]]

\* TIS_STS_COMMAND_READY is written: a command that is being received or executed is
\* aborted, which takes its time, and a response is dropped.
Ready(t) ==
  CASE t.state \in {"reception", "execution", "aborting"} ->
         {[t EXCEPT !.state = "aborting"]}
    [] t.state = "completion" ->
         {[t EXCEPT !.state = s, !.fifo = <<>>] : s \in {"ready", "idle"}}
    [] OTHER -> {[t EXCEPT !.state = "ready", !.fifo = <<>>]}

\* Bytes are written to TIS_REG_DATA_FIFO: it takes what the first one announces.
Received(t, bytes) ==
  IF t.state \in {"ready", "reception"}
  THEN LET all == t.fifo \o bytes
       IN [t EXCEPT !.state = "reception",
                    !.fifo = SubSeq(all, 1, Least(all[1].len, Len(all)))]
  ELSE t

\* TIS_STS_TPM_GO is written, or CRB_START_INVOKE.
Started(t) ==
  IF t.fifo # <<>> /\ t.state # "execution" /\ Len(t.fifo) = t.fifo[1].len
  THEN [t EXCEPT !.state = "execution", !.executes = t.fifo]
  ELSE t

Execute ==
  /\ tpm.state = "execution"
  /\ \E n \in Responses, error \in BOOLEAN :
       /\ error => left.errors > 0
       /\ tpm' = [tpm EXCEPT !.state = "completion", !.error = error,
                             !.rsp = Response(tpm.executes, IF error THEN 1 ELSE n)]
       /\ left' = IF error THEN [left EXCEPT !.errors = @ - 1] ELSE left
  /\ UNCHANGED <<machine, drv>>

Abort ==
  /\ tpm.state = "aborting"
  /\ \E s \in {"ready", "idle"} : tpm' = [tpm EXCEPT !.state = s, !.fifo = <<>>]
  /\ UNCHANGED <<machine, drv, left>>

----------------------------------------------------------------------------
(* tpmhw_probe().                                                             *)

\* tis_probe(): a TPM 2 may have both interfaces, and selects one for good.
TisProbe == machine.there /\ machine.id # "crb" /\ (machine.id = "fifo" => machine.tis)

\* crb_probe(): the command buffer must be below 4 GiB.
CrbProbe ==
  /\ machine.there /\ ~machine.high
  /\ machine.id = "fifo" => machine.crb

tpmhw_probe ==
  /\ drv.pc = "probe"
  /\ drv' = [drv EXCEPT !.pc = "idle",
               !.driver = IF TisProbe THEN "tis" ELSE IF CrbProbe THEN "crb" ELSE "none"]
  /\ UNCHANGED <<machine, tpm, left>>

----------------------------------------------------------------------------
(* tpmhw_transmit().                                                          *)

\* A call that returns -1 leaves the TPM as it is.
Failed == [drv EXCEPT !.pc = "idle", !.rc = -1]

Call(len, room) == [id |-> left.requests, len |-> len, room |-> room]

\* Deviation: a locality that is the driver's already is taken for ready.
TisActivate_active(req) ==
  /\ drv' = [drv EXCEPT !.pc = IF tpm.locality = 0 THEN "send" ELSE "activate",
                        !.req = req, !.sent = 0, !.behind = <<>>]
  /\ tpm' \in IF tpm.locality = 0 THEN {tpm} ELSE Ready([tpm EXCEPT !.locality = 0])

\* tis_activate(): other localities are released, and a command that was given up
\* goes away.
TisActivate(req) ==
  /\ drv' = [drv EXCEPT !.pc = "activate", !.req = req, !.sent = 0, !.behind = <<>>]
  /\ tpm' \in Ready([tpm EXCEPT !.locality = 0])

\* crb_activate() and crb_senddata(): nothing is aborted.  The start bit of a command
\* that was given up may be set, and the TPM has taken that command.
CrbSend(req) ==
  /\ tpm' = LET t == [tpm EXCEPT !.locality = 0]
            IN IF req.len > crb_cmd_size \/ t.state = "execution" THEN t
               ELSE Started([t EXCEPT !.fifo = Command(req)])
  /\ drv' = [drv EXCEPT !.req = req,
               !.behind = IF tpm.state = "execution" THEN tpm.executes ELSE <<>>,
               !.pc = IF req.len > crb_cmd_size THEN "idle" ELSE "respond",
               !.rc = IF req.len > crb_cmd_size THEN -1 ELSE @]

tpmhw_transmit ==
  /\ drv.pc = "idle" /\ left.requests > 0
  /\ \E len \in Commands, room \in Rooms :
       CASE drv.driver = "none" -> /\ drv' = [Failed EXCEPT !.req = Call(len, room)]
                                   /\ UNCHANGED tpm
         [] drv.driver = "tis" -> TisActivate(Call(len, room))
         [] drv.driver = "crb" -> CrbSend(Call(len, room))
  /\ left' = [left EXCEPT !.requests = @ - 1]
  /\ UNCHANGED machine

\* tis_wait_sts(TIS_STS_COMMAND_READY)
Activated ==
  /\ drv.pc = "activate" /\ tpm.state = "ready"
  /\ drv' = [drv EXCEPT !.pc = "send"]
  /\ UNCHANGED <<machine, tpm, left>>

\* tis_senddata(): a burst.
tis_senddata ==
  /\ drv.pc = "send"
  /\ \E burst \in Bursts :
       LET n == Least(burst, drv.req.len - drv.sent)
       IN /\ tpm' = Received(tpm, SubSeq(Command(drv.req), drv.sent + 1, drv.sent + n))
          /\ drv' = [drv EXCEPT !.sent = @ + n,
                       !.pc = IF drv.sent + n = drv.req.len THEN "valid" ELSE @]
  /\ UNCHANGED <<machine, left>>

\* tis_waitdatavalid() has seen TIS_STS_VALID; tis_waitrespready() begins.
Go ==
  /\ drv.pc = "valid"
  /\ drv' = [drv EXCEPT !.pc = "respond"]
  /\ tpm' = Started(tpm)
  /\ UNCHANGED <<machine, left>>

\* What tis_waitrespready() and crb_waitrespready() wait for.
Responded ==
  IF drv.driver = "tis" THEN tpm.state = "completion" ELSE tpm.state # "execution"

\* tis_readresp() and crb_readresp(), and td->ready() when there is a whole header.
ReadResponse ==
  /\ drv.pc = "respond" /\ Responded
  /\ LET got == SubSeq(tpm.rsp, 1, Least(drv.req.room, Len(tpm.rsp)))
     IN IF Len(got) < Header \/ (drv.driver = "crb" /\ tpm.error)
        THEN drv' = Failed /\ UNCHANGED tpm
        ELSE /\ drv' = [drv EXCEPT !.pc = "ready", !.rc = 0, !.resp = got]
             /\ tpm' \in IF drv.driver = "tis" THEN Ready(tpm)
                         ELSE {[tpm EXCEPT !.state = "ready"]}
  /\ UNCHANGED <<machine, left>>

\* tis_ready() and crb_ready(): whether the wait ended by its timeout is ignored.
Return ==
  /\ drv.pc = "ready"
  /\ \/ tpm.state = "ready" /\ UNCHANGED left
     \/ tpm.state = "idle" /\ UNCHANGED left
     \/ left.timeouts > 0 /\ left' = [left EXCEPT !.timeouts = @ - 1]
  /\ drv' = [drv EXCEPT !.pc = "idle"]
  /\ UNCHANGED <<machine, tpm>>

\* A state in which the TPM does nothing more for the driver.
Hopeless ==
  \/ /\ drv.pc = "activate"
     /\ tpm.state = "idle"
  \/ /\ drv.pc = "respond" /\ drv.driver = "tis"
     /\ tpm.state \notin {"execution", "completion"}

\* A wait of tis_activate(), tis_senddata(), tis_waitdatavalid(), tis_waitrespready()
\* or crb_waitrespready() ends by its timeout.
GiveUp ==
  /\ drv.pc \in {"activate", "send", "valid", "respond"}
  /\ IF Hopeless THEN UNCHANGED left
     ELSE left.timeouts > 0 /\ left' = [left EXCEPT !.timeouts = @ - 1]
  /\ drv' = Failed
  /\ UNCHANGED <<machine, tpm>>

Init ==
  /\ machine \in Machines
  /\ drv = [pc |-> "probe", driver |-> "none", req |-> [id |-> 0, len |-> 0, room |-> 0],
            sent |-> 0, behind |-> <<>>, rc |-> -1, resp |-> <<>>]
  /\ tpm = [state |-> "idle", locality |-> machine.locality, fifo |-> <<>>,
            executes |-> <<>>, rsp |-> <<>>, error |-> FALSE]
  /\ left \in Worlds

Next ==
  \/ tpmhw_probe \/ tpmhw_transmit \/ Activated \/ tis_senddata \/ Go \/ ReadResponse
  \/ Return \/ GiveUp \/ Execute \/ Abort

Spec == Init /\ [][Next]_vars

----------------------------------------------------------------------------
(* What must hold.                                                            *)

\* When tpmhw_transmit() returns 0, its caller has as much as fits of one response of
\* the TPM to one whole command, and that command is the caller's.  The exception is a
\* CRB that was executing a command that had been given up: its start bit is taken for
\* the caller's, and so is its response (crb_waitrespready()).
ResponseOwn ==
  drv.pc \in {"ready", "idle"} /\ drv.rc = 0 =>
    \E n \in Responses :
      drv.resp = SubSeq(Response(IF drv.behind = <<>> THEN Command(drv.req) ELSE drv.behind,
                                 n), 1, Least(n, drv.req.room))

\* What the TPM executes was sent by one call, from its first byte to its last.
ExecutesWhole ==
  tpm.executes # <<>> =>
    \E len \in Commands :
      tpm.executes = Command([id |-> tpm.executes[1].of, len |-> len])

\* Every answer is of one command, and every command that is executed is one that a
\* caller sent.
AnswersTrue == ResponseOwn /\ ExecutesWhole

=============================================================================
