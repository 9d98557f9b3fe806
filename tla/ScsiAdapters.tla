----------------------------- MODULE ScsiAdapters -----------------------------
(***************************************************************************)
(* Drives behind SCSI adapters: how a drive is found out about             *)
(* (src/hw/blockcmd.c), and the ways three adapters are given commands and *)
(* asked for their ends: MegaRAID by a status in the command's frame, of   *)
(* which each LUN has one; MPT by a queue of replies; PVSCSI by two rings  *)
(* and an interrupt bit (src/hw/megasas.c, mpt-scsi.c, pvscsi.c).          *)
(*                                                                         *)
(* An adapter fetches a command when it is told of it; it ends commands in *)
(* any order, also those the driver has given up.                          *)
(***************************************************************************)
EXTENDS Naturals, Sequences

CONSTANTS
  Worlds,       \* [kind, type, medium, reads, timeouts, errors]: "megasas", "mpt" or
                \* "pvscsi"; the target is a "disk", "cd" or "other"; its medium is
                \* "present", "soon" (or never) or "absent"; then bounds
  LUNs,         \* 0 is set up, and all are read from
  Entries,      \* of PVSCSI's rings
  IdxWord,      \* the width of their indices: 2^32
  READY_TIME, IN_PROGRESS_TIME   \* of scsi_is_ready()

VARIABLES
  world,
  drv,          \* the driver: the command it waits for and what it has found out
  frame,        \* MegaRAID: the status in the frame of each LUN
  mpt,          \* [replies, frames, faulted]: the reply queue; frames for errors
  ring,         \* PVSCSI: [reqs, cmps, reqProd, cmpProd, cmpCons, intr]
  executing,    \* the commands the adapter has: [n, lun, cmd]
  done,         \* whether the driver's command has ended well, with its data
  medium        \* the target's: "absent", "soon" or "ready"

vars == <<world, drv, frame, mpt, ring, executing, done, medium>>

Use(what) == world[what] > 0 /\ world' = [world EXCEPT ![what] = @ - 1]

----------------------------------------------------------------------------
(* A command is given to the adapter.  "behind": the adapter still had one of  *)
(* this LUN; "gaveup": one was given up.                                      *)

\* Deviation: the status is cleared with the rest of the frame.
FrameFired_clear(lun) == [frame EXCEPT ![lun] = "ok"]
FrameFired(lun) == [frame EXCEPT ![lun] = "busy"]

Mask(i) == i % Entries

Submit(lun, cmd, then) ==
  LET n == drv.n + 1
  IN  /\ drv' = [drv EXCEPT !.n = n, !.pc = "wait", !.lun = lun, !.cmd = cmd,
                            !.then = then, !.ok = FALSE,
                            !.behind = \E e \in executing : e.lun = lun]
      /\ frame' = IF world.kind = "megasas" THEN FrameFired(lun) ELSE frame
      /\ ring' = IF world.kind = "pvscsi"
                 THEN [ring EXCEPT !.reqs[Mask(ring.reqProd)] = n,
                                   !.reqProd = (@ + 1) % IdxWord]
                 ELSE ring
      /\ executing' = executing \cup {[n |-> n, lun |-> lun, cmd |-> cmd]}
      /\ done' = FALSE

\* pvscsi_process_op() refuses a command if its ring is full.
RingFull ==
  world.kind = "pvscsi" /\ (ring.reqProd + IdxWord - ring.cmpCons) % IdxWord >= Entries

process_op(lun, cmd, then) ==
  IF RingFull
  THEN /\ drv' = [drv EXCEPT !.pc = then, !.ok = FALSE, !.cmd = cmd]
       /\ UNCHANGED <<frame, ring, executing, done>>
  ELSE Submit(lun, cmd, then)

End(ok) ==
  drv' = [drv EXCEPT !.pc = drv.then, !.ok = ok, !.mistaken = @ \/ (ok /\ ~done)]

----------------------------------------------------------------------------
(* The driver looks for the end                                               *)

\* megasas_fire_cmd().  A status of 0x2d counts as success; that is what the adapter
\* says ("check") when it has carried the command out and the target refused it.
MegasasEnds ==
  /\ drv.pc = "wait" /\ world.kind = "megasas" /\ frame[drv.lun] # "busy"
  /\ End(frame[drv.lun] # "error")
  /\ UNCHANGED <<world, frame, mpt, ring, executing, done, medium>>

\* Deviation: whatever reply comes is the command's.
IsReply_any(reply) == reply # 0
\* The reply has the context of the command.
IsReply(reply) == reply = drv.n

\* mpt_scsi_cmd() reads a reply, and reads again "to turn interrupt off", which
\* discards a second one.  Reply 0 is the address of the reply frame: an error.
MptReply ==
  /\ drv.pc = "wait" /\ world.kind = "mpt" /\ mpt.replies # <<>>
  /\ LET reply == Head(mpt.replies)
         rest == IF Len(mpt.replies) > 1 THEN SubSeq(mpt.replies, 3, Len(mpt.replies))
                 ELSE <<>>
     IN  /\ mpt' = [mpt EXCEPT !.replies = rest, !.frames = IF reply = 0 THEN @ + 1 ELSE @]
         /\ IF IsReply(reply) THEN End(TRUE)
            ELSE IF reply = 0 THEN End(FALSE) ELSE UNCHANGED drv
  /\ UNCHANGED <<world, frame, ring, executing, done, medium>>

\* pvscsi_wait_intr_cmpl() and pvscsi_get_rsp(); there is no timeout.
PvscsiEnds ==
  /\ drv.pc = "wait" /\ world.kind = "pvscsi" /\ ring.intr
  /\ ring' = [ring EXCEPT !.intr = FALSE, !.cmpCons = (@ + 1) % IdxWord]
  /\ End(ring.cmps[Mask(ring.cmpCons)] = "ok")
  /\ UNCHANGED <<world, frame, mpt, executing, done, medium>>

GiveUp ==
  /\ drv.pc = "wait"
  /\ \/ world.kind = "megasas" /\ frame[drv.lun] = "busy"
     \/ world.kind = "mpt"
  /\ IF mpt.faulted THEN UNCHANGED world ELSE Use("timeouts")
  /\ drv' = [drv EXCEPT !.pc = drv.then, !.ok = FALSE, !.gaveup = TRUE]
  /\ UNCHANGED <<frame, mpt, ring, executing, done, medium>>

----------------------------------------------------------------------------
(* scsi_drive_setup() and scsi_is_ready().  Time is counted in rounds of its   *)
(* loop.  What a sense buffer holds after a mistaken success is arbitrary.    *)

Senses == {"3a", "04/01", "other"}
Sense == IF medium = "absent" THEN "3a" ELSE IF medium = "soon" THEN "04/01" ELSE "other"

Stay == UNCHANGED <<frame, ring, executing, done>>
SetupEnds(pc) == drv' = [drv EXCEPT !.pc = pc] /\ Stay

Inquiry ==
  /\ drv.pc = "inquiry"
  /\ CASE ~drv.ok -> SetupEnds("failed")
       [] drv.ok /\ world.type = "cd" -> SetupEnds("ready")
       [] drv.ok /\ world.type = "other" -> SetupEnds("failed")
       [] OTHER -> drv' = [drv EXCEPT !.pc = "loop", !.end = READY_TIME] /\ Stay
  /\ UNCHANGED <<world, mpt, medium>>

TestUnitReady ==
  /\ drv.pc = "loop"
  /\ IF drv.time >= drv.end THEN SetupEnds("failed")
     ELSE process_op(0, "test_ready", "tested")
  /\ UNCHANGED <<world, mpt, medium>>

RequestSense ==
  /\ drv.pc = "tested"
  /\ IF drv.ok THEN process_op(0, "capacity", "capacity")
     ELSE process_op(0, "sense", "sensed")
  /\ UNCHANGED <<world, mpt, medium>>

Sensed ==
  /\ drv.pc = "sensed"
  /\ \E sense \in IF done THEN {Sense} ELSE Senses :
       LET d == [drv EXCEPT !.time = @ + 1, !.pc = "loop"]
       IN  drv' = CASE ~drv.ok -> d
                    [] drv.ok /\ sense = "3a" ->
                         [d EXCEPT !.tries = @ - 1,
                                   !.pc = IF drv.tries = 1 THEN "failed" ELSE "loop"]
                    [] drv.ok /\ sense = "04/01" /\ ~drv.in_progress ->
                         [d EXCEPT !.in_progress = TRUE, !.end = d.time + IN_PROGRESS_TIME]
                    [] OTHER -> d
  /\ Stay
  /\ UNCHANGED <<world, mpt, medium>>

\* The size of the disk; boot_add_hd().
Capacity ==
  /\ drv.pc = "capacity"
  /\ SetupEnds(IF drv.ok THEN "ready" ELSE "failed")
  /\ UNCHANGED <<world, mpt, medium>>

Start ==
  /\ drv.pc = "start"
  /\ process_op(0, "inquiry", "inquiry")
  /\ UNCHANGED <<world, mpt, medium>>

Read(lun) ==
  /\ drv.pc \in {"ready", "read"}
  /\ Use("reads")
  /\ process_op(lun, "read", "read")
  /\ UNCHANGED <<mpt, medium>>

----------------------------------------------------------------------------
(* The adapter                                                                *)

Succeeds(e) == e.cmd \in {"inquiry", "sense"} \/ medium = "ready"

\* The adapter tells of the end of a command.  An MPT adapter without a frame for
\* an error stops.
Complete(e, ok, error) ==
  /\ executing' = executing \ {e}
  /\ IF Succeeds(e) # ok THEN ok = FALSE /\ Use("errors")
     ELSE error = "check" /\ UNCHANGED world
  /\ done' = (done \/ (ok /\ e.n = drv.n))
  /\ frame' = IF world.kind = "megasas"
              THEN [frame EXCEPT ![e.lun] = IF ok THEN "ok" ELSE error] ELSE frame
  /\ mpt' = IF world.kind # "mpt" THEN mpt
            ELSE IF ok THEN [mpt EXCEPT !.replies = Append(@, e.n)]
            ELSE IF mpt.frames > 0
                 THEN [mpt EXCEPT !.replies = Append(@, 0), !.frames = @ - 1]
            ELSE [mpt EXCEPT !.faulted = TRUE]
  /\ ring' = IF world.kind # "pvscsi" THEN ring
             ELSE [ring EXCEPT !.cmps[Mask(ring.cmpProd)] = IF ok THEN "ok" ELSE "error",
                               !.cmpProd = (@ + 1) % IdxWord, !.intr = TRUE]
  /\ UNCHANGED <<drv, medium>>

AdapterCompletes ==
  /\ ~mpt.faulted
  /\ \E e \in executing, ok \in BOOLEAN, error \in {"check", "error"} :
       Complete(e, ok, error)

MediumReady ==
  /\ medium = "soon"
  /\ medium' = "ready"
  /\ UNCHANGED <<world, drv, frame, mpt, ring, executing, done>>

----------------------------------------------------------------------------

\* init_mpt_scsi() posts one reply frame.
Init ==
  /\ world \in Worlds
  /\ drv = [pc |-> "start", n |-> 0, lun |-> 0, cmd |-> "none", then |-> "start",
            ok |-> FALSE, behind |-> FALSE, gaveup |-> FALSE, mistaken |-> FALSE,
            time |-> 0, end |-> 0, tries |-> 3, in_progress |-> FALSE]
  /\ frame = [l \in LUNs |-> "ok"]
  /\ mpt = [replies |-> <<>>, frames |-> 1, faulted |-> FALSE]
  /\ ring = [reqs |-> [i \in 0 .. Entries - 1 |-> 0],
             cmps |-> [i \in 0 .. Entries - 1 |-> "ok"],
             reqProd |-> 0, cmpProd |-> 0, cmpCons |-> 0, intr |-> FALSE]
  /\ executing = {}
  /\ done = FALSE
  /\ medium = IF world.medium = "present" THEN "ready" ELSE world.medium

Next ==
  \/ Start \/ Inquiry \/ TestUnitReady \/ RequestSense \/ Sensed \/ Capacity
  \/ \E lun \in LUNs : Read(lun)
  \/ MegasasEnds \/ MptReply \/ PvscsiEnds \/ GiveUp
  \/ AdapterCompletes \/ MediumReady

Spec == Init /\ [][Next]_vars

----------------------------------------------------------------------------
(* Properties                                                                 *)

\* However late, and in whatever order, an adapter ends the commands it was given: a
\* command that the driver reports as done is done, with its data, except on MegaRAID
\* if the target refused it or if one given up on the same LUN was still under way;
\* nothing is under way between commands unless one was given up, nor is MPT ever
\* without a frame for an error; PVSCSI's rings agree; and a disk is registered only
\* after it has said that it is ready, within the time and the tries there are.
AdapterTrue ==
  /\ drv.pc = drv.then /\ drv.ok /\ ~done =>
       world.kind = "megasas" /\ (drv.behind \/ frame[drv.lun] = "check")
  /\ drv.behind => drv.gaveup
  /\ drv.pc # "wait" /\ ~drv.gaveup => executing = {} /\ mpt.replies = <<>>
  /\ mpt.faulted => drv.gaveup
  /\ world.kind = "pvscsi" /\ drv.pc # "wait" =>
       ring.reqProd = ring.cmpProd /\ ring.cmpProd = ring.cmpCons
  /\ drv.pc = "ready" /\ world.type = "disk" /\ ~drv.mistaken => medium = "ready"
  /\ drv.time <= READY_TIME + IN_PROGRESS_TIME /\ drv.tries >= 0
=============================================================================
