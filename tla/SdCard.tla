-------------------------------- MODULE SdCard --------------------------------
(***************************************************************************)
(* An SD card or an MMC behind an SDHCI controller (src/hw/sdcard.c): the  *)
(* commands that find out what it is, and then reads and writes of blocks. *)
(* The controller tells what happened in bits of irq_status, which stay    *)
(* until they are cleared, whichever command set them.                     *)
(***************************************************************************)
EXTENDS Naturals, Sequences

CONSTANTS
  Machines,     \* [kind, version, base]: the card and its controller; kind is "sd1",
                \* "sd2", "sdhc", "mmc" or "mmc4", base the base clock in MHz
  Counts,       \* of blocks in a request
  Worlds        \* bounds: how much of each of "left" there may be

VARIABLES
  machine,
  drv,          \* the driver: its pc, the command it sends and what it has found out
  hc,           \* the controller: irq_status, the command and the transfer under way
  clock,        \* the card's clock: [asked, divisor]
  data,         \* the blocks of the request that have moved
  left

vars == <<machine, drv, hc, clock, data, left>>

Spend(what) == left[what] > 0 /\ left' = [left EXCEPT ![what] = @ - 1]

IsMmc == machine.kind \in {"mmc", "mmc4"}
HighCapacity == machine.kind \in {"sdhc", "mmc4"}

Idle == [cmd |-> "none", n |-> 0, count |-> 0]
IsData(cmd) == cmd \in {"read", "write", "ext_csd"}
Ready(cmd) == IF cmd = "write" THEN "write_ready" ELSE "read_ready"

----------------------------------------------------------------------------
(* sdcard_set_frequency(): the divisor of the base clock in the register       *)

DIV_ROUND_UP(a, b) == (a + b - 1) \div b

\* 1 << __fls(n) for a small n.
Power(n) == CHOOSE p \in {2 ^ i : i \in 0 .. 10} : p <= n /\ 2 * p > n

\* Deviation: the divisor is rounded down.
Divisor_down(khz) == (machine.base * 1000) \div khz

\* What the base clock is divided by; the register holds half of it.
Divisor(khz) ==
  LET d == DIV_ROUND_UP(machine.base * 1000, khz)
      half == IF machine.version <= 1 THEN IF d > 1 THEN Power(d - 1) ELSE 0
              ELSE DIV_ROUND_UP(d, 2)
  IN  IF half = 0 THEN 1 ELSE 2 * half

\* Fails without a base clock, or if the clock does not become stable.
SetFrequency ==
  /\ drv.pc = "clock"
  /\ \/ /\ machine.base # 0
        /\ LET khz == IF drv.cmd = "start" THEN 400 ELSE 25000
           IN  clock' = [asked |-> khz, divisor |-> Divisor(khz)]
        /\ drv' = [drv EXCEPT !.pc = "next"]
        /\ UNCHANGED left
     \/ /\ machine.base = 0
        /\ drv' = [drv EXCEPT !.pc = "failed"]
        /\ UNCHANGED <<clock, left>>
     \/ /\ machine.base # 0
        /\ Spend("timeouts")
        /\ drv' = [drv EXCEPT !.pc = "failed"]
        /\ UNCHANGED clock
  /\ UNCHANGED <<machine, hc, data>>

----------------------------------------------------------------------------
(* sdcard_pio() and sdcard_pio_transfer().  "gaveup": a wait was given up since *)
(* the last reset, or ever ("lost"), or since the reset before the request     *)
(* ("suspect").                                                               *)

Inhibited(cmd) ==
  \/ hc.cmd # Idle
  \/ cmd = "select" /\ hc.transfer # Idle

Failed(d) == [d EXCEPT !.pc = "end", !.ok = FALSE]

Send ==
  /\ drv.pc = "send"
  /\ IF Inhibited(drv.cmd) THEN drv' = Failed(drv) /\ UNCHANGED <<hc, data>>
     ELSE /\ hc' = [hc EXCEPT !.cmd = [cmd |-> drv.cmd, n |-> drv.n, count |-> drv.count]]
          /\ drv' = [drv EXCEPT !.pc = "command"]
          /\ data' = <<>>
  /\ UNCHANGED <<machine, clock, left>>

\* Deviation: the controller is not reset after an error.
Reset_bit == [hc EXCEPT !.irq = @ \ {"error"}]
\* SRF_CMD and SRF_DATA end what is under way and clear its bits; then the error's.
Reset == [hc EXCEPT !.irq = {}, !.cmd = Idle, !.transfer = Idle, !.buffer = <<>>]

CommandError ==
  /\ drv.pc = "command" /\ "error" \in hc.irq
  /\ hc' = Reset
  /\ drv' = [Failed(drv) EXCEPT !.gaveup = FALSE]
  /\ UNCHANGED <<machine, clock, data, left>>

CommandComplete ==
  /\ drv.pc = "command" /\ "complete" \in hc.irq /\ "error" \notin hc.irq
  /\ hc' = [hc EXCEPT !.irq = @ \ {"complete"}]
  /\ drv' = IF IsData(drv.cmd) THEN [drv EXCEPT !.pc = "data", !.blocks = drv.count]
            ELSE [drv EXCEPT !.pc = "end", !.ok = TRUE, !.response = hc.response]
  /\ UNCHANGED <<machine, clock, data, left>>

\* A block is read from the controller's buffer or written to it.
MoveBlock ==
  /\ drv.pc = "data" /\ drv.blocks > 0 /\ Ready(drv.cmd) \in hc.irq
  /\ IF drv.cmd = "write"
     THEN /\ hc' = [hc EXCEPT !.irq = @ \ {"write_ready"},
                              !.buffer = <<[n |-> drv.n, k |-> Len(data) + 1]>>]
          /\ data' = Append(data, [n |-> drv.n, k |-> Len(data) + 1])
     ELSE /\ hc' = [hc EXCEPT !.irq = @ \ {"read_ready"}, !.buffer = <<>>]
          /\ data' = data \o IF hc.buffer = <<>> THEN <<[n |-> 0, k |-> 0]>>
                             ELSE hc.buffer
  /\ drv' = [drv EXCEPT !.blocks = @ - 1]
  /\ UNCHANGED <<machine, clock, left>>

TransferDone ==
  /\ drv.pc = "data" /\ drv.blocks = 0 /\ "transfer_done" \in hc.irq
  /\ hc' = [hc EXCEPT !.irq = @ \ {"transfer_done"}]
  /\ drv' = [drv EXCEPT !.pc = "end", !.ok = TRUE]
  /\ UNCHANGED <<machine, clock, data, left>>

\* sdcard_waitw() gives up: because the transfer has failed, or on something that
\* is still to come.
GiveUp ==
  /\ \/ drv.pc = "command" /\ hc.irq \cap {"complete", "error"} = {}
     \/ drv.pc = "data" /\ drv.blocks > 0 /\ Ready(drv.cmd) \notin hc.irq
     \/ drv.pc = "data" /\ drv.blocks = 0 /\ "transfer_done" \notin hc.irq
  /\ IF hc.cmd = Idle /\ hc.transfer = Idle
     THEN drv' = Failed(drv) /\ UNCHANGED left
     ELSE Spend("timeouts") /\ drv' = [Failed(drv) EXCEPT !.gaveup = TRUE, !.lost = TRUE]
  /\ UNCHANGED <<machine, hc, clock, data>>

----------------------------------------------------------------------------
(* sdcard_card_setup(): which command comes next                               *)

SendNext(d, cmd) == [d EXCEPT !.pc = "send", !.cmd = cmd]

\* The command that waits for the card's power-up, after its "app" prefix.
OpCond(d) == SendNext(d, IF d.mmc THEN "op_cond" ELSE "app")
Verified(d) == [d EXCEPT !.verified = TRUE]

\* sdcard_get_capacity() reads EXT_CSD of newer MMCs.
Registered(d) == [d EXCEPT !.pc = "ready", !.cmd = "none"]

\* What follows a command that has ended.
Following(d, cmd, ok) ==
  CASE cmd = "if_cond" -> SendNext([d EXCEPT !.hcs = ok /\ d.response = "if_cond"], "app")
    [] cmd = "app" /\ ok -> SendNext(d, "app_op_cond")
    [] cmd \in {"app", "app_op_cond"} /\ ~ok /\ ~d.verified ->
         Verified(SendNext([d EXCEPT !.mmc = TRUE, !.hcs = TRUE], "mmc_check"))
    [] cmd = "app_op_cond" /\ ok /\ ~d.verified -> OpCond(Verified(d))
    [] cmd = "mmc_check" /\ ok -> OpCond(d)
    [] cmd \in {"app_op_cond", "op_cond"} /\ ok /\ d.verified ->
         IF d.response = "power_up" THEN OpCond(d)
         ELSE SendNext([d EXCEPT !.hc = d.response = "high_capacity"], "all_send_cid")
    [] cmd = "start" -> SendNext(d, "go_idle")
    [] cmd = "go_idle" /\ ok -> SendNext(d, "if_cond")
    [] cmd = "all_send_cid" /\ ok -> SendNext(d, "relative_addr")
    [] cmd = "relative_addr" /\ ok -> SendNext(d, "csd")
    [] cmd = "csd" /\ ok -> SendNext(d, "select")
    [] cmd = "select" /\ ok ->
         IF d.mmc /\ machine.kind = "mmc4" THEN SendNext(d, "ext_csd") ELSE Registered(d)
    [] cmd = "ext_csd" /\ ok -> Registered(d)
    [] OTHER -> [d EXCEPT !.pc = "failed"]

\* The frequency is set at the start and after the card is selected.
CommandEnds ==
  /\ drv.pc = "end" /\ ~drv.ready
  /\ drv' = IF drv.cmd = "select" /\ drv.ok THEN [drv EXCEPT !.pc = "clock"]
            ELSE LET d == Following(drv, drv.cmd, drv.ok)
                 IN  [d EXCEPT !.ready = d.pc = "ready"]
  /\ UNCHANGED <<machine, hc, clock, data, left>>

ClockSet ==
  /\ drv.pc = "next"
  /\ drv' = LET d == Following(drv, drv.cmd, TRUE) IN [d EXCEPT !.ready = d.pc = "ready"]
  /\ UNCHANGED <<machine, hc, clock, data, left>>

\* The power-up takes longer than SDHCI_POWERUP_TIMEOUT.
PowerUpTimeout ==
  /\ drv.pc = "send" /\ drv.cmd \in {"app", "op_cond"} /\ drv.response = "power_up"
  /\ drv' = [drv EXCEPT !.pc = "failed"]
  /\ UNCHANGED <<machine, hc, clock, data, left>>

\* sdcard_controller_setup() turns power and clock off.
SetupFails ==
  /\ drv.pc = "failed"
  /\ drv' = [drv EXCEPT !.pc = "off"]
  /\ hc' = [hc EXCEPT !.cmd = Idle, !.transfer = Idle]
  /\ UNCHANGED <<machine, clock, data, left>>

----------------------------------------------------------------------------
(* sdcard_process_op()                                                         *)

sdcard_readwrite(cmd, count) ==
  /\ drv.ready /\ drv.pc \in {"ready", "end"}
  /\ Spend("requests")
  /\ drv' = [drv EXCEPT !.pc = "send", !.cmd = cmd, !.n = @ + 1, !.count = count,
                        !.ok = FALSE, !.suspect = drv.gaveup]
  /\ UNCHANGED <<machine, hc, clock, data>>

----------------------------------------------------------------------------
(* The controller and the card                                                 *)

\* Does the card answer?  Old SD cards and MMCs do not know the newer commands.
Answers(cmd) ==
  CASE cmd = "if_cond" -> machine.kind \in {"sd2", "sdhc"}
    [] cmd \in {"app", "app_op_cond"} -> ~IsMmc
    [] cmd \in {"mmc_check", "op_cond"} -> IsMmc
    [] OTHER -> TRUE

\* A card of high capacity only powers up if it is told that this is supported.
Responses(cmd) ==
  IF cmd \in {"app_op_cond", "op_cond"}
  THEN {"power_up"} \cup (IF HighCapacity THEN IF drv.hcs THEN {"high_capacity"} ELSE {}
                          ELSE {"standard"})
  ELSE {cmd}

\* The card answers; a transfer begins; "select" keeps the data line busy.  A card
\* whose data line is busy does not take another transfer.
Answer ==
  /\ hc.cmd # Idle
  /\ Answers(hc.cmd.cmd) /\ ~(IsData(hc.cmd.cmd) /\ hc.transfer # Idle)
  /\ \E r \in Responses(hc.cmd.cmd) :
       hc' = [hc EXCEPT !.irq = @ \cup {"complete"}, !.cmd = Idle, !.response = r,
                        !.transfer = IF IsData(hc.cmd.cmd) \/ hc.cmd.cmd = "select"
                                     THEN hc.cmd ELSE @,
                        !.moved = IF IsData(hc.cmd.cmd) THEN <<>> ELSE @,
                        !.buffer = IF IsData(hc.cmd.cmd) THEN <<>> ELSE @]
  /\ UNCHANGED <<machine, drv, clock, data, left>>

\* There is no answer, or a wrong one.
NoAnswer ==
  /\ hc.cmd # Idle /\ hc.cmd.cmd # "go_idle"
  /\ IF Answers(hc.cmd.cmd) /\ ~(IsData(hc.cmd.cmd) /\ hc.transfer # Idle)
     THEN Spend("errors") ELSE UNCHANGED left
  /\ hc' = [hc EXCEPT !.irq = @ \cup {"error"}, !.cmd = Idle]
  /\ UNCHANGED <<machine, drv, clock, data>>

\* Blocks still to come from the card or to go to it.
Wants == hc.transfer.count - Len(hc.moved)

\* The controller has a block from the card.
BlockIn ==
  /\ hc.transfer.cmd \in {"read", "ext_csd"} /\ hc.buffer = <<>> /\ Wants > 0
  /\ LET b == [n |-> hc.transfer.n, k |-> Len(hc.moved) + 1]
     IN  hc' = [hc EXCEPT !.buffer = <<b>>, !.moved = Append(@, b),
                          !.irq = @ \cup {"read_ready"}]
  /\ UNCHANGED <<machine, drv, clock, data, left>>

\* The controller wants a block, or passes it on.
BlockOut ==
  /\ hc.transfer.cmd = "write" /\ Wants > 0
  /\ IF hc.buffer = <<>>
     THEN hc' = [hc EXCEPT !.irq = @ \cup {"write_ready"}] /\ hc' # hc
     ELSE hc' = [hc EXCEPT !.moved = @ \o hc.buffer, !.buffer = <<>>]
  /\ UNCHANGED <<machine, drv, clock, data, left>>

\* The last block has moved and the card is no longer busy.
TransferEnds ==
  /\ hc.transfer # Idle
  /\ hc.transfer.cmd # "select" => Wants = 0 /\ hc.buffer = <<>>
  /\ hc' = [hc EXCEPT !.irq = @ \cup {"transfer_done"}, !.transfer = Idle]
  /\ UNCHANGED <<machine, drv, clock, data, left>>

TransferFails ==
  /\ hc.transfer # Idle /\ hc.transfer.cmd # "select"
  /\ Spend("errors")
  /\ hc' = [hc EXCEPT !.irq = @ \cup {"error"}, !.transfer = Idle]
  /\ UNCHANGED <<machine, drv, clock, data>>

----------------------------------------------------------------------------

\* After sdcard_reset(SRF_ALL) and sdcard_set_power().
Init ==
  /\ machine \in Machines
  /\ drv = [pc |-> "clock", cmd |-> "start", n |-> 0, count |-> 1, blocks |-> 0,
            ok |-> FALSE, response |-> "none", hcs |-> FALSE, mmc |-> FALSE,
            hc |-> FALSE, verified |-> FALSE, ready |-> FALSE, gaveup |-> FALSE,
            suspect |-> FALSE, lost |-> FALSE]
  /\ hc = [irq |-> {}, cmd |-> Idle, transfer |-> Idle, response |-> "none",
           buffer |-> <<>>, moved |-> <<>>]
  /\ clock = [asked |-> 400, divisor |-> 1000]
  /\ data = <<>>
  /\ left \in Worlds

Next ==
  \/ SetFrequency \/ ClockSet \/ Send \/ CommandError \/ CommandComplete \/ MoveBlock
  \/ TransferDone \/ GiveUp \/ CommandEnds \/ PowerUpTimeout \/ SetupFails
  \/ \E cmd \in {"read", "write"}, count \in Counts : sdcard_readwrite(cmd, count)
  \/ Answer \/ NoAnswer \/ BlockIn \/ BlockOut \/ TransferEnds \/ TransferFails

Spec == Init /\ [][Next]_vars
----------------------------------------------------------------------------
(* Properties                                                                 *)

\* Whatever bits of irq_status earlier commands have left: as long as no wait was given
\* up since the controller was last reset, a read that succeeds returned the blocks of
\* its own command and a write handed over all of its own; a card that is registered
\* is of the kind that the driver found, also if commands failed meanwhile; and its
\* clock is never faster than asked for.
CardTrue ==
  /\ drv.ready /\ drv.pc = "end" /\ drv.ok /\ ~drv.suspect =>
       LET all == [k \in 1 .. drv.count |-> [n |-> drv.n, k |-> k]]
       IN  data = all /\ (drv.cmd = "write" => hc.moved \o hc.buffer = all)
  /\ drv.ready /\ ~drv.lost => drv.mmc = IsMmc /\ drv.hc = HighCapacity
  /\ clock.asked * clock.divisor >= machine.base * 1000
=============================================================================
