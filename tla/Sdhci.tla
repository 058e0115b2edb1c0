--------------------------------- MODULE Sdhci ---------------------------------
(***************************************************************************)
(* An SD host controller (bus/sd/host/sdhci.cpp) with a memory card in its *)
(* slot (bus/sd/sd.cpp, device/storage/sd_card.cpp) and the image behind   *)
(* the card.  A handler runs with the device lock held and is a step on    *)
(* the state of the controller and the card, dev; the card answers a       *)
(* command at once and may keep a block until the image answers.           *)
(*                                                                         *)
(* A block is two units of data, so that a DMA buffer can end inside one.  *)
(* Unit h of sector s reads as 2*s + h; the units the guest writes are     *)
(* numbered as it gives them.  dev.seen is what has reached the guest, in  *)
(* order, dev.wrote the sectors the image has taken with their data.       *)
(* dev.free is how many blocks the image answers at once in this step,     *)
(* dev.how what it does with the next.                                     *)
(***************************************************************************)
EXTENDS Integers, Sequences, FiniteSets, SequencesExt

CONSTANTS
    BlockCount,     \* sectors of the card
    Boundary,       \* units between two SDMA buffer boundaries
    Counts,         \* blocks of a command
    Uses

VARIABLES
    dev,        \* controller, card and image
    drv,        \* the driver
    uses

vars == <<dev, drv, uses>>

Normal == {"CMD_COMPLETE", "XFER_COMPLETE", "DMA_END", "BUF_RD_READY",
           "BUF_WR_READY", "CARD_INSERT", "CARD_REMOVE"}
Errors == {"CMD_TIMEOUT", "DATA_CRC", "DATA_TIMEOUT", "AUTO_CMD", "ADMA"}
NoMode == [multi |-> FALSE, limited |-> FALSE, auto |-> "no", dma |-> "no",
           size |-> "block"]
Answers == {"later", "ok", "fail"}
Unit(s, h) == 2 * s + h
Block(s) == <<Unit(s, 0), Unit(s, 1)>>
Register == Block(BlockCount)       \* a register that travels as data

TypeOK ==
    /\ dev.cs \in {"IDLE", "READY", "IDENT", "STBY", "TRAN", "DATA", "RCV",
                   "INA"}
    /\ dev.dir \in {"none", "read", "write"} /\ dev.sector \in 0..BlockCount
    /\ dev.pend \in {"none", "read", "write"}
    /\ dev.status \subseteq Normal /\ dev.errs \subseteq Errors
    /\ dev.pos \in 0..2 /\ dev.len \in {0, 2} /\ dev.pos <= dev.len
    /\ dev.left \in 0..BlockCount /\ dev.blocksLeft \in Counts \cup {0, 1}
    /\ \A f \in {"active", "waiting", "paused", "atBoundary", "irq", "power",
                 "inserted", "enable", "signal"} : dev[f] \in BOOLEAN
    /\ drv.at \in {"init", "idle", "wait", "ack", "port", "resume", "reset", "stop",
                   "lost", "out"}
    /\ drv.end \in {"none", "ok", "error"}

-----------------------------------------------------------------------------
(* Interrupts. *)

UpdateIrq(d) ==
    [d EXCEPT !.irq = d.signal /\ (d.status # {} \/ d.errs # {})]

(* Only what is enabled is recorded. *)
RaiseNormal(d, bit) ==
    UpdateIrq([d EXCEPT !.status = IF d.enable THEN @ \cup {bit} ELSE @])

RaiseError(d, bit) ==
    UpdateIrq([d EXCEPT !.errs = IF d.enable THEN @ \cup {bit} ELSE @])

-----------------------------------------------------------------------------
(* The card. *)

HaltDataTransfer(d) ==
    [d EXCEPT !.dir = "none", !.multiple = FALSE, !.left = 0, !.reg = FALSE]

EndDataTransfer(d) ==
    [HaltDataTransfer(d) EXCEPT !.cs = IF d.cs \in {"DATA", "RCV"} THEN "TRAN"
                                       ELSE @]

(* HostBlockDevice::Cancel() forgets the card's request. *)
Cancel(d) == [d EXCEPT !.image = <<>>, !.pend = "none"]

CardReset(d) ==
    [HaltDataTransfer(Cancel(d)) EXCEPT
        !.cs = "IDLE", !.fail = FALSE, !.app = FALSE, !.rca = 0, !.sector = 0,
        !.next = 0, !.ifCond = FALSE]

(* Mutant: the image keeps the request of a transfer that is given up. *)
StopTransferKeeps(d) == HaltDataTransfer([d EXCEPT !.pend = "none"])

StopTransfer(d) == HaltDataTransfer(Cancel(d))

(* Mutant: the count of SET_BLOCK_COUNT does not end the transfer. *)
AdvanceBlockOpen(d) ==
    LET e == [d EXCEPT !.sector = @ + 1]
    IN  IF ~d.multiple THEN EndDataTransfer(e) ELSE e

AdvanceBlock(d) ==
    LET e == [d EXCEPT !.sector = @ + 1]
    IN  CASE ~d.multiple -> EndDataTransfer(e)
          [] d.multiple /\ d.left = 1 -> EndDataTransfer(e)
          [] d.multiple /\ d.left # 1 ->
             [e EXCEPT !.left = IF @ > 0 THEN @ - 1 ELSE 0]

Fail(d) == [d EXCEPT !.fail = TRUE]
Silent(d) == [d EXCEPT !.answer = "none"]
Illegal(d) == Silent(Fail(d))

(* BuildR1() reports the error bits once. *)
R1(d) == [d EXCEPT !.answer = IF d.fail THEN "error" ELSE "fine",
                   !.fail = FALSE]

StartDataTransfer(d, dir, sector, multiple) ==
    [d EXCEPT !.dir = dir, !.sector = sector, !.multiple = multiple,
              !.reg = FALSE, !.cs = IF dir = "read" THEN "DATA" ELSE "RCV"]

StartRegisterRead(d) ==
    [d EXCEPT !.dir = "read", !.multiple = FALSE, !.left = 0, !.reg = TRUE,
              !.cs = "DATA"]

ReadWrite(d, dir, multiple, arg) ==
    CASE d.cs # "TRAN" -> Illegal(d)
      [] d.cs = "TRAN" /\ ((dir = "write" /\ d.readOnly) \/ arg >= BlockCount) ->
         R1(Fail(d))
      [] OTHER ->
         R1([StartDataTransfer(d, dir, arg, multiple)
                EXCEPT !.left = IF multiple THEN d.next ELSE 0, !.next = 0])

StopTransmission(d) ==
    IF d.cs \in {"DATA", "RCV"} THEN R1(EndDataTransfer(Cancel(d)))
    ELSE Illegal(d)

NormalCommand(d, cmd, arg) ==
    LET in(states) == d.cs \in states
        mine == arg = d.rca
        r1(states, e) == IF d.cs \in states THEN R1(e) ELSE Illegal(d)
    IN  CASE cmd = "GO_IDLE_STATE" -> Silent(CardReset(d))
          [] cmd = "SEND_IF_COND" ->
             IF in({"IDLE"}) THEN [d EXCEPT !.ifCond = TRUE, !.answer = "fine"]
             ELSE Illegal(d)
          [] cmd = "ALL_SEND_CID" ->
             IF in({"READY"}) THEN [d EXCEPT !.cs = "IDENT", !.answer = "fine"]
             ELSE Illegal(d)
          [] cmd = "SEND_RELATIVE_ADDR" ->
             r1({"IDENT", "STBY"}, [d EXCEPT !.rca = 1, !.cs = "STBY"])
          [] cmd = "SELECT_CARD" ->
             CASE ~in({"STBY", "TRAN", "DATA"}) -> Illegal(d)
               [] in({"STBY", "TRAN", "DATA"}) /\ mine /\ d.rca # 0 ->
                  r1({"STBY"}, [d EXCEPT !.cs = "TRAN"])
               [] OTHER ->
                  Silent([HaltDataTransfer(d) EXCEPT !.cs = "STBY"])
          [] cmd = "STOP_TRANSMISSION" -> StopTransmission(d)
          [] cmd = "SEND_STATUS" ->
             IF in({"STBY", "TRAN", "DATA", "RCV"}) /\ ~mine THEN Silent(d)
             ELSE r1({"STBY", "TRAN", "DATA", "RCV"}, d)
          [] cmd = "GO_INACTIVE_STATE" ->
             IF in({"STBY", "TRAN", "DATA", "RCV"})
             THEN Silent([StopTransfer(d) EXCEPT !.cs = "INA"])
             ELSE Illegal(d)
          [] cmd = "SET_BLOCK_COUNT" -> r1({"TRAN"}, [d EXCEPT !.next = arg])
          [] cmd = "SWITCH_FUNC" -> r1({"TRAN"}, StartRegisterRead(d))
          [] cmd = "APP_CMD" ->
             CASE in({"READY", "IDENT"}) -> Illegal(d)
               [] ~in({"READY", "IDENT"}) /\ ~mine -> Silent(d)
               [] OTHER -> R1([d EXCEPT !.app = TRUE])
          [] cmd = "READ_SINGLE_BLOCK" -> ReadWrite(d, "read", FALSE, arg)
          [] cmd = "READ_MULTIPLE_BLOCK" -> ReadWrite(d, "read", TRUE, arg)
          [] cmd = "WRITE_BLOCK" -> ReadWrite(d, "write", FALSE, arg)
          [] cmd = "WRITE_MULTIPLE_BLOCK" -> ReadWrite(d, "write", TRUE, arg)
          [] OTHER -> Illegal(d)

(* An application command that is none is the ordinary one. *)
AppCommand(d, cmd) ==
    CASE cmd = "SD_SEND_OP_COND" ->
         IF d.cs = "IDLE"
         THEN [d EXCEPT !.cs = IF d.ifCond THEN "READY" ELSE @,
                        !.answer = "fine"]
         ELSE Illegal(d)
      [] cmd = "SEND_SCR" ->
         IF d.cs = "TRAN" THEN R1(StartRegisterRead(d)) ELSE Illegal(d)

CardCommand(d, cmd, arg) ==
    LET e == [d EXCEPT !.app = FALSE]
    IN  CASE d.cs = "INA" -> Silent(d)
          [] d.cs # "INA" /\ d.app /\ cmd \in {"SD_SEND_OP_COND", "SEND_SCR"} ->
             AppCommand(e, cmd)
          [] OTHER -> NormalCommand(e, cmd, arg)

(* The image takes the block: what it answers at once is free, then how. *)
Ask(d, kind) ==
    LET ans == IF d.free > 0 THEN "ok" ELSE d.how
        e == [d EXCEPT !.free = IF @ > 0 THEN @ - 1 ELSE 0]
        moved == [e EXCEPT
                    !.buf = IF kind = "read" THEN Block(d.sector) ELSE @,
                    !.wrote = IF kind = "write"
                              THEN Append(@, <<d.sector, d.buf>>) ELSE @]
    IN  CASE ans = "later" ->
             [e EXCEPT !.ret = "pending", !.pend = kind,
                       !.image = Append(@, <<kind, d.sector>>)]
          [] ans = "fail" ->
             [HaltDataTransfer(Fail(e)) EXCEPT !.ret = "error"]
          [] ans = "ok" -> [AdvanceBlock(moved) EXCEPT !.ret = "ok"]

(* ReadBlock() and WriteBlock(). *)
CardBlock(d, kind) ==
    CASE d.dir # kind \/ d.pend # "none" -> [d EXCEPT !.ret = "error"]
      [] d.dir = kind /\ d.pend = "none" /\ d.reg ->
         [EndDataTransfer(d) EXCEPT !.ret = "ok", !.buf = Register]
      [] d.dir = kind /\ d.pend = "none" /\ ~d.reg
            /\ (d.sector >= BlockCount \/ d.mode.size = "short") ->
         [HaltDataTransfer(Fail(d)) EXCEPT !.ret = "error"]
      [] OTHER -> Ask(d, kind)

-----------------------------------------------------------------------------
(* The data engine of the controller. *)

Idle(d) ==
    [d EXCEPT !.active = FALSE, !.waiting = FALSE, !.paused = FALSE, !.pos = 0,
              !.len = 0]

TransferError(d, bit) == RaiseError(Idle(StopTransfer(d)), bit)

TransferAbort(d) ==
    LET e == StopTransfer(d) IN IF d.active THEN Idle(e) ELSE e

CardPowered(d) == d.inserted /\ d.power

(* Command 12 of the controller's own, which has no answer from a card     *)
(* that is inactive.                                                       *)
SendAutoCmd12(d) ==
    LET unanswered(e) == IF e.answer = "none" THEN RaiseError(e, "AUTO_CMD")
                         ELSE e
    IN  IF CardPowered(d)
        THEN unanswered(IF d.cs = "INA" THEN Silent(d)
                        ELSE StopTransmission([d EXCEPT !.app = FALSE]))
        ELSE RaiseError(d, "AUTO_CMD")

AdmaSelected(d) == d.mode.dma = "adma"

(* One line of the descriptor table. *)
AdmaFetch(d) ==
    LET l == Head(d.table)
        e == [d EXCEPT !.table = Tail(@), !.admaEnd = l.end,
                       !.admaLen = IF l.act = "tran" THEN l.len ELSE @,
                       !.admaInt = l.int /\ l.act = "tran"]
    IN  CASE d.admaEnd \/ d.table = <<>> -> TransferError(d, "ADMA")
          [] ~d.admaEnd /\ d.table # <<>> /\ l.act = "invalid" ->
             TransferError(d, "ADMA")
          [] OTHER -> IF l.int /\ l.act # "tran" THEN RaiseNormal(e, "DMA_END")
                      ELSE e

(* The lines up to one that moves data, or up to the end of the table. *)
RECURSIVE AdmaToData(_, _)
AdmaToData(d, stopAtEnd) ==
    IF d.admaLen > 0 \/ ~d.active \/ (stopAtEnd /\ d.admaEnd) THEN d
    ELSE AdmaToData(AdmaFetch(d), stopAtEnd)

(* Data left in the table is a table longer than the transfer. *)
AdmaCheckLength(d) ==
    LET longer(e) == IF e.active /\ e.admaLen # 0 THEN TransferError(e, "ADMA")
                     ELSE e
    IN  longer(AdmaToData(d, TRUE))

TransferFinish(d) ==
    LET auto == d.mode.multi /\ d.mode.auto = "cmd12"
        finish(e) ==
            IF e.active
            THEN RaiseNormal(IF auto THEN SendAutoCmd12(Idle(e)) ELSE Idle(e),
                             "XFER_COMPLETE")
            ELSE e
    IN  finish(IF d.dma /\ AdmaSelected(d) /\ d.limited THEN AdmaCheckLength(d)
               ELSE d)

CountBlock(d) ==
    [d EXCEPT !.blocksLeft = IF d.limited /\ @ > 0 THEN @ - 1 ELSE @]

ReadBlockArrived(d) ==
    LET e == [CountBlock(d) EXCEPT !.pos = 0, !.len = 2]
    IN  IF d.dma THEN e ELSE RaiseNormal(e, "BUF_RD_READY")

(* What the card did with a block the controller asked it to move. *)
CardAnswered(e, arrived(_)) ==
    CASE e.ret = "pending" -> [e EXCEPT !.waiting = TRUE]
      [] e.ret = "error" -> TransferError(e, "DATA_CRC")
      [] e.ret = "ok" -> arrived(e)

ReadNextBlock(d) ==
    IF d.limited /\ d.blocksLeft = 0 THEN TransferFinish(d)
    ELSE CardAnswered(CardBlock(d, "read"), ReadBlockArrived)

WriteBlockAccepted(d) ==
    LET accepted(e) ==
            CASE e.limited /\ e.blocksLeft = 0 -> TransferFinish(e)
              [] ~(e.limited /\ e.blocksLeft = 0) ->
                 LET f == [e EXCEPT !.pos = 0, !.len = 2]
                 IN  IF d.dma THEN f ELSE RaiseNormal(f, "BUF_WR_READY")
    IN  accepted(CountBlock(d))

WriteCurrentBlock(d) ==
    CardAnswered(CardBlock(d, "write"), WriteBlockAccepted)

(* n units between the buffer and guest memory. *)
Copy(d, n) ==
    LET new == SubSeq(d.buf, d.pos + 1, d.pos + n)
    IN  IF d.isRead THEN [d EXCEPT !.pos = @ + n, !.seen = @ \o new]
        ELSE [d EXCEPT !.pos = @ + n, !.given = @ + n,
                       !.buf = SubSeq(@, 1, d.pos)
                               \o [i \in 1..n |-> d.given + i]]

(* A line of the table, as far as the block goes. *)
AdmaMove(d) ==
    LET n == Min({d.len - d.pos, d.admaLen})
        b == [Copy(d, n) EXCEPT !.admaLen = @ - n,
                                !.admaInt = @ /\ d.admaLen > n]
    IN  CASE ~d.active -> d
          [] d.active /\ d.admaInt /\ d.admaLen = n -> RaiseNormal(b, "DMA_END")
          [] OTHER -> b

(* Up to the boundary. *)
SdmaMove(d) ==
    LET m == Min({d.len - d.pos, Boundary - d.addr})
    IN  [Copy(d, m) EXCEPT !.addr = (@ + m) % Boundary,
                           !.atBoundary = d.addr + m = Boundary]

(* Mutant: the pause does not tell the driver. *)
DmaMoveSilent(d) ==
    CASE AdmaSelected(d) -> AdmaMove(AdmaToData(d, FALSE))
      [] ~AdmaSelected(d) /\ d.atBoundary -> [d EXCEPT !.paused = TRUE]
      [] ~AdmaSelected(d) /\ ~d.atBoundary -> SdmaMove(d)

(* The pause is taken when more is asked for, not at the boundary. *)
DmaMove(d) ==
    CASE AdmaSelected(d) -> AdmaMove(AdmaToData(d, FALSE))
      [] ~AdmaSelected(d) /\ d.atBoundary ->
         RaiseNormal([d EXCEPT !.paused = TRUE], "DMA_END")
      [] ~AdmaSelected(d) /\ ~d.atBoundary -> SdmaMove(d)

RECURSIVE DmaRun(_)
DmaRun(d) ==
    LET tableDone == d.admaEnd /\ d.admaLen = 0
        between == IF d.isRead THEN d.pos >= d.len ELSE d.pos = 0
    IN  IF ~d.active \/ d.paused \/ d.waiting THEN d
        ELSE IF AdmaSelected(d) /\ ~d.limited /\ tableDone /\ between
             THEN TransferFinish(d)
             ELSE DmaRun(CASE d.pos < d.len -> DmaMove(d)
                           [] d.pos >= d.len /\ d.isRead -> ReadNextBlock(d)
                           [] d.pos >= d.len /\ ~d.isRead ->
                              WriteCurrentBlock(d))

(* Mutant: what an earlier transfer left is not cleared. *)
StartedStale(d) ==
    LET limited == ~d.mode.multi \/ d.mode.limited
    IN  [d EXCEPT !.isRead = d.dir = "read", !.dma = d.mode.dma # "no",
                  !.waiting = FALSE, !.paused = FALSE,
                  !.pos = 0, !.len = 0, !.active = TRUE, !.limited = limited,
                  !.blocksLeft = CASE ~d.mode.multi -> 1
                                   [] d.mode.multi /\ limited -> d.count
                                   [] d.mode.multi /\ ~limited -> 0]

(* The engine as a transfer starts. *)
Started(d) ==
    LET limited == ~d.mode.multi \/ d.mode.limited
    IN  [d EXCEPT !.isRead = d.dir = "read", !.dma = d.mode.dma # "no",
                  !.waiting = FALSE, !.paused = FALSE, !.atBoundary = FALSE,
                  !.admaEnd = FALSE, !.admaInt = FALSE, !.admaLen = 0,
                  !.pos = 0, !.len = 0, !.active = TRUE, !.limited = limited,
                  !.blocksLeft = CASE ~d.mode.multi -> 1
                                   [] d.mode.multi /\ limited -> d.count
                                   [] d.mode.multi /\ ~limited -> 0]

(* A write has its buffer at once; a read waits for the card's. *)
MoveFirst(e) ==
    LET f == IF e.isRead THEN e ELSE [e EXCEPT !.len = 2]
    IN  CASE ~e.isRead /\ e.limited /\ e.blocksLeft = 0 -> TransferFinish(e)
          [] (e.isRead \/ ~(e.limited /\ e.blocksLeft = 0)) /\ e.dma -> DmaRun(f)
          [] e.isRead /\ ~e.dma -> ReadNextBlock(e)
          [] ~e.isRead /\ ~(e.limited /\ e.blocksLeft = 0) /\ ~e.dma ->
             RaiseNormal(f, "BUF_WR_READY")

TransferStart(d) ==
    CASE d.mode.size = "zero" -> RaiseNormal(StopTransfer(d), "XFER_COMPLETE")
      [] d.mode.size = "long" -> RaiseError(d, "DATA_CRC")
      [] d.mode.size \in {"block", "short"} ->
         IF d.dir = "none" THEN RaiseError(d, "DATA_TIMEOUT")
         ELSE MoveFirst(Started(d))

(* The card has the answer of the image to its block. *)
DataComplete(d, ok) ==
    LET e == [d EXCEPT !.waiting = FALSE]
        goOn(f) == IF f.dma /\ f.active THEN DmaRun(f) ELSE f
    IN  CASE ~d.waiting -> d
          [] d.waiting /\ ~d.active -> e
          [] d.waiting /\ d.active /\ ~ok -> TransferError(e, "DATA_CRC")
          [] d.waiting /\ d.active /\ ok ->
             goOn(IF d.isRead THEN ReadBlockArrived(e)
                  ELSE WriteBlockAccepted(e))

BlockDone(d, i, ok) ==
    LET r == d.image[i]
        e == [d EXCEPT !.image = RemoveAt(@, i), !.pend = "none"]
        moved == [e EXCEPT
                    !.buf = IF r[1] = "read" THEN Block(r[2]) ELSE @,
                    !.wrote = IF r[1] = "write" THEN Append(@, <<r[2], d.buf>>)
                              ELSE @]
    IN  DataComplete(IF ok THEN AdvanceBlock(moved)
                     ELSE HaltDataTransfer(Fail(e)), ok)

-----------------------------------------------------------------------------
(* Commands and registers of the controller. *)

(* What follows the response. *)
Responded(d, c, done) ==
    LET stop == TransferAbort(done)
        busy == c.resp = "busy"
    IN  CASE c.cmd = "STOP_TRANSMISSION" ->
             IF d.active \/ busy THEN RaiseNormal(stop, "XFER_COMPLETE")
             ELSE stop
          [] c.cmd # "STOP_TRANSMISSION" /\ c.data -> TransferStart(done)
          [] OTHER -> IF busy THEN RaiseNormal(done, "XFER_COMPLETE") ELSE done

(* The data is there for a command with data, the busy for one of those.   *)
(* Command 23 of the controller's own goes before it.                      *)
SendCommand(d, c) ==
    LET auto23 == c.data /\ d.mode.auto = "cmd23"
        answered(e) ==
            IF c.resp # "none" /\ e.answer = "none"
            THEN RaiseError(e, "CMD_TIMEOUT")
            ELSE Responded(d, c, RaiseNormal(e, "CMD_COMPLETE"))
        counted(a) ==
            IF auto23 /\ a.answer = "none" THEN RaiseError(a, "AUTO_CMD")
            ELSE answered(CardCommand(a, c.cmd, c.arg))
    IN  IF CardPowered(d)
        THEN counted(IF auto23 THEN CardCommand(d, "SET_BLOCK_COUNT", d.count)
                     ELSE d)
        ELSE answered(Silent(d))

(* The last word of a block in the buffer. *)
BufferRead(d) ==
    LET e == Copy(d, d.len - d.pos)
    IN  IF d.active /\ ~d.dma /\ d.isRead THEN ReadNextBlock(e) ELSE d

BufferWrite(d) ==
    LET e == Copy(d, d.len - d.pos)
    IN  IF d.active /\ ~d.dma /\ ~d.isRead THEN WriteCurrentBlock(e) ELSE d

(* Writing the SDMA address resumes a paused transfer. *)
WriteDmaAddress(d, addr) ==
    IF d.paused
    THEN DmaRun([d EXCEPT !.addr = addr, !.paused = FALSE,
                          !.atBoundary = FALSE])
    ELSE [d EXCEPT !.addr = addr]

(* Taking the power away resets the card. *)
SetPowerControl(d, on) ==
    LET e == [d EXCEPT !.power = on /\ d.inserted]
    IN  IF d.power /\ ~e.power THEN CardReset(TransferAbort(e)) ELSE e

(* The test bits of the host control register stand in for the pin. *)
UpdateCardDetect(d, inserted) ==
    LET e == [d EXCEPT !.inserted = inserted]
        f == IF inserted THEN e ELSE SetPowerControl(e, FALSE)
    IN  IF inserted = d.inserted THEN d
        ELSE RaiseNormal(f, IF inserted THEN "CARD_INSERT" ELSE "CARD_REMOVE")

SoftResetAll(d) ==
    LET e == [SetPowerControl(TransferAbort(d), FALSE)
                EXCEPT !.mode = NoMode, !.count = 0, !.addr = 0, !.status = {},
                       !.errs = {}, !.enable = FALSE, !.signal = FALSE]
    IN  UpdateIrq(UpdateCardDetect(e, TRUE))

SoftResetCmd(d) ==
    UpdateIrq([d EXCEPT !.status = @ \ {"CMD_COMPLETE"},
                        !.errs = @ \ {"CMD_TIMEOUT"}])

SoftResetData(d) ==
    UpdateIrq([TransferAbort(d)
                EXCEPT !.status = @ \ {"XFER_COMPLETE", "DMA_END",
                                       "BUF_RD_READY", "BUF_WR_READY"},
                       !.errs = @ \ {"DATA_TIMEOUT", "DATA_CRC", "ADMA"}])

(* Write one to clear. *)
WriteStatus(d, bits, errs) ==
    UpdateIrq([d EXCEPT !.status = @ \ bits, !.errs = @ \ errs])

-----------------------------------------------------------------------------
(* The driver.  It takes the card through its identification, and then has *)
(* one request at a time; it does not read the data port before it is told *)
(* to.                                                                     *)

Cmd(cmd, arg, resp) == [cmd |-> cmd, arg |-> arg, resp |-> resp, data |-> FALSE]

Identify ==
    << Cmd("GO_IDLE_STATE", 0, "none"), Cmd("SEND_IF_COND", 0, "short"),
       Cmd("APP_CMD", 0, "short"), Cmd("SD_SEND_OP_COND", 0, "short"),
       Cmd("ALL_SEND_CID", 0, "long"), Cmd("SEND_RELATIVE_ADDR", 0, "short"),
       Cmd("SELECT_CARD", 1, "busy") >>
Stop == Cmd("STOP_TRANSMISSION", 0, "busy")

NoRequest == [op |-> "none", start |-> 0, count |-> 0, end |-> "single",
              dma |-> "no", size |-> "block", table |-> <<>>, addr |-> 0]

Multi(r) == r.end # "single"

DataCommand(r) ==
    [cmd |-> CASE r.op = "register" -> "SWITCH_FUNC"
               [] r.op = "read" /\ ~Multi(r) -> "READ_SINGLE_BLOCK"
               [] r.op = "read" /\ Multi(r) -> "READ_MULTIPLE_BLOCK"
               [] r.op = "write" /\ ~Multi(r) -> "WRITE_BLOCK"
               [] r.op = "write" /\ Multi(r) -> "WRITE_MULTIPLE_BLOCK",
     arg |-> r.start, resp |-> "short", data |-> TRUE]

Init ==
    /\ uses \in Uses
    /\ dev = [cs |-> "IDLE", fail |-> FALSE, app |-> FALSE, rca |-> 0,
              ifCond |-> FALSE, dir |-> "none", sector |-> 0,
              multiple |-> FALSE, left |-> 0, next |-> 0, reg |-> FALSE,
              pend |-> "none", readOnly |-> uses.readOnly, answer |-> "none",
              image |-> <<>>, free |-> 0, how |-> "later", ret |-> "ok",
              status |-> {}, errs |-> {}, enable |-> FALSE, signal |-> FALSE,
              irq |-> FALSE, active |-> FALSE, isRead |-> FALSE, dma |-> FALSE,
              limited |-> FALSE, blocksLeft |-> 0, waiting |-> FALSE,
              paused |-> FALSE, atBoundary |-> FALSE, addr |-> 0,
              table |-> <<>>, admaLen |-> 0, admaEnd |-> FALSE,
              admaInt |-> FALSE, buf |-> <<0, 0>>, pos |-> 0, len |-> 0,
              mode |-> NoMode, count |-> 0, power |-> FALSE,
              inserted |-> TRUE, seen |-> <<>>, wrote |-> <<>>, given |-> 0]
    /\ drv = [at |-> "init", step |-> 0, req |-> NoRequest, end |-> "none",
              saw |-> {}, sawErrs |-> {}]

(* A step in which the image may be asked, with what it will answer. *)
Asking(d) ==
    {[d EXCEPT !.free = k, !.how = a] : k \in 0..2, a \in Answers}
Settled(d) == [d EXCEPT !.free = 0, !.how = "later", !.ret = "ok"]

(* Commands without data are over when they return: the driver clears what *)
(* they raised.                                                            *)
Cleared(d) == WriteStatus(d, Normal, Errors)

PowerOn ==
    /\ drv.at = "init" /\ drv.step = 0
    /\ dev' = [SetPowerControl(dev, TRUE) EXCEPT !.enable = TRUE,
                                                 !.signal = TRUE]
    /\ drv' = [drv EXCEPT !.step = 1, !.req = NoRequest, !.end = "none"]
    /\ UNCHANGED uses

IdentifyCard ==
    /\ drv.at = "init" /\ drv.step > 0
    /\ LET e == SendCommand(dev, Identify[drv.step])
       IN  /\ dev' = Cleared(e)
           /\ drv' = CASE e.errs # {} -> [drv EXCEPT !.at = "lost"]
                       [] e.errs = {} /\ drv.step = Len(Identify) ->
                          [drv EXCEPT !.at = "idle", !.step = 0]
                       [] OTHER -> [drv EXCEPT !.step = @ + 1]
    /\ UNCHANGED uses

SendRequest(r) ==
    /\ drv.at = "idle"
    /\ LET m == [multi |-> Multi(r), limited |-> r.end # "open",
                 auto |-> IF r.end \in {"cmd12", "cmd23"} THEN r.end ELSE "no",
                 dma |-> r.dma, size |-> r.size]
           d == [dev EXCEPT !.mode = m, !.count = r.count, !.addr = r.addr,
                            !.table = r.table, !.seen = <<>>, !.wrote = <<>>,
                            !.given = 0]
       IN  \E a \in Asking(d) : dev' = Settled(SendCommand(a, DataCommand(r)))
    /\ drv' = [drv EXCEPT !.at = "wait", !.req = r, !.end = "none"]
    /\ UNCHANGED uses

ReadStatus ==
    /\ drv.at = "wait" /\ (dev.irq \/ ~dev.signal)
    /\ dev.status # {} \/ dev.errs # {}
    /\ drv' = [drv EXCEPT !.at = "ack", !.saw = dev.status,
                          !.sawErrs = dev.errs]
    /\ UNCHANGED <<dev, uses>>

(* The driver ends an open transfer after its last block. *)
Moved(d) == Len(d.seen) + d.given
Enough(d, r) == r.end = "open" /\ r.dma = "no" /\ Moved(d) = 2 * r.count

ClearStatus ==
    /\ drv.at = "ack"
    /\ dev' = WriteStatus(dev, drv.saw, drv.sawErrs)
    /\ drv' = [drv EXCEPT
                !.at = CASE drv.sawErrs # {} -> "reset"
                         [] drv.sawErrs = {} /\ "XFER_COMPLETE" \in drv.saw ->
                            IF drv.req.end \in {"open", "limited"}
                               \/ drv.req.size = "zero" THEN "stop" ELSE "idle"
                         [] OTHER ->
                            IF drv.saw \cap {"BUF_RD_READY", "BUF_WR_READY"} # {}
                            THEN IF Enough(dev, drv.req) THEN "stop" ELSE "port"
                            ELSE IF "DMA_END" \in drv.saw /\ drv.req.dma = "sdma"
                            THEN "resume" ELSE "wait",
                !.end = CASE drv.sawErrs # {} -> "error"
                          [] drv.sawErrs = {} /\ "XFER_COMPLETE" \in drv.saw ->
                             "ok"
                          [] OTHER -> @,
                !.saw = {}, !.sawErrs = {}]
    /\ UNCHANGED uses

DataPort ==
    /\ drv.at = "port"
    /\ \E a \in Asking(dev) :
          dev' = Settled(IF drv.req.op = "write" THEN BufferWrite(a)
                         ELSE BufferRead(a))
    /\ drv' = [drv EXCEPT !.at = "wait"]
    /\ UNCHANGED uses

Resume ==
    /\ drv.at = "resume"
    /\ \E a \in Asking(dev) : dev' = Settled(WriteDmaAddress(a, 0))
    /\ drv' = [drv EXCEPT !.at = "wait"]
    /\ UNCHANGED uses

(* After an error: both lines are reset, and the card is stopped. *)
ResetLines ==
    /\ drv.at = "reset"
    /\ dev' = SoftResetData(SoftResetCmd(dev))
    /\ drv' = [drv EXCEPT !.at = "stop"]
    /\ UNCHANGED uses

SendStop ==
    /\ drv.at = "stop"
    /\ LET e == SendCommand(dev, Stop)
       IN  /\ dev' = Cleared(IF e.active THEN SoftResetData(e) ELSE e)
           /\ drv' = [drv EXCEPT
                        !.at = IF e.cs = "TRAN" THEN "idle" ELSE "lost",
                        !.end = IF @ = "none" THEN "ok" ELSE @]
    /\ UNCHANGED uses

(* The driver's own time runs out. *)
GiveUp ==
    /\ "giveup" \in uses.ops /\ drv.at \in {"wait", "port", "resume"}
    /\ drv' = [drv EXCEPT !.at = "reset", !.end = "error"]
    /\ UNCHANGED <<dev, uses>>

PowerOff ==
    /\ ("power" \in uses.ops /\ drv.at = "wait") \/ drv.at = "lost"
    /\ dev' = Cleared(SetPowerControl(dev, FALSE))
    /\ drv' = [drv EXCEPT !.at = "init", !.step = 0]
    /\ UNCHANGED uses

ResetAll ==
    /\ "reset" \in uses.ops /\ drv.at = "wait"
    /\ dev' = SoftResetAll(dev)
    /\ drv' = [drv EXCEPT !.at = "init", !.step = 0]
    /\ UNCHANGED uses

(* The card detect test bits. *)
Eject ==
    /\ "eject" \in uses.ops /\ drv.at \in {"wait", "idle"}
    /\ dev' = UpdateCardDetect(dev, FALSE)
    /\ drv' = [drv EXCEPT !.at = "out"]
    /\ UNCHANGED uses

Insert ==
    /\ drv.at = "out"
    /\ dev' = Cleared(UpdateCardDetect(dev, TRUE))
    /\ drv' = [drv EXCEPT !.at = "init", !.step = 0]
    /\ UNCHANGED uses

Deactivate ==
    /\ "inactive" \in uses.ops /\ drv.at = "idle"
    /\ dev' = Cleared(SendCommand(dev, Cmd("GO_INACTIVE_STATE", 1, "none")))
    /\ UNCHANGED <<drv, uses>>

(* A driver that polls masks the signal. *)
Mask ==
    /\ "mask" \in uses.ops /\ drv.at = "wait"
    /\ dev' = UpdateIrq([dev EXCEPT !.signal = ~@])
    /\ UNCHANGED <<drv, uses>>

(* The image answers the request it holds. *)
ImageAnswers(i, ok) ==
    /\ \E a \in Asking(dev) : dev' = Settled(BlockDone(a, i, ok))
    /\ UNCHANGED <<drv, uses>>

Next ==
    \/ PowerOn \/ IdentifyCard
    \/ \E r \in uses.reqs : SendRequest(r)
    \/ ReadStatus \/ ClearStatus \/ DataPort \/ Resume
    \/ ResetLines \/ SendStop \/ GiveUp \/ PowerOff \/ ResetAll
    \/ Eject \/ Insert \/ Deactivate \/ Mask
    \/ \E i \in 1..Len(dev.image), ok \in BOOLEAN : ImageAnswers(i, ok)

Spec == Init /\ [][Next]_vars

-----------------------------------------------------------------------------
(* The image holds a block exactly while the card does, and then the       *)
(* controller waits for the card: a transfer that is aborted, reset, or    *)
(* loses its power leaves nothing behind that could be answered into the   *)
(* next one (SDMemoryCard::StopTransfer(), SDHCIDevice::TransferAbort()).  *)
ImageKnows ==
    /\ Len(dev.image) = IF dev.pend = "none" THEN 0 ELSE 1
    /\ dev.waiting = (dev.pend # "none")
    /\ dev.waiting => dev.active

(* A transfer that has not ended waits for the card, for a DMA address, or *)
(* for the guest at the data port; and the driver has been told of what it *)
(* is to do (DmaRun(), ReadBlockArrived(), WriteBlockAccepted()).          *)
NoneStuck ==
    /\ dev.active /\ ~dev.waiting =>
         IF dev.dma THEN dev.paused ELSE dev.pos < dev.len
    /\ drv.at = "wait" /\ ~dev.waiting => dev.status # {} \/ dev.errs # {}
    /\ dev.active /\ dev.paused /\ drv.at \in {"wait", "ack"} =>
         "DMA_END" \in dev.status
    /\ dev.signal => dev.irq = (dev.status # {} \/ dev.errs # {})

(* What n blocks of a request are, as read and as written. *)
Wanted(r, n) ==
    IF r.op = "register" THEN Register
    ELSE FlattenSeq([i \in 1..n |-> Block(r.start + i - 1)])
Given(r, n) == [i \in 1..n |-> <<r.start + i - 1, <<2 * i - 1, 2 * i>> >>]
AtMost(r) == IF r.end = "open" /\ r.dma # "no" THEN BlockCount ELSE r.count

(* The data of a request moves in order and unit by unit, whatever engine  *)
(* moves it and however the image answers; a request that ends well has    *)
(* moved all of it, and nothing more (DmaMove(), BufferRead(),             *)
(* BufferWrite()).                                                         *)
DataWhole ==
    LET r == drv.req
    IN  /\ r.op \in {"read", "register"} =>
             /\ IsPrefix(dev.seen, Wanted(r, AtMost(r)))
             /\ drv.end = "ok" /\ r.size # "zero" =>
                  dev.seen = Wanted(r, r.count)
        /\ r.op = "write" =>
             /\ IsPrefix(dev.wrote, Given(r, AtMost(r)))
             /\ drv.end = "ok" /\ r.size # "zero" =>
                  dev.wrote = Given(r, r.count)

(* A transfer ends once, and at its end the card is ready for the next:    *)
(* a count given with SET_BLOCK_COUNT, STOP_TRANSMISSION and a single      *)
(* block each end the card's side with the controller's (TransferFinish(), *)
(* AdvanceBlock()).                                                        *)
EndsTogether ==
    /\ "XFER_COMPLETE" \in dev.status =>
         ~dev.active /\ dev.errs \cap {"DATA_CRC", "DATA_TIMEOUT", "ADMA"} = {}
    /\ drv.at = "idle" /\ drv.end = "ok" => dev.cs \in {"TRAN", "INA"}
    /\ drv.at = "idle" => ~dev.active /\ dev.dir = "none"

================================================================================
