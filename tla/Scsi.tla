--------------------------------- MODULE Scsi ---------------------------------
(***************************************************************************)
(* SCSI disks (device/storage/scsi_disk.cpp) behind an initiator: the      *)
(* BusLogic adapter with its mailboxes (device/storage/buslogic.cpp) or    *)
(* the virtio host (device/storage/virtio_scsi.cpp).  A handler runs with  *)
(* the device lock held and is a step on the state of all of them, dev.    *)
(*                                                                         *)
(* A command is a CCB or a descriptor, with the target it is for.  What it *)
(* asks is abstracted: a unit refuses it or answers it at once, or has it  *)
(* with the disk image, dev.image, as BlockContract has it.  The outgoing  *)
(* and incoming mailboxes are in guest memory, dev.out and dev.in.         *)
(***************************************************************************)
EXTENDS Integers, Sequences, FiniteSets, SequencesExt

CONSTANTS
    Commands,       \* CCBs, or descriptors of the request queue
    Targets,        \* each has one unit
    Boxes,          \* mailboxes of each kind
    Uses            \* scenarios

VARIABLES
    dev,        \* adapter, units, mailboxes
    drv,        \* the driver
    uses

vars == <<dev, drv, uses>>

Free == [code |-> "free", cmd |-> 0]
Box == 0..(Boxes - 1)
Mails == {"ok", "error", "aborted", "notfound"}
Bits == {"IMBL", "MBOR", "CMDC", "RSTS"}
NoTarget == 0

TypeOK ==
    /\ dev.host \in {"buslogic", "virtio"}
    /\ dev.intr \subseteq Bits /\ dev.again \in BOOLEAN /\ dev.line \in BOOLEAN
    /\ {dev.dma, dev.stalled} \subseteq BOOLEAN
    /\ dev.outIdx \in Box /\ dev.inIdx \in Box
    /\ \A b \in Box : /\ dev.out[b].code \in {"free", "start", "abort"}
                      /\ dev.in[b].code \in Mails \cup {"free"}
    /\ dev.units \subseteq Commands /\ dev.image \subseteq Commands
    /\ Range(dev.inFlight) \subseteq Commands
    /\ drv.owed \subseteq Commands
    /\ drv.at \in {"idle", "scan", "ack"}

Init ==
    /\ uses \in Uses
    /\ dev = [host |-> uses.host, ready |-> FALSE, intr |-> {}, again |-> FALSE,
              line |-> FALSE, enabled |-> TRUE, mbor |-> FALSE, strict |-> FALSE,
              reply |-> FALSE, cmd |-> FALSE, outIdx |-> 0, inIdx |-> 0,
              pending |-> <<>>, inFlight |-> <<>>, units |-> {}, image |-> {},
              out |-> [b \in Box |-> Free], in |-> [b \in Box |-> Free],
              used |-> <<>>, dma |-> TRUE, stalled |-> FALSE]
    /\ drv = [owed |-> {}, aborting |-> {}, at |-> "idle", saw |-> {},
              outIdx |-> 0, inIdx |-> 0, waits |-> FALSE,
              to |-> [c \in Commands |-> CHOOSE t \in Targets : TRUE]]

-----------------------------------------------------------------------------
(* Interrupts, and mail for the driver. *)

UpdateIrq(d) == [d EXCEPT !.line = d.enabled /\ d.intr # {}]

(* Mutant: mail that comes while IMBL is up is not announced again. *)
RaiseIntrOnce(d, bit) == UpdateIrq([d EXCEPT !.intr = @ \cup {bit}])

(* Mail that comes while IMBL is up is announced again after the driver's  *)
(* acknowledgement.                                                        *)
RaiseIntr(d, bit) ==
    UpdateIrq([d EXCEPT !.again = @ \/ (bit = "IMBL" /\ bit \in d.intr),
                        !.intr = @ \cup {bit}])

(* As much as the free mailboxes ahead take; none can be read while the    *)
(* adapter is not a bus master.                                            *)
RECURSIVE Deliver(_)
Deliver(d) ==
    IF d.pending = <<>> \/ ~d.ready \/ ~d.dma \/ d.in[d.inIdx] # Free THEN d
    ELSE Deliver([d EXCEPT !.in[d.inIdx] = Head(d.pending),
                           !.pending = Tail(@),
                           !.inIdx = (@ + 1) % Boxes])

(* d.stalled is history: the mailboxes could not be read the last time. *)
FlushPending(d) ==
    LET e == Deliver([d EXCEPT !.stalled = ~d.dma])
    IN  IF e.pending # d.pending THEN RaiseIntr(e, "IMBL") ELSE e

(* A mailbox of the adapter, or the used ring of the virtio host. *)
PostInMail(d, c, code) ==
    IF d.host = "buslogic"
    THEN FlushPending([d EXCEPT !.pending = Append(@, [code |-> code, cmd |-> c])])
    ELSE [d EXCEPT !.used = Append(@, [code |-> code, cmd |-> c])]

-----------------------------------------------------------------------------
(* Units, and the commands the initiator has with them. *)

(* Mutant: only the unit forgets it. *)
CancelKeeps(d, C) == [d EXCEPT !.units = @ \ C]

(* SCSIDisk::Cancel(): the image forgets the request. *)
Cancel(d, C) == [d EXCEPT !.units = @ \ C, !.image = @ \ C]

(* SCSIDisk::Reset() of the units of the targets T. *)
ResetUnits(d, T) == Cancel(d, {c \in d.units : drv.to[c] \in T})

(* Those of inFlight that match, in order, each taken back and answered. *)
RECURSIVE Abort(_, _, _)
Abort(d, match, code) ==
    LET mine == SelectSeq(d.inFlight, LAMBDA c : c \in match)
    IN  IF mine = <<>> THEN d
        ELSE LET c == Head(mine)
             IN  Abort(PostInMail([Cancel(d, {c}) EXCEPT
                                    !.inFlight = SelectSeq(@, LAMBDA x : x # c)],
                                  c, code), match, code)

On(T) == {c \in Commands : drv.to[c] \in T}

(* Finish(): data, status and the answer. *)
CommandFinished(d, c, ok) ==
    PostInMail([d EXCEPT !.inFlight = SelectSeq(@, LAMBDA x : x # c)], c,
               IF ok THEN "ok" ELSE "error")

(* A command with no target, or that cannot be read, is answered; one for  *)
(* a unit is listed first, as the unit may answer at once.                 *)
Start(d, c, ans) ==
    IF drv.to[c] = NoTarget THEN PostInMail(d, c, "error")
    ELSE LET e == [d EXCEPT !.inFlight = Append(@, c)]
         IN  IF ans[c] = "later"
             THEN [e EXCEPT !.units = @ \cup {c}, !.image = @ \cup {c}]
             ELSE CommandFinished(e, c, ans[c] = "ok")

(* A bus device reset is a command of its own, for target t. *)
DeviceReset(d, c) ==
    LET t == drv.to[c]
    IN  IF t = NoTarget THEN PostInMail(d, c, "error")
        ELSE PostInMail(Abort(ResetUnits(d, {t}), On({t}), "error"), c, "ok")

StartCcb(d, c, ans) ==
    IF c \in uses.resets THEN DeviceReset(d, c) ELSE Start(d, c, ans)

AbortCcb(d, c) ==
    IF c \in Range(d.inFlight) THEN Abort(d, {c}, "aborted")
    ELSE PostInMail(d, c, "notfound")

RECURSIVE ProcessBoxes(_, _, _)
ProcessBoxes(d, n, ans) ==
    LET mbo == d.out[d.outIdx]
        skip == [d EXCEPT !.outIdx = (@ + 1) % Boxes]
        taken == [skip EXCEPT !.out[d.outIdx] = Free]
        told == IF d.mbor THEN RaiseIntr(taken, "MBOR") ELSE taken
    IN  CASE n = 0 \/ ~d.dma \/ (mbo = Free /\ d.strict) -> d
          [] n > 0 /\ d.dma /\ mbo = Free /\ ~d.strict -> ProcessBoxes(skip, n - 1, ans)
          [] n > 0 /\ d.dma /\ mbo.code = "start" ->
             ProcessBoxes(StartCcb(told, mbo.cmd, ans), n - 1, ans)
          [] n > 0 /\ d.dma /\ mbo.code = "abort" ->
             ProcessBoxes(AbortCcb(told, mbo.cmd), n - 1, ans)

ProcessMailboxes(d, ans) == IF d.ready THEN ProcessBoxes(d, Boxes, ans) ELSE d

(* The commands the adapter had are forgotten without an answer. *)
Reset(d, hard) ==
    LET e == Cancel(d, Range(d.inFlight))
    IN  UpdateIrq([(IF hard THEN ResetUnits(e, Targets) ELSE e) EXCEPT
            !.inFlight = <<>>, !.pending = <<>>, !.intr = {}, !.again = FALSE,
            !.enabled = @ \/ hard, !.cmd = FALSE, !.reply = FALSE,
            !.mbor = FALSE, !.ready = FALSE, !.outIdx = 0, !.inIdx = 0,
            !.strict = FALSE, !.stalled = FALSE])

(* The commands on the bus end with a bus reset status. *)
ResetBus(d) ==
    RaiseIntr(Abort(ResetUnits(d, Targets), Commands, "error"), "RSTS")

(* RINT. *)
ResetInterrupt(d) ==
    LET e == FlushPending(UpdateIrq([d EXCEPT !.intr = {}]))
    IN  IF e.again THEN RaiseIntr([e EXCEPT !.again = FALSE], "IMBL") ELSE e

(* A host adapter command with its parameters: one that has a reply is     *)
(* done when the reply has been read.                                      *)
Execute(d, c) ==
    CASE c = "inquire" -> [d EXCEPT !.cmd = TRUE, !.reply = TRUE]
      [] c = "init" ->
         RaiseIntr([d EXCEPT !.ready = TRUE, !.outIdx = 0, !.inIdx = 0], "CMDC")
      [] c = "mbor" -> RaiseIntr([d EXCEPT !.mbor = TRUE], "CMDC")
      [] c = "strict" -> RaiseIntr([d EXCEPT !.strict = TRUE], "CMDC")
      [] c = "mask" -> RaiseIntr(UpdateIrq([d EXCEPT !.enabled = FALSE]), "CMDC")
      [] c = "unmask" -> RaiseIntr(UpdateIrq([d EXCEPT !.enabled = TRUE]), "CMDC")
      [] c = "invalid" -> RaiseIntr(d, "CMDC")

-----------------------------------------------------------------------------
(* The driver of the adapter.  It gives a host adapter command only while  *)
(* it has no other business: nothing is owed and no interrupt handled.     *)

Busy == drv.owed # {} \/ drv.at # "idle" \/ drv.waits \/ dev.intr # {}

(* The CCB or descriptor it takes next. *)
Unused == Commands \ (drv.owed \cup drv.aborting)

HostCommand ==
    /\ dev.host = "buslogic" /\ ~Busy
    /\ \E c \in uses.setup \cup (IF dev.ready THEN {} ELSE {"init"}) :
        /\ c \in {"mbor", "strict"} => dev.ready
        /\ dev' = Execute(dev, c)
        /\ drv' = [drv EXCEPT !.waits = TRUE,
                              !.outIdx = IF c = "init" THEN 0 ELSE @,
                              !.inIdx = IF c = "init" THEN 0 ELSE @]
    /\ UNCHANGED uses

ReadReply ==
    /\ dev.reply /\ drv.at = "idle"
    /\ dev' = RaiseIntr([dev EXCEPT !.cmd = FALSE, !.reply = FALSE], "CMDC")
    /\ UNCHANGED <<drv, uses>>

(* A mailbox is filled, and the adapter told in a step of its own. *)
Post ==
    /\ dev.ready /\ ~drv.waits /\ dev.out[drv.outIdx] = Free
    /\ \E c \in Commands, t \in uses.targets :
        \/ /\ Unused # {} /\ c = Min(Unused)
           /\ Cardinality(drv.owed) < uses.most
           /\ dev' = [dev EXCEPT !.out[drv.outIdx] = [code |-> "start", cmd |-> c]]
           /\ drv' = [drv EXCEPT !.outIdx = (@ + 1) % Boxes,
                                 !.owed = @ \cup {c}, !.to[c] = t]
        \/ /\ "abort" \in uses.ops /\ t = drv.to[c]
           /\ c \in drv.owed \ drv.aborting
           /\ dev' = [dev EXCEPT !.out[drv.outIdx] = [code |-> "abort", cmd |-> c]]
           /\ drv' = [drv EXCEPT !.outIdx = (@ + 1) % Boxes,
                                 !.aborting = @ \cup {c}]
    /\ UNCHANGED uses

Outcomes == [{dev.out[b].cmd : b \in Box} -> {"later", "ok", "fail"}]

Kick ==
    /\ dev.host = "buslogic" /\ dev.ready /\ ~drv.waits
    /\ \E b \in Box : dev.out[b] # Free
    /\ \E ans \in Outcomes : dev' = ProcessMailboxes(dev, ans)
    /\ UNCHANGED <<drv, uses>>

(* The interrupt handler: the register is read and acknowledged, and the   *)
(* mailboxes are emptied before that, if they are what it is about, or     *)
(* after it, whatever it is about: mail that comes between the read and    *)
(* the acknowledgement of another interrupt is not announced again.        *)
ReadIntr ==
    /\ drv.at = "idle" /\ (dev.line \/ (~dev.enabled /\ dev.intr # {}))
    /\ drv' = [drv EXCEPT !.saw = dev.intr,
                          !.at = IF "IMBL" \in dev.intr /\ uses.order = "scan"
                                 THEN "scan" ELSE "ack"]
    /\ UNCHANGED <<dev, uses>>

Acknowledge ==
    /\ drv.at = "ack"
    /\ dev' = ResetInterrupt(dev)
    /\ drv' = [drv EXCEPT !.saw = {},
                          !.waits = @ /\ "CMDC" \notin drv.saw,
                          !.at = IF uses.order = "ack" THEN "scan" ELSE "idle"]
    /\ UNCHANGED uses

(* An aborted command has one mail.  The mail of one that ends while its   *)
(* abort is on the way is followed by one for the abort.                   *)
TakeMail ==
    /\ drv.at = "scan"
    /\ LET mail == dev.in[drv.inIdx]
       IN  IF mail = Free
           THEN /\ drv' = [drv EXCEPT !.at = IF uses.order = "ack" THEN "idle"
                                             ELSE "ack"]
                /\ UNCHANGED dev
           ELSE /\ dev' = [dev EXCEPT !.in[drv.inIdx] = Free]
                /\ drv' = [drv EXCEPT
                    !.inIdx = (@ + 1) % Boxes,
                    !.aborting = IF mail.code \in {"aborted", "notfound"}
                                 THEN @ \ {mail.cmd} ELSE @,
                    !.owed = IF mail.code = "notfound" THEN @
                             ELSE @ \ {mail.cmd}]
    /\ UNCHANGED uses

(* The command register of the configuration space: bus mastering. *)
BusMaster ==
    /\ "master" \in uses.ops /\ drv.at = "idle" /\ ~drv.waits
    /\ dev' = [dev EXCEPT !.dma = ~@]
    /\ UNCHANGED <<drv, uses>>

BusReset ==
    /\ "busreset" \in uses.ops /\ dev.ready /\ drv.at = "idle"
    /\ dev' = ResetBus(dev)
    /\ UNCHANGED <<drv, uses>>

AdapterReset ==
    /\ "reset" \in uses.ops /\ drv.at = "idle" /\ dev.host = "buslogic" /\ dev.ready
    /\ \E hard \in BOOLEAN :
        dev' = [Reset(dev, hard) EXCEPT !.out = [b \in Box |-> Free],
                                        !.in = [b \in Box |-> Free]]
    /\ drv' = [drv EXCEPT !.owed = {}, !.aborting = {}, !.waits = FALSE]
    /\ UNCHANGED uses

-----------------------------------------------------------------------------
(* The driver of the virtio host: what a kick gives the device, and task   *)
(* management, which ends before anything new reaches a unit.              *)

Request ==
    /\ dev.host = "virtio"
    /\ \E c \in Commands, t \in uses.targets, a \in {"later", "ok", "fail"} :
        /\ Unused # {} /\ c = Min(Unused)
        /\ drv' = [drv EXCEPT !.owed = @ \cup {c}, !.to[c] = t]
        /\ dev' = CASE t = NoTarget -> PostInMail(dev, c, "error")
                    [] t # NoTarget /\ a = "later" ->
                       [dev EXCEPT !.inFlight = Append(@, c),
                                   !.units = @ \cup {c}, !.image = @ \cup {c}]
                    [] OTHER -> PostInMail(dev, c, IF a = "ok" THEN "ok"
                                                   ELSE "error")
    /\ UNCHANGED uses

TaskManagement ==
    /\ dev.host = "virtio"
    /\ \E t \in Targets, c \in Commands :
        \/ dev' = Abort(dev, {c} \cap On({t}), "aborted")           \* ABORT_TASK
        \/ dev' = Abort(dev, On({t}), "aborted")                    \* ABORT_TASK_SET
        \/ dev' = Abort(ResetUnits(dev, {t}), On({t}), "error")     \* UNIT_RESET
    /\ UNCHANGED <<drv, uses>>

VirtioReset ==
    /\ dev.host = "virtio"
    /\ dev' = [ResetUnits(Cancel(dev, Range(dev.inFlight)), Targets)
                EXCEPT !.inFlight = <<>>, !.used = <<>>]
    /\ drv' = [drv EXCEPT !.owed = {}]
    /\ UNCHANGED uses

TakeUsed ==
    /\ dev.used # <<>>
    /\ dev' = [dev EXCEPT !.used = Tail(@)]
    /\ drv' = [drv EXCEPT !.owed = @ \ {Head(dev.used).cmd}]
    /\ UNCHANGED uses

-----------------------------------------------------------------------------
(* The image answers: SCSIDisk::BlockDone(). *)
BlockDone ==
    /\ \E c \in dev.image, ok \in BOOLEAN :
        dev' = CommandFinished([dev EXCEPT !.image = @ \ {c},
                                           !.units = @ \ {c}], c, ok)
    /\ UNCHANGED <<drv, uses>>

Next ==
    \/ HostCommand \/ ReadReply \/ Post \/ Kick \/ ReadIntr \/ Acknowledge
    \/ TakeMail \/ BusMaster \/ BusReset \/ AdapterReset
    \/ Request \/ TaskManagement \/ VirtioReset \/ TakeUsed
    \/ BlockDone

Spec == Init /\ [][Next]_vars

-----------------------------------------------------------------------------
Mail == dev.pending \o SetToSeq({dev.in[b] : b \in Box} \ {Free}) \o dev.used

(* A command the driver has given is in exactly one place: a mailbox, with *)
(* its unit, or answered; whatever aborts, resets and answers come at the  *)
(* same time.                                                              *)
EachOnce ==
    \A c \in Commands :
        LET starts == Cardinality({b \in Box : dev.out[b] = [code |-> "start", cmd |-> c]})
            runs == Cardinality({i \in 1..Len(dev.inFlight) : dev.inFlight[i] = c})
            answers == Cardinality({i \in 1..Len(Mail) :
                            Mail[i].cmd = c /\ Mail[i].code # "notfound"})
        IN  /\ starts + runs + answers <= 1
            /\ (c \in drv.owed) <=> (starts + runs + answers = 1)

(* What the units have is what the initiator has with them, and what the   *)
(* image has: nothing is moved for a command that was aborted or reset.    *)
ImageKnows ==
    /\ dev.units = dev.image
    /\ dev.units = Range(dev.inFlight)

(* Mail the driver has not taken is announced, or is about to be when it   *)
(* acknowledges, or it is in the course of taking it.                      *)
MailAnnounced ==
    (\E b \in Box : dev.in[b] # Free) =>
        \/ "IMBL" \in dev.intr \/ drv.at = "scan"
        \/ drv.at = "ack" /\ (dev.again \/ uses.order = "ack")

(* Mail that waits for a free mailbox waits only while none is free or the *)
(* driver has still to acknowledge; or the mailboxes could not be read     *)
(* when it came, and nothing tries again once they can (FlushPending()).   *)
PendingMoves ==
    dev.pending # <<>> =>
        \/ dev.in[dev.inIdx] # Free
        \/ dev.intr # {} \/ dev.stalled

(* A driver that waits for the end of a host adapter command is told. *)
CommandTold == drv.waits => dev.reply \/ "CMDC" \in dev.intr \cup drv.saw
=============================================================================
