--------------------------------- MODULE Xhci ----------------------------------
(***************************************************************************)
(* The xHCI host controller (bus/usb/host/xhci.cpp) with one USB device on *)
(* a root port: a bulk-only mass storage function over a SCSI unit         *)
(* (device/storage/usb_storage.cpp) or a HID function                      *)
(* (device/input/usb_hid.cpp, bus/hid/hid.cpp), behind the common parts of *)
(* bus/usb/usb.cpp.  A handler runs with the device lock held and is a     *)
(* step on the state of all of them, dev.                                  *)
(*                                                                         *)
(* A transfer ring is the sequence of descriptors (TDs) the guest has      *)
(* written and the controller has not fetched; a TD that is put back is    *)
(* its head again.  The event ring is an array with cycle bits, as in the  *)
(* code, and dev.due is every event posted that the guest has not taken.   *)
(* Addressing is abstracted to one slot.  The unit answers a command at    *)
(* once or later.                                                          *)
(***************************************************************************)
EXTENDS Integers, Sequences, FiniteSets, SequencesExt

CONSTANTS
    ErSize,         \* entries of the event ring
    FifoSize,       \* events that may wait for room in it
    ReportQueue,    \* reports a HID device holds
    MaxQueued,      \* TDs a HID driver keeps queued
    Uses

VARIABLES
    dev,        \* controller, device and unit
    drv,        \* the driver
    uses

vars == <<dev, drv, uses>>

Eps == {"ctl", "out", "in"}
Ids == 1..(MaxQueued + 1)
NoCbw == [tag |-> 0, in |-> FALSE, len |-> 0, actual |-> 0]
Td(what, trbs) == [id |-> 0, what |-> what, trbs |-> trbs, of |-> "none",
                   cbw |-> NoCbw]
NoTd == Td("none", <<>>)
Trb(type, len, ioc) == [type |-> type, len |-> len, ioc |-> ioc, isp |-> TRUE]
Answers == {"later", "good", "fail"}

TypeOK ==
    /\ \A e \in Eps :
         /\ dev.ep[e].state \in {"DISABLED", "RUNNING", "HALTED", "STOPPED"}
         /\ dev.ep[e].busy \in BOOLEAN
         /\ Len(dev.ep[e].ring) <= MaxQueued
    /\ dev.slot \in {"DISABLED", "ENABLED", "DEFAULT", "ADDRESSED",
                     "CONFIGURED"}
    /\ dev.enq \in 0..(ErSize - 1) /\ dev.erdp \in 0..(ErSize - 1)
    /\ Len(dev.fifo) <= FifoSize
    /\ dev.msc \in {"CBW", "DATA_OUT", "DATA_IN", "STATUS"}
    /\ dev.parked \in {"none", "in"}
    /\ dev.halted \subseteq Eps /\ dev.wedged \subseteq dev.halted
    /\ Len(dev.reports) <= ReportQueue
    /\ drv.irq \in {"no", "ack", "take", "end"}

-----------------------------------------------------------------------------
(* Interrupts and the event ring. *)

(* A message clears the pending bit as it goes out; the pin follows it. *)
IntrUpdate(d) ==
    LET level == d.ie /\ d.ip
    IN  IF d.msi THEN [d EXCEPT !.irq = @ \/ level, !.ip = @ /\ ~level]
        ELSE [d EXCEPT !.irq = level]

IntrRaise(d) ==
    IntrUpdate([d EXCEPT !.eint = TRUE, !.ip = TRUE,
                         !.ehb = IF d.ip THEN @ ELSE TRUE])

(* Mutant: there is always room. *)
EventRingFullNever(d) == FALSE

EventRingFull(d) == (d.enq + 1) % ErSize = d.erdp

(* An entry is published by its cycle bit. *)
PlaceEvent(d, ev) ==
    [d EXCEPT !.ring[d.enq] = [ev |-> ev, cyc |-> d.pcs],
              !.enq = (@ + 1) % ErSize,
              !.pcs = IF d.enq + 1 = ErSize THEN ~@ ELSE @]

(* An event goes into a ring with room even when others still wait for it. *)
PostEvent(d, ev) ==
    LET e == [d EXCEPT !.due = Append(@, ev)]
    IN  CASE ~d.erst -> d
          [] d.erst /\ EventRingFull(d) /\ Len(d.fifo) >= FifoSize ->
             [d EXCEPT !.hse = TRUE]
          [] d.erst /\ EventRingFull(d) /\ Len(d.fifo) < FifoSize ->
             [e EXCEPT !.fifo = Append(@, ev)]
          [] d.erst /\ ~EventRingFull(d) ->
             IntrRaise(PlaceEvent([e EXCEPT !.passed = @ \/ d.fifo # <<>>], ev))

RECURSIVE DrainEventFifo(_)
DrainEventFifo(d) ==
    IF d.fifo = <<>> \/ EventRingFull(d) THEN d
    ELSE DrainEventFifo(IntrRaise(PlaceEvent([d EXCEPT !.fifo = Tail(@)],
                                             Head(d.fifo))))

(* Mutant: what waited for room is left. *)
WriteErdpKeeps(d, at, ehb) ==
    LET e == [d EXCEPT !.erdp = at, !.ehb = @ /\ ~ehb]
    IN  IF ehb /\ at # e.enq THEN IntrRaise(e) ELSE e

(* With EHB, the end of a handler: what waited for room goes out, and a    *)
(* ring that is not empty interrupts.  Without, only the pointer moves.    *)
WriteErdp(d, at, ehb) ==
    LET e == [d EXCEPT !.erdp = at, !.ehb = @ /\ ~ehb]
        f == DrainEventFifo(e)
    IN  CASE ~ehb -> e
          [] ehb /\ at # f.enq -> IntrRaise(f)
          [] ehb /\ at = f.enq -> f

-----------------------------------------------------------------------------
(* The device.  A URB is the TD an endpoint has fetched. *)

(* A functional stall lasts until the host clears it. *)
Stall(d, ep) ==
    [d EXCEPT !.answer = "stall",
              !.halted = IF ep = "ctl" THEN @ ELSE @ \cup {ep}]
Ok(d, n) == [d EXCEPT !.answer = "ok", !.moved = n]
Park(d) == [d EXCEPT !.answer = "async", !.parked = "in"]
Size(td) == FoldFunction(+, 0, [i \in 1..Len(td.trbs) |-> td.trbs[i].len])

(* The status of a command, and the data it produced. *)
FinishCommand(d, tag, ans) ==
    [d EXCEPT !.busy = FALSE, !.unit = @ \ {tag}, !.ran = tag,
              !.done = IF ans = "good" THEN d.cbw.actual ELSE 0]

StartCommand(d, ans) ==
    LET e == [d EXCEPT !.busy = TRUE, !.unit = @ \cup {d.cbw.tag},
                       !.done = 0]
    IN  IF ans = "later" THEN e ELSE FinishCommand(e, d.cbw.tag, ans)

ServeDataIn(d, td) ==
    LET n == Min({Size(td), d.done - d.pos})
    IN  Ok([d EXCEPT !.pos = @ + n, !.mem[td.id] = n,
                     !.msc = IF d.pos + n >= d.done THEN "STATUS" ELSE @], n)

(* The status wrapper names the command it is of. *)
ServeStatus(d, td) ==
    [Ok(d, 1) EXCEPT !.msc = "CBW",
                     !.mem[td.id] = <<d.cbw.tag, d.ran, d.cbw.len - d.done>>,
                     !.ran = 0]

HandleBulkIn(d, td) ==
    CASE d.busy -> IF d.parked = "none" THEN Park(d) ELSE Stall(d, "in")
      [] ~d.busy /\ d.msc = "DATA_IN" -> ServeDataIn(d, td)
      [] ~d.busy /\ d.msc = "STATUS" -> ServeStatus(d, td)
      [] OTHER -> Stall(d, "in")

(* A wrapper that is not valid stalls both pipes until a reset recovery. *)
HandleBulkOut(d, td, ans) ==
    LET c == td.cbw
        e == Ok([d EXCEPT !.cbw = c, !.pos = 0], 1)
        n == Min({Size(td), d.cbw.len - d.pos})
        f == Ok([d EXCEPT !.pos = @ + n], n)
    IN  CASE d.msc = "CBW" /\ td.what = "big" -> Stall(d, "out")
          [] d.msc = "CBW" /\ td.what \notin {"cbw", "big"} ->
             [Stall(d, "out") EXCEPT !.halted = {"in", "out"},
                                     !.wedged = {"in", "out"}]
          [] d.msc = "CBW" /\ td.what = "cbw" /\ (c.len = 0 \/ c.in) ->
             StartCommand([e EXCEPT !.msc = IF c.len = 0 THEN "STATUS"
                                            ELSE "DATA_IN"], ans)
          [] d.msc = "CBW" /\ td.what = "cbw" /\ ~(c.len = 0 \/ c.in) ->
             [e EXCEPT !.msc = "DATA_OUT"]
          [] d.msc = "DATA_OUT" ->
             IF f.pos >= d.cbw.len
             THEN StartCommand([f EXCEPT !.msc = "STATUS"], ans) ELSE f
          [] d.msc \in {"DATA_IN", "STATUS"} -> Stall(d, "out")

(* A poll of a HID device takes the oldest report or waits for one. *)
HandleInterruptIn(d, td) ==
    CASE d.reports # <<>> ->
         Ok([d EXCEPT !.reports = Tail(@), !.mem[td.id] = Head(d.reports)], 1)
      [] d.reports = <<>> /\ d.parked = "none" -> Park(d)
      [] d.reports = <<>> /\ d.parked # "none" -> Stall(d, "in")

(* Mutant: the command is left to the unit. *)
MscResetKeeps(d) ==
    [d EXCEPT !.msc = "CBW", !.parked = "none", !.pos = 0, !.done = 0,
              !.wedged = {}]

(* The bulk-only reset leaves the halts to CLEAR_FEATURE. *)
MscReset(d) ==
    [d EXCEPT !.busy = FALSE, !.unit = {}, !.msc = "CBW", !.parked = "none",
              !.pos = 0, !.done = 0, !.wedged = {}]

ControlRequest(d, td) ==
    CASE td.what = "mscreset" -> Ok(MscReset(d), 0)
      [] td.what = "clear" ->
         Ok([d EXCEPT !.halted = @ \ ({td.of} \ d.wedged)], 0)
      [] td.what = "setconfig" ->
         Ok([d EXCEPT !.halted = {}, !.wedged = {}], 0)
      [] td.what = "getdesc" -> Ok(d, 1)
      [] td.what = "unknown" -> Stall(d, "ctl")

(* USBDevice::SubmitURB() and the function's Submit(). *)
SubmitURB(d, ep, td, ans) ==
    CASE ep = "ctl" -> ControlRequest(d, td)
      [] ep # "ctl" /\ ep \in d.halted -> Stall(d, ep)
      [] ep = "in" /\ ep \notin d.halted ->
         IF d.hid THEN HandleInterruptIn(d, td) ELSE HandleBulkIn(d, td)
      [] ep = "out" /\ ep \notin d.halted ->
         IF d.hid THEN Stall(d, ep) ELSE HandleBulkOut(d, td, ans)

(* USBDevice::Reset() and the function's: what it held is forgotten. *)
DeviceReset(d) ==
    [MscReset(d) EXCEPT !.halted = {}, !.reports = <<>>,
                        !.lost = @ \/ d.reports # <<>>]

CancelURB(d, ep) == IF d.parked = ep THEN [d EXCEPT !.parked = "none"] ELSE d

-----------------------------------------------------------------------------
(* Transfers. *)

(* An event only for a TRB that asked for one: on completion, on a short   *)
(* packet, or the one where a failed transfer ended.  A setup and a status *)
(* stage each begin anew.                                                  *)
RECURSIVE Reports(_, _, _, _, _, _)
Reports(trbs, i, left, cc, reported, short) ==
    IF i > Len(trbs) THEN <<>>
    ELSE LET t == trbs[i]
             data == t.type = "data"
             chunk == IF data THEN Min({t.len, left}) ELSE 0
             rest == left - chunk
             status == t.type = "status"
             sh == IF status THEN FALSE
                   ELSE short \/ (data /\ t.len > left /\ cc = "SUCCESS")
             rep == IF status THEN FALSE ELSE reported
             tell == ~rep /\ (t.ioc \/ (sh /\ t.isp)
                              \/ (cc # "SUCCESS" /\ rest = 0))
             code == IF cc = "SUCCESS" /\ sh THEN "SHORT" ELSE cc
             setup == t.type = "setup"
             more == Reports(trbs, i + 1, rest, cc, ~setup /\ (rep \/ tell),
                             ~setup /\ sh)
             ev == [cc |-> code, trb |-> i]
         IN  IF ~tell THEN more
             ELSE IF cc # "SUCCESS" THEN <<ev>> ELSE <<ev>> \o more

XferReport(d, ep, cc, actual) ==
    LET td == d.ep[ep].td
        Tell(e, r) == PostEvent(e, [type |-> "xfer", ep |-> ep, id |-> td.id,
                                    cc |-> r.cc,
                                    end |-> r.cc # "STOPPED"
                                            /\ (r.trb = Len(td.trbs)
                                                \/ ep # "ctl"
                                                \/ r.cc = "STALL")])
    IN  FoldLeft(Tell, d, Reports(td.trbs, 1, actual, cc, FALSE, FALSE))

Finished(d, ep, answer, moved) ==
    LET r == XferReport(d, ep, IF answer = "ok" THEN "SUCCESS" ELSE "STALL",
                        IF answer = "ok" THEN moved ELSE 0)
        e == [r EXCEPT !.ep[ep].td = NoTd, !.answer = "ok", !.moved = 0]
    IN  IF answer = "stall" THEN [e EXCEPT !.ep[ep].state = "HALTED"] ELSE e

(* Fetches and submits until the ring is empty or the device keeps one. *)
RECURSIVE KickEndpoint(_, _, _)
KickEndpoint(d, ep, ans) ==
    LET q == d.ep[ep]
        e == [d EXCEPT !.ep[ep].ring = Tail(@), !.ep[ep].td = Head(q.ring)]
        s == SubmitURB(e, ep, Head(q.ring), ans)
    IN  IF q.state # "RUNNING" \/ q.busy \/ q.ring = <<>> THEN d
        ELSE IF s.answer = "async" THEN [s EXCEPT !.ep[ep].busy = TRUE,
                                                  !.answer = "ok"]
        ELSE KickEndpoint(Finished(s, ep, s.answer, s.moved), ep, ans)

(* Mutant: the ring is left for the next doorbell. *)
EndpointCompleteAlone(d, ep, ans) ==
    IF ~d.ep[ep].busy THEN d
    ELSE Finished([d EXCEPT !.ep[ep].busy = FALSE], ep, d.answer, d.moved)

(* usb_urb_complete() to the endpoint: what was queued since goes on. *)
EndpointComplete(d, ep, ans) ==
    IF ~d.ep[ep].busy THEN d
    ELSE KickEndpoint(Finished([d EXCEPT !.ep[ep].busy = FALSE], ep, d.answer,
                               d.moved), ep, ans)

DoorbellWrite(d, ep, ans) ==
    KickEndpoint([d EXCEPT !.ep[ep].state = IF @ = "STOPPED" THEN "RUNNING"
                                            ELSE @], ep, ans)

(* The unit has done the command the storage function runs. *)
UnitDone(d, tag, ans) ==
    LET e == FinishCommand(d, tag, ans)
        td == d.ep["in"].td
        f == [e EXCEPT !.parked = "none"]
    IN  IF d.parked = "none" THEN e
        ELSE EndpointComplete(IF d.msc = "DATA_IN" THEN ServeDataIn(f, td)
                              ELSE ServeStatus(f, td), "in", ans)

(* A report: the oldest goes if there is no room, and a waiting poll       *)
(* takes it.                                                               *)
Enqueue(d, r) ==
    LET full == Len(d.reports) >= ReportQueue
        e == [d EXCEPT !.reports = Append(IF full THEN Tail(@) ELSE @, r),
                       !.lost = @ \/ full]
        f == [e EXCEPT !.parked = "none"]
    IN  IF d.parked = "none" THEN e
        ELSE EndpointComplete(HandleInterruptIn(f, d.ep["in"].td), "in", "later")

-----------------------------------------------------------------------------
(* Commands. *)

EnableEndpoint(d, ep) ==
    [d EXCEPT !.ep[ep].busy = FALSE, !.ep[ep].state = "RUNNING",
              !.ep[ep].ring = <<>>]

DisableEndpoint(d, ep) ==
    LET e == IF d.ep[ep].busy THEN CancelURB(d, ep) ELSE d
    IN  [e EXCEPT !.ep[ep].busy = FALSE, !.ep[ep].state = "DISABLED",
                  !.ep[ep].td = NoTd]

Enabled(d) == d.slot # "DISABLED"
Done(d) == [d EXCEPT !.cc = "SUCCESS"]
Refused(d, cc) == [d EXCEPT !.cc = cc]
EndpointsOff(d) == DisableEndpoint(DisableEndpoint(d, "out"), "in")

CmdEnableSlot(d) ==
    IF Enabled(d) THEN Refused(d, "NO_SLOTS")
    ELSE Done([DisableEndpoint(EndpointsOff(d), "ctl") EXCEPT
               !.slot = "ENABLED"])

CmdDisableSlot(d) ==
    IF ~Enabled(d) THEN Refused(d, "SLOT_NOT_ENABLED")
    ELSE Done([DisableEndpoint(EndpointsOff(d), "ctl") EXCEPT
               !.slot = "DISABLED"])

CmdAddressDevice(d) ==
    CASE d.slot = "DISABLED" -> Refused(d, "SLOT_NOT_ENABLED")
      [] d.slot \in {"ADDRESSED", "CONFIGURED"} -> Refused(d, "STATE_ERROR")
      [] d.slot \in {"ENABLED", "DEFAULT"} ->
         Done([EnableEndpoint(d, "ctl") EXCEPT !.slot = "ADDRESSED"])

(* The endpoints the guest drops and adds; none left is Addressed again.   *)
CmdConfigureEndpoint(d, drop, add) ==
    LET e == FoldSet(LAMBDA ep, x : DisableEndpoint(x, ep), d, drop)
        f == FoldSet(LAMBDA ep, x : EnableEndpoint(x, ep), e, add)
        some == \E ep \in {"out", "in"} : f.ep[ep].state # "DISABLED"
    IN  CASE d.slot = "DISABLED" -> Refused(d, "SLOT_NOT_ENABLED")
          [] d.slot \in {"ENABLED", "DEFAULT"} -> Refused(d, "STATE_ERROR")
          [] d.slot \in {"ADDRESSED", "CONFIGURED"} ->
             Done([f EXCEPT !.slot = IF some THEN "CONFIGURED"
                                     ELSE "ADDRESSED"])

EndpointCommand(d, ep, ok, then) ==
    CASE d.slot = "DISABLED" -> Refused(d, "SLOT_NOT_ENABLED")
      [] d.slot = "ENABLED" -> Refused(d, "STATE_ERROR")
      [] d.slot \notin {"DISABLED", "ENABLED"} ->
         IF ok THEN Done(then) ELSE Refused(d, "STATE_ERROR")

CmdResetEndpoint(d, ep) ==
    EndpointCommand(d, ep, d.ep[ep].state = "HALTED",
                    [d EXCEPT !.ep[ep].state = "STOPPED"])

(* Mutant: the TD is not put back. *)
StopTransferForgets(d, ep) ==
    XferReport([CancelURB(d, ep) EXCEPT !.ep[ep].busy = FALSE], ep, "STOPPED",
               0)

(* A descriptor the device holds is taken back, reported as stopped, and   *)
(* is the next of the ring again.                                          *)
StopTransfer(d, ep) ==
    LET e == [CancelURB(d, ep) EXCEPT !.ep[ep].busy = FALSE,
                !.ep[ep].ring = <<d.ep[ep].td>> \o @]
    IN  [XferReport(e, ep, "STOPPED", 0) EXCEPT !.ep[ep].td = NoTd]

CmdStopEndpoint(d, ep) ==
    LET e == IF d.ep[ep].busy THEN StopTransfer(d, ep) ELSE d
    IN  EndpointCommand(d, ep, d.ep[ep].state = "RUNNING",
                        [e EXCEPT !.ep[ep].state = "STOPPED"])

(* The driver moves the dequeue pointer past all it has queued. *)
CmdSetTrDequeue(d, ep) ==
    EndpointCommand(d, ep, d.ep[ep].state = "STOPPED" /\ ~d.ep[ep].busy,
                    [d EXCEPT !.ep[ep].ring = <<>>])

CmdResetDevice(d) ==
    CASE d.slot = "DISABLED" -> Refused(d, "SLOT_NOT_ENABLED")
      [] d.slot \in {"ENABLED", "DEFAULT"} -> Refused(d, "STATE_ERROR")
      [] d.slot \in {"ADDRESSED", "CONFIGURED"} ->
         Done([EndpointsOff(d) EXCEPT !.slot = "DEFAULT"])

(* Every command gets a completion event. *)
ExecuteCommand(d, c) ==
    LET e == CASE c.cmd = "noop" -> Done(d)
               [] c.cmd = "enable" -> CmdEnableSlot(d)
               [] c.cmd = "disable" -> CmdDisableSlot(d)
               [] c.cmd = "address" -> CmdAddressDevice(d)
               [] c.cmd = "configure" ->
                  CmdConfigureEndpoint(d, c.drop, c.add)
               [] c.cmd = "resetep" -> CmdResetEndpoint(d, c.ep)
               [] c.cmd = "stop" -> CmdStopEndpoint(d, c.ep)
               [] c.cmd = "dequeue" -> CmdSetTrDequeue(d, c.ep)
               [] c.cmd = "resetdev" -> CmdResetDevice(d)
    IN  PostEvent(Done(e), [type |-> "cmd", cmd |-> c.cmd, cc |-> e.cc])

RunCommandRing(d, c) == IF d.run THEN ExecuteCommand(d, c) ELSE d

-----------------------------------------------------------------------------
(* The port, and the controller as a whole. *)

PortEvent == [type |-> "port", cc |-> "SUCCESS"]

(* One event covers a change until the guest has cleared it. *)
PortNotify(d, bit) ==
    IF bit \in d.change THEN d
    ELSE LET e == [d EXCEPT !.change = @ \cup {bit}]
         IN  IF d.run THEN PostEvent(e, PortEvent) ELSE e

PortReset(d) == PortNotify(DeviceReset(d), "PRC")

PortClear(d) == [d EXCEPT !.change = {}]

Reset(d) ==
    LET e == DisableEndpoint(EndpointsOff(d), "ctl")
    IN  IntrUpdate(PortNotify(
          [e EXCEPT !.slot = "DISABLED", !.run = FALSE, !.ie = FALSE,
             !.ip = FALSE, !.ehb = FALSE, !.eint = FALSE, !.hse = FALSE,
             !.erst = FALSE, !.enq = 0, !.pcs = TRUE, !.erdp = 0,
             !.fifo = <<>>, !.due = <<>>, !.passed = FALSE, !.dropped = {},
             !.change = {}], "CSC"))

(* What came before the controller ran is told now. *)
Start(d) ==
    LET e == [d EXCEPT !.run = TRUE]
    IN  IF d.change # {} THEN PostEvent(e, PortEvent) ELSE e

(* Stopping takes back what devices hold, with no event and without the    *)
(* descriptor going back to its ring, as it does when an endpoint stops.   *)
Stop(d) ==
    FoldSet(LAMBDA ep, x : IF ~x.ep[ep].busy THEN x
                           ELSE [CancelURB(x, ep) EXCEPT
                                 !.ep[ep].busy = FALSE, !.ep[ep].td = NoTd,
                                 !.dropped = @ \cup {[ep |-> ep,
                                                      id |-> x.ep[ep].td.id]}],
            [d EXCEPT !.run = FALSE], Eps)

-----------------------------------------------------------------------------
(* The driver: a thread that works through a plan, and the interrupt       *)
(* handler.                                                                *)

NoStep == [do |-> "none", ep |-> "none", cmd |-> "none", drop |-> {},
           add |-> {}, td |-> NoTd]
Cmd(c, ep) == [NoStep EXCEPT !.do = "cmd", !.cmd = c, !.ep = ep]
Configure(drop, add) ==
    [NoStep EXCEPT !.do = "cmd", !.cmd = "configure", !.drop = drop,
                   !.add = add]
Send(ep, td) == [NoStep EXCEPT !.do = "td", !.ep = ep, !.td = td]
Write(what) == [NoStep EXCEPT !.do = what]
Ring(ep) == [NoStep EXCEPT !.do = "ring", !.ep = ep]
Packet == <<Trb("data", 1, TRUE)>>
Control(what, of) ==
    Send("ctl", [Td(what, <<Trb("setup", 0, FALSE), Trb("status", 0, TRUE)>>)
                 EXCEPT !.of = of])
GetDescriptor ==
    Send("ctl", Td("getdesc", <<Trb("setup", 0, FALSE),
                                Trb("data", 2, FALSE),
                                Trb("status", 0, TRUE)>>))

Configured(d) == IF d.hid THEN {"in"} ELSE {"out", "in"}
Enumerate ==
    <<Write("port"), Cmd("enable", "none"), Cmd("address", "none"),
      GetDescriptor, Configure({}, Configured(dev)),
      Control("setconfig", "none")>>
PortRecovery ==
    <<Write("port"), Cmd("resetdev", "none"), Cmd("address", "none"),
      Configure({}, Configured(dev)), Control("setconfig", "none")>>
ResetRecovery ==
    <<Control("mscreset", "none"), Control("clear", "in"),
      Control("clear", "out")>>
Abandon(ep) == <<Cmd("stop", ep), Cmd("dequeue", ep)>>
Unhalt(ep) == <<Cmd("resetep", ep), Cmd("dequeue", ep)>>

Data(c) == IF c.len = 0 THEN <<>>
           ELSE <<Send(IF c.in THEN "in" ELSE "out",
                       Td("data", <<Trb("data", 1, FALSE),
                                    Trb("data", c.len - 1, TRUE)>>))>>
Transport(c) ==
    <<Send("out", [Td("cbw", Packet) EXCEPT !.cbw = c])>> \o Data(c)
    \o <<Send("in", Td("csw", Packet))>>

Waits(type, ep, id) == [type |-> type, ep |-> ep, id |-> id]
Idle == Waits("none", "none", 0)
Free == drv.plan = <<>> /\ drv.wait = Idle /\ drv.bell = "none"
Step == Head(drv.plan)
AtStep(do) == /\ drv.plan # <<>> /\ drv.wait = Idle /\ drv.bell = "none"
              /\ Step.do = do
Unused == Ids \ {o.id : o \in drv.out}
Outstanding(ep) == {o \in drv.out : o.ep = ep}

Queue(ep, td) ==
    LET id == Min(Unused)
    IN  /\ dev' = [dev EXCEPT !.ep[ep].ring = Append(@, [td EXCEPT !.id = id]),
                              !.dropped = @ \ {[ep |-> ep, id |-> id]}]
        /\ drv' = [drv EXCEPT !.bell = ep, !.told = td.what,
                              !.out = @ \cup {[ep |-> ep, id |-> id]}]
        /\ UNCHANGED uses

(* A descriptor is written, and then the doorbell. *)
QueueStep == AtStep("td") /\ Queue(Step.ep, Step.td)

QueuePoll ==
    /\ Free /\ dev.hid /\ dev.slot = "CONFIGURED"
    /\ Cardinality(Outstanding("in")) < MaxQueued
    /\ Queue("in", Td("poll", Packet))

RingDoorbell(ans) ==
    /\ drv.bell # "none"
    /\ ans = "later" \/ (drv.bell = "out" /\ ~dev.hid)
    /\ dev' = DoorbellWrite(dev, drv.bell, ans)
    /\ drv' = [drv EXCEPT !.bell = "none",
                 !.plan = IF @ = <<>> THEN @ ELSE Tail(@),
                 !.wait = IF drv.plan = <<>> \/ Step.do = "ring" THEN Idle
                          ELSE Waits("xfer", drv.bell,
                                     (CHOOSE o \in Outstanding(drv.bell) :
                                        TRUE).id)]
    /\ UNCHANGED uses

RingAgain ==
    /\ AtStep("ring")
    /\ drv' = [drv EXCEPT !.bell = Step.ep]
    /\ UNCHANGED <<dev, uses>>

SendCommand ==
    /\ AtStep("cmd")
    /\ dev' = RunCommandRing(dev, Step)
    /\ drv' = [drv EXCEPT !.plan = Tail(@),
                          !.wait = Waits("cmd", Step.ep, 0)]
    /\ UNCHANGED uses

WritePort ==
    /\ AtStep("port")
    /\ dev' = PortReset(dev)
    /\ drv' = [drv EXCEPT !.plan = Tail(@),
                 !.wait = IF "PRC" \in dev.change THEN Idle
                          ELSE Waits("port", "none", 0)]
    /\ UNCHANGED uses

Taken == [type |-> "none"]
EmptyRing == [i \in 0..(ErSize - 1) |-> [ev |-> Taken, cyc |-> FALSE]]

(* HCRST, and all the driver sets up before it runs the controller. *)
WriteReset ==
    /\ AtStep("reset") /\ drv.irq = "no"
    /\ dev' = LET r == Reset(dev) IN [r EXCEPT !.ring = EmptyRing,
                 !.ep = [e \in Eps |-> [r.ep[e] EXCEPT !.ring = <<>>]],
                 !.erst = TRUE, !.ie = TRUE]
    /\ drv' = [drv EXCEPT !.plan = Tail(@), !.deq = 0, !.ccs = TRUE,
                          !.out = {}]
    /\ UNCHANGED uses

WriteRun ==
    /\ \/ AtStep("start") /\ dev' = Start(dev)
       \/ AtStep("halt") /\ dev' = Stop(dev)
    /\ drv' = [drv EXCEPT !.plan = Tail(@)]
    /\ UNCHANGED uses

-----------------------------------------------------------------------------
(* What a driver starts. *)

NewPlan(p) == drv' = [drv EXCEPT !.plan = p, !.wait = Idle]

NewCommand(c) ==
    /\ Free /\ ~dev.hid /\ dev.slot = "CONFIGURED"
    /\ drv' = [drv EXCEPT !.plan = Transport([c EXCEPT !.tag = 3 - drv.tag]),
                          !.tag = 3 - @, !.len = c.len, !.moved = 0]
    /\ UNCHANGED <<dev, uses>>

Misplaced(what) ==
    /\ Free /\ what \in uses.ops
    /\ CASE what \in {"junk", "big"} -> NewPlan(<<Send("out", Td(what, Packet))>>)
         [] what = "unknown" -> NewPlan(<<Control("unknown", "none")>>)
    /\ UNCHANGED <<dev, uses>>

Timeout ==
    /\ "timeout" \in uses.ops /\ ~dev.hid
    /\ drv.wait.type = "xfer" /\ drv.wait.ep # "ctl"
    /\ NewPlan(Abandon(drv.wait.ep) \o ResetRecovery)
    /\ UNCHANGED <<dev, uses>>

ResetPort ==
    /\ "port" \in uses.ops
    /\ Free \/ (~dev.hid /\ drv.wait.type = "xfer" /\ drv.wait.ep # "ctl")
    /\ NewPlan(PortRecovery)
    /\ UNCHANGED <<dev, uses>>

Unlink ==
    /\ "unlink" \in uses.ops /\ dev.hid /\ Free
    /\ dev.ep["in"].state = "RUNNING"
    /\ NewPlan(Abandon("in"))
    /\ UNCHANGED <<dev, uses>>

Suspend ==
    /\ "suspend" \in uses.ops /\ dev.hid /\ Free
    /\ dev.ep["in"].state = "RUNNING"
    /\ NewPlan(<<Cmd("stop", "in"), Write("halt"), Write("start"),
                 Ring("in")>>)
    /\ UNCHANGED <<dev, uses>>

(* The controller is halted while a device may hold a poll. *)
Pause ==
    /\ "pause" \in uses.ops /\ dev.hid /\ Free
    /\ dev.ep["in"].state = "RUNNING"
    /\ NewPlan(<<Write("halt"), Write("start"), Ring("in")>>)
    /\ UNCHANGED <<dev, uses>>

Unplug ==
    /\ "unplug" \in uses.ops /\ Free /\ dev.slot = "CONFIGURED"
    /\ NewPlan(<<Configure({"in"}, {}), Cmd("disable", "none")>> \o Enumerate)
    /\ UNCHANGED <<dev, uses>>

Restart ==
    /\ "reset" \in uses.ops /\ drv.bell = "none"
    /\ drv.plan # <<>> => Step.do \notin {"reset", "start"}
    /\ NewPlan(<<Write("halt"), Write("reset"), Write("start")>> \o Enumerate)
    /\ UNCHANGED <<dev, uses>>

-----------------------------------------------------------------------------
(* The interrupt handler. *)

Interrupt ==
    /\ drv.irq = "no" /\ dev.irq /\ (~dev.msi => dev.eint)
    /\ dev' = IntrUpdate([dev EXCEPT !.eint = FALSE,
                                     !.irq = ~dev.msi])
    /\ drv' = [drv EXCEPT !.irq = IF ~dev.eint THEN "no"
                                  ELSE IF dev.msi THEN "take" ELSE "ack"]
    /\ UNCHANGED uses

AckPending ==
    /\ drv.irq = "ack"
    /\ dev' = IntrUpdate([dev EXCEPT !.ip = FALSE])
    /\ drv' = [drv EXCEPT !.irq = "take"]
    /\ UNCHANGED uses

Entry == dev.ring[drv.deq]
Fresh == Entry.cyc = drv.ccs

Advanced(r) == [r EXCEPT !.deq = (@ + 1) % ErSize,
                         !.ccs = IF r.deq + 1 = ErSize THEN ~@ ELSE @]

(* What an entry that was taken, or its buffer, holds no longer matters. *)
Took == [dev EXCEPT !.due = RemoveFirst(@, Entry.ev),
           !.passed = @ /\ Len(dev.due) > 1, !.ring[drv.deq].ev = Taken,
           !.mem = IF Entry.ev.type = "xfer"
                   THEN [@ EXCEPT ![Entry.ev.id] = 0] ELSE @]

TakePort(ev) ==
    /\ dev' = PortClear(Took)
    /\ drv' = Advanced([drv EXCEPT
                 !.wait = IF @.type = "port" THEN Idle ELSE @])

(* A stop that found the endpoint halted is followed by its reset; what    *)
(* the dequeue pointer passed is given up.                                 *)
TakeCommand(ev) ==
    LET ep == drv.wait.ep
        mine == drv.wait.type = "cmd"
    IN  /\ dev' = Took
        /\ drv' = Advanced([drv EXCEPT
             !.wait = IF mine THEN Idle ELSE @,
             !.plan = IF mine /\ ev.cmd = "stop" /\ ev.cc # "SUCCESS"
                         /\ dev.ep[ep].state = "HALTED"
                      THEN <<Cmd("resetep", ep)>> \o @ ELSE @,
             !.out = CASE ev.cmd = "dequeue" /\ mine -> @ \ Outstanding(ep)
                       [] ev.cmd \in {"resetdev", "disable"} ->
                          Outstanding("ctl")
                       [] ev.cmd = "configure" -> Outstanding("ctl")
                       [] OTHER -> @])

TakeTransfer(ev) ==
    LET me == [ep |-> ev.ep, id |-> ev.id]
        mine == ev.end /\ drv.wait = Waits("xfer", ev.ep, ev.id)
        got == dev.mem[ev.id]
        ok == ev.cc \in {"SUCCESS", "SHORT"}
    IN  /\ dev' = Took
        /\ drv' = Advanced([drv EXCEPT
             !.out = IF ev.end THEN @ \ {me} ELSE @,
             !.wait = IF mine THEN Idle ELSE @,
             !.moved = IF mine /\ ok /\ ev.ep = "in" /\ drv.told = "data"
                       THEN got ELSE @,
             !.last = IF ev.end /\ ok /\ dev.hid /\ ev.ep = "in"
                      THEN (IF dev.passed THEN Max({@, got}) ELSE got) ELSE @,
             !.plan = IF ~mine \/ ok THEN @
                      ELSE IF ev.ep = "ctl" THEN Unhalt("ctl") \o @
                      ELSE Unhalt(ev.ep) \o ResetRecovery])

TakeEvent ==
    /\ drv.irq = "take" /\ Fresh
    /\ LET ev == Entry.ev
       IN  CASE ev.type = "port" -> TakePort(ev)
             [] ev.type = "cmd" -> TakeCommand(ev)
             [] ev.type = "xfer" -> TakeTransfer(ev)
    /\ UNCHANGED uses

(* A handler that takes many events frees their entries as it goes. *)
FreeEntries ==
    /\ "erdp" \in uses.ops /\ drv.irq = "take" /\ dev.erdp # drv.deq
    /\ dev' = WriteErdp(dev, drv.deq, FALSE)
    /\ UNCHANGED <<drv, uses>>

EndInterrupt ==
    /\ drv.irq = "take" /\ ~Fresh
    /\ dev' = WriteErdp(dev, drv.deq, TRUE)
    /\ drv' = [drv EXCEPT !.irq = "no"]
    /\ UNCHANGED uses

-----------------------------------------------------------------------------
(* The host. *)

UnitAnswers(ans) ==
    /\ ans # "later"
    /\ \E tag \in dev.unit : dev' = UnitDone(dev, tag, ans)
    /\ UNCHANGED <<drv, uses>>

(* The reports on their way, after the last one the driver has. *)
Pending ==
    LET Polls == SelectSeq(dev.due, LAMBDA ev : ev.type = "xfer"
                             /\ ev.ep = "in" /\ ev.end)
    IN  <<drv.last>> \o [i \in 1..Len(Polls) |-> dev.mem[Polls[i].id]]
        \o dev.reports

(* Reports are numbered, anew when the driver has them all. *)
HostReport ==
    LET all == Len(Pending) = 1
        n == IF all THEN 1 ELSE dev.made + 1
    IN  /\ dev.hid /\ n <= uses.reports
        /\ dev' = Enqueue([dev EXCEPT !.made = n,
                                      !.lost = IF all THEN FALSE ELSE @], n)
        /\ drv' = IF all THEN [drv EXCEPT !.last = 0] ELSE drv
        /\ UNCHANGED uses

-----------------------------------------------------------------------------

Init ==
    /\ uses \in Uses
    /\ dev = [run |-> FALSE, ie |-> FALSE, ip |-> FALSE, ehb |-> FALSE,
              eint |-> FALSE, irq |-> FALSE, msi |-> uses.msi, hse |-> FALSE,
              erst |-> FALSE, ring |-> EmptyRing, enq |-> 0, pcs |-> TRUE,
              erdp |-> 0, fifo |-> <<>>, due |-> <<>>, passed |-> FALSE,
              dropped |-> {}, change |-> {"CSC"},
              slot |-> "DISABLED", cc |-> "SUCCESS",
              ep |-> [e \in Eps |-> [state |-> "DISABLED", busy |-> FALSE,
                                     ring |-> <<>>, td |-> NoTd]],
              answer |-> "ok", moved |-> 0, mem |-> [i \in Ids |-> 0],
              hid |-> uses.hid, halted |-> {}, wedged |-> {},
              parked |-> "none", msc |-> "CBW", busy |-> FALSE, unit |-> {},
              cbw |-> NoCbw, pos |-> 0, done |-> 0, ran |-> 0,
              reports |-> <<>>, lost |-> FALSE, made |-> 0]
    /\ drv = [plan |-> <<Write("reset"), Write("start")>> \o Enumerate,
              wait |-> Idle, bell |-> "none", out |-> {}, irq |-> "no",
              deq |-> 0, ccs |-> TRUE, tag |-> 1, len |-> 0, moved |-> 0,
              told |-> "none", last |-> 0]

Next ==
    \/ QueueStep \/ QueuePoll \/ RingAgain \/ SendCommand \/ WritePort
    \/ WriteReset \/ WriteRun
    \/ \E ans \in Answers : RingDoorbell(ans) \/ UnitAnswers(ans)
    \/ \E c \in uses.cbws : NewCommand(c)
    \/ \E what \in {"junk", "big", "unknown"} : Misplaced(what)
    \/ Timeout \/ ResetPort \/ Unlink \/ Suspend \/ Pause \/ Unplug
    \/ Restart
    \/ Interrupt \/ AckPending \/ TakeEvent \/ FreeEntries \/ EndInterrupt
    \/ HostReport

Spec == Init /\ [][Next]_vars

-----------------------------------------------------------------------------

Count(s, ev) == Cardinality({i \in 1..Len(s) : s[i] = ev})

(* Every event posted is still in the ring or the overflow queue, an entry *)
(* the guest has not taken is never overwritten, and an event waits with   *)
(* room in the ring only until the handler that made the room ends         *)
(* (PostEvent, EventRingFull, DrainEventFifo).  The guest takes events in  *)
(* the order they were posted, except that one posted after a write of     *)
(* ERDP without EHB has passed those that wait (dev.passed).               *)
EventsInOrder ==
    /\ Fresh <=> Len(dev.due) > Len(dev.fifo)
    /\ \A i \in 1..Len(dev.due) :
         Count(dev.due, dev.due[i]) >= Count(dev.fifo, dev.due[i])
    /\ Fresh => Count(dev.due, Entry.ev) > Count(dev.fifo, Entry.ev)
    /\ dev.fifo # <<>> /\ drv.irq # "take" => EventRingFull(dev)
    /\ ~dev.passed =>
         /\ Fresh => Entry.ev = Head(dev.due)
         /\ \A i \in 1..Len(dev.fifo) :
              dev.fifo[i] = dev.due[Len(dev.due) - Len(dev.fifo) + i]
    /\ ~dev.hse

(* What a comment says of them: the events that wait do so until the guest *)
(* has freed space, by writing ERDP (XHCI_EVENT_FIFO_SIZE).  A write of    *)
(* ERDP without EHB frees space and leaves them waiting.                   *)
WaitForRoom == dev.fifo # <<>> => EventRingFull(dev)

(* An event the guest has not taken has an interrupt on its way, unless    *)
(* the handler is running (IntrRaise, IntrUpdate, the write of ERDP).      *)
EventsTold == dev.due # <<>> /\ drv.irq = "no" => dev.irq

Places(o) ==
    Cardinality({i \in 1..Len(dev.ep[o.ep].ring) :
                   dev.ep[o.ep].ring[i].id = o.id})
    + (IF dev.ep[o.ep].busy /\ dev.ep[o.ep].td.id = o.id THEN 1 ELSE 0)
    + Cardinality({i \in 1..Len(dev.due) :
                     /\ dev.due[i].type = "xfer" /\ dev.due[i].end
                     /\ dev.due[i].ep = o.ep /\ dev.due[i].id = o.id})

(* The endpoints were, or are about to be, taken down by a command whose   *)
(* answer the driver has not seen.                                         *)
TakenDown ==
    \/ \E i \in 1..Len(dev.due) :
         dev.due[i].type = "cmd" /\ dev.due[i].cmd \in
           {"dequeue", "resetdev", "disable", "configure"}
    \/ \E i \in 1..Len(drv.plan) :
         drv.plan[i].do = "reset" \/ drv.plan[i].cmd = "resetdev"

(* A transfer the guest has queued is in exactly one place: in the ring,   *)
(* with the device, or reported by one final event (FetchTD, XferReport,   *)
(* CmdStopEndpoint).  One the device held when the controller was halted   *)
(* is in none (SetRunning).                                                *)
EachOnce ==
    ~TakenDown => \A o \in drv.out :
                    Places(o) = IF o \in dev.dropped THEN 0 ELSE 1

(* An endpoint that runs has given its next descriptor to the device, and  *)
(* an endpoint that waits is one whose transfer the device holds for data  *)
(* it does not have yet (KickEndpoint, HandleBulkIn, HandleInterruptIn).   *)
(* After a halt the driver has yet to ring the doorbell.                   *)
NoneStuck ==
    /\ \A e \in Eps : dev.ep[e].state = "RUNNING" /\ dev.ep[e].ring # <<>>
                       /\ drv.bell # e /\ Ring(e) \notin Range(drv.plan)
                       => dev.ep[e].busy
    /\ ~TakenDown => (dev.ep["in"].busy <=> dev.parked = "in")
    /\ dev.parked = "in" => IF dev.hid THEN dev.reports = <<>>
                            ELSE dev.busy
    /\ dev.busy <=> dev.unit # {}

(* The status a command ends with is its own and counts the data it moved  *)
(* (ServeDataIn, ServeStatus, the bulk-only reset).                        *)
StatusIsMine ==
    \A i \in 1..Len(dev.due) :
      LET ev == dev.due[i]
      IN  ev.type = "xfer" /\ ev.ep = "in" /\ ev.end /\ drv.told = "csw"
          /\ drv.wait = Waits("xfer", "in", ev.id) =>
            /\ ev.cc = "SUCCESS"
            /\ dev.mem[ev.id][1] = drv.tag /\ dev.mem[ev.id][2] = drv.tag
            /\ dev.cbw.in => dev.mem[ev.id][3] = drv.len - drv.moved

(* Reports reach the driver in the order they were made, and only a full   *)
(* queue loses one (Enqueue, HandleInputReport), as long as no event of    *)
(* theirs has passed another (EventsInOrder).                              *)
ReportsInOrder ==
    dev.hid /\ ~dev.passed => LET p == Pending
               IN  \A i \in 1..(Len(p) - 1) :
                     p[i] < p[i + 1]
                     /\ (~dev.lost => p[i + 1] = p[i] + 1)
====
