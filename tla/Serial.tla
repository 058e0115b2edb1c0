-------------------------------- MODULE Serial --------------------------------
(***************************************************************************)
(* Serial input: a host console (platform/posix: the terminal and a pipe,  *)
(* which read what the target has room for, and a socket, which reads      *)
(* ahead) feeding a 16550 (device/char/uart.cpp) or a virtio console       *)
(* (device/char/virtio_console.cpp).  The console is a source of the event *)
(* loop: Prepare(), the wait without the device lock, Dispatch().  A guest *)
(* that may use any register at any time is the other actor.  The          *)
(* characters typed are numbered; 0 is one the guest sent to itself.       *)
(***************************************************************************)
EXTENDS Integers, Sequences, SequencesExt

CONSTANTS
    FifoLength,     \* UART_FIFO_LENGTH
    Triggers,       \* RxTrigger(), levels of the receive FIFO
    Ier,            \* the enables the guest sets
    MaxTyped,       \* bound on what is typed, in any scenario
    ReadAhead,      \* SOCKET_BUFFER_SIZE
    Uses            \* scenarios: console, target, the FIFO's mode, and what
                    \* else happens: "fcr", "loop", "gone"

VARIABLES
    dev,            \* the 16550, or the virtio console's buffers
    host,           \* the console, its loop, and the other end
    got,            \* the last character the guest has read
    uses

vars == <<dev, host, got, uses>>

Enables == {"RDI", "THRI", "RLSI", "MSI"}
Char == 0..MaxTyped
(* The error a character arrived with. *)
Flag == {"none", "BI"}

TypeOK ==
    /\ dev.fIer \subseteq Enables
    /\ dev.fIir \in Enables \cup {"CTI", "none"}
    /\ dev.fifo \in BOOLEAN /\ dev.trigger \in Triggers
    /\ dev.loop \in BOOLEAN /\ dev.lines \in BOOLEAN /\ dev.deltas \in BOOLEAN
    /\ dev.sbc \in BOOLEAN
    /\ dev.fLsrErrors \subseteq {"OE", "BI"}
    /\ dev.fThrIpending \in BOOLEAN /\ dev.fTimeoutPending \in BOOLEAN
    /\ dev.armed \in BOOLEAN
    /\ dev.rx \in Seq(Char \X Flag) /\ Len(dev.rx) <= FifoLength
    /\ host.at \in {"prepare", "wait", "dispatch"}
    /\ host.fPending \in Seq(1..MaxTyped)
    /\ host.read <= host.typed /\ host.typed \in 0..MaxTyped
    /\ host.lost \subseteq 1..MaxTyped /\ host.untold \in BOOLEAN
    /\ got \in Char

Init ==
    /\ uses \in Uses
    /\ dev = [fIer |-> {}, fIir |-> "none", fifo |-> uses.fifo,
              trigger |-> IF uses.fifo THEN CHOOSE t \in Triggers : t > 1 ELSE 1,
              loop |-> FALSE, lines |-> FALSE, deltas |-> FALSE, sbc |-> FALSE,
              fLsrErrors |-> {}, fThrIpending |-> FALSE,
              fTimeoutPending |-> FALSE, armed |-> FALSE, rx |-> <<>>,
              queued |-> FALSE, notified |-> TRUE]
    /\ host = [at |-> "prepare", fBlocked |-> FALSE, fWatching |-> FALSE,
               woken |-> FALSE, fPending |-> <<>>, typed |-> 0, read |-> 0,
               conn |-> TRUE, fBroken |-> FALSE, lost |-> {},
               untold |-> FALSE]
    /\ got = 0

-----------------------------------------------------------------------------
(* The 16550. *)

RxCapacity(d) == IF d.fifo THEN FifoLength ELSE 1

UpdateIRQ(d) ==
    LET data == IF d.fifo THEN Len(d.rx) >= d.trigger ELSE d.rx # <<>>
        iir == CASE d.fLsrErrors # {} /\ "RLSI" \in d.fIer -> "RLSI"
                 [] data /\ "RDI" \in d.fIer -> "RDI"
                 [] d.fTimeoutPending /\ "RDI" \in d.fIer -> "CTI"
                 [] d.fThrIpending /\ "THRI" \in d.fIer -> "THRI"
                 [] d.deltas /\ "MSI" \in d.fIer -> "MSI"
                 [] OTHER -> "none"
    IN  [d EXCEPT !.fIir = iir]

(* The line to the interrupt controller. *)
Line(d) == d.fIir # "none"

(* Four characters' time. *)
RestartTimeout(d) ==
    [d EXCEPT !.fTimeoutPending = FALSE, !.armed = d.fifo /\ d.rx # <<>>]

RxPush(d, ch, flag) ==
    LET full == Len(d.rx) = RxCapacity(d)
        d1 == IF full THEN [d EXCEPT !.fLsrErrors = @ \cup {"OE"}] ELSE d
        d2 == [d1 EXCEPT !.rx = Append(IF full THEN <<>> ELSE @, <<ch, flag>>)]
        d3 == IF Len(d2.rx) = 1 /\ flag # "none"
              THEN [d2 EXCEPT !.fLsrErrors = @ \cup {flag}] ELSE d2
    IN  IF full /\ d.fifo THEN UpdateIRQ(d1)
        ELSE UpdateIRQ(RestartTimeout(d3))

(* Mutant: the timer runs from the last character received only. *)
RxPopNoTimer(d) ==
    LET d1 == [d EXCEPT !.rx = Tail(@), !.fTimeoutPending = FALSE]
        d2 == IF d1.rx # <<>> /\ Head(d1.rx)[2] # "none"
              THEN [d1 EXCEPT !.fLsrErrors = @ \cup {Head(d1.rx)[2]}] ELSE d1
    IN  UpdateIRQ(d2)

RxPop(d) ==
    LET d1 == [d EXCEPT !.rx = Tail(@)]
        d2 == IF d1.rx # <<>> /\ Head(d1.rx)[2] # "none"
              THEN [d1 EXCEPT !.fLsrErrors = @ \cup {Head(d1.rx)[2]}] ELSE d1
    IN  UpdateIRQ(RestartTimeout(d2))

RxClear(d) == RestartTimeout([d EXCEPT !.rx = <<>>])

SetModemLines(d, lines) ==
    UpdateIRQ([d EXCEPT !.lines = lines, !.deltas = @ \/ lines # d.lines])

-----------------------------------------------------------------------------
(* What the target has room for, and takes. *)

RoomOf(d) ==
    CASE uses.target = "virtio" -> IF d.queued THEN FifoLength ELSE 0
      [] d.loop -> 0
      [] OTHER -> RxCapacity(d) - Len(d.rx)

ReceiveRoom == RoomOf(dev)

(* Receive(): characters one after the other, or a buffer with all. *)
Receive(chars) ==
    IF uses.target = "virtio"
    THEN [dev EXCEPT !.queued = FALSE,
                     !.rx = FoldLeft(LAMBDA r, ch : Append(r, <<ch, "none">>),
                                     <<>>, chars)]
    ELSE FoldLeft(LAMBDA d, ch : RxPush(d, ch, "none"), dev, chars)

(* Mutant: the loop is not woken. *)
TargetReadyAsleep(h) == [h EXCEPT !.fBlocked = FALSE]

TargetReady(h) ==
    IF h.fBlocked
    THEN [h EXCEPT !.fBlocked = FALSE, !.woken = TRUE, !.untold = FALSE] ELSE h

(* What a write to the port may do that no one tells the console of: lose  *)
(* characters it holds, and make room while the loop sleeps.               *)
Typed(d) == {d.rx[i][1] : i \in DOMAIN d.rx} \ {0}
Unannounced(d) ==
    [host EXCEPT !.lost = @ \cup (Typed(dev) \ Typed(d)),
                 !.untold = @ \/ (host.at = "wait" /\ ReceiveRoom <= 0
                                  /\ RoomOf(d) > 0)]

-----------------------------------------------------------------------------
(* The guest's accesses. *)

(* Read(0): RBR. *)
ReadRbr ==
    /\ uses.target = "uart"
    /\ dev' = IF dev.rx = <<>> THEN dev ELSE RxPop(dev)
    /\ got' = IF dev.rx = <<>> \/ Head(dev.rx)[1] = 0 THEN got
              ELSE Head(dev.rx)[1]
    /\ host' = [TargetReady(host) EXCEPT !.lost = {ch \in @ : ch > got'}]
    /\ UNCHANGED uses

(* Read(2), Read(5), Read(6): IIR, LSR, MSR. *)
ReadIir ==
    /\ uses.target = "uart" /\ dev.fIir = "THRI"
    /\ dev' = UpdateIRQ([dev EXCEPT !.fThrIpending = FALSE])
    /\ UNCHANGED <<host, got, uses>>

ReadLsr ==
    /\ uses.target = "uart"
    /\ dev' = UpdateIRQ([dev EXCEPT !.fLsrErrors = {}])
    /\ UNCHANGED <<host, got, uses>>

ReadMsr ==
    /\ uses.target = "uart"
    /\ dev' = UpdateIRQ([dev EXCEPT !.deltas = FALSE])
    /\ UNCHANGED <<host, got, uses>>

(* Write(0): THR.  The character is out at once; a socket's other end may  *)
(* have gone.                                                              *)
WriteThr(fails) ==
    /\ uses.target = "uart"
    /\ dev' = LET d == UpdateIRQ([dev EXCEPT !.fThrIpending = FALSE])
                  sent == IF d.loop THEN RxPush(d, 0, "none") ELSE d
              IN  UpdateIRQ([sent EXCEPT !.fThrIpending = TRUE])
    /\ IF fails
       THEN /\ uses.console = "socket" /\ ~dev.loop /\ "gone" \in uses.ops
            /\ host.conn /\ ~host.fBroken
            /\ host' = [host EXCEPT !.fBroken = TRUE, !.woken = TRUE]
       ELSE host' = Unannounced(dev')
    /\ UNCHANGED <<got, uses>>

(* Write(1): IER. *)
WriteIer(ier) ==
    /\ uses.target = "uart"
    /\ dev' = UpdateIRQ([dev EXCEPT
                !.fIer = ier,
                !.fThrIpending = "THRI" \in ier /\ (@ \/ "THRI" \notin dev.fIer)])
    /\ UNCHANGED <<host, got, uses>>

(* Write(2): FCR. *)
WriteFcr(enable, clear, trigger) ==
    /\ uses.target = "uart" /\ "fcr" \in uses.ops
    /\ ~enable => ~clear /\ trigger = 1
    /\ dev' = LET d == IF dev.fifo # enable \/ clear THEN RxClear(dev) ELSE dev
              IN  UpdateIRQ([d EXCEPT !.fifo = enable, !.trigger = trigger])
    /\ host' = Unannounced(dev')
    /\ UNCHANGED <<got, uses>>

(* Write(3): LCR.  A break in loopback mode is received. *)
WriteLcr(sbc) ==
    /\ uses.target = "uart" /\ "loop" \in uses.ops
    /\ dev' = LET d == IF sbc /\ ~dev.sbc /\ dev.loop
                       THEN RxPush(dev, 0, "BI") ELSE dev
              IN  [d EXCEPT !.sbc = sbc]
    /\ host' = Unannounced(dev')
    /\ UNCHANGED <<got, uses>>

(* Write(4): MCR.  The outputs are the modem lines in loopback mode. *)
WriteMcr(loop, outputs) ==
    /\ uses.target = "uart" /\ "loop" \in uses.ops
    /\ dev' = SetModemLines([dev EXCEPT !.loop = loop], loop /\ outputs)
    /\ host' = Unannounced(dev')
    /\ UNCHANGED <<got, uses>>

TimerExpired ==
    /\ dev.armed
    /\ dev' = LET d == [dev EXCEPT !.armed = FALSE]
              IN  IF d.fifo /\ d.rx # <<>>
                  THEN UpdateIRQ([d EXCEPT !.fTimeoutPending = TRUE]) ELSE d
    /\ UNCHANGED <<host, got, uses>>

(* The virtio driver takes what a buffer holds and queues it again, then   *)
(* notifies the device: ManualQueueNotify().                               *)
QueueBuffer ==
    /\ uses.target = "virtio" /\ ~dev.queued
    /\ got' = IF dev.rx = <<>> THEN got ELSE Last(dev.rx)[1]
    /\ dev' = [dev EXCEPT !.rx = <<>>, !.queued = TRUE, !.notified = FALSE]
    /\ UNCHANGED <<host, uses>>

ManualQueueNotify ==
    /\ ~dev.notified
    /\ dev' = [dev EXCEPT !.notified = TRUE]
    /\ host' = TargetReady(host)
    /\ UNCHANGED <<got, uses>>

-----------------------------------------------------------------------------
(* The console, in the loop.  The other end types, and may go. *)

Type ==
    /\ host.typed < uses.typed /\ host.conn /\ ~host.fBroken
    /\ host' = [host EXCEPT !.typed = @ + 1]
    /\ UNCHANGED <<dev, got, uses>>

Disconnected(h) ==
    [h EXCEPT !.conn = FALSE, !.fBroken = FALSE, !.fPending = <<>>,
              !.read = h.typed,
              !.lost = @ \cup Range(h.fPending) \cup ((h.read + 1)..h.typed)]

(* StdioConsole, PipeConsole. *)
PrepareDirect ==
    /\ uses.console = "direct"
    /\ host' = [host EXCEPT !.at = "wait", !.fWatching = ReceiveRoom > 0,
                            !.fBlocked = @ \/ ReceiveRoom <= 0]

(* SocketConsole; LimitTimeout(0) is a wait that ends at once. *)
PrepareSocket ==
    /\ uses.console = "socket"
    /\ host' = LET h == IF host.fBroken /\ host.conn THEN Disconnected(host)
                        ELSE host
                   some == h.fPending # <<>>
               IN  [h EXCEPT !.at = "wait",
                             !.fWatching = h.conn /\ ~some,
                             !.fBlocked = @ \/ (some /\ ReceiveRoom <= 0),
                             !.woken = @ \/ (some /\ ReceiveRoom > 0)]

Prepare ==
    /\ host.at = "prepare"
    /\ PrepareDirect \/ PrepareSocket
    /\ UNCHANGED <<dev, got, uses>>

Readable == host.read < host.typed

(* Another source of the loop may end it too. *)
WaitEnds ==
    /\ host.at = "wait"
    /\ host' = [host EXCEPT !.at = "dispatch", !.woken = FALSE,
                            !.untold = FALSE]
    /\ UNCHANGED <<dev, got, uses>>

Upto(n, m) == [i \in 1..(m - n) |-> n + i]
Least(a, b) == IF a < b THEN a ELSE b

(* Mutant: what there was room for at the last Prepare() is read. *)
DispatchStale ==
    LET len == IF host.fWatching /\ Readable
               THEN Least(FifoLength, host.typed - host.read) ELSE 0
        room == Least(len, ReceiveRoom)
    IN  /\ uses.console = "direct"
        /\ host' = [host EXCEPT !.at = "prepare", !.read = @ + len]
        /\ dev' = IF len > 0 THEN Receive(Upto(host.read, host.read + room))
                  ELSE dev

(* What is read is what there is room for now. *)
DispatchDirect ==
    LET len == IF host.fWatching /\ Readable
               THEN Least(ReceiveRoom, host.typed - host.read) ELSE 0
    IN  /\ uses.console = "direct"
        /\ host' = [host EXCEPT !.at = "prepare", !.read = @ + len]
        /\ dev' = IF len > 0 THEN Receive(Upto(host.read, host.read + len))
                  ELSE dev

(* A client that goes is told by the read; Accept() takes the next one;    *)
(* then Deliver().                                                         *)
DispatchSocket(gone, next) ==
    LET more == IF host.fWatching /\ Readable /\ ~gone
                THEN Least(ReadAhead, host.typed - host.read) ELSE 0
        h == IF gone THEN Disconnected(host)
             ELSE [host EXCEPT !.read = @ + more,
                    !.fPending = @ \o Upto(host.read, host.read + more)]
        len == Least(ReceiveRoom, Len(h.fPending))
    IN  /\ uses.console = "socket"
        /\ gone => host.fWatching /\ host.conn /\ "gone" \in uses.ops
        /\ host' = [h EXCEPT !.at = "prepare", !.conn = @ \/ next,
                        !.fPending = IF len > 0 THEN SubSeq(@, len + 1, Len(@))
                                     ELSE @]
        /\ dev' = IF len > 0 THEN Receive(SubSeq(h.fPending, 1, len)) ELSE dev

Dispatch ==
    /\ host.at = "dispatch"
    /\ DispatchDirect \/ \E gone, next \in BOOLEAN : DispatchSocket(gone, next)
    /\ UNCHANGED <<got, uses>>

Next ==
    \/ ReadRbr \/ ReadIir \/ ReadLsr \/ ReadMsr
    \/ \E fails \in BOOLEAN : WriteThr(fails)
    \/ \E ier \in Ier : WriteIer(ier)
    \/ \E enable, clear \in BOOLEAN, t \in Triggers : WriteFcr(enable, clear, t)
    \/ \E sbc \in BOOLEAN : WriteLcr(sbc)
    \/ \E loop, outputs \in BOOLEAN : WriteMcr(loop, outputs)
    \/ TimerExpired
    \/ QueueBuffer \/ ManualQueueNotify
    \/ Type \/ Prepare \/ WaitEnds \/ Dispatch

Spec == Init /\ [][Next]_vars

-----------------------------------------------------------------------------
(* What was typed and is not yet read, in the order it will be. *)
Coming ==
    SelectSeq([i \in DOMAIN dev.rx |-> dev.rx[i][1]], LAMBDA ch : ch > 0)
        \o host.fPending \o Upto(host.read, host.typed)

(* What is typed is read in order and once, and all of it, but for what    *)
(* the guest discarded by setting the port up anew or wrote over in        *)
(* loopback mode, and what a client that went had left (Receive(),         *)
(* ReceiveRoom(), Dispatch(), Deliver(), RxClear(), Disconnect()).         *)
InputInOrder ==
    LET all == <<got>> \o Coming
    IN  /\ \A i \in 1..(Len(all) - 1) : all[i] < all[i + 1]
        /\ Range(Coming) = ((got + 1)..host.typed) \ host.lost

(* A loop that sleeps with input waiting has no room for it: the guest's   *)
(* read of a character or notification wakes it (TargetReady()).  Clearing *)
(* the FIFO or leaving loopback mode makes room and does not (host.untold, *)
(* the writes of FCR and MCR).                                             *)
RoomIsTold ==
    ~host.untold /\ dev.notified /\ host.at = "wait" /\ ~host.woken
    /\ (host.fPending # <<>> \/ (Readable /\ ~host.fWatching))
        => ReceiveRoom <= 0

(* Characters that wait raise the interrupt, or will when the timer        *)
(* expires, whatever the trigger level (RestartTimeout()).                 *)
Announced ==
    uses.target = "uart" /\ dev.rx # <<>> /\ "RDI" \in dev.fIer
        => Line(dev) \/ dev.armed
=============================================================================
