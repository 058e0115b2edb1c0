---------------------------------- MODULE Ata ----------------------------------
(***************************************************************************)
(* An ATA channel (bus/ata/ata.cpp) of the PCI controller with its bus     *)
(* master (bus/ata/host/ata_pci.cpp), and the drive on it: a disk          *)
(* (device/storage/ata_disk.cpp) or a packet device that carries the       *)
(* commands of a SCSI unit (device/storage/atapi.cpp).  A handler runs     *)
(* with the device lock held and is a step on the state of the three, dev. *)
(*                                                                         *)
(* Data is counted in sectors.  A sector read is its number on the disk, a *)
(* sector written the number of it among those the guest gives; dev.seen   *)
(* is what has reached the other side, as pairs of place and sector.  The  *)
(* guest moves a whole PIO buffer in a step: only the last word of it does *)
(* more than move.  The disk image and the unit answer at once, later, or  *)
(* fail: ans.                                                              *)
(***************************************************************************)
EXTENDS Integers, Sequences, FiniteSets

CONSTANTS
    SectorCount,    \* of the disk
    MaxCount,       \* a count of 0 means this many, 256 in the code
    Starts, Counts, \* what the guest asks for
    Lists,          \* scatter lists: sectors described, and what is wrong
    Packets,        \* packet commands
    Uses            \* scenarios

VARIABLES
    dev,        \* channel, bus master and drive
    drv,        \* the driver
    uses

vars == <<dev, drv, uses>>

Pio == {"read", "write", "multread", "multwrite"}
Dma == {"readdma", "writedma"}
Reads == {"read", "multread", "readdma"}
Kinds == {"PioRead", "PioWrite", "DmaRead", "DmaWrite"}
Answers == {"later", "ok", "fail"}
NoPacket == [dir |-> "none", len |-> 0, actual |-> 0, dma |-> FALSE, limit |-> 1]
NoList == [len |-> 0, wrong |-> "no"]

TypeOK ==
    /\ dev.kind \in {"disk", "atapi"}
    /\ dev.status \subseteq {"BSY", "DRQ", "ERR"}
    /\ dev.n \in 0..(MaxCount - 1)
    /\ dev.lba \in 0..(SectorCount + MaxCount)
    /\ dev.room \in 0..MaxCount /\ dev.io \in 0..MaxCount
    /\ dev.onEnd \in {"Stop", "ReadNext", "ReadDone", "Write"}
    /\ dev.inFlight \in Kinds \cup {"None"} /\ Len(dev.image) <= 1
    /\ dev.phase \in {"Idle", "Identify", "Packet", "DataOut", "DataIn", "Dma",
                      "Busy"}
    /\ dev.pend \in BOOLEAN /\ dev.toMem \in BOOLEAN
    /\ dev.nien \in BOOLEAN /\ dev.irq \in BOOLEAN
    /\ drv.turn \in {"idle", "ready", "poll", "wait", "data", "srst"}
    /\ drv.done \in {"none", "ok", "error"}

(* As many sectors as a count register means. *)
Meant(n) == IF n = 0 THEN MaxCount ELSE n
Least2(a, b) == IF a < b THEN a ELSE b
From(first, n) == [i \in 1..n |-> first + i - 1]
Pairs(places, sectors) == [i \in 1..Len(places) |-> <<places[i], sectors[i]>>]
LbaInRange(lba, n) == lba + n <= SectorCount

-----------------------------------------------------------------------------
(* The channel. *)

(* The bus master's interrupt bit latches what the channel raises. *)
RaiseIrq(d) ==
    IF d.nien \/ d.irq THEN d ELSE [d EXCEPT !.irq = TRUE, !.bm.irq = TRUE]

LowerIrq(d) == [d EXCEPT !.irq = FALSE]

Status(d, s) == [d EXCEPT !.status = s]

AbortCommand(d) ==
    [d EXCEPT !.status = {"ERR"}, !.room = 0, !.pend = FALSE]

(* ATADevice::Reset() with SetSignature(). *)
DeviceReset(d) ==
    [d EXCEPT !.status = {}, !.room = 0, !.pend = FALSE, !.n = 1, !.lba = 1]

(* Mutant: the image is not told that nobody waits. *)
DiskResetKeeps(d) ==
    [DeviceReset(d)
        EXCEPT !.inFlight = "None", !.onEnd = "Stop", !.req = 0, !.io = 0,
               !.dmaLen = 0, !.dmaPos = 0]

DiskReset(d) ==
    [DeviceReset([d EXCEPT !.image = <<>>])
        EXCEPT !.inFlight = "None", !.onEnd = "Stop", !.req = 0, !.io = 0,
               !.dmaLen = 0, !.dmaPos = 0]

CancelCommand(d) ==
    [d EXCEPT !.image = IF d.phase = "Busy" THEN <<>> ELSE @, !.phase = "Idle"]

Reset(d) ==
    IF d.kind = "disk" THEN DiskReset(d) ELSE DeviceReset(CancelCommand(d))

-----------------------------------------------------------------------------
(* The ends of commands. *)

DmaEnd(d, ok) ==
    RaiseIrq([d EXCEPT !.status = IF ok THEN {} ELSE {"ERR"},
                       !.lba = IF ok THEN d.ioLba + d.dmaLen ELSE @,
                       !.n = IF ok THEN 0 ELSE @,
                       !.dmaLen = 0, !.dmaPos = 0])

EndCommand(d) ==
    RaiseIrq([d EXCEPT !.phase = "Idle", !.room = 0, !.status = {}])

EndError(d) ==
    RaiseIrq([d EXCEPT !.phase = "Idle", !.room = 0, !.pend = FALSE,
                       !.status = {"ERR"}])

CommandDone(d) == RaiseIrq(Status(d, {}))
IdError(d) == RaiseIrq(Status(d, {"ERR"}))

(* A block of a read is in the buffer. *)
PioReadFilled(d, ok) ==
    IF ~ok THEN RaiseIrq([d EXCEPT !.status = {"ERR"}, !.onEnd = "Stop"])
    ELSE LET left == (d.n - d.io) % MaxCount
         IN  RaiseIrq([d EXCEPT !.lba = d.ioLba + d.io, !.n = left,
                                !.onEnd = IF left = 0 THEN "ReadDone"
                                          ELSE "ReadNext",
                                !.room = d.io, !.status = {"DRQ"}])

(* Mutant: the next block is as large as the first. *)
PioWriteFlushedSame(d, ok) ==
    IF ~ok THEN RaiseIrq([d EXCEPT !.status = {"ERR"}, !.onEnd = "Stop"])
    ELSE LET left == (d.n - d.io) % MaxCount
             e == [d EXCEPT !.lba = d.ioLba + d.io, !.n = left]
         IN  RaiseIrq(IF left = 0
                      THEN [e EXCEPT !.onEnd = "Stop", !.status = {}]
                      ELSE [e EXCEPT !.room = d.io, !.status = {"DRQ"}])

(* A block of a write is in the image. *)
PioWriteFlushed(d, ok) ==
    IF ~ok THEN RaiseIrq([d EXCEPT !.status = {"ERR"}, !.onEnd = "Stop"])
    ELSE LET left == (d.n - d.io) % MaxCount
             next == Least2(left, d.req)
             e == [d EXCEPT !.lba = d.ioLba + d.io, !.n = left]
         IN  RaiseIrq(IF left = 0
                      THEN [e EXCEPT !.onEnd = "Stop", !.status = {}]
                      ELSE [e EXCEPT !.io = next, !.room = next,
                                     !.status = {"DRQ"}])

-----------------------------------------------------------------------------
(* The bus master and the drive call each other.  DmaComplete() of a write *)
(* hands the data on, to the image or to the unit, which may answer at     *)
(* once; a read that is answered while the engine runs is moved at once.   *)

RECURSIVE StartRequest(_, _, _, _, _), BlockDone(_, _, _), BusMasterRun(_, _),
          DmaComplete(_, _, _), Finished(_, _), SubmitCommand(_, _)

(* Mutant: taken for one that finishes later. *)
StartRequestLater(d, kind, lba, n, ans) ==
    LET e == [d EXCEPT !.inFlight = kind, !.ioLba = lba, !.status = {"BSY"},
                       !.image = Append(@, [kind |-> kind, lba |-> lba, n |-> n])]
    IN  IF ans = "later" THEN e
        ELSE [e EXCEPT !.image = <<>>]

StartRequest(d, kind, lba, n, ans) ==
    LET e == [d EXCEPT !.inFlight = kind, !.ioLba = lba, !.status = {"BSY"},
                       !.image = Append(@, [kind |-> kind, lba |-> lba, n |-> n])]
    IN  IF ans = "later" THEN e ELSE BlockDone(e, Len(e.image), ans)

(* The image has done request i: what it read is in the buffer, what it    *)
(* wrote is on the disk.                                                   *)
BlockDone(d, i, ans) ==
    LET r == d.image[i]
        ok == ans = "ok"
        read == r.kind \in {"PioRead", "DmaRead"}
        e == [d EXCEPT
                !.image = SubSeq(@, 1, i - 1) \o SubSeq(@, i + 1, Len(@)),
                !.inFlight = "None",
                !.buf = IF ok /\ read THEN From(r.lba, r.n) ELSE @,
                !.seen = IF ok /\ ~read
                         THEN @ \o Pairs(From(r.lba, r.n), d.buf) ELSE @]
    IN  CASE d.inFlight = "PioRead" -> PioReadFilled(e, ok)
          [] d.inFlight = "PioWrite" -> PioWriteFlushed(e, ok)
          [] d.inFlight = "DmaWrite" -> DmaEnd(e, ok)
          [] d.inFlight = "DmaRead" ->
             IF ok THEN BusMasterRun([e EXCEPT !.status = {"DRQ", "BSY"},
                                               !.pend = TRUE, !.toMem = TRUE],
                                     ans)
             ELSE DmaEnd(e, FALSE)
          [] OTHER -> e

(* ATADmaRequested() runs an engine that is started, and so does starting  *)
(* it: it stays active if there is nothing to move.  A list that describes *)
(* more than the transfer leaves it active.                                *)
BusMasterRun(d, ans) ==
    LET left == d.dmaLen - d.dmaPos
        moved == Least2(left, d.list.len)
        ok == d.list.wrong # "memory"
        new == SubSeq(d.buf, d.dmaPos + 1, d.dmaPos + moved)
        at == From(Len(d.seen) + 1, moved)
        e == [d EXCEPT
                !.bm.active = ok /\ d.list.len > left, !.bm.error = ~ok,
                !.dmaPos = @ + moved,
                !.seen = IF d.toMem THEN @ \o Pairs(new, at) ELSE @,
                !.buf = IF d.toMem THEN @
                        ELSE SubSeq(@, 1, d.dmaPos) \o From(d.dmaPos + 1, moved)]
    IN  CASE ~d.bm.start -> d
          [] d.bm.start /\ ~d.pend -> [d EXCEPT !.bm.active = TRUE]
          [] d.bm.start /\ d.pend /\ d.bm.write # d.toMem ->
             DmaComplete([d EXCEPT !.bm.error = TRUE, !.bm.active = FALSE],
                         FALSE, ans)
          [] OTHER -> DmaComplete(e, ok, ans)

DmaComplete(d, ok, ans) ==
    LET e == [d EXCEPT !.pend = FALSE]
        whole == ok /\ e.dmaPos = e.dmaLen
    IN  CASE d.kind = "disk" /\ ~whole -> DmaEnd(e, FALSE)
          [] d.kind = "disk" /\ whole /\ d.toMem -> DmaEnd(e, TRUE)
          [] d.kind = "disk" /\ whole /\ ~d.toMem ->
             StartRequest(e, "DmaWrite", e.ioLba, e.dmaLen, ans)
          [] d.kind = "atapi" /\ d.phase # "Dma" -> e
          [] d.kind = "atapi" /\ d.phase = "Dma" /\ ~whole -> EndError(e)
          [] d.kind = "atapi" /\ d.phase = "Dma" /\ whole /\ d.toMem ->
             EndCommand(e)
          [] d.kind = "atapi" /\ d.phase = "Dma" /\ whole /\ ~d.toMem ->
             SubmitCommand(e, ans)

(* A block for the guest, or one from it. *)
PioChunk(d, phase) ==
    LET chunk == Least2(d.dmaLen - d.dmaPos, d.pkt.limit)
    IN  RaiseIrq([d EXCEPT !.phase = phase, !.status = {"DRQ"},
                           !.io = chunk, !.room = chunk])

(* The unit has the command and, of one that writes, the data. *)
SubmitCommand(d, ans) ==
    LET e == [d EXCEPT !.phase = "Busy", !.status = {"BSY"},
                       !.image = <<[kind |-> "Unit", lba |-> 0, n |-> 0]>>]
    IN  IF ans = "later" THEN e ELSE Finished(e, ans)

(* A failed status and a data phase that does not fit both end in error. *)
Finished(d, ans) ==
    LET out == d.pkt.dir = "out"
        e == [d EXCEPT !.phase = "Idle", !.image = <<>>,
                       !.seen = IF out /\ ans = "ok"
                                THEN Pairs(From(1, Len(d.buf)), d.buf) ELSE @]
        in == [e EXCEPT !.dmaLen = d.pkt.actual, !.dmaPos = 0,
                        !.buf = From(1, d.pkt.actual)]
    IN  CASE ans = "fail" -> EndError(e)
          [] ans = "ok" /\ (d.pkt.dir # "in" \/ d.pkt.actual = 0) -> EndCommand(e)
          [] ans = "ok" /\ d.pkt.dir = "in" /\ d.pkt.actual > 0 /\ d.pkt.dma ->
             BusMasterRun([in EXCEPT !.phase = "Dma", !.status = {"DRQ", "BSY"},
                                     !.pend = TRUE, !.toMem = TRUE], ans)
          [] ans = "ok" /\ d.pkt.dir = "in" /\ d.pkt.actual > 0 /\ ~d.pkt.dma ->
             PioChunk(in, "DataIn")

-----------------------------------------------------------------------------
(* Commands of the disk. *)

PioReadStart(d, ans) ==
    LET n == Least2(Meant(d.n), d.req)
    IN  IF ~LbaInRange(d.lba, n) THEN IdError(d)
        ELSE StartRequest([d EXCEPT !.io = n, !.room = 0], "PioRead", d.lba, n,
                          ans)

(* The first block is asked for without an interrupt. *)
PioWriteStart(d) ==
    LET n == Least2(Meant(d.n), d.req)
    IN  IF ~LbaInRange(d.lba, n) THEN IdError(d)
        ELSE [d EXCEPT !.io = n, !.onEnd = "Write", !.room = n,
                       !.status = {"DRQ"}]

PioWriteFlush(d, ans) ==
    LET e == [d EXCEPT !.room = 0]
    IN  IF d.readOnly
        THEN RaiseIrq([e EXCEPT !.status = {"ERR"}, !.onEnd = "Stop"])
        ELSE StartRequest(e, "PioWrite", d.lba, d.io, ans)

DmaStart(d, toMem, ans) ==
    LET n == Meant(d.n)
        e == [d EXCEPT !.dmaLen = n, !.dmaPos = 0, !.buf = <<>>]
    IN  CASE ~LbaInRange(d.lba, n) \/ (~toMem /\ d.readOnly) -> IdError(d)
          [] LbaInRange(d.lba, n) /\ toMem ->
             StartRequest(e, "DmaRead", d.lba, n, ans)
          [] LbaInRange(d.lba, n) /\ ~toMem /\ ~d.readOnly ->
             BusMasterRun([e EXCEPT !.ioLba = d.lba, !.status = {"DRQ", "BSY"},
                                    !.pend = TRUE, !.toMem = FALSE], ans)

Verify(d) ==
    IF LbaInRange(d.lba, Meant(d.n))
    THEN CommandDone([d EXCEPT !.lba = @ + Meant(d.n) - 1, !.n = 0])
    ELSE IdError(d)

SetMult(d) ==
    IF d.n = 3 THEN RaiseIrq(AbortCommand(d))      \* not a power of two
    ELSE CommandDone([d EXCEPT !.mult = d.n])

(* A command written while the image has a request is not taken. *)
DiskCommand(d, cmd, ans) ==
    IF d.inFlight # "None" THEN d
    ELSE LET mult == [d EXCEPT !.req = d.mult]
             one == [d EXCEPT !.req = 1]
         IN  CASE cmd = "identify" ->
                  RaiseIrq([d EXCEPT !.room = 1, !.onEnd = "Stop",
                                     !.status = {"DRQ"}])
               [] cmd = "nodata" -> CommandDone(d)
               [] cmd = "setmult" -> SetMult(d)
               [] cmd = "verify" -> Verify(d)
               [] cmd = "read" -> PioReadStart(one, ans)
               [] cmd = "write" -> PioWriteStart(one)
               [] cmd = "multread" /\ d.mult # 0 -> PioReadStart(mult, ans)
               [] cmd = "multwrite" /\ d.mult # 0 -> PioWriteStart(mult)
               [] cmd = "readdma" -> DmaStart(d, TRUE, ans)
               [] cmd = "writedma" -> DmaStart(d, FALSE, ans)
               [] OTHER -> RaiseIrq(AbortCommand(d))

(* The guest has drained or filled the PIO buffer. *)
DiskBufferComplete(d, ans) ==
    CASE d.onEnd = "ReadNext" -> PioReadStart(d, ans)
      [] d.onEnd = "ReadDone" ->
         [d EXCEPT !.room = 0, !.onEnd = "Stop", !.status = {}]
      [] d.onEnd = "Write" -> PioWriteFlush(d, ans)
      [] d.onEnd = "Stop" -> [d EXCEPT !.room = 0, !.status = {}]

-----------------------------------------------------------------------------
(* Commands of the packet device. *)

(* DEVICE RESET is the one command taken while another runs. *)
AtapiCommand(d, cmd) ==
    LET e == [d EXCEPT !.phase = "Idle"]
    IN  CASE cmd = "devreset" -> DeviceReset(CancelCommand(d))
          [] cmd # "devreset" /\ d.phase \notin {"Idle", "Identify"} -> d
          [] cmd # "devreset" /\ d.phase \in {"Idle", "Identify"} ->
             CASE cmd = "packet" ->
                  [e EXCEPT !.phase = "Packet", !.room = 1, !.status = {"DRQ"}]
               [] cmd = "identify" ->
                  RaiseIrq([e EXCEPT !.phase = "Identify", !.room = 1,
                                     !.status = {"DRQ"}])
               [] cmd = "nodata" -> CommandDone(e)
               [] OTHER -> RaiseIrq(AbortCommand(e))

(* A command that writes has its data before the unit has the command. *)
PacketReceived(d, ans) ==
    LET e == [d EXCEPT !.room = 0, !.dmaPos = 0, !.buf = <<>>,
                       !.dmaLen = IF d.pkt.dir = "none" THEN 0 ELSE d.pkt.len]
    IN  CASE d.pkt.dir = "out" /\ d.pkt.len > 0 /\ d.pkt.dma ->
             BusMasterRun([e EXCEPT !.phase = "Dma", !.status = {"DRQ", "BSY"},
                                    !.pend = TRUE, !.toMem = FALSE], ans)
          [] d.pkt.dir = "out" /\ d.pkt.len > 0 /\ ~d.pkt.dma ->
             PioChunk(e, "DataOut")
          [] OTHER -> SubmitCommand(e, ans)

AtapiBufferComplete(d, ans) ==
    LET e == [d EXCEPT !.dmaPos = @ + d.io]
        more == e.dmaPos < e.dmaLen
    IN  CASE d.phase = "Identify" ->
             [d EXCEPT !.phase = "Idle", !.room = 0, !.status = {}]
          [] d.phase = "Packet" -> PacketReceived(d, ans)
          [] d.phase \in {"DataOut", "DataIn"} /\ more -> PioChunk(e, d.phase)
          [] d.phase = "DataOut" /\ ~more -> SubmitCommand(e, ans)
          [] d.phase = "DataIn" /\ ~more -> EndCommand(e)
          [] OTHER -> [d EXCEPT !.room = 0]

ExecCommand(d, cmd, ans) ==
    IF d.kind = "disk" THEN DiskCommand(d, cmd, ans) ELSE AtapiCommand(d, cmd)

BufferComplete(d, ans) ==
    IF d.kind = "disk" THEN DiskBufferComplete(d, ans)
    ELSE AtapiBufferComplete(d, ans)

(* The guest takes a buffer of a read, or gives one of a write: the disk   *)
(* writes it in place, the packet device gathers it.                       *)
MoveBuffer(d, given) ==
    LET disk == d.kind = "disk"
        read == IF disk THEN d.onEnd \in {"ReadNext", "ReadDone"}
                ELSE d.phase = "DataIn"
        at == IF disk THEN 0 ELSE d.dmaPos
        taken == SubSeq(d.buf, at + 1, at + d.room)
        new == From(given + 1, d.room)
        write == d.onEnd = "Write" \/ d.phase = "DataOut"
    IN  [d EXCEPT !.room = 0,
                  !.seen = IF read THEN @ \o Pairs(taken, new) ELSE @,
                  !.buf = IF write THEN SubSeq(@, 1, at) \o new ELSE @]

-----------------------------------------------------------------------------
(* The driver: one command at a time, in the order the standard has. *)

Init ==
    /\ uses \in Uses
    /\ dev = [kind |-> uses.kind, readOnly |-> uses.readOnly, nien |-> uses.nien,
              status |-> {}, n |-> 1, lba |-> 1, room |-> 0, buf |-> <<>>,
              onEnd |-> "Stop", inFlight |-> "None", image |-> <<>>,
              ioLba |-> 0, req |-> 0, io |-> 0, mult |-> 0,
              dmaLen |-> 0, dmaPos |-> 0, pend |-> FALSE, toMem |-> FALSE,
              phase |-> "Idle", pkt |-> NoPacket, list |-> NoList,
              irq |-> FALSE, seen |-> <<>>,
              bm |-> [start |-> FALSE, write |-> FALSE, active |-> FALSE,
                      error |-> FALSE, irq |-> FALSE]]
    /\ drv = [turn |-> "idle", op |-> "nodata", lba |-> 0, n |-> 0, given |-> 0,
              done |-> "none", dma |-> FALSE]

IsDma(op, pkt) == op \in Dma \/ (op = "packet" /\ pkt.dma)

(* What the next command will be, with its scatter list if it has one. *)
Prepare ==
    /\ drv.turn = "idle"
    /\ \E op \in uses.ops, lba \in Starts, n \in Counts,
          list \in Lists \cup {NoList}, pkt \in Packets \cup {NoPacket} :
        /\ (list = NoList) <=> ~IsDma(op, pkt)
        /\ (op # "packet") => pkt = NoPacket
        /\ op \in {"identify", "nodata", "packet"} =>
              lba = CHOOSE s \in Starts : TRUE
        /\ op \in {"identify", "nodata", "packet"} =>
              n = CHOOSE c \in Counts : TRUE
        /\ dev' = [dev EXCEPT !.list = list, !.pkt = pkt, !.seen = <<>>,
                              !.buf = <<>>]
        /\ drv' = [turn |-> "ready", op |-> op, lba |-> lba, n |-> n,
                   given |-> 0, done |-> "none", dma |-> IsDma(op, pkt)]
    /\ UNCHANGED uses

(* The task file, then the command; an old interrupt goes away. *)
Issue ==
    /\ drv.turn = "ready"
    /\ \E ans \in Answers :
        dev' = ExecCommand(LowerIrq([dev EXCEPT !.n = drv.n, !.lba = drv.lba]),
                           drv.op, ans)
    /\ drv' = [drv EXCEPT !.turn = IF drv.op \in {"write", "multwrite", "packet"}
                                   THEN "poll" ELSE "wait"]
    /\ UNCHANGED uses

(* The engine is started before the command or after it. *)
StartEngine ==
    /\ drv.turn \in {"ready", "poll", "data", "wait"} /\ drv.dma
    /\ ~dev.bm.start
    /\ LET in == drv.op = "readdma" \/ dev.pkt.dir = "in"
       IN  \E ans \in Answers :
            dev' = BusMasterRun([dev EXCEPT
                !.bm.start = TRUE,
                !.bm.write = IF dev.list.wrong = "direction" THEN ~in ELSE in],
                ans)
    /\ UNCHANGED <<drv, uses>>

(* The alternate status leaves the interrupt alone. *)
Poll ==
    /\ drv.turn = "poll" /\ "BSY" \notin dev.status
    /\ drv' = [drv EXCEPT !.turn = IF "DRQ" \in dev.status THEN "data"
                                   ELSE "wait"]
    /\ UNCHANGED <<dev, uses>>

StopEngine(d) ==
    [d EXCEPT !.bm = [start |-> FALSE, write |-> FALSE, active |-> FALSE,
                      error |-> FALSE, irq |-> FALSE]]

(* The interrupt, or a poll when the driver has turned interrupts off: the *)
(* engine is stopped and the status read.                                  *)
Interrupt ==
    /\ drv.turn = "wait" /\ (dev.irq \/ (dev.nien /\ "BSY" \notin dev.status))
    /\ LET over == "BSY" \notin dev.status /\ "DRQ" \notin dev.status
       IN  /\ dev' = IF over THEN StopEngine(LowerIrq(dev)) ELSE LowerIrq(dev)
           /\ drv' = [drv EXCEPT
                !.turn = CASE "BSY" \in dev.status -> "wait"
                           [] over -> "idle"
                           [] OTHER -> "data",
                !.done = CASE ~over -> "none"
                           [] over /\ "ERR" \in dev.status -> "error"
                           [] OTHER -> "ok"]
    /\ UNCHANGED uses

(* A read of a disk is over with the last sector, which has no interrupt. *)
Data ==
    /\ drv.turn = "data" /\ dev.room > 0
    /\ LET d == MoveBuffer(dev, drv.given)
           given == IF dev.phase = "Packet" THEN 0 ELSE drv.given + dev.room
           last == \/ drv.op = "identify"
                   \/ drv.op \in Reads /\ given = Meant(drv.n)
       IN  /\ \E ans \in Answers : dev' = BufferComplete(d, ans)
           /\ drv' = [drv EXCEPT !.given = given,
                                 !.turn = IF last THEN "idle" ELSE "wait",
                                 !.done = IF last THEN "ok" ELSE "none"]
    /\ UNCHANGED uses

(* The driver has waited long enough: SRST is set, then cleared. *)
SoftReset ==
    /\ "reset" \in uses.ops2 /\ drv.turn \in {"poll", "wait", "data"}
    /\ dev' = StopEngine(LowerIrq(Reset(dev)))
    /\ drv' = [drv EXCEPT !.turn = "srst", !.done = "error"]
    /\ UNCHANGED uses

ReleaseReset ==
    /\ drv.turn = "srst"
    /\ dev' = Reset(dev)
    /\ drv' = [drv EXCEPT !.turn = "idle"]
    /\ UNCHANGED uses

(* DEVICE RESET is taken while another command runs. *)
PacketReset ==
    /\ "devreset" \in uses.ops2 /\ drv.turn \in {"poll", "wait", "data"}
    /\ dev' = StopEngine(ExecCommand(LowerIrq(dev), "devreset", "ok"))
    /\ drv' = [drv EXCEPT !.turn = "idle", !.done = "error"]
    /\ UNCHANGED uses

(* The image or the unit answers. *)
Answer ==
    /\ \E i \in 1..Len(dev.image), ans \in {"ok", "fail"} :
        dev' = IF dev.image[i].kind = "Unit" THEN Finished(dev, ans)
               ELSE BlockDone(dev, i, ans)
    /\ UNCHANGED <<drv, uses>>

Next ==
    \/ Prepare \/ Issue \/ StartEngine \/ Poll \/ Interrupt \/ Data
    \/ SoftReset \/ ReleaseReset \/ PacketReset \/ Answer

Spec == Init /\ [][Next]_vars

-----------------------------------------------------------------------------
(* A request is with the image or the unit exactly while the drive is busy *)
(* with it, so that a reset leaves none whose answer would be taken for    *)
(* another's (ATADiskDevice::Reset, ATAPIDevice::CancelCommand).           *)
ImageKnows ==
    /\ dev.kind = "disk" =>
        (dev.image # <<>>) <=> (dev.inFlight # "None")
    /\ dev.kind = "atapi" => (dev.image # <<>>) <=> (dev.phase = "Busy")
    /\ \A i \in 1..Len(dev.image) : dev.image[i].kind \in {dev.inFlight, "Unit"}
    /\ Len(dev.image) <= 1
    /\ ("BSY" \in dev.status) <=> (dev.image # <<>> \/ dev.pend)

(* "A command that runs off the end of the disk is refused.  The back end  *)
(* does not check" (ATADiskDevice::LbaInRange): no request with the image  *)
(* does.  Not so: only the first block of a PIO write is looked at         *)
(* (PioWriteStart, PioWriteFlushed).                                       *)
RefusedBeyondEnd ==
    \A i \in 1..Len(dev.image) : LbaInRange(dev.image[i].lba, dev.image[i].n)

(* No request with the image runs off the end of the disk, but for a later *)
(* block of a PIO write (PioReadStart, PioWriteStart, DmaStart, Verify).   *)
OnlyLaterBlocksBeyond ==
    \A i \in 1..Len(dev.image) :
      LET q == dev.image[i]
      IN  LbaInRange(q.lba, q.n) \/ (q.kind = "PioWrite" /\ q.lba > drv.lba)

(* A command the driver saw succeed has moved every sector it asked for,   *)
(* to or from its place, once and in order, in as many blocks or scatter   *)
(* entries as it took.                                                     *)
Whole ==
    drv.done = "ok" =>
        CASE drv.op \in Reads \cup {"write", "multwrite", "writedma"} ->
             dev.seen = Pairs(From(drv.lba, Meant(drv.n)), From(1, Meant(drv.n)))
          [] drv.op = "packet" /\ dev.pkt.dir # "none" ->
             LET n == IF dev.pkt.dir = "in" THEN dev.pkt.actual ELSE dev.pkt.len
             IN  dev.seen = Pairs(From(1, n), From(1, n))
          [] OTHER -> dev.seen = <<>>

(* A driver that waits for an interrupt has one, or the drive is busy with *)
(* a request or with a transfer whose engine it has still to start; one    *)
(* that is to move data finds a buffer to move.                            *)
NoneStuck ==
    /\ drv.turn = "wait" =>
        \/ dev.irq \/ dev.image # <<>>
        \/ dev.nien /\ "BSY" \notin dev.status
        \/ dev.pend /\ ~dev.bm.start
    /\ drv.turn = "data" => dev.room > 0

(* When the driver is through with a command, so is the drive: nothing is  *)
(* in flight or pending, no data is asked for and the line is down.        *)
QuietWhenDone ==
    drv.turn = "idle" =>
        /\ dev.image = <<>> /\ ~dev.pend /\ ~dev.irq
        /\ dev.room = 0 /\ {"BSY", "DRQ"} \cap dev.status = {}
        /\ dev.phase = "Idle"
=============================================================================
