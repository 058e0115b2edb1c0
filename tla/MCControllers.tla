----------------------------- MODULE MCControllers ----------------------------
(***************************************************************************)
(* The storage, USB, serial, PS/2, network, sound and file system devices  *)
(* with what is attached to them, and the PCI bus, one by one: a behaviour *)
(* is about one of them.  They share the variables: dev is the device and  *)
(* what the host does for it, drv the guest's driver (or, for a console,   *)
(* the other threads), env what else a module has.                         *)
(***************************************************************************)
EXTENDS Integers, Sequences, FiniteSets

CONSTANT Scenarios      \* a part and what its guest does, each

VARIABLES part, dev, drv, env, uses

vars == <<part, dev, drv, env, uses>>

UsesOf(p) == {s.uses : s \in {t \in Scenarios : t.part = p}}

Xfer(dir, len, actual, dma, limit) ==
    [dir |-> dir, len |-> len, actual |-> actual, dma |-> dma, limit |-> limit]
Prd(len, wrong) == [len |-> len, wrong |-> wrong]

AtaLists == {Prd(l, "no") : l \in {1, 3, 5}}
            \cup {Prd(1, "memory"), Prd(3, "direction")}
AtaPackets == {Xfer("in", 2, a, d, 1) : a \in 0..2, d \in BOOLEAN}
              \cup {Xfer("out", 3, 0, d, l) : d \in BOOLEAN, l \in {1, 2}}

Nvme == INSTANCE Nvme WITH IoQueues <- {1, 2}, SqSize <- 3, CqSize <- 3,
                           Slots <- {1}, Cids <- {1, 2},
                           Uses <- UsesOf("nvme"), asked <- env
Serial == INSTANCE Serial WITH FifoLength <- 2, Triggers <- {1, 2},
                               Ier <- {{"RDI"}, {"RDI", "THRI", "RLSI", "MSI"}}, MaxTyped <- 3,
                               ReadAhead <- 2, Uses <- UsesOf("serial"),
                               host <- drv, got <- env
Ps2 == INSTANCE Ps2 WITH Keys <- {1, 2}, Extended <- {2}, QueueSize <- 5,
                         PacketRoom <- 4, MaxMoved <- 2, MaxTyped <- 2,
                         Uses <- UsesOf("ps2")
Ata == INSTANCE Ata WITH SectorCount <- 4, MaxCount <- 4, Starts <- {0, 2},
                         Counts <- 0..3, Lists <- AtaLists,
                         Packets <- AtaPackets, Uses <- UsesOf("ata")
Scsi == INSTANCE Scsi WITH Commands <- 1..3, Targets <- {1, 2}, Boxes <- 2,
                           Uses <- UsesOf("scsi")
Sdhci == INSTANCE Sdhci WITH BlockCount <- 3, Boundary <- 2, Counts <- 0..2,
                             Uses <- UsesOf("sdhci")
Xhci == INSTANCE Xhci WITH ErSize <- 2, FifoSize <- 3, ReportQueue <- 2,
                           MaxQueued <- 2, Uses <- UsesOf("xhci")
BlockNet == INSTANCE BlockNet WITH BlockCount <- 3, BlockSize <- 4,
                                   ClusterSize <- 2, CacheMax <- 2,
                                   Completions <- {-1, -2, -3},
                                   Uses <- UsesOf("blocknet")
Eepro100 == INSTANCE Eepro100 WITH Blocks <- 3, Rfds <- 3, MaxFrames <- 3,
                                   MaxCommands <- 4,
                                   AddrBits <- 2, WordBits <- 2,
                                   Uses <- UsesOf("eepro100")
Pci == INSTANCE Pci WITH Half <- 4, Grain <- 2, Vectors <- {0, 1},
                         MaxBus <- 3, Uses <- UsesOf("pci")
Plan9 == INSTANCE Plan9 WITH Root <- <<"s">>, CacheLimit <- 2,
                             MaxBlocks <- 8, MaxQueued <- 2,
                             Uses <- UsesOf("plan9")
Sound == INSTANCE Sound WITH Entries <- 4, BdCount <- 4, Burst <- 2,
                             Uses <- UsesOf("sound")

Init ==
    \/ part = "nvme" /\ Nvme!Init
    \/ part = "serial" /\ Serial!Init
    \/ part = "ps2" /\ Ps2!Init /\ env = 0
    \/ part = "ata" /\ Ata!Init /\ env = 0
    \/ part = "scsi" /\ Scsi!Init /\ env = 0
    \/ part = "sdhci" /\ Sdhci!Init /\ env = 0
    \/ part = "xhci" /\ Xhci!Init /\ env = 0
    \/ part = "blocknet" /\ BlockNet!Init /\ env = 0
    \/ part = "eepro100" /\ Eepro100!Init
    \/ part = "pci" /\ Pci!Init
    \/ part = "plan9" /\ Plan9!Init /\ env = 0
    \/ part = "sound" /\ Sound!Init

Next ==
    /\ UNCHANGED part
    /\ \/ part = "nvme" /\ Nvme!Next
       \/ part = "serial" /\ Serial!Next
       \/ part = "ps2" /\ Ps2!Next /\ UNCHANGED env
       \/ part = "ata" /\ Ata!Next /\ UNCHANGED env
       \/ part = "scsi" /\ Scsi!Next /\ UNCHANGED env
       \/ part = "sdhci" /\ Sdhci!Next /\ UNCHANGED env
       \/ part = "xhci" /\ Xhci!Next /\ UNCHANGED env
       \/ part = "blocknet" /\ BlockNet!Next /\ UNCHANGED env
       \/ part = "eepro100" /\ Eepro100!Next
       \/ part = "pci" /\ Pci!Next
       \/ part = "plan9" /\ Plan9!Next /\ UNCHANGED env
       \/ part = "sound" /\ Sound!Next

Spec == Init /\ [][Next]_vars

-----------------------------------------------------------------------------

(* The registers, queues and requests of every part have their types. *)
TypeOK ==
    /\ part = "nvme" => Nvme!TypeOK
    /\ part = "serial" => Serial!TypeOK
    /\ part = "ps2" => Ps2!TypeOK
    /\ part = "ata" => Ata!TypeOK
    /\ part = "scsi" => Scsi!TypeOK
    /\ part = "sdhci" => Sdhci!TypeOK
    /\ part = "xhci" => Xhci!TypeOK
    /\ part = "blocknet" => BlockNet!TypeOK
    /\ part = "eepro100" => Eepro100!TypeOK
    /\ part = "pci" => Pci!TypeOK
    /\ part = "plan9" => Plan9!TypeOK
    /\ part = "sound" => Sound!TypeOK

(* What a driver has asked for is in one place, and is answered once:      *)
(* through aborts, resets, queues deleted and rings that are full.         *)
(* NvmeController::PostCompletion(), BuslogicAdapter::Complete(),          *)
(* SdhciController::CountBlock(), XhciController::PostEvent().  Events     *)
(* come in order but for those of an xHC that others have passed.          *)
AnsweredOnce ==
    /\ part = "nvme" => Nvme!EachOnce /\ Nvme!PhaseTells /\ Nvme!NoFatal
    /\ part = "scsi" => Scsi!EachOnce
    /\ part = "sdhci" => Sdhci!EndsTogether
    /\ part = "xhci" => Xhci!EachOnce /\ Xhci!EventsInOrder
    /\ part = "blocknet" => BlockNet!EachOnce
    /\ part = "pci" => Pci!RegionsWherePut /\ Pci!EachAnswers
    /\ part = "plan9" => Plan9!EachOnce /\ Plan9!Accounted
    /\ part = "sound" => Sound!AnsweredInOrder

(* A disk image has no request that its device has forgotten, and a device *)
(* waits for none the image does not have; of a disk's, only the later     *)
(* blocks of a write are past its end (ATADiskDevice::PioWriteFlush()).    *)
ImageKnows ==
    /\ part = "nvme" => Nvme!ImageKnows
    /\ part = "ata" => Ata!ImageKnows /\ Ata!OnlyLaterBlocksBeyond
    /\ part = "scsi" => Scsi!ImageKnows
    /\ part = "sdhci" => Sdhci!ImageKnows

(* The guest is told of what waits for it, and of nothing twice: the       *)
(* lines, edges and messages of each part agree with what is pending.  Not *)
(* sent are MSI-X messages that were unmasked while MSI-X was off, and a   *)
(* pin follows the command register at the next event only.                *)
InterruptsTold ==
    /\ part = "nvme" => Nvme!LineIsPending
    /\ part = "serial" => Serial!Announced
    /\ part = "ps2" => Ps2!EdgePerByte
    /\ part = "ata" => Ata!QuietWhenDone
    /\ part = "scsi" => Scsi!MailAnnounced /\ Scsi!CommandTold
    /\ part = "xhci" => Xhci!EventsTold
    /\ part = "eepro100" => Eepro100!Told
    /\ part = "pci" => Pci!LinesAsDriven /\ Pci!MessagesKept
    /\ part = "sound" => Sound!Told

(* What goes through a device arrives whole and in order: characters,      *)
(* keys, packets, sectors, statuses and reports; but for characters that   *)
(* the guest clears from the UART, and packets of a movement larger than   *)
(* the room the mouse asks for.                                            *)
DataInOrder ==
    /\ part = "serial" => Serial!InputInOrder
    /\ part = "ps2" => Ps2!KeysAsPressed /\ Ps2!PacketsWhole
    /\ part = "ata" => Ata!Whole
    /\ part = "sdhci" => Sdhci!DataWhole
    /\ part = "xhci" => Xhci!StatusIsMine /\ Xhci!ReportsInOrder
    /\ part = "blocknet" => BlockNet!ReadsSeeWrites
    /\ part = "eepro100" =>
         Eepro100!SentInOrder /\ Eepro100!FramesInOrder /\ Eepro100!EepromAsSpecified
    /\ part = "plan9" =>
         Plan9!HeldRight /\ Plan9!FidsFollow /\ Plan9!HandlesOwned
    /\ part = "sound" => Sound!HdaInOrder /\ Sound!Ac97InOrder

(* Something is always due that carries on with what is under way: nothing *)
(* a device has accepted, or has room for, waits for another request.  The *)
(* exceptions are in the state: NVMe queues a delete has passed over, room *)
(* in the UART that a control register made, and mail that could not be    *)
(* delivered while bus mastering was off.                                  *)
NoneStuck ==
    /\ part = "nvme" => Nvme!NoneStuck
    /\ part = "serial" => Serial!RoomIsTold
    /\ part = "ata" => Ata!NoneStuck
    /\ part = "scsi" => Scsi!PendingMoves
    /\ part = "sdhci" => Sdhci!NoneStuck
    /\ part = "xhci" => Xhci!NoneStuck
    /\ part = "blocknet" => BlockNet!NoneStuck
    /\ part = "eepro100" => Eepro100!NoneStuck
    /\ part = "plan9" => Plan9!NoneStuck /\ Plan9!NothingStale
    /\ part = "sound" => Sound!NoneStuck

(* ---- scenarios ---- *)

Of(p, all) == {[part |-> p, uses |-> u] : u \in all}

Cmds(ops, cids) == [op : ops, cid : cids]
NvmeUse(queues, ops, commands) ==
    [queues |-> queues, ops |-> {"create_cq", "create_sq"} \cup ops,
     commands |-> commands, lazy |-> FALSE]

TwoQueues == NvmeUse({1, 2}, {"delete_sq"}, Cmds({"wait"}, {1}))

MCNvme ==
    {NvmeUse({1}, ops, Cmds({"wait", "now"}, {1, 2})) :
       ops \in {{"delete_sq", "delete_cq"}, {"abort"}, {"mask"}, {"pin"},
                {"reset", "identify"}, {"reset", "bad_sq"}, {"reset", "bad_cq"}}}
    \cup {NvmeUse({1, 2}, {}, Cmds({"wait"}, {1}) \cup Cmds({"now"}, {2})), TwoQueues}

SerialUse(console, target, fifo, ops, typed) ==
    [console |-> console, target |-> target, fifo |-> fifo, ops |-> ops,
     typed |-> typed]

MCSerial ==
    {SerialUse(c, "uart", f, {}, 3) : c \in {"direct", "socket"}, f \in BOOLEAN}
    \cup {SerialUse(c, "virtio", FALSE, {}, 3) : c \in {"direct", "socket"}}
    \cup {SerialUse("direct", "uart", FALSE, {"fcr"}, 2),
          SerialUse("direct", "uart", FALSE, {"loop"}, 1),
          SerialUse("direct", "uart", TRUE, {"loop"}, 0),
          SerialUse("socket", "uart", TRUE, {"gone"}, 2)}

MCPs2 == {
    {"keys", "set_leds"}, {"keys", "get_id"},
    {"keys", "scan_off", "scan_on"}, {"keys", "kbd_reset"},
    {"keys", "mode", "kbd_disable", "kbd_enable"},
    {"keys", "test", "obuf", "aux_obuf"},
    {"keys", "mouse", "moves", "enable"},
    {"mouse", "moves", "enable", "disable", "reset"},
    {"mouse", "moves", "enable", "remote", "rate"},
    {"mouse", "moves", "enable", "poll"},
    {"mouse", "wrap", "unwrap", "reset"}}

Disk(readOnly, nien, ops, ops2) ==
    [kind |-> "disk", readOnly |-> readOnly, nien |-> nien, ops |-> ops,
     ops2 |-> ops2]

MCAta == {
    Disk(FALSE, FALSE, {"read", "write", "multread", "multwrite", "setmult",
                        "identify"}, {"reset"}),
    Disk(FALSE, TRUE, {"write", "read", "nodata", "verify"}, {}),
    Disk(TRUE, FALSE, {"write", "writedma", "verify", "bad"}, {}),
    Disk(FALSE, FALSE, {"readdma", "writedma"}, {"reset"}),
    [Disk(FALSE, FALSE, {"packet", "identify", "nodata", "bad"},
          {"devreset", "reset"}) EXCEPT !.kind = "atapi"]}

ScsiUse(host, order, most, setup, ops, resets, targets) ==
    [host |-> host, order |-> order, most |-> most, setup |-> setup,
     ops |-> ops, resets |-> resets, targets |-> targets]

MCScsi == {
    ScsiUse("buslogic", "ack", 2, {}, {"abort"}, {}, {1}),
    ScsiUse("buslogic", "scan", 3, {}, {}, {3}, {1, 2}),
    ScsiUse("buslogic", "scan", 2, {"strict", "inquire"}, {"reset"}, {}, {1}),
    ScsiUse("buslogic", "ack", 2, {"mbor", "mask", "unmask", "invalid"},
            {"busreset"}, {}, {0, 1}),
    ScsiUse("buslogic", "scan", 2, {}, {"master"}, {}, {1}),
    ScsiUse("virtio", "ack", 3, {}, {}, {}, {0, 1, 2})}

(* Descriptors of ADMA2 tables, and requests of a card. *)
Adma(act, len, end, int) ==
    [act |-> act, len |-> len, end |-> end, int |-> int]
SdReq(op, start, count, end, dma, size, table, addr) ==
    [op |-> op, start |-> start, count |-> count, end |-> end, dma |-> dma,
     size |-> size, table |-> table, addr |-> addr]

Tables == {
    <<Adma("tran", 1, FALSE, TRUE), Adma("nop", 0, FALSE, TRUE),
      Adma("tran", 3, FALSE, FALSE), Adma("nop", 0, TRUE, FALSE)>>,
    <<Adma("tran", 3, TRUE, FALSE)>>,
    <<Adma("tran", 4, FALSE, FALSE), Adma("tran", 1, TRUE, FALSE)>>,
    <<Adma("tran", 2, FALSE, FALSE), Adma("invalid", 0, FALSE, FALSE)>>}

PioReqs ==
    {SdReq(op, at, 2, e, "no", "block", <<>>, 0) :
       op \in {"read", "write"}, at \in {0, 2},
       e \in {"open", "limited", "cmd12", "cmd23"}}
    \cup {SdReq("read", 0, 0, e, "no", "block", <<>>, 0) :
            e \in {"limited", "cmd12"}}
SingleReqs ==
    {SdReq(op, at, 1, "single", "no", size, <<>>, 0) :
       op \in {"read", "write", "register"}, at \in {0, 3},
       size \in {"block", "zero", "long", "short"}}
SdmaReqs ==
    {SdReq(op, 0, 2, e, "sdma", "block", <<>>, addr) :
       op \in {"read", "write"}, e \in {"limited", "cmd12"}, addr \in {0, 1}}
AdmaReqs ==
    {SdReq(op, 0, 2, e, "adma", "block", t, 0) :
       op \in {"read", "write"}, e \in {"open", "limited", "cmd12", "cmd23"},
       t \in Tables}

MCSdhci == {
    [readOnly |-> FALSE, ops |-> {"giveup"}, reqs |-> PioReqs],
    [readOnly |-> TRUE, ops |-> {"inactive"}, reqs |-> SingleReqs],
    [readOnly |-> FALSE, ops |-> {"giveup", "power", "reset", "eject"},
     reqs |-> SdmaReqs],
    [readOnly |-> FALSE, ops |-> {"mask"}, reqs |-> AdmaReqs]}

(* Commands of a USB disk: the direction, the length, and the data. *)
Cbw(in, len, actual) ==
    [tag |-> 0, in |-> in, len |-> len, actual |-> actual]
UsbDisk(msi, ops, cbws) ==
    [hid |-> FALSE, msi |-> msi, ops |-> ops, cbws |-> cbws, reports |-> 0]
UsbHid(msi, ops, reports) ==
    [hid |-> TRUE, msi |-> msi, ops |-> ops, cbws |-> {}, reports |-> reports]

MCXhci == {
    UsbDisk(FALSE, {"timeout"}, {Cbw(TRUE, 2, 2)}),
    UsbDisk(TRUE, {"junk", "big", "unknown"},
            {Cbw(TRUE, 2, 1), Cbw(FALSE, 2, 2), Cbw(FALSE, 0, 0)}),
    UsbDisk(TRUE, {"port"}, {Cbw(FALSE, 2, 2)}),
    UsbDisk(FALSE, {"reset"}, {Cbw(TRUE, 2, 2)}),
    UsbHid(FALSE, {}, 4),
    UsbHid(TRUE, {"unlink"}, 3),
    UsbHid(FALSE, {"suspend"}, 3),
    UsbHid(TRUE, {"pause", "unlink"}, 2),
    UsbHid(FALSE, {"erdp"}, 3),
    UsbHid(TRUE, {"unplug", "port"}, 2)}

(* Requests of sectors of an image that is fetched, and what is fetched    *)
(* ahead, in groups.                                                       *)
Sectors(write, start, count) ==
    [write |-> write, start |-> start, count |-> count]

MCBlockNet == {
    [prefetch |-> <<0, 1, 0, 2>>, group |-> 2, ops |-> {"cancel"},
     reqs |-> {Sectors(FALSE, 3, 3), Sectors(FALSE, 9, 1)}],
    [prefetch |-> <<1>>, group |-> 1, ops |-> {"cancel", "fails"},
     reqs |-> {Sectors(FALSE, 2, 2), Sectors(TRUE, 3, 2),
               Sectors(FALSE, 4, 2)}]}

EeOp(op, addr, data) == [op |-> op, addr |-> addr, data |-> data]
Net(ops) ==
    [kind |-> "net", ops |-> ops, interrupt |-> TRUE, ends |-> "suspend",
     ci |-> FALSE, rs |-> FALSE, mask |-> {}, ee |-> {}]

MCEepro100 == {
    Net({"tx"}), Net({"rx"}), Net({"tx", "answer"}), Net({"tx", "reset"}),
    Net({"rx", "reset"}), [Net({"rx", "abort"}) EXCEPT !.rs = TRUE],
    [Net({"tx"}) EXCEPT !.ends = "el", !.ci = TRUE, !.interrupt = FALSE],
    [Net({"tx"}) EXCEPT !.ends = "unlinked"],
    [Net({"tx"}) EXCEPT !.ends = "endless"], Net({"tx", "intx"}),
    [Net({"rx", "mask", "swi"}) EXCEPT !.mask = {"FR"}],
    [Net({}) EXCEPT !.kind = "eeprom",
                    !.ee = {EeOp(<<1, 0>>, a, <<>>) : a \in {0, 3}}
                           \cup {EeOp(<<0, 1>>, 0, <<0, 1>>)}
                           \cup {EeOp(<<1, 1>>, 2, <<>>)}
                           \cup {EeOp(<<0, 0>>, a, <<1, 0>>) : a \in 0..3}]}

(* Trees of bridges and functions; what is written to a slot. *)
Bar(type, size, is64) == [type |-> type, size |-> size, is64 |-> is64]
Bridge(bus, slot, num, last) ==
    [bridge |-> TRUE, bus |-> bus, slot |-> slot, bars |-> <<>>, num |-> num,
     last |-> last]
Fn(bus, slot, bars) ==
    [bridge |-> FALSE, bus |-> bus, slot |-> slot, bars |-> bars, num |-> 0,
     last |-> 0]
Tree(host, tree, ops, writes) ==
    [host |-> host, tree |-> tree, ops |-> ops, writes |-> writes,
     sender |-> "a", addr |-> "doorbell", numbered |-> TRUE,
     pirqs |-> {1, 2}]
Cmd(slot, low, high, bits, off) ==
    [reg |-> "command", slot |-> slot, low |-> low, high |-> high,
     io |-> "io" \in bits, mem |-> "mem" \in bits,
     master |-> "master" \in bits, intxOff |-> off]
BarW(reg, slot, i, val, on) ==
    [reg |-> reg, slot |-> slot, i |-> i, val |-> val, on |-> on]
Win(slot, which, part1, val) ==
    [reg |-> "window", slot |-> slot, which |-> which, part |-> part1,
     val |-> val]
BusW(slot, sec, sub) ==
    [reg |-> "bus", slot |-> slot, sec |-> sec, sub |-> sub]

Pref(slot) == {Win(slot, "pref", p, v) : p \in {"base", "limitHi"},
                                         v \in {0, 1}}
Decoding == {
    Tree("ecam", [r |-> Bridge("root", 0, 1, 2), s |-> Bridge("r", 1, 2, 2),
                  a |-> Fn("s", 0, <<Bar("mem", 1, TRUE),
                                     Bar("rom", 2, FALSE)>>)], {},
         {Cmd(0, TRUE, FALSE, c, FALSE) : c \in {{}, {"mem"}}}
         \cup {BarW("bar", 0, 1, v, FALSE) : v \in {0, 3}}
         \cup {BarW("barHi", 0, 1, v, FALSE) : v \in {0, 1}}
         \cup {BarW("bar", 0, 2, 3, on) : on \in BOOLEAN}
         \cup Pref(0) \cup Pref(1)
         \cup {Win(s, "mem", "limit", 1) : s \in {0, 1}}),
    Tree("ecam", [r |-> Bridge("root", 0, 1, 1),
                  a |-> Fn("r", 2, <<Bar("io", 2, FALSE),
                                     Bar("mem", 4, FALSE)>>)], {},
         {Cmd(2, TRUE, FALSE, c, FALSE) : c \in {{}, {"io"}, {"mem"}}}
         \cup {BarW("bar", 2, 1, v, FALSE) : v \in {0, 3}}
         \cup {BarW("barHi", 2, 1, 1, FALSE), BarW("bar", 2, 3, 1, FALSE)}
         \cup {Win(0, "io", p, v) :
                 p \in {"base", "limit", "baseHi", "limitHi"}, v \in {0, 1}}
         \cup {Win(0, "mem", p, v) : p \in {"base", "limit"}, v \in {0, 1}})}

IntxOff(slot, lows) == {Cmd(slot, l, TRUE, {}, o) : l \in lows, o \in BOOLEAN}
Pins == {
    Tree("ecam", [r |-> Bridge("root", 3, 1, 2), s |-> Bridge("r", 1, 2, 2),
                  a |-> Fn("s", 2, <<>>), b |-> Fn("r", 2, <<>>),
                  c |-> Fn("root", 2, <<>>)], {"intx"}, IntxOff(2, BOOLEAN)),
    Tree("plda", [r |-> Bridge("root", 0, 1, 2), s |-> Bridge("r", 0, 2, 2),
                  a |-> Fn("s", 1, <<>>), b |-> Fn("s", 2, <<>>)],
         {"intx", "mask"}, IntxOff(2, {FALSE})),
    Tree("i440fx", [a |-> Fn("root", 2, <<>>), b |-> Fn("root", 3, <<>>)],
         {"intx", "route"}, {})}

OnePort == [r |-> Bridge("root", 0, 1, 1), a |-> Fn("r", 0, <<>>)]
Msix(on) == {[reg |-> "msix", slot |-> 0, on |-> o, maskAll |-> m] :
               o \in on, m \in BOOLEAN}
Mastering == {Cmd(0, TRUE, FALSE, c, FALSE) : c \in {{}, {"master"}}}
Messages == {
    Tree("dw", OnePort, {"send", "table"}, Msix(BOOLEAN) \cup Mastering),
    Tree("dw", OnePort, {"send", "mask"}, Msix({TRUE})),
    [Tree("plda", OnePort, {"send"},
          {[reg |-> "msi", slot |-> 0, on |-> o, taken |-> t] :
             o \in BOOLEAN, t \in 0..2}
          \cup Mastering)
     EXCEPT !.addr = "ram"]}

Numbering == {
    [Tree("ecam", [r |-> Bridge("root", 0, 1, 1), s |-> Bridge("r", 1, 1, 1),
                   t |-> Bridge("root", 1, 1, 1), a |-> Fn("s", 0, <<>>),
                   b |-> Fn("t", 2, <<>>)], {},
          {BusW(s, x, y) : s \in {0, 1}, x \in 1..3, y \in 1..3})
     EXCEPT !.numbered = FALSE],
    [Tree("dw", [r |-> Bridge("root", 0, 1, 1), s |-> Bridge("r", 0, 1, 1),
                 a |-> Fn("s", 0, <<>>)], {},
          {BusW(0, x, y) : x \in 1..3, y \in 1..3})
     EXCEPT !.numbered = FALSE]}

MCPci == Decoding \cup Pins \cup Messages \cup Numbering

(* Requests of the guest for a directory of the host, or for files that    *)
(* are fetched, some of them ahead or out of an archive.                   *)
P9(op, fid) ==
    [op |-> op, fid |-> fid, newfid |-> 1, names |-> <<>>, name |-> "f",
     newname |-> "f", trunc |-> FALSE, wr |-> FALSE, at |-> 1, val |-> 3,
     tag |-> 0]
P9Walk(f, g, names) == [P9("walk", f) EXCEPT !.newfid = g, !.names = names]
P9Open(f, trunc) == [P9("lopen", f) EXCEPT !.wr = TRUE, !.trunc = trunc]
P9Name(op, f, name) == [P9(op, f) EXCEPT !.name = name]
P9Link(f, g, name) == [P9Name("link", f, name) EXCEPT !.newfid = g]
P9Rename(f, name, g, newname) ==
    [P9Name("renameat", f, name) EXCEPT !.newfid = g, !.newname = newname]
P9Attach == P9("attach", 0)
P9Two == {P9Attach, P9Walk(0, 1, <<"a">>), P9Walk(0, 2, <<"b">>),
          P9("lopen", 1), P9("lopen", 2)}

NoFn == [x \in {} |-> <<>>]
Lists(preload, archives) == [preload |-> preload, archives |-> archives]
NoFiles == Lists(NoFn, NoFn)
Ahead(name, archive) == <<[archive |-> archive, name |-> name]>>
Member(name, id) == [name |-> name, id |-> id, size |-> 1]
Packed(z) == [old |-> NoFiles,
              new |-> Lists([x \in {11} |-> Ahead("z", TRUE)],
                            [x \in {"z"} |-> z])]
Fetched(files, offered, reqs, max) ==
    [fs |-> "net", heap |-> 0, files |-> files, offered |-> offered,
     reqs |-> reqs, max |-> max, errors |-> TRUE]
NetF(name, id, data) == [name |-> name, id |-> id, data |-> data]
NetAB(z) == <<NetF("a", 11, <<1>>), NetF("b", 12, <<2>>), NetF("z", 14, z),
              NetF("preload.txt", 15, <<0>>)>>
NetABC == <<NetF("a", 11, <<1>>), NetF("b", 12, <<2>>),
            NetF("c", 13, <<3>>), NetF(".preload", 15, <<0>>)>>
OneAhead == [new |-> NoFiles,
             old |-> Lists([x \in {11} |-> Ahead("b", FALSE)
                                           \o Ahead("x", FALSE)], NoFn)]
NoLoads == [new |-> NoFiles, old |-> NoFiles]
Shared(files, reqs, max) ==
    [Fetched(files, NoLoads, reqs, max) EXCEPT !.fs = "disk"]
HostF(path, kind) == [path |-> path, kind |-> kind]

MCPlan9 == {
    Fetched(NetAB(<<1, 2>>), Packed(<<Member("a", 11), Member("b", 12)>>),
            P9Two \cup {P9("read", 2), P9Open(2, FALSE),
                        [P9("write", 2) EXCEPT !.at = 2]}, 6),
    Fetched(NetAB(<<2, 1>>), Packed(<<Member("b", 13), Member("a", 11)>>),
            P9Two, 5),
    Fetched(NetAB(<<2, 1>>), Packed(<<Member("b", 13)>>), P9Two, 5),
    Fetched(NetABC, OneAhead,
            {P9Attach, P9("lopen", 1), P9Open(1, FALSE), P9Open(1, TRUE),
             P9("write", 1), P9("setattr", 1)}
            \cup {P9Walk(0, 1, <<x>>) : x \in {"a", "b", "c"}}, 6),
    Fetched(NetABC, OneAhead,
            {P9Attach, P9Walk(0, 1, <<"a">>), P9Walk(0, 2, <<"b", "x">>),
             P9("lopen", 1), P9Name("unlinkat", 0, "b"),
             P9Rename(0, "a", 0, "b"), P9("clunk", 1), P9("clunk", 2),
             P9Link(0, 1, "b")}, 6),
    Fetched(<<>>, NoLoads,
            {P9Attach, P9Name("mkdir", 0, "d"), P9Walk(0, 1, <<"d">>),
             P9Walk(0, 2, <<"d">>), P9Name("lcreate", 2, "f"),
             P9Name("symlink", 1, "l"), P9Name("unlinkat", 1, "l"),
             P9Rename(1, "f", 0, "f"), P9Name("mkdir", 1, ".."),
             [P9("setattr", 2) EXCEPT !.at = 9]}, 6),
    Fetched(<<>>, NoLoads,
            {P9Attach, P9Name("mkdir", 0, "d"), P9Walk(0, 1, <<"d", "..">>),
             P9Walk(0, 1, <<"d">>), P9Rename(0, "d", 1, "e"),
             P9Rename(0, "d", 0, "e"), P9Name("unlinkat", 0, "d"),
             P9("lopen", 1), P9("clunk", 1)}, 6),
    Shared(<<HostF(<<"d">>, "dir"), HostF(<<"d", "f">>, "reg")>>,
           {P9Attach, P9Walk(0, 1, <<"d">>), P9Walk(0, 2, <<"d", "f">>),
            P9Walk(0, 2, <<"..", ".">>), P9("lopen", 2),
            P9Rename(0, "d", 0, "e"), P9Rename(1, "f", 0, "g"),
            P9Name("unlinkat", 1, "f"), P9Name("lcreate", 1, "f"),
            P9("read", 2)}, 5),
    Shared(<<HostF(<<"d">>, "dir"), HostF(<<"e">>, "dir"),
             HostF(<<"f">>, "reg")>>,
           {P9Attach, P9Walk(0, 1, <<"d">>), P9Walk(0, 2, <<"f">>),
            P9Rename(0, "f", 0, "d"), P9Rename(0, "d", 0, "e"),
            P9Rename(0, "d", 1, "d"), P9Name("unlinkat", 0, "e"),
            P9Name("symlink", 1, "f"), P9Name("mkdir", 1, "d"),
            P9Link(1, 2, "h"), P9("setattr", 2), P9Open(1, FALSE),
            P9("clunk", 1), P9Walk(1, 2, <<"a/b">>), P9("xattrwalk", 1),
            P9("flush", 1), P9("getattr", 1)}, 4)}

(* HD Audio: the verbs posted at once, those of the immediate registers,   *)
(* and the lists of two engines of one tag.  8 is the function group, 9 no *)
(* codec or no format.                                                     *)
HdaVerb(n, i, d) == [node |-> n, id |-> i, data |-> d]
Tag(p, t) == HdaVerb(p, "setstream", t)
Frames(len, ioc) == [len |-> len, ioc |-> ioc]
Hda == [kind |-> "hda", msi |-> FALSE, deie |-> TRUE, opens |-> {1, 2},
        rintCnt |-> 2, unmapped |-> {}, dp |-> TRUE, posts |-> {},
        immediates |-> {}, fmt |-> 1, tag |-> <<1, 1>>, steps |-> {1, 3},
        list |-> <<<<Frames(2, TRUE), Frames(0, TRUE), Frames(1, FALSE)>>,
                   <<>>>>,
        max |-> 6, due |-> 4, ops |-> {}]
Ac97 == [kind |-> "ac97", input |-> FALSE, locked |-> 0, boxes |-> {"out"},
         lens |-> {1, 2}, ioc |-> TRUE, registers |-> {}, steps |-> {1, 3},
         max |-> 5, due |-> 4, ops |-> {"give", "run", "cold"}]

MCSound == {
    [Hda EXCEPT !.ops = {"post", "corb"}, !.steps = {},
        !.posts = {<<Tag(1, 1)>>,
                   <<Tag(2, 1), HdaVerb(9, "getparameter", 0),
                     HdaVerb(1, "getstream", 0)>>,
                   <<HdaVerb(8, "reset", 0), HdaVerb(2, "getstream", 0)>>}],
    [Hda EXCEPT !.ops = {"immediate", "run"}, !.max = 3, !.due = 3,
        !.immediates = {Tag(1, 1), Tag(2, 1)}],
    [Hda EXCEPT !.ops = {"immediate", "run", "stop", "srst", "ssync"},
        !.msi = TRUE, !.max = 5, !.immediates = {Tag(1, 1)},
        !.list = <<<<Frames(1, TRUE), Frames(2, TRUE)>>, <<Frames(1, TRUE)>>>>],
    [Hda EXCEPT !.ops = {"post", "run"}, !.opens = {1}, !.unmapped = {2},
        !.list = <<<<>>, <<Frames(0, TRUE)>>>>, !.max = 5,
        !.posts = {<<Tag(1, 1)>>, <<Tag(1, 1), HdaVerb(1, "setformat", 9)>>}],
    [Hda EXCEPT !.ops = {"immediate", "run", "crst"}, !.max = 4, !.steps = {2},
        !.immediates = {Tag(1, 1), HdaVerb(1, "setformat", 2),
                        HdaVerb(1, "getformat", 0), HdaVerb(9, "getstream", 0),
                        HdaVerb(8, "setpower", 3)}],
    [Ac97 EXCEPT !.ops = @ \cup {"read", "reset"}],
    [Ac97 EXCEPT !.boxes = {"mic", "in"}, !.lens = {0, 2}, !.ioc = FALSE],
    [Ac97 EXCEPT !.boxes = {"mic"}, !.lens = {3}, !.ops = @ \cup {"codec"},
        !.max = 6,
        !.registers = {<<"extctrl", TRUE>>, <<"rate", 2>>, <<"reset", 0>>}],
    [Ac97 EXCEPT !.boxes = {"in", "out"}, !.input = TRUE, !.lens = {2}],
    [Ac97 EXCEPT !.lens = {1}, !.max = 8, !.steps = {1, 2}]}

MCScenarios ==
    Of("nvme", MCNvme) \cup Of("serial", MCSerial) \cup Of("ps2", MCPs2)
    \cup Of("ata", MCAta) \cup Of("scsi", MCScsi) \cup Of("sdhci", MCSdhci)
    \cup Of("xhci", MCXhci)
    \cup Of("blocknet", MCBlockNet)
    \cup Of("eepro100", MCEepro100)
    \cup Of("pci", MCPci)
    \cup Of("plan9", MCPlan9)
    \cup Of("sound", MCSound)
=============================================================================
