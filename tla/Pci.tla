--------------------------------- MODULE Pci ----------------------------------
(***************************************************************************)
(* PCI: functions and bridges (bus/pci/pci.cpp), the base address          *)
(* registers and forwarding windows a guest programs, INTx pins through    *)
(* the bridges, MSI-X and MSI, and four host bridges: ECAM, DesignWare,    *)
(* PLDA and the i440FX with its PIIX3.                                     *)
(*                                                                         *)
(* The tree of functions is given; a configuration register is a field,    *)
(* and a write of it names the bytes that decide what the write sets off.  *)
(* An address is in 0..Half * 2 - 1: the upper half takes a 64 bit         *)
(* register.  Identifiers, capabilities that are only read, and the        *)
(* descriptions for the guest (FDT, AML) are left out.                     *)
(***************************************************************************)
EXTENDS Integers, FiniteSetsExt

CONSTANTS
    Half,           \* addresses of 32 bits
    Grain,          \* of a bridge's windows
    Vectors,        \* of MSI-X, 0..n
    MaxBus,
    Uses            \* host, tree, ops, and the values the guest writes

VARIABLES
    dev,        \* functions, buses, and what their targets were told
    drv,        \* messages the guest has not taken
    env,        \* the host bridge
    uses

vars == <<dev, drv, env, uses>>

None == -1
Pins == 0..3
MsiBit == 4

(* The tree: a function is on a bus at a slot; the bus behind a bridge has *)
(* the bridge's name.                                                      *)
Fns == DOMAIN uses.tree
Of(f) == uses.tree[f]
Bridges == {f \in Fns : Of(f).bridge}
Buses == {"root"} \cup Bridges
OnBus(b) == {f \in Fns : Of(f).bus = b}

RECURSIVE Above(_)
Above(f) == IF Of(f).bus = "root" THEN {}
            ELSE {Of(f).bus} \cup Above(Of(f).bus)

Closed == [base |-> (Half \div Grain) - 1, limit |-> 0,
           baseHi |-> 0, limitHi |-> 0]

TypeOK ==
    /\ \A f \in Fns :
         /\ dev.bar[f] \in [DOMAIN Of(f).bars -> {None} \cup 0..2 * Half - 1]
         /\ dev.req[f] \subseteq Pins
         /\ dev.cfg[f].sec \in 0..MaxBus /\ dev.cfg[f].sub \in 0..MaxBus
         /\ dev.pba[f] \subseteq Vectors /\ dev.masked[f] \subseteq Vectors
    /\ \A b \in Buses : dev.pin[b] \in [Pins -> SUBSET Fns]
    /\ env.line \in [Pins -> BOOLEAN] /\ env.level \in BOOLEAN
    /\ env.status \subseteq Vectors
    /\ drv.owed \subseteq Vectors /\ drv.stranded \subseteq Vectors

-----------------------------------------------------------------------------
(* The host bridges' interrupts. *)

(* A route of 0 is a disabled one, or an input the PIIX3 reserves. *)
RouteOf(e, p) == IF e.route[p] = 0 THEN None ELSE e.route[p]

(* Mutant: a PIRQ that is routed elsewhere stays where it was raised. *)
PirqSetLeft(e, p, level) ==
    IF ~level THEN [e EXCEPT !.pirq[p] = None]
    ELSE IF RouteOf(e, p) # None THEN
      [e EXCEPT !.pirq[p] = RouteOf(e, p), !.pic[RouteOf(e, p)] = @ \cup {p}]
    ELSE e

(* I440FXState::SetIRQ(): a PIRQ goes to the input its route register      *)
(* names, and is let go of where it was raised.                            *)
PirqSet(e, p, level) ==
    LET at == e.pirq[p]
        line == RouteOf(e, p)
        gone == at # None /\ (~level \/ at # line)
        let == IF gone THEN [e EXCEPT !.pic[at] = @ \ {p}, !.pirq[p] = None]
               ELSE e
    IN  IF level /\ line # None
        THEN [let EXCEPT !.pic[line] = @ \cup {p}, !.pirq[p] = line] ELSE let

(* PCIHostPLDADevice::LocalStatus(), IrqUpdate() *)
LocalStatus(e) ==
    {p \in Pins : e.line[p]} \cup (IF e.status # {} THEN {MsiBit} ELSE {})
IrqUpdate(e) == [e EXCEPT !.level = LocalStatus(e) \cap e.mask # {}]

(* PCIHostDWDevice::MsiUpdate() *)
MsiUpdate(e) ==
    [e EXCEPT !.level = (e.status \cap e.enable) \ e.mask # {}]

(* A pin of the root bus: straight to a line (ECAM, DesignWare), to the    *)
(* PLDA's status register, or through the PIIX3.                           *)
HostPin(e, p, level) ==
    LET set == [e EXCEPT !.line[p] = level]
    IN  CASE uses.host = "plda" -> IrqUpdate(set)
          [] uses.host = "i440fx" -> PirqSet(set, p, level)
          [] uses.host \in {"ecam", "dw"} -> set

-----------------------------------------------------------------------------
(* INTx. *)

(* bus_map_irq(): pci_bus_map_irq() on a root bus, pci_bridge_map_irq()    *)
(* behind a bridge.                                                        *)
MapIrq(f, pin) ==
    IF Of(f).bus = "root" THEN (pin + Of(f).slot + 3) % 4
    ELSE (pin + Of(f).slot) % 4

(* The bus behind the root port of these has the host's lines: the last    *)
(* tier does not swizzle.                                                  *)
Straight(b) == b = "root" \/ (uses.host \in {"dw", "plda"} /\ Above(b) = {})

(* pci_update_intx(), with pci_bus_set_pin() of the four pins and what the *)
(* lines do above: a bridge passes on what is behind it, whatever its own  *)
(* INTx Disable bit says.  s is the functions and the host.                *)
Driven(d, f) == IF ~Of(f).bridge /\ d.cfg[f].intxOff THEN {} ELSE d.req[f]

PinsSet(d, f, driven) ==
    [p \in Pins |-> IF \E i \in driven : MapIrq(f, i) = p
                    THEN d.pin[Of(f).bus][p] \cup {f}
                    ELSE d.pin[Of(f).bus][p] \ {f}]
High(pins) == {p \in Pins : pins[p] # {}}

RECURSIVE UpdateIntx(_, _)
Passed(d, e, b, high) ==
    IF Straight(b)
    THEN <<d, FoldSet(LAMBDA p, h : HostPin(h, p, p \in high), e, Pins)>>
    ELSE UpdateIntx(<<[d EXCEPT !.req[b] = high], e>>, b)
UpdateIntx(s, f) ==
    LET pins == PinsSet(s[1], f, Driven(s[1], f))
        b == Of(f).bus
    IN  Passed([s[1] EXCEPT !.pin[b] = pins,
                            !.cfg[f].intStatus = ~Of(f).bridge /\ s[1].req[f] # {}],
               s[2], b, High(pins))

(* PCIDevice::SetIRQ(), of an endpoint's own pin. *)
SetIRQ(f, i) ==
    /\ "intx" \in uses.ops /\ ~Of(f).bridge
    /\ LET d == [dev EXCEPT !.req[f] = IF i \in @ THEN @ \ {i} ELSE @ \cup {i}]
           s == UpdateIntx(<<d, env>>, f)
       IN  dev' = s[1] /\ env' = s[2]
    /\ UNCHANGED <<drv, uses>>

-----------------------------------------------------------------------------
(* Base addresses and windows. *)

(* pci_bridge_io_window(), pci_bridge_mem_window(),                        *)
(* pci_bridge_pref_window(): the plain memory window has no upper half.    *)
Window(w, wide) ==
    [base |-> w.base * Grain + (IF wide THEN w.baseHi * Half ELSE 0),
     limit |-> w.limit * Grain + Grain - 1
               + (IF wide THEN w.limitHi * Half ELSE 0)]

(* pci_window_contains() *)
WindowContains(w, addr, size) ==
    w.base <= w.limit /\ addr >= w.base /\ addr + size - 1 <= w.limit

(* pci_bridges_forward() *)
BridgesForward(d, f, addr, size, io) ==
    \A br \in Above(f) :
      IF io THEN WindowContains(Window(d.cfg[br].win["io"], TRUE), addr, size)
      ELSE \/ WindowContains(Window(d.cfg[br].win["mem"], FALSE), addr, size)
           \/ WindowContains(Window(d.cfg[br].win["pref"], TRUE), addr, size)

BarAddr(c, bar, i) ==
    (c.bar[i].lo \div bar.size) * bar.size
    + (IF bar.is64 THEN c.bar[i].hi * Half ELSE 0)

(* Where a region is, or None. *)
Region(d, f, i) ==
    LET c == d.cfg[f]
        bar == Of(f).bars[i]
        on == CASE bar.type = "io" -> c.io
                [] bar.type = "mem" -> c.mem
                [] bar.type = "rom" -> c.mem /\ c.bar[i].on
        at == BarAddr(c, bar, i)
    IN  IF on /\ BridgesForward(d, f, at, bar.size, bar.type = "io") THEN at
        ELSE None

(* pci_update_mappings(): the target of each region is told. *)
UpdateMappings(d, f) ==
    [d EXCEPT !.bar[f] = [i \in DOMAIN Of(f).bars |-> Region(d, f, i)]]

(* Mutant: only what is right behind the bridge. *)
UpdateBelowOne(d, b) ==
    [d EXCEPT !.bar = [f \in Fns |-> IF f \in OnBus(b)
                                     THEN UpdateMappings(d, f).bar[f]
                                     ELSE d.bar[f]]]

(* pci_update_mappings_below() *)
UpdateMappingsBelow(d, b) ==
    [d EXCEPT !.bar = [f \in Fns |-> IF b \in Above(f)
                                     THEN UpdateMappings(d, f).bar[f]
                                     ELSE d.bar[f]]]

(* pci_write_bar(): the bits below the size are fixed. *)
WriteBar(d, f, w) ==
    LET bar == Of(f).bars[w.i]
        lo == [d.cfg[f].bar[w.i] EXCEPT
                 !.lo = (w.val \div bar.size) * bar.size,
                 !.on = bar.type = "rom" /\ w.on]
        hi == [d.cfg[f].bar[w.i] EXCEPT !.hi = w.val]
    IN  IF w.reg = "barHi" /\ ~bar.is64 THEN d
        ELSE UpdateMappings(
               [d EXCEPT !.cfg[f].bar[w.i] = IF w.reg = "bar" THEN lo ELSE hi],
               f)

-----------------------------------------------------------------------------
(* Messages. *)

(* SendMsi() of the host's receiver: a message that is not for it is a     *)
(* write to memory.                                                        *)
SendMsi(e, v, addr) ==
    IF addr # "doorbell" THEN [e EXCEPT !.memory = @ \cup {v}]
    ELSE CASE uses.host = "dw" -> MsiUpdate([e EXCEPT !.status = @ \cup {v}])
           [] uses.host = "plda" -> IrqUpdate([e EXCEPT !.status = @ \cup {v}])
           [] uses.host \in {"ecam", "i440fx"} ->
                [e EXCEPT !.status = @ \cup {v}]

(* pci_device_send_msi() *)
DeviceSendMsi(s, f, v, addr) ==
    IF s[1].cfg[f].master THEN <<s[1], SendMsi(s[2], v, addr)>> ELSE s

(* PCIMsixState::Send() *)
MsixSend(s, f, v) ==
    IF s[1].cfg[f].maskAll \/ v \in s[1].masked[f]
    THEN <<[s[1] EXCEPT !.pba[f] = @ \cup {v}], s[2]>>
    ELSE DeviceSendMsi(<<[s[1] EXCEPT !.pba[f] = @ \ {v}], s[2]>>, f, v,
                       s[1].addr[f])

(* Mutant: what came behind the mask stays there. *)
LiftedNone(s, f) == s

(* PCIMsixState::FunctionMaskLifted() *)
FunctionMaskLifted(s, f) ==
    IF ~s[1].cfg[f].msix THEN s
    ELSE FoldSet(LAMBDA v, t : MsixSend(t, f, v), s,
                 s[1].pba[f] \ s[1].masked[f])

(* PCIMsiState::VectorCount(), Send(): the vectors the guest took. *)
MsiSend(s, f, v) ==
    IF v < 2^s[1].cfg[f].taken /\ v \in Vectors
    THEN DeviceSendMsi(s, f, v, s[1].addr[f]) ELSE s

(* What becomes of pending messages: one that is sent without bus          *)
(* mastering is gone, and one whose mask is lifted while the capability is *)
(* off stays pending with no mask.                                         *)
Unmasked(d, f) ==
    IF d.cfg[f].maskAll THEN {} ELSE d.pba[f] \ d.masked[f]
Pending(d, f) ==
    [drv EXCEPT !.owed = IF d.cfg[f].master THEN @
                         ELSE @ \ (dev.pba[f] \ d.pba[f]),
                !.stranded = IF d.cfg[f].msix THEN @ \cap d.pba[f]
                             ELSE Unmasked(d, f)]

(* PCIMessageIrq::Send(), and what the guest is owed for it. *)
Owes(f, v) ==
    /\ dev.cfg[f].master
    /\ dev.cfg[f].msix \/ (dev.cfg[f].msi /\ v < 2^dev.cfg[f].taken)
Send(f, v) ==
    /\ "send" \in uses.ops /\ f = uses.sender
    /\ LET s == IF dev.cfg[f].msix THEN MsixSend(<<dev, env>>, f, v)
                ELSE IF dev.cfg[f].msi THEN MsiSend(<<dev, env>>, f, v)
                ELSE <<dev, env>>
       IN  /\ dev' = s[1] /\ env' = s[2]
           /\ drv' = [Pending(s[1], f) EXCEPT
                        !.owed = IF Owes(f, v) THEN @ \cup {v} ELSE @]
    /\ UNCHANGED uses

(* PCIMsixState::TableWrite() of a vector's control word: lifting the mask *)
(* sends what came meanwhile.                                              *)
TableWrite(f, v) ==
    /\ "table" \in uses.ops /\ f = uses.sender
    /\ LET d == [dev EXCEPT !.masked[f] = IF v \in @ THEN @ \ {v}
                                          ELSE @ \cup {v}]
           s == IF v \in dev.masked[f] /\ v \in dev.pba[f]
                THEN MsixSend(<<d, env>>, f, v) ELSE <<d, env>>
       IN  dev' = s[1] /\ env' = s[2] /\ drv' = Pending(s[1], f)
    /\ UNCHANGED uses

-----------------------------------------------------------------------------
(* Configuration cycles. *)

BusNum(d, b) == IF b = "root" THEN 0 ELSE d.cfg[b].sec

(* Mutant: the last bus of a bridge's range is not its own. *)
RECURSIVE FindBelow(_, _, _, _)
FindBelow(d, b, n, slot) ==
    IF n = BusNum(d, b)
    THEN {f \in OnBus(b) : Of(f).slot = slot}
    ELSE LET to == {br \in OnBus(b) \cap Bridges :
                      n >= d.cfg[br].sec /\ n < d.cfg[br].sub}
         IN  IF to = {} THEN {}
             ELSE FindBelow(d, CHOOSE br \in to :
                    \A o \in to : Of(br).slot <= Of(o).slot, n, slot)

(* pci_find_device(): the first bridge whose range has the bus. *)
RECURSIVE FindDevice(_, _, _, _)
FindDevice(d, b, n, slot) ==
    IF n = BusNum(d, b)
    THEN {f \in OnBus(b) : Of(f).slot = slot}
    ELSE LET to == {br \in OnBus(b) \cap Bridges :
                      n >= d.cfg[br].sec /\ n <= d.cfg[br].sub}
         IN  IF to = {} THEN {}
             ELSE FindDevice(d, CHOOSE br \in to :
                    \A o \in to : Of(br).slot <= Of(o).slot, n, slot)

(* Where a cycle of the guest's enters: the root port of a DesignWare host *)
(* is in its own window, and the window for what is behind takes a type 0  *)
(* cycle for the link and a type 1 cycle for the rest (ConfigDecode()).    *)
Port == CHOOSE br \in OnBus("root") : Of(br).bridge
Decodes(d, n, cycle) ==
    CASE cycle = "own" -> n = 0
      [] cycle = "type0" -> n # 0 /\ n = BusNum(d, Port)
      [] cycle = "type1" -> n # 0 /\ n # BusNum(d, Port)
Cycles == IF uses.host = "dw" THEN {"own", "type0", "type1"} ELSE {"any"}
Cycle(d, n, slot, cycle) ==
    CASE cycle \in {"any", "own"} /\ (cycle = "any" \/ n = 0) ->
           FindDevice(d, "root", n, slot)
      [] cycle \in {"type0", "type1"} /\ Decodes(d, n, cycle) ->
           FindDevice(d, Port, n, slot)
      [] OTHER -> {}

(* pci_device_config_write(): what a write sets off, by the bytes it has.  *)
Command(d, f, w) ==
    IF w.low THEN [d EXCEPT !.cfg[f].io = w.io, !.cfg[f].mem = w.mem,
                            !.cfg[f].master = w.master] ELSE d
CommandHigh(d, f, w) ==
    IF w.high THEN [d EXCEPT !.cfg[f].intxOff = w.intxOff] ELSE d

ConfigWrite(s, f, w) ==
    LET d == s[1]
    IN  CASE w.reg = "command" ->
               LET c == CommandHigh(Command(d, f, w), f, w)
                   m == IF w.low THEN UpdateMappings(c, f) ELSE c
               IN  IF w.high THEN UpdateIntx(<<m, s[2]>>, f) ELSE <<m, s[2]>>
          [] w.reg \in {"bar", "barHi"} /\ w.i \in DOMAIN Of(f).bars ->
               <<WriteBar(d, f, w), s[2]>>
          [] w.reg \in {"bar", "barHi"} /\ w.i \notin DOMAIN Of(f).bars -> s
          [] w.reg = "window" /\ Of(f).bridge ->
               <<UpdateMappingsBelow(
                   [d EXCEPT !.cfg[f].win[w.which][w.part] = w.val], f), s[2]>>
          [] w.reg = "bus" /\ Of(f).bridge ->
               <<[d EXCEPT !.cfg[f].sec = w.sec, !.cfg[f].sub = w.sub], s[2]>>
          [] w.reg \in {"window", "bus"} /\ ~Of(f).bridge -> s
          [] w.reg = "msix" ->
               LET t == <<[d EXCEPT !.cfg[f].msix = w.on,
                                    !.cfg[f].maskAll = w.maskAll], s[2]>>
               IN  IF d.cfg[f].maskAll /\ ~w.maskAll
                   THEN FunctionMaskLifted(t, f) ELSE t
          [] w.reg = "msi" ->
               <<[d EXCEPT !.cfg[f].msi = w.on, !.cfg[f].taken = w.taken], s[2]>>

(* pci_data_write() *)
GuestWrite ==
    \E n \in 0..MaxBus, w \in uses.writes, cycle \in Cycles :
      /\ LET to == Cycle(dev, n, w.slot, cycle)
             s == ConfigWrite(<<dev, env>>, CHOOSE f \in to : TRUE, w)
         IN  /\ to # {}
             /\ w.reg \in {"msix", "msi"} => uses.sender \in to
             /\ dev' = s[1] /\ env' = s[2]
             /\ drv' = Pending(s[1], uses.sender)
      /\ UNCHANGED uses

-----------------------------------------------------------------------------
(* The host bridges' registers. *)

(* DbiWrite() and ApbWrite(): the guest takes what has come; masks.        *)
Take ==
    /\ "send" \in uses.ops /\ env.status \cup env.memory # {}
    /\ \E v \in env.status \cup env.memory :
         LET e == [env EXCEPT !.status = @ \ {v}, !.memory = @ \ {v}]
         IN  /\ env' = CASE uses.host = "dw" -> MsiUpdate(e)
                         [] uses.host = "plda" -> IrqUpdate(e)
                         [] uses.host \in {"ecam", "i440fx"} -> e
             /\ drv' = [drv EXCEPT !.owed = @ \ {v}]
    /\ UNCHANGED <<dev, uses>>

HostMask ==
    /\ "mask" \in uses.ops
    /\ \/ /\ uses.host = "dw"
          /\ \E v \in Vectors :
               env' = MsiUpdate([env EXCEPT
                 !.mask = IF v \in @ THEN @ \ {v} ELSE @ \cup {v}])
       \/ /\ uses.host = "plda"
          /\ \E x \in Pins \cup {MsiBit} :
               env' = IrqUpdate([env EXCEPT
                 !.mask = IF x \in @ THEN @ \ {x} ELSE @ \cup {x}])
    /\ UNCHANGED <<dev, drv, uses>>

(* The guest routes a PIRQ: nothing moves until the pin is driven again.   *)
Route ==
    /\ uses.host = "i440fx" /\ "route" \in uses.ops
    /\ \E p \in uses.pirqs, r \in 0..2 :
         env' = [env EXCEPT !.route[p] = r]
    /\ UNCHANGED <<dev, drv, uses>>

-----------------------------------------------------------------------------

FreshCfg(f) ==
    [io |-> FALSE, mem |-> FALSE, master |-> TRUE, intxOff |-> FALSE,
     intStatus |-> FALSE, sec |-> 0, sub |-> 0,
     msix |-> FALSE, maskAll |-> FALSE, msi |-> FALSE, taken |-> 0,
     bar |-> [i \in DOMAIN Of(f).bars |-> [lo |-> 0, hi |-> 0, on |-> FALSE]],
     win |-> [w \in {"io", "mem", "pref"} |-> Closed]]

Numbered(f) == [FreshCfg(f) EXCEPT !.sec = Of(f).num, !.sub = Of(f).last]

Init ==
    /\ uses \in Uses
    /\ dev = [cfg |-> [f \in Fns |-> IF uses.numbered THEN Numbered(f)
                                     ELSE FreshCfg(f)],
              bar |-> [f \in Fns |-> [i \in DOMAIN Of(f).bars |-> None]],
              req |-> [f \in Fns |-> {}],
              pin |-> [b \in Buses |-> [p \in Pins |-> {}]],
              masked |-> [f \in Fns |-> {}], pba |-> [f \in Fns |-> {}],
              addr |-> [f \in Fns |-> uses.addr]]
    /\ drv = [owed |-> {}, stranded |-> {}]
    /\ env = [line |-> [p \in Pins |-> FALSE], level |-> FALSE, status |-> {},
              memory |-> {}, enable |-> Vectors,
              mask |-> IF uses.host = "plda" THEN Pins \cup {MsiBit} ELSE {},
              route |-> [p \in Pins |-> 1], pirq |-> [p \in Pins |-> None],
              pic |-> [l \in 1..2 |-> {}]]

Next ==
    \/ \E f \in Fns, i \in {0, 1} : SetIRQ(f, i)
    \/ \E f \in Fns, v \in Vectors : Send(f, v) \/ TableWrite(f, v)
    \/ GuestWrite \/ Take \/ HostMask \/ Route

Spec == Init /\ [][Next]_vars

-----------------------------------------------------------------------------

(* A region answers where its registers put it, if its function decodes    *)
(* such regions and each bridge above forwards all of it; otherwise it     *)
(* answers nowhere.  Whatever was written last, here or at a bridge        *)
(* (pci_update_mappings(), pci_update_mappings_below()).                   *)
RegionsWherePut ==
    \A f \in Fns : \A i \in DOMAIN Of(f).bars :
      dev.bar[f][i] = Region(dev, f, i)

(* The pin of the host bridge that a function's pin comes out at: what a   *)
(* guest computes, that walks up the tree and looks in the interrupt map.  *)
RECURSIVE Swizzled(_, _)
Swizzled(f, pin) ==
    LET b == Of(f).bus
    IN  IF b = "root" THEN (pin + Of(f).slot - 1) % 4
        ELSE IF Straight(b) THEN (pin + Of(f).slot) % 4
        ELSE Swizzled(b, (pin + Of(f).slot) % 4)

(* A line of the host is high exactly while some function drives, and has  *)
(* not disabled, a pin that comes out there; the status bit of a function  *)
(* says what it would drive (pci_update_intx()).                           *)
LinesAsDriven ==
    /\ \A p \in Pins :
         env.line[p] = (\E f \in Fns \ Bridges : \E i \in dev.req[f] :
                          Swizzled(f, i) = p /\ ~dev.cfg[f].intxOff)
    /\ \A f \in Fns \ Bridges : dev.cfg[f].intStatus = (dev.req[f] # {})
    /\ uses.host = "i440fx" =>
         /\ \A p \in Pins : env.pirq[p] # None => env.line[p]
         /\ \A l \in 1..2 : env.pic[l] = {p \in Pins : env.pirq[p] = l}
    /\ uses.host = "plda" => env.level = (LocalStatus(env) \cap env.mask # {})
    /\ uses.host = "dw" => env.level = (env.status \ env.mask # {})

(* A message the guest is owed has arrived or is pending, and with the     *)
(* capability on it is pending only behind a mask, unless the mask was     *)
(* lifted while the capability was off (PCIMsixState::Send(),              *)
(* TableWrite(), FunctionMaskLifted()).                                    *)
Held(f) == IF dev.cfg[f].maskAll THEN Vectors ELSE dev.masked[f]
MessagesKept ==
    LET f == uses.sender
    IN  "send" \in uses.ops =>
          /\ drv.owed \subseteq env.status \cup env.memory \cup dev.pba[f]
          /\ dev.cfg[f].msix => dev.pba[f] \subseteq Held(f) \cup drv.stranded

(* "A masked vector is delivered when the mask is lifted" (the comment on  *)
(* PCIMsixState::Send()): with the capability on, none is pending that no  *)
(* mask holds.  Not so when the function mask is lifted and the capability *)
(* is turned on in two writes, in that order.                              *)
LiftedIsSent ==
    LET f == uses.sender
    IN  "send" \in uses.ops /\ dev.cfg[f].msix => dev.pba[f] \subseteq Held(f)

(* When the bridges are numbered so that the ranges nest and are disjoint, *)
(* each function answers at one bus number and slot, and at no other       *)
(* (pci_find_device(), ConfigDecode()).                                    *)
Numbers(f) == dev.cfg[f].sec..dev.cfg[f].sub
WellNumbered ==
    \A f \in Bridges :
      /\ Numbers(f) # {} /\ BusNum(dev, Of(f).bus) \notin Numbers(f)
      /\ Of(f).bus # "root" => Numbers(f) \subseteq Numbers(Of(f).bus)
      /\ \A g \in OnBus(Of(f).bus) \cap Bridges :
           g = f \/ Numbers(f) \cap Numbers(g) = {}
EachAnswers ==
    WellNumbered =>
      \A f \in Fns : \A n \in 0..MaxBus :
        (n = BusNum(dev, Of(f).bus))
          = (\E cycle \in Cycles : f \in Cycle(dev, n, Of(f).slot, cycle))
=============================================================================
