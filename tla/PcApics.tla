------------------------------- MODULE PcApics --------------------------------
(***************************************************************************)
(* The PC's IOAPIC (device/intc/ioapic.cpp) and local APICs                *)
(* (device/intc/lapic.cpp) with the messages between them: a pin's message *)
(* sets a vector of a processor, whose EOI of a level triggered vector     *)
(* comes back to the pin.  The device lock covers every call, so each is   *)
(* one action, from the register or line down to the last APIC it reaches. *)
(*                                                                         *)
(* Vectors keep their numbers, as priority is by their class; a            *)
(* destination, physical, logical or by shorthand, is the set of APICs it  *)
(* matches.  The timer's counting is in LapicTimer, what INIT and STARTUP  *)
(* do to the processor in PcCpus.                                          *)
(***************************************************************************)
EXTENDS Integers, FiniteSets, FiniteSetsExt

CONSTANTS
    Apics,          \* their IDs, from 0
    Pins,
    ApicUses        \* what a guest does with them: see TypeOK

VARIABLES
    fLevels,        \* the pins that are asserted
    rte,            \* fRedirection: each pin's redirection entry
    lapic,
    apicIrq,        \* SetApicInterrupt(): what each processor was last told
    uses

vars == <<fLevels, rte, lapic, apicIrq, uses>>

Vectors == UNION {u.vectors : u \in ApicUses}
Modes == {"fixed", "lowest", "init", "startup"}
Masked == -1    \* an LVT entry that is masked; otherwise its vector

Entry == [vector : Vectors, dest : SUBSET Apics, mode : Modes,
          level : BOOLEAN, masked : BOOLEAN, remote_irr : BOOLEAN]
Lapic == [base : {"disabled", "xapic", "x2apic"}, svr : BOOLEAN, tpr : Nat,
          irr : SUBSET Vectors, isr : SUBSET Vectors, tmr : SUBSET Vectors,
          extint : BOOLEAN, lint0 : BOOLEAN, timer : Vectors \cup {Masked},
          error : Vectors \cup {Masked},
          esrPending : SUBSET {"send", "receive", "register"}]

TypeOK ==
    /\ fLevels \subseteq Pins
    /\ rte \in [Pins -> Entry]
    /\ lapic \in [Apics -> Lapic]
    /\ apicIrq \in [Apics -> BOOLEAN]
    /\ uses \in ApicUses
    /\ uses.apics \subseteq Apics /\ uses.pins \subseteq Pins
    /\ uses.vectors \subseteq 0..255

Class(v) == v \div 16
Highest(set) == IF set = {} THEN -1 ELSE Max(set)

Ppr(l) ==
    LET class == IF l.isr = {} THEN 0 ELSE Class(Max(l.isr))
    IN  IF l.tpr >= class THEN l.tpr ELSE class

Enabled(l) == l.base # "disabled" /\ l.svr

Deliverable(l) ==
    l.irr # {} /\ Enabled(l) /\ Class(Max(l.irr)) > Ppr(l)

(* A disabled APIC passes the 8259s' line through. *)
AcceptsExtInt(l) == l.base = "disabled" \/ l.extint

Interrupts(l) == Deliverable(l) \/ (l.lint0 /\ AcceptsExtInt(l))

(* An operation works on a copy s of rte, lapic and apicIrq. *)
State == [rte |-> rte, lapic |-> lapic, apicIrq |-> apicIrq]

Becomes(s) == /\ rte' = s.rte /\ lapic' = s.lapic /\ apicIrq' = s.apicIrq
              /\ UNCHANGED uses

Update(s, a) == [s EXCEPT !.apicIrq[a] = Interrupts(s.lapic[a])]

Raise(s, a, v, level) ==
    Update([s EXCEPT !.lapic[a].irr = @ \cup {v},
                     !.lapic[a].tmr = IF level THEN @ \cup {v} ELSE @ \ {v}],
           a)

(* An error interrupts the first time it is found; an error vector that is *)
(* itself illegal is one more error and ends there.                        *)
Error(s, a, bit) ==
    LET l == s.lapic[a]
        found == [s EXCEPT !.lapic[a].esrPending = @ \cup {bit}]
    IN  CASE bit \in l.esrPending -> s
          [] bit \notin l.esrPending /\ l.error = Masked -> found
          [] bit \notin l.esrPending /\ l.error >= 16 ->
                Raise(found, a, l.error, FALSE)
          [] OTHER -> [found EXCEPT !.lapic[a].esrPending = @ \cup {"receive"}]

Accept(s, a, v, level) ==
    IF v < 16 THEN Error(s, a, "receive") ELSE Raise(s, a, v, level)

(* LocalApic::Init(): all but the ID and the base register. *)
InitRegisters(l) ==
    [l EXCEPT !.tpr = 0, !.svr = FALSE, !.irr = {}, !.isr = {}, !.tmr = {},
              !.extint = FALSE, !.timer = Masked, !.error = Masked,
              !.esrPending = {}]

InitApic(s, a) ==
    Update([s EXCEPT !.lapic[a] = InitRegisters(@)], a)

(* The STARTUP is for the processor alone, and an INIT's de-assert is for  *)
(* nobody.                                                                 *)
Receive(s, a, m) ==
    CASE m.mode \in {"fixed", "lowest"} -> Accept(s, a, m.vector, m.level)
      [] m.mode = "init" /\ (m.assert \/ ~m.level) -> InitApic(s, a)
      [] OTHER -> s

(* LocalApicBus::Send(): lowest priority delivery picks the destination of *)
(* the lowest processor priority, the first of equals.                     *)
Lowest(s, dest) ==
    {a \in dest : \A b \in dest \ {a} :
        \/ Ppr(s.lapic[a]) < Ppr(s.lapic[b])
        \/ Ppr(s.lapic[a]) = Ppr(s.lapic[b]) /\ a < b}

Send(s, m) ==
    LET receivers == IF m.mode = "lowest" THEN Lowest(s, m.dest) ELSE m.dest
        deliver(a, t) == Receive(t, a, m)
    IN  FoldSet(deliver, s, receivers)

(* IOAPIC::Send() and Service(). *)
SendPin(s, pin) ==
    LET e == s.rte[pin]
        t == IF e.level THEN [s EXCEPT !.rte[pin].remote_irr = TRUE] ELSE s
    IN  Send(t, [mode |-> e.mode, vector |-> e.vector, dest |-> e.dest,
                 level |-> e.level, assert |-> e.level])

Service(s, levels, pin) ==
    LET e == s.rte[pin]
    IN  IF e.level /\ ~e.masked /\ ~e.remote_irr /\ pin \in levels
        THEN SendPin(s, pin) ELSE s

Init ==
    /\ fLevels = {}
    /\ uses \in ApicUses
    /\ rte = [p \in Pins |-> [vector |-> Min(uses.vectors), dest |-> {},
                mode |-> "fixed", level |-> FALSE, masked |-> TRUE,
                remote_irr |-> FALSE]]
    /\ lapic = [a \in Apics |-> [base |-> "xapic", svr |-> FALSE, tpr |-> 0,
                irr |-> {}, isr |-> {}, tmr |-> {}, extint |-> a = 0,
                lint0 |-> FALSE, timer |-> Masked, error |-> Masked,
                esrPending |-> {}]]
    /\ apicIrq = [a \in Apics |-> FALSE]

Uses(op) == op \in uses.ops

SetIRQ(pin) ==
    \E high \in BOOLEAN :
        LET levels == IF high THEN fLevels \cup {pin} ELSE fLevels \ {pin}
            e == rte[pin]
            edge == high /\ pin \notin fLevels /\ ~e.masked
        IN  /\ fLevels' = levels
            /\ Becomes(CASE e.level -> Service(State, levels, pin)
                         [] ~e.level /\ edge -> SendPin(State, pin)
                         [] OTHER -> State)

(* The halves of a redirection entry are written one at a time.  The low   *)
(* one has the mask; an edge triggered entry has no EOI to wait for.  The  *)
(* high one is the destination.  An orderly guest has an entry masked      *)
(* while it has no destination.                                            *)
Halves(old, e) ==
    {entry \in {[vector |-> e.vector, dest |-> old.dest, mode |-> e.mode,
                 level |-> e.level, masked |-> e.masked,
                 remote_irr |-> old.remote_irr /\ e.level],
                [old EXCEPT !.dest = e.dest]} :
        uses.orderly => entry.masked \/ entry.dest # {}}

(* Mutant: a masked pin that is up stays unnoticed when it is unmasked. *)
WriteRteNoService(pin) ==
    \E e \in uses.entries : \E entry \in Halves(rte[pin], e) :
        Becomes([State EXCEPT !.rte[pin] = entry]) /\ UNCHANGED fLevels

(* A write of half an entry; unmasking a level triggered one that is up    *)
(* sends it.                                                               *)
WriteRte(pin) ==
    \E e \in uses.entries : \E entry \in Halves(rte[pin], e) :
        /\ Becomes(Service([State EXCEPT !.rte[pin] = entry], fLevels, pin))
        /\ UNCHANGED fLevels

(* IOAPIC::Eoi() *)
EoiPins(s, v) ==
    LET ends == {p \in Pins : s.rte[p].remote_irr /\ s.rte[p].vector = v}
        end(p, t) ==
            Service([t EXCEPT !.rte[p].remote_irr = FALSE], fLevels, p)
    IN  FoldSet(end, s, ends)

WriteEoi(a) ==
    /\ lapic[a].isr # {}
    /\ LET v == Max(lapic[a].isr)
           s == [State EXCEPT !.lapic[a].isr = @ \ {v}]
       IN  Becomes(Update(IF v \in lapic[a].tmr THEN EoiPins(s, v) ELSE s, a))
    /\ UNCHANGED fLevels

(* The processor takes the interrupt it was told of.  When it has gone     *)
(* away, or is the 8259s' to name, the APIC is left alone.                 *)
Acknowledge(a) ==
    /\ apicIrq[a] /\ Deliverable(lapic[a])
    /\ LET v == Max(lapic[a].irr)
       IN  Becomes(Update([State EXCEPT !.lapic[a].irr = @ \ {v},
                                        !.lapic[a].isr = @ \cup {v}], a))
    /\ UNCHANGED fLevels

SetLint0 ==
    /\ Uses("lint0")
    /\ \E high \in BOOLEAN :
        Becomes(Update([State EXCEPT !.lapic[0].lint0 = high], 0))
    /\ UNCHANGED fLevels

(* A device's MSI (LocalApicBus::Deliver()) or a processor's IPI: a vector *)
(* below 16 in the command register is not sent.                           *)
Message(a, m) ==
    /\ Uses("ipi")
    /\ Becomes(IF m.mode \in {"fixed", "lowest"} /\ m.vector < 16
               THEN Error(State, a, "send") ELSE Send(State, m))
    /\ UNCHANGED fLevels

Msi ==
    /\ \E m \in uses.messages : Becomes(Send(State, m))
    /\ UNCHANGED fLevels

SendIpi(a) == \E m \in uses.messages : Message(a, m)

WriteTpr(a) ==
    /\ Uses("tpr")
    /\ \E t \in {0, Class(Max(uses.vectors))} :
        Becomes(Update([State EXCEPT !.lapic[a].tpr = t], a))
    /\ UNCHANGED fLevels

(* Disabling masks the local vector table. *)
WriteSvr(a) ==
    /\ \E on \in BOOLEAN :
        /\ on \/ Uses("disable")
        /\ Becomes(Update([State EXCEPT !.lapic[a] =
            IF on THEN [@ EXCEPT !.svr = TRUE]
            ELSE [@ EXCEPT !.svr = FALSE, !.extint = FALSE, !.timer = Masked,
                           !.error = Masked]], a))
    /\ UNCHANGED fLevels

WriteLvt(a) ==
    /\ Uses("lvt")
    /\ LET masked == ~lapic[a].svr
       IN  \/ \E on \in BOOLEAN :
                Becomes(Update([State EXCEPT
                            !.lapic[a].extint = on /\ ~masked], a))
           \/ \E v \in uses.vectors \cup {Masked} :
                Becomes(Update([State EXCEPT
                            !.lapic[a].error = IF masked THEN Masked ELSE v],
                        a))
           \/ \E v \in uses.vectors \cup {Masked} :
                Becomes(Update([State EXCEPT
                            !.lapic[a].timer = IF masked THEN Masked ELSE v],
                        a))
    /\ UNCHANGED fLevels

(* RunTimer(), when a period has ended. *)
TimerFires(a) ==
    /\ lapic[a].timer # Masked
    /\ Becomes(Accept(State, a, lapic[a].timer, FALSE))
    /\ UNCHANGED fLevels

WriteEsr(a) ==
    /\ Becomes([State EXCEPT !.lapic[a].esrPending = {}])
    /\ UNCHANGED fLevels

ReservedRegister(a) ==
    /\ Uses("lvt") /\ lapic[a].base # "x2apic"
    /\ Becomes(Error(State, a, "register"))
    /\ UNCHANGED fLevels

SelfIpi(a) ==
    /\ lapic[a].base = "x2apic"
    /\ \E v \in uses.vectors :
        Becomes(IF v < 16 THEN Error(State, a, "send")
                ELSE Raise(State, a, v, FALSE))
    /\ UNCHANGED fLevels

(* x2APIC mode is entered from xAPIC mode and left by disabling. *)
SetBase(a) ==
    /\ Uses("base")
    /\ \E to \in {"disabled", "xapic", "x2apic"} :
        /\ <<lapic[a].base, to>> \notin {<<"disabled", "x2apic">>,
                                         <<"x2apic", "xapic">>}
        /\ Becomes(Update([State EXCEPT !.lapic[a].base = to], a))
    /\ UNCHANGED fLevels

Next ==
    \/ \E pin \in uses.pins : SetIRQ(pin) \/ WriteRte(pin)
    \/ SetLint0 \/ Msi
    \/ \E a \in uses.apics :
        \/ Acknowledge(a) \/ WriteEoi(a) \/ SendIpi(a) \/ WriteTpr(a)
        \/ WriteSvr(a) \/ WriteLvt(a) \/ TimerFires(a) \/ WriteEsr(a)
        \/ ReservedRegister(a) \/ SelfIpi(a) \/ SetBase(a)

(* Each processor was last told exactly whether its APIC has an interrupt  *)
(* for it, whichever register, line or message changed that.               *)
LineIsDeliverable == \A a \in Apics : apicIrq[a] = Interrupts(lapic[a])

(* A level triggered pin that is up and not masked has been sent and waits *)
(* for its EOI: none is overlooked, however it came to be up and unmasked. *)
LevelPinSent ==
    \A p \in fLevels : rte[p].level /\ ~rte[p].masked => rte[p].remote_irr

(* The EOI a pin waits for will come: the vector is pending or in service  *)
(* on some processor, as level triggered.  This takes a guest that keeps   *)
(* the vector of a level triggered pin to such pins, leaves it alone while *)
(* it is in service, directs it to a processor, and sends no INIT then.    *)
RemoteIrrEnds ==
    uses.orderly =>
        \A p \in Pins : rte[p].remote_irr =>
            \E a \in Apics :
                rte[p].vector \in (lapic[a].irr \cup lapic[a].isr)
                                  \cap lapic[a].tmr
=============================================================================
