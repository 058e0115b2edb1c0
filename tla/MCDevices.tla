------------------------------- MODULE MCDevices ------------------------------
(***************************************************************************)
(* The interrupt controllers, the virtio queues, the timers of both        *)
(* machines, the refresh of the screen and a processor on a hypervisor,    *)
(* one by one: they do not interact, and a behaviour is about one of them. *)
(* What a guest does with a device is chosen at the start, so that each    *)
(* combination of modes that meet is explored without all of them at once. *)
(* A queue, the screen and the processor have their own variables, left    *)
(* alone while another part runs; the other devices share v1 to v13, and   *)
(* one that needs fewer leaves the rest at 0.                              *)
(***************************************************************************)
EXTENDS VirtioQueue, DirtyPages, HostVcpu

CONSTANT Scenarios      \* a part and what its guest does, each

VARIABLES
    part, uses, v1, v2, v3, v4, v5, v6, v7, v8, v9, v10, v11, v12, v13

From12 == <<v12, v13>>
From10 == <<v10, v11, From12>>
From9 == <<v9, From10>>
From7 == <<v7, v8, From9>>
From5 == <<v5, v6, From7>>
From4 == <<v4, From5>>
shared == <<v1, v2, v3, From4>>
vars == <<part, uses, shared, queueVars, dirtyVars, vcpuVars>>

(* The variables from v<n> on are not used. *)
Unused12 == v12 = 0 /\ v13 = 0
Unused10 == v10 = 0 /\ v11 = 0 /\ Unused12
Unused9 == v9 = 0 /\ Unused10
Unused7 == v7 = 0 /\ v8 = 0 /\ Unused9
Unused5 == v5 = 0 /\ v6 = 0 /\ Unused7
Unused4 == v4 = 0 /\ Unused5
Unused == v1 = 0 /\ v2 = 0 /\ v3 = 0 /\ Unused4

UsesOf(p) == {s.uses : s \in {t \in Scenarios : t.part = p}}

Plic == INSTANCE Plic WITH
    PlicSources <- {1, 2}, PlicContexts <- {0, 1}, MaxPriority <- 2,
    fLevel <- v1, fServed <- v2, fPriority <- v3, fEnable <- v4,
    fThreshold <- v5, external <- v6
Pic == INSTANCE I8259 WITH
    PicInputs <- 2, Cascade <- 1, PicUses <- UsesOf("pic"), pic <- v1,
    cpuIrq <- v2, lines <- v3, fresh <- v4
Apic == INSTANCE PcApics WITH
    Apics <- {0, 1}, Pins <- {1, 2}, ApicUses <- UsesOf("apic"),
    fLevels <- v1, rte <- v2, lapic <- v3, apicIrq <- v4
Aplic == INSTANCE Aplic WITH
    AplicSources <- {1}, AplicHarts <- {0}, HartIndices <- 0..1,
    MsiHarts <- 1, AplicUses <- UsesOf("aplic"),
    fLevel <- v1, sourcecfg <- v2, pending <- v3, enable <- v4, target <- v5,
    ie <- v6, idc <- v7, external <- v8, msis <- v9
Pit == INSTANCE I8254 WITH
    MaxNow <- 4, PitNum <- 3, PitDen <- 2, Byte <- 2,
    PitUses <- UsesOf("pit"), now <- v1, wakeAt <- v2, channel <- v3
Rtc == INSTANCE Mc146818 WITH
    MaxNow <- 4, SecUs <- 2, Minute <- 2, TimesOfDay <- 2, TickNum <- 2,
    TickDen <- 3, Width <- 8, StartTick <- 6, RtcUses <- UsesOf("rtc"),
    now <- v1, wakeAt <- v2, time_offset_us <- v3, regs <- v4, alarm <- v5,
    rate <- v6, divider <- v7, b <- v8, c <- v9, flags_second <- v10,
    irq_timeout <- v11, irq_period <- v12, line <- v13
Hpet == INSTANCE Hpet WITH
    MaxNow <- 2, TicksPerUs <- 2, Narrow <- 4, MaxDelay <- 2,
    HpetTimers <- {0, 1}, HpetUses <- UsesOf("hpet"), now <- v1,
    wakeAt <- v2, hpet <- v3
Lapic == INSTANCE LapicTimer WITH
    MaxNow <- 3, TicksPerUs <- 2, TimerApics <- {0, 1}, Counts <- {1, 3},
    Divisors <- {1, 2}, ResetDivisor <- 2, now <- v1, wakeAt <- v2,
    timer <- v3
Goldfish == INSTANCE GoldfishRtc WITH
    MaxNow <- 3, UnitsPerUs <- 2, Half <- 3, now <- v1, fOffset <- v2,
    fSetHigh <- v3, fTimeHigh <- v4, fAlarm <- v5, fAlarmArmed <- v6,
    fIrqEnabled <- v7, fIrqPending <- v8, expires <- v9, line <- v10,
    partly <- v11
Init ==
    /\ part \in {s.part : s \in Scenarios} /\ uses \in UsesOf(part)
    /\ QueueInit /\ DirtyInit /\ VcpuInit
    /\ part # "queue" => setup = CHOOSE s \in Setups : TRUE
    /\ part # "dirty" => fill = CHOOSE f \in Fills : TRUE
    /\ part # "vcpu" => hyper = CHOOSE h \in Hypervisors : TRUE
    /\ \/ part = "plic" /\ Plic!Init /\ Unused7
       \/ part = "pic" /\ Pic!Init /\ Unused5
       \/ part = "apic" /\ Apic!Init /\ Unused5
       \/ part = "aplic" /\ Aplic!Init /\ Unused10
       \/ part = "pit" /\ Pit!Init /\ Unused4
       \/ part = "rtc" /\ Rtc!Init
       \/ part = "hpet" /\ Hpet!Init /\ Unused4
       \/ part = "lapic" /\ Lapic!Init /\ Unused4
       \/ part = "goldfish" /\ Goldfish!Init /\ Unused12
       \/ part \in {"queue", "dirty", "vcpu"} /\ Unused

Controllers ==
    \/ part = "plic" /\ Plic!Next /\ UNCHANGED From7
    \/ part = "pic" /\ Pic!Next /\ UNCHANGED From5
    \/ part = "apic" /\ Apic!Next /\ UNCHANGED From5
    \/ part = "aplic" /\ Aplic!Next /\ UNCHANGED From10

Timers ==
    \/ part = "pit" /\ Pit!Next /\ UNCHANGED From4
    \/ part = "rtc" /\ Rtc!Next
    \/ part = "hpet" /\ Hpet!Next /\ UNCHANGED From4
    \/ part = "lapic" /\ Lapic!Next /\ UNCHANGED From4
    \/ part = "goldfish" /\ Goldfish!Next /\ UNCHANGED From12

Next ==
    /\ UNCHANGED <<part, uses>>
    /\ \/ /\ Controllers \/ Timers
          /\ UNCHANGED <<queueVars, dirtyVars, vcpuVars>>
       \/ /\ part = "queue" /\ QueueNext
          /\ UNCHANGED <<shared, dirtyVars, vcpuVars>>
       \/ /\ part = "dirty" /\ DirtyNext
          /\ UNCHANGED <<shared, queueVars, vcpuVars>>
       \/ /\ part = "vcpu" /\ VcpuNext
          /\ UNCHANGED <<shared, queueVars, dirtyVars>>

Spec == Init /\ [][Next]_vars

-----------------------------------------------------------------------------

(* The registers, rings and bitmaps of every part have their types. *)
TypeOK ==
    /\ part = "plic" => Plic!TypeOK
    /\ part = "pic" => Pic!TypeOK
    /\ part = "apic" => Apic!TypeOK
    /\ part = "aplic" => Aplic!TypeOK
    /\ part = "queue" => QueueTypeOK
    /\ part = "pit" => Pit!TypeOK
    /\ part = "rtc" => Rtc!TypeOK
    /\ part = "hpet" => Hpet!TypeOK
    /\ part = "lapic" => Lapic!TypeOK
    /\ part = "goldfish" => Goldfish!TypeOK
    /\ part = "dirty" => DirtyTypeOK
    /\ part = "vcpu" => VcpuTypeOK

(* What every device last told the processors, or a controller, is what it *)
(* has for them: whatever register, line, message, claim, acknowledge or   *)
(* route changed that, and whether interrupts were enabled before or after *)
(* it became pending.                                                      *)
DeviceLines ==
    /\ part = "plic" => Plic!LineIsClaim
    /\ part = "pic" => Pic!LineIsRequest
    /\ part = "apic" => Apic!LineIsDeliverable
    /\ part = "aplic" => Aplic!LineIsClaim
    /\ part = "queue" => LineIsStatus
    /\ part = "rtc" => Rtc!FlagsAreRaised
    /\ part = "hpet" => Hpet!LevelHoldsLine /\ Hpet!NoLineLeftUp
    /\ part = "goldfish" => Goldfish!LineIsPending

(* The IOAPIC overlooks no level triggered pin, and the EOI such a pin     *)
(* waits for will come; an APLIC source belongs to one domain, and leaves  *)
(* nothing in the other.                                                   *)
SourcesServed ==
    /\ part = "apic" => Apic!LevelPinSent /\ Apic!RemoteIrrEnds
    /\ part = "aplic" => Aplic!OneDomain

(* The thread that runs a timer never sleeps past its next interrupt:      *)
(* whatever the guest wrote since it went to sleep has brought it forward. *)
NoLateTimer ==
    /\ part = "pit" => Pit!NotLate
    /\ part = "rtc" => Rtc!NotLate
    /\ part = "hpet" => Hpet!NotLate
    /\ part = "lapic" => Lapic!NotLate
    /\ part = "goldfish" => Goldfish!NotLate

(* ---- scenarios ---- *)

Of(p, all) == {[part |-> p, uses |-> u] : u \in all}

MCPicUses == {
    [lines |-> {<<1, 0>>, <<1, 1>>}, commands |-> {"mask", "eoi"}],
    [lines |-> {<<0, 0>>, <<1, 0>>}, commands |-> {"specific", "rotate"}],
    [lines |-> {<<0, 0>>, <<1, 0>>}, commands |-> {"special", "eoi", "mask"}],
    [lines |-> {<<0, 0>>, <<1, 0>>}, commands |-> {"elcr", "eoi", "poll"}],
    [lines |-> {<<1, 0>>}, commands |-> {"init", "eoi", "auto"}]}

Entry(v, to, by, lvl, off) ==
    [vector |-> v, dest |-> to, mode |-> by, level |-> lvl, masked |-> off]
Message(v, to, by, lvl, up) ==
    [vector |-> v, dest |-> to, mode |-> by, level |-> lvl, assert |-> up]

MCApicUses == {
    [orderly |-> TRUE, apics |-> {0, 1}, pins |-> {1, 2},
     vectors |-> {32, 48}, ops |-> {"tpr"},
     entries |-> {Entry(32, {0, 1}, "lowest", TRUE, TRUE),
                  Entry(32, {0, 1}, "lowest", TRUE, FALSE)},
     messages |-> {Message(48, {0}, "fixed", FALSE, FALSE)}],
    [orderly |-> FALSE, apics |-> {0}, pins |-> {1}, vectors |-> {8, 32},
     ops |-> {"base", "lint0", "ipi", "tpr"},
     entries |-> {Entry(32, {0}, "fixed", FALSE, FALSE),
                  Entry(32, {0}, "fixed", TRUE, FALSE),
                  Entry(8, {0}, "fixed", FALSE, TRUE)},
     messages |-> {Message(8, {0}, "fixed", FALSE, FALSE),
                   Message(32, {0, 1}, "init", TRUE, TRUE),
                   Message(32, {0}, "init", TRUE, FALSE),
                   Message(32, {1}, "startup", FALSE, FALSE)}],
    [orderly |-> FALSE, apics |-> {0}, pins |-> {1}, vectors |-> {8, 32},
     ops |-> {"disable", "lvt", "ipi"},
     entries |-> {Entry(32, {0}, "fixed", TRUE, FALSE),
                  Entry(8, {0}, "fixed", FALSE, TRUE)},
     messages |-> {Message(8, {0}, "fixed", FALSE, FALSE)}]}

MCAplicUses == {
    [msi |-> FALSE, priorities |-> 2,
     modes |-> {"D", "inactive", "level1", "edge0"}],
    [msi |-> TRUE, priorities |-> 1,
     modes |-> {"D", "detached", "level0", "edge1"}]}

QueueUse(kind, way, event_idx, suppress, malformed) ==
    [kind |-> kind, irq |-> way, event_idx |-> event_idx,
     suppress |-> suppress, malformed |-> malformed]

(* With the event index, or with interrupts always on. *)
MCQueueUses == {
    QueueUse("request", "mmio", TRUE, TRUE, FALSE),
    QueueUse("request", "msix", TRUE, FALSE, TRUE),
    QueueUse("request", "isr", FALSE, FALSE, TRUE),
    QueueUse("receive", "mmio", TRUE, FALSE, FALSE),
    QueueUse("receive", "msix", FALSE, FALSE, FALSE)}

(* Without the event index, by a driver that turns interrupts off while it *)
(* is busy with the used ring.                                             *)
FlagQueueUses == {QueueUse("request", "mmio", FALSE, TRUE, FALSE)}

MCPitUses == {
    [channels |-> {0}, modes |-> {0, 2}, access |-> {"word"},
     bytes |-> {0, 1}, ops |-> {}],
    [channels |-> {0}, modes |-> 0..5, access |-> {"lsb"},
     bytes |-> {0, 1}, ops |-> {}],
    [channels |-> {2}, modes |-> {0, 1, 2}, access |-> {"lsb"},
     bytes |-> {1}, ops |-> {"gate"}],
    [channels |-> {0}, modes |-> {3}, access |-> {"word", "msb"},
     bytes |-> {1}, ops |-> {"latch"}]}

MCRtcUses == {
    [deliver |-> TRUE, b |-> {{}, {"PIE"}}, rates |-> 0..2, ops |-> {}],
    [deliver |-> TRUE, b |-> {{}, {"AIE"}, {"UIE"}, {"SET", "UIE"}},
     rates |-> {1}, ops |-> {"time"}],
    [deliver |-> FALSE, b |-> {{"AIE"}, {"PIE", "SET"}}, rates |-> {1},
     ops |-> {"alarm", "reset"}]}

Config(lvl, every, set, cut, on, to) ==
    [level |-> lvl, periodic |-> every, set_value |-> set, narrow |-> cut,
     int |-> on, route |-> to]

MCHpetUses == {
    [timers |-> {0, 1}, shared |-> FALSE, values |-> {1}, highs |-> {0},
     ops |-> {"legacy"},
     configs |-> {Config(TRUE, FALSE, FALSE, FALSE, TRUE, "a"),
                  Config(FALSE, FALSE, FALSE, FALSE, TRUE, "a")}],
    [timers |-> {0}, shared |-> FALSE, values |-> {1, 2}, highs |-> {0},
     ops |-> {"legacy"},
     configs |-> {Config(TRUE, FALSE, FALSE, FALSE, TRUE, "a"),
                  Config(FALSE, FALSE, FALSE, FALSE, TRUE, "a"),
                  Config(TRUE, FALSE, FALSE, FALSE, FALSE, "none")}],
    [timers |-> {0}, shared |-> FALSE, values |-> {3}, highs |-> {0, 1},
     ops |-> {"counter"},
     configs |-> {Config(FALSE, TRUE, TRUE, FALSE, TRUE, "a")}],
    [timers |-> {0}, shared |-> FALSE, values |-> {1, 3}, highs |-> {0},
     ops |-> {"counter"},
     configs |-> {Config(FALSE, TRUE, TRUE, TRUE, TRUE, "a"),
                  Config(FALSE, FALSE, FALSE, TRUE, TRUE, "none")}]}

MCHypervisors ==
    {[kind |-> k, ops |-> {"irq", "stop"}] : k \in {"kvm", "nvmm", "whp"}}

MCScenarios ==
    Of("pic", MCPicUses) \cup Of("apic", MCApicUses)
    \cup Of("aplic", MCAplicUses) \cup Of("pit", MCPitUses)
    \cup Of("rtc", MCRtcUses) \cup Of("hpet", MCHpetUses)
    \cup UNION {Of(p, {"any"}) :
                p \in {"plic", "lapic", "goldfish", "queue", "dirty",
                      "vcpu"}}

MCQueues == Of("queue", {"any"})
MCDirty == Of("dirty", {"any"})
=============================================================================
