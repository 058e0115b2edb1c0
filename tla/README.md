# A TLA+ model of TinyEMU

TinyEMU emulates RISC-V and x86 machines: processors, a few dozen devices, and
the host services (files, network, display, sound) behind them. This directory
holds a model of the parts in which threads, devices and guests interact, the
TLC configurations that check it on small instances, and proofs of what the
threads and the busiest device interfaces rest on. Paths below are relative to
`src/`.

## 1. The system

**Threads.** The *main* thread builds the machine, shows the display and stops
everything. The *event loop's* thread prepares poll sources, sleeps in
`select()` and dispatches them. The *machine* thread starts the processors, runs
the timers and refreshes the screen. There is one thread per *processor*, and
one *worker* per disk image. Device code runs with one lock held, the device
lock, by whichever thread got there. Processors run guest code without it, and
sleep in a `HostWakeup`.

**What makes it hard.** Nearly every pair of these threads meets through a flag,
a wakeup and an order of loads and stores, without a lock, so that an
interpreter in a tight loop costs nothing. A timer set by a processor must reach
a machine thread that is just going to sleep. An interrupt must reach a
processor that is just going to halt, or just entering a hypervisor. A request
must survive, or not survive, a reset. Interrupt controllers keep copies of
lines, and timers keep deadlines computed from registers that guests rewrite.

| Part | Source | State | Modelled by |
|---|---|---|---|
| Event loop | `platform/common/event_loop.cpp`, `platform/posix/event_loop_wait.cpp` | wake flag, pipe, stop flag | EventLoop (LoopContract) |
| Host timers | `platform/common/loop_timer.cpp` | armed, deadline, dispatching | LoopTimer |
| Wakeup | `platform/posix/host_wakeup.cpp` | kicked, sleeping | HostWakeup (WakeupContract) |
| Machine | `machine/machine.cpp` | holds, sleep-until, stop flag | Machine |
| RISC-V timers | `device/timer/clint.cpp`, `machine/riscv_machine.cpp` | mtime offset, mtimecmp, stimecmp, fired | RiscvTimers |
| RISC-V harts | `cpu/riscv/riscv_cpu_impl.h`, `cpu/riscv/riscv_interp_sbi.cpp` | inbox, hart states, exit request | RiscvHart |
| PC processors | `machine/x86_machine.cpp`, `cpu/x86/x86_cpu.cpp` | INIT/STARTUP flags, exit request, cycles_end, halted | PcCpus |
| Hypervisors | `platform/linux/kvm_x86.cpp`, `platform/haiku/nvmm_x86.cpp`, `platform/win32/whp_x86.cpp` | kick flags, injected event, task priority | HostVcpu |
| Disk images | `platform/posix/file_block.cpp` | queue, done list, snapshot | BlockFile (BlockContract) |
| Interrupt controllers | `device/intc/*` | registers, lines | Plic, Aplic, I8259, PcApics |
| Timers of the guest | `device/timer/*`, `device/intc/lapic.cpp` | registers, deadlines, lines | I8254, Mc146818, Hpet, LapicTimer, GoldfishRtc |
| Virtio queues | `bus/virtio/virtio.cpp`, `device/storage/virtio_block.cpp`, `device/net/virtio_net.cpp` | rings, status, requests in flight | VirtioQueue |
| Dirty pages | `core/iomem.cpp`, both processors' TLB fills | two bitmaps, TLBs | DirtyPages |
| Storage controllers | `device/storage/nvme.cpp`, `bus/ata/*`, `device/storage/buslogic.cpp`, `virtio_scsi.cpp`, `bus/sd/*` | queues, task files, mailboxes, data engines | Nvme, Ata, Scsi, Sdhci |
| USB | `bus/usb/*`, `device/storage/usb_storage.cpp`, `device/input/usb_hid.cpp` | rings, slots, endpoints, ports | Xhci |
| Serial, consoles | `device/char/*`, `platform/posix` consoles | FIFOs, room, blocked input | Serial |
| PS/2 | `bus/ps2/*`, `device/input/ps2_*.cpp` | two queues, one output buffer | Ps2 |
| Network card | `device/net/eepro100.cpp` | command and receive rings, EEPROM | Eepro100 |
| Sound | `bus/hda/*`, `bus/ac97/*`, `device/audio/*` | command rings, streams, descriptors | Sound |
| Shared directory | `device/fs/virtio_9p.cpp`, `platform/posix/fs_disk.cpp`, `platform/curl/fs_net.cpp` | fids, inodes, waiting opens | Plan9 |
| Network disk | `platform/curl/block_net.cpp` | block cache, clusters, requests | BlockNet |
| PCI | `bus/pci/*` | base registers, windows, pins, messages | Pci |

Everything else is listed in `PROJECT.json` with the reason it is not modelled,
and in section 7.

## 2. Modules

A module has the state of its component as VARIABLES, and one action per
operation; where threads meet without a lock, one action per load or store that
another thread can see. A critical section of the device lock or of a mutex is
one step. Names are the source's. Where a component is used by another, the
user is built on its *contract*: a small specification that the component is
shown to implement. What a guest or a host does with a component is drawn from
*scenarios* (`uses`, `setup`, `hyper`) chosen in the initial state.

**Host services** (`MCHost`, which extends all three). `EventLoop` has every
step of the loop's pass, of `Wake()` (exchange `fWakePending`, write the byte if
it was clear), and of `Stop()`. It implements `LoopContract`, which is what
`event_loop.h` says of `Wake()`; `LoopTimer` is written against that contract
and never sees the pipe. `HostWakeup` has each load and store of `Kick()` and
`Wait()`, spurious wakeups and timeouts included, and implements
`WakeupContract`; the machine's and processors' modules use the contract's one
flag.

**Machine** (`MCMachine`). `Machine` has the machine thread's pass (hold check,
timers, refresh, sleep), `KickBefore()` from any thread with the device lock,
`ReleaseStart()`, and the order of `Stop()`. `RiscvTimers` repeats the pass
without screen and holds and adds the counter and both comparators.

**Processors.** `RiscvHart` (`MCRiscvHart`) has the inbox protocol: store the
post, store `inbox_pending`, kick; on the hart's side clear first, then take in
each kind. SBI calls reach other harts through it (IPI, remote fence, start), as
do interrupt lines and the exit request. `PcCpus` has the same for the PC:
`cycles_end` and the exit flag of the interpreter, INIT and STARTUP, the halt.
An instruction is one of the few that matter here. `HostVcpu` is the PC's
processor thread when a hypervisor runs the guest: the kick (`KickVcpu()`,
`RequestExit()`, the signal), the injection of an interrupt before the run, the
task priority read back after it, the halt. The hypervisors are external, and
known by the comments on them and the use made of them.

**Disk images.** `BlockFile` has the three modes, the worker, `Cancel()` from
inside and outside a completion, failures, and the destructor; it implements
`BlockContract`, which is `host_block.h`. The storage controllers below have an
image as that contract has it: it answers at once, later, or not at all after
`Cancel()`.

**Chips, queues and pages** (`MCDevices`). A behaviour is about one of them,
because they do not touch each other's state. `MCDevices` extends `VirtioQueue`,
`DirtyPages` and `HostVcpu`, about which there are proofs, and instantiates the
others over one set of variables. In the timers, `wakeAt` is when the machine
thread runs next: a register write that brings an interrupt forward has to bring
`wakeAt` forward too.

- `Plic`, `Aplic`: lines, enables, priorities, thresholds, claims; domains,
  delegation and MSIs in the APLIC, and targets of harts that do not exist.
- `I8259`: both chips and the cascade; every command that changes state.
- `PcApics`: redirection entries, written half by half, remote IRR, messages, EOIs,
  priorities, IPIs, errors. A destination is the set of APICs it matches. That the
  EOI comes is asked of a guest that has a pin masked until it has a destination.
- `I8254`, `Mc146818`, `Hpet`, `LapicTimer`, `GoldfishRtc`: counting is
  arithmetic on small integers, with the roundings of the source and a narrow
  width, so that wraps happen.
- `VirtioQueue`: device and driver at the same time, with a store buffer in front
  of the device's used index (a processor may delay the store past a later load;
  the fences empty it), with the event index or the flags, three ways to
  interrupt, MSI-X masks, and a device that finishes requests later and is reset
  meanwhile, or waits for packets (tap). The driver is not in this repository: it
  is written from the rings' rules the device relies on, and marked external in
  the map.
- `DirtyPages`: processors write through TLB entries without a lock while the
  refresh switches bitmaps and flushes; for both processors' ways to fill.

**Controllers** (`MCControllers`). Twelve modules over three shared variables:
`dev` (the device and what the host does for it), `drv` (the guest's driver, or
the other threads) and `env`. Again a behaviour is about one. A handler runs with
the device lock held and is one step, except in `Eepro100`, where the guest
changes a ring between the reading of a header and acting on it, and in `Serial`,
where the console waits without the lock. Drivers keep to the rules of their
interface and are otherwise free; what each scenario allows stands at the end of
`MCControllers.tla`. The EEPROM of `Eepro100` is clocked bit by bit, because the
order of the bits and the run of a read into the next word are what
`EepromAsSpecified` is about.

## 3. Runs

Each run is one module with one `.cfg`: `tlc -config MCHost.cfg MCHost` and so
on. All end within five minutes on two cores.

| Run | Checks | Bounds, and why they are enough |
|---|---|---|
| `host` | No work is slept on (`NeverSleepsOnWork`); a wait ends within a millisecond of each armed timer (`WaitCoversTimers`) and due timers expire; `Stop()` returns; loop and wakeup implement their contracts, liveness included. | Two threads without the device lock and one with it: a wake can find another half done while the third keeps the loop from its lock. Two microseconds to a millisecond: deadlines fall inside one. Three kickers: one at each step of `Kick()`. |
| `machine` | No processor runs while a device loads, none is left when `Stop()` returns (`StartAndStop`); `Stop()` returns; processors start; set timers run. | Three machines: two processors and two loaders, two timers, one of each with a screen. |
| `riscv_timers` | MTIP is raised when mtimecmp passes; so is STIP, as long as mtime only counts. | One hart: the actors are the hart, the machine thread, the clock. |
| `hart_safety` | No post is lost (`InboxNotLost`), a start has one claimant (`StartClaimed`), a stopped hart runs nothing, a fence returns only after the flush (`SfenceComplete`). | Up to three harts, split into scenarios: starting needs two rivals for a third, fencing two senders to one. |
| `hart_live` | IPIs are taken, fences return even when harts fence each other, all threads end on stop. | Two harts, as the waits are pairwise. |
| `block_file` | A read sees the writes before it; the contract; every request and the destructor end (`AllEnd`). | Two requests on one sector, two values, three modes: order only matters between two. |
| `pc_cpus` | What is sent to a processor is taken by it, and threads end (`Responds`); a processor that a triple fault has shut down takes INIT, STARTUP and the stop, but no interrupt. | Two processors; each send happens once. |
| `devices` | The chips, queues and pages, below. | Per chip in `MCDevices.tla`. Two or three lines and two priorities for controllers; clocks of two or three ticks with narrow counters, so that each wraps; rings of two with indexes modulo four, four buffers, one reset; two processors and one page, as pages do not meet; two priorities and two task priorities on each hypervisor. |
| `controllers` | The controllers, below. | Per device in `MCControllers.tla`. Rings and queues of two to four entries, so that they fill and wrap; two or three commands in flight; disks of three or four sectors; one or two operations beside the ordinary traffic (abort, reset, mask, delete, unplug) in each scenario. |

The properties of `devices`:

- `DeviceLines`: what a chip last told a processor or a controller is what it has
  for it, whichever register, line, claim or acknowledge changed that.
- `SourcesServed`: the IOAPIC overlooks no level triggered pin, and the EOI a pin
  waits for can come; an APLIC source belongs to one domain and leaves nothing in
  the other.
- `NoLateTimer`: the machine thread sleeps past no timer.
- `NoLostNotify`, `NoLostInterrupt`: neither side of a virtio queue sleeps on what
  the other has done. `BuffersConserved`: each buffer is in one place, across
  requests and resets.
- `DirtyTracked`: no page is written without being marked for the next refresh,
  except by a write the refresh overtook.
- `KicksHeard`: no kick of a processor in a hypervisor is lost, and no interrupt
  goes to a guest that has masked it or has just executed STI. On NVMM two losses
  are excepted, and named in the state: a signal that comes between the last look
  and the entry (`missed`), which the comments of its class admit and the next exit
  ends; and a stop asked for between the look at `StopRequested()` and `Run()`'s
  `fKicked.store(false)` (`platform/haiku/nvmm_x86.cpp:787`), which is forgotten
  until the run's next exit (`forgot`).

The properties of `controllers`, each a conjunction over the devices it applies
to: every command is answered once (`AnsweredOnce`); an image has no request that
its device has forgotten and a device waits for none the image does not have
(`ImageKnows`); lines, edges and messages agree with what is pending
(`InterruptsTold`); characters, keys, sectors, packets, frames and reports arrive
whole and in order (`DataInOrder`); something is always due that carries on with
what is under way (`NoneStuck`).

The code does not do all of that. Where it does not, the case is in the model, a
history field of the state names it, and the property excepts what the field
names and nothing else. The four invariants in the last column state the sentence
without the exception; no run has them, and TLC refutes each when it is added to
`MCControllers.cfg`.

| Where | What the code does | Excepted by | Without it |
|---|---|---|---|
| `bus/usb/host/xhci.cpp:851` | A driver that frees entries without clearing EHB leaves the waiting events where they are (2610), and the next event finds room and goes ahead of them; "Events that arrive with the event ring full wait here until the guest frees space, which it does by writing ERDP" (274). Stopped while a device holds a transfer, the controller takes it back and reports nothing (2258). | `EventsInOrder`, `EachOnce`: `dev.passed`, `dev.dropped` | `Xhci!WaitForRoom` |
| `device/storage/ata_disk.cpp:478` | A PIO write is checked against the end of the disk at its first block; its later blocks reach the image beyond it, though "A command that runs off the end of the disk is refused. The back end does not check" (280). | `OnlyLaterBlocksBeyond` says just that | `Ata!RefusedBeyondEnd` |
| `bus/pci/pci.cpp:1146` | A pending vector that is unmasked while MSI-X is disabled is not sent when MSI-X is enabled; "A masked vector is delivered when the mask is lifted" (`bus/pci/pci.h:226`). Sent without bus mastering, a message is gone. | `MessagesKept`: `drv.stranded`, `drv.owed` | `Pci!LiftedIsSent` |
| `device/storage/nvme.cpp:1267` | Deleting a submission queue frees slots, and a command in another queue "left in the queue until a command finishes" (814) stays there until that queue's next doorbell or some later completion. | `NoneStuck`: `dev.left` | `Nvme!WaitsForSlot` |
| `device/input/ps2_mouse.cpp:173` | Room for one movement is asked for once, and its packets may need more: the queue drops the bytes that do not fit (`bus/ps2/ps2.cpp:35`), and the rest of the stream is out of step with the packets. | `PacketsWhole`: `dev.tight`, until the queue is empty | |
| `device/char/uart.cpp:246` | A write of FCR that empties the receive FIFO, and one of MCR that ends loopback, make room and do not tell the console, which sleeps on until something else wakes it; the characters cleared are lost. | `RoomIsTold`: `host.untold`; `InputInOrder`: `host.lost` | |
| `device/storage/buslogic.cpp:744` | Mail that comes while bus mastering is off waits, also when it is on again, for the next answer or acknowledgement. | `PendingMoves`: `dev.stalled` | |
| `device/storage/nvme.cpp:766`, `device/net/eepro100.cpp:230` | The pin is computed from INTX_DISABLE, and by the NVMe controller from its message capabilities, at the next event; a write of the configuration space alone moves no line. | `LineIsPending`, `Told`: `dev.stale` | |
| `device/storage/nvme.cpp:743, 818` | Queues where there is no memory are fatal (CSTS.CFS): what was in them is not answered. | `EachOnce`, `NoFatal`: `dev.cfs` with queues placed there | |
| `device/net/eepro100.cpp:402` | A command list without an end is run `EEPRO100_MAX_COMMANDS` times, and sends its frames as often. | `SentInOrder`: only in the scenario `endless` | |

Runs that end in a counterexample, each against a sentence of the source:

| Run | The source says | What happens |
|---|---|---|
| `riscv_sstc_mtime` | "The machine wakes the hart at that time" (`cpu/riscv/riscv_cpu_impl.h:139`) | The machine thread wakes a hart once per stimecmp. With mtime set back afterwards, a hart that sleeps again is not woken when the counter passes it anew. |
| `queue_flags` | the answer is taken "After the used index moved" (`bus/virtio/virtio.cpp:695`) | Without the event index nothing orders the store of the index before the read of the driver's flag; the driver can turn interrupts on, find the ring empty, and sleep. |
| `dirty_entries` | "either its flush sees this entry, or this sees the reset" (`cpu/x86/x86_cpu.cpp:374`) | A flush between the two halves of `tlb_fill()` clears the read tag; the fill then sets the write tag, since the page was marked again. Later flushes go by the read tag and skip the entry. |

`CHECK_DEADLOCK FALSE` stands where the system really stops: after `Stop()`, after
the image is destroyed, or when the last bounded send is done.

Each property of a passing run has a mutant in `PROJECT.json`: a version of one
action with a plausible mistake (a lost kick, a missing recheck, a kept request),
defined next to it, under which the property fails.

## 4. Fairness

- A thread inside a call goes on (weak fairness of its steps). Nothing is assumed
  of calls being made, of `select()` returning by itself, of spurious wakeups or
  of timeouts where they may not come.
- The device lock and the mutexes are `std::mutex`: a thread that asks again and
  again gets it (strong fairness of the acquisitions). Without this the loop could
  be starved by processors doing device accesses, which the code does not prevent.
- A hart or processor leaves its inner loop again and again (strong fairness of
  `LeaveBlocks` and of a processor's steps): the interpreter runs for a bounded
  number of cycles.
- Time passes (weak fairness of `Tick`). It saturates at a bound by which every
  deadline is due.
- `devices` and `controllers` check safety only, and assume none. `NoneStuck`,
  `NoLostNotify` and their like are the safety side of progress: in every state
  somebody is due to take the next step.

## 5. Proofs

Checked by TLAPS for every value of the constants. The constants of a component
are constrained by the named ASSUME of its module, which says no more than that
named threads are different ones, that sets of threads and devices that are
counted are finite, that sizes are positive numbers and that scenarios have the
shape of one; TLC evaluates each on the runs. Each inductive invariant was checked by TLC on the small instance before
it was proved.

| Module with the proofs | Theorem | States, for any instance |
|---|---|---|
| EventLoopProofs | `TypeCorrect`, `TokenCorrect`, `WakeupCorrect`, `WorkCorrect` | the wake pipe never holds two bytes, no wake is lost, the loop does not sleep on posted work |
| | `Refinement` | each step of the loop is one of LoopContract |
| | `WaitCorrect` | a wait ends less than a millisecond after every armed deadline, or is about to be woken |
| HostWakeup | `KickCorrect`, `Refinement` | no kick is slept through; each step is one of WakeupContract |
| MachineProofs | `StartStopCorrect` | `StartAndStop` |
| RiscvHartProofs | `TypeCorrect`, `InboxCorrect`, `StartCorrect`, `StoppedCorrect`, `SfenceCorrect` | the five invariants of `hart_safety` |
| BlockFileProofs | `Refinement`, `ReadCorrect` | BlockContract is implemented; a read sees the writes before it |
| VirtioQueueProofs | `QueueTyped`, `BuffersCorrect`, `NotifyCorrect`, `InterruptCorrect` | `BuffersConserved`, `NoLostNotify`, `NoLostInterrupt` |
| ProcessorProofs | `TrackingCorrect`, `VcpuCorrect` | `DirtyTracked`, `KicksHeard` |
| Aplic | `OneDomainCorrect`, `LinesCorrect` | the APLIC's parts of `SourcesServed` and `DeviceLines` |

**EventLoop.** That the loop does not sleep on work is not inductive. What carries
it is who owes the pipe a byte (`WakeToken`: a set `fWakePending` has one byte in
the pipe, or one thread about to write it, or the loop about to clear it); that a
wake since the preparation left `fWakePending` set (`OwedPending`), as only a wait
that returned clears it; that work posted to a source already prepared is announced
(`WorkAnnounced`); and that a loop that is not joinable has no thread inside a wait
(`NotJoinable`), without which `Start()` could run two.

**LoopTimer.** `WaitCoversTimers` needs beside the types only that nothing is
dispatched outside `Dispatch()`; the work is in the arithmetic of `Prepare()`, which
rounds a deadline up to a millisecond and caps it, and in the wakes that `Arm()`
leaves out. The least deadline exists because the naturals are well founded.

**HostWakeup.** Added to `NoKickSleptThrough`: who holds the mutex, that a sleeper's
flag is set whenever it is past its check, and why a wait returns.

**Machine.** `fStartHolds` is the number of loaders that hold the start (`Counted`);
when the machine thread is past its test of it, it is zero and stays so
(`StartedWhenFree`); how far its loops over the processors have come (`Loops`); who
holds the device lock is in device code (`Locks`).

**RiscvHart.** The flags only the hart's thread uses agree with the state other
harts see (`HsmAgrees`); no two calls are starting the same hart (`StartUnique`);
whatever is posted is announced by `inbox_pending`, or its poster is about to, or
`process_inbox()` has not come to it yet (`HartInbox`, which adds the flush asked
for after the last one was loaded); and a hart that has not flushed since a fence
began has a ticket that is neither done nor about to be (`OwedTicket`).

**BlockFile.** A completion has one request in flight at most, in one of the three
lists (`InFlight`); a new read behind the queue as it is, and each outstanding one in
it, sees what the last write before it has in its buffer, or what the file and the
snapshot have once the worker is done with its request (`Reads`). The contract
speaks of the same completions and buffers and knows none of the three lists: the
refinement is that whoever touches a buffer has its request in one of them.

**VirtioQueue.** From `QueueAssumption`: a ring's size divides the range of its
indexes and is at most half of it, as 2^16 and powers of two do. `BuffersConserved` says
where each buffer is; inductive is the count over both rings in the order of their
indexes (`Count`, `Distinct`), from which it follows that no index laps another, and
which buffer the device has in hand (`Held`). `NoLostNotify` rests on it: the index the
device published is the one it stopped at, so a driver that crosses it has notified or
is about to (`Told`, `ToldAtRest`). `NoLostInterrupt` is proved under `InterruptsAsked`:
a driver that suppresses interrupts has the event index. The case it leaves out is the
one in which `queue_flags` finds the interrupt lost. The argument is that at most one
used index is still in the store buffer, and only before the fence that comes before the
driver's event index is read (`Interrupts`).

**DirtyPages.** An entry that can be written unrecorded is one whose page is marked, or
whose flush is still to come while the old bitmap has the page (`EntriesKept`); and so
for the page of a write that neither the switch nor the flush overtook
(`WritesMarked`). For the PC's way to fill, the theorem is about the entries a flush
finds (`FoundAreMarked`); `dirty_entries` shows that others exist.

**HostVcpu.** For each thread that asks a processor to leave the guest, how far the
request has come at each step of the run (`Asked`): in a flag the run has still to look
at, in a signal on its way, or in an exit already under way; WHP instead has its timer.
An injected interrupt stays one the guest can take, because the task priority does not
change until it has been taken (`Injected`).

**Aplic.** Under `ModesWritten`: the scenarios' guests write source modes there are, or
the delegation bit. `OneDomain` is not inductive, since a child domain that kept what
it knew of a source would bring it to life again, out of step with its wire, at the
next delegation; it is with `Undelegated`: a source that is not delegated is inactive in
the child (`WriteSourcecfg()` sees to it).

**Only model-checked:**

- liveness, and the liveness part of the contracts: out of the prover's reach;
- the modules whose algorithms are recursive operators (Ata, BlockNet, Eepro100, Nvme,
  Pci, Plan9, Ps2, Scsi, Sdhci, Sound, Xhci): the prover has no SMT backend in a
  module that reaches one;
- PcApics and Serial, which fold over the receivers of a message, the pins an EOI
  ends and the characters read: what a fold computes is induction over data;
- Plic, I8259, the timers, RiscvTimers and PcCpus, and the conjunctions of
  `MCDevices` and `MCControllers` that are about them. Nothing stands against proofs
  of most of these; the others came first because threads meet in them.

## 6. What the runs do not show

Met while modelling, and left without a run of their own:

- `device/intc/i8259.cpp:84`: ICW1 clears the chip's copy of a level triggered line
  that is up; a later write of the ELCR does not find it again, though the comment
  at line 327 says such an input "asks for an interrupt while it is high".
  `DeviceLines` is about the chips and the processor, not about this copy.
- `machine/x86_machine.cpp:1497`: INIT and STARTUP are two flags without an order. A
  STARTUP that was sent before an INIT, and not yet looked at, starts the processor
  after the INIT, though the comment at line 1484 speaks of the "next STARTUP". The
  same comment says it "may already be here", which is how a STARTUP right behind
  its INIT is not lost; `Responds` covers that one.
- `device/timer/hpet.cpp:227`: a level triggered timer that is acknowledged lowers
  a line that another level triggered timer still holds. The scenarios of the
  HPET give each timer a line of its own.
- `device/timer/mc146818.cpp:318`: the line is only ever raised there; a guest that
  disables an interrupt whose flag is set keeps the line up until it reads
  register C. `DeviceLines` asks for the one direction.
- `platform/api/host_block.h:42` says a back end touches a request's buffer "only
  during the call and from the event loop"; the worker of
  `platform/posix/file_block.cpp:145` touches it in between. `BlockContract` allows
  it until the completion runs or `Cancel()` returns, which does hold.
- `readme.txt:155` speaks of harts taking turns; there is a thread per hart
  (`machine/riscv_machine.cpp:1064`), which is what `RiscvHart` has.
- A write overtaken by a refresh may be recorded in the bitmap that was just
  drawn from. The comments at `riscv_cpu_impl.h:883` and `x86_cpu.cpp:1562` accept
  this; `DirtyTracked` leaves such pages out.
- `device/net/virtio_net.cpp:94`: a packet to send with a short header is taken off
  the ring and not handed back.

Memory order: `EventLoop`, `HostWakeup`, `RiscvHart` and `PcCpus` take atomics as
sequentially consistent, as they are declared; `VirtioQueue` has a store buffer,
as guest memory is accessed with plain loads, stores and fences.

Data is left out throughout: what a request, a packet, a page or an instruction
holds. Register reads without side effects are left out too. Memory that a
device cannot reach is modelled for the queues of `Nvme`, the mailboxes of `Scsi`, the
messages of `Pci` and the command blocks of `Eepro100`; elsewhere what a driver points
at is there (the receive descriptors of `Eepro100`, the tables of `Sdhci`, the rings of
`Xhci`).

## 7. What is not modelled

The instruction interpreters (sequential, and a model would be the interpreter
again); the building of tables, device trees and configuration (runs once, before
the machine); drawing, window and sound systems; the thin covers of system calls.

Left out of what could be modelled, in order of what it would show:

1. The Windows event loop, wakeup and disk images, as further implementations of the
   three contracts.
2. The memory map: remapping of ranges while processors run, and the hypervisors' own
   dirty logs.
3. Composition: a virtio disk on `BlockContract` with its interrupt through the PLIC
   to a hart; the main thread's order of shutdown.
4. CFI flash, the NE2000, the DesignWare SD, MAC and I2C controllers, AudioRing.

Next candidates for proofs: `LineIsClaim` of Plic, `NotLate` of the timers.
