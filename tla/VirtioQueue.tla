------------------------------ MODULE VirtioQueue -----------------------------
(***************************************************************************)
(* A virtio queue (bus/virtio/virtio.cpp) between a device and a driver    *)
(* that run at the same time: the rings are in the guest's memory, which   *)
(* the processors use while the device, under the device lock, takes       *)
(* buffers and hands them back.  A request queue is the disk's             *)
(* (device/storage/virtio_block.cpp): a request is answered at once or     *)
(* when the image has finished it.  A receive queue is the network card's  *)
(* (device/net/virtio_net.cpp, platform/linux/tap_ethernet.cpp): the host  *)
(* asks whether there is a buffer and waits for one.                       *)
(*                                                                         *)
(* A buffer is the head of its chain, good or malformed; what it holds is  *)
(* left out.  The device's stores reach memory in order but late: pending  *)
(* counts the used indexes that are not out yet.  The driver is external,  *)
(* by the virtio specification, with a processor that adds buffers and one *)
(* that takes interrupts.                                                  *)
(***************************************************************************)
EXTENDS Integers, FiniteSets

CONSTANTS
    QueueSize,      \* num, a power of 2
    IdxWrap,        \* 2^16
    MaxPosts,       \* bound: buffers the driver adds
    MaxResets,      \* bound: resets
    Setups          \* what driver and device use

ASSUME QueueAssumption ==
    /\ QueueSize \in Nat \ {0} /\ IdxWrap \in Nat
    /\ 2 * QueueSize <= IdxWrap /\ IdxWrap % QueueSize = 0
    /\ MaxPosts \in Nat /\ MaxResets \in Nat
    /\ Setups \subseteq [kind : {"request", "receive"},
                         irq : {"mmio", "isr", "msix"}, event_idx : BOOLEAN,
                         suppress : BOOLEAN, malformed : BOOLEAN]

VARIABLES
    ring,           \* guest memory
    pending,
    queue,          \* the device's registers
    step, desc, seen, call,     \* the device, in a call under the lock
    in_flight,      \* requests with the image
    host,           \* the host's network: watching, blocked or neither
    int_status, line, msix,
    adding, taking, acks, last_used, free,      \* the driver
    posts, resets, setup

device == <<queue, step, desc, seen, call, in_flight, host>>
irq == <<int_status, line, msix>>
driver == <<adding, taking, acks, last_used, free>>
bounds == <<posts, resets, setup>>
queueVars == <<ring, pending, device, irq, driver, bounds>>

Slots == 0..(QueueSize - 1)
Heads == Slots
Indexes == 0..(IdxWrap - 1)
NoHead == -1
Slot(i) == i % QueueSize
Up(i) == (i + 1) % IdxWrap

RingState ==
    [avail : [Slots -> Heads], avail_idx : Indexes, no_interrupt : BOOLEAN,
     used_event : Indexes, used : [Slots -> Heads], used_idx : Indexes,
     avail_event : Indexes, bad : SUBSET Heads]
QueueState ==
    [driver_ok : BOOLEAN, needs_reset : BOOLEAN, ready : BOOLEAN,
     last_avail_idx : Indexes]
MsixState == [masked : BOOLEAN, pba : BOOLEAN, message : BOOLEAN]

QueueTypeOK ==
    /\ setup \in Setups /\ ring \in RingState /\ queue \in QueueState
    /\ pending \in 0..QueueSize
    /\ step \in {"idle", "peek", "publish", "reread", "take", "consume",
                 "wanted", "pop"}
    /\ desc \in Heads \cup {NoHead} /\ seen \in Indexes
    /\ call \in {"notify", "complete", "room", "packet"}
    /\ in_flight \subseteq Heads /\ host \in {"none", "watching", "blocked"}
    /\ int_status \subseteq {"used", "config"} /\ line \in BOOLEAN
    /\ msix \in MsixState
    /\ adding \in {"idle", "check", "notify"}
    /\ taking \in {"sleep", "ack", "process", "recheck"}
    /\ acks \subseteq {"used", "config"}
    /\ last_used \in Indexes /\ free \subseteq Heads
    /\ posts \in 0..MaxPosts /\ resets \in 0..MaxResets

EmptyRing ==
    [avail |-> [s \in Slots |-> 0], avail_idx |-> 0, no_interrupt |-> FALSE,
     used_event |-> 0, used |-> [s \in Slots |-> 0], used_idx |-> 0,
     avail_event |-> 0, bad |-> {}]

(* virtio_reset() *)
ResetQueue ==
    [driver_ok |-> FALSE, needs_reset |-> FALSE, ready |-> FALSE,
     last_avail_idx |-> 0]

QueueInit ==
    /\ setup \in Setups
    /\ ring = EmptyRing /\ pending = 0 /\ queue = ResetQueue
    /\ step = "idle" /\ desc = NoHead /\ seen = 0 /\ call = "notify"
    /\ in_flight = {} /\ host = "none"
    /\ int_status = {} /\ line = FALSE
    /\ msix = [masked |-> FALSE, pba |-> FALSE, message |-> FALSE]
    /\ adding = "idle" /\ taking = "sleep" /\ acks = {}
    /\ last_used = 0 /\ free = Heads
    /\ posts = 0 /\ resets = 0

(* ---- interrupts ---- *)

(* PCIMsixState::Send() *)
Sent(m) == IF m.masked THEN [m EXCEPT !.pba = TRUE]
           ELSE [m EXCEPT !.pba = FALSE, !.message = TRUE]

(* virtio_raise_irq() *)
RaiseIrq(cause) ==
    IF setup.irq = "msix"
    THEN msix' = Sent(msix) /\ UNCHANGED <<int_status, line>>
    ELSE /\ int_status' = int_status \cup {cause} /\ line' = TRUE
         /\ UNCHANGED msix

(* virtio_used_notification_wanted() *)
NotificationWanted(new_idx) ==
    IF setup.event_idx THEN (new_idx - ring.used_event - 1) % IdxWrap < 1
    ELSE ~ring.no_interrupt

(* ---- the device ---- *)

Usable == queue.driver_ok /\ ~queue.needs_reset /\ queue.ready

(* A call begins: of the processor that notified, or of the machine's      *)
(* thread.  It ends with the release of the lock, which lets stores out.   *)
Begin(c, s) == step = "idle" /\ call' = c /\ step' = s
End == step' = "idle" /\ desc' = NoHead

(* Stores become visible, some time. *)
StoreOut ==
    /\ pending > 0
    /\ pending' = pending - 1
    /\ ring' = [ring EXCEPT !.used_idx = Up(@)]
    /\ UNCHANGED <<device, irq, driver, bounds>>

(* The fence of virtio_queue_peek() lets them all out. *)
Fenced(r) == [r EXCEPT !.used_idx = (@ + pending) % IdxWrap]

(* virtio_queue_peek(): with the event index, "the driver notifies once it *)
(* adds past what the device has seen".                                    *)
Peek ==
    /\ step = "peek"
    /\ \/ /\ ~Usable /\ pending = 0 /\ End
          /\ host' = IF call = "room" THEN "blocked" ELSE host
          /\ UNCHANGED seen
       \/ /\ Usable /\ seen' = ring.avail_idx
          /\ step' = IF setup.event_idx THEN "publish" ELSE "reread"
          /\ UNCHANGED <<desc, host>>
    /\ UNCHANGED <<ring, pending, queue, call, in_flight, irq, driver, bounds>>

Publish ==
    /\ step = "publish" /\ step' = "reread"
    /\ ring' = Fenced([ring EXCEPT !.avail_event = seen]) /\ pending' = 0
    /\ UNCHANGED <<queue, desc, seen, call, in_flight, host, irq, driver,
                   bounds>>

Reread ==
    /\ step = "reread"
    /\ LET avail_idx == IF setup.event_idx THEN ring.avail_idx ELSE seen
       IN  \/ /\ avail_idx = queue.last_avail_idx /\ pending = 0 /\ End
              /\ host' = IF call = "room" THEN "blocked" ELSE host
           \/ /\ avail_idx # queue.last_avail_idx /\ step' = "take"
              /\ desc' = ring.avail[Slot(queue.last_avail_idx)]
              /\ UNCHANGED host
    /\ UNCHANGED <<ring, pending, queue, seen, call, in_flight, irq, driver,
                   bounds>>

(* get_desc_rw_size(): the chain cannot be walked. *)
Malformed(d) == d \in ring.bad

(* virtio_set_needs_reset() and the configuration change it signals. *)
SetNeedsReset ==
    /\ queue' = [queue EXCEPT !.needs_reset = TRUE]
    /\ IF queue.driver_ok THEN RaiseIrq("config") ELSE UNCHANGED irq
    /\ pending = 0 /\ End

(* VIRTIOBlockDevice::RecvRequest(): a request is with the image from now  *)
(* on or answered here.                                                    *)
RecvRequest ==
    \/ in_flight' = in_flight \cup {desc} /\ step' = "pop"
    \/ step' = "consume" /\ UNCHANGED in_flight

(* queue_notify() *)
TakeRequest ==
    /\ step = "take" /\ call = "notify"
    /\ IF Malformed(desc)
       THEN SetNeedsReset /\ UNCHANGED in_flight
       ELSE RecvRequest /\ UNCHANGED <<queue, desc, irq>>
    /\ UNCHANGED <<ring, pending, seen, call, host, driver, bounds>>

(* TapEthernet::Prepare(): there is a buffer. *)
TakeRoom ==
    /\ step = "take" /\ call = "room" /\ pending = 0
    /\ host' = "watching" /\ End
    /\ UNCHANGED <<ring, pending, queue, seen, call, in_flight, irq, driver,
                   bounds>>

(* VIRTIONetDevice::WritePacket(): a packet too long for the buffer is     *)
(* dropped.                                                                *)
TakePacket ==
    /\ step = "take" /\ call = "packet"
    /\ IF Malformed(desc)
       THEN SetNeedsReset
       ELSE /\ \/ step' = "consume" /\ UNCHANGED desc
               \/ pending = 0 /\ End
            /\ UNCHANGED <<queue, irq>>
    /\ UNCHANGED <<ring, pending, seen, call, in_flight, host, driver, bounds>>

(* virtio_consume_desc(): the element is there before the index. *)
Consume ==
    /\ step = "consume"
    /\ ring' = [ring EXCEPT !.used[Slot(ring.used_idx + pending)] = desc]
    /\ pending' = pending + 1 /\ step' = "wanted"
    /\ UNCHANGED <<queue, desc, seen, call, in_flight, host, irq, driver,
                   bounds>>

(* The rest of virtio_consume_desc(): an interrupt that is asked for goes   *)
(* out after the stores.  With it the image's request is done with.        *)
Signal ==
    /\ IF NotificationWanted((ring.used_idx + pending) % IdxWrap)
       THEN RaiseIrq("used") /\ ring' = Fenced(ring) /\ pending' = 0
       ELSE UNCHANGED <<irq, ring, pending>>
    /\ \/ call = "complete" /\ pending' = 0 /\ End
          /\ in_flight' = in_flight \ {desc}
       \/ call # "complete" /\ step' = "pop" /\ UNCHANGED <<desc, in_flight>>

(* Mutant: no fence before used_event is read. *)
WantedUnfenced ==
    /\ step = "wanted" /\ Signal
    /\ UNCHANGED <<queue, seen, call, host, driver, bounds>>

(* "the index is out before used_event is read" *)
Wanted ==
    /\ step = "wanted" /\ (setup.event_idx => pending = 0)
    /\ Signal
    /\ UNCHANGED <<queue, seen, call, host, driver, bounds>>

(* virtio_queue_pop(), and the loop's next turn. *)
Pop ==
    /\ step = "pop"
    /\ queue' = [queue EXCEPT !.last_avail_idx = Up(@)]
    /\ \/ call = "notify" /\ step' = "peek" /\ UNCHANGED desc
       \/ call = "packet" /\ pending = 0 /\ End
    /\ UNCHANGED <<ring, pending, seen, call, in_flight, host, irq, driver,
                   bounds>>

(* BlockRequest::Complete() *)
Complete ==
    /\ \E d \in in_flight :
        Begin("complete", "consume") /\ desc' = d
    /\ UNCHANGED <<ring, pending, queue, seen, in_flight, host, irq, driver,
                   bounds>>

(* TapEthernet::Prepare(), each time the loop comes around: after it       *)
(* delivered a packet, when TargetReady() woke it, or for someone else.    *)
Prepare ==
    /\ setup.kind = "receive"
    /\ Begin("room", "peek")
    /\ UNCHANGED <<ring, pending, queue, desc, seen, in_flight, host, irq,
                   driver, bounds>>

(* TapEthernet::Dispatch() *)
Dispatch ==
    /\ host = "watching" /\ host' = "none"
    /\ Begin("packet", "peek")
    /\ UNCHANGED <<ring, pending, queue, desc, seen, in_flight, irq, driver,
                   bounds>>

(* TapEthernet::TargetReady() *)
TargetReady == host' = IF host = "blocked" THEN "none" ELSE host

(* queue_notify_any(): the request queue's loop, or the network's          *)
(* TargetReady().                                                          *)
NotifyAny(usable) ==
    IF ~usable THEN UNCHANGED <<step, call, host>>
    ELSE IF setup.kind = "request"
    THEN Begin("notify", "peek") /\ UNCHANGED host
    ELSE TargetReady /\ UNCHANGED <<step, call>>

(* ---- the driver ---- *)

(* The driver sets the queue up. *)
SetReady ==
    /\ step = "idle" /\ ~queue.ready
    /\ queue' = [queue EXCEPT !.ready = TRUE]
    /\ UNCHANGED <<ring, pending, step, desc, seen, call, in_flight, host, irq,
                   driver, bounds>>

(* Mutant: the queues are not looked at. *)
DriverOkSilent ==
    /\ step = "idle" /\ queue.ready /\ ~queue.driver_ok
    /\ queue' = [queue EXCEPT !.driver_ok = TRUE]
    /\ UNCHANGED <<ring, pending, step, desc, seen, call, in_flight, host, irq,
                   driver, bounds>>

(* virtio_write_status() with DRIVER_OK: "buffers a driver added before    *)
(* are taken then".                                                        *)
DriverOk ==
    /\ step = "idle" /\ queue.ready /\ ~queue.driver_ok
    /\ queue' = [queue EXCEPT !.driver_ok = TRUE]
    /\ NotifyAny(~queue.needs_reset)
    /\ UNCHANGED <<ring, pending, desc, seen, in_flight, irq, driver, bounds>>

(* Mutant: the disk's requests survive the reset. *)
ResetKeepsRequests ==
    /\ step = "idle" /\ resets < MaxResets /\ resets' = resets + 1
    /\ adding = "idle" /\ taking = "sleep"
    /\ queue' = ResetQueue
    /\ int_status' = {} /\ line' = FALSE
    /\ ring' = EmptyRing /\ last_used' = 0 /\ free' = Heads /\ acks' = {}
    /\ UNCHANGED <<msix, pending, step, desc, seen, call, host, in_flight,
                   adding, taking, posts, setup>>

(* VIRTIOBlockDevice::Reset(): "the queues the requests came from are gone" *)
CancelRequests == in_flight' = {}

(* Writing 0 to the status; the driver starts over with empty rings. *)
Reset ==
    /\ step = "idle" /\ resets < MaxResets /\ resets' = resets + 1
    /\ adding = "idle" /\ taking = "sleep"
    /\ queue' = ResetQueue /\ CancelRequests
    /\ int_status' = {} /\ line' = FALSE
    /\ ring' = EmptyRing /\ last_used' = 0 /\ free' = Heads /\ acks' = {}
    /\ UNCHANGED <<msix, pending, step, desc, seen, call, host, adding, taking,
                   posts, setup>>

(* A buffer is added; a fence; whether the device wants to know. *)
Add ==
    /\ adding = "idle" /\ posts < MaxPosts /\ posts' = posts + 1
    /\ \E d \in free :
        /\ free' = free \ {d}
        /\ \E malformed \in {FALSE, setup.malformed} :
            ring' = [ring EXCEPT !.avail[Slot(ring.avail_idx)] = d,
                                 !.avail_idx = Up(@),
                                 !.bad = IF malformed THEN @ \cup {d} ELSE @]
    /\ adding' = "check"
    /\ UNCHANGED <<pending, device, irq, taking, acks, last_used, resets,
                   setup>>

Check ==
    /\ adding = "check"
    /\ adding' = IF setup.event_idx /\ Up(ring.avail_event) # ring.avail_idx
                 THEN "idle" ELSE "notify"
    /\ UNCHANGED <<ring, pending, device, irq, taking, acks, last_used, free,
                   bounds>>

(* The write of the notify register, needed or not. *)
Notify ==
    /\ adding # "check" /\ adding' = "idle"
    /\ step = "idle" /\ NotifyAny(Usable)
    /\ UNCHANGED <<ring, pending, queue, desc, seen, in_flight, irq, taking,
                   acks, last_used, free, bounds>>

(* The interrupt is taken: its causes are read, and what was read is       *)
(* acknowledged; the driver may then do without another for a while.       *)
Begun ==
    /\ taking' = "process" /\ acks' = {}
    /\ ring' = [ring EXCEPT !.no_interrupt = setup.suppress]

(* VIRTIOPCITransport: reading the ISR register acknowledges all of it. *)
ReadIsr == step = "idle" /\ int_status' = {} /\ line' = FALSE /\ UNCHANGED msix

Interrupt ==
    /\ taking = "sleep"
    /\ \/ setup.irq = "mmio" /\ line /\ taking' = "ack" /\ acks' = int_status
          /\ UNCHANGED <<irq, ring>>
       \/ setup.irq = "isr" /\ line /\ ReadIsr /\ Begun
       \/ msix.message /\ msix' = [msix EXCEPT !.message = FALSE]
          /\ Begun /\ UNCHANGED <<int_status, line>>
    /\ UNCHANGED <<pending, device, adding, last_used, free, bounds>>

(* VIRTIO_MMIO_INTERRUPT_ACK *)
Ack ==
    /\ taking = "ack" /\ step = "idle"
    /\ int_status' = int_status \ acks
    /\ line' = (line /\ int_status' # {})
    /\ Begun
    /\ UNCHANGED <<pending, device, msix, adding, last_used, free, bounds>>

(* Used buffers are taken back; with none left, interrupts are wanted      *)
(* again, and the index is looked at once more after a fence.              *)
Process ==
    /\ taking = "process"
    /\ IF ring.used_idx # last_used
       THEN /\ free' = free \cup {ring.used[Slot(last_used)]}
            /\ last_used' = Up(last_used)
            /\ UNCHANGED <<ring, taking>>
       ELSE /\ ring' = [ring EXCEPT !.no_interrupt = FALSE,
                                    !.used_event = last_used]
            /\ taking' = "recheck"
            /\ UNCHANGED <<last_used, free>>
    /\ UNCHANGED <<pending, device, irq, adding, acks, bounds>>

LookAgain ==
    /\ taking = "recheck"
    /\ taking' = IF ring.used_idx # last_used THEN "process" ELSE "sleep"
    /\ ring' = [ring EXCEPT !.no_interrupt =
                    setup.suppress /\ ring.used_idx # last_used]
    /\ UNCHANGED <<pending, device, irq, adding, acks, last_used, free,
                   bounds>>

(* PCIMsixState::TableWrite(): "Lifting a vector's mask delivers whatever  *)
(* arrived while it was set."                                              *)
SetMask ==
    /\ setup.irq = "msix" /\ step = "idle"
    /\ LET m == [msix EXCEPT !.masked = ~@]
       IN  msix' = IF ~m.masked /\ m.pba THEN Sent(m) ELSE m
    /\ UNCHANGED <<ring, pending, device, int_status, line, driver, bounds>>

QueueNext ==
    \/ StoreOut \/ Peek \/ Publish \/ Reread
    \/ TakeRequest \/ TakeRoom \/ TakePacket
    \/ Consume \/ Wanted \/ Pop \/ Complete \/ Prepare \/ Dispatch
    \/ SetReady \/ DriverOk \/ Reset \/ Add \/ Check \/ Notify
    \/ Interrupt \/ Ack \/ Process \/ LookAgain \/ SetMask

QueueSpec == QueueInit /\ [][QueueNext]_queueVars

(* ---- properties ---- *)

Between(from, to) ==
    {(from + k) % IdxWrap : k \in 0..(((to - from) % IdxWrap) - 1)}

(* No buffer waits for a device that does not know of it: when no call is  *)
(* in the device, one the driver has added and the device has not taken is *)
(* one the driver is about to notify of.  On the receive queue that        *)
(* matters while the host is blocked for want of a buffer.                 *)
NoLostNotify ==
    /\ step = "idle" /\ Usable /\ ring.avail_idx # queue.last_avail_idx
    /\ setup.kind = "request" \/ host = "blocked"
    => adding \in {"check", "notify"}

(* No used buffer waits for a driver that sleeps: an interrupt is asked    *)
(* for, or about to be.                                                    *)
InterruptComing ==
    line \/ msix.message \/ msix.pba \/ step = "wanted"
NoLostInterrupt ==
    taking = "sleep" /\ ring.used_idx # last_used => InterruptComing

(* Every buffer is in one place: the driver's, the available ring, the     *)
(* device, the image or the used ring, across resets and whatever order    *)
(* the image finishes in.                                                  *)
BuffersConserved ==
    LET available == {ring.avail[Slot(i)] :
                        i \in Between(queue.last_avail_idx, ring.avail_idx)}
        used == {ring.used[Slot(i)] :
                    i \in Between(last_used, ring.used_idx + pending)}
    IN  step \notin {"wanted", "pop"} =>
        /\ free \cup available \cup in_flight \cup used = Heads
        /\ Cardinality(free) + Cardinality(available) + Cardinality(in_flight)
            + Cardinality(used) = QueueSize
        /\ Cardinality(used) = (ring.used_idx + pending - last_used) % IdxWrap

(* The INTx line is up exactly while a cause is set. *)
LineIsStatus == line <=> int_status # {}
=============================================================================
