--------------------------------- MODULE Nvme ---------------------------------
(***************************************************************************)
(* An NVMe controller (device/storage/nvme.cpp) with its pin interrupt,    *)
(* and a driver that keeps to the queues' rules.  A handler runs with the  *)
(* device lock held and is a step on the controller's state, dev.  The     *)
(* entries of completion queues are in guest memory, dev.cqe, with their   *)
(* phases; a submission queue is the sequence of the commands between head *)
(* and tail.  Reads and writes are with a disk image as BlockContract has  *)
(* it: dev.waits are its requests.                                         *)
(*                                                                         *)
(* Whether a command waits for the image or is answered at once (a flush,  *)
(* an error found early, an image that answers at once) is the command's.  *)
(***************************************************************************)
EXTENDS Integers, Sequences, FiniteSets

CONSTANTS
    IoQueues,       \* 1..NVME_MAX_IO_QUEUES
    SqSize, CqSize, \* entries; one is never used
    Slots,          \* 1..NVME_MAX_IN_FLIGHT
    Cids,           \* command identifiers
    Uses            \* scenarios

VARIABLES
    dev,        \* the controller, and the completion queues' entries
    drv,        \* the driver's side of each queue pair
    asked,      \* the admin command it waits for
    uses

vars == <<dev, drv, asked, uses>>

Admin == 0
Queues == {Admin} \cup IoQueues

Entries == 0..(CqSize - 1)
Command == [op : {"wait", "now"}, cid : Cids]
AdminCommand ==
    [op : {"create_cq", "create_sq", "delete_cq", "delete_sq", "abort",
           "identify"},
     q : IoQueues, cid : Cids \cup {0}]
Nothing == [op |-> "nothing"]

NoSq == [on |-> FALSE, cqid |-> 0, cmds |-> <<>>]
NoCq == [on |-> FALSE, head |-> 0, tail |-> 0, phase |-> TRUE]
NoIo == [busy |-> FALSE, sqid |-> 0, cqid |-> 0, cid |-> 0]
NoEntries == [i \in Entries |-> [cid |-> 0, phase |-> FALSE, ok |-> FALSE]]
NoPair == [sq |-> FALSE, cq |-> FALSE, batch |-> <<>>, head |-> 0,
           phase |-> TRUE, owed |-> {}]

TypeOK ==
    /\ dev.en \in BOOLEAN /\ dev.rdy \in BOOLEAN /\ dev.cfs \in BOOLEAN
    /\ dev.line \in BOOLEAN /\ dev.mask \subseteq Queues
    /\ dev.pin \in BOOLEAN /\ dev.stale \in BOOLEAN /\ dev.left \subseteq IoQueues
    /\ \A q \in Queues :
        /\ dev.sq[q].on \in BOOLEAN /\ dev.sq[q].cqid \in Queues
        /\ dev.sq[q].cmds \in Seq(Command) /\ Len(dev.sq[q].cmds) < SqSize
        /\ dev.cq[q] \in [on : BOOLEAN, head : Entries, tail : Entries,
                          phase : BOOLEAN]
        /\ dev.cqe[q] \in [Entries -> [cid : Cids \cup {0}, phase : BOOLEAN,
                                       ok : BOOLEAN]]
        /\ drv[q].owed \subseteq Cids /\ drv[q].batch \in Seq(Command)
        /\ drv[q].head \in Entries
    /\ dev.io \in [Slots -> [busy : BOOLEAN, sqid : Queues, cqid : Queues,
                             cid : Cids \cup {0}]]
    /\ dev.waits \subseteq Slots
    /\ asked \in AdminCommand \cup {Nothing}

Init ==
    /\ dev = [en |-> FALSE, rdy |-> FALSE, cfs |-> FALSE, line |-> FALSE,
              mask |-> {}, pin |-> TRUE, stale |-> FALSE, left |-> {},
              sq |-> [q \in Queues |-> NoSq], cq |-> [q \in Queues |-> NoCq],
              cqe |-> [q \in Queues |-> NoEntries],
              io |-> [s \in Slots |-> NoIo], waits |-> {}]
    /\ drv = [q \in Queues |-> NoPair]
    /\ asked = Nothing
    /\ uses \in Uses

-----------------------------------------------------------------------------
(* What the handlers do, on a state d of the controller. *)

Pending(d, q) == d.cq[q].on /\ d.cq[q].head # d.cq[q].tail

(* Each queue has the vector of its number, and interrupts.  The pin stays *)
(* low while messages are on, or the pin is off in configuration space.    *)
UpdateIrq(d) ==
    [d EXCEPT !.line = d.pin /\ \E q \in Queues \ d.mask : Pending(d, q),
              !.stale = FALSE]

(* The guest has put an I/O queue where it has no memory. *)
NoMemory(of, q) == of \in uses.ops /\ q \in IoQueues

(* Mutant: the phase is not turned when the queue wraps. *)
PostCompletionOnePhase(d, cqid, cid, ok) ==
    LET cq == d.cq[cqid]
        next == (cq.tail + 1) % CqSize
    IN  CASE ~cq.on -> d
          [] cq.on /\ (next = cq.head \/ NoMemory("bad_cq", cqid)) ->
             [d EXCEPT !.cfs = TRUE]
          [] OTHER ->
             UpdateIrq([d EXCEPT
                !.cqe[cqid][cq.tail] = [cid |-> cid, phase |-> cq.phase, ok |-> ok],
                !.cq[cqid].tail = next])

(* A full queue is a fatal error, and so is one with no memory behind it:  *)
(* the completion is not written.                                          *)
PostCompletion(d, cqid, cid, ok) ==
    LET cq == d.cq[cqid]
        next == (cq.tail + 1) % CqSize
    IN  CASE ~cq.on -> d
          [] cq.on /\ (next = cq.head \/ NoMemory("bad_cq", cqid)) ->
             [d EXCEPT !.cfs = TRUE]
          [] OTHER ->
             UpdateIrq([d EXCEPT
                !.cqe[cqid][cq.tail] = [cid |-> cid, phase |-> cq.phase, ok |-> ok],
                !.cq[cqid].tail = next,
                !.cq[cqid].phase = IF next = 0 THEN ~@ ELSE @])

Least(S) == CHOOSE x \in S : \A y \in S : x <= y

FreeIo(d) == {s \in Slots : ~d.io[s].busy}

(* Mutant: the image is not told. *)
AbortIoKeeps(d, s) ==
    PostCompletion([d EXCEPT !.io[s] = NoIo], d.io[s].cqid, d.io[s].cid, FALSE)

(* Cancel() has the image forget the request. *)
AbortIo(d, s) ==
    PostCompletion([d EXCEPT !.io[s] = NoIo, !.waits = @ \ {s}],
                   d.io[s].cqid, d.io[s].cid, FALSE)

RECURSIVE AbortAll(_, _)
AbortAll(d, S) ==
    IF S = {} THEN d ELSE AbortAll(AbortIo(d, Least(S)), S \ {Least(S)})

ExecuteIo(d, sqid, cmd) ==
    IF cmd.op = "wait"
    THEN LET s == Least(FreeIo(d))
         IN  [d EXCEPT !.waits = @ \cup {s},
                       !.io[s] = [busy |-> TRUE, sqid |-> sqid,
                                  cqid |-> d.sq[sqid].cqid, cid |-> cmd.cid]]
    ELSE PostCompletion(d, d.sq[sqid].cqid, cmd.cid, TRUE)

(* A queue is read while a slot is free, up to a command that cannot be    *)
(* fetched.                                                                *)
RECURSIVE ProcessSq(_, _)
ProcessSq(d, sqid) ==
    LET cmds == d.sq[sqid].cmds
        e == [d EXCEPT !.left = @ \ {sqid}]
    IN  CASE cmds = <<>> \/ FreeIo(d) = {} -> e
          [] cmds # <<>> /\ FreeIo(d) # {} /\ NoMemory("bad_sq", sqid) ->
                [e EXCEPT !.cfs = TRUE]
          [] OTHER -> ProcessSq(ExecuteIo([e EXCEPT !.sq[sqid].cmds = Tail(cmds)],
                                          sqid, Head(cmds)), sqid)

RECURSIVE ProcessFrom(_, _)
ProcessFrom(d, Q) ==
    IF Q = {} THEN d
    ELSE ProcessFrom(ProcessSq(d, Least(Q)), Q \ {Least(Q)})

(* Whatever waited for a free slot. *)
ProcessWaiting(d) == ProcessFrom(d, IoQueues)

InFlight(d, sqid) == {s \in Slots : d.io[s].busy /\ d.io[s].sqid = sqid}

(* ExecuteAdmin(): the commands change the controller and say whether they *)
(* could; each is answered in queue 0.                                     *)

CreateCq(d, q) ==
    IF d.cq[q].on THEN <<d, FALSE>>
    ELSE <<[d EXCEPT !.cq[q] = [NoCq EXCEPT !.on = TRUE]], TRUE>>

(* The queues of a pair have the same number. *)
CreateSq(d, q) ==
    IF d.sq[q].on \/ ~d.cq[q].on THEN <<d, FALSE>>
    ELSE <<[d EXCEPT !.sq[q] = [NoSq EXCEPT !.on = TRUE, !.cqid = q]], TRUE>>

DeleteCq(d, q) ==
    IF ~d.cq[q].on \/ \E i \in IoQueues : d.sq[i].on /\ d.sq[i].cqid = q
    THEN <<d, FALSE>>
    ELSE <<[d EXCEPT !.cq[q] = NoCq], TRUE>>

Waiting(d) == {q \in IoQueues : d.sq[q].cmds # <<>>}

(* What the queue has in flight is answered as aborted; what is still in   *)
(* it is forgotten.  The slots that it had are not given to the commands   *)
(* that wait in another queue: dev.left are the queues passed over.        *)
DeleteSq(d, q) ==
    LET slots == InFlight(d, q)
        e == [AbortAll(d, slots) EXCEPT !.sq[q] = NoSq]
    IN  IF ~d.sq[q].on THEN <<d, FALSE>>
        ELSE <<[e EXCEPT !.left = (IF slots = {} THEN @ ELSE @ \cup Waiting(e)) \ {q}],
               TRUE>>

(* The aborted command is answered first; its slot may take another. *)
Abort(d, q, cid) ==
    LET caught == {s \in InFlight(d, q) : d.io[s].cid = cid}
    IN  IF caught = {} THEN <<d, FALSE>>
        ELSE <<ProcessWaiting(AbortAll(d, caught)), TRUE>>

ExecuteAdmin(d, cmd) ==
    LET done == CASE cmd.op = "create_cq" -> CreateCq(d, cmd.q)
                  [] cmd.op = "create_sq" -> CreateSq(d, cmd.q)
                  [] cmd.op = "delete_cq" -> DeleteCq(d, cmd.q)
                  [] cmd.op = "delete_sq" -> DeleteSq(d, cmd.q)
                  [] cmd.op = "abort" -> Abort(d, cmd.q, cmd.cid)
                  [] cmd.op = "identify" -> <<d, TRUE>>
    IN  PostCompletion(done[1], Admin, 0, done[2])

(* Mutant: the commands that wait for a slot are left to the doorbell. *)
BlockDoneAlone(s) ==
    /\ s \in dev.waits
    /\ dev' = PostCompletion([dev EXCEPT !.io[s] = NoIo, !.waits = @ \ {s}],
                             dev.io[s].cqid, dev.io[s].cid, TRUE)
    /\ UNCHANGED <<drv, asked, uses>>

-----------------------------------------------------------------------------
(* The image answers a request, well or badly. *)
BlockDone(s) ==
    /\ s \in dev.waits
    /\ dev' = ProcessWaiting(
                PostCompletion([dev EXCEPT !.io[s] = NoIo, !.waits = @ \ {s}],
                               dev.io[s].cqid, dev.io[s].cid, TRUE))
    /\ UNCHANGED <<drv, asked, uses>>

(* CC.EN is set: the admin queues start over, unless the configuration is  *)
(* one the controller does not have.                                       *)
ControllerEnable(supported) ==
    /\ ~dev.en
    /\ supported \/ "reset" \in uses.ops
    /\ dev' = IF supported
              THEN [dev EXCEPT !.en = TRUE, !.rdy = TRUE, !.cfs = FALSE,
                               !.cq[Admin] = [NoCq EXCEPT !.on = TRUE]]
              ELSE [dev EXCEPT !.en = TRUE, !.cfs = TRUE]
    /\ drv' = IF supported THEN [drv EXCEPT ![Admin].cq = TRUE] ELSE drv
    /\ UNCHANGED <<asked, uses>>

(* The queues are forgotten, the image's requests cancelled. *)
ControllerDisable ==
    /\ dev.en /\ "reset" \in uses.ops
    /\ dev' = [dev EXCEPT
                !.en = FALSE, !.rdy = FALSE, !.line = FALSE, !.mask = {},
                !.stale = FALSE, !.left = {},
                !.sq = [q \in Queues |-> NoSq], !.cq = [q \in Queues |-> NoCq],
                !.io = [s \in Slots |-> NoIo], !.waits = {},
                !.cqe = [q \in Queues |-> NoEntries]]
    /\ drv' = [q \in Queues |-> NoPair] /\ asked' = Nothing
    /\ UNCHANGED uses

(* INTMS, INTMC. *)
WriteMask(q) ==
    /\ dev.rdy /\ "mask" \in uses.ops
    /\ \E mask \in {dev.mask \ {q}, dev.mask \cup {q}} :
        dev' = UpdateIrq([dev EXCEPT !.mask = mask])
    /\ UNCHANGED <<drv, asked, uses>>

(* The driver turns the pin off in configuration space, or messages on,    *)
(* and back.  The controller looks at that when it next has a reason to.   *)
WritePin ==
    /\ dev.rdy /\ "pin" \in uses.ops
    /\ dev' = [dev EXCEPT !.pin = ~@, !.stale = TRUE]
    /\ UNCHANGED <<drv, asked, uses>>

(* The doorbell makes a batch of commands known. *)
SqDoorbell(q) ==
    /\ drv[q].batch # <<>>
    /\ dev' = ProcessSq([dev EXCEPT !.sq[q].cmds = @ \o drv[q].batch], q)
    /\ drv' = [drv EXCEPT ![q].batch = <<>>]
    /\ UNCHANGED <<asked, uses>>

(* Mutant: the line is left to the next completion. *)
CqDoorbellSilent(q) ==
    /\ drv[q].cq /\ dev.cq[q].on /\ dev.cq[q].head # drv[q].head
    /\ dev' = [dev EXCEPT !.cq[q].head = drv[q].head]
    /\ UNCHANGED <<drv, asked, uses>>

CqDoorbell(q) ==
    /\ drv[q].cq /\ dev.cq[q].on /\ dev.cq[q].head # drv[q].head
    /\ dev' = UpdateIrq([dev EXCEPT !.cq[q].head = drv[q].head])
    /\ UNCHANGED <<drv, asked, uses>>

-----------------------------------------------------------------------------
(* The driver. *)

(* Entries it has taken from the completion queue, and not yet given back. *)
Unrung(q) == (drv[q].head - dev.cq[q].head + CqSize) % CqSize

(* It has no more commands out than there is room for answers. *)
Submit(q, cmd) ==
    /\ drv[q].sq /\ cmd.cid \notin drv[q].owed
    /\ Cardinality(drv[q].owed) < SqSize - 1
    /\ Cardinality(drv[q].owed) + (IF uses.lazy THEN 0 ELSE Unrung(q))
            < CqSize - 1
    /\ drv' = [drv EXCEPT ![q].batch = Append(@, cmd),
                          ![q].owed = @ \cup {cmd.cid}]
    /\ UNCHANGED <<dev, asked, uses>>

(* One admin command at a time.  A pair of queues is created and deleted   *)
(* in the order the specification asks for; a submission queue is not used *)
(* once its deletion is asked for.                                         *)
InOrder(op, q, cid) ==
    CASE op = "create_cq" -> ~drv[q].cq
      [] op = "create_sq" -> drv[q].cq /\ ~drv[q].sq /\ drv[q].owed = {}
      [] op = "delete_sq" -> drv[q].sq
      [] op = "delete_cq" -> drv[q].cq /\ ~drv[q].sq /\ drv[q].owed = {}
      [] op = "abort" -> cid \in drv[q].owed
      [] op = "identify" -> TRUE

AskAdmin(op, q, cid) ==
    /\ dev.rdy /\ asked = Nothing /\ Unrung(Admin) = 0
    /\ InOrder(op, q, cid)
    /\ asked' = [op |-> op, q |-> q, cid |-> cid]
    /\ drv' = IF op = "delete_sq"
              THEN [drv EXCEPT ![q].sq = FALSE, ![q].batch = <<>>] ELSE drv
    /\ dev' = ExecuteAdmin(dev, asked')
    /\ UNCHANGED uses

(* The phase tells a new entry. *)
New(q) == drv[q].cq /\ dev.cqe[q][drv[q].head].phase = drv[q].phase

Taken(q) ==
    [drv[q] EXCEPT !.head = (@ + 1) % CqSize,
                   !.phase = IF drv[q].head = CqSize - 1 THEN ~@ ELSE @,
                   !.owed = @ \ {dev.cqe[q][drv[q].head].cid}]

(* What an entry said is not needed any more. *)
Forget(q) == dev' = [dev EXCEPT !.cqe[q][drv[q].head].cid = 0,
                                !.cqe[q][drv[q].head].ok = FALSE]

ReapIo(q) ==
    /\ New(q)
    /\ drv' = [drv EXCEPT ![q] = Taken(q)]
    /\ Forget(q)
    /\ UNCHANGED <<asked, uses>>

Unread(q) == {i \in Entries :
    /\ dev.cq[q].on
    /\ (i - drv[q].head + CqSize) % CqSize <
       (dev.cq[q].tail - drv[q].head + CqSize) % CqSize}

(* A deleted queue's commands that were not answered never will be. *)
Answered(q, op) ==
    CASE op = "create_cq" -> [NoPair EXCEPT !.cq = TRUE]
      [] op = "create_sq" -> [drv[q] EXCEPT !.sq = TRUE]
      [] op = "delete_sq" -> [drv[q] EXCEPT
                !.owed = @ \cap {dev.cqe[q][i].cid : i \in Unread(q)}]
      [] op = "delete_cq" -> NoPair
      [] OTHER -> drv[q]

ReapAdmin ==
    /\ New(Admin)
    /\ drv' = [drv EXCEPT ![Admin] = Taken(Admin),
                          ![asked.q] = IF dev.cqe[Admin][drv[Admin].head].ok
                                       THEN Answered(asked.q, asked.op) ELSE @]
    /\ IF asked.op = "delete_cq"
       THEN dev' = [dev EXCEPT !.cqe[asked.q] = NoEntries,
                               !.cqe[Admin][drv[Admin].head].ok = FALSE]
       ELSE Forget(Admin)
    /\ asked' = Nothing
    /\ UNCHANGED uses

Next ==
    \/ \E s \in Slots : BlockDone(s)
    \/ \E supported \in BOOLEAN : ControllerEnable(supported)
    \/ ControllerDisable \/ WritePin
    \/ \E q \in Queues : WriteMask(q) \/ CqDoorbell(q)
    \/ \E q \in IoQueues : SqDoorbell(q) \/ ReapIo(q)
    \/ \E q \in IoQueues, cmd \in uses.commands : Submit(q, cmd)
    \/ \E op \in uses.ops \cap {"create_cq", "create_sq", "delete_cq",
                                "delete_sq", "identify"}, q \in uses.queues :
        AskAdmin(op, q, 0)
    \/ \E q \in uses.queues, cid \in Cids :
        "abort" \in uses.ops /\ AskAdmin("abort", q, cid)
    \/ ReapAdmin

Spec == Init /\ [][Next]_vars

-----------------------------------------------------------------------------
(* Where a command of the driver's is. *)
Places(q, cid) ==
    Cardinality({i \in DOMAIN drv[q].batch : drv[q].batch[i].cid = cid})
    + Cardinality({i \in DOMAIN dev.sq[q].cmds : dev.sq[q].cmds[i].cid = cid})
    + Cardinality({s \in InFlight(dev, q) : dev.io[s].cid = cid})
    + Cardinality({i \in Unread(q) : dev.cqe[q][i].cid = cid})

(* A command is in one place, and answered once: through queues deleted    *)
(* and created anew, aborts, and the disabling of the controller with      *)
(* requests at the image (AbortIo(), ControllerDisable(), BlockDone()).    *)
(* Only a controller that says so (CSTS.CFS) has lost an answer.           *)
EachOnce ==
    \A q \in IoQueues, cid \in Cids :
        /\ Places(q, cid) <= 1
        /\ Places(q, cid) = 1 => cid \in drv[q].owed
        /\ cid \in drv[q].owed /\ drv[q].sq /\ ~dev.cfs => Places(q, cid) = 1

(* The image has the requests of the busy slots. *)
ImageKnows == dev.waits = {s \in Slots : dev.io[s].busy}

(* The driver takes the entries that are new for those PostCompletion()    *)
(* has written, and no others, however often the queue wraps.              *)
PhaseTells ==
    \A q \in Queues : drv[q].cq /\ dev.cq[q].on =>
        (New(q) <=> drv[q].head # dev.cq[q].tail)

(* No answer is thrown away for want of room in the completion queue: the  *)
(* controller is fatally wrong only when a queue has no memory behind it.  *)
NoFatal == dev.rdy /\ dev.cfs => uses.ops \cap {"bad_sq", "bad_cq"} # {}

(* The pin is up while a queue has entries not given back, if the driver   *)
(* uses the pin; a change of that counts from the next completion,         *)
(* doorbell or mask (UpdateIrq()).                                         *)
LineIsPending ==
    ~dev.stale =>
        dev.line = (dev.pin /\ \E q \in Queues \ dev.mask : Pending(dev, q))

(* A command waits in its queue only while every slot is taken, or until   *)
(* the next command or answer, when the slot was another queue's that was  *)
(* deleted (ProcessSq(), NVME_ADM_DELETE_SQ).                              *)
NoneStuck ==
    \A q \in IoQueues \ dev.left :
        dev.sq[q].cmds # <<>> /\ ~dev.cfs => FreeIo(dev) = {}

(* "left in the queue until a command finishes": a command waits for a     *)
(* slot, whatever frees it (ProcessSq()).                                  *)
WaitsForSlot ==
    \A q \in IoQueues : dev.sq[q].cmds # <<>> /\ ~dev.cfs => FreeIo(dev) = {}
=============================================================================
