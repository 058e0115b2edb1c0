------------------------------- MODULE Eepro100 --------------------------------
(***************************************************************************)
(* The 82558 network card (device/net/eepro100.cpp) with a tap device of   *)
(* the host's (platform/linux/tap_ethernet.cpp) and a driver that keeps a  *)
(* ring of command blocks, the last of which suspends (or ends the list,   *)
(* uses.ends), and one of receive frame descriptors, the last of which     *)
(* ends the list.                                                          *)
(*                                                                         *)
(* The device runs with the device lock held, in a register write or in    *)
(* the event loop; the guest's processors change the rings meanwhile, so   *)
(* each block and each frame is two steps: its header is read, and acted   *)
(* upon.  A frame is a number; what it holds, the filter, the counters and *)
(* the PHY are left out.  The EEPROM is bits on a wire, as in the code.    *)
(***************************************************************************)
EXTENDS Integers, SequencesExt, FiniteSets

CONSTANTS
    Blocks, Rfds,           \* lengths of the two rings
    MaxFrames,              \* that are sent, and that come
    MaxCommands,            \* EEPRO100_MAX_COMMANDS
    AddrBits, WordBits,     \* of the EEPROM
    Uses                    \* kind: "net" or "eeprom"; interrupt, ops

VARIABLES
    dev,        \* the card
    drv,        \* the driver
    env,        \* guest memory, and the tap
    uses

vars == <<dev, drv, env, uses>>

NextOf(i, n) == (i % n) + 1
PrevOf(i, n) == ((i + n - 2) % n) + 1

Stats == {"CX", "FR", "CNA", "RNR", "MDI", "SWI"}

TypeOK ==
    /\ dev.cu \in {"idle", "suspended", "active"}
    /\ dev.ru \in {"idle", "ready", "suspended", "noresources"}
    /\ dev.cuAt \in 0..Blocks /\ dev.cuNext \in 0..Blocks
    /\ dev.cuLast \in 0..Blocks /\ dev.ruNext \in 0..Rfds
    /\ dev.stat \subseteq Stats /\ dev.mask \subseteq Stats
    /\ {dev.masked, dev.line, dev.intx, dev.stale} \subseteq BOOLEAN
    /\ dev.run \in 0..MaxCommands
    /\ drv.pc \in {"idle", "ack", "reap", "arm", "unlast", "restart"}
    /\ drv.tx \in {"idle", "unsuspend", "command"}
    /\ env.loop \in {"prepare", "wait", "frame"}

-----------------------------------------------------------------------------
(* Interrupts. *)

(* UpdateIrq(): each status bit has a mask but the last two, and M is all  *)
(* of theirs.  The pin is not used while INTX_DISABLE, d.intx, is set,     *)
(* which the card looks up here only: d.stale says that it was written     *)
(* since.                                                                  *)
Pending(d) == d.stat \ d.mask # {} /\ ~d.masked
UpdateIrq(d) == [d EXCEPT !.line = Pending(d) /\ ~d.intx, !.stale = FALSE]

Interrupt(d, s) == UpdateIrq([d EXCEPT !.stat = @ \cup s])

-----------------------------------------------------------------------------
(* The tap and the event loop. *)

(* Mutant: the event loop sleeps on. *)
TargetReadyAsleep(e) == [e EXCEPT !.fBlocked = FALSE]

(* TapEthernet::TargetReady() *)
TargetReady(e) ==
    [e EXCEPT !.fBlocked = FALSE,
              !.loop = IF e.fBlocked /\ @ = "wait" THEN "prepare" ELSE @]

CanWritePacket(d) == d.ru = "ready" /\ d.cu # "active"

(* The device lock is free: no command list and no frame is under way. *)
Unlocked == dev.cu # "active" /\ env.loop # "frame"

(* TapEthernet::Prepare() *)
Prepare ==
    /\ env.loop = "prepare" /\ Unlocked
    /\ env' = [env EXCEPT !.fWatching = CanWritePacket(dev),
                          !.fBlocked = ~CanWritePacket(dev),
                          !.loop = "wait"]
    /\ UNCHANGED <<dev, drv, uses>>

(* Something else wakes the event loop. *)
OtherWake ==
    /\ env.loop = "wait"
    /\ env' = [env EXCEPT !.loop = "prepare"]
    /\ UNCHANGED <<dev, drv, uses>>

(* ReceiveFrame(): the descriptor's header is read... *)
ReceiveBegins(d, e, f) ==
    IF d.ru # "ready" THEN <<d, [e EXCEPT !.loop = "prepare"]>>
    ELSE <<[d EXCEPT !.rfd = [el |-> e.rfd[d.ruNext].el, frame |-> f]],
           [e EXCEPT !.loop = "frame"]>>

(* ... and the frame is stored. *)
ReceiveEnds(d) ==
    LET ended == IF d.rfd.el THEN {"RNR"} ELSE {}
        stops == IF uses.rs THEN "suspended" ELSE "noresources"
    IN  Interrupt([d EXCEPT !.ru = IF d.rfd.el THEN stops ELSE @,
                            !.ruNext = NextOf(@, Rfds)], {"FR"} \cup ended)

Stored(e, i, f) == [e EXCEPT !.rfd[i].c = TRUE, !.rfd[i].frame = f]

(* TapEthernet::Dispatch() reads a frame, for the card to take or to drop. *)
Dispatch ==
    /\ env.loop = "wait" /\ env.fWatching /\ Unlocked
    /\ env.came < MaxFrames /\ uses.kind = "net" /\ "rx" \in uses.ops
    /\ LET f == env.came + 1
           b == ReceiveBegins(dev, env, f)
       IN  dev' = b[1] /\ env' = [b[2] EXCEPT !.came = f]
    /\ UNCHANGED <<drv, uses>>

Receive ==
    /\ env.loop = "frame"
    /\ dev' = ReceiveEnds(dev)
    /\ env' = [Stored(env, dev.ruNext, dev.rfd.frame) EXCEPT !.loop = "prepare"]
    /\ UNCHANGED <<drv, uses>>

-----------------------------------------------------------------------------
(* The command unit. *)

(* RunCommandList(), at a block... *)
RunCommandList(d, at) == [d EXCEPT !.cu = "active", !.cuAt = at, !.run = 0]

(* (it is not in memory, or enough have been run) *)
ListEnds(d) == d.cuAt = 0 \/ d.run = MaxCommands

(* ... whose command is read, *)
ReadBlock ==
    /\ dev.cu = "active" /\ dev.cmd = <<>> /\ ~ListEnds(dev)
    /\ dev' = [dev EXCEPT !.cmd = <<env.cb[dev.cuAt]>>]
    /\ UNCHANGED <<drv, env, uses>>

(* ... or which is the end of a list that has none: no block is there, or  *)
(* it goes on forever.                                                     *)
EndList ==
    /\ dev.cu = "active" /\ dev.cmd = <<>> /\ ListEnds(dev)
    /\ dev' = Interrupt([dev EXCEPT !.cu = "idle", !.run = 0], {"CNA"})
    /\ env' = TargetReady(env)
    /\ UNCHANGED <<drv, uses>>

(* A frame the back end answers with at once is taken while the CU runs,   *)
(* or dropped (WritePacket()); so is one that is looped back.              *)
Answered(d, e, f) ==
    IF "answer" \in uses.ops /\ d.ru = "ready"
    THEN <<ReceiveEnds([d EXCEPT !.rfd = [el |-> e.rfd[d.ruNext].el,
                                          frame |-> f]]),
           Stored(e, d.ruNext, f)>>
    ELSE <<d, e>>

(* Where the list goes after a block. *)
AfterBlock(d, cmd) ==
    CASE cmd.el -> Interrupt([d EXCEPT !.cu = "idle", !.run = 0], {"CNA"})
      [] ~cmd.el /\ cmd.s ->
           LET rests == [d EXCEPT !.cu = "suspended", !.run = 0]
           IN  IF uses.ci THEN rests ELSE Interrupt(rests, {"CNA"})
      [] ~cmd.el /\ ~cmd.s -> [d EXCEPT !.cuAt = d.cuNext, !.run = @ + 1]

(* ... and carried out: ExecuteCommand(), Transmit().  The back end is     *)
(* told when the list stops.                                               *)
DoBlock ==
    /\ dev.cu = "active" /\ dev.cmd # <<>>
    /\ LET cmd == dev.cmd[1]
           a == Answered([dev EXCEPT !.sent = Append(@, cmd.frame)], env,
                         MaxFrames + cmd.frame)
           d == [a[1] EXCEPT !.cuLast = dev.cuAt, !.cmd = <<>>,
                             !.cuNext = cmd.link]
           i == IF cmd.i THEN Interrupt(d, {"CX"}) ELSE d
           e == [a[2] EXCEPT !.cb[dev.cuAt].c = TRUE]
           l == AfterBlock(i, cmd)
       IN  /\ dev' = l
           /\ env' = IF l.cu = "active" THEN e ELSE TargetReady(e)
    /\ UNCHANGED <<drv, uses>>

(* CuCommand(): EE_CUC_START; EE_CUC_RESUME, which looks at the block the  *)
(* unit suspended after again.                                             *)
CuStart(d, at) == RunCommandList(d, at)

(* Mutant: it goes on wherever it has suspended. *)
CuResumeAlways(d) ==
    IF d.cu = "suspended" THEN RunCommandList(d, d.cuNext) ELSE d

CuResume(d) ==
    IF d.cu = "suspended" /\ ~env.cb[d.cuLast].s
    THEN RunCommandList(d, d.cuNext) ELSE d

-----------------------------------------------------------------------------
(* RuCommand(): EE_RUC_START, EE_RUC_RESUME, EE_RUC_ABORT. *)

RuStart(d, at) == [d EXCEPT !.ru = "ready", !.ruNext = at]
RuResume(d) == [d EXCEPT !.ru = IF @ = "suspended" THEN "ready" ELSE @]
RuAbort(d) ==
    [(IF d.ru = "ready" THEN Interrupt(d, {"RNR"}) ELSE d) EXCEPT !.ru = "idle"]

(* SelectiveReset(), and SoftwareReset(), which forgets the interrupts too. *)
SelectiveReset(d) ==
    [d EXCEPT !.cu = "idle", !.cuNext = 0, !.cuLast = 0, !.ru = "idle",
              !.ruNext = 0]
SoftwareReset(d) ==
    UpdateIrq([SelectiveReset(d) EXCEPT !.stat = {}, !.mask = {},
                                        !.masked = FALSE])

-----------------------------------------------------------------------------
(* The driver's sending side: a block that suspends, then the one before   *)
(* it suspends no longer, then the command.                                *)

InUse == drv.filled - drv.reaped

(* To the next block of the ring, to none, or to itself. *)
LinkOf(i) == CASE uses.ends \in {"suspend", "el"} -> NextOf(i, Blocks)
               [] uses.ends = "unlinked" -> 0
               [] uses.ends = "endless" -> i

Fill ==
    /\ drv.tx = "idle" /\ "tx" \in uses.ops /\ drv.filled < MaxFrames
    /\ InUse < IF uses.ends = "suspend" THEN Blocks - 1 ELSE 1
    /\ env' = [env EXCEPT !.cb[drv.next] =
                 [frame |-> drv.filled + 1, s |-> uses.ends = "suspend",
                  el |-> uses.ends = "el", link |-> LinkOf(drv.next),
                  i |-> uses.interrupt, c |-> FALSE]]
    /\ drv' = [drv EXCEPT !.filled = @ + 1, !.next = NextOf(@, Blocks),
                          !.tx = IF drv.resume THEN "unsuspend" ELSE "command"]
    /\ UNCHANGED <<dev, uses>>

LastFilled == PrevOf(drv.next, Blocks)

Unsuspend ==
    /\ drv.tx = "unsuspend"
    /\ env' = [env EXCEPT !.cb[PrevOf(LastFilled, Blocks)].s = FALSE]
    /\ drv' = [drv EXCEPT !.tx = "command"]
    /\ UNCHANGED <<dev, uses>>

Command ==
    /\ drv.tx = "command" /\ Unlocked
    /\ dev' = IF drv.resume THEN CuResume(dev) ELSE CuStart(dev, LastFilled)
    /\ drv' = [drv EXCEPT !.tx = "idle", !.resume = uses.ends = "suspend"]
    /\ UNCHANGED <<env, uses>>

-----------------------------------------------------------------------------
(* The driver's interrupt handler: it acknowledges what it has read, takes *)
(* back the blocks, and takes the frames, whose descriptors it adds to the *)
(* end of the list; it starts a receive unit that has stopped.             *)

Handle ==
    /\ drv.pc = "idle" /\ dev.line /\ Unlocked
    /\ drv' = [drv EXCEPT !.pc = "ack", !.seen = dev.stat]
    /\ UNCHANGED <<dev, env, uses>>

(* WriteBytes() of the status byte. *)
Ack ==
    /\ drv.pc = "ack" /\ Unlocked
    /\ dev' = UpdateIrq([dev EXCEPT !.stat = @ \ drv.seen])
    /\ drv' = [drv EXCEPT !.pc = "reap"]
    /\ UNCHANGED <<env, uses>>

(* The blocks from the oldest on that are complete. *)
Oldest == (drv.reaped % Blocks) + 1
RECURSIVE Complete(_, _)
Complete(i, n) == IF n > 0 /\ env.cb[i].c THEN 1 + Complete(NextOf(i, Blocks), n - 1)
                  ELSE 0

Reap ==
    /\ drv.pc = "reap"
    /\ drv' = [drv EXCEPT
         !.reaped = @ + Complete(Oldest, InUse),
         !.got = IF env.rfd[drv.clean].c THEN Append(@, env.rfd[drv.clean].frame)
                 ELSE @,
         !.pc = IF env.rfd[drv.clean].c THEN "arm"
                ELSE IF "RNR" \in drv.seen THEN "restart" ELSE "idle",
         !.seen = IF env.rfd[drv.clean].c \/ "RNR" \in @ THEN @ ELSE {}]
    /\ UNCHANGED <<dev, env, uses>>

Arm ==
    /\ drv.pc = "arm"
    /\ env' = [env EXCEPT !.rfd[drv.clean] = [c |-> FALSE, el |-> TRUE,
                                              frame |-> 0]]
    /\ drv' = [drv EXCEPT !.pc = "unlast"]
    /\ UNCHANGED <<dev, uses>>

Unlast ==
    /\ drv.pc = "unlast"
    /\ env' = [env EXCEPT !.rfd[PrevOf(drv.clean, Rfds)].el = FALSE]
    /\ drv' = [drv EXCEPT !.pc = "reap", !.clean = NextOf(@, Rfds)]
    /\ UNCHANGED <<dev, uses>>

Restart ==
    /\ drv.pc = "restart" /\ Unlocked
    /\ dev' = CASE dev.ru = "ready" -> dev
                [] dev.ru = "suspended" -> RuResume(dev)
                [] dev.ru \in {"idle", "noresources"} -> RuStart(dev, drv.clean)
    /\ env' = IF dev.ru = "ready" THEN env ELSE TargetReady(env)
    /\ drv' = [drv EXCEPT !.pc = "idle", !.seen = {}]
    /\ UNCHANGED uses

-----------------------------------------------------------------------------
(* Other register writes. *)

(* The interrupt control byte: M, and an interrupt of the guest's own. *)
Mask ==
    /\ "mask" \in uses.ops /\ Unlocked
    /\ dev' = UpdateIrq([dev EXCEPT !.masked = ~@])
    /\ UNCHANGED <<drv, env, uses>>

(* The command register of the configuration space. *)
WriteIntxDisable ==
    /\ "intx" \in uses.ops /\ Unlocked
    /\ dev' = [dev EXCEPT !.intx = ~@, !.stale = TRUE]
    /\ UNCHANGED <<drv, env, uses>>

SoftInterrupt ==
    /\ "swi" \in uses.ops /\ Unlocked
    /\ \E s \in {"SWI", "MDI"} : dev' = Interrupt(dev, {s})
    /\ UNCHANGED <<drv, env, uses>>

Abort ==
    /\ "abort" \in uses.ops /\ Unlocked /\ drv.pc = "idle"
    /\ dev.ru = "ready"
    /\ dev' = RuAbort(dev)
    /\ UNCHANGED <<drv, env, uses>>

FreshRfds == [i \in 1..Rfds |-> [c |-> FALSE, el |-> i = Rfds, frame |-> 0]]
FreshBlocks == [i \in 1..Blocks |-> [frame |-> 0, s |-> FALSE, el |-> FALSE,
                                     link |-> LinkOf(i), i |-> FALSE,
                                     c |-> FALSE]]

(* Port(): the driver resets the card, all of it or its units alone, and   *)
(* begins anew: what it had not sent and not taken is gone.                *)
Port ==
    /\ "reset" \in uses.ops /\ Unlocked /\ drv.tx = "idle" /\ drv.pc = "idle"
    /\ dev' \in {SoftwareReset(dev), SelectiveReset(dev)}
    /\ env' = [env EXCEPT !.rfd = FreshRfds, !.cb = FreshBlocks]
    /\ drv' = [drv EXCEPT !.reaped = drv.filled, !.resume = FALSE, !.clean = 1,
                          !.pc = "restart"]
    /\ UNCHANGED uses

-----------------------------------------------------------------------------
(* The EEPROM, which the guest clocks bit by bit. *)

Addrs == 0..2^AddrBits - 1
Bits(n, len) == [i \in 1..len |-> (n \div 2^(len - i)) % 2]
RECURSIVE Number(_)
Number(b) == IF b = <<>> THEN 0 ELSE 2 * Number(Front(b)) + Last(b)
Ones == [i \in 1..WordBits |-> 1]
All(w) == [a \in Addrs |-> w]

EeGoto(e, st) == [e EXCEPT !.st = st, !.shift = <<>>]

(* The operation and the address are in. *)
EeOperation(e, op, addr) ==
    CASE op = <<1, 0>> -> [EeGoto(e, "read") EXCEPT !.addr = addr,
                                                    !.shift = e.words[addr]]
      [] op = <<0, 1>> -> [EeGoto(e, "write") EXCEPT !.addr = addr]
      [] op = <<1, 1>> ->
           [EeGoto(e, "done") EXCEPT !.words[addr] = IF e.we THEN Ones ELSE @]
      [] op = <<0, 0>> ->
           CASE addr \div 2^(AddrBits - 2) = 0 ->
                  [EeGoto(e, "done") EXCEPT !.we = FALSE]
             [] addr \div 2^(AddrBits - 2) = 1 -> EeGoto(e, "write_all")
             [] addr \div 2^(AddrBits - 2) = 2 ->
                  [EeGoto(e, "done") EXCEPT !.words = IF e.we THEN All(Ones)
                                                      ELSE @]
             [] addr \div 2^(AddrBits - 2) = 3 ->
                  [EeGoto(e, "done") EXCEPT !.we = TRUE]

(* A word is in. *)
EeStore(e, word) ==
    [EeGoto(e, "done") EXCEPT
       !.do = 1,
       !.words = CASE ~e.we -> @
                   [] e.we /\ e.st = "write" -> [@ EXCEPT ![e.addr] = word]
                   [] e.we /\ e.st = "write_all" -> All(word)]

EeNextWord(e) == (e.addr + 1) % 2^AddrBits

(* Mutant: a read begins again with the same word. *)
EeReadBitAgain(e) ==
    IF Len(e.shift) > 1 THEN [e EXCEPT !.do = Head(e.shift), !.shift = Tail(@)]
    ELSE [e EXCEPT !.do = Head(e.shift), !.shift = e.words[e.addr]]

(* A bit of a read is out; the read goes on into the next word. *)
EeReadBit(e) ==
    IF Len(e.shift) > 1 THEN [e EXCEPT !.do = Head(e.shift), !.shift = Tail(@)]
    ELSE [e EXCEPT !.do = Head(e.shift), !.addr = EeNextWord(e),
                   !.shift = e.words[EeNextWord(e)]]

(* A rising edge of the clock. *)
EeClocked(e, di) ==
    LET in == Append(e.shift, di)
    IN  CASE e.st = "start" -> IF di = 1 THEN EeGoto(e, "command") ELSE e
          [] e.st = "command" ->
               IF Len(in) < 2 + AddrBits THEN [e EXCEPT !.shift = in]
               ELSE EeOperation([e EXCEPT !.do = 0], SubSeq(in, 1, 2),
                                Number(SubSeq(in, 3, 2 + AddrBits)))
          [] e.st = "read" -> EeReadBit(e)
          [] e.st \in {"write", "write_all"} ->
               IF Len(in) < WordBits THEN [e EXCEPT !.shift = in]
               ELSE EeStore(e, in)
          [] e.st = "done" -> [e EXCEPT !.do = 1]

(* EepromWrite() *)
EepromWrite(e, w) ==
    LET begun == IF w.cs /\ e.cs THEN e
                 ELSE [EeGoto(e, "start") EXCEPT !.do = 1]
        wired == [begun EXCEPT !.cs = w.cs, !.sk = w.sk]
    IN  IF w.cs /\ w.sk /\ ~e.sk THEN EeClocked(wired, w.di) ELSE wired

(* What the driver clocks: a start bit, the operation, the address, and    *)
(* the word it writes or zeros for two words it reads.                     *)
EeBits(q) == <<1>> \o q.op \o Bits(q.addr, AddrBits)
             \o (IF q.op = <<1, 0>> THEN Bits(0, 2 * WordBits) ELSE q.data)
EeWires(bits) ==
    [i \in 1..2 * Len(bits) + 1 |->
       [cs |-> i <= 2 * Len(bits), sk |-> i % 2 = 0,
        di |-> IF i <= 2 * Len(bits) THEN bits[(i + 1) \div 2] ELSE 0]]

EeBegin ==
    /\ uses.kind = "eeprom" /\ drv.wires = <<>>
    /\ \E q \in uses.ee :
         drv' = [drv EXCEPT !.op = q, !.wires = EeWires(EeBits(q)),
                            !.out = <<>>]
    /\ UNCHANGED <<dev, env, uses>>

(* What an operation does, as the part's data sheet has it. *)
EeSpec(ref, q) ==
    CASE q.op = <<1, 0>> -> ref
      [] q.op = <<0, 1>> /\ ref.we -> [ref EXCEPT !.words[q.addr] = q.data]
      [] q.op = <<1, 1>> /\ ref.we -> [ref EXCEPT !.words[q.addr] = Ones]
      [] q.op \in {<<0, 1>>, <<1, 1>>} /\ ~ref.we -> ref
      [] q.op = <<0, 0>> /\ Bits(q.addr, AddrBits)[1]
                            = Bits(q.addr, AddrBits)[2] ->
           [ref EXCEPT !.we = Bits(q.addr, AddrBits)[1] = 1]
      [] q.op = <<0, 0>> /\ Bits(q.addr, AddrBits)[1]
                            # Bits(q.addr, AddrBits)[2] ->
           IF ~ref.we THEN ref
           ELSE IF Bits(q.addr, AddrBits)[1] = 1
           THEN [ref EXCEPT !.words = All(Ones)]
           ELSE [ref EXCEPT !.words = All(q.data)]

EeStep ==
    /\ drv.wires # <<>>
    /\ LET w == Head(drv.wires)
           e == EepromWrite(dev.ee, w)
       IN  /\ dev' = [dev EXCEPT !.ee = e]
           /\ drv' = [drv EXCEPT
                !.wires = Tail(@),
                !.out = IF w.cs /\ w.sk THEN Append(@, e.do) ELSE @,
                !.ref = IF w.cs THEN @ ELSE EeSpec(@, drv.op)]
    /\ UNCHANGED <<env, uses>>

-----------------------------------------------------------------------------

Words == [a \in Addrs |-> Bits(a, WordBits)]

Init ==
    /\ uses \in Uses
    /\ dev = [cu |-> "idle", cuAt |-> 0, cuNext |-> 0, cuLast |-> 0,
              cmd |-> <<>>, ru |-> "ready", ruNext |-> 1,
              rfd |-> [el |-> FALSE, frame |-> 0], stat |-> {}, mask |-> uses.mask,
              masked |-> FALSE, line |-> FALSE, intx |-> FALSE,
              stale |-> FALSE, run |-> 0, sent |-> <<>>,
              ee |-> [cs |-> FALSE, sk |-> FALSE, st |-> "start", do |-> 1,
                      shift |-> <<>>, addr |-> 0, we |-> FALSE,
                      words |-> Words]]
    /\ drv = [pc |-> "idle", tx |-> "idle", seen |-> {}, filled |-> 0,
              reaped |-> 0, next |-> 1, resume |-> FALSE, clean |-> 1,
              got |-> <<>>, wires |-> <<>>, out |-> <<>>,
              op |-> [op |-> <<0, 0>>, addr |-> 0, data |-> <<>>],
              ref |-> [words |-> Words, we |-> FALSE]]
    /\ env = [cb |-> FreshBlocks, rfd |-> FreshRfds, came |-> 0,
              fWatching |-> FALSE, fBlocked |-> FALSE, loop |-> "prepare"]

Next == \/ Prepare \/ OtherWake \/ Dispatch \/ Receive
        \/ ReadBlock \/ DoBlock \/ EndList \/ Fill \/ Unsuspend \/ Command
        \/ Handle \/ Ack \/ Reap \/ Arm \/ Unlast \/ Restart
        \/ Mask \/ WriteIntxDisable \/ SoftInterrupt \/ Abort \/ Port
        \/ EeBegin \/ EeStep

Spec == Init /\ [][Next]_vars

-----------------------------------------------------------------------------

Increasing(s) == \A i \in 1..Len(s) - 1 : s[i] < s[i + 1]
Loses == uses.ops \cap {"reset", "abort"} # {}

(* Frames go out in the order they were queued, each once unless the list  *)
(* has no end, and a block that says it is complete has been sent          *)
(* (RunCommandList()).                                                     *)
SentInOrder ==
    /\ uses.ends # "endless" => Increasing(dev.sent)
    /\ ~Loses /\ uses.ends # "endless" =>
         dev.sent = [i \in 1..Len(dev.sent) |-> i]
    /\ \A i \in 1..Blocks : env.cb[i].c =>
         \E j \in 1..Len(dev.sent) : dev.sent[j] = env.cb[i].frame

(* The driver gets the frames in the order they came, each once, and all   *)
(* of them unless it stops the receive unit; those it has not taken are in *)
(* the ring, between where it looks and where the card goes on             *)
(* (ReceiveFrame()).                                                       *)
Waiting == SelectSeq([i \in 1..Rfds |-> env.rfd[((drv.clean + i - 2) % Rfds) + 1]],
                     LAMBDA r : r.c)
Taken == IF drv.pc = "arm" THEN Tail(Waiting) ELSE Waiting
FramesInOrder ==
    LET all == drv.got \o [i \in 1..Len(Taken) |-> Taken[i].frame]
    IN  "answer" \notin uses.ops =>
          /\ Increasing(all)
          /\ ~Loses => Len(all) = env.came - (IF env.loop = "frame" THEN 1 ELSE 0)

(* An operation ends with the words, and the permission to write, that the *)
(* operations so far leave, and a read has returned two words of them      *)
(* (EepromWrite()).                                                        *)
EepromAsSpecified ==
    drv.wires = <<>> /\ uses.kind = "eeprom" =>
      /\ dev.ee.words = drv.ref.words /\ dev.ee.we = drv.ref.we
      /\ drv.op.op = <<1, 0>> /\ drv.out # <<>> =>
           SubSeq(drv.out, 4 + AddrBits, Len(drv.out))
             = drv.ref.words[drv.op.addr]
               \o drv.ref.words[(drv.op.addr + 1) % 2^AddrBits]

(* Whoever finished something the driver waits for has told it: a block    *)
(* with the interrupt bit, a frame, a receive unit that stopped            *)
(* (Interrupt(), UpdateIrq()).  The line follows INTX_DISABLE at the next  *)
(* interrupt or acknowledgement.                                           *)
Looking == drv.pc \in {"reap", "arm", "unlast"}
Told ==
    /\ ~dev.stale => dev.line = (Pending(dev) /\ ~dev.intx)
    /\ uses.interrupt =>
         (env.cb[Oldest].c /\ InUse > 0 => "CX" \in dev.stat \/ Looking)
    /\ env.rfd[drv.clean].c => "FR" \in dev.stat \/ Looking
    /\ dev.ru # "ready" => \/ "RNR" \in dev.stat \cup drv.seen
                           \/ drv.pc = "restart"

(* Nothing is left lying: a command unit that is at rest has sent all it   *)
(* was given, and the event loop waits for a wake only while the card can  *)
(* take no frame (CuCommand(), TargetReady()).                             *)
NoneStuck ==
    /\ dev.cu # "active" /\ drv.tx = "idle" /\ InUse > 0 =>
         env.cb[LastFilled].c
    /\ env.loop = "wait" /\ ~env.fWatching =>
         env.fBlocked /\ ~CanWritePacket(dev)
=============================================================================
