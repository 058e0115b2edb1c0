--------------------------------- MODULE Sound ---------------------------------
(***************************************************************************)
(* The two sound controllers with a codec each, a driver, and the host     *)
(* streams whose clocks move them: HD Audio (bus/hda/host/intel_hda.cpp,   *)
(* device/audio/hda_codec.cpp) and AC'97 (bus/ac97/host/ich_ac97.cpp,      *)
(* device/audio/ac97_codec.cpp).                                           *)
(*                                                                         *)
(* A frame is a number, its place in the guest's buffers; gains, widths    *)
(* and the channels of a frame are left out.  All of it runs with the      *)
(* device lock held, so a register access or a tick of a host stream is    *)
(* one step; what interleaves is the driver's accesses and the clocks.     *)
(***************************************************************************)
EXTENDS Integers, Sequences, FiniteSets

CONSTANTS
    Entries,        \* of the command and response rings: a power of two
    BdCount,        \* ICH_BD_COUNT
    Burst,          \* frames of a tenth of a second, after which time is let go
    Uses            \* kind, what is attached, what the driver does: ops, at
                    \* most max accesses on its own account, and at most due
                    \* frames of a host stream

VARIABLES
    dev,        \* the controller and its codec
    drv,        \* the driver
    env,        \* guest memory, and the host streams
    uses

vars == <<dev, drv, env, uses>>

Smaller(a, b) == IF a < b THEN a ELSE b
LastTwo(s) == IF Len(s) <= 2 THEN s ELSE SubSeq(s, Len(s) - 1, Len(s))
None == 0

(* The nodes of the codec that are no converter, and a format that names   *)
(* no frame layout.                                                        *)
Group == 8
Absent == 9
BadFormat == 9

-----------------------------------------------------------------------------
(* HD Audio: interrupts.                                                   *)

Ports == {1, 2}
Sds == {1, 2}

StreamInterrupts(d) == {i \in Sds : "BCIS" \in d.sd[i].sts
                                    \/ ("DESE" \in d.sd[i].sts /\ uses.deie)}

ControllerInterrupt(d) == d.rirb.fl \/ d.corb.cmei \/ d.state

(* UpdateIrq(): a message is sent as the condition appears, the pin stays  *)
(* low while messages are in use.                                          *)
HdaUpdateIrq(d) ==
    LET level == d.on /\ (StreamInterrupts(d) # {} \/ ControllerInterrupt(d))
    IN  [d EXCEPT !.level = level,
                  !.pin = level /\ ~uses.msi,
                  !.message = @ \/ (uses.msi /\ level /\ ~d.level)]

-----------------------------------------------------------------------------
(* HD Audio: the codec.  A port is a converter and the host stream behind  *)
(* it; a format either names a frame layout or does not.                   *)

(* hda_format_decode() *)
Decodes(fmt) == fmt # BadFormat

NoPort == [tag |-> 0, fmt |-> 1, running |-> FALSE, at |-> 1, moved |-> 0]
Silent == [due |-> 0, heard |-> <<>>]

(* HDAOutputPort::WidgetChanged(), w the codec's ports and the streams of  *)
(* the host: a stream that starts, or starts over, counts from 0.          *)
WidgetChanged(w, p) ==
    LET c == w.port[p]
        run == c.tag # 0 /\ Decodes(c.fmt)
    IN  IF run /\ c.running /\ c.at = c.fmt THEN w
        ELSE IF run
        THEN [w EXCEPT !.port[p].at = c.fmt, !.port[p].moved = 0,
                       !.port[p].running = p \in uses.opens,
                       !.host[p] = Silent]
        ELSE [w EXCEPT !.port[p].running = FALSE]

NotifyPorts(w) == WidgetChanged(WidgetChanged(w, 1), 2)

(* Mutant: the ports are not told of a reset. *)
GroupResetQuiet(w) ==
    [w EXCEPT !.port = [p \in Ports |-> [w.port[p] EXCEPT !.tag = 0, !.fmt = 1]]]

(* HDAAudioGroupDevice::Reset() *)
GroupReset(w) ==
    NotifyPorts([w EXCEPT !.port = [p \in Ports |->
                    [w.port[p] EXCEPT !.tag = 0, !.fmt = 1]]])

(* A verb: for the root (parameters only), the function group, or the      *)
(* converter of port p.                                                    *)
Verb(node, id, data) == [node |-> node, id |-> id, data |-> data]

(* HDAAudioGroupDevice::WidgetVerb() *)
WidgetVerb(w, p, v) ==
    CASE v.id = "setstream" -> [w EXCEPT !.port[p].tag = v.data]
      [] v.id = "setformat" -> [w EXCEPT !.port[p].fmt = v.data]
      [] OTHER -> w

Answer(w, v) ==
    CASE v.node \in Ports /\ v.id = "getstream" -> w.port[v.node].tag
      [] v.node \in Ports /\ v.id = "getformat" -> w.port[v.node].fmt
      [] v.id = "getparameter" -> 100 + v.node
      [] OTHER -> 0

(* HDACodecDevice::Command(), GroupVerb() *)
Command(w, v) ==
    CASE v.node \in Ports -> WidgetChanged(WidgetVerb(w, v.node, v), v.node)
      [] v.node = Group /\ v.id = "reset" -> GroupReset(w)
      [] v.node = Group /\ v.id = "setpower" -> NotifyPorts(w)
      [] OTHER -> w

-----------------------------------------------------------------------------
(* HD Audio: commands.  w holds the controller, the ports, the host's      *)
(* streams and the rings.                                                  *)

(* PutResponse() *)
PutResponse(w, a) ==
    IF ~w.d.rirb.dma THEN w
    ELSE LET at == (w.d.rirb.wp + 1) % Entries
             full == w.d.responses + 1 >= uses.rintCnt
         IN  [w EXCEPT !.d.rirb.wp = at, !.rirb[at] = a,
                       !.d.rirb.fl = @ \/ full,
                       !.d.responses = IF full THEN 0 ELSE @ + 1]

RECURSIVE RunCorb(_)
RunCorb(w) ==
    IF w.d.corb.rp = w.d.corb.wp THEN w
    ELSE LET at == (w.d.corb.rp + 1) % Entries
             v == w.corb[at]
             read == [w EXCEPT !.d.corb.rp = at]
         IN  IF at \in uses.unmapped
             THEN [read EXCEPT !.d.corb.cmei = TRUE]
             ELSE IF v.node = Absent THEN RunCorb(read)
             ELSE RunCorb(PutResponse(Command(read, v), Answer(read, v)))

(* Mutant: only the count raises the response interrupt. *)
ProcessCorbCounts(w) ==
    IF ~w.d.corb.run \/ ~w.d.crst THEN w
    ELSE LET r == RunCorb(w) IN [r EXCEPT !.d = HdaUpdateIrq(r.d)]

(* ProcessCorb() *)
ProcessCorb(w) ==
    IF ~w.d.corb.run \/ ~w.d.crst THEN w
    ELSE LET r == RunCorb(w)
             left == r.d.responses > 0
         IN  [r EXCEPT !.d = HdaUpdateIrq([r.d EXCEPT
                                !.rirb.fl = @ \/ left,
                                !.responses = 0])]

(* RunImmediate() *)
RunImmediate(w, v) ==
    IF v.node = Absent THEN w
    ELSE [Command(w, v) EXCEPT !.d.icii = <<Answer(w, v)>>]

-----------------------------------------------------------------------------
(* HD Audio: streams.                                                      *)

NoStream == [run |-> FALSE, srst |-> FALSE, tag |-> 0, sts |-> {}, lpib |-> 0,
             cbl |-> 0, lvi |-> 0, fmt |-> 1, index |-> 0, offset |-> 0,
             pacer |-> None, late |-> FALSE]

StreamActive(d, i) ==
    d.crst /\ d.sd[i].run /\ ~d.sd[i].srst /\ i \notin d.ssync

(* FindStream(): the first that runs with the tag. *)
FindStream(d, tag) ==
    LET s == {i \in Sds : d.sd[i].tag = tag /\ StreamActive(d, i)}
    IN  IF tag = 0 \/ s = {} THEN None ELSE CHOOSE i \in s : \A j \in s : i <= j

RECURSIVE Before(_, _)
Before(list, k) == IF k = 0 THEN 0 ELSE Before(list, k - 1) + list[k].len
Whole(list) == Before(list, Len(list))

(* The engine goes on to the next buffer of the list. *)
NextBuffer(s) ==
    IF s.index >= s.lvi THEN [s EXCEPT !.offset = 0, !.index = 0, !.lpib = 0]
    ELSE [s EXCEPT !.offset = 0, !.index = @ + 1]

(* A buffer that asks for it is announced as it ends. *)
Ends(s, e) ==
    IF e.ioc THEN [s EXCEPT !.sts = @ \cup {"BCIS"}] ELSE s

(* Transfer(): n frames more, out the frames so far. *)
RECURSIVE Transfer(_, _, _, _, _)
Transfer(s, list, n, out, empty) ==
    IF n = 0 THEN [s |-> s, out |-> out]
    ELSE IF s.index + 1 > Len(list)     \* the list is not in memory
    THEN [s |-> [s EXCEPT !.sts = @ \cup {"DESE"}],
          out |-> out \o [k \in 1..n |-> 0]]
    ELSE LET e == list[s.index + 1]
             m == Smaller(e.len - s.offset, n)
             at == Before(list, s.index) + s.offset
             lpib == IF s.cbl # 0 /\ s.lpib + m >= s.cbl
                     THEN (s.lpib + m) % s.cbl ELSE s.lpib + m
             moved == [s EXCEPT !.offset = @ + m, !.lpib = lpib]
             frames == out \o [k \in 1..m |-> at + k]
         IN  IF s.offset < e.len
             THEN IF moved.offset < e.len
                  THEN Transfer(moved, list, n - m, frames, 0)
                  ELSE Transfer(NextBuffer(Ends(moved, e)), list, n - m,
                                frames, 0)
             ELSE IF empty + 1 > s.lvi + 1
             THEN [s |-> [s EXCEPT !.sts = @ \cup {"DESE"}],
                   out |-> out \o [k \in 1..n |-> 0]]
             ELSE Transfer(NextBuffer(s), list, n, out, empty + 1)

(* TakePace(): late says that 50 ms have gone by since the pacer asked.    *)
TakePace(s, p) == s.pacer = p \/ s.pacer = None \/ s.late

(* HDABus::StreamOutput(), down to HDAOutputPort::Play(). *)
StreamOutput(w, i, tag, frames) ==
    LET plays == {p \in Ports : w.port[p].running /\ w.port[p].tag = tag}
        real == SelectSeq(frames, LAMBDA f : f # 0)
    IN  [w EXCEPT
          !.port = [p \in Ports |->
              IF p \in plays THEN [w.port[p] EXCEPT !.moved = @ + Len(frames)]
              ELSE w.port[p]],
          !.host = [p \in Ports |->
              IF p \in plays
              THEN [w.host[p] EXCEPT !.heard = LastTwo(@ \o
                      [k \in 1..Len(real) |-> [of |-> i, frame |-> real[k]]])]
              ELSE w.host[p]]]

(* UpdatePosition() *)
UpdatePosition(w, i) ==
    IF uses.dp THEN [w EXCEPT !.pos[i] = w.d.sd[i].lpib] ELSE w

(* PullOutput(): the frames reach every converter set to the tag. *)
PullOutput(w, p, tag, n) ==
    LET i == FindStream(w.d, tag)
    IN  IF i = None THEN [w |-> w, result |-> "idle"]
        ELSE IF ~Decodes(w.d.sd[i].fmt) THEN [w |-> w, result |-> "idle"]
        ELSE IF ~TakePace(w.d.sd[i], p) THEN [w |-> w, result |-> "paced"]
        ELSE LET t == Transfer([w.d.sd[i] EXCEPT !.pacer = p, !.late = FALSE],
                               uses.list[i], n, <<>>, 0)
                 m == UpdatePosition([w EXCEPT !.d.sd[i] = t.s], i)
                 u == [m EXCEPT !.d = HdaUpdateIrq(m.d)]
             IN  [w |-> StreamOutput(u, i, tag, t.out), result |-> "moved"]

(* HDAOutputPort::AudioTick() *)
HdaTick(w, p) ==
    LET c == w.port[p]
        due == w.host[p].due
        from == IF due - c.moved > Burst THEN due - Burst ELSE c.moved
        let == [w EXCEPT !.port[p].moved = from]
        pull == PullOutput(let, p, c.tag, due - from)
    IN  IF ~c.running \/ due <= c.moved THEN w
        ELSE IF pull.result = "idle" THEN [let EXCEPT !.port[p].moved = due]
        ELSE pull.w

-----------------------------------------------------------------------------
(* HD Audio: the driver.                                                   *)

W == [d |-> dev.d, port |-> dev.port, host |-> env.host, corb |-> env.corb,
      rirb |-> env.rirb, pos |-> env.pos]

(* A port set to another stream starts listening anew, as all do to a      *)
(* stream that was reset.                                                  *)
HdaPut(w, reset) ==
    /\ dev' = [dev EXCEPT !.d = w.d, !.port = w.port]
    /\ env' = [env EXCEPT !.corb = w.corb, !.rirb = w.rirb, !.pos = w.pos,
          !.host = [p \in Ports |-> [w.host[p] EXCEPT !.heard =
              IF w.port[p].tag # dev.port[p].tag THEN <<>>
              ELSE SelectSeq(@, LAMBDA h : h.of \notin reset)]]]
    /\ UNCHANGED uses

Hda(op) == uses.kind = "hda" /\ op \in uses.ops /\ drv.ops < uses.max
Counted == [drv EXCEPT !.ops = @ + 1]

(* A register write ends with UpdateIrq() (DeviceWrite()). *)
Written(w) == [w EXCEPT !.d = HdaUpdateIrq(w.d)]

(* Responses the driver has not taken. *)
Unread == (dev.d.rirb.wp + Entries - drv.rp) % Entries

(* Verbs go into the ring and CORBWP is written. *)
Post ==
    \E vs \in uses.posts :
      /\ Hda("post") /\ dev.d.crst /\ drv.pc = "idle"
      /\ ((dev.d.corb.wp + Entries - dev.d.corb.rp) % Entries)
         + Len(vs) + Unread < Entries
      /\ LET slot(k) == (dev.d.corb.wp + k) % Entries
             mem == [j \in 0..Entries - 1 |->
                       IF \E k \in 1..Len(vs) : slot(k) = j
                       THEN vs[CHOOSE k \in 1..Len(vs) : slot(k) = j]
                       ELSE env.corb[j]]
         IN  HdaPut(Written(ProcessCorb([W EXCEPT !.corb = mem,
                                !.d.corb.wp = slot(Len(vs))])), {})
      /\ drv' = [Counted EXCEPT !.asked = @ \o
                   [k \in 1..Len(vs) |-> [v |-> vs[k], ring |-> TRUE]]]

(* The ring is stopped, or runs again: CORBCTL. *)
CorbControl ==
    /\ Hda("corb") /\ dev.d.crst /\ drv.pc = "idle"
    /\ HdaPut(Written(ProcessCorb([W EXCEPT !.d.corb.run = ~@])), {})
    /\ drv' = Counted

(* ICOI, then ICIS. *)
Immediate ==
    \E v \in uses.immediates :
      /\ Hda("immediate") /\ dev.d.crst /\ drv.pc = "idle"
      /\ LET w == RunImmediate([W EXCEPT !.d.icii = <<>>], v)
         IN  /\ HdaPut(Written(w), {})
             /\ drv' = [Counted EXCEPT
                          !.asked = Append(@, [v |-> v, ring |-> FALSE]),
                          !.got = @ \o [k \in 1..Len(w.d.icii) |->
                             [ring |-> FALSE, a |-> w.d.icii[k]]]]

(* SDnFMT, CBL, LVI, BDPL, then the tag and RUN in SDnCTL. *)
RunStream ==
    \E i \in Sds :
      /\ Hda("run") /\ dev.d.crst /\ ~dev.d.sd[i].srst /\ ~dev.d.sd[i].run
      /\ uses.list[i] # <<>> \/ uses.deie
      /\ HdaPut(Written([W EXCEPT !.d.sd[i] =
            [@ EXCEPT !.fmt = uses.fmt, !.tag = uses.tag[i], !.run = TRUE,
                      !.cbl = Whole(uses.list[i]),
                      !.lvi = IF uses.list[i] = <<>> THEN 0
                              ELSE Len(uses.list[i]) - 1,
                      !.pacer = None]]), {})
      /\ drv' = Counted

StopStream ==
    \E i \in Sds :
      /\ Hda("stop") /\ dev.d.crst /\ dev.d.sd[i].run
      /\ HdaPut(Written([W EXCEPT !.d.sd[i].run = FALSE]), {})
      /\ drv' = Counted

(* SRST goes up, and down again. *)
ResetStream ==
    \E i \in Sds :
      /\ Hda("srst") /\ dev.d.crst /\ ~dev.d.sd[i].run
      /\ dev.d.sd[i] # NoStream
      /\ HdaPut(Written([W EXCEPT !.d.sd[i] =
            IF dev.d.sd[i].srst THEN [@ EXCEPT !.srst = FALSE]
            ELSE [NoStream EXCEPT !.srst = TRUE]]), {i})
      /\ drv' = Counted

(* SSYNC holds streams, to be let go together. *)
Hold ==
    \E held \in {{}, {1}} :
      /\ Hda("ssync") /\ dev.d.crst /\ held # dev.d.ssync
      /\ HdaPut(Written([W EXCEPT !.d.ssync = held]), {})
      /\ drv' = Counted

FreshHda(crst) ==
    [crst |-> crst, on |-> FALSE, state |-> FALSE, ssync |-> {},
     corb |-> [wp |-> 0, rp |-> 0, run |-> FALSE, cmei |-> FALSE],
     rirb |-> [wp |-> 0, dma |-> FALSE, fl |-> FALSE], responses |-> 0,
     icii |-> <<>>, sd |-> [i \in Sds |-> NoStream],
     level |-> FALSE, pin |-> FALSE, message |-> FALSE]

(* EnterReset() *)
EnterReset(d) ==
    HdaUpdateIrq([FreshHda(FALSE) EXCEPT !.level = d.level,
                                         !.message = d.message])

(* LeaveReset(): every codec is reset, and signals its presence. *)
LeaveReset(w) ==
    LET r == GroupReset(w)
    IN  [r EXCEPT !.d = HdaUpdateIrq([r.d EXCEPT !.crst = TRUE, !.state = TRUE])]

(* The controller goes through a reset, and is set up again: the rings and *)
(* the interrupts are on.                                                  *)
ControllerReset ==
    /\ Hda("crst") /\ dev.d.crst /\ drv.pc = "idle"
    /\ HdaPut([W EXCEPT !.d = EnterReset(dev.d)], Sds)
    /\ drv' = [Counted EXCEPT !.asked = <<>>, !.got = <<>>, !.rp = 0]

ControllerUp ==
    /\ uses.kind = "hda" /\ ~dev.d.crst
    /\ LET up == LeaveReset(W)
       IN  HdaPut(Written([up EXCEPT !.d = [@ EXCEPT !.on = TRUE,
                                       !.corb.run = TRUE, !.rirb.dma = TRUE]]),
                  {})
    /\ UNCHANGED drv

(* The handler looks at INTSTS until nothing is left; each register it     *)
(* clears is a write of its own.                                           *)
Interrupted == dev.d.pin \/ dev.d.message

HdaIsr ==
    /\ uses.kind = "hda" /\ drv.pc = "idle" /\ Interrupted
    /\ dev' = [dev EXCEPT !.d.message = FALSE]
    /\ drv' = [drv EXCEPT !.pc = "look"]
    /\ UNCHANGED <<env, uses>>

HdaLook ==
    /\ uses.kind = "hda" /\ drv.pc = "look"
    /\ drv' = [drv EXCEPT
         !.pc = IF ControllerInterrupt(dev.d) THEN "clear"
                ELSE IF StreamInterrupts(dev.d) # {} THEN "streams" ELSE "idle",
         !.seen = StreamInterrupts(dev.d)]
    /\ UNCHANGED <<dev, env, uses>>

(* RIRBSTS, CORBSTS and STATESTS. *)
HdaClear ==
    /\ uses.kind = "hda" /\ drv.pc = "clear"
    /\ HdaPut(Written([W EXCEPT !.d = [@ EXCEPT !.rirb.fl = FALSE, !.state = FALSE,
                                               !.corb.cmei = FALSE]]), {})
    /\ drv' = [drv EXCEPT !.pc = "responses"]

HdaResponses ==
    /\ uses.kind = "hda" /\ drv.pc = "responses"
    /\ LET n == Unread
       IN  drv' = [drv EXCEPT !.pc = IF drv.seen = {} THEN "look" ELSE "streams",
                     !.rp = dev.d.rirb.wp,
                     !.got = @ \o [k \in 1..n |-> [ring |-> TRUE,
                               a |-> env.rirb[(drv.rp + k) % Entries]]]]
    /\ UNCHANGED <<dev, env, uses>>

HdaStreams ==
    /\ uses.kind = "hda" /\ drv.pc = "streams"
    /\ LET i == CHOOSE j \in drv.seen : \A k \in drv.seen : j <= k
       IN  /\ HdaPut(Written([W EXCEPT !.d.sd[i].sts = {}]), {})
           /\ drv' = [drv EXCEPT !.seen = @ \ {i},
                        !.pc = IF drv.seen = {i} THEN "look" ELSE "streams"]

(* A host stream is due more frames, and its converter is asked. *)
HostTick ==
    \E p \in Ports, n \in uses.steps :
      /\ uses.kind = "hda" /\ dev.port[p].running
      /\ env.host[p].due + n <= uses.due
      /\ HdaPut(HdaTick([W EXCEPT !.host[p].due = @ + n], p), {})
      /\ UNCHANGED drv

(* 50 ms go by without a tick. *)
Late ==
    /\ uses.kind = "hda" /\ \E i \in Sds : dev.d.sd[i].pacer # None /\ ~dev.d.sd[i].late
    /\ dev' = [dev EXCEPT !.d.sd = [i \in Sds |->
                  [dev.d.sd[i] EXCEPT !.late = @ \/ dev.d.sd[i].pacer # None]]]
    /\ UNCHANGED <<drv, env, uses>>

HdaNext ==
    \/ Post \/ CorbControl \/ Immediate \/ RunStream \/ StopStream \/ ResetStream
    \/ Hold \/ ControllerReset \/ ControllerUp
    \/ HdaIsr \/ HdaLook \/ HdaClear \/ HdaResponses \/ HdaStreams
    \/ HostTick \/ Late

HdaInit ==
    /\ dev = [d |-> FreshHda(FALSE), port |-> [p \in Ports |-> NoPort]]
    /\ drv = [pc |-> "idle", seen |-> {}, rp |-> 0, asked |-> <<>>, got |-> <<>>, ops |-> 0]
    /\ env = [host |-> [p \in Ports |-> Silent],
              corb |-> [k \in 0..Entries - 1 |-> Verb(Absent, "getparameter", 0)],
              rirb |-> [k \in 0..Entries - 1 |-> 0], pos |-> [i \in Sds |-> 0]]

-----------------------------------------------------------------------------
(* AC'97: the engines.  A buffer is a length, whether its end is           *)
(* announced, and the number of its first frame.                           *)

Boxes == {"in", "out", "mic"}
Slots == 0..BdCount - 1

NoBox == [civ |-> 0, lvi |-> 0, dch |-> TRUE, celv |-> FALSE, sts |-> {},
          picb |-> 0, run |-> FALSE, fetched |-> FALSE,
          buf |-> [len |-> 0, ioc |-> FALSE, first |-> 0]]

Piv(b) == (b.civ + 1) % BdCount
Moving(b) == b.run /\ ~b.dch

Fetch(b, list) ==
    [b EXCEPT !.buf = list[b.civ], !.picb = list[b.civ].len, !.fetched = TRUE]

(* Complete(): on to the next buffer, or stopped at the last valid one.    *)
Complete(b, list) ==
    LET c == IF b.buf.ioc THEN [b EXCEPT !.sts = @ \cup {"BCIS"}] ELSE b
    IN  IF b.civ = b.lvi
        THEN [c EXCEPT !.sts = @ \cup {"LVBCI"}, !.celv = TRUE, !.dch = TRUE]
        ELSE Fetch([c EXCEPT !.civ = Piv(b)], list)

(* Transfer() *)
RECURSIVE BoxTransfer(_, _, _, _, _)
BoxTransfer(b, list, n, out, empty) ==
    IF n = 0 \/ ~Moving(b) THEN [b |-> b, out |-> out]
    ELSE LET f == IF b.fetched THEN b ELSE Fetch(b, list)
             m == Smaller(f.picb, n)
             at == f.buf.first + f.buf.len - f.picb
             moved == [f EXCEPT !.picb = @ - m]
             frames == out \o [k \in 1..m |-> at + k - 1]
         IN  IF f.picb > 0
             THEN IF moved.picb > 0
                  THEN BoxTransfer(moved, list, n - m, frames, 0)
                  ELSE BoxTransfer(Complete(moved, list), list, n - m, frames, 0)
             ELSE IF empty + 1 > BdCount THEN [b |-> f, out |-> out]
             ELSE BoxTransfer(Complete(f, list), list, n, out, empty + 1)

BoxInterrupt(b) == b.sts # {}
AcUpdateIrq(d) == [d EXCEPT !.line = \E x \in Boxes : BoxInterrupt(d.box[x])]

(* PullOutput(), PushInput() *)
Moves(w, x, n) ==
    LET t == BoxTransfer(w.d.box[x], w.list[x], n, <<>>, 0)
    IN  [w EXCEPT !.d = AcUpdateIrq([w.d EXCEPT !.box[x] = t.b]),
                  !.heard[x] = LastTwo(@ \o t.out)]

-----------------------------------------------------------------------------
(* AC'97: the codec.  c holds its registers and its streams.               *)

LinkRate == 3
NoFollower == [rate |-> 0, moved |-> 0]

DacRate(c) == IF c.vra THEN c.dac ELSE LinkRate
AdcRate(c) == IF c.vra THEN c.adc ELSE LinkRate

(* frames_due() *)
FramesDue(due, moved) == IF due <= moved THEN 0 ELSE Smaller(due - moved, Burst)

(* Mutant: a stream that is let go stays where it was. *)
FollowLags(w, x, rate) ==
    LET f == w.c[x]
        due == (w.c.outMoved * rate) \div w.c.outRate
        from == IF f.rate = rate THEN f.moved ELSE IF f.rate = 0 THEN 0 ELSE due
        n == FramesDue(due, from)
    IN  Moves([w EXCEPT !.c[x] = [rate |-> rate, moved |-> from + n]], x, n)

(* Follow(): an input stream moves as the output does, at its own rate.    *)
Follow(w, x, rate) ==
    LET f == w.c[x]
        due == (w.c.outMoved * rate) \div w.c.outRate
        from == IF f.rate = rate THEN f.moved ELSE IF f.rate = 0 THEN 0 ELSE due
        n == FramesDue(due, from)
    IN  Moves([w EXCEPT !.c[x] = [rate |-> rate,
                                  moved |-> IF due <= from THEN from ELSE due]],
              x, n)

(* AudioTick() *)
OutTick(w) ==
    LET n == FramesDue(w.due.out, w.c.outMoved)
        played == Moves([w EXCEPT !.c.outMoved = w.due.out], "out", n)
        pcm == IF uses.input THEN played ELSE Follow(played, "in", AdcRate(w.c))
    IN  IF ~w.c.outOn \/ n = 0 THEN w ELSE Follow(pcm, "mic", LinkRate)

(* InputTick() *)
InTick(w) ==
    LET n == FramesDue(w.due.in, w.c.inMoved)
    IN  IF ~w.c.inOn \/ n = 0 THEN w
        ELSE Moves([w EXCEPT !.c.inMoved = w.due.in], "in", n)

(* Sync() *)
Sync(w) == InTick(OutTick(w))

(* Mutant: a capture alone has no clock. *)
UpdateStreamsOut(w) ==
    LET out == w.d.up /\ w.d.box.out.run
        rate == DacRate(w.c)
    IN  IF out /\ (~w.c.outOn \/ rate # w.c.outRate)
        THEN [w EXCEPT !.c = [@ EXCEPT !.outRate = rate, !.outMoved = 0,
                    !.in = NoFollower, !.mic = NoFollower, !.outOn = TRUE],
                       !.due.out = 0]
        ELSE IF ~out THEN [w EXCEPT !.c.outOn = FALSE] ELSE w

(* UpdateStreams(): the output runs for every stream it paces. *)
UpdateStreams(w) ==
    LET in == w.d.up /\ w.d.box.in.run
        out == w.d.up /\ (w.d.box.out.run \/ w.d.box.mic.run
                          \/ (in /\ ~uses.input))
        rate == DacRate(w.c)
        o == IF out /\ (~w.c.outOn \/ rate # w.c.outRate)
             THEN [w EXCEPT !.c = [@ EXCEPT !.outRate = rate, !.outMoved = 0,
                         !.in = NoFollower, !.mic = NoFollower, !.outOn = TRUE],
                            !.due.out = 0]
             ELSE IF ~out THEN [w EXCEPT !.c.outOn = FALSE] ELSE w
    IN  IF ~uses.input THEN o
        ELSE IF in /\ (~w.c.inOn \/ AdcRate(w.c) # w.c.inRate)
        THEN [o EXCEPT !.c = [@ EXCEPT !.inRate = AdcRate(w.c), !.inMoved = 0,
                                       !.inOn = TRUE],
                       !.due.in = 0]
        ELSE IF ~in THEN [o EXCEPT !.c.inOn = FALSE] ELSE o

RegisterReset(c) ==
    [c EXCEPT !.vra = FALSE, !.dac = LinkRate, !.adc = LinkRate]

(* lock_rate() *)
LockRate(r) == IF uses.locked = 0 THEN r ELSE uses.locked

(* WriteRegister(): the registers that move streams. *)
WriteRegister(w, reg, val) ==
    CASE reg = "reset" -> UpdateStreams([w EXCEPT !.c = RegisterReset(@)])
      [] reg = "extctrl" /\ val # w.c.vra ->
           UpdateStreams([w EXCEPT !.c = [@ EXCEPT !.vra = val,
                            !.dac = LockRate(LinkRate), !.adc = LinkRate]])
      [] reg = "rate" /\ w.c.vra ->
           UpdateStreams([w EXCEPT !.c.dac = LockRate(val)])
      [] OTHER -> w

-----------------------------------------------------------------------------
(* AC'97: the driver.                                                      *)

A == [d |-> dev.d, c |-> dev.c, due |-> env.due, list |-> env.list,
      heard |-> env.heard]

AcPut(w) ==
    /\ dev' = [d |-> w.d, c |-> w.c]
    /\ env' = [due |-> w.due, list |-> w.list, heard |-> w.heard]
    /\ UNCHANGED uses

Ac97(op) == uses.kind = "ac97" /\ op \in uses.ops /\ drv.ops < uses.max

(* Mutant: the engine goes on with the buffer it ended. *)
BoxGivenSame(b, oldLvi, list) ==
    IF b.lvi # oldLvi /\ b.celv /\ b.lvi # b.civ
    THEN Fetch([b EXCEPT !.celv = FALSE, !.dch = ~b.run], list)
    ELSE b

(* BoxWritten(): a new last valid buffer lets an engine that ran out go    *)
(* on...                                                                   *)
BoxGiven(b, oldLvi, list) ==
    IF b.lvi # oldLvi /\ b.celv /\ b.lvi # b.civ
    THEN Fetch([b EXCEPT !.celv = FALSE, !.civ = Piv(b),
                         !.dch = @ /\ ~b.run], list)
    ELSE b

(* ... and RPBM pauses it, or lets it go on unless it ran out. *)
BoxRuns(b, run, list) ==
    IF ~run THEN [b EXCEPT !.run = FALSE, !.dch = TRUE]
    ELSE IF b.celv THEN [b EXCEPT !.run = TRUE]
    ELSE LET r == [b EXCEPT !.run = TRUE, !.dch = FALSE]
         IN  IF r.fetched THEN r ELSE Fetch(r, list)

(* A buffer is filled in after the last one, and LVI is written. *)
GiveBuffer ==
    \E x \in uses.boxes, len \in uses.lens :
      /\ Ac97("give")
      /\ LET slot == IF drv.given[x] = 0 THEN 0
                     ELSE (dev.d.box[x].lvi + 1) % BdCount
             buf == [len |-> len, ioc |-> uses.ioc, first |-> drv.frames[x] + 1]
             list == [env.list EXCEPT ![x][slot] = buf]
             old == dev.d.box[x]
             new == BoxGiven([old EXCEPT !.lvi = slot], old.lvi, list[x])
         IN  /\ drv.given[x] # 0 => slot # drv.civ[x]
             /\ AcPut([A EXCEPT !.list = list,
                          !.d = AcUpdateIrq([dev.d EXCEPT !.box[x] = new])])
             /\ drv' = [drv EXCEPT !.ops = @ + 1, !.given[x] = 1,
                                   !.frames[x] = @ + len,
                                   !.ran = IF new.celv THEN @ ELSE @ \ {x}]

Rpbm ==
    \E x \in uses.boxes :
      /\ Ac97("run") /\ drv.given[x] # 0
      /\ LET b == BoxRuns(dev.d.box[x], ~dev.d.box[x].run, env.list[x])
         IN  AcPut(UpdateStreams([A EXCEPT
                     !.d = AcUpdateIrq([dev.d EXCEPT !.box[x] = b])]))
      /\ drv' = Counted

(* BoxReset() *)
Rr ==
    \E x \in uses.boxes :
      /\ Ac97("reset") /\ drv.given[x] # 0
      /\ LET w == [A EXCEPT !.d = AcUpdateIrq([dev.d EXCEPT !.box[x] = NoBox]),
                            !.heard[x] = <<>>]
         IN  AcPut(IF dev.d.box[x].run THEN UpdateStreams(w) ELSE w)
      /\ drv' = [Counted EXCEPT !.given[x] = 0, !.civ[x] = 0, !.ran = @ \ {x}]

(* GlobCntWritten() *)
Cold ==
    /\ Ac97("cold")
    /\ AcPut(UpdateStreams([A EXCEPT !.d.up = ~@,
                 !.c = IF dev.d.up THEN @ ELSE RegisterReset(@)]))
    /\ drv' = Counted

Register ==
    \E r \in uses.registers :
      /\ Ac97("codec") /\ dev.d.up
      /\ AcPut(WriteRegister(A, r[1], r[2]))
      /\ drv' = Counted

(* The position is read: the streams first move up to now. *)
ReadPosition ==
    \E x \in uses.boxes :
      /\ Ac97("read") /\ drv.given[x] # 0
      /\ LET w == Sync(A)
         IN  AcPut(w) /\ drv' = [Counted EXCEPT !.civ[x] = w.d.box[x].civ]

(* The handler reads the status of a box, and clears what it read. *)
AcStatus ==
    \E x \in Boxes :
      /\ uses.kind = "ac97" /\ drv.pc = "idle" /\ dev.d.line
      /\ BoxInterrupt(dev.d.box[x])
      /\ LET w == Sync(A)
         IN  /\ AcPut(w)
             /\ drv' = [drv EXCEPT !.pc = x, !.seen = w.d.box[x].sts,
                          !.civ[x] = w.d.box[x].civ]

AcClear ==
    /\ uses.kind = "ac97" /\ drv.pc \in Boxes
    /\ AcPut([A EXCEPT !.d = AcUpdateIrq([dev.d EXCEPT
                                  !.box[drv.pc].sts = @ \ drv.seen])])
    /\ drv' = [drv EXCEPT !.pc = "idle", !.seen = {},
                 !.ran = IF "LVBCI" \in drv.seen THEN @ \cup {drv.pc} ELSE @]

(* A host stream is due more frames, and its codec is asked or the guest   *)
(* gets there first.                                                       *)
Clock ==
    \E h \in {"out", "in"}, n \in uses.steps :
      /\ uses.kind = "ac97" /\ env.due[h] + n <= uses.due
      /\ IF h = "out" THEN dev.c.outOn ELSE dev.c.inOn
      /\ AcPut([A EXCEPT !.due[h] = @ + n])
      /\ UNCHANGED drv

Tick ==
    \E h \in {"out", "in"} :
      /\ uses.kind = "ac97"
      /\ LET w == IF h = "out" THEN OutTick(A) ELSE InTick(A)
         IN  w # A /\ AcPut(w)
      /\ UNCHANGED drv

Ac97Next == \/ GiveBuffer \/ Rpbm \/ Rr \/ Cold \/ Register \/ ReadPosition
            \/ AcStatus \/ AcClear \/ Clock \/ Tick

Ac97Init ==
    /\ dev = [d |-> [up |-> FALSE, line |-> FALSE,
                     box |-> [x \in Boxes |-> NoBox]],
              c |-> [vra |-> FALSE, dac |-> LinkRate, adc |-> LinkRate,
                     outOn |-> FALSE, outRate |-> 0, outMoved |-> 0,
                     inOn |-> FALSE, inRate |-> 0, inMoved |-> 0,
                     in |-> NoFollower, mic |-> NoFollower]]
    /\ drv = [pc |-> "idle", seen |-> {}, given |-> [x \in Boxes |-> 0],
              frames |-> [x \in Boxes |-> 0], civ |-> [x \in Boxes |-> 0],
              ran |-> {}, ops |-> 0]
    /\ env = [due |-> [out |-> 0, in |-> 0],
              list |-> [x \in Boxes |-> [k \in Slots |-> NoBox.buf]],
              heard |-> [x \in Boxes |-> <<>>]]

-----------------------------------------------------------------------------

IsHda == uses.kind = "hda"

Init == uses \in Uses /\ IF IsHda THEN HdaInit ELSE Ac97Init

(* The guest and the host's clocks have come to an end. *)
Rest == drv.ops = uses.max /\ UNCHANGED vars

Next == \/ IsHda /\ HdaNext
        \/ ~IsHda /\ Ac97Next
        \/ Rest

Spec == Init /\ [][Next]_vars

-----------------------------------------------------------------------------

TypeOK ==
    IF IsHda
    THEN /\ dev.d.corb.wp \in 0..Entries - 1 /\ dev.d.corb.rp \in 0..Entries - 1
         /\ dev.d.rirb.wp \in 0..Entries - 1
         /\ {dev.d.crst, dev.d.pin, dev.d.message} \subseteq BOOLEAN
         /\ \A i \in Sds : /\ dev.d.sd[i].sts \subseteq {"BCIS", "DESE"}
                           /\ dev.d.sd[i].pacer \in Ports \cup {None}
         /\ \A p \in Ports : dev.port[p].moved \in 0..uses.due * 2
    ELSE /\ \A x \in Boxes : /\ dev.d.box[x].civ \in Slots
                             /\ dev.d.box[x].lvi \in Slots
                             /\ dev.d.box[x].sts \subseteq {"BCIS", "LVBCI"}
         /\ {dev.d.up, dev.d.line, dev.c.outOn, dev.c.inOn} \subseteq BOOLEAN
         /\ dev.c.outMoved \in 0..uses.due /\ dev.c.inMoved \in 0..uses.due

(* What a codec set by the first k of the verbs asked would answer: the    *)
(* last value set since the last reset of its function group.              *)
Sets(v, p, id) == v = Verb(Group, "reset", 0) \/ (v.node = p /\ v.id = id)
SetTo(k, p, id, initially) ==
    LET js == {j \in 1..k : Sets(drv.asked[j].v, p, id)}
        j == CHOOSE x \in js : \A y \in js : y <= x
    IN  IF js = {} THEN initially
        ELSE IF drv.asked[j].v.node = Group THEN initially
        ELSE drv.asked[j].v.data
Expected(k) ==
    LET v == drv.asked[k].v
    IN  CASE v.id = "getstream" -> SetTo(k - 1, v.node, "setstream", 0)
          [] v.id = "getformat" -> SetTo(k - 1, v.node, "setformat", 1)
          [] v.id = "getparameter" -> 100 + v.node
          [] OTHER -> 0

(* Every verb of the ring, and every immediate one, is answered once, in   *)
(* the order they were asked, by what the codec was set to just then, and  *)
(* a verb for a codec that is not there not at all (ProcessCorb(),         *)
(* PutResponse(), RunImmediate()).                                         *)
AnsweredInOrder ==
    IsHda /\ uses.unmapped = {} =>
      LET left == (dev.d.corb.wp + Entries - dev.d.corb.rp) % Entries
          done == {k \in 1..Len(drv.asked) - left :
                     drv.asked[k].v.node # Absent}
          nth(n) == CHOOSE k \in done : Cardinality({j \in done : j <= k}) = n
          unread == [k \in 1..Unread |->
                       [ring |-> TRUE, a |-> env.rirb[(drv.rp + k) % Entries]]]
      IN  uses.posts = {} \/ uses.immediates = {} =>
            drv.got \o unread =
              [n \in 1..Cardinality(done) |->
                 [ring |-> drv.asked[nth(n)].ring, a |-> Expected(nth(n))]]

(* A converter hears every frame of its stream, in the order of the        *)
(* guest's buffers, each once, whichever converter's clock moves the       *)
(* stream; and the position the guest reads, in the register and in        *)
(* memory, is where the engine is (Transfer(), TakePace(),                 *)
(* StreamOutput(), UpdatePosition()).                                      *)
HdaInOrder ==
    IsHda =>
      /\ \A p \in Ports : LET h == env.host[p].heard IN
           Len(h) = 2 /\ h[1].of = h[2].of =>
             h[2].frame = (h[1].frame % Whole(uses.list[h[1].of])) + 1
      /\ \A i \in Sds : LET s == dev.d.sd[i] IN
           /\ s.cbl # 0 =>
                s.lpib = (Before(uses.list[i], s.index) + s.offset) % s.cbl
           /\ uses.dp /\ s.pacer # None => env.pos[i] = s.lpib

(* AC'97: the frames played, and the places recorded into, are those of    *)
(* the buffers the driver gave, in order, each once, across pauses, new    *)
(* buffers and engines that ran out; and what follows the output's clock   *)
(* is in step with it (Transfer(), Complete(), BoxWritten(), Follow()).    *)
Ac97InOrder ==
    ~IsHda =>
      /\ \A x \in Boxes : LET h == env.heard[x] IN Len(h) = 2 => h[2] = h[1] + 1
      /\ \A x \in {"in", "mic"} : LET f == dev.c[x] IN
           f.rate # 0 => f.moved = (dev.c.outMoved * f.rate) \div dev.c.outRate

(* Whoever has something to tell the driver has interrupted it: responses  *)
(* to take, a buffer that ended, a list that failed, an engine that ran    *)
(* out (PutResponse(), ProcessCorb(), Complete(), UpdateIrq()).            *)
Told ==
    IF IsHda
    THEN dev.d.on /\ drv.pc = "idle" /\ ~Interrupted =>
           /\ Unread = 0
           /\ StreamInterrupts(dev.d) = {} /\ ~dev.d.corb.cmei /\ ~dev.d.state
    ELSE /\ dev.d.line = (\E x \in Boxes : dev.d.box[x].sts # {})
         /\ \A x \in Boxes : dev.d.box[x].celv =>
              "LVBCI" \in dev.d.box[x].sts \cup (IF drv.pc = x THEN drv.seen ELSE {})
              \/ x \in drv.ran

(* Nothing waits for what does not come.  HD Audio: the verbs of a ring    *)
(* that runs have been read, a converter's host stream runs exactly while  *)
(* it is set to a stream and a format.  AC'97: an engine that is set       *)
(* running and stands has no buffer left, and a host stream whose clock    *)
(* moves it runs, at the codec's rate (ProcessCorb(), WidgetChanged(),     *)
(* BoxWritten(), UpdateStreams()).                                         *)
NoneStuck ==
    IF IsHda
    THEN /\ dev.d.corb.run /\ uses.unmapped = {} => dev.d.corb.rp = dev.d.corb.wp
         /\ \A p \in Ports : LET c == dev.port[p] IN
              /\ c.running = (c.tag # 0 /\ Decodes(c.fmt) /\ p \in uses.opens)
              /\ c.running => c.at = c.fmt
    ELSE /\ \A x \in Boxes : LET b == dev.d.box[x] IN
              b.run /\ b.dch => b.celv /\ b.civ = b.lvi
         /\ dev.d.up /\ dev.d.box.mic.run => dev.c.outOn
         /\ dev.d.up /\ dev.d.box.out.run => dev.c.outOn
         /\ dev.d.up /\ dev.d.box.in.run => dev.c.inOn \/ (dev.c.outOn /\ ~uses.input)
         /\ ~dev.d.up => ~dev.c.outOn /\ ~dev.c.inOn
         /\ dev.c.outOn => dev.c.outRate = DacRate(dev.c)
         /\ dev.c.inOn => dev.c.inRate = AdcRate(dev.c)
=============================================================================
