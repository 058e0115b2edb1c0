--------------------------------- MODULE Ps2 ----------------------------------
(***************************************************************************)
(* A PC's keyboard controller (bus/ps2/host/i8042.cpp) with a keyboard and *)
(* a mouse (bus/ps2/ps2.cpp, device/input/ps2_keyboard.cpp,                *)
(* ps2_mouse.cpp).  The window's events and the guest's accesses come in   *)
(* any order, each with the device lock held.                              *)
(*                                                                         *)
(* A byte is a pair: what it is, and what of: <<"set2", k>>, the code of   *)
(* key k, or <<"packet", i>>, the ith byte of a mouse packet.  A keyboard  *)
(* with set 1 selected, and set 3, which is refused, are the same but for  *)
(* the codes.                                                              *)
(***************************************************************************)
EXTENDS Integers, Sequences, FiniteSets, SequencesExt

CONSTANTS
    Keys, Extended, \* keys, and those with the extend prefix
    QueueSize,      \* PS2_QUEUE_SIZE
    PacketRoom,     \* the room MouseEvent() asks for: a packet's, at least
    MaxMoved,       \* bound on the movement not yet sent, in packets
    MaxTyped,       \* bound on the keys pressed and not read
    Uses            \* scenarios

VARIABLES
    dev,            \* the controller and the two devices
    drv,            \* the keys pressed and not yet read
    uses

vars == <<dev, drv, uses>>

Ports == {"kbd", "aux"}
Event == [key : Keys, down : BOOLEAN]
Code == {"set2", "make", "break"} \X Keys
Reply == {"ack", "resend", "por", "id", "byte"} \X {0}
Byte == Code \cup Reply \cup ({"extend", "release"} \X {0})
        \cup ({"packet"} \X (1..4))

TypeOK ==
    /\ \A p \in Ports : dev.queue[p] \in Seq(Byte) /\ Len(dev.queue[p]) <= QueueSize
    /\ dev.fPending \subseteq Ports
    /\ dev.fReply \in [full : BOOLEAN, aux : BOOLEAN]
    /\ dev.fMode \subseteq {"KBD_INT", "MOUSE_INT", "DISABLE_KBD", "KCC"}
    /\ dev.fWriteCmd \in {"none", "mode", "obuf", "aux_obuf", "mouse"}
    /\ dev.fXlateBreak \in BOOLEAN
    /\ dev.line \in [Ports -> BOOLEAN] /\ dev.edge \in [Ports -> BOOLEAN]
    /\ dev.kbd \in [scan : BOOLEAN, arg : BOOLEAN]
    /\ dev.mouse \in [enabled : BOOLEAN, remote : BOOLEAN, wrap : BOOLEAN,
                      size : {3, 4}, arg : BOOLEAN, detect : 0..3,
                      moved : 0..MaxMoved]
    /\ dev.overrun \subseteq {byte[1] : byte \in Byte} /\ dev.tight \in BOOLEAN
    /\ drv.typed \in Seq(Event)

Init ==
    /\ uses \in Uses
    /\ dev = [queue |-> [p \in Ports |-> <<>>], fPending |-> {},
              fReply |-> [full |-> FALSE, aux |-> FALSE],
              fMode |-> {"KBD_INT", "MOUSE_INT", "KCC"},
              fWriteCmd |-> "none", fXlateBreak |-> FALSE,
              line |-> [p \in Ports |-> FALSE], edge |-> [p \in Ports |-> FALSE],
              kbd |-> [scan |-> TRUE, arg |-> FALSE],
              mouse |-> [enabled |-> FALSE, remote |-> FALSE, wrap |-> FALSE,
                         size |-> 3, arg |-> FALSE, detect |-> 0, moved |-> 0],
              overrun |-> {}, tight |-> FALSE]
    /\ drv = [typed |-> <<>>, ext |-> FALSE, rel |-> FALSE,
              misread |-> FALSE]

-----------------------------------------------------------------------------
(* The controller.  dev.edge is history: a line has risen since the guest  *)
(* last read a byte.                                                       *)

UpdateIRQ(d) ==
    LET some == d.fReply.full \/ d.fPending # {}
        aux == IF d.fReply.full THEN d.fReply.aux ELSE d.fPending = {"aux"}
        line == [kbd |-> some /\ ~aux /\ "KBD_INT" \in d.fMode
                         /\ "DISABLE_KBD" \notin d.fMode,
                 aux |-> some /\ aux /\ "MOUSE_INT" \in d.fMode]
    IN  [d EXCEPT !.line = line,
                  !.edge = [p \in Ports |-> @[p] \/ (line[p] /\ ~d.line[p])]]

(* Mutant: the line stays up for the next byte. *)
PulseIRQNot(d) == UpdateIRQ(d)

(* The line falls for the byte read and rises for the next. *)
PulseIRQ(d) ==
    LET low == UpdateIRQ([d EXCEPT !.fPending = {}, !.fReply.full = FALSE])
    IN  UpdateIRQ([low EXCEPT !.fPending = d.fPending,
                              !.fReply.full = d.fReply.full])

(* The controller's own byte; a second replaces the first. *)
ControllerReply(d, aux) ==
    UpdateIRQ([d EXCEPT !.fReply = [full |-> TRUE, aux |-> aux]])

(* PS2Device::Queue().  A byte there is no room for is dropped, which      *)
(* dev.overrun remembers.                                                  *)
Queue(d, p, byte) ==
    IF Len(d.queue[p]) >= QueueSize
    THEN [d EXCEPT !.overrun = @ \cup {byte[1]}]
    ELSE UpdateIRQ([d EXCEPT !.queue[p] = Append(@, byte),
                             !.fPending = @ \cup {p}])

QueueAll(d, p, bytes) == FoldLeft(LAMBDA e, byte : Queue(e, p, byte), d, bytes)

ClearQueue(d, p) ==
    UpdateIRQ([d EXCEPT !.queue[p] = <<>>, !.fPending = @ \ {p}])

Scancode(byte) == byte[1] \in {"set2", "extend", "release"}

(* Taking a byte, without a change of the line.  A torn packet is gone     *)
(* with the last byte the mouse has waiting.                               *)
Take(d, p) ==
    LET last == Len(d.queue[p]) = 1
    IN  [d EXCEPT !.queue[p] = Tail(@),
                  !.fPending = IF last THEN @ \ {p} ELSE @,
                  !.overrun = IF last /\ p = "aux" THEN @ \ {"packet"} ELSE @,
                  !.tight = @ /\ ~(last /\ p = "aux")]

(* Mutant: the extend prefix ends a release. *)
RECURSIVE ReadFromPortForgets(_, _)
ReadFromPortForgets(d, p) ==
    LET raw == Head(d.queue[p])
        e == Take(d, p)
    IN  CASE ~Scancode(raw) \/ "KCC" \notin d.fMode -> <<e, raw>>
          [] Scancode(raw) /\ "KCC" \in d.fMode /\ raw[1] = "extend" -> <<e, raw>>
          [] Scancode(raw) /\ "KCC" \in d.fMode /\ raw[1] = "set2" ->
                <<e, <<IF d.fXlateBreak THEN "break" ELSE "make", raw[2]>> >>
          [] OTHER ->
                IF e.queue[p] = <<>>
                THEN <<[e EXCEPT !.fXlateBreak = FALSE], raw>>
                ELSE ReadFromPortForgets([e EXCEPT !.fXlateBreak = TRUE], p)

(* ReadFromPort() and Translate(): the controller, and the byte it gives.  *)
(* A release prefix is swallowed, and turns the code behind it.            *)
RECURSIVE ReadFromPort(_, _)
ReadFromPort(d, p) ==
    LET raw == Head(d.queue[p])
        e == Take(d, p)
    IN  CASE ~Scancode(raw) \/ "KCC" \notin d.fMode -> <<e, raw>>
          [] Scancode(raw) /\ "KCC" \in d.fMode /\ raw[1] = "extend" -> <<e, raw>>
          [] Scancode(raw) /\ "KCC" \in d.fMode /\ raw[1] = "set2" ->
                <<[e EXCEPT !.fXlateBreak = FALSE],
                  <<IF d.fXlateBreak THEN "break" ELSE "make", raw[2]>> >>
          [] OTHER ->
                IF e.queue[p] = <<>>
                THEN <<[e EXCEPT !.fXlateBreak = FALSE], raw>>
                ELSE ReadFromPort([e EXCEPT !.fXlateBreak = TRUE], p)

-----------------------------------------------------------------------------
(* The window: SendKeyEvent(), SendMouseEvent(). *)

(* QueueScancode(). *)
KeyBytes(k, down) ==
    (IF k \in Extended THEN << <<"extend", 0>> >> ELSE <<>>)
    \o (IF down THEN <<>> ELSE << <<"release", 0>> >>)
    \o << <<"set2", k>> >>

PutKeycode(k, down) ==
    /\ "keys" \in uses /\ dev.kbd.scan /\ Len(drv.typed) < MaxTyped
    /\ dev' = QueueAll(dev, "kbd", KeyBytes(k, down))
    /\ drv' = [drv EXCEPT !.typed = Append(@, [key |-> k, down |-> down])]
    /\ UNCHANGED uses

(* SendPacket(): up to 127 steps of a direction, or a button alone.        *)
(* dev.tight is history: packets were sent that the room asked for does    *)
(* not hold.                                                               *)
Packet(n) == [i \in 1..n |-> <<"packet", i>>]

Less(moved) == IF moved > 0 THEN moved - 1 ELSE 0

RECURSIVE SendPackets(_)
SendPackets(d) ==
    LET e == [QueueAll(d, "aux", Packet(d.mouse.size))
                EXCEPT !.mouse.moved = Less(@)]
    IN  IF e.mouse.moved = 0 THEN e ELSE SendPackets(e)

Tight(d) == [d EXCEPT !.tight = @ \/ d.mouse.moved * d.mouse.size > PacketRoom]

(* Mutant: the room is not asked for. *)
MouseEventAnyway(more, click) ==
    /\ "moves" \in uses /\ dev.mouse.enabled
    /\ dev.mouse.moved + more <= MaxMoved
    /\ dev.mouse.moved + more > 0 \/ click
    /\ LET d == [dev EXCEPT !.mouse.moved = @ + more]
       IN  dev' = IF ~d.mouse.remote THEN SendPackets(Tight(d)) ELSE d
    /\ UNCHANGED <<drv, uses>>

(* Movement that is not sent is kept for the next event.  The room is      *)
(* asked for once, whatever the number of packets.                         *)
MouseEvent(more, click) ==
    /\ "moves" \in uses /\ dev.mouse.enabled
    /\ dev.mouse.moved + more <= MaxMoved
    /\ dev.mouse.moved + more > 0 \/ click
    /\ LET d == [dev EXCEPT !.mouse.moved = @ + more]
       IN  dev' = IF ~d.mouse.remote /\ QueueSize - Len(d.queue["aux"]) >= PacketRoom
                  THEN SendPackets(Tight(d)) ELSE d
    /\ UNCHANGED <<drv, uses>>

-----------------------------------------------------------------------------
(* The guest.  drv.misread: it read another key than the next one pressed. *)

Decoded(byte) ==
    CASE byte[1] = "extend" -> [drv EXCEPT !.ext = TRUE]
      [] byte[1] = "release" -> [drv EXCEPT !.rel = TRUE]
      [] byte[1] \in {"make", "break", "set2"} /\ drv.typed # <<>> ->
            [typed |-> Tail(drv.typed), ext |-> FALSE, rel |-> FALSE,
             misread |-> drv.misread \/
                <<byte[2], byte[1] # "break" /\ ~drv.rel, drv.ext>> #
                <<Head(drv.typed).key, Head(drv.typed).down,
                  Head(drv.typed).key \in Extended>>]
      [] OTHER -> drv

NoEdges(d) == [d EXCEPT !.edge = [p \in Ports |-> FALSE]]

DataRead ==
    /\ IF dev.fReply.full
       THEN /\ dev' = PulseIRQ(NoEdges([dev EXCEPT !.fReply.full = FALSE]))
            /\ drv' = drv
       ELSE /\ dev.fPending # {}
            /\ LET p == IF dev.fPending = {"aux"} THEN "aux" ELSE "kbd"
                   r == ReadFromPort(dev, p)
               IN  /\ dev' = PulseIRQ(NoEdges(r[1]))
                   /\ drv' = IF p = "kbd" THEN Decoded(r[2]) ELSE drv
    /\ UNCHANGED uses

(* PS2KeyboardDevice::Write().  A reset empties the queue. *)
KeyboardWrite(d, cmd) ==
    CASE d.kbd.arg -> Queue([d EXCEPT !.kbd.arg = FALSE], "kbd", <<"ack", 0>>)
      [] ~d.kbd.arg /\ cmd = "set_leds" ->
            Queue([d EXCEPT !.kbd.arg = TRUE], "kbd", <<"ack", 0>>)
      [] ~d.kbd.arg /\ cmd = "get_id" ->
            QueueAll(d, "kbd", << <<"ack", 0>>, <<"id", 0>>, <<"id", 0>> >>)
      [] ~d.kbd.arg /\ cmd = "scan_off" ->
            Queue(ClearQueue([d EXCEPT !.kbd = [scan |-> FALSE, arg |-> FALSE]],
                             "kbd"), "kbd", <<"ack", 0>>)
      [] ~d.kbd.arg /\ cmd = "scan_on" ->
            Queue([d EXCEPT !.kbd.scan = TRUE], "kbd", <<"ack", 0>>)
      [] ~d.kbd.arg /\ cmd = "kbd_reset" ->
            QueueAll(ClearQueue([d EXCEPT !.kbd = [scan |-> TRUE, arg |-> FALSE]],
                                "kbd"), "kbd", << <<"ack", 0>>, <<"por", 0>> >>)

(* PS2MouseDevice::Write(): the answer, and the mouse.  A sample rate is   *)
(* part of the knock 200, 100, 80 (or 200, 200, 80) for a wheel.           *)
Detect(m, rate) ==
    CASE m.detect = 0 /\ rate = 200 -> [m EXCEPT !.detect = 1]
      [] m.detect = 1 /\ rate # 80 ->
            [m EXCEPT !.detect = IF rate = 100 THEN 2 ELSE 3]
      [] m.detect \in {2, 3} /\ rate = 80 -> [m EXCEPT !.size = 4, !.detect = 0]
      [] OTHER -> [m EXCEPT !.detect = 0]

Ack == << <<"ack", 0>> >>

MouseWrite(d, cmd, rate) ==
    LET m == d.mouse
        Answer(n, bytes) == QueueAll([d EXCEPT !.mouse = n], "aux", bytes)
    IN  CASE m.arg -> Answer([Detect(m, rate) EXCEPT !.arg = FALSE], Ack)
          [] ~m.arg /\ m.wrap /\ cmd = "unwrap" ->
                Answer([m EXCEPT !.wrap = FALSE], Ack)
          [] ~m.arg /\ m.wrap /\ cmd \notin {"unwrap", "reset"} ->
                Answer(m, << <<"byte", 0>> >>)
          [] ~m.arg /\ ~m.wrap /\ cmd = "unwrap" ->
                Answer(m, << <<"resend", 0>> >>)
          [] ~m.arg /\ ~m.wrap /\ cmd = "rate" ->
                Answer([m EXCEPT !.arg = TRUE], Ack)
          [] ~m.arg /\ ~m.wrap /\ cmd = "enable" ->
                Answer([m EXCEPT !.enabled = TRUE], Ack)
          [] ~m.arg /\ ~m.wrap /\ cmd = "disable" ->
                Answer([m EXCEPT !.enabled = FALSE], Ack)
          [] ~m.arg /\ ~m.wrap /\ cmd = "remote" ->
                Answer([m EXCEPT !.remote = ~@], Ack)
          [] ~m.arg /\ ~m.wrap /\ cmd = "wrap" ->
                Answer([m EXCEPT !.wrap = TRUE], Ack)
          [] ~m.arg /\ ~m.wrap /\ cmd = "poll" ->
                [Answer([m EXCEPT !.moved = Less(@)], Ack \o Packet(m.size))
                    EXCEPT !.tight = @ \/ QueueSize - Len(d.queue["aux"]) <= m.size]
          [] OTHER ->
                Answer([m EXCEPT !.enabled = FALSE, !.remote = FALSE, !.size = 3],
                       << <<"ack", 0>>, <<"por", 0>>, <<"byte", 0>> >>)

KbdCommands == {"set_leds", "get_id", "scan_off", "scan_on", "kbd_reset"}
MouseCommands == {"rate", "enable", "disable", "remote", "wrap", "unwrap",
                  "poll", "reset"}

(* DataWrite(): the byte goes where the last command said. *)
DataWrite(kbdCmd, mouseCmd, rate, mode) ==
    LET d == [dev EXCEPT !.fWriteCmd = "none"]
    IN  /\ dev' =
             CASE dev.fWriteCmd = "none" -> KeyboardWrite(d, kbdCmd)
               [] dev.fWriteCmd = "mode" ->
                    UpdateIRQ([d EXCEPT !.fMode = mode, !.fXlateBreak = FALSE])
               [] dev.fWriteCmd = "obuf" -> ControllerReply(d, FALSE)
               [] dev.fWriteCmd = "aux_obuf" -> ControllerReply(d, TRUE)
               [] dev.fWriteCmd = "mouse" -> MouseWrite(d, mouseCmd, rate)
        /\ drv' = IF /\ dev.fWriteCmd = "none" /\ ~dev.kbd.arg
                     /\ kbdCmd \in {"scan_off", "kbd_reset"}
                  THEN [drv EXCEPT !.typed = <<>>, !.ext = FALSE, !.rel = FALSE]
                  ELSE drv
        /\ UNCHANGED uses

(* What DataWrite() is given, where it is looked at. *)
WriteSome ==
    \/ /\ dev.fWriteCmd = "none"
       /\ \E c \in KbdCommands \cap uses : DataWrite(c, "rate", 200, dev.fMode)
    \/ /\ dev.fWriteCmd = "mode"
       /\ \E mode \in SUBSET {"KBD_INT", "MOUSE_INT", "KCC"} :
            /\ drv.typed # <<>> => ("KCC" \in mode <=> "KCC" \in dev.fMode)
            /\ DataWrite("get_id", "rate", 200, mode)
    \/ /\ dev.fWriteCmd \in {"obuf", "aux_obuf"}
       /\ DataWrite("get_id", "rate", 200, dev.fMode)
    \/ /\ dev.fWriteCmd = "mouse" /\ ~dev.mouse.arg
       /\ \E c \in MouseCommands \cap uses : DataWrite("get_id", c, 200, dev.fMode)
    \/ /\ dev.fWriteCmd = "mouse" /\ dev.mouse.arg
       /\ \E rate \in {200, 100, 80} : DataWrite("get_id", "rate", rate, dev.fMode)

(* CommandWrite(): commands answered at once are one. *)
CommandWrite(cmd) ==
    /\ dev' = CASE cmd \in {"mode", "obuf", "aux_obuf", "mouse"} ->
                    [dev EXCEPT !.fWriteCmd = cmd]
                [] cmd = "test" -> ControllerReply(dev, FALSE)
                [] cmd = "kbd_disable" ->
                    UpdateIRQ([dev EXCEPT !.fMode = @ \cup {"DISABLE_KBD"}])
                [] cmd = "kbd_enable" ->
                    UpdateIRQ([dev EXCEPT !.fMode = @ \ {"DISABLE_KBD"}])
    /\ UNCHANGED <<drv, uses>>

Next ==
    \/ \E k \in Keys, down \in BOOLEAN : PutKeycode(k, down)
    \/ \E more \in 0..2, click \in BOOLEAN : MouseEvent(more, click)
    \/ DataRead
    \/ WriteSome
    \/ \E cmd \in uses \cap {"mode", "obuf", "aux_obuf", "mouse", "test",
                             "kbd_disable", "kbd_enable"} : CommandWrite(cmd)

Spec == Init /\ [][Next]_vars

-----------------------------------------------------------------------------
(* A line that is up has risen since the last byte was read, for a         *)
(* controller that looks for edges: there is one for each byte, whoever's  *)
(* it is (PulseIRQ()).                                                     *)
EdgePerByte == \A p \in Ports : dev.line[p] => dev.edge[p]

(* The guest reads the keys as they were pressed and released, in order,   *)
(* from a controller that translates and from one that does not, with its  *)
(* commands' answers in between (QueueScancode(), Translate()).            *)
KeysAsPressed == dev.overrun = {} => ~drv.misread

(* Packets of the mouse are whole, but for one polled with the queue full, *)
(* and for the last of more than the room asked for holds, until the bytes *)
(* that wait are read (SendPacket(), MouseEvent(), PS2Device::Queue()).    *)
PacketsWhole ==
    /\ "packet" \in dev.overrun => dev.tight
    /\ "packet" \notin dev.overrun =>
       LET q == SelectSeq(dev.queue["aux"], LAMBDA byte : byte[1] = "packet")
       IN  \A i \in 2..Len(q) : q[i][2] \in {1, q[i - 1][2] + 1}
=============================================================================
