-------------------------------- MODULE I8254 ---------------------------------
(***************************************************************************)
(* The PC's interval timer (device/timer/i8254.cpp) and the part of the    *)
(* machine that sleeps until its next interrupt.  Channel 0 interrupts;    *)
(* its gate is tied high.  Channel 2's gate is a bit of port B.            *)
(*                                                                         *)
(* The clock counts microseconds and the counters clocks of their own      *)
(* (PitTime).  A count is two bytes of base Byte.  Counting in BCD, which  *)
(* only changes the base, and the values that reads return are left out.   *)
(***************************************************************************)
EXTENDS Integers

CONSTANTS
    MaxNow,         \* bound: the host's clock
    PitNum, PitDen, \* PIT_FREQ: PitNum clocks in PitDen microseconds
    Byte,           \* 256 on the part
    PitUses         \* the commands a guest uses: see TypeOK

VARIABLES
    now,            \* host_monotonic_us()
    wakeAt,         \* when the machine thread runs the timers next
    channel, uses

vars == <<now, wakeAt, channel, uses>>

Never == MaxNow + 1000
Channels == {0, 2}
Wrap == Byte * Byte
PitTime(us) == (us * PitNum) \div PitDen

TypeOK ==
    /\ now \in 0..MaxNow
    /\ wakeAt \in 0..Never
    /\ uses \in PitUses
    /\ uses.modes \subseteq 0..5 /\ uses.access \subseteq {"lsb", "msb", "word"}
    /\ uses.channels \subseteq Channels /\ uses.bytes \subseteq 0..(Byte - 1)
    /\ uses.ops \subseteq {"latch", "gate"}
    /\ \A c \in Channels :
        /\ channel[c].count \in 1..Wrap
        /\ channel[c].mode \in 0..5
        /\ channel[c].access \in {"lsb", "msb", "word"}
        /\ channel[c].gate \in BOOLEAN /\ channel[c].loaded \in BOOLEAN
        /\ channel[c].running \in BOOLEAN /\ channel[c].triggered \in BOOLEAN
        /\ channel[c].load_time \in (-PitTime(MaxNow))..PitTime(MaxNow)
        /\ channel[c].held \in 0..PitTime(MaxNow)
        /\ channel[c].last_irq \in 0..PitTime(MaxNow)

(* pit_load_count(): 0 is the largest count; modes 1 and 5 wait for the    *)
(* gate to rise.                                                           *)
LoadCount(ch, val) ==
    [ch EXCEPT !.count = IF val = 0 THEN Wrap ELSE val,
               !.loaded = TRUE, !.null_count = FALSE, !.triggered = FALSE,
               !.load_time = PitTime(now), !.held = 0, !.last_irq = 0,
               !.running = ch.mode \notin {1, 5} /\ ch.gate]

(* Square waves from reset. *)
Init ==
    /\ now = 0 /\ uses \in PitUses
    /\ wakeAt = 0
    /\ channel = [c \in Channels |-> LoadCount(
            [mode |-> 3, access |-> "word", gate |-> c = 0, count |-> 1,
             loaded |-> FALSE, running |-> FALSE, triggered |-> FALSE,
             null_count |-> FALSE, write_msb |-> FALSE, read_msb |-> FALSE,
             write_lsb |-> 0, count_latched |-> FALSE, latch_msb |-> FALSE,
             status_latched |-> FALSE, load_time |-> 0, held |-> 0,
             last_irq |-> 0], 0)]

(* Whether an interrupt of channel 0 is due at this time.  The periodic    *)
(* modes count from the last one, the others interrupt once.               *)
Due(ch, us) ==
    /\ ch.running
    /\ LET d == PitTime(us) - ch.load_time
       IN  IF ch.mode \in {2, 3} THEN ch.last_irq + ch.count <= d
           ELSE ch.last_irq = 0 /\ ch.count <= d

(* pit_next_ticks() and pit_delay_us(): -1 for none, rounded up. *)
DelayUs(ch) ==
    LET d == PitTime(now) - ch.load_time
        ticks == IF ch.mode \in {2, 3} THEN ch.last_irq + ch.count - d
                 ELSE ch.count - d
    IN  CASE ~ch.running -> -1
          [] ch.running /\ ch.mode \notin {2, 3} /\ ch.last_irq # 0 -> -1
          [] OTHER -> IF ticks <= 0 THEN 0
                      ELSE (ticks * PitDen + PitNum - 1) \div PitNum

(* pit_update_irq(): one interrupt at most, and the time of the next. *)
RunTimers ==
    LET ch == channel[0]
        d == PitTime(now) - ch.load_time
        ran == IF ~Due(ch, now) THEN ch
               ELSE [ch EXCEPT !.last_irq =
                        IF ch.mode \in {2, 3} THEN @ + ch.count ELSE d]
    IN  /\ channel' = [channel EXCEPT ![0] = ran]
        /\ wakeAt' = IF DelayUs(ran) < 0 THEN Never ELSE now + DelayUs(ran)
        /\ UNCHANGED <<now, uses>>

Tick == now < MaxNow /\ now' = now + 1 /\ UNCHANGED <<wakeAt, channel, uses>>

(* Mutant: the machine thread is not woken for an earlier interrupt. *)
PortWriteNoKick(c, ch) ==
    /\ channel' = [channel EXCEPT ![c] = ch]
    /\ UNCHANGED <<now, wakeAt, uses>>

(* The write of a port, and PortWrite()'s KickBefore(). *)
PortWrite(c, ch) ==
    /\ channel' = [channel EXCEPT ![c] = ch]
    /\ LET delay == DelayUs(channel'[0])
       IN  wakeAt' = IF delay >= 0 /\ now + delay < wakeAt THEN now ELSE wakeAt
    /\ UNCHANGED <<now, uses>>

(* A control word starts the counter over, waiting for a count. *)
ControlWord(c) ==
    \E mode \in uses.modes, access \in uses.access :
        PortWrite(c, [channel[c] EXCEPT
            !.mode = mode, !.access = access, !.loaded = FALSE,
            !.running = FALSE, !.null_count = TRUE, !.write_msb = FALSE,
            !.read_msb = FALSE, !.count_latched = FALSE,
            !.status_latched = FALSE])

(* A latch of the count, by its own command or by the read-back command,   *)
(* which also latches the status.  A latch holds until it is read.         *)
LatchCount(c) ==
    /\ "latch" \in uses.ops
    /\ \E status, count \in BOOLEAN :
        PortWrite(c, [channel[c] EXCEPT
            !.status_latched = @ \/ status, !.count_latched = @ \/ count,
            !.latch_msb = @ /\ ~(count /\ ~channel[c].count_latched)])

(* In mode 0 the first byte of a word stops the count. *)
WriteCount(c) ==
    \E val \in uses.bytes :
        LET ch == channel[c]
            stops == ch.mode = 0 /\ ch.running
        IN  PortWrite(c,
            CASE ch.access = "lsb" -> LoadCount(ch, val)
              [] ch.access = "msb" -> LoadCount(ch, val * Byte)
              [] ch.access = "word" /\ ~ch.write_msb ->
                    [ch EXCEPT !.write_lsb = val, !.write_msb = TRUE,
                        !.held = IF stops THEN PitTime(now) - ch.load_time
                                 ELSE @,
                        !.running = @ /\ ~stops]
              [] OTHER -> LoadCount([ch EXCEPT !.write_msb = FALSE],
                                    val * Byte + ch.write_lsb))

(* A latched status is read first, then a latched count, then the count;   *)
(* a latched word and a word as it counts have each their own turn.        *)
ReadCount(c) ==
    /\ "latch" \in uses.ops
    /\ LET ch == channel[c]
           word == ch.access = "word"
       IN  channel' = [channel EXCEPT ![c] =
            IF ch.status_latched THEN [ch EXCEPT !.status_latched = FALSE]
            ELSE IF ch.count_latched
            THEN [ch EXCEPT !.latch_msb = IF word THEN ~@ ELSE @,
                            !.count_latched = word /\ ~ch.latch_msb]
            ELSE [ch EXCEPT !.read_msb = IF word THEN ~@ ELSE @]]
    /\ UNCHANGED <<now, wakeAt, uses>>

(* pit_set_gate(), from port B: modes 0 and 4 go on where they stopped, 2  *)
(* and 3 start over, 1 and 5 start.                                        *)
SpeakerWrite ==
    /\ "gate" \in uses.ops
    /\ LET ch == channel[2]
           time == PitTime(now)
           up == ~ch.gate
           stops == ~up /\ (ch.mode \in {0, 4} \/
                            (ch.running /\ ch.mode \in {2, 3}))
       IN  channel' = [channel EXCEPT ![2] =
            IF ~ch.loaded THEN [ch EXCEPT !.gate = up]
            ELSE [ch EXCEPT !.gate = up,
                !.load_time = CASE up /\ ch.mode \in {0, 4} -> time - ch.held
                                [] up /\ ch.mode \notin {0, 4} -> time
                                [] OTHER -> @,
                !.last_irq = IF up /\ ch.mode \notin {0, 4} THEN 0 ELSE @,
                !.running = up \/ (@ /\ ~stops),
                !.triggered = @ \/ (up /\ ch.mode \notin {0, 4}),
                !.held = IF stops THEN time - ch.load_time ELSE @]]
    /\ UNCHANGED <<now, wakeAt, uses>>

Next ==
    \/ Tick \/ RunTimers \/ SpeakerWrite
    \/ \E c \in uses.channels :
        ControlWord(c) \/ LatchCount(c) \/ WriteCount(c) \/ ReadCount(c)

(* The machine thread does not sleep past an interrupt of channel 0,       *)
(* however the channel was programmed since it went to sleep               *)
(* (PortWrite(), "can bring a timer the machine thread sleeps on forward"),*)
(* but for the microsecond a delay is rounded up by.                       *)
NotLate == \A us \in now..MaxNow : Due(channel[0], us) => wakeAt <= us + 1
=============================================================================
