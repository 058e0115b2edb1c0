------------------------------- MODULE Mc146818 -------------------------------
(***************************************************************************)
(* The PC's real time clock (device/timer/mc146818.cpp) and the part of    *)
(* the machine that sleeps until its next interrupt.                       *)
(*                                                                         *)
(* The time shown is the host's plus time_offset_us.  The calendar is two  *)
(* fields, the second and everything above it, and time and alarm          *)
(* registers hold fields; BCD, 12 hour mode, the day of the week, the      *)
(* update in progress bit, the NVRAM and pf_read (the periodic flag of a    *)
(* clock that may not interrupt) only change what is read.                  *)
(***************************************************************************)
EXTENDS Integers, FiniteSetsExt

CONSTANTS
    MaxNow,             \* bound: the host's clocks
    SecUs,              \* US_PER_SEC
    Minute,             \* seconds in the low field
    TimesOfDay,         \* values of the high field in a day
    TickNum, TickDen,   \* CMOS_FREQ: TickNum ticks in TickDen microseconds
    Width, StartTick,   \* 2^32, and where the tick counter starts
    RtcUses             \* what the guest uses: see TypeOK

VARIABLES
    now, wakeAt,        \* the clocks; when the machine thread runs next
    time_offset_us,
    regs,               \* the time registers, in seconds
    alarm,              \* <<low, high>>, either may be Any
    rate, divider,      \* of register A; rate is the period's code
    b, c,               \* the bits set in registers B and C
    flags_second, irq_timeout, irq_period,
    line, uses

regA == <<rate, divider>>
timing == <<flags_second, irq_timeout, irq_period>>
vars == <<now, wakeAt, time_offset_us, regs, alarm, regA, b, c, timing, line,
          uses>>

Never == MaxNow + 1000
Any == -1
Day == Minute * TimesOfDay

TypeOK ==
    /\ now \in 0..MaxNow /\ wakeAt \in 0..Never
    /\ time_offset_us \in Int /\ regs \in Int /\ flags_second \in Int
    /\ alarm[1] \in 0..(Minute - 1) \cup {Any}
    /\ alarm[2] \in 0..(TimesOfDay - 1) \cup {Any}
    /\ rate \in 0..2 /\ divider \in {"run", "reset", "other"}
    /\ b \subseteq {"SET", "PIE", "AIE", "UIE"}
    /\ c \subseteq {"PF", "AF", "UF", "IRQF"}
    /\ irq_timeout \in 0..(Width - 1)
    /\ irq_period \in 0..2 /\ line \in BOOLEAN
    /\ uses \in RtcUses
    /\ uses.b \subseteq SUBSET {"SET", "PIE", "AIE", "UIE"}
    /\ uses.rates \subseteq 0..2 /\ uses.ops \subseteq {"time", "alarm", "reset"}

(* cmos_get_timer(), modulo its width. *)
Timer(us) == (StartTick + (us * TickNum) \div TickDen) % Width

(* (int32_t)(t - deadline) >= 0 *)
Reached(t, deadline) == (t - deadline) % Width < Width \div 2

Seconds(us) == (us + time_offset_us) \div SecUs

Frozen == "SET" \in b \/ divider = "reset"

Init ==
    /\ now = 0 /\ wakeAt = 0 /\ uses \in RtcUses
    /\ time_offset_us = 0 /\ regs = 0 /\ alarm = <<0, 0>>
    /\ rate = 1 /\ divider = "run" /\ b = {} /\ c = {}
    /\ flags_second = 0 /\ irq_timeout = 0 /\ irq_period = 0
    /\ line = FALSE

AlarmMatches(secs) ==
    /\ alarm[1] \in {Any, secs % Minute}
    /\ alarm[2] \in {Any, (secs % Day) \div Minute}

(* cmos_update_flags(): the flags of the seconds that passed. *)
FlagsAt(us) ==
    IF Frozen \/ Seconds(us) <= flags_second THEN {}
    ELSE {"UF"} \cup
        (IF \E s \in Max({flags_second + 1, Seconds(us) - Day + 1})..Seconds(us) :
                AlarmMatches(s)
         THEN {"AF"} ELSE {})

FlagsSecondAt(us) ==
    IF Frozen \/ Seconds(us) > flags_second THEN Seconds(us) ELSE flags_second

(* The periodic flag by the interrupt's timer. *)
PeriodEnded(us) == irq_period # 0 /\ Reached(Timer(us), irq_timeout)
PeriodicAt(us) == IF PeriodEnded(us) THEN {"PF"} ELSE {}
TimeoutAt(us) ==
    IF PeriodEnded(us)
    THEN (irq_timeout + (((Timer(us) - irq_timeout) % Width) \div irq_period + 1)
                        * irq_period) % Width
    ELSE irq_timeout

(* Whether flags that may interrupt are set. *)
On(flags, enables) ==
    \/ "PF" \in flags /\ "PIE" \in enables
    \/ "AF" \in flags /\ "AIE" \in enables
    \/ "UF" \in flags /\ "UIE" \in enables

(* cmos_update_irq_line() *)
UpdateIrqLine(flags, enables, deliver) ==
    LET raise == On(flags, enables) /\ "IRQF" \notin flags
    IN  /\ c' = IF raise THEN flags \cup {"IRQF"} ELSE flags
        /\ line' = (line \/ (raise /\ deliver))

(* cmos_delay_us(): the period's end, or the next second. *)
Delays(enables, frozen, offset, timeout, period) ==
    (IF period = 0 THEN {}
     ELSE {IF Reached(Timer(now), timeout) THEN 0
           ELSE (((timeout - Timer(now)) % Width) * TickDen + TickNum - 1)
                    \div TickNum}) \cup
    (IF enables \cap {"UIE", "AIE"} = {} \/ frozen THEN {}
     ELSE {((now + offset) \div SecUs + 1) * SecUs - (now + offset)})

RunTimers ==
    /\ UpdateIrqLine(c \cup PeriodicAt(now) \cup FlagsAt(now), b, uses.deliver)
    /\ irq_timeout' = TimeoutAt(now)
    /\ flags_second' = FlagsSecondAt(now)
    /\ LET delays == Delays(b, Frozen, time_offset_us, irq_timeout', irq_period)
       IN  wakeAt' = IF delays = {} THEN Never ELSE now + Min(delays)
    /\ UNCHANGED <<now, time_offset_us, regs, alarm, regA, b, irq_period,
                   uses>>

Tick ==
    /\ now < MaxNow /\ now' = now + 1
    /\ UNCHANGED <<wakeAt, time_offset_us, regs, alarm, regA, b, c, timing,
                   line, uses>>

(* PortWrite()'s KickBefore(), with the state after the write. *)
KickBefore(enables, frozen, offset, timeout, period) ==
    LET delays == Delays(enables, frozen, offset, timeout, period)
    IN  wakeAt' = IF delays # {} /\ now + Min(delays) < wakeAt THEN now
                  ELSE wakeAt

(* cmos_update_time(), unless updates are held. *)
Shown == IF Frozen THEN regs ELSE Seconds(now)

(* cmos_commit_time() *)
CommitTime(secs, into) ==
    /\ time_offset_us' = secs * SecUs + into - now
    /\ flags_second' = secs

(* Written into what is shown, which becomes the time unless updates are   *)
(* held.                                                                   *)
WriteTime ==
    /\ "time" \in uses.ops
    /\ \E v \in 0..(Minute - 1), h \in 0..(TimesOfDay - 1) :
        regs' \in {Shown - (Shown % Minute) + v, (h * Minute) + (Shown % Minute)}
    /\ IF Frozen THEN UNCHANGED <<time_offset_us, flags_second>>
       ELSE CommitTime(regs', 0)
    /\ KickBefore(b, Frozen, time_offset_us', irq_timeout, irq_period)
    /\ UNCHANGED <<now, alarm, regA, b, c, irq_timeout, irq_period,
                   line, uses>>

WriteAlarm ==
    /\ "alarm" \in uses.ops
    /\ \E v \in (0..(Minute - 1)) \cup {Any} : alarm' = <<v, alarm[2]>>
    /\ KickBefore(b, Frozen, time_offset_us, irq_timeout, irq_period)
    /\ UNCHANGED <<now, time_offset_us, regs, regA, b, c, timing, line, uses>>

(* cmos_update_timer(): timed only while it may interrupt. *)
UpdateTimer(code, enables) ==
    IF "PIE" \in enables /\ code # 0
    THEN /\ irq_period' = code
         /\ irq_timeout' =
                (((Timer(now) + code) % Width) \div code) * code
    ELSE irq_period' = 0 /\ UNCHANGED irq_timeout

(* Out of reset, the first update comes half a second later. *)
WriteA ==
    \E code \in uses.rates, dv \in {"run", "reset", "other"} :
        /\ dv # "run" => "reset" \in uses.ops
        /\ rate' = code /\ divider' = dv
        /\ regs' = Shown
        /\ IF divider = "reset" /\ dv = "run" /\ "SET" \notin b
           THEN CommitTime(regs', SecUs \div 2)
           ELSE UNCHANGED <<time_offset_us, flags_second>>
        /\ UpdateTimer(code, b)
        /\ KickBefore(b, "SET" \in b \/ dv = "reset", time_offset_us',
                      irq_timeout', irq_period')
        /\ UNCHANGED <<now, alarm, b, c, line, uses>>

(* SET stops the updates and clears UIE. *)
WriteB ==
    \E bits \in uses.b :
        /\ b' = IF "SET" \in bits THEN bits \ {"UIE"} ELSE bits
        /\ regs' = Shown
        /\ IF Frozen /\ ~("SET" \in bits \/ divider = "reset")
           THEN CommitTime(regs', 0)
           ELSE UNCHANGED <<time_offset_us, flags_second>>
        /\ UpdateTimer(rate, b')
        /\ UpdateIrqLine(c, b', TRUE)
        /\ KickBefore(b', "SET" \in bits \/ divider = "reset", time_offset_us',
                      irq_timeout', irq_period')
        /\ UNCHANGED <<now, alarm, regA, uses>>

(* Brings the flags up to date, shows them and clears them with the line;  *)
(* what they were only the guest sees.                                     *)
ReadC ==
    /\ c' = {} /\ line' = FALSE
    /\ irq_timeout' = TimeoutAt(now)
    /\ flags_second' = FlagsSecondAt(now)
    /\ UNCHANGED <<now, wakeAt, time_offset_us, regs, alarm, regA, b,
                   irq_period, uses>>

ReadTime ==
    /\ regs' = Shown
    /\ UNCHANGED <<now, wakeAt, time_offset_us, alarm, regA, b, c, timing,
                   line, uses>>

Next ==
    \/ Tick \/ RunTimers \/ WriteTime \/ WriteAlarm \/ WriteA \/ WriteB
    \/ ReadC \/ ReadTime

(* The machine thread does not sleep past an interrupt of the clock,       *)
(* however it was set since: not past the second of an update or an alarm  *)
(* (past the current one, where a divider that neither runs nor resets     *)
(* ended the hold and seconds passed at once), and past the end of a       *)
(* period by no more than the tick a delay is rounded up by.               *)
NotLate ==
    "IRQF" \notin c =>
        \A us \in now..MaxNow :
            /\ On(FlagsAt(us), b) =>
                wakeAt <= Max({us, (Seconds(now) + 1) * SecUs - time_offset_us})
            /\ On(PeriodicAt(us), b) =>
                wakeAt <= us + ((TickDen + TickNum - 1) \div TickNum)

(* No flag that may interrupt is set without the interrupt having been     *)
(* asked for, and the line is up only until register C is read.            *)
FlagsAreRaised == (On(c, b) => "IRQF" \in c) /\ (line => "IRQF" \in c)
=============================================================================
