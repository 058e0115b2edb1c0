----------------------------- MODULE GoldfishRtc ------------------------------
(***************************************************************************)
(* The RISC-V machine's clock with an alarm                                *)
(* (device/timer/goldfish_rtc.cpp) on a host timer (LoopTimer).  Times are *)
(* in units of which UnitsPerUs make a microsecond; the time shown is the  *)
(* host's plus fOffset.  The alarm is written high half first: a write of  *)
(* the low half arms it.                                                   *)
(***************************************************************************)
EXTENDS Integers

CONSTANTS
    MaxNow,         \* bound: the host's clock
    UnitsPerUs,     \* NS_PER_US
    Half            \* 2^32: a half of the time

VARIABLES
    now,            \* both clocks of the host, which do not drift
    fOffset, fSetHigh, fTimeHigh,
    fAlarm, fAlarmArmed, fIrqEnabled, fIrqPending,
    expires,        \* fTimer
    line,
    partly          \* history: the alarm's high half alone was written

vars == <<now, fOffset, fSetHigh, fTimeHigh, fAlarm, fAlarmArmed, fIrqEnabled,
          fIrqPending, expires, line, partly>>

Never == 1000
Halves == 0..(Half - 1)
Whole == 0..(Half * Half - 1)

TypeOK ==
    /\ now \in 0..MaxNow
    /\ fOffset \in (-MaxNow * UnitsPerUs)..(Half * Half)
    /\ fSetHigh \in Halves /\ fTimeHigh \in 0..(Half * Half)
    /\ fAlarm \in Whole
    /\ fAlarmArmed \in BOOLEAN /\ fIrqEnabled \in BOOLEAN
    /\ fIrqPending \in BOOLEAN /\ line \in BOOLEAN /\ partly \in BOOLEAN
    /\ expires \in 0..Never

Init ==
    /\ now = 0 /\ fOffset = 0 /\ fSetHigh = 0 /\ fTimeHigh = 0 /\ fAlarm = 0
    /\ fAlarmArmed = FALSE /\ fIrqEnabled = FALSE /\ fIrqPending = FALSE
    /\ expires = Never /\ line = FALSE /\ partly = FALSE

(* Now(): a time before the epoch reads as 0. *)
Shown(us, offset) ==
    LET t == us * UnitsPerUs + offset IN IF t > 0 THEN t ELSE 0

UpdateIrq(pending, enabled) == line' = (pending /\ enabled)

(* A due alarm disarms itself; one still ahead is timed on the host's      *)
(* clock.                                                                  *)
CheckAlarm(armed, alarm, offset) ==
    LET shown == Shown(now, offset)
        due == armed /\ shown >= alarm
    IN  /\ fAlarmArmed' = (armed /\ ~due)
        /\ fIrqPending' = (fIrqPending \/ due)
        /\ expires' = IF armed /\ ~due
                      THEN now + (alarm - shown + UnitsPerUs - 1) \div UnitsPerUs
                      ELSE Never
        /\ IF due THEN UpdateIrq(TRUE, fIrqEnabled) ELSE UNCHANGED line

Tick ==
    /\ now < MaxNow /\ now' = now + 1
    /\ UNCHANGED <<fOffset, fSetHigh, fTimeHigh, fAlarm, fAlarmArmed,
                   fIrqEnabled, fIrqPending, expires, line, partly>>

(* Also called when the timer was armed anew and has not expired yet. *)
TimerExpired ==
    /\ now >= expires
    /\ CheckAlarm(fAlarmArmed, fAlarm, fOffset)
    /\ UNCHANGED <<now, fOffset, fSetHigh, fTimeHigh, fAlarm, fIrqEnabled,
                   partly>>

ReadTimeLow ==
    /\ fTimeHigh' = Shown(now, fOffset) \div Half
    /\ UNCHANGED <<now, fOffset, fSetHigh, fAlarm, fAlarmArmed, fIrqEnabled,
                   fIrqPending, expires, line, partly>>

(* The alarm is against the time shown. *)
WriteTimeLow ==
    /\ \E v \in Halves : fOffset' = fSetHigh * Half + v - now * UnitsPerUs
    /\ CheckAlarm(fAlarmArmed, fAlarm, fOffset')
    /\ UNCHANGED <<now, fSetHigh, fTimeHigh, fAlarm, fIrqEnabled, partly>>

WriteTimeHigh ==
    /\ \E v \in Halves : fSetHigh' = v
    /\ UNCHANGED <<now, fOffset, fTimeHigh, fAlarm, fAlarmArmed, fIrqEnabled,
                   fIrqPending, expires, line, partly>>

WriteAlarmLow ==
    /\ \E v \in Halves : fAlarm' = (fAlarm \div Half) * Half + v
    /\ CheckAlarm(TRUE, fAlarm', fOffset)
    /\ partly' = FALSE
    /\ UNCHANGED <<now, fOffset, fSetHigh, fTimeHigh, fIrqEnabled>>

WriteAlarmHigh ==
    /\ \E v \in Halves : fAlarm' = v * Half + (fAlarm % Half)
    /\ partly' = TRUE
    /\ UNCHANGED <<now, fOffset, fSetHigh, fTimeHigh, fAlarmArmed, fIrqEnabled,
                   fIrqPending, expires, line>>

WriteIrqEnabled ==
    /\ fIrqEnabled' \in BOOLEAN
    /\ UNCHANGED <<now, fOffset, fSetHigh, fTimeHigh, fAlarm, fAlarmArmed,
                   fIrqPending, expires, partly>>
    /\ UpdateIrq(fIrqPending, fIrqEnabled')

ClearAlarm ==
    /\ CheckAlarm(FALSE, fAlarm, fOffset)
    /\ UNCHANGED <<now, fOffset, fSetHigh, fTimeHigh, fAlarm, fIrqEnabled,
                   partly>>

ClearInterrupt ==
    /\ fIrqPending' = FALSE
    /\ UNCHANGED <<now, fOffset, fSetHigh, fTimeHigh, fAlarm, fAlarmArmed,
                   fIrqEnabled, expires, partly>>
    /\ UpdateIrq(FALSE, fIrqEnabled)

Next ==
    \/ Tick \/ TimerExpired
    \/ ReadTimeLow \/ WriteTimeLow \/ WriteTimeHigh \/ WriteAlarmLow
    \/ WriteAlarmHigh \/ WriteIrqEnabled \/ ClearAlarm \/ ClearInterrupt

(* The host's timer does not expire after an armed alarm is due, however   *)
(* the time and the alarm were set since, but for the microsecond a delay  *)
(* is rounded up by.  A high half takes effect with the low one.           *)
NotLate ==
    \A us \in now..MaxNow :
        fAlarmArmed /\ ~partly /\ Shown(us, fOffset) >= fAlarm
        => expires <= us

(* The line is up while an alarm that may interrupt has not been cleared. *)
LineIsPending == line = (fIrqPending /\ fIrqEnabled)
=============================================================================
