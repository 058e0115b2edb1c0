------------------------------ MODULE LapicTimer ------------------------------
(***************************************************************************)
(* The counting of the local APIC timers (device/intc/lapic.cpp) and the   *)
(* part of the machine that sleeps until the first is due.  The interrupt  *)
(* itself, which a mask may drop, is PcApics' TimerFires.                  *)
(***************************************************************************)
EXTENDS Integers, FiniteSetsExt

CONSTANTS
    MaxNow,             \* bound: the host's clock
    TicksPerUs,         \* TIMER_HZ / 1000000
    TimerApics,
    Counts, Divisors,   \* what the guest writes
    ResetDivisor        \* of a divide register of 0

VARIABLES
    now, wakeAt,        \* the clock; when the machine thread runs next
    timer

vars == <<now, wakeAt, timer>>

Never == MaxNow + 1000

TypeOK ==
    /\ now \in 0..MaxNow /\ wakeAt \in 0..Never
    /\ timer \in [TimerApics ->
        [initial : Counts \cup {0}, divisor : Divisors, start : 0..MaxNow,
         fired : 0..(MaxNow * TicksPerUs), armed : BOOLEAN,
         periodic : BOOLEAN]]

Init == /\ now = 0 /\ wakeAt = 0
        /\ timer = [a \in TimerApics |->
            [initial |-> 0, divisor |-> ResetDivisor, start |-> 0, fired |-> 0,
             armed |-> FALSE, periodic |-> FALSE]]

TimerTicks(t, us) == ((us - t.start) * TicksPerUs) \div t.divisor

(* Whether a period has ended at this time that was not counted yet. *)
Due(t, us) == t.armed /\ TimerTicks(t, us) \div t.initial > t.fired

(* When the next period ends, rounded up. *)
TimerDue(t) ==
    IF ~t.armed THEN Never
    ELSE t.start + ((t.fired + 1) * t.initial * t.divisor + TicksPerUs - 1)
                    \div TicksPerUs

(* RunTimer(): the periods that ended are one interrupt. *)
Ran(t) ==
    IF ~Due(t, now) THEN t
    ELSE [t EXCEPT !.fired = TimerTicks(t, now) \div t.initial,
                   !.armed = t.periodic]

RunTimers ==
    /\ timer' = [a \in TimerApics |-> Ran(timer[a])]
    /\ wakeAt' = Max({now, Min({TimerDue(timer'[a]) : a \in TimerApics})})
    /\ UNCHANGED now

Tick == now < MaxNow /\ now' = now + 1 /\ UNCHANGED <<wakeAt, timer>>

(* A register write that ends in ApicTimerChanged(TimerDue()). *)
Changed(a, t) ==
    /\ timer' = [timer EXCEPT ![a] = t]
    /\ wakeAt' = IF TimerDue(t) < wakeAt THEN now ELSE wakeAt
    /\ UNCHANGED now

WriteInitialCount(a) ==
    \E n \in Counts \cup {0} :
        Changed(a, [timer[a] EXCEPT !.initial = n, !.armed = n # 0,
                                    !.start = now, !.fired = 0])

(* A count in progress starts over at the new rate. *)
WriteDivide(a) ==
    \E d \in Divisors :
        IF timer[a].armed
        THEN Changed(a, [timer[a] EXCEPT !.divisor = d, !.start = now,
                                         !.fired = 0])
        ELSE /\ timer' = [timer EXCEPT ![a].divisor = d]
             /\ UNCHANGED <<now, wakeAt>>

WriteLvtTimer(a) ==
    \E p \in BOOLEAN : Changed(a, [timer[a] EXCEPT !.periodic = p])

(* LocalApic::Init() *)
InitApic(a) ==
    /\ timer' = [timer EXCEPT ![a].initial = 0, ![a].armed = FALSE,
                    ![a].divisor = ResetDivisor, ![a].periodic = FALSE]
    /\ UNCHANGED <<now, wakeAt>>

Next ==
    \/ Tick \/ RunTimers
    \/ \E a \in TimerApics :
        WriteInitialCount(a) \/ WriteDivide(a) \/ WriteLvtTimer(a) \/ InitApic(a)

(* The machine thread does not sleep past the end of a period, whatever    *)
(* was programmed since it went to sleep, on whichever processor           *)
(* ("A timer was programmed and may be due sooner", lapic.h:59).           *)
NotLate ==
    \A a \in TimerApics, us \in now..MaxNow : Due(timer[a], us) => wakeAt <= us
=============================================================================
