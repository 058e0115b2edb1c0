------------------------------ MODULE LoopTimer ------------------------------
(***************************************************************************)
(* Host timers on the event loop (platform/common/loop_timer.cpp).  A      *)
(* timer is armed and disarmed with the device lock held, by any thread or *)
(* by what an expiring timer calls; the loop's thread prepares a wait that *)
(* ends in time for every armed timer, and fires the ones that are due     *)
(* when it dispatches.  The loop itself is taken as what LoopContract      *)
(* says of it, which EventLoop implements.                                 *)
(*                                                                         *)
(* Time is in microseconds, US of them to a millisecond, and saturates at  *)
(* MaxTime, by when every deadline is due.                                 *)
(***************************************************************************)
EXTENDS Integers, FiniteSetsExt

CONSTANTS
    Timers,     \* the timers of the event loop
    US,         \* microseconds in a millisecond: 1000
    IdleMs,     \* the longest wait in milliseconds: 1000
    MaxTime     \* bound: deadlines and the clock

ASSUME TimersAssumption ==
    US \in Nat \ {0} /\ IdleMs \in Nat /\ MaxTime \in Nat

VARIABLES
    tPhase, tOwed,  \* LoopContract's
    now,         \* host_monotonic_us()
    fArmed, fDeadlineUs, fDispatching,
    expected,    \* history: armed, and neither disarmed nor expired since
    tTodo,       \* timers still to be dispatched in this pass
    limit,       \* ws.timeout_ms
    preparedAt,  \* history: when the timers were prepared
    asleep,      \* select() has been called
    left         \* microseconds until it times out

Waits == INSTANCE LoopContract WITH phase <- tPhase, owed <- tOwed

timer == <<fArmed, fDeadlineUs, fDispatching, expected>>
wait == <<limit, preparedAt, asleep, left>>
timerVars == <<tPhase, tOwed, now, timer, tTodo, wait>>

TimerTypeOK ==
    /\ tPhase \in {"off", "top", "wait", "dispatch"} /\ tOwed \in BOOLEAN
    /\ now \in 0..MaxTime
    /\ fArmed \in [Timers -> BOOLEAN]
    /\ fDeadlineUs \in [Timers -> 0..MaxTime]
    /\ fDispatching \in [Timers -> BOOLEAN]
    /\ expected \in [Timers -> BOOLEAN]
    /\ tTodo \subseteq Timers
    /\ limit \in 0..IdleMs
    /\ preparedAt \in 0..MaxTime /\ asleep \in BOOLEAN
    /\ left \in 0..(IdleMs * US)

TimerInit ==
    /\ Waits!CInit
    /\ now = 0
    /\ fArmed = [t \in Timers |-> FALSE]
    /\ fDeadlineUs = [t \in Timers |-> 0]
    /\ fDispatching = [t \in Timers |-> FALSE]
    /\ expected = [t \in Timers |-> FALSE]
    /\ tTodo = {}
    /\ limit = 0 /\ preparedAt = 0 /\ asleep = FALSE /\ left = 0

(* A thread with the device lock can reach the timers: the loop's thread   *)
(* is not preparing, which is one step here, nor dispatching.              *)
LockFree == tPhase # "dispatch"

-----------------------------------------------------------------------------
(* Mutant: only an unarmed timer wakes the loop. *)
SoonerOnlyIfUnarmed(t, d) == ~fArmed[t]

Sooner(t, d) == ~fArmed[t] \/ d < fDeadlineUs[t]

(* Arm() changes the timer and wakes the loop. *)
Arm(t, d) ==
    /\ fArmed' = [fArmed EXCEPT ![t] = TRUE]
    /\ fDeadlineUs' = [fDeadlineUs EXCEPT ![t] = d]
    /\ expected' = [expected EXCEPT ![t] = TRUE]
    /\ tOwed' = (tOwed \/ (Sooner(t, d) /\ ~fDispatching[t]))

Disarm(t) ==
    /\ fArmed' = [fArmed EXCEPT ![t] = FALSE]
    /\ expected' = [expected EXCEPT ![t] = FALSE]
    /\ UNCHANGED <<fDeadlineUs, tOwed>>

(* A device on a processor's or the machine's thread. *)
DeviceCall(t) ==
    /\ LockFree
    /\ Disarm(t) \/ \E d \in 0..MaxTime : Arm(t, d)
    /\ UNCHANGED <<tPhase, now, fDispatching, tTodo, wait>>

-----------------------------------------------------------------------------
(* Whole milliseconds until a deadline, rounded up. *)
TimeoutMs(d) ==
    IF now >= d THEN 0
    ELSE LET ms == (d - now + (US - 1)) \div US
         IN IF ms > IdleMs THEN IdleMs ELSE ms

Armed == {t \in Timers : fArmed[t]}

(* Every timer's Prepare(), in one hold of the device lock. *)
PrepareTimers ==
    /\ Waits!CPrepare
    /\ limit' = Min({IdleMs} \cup {TimeoutMs(fDeadlineUs[t]) : t \in Armed})
    /\ preparedAt' = now
    /\ asleep' = FALSE
    /\ UNCHANGED <<now, timer, tTodo, left>>

(* The lock is dropped before select() starts to count. *)
Select ==
    /\ tPhase = "wait" /\ ~asleep
    /\ asleep' = TRUE
    /\ left' = limit * US
    /\ UNCHANGED <<tPhase, tOwed, now, timer, tTodo, limit, preparedAt>>

(* A wait ends for a wake, for its timeout, or for something else. *)
Return ==
    /\ Waits!CReturn /\ asleep
    /\ tTodo' = Timers
    /\ UNCHANGED <<now, timer, wait>>

ReturnInTime == (tOwed \/ left = 0) /\ Return

Tick ==
    /\ now' = IF now < MaxTime THEN now + 1 ELSE now
    /\ left' = IF asleep /\ left > 0 THEN left - 1 ELSE left
    /\ UNCHANGED <<tPhase, tOwed, timer, tTodo, limit, preparedAt, asleep>>

-----------------------------------------------------------------------------
(* Dispatch() of every timer, in one hold of the device lock, each with    *)
(* its own look at the clock.  A timer without a target never expires;     *)
(* every device gives its timer one when it opens it, before any Arm().    *)
NotInCallback == \A t \in Timers : ~fDispatching[t]

Due(t) == fArmed[t] /\ now >= fDeadlineUs[t]

Skip(t) ==
    /\ tPhase = "dispatch" /\ t \in tTodo /\ NotInCallback /\ ~Due(t)
    /\ tTodo' = tTodo \ {t}
    /\ UNCHANGED <<tPhase, tOwed, now, timer, wait>>

(* Up to the call of TimerExpired(). *)
Expire(t) ==
    /\ tPhase = "dispatch" /\ t \in tTodo /\ NotInCallback /\ Due(t)
    /\ fArmed' = [fArmed EXCEPT ![t] = FALSE]
    /\ expected' = [expected EXCEPT ![t] = FALSE]
    /\ fDispatching' = [fDispatching EXCEPT ![t] = TRUE]
    /\ tTodo' = tTodo \ {t}
    /\ UNCHANGED <<tPhase, tOwed, now, fDeadlineUs, wait>>

(* What TimerExpired() does to this timer or another. *)
CallbackCall(t) ==
    /\ ~NotInCallback
    /\ Disarm(t) \/ \E d \in 0..MaxTime : Arm(t, d)
    /\ UNCHANGED <<tPhase, now, fDispatching, tTodo, wait>>

(* Mutant: the timer is disarmed after TimerExpired() and not before. *)
CallbackReturnsDisarms(t) ==
    /\ fDispatching[t]
    /\ fDispatching' = [fDispatching EXCEPT ![t] = FALSE]
    /\ fArmed' = [fArmed EXCEPT ![t] = FALSE]
    /\ UNCHANGED <<tPhase, tOwed, now, expected, fDeadlineUs, tTodo, wait>>

CallbackReturns(t) ==
    /\ fDispatching[t]
    /\ fDispatching' = [fDispatching EXCEPT ![t] = FALSE]
    /\ UNCHANGED <<tPhase, tOwed, now, fArmed, expected, fDeadlineUs, tTodo,
                   wait>>

DispatchEnds ==
    /\ tTodo = {} /\ NotInCallback
    /\ Waits!CDispatch
    /\ UNCHANGED <<now, timer, tTodo, wait>>

LoopStarts == Waits!CStart /\ UNCHANGED <<now, timer, tTodo, wait>>

-----------------------------------------------------------------------------
LoopStep == \/ PrepareTimers \/ Select \/ ReturnInTime \/ DispatchEnds
            \/ \E t \in Timers : Skip(t) \/ Expire(t)

TimerNext == \/ LoopStarts \/ Tick \/ Return \/ LoopStep
             \/ \E t \in Timers :
                    DeviceCall(t) \/ CallbackCall(t) \/ CallbackReturns(t)

(* The loop's thread runs, time passes, and a callback ends. *)
TimerSpec == TimerInit /\ [][TimerNext]_timerVars
TimerFairSpec ==
    /\ TimerSpec
    /\ WF_timerVars(LoopStarts) /\ WF_timerVars(Tick) /\ WF_timerVars(LoopStep)
    /\ \A t \in Timers : WF_timerVars(CallbackReturns(t))

-----------------------------------------------------------------------------
(* Properties *)

(* "A deadline is met to within one" millisecond: unless a wake is on its  *)
(* way, the wait the loop is in ends less than a millisecond after every   *)
(* armed deadline, or at once if that had passed.  Arm() wakes the loop    *)
(* only for a sooner deadline and never from the timer's own callback, so  *)
(* this is about the wakes it leaves out.                                  *)
WaitCoversTimers ==
    tPhase = "wait" /\ ~tOwed =>
        \A t \in Armed :
            preparedAt + limit * US < Max({fDeadlineUs[t], preparedAt}) + US

(* Every Arm() whose time has come leads to an expiry, unless the timer is *)
(* disarmed or armed for later: no Arm() is forgotten, not even the one a  *)
(* timer's own callback makes while Dispatch() still holds the timer.      *)
DueTimerExpires ==
    \A t \in Timers :
        expected[t] /\ now >= fDeadlineUs[t] ~>
            ~expected[t] \/ now < fDeadlineUs[t]
=============================================================================
