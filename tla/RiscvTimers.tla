------------------------------ MODULE RiscvTimers ------------------------------
(***************************************************************************)
(* The timers of a RISC-V machine.  The time counter follows the host's    *)
(* clock from an offset that a write to mtime moves (SetClintTime).  Each  *)
(* hart has two comparators on it: mtimecmp in the CLINT (clint.cpp), whose *)
(* MTIP the machine thread raises, and stimecmp of the Sstc extension      *)
(* (riscv_cpu_impl.h, update_stimer), whose STIP the hart raises itself    *)
(* once the machine thread has woken it (riscv_machine.cpp, RunTimers).    *)
(*                                                                         *)
(* The machine thread is that of Machine, without screen and holds; a      *)
(* wakeup is its pending kick.  The harts have both interrupts enabled.    *)
(* Where a hart works through what was posted to it, RiscvHart shows that  *)
(* nothing is missed; here it is one step.                                 *)
(***************************************************************************)
EXTENDS Integers, FiniteSetsExt

CONSTANTS
    Harts,
    MaxNow,         \* bound: the host clock
    MaxTime,        \* bound: the counter and the deadlines on it
    NoOne, Thread   \* a free device lock; the machine thread

ASSUME TimersAssumption ==
    MaxNow \in Nat /\ MaxTime \in Nat /\ {NoOne, Thread} \cap Harts = {}

Never == MaxNow + 2 * MaxTime + 1       \* UINT64_MAX
Times == 0..MaxTime

VARIABLES
    now, offset,        \* host_monotonic_us(), fTimeOffset
    moved,              \* history: mtime was written
    lock,
    fTimecmp, fTimerIrq,            \* the CLINT, with the device lock held
    irq_lines, inbox_pending,       \* MTIP, and that it may have changed
    exit_request, hartKicked,
    mtip, stip,                     \* mip
    stimecmp, stimer_deadline, power_down_flag,
    hpc, rtcTime, cont, \* where a hart is, in update_stimer() above all
    calling,            \* the deadline it passes to ClintTimerChanged()
    fSTimerKicked,
    kicked, fSleepUntil, mpc, todo, ranAt, delay, wakeAt  \* machine thread

clock == <<now, offset, moved>>
clint == <<fTimecmp, fTimerIrq>>
posts == <<irq_lines, inbox_pending>>
wakes == <<exit_request, hartKicked>>
mip == <<mtip, stip>>
stimer == <<stimecmp, stimer_deadline>>
hart == <<power_down_flag, hpc, rtcTime, cont, calling>>
pass == <<mpc, todo, ranAt, delay, wakeAt>>
vars == <<clock, lock, clint, posts, wakes, mip, stimer, hart, fSTimerKicked,
          kicked, fSleepUntil, pass>>

(* The counter saturates at MaxTime, by when every deadline is due. *)
Time == Min({now + offset, MaxTime})

TypeOK ==
    /\ now \in 0..MaxNow /\ offset \in (-MaxNow)..MaxTime
    /\ moved \in BOOLEAN
    /\ lock \in Harts \cup {NoOne, Thread}
    /\ fTimecmp \in [Harts -> Times \cup {Never}]
    /\ fTimerIrq \in [Harts -> BOOLEAN]
    /\ irq_lines \in [Harts -> BOOLEAN] /\ inbox_pending \in [Harts -> BOOLEAN]
    /\ exit_request \in [Harts -> BOOLEAN] /\ hartKicked \in [Harts -> BOOLEAN]
    /\ mtip \in [Harts -> BOOLEAN] /\ stip \in [Harts -> BOOLEAN]
    /\ stimecmp \in [Harts -> Times \cup {Never}]
    /\ stimer_deadline \in [Harts -> Times \cup {Never}]
    /\ power_down_flag \in [Harts -> BOOLEAN]
    /\ hpc \in [Harts -> {"top", "compare", "changed", "inbox", "interp",
                          "run", "clint", "wait"}]
    /\ cont \in [Harts -> {"inbox", "run"}]
    /\ rtcTime \in [Harts -> Times] /\ calling \in [Harts -> Times \cup {Never}]
    /\ fSTimerKicked \in [Harts -> Times]
    /\ kicked \in BOOLEAN /\ fSleepUntil \in 0..Never
    /\ mpc \in {"unset", "lock", "timers", "sleep", "wait", "waiting"}
    /\ todo \subseteq Harts
    /\ ranAt \in Times /\ delay \in -1..MaxTime
    /\ wakeAt \in 0..Never

Init ==
    /\ now = 0 /\ offset = 0 /\ moved = FALSE /\ lock = NoOne
    /\ fTimecmp = [h \in Harts |-> 0] /\ fTimerIrq = [h \in Harts |-> FALSE]
    /\ irq_lines = [h \in Harts |-> FALSE]
    /\ inbox_pending = [h \in Harts |-> FALSE]
    /\ exit_request = [h \in Harts |-> FALSE]
    /\ hartKicked = [h \in Harts |-> FALSE]
    /\ mtip = [h \in Harts |-> FALSE] /\ stip = [h \in Harts |-> FALSE]
    /\ stimecmp = [h \in Harts |-> Never]
    /\ stimer_deadline = [h \in Harts |-> Never]
    /\ power_down_flag = [h \in Harts |-> FALSE]
    /\ hpc = [h \in Harts |-> "top"] /\ cont = [h \in Harts |-> "inbox"]
    /\ rtcTime = [h \in Harts |-> 0] /\ calling = [h \in Harts |-> Never]
    /\ fSTimerKicked = [h \in Harts |-> 0]
    /\ kicked = FALSE /\ fSleepUntil = Never
    /\ mpc = "unset" /\ todo = {} /\ ranAt = 0 /\ delay = -1 /\ wakeAt = 0

Tick == /\ now < MaxNow
        /\ now' = now + 1
        /\ UNCHANGED <<offset, moved, lock, clint, posts, wakes, mip, stimer, hart,
                       fSTimerKicked, kicked, fSleepUntil, pass>>

(* KickTimersBefore(deadline): from the counter to the host's clock, and   *)
(* KickBefore().                                                           *)
Kicks(deadline) ==
    LET us == IF deadline > Time THEN deadline - Time ELSE 0
    IN  now + us < fSleepUntil

-----------------------------------------------------------------------------
(* A hart's thread: Idle() is update_stimer() and then PowerDown().        *)

Goto(h, to) == hpc' = [hpc EXCEPT ![h] = to]

(* process_inbox(), and an enabled interrupt ends a power down. *)
ProcessInbox(h) ==
    /\ mtip' = [mtip EXCEPT ![h] = IF inbox_pending[h] THEN irq_lines[h] ELSE @]
    /\ inbox_pending' = [inbox_pending EXCEPT ![h] = FALSE]
    /\ UNCHANGED irq_lines

Asleep(h) == power_down_flag[h] /\ ~(inbox_pending[h] /\ (stip[h] \/ irq_lines[h]))

(* update_stimer() reads the counter, *)
IdleBegins(h) ==
    /\ hpc[h] = "top"
    /\ Goto(h, "compare")
    /\ rtcTime' = [rtcTime EXCEPT ![h] = Time]
    /\ cont' = [cont EXCEPT ![h] = "inbox"]
    /\ UNCHANGED <<clock, lock, clint, posts, wakes, mip, stimer,
                   power_down_flag, calling, fSTimerKicked, kicked,
                   fSleepUntil, pass>>

(* also after a write of the stimecmp CSR;                                 *)
WriteStimecmp(h, d) ==
    /\ hpc[h] = "run"
    /\ ProcessInbox(h)
    /\ stimecmp' = [stimecmp EXCEPT ![h] = d]
    /\ Goto(h, "compare")
    /\ rtcTime' = [rtcTime EXCEPT ![h] = Time]
    /\ cont' = [cont EXCEPT ![h] = "run"]
    /\ UNCHANGED <<clock, lock, clint, wakes, stip, stimer_deadline,
                   power_down_flag, calling, fSTimerKicked, kicked,
                   fSleepUntil, pass>>

(* then it sets STIP or publishes the deadline, *)
Compare(h) ==
    LET due == rtcTime[h] >= stimecmp[h]
        deadline == IF due THEN Never ELSE stimecmp[h]
    IN  /\ hpc[h] = "compare"
        /\ stip' = [stip EXCEPT ![h] = due]
        /\ power_down_flag' = [power_down_flag EXCEPT ![h] = @ /\ ~due]
        /\ stimer_deadline' = [stimer_deadline EXCEPT ![h] = deadline]
        /\ Goto(h, IF deadline < stimer_deadline[h] THEN "changed"
                   ELSE cont[h])
        /\ rtcTime' = [rtcTime EXCEPT ![h] = 0]
        /\ UNCHANGED <<clock, lock, clint, posts, wakes, mtip, stimecmp, cont,
                       calling, fSTimerKicked, kicked, fSleepUntil, pass>>

(* and tells the machine of one that is sooner. *)
STimerChanged(h) ==
    /\ hpc[h] = "changed"
    /\ kicked' = (kicked \/ Kicks(stimer_deadline[h]))
    /\ Goto(h, cont[h])
    /\ UNCHANGED <<clock, lock, clint, posts, wakes, mip, stimer,
                   power_down_flag, rtcTime, cont, calling, fSTimerKicked,
                   fSleepUntil, pass>>

PowerDown(h) ==
    /\ hpc[h] = "inbox"
    /\ ProcessInbox(h)
    /\ power_down_flag' = [power_down_flag EXCEPT ![h] = Asleep(h)]
    /\ Goto(h, IF Asleep(h) THEN "wait" ELSE "interp")
    /\ UNCHANGED <<clock, lock, clint, wakes, stip, stimer, rtcTime, cont,
                   calling, fSTimerKicked, kicked, fSleepUntil, pass>>

HartWakes(h) ==
    /\ hpc[h] = "wait" /\ hartKicked[h]
    /\ hartKicked' = [hartKicked EXCEPT ![h] = FALSE]
    /\ Goto(h, "top")
    /\ UNCHANGED <<clock, lock, clint, posts, exit_request, mip, stimer,
                   power_down_flag, rtcTime, cont, calling, fSTimerKicked,
                   kicked, fSleepUntil, pass>>

(* The top of Interp()'s loop: the inbox, a power down, a request to end.  *)
InterpTop(h) ==
    /\ hpc[h] = "interp"
    /\ ProcessInbox(h)
    /\ power_down_flag' = [power_down_flag EXCEPT ![h] = Asleep(h)]
    /\ exit_request' = [exit_request EXCEPT ![h] = @ /\ Asleep(h)]
    /\ Goto(h, IF Asleep(h) \/ exit_request[h] THEN "top" ELSE "run")
    /\ UNCHANGED <<clock, lock, clint, hartKicked, stip, stimer, rtcTime, cont,
                   calling, fSTimerKicked, kicked, fSleepUntil, pass>>

(* A block of instructions finds something posted, takes a trap, or is the *)
(* last of INTERP_COUNT_LIMIT instructions.                                *)
LeaveBlocks(h) ==
    /\ hpc[h] = "run"
    /\ Goto(h, "interp")
    /\ UNCHANGED <<clock, lock, clint, posts, wakes, mip, stimer,
                   power_down_flag, rtcTime, cont, calling, fSTimerKicked,
                   kicked, fSleepUntil, pass>>

(* A CSR access, or a WFI that does not sleep, takes in what was posted    *)
(* and runs on.                                                            *)
CsrAccess(h) ==
    /\ hpc[h] = "run" /\ inbox_pending[h]
    /\ ProcessInbox(h)
    /\ UNCHANGED <<clock, lock, clint, wakes, stip, stimer, hart, fSTimerKicked,
                   kicked, fSleepUntil, pass>>

(* The guest waits for an interrupt. *)
Wfi(h) ==
    /\ hpc[h] = "run"
    /\ ProcessInbox(h)
    /\ ~(stip[h] \/ mtip'[h])
    /\ power_down_flag' = [power_down_flag EXCEPT ![h] = TRUE]
    /\ Goto(h, "interp")
    /\ UNCHANGED <<clock, lock, clint, wakes, stip, stimer, rtcTime, cont,
                   calling, fSTimerKicked, kicked, fSleepUntil, pass>>

-----------------------------------------------------------------------------
(* The CLINT's registers, which a hart writes with the device lock held.   *)

(* Mutant: the line is lowered but still taken to be up. *)
LowerIrqKeepsState(H) ==
    /\ irq_lines' = [g \in Harts |-> irq_lines[g] /\ g \notin H]
    /\ inbox_pending' = [g \in Harts |-> inbox_pending[g] \/ g \in H]
    /\ hartKicked' = [g \in Harts |-> hartKicked[g] \/ g \in H]
    /\ UNCHANGED fTimerIrq

(* Clint::SetIrq() lowers the timer interrupts of these harts, and wakes   *)
(* them.                                                                   *)
LowerIrq(H) ==
    /\ fTimerIrq' = [g \in Harts |-> fTimerIrq[g] /\ g \notin H]
    /\ irq_lines' = [g \in Harts |-> irq_lines[g] /\ g \notin H]
    /\ inbox_pending' = [g \in Harts |-> inbox_pending[g] \/ g \in H]
    /\ hartKicked' = [g \in Harts |-> hartKicked[g] \/ g \in H]

WriteMtimecmp(h, g, d) ==
    /\ hpc[h] = "run" /\ lock = NoOne
    /\ lock' = h
    /\ fTimecmp' = [fTimecmp EXCEPT ![g] = d]
    /\ LowerIrq({g})
    /\ calling' = [calling EXCEPT ![h] = d]
    /\ Goto(h, "clint")
    /\ UNCHANGED <<clock, exit_request, mip, stimer, power_down_flag, rtcTime,
                   cont, fSTimerKicked, kicked, fSleepUntil, pass>>

(* A write of mtime: every comparison is made again. *)
WriteMtime(h, v) ==
    /\ hpc[h] = "run" /\ lock = NoOne
    /\ lock' = h
    /\ offset' = v - now /\ moved' = TRUE
    /\ LowerIrq(Harts)
    /\ calling' = [calling EXCEPT ![h] = 0]
    /\ Goto(h, "clint")
    /\ UNCHANGED <<now, fTimecmp, exit_request, mip, stimer, power_down_flag,
                   rtcTime, cont, fSTimerKicked, kicked, fSleepUntil, pass>>

ClintTimerChanged(h) ==
    /\ hpc[h] = "clint"
    /\ kicked' = (kicked \/ Kicks(calling[h]))
    /\ calling' = [calling EXCEPT ![h] = Never]
    /\ lock' = NoOne
    /\ Goto(h, "run")
    /\ UNCHANGED <<clock, clint, posts, wakes, mip, stimer, power_down_flag,
                   rtcTime, cont, fSTimerKicked, fSleepUntil, pass>>

-----------------------------------------------------------------------------
(* The machine thread.                                                     *)

UnsetSleepUntil ==
    /\ mpc = "unset"
    /\ mpc' = "lock" /\ fSleepUntil' = Never
    /\ UNCHANGED <<clock, lock, clint, posts, wakes, mip, stimer, hart,
                   fSTimerKicked, kicked, todo, ranAt, delay, wakeAt>>

RunTimers ==
    /\ mpc = "lock" /\ lock = NoOne
    /\ mpc' = "timers" /\ lock' = Thread
    /\ todo' = Harts /\ ranAt' = Time /\ delay' = -1
    /\ UNCHANGED <<clock, clint, posts, wakes, mip, stimer, hart,
                   fSTimerKicked, kicked, fSleepUntil, wakeAt>>

(* Clint::RunTimer(): the next mtimecmp of a hart, Never once it is due.   *)
NextMtimer(h) ==
    IF fTimerIrq[h] \/ ranAt >= fTimecmp[h] THEN Never ELSE fTimecmp[h]

RaisesMtip(h) == ~fTimerIrq[h] /\ ranAt >= fTimecmp[h]

Sooner(a, b) == IF a < 0 \/ b < a THEN b ELSE a

(* Mutant: the machine thread wakes the hart but does not stop its run. *)
RunTimerNoExit(h) ==
    LET due == stimer_deadline[h] <= ranAt
        kick == due /\ stimer_deadline[h] # fSTimerKicked[h]
        next == IF due THEN NextMtimer(h)
                ELSE Min({NextMtimer(h), stimer_deadline[h]})
    IN  /\ mpc = "timers" /\ h \in todo
        /\ todo' = todo \ {h}
        /\ fTimerIrq' = [fTimerIrq EXCEPT ![h] = @ \/ RaisesMtip(h)]
        /\ irq_lines' = [irq_lines EXCEPT ![h] = @ \/ RaisesMtip(h)]
        /\ inbox_pending' = [inbox_pending EXCEPT ![h] = @ \/ RaisesMtip(h)]
        /\ hartKicked' = [hartKicked EXCEPT ![h] = @ \/ RaisesMtip(h) \/ kick]
        /\ fSTimerKicked' = [fSTimerKicked EXCEPT ![h] =
                                IF kick THEN stimer_deadline[h] ELSE @]
        /\ delay' = IF next = Never THEN delay ELSE Sooner(delay, next - ranAt)
        /\ UNCHANGED <<clock, lock, fTimecmp, exit_request, mip, stimer, hart,
                       kicked, fSleepUntil, mpc, ranAt, wakeAt>>

(* One hart: raise MTIP if it is due, wake the hart for a stimecmp that    *)
(* is, once for each, and see what to wait for.                            *)
RunTimer(h) ==
    LET due == stimer_deadline[h] <= ranAt
        kick == due /\ stimer_deadline[h] # fSTimerKicked[h]
        next == IF due THEN NextMtimer(h)
                ELSE Min({NextMtimer(h), stimer_deadline[h]})
    IN  /\ mpc = "timers" /\ h \in todo
        /\ todo' = todo \ {h}
        /\ fTimerIrq' = [fTimerIrq EXCEPT ![h] = @ \/ RaisesMtip(h)]
        /\ irq_lines' = [irq_lines EXCEPT ![h] = @ \/ RaisesMtip(h)]
        /\ inbox_pending' = [inbox_pending EXCEPT ![h] =
                                @ \/ RaisesMtip(h) \/ kick]
        /\ exit_request' = [exit_request EXCEPT ![h] = @ \/ kick]
        /\ hartKicked' = [hartKicked EXCEPT ![h] = @ \/ RaisesMtip(h) \/ kick]
        /\ fSTimerKicked' = [fSTimerKicked EXCEPT ![h] =
                                IF kick THEN stimer_deadline[h] ELSE @]
        /\ delay' = IF next = Never THEN delay ELSE Sooner(delay, next - ranAt)
        /\ UNCHANGED <<clock, lock, fTimecmp, mip, stimer, hart, kicked,
                       fSleepUntil, mpc, ranAt, wakeAt>>

TimersRan ==
    /\ mpc = "timers" /\ todo = {}
    /\ mpc' = "sleep" /\ lock' = NoOne
    /\ UNCHANGED <<clock, clint, posts, wakes, mip, stimer, hart,
                   fSTimerKicked, kicked, fSleepUntil, todo, ranAt, delay,
                   wakeAt>>

SetSleepUntil ==
    /\ mpc = "sleep"
    /\ mpc' = "wait"
    /\ fSleepUntil' = IF delay >= 0 THEN now + delay ELSE fSleepUntil
    /\ UNCHANGED <<clock, lock, clint, posts, wakes, mip, stimer, hart,
                   fSTimerKicked, kicked, todo, ranAt, delay, wakeAt>>

Wait ==
    /\ mpc = "wait"
    /\ mpc' = "waiting"
    /\ wakeAt' = IF delay >= 0 THEN now + delay ELSE Never
    /\ UNCHANGED <<clock, lock, clint, posts, wakes, mip, stimer, hart,
                   fSTimerKicked, kicked, fSleepUntil, todo, ranAt, delay>>

(* No timeout is left to come where the clock ends. *)
WaitReturns ==
    /\ mpc = "waiting"
    /\ kicked \/ (wakeAt # Never /\ (now >= wakeAt \/ now = MaxNow))
    /\ kicked' = FALSE
    /\ mpc' = "unset" /\ ranAt' = 0 /\ delay' = -1 /\ wakeAt' = 0
    /\ UNCHANGED <<clock, lock, clint, posts, wakes, mip, stimer, hart,
                   fSTimerKicked, fSleepUntil, todo>>

-----------------------------------------------------------------------------
HartStep(h) == \/ IdleBegins(h) \/ Compare(h) \/ STimerChanged(h)
               \/ PowerDown(h) \/ HartWakes(h) \/ InterpTop(h)
               \/ ClintTimerChanged(h)

Guest(h) ==
    \/ Wfi(h) \/ CsrAccess(h)
    \/ \E d \in Times \cup {Never} : WriteStimecmp(h, d)
    \/ \E g \in Harts, d \in Times \cup {Never} : WriteMtimecmp(h, g, d)
    \/ \E v \in Times : WriteMtime(h, v)

ThreadStep == \/ UnsetSleepUntil \/ TimersRan \/ SetSleepUntil \/ Wait
              \/ WaitReturns
              \/ \E h \in Harts : RunTimer(h)

Next == \/ Tick \/ RunTimers \/ ThreadStep
        \/ \E h \in Harts : HartStep(h) \/ LeaveBlocks(h) \/ Guest(h)

(* The threads go on, and the machine thread gets a lock that is free      *)
(* again and again.  Nothing is asked of the guest, which may spin, but    *)
(* the interpreter leaves its blocks after INTERP_COUNT_LIMIT instructions *)
(* at the latest.                                                          *)
Fairness == /\ WF_vars(Tick) /\ WF_vars(ThreadStep) /\ SF_vars(RunTimers)
            /\ \A h \in Harts : WF_vars(HartStep(h)) /\ SF_vars(LeaveBlocks(h))

Spec == Init /\ [][Next]_vars
FairSpec == Spec /\ Fairness

-----------------------------------------------------------------------------
(* Properties *)

(* A hart that is not waiting for an interrupt knows of a timer that has   *)
(* fallen due: STIP is up soon after the counter reaches stimecmp, whether *)
(* the hart sleeps in WFI or runs on ("The machine wakes the hart at that  *)
(* time", riscv_cpu_impl.h:139).                                           *)
STimerRaised ==
    \A h \in Harts :
        Time >= stimecmp[h] /\ stimecmp[h] # Never
        ~> stip[h] \/ Time < stimecmp[h] \/ stimecmp[h] = Never

(* It is, as long as mtime only counts. *)
STimerRaisedUnlessMoved ==
    \A h \in Harts :
        Time >= stimecmp[h] /\ stimecmp[h] # Never
        ~> stip[h] \/ Time < stimecmp[h] \/ stimecmp[h] = Never \/ moved

(* The same of mtimecmp and MTIP, which the machine thread raises itself,  *)
(* also when mtime is set back and reaches mtimecmp again; a write to the  *)
(* CLINT lowers MTIP and starts over.                                      *)
MTimerRaised ==
    \A h \in Harts :
        Time >= fTimecmp[h]
        ~> \/ mtip[h] \/ Time < fTimecmp[h]
           \/ \E g \in Harts : hpc[g] = "clint"
=============================================================================
