-------------------------------- MODULE Machine --------------------------------
(***************************************************************************)
(* A machine and its threads (machine/machine.cpp): the machine thread,    *)
(* which starts the processors once nothing holds them back, runs the      *)
(* timers, refreshes the screen and sleeps until the next of these is due; *)
(* one thread per processor, the same loop in x86_machine.cpp and          *)
(* riscv_machine.cpp; the main thread, which starts and stops it all; and  *)
(* the event loop's thread, which like a processor runs device code with   *)
(* the device lock held and may set a timer there.                         *)
(*                                                                         *)
(* A HostWakeup is its pending kick, by WakeupContract: a wait without a   *)
(* timeout returns only on a kick, which it consumes.                      *)
(*                                                                         *)
(* Time saturates at MaxTime, by when every deadline is due.               *)
(***************************************************************************)
EXTENDS Integers, FiniteSets

CONSTANTS
    Machines,   \* the machines to look at
    NCpus, Timers, Loaders,     \* what they may have
    Refresh,    \* SCREEN_REFRESH_US
    MaxTime,    \* bound: deadlines and the clock
    Io, Thread, NoOne   \* the loop's thread, the machine's, a free lock

(* A machine: its processors, 1..cpus; the devices' timers RunTimers()     *)
(* looks at; the devices that hold the start until they have loaded; and   *)
(* whether it has a screen.                                                *)
ASSUME MachineAssumption ==
    /\ Machines \subseteq [cpus : 1..NCpus, timers : SUBSET Timers,
                           loaders : SUBSET Loaders, screen : BOOLEAN]
    /\ NCpus \in Nat \ {0} /\ Refresh \in Nat \ {0} /\ MaxTime \in Nat
    /\ {Io, Thread, NoOne} \cap (1..NCpus) = {}
    /\ Io # Thread /\ Io # NoOne /\ Thread # NoOne
    /\ IsFiniteSet(Loaders)

Cpus == 1..NCpus
Callers == Cpus \cup {Io}     \* threads that run device code
Never == 2 * MaxTime + Refresh + 1   \* UINT64_MAX

VARIABLES
    now,            \* host_monotonic_us()
    lock,           \* holder of the device lock
    main, mainCpu,  \* where the main thread is in Start() and Stop()
    fStopRequested, fStartHolds, fProcessorsStarted, fSleepUntil,
    fNextRefreshUs,
    machine,        \* which one this is
    kicked,         \* fWakeup
    mpc, cpu,       \* where the machine thread is in ThreadLoop()
    todo,           \* the timers RunTimers() has still to look at
    ranAt,          \* the time RunTimers() works with
    delay,          \* -1 for none
    wakeAt,         \* when the wait times out
    loader,         \* where each loader is
    deadline,       \* deadline[t]: when timer t is due, Never if it is not set
    calling,        \* the deadline a caller is about to pass to KickBefore()
    cpc,            \* where each processor's thread is
    exitReq, cpuKicked   \* InterruptRun() and the processor's HostWakeup

main_vars == <<main, mainCpu, fStopRequested>>
thread_vars == <<fProcessorsStarted, fNextRefreshUs, machine, mpc, cpu, todo,
                 ranAt, delay, wakeAt>>
cpu_vars == <<cpc, exitReq, cpuKicked>>
vars == <<now, lock, main_vars, fStartHolds, fSleepUntil, kicked, thread_vars,
          loader, deadline, calling, cpu_vars>>

TypeOK ==
    /\ now \in 0..MaxTime
    /\ lock \in Callers \cup {Thread, NoOne}
    /\ main \in {"new", "running", "kick", "interrupt", "wake", "join", "stopped"}
    /\ mainCpu \in Cpus /\ cpu \in Cpus
    /\ fStopRequested \in BOOLEAN
    /\ fStartHolds \in 0..Cardinality(Loaders)
    /\ fProcessorsStarted \in BOOLEAN /\ machine \in Machines
    /\ fSleepUntil \in 0..Never
    /\ fNextRefreshUs \in 0..(MaxTime + Refresh)
    /\ kicked \in BOOLEAN
    /\ mpc \in {"off", "top", "start", "unset", "lock", "timers", "sleep",
                "wait", "waiting", "joining", "ended"}
    /\ todo \subseteq Timers
    /\ ranAt \in 0..MaxTime /\ delay \in -1..MaxTime
    /\ wakeAt \in 0..Never
    /\ loader \in [Loaders -> {"loading", "kick", "done", "failed"}]
    /\ deadline \in [Timers -> 0..MaxTime \cup {Never}]
    /\ calling \in [Callers -> 0..MaxTime \cup {Never}]
    /\ cpc \in [Cpus -> {"none", "top", "run", "wait", "ended"}]
    /\ exitReq \in [Cpus -> BOOLEAN] /\ cpuKicked \in [Cpus -> BOOLEAN]

Init ==
    /\ machine \in Machines
    /\ now = 0 /\ lock = NoOne
    /\ main = "new" /\ mainCpu = 1 /\ fStopRequested = FALSE
    /\ fStartHolds = Cardinality(machine.loaders)
    /\ fProcessorsStarted = FALSE /\ fSleepUntil = Never
    /\ fNextRefreshUs = 0
    /\ kicked = FALSE /\ mpc = "off" /\ cpu = 1 /\ todo = {}
    /\ ranAt = 0 /\ delay = -1 /\ wakeAt = 0
    /\ loader = [l \in Loaders |-> IF l \in machine.loaders THEN "loading"
                                                          ELSE "done"]
    /\ deadline = [t \in Timers |-> Never]
    /\ calling = [c \in Callers |-> Never]
    /\ cpc = [c \in Cpus |-> "none"]
    /\ exitReq = [c \in Cpus |-> FALSE] /\ cpuKicked = [c \in Cpus |-> FALSE]

Tick == /\ now < MaxTime /\ now' = now + 1
        /\ UNCHANGED <<lock, main_vars, fStartHolds, fSleepUntil, kicked,
                       thread_vars, loader, deadline, calling, cpu_vars>>

-----------------------------------------------------------------------------
(* The main thread.                                                        *)

Start ==
    /\ main = "new"
    /\ main' = "running" /\ fStopRequested' = FALSE
    /\ mpc' = "top"
    /\ UNCHANGED <<now, lock, mainCpu, cpu, fStartHolds, fSleepUntil, kicked,
                   fProcessorsStarted, fNextRefreshUs, machine, todo, ranAt,
                   delay, wakeAt, loader, deadline, calling, cpu_vars>>

Stop ==
    /\ main = "running"
    /\ main' = "kick" /\ fStopRequested' = TRUE
    /\ UNCHANGED <<now, lock, mainCpu, fStartHolds, fSleepUntil, kicked, thread_vars,
                   loader, deadline, calling, cpu_vars>>

StopKick ==
    /\ main = "kick"
    /\ main' = "interrupt" /\ mainCpu' = 1 /\ kicked' = TRUE
    /\ UNCHANGED <<now, lock, fStopRequested, fStartHolds, fSleepUntil,
                   thread_vars, loader, deadline, calling, cpu_vars>>

(* InterruptExecution(): InterruptRun() and then Kick(), for each.         *)
StopInterrupt ==
    /\ main = "interrupt"
    /\ main' = "wake"
    /\ exitReq' = [exitReq EXCEPT ![mainCpu] = TRUE]
    /\ UNCHANGED <<now, lock, mainCpu, fStopRequested, fStartHolds, fSleepUntil, kicked,
                   thread_vars, loader, deadline, calling, cpc, cpuKicked>>

(* Mutant: InterruptExecution() only interrupts the runs. *)
StopWakeForgotten ==
    /\ main = "wake"
    /\ main' = IF mainCpu < machine.cpus THEN "interrupt" ELSE "join"
    /\ mainCpu' = IF mainCpu < machine.cpus THEN mainCpu + 1 ELSE mainCpu
    /\ UNCHANGED <<now, lock, fStopRequested, fStartHolds, fSleepUntil, kicked,
                   thread_vars, loader, deadline, calling, cpu_vars>>

StopWake ==
    /\ main = "wake"
    /\ main' = IF mainCpu < machine.cpus THEN "interrupt" ELSE "join"
    /\ mainCpu' = IF mainCpu < machine.cpus THEN mainCpu + 1 ELSE mainCpu
    /\ cpuKicked' = [cpuKicked EXCEPT ![mainCpu] = TRUE]
    /\ UNCHANGED <<now, lock, fStopRequested, fStartHolds, fSleepUntil, kicked,
                   thread_vars, loader, deadline, calling, cpc, exitReq>>

StopJoin ==
    /\ main = "join" /\ mpc = "ended"
    /\ main' = "stopped"
    /\ UNCHANGED <<now, lock, mainCpu, fStopRequested, fStartHolds, fSleepUntil, kicked,
                   thread_vars, loader, deadline, calling, cpu_vars>>

-----------------------------------------------------------------------------
(* Devices that hold the start (cfi_flash.cpp).  HoldStart() comes before  *)
(* Start() and is in Init; the load ends on the event loop's thread.       *)

(* Mutant: the last ReleaseStart() does not kick. *)
ReleaseSilently(l) ==
    /\ loader[l] = "loading" /\ main # "new"
    /\ fStartHolds' = fStartHolds - 1
    /\ loader' = [loader EXCEPT ![l] = "done"]
    /\ UNCHANGED <<now, lock, main_vars, fSleepUntil, kicked, thread_vars,
                   deadline, calling, cpu_vars>>

ReleaseStart(l) ==
    /\ loader[l] = "loading" /\ main # "new"
    /\ fStartHolds' = fStartHolds - 1
    /\ loader' = [loader EXCEPT ![l] = IF fStartHolds = 1 THEN "kick"
                                       ELSE "done"]
    /\ UNCHANGED <<now, lock, main_vars, fSleepUntil, kicked, thread_vars,
                   deadline, calling, cpu_vars>>

ReleaseKick(l) ==
    /\ loader[l] = "kick"
    /\ loader' = [loader EXCEPT ![l] = "done"]
    /\ kicked' = TRUE
    /\ UNCHANGED <<now, lock, main_vars, fStartHolds, fSleepUntil, thread_vars,
                   deadline, calling, cpu_vars>>

(* The load fails: the hold stays and a shutdown is requested. *)
LoadFails(l) ==
    /\ loader[l] = "loading" /\ main # "new"
    /\ loader' = [loader EXCEPT ![l] = "failed"]
    /\ UNCHANGED <<now, lock, main_vars, fStartHolds, fSleepUntil, kicked,
                   thread_vars, deadline, calling, cpu_vars>>
-----------------------------------------------------------------------------
(* Device code that sets a timer, on a processor's thread or the loop's,   *)
(* and then tells the machine.                                             *)

SetTimer(c, t, d) ==
    /\ lock = NoOne /\ (c \in Cpus => cpc[c] = "run")
    /\ lock' = c
    /\ deadline' = [deadline EXCEPT ![t] = d]
    /\ calling' = [calling EXCEPT ![c] = d]
    /\ UNCHANGED <<now, main_vars, fStartHolds, fSleepUntil, kicked,
                   thread_vars, loader, cpu_vars>>

KickBefore(c) ==
    /\ lock = c
    /\ kicked' = (kicked \/ calling[c] < fSleepUntil)
    /\ calling' = [calling EXCEPT ![c] = Never]
    /\ lock' = NoOne
    /\ UNCHANGED <<now, main_vars, fStartHolds, fSleepUntil, thread_vars,
                   loader, deadline, cpu_vars>>

-----------------------------------------------------------------------------
(* The processors' threads.                                                *)

(* The loop's test, and Idle(): whatever makes it false kicks afterwards.  *)
CpuTop(c) ==
    /\ cpc[c] = "top"
    /\ \E next \in IF fStopRequested THEN {"ended"} ELSE {"run", "wait"} :
          cpc' = [cpc EXCEPT ![c] = next]
    /\ UNCHANGED <<now, lock, main_vars, fStartHolds, fSleepUntil, kicked,
                   thread_vars, loader, deadline, calling, exitReq, cpuKicked>>

(* Run() ends soon after InterruptRun(), *)
CpuExit(c) ==
    /\ cpc[c] = "run" /\ lock # c /\ exitReq[c]
    /\ cpc' = [cpc EXCEPT ![c] = "top"]
    /\ exitReq' = [exitReq EXCEPT ![c] = FALSE]
    /\ UNCHANGED <<now, lock, main_vars, fStartHolds, fSleepUntil, kicked,
                   thread_vars, loader, deadline, calling, cpuKicked>>

(* or when the processor halts, which leaves the request for the next run. *)
CpuHalts(c) ==
    /\ cpc[c] = "run" /\ lock # c
    /\ cpc' = [cpc EXCEPT ![c] = "top"]
    /\ UNCHANGED <<now, lock, main_vars, fStartHolds, fSleepUntil, kicked,
                   thread_vars, loader, deadline, calling, exitReq, cpuKicked>>

CpuWakes(c) ==
    /\ cpc[c] = "wait" /\ cpuKicked[c]
    /\ cpc' = [cpc EXCEPT ![c] = "top"]
    /\ cpuKicked' = [cpuKicked EXCEPT ![c] = FALSE]
    /\ UNCHANGED <<now, lock, main_vars, fStartHolds, fSleepUntil, kicked,
                   thread_vars, loader, deadline, calling, exitReq>>

-----------------------------------------------------------------------------
(* The machine thread.                                                     *)

(* Mutant: the processors start whatever the holds. *)
TopIgnoresHolds ==
    /\ mpc = "top"
    /\ mpc' = IF fStopRequested
              THEN IF fProcessorsStarted THEN "joining" ELSE "ended"
              ELSE IF ~fProcessorsStarted
                   THEN "start" ELSE "unset"
    /\ cpu' = 1
    /\ UNCHANGED <<now, lock, main_vars, fStartHolds, fSleepUntil, kicked,
                   fProcessorsStarted, fNextRefreshUs, machine, todo, ranAt,
                   delay, wakeAt, loader, deadline, calling, cpu_vars>>

Top ==
    /\ mpc = "top"
    /\ mpc' = IF fStopRequested
              THEN IF fProcessorsStarted THEN "joining" ELSE "ended"
              ELSE IF ~fProcessorsStarted /\ fStartHolds = 0
                   THEN "start" ELSE "unset"
    /\ cpu' = 1
    /\ UNCHANGED <<now, lock, main_vars, fStartHolds, fSleepUntil, kicked,
                   fProcessorsStarted, fNextRefreshUs, machine, todo, ranAt,
                   delay, wakeAt, loader, deadline, calling, cpu_vars>>

(* The loops over the processors, one at a time. *)
NextCpu(after) ==
    IF cpu < machine.cpus THEN cpu' = cpu + 1 /\ UNCHANGED mpc
    ELSE mpc' = after /\ UNCHANGED cpu

StartProcessors ==
    /\ mpc = "start"
    /\ cpc' = [cpc EXCEPT ![cpu] = "top"]
    /\ NextCpu("unset")
    /\ fProcessorsStarted' = (cpu = machine.cpus)
    /\ UNCHANGED <<now, lock, main_vars, fStartHolds, fSleepUntil, kicked,
                   fNextRefreshUs, machine, todo, ranAt, delay, wakeAt,
                   loader, deadline, calling, exitReq, cpuKicked>>

(* Mutant: fSleepUntil keeps the end of the last sleep. *)
SleepUntilKept ==
    /\ mpc = "unset"
    /\ mpc' = "lock"
    /\ UNCHANGED <<now, lock, main_vars, fStartHolds, fSleepUntil, kicked,
                   cpu, fProcessorsStarted, fNextRefreshUs, machine, todo, ranAt,
                   delay, wakeAt, loader, deadline, calling, cpu_vars>>

UnsetSleepUntil ==
    /\ mpc = "unset"
    /\ fSleepUntil' = Never
    /\ mpc' = "lock"
    /\ UNCHANGED <<now, lock, main_vars, fStartHolds, kicked,
                   cpu, fProcessorsStarted, fNextRefreshUs, machine, todo, ranAt,
                   delay, wakeAt, loader, deadline, calling, cpu_vars>>

LockTimers ==
    /\ mpc = "lock" /\ lock = NoOne
    /\ lock' = Thread
    /\ mpc' = "timers"
    /\ todo' = machine.timers /\ ranAt' = now /\ delay' = -1
    /\ UNCHANGED <<now, main_vars, fStartHolds, fSleepUntil, kicked,
                   cpu, fProcessorsStarted, fNextRefreshUs, machine, wakeAt,
                   loader, deadline, calling, cpu_vars>>

Sooner(a, b) == IF a < 0 \/ (b >= 0 /\ b < a) THEN b ELSE a

(* One timer: it is run if it is due, and is otherwise waited for. *)
RunTimer(t) ==
    /\ mpc = "timers" /\ t \in todo
    /\ todo' = todo \ {t}
    /\ IF deadline[t] <= ranAt
       THEN deadline' = [deadline EXCEPT ![t] = Never] /\ UNCHANGED delay
       ELSE /\ delay' = IF deadline[t] = Never THEN delay
                        ELSE Sooner(delay, deadline[t] - ranAt)
            /\ UNCHANGED deadline
    /\ UNCHANGED <<now, lock, main_vars, fStartHolds, fSleepUntil, kicked,
                   cpu, fProcessorsStarted, fNextRefreshUs, machine, mpc, ranAt,
                   wakeAt, loader, calling, cpu_vars>>

RefreshScreen ==
    /\ mpc = "timers" /\ todo = {}
    /\ fNextRefreshUs' = IF machine.screen /\ now >= fNextRefreshUs
                         THEN now + Refresh ELSE fNextRefreshUs
    /\ delay' = IF machine.screen THEN Sooner(fNextRefreshUs' - now, delay) ELSE delay
    /\ lock' = NoOne
    /\ mpc' = "sleep"
    /\ UNCHANGED <<now, main_vars, fStartHolds, fSleepUntil, kicked,
                   cpu, fProcessorsStarted, machine, todo, ranAt, wakeAt,
                   loader, deadline, calling, cpu_vars>>

SetSleepUntil ==
    /\ mpc = "sleep"
    /\ fSleepUntil' = IF delay >= 0 THEN now + delay ELSE fSleepUntil
    /\ mpc' = "wait"
    /\ UNCHANGED <<now, lock, main_vars, fStartHolds, kicked,
                   cpu, fProcessorsStarted, fNextRefreshUs, machine, todo, ranAt,
                   delay, wakeAt, loader, deadline, calling, cpu_vars>>

Wait ==
    /\ mpc = "wait"
    /\ mpc' = "waiting"
    /\ wakeAt' = IF delay >= 0 THEN now + delay ELSE Never
    /\ UNCHANGED <<now, lock, main_vars, fStartHolds, fSleepUntil, kicked,
                   cpu, fProcessorsStarted, fNextRefreshUs, machine, todo, ranAt,
                   delay, loader, deadline, calling, cpu_vars>>

(* The clock ends at MaxTime, where no timeout is left to come. *)
TimedOut == wakeAt # Never /\ (now >= wakeAt \/ now = MaxTime)

(* What the pass worked out is dead once the wait returns. *)
WaitReturns ==
    /\ mpc = "waiting" /\ (kicked \/ TimedOut)
    /\ kicked' = FALSE
    /\ mpc' = "top"
    /\ ranAt' = 0 /\ delay' = -1 /\ wakeAt' = 0
    /\ UNCHANGED <<now, lock, main_vars, fStartHolds, fSleepUntil, cpu,
                   fProcessorsStarted, fNextRefreshUs, machine, todo, loader,
                   deadline, calling, cpu_vars>>

JoinProcessors ==
    /\ mpc = "joining" /\ cpc[cpu] = "ended"
    /\ NextCpu("ended")
    /\ fProcessorsStarted' = (cpu < machine.cpus)
    /\ UNCHANGED <<now, lock, main_vars, fStartHolds, fSleepUntil, kicked,
                   fNextRefreshUs, machine, todo, ranAt, delay, wakeAt,
                   loader, deadline, calling, cpu_vars>>

-----------------------------------------------------------------------------
MainStep == StopKick \/ StopInterrupt \/ StopWake \/ StopJoin

ThreadStep == \/ Top \/ UnsetSleepUntil \/ RefreshScreen \/ SetSleepUntil
              \/ Wait \/ WaitReturns \/ StartProcessors \/ JoinProcessors
              \/ \E t \in Timers : RunTimer(t)

CpuStep(c) == CpuTop(c) \/ CpuExit(c) \/ CpuWakes(c)

Next ==
    \/ Tick \/ Start \/ Stop \/ MainStep \/ ThreadStep \/ LockTimers
    \/ \E l \in Loaders : ReleaseStart(l) \/ ReleaseKick(l) \/ LoadFails(l)
    \/ \E c \in Callers : KickBefore(c)
    \/ \E c \in Callers, t \in machine.timers, d \in now..MaxTime : SetTimer(c, t, d)
    \/ \E c \in Cpus : CpuStep(c) \/ CpuHalts(c)

(* Threads go on, time passes, and the machine thread gets a device lock   *)
(* that is free again and again.  A guest need not halt.                   *)
Fairness ==
    /\ WF_vars(Tick) /\ WF_vars(MainStep) /\ WF_vars(ThreadStep)
    /\ SF_vars(LockTimers)
    /\ \A l \in Loaders : WF_vars(ReleaseKick(l))
    /\ \A c \in Callers : WF_vars(KickBefore(c))
    /\ \A c \in Cpus : SF_vars(CpuStep(c))

Spec == Init /\ [][Next]_vars
FairSpec == Spec /\ Fairness

-----------------------------------------------------------------------------
(* Properties *)

(* No processor runs while a device still loads what the guest may see;    *)
(* and when Stop() returns no thread of the machine is left in device      *)
(* code, so the devices may be taken apart (temu.cpp).                     *)
StartAndStop ==
    /\ (\E c \in Cpus : cpc[c] # "none") =>
        \A l \in Loaders : loader[l] \in {"kick", "done"}
    /\ main = "stopped" =>
        /\ mpc = "ended" /\ \A c \in Cpus : cpc[c] \in {"none", "ended"}
        /\ lock \in {NoOne, Io}

(* Stop() returns, wherever the threads were: about to sleep, asleep       *)
(* without a timeout, running, or not started yet.                         *)
StopReturns == main = "kick" ~> main = "stopped"

(* Every timer that is set is run, or cut off by Stop(): a set one is due  *)
(* at the end of time, however often it is set again.                      *)
TimerRuns ==
    \A t \in Timers :
        deadline[t] # Never /\ mpc # "off"
            ~> deadline[t] = Never \/ fStopRequested

(* Once the last hold is gone the processors start, though nothing else    *)
(* would wake the machine thread.                                          *)
ProcessorsStart ==
    main = "running" /\ fStartHolds = 0 ~> fProcessorsStarted \/ fStopRequested
=============================================================================
