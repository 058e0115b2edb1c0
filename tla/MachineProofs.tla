----------------------------- MODULE MachineProofs -----------------------------
(* For any number of processors, timers and loading devices: no processor  *)
(* runs before the devices have loaded, and Stop() leaves no thread behind *)
(* in device code.                                                         *)
EXTENDS Machine, FiniteSetTheorems, TLAPS

(* The loaders that still hold the start: those that load, and those that  *)
(* failed, which never let go.                                             *)
Holding == {l \in Loaders : loader[l] \in {"loading", "failed"}}

LoaderStates == {"loading", "kick", "done", "failed"}
CpuStates == {"none", "top", "run", "wait", "ended"}

(* The types the argument needs. *)
Types ==
    /\ machine \in Machines /\ cpu \in Cpus
    /\ loader \in [Loaders -> LoaderStates] /\ fStartHolds \in Nat
    /\ cpc \in [Cpus -> CpuStates]
    /\ fProcessorsStarted \in BOOLEAN
    /\ lock \in Callers \cup {Thread, NoOne}

(* fStartHolds counts the holders. *)
Counted == fStartHolds = Cardinality(Holding)

(* The machine thread is past its test of fStartHolds, or was once. *)
StartedWhenFree ==
    mpc = "start" \/ fProcessorsStarted \/ (\E c \in Cpus : cpc[c] # "none")
        => fStartHolds = 0

(* Which processors the machine thread has started and joined, by where it *)
(* is in its loops over them.                                              *)
Loops ==
    /\ cpu <= machine.cpus
    /\ \A c \in Cpus : c > machine.cpus => cpc[c] = "none"
    /\ mpc = "start" => ~fProcessorsStarted
    /\ mpc = "start" => \A c \in Cpus : c >= cpu => cpc[c] = "none"
    /\ mpc = "joining" => \A c \in Cpus : c < cpu => cpc[c] = "ended"
    /\ ~fProcessorsStarted /\ mpc \notin {"start", "ended"} =>
           \A c \in Cpus : cpc[c] = "none"
    /\ mpc = "joining" => fProcessorsStarted

(* Whoever holds the device lock is in device code. *)
Locks ==
    /\ \A c \in Cpus : lock = c => cpc[c] = "run"
    /\ lock = Thread => mpc = "timers"

Ended ==
    /\ main = "stopped" => mpc = "ended"
    /\ main = "new" => mpc = "off"
    /\ mpc = "ended" => \A c \in Cpus : cpc[c] \in {"none", "ended"}

IInv == Types /\ Counted /\ StartedWhenFree /\ Loops /\ Locks /\ Ended

-----------------------------------------------------------------------------
(* The steps, by what they change of all this                              *)

core == <<lock, main, fStartHolds, fProcessorsStarted, machine, mpc, cpu,
          loader, cpc>>

(* Stop() up to its join. *)
MainGoesOn ==
    /\ main # "new" /\ main' \notin {"new", "stopped"}
    /\ UNCHANGED <<lock, fStartHolds, fProcessorsStarted, machine, mpc, cpu,
                   loader, cpc>>

(* The machine thread goes from one of its steps between the loops to      *)
(* another, with or without the lock.                                      *)
Between == {"top", "unset", "lock", "sleep", "wait", "waiting"}

ThreadGoesOn ==
    /\ \/ mpc \in Between /\ mpc' \in Between /\ lock' = lock
       \/ mpc = "lock" /\ mpc' = "timers" /\ lock = NoOne /\ lock' = Thread
       \/ mpc = "timers" /\ mpc' = "sleep" /\ lock' = NoOne
    /\ UNCHANGED <<main, fStartHolds, fProcessorsStarted, machine, cpu,
                   loader, cpc>>

(* A loader goes on, and lets go of the start if it has loaded. *)
LoaderGoesOn(l) ==
    /\ \/ /\ loader[l] = "loading" /\ fStartHolds' = fStartHolds - 1
          /\ \E to \in {"kick", "done"} : loader' = [loader EXCEPT ![l] = to]
       \/ /\ loader[l] = "kick" /\ fStartHolds' = fStartHolds
          /\ loader' = [loader EXCEPT ![l] = "done"]
       \/ /\ loader[l] = "loading" /\ fStartHolds' = fStartHolds
          /\ loader' = [loader EXCEPT ![l] = "failed"]
    /\ UNCHANGED <<lock, main, fProcessorsStarted, machine, mpc, cpu, cpc>>

(* A caller takes the lock, or gives it back. *)
CallerGoesOn(c) ==
    /\ \/ lock = NoOne /\ lock' = c /\ (c \in Cpus => cpc[c] = "run")
       \/ lock = c /\ lock' = NoOne
    /\ UNCHANGED <<main, fStartHolds, fProcessorsStarted, machine, mpc, cpu,
                   loader, cpc>>

CpuGoesOn(c) ==
    /\ cpc[c] \in {"top", "run", "wait"} /\ lock # c
    /\ \E to \in {"top", "run", "wait", "ended"} :
          cpc' = [cpc EXCEPT ![c] = to]
    /\ UNCHANGED <<lock, main, fStartHolds, fProcessorsStarted, machine, mpc,
                   cpu, loader>>

LEMMA Steps ==
    ASSUME IInv, [Next]_vars
    PROVE \/ UNCHANGED core
          \/ Start \/ MainGoesOn \/ StopJoin
          \/ Top \/ ThreadGoesOn \/ StartProcessors \/ JoinProcessors
          \/ \E l \in Loaders : LoaderGoesOn(l)
          \/ \E c \in Callers : CallerGoesOn(c)
          \/ \E c \in Cpus : CpuGoesOn(c)
<1>1. CASE UNCHANGED vars
  BY <1>1 DEF vars, core, main_vars, thread_vars, cpu_vars
<1>2. CASE Tick \/ \E t \in Timers : RunTimer(t)
  BY Zenon, <1>2 DEF Tick, RunTimer, core, main_vars, thread_vars, cpu_vars
<1>3. CASE Stop \/ StopKick \/ StopInterrupt \/ StopWake
  <2>1. CASE Stop
    BY <2>1 DEF Stop, MainGoesOn, thread_vars, cpu_vars
  <2>2. CASE StopKick
    BY <2>2 DEF StopKick, MainGoesOn, thread_vars, cpu_vars
  <2>3. CASE StopInterrupt
    BY <2>3 DEF StopInterrupt, MainGoesOn, thread_vars
  <2>4. CASE StopWake
    BY <2>4 DEF StopWake, MainGoesOn, thread_vars
  <2> QED BY <1>3, <2>1, <2>2, <2>3, <2>4
<1>4. CASE UnsetSleepUntil \/ SetSleepUntil \/ Wait \/ WaitReturns
  BY <1>4 DEF UnsetSleepUntil, SetSleepUntil, Wait, WaitReturns, ThreadGoesOn,
              Between, main_vars, cpu_vars
<1>5. CASE LockTimers \/ RefreshScreen
  BY <1>5 DEF LockTimers, RefreshScreen, ThreadGoesOn, main_vars, cpu_vars
<1>6. ASSUME NEW l \in Loaders,
             ReleaseStart(l) \/ ReleaseKick(l) \/ LoadFails(l)
      PROVE LoaderGoesOn(l)
  <2>1. CASE ReleaseStart(l)
    BY <2>1 DEF ReleaseStart, LoaderGoesOn, main_vars, thread_vars, cpu_vars
  <2>2. CASE ReleaseKick(l)
    BY <2>2 DEF ReleaseKick, LoaderGoesOn, main_vars, thread_vars, cpu_vars
  <2>3. CASE LoadFails(l)
    BY <2>3 DEF LoadFails, LoaderGoesOn, main_vars, thread_vars, cpu_vars
  <2> QED BY <1>6, <2>1, <2>2, <2>3
<1>7. ASSUME NEW c \in Callers,
             \/ KickBefore(c)
             \/ \E t \in machine.timers, d \in now..MaxTime : SetTimer(c, t, d)
      PROVE CallerGoesOn(c)
  BY <1>7 DEF KickBefore, SetTimer, CallerGoesOn, main_vars, thread_vars,
              cpu_vars
<1>8. ASSUME NEW c \in Cpus, CpuStep(c) \/ CpuHalts(c) PROVE CpuGoesOn(c)
  <2>1. cpc[c] # "run" => lock # c BY DEF IInv, Locks
  <2>2. CASE CpuTop(c)
    <3>1. PICK to \in IF fStopRequested THEN {"ended"} ELSE {"run", "wait"} :
              cpc' = [cpc EXCEPT ![c] = to]
      BY <2>2 DEF CpuTop
    <3> QED BY <2>1, <2>2, <3>1 DEF CpuTop, CpuGoesOn, main_vars, thread_vars
  <2>3. CASE CpuExit(c)
    BY <2>3 DEF CpuExit, CpuGoesOn, main_vars, thread_vars
  <2>4. CASE CpuWakes(c)
    BY <2>1, <2>4 DEF CpuWakes, CpuGoesOn, main_vars, thread_vars
  <2>5. CASE CpuHalts(c)
    BY <2>5 DEF CpuHalts, CpuGoesOn, main_vars, thread_vars
  <2> QED BY <1>8, <2>2, <2>3, <2>4, <2>5 DEF CpuStep
<1> QED
  BY Zenon, <1>1, <1>2, <1>3, <1>4, <1>5, <1>6, <1>7, <1>8
     DEF Next, MainStep, ThreadStep

-----------------------------------------------------------------------------
(* Every step keeps the invariant                                          *)

LEMMA CpusOf == ASSUME NEW m \in Machines PROVE m.cpus \in Cpus /\ m.cpus \in Nat
BY MachineAssumption DEF Cpus

(* A loader lets go of the hold it has, and only once. *)
LEMMA CountedKept == ASSUME IInv, [Next]_vars PROVE Counted' /\ fStartHolds' \in Nat
<1>1. /\ loader \in [Loaders -> LoaderStates] /\ fStartHolds \in Nat
      /\ Counted
  BY DEF IInv, Types
<1>2. IsFiniteSet(Holding)
  BY MachineAssumption, FS_Subset DEF Holding
<1>3. ASSUME UNCHANGED <<loader, fStartHolds>>
      PROVE Counted' /\ fStartHolds' \in Nat
  BY <1>1, <1>3 DEF Counted, Holding
<1>4. ASSUME NEW l \in Loaders, LoaderGoesOn(l)
      PROVE Counted' /\ fStartHolds' \in Nat
  <2>1. CASE /\ loader[l] = "loading" /\ fStartHolds' = fStartHolds - 1
             /\ \E to \in {"kick", "done"} :
                    loader' = [loader EXCEPT ![l] = to]
    <3>1. Holding' = Holding \ {l} /\ l \in Holding
      BY <1>1, <2>1 DEF Holding, LoaderStates
    <3>2. Cardinality(Holding') = Cardinality(Holding) - 1
          /\ IsFiniteSet(Holding')
      BY Zenon, <1>2, <3>1, FS_RemoveElement
    <3>3. Cardinality(Holding') \in Nat BY Zenon, <3>2, FS_CardinalityType
    <3> QED BY <1>1, <2>1, <3>2, <3>3 DEF Counted
  <2>2. CASE /\ loader[l] = "kick" /\ fStartHolds' = fStartHolds
             /\ loader' = [loader EXCEPT ![l] = "done"]
    <3>1. Holding' = Holding BY <1>1, <2>2 DEF Holding, LoaderStates
    <3> QED BY <1>1, <2>2, <3>1 DEF Counted
  <2>3. CASE /\ loader[l] = "loading" /\ fStartHolds' = fStartHolds
             /\ loader' = [loader EXCEPT ![l] = "failed"]
    <3>1. Holding' = Holding BY <1>1, <2>3 DEF Holding, LoaderStates
    <3> QED BY <1>1, <2>3, <3>1 DEF Counted
  <2> QED BY <1>4, <2>1, <2>2, <2>3 DEF LoaderGoesOn
<1>5. ASSUME NEW c, CallerGoesOn(c) \/ CpuGoesOn(c)
      PROVE UNCHANGED <<loader, fStartHolds>>
  BY <1>5 DEF CallerGoesOn, CpuGoesOn
<1> QED
  BY Steps, <1>3, <1>4, <1>5
     DEF core, Start, MainGoesOn, StopJoin, Top, ThreadGoesOn,
         StartProcessors, JoinProcessors

LEMMA TypesKept == ASSUME IInv, [Next]_vars PROVE Types'
<1>1. /\ machine \in Machines /\ cpu \in Cpus
      /\ loader \in [Loaders -> LoaderStates] /\ fStartHolds \in Nat
      /\ cpc \in [Cpus -> CpuStates]
      /\ fProcessorsStarted \in BOOLEAN
      /\ lock \in Callers \cup {Thread, NoOne}
  BY DEF IInv, Types
<1>2. CASE UNCHANGED core BY <1>1, <1>2 DEF core, Types
<1>3. CASE Start \/ MainGoesOn \/ StopJoin
  BY <1>1, <1>3 DEF Start, MainGoesOn, StopJoin, Types, thread_vars, cpu_vars
<1>4. CASE Top
  BY <1>1, <1>4, MachineAssumption DEF Top, Types, main_vars, cpu_vars, Cpus
<1>5. CASE ThreadGoesOn BY <1>1, <1>5 DEF ThreadGoesOn, Types
<1>6. CASE StartProcessors
  <2>1. cpu' \in Cpus
    BY <1>1, <1>6, CpusOf, MachineAssumption DEF StartProcessors, NextCpu, Cpus
  <2>2. cpc' \in [Cpus -> CpuStates]
    BY <1>1, <1>6 DEF StartProcessors, CpuStates
  <2> QED BY <1>1, <1>6, <2>1, <2>2 DEF StartProcessors, Types
<1>7. CASE JoinProcessors
  <2>1. cpu' \in Cpus
    BY <1>1, <1>7, CpusOf, MachineAssumption DEF JoinProcessors, NextCpu, Cpus
  <2>2. fProcessorsStarted' \in BOOLEAN BY <1>7 DEF JoinProcessors
  <2> QED BY <1>1, <1>7, <2>1, <2>2 DEF JoinProcessors, Types, cpu_vars
<1>8. ASSUME NEW l \in Loaders, LoaderGoesOn(l) PROVE Types'
  <2>1. PICK to \in LoaderStates : loader' = [loader EXCEPT ![l] = to]
    BY <1>8 DEF LoaderGoesOn, LoaderStates
  <2>2. fStartHolds' \in Nat BY CountedKept
  <2> QED BY <1>1, <1>8, <2>1, <2>2 DEF LoaderGoesOn, Types
<1>9. ASSUME NEW c \in Callers, CallerGoesOn(c) PROVE Types'
  BY <1>1, <1>9 DEF CallerGoesOn, Types
<1>10. ASSUME NEW c \in Cpus, CpuGoesOn(c) PROVE Types'
  <2>1. PICK to \in CpuStates : cpc' = [cpc EXCEPT ![c] = to]
    BY <1>10 DEF CpuGoesOn, CpuStates
  <2> QED BY <1>1, <1>10, <2>1 DEF CpuGoesOn, Types
<1> QED BY Steps, <1>2, <1>3, <1>4, <1>5, <1>6, <1>7, <1>8, <1>9, <1>10

(* Nobody holds the start once a processor is on: a hold is never taken    *)
(* again.                                                                  *)
LEMMA FreeKept == ASSUME IInv, [Next]_vars PROVE StartedWhenFree'
<1>1. /\ cpc \in [Cpus -> CpuStates] /\ cpu \in Cpus /\ fStartHolds \in Nat
      /\ StartedWhenFree
      /\ mpc = "joining" => fProcessorsStarted
      /\ fStartHolds = Cardinality(Holding)
  BY DEF IInv, Types, Counted, Loops
<1>2. ASSUME fStartHolds' = fStartHolds, mpc' # "start" \/ mpc = "start",
             fProcessorsStarted' => fProcessorsStarted, UNCHANGED cpc
      PROVE StartedWhenFree'
  BY Zenon, <1>1, <1>2 DEF StartedWhenFree
<1>3. CASE UNCHANGED core \/ Start \/ MainGoesOn \/ StopJoin \/ ThreadGoesOn
  <2>1. /\ UNCHANGED <<fStartHolds, fProcessorsStarted, cpc>>
        /\ mpc' = mpc \/ mpc' # "start"
    BY <1>3 DEF core, Start, MainGoesOn, StopJoin, ThreadGoesOn, Between,
                thread_vars, cpu_vars
  <2> QED BY <1>2, <2>1
<1>4. CASE Top
  <2>1. /\ UNCHANGED <<fStartHolds, fProcessorsStarted, cpc>>
        /\ mpc' = "start" => fStartHolds = 0
    BY <1>4 DEF Top, cpu_vars
  <2> QED BY <1>1, <2>1 DEF StartedWhenFree
<1>5. CASE StartProcessors
  <2>1. fStartHolds' = fStartHolds /\ mpc = "start"
    BY <1>5 DEF StartProcessors
  <2> QED BY <1>1, <2>1 DEF StartedWhenFree
<1>6. CASE JoinProcessors
  <2>1. fStartHolds' = fStartHolds /\ mpc = "joining"
    BY <1>6 DEF JoinProcessors
  <2> QED BY <1>1, <2>1 DEF StartedWhenFree
<1>7. ASSUME NEW l \in Loaders, LoaderGoesOn(l) PROVE StartedWhenFree'
  <2>1. UNCHANGED <<mpc, fProcessorsStarted, cpc>>
    BY <1>7 DEF LoaderGoesOn
  <2>2. CASE fStartHolds' = fStartHolds BY <1>2, <2>1, <2>2
  <2>3. CASE loader[l] = "loading"
    <3>1. l \in Holding /\ IsFiniteSet(Holding)
      BY <2>3, MachineAssumption, FS_Subset DEF Holding
    <3>2. fStartHolds # 0 BY Zenon, <1>1, <3>1, FS_EmptySet
    <3> QED BY Zenon, <1>1, <2>1, <3>2 DEF StartedWhenFree
  <2> QED BY <1>7, <2>2, <2>3 DEF LoaderGoesOn
<1>8. ASSUME NEW c, CallerGoesOn(c) PROVE StartedWhenFree'
  BY <1>2, <1>8 DEF CallerGoesOn
<1>9. ASSUME NEW c \in Cpus, CpuGoesOn(c) PROVE StartedWhenFree'
  <2>1. fStartHolds' = fStartHolds /\ cpc[c] # "none" BY <1>9 DEF CpuGoesOn
  <2> QED BY <1>1, <2>1 DEF StartedWhenFree
<1> QED BY Steps, <1>3, <1>4, <1>5, <1>6, <1>7, <1>8, <1>9

(* The loops over the processors start each and join each. *)
LEMMA LoopsKept == ASSUME IInv, [Next]_vars PROVE Loops'
<1>1. /\ cpc \in [Cpus -> CpuStates] /\ cpu \in Cpus /\ cpu \in Nat
      /\ machine.cpus \in Cpus /\ machine.cpus \in Nat
      /\ fProcessorsStarted \in BOOLEAN
  BY CpusOf, MachineAssumption DEF IInv, Types, Cpus
<1>2. /\ Loops /\ Ended BY DEF IInv
<1>3. \A c \in Cpus : c \in Nat BY MachineAssumption DEF Cpus
<1>4. ASSUME UNCHANGED <<fProcessorsStarted, machine, cpu, cpc>>,
             \/ mpc' = mpc
             \/ /\ mpc \notin {"start", "joining", "ended"}
                /\ mpc' \notin {"start", "joining", "ended"}
      PROVE Loops'
  BY Zenon, <1>2, <1>4 DEF Loops
<1>5. CASE UNCHANGED core BY <1>4, <1>5 DEF core
<1>6. CASE Start
  <2>1. mpc \notin {"start", "joining", "ended"} /\ mpc' = "top"
        /\ UNCHANGED <<fProcessorsStarted, machine, cpu, cpc>>
    BY <1>2, <1>6 DEF Start, Ended, cpu_vars
  <2> QED BY <1>4, <2>1
<1>7. CASE MainGoesOn \/ StopJoin
  BY <1>4, <1>7 DEF MainGoesOn, StopJoin, thread_vars, cpu_vars
<1>8. CASE Top
  <2>1. UNCHANGED <<fProcessorsStarted, machine, cpc>> /\ cpu' = 1
        /\ mpc = "top"
    BY <1>8 DEF Top, cpu_vars
  <2>2. /\ mpc' = "start" => ~fProcessorsStarted
        /\ mpc' = "joining" => fProcessorsStarted
    BY <1>8 DEF Top
  <2>3. ~fProcessorsStarted => \A c \in Cpus : cpc[c] = "none"
    BY <1>2, <2>1 DEF Loops
  <2>4. \A c \in Cpus : c >= 1 BY DEF Cpus
  <2>5. 1 <= machine.cpus BY <1>1, <2>4
  <2>6. \A c \in Cpus : ~(c < 1) BY <1>3, <2>4
  <2> QED BY Zenon, <1>2, <2>1, <2>2, <2>3, <2>5, <2>6 DEF Loops
<1>9. CASE ThreadGoesOn
  BY <1>4, <1>9 DEF ThreadGoesOn, Between
<1>10. CASE StartProcessors
  <2>1. /\ mpc = "start" /\ UNCHANGED machine
        /\ cpc' = [cpc EXCEPT ![cpu] = "top"]
        /\ fProcessorsStarted' = (cpu = machine.cpus)
        /\ cpu <= machine.cpus
        /\ \A c \in Cpus : c >= cpu => cpc[c] = "none"
    BY <1>2, <1>10 DEF StartProcessors, Loops
  <2>2. CASE cpu < machine.cpus
    <3>1. cpu' = cpu + 1 /\ mpc' = "start"
      BY <1>10, <2>1, <2>2 DEF StartProcessors, NextCpu
    <3> QED BY <1>1, <1>2, <1>3, <2>1, <2>2, <3>1 DEF Loops
  <2>3. CASE ~(cpu < machine.cpus)
    <3>1. cpu' = cpu /\ mpc' = "unset" /\ cpu = machine.cpus
      BY <1>1, <1>10, <2>1, <2>3 DEF StartProcessors, NextCpu
    <3>2. fProcessorsStarted' BY Zenon, <2>1, <3>1
    <3>3. \A c \in Cpus : c > machine.cpus => cpc'[c] = "none"
      BY <1>1, <1>2, <1>3, <2>1, <3>1 DEF Loops
    <3> QED BY Zenon, <2>1, <3>1, <3>2, <3>3 DEF Loops
  <2> QED BY <2>2, <2>3
<1>11. CASE JoinProcessors
  <2>1. /\ mpc = "joining" /\ UNCHANGED <<machine, cpc>>
        /\ cpc[cpu] = "ended"
        /\ fProcessorsStarted' = (cpu < machine.cpus)
        /\ cpu <= machine.cpus
        /\ \A c \in Cpus : c < cpu => cpc[c] = "ended"
    BY <1>2, <1>11 DEF JoinProcessors, Loops, cpu_vars
  <2>2. CASE cpu < machine.cpus
    <3>1. cpu' = cpu + 1 /\ mpc' = "joining"
      BY <1>11, <2>1, <2>2 DEF JoinProcessors, NextCpu
    <3>2. fProcessorsStarted' BY Zenon, <2>1, <2>2
    <3>3. /\ cpu + 1 <= machine.cpus
          /\ \A c \in Cpus : c < cpu + 1 => cpc[c] = "ended"
      BY <1>1, <1>3, <2>1, <2>2
    <3> QED BY Zenon, <1>2, <2>1, <3>1, <3>2, <3>3 DEF Loops
  <2>3. CASE ~(cpu < machine.cpus)
    <3>1. cpu' = cpu /\ mpc' = "ended"
      BY <1>11, <2>1, <2>3 DEF JoinProcessors, NextCpu
    <3> QED BY <1>1, <1>2, <1>3, <2>1, <3>1 DEF Loops
  <2> QED BY <2>2, <2>3
<1>12. ASSUME NEW l, LoaderGoesOn(l) PROVE Loops'
  BY <1>4, <1>12 DEF LoaderGoesOn
<1>13. ASSUME NEW c, CallerGoesOn(c) PROVE Loops'
  BY <1>4, <1>13 DEF CallerGoesOn
<1>14. ASSUME NEW c \in Cpus, CpuGoesOn(c) PROVE Loops'
  <2>1. PICK to : cpc' = [cpc EXCEPT ![c] = to] BY <1>14 DEF CpuGoesOn
  <2>2. /\ cpc[c] \notin {"none", "ended"}
        /\ UNCHANGED <<fProcessorsStarted, machine, mpc, cpu>>
    BY <1>14 DEF CpuGoesOn
  <2> QED BY <1>1, <1>2, <2>1, <2>2 DEF Loops
<1> QED BY Steps, <1>5, <1>6, <1>7, <1>8, <1>9, <1>10, <1>11, <1>12, <1>13,
           <1>14

LEMMA LocksKept == ASSUME IInv, [Next]_vars PROVE Locks'
<1>1. /\ cpc \in [Cpus -> CpuStates] /\ cpu \in Cpus
      /\ lock \in Callers \cup {Thread, NoOne} /\ Locks /\ Loops
  BY DEF IInv, Types
<1>2. /\ Thread \notin Callers /\ NoOne \notin Callers /\ Thread # NoOne
      /\ Cpus \subseteq Callers
  BY MachineAssumption DEF Callers, Cpus
<1>3. ASSUME UNCHANGED <<lock, cpc>>, mpc' = mpc \/ mpc # "timers"
      PROVE Locks'
  BY Zenon, <1>1, <1>3 DEF Locks
<1>4. CASE UNCHANGED core BY <1>3, <1>4 DEF core
<1>5. CASE MainGoesOn \/ StopJoin
  BY <1>3, <1>5 DEF MainGoesOn, StopJoin, thread_vars, cpu_vars
<1>6. CASE Start \/ Top \/ JoinProcessors
  <2>1. UNCHANGED <<lock, cpc>> /\ mpc # "timers"
    BY <1>6 DEF Start, Top, JoinProcessors, cpu_vars, IInv, Ended
  <2> QED BY <1>3, <2>1
<1>7. CASE ThreadGoesOn
  <2>1. UNCHANGED cpc BY <1>7 DEF ThreadGoesOn
  <2>2. CASE mpc \in Between /\ mpc' \in Between /\ lock' = lock
    BY <1>3, <2>1, <2>2 DEF Between
  <2>3. CASE mpc' = "timers" /\ lock' = Thread
    BY <1>2, <2>3 DEF Locks
  <2>4. CASE lock' = NoOne BY <1>2, <2>4 DEF Locks
  <2> QED BY <1>7, <2>2, <2>3, <2>4 DEF ThreadGoesOn
<1>8. CASE StartProcessors
  <2>1. /\ mpc = "start" /\ UNCHANGED lock
        /\ cpc' = [cpc EXCEPT ![cpu] = "top"]
    BY <1>8 DEF StartProcessors
  <2>2. cpc[cpu] = "none"
    BY <1>1, <2>1, MachineAssumption DEF Loops, Cpus
  <2> QED BY <1>1, <2>1, <2>2 DEF Locks
<1>9. ASSUME NEW l, LoaderGoesOn(l) PROVE Locks'
  BY <1>3, <1>9 DEF LoaderGoesOn
<1>10. ASSUME NEW c \in Callers, CallerGoesOn(c) PROVE Locks'
  <2>1. UNCHANGED <<cpc, mpc>> BY <1>10 DEF CallerGoesOn
  <2>2. CASE lock' = c /\ (c \in Cpus => cpc[c] = "run")
    BY <1>2, <2>1, <2>2 DEF Locks
  <2>3. CASE lock' = NoOne BY <1>2, <2>3 DEF Locks
  <2> QED BY <1>10, <2>2, <2>3 DEF CallerGoesOn
<1>11. ASSUME NEW c \in Cpus, CpuGoesOn(c) PROVE Locks'
  <2>1. PICK to : cpc' = [cpc EXCEPT ![c] = to] BY <1>11 DEF CpuGoesOn
  <2>2. lock # c /\ UNCHANGED <<lock, mpc>> BY <1>11 DEF CpuGoesOn
  <2> QED BY <1>1, <2>1, <2>2 DEF Locks
<1> QED BY Steps, <1>4, <1>5, <1>6, <1>7, <1>8, <1>9, <1>10, <1>11

(* The thread that ends has joined the processors it started. *)
LEMMA EndedKept == ASSUME IInv, [Next]_vars PROVE Ended'
<1>1. /\ cpc \in [Cpus -> CpuStates] /\ cpu \in Cpus /\ Ended /\ Loops
  BY DEF IInv, Types
<1>2. ASSUME UNCHANGED <<main, mpc>>, mpc = "ended" => UNCHANGED cpc
      PROVE Ended'
  BY Zenon, <1>1, <1>2 DEF Ended
<1>3. CASE UNCHANGED core BY <1>2, <1>3 DEF core
<1>4. CASE Start
  <2>1. main' = "running" /\ mpc' = "top" BY <1>4 DEF Start
  <2> QED BY <2>1 DEF Ended
<1>5. CASE MainGoesOn BY <1>1, <1>5 DEF MainGoesOn, Ended
<1>6. CASE StopJoin
  BY <1>1, <1>6 DEF StopJoin, Ended, thread_vars, cpu_vars
<1>7. CASE Top
  <2>1. /\ mpc = "top" /\ UNCHANGED <<main, cpc>> /\ main # "new"
        /\ main # "stopped"
    BY <1>1, <1>7 DEF Top, Ended, main_vars, cpu_vars
  <2>2. mpc' = "ended" => ~fProcessorsStarted BY <1>7 DEF Top
  <2>3. mpc' = "ended" => \A c \in Cpus : cpc[c] = "none"
    BY <1>1, <2>1, <2>2 DEF Loops
  <2> QED BY <2>1, <2>3 DEF Ended
<1>8. CASE ThreadGoesOn
  <2>1. /\ mpc \notin {"off", "ended"} /\ mpc' # "ended" /\ main' = main
    BY <1>8 DEF ThreadGoesOn, Between
  <2> QED BY <1>1, <2>1 DEF Ended
<1>9. CASE StartProcessors
  <2>1. mpc = "start" /\ mpc' # "ended" /\ main' = main
    BY <1>9 DEF StartProcessors, NextCpu, main_vars
  <2> QED BY <1>1, <2>1 DEF Ended
<1>10. CASE JoinProcessors
  <2>1. mpc = "joining" /\ UNCHANGED <<main, cpc>> /\ cpc[cpu] = "ended"
    BY <1>10 DEF JoinProcessors, main_vars, cpu_vars
  <2>2. mpc' = "ended" => cpu = machine.cpus
    BY <1>1, <1>10, <2>1, CpusOf, MachineAssumption
       DEF JoinProcessors, NextCpu, Loops, Cpus, IInv, Types
  <2>3. mpc' = "ended" => \A c \in Cpus : cpc[c] \in {"none", "ended"}
    BY <1>1, <2>1, <2>2, MachineAssumption DEF Loops, Cpus
  <2> QED BY <1>1, <2>1, <2>3 DEF Ended
<1>11. ASSUME NEW l, LoaderGoesOn(l) PROVE Ended'
  BY <1>2, <1>11 DEF LoaderGoesOn
<1>12. ASSUME NEW c, CallerGoesOn(c) PROVE Ended'
  BY <1>2, <1>12 DEF CallerGoesOn
<1>13. ASSUME NEW c \in Cpus, CpuGoesOn(c) PROVE Ended'
  <2>1. mpc # "ended" /\ UNCHANGED <<main, mpc>>
    BY <1>1, <1>13 DEF CpuGoesOn, Ended
  <2> QED BY <1>2, <2>1
<1> QED BY Steps, <1>3, <1>4, <1>5, <1>6, <1>7, <1>8, <1>9, <1>10, <1>11,
           <1>12, <1>13

LEMMA Initially == ASSUME Init PROVE IInv
<1>1. machine \in Machines /\ 1 \in Cpus
  BY MachineAssumption DEF Init, Cpus
<1>2. machine.loaders \subseteq Loaders BY <1>1, MachineAssumption
<1>3. Holding = machine.loaders
  BY <1>2 DEF Init, Holding
<1>4. Cardinality(machine.loaders) \in Nat
  BY Zenon, <1>2, MachineAssumption, FS_Subset, FS_CardinalityType
<1>5. Types
  <2>1. loader \in [Loaders -> LoaderStates] BY DEF Init, LoaderStates
  <2>2. cpc \in [Cpus -> CpuStates] BY DEF Init, CpuStates
  <2> QED BY <1>1, <1>4, <2>1, <2>2 DEF Init, Types
<1>6. Counted BY <1>3 DEF Init, Counted
<1>7. \A c \in Cpus : cpc[c] = "none" BY DEF Init
<1>8. StartedWhenFree BY <1>7 DEF Init, StartedWhenFree
<1>9. Loops BY <1>1, <1>7, CpusOf DEF Init, Loops, Cpus
<1>10. Locks /\ Ended
  BY <1>7, MachineAssumption DEF Init, Locks, Ended, Cpus
<1> QED BY <1>5, <1>6, <1>8, <1>9, <1>10 DEF IInv

LEMMA Inductive == ASSUME IInv, [Next]_vars PROVE IInv'
BY TypesKept, CountedKept, FreeKept, LoopsKept, LocksKept, EndedKept DEF IInv

(* No processor runs while a device still loads what the guest may see,    *)
(* and none is left running when Stop() returns, nor is the machine thread *)
(* left with the device lock (machine.cpp: ThreadLoop(), ReleaseStart(),   *)
(* Stop()).                                                                *)
THEOREM StartStopCorrect == Spec => []StartAndStop
<1>1. IInv => StartAndStop
  <2> SUFFICES ASSUME IInv PROVE StartAndStop OBVIOUS
  <2>1. ASSUME fStartHolds = 0
        PROVE \A l \in Loaders : loader[l] \in {"kick", "done"}
    <3>1. Cardinality(Holding) = 0 /\ IsFiniteSet(Holding)
      BY <2>1, MachineAssumption, FS_Subset DEF IInv, Counted, Holding
    <3>2. Holding = {} BY Zenon, <3>1, FS_EmptySet
    <3> QED BY <3>2 DEF IInv, Types, Holding, LoaderStates
  <2>2. main = "stopped" => mpc = "ended"
                            /\ \A c \in Cpus : cpc[c] \in {"none", "ended"}
    BY DEF IInv, Ended
  <2>3. main = "stopped" => lock \in {NoOne, Io}
    BY <2>2 DEF IInv, Locks, Types, Callers
  <2> QED BY <2>1, <2>2, <2>3 DEF IInv, StartedWhenFree, StartAndStop
<1> QED BY Initially, Inductive, <1>1, PTL DEF Spec
=============================================================================
