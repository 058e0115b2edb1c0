------------------------------ MODULE HostWakeup ------------------------------
(***************************************************************************)
(* HostWakeup (platform/posix/host_wakeup.cpp): how one thread sleeps      *)
(* until others kick it.  Kick() takes the mutex only when it sees that    *)
(* the sleeper sleeps, so the question is whether a sleeper can go to      *)
(* sleep on a kick that saw it awake.  The atomics are sequentially        *)
(* consistent, so each load and store is one step.                         *)
(***************************************************************************)
EXTENDS TLAPS

CONSTANTS
    Kickers,    \* threads that kick a HostWakeup
    Sleeper,    \* the one that waits on it
    Nobody      \* holds a mutex that is free

ASSUME KickersAssumption ==
    Sleeper \notin Kickers /\ Nobody \notin Kickers /\ Sleeper # Nobody

VARIABLES
    kicked, sleeping,  \* the atomics
    mutex,             \* holder of the mutex
    kpc,               \* kpc[k]: where k is in Kick()
    wpc,               \* where the sleeper is in Wait()
    timed              \* this Wait() has a timeout

wakeupVars == <<kicked, sleeping, mutex, kpc, wpc, timed>>

WakeupTypeOK ==
    /\ kicked \in BOOLEAN /\ sleeping \in BOOLEAN /\ timed \in BOOLEAN
    /\ mutex \in Kickers \cup {Sleeper, Nobody}
    /\ kpc \in [Kickers -> {"idle", "test", "lock", "notify"}]
    /\ wpc \in {"idle", "set", "check", "blocked", "relock", "timeout",
                "clear", "leave"}

WakeupInit ==
    /\ kicked = FALSE /\ sleeping = FALSE /\ timed = FALSE
    /\ mutex = Nobody
    /\ kpc = [k \in Kickers |-> "idle"]
    /\ wpc = "idle"

-----------------------------------------------------------------------------
(* Kick() *)

Kick(k) ==
    /\ kpc[k] = "idle"
    /\ kicked' = TRUE
    /\ kpc' = [kpc EXCEPT ![k] = "test"]
    /\ UNCHANGED <<sleeping, mutex, wpc, timed>>

KickTest(k) ==
    /\ kpc[k] = "test"
    /\ kpc' = [kpc EXCEPT ![k] = IF sleeping THEN "lock" ELSE "idle"]
    /\ UNCHANGED <<kicked, sleeping, mutex, wpc, timed>>

KickLock(k) ==
    /\ kpc[k] = "lock" /\ mutex = Nobody
    /\ mutex' = k
    /\ kpc' = [kpc EXCEPT ![k] = "notify"]
    /\ UNCHANGED <<kicked, sleeping, wpc, timed>>

(* notify_one() wakes the sleeper if it is blocked; the guard unlocks. *)
KickNotify(k) ==
    /\ kpc[k] = "notify"
    /\ wpc' = IF wpc = "blocked" THEN "relock" ELSE wpc
    /\ mutex' = Nobody
    /\ kpc' = [kpc EXCEPT ![k] = "idle"]
    /\ UNCHANGED <<kicked, sleeping, timed>>

-----------------------------------------------------------------------------
(* Wait(); it holds the mutex from "set" to "leave" but for the cond wait. *)

Wait ==
    /\ wpc = "idle" /\ mutex = Nobody
    /\ mutex' = Sleeper
    /\ wpc' = "set"
    /\ timed' \in BOOLEAN
    /\ UNCHANGED <<kicked, sleeping, kpc>>

SetSleeping ==
    /\ wpc = "set"
    /\ sleeping' = TRUE
    /\ wpc' = "check"
    /\ UNCHANGED <<kicked, mutex, kpc, timed>>

(* The predicate of the condition variable, or its first test by hand: the *)
(* mutex is released and the thread blocks in one step.                    *)
Check ==
    /\ wpc = "check"
    /\ wpc' = IF kicked THEN "clear" ELSE "blocked"
    /\ mutex' = IF kicked THEN mutex ELSE Nobody
    /\ UNCHANGED <<kicked, sleeping, kpc, timed>>

(* A condition variable may wake up for no reason, and for its timeout. *)
CondWakes ==
    /\ wpc = "blocked"
    /\ \/ wpc' = "relock"
       \/ timed /\ wpc' = "timeout"
    /\ UNCHANGED <<kicked, sleeping, mutex, kpc, timed>>

(* After a timeout the predicate is looked at no more. *)
Relock ==
    /\ wpc \in {"relock", "timeout"} /\ mutex = Nobody
    /\ mutex' = Sleeper
    /\ wpc' = IF wpc = "relock" THEN "check" ELSE "clear"
    /\ UNCHANGED <<kicked, sleeping, kpc, timed>>

(* Mutant: the kick is left for the next Wait() to find as well. *)
KickNotCleared ==
    /\ wpc = "clear"
    /\ wpc' = "leave"
    /\ UNCHANGED <<kicked, sleeping, mutex, kpc, timed>>

ClearKicked ==
    /\ wpc = "clear"
    /\ kicked' = FALSE
    /\ wpc' = "leave"
    /\ UNCHANGED <<sleeping, mutex, kpc, timed>>

Leave ==
    /\ wpc = "leave"
    /\ sleeping' = FALSE
    /\ mutex' = Nobody
    /\ wpc' = "idle"
    /\ UNCHANGED <<kicked, kpc, timed>>

-----------------------------------------------------------------------------
KickStep(k) == KickTest(k) \/ KickLock(k) \/ KickNotify(k)
WakeupStep == SetSleeping \/ Check \/ Relock \/ ClearKicked \/ Leave

WakeupNext == \/ \E k \in Kickers : Kick(k) \/ KickStep(k)
        \/ Wait \/ WakeupStep \/ CondWakes

WakeupSpec == WakeupInit /\ [][WakeupNext]_wakeupVars

(* A thread inside a call goes on, and gets the mutex if it is free again  *)
(* and again.  Nothing is assumed of spurious wakeups or timeouts.         *)
WakeupFairSpec == /\ WakeupSpec /\ SF_wakeupVars(WakeupStep)
            /\ \A k \in Kickers : SF_wakeupVars(KickStep(k))

-----------------------------------------------------------------------------
(* Properties *)

(* The mutex is held by whoever is inside, and by one thread. *)
MutexHeld ==
    /\ wpc \in {"set", "check", "clear", "leave"} <=> mutex = Sleeper
    /\ \A k \in Kickers : kpc[k] = "notify" <=> mutex = k

(* One of the two sides sees the other: a sleeper blocked on its condition *)
(* while a kick is pending has a kicker on the way to notify it, so that   *)
(* no kick is slept through.                                               *)
NoKickSleptThrough ==
    wpc = "blocked" /\ kicked =>
        \E k \in Kickers : kpc[k] \in {"test", "lock", "notify"}

(* A sleeper past SetSleeping is seen by every later Kick(). *)
SleepingSeen ==
    wpc \in {"check", "blocked", "relock", "timeout", "clear", "leave"}
        <=> sleeping

(* Why a wait returns. *)
ReturnReason == /\ wpc = "timeout" => timed
                /\ wpc = "clear" => kicked \/ timed

(* The invariant the proofs rest on: the types, who holds the mutex, that  *)
(* a sleeper is seen by every later Kick(), why a wait returns, and        *)
(* NoKickSleptThrough itself.                                              *)
IInv == /\ WakeupTypeOK /\ MutexHeld /\ SleepingSeen /\ ReturnReason
        /\ NoKickSleptThrough

Promise == INSTANCE WakeupContract WITH waiting <- wpc \notin {"idle", "leave"}

(* Kick() and Wait() keep the promise of host_wakeup.h: a wait without a   *)
(* timeout returns for a kick and for nothing else, and a kick before or   *)
(* during a wait ends it.                                                  *)
WakeupImplementsContract == Promise!KSpec

(* The part of it that is about steps. *)
WakeupImplementsSafety == Promise!KSafety

-----------------------------------------------------------------------------
(* For any number of kickers: no kick is slept through, and no step is    *)
(* taken that the contract does not allow.                                 *)

LEMMA InitIInv == WakeupInit => IInv
BY KickersAssumption
DEF WakeupInit, IInv, WakeupTypeOK, MutexHeld, SleepingSeen, ReturnReason,
    NoKickSleptThrough

(* Every step keeps the invariant: a kicker that finds the sleeper awake   *)
(* cannot leave it blocked, since a blocked sleeper has set sleeping.      *)
LEMMA StepIInv == IInv /\ [WakeupNext]_wakeupVars => IInv'
<1> SUFFICES ASSUME IInv, [WakeupNext]_wakeupVars PROVE IInv'
  OBVIOUS
<1> USE KickersAssumption
    DEF IInv, WakeupTypeOK, MutexHeld, SleepingSeen, ReturnReason,
        NoKickSleptThrough
<1>1. ASSUME NEW k \in Kickers, Kick(k) PROVE IInv' BY <1>1 DEF Kick
<1>2. ASSUME NEW k \in Kickers, KickTest(k) PROVE IInv' BY <1>2 DEF KickTest
<1>3. ASSUME NEW k \in Kickers, KickLock(k) PROVE IInv' BY <1>3 DEF KickLock
<1>4. ASSUME NEW k \in Kickers, KickNotify(k) PROVE IInv'
  BY <1>4 DEF KickNotify
<1>5. CASE Wait BY <1>5 DEF Wait
<1>6. CASE SetSleeping BY <1>6 DEF SetSleeping
<1>7. CASE Check BY <1>7 DEF Check
<1>8. CASE CondWakes BY <1>8 DEF CondWakes
<1>9. CASE Relock BY <1>9 DEF Relock
<1>10. CASE ClearKicked BY <1>10 DEF ClearKicked
<1>11. CASE Leave BY <1>11 DEF Leave
<1>12. CASE UNCHANGED wakeupVars BY <1>12 DEF wakeupVars
<1> QED
  BY <1>1, <1>2, <1>3, <1>4, <1>5, <1>6, <1>7, <1>8, <1>9, <1>10, <1>11, <1>12
  DEF WakeupNext, KickStep, WakeupStep

(* The inductive invariant, types included, holds in every state. *)
THEOREM Inductive == WakeupSpec => []IInv
BY InitIInv, StepIInv, PTL DEF WakeupSpec

(* No kick is slept through, however many threads kick and however the     *)
(* loads and stores of Kick() and Wait() interleave.                       *)
THEOREM KickCorrect == WakeupSpec => []NoKickSleptThrough
<1>1. IInv => NoKickSleptThrough BY DEF IInv
<1> QED BY <1>1, Inductive, PTL

(* Every step of HostWakeup is one its contract allows: in particular a    *)
(* wait without a timeout returns only for a kick, and consumes it.        *)
THEOREM Refinement == WakeupSpec => WakeupImplementsSafety
<1>1. WakeupInit => Promise!KInit
  BY DEF WakeupInit, Promise!KInit
<1>2. IInv /\ [WakeupNext]_wakeupVars => [Promise!KNext]_(Promise!kvars)
  <2> SUFFICES ASSUME IInv, [WakeupNext]_wakeupVars
               PROVE Promise!KNext \/ UNCHANGED Promise!kvars
    OBVIOUS
  <2> USE DEF IInv, WakeupTypeOK, Promise!kvars, Promise!KNext
  <2>1. ASSUME NEW k \in Kickers, Kick(k) PROVE Promise!KNext
    BY <2>1 DEF Kick, Promise!KKick
  <2>2. ASSUME NEW k \in Kickers, KickStep(k) PROVE UNCHANGED Promise!kvars
    BY <2>2 DEF KickStep, KickTest, KickLock, KickNotify
  <2>3. CASE Wait BY <2>3 DEF Wait, Promise!KWait
  <2>4. CASE SetSleeping BY <2>4 DEF SetSleeping
  <2>5. CASE Check BY <2>5 DEF Check
  <2>6. CASE CondWakes BY <2>6 DEF CondWakes
  <2>7. CASE Relock BY <2>7 DEF Relock
  <2>8. CASE ClearKicked BY <2>8 DEF ClearKicked, ReturnReason, Promise!KReturn
  <2>9. CASE Leave BY <2>9 DEF Leave
  <2>10. CASE UNCHANGED wakeupVars BY <2>10 DEF wakeupVars
  <2> QED
    BY <2>1, <2>2, <2>3, <2>4, <2>5, <2>6, <2>7, <2>8, <2>9, <2>10
    DEF WakeupNext, WakeupStep
<1> QED
  BY <1>1, <1>2, Inductive, PTL
  DEF WakeupSpec, WakeupImplementsSafety, Promise!KSafety
=============================================================================
