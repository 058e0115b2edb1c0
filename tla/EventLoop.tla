------------------------------- MODULE EventLoop -------------------------------
(***************************************************************************)
(* The event loop (platform/common/event_loop.cpp) and its POSIX wait      *)
(* (platform/posix/event_loop_wait.cpp): one thread that prepares the poll *)
(* sources with the device lock held, sleeps in select(), drains its own   *)
(* wake pipe, and dispatches the sources with the lock held again.         *)
(*                                                                         *)
(* Other threads give a source something to do and then call Wake().       *)
(* Wake() writes to the pipe only when fWakePending was clear, so the      *)
(* question is whether the byte it saved can be missed.                    *)
(***************************************************************************)
EXTENDS Naturals

CONSTANTS
    Sources,    \* the poll sources
    Wakers,     \* threads that post work to a source and call Wake()
    Lockers,    \* those that do it with the device lock held (processors)
    Loop, Main, \* the loop's own thread; the thread that starts and stops it
    NoOne       \* holds a lock that is free

ASSUME ThreadsAssumption ==
    /\ Lockers \subseteq Wakers
    /\ Loop \notin Wakers /\ Main \notin Wakers /\ Main # Loop
    /\ NoOne \notin Wakers \cup {Loop, Main}

Threads == Wakers \cup {Loop, Main}

VARIABLES
    lock,           \* holder of the device lock
    fStopRequested,
    fWakePending,
    pipe,           \* bytes in the wake pipe
    posted,         \* posted[s]: source s has work for its next Dispatch()
    pc,             \* pc[t]: where thread t is in its call
    lpc,            \* where the loop's thread is in ThreadLoop() and Wait()
    todo,           \* the sources still to prepare, or to dispatch
    zero,           \* a source set the timeout to 0
    owed            \* history: Wake() was called since the last preparation

vars == <<lock, fStopRequested, fWakePending, pipe, posted, pc, lpc, todo,
          zero, owed>>

LoopPcs == {"exit", "top", "lock1", "prepare", "select", "drain", "clear",
            "lock2", "dispatch"}

TypeOK ==
    /\ lock \in Threads \cup {NoOne}
    /\ fStopRequested \in BOOLEAN /\ fWakePending \in BOOLEAN
    /\ pipe \in 0..1
    /\ posted \in [Sources -> BOOLEAN]
    /\ pc \in [Threads -> {"idle", "exchange", "write", "join", "running"}]
    /\ lpc \in LoopPcs
    /\ todo \subseteq Sources
    /\ zero \in BOOLEAN /\ owed \in BOOLEAN

Init ==
    /\ lock = NoOne
    /\ fStopRequested = FALSE /\ fWakePending = FALSE
    /\ pipe = 0
    /\ posted = [s \in Sources |-> FALSE]
    /\ pc = [t \in Threads |-> "idle"]
    /\ lpc = "exit"
    /\ todo = {}
    /\ zero = FALSE /\ owed = FALSE

-----------------------------------------------------------------------------
(* Starting and stopping, on the thread that set things up.  For Main,     *)
(* "idle" is a loop that is not joinable and "running" one that is.        *)

Start ==
    /\ pc[Main] = "idle"
    /\ pc' = [pc EXCEPT ![Main] = "running"]
    /\ fStopRequested' = FALSE
    /\ lpc' = "top"
    /\ UNCHANGED <<lock, fWakePending, pipe, posted, todo, zero, owed>>

(* Mutant: Stop() goes straight to the join. *)
StopWithoutWake ==
    /\ pc[Main] = "running"
    /\ fStopRequested' = TRUE
    /\ pc' = [pc EXCEPT ![Main] = "join"]
    /\ UNCHANGED <<lock, fWakePending, pipe, posted, lpc, todo, zero, owed>>

(* Stop() up to its Wake(). *)
Stop ==
    /\ pc[Main] = "running"
    /\ fStopRequested' = TRUE
    /\ pc' = [pc EXCEPT ![Main] = "exchange"]
    /\ UNCHANGED <<lock, fWakePending, pipe, posted, lpc, todo, zero, owed>>

(* fThread.join() returns once the thread has ended. *)
Join ==
    /\ pc[Main] = "join" /\ lpc = "exit"
    /\ pc' = [pc EXCEPT ![Main] = "idle"]
    /\ UNCHANGED <<lock, fStopRequested, fWakePending, pipe, posted, lpc, todo,
                   zero, owed>>

-----------------------------------------------------------------------------
(* Wake().                                                                 *)

(* A thread gives source s work, as the block worker does when a request   *)
(* finishes or a processor when it arms a timer, and goes on to Wake().    *)
Post(w, s) ==
    /\ pc[w] = "idle"
    /\ w \in Lockers => lock = NoOne
    /\ lock' = IF w \in Lockers THEN w ELSE lock
    /\ posted' = [posted EXCEPT ![s] = TRUE]
    /\ pc' = [pc EXCEPT ![w] = "exchange"]
    /\ UNCHANGED <<fStopRequested, fWakePending, pipe, lpc, todo, zero, owed>>

(* The end of Wake(): Main goes on to join; a processor drops the lock.    *)
WakeReturns(t) ==
    /\ pc' = [pc EXCEPT ![t] = IF t = Main THEN "join" ELSE "idle"]
    /\ lock' = IF lock = t /\ t \in Wakers THEN NoOne ELSE lock

(* Mutant: Wake() writes without looking at what the flag was. *)
ExchangeAlwaysWrites(t) ==
    /\ pc[t] = "exchange"
    /\ fWakePending' = TRUE
    /\ owed' = TRUE
    /\ pc' = [pc EXCEPT ![t] = "write"]
    /\ UNCHANGED <<lock, fStopRequested, pipe, posted, lpc, todo, zero>>

Exchange(t) ==
    /\ pc[t] = "exchange"
    /\ fWakePending' = TRUE
    /\ owed' = TRUE
    /\ IF fWakePending THEN WakeReturns(t)
       ELSE pc' = [pc EXCEPT ![t] = "write"] /\ UNCHANGED lock
    /\ UNCHANGED <<fStopRequested, pipe, posted, lpc, todo, zero>>

Write(t) ==
    /\ pc[t] = "write"
    /\ pipe' = pipe + 1
    /\ WakeReturns(t)
    /\ UNCHANGED <<fStopRequested, fWakePending, posted, lpc, todo, zero, owed>>

-----------------------------------------------------------------------------
(* ThreadLoop() and Wait(), on the loop's thread.                          *)

Top ==
    /\ lpc = "top"
    /\ lpc' = IF fStopRequested THEN "exit" ELSE "lock1"
    /\ UNCHANGED <<lock, fStopRequested, fWakePending, pipe, posted, pc, todo,
                   zero, owed>>

LockPrepare ==
    /\ lpc = "lock1" /\ lock = NoOne
    /\ lock' = Loop
    /\ lpc' = "prepare"
    /\ todo' = Sources
    /\ zero' = FALSE
    /\ owed' = FALSE
    /\ UNCHANGED <<fStopRequested, fWakePending, pipe, posted, pc>>

Prepare(s) ==
    /\ lpc = "prepare" /\ s \in todo
    /\ todo' = todo \ {s}
    /\ zero' = (zero \/ posted[s])
    /\ UNCHANGED <<lock, fStopRequested, fWakePending, pipe, posted, pc, lpc,
                   owed>>

UnlockPrepare ==
    /\ lpc = "prepare" /\ todo = {}
    /\ lock' = NoOne
    /\ lpc' = "select"
    /\ UNCHANGED <<fStopRequested, fWakePending, pipe, posted, pc, todo, zero,
                   owed>>

(* select() returns for the pipe, or at once when the timeout is 0. *)
SelectReady ==
    /\ lpc = "select" /\ (pipe > 0 \/ zero)
    /\ lpc' = IF pipe > 0 THEN "drain" ELSE "lock2"
    /\ UNCHANGED <<lock, fStopRequested, fWakePending, pipe, posted, pc, todo,
                   zero, owed>>

(* It may also return for another descriptor, for the idle timeout, or be  *)
(* interrupted by a signal, when no descriptor counts as readable.         *)
SelectOther ==
    /\ lpc = "select"
    /\ lpc' = "lock2"
    /\ UNCHANGED <<lock, fStopRequested, fWakePending, pipe, posted, pc, todo,
                   zero, owed>>

Drain ==
    /\ lpc = "drain"
    /\ pipe' = 0
    /\ lpc' = "clear"
    /\ UNCHANGED <<lock, fStopRequested, fWakePending, posted, pc, todo, zero,
                   owed>>

(* Mutant: fWakePending is not reset. *)
PendingNotCleared ==
    /\ lpc = "clear"
    /\ lpc' = "lock2"
    /\ UNCHANGED <<lock, fStopRequested, fWakePending, pipe, posted, pc, todo,
                   zero, owed>>

ClearPending ==
    /\ lpc = "clear"
    /\ fWakePending' = FALSE
    /\ lpc' = "lock2"
    /\ UNCHANGED <<lock, fStopRequested, pipe, posted, pc, todo, zero, owed>>

LockDispatch ==
    /\ lpc = "lock2" /\ lock = NoOne
    /\ lock' = Loop
    /\ lpc' = "dispatch"
    /\ todo' = Sources
    /\ UNCHANGED <<fStopRequested, fWakePending, pipe, posted, pc, zero, owed>>

(* Dispatch() does the source's work; what that sets off may call Wake()   *)
(* on this very thread, as arming another timer does.                      *)
Dispatch(s) ==
    /\ lpc = "dispatch" /\ s \in todo /\ pc[Loop] = "idle"
    /\ todo' = todo \ {s}
    /\ posted' = [posted EXCEPT ![s] = FALSE]
    /\ \/ UNCHANGED pc
       \/ pc' = [pc EXCEPT ![Loop] = "exchange"]
    /\ UNCHANGED <<lock, fStopRequested, fWakePending, pipe, lpc, zero, owed>>

UnlockDispatch ==
    /\ lpc = "dispatch" /\ todo = {} /\ pc[Loop] = "idle"
    /\ lock' = NoOne
    /\ lpc' = "top"
    /\ UNCHANGED <<fStopRequested, fWakePending, pipe, posted, pc, todo, zero,
                   owed>>

-----------------------------------------------------------------------------
WaitStep == \/ Top \/ UnlockPrepare \/ SelectReady \/ Drain \/ ClearPending
            \/ UnlockDispatch
            \/ \E s \in Sources : Prepare(s) \/ Dispatch(s)

Next == \/ Start \/ Stop \/ Join
        \/ \E w \in Wakers, s \in Sources : Post(w, s)
        \/ \E t \in Threads : Exchange(t) \/ Write(t)
        \/ WaitStep \/ LockPrepare \/ LockDispatch \/ SelectOther

(* A thread inside a call goes on; a mutex is handed to the loop if it is  *)
(* free again and again.  Nothing is assumed of SelectOther: what is shown *)
(* does not rest on the idle timeout.                                      *)
Fairness == /\ WF_vars(Join) /\ WF_vars(WaitStep)
            /\ SF_vars(LockPrepare) /\ SF_vars(LockDispatch)
            /\ \A t \in Threads : WF_vars(Exchange(t) \/ Write(t))

Spec == Init /\ [][Next]_vars
FairSpec == Spec /\ Fairness

-----------------------------------------------------------------------------
(* Properties *)

Writing == {t \in Threads : pc[t] = "write"}

(* Whoever finds fWakePending clear owes the pipe one byte, and nobody     *)
(* else writes one until the loop has drained it and cleared the flag.     *)
(* Hence the pipe never holds two bytes (TypeOK), and Wake()'s "the pipe   *)
(* is full" never happens.                                                 *)
WakeToken ==
    /\ \A t, u \in Writing : t = u
    /\ pipe = 1 => Writing = {}
    /\ lpc = "drain" => pipe = 1
    /\ lpc = "clear" => fWakePending /\ pipe = 0 /\ Writing = {}
    /\ ~fWakePending => pipe = 0 /\ Writing = {}
    /\ fWakePending /\ lpc # "clear" => pipe = 1 \/ Writing # {}

(* No wakeup is lost: when the loop sleeps and Wake() was called since it  *)
(* prepared the sources, the pipe is readable or a thread is about to make *)
(* it so (the test of fWakePending in Wake() against the drain in Wait()). *)
NoLostWakeup ==
    lpc = "select" /\ owed => pipe = 1 \/ Writing # {}

(* The loop never sleeps on work: if a source has something to dispatch    *)
(* while the loop is in select(), the timeout is 0, the pipe is readable,  *)
(* or whoever posted it is still on the way to waking the loop.            *)
NeverSleepsOnWork ==
    \A s \in Sources :
        lpc = "select" /\ posted[s] =>
            \/ zero \/ pipe = 1
            \/ \E t \in Threads : pc[t] \in {"exchange", "write"}

(* Stop() returns: the loop sees fStopRequested without waiting for the    *)
(* idle timeout, even when its Wake() finds fWakePending already set.      *)
StopReturns == pc[Main] = "join" ~> pc[Main] = "idle"

Contract == INSTANCE LoopContract WITH
    phase <- CASE lpc = "exit" -> "off"
               [] lpc \in {"top", "lock1"} -> "top"
               [] lpc \in {"prepare", "select"} -> "wait"
               [] OTHER -> "dispatch"

(* The loop implements what event_loop.h says of Wake(). *)
ImplementsContract == Contract!CSpec

(* The part of it that is about steps. *)
ImplementsSafety == Contract!CSafety
=============================================================================
