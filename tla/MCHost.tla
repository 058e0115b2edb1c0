-------------------------------- MODULE MCHost --------------------------------
(***************************************************************************)
(* The services the emulator's threads rest on: the event loop, its timers *)
(* (on the loop's contract), and the wakeup.  They share no state, so each *)
(* behaviour is about one of them and leaves the others alone.             *)
(*                                                                         *)
(* For the loop, two threads without the device lock and one with it, two  *)
(* sources: a wake finds another one half done while a third thread keeps  *)
(* the loop from its lock.  Two timers, two microseconds to the            *)
(* millisecond: a deadline can fall inside a millisecond, and the longest  *)
(* wait can end before one.  Three kickers: one at each of Kick()'s steps. *)
(***************************************************************************)
EXTENDS EventLoop, LoopTimer, HostWakeup

VARIABLE part

hostVars == <<part, vars, timerVars, wakeupVars>>

HostInit == /\ part \in {"loop", "timer", "wakeup"}
            /\ Init /\ TimerInit /\ WakeupInit

InLoop == part = "loop" /\ UNCHANGED <<part, timerVars, wakeupVars>>
InTimer == part = "timer" /\ UNCHANGED <<part, vars, wakeupVars>>
InWakeup == part = "wakeup" /\ UNCHANGED <<part, vars, timerVars>>

HostNext ==
    \/ InLoop /\ Next
    \/ InTimer /\ TimerNext
    \/ InWakeup /\ WakeupNext

(* The fairness of each part: EventLoop's, LoopTimer's, HostWakeup's. *)
HostFairness ==
    /\ WF_hostVars(InLoop /\ Join) /\ WF_hostVars(InLoop /\ WaitStep)
    /\ SF_hostVars(InLoop /\ LockPrepare)
    /\ SF_hostVars(InLoop /\ LockDispatch)
    /\ \A t \in Threads : WF_hostVars(InLoop /\ (Exchange(t) \/ Write(t)))
    /\ WF_hostVars(InTimer /\ LoopStarts) /\ WF_hostVars(InTimer /\ Tick)
    /\ WF_hostVars(InTimer /\ LoopStep)
    /\ \A t \in Timers : WF_hostVars(InTimer /\ CallbackReturns(t))
    /\ SF_hostVars(InWakeup /\ WakeupStep)
    /\ \A k \in Kickers : SF_hostVars(InWakeup /\ KickStep(k))

HostSpec == HostInit /\ [][HostNext]_hostVars /\ HostFairness
=============================================================================
