---------------------------- MODULE WakeupContract ----------------------------
(***************************************************************************)
(* What a HostWakeup promises: Wait() sleeps until a Kick(), or for the    *)
(* given time if it is not negative, and "a kick that comes before the     *)
(* sleep is not lost" (platform/api/host_wakeup.h).  HostWakeup implements *)
(* it; the machine's and the processors' threads are built on it.          *)
(***************************************************************************)

VARIABLES
    waiting,   \* inside Wait()
    timed,     \* the wait has a timeout
    kicked     \* a kick that no Wait() has consumed

kvars == <<waiting, timed, kicked>>

KInit == waiting = FALSE /\ timed = FALSE /\ kicked = FALSE

KKick == kicked' = TRUE /\ UNCHANGED <<waiting, timed>>

KWait == ~waiting /\ waiting' = TRUE /\ timed' \in BOOLEAN /\ UNCHANGED kicked

(* Only a kick ends a wait without a timeout, and one kick or several are  *)
(* consumed by the wait that returns.                                      *)
KReturn ==
    /\ waiting /\ (kicked \/ timed)
    /\ waiting' = FALSE /\ kicked' = FALSE
    /\ UNCHANGED timed

KNext == KKick \/ KWait \/ KReturn

KSafety == KInit /\ [][KNext]_kvars

KSpec == KSafety /\ WF_kvars(kicked /\ KReturn)
=============================================================================
