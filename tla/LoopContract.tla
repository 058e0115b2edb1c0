----------------------------- MODULE LoopContract -----------------------------
(***************************************************************************)
(* What event_loop.h promises the callers of EventLoop::Wake(): it "makes  *)
(* the current or next wait return at once, so that the sources are        *)
(* prepared again".  EventLoop implements it; LoopTimer is built on it.    *)
(*                                                                         *)
(* phase is where the loop's thread is: "off" (not running), "top"         *)
(* (between two waits), "wait" (the sources are prepared and it waits),    *)
(* "dispatch" (the wait returned).  owed says that a Wake() was called     *)
(* since the sources were last prepared.                                   *)
(***************************************************************************)

VARIABLES phase, owed

cvars == <<phase, owed>>

CInit == phase = "off" /\ owed = FALSE

CWake == owed' = TRUE /\ UNCHANGED phase

CStart == phase = "off" /\ phase' = "top" /\ UNCHANGED owed

CPrepare == phase = "top" /\ phase' = "wait" /\ owed' = FALSE

(* A wait may end at any time: a timeout, a descriptor, a signal. *)
CReturn == phase = "wait" /\ phase' = "dispatch" /\ UNCHANGED owed

CDispatch == phase = "dispatch" /\ phase' = "top" /\ UNCHANGED owed

CExit == phase = "top" /\ phase' = "off" /\ UNCHANGED owed

CNext == CWake \/ CStart \/ CPrepare \/ CReturn \/ CDispatch \/ CExit

CSafety == CInit /\ [][CNext]_cvars

(* The promise itself: a wait that owes a wakeup does return. *)
CSpec == /\ CSafety
         /\ WF_cvars(owed /\ CReturn)
         /\ WF_cvars(CDispatch)
         /\ WF_cvars(CPrepare \/ CExit)
=============================================================================
