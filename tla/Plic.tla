--------------------------------- MODULE Plic ---------------------------------
(***************************************************************************)
(* The RISC-V machine's platform level interrupt controller                *)
(* (device/intc/plic.cpp).  The device lock covers every call, so each is  *)
(* one action.  Reads without effect are left out.                         *)
(***************************************************************************)
EXTENDS Naturals

CONSTANTS
    PlicSources,     \* source numbers, from 1
    PlicContexts,    \* two for every hart: machine and supervisor
    MaxPriority      \* PLIC_MAX_PRIORITY

VARIABLES
    fLevel,          \* the sources whose line is high
    fServed,         \* the sources claimed and not yet completed
    fPriority,
    fEnable, fThreshold,  \* of each context
    external         \* SetExternalIrq(): the contexts whose line is up

vars == <<fLevel, fServed, fPriority, fEnable, fThreshold, external>>

TypeOK ==
    /\ fLevel \subseteq PlicSources /\ fServed \subseteq PlicSources
    /\ fPriority \in [PlicSources -> 0..MaxPriority]
    /\ fEnable \in [PlicContexts -> SUBSET PlicSources]
    /\ fThreshold \in [PlicContexts -> 0..MaxPriority]
    /\ external \subseteq PlicContexts

Init ==
    /\ fLevel = {} /\ fServed = {} /\ external = {}
    /\ fPriority = [s \in PlicSources |-> 0]
    /\ fEnable = [c \in PlicContexts |-> {}]
    /\ fThreshold = [c \in PlicContexts |-> 0]

(* A line that is still high once its interrupt was completed is pending   *)
(* again.                                                                  *)
Pending == fLevel \ fServed

(* What a claim of context c may return. *)
Candidates(c) ==
    {s \in Pending \cap fEnable[c] : fPriority[s] > fThreshold[c]}

(* The highest priority first, then the lowest number; 0 for none. *)
BestIrq(c) ==
    IF Candidates(c) = {} THEN 0
    ELSE CHOOSE s \in Candidates(c) :
            \A t \in Candidates(c) :
                \/ fPriority[s] > fPriority[t]
                \/ fPriority[s] = fPriority[t] /\ s <= t

Update == external' = {c \in PlicContexts : BestIrq(c)' # 0}

SetIRQ(s) ==
    /\ \E high \in BOOLEAN :
        fLevel' = IF high THEN fLevel \cup {s} ELSE fLevel \ {s}
    /\ UNCHANGED <<fServed, fPriority, fEnable, fThreshold>>
    /\ Update

Claim(c) ==
    /\ BestIrq(c) # 0
    /\ fServed' = fServed \cup {BestIrq(c)}
    /\ UNCHANGED <<fLevel, fPriority, fEnable, fThreshold>>
    /\ Update

WritePriority(s) ==
    /\ \E p \in 0..MaxPriority : fPriority' = [fPriority EXCEPT ![s] = p]
    /\ UNCHANGED <<fLevel, fServed, fEnable, fThreshold>>
    /\ Update

WriteEnable(c) ==
    /\ \E e \in SUBSET PlicSources : fEnable' = [fEnable EXCEPT ![c] = e]
    /\ UNCHANGED <<fLevel, fServed, fPriority, fThreshold>>
    /\ Update

WriteThreshold(c) ==
    /\ \E t \in 0..MaxPriority : fThreshold' = [fThreshold EXCEPT ![c] = t]
    /\ UNCHANGED <<fLevel, fServed, fPriority, fEnable>>
    /\ Update

(* A completion by a context that does not have the source enabled is      *)
(* ignored.                                                                *)
Complete(c, s) ==
    /\ s \in fEnable[c]
    /\ fServed' = fServed \ {s}
    /\ UNCHANGED <<fLevel, fPriority, fEnable, fThreshold>>
    /\ Update

Next ==
    \/ \E s \in PlicSources : SetIRQ(s) \/ WritePriority(s)
    \/ \E c \in PlicContexts :
        \/ Claim(c) \/ WriteEnable(c) \/ WriteThreshold(c)
        \/ \E s \in PlicSources : Complete(c, s)

(* A context's line is up exactly when a claim would give it a source:     *)
(* whatever one context claims, completes or masks, every other is told.   *)
LineIsClaim == external = {c \in PlicContexts : BestIrq(c) # 0}
=============================================================================
