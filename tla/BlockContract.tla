---------------------------- MODULE BlockContract ----------------------------
(***************************************************************************)
(* What a disk image promises a device (platform/api/host_block.h): a      *)
(* request that does not finish at once is notified exactly once, unless   *)
(* it is cancelled or the image is destroyed, and its buffer is touched    *)
(* only until then.  The requests finish in no particular order.           *)
(***************************************************************************)
CONSTANTS
    Requests,   \* BlockCompletions, which name the requests
    Values      \* of a sector

VARIABLES
    waits,      \* the requests in flight, as the device sees it
    buf,        \* the request's buffer
    open        \* the image has not been destroyed

vars == <<waits, buf, open>>

Init ==
    /\ waits = {}
    /\ buf \in [Requests -> Values]
    /\ open = TRUE

(* ReadAsync(), WriteAsync() return 1; the device has filled the buffer. *)
Submit(c) ==
    /\ open /\ c \notin waits
    /\ waits' = waits \cup {c}
    /\ \E v \in Values : buf' = [buf EXCEPT ![c] = v]
    /\ UNCHANGED open

Touch(c) ==
    /\ open /\ c \in waits
    /\ \E v \in Values : buf' = [buf EXCEPT ![c] = v]
    /\ UNCHANGED <<waits, open>>

(* Complete(), which may find the last of the data just copied; Cancel(). *)
Complete(c) ==
    /\ open /\ c \in waits
    /\ waits' = waits \ {c}
    /\ \E v \in Values : buf' = [buf EXCEPT ![c] = v]
    /\ UNCHANGED open

Cancel(c) ==
    /\ open
    /\ waits' = waits \ {c}
    /\ UNCHANGED <<buf, open>>

Destroy ==
    /\ open /\ open' = FALSE
    /\ waits' = {}
    /\ UNCHANGED buf

Next == \/ \E c \in Requests : Submit(c) \/ Touch(c) \/ Complete(c) \/ Cancel(c)
        \/ Destroy

Spec == Init /\ [][Next]_vars
=============================================================================
