------------------------------ MODULE BlockFile ------------------------------
(***************************************************************************)
(* A disk image in a file (platform/posix/file_block.cpp).  Devices queue  *)
(* requests with the device lock held; a worker performs them one at a     *)
(* time, without the device lock; the event loop notifies the completions  *)
(* with the device lock held.                                              *)
(*                                                                         *)
(* The sections under fMutex are steps.  That a Wake() of the event loop   *)
(* leads to a Dispatch() is LoopContract's; here it is the flag woken.  A  *)
(* request is for one sector; its buffer is its completion's.              *)
(***************************************************************************)
EXTENDS Integers, Sequences

CONSTANTS
    Requests,               \* BlockCompletions
    Sectors, Values,
    Zero,                   \* the value every sector starts with
    Unknown, Null,
    Modes                   \* of "RO", "RW" and "SNAPSHOT"

ASSUME BlockAssumption ==
    /\ Zero \in Values /\ Unknown \notin Values /\ Null \notin Values
    /\ Null \notin Requests
    /\ Modes \subseteq {"RO", "RW", "SNAPSHOT"}

Request == [c : Requests, write : BOOLEAN, sector : Sectors, ok : BOOLEAN]

VARIABLES
    fMode,
    file, fSectorTable,     \* the image; what snapshot mode keeps in memory
    fPending, fCurrent, fDone,  \* fCurrent is empty: ~fHasCurrent
    fStop, wpc,             \* the destructor began; where the worker is
    woken,                  \* the event loop is to dispatch
    loop,                   \* completions the Dispatch() in progress may run
    cancelling,             \* the request a Cancel() waits for
    waits, buf, open,       \* BlockContract
    wrote, expect           \* what a new, and an outstanding, read must see

queues == <<fPending, fCurrent, fDone>>
image == <<file, fSectorTable>>
seen == <<wrote, expect>>
vars == <<image, queues, fStop, wpc, woken, loop, cancelling, waits, buf, open,
          fMode, seen>>

TypeOK ==
    /\ fMode \in Modes
    /\ file \in [Sectors -> Values]
    /\ fSectorTable \in [Sectors -> Values \cup {Null}]
    /\ fPending \in Seq(Request) /\ fDone \in Seq(Request)
    /\ fCurrent \in Seq(Request) /\ Len(fCurrent) <= 1
    /\ fStop \in BOOLEAN /\ wpc \in {"wait", "perform", "finish", "ended"}
    /\ woken \in BOOLEAN /\ loop \in Nat \cup {-1}
    /\ cancelling \in Requests \cup {Null}
    /\ waits \subseteq Requests /\ buf \in [Requests -> Values]
    /\ open \in BOOLEAN
    /\ wrote \in [Sectors -> Values \cup {Unknown}]
    /\ expect \in [Requests -> Values \cup {Unknown}]

Init ==
    /\ fMode \in Modes
    /\ file = [s \in Sectors |-> Zero]
    /\ fSectorTable = [s \in Sectors |-> Null]
    /\ fPending = <<>> /\ fCurrent = <<>> /\ fDone = <<>>
    /\ fStop = FALSE /\ wpc = "wait" /\ woken = FALSE /\ loop = -1
    /\ cancelling = Null
    /\ waits = {} /\ buf = [c \in Requests |-> Zero] /\ open = TRUE
    /\ wrote = [s \in Sectors |-> Zero]
    /\ expect = [c \in Requests |-> Unknown]

-----------------------------------------------------------------------------
(* A device's calls, from a processor's thread or from a completion the    *)
(* event loop runs: either way the device lock is held, so no Cancel() is  *)
(* in progress.                                                            *)

MayCall == open /\ ~fStop /\ cancelling = Null

Queue(c, write, s) ==
    /\ fPending' = Append(fPending, [c |-> c, write |-> write, sector |-> s,
                                     ok |-> TRUE])
    /\ waits' = waits \cup {c}
    /\ UNCHANGED <<fCurrent, fDone>>

ReadAsync(c, s) ==
    /\ MayCall /\ c \notin waits
    /\ Queue(c, FALSE, s)
    /\ expect' = [expect EXCEPT ![c] = wrote[s]]
    /\ UNCHANGED <<image, fStop, wpc, woken, loop, cancelling, buf, open,
                   fMode, wrote>>

WriteAsync(c, s, v) ==
    /\ MayCall /\ c \notin waits /\ fMode = "RW"
    /\ buf' = [buf EXCEPT ![c] = v]
    /\ Queue(c, TRUE, s)
    /\ wrote' = [wrote EXCEPT ![s] = v]
    /\ UNCHANGED <<image, fStop, wpc, woken, loop, cancelling, open, fMode,
                   expect>>

(* The reads of this sector in flight. *)
Reading(s) ==
    {c \in waits :
        \E q \in {fPending, fCurrent, fDone} : \E i \in DOMAIN q :
            q[i].c = c /\ ~q[i].write /\ q[i].sector = s}

Forget(C) ==
    expect' = [c \in Requests |-> IF c \in C THEN Unknown ELSE expect[c]]

(* Snapshot mode finishes a write at once; a read in flight may see it. *)
WriteSnapshot(s, v) ==
    /\ MayCall /\ fMode = "SNAPSHOT"
    /\ fSectorTable' = [fSectorTable EXCEPT ![s] = v]
    /\ wrote' = [wrote EXCEPT ![s] = v]
    /\ Forget(Reading(s))
    /\ UNCHANGED <<file, queues, fStop, wpc, woken, loop, cancelling, waits,
                   buf, open, fMode>>

(* Cancel() waits for the worker to be off the request, *)
Cancel(c) ==
    /\ MayCall
    /\ cancelling' = c
    /\ UNCHANGED <<image, queues, fStop, wpc, woken, loop, waits, buf, open,
                   fMode, seen>>

(* erase(remove_if()).  A completion has one request in flight (waits), so *)
(* there is at most one to be removed.                                     *)
Erase(q, k) == SubSeq(q, 1, k - 1) \o SubSeq(q, k + 1, Len(q))

IsFor(q, c, i) == i \in DOMAIN q /\ q[i].c = c

Without(q, c) ==
    IF \E i \in DOMAIN q : IsFor(q, c, i)
    THEN Erase(q, CHOOSE i \in DOMAIN q : IsFor(q, c, i))
    ELSE q

(* What is known of a sector whose write did not happen, or only in part:  *)
(* nothing, by a new read or an outstanding one.                           *)
WriteLost(r) ==
    IF r.write
    THEN /\ wrote' = [wrote EXCEPT ![r.sector] = Unknown]
         /\ Forget(Reading(r.sector))
    ELSE UNCHANGED seen

(* Dropping a request that was not yet performed. *)
Drop(c) ==
    \/ \E i \in DOMAIN fPending :
            IsFor(fPending, c, i) /\ WriteLost(fPending[i])
    \/ ~(\E i \in DOMAIN fPending : IsFor(fPending, c, i)) /\ UNCHANGED seen

WorkerIsOn(c) == \E i \in DOMAIN fCurrent : IsFor(fCurrent, c, i)

(* Mutant: the worker may still be at it. *)
CancelReturnsEarly ==
    /\ cancelling # Null
    /\ fPending' = Without(fPending, cancelling)
    /\ fDone' = Without(fDone, cancelling)
    /\ waits' = waits \ {cancelling}
    /\ Drop(cancelling)
    /\ cancelling' = Null
    /\ UNCHANGED <<image, fCurrent, fStop, wpc, woken, loop, buf, open, fMode>>

(* and drops it wherever it is. *)
CancelReturns ==
    /\ cancelling # Null
    /\ ~WorkerIsOn(cancelling)
    /\ fPending' = Without(fPending, cancelling)
    /\ fDone' = Without(fDone, cancelling)
    /\ waits' = waits \ {cancelling}
    /\ Drop(cancelling)
    /\ cancelling' = Null
    /\ UNCHANGED <<image, fCurrent, fStop, wpc, woken, loop, buf, open, fMode>>

-----------------------------------------------------------------------------
(* WorkerMain()                                                            *)

(* Mutant: the last request goes first. *)
TakeLast ==
    /\ wpc = "wait" /\ ~fStop /\ fPending # <<>>
    /\ fCurrent' = <<fPending[Len(fPending)]>>
    /\ fPending' = SubSeq(fPending, 1, Len(fPending) - 1)
    /\ wpc' = "perform"
    /\ UNCHANGED <<image, fDone, fStop, woken, loop, cancelling, waits, buf,
                   open, fMode, seen>>

Take ==
    /\ wpc = "wait" /\ ~fStop /\ fPending # <<>>
    /\ fCurrent' = <<Head(fPending)>> /\ fPending' = Tail(fPending)
    /\ wpc' = "perform"
    /\ UNCHANGED <<image, fDone, fStop, woken, loop, cancelling, waits, buf,
                   open, fMode, seen>>

(* Perform(): from the file to the buffer or back; it may fail before or   *)
(* after it has moved the data.                                            *)
Perform(ok) ==
    LET r == fCurrent[1] IN
    /\ wpc = "perform"
    /\ wpc' = "finish"
    /\ fCurrent' = <<[r EXCEPT !.ok = ok]>>
    /\ \/ /\ r.write
          /\ \/ file' = [file EXCEPT ![r.sector] = buf[r.c]]
             \/ ~ok /\ UNCHANGED file
          /\ UNCHANGED buf
       \/ /\ ~r.write
          /\ \/ buf' = [buf EXCEPT ![r.c] = file[r.sector]]
             \/ ~ok /\ UNCHANGED buf
          /\ UNCHANGED file
    /\ IF ok THEN UNCHANGED seen ELSE WriteLost(r)
    /\ UNCHANGED <<fSectorTable, fPending, fDone, fStop, woken, loop,
                   cancelling, waits, open, fMode>>

(* Mutant: the event loop is not woken. *)
FinishSilently ==
    /\ wpc = "finish"
    /\ wpc' = "wait"
    /\ fDone' = Append(fDone, fCurrent[1]) /\ fCurrent' = <<>>
    /\ UNCHANGED <<image, fPending, fStop, woken, loop, cancelling, waits, buf,
                   open, fMode, seen>>

Finish ==
    /\ wpc = "finish"
    /\ wpc' = "wait"
    /\ fDone' = Append(fDone, fCurrent[1]) /\ fCurrent' = <<>>
    /\ woken' = TRUE
    /\ UNCHANGED <<image, fPending, fStop, loop, cancelling, waits, buf, open,
                   fMode, seen>>

WorkerEnds ==
    /\ wpc = "wait" /\ fStop
    /\ wpc' = "ended"
    /\ UNCHANGED <<image, queues, fStop, woken, loop, cancelling, waits, buf,
                   open, fMode, seen>>

-----------------------------------------------------------------------------
(* Dispatch(), which runs only the completions it finds at first.          *)

Dispatch ==
    /\ MayCall /\ woken /\ loop = -1
    /\ woken' = FALSE /\ loop' = Len(fDone)
    /\ UNCHANGED <<image, queues, fStop, wpc, cancelling, waits, buf, open,
                   fMode, seen>>

(* What the guest wrote in snapshot mode hides what the file has. *)
Merged(r) ==
    IF ~r.write /\ r.ok /\ fMode = "SNAPSHOT" /\ fSectorTable[r.sector] # Null
    THEN [buf EXCEPT ![r.c] = fSectorTable[r.sector]] ELSE buf

Complete ==
    LET r == Head(fDone) IN
    /\ MayCall /\ loop > 0 /\ fDone # <<>>
    /\ fDone' = Tail(fDone) /\ loop' = loop - 1
    /\ buf' = Merged(r)
    /\ waits' = waits \ {r.c}
    /\ UNCHANGED <<image, fPending, fCurrent, fStop, wpc, woken, cancelling,
                   open, fMode, seen>>

DispatchReturns ==
    /\ MayCall /\ loop # -1 /\ (loop = 0 \/ fDone = <<>>)
    /\ loop' = -1
    /\ UNCHANGED <<image, queues, fStop, wpc, woken, cancelling, waits, buf,
                   open, fMode, seen>>

-----------------------------------------------------------------------------
(* The destructor, once the event loop has stopped.                        *)

Destroy ==
    /\ MayCall /\ loop = -1
    /\ fStop' = TRUE
    /\ UNCHANGED <<image, queues, wpc, woken, loop, cancelling, waits, buf,
                   open, fMode, seen>>

Destroyed ==
    /\ open /\ wpc = "ended"
    /\ open' = FALSE /\ waits' = {}
    /\ fPending' = <<>> /\ fDone' = <<>>
    /\ UNCHANGED <<image, fCurrent, fStop, wpc, woken, loop, cancelling, buf,
                   fMode, seen>>

-----------------------------------------------------------------------------
Worker == Take \/ (\E ok \in BOOLEAN : Perform(ok)) \/ Finish \/ WorkerEnds
Loop == Dispatch \/ Complete \/ DispatchReturns
Device ==
    \/ \E c \in Requests, s \in Sectors :
            ReadAsync(c, s) \/ \E v \in Values : WriteAsync(c, s, v)
    \/ \E s \in Sectors, v \in Values : WriteSnapshot(s, v)
    \/ \E c \in Requests : Cancel(c)

Next == Worker \/ Loop \/ Device \/ CancelReturns \/ Destroy \/ Destroyed

(* The worker and the event loop go on, and Cancel() and the destructor    *)
(* come back when they can.  The loop has its turn of the device lock:     *)
(* strong, because a Cancel() may hold it again and again.                 *)
Fairness == /\ WF_vars(Worker) /\ SF_vars(Loop)
            /\ WF_vars(CancelReturns) /\ WF_vars(Destroyed)

Spec == Init /\ [][Next]_vars
FairSpec == Spec /\ Fairness

-----------------------------------------------------------------------------
(* Properties *)

(* "Requests run one at a time in the order they came, so a read sees      *)
(* every write queued before it" (file_block.cpp:65): when a read is done, *)
(* its buffer holds what was last written to the sector before it was      *)
(* queued, unless that write failed, or was cancelled before the worker    *)
(* came to it, or, in snapshot mode, another write came since.             *)
ReadSeesWrites ==
    [][\A c \in Requests :
        /\ loop > 0 /\ loop' = loop - 1 /\ fDone # <<>>
        /\ fDone[1].c = c /\ ~fDone[1].write /\ fDone[1].ok
        => expect[c] \in {buf'[c], Unknown}]_vars

(* The image implements the contract of host_block.h. *)
Contract == INSTANCE BlockContract
ImplementsContract == Contract!Spec

(* Every request is notified or dropped, and the destructor returns,       *)
(* whatever the worker is doing (Finish, Cancel(), ~BlockDeviceFile()).    *)
AllEnd ==
    /\ \A c \in Requests : c \in waits ~> c \notin waits
    /\ fStop ~> ~open
=============================================================================
