------------------------------- MODULE RiscvHart -------------------------------
(***************************************************************************)
(* The harts of a RISC-V machine and what they post to each other: the     *)
(* inbox of a hart (process_inbox), the SBI calls that reach another hart  *)
(* (riscv_interp_sbi.cpp: IPIs, remote fences, hart start), interrupt      *)
(* lines, and the request to leave Run().                                  *)
(*                                                                         *)
(* Whoever posts to a hart stores what it posts, then inbox_pending, then  *)
(* kicks the hart's wakeup; the hart clears inbox_pending first and then   *)
(* takes in each kind of post.  Every load and store of a shared variable  *)
(* is a step.  A wakeup is WakeupContract's kicked flag.                   *)
(*                                                                         *)
(* The interrupts are enabled in mie; whether the guest also enables them  *)
(* in mstatus decides only if a trap leaves the blocks (LeaveBlocks).  The *)
(* order in which a call goes through its set of harts is left open.       *)
(***************************************************************************)
EXTENDS Naturals, FiniteSets

CONSTANTS
    Harts,
    Boot,           \* the hart the machine starts
    Device,         \* a device that drives an interrupt line to each hart
    Main,           \* the thread that stops the machine
    Scenarios       \* the machines and guests to look at

(* A scenario: the harts of the machine; the instructions and SBI calls    *)
(* the guest uses; the sets of harts it sends IPIs to and fences; how many *)
(* fences it asks of a hart; whether the machine is stopped; the harts the *)
(* device has a line to.                                                   *)
Scenario ==
    [harts : SUBSET Harts,
     ops : SUBSET {"csr", "wfi", "ipi", "fence", "start", "stop", "suspend"},
     sets : SUBSET SUBSET Harts,
     fences : Nat,
     stops : BOOLEAN, lines : SUBSET Harts]

ASSUME HartAssumption ==
    /\ IsFiniteSet(Harts) /\ {"boot", "resume"} \cap Harts = {}
    /\ Device # Main /\ {Device, Main} \cap Harts = {}
    /\ \A s \in Scenarios :
        /\ s \in Scenario /\ Boot \in s.harts /\ s.sets \subseteq SUBSET s.harts

Posters == Harts \cup {Device, Main}
Entries == Harts \cup {"boot", "resume"}     \* addresses, named by their giver
HsmStates == {"STARTED", "STOPPED", "START_PENDING", "SUSPENDED"}
Pcs == {"top", "inbox", "flush", "flushed", "ssip", "start", "lines", "after",
        "wait", "exit", "run", "call", "fence", "take", "taken", "ended"}
Callers == {"idle", "interp", "csr", "wfi"}
Ops == {"none", "ipi", "fence", "start", "line", "exit"}
PostPcs == {"none", "next", "addr", "post", "inbox", "kick"}

VARIABLES
    \* posted from other threads
    inbox_pending, exit_request, irq_lines, ssip_posted, hsm_start_posted,
    tlb_flush_req, tlb_flush_done,
    hsm_state, hsm_addr,
    \* the hart's own
    mip, power_down_flag, hsm_stopped, hsm_suspended, hsm_resume,
    pc, ret,            \* where its thread is; who called process_inbox()
    req,                \* what take_posted_tlb_flush() loaded
    kicked,             \* its wakeup
    \* a call that posts to other harts
    op, ppc,            \* which one, and where it is
    target, todo,       \* the hart it posts to, and those it has still to
    tickets, awaits,    \* RemoteSfence(): the harts it waits for
    fStop,              \* StopRequested()
    scenario,           \* which one this is
    owed                \* harts that have not flushed since a fence began

posted == <<inbox_pending, exit_request, irq_lines, ssip_posted,
            hsm_start_posted, tlb_flush_req, tlb_flush_done>>
hsm == <<hsm_state, hsm_addr, hsm_stopped, hsm_suspended, hsm_resume>>
thread == <<pc, ret, req>>
run == <<fStop, scenario>>
call == <<op, ppc, target, todo, tickets, awaits>>
vars == <<posted, hsm, mip, power_down_flag, thread, kicked, call, run, owed>>

MaxFences == scenario.fences
Bools == [Harts -> BOOLEAN]

PostedOK ==
    /\ inbox_pending \in Bools /\ exit_request \in Bools /\ irq_lines \in Bools
    /\ ssip_posted \in Bools /\ hsm_start_posted \in Bools
    /\ tlb_flush_req \in [Harts -> 0..MaxFences]
    /\ tlb_flush_done \in [Harts -> 0..MaxFences]

HsmOK ==
    /\ hsm_state \in [Harts -> HsmStates] /\ hsm_addr \in [Harts -> Entries]
    /\ mip \in [Harts -> SUBSET {"ssip", "line"}]
    /\ power_down_flag \in Bools /\ hsm_stopped \in Bools
    /\ hsm_suspended \in Bools /\ hsm_resume \in Bools

ThreadOK ==
    /\ pc \in [Harts -> Pcs] /\ ret \in [Harts -> Callers]
    /\ req \in [Harts -> 0..MaxFences] /\ kicked \in Bools

CallOK ==
    /\ op \in [Posters -> Ops] /\ ppc \in [Posters -> PostPcs]
    /\ target \in [Posters -> Harts] /\ todo \in [Posters -> SUBSET Harts]
    /\ tickets \in [Harts -> [Harts -> 0..MaxFences]]
    /\ awaits \in [Harts -> SUBSET Harts] /\ owed \in [Harts -> SUBSET Harts]

TypeOK == /\ scenario \in Scenarios /\ fStop \in BOOLEAN
          /\ PostedOK /\ HsmOK /\ ThreadOK /\ CallOK

(* SetSbiHandler() leaves every hart stopped, and StartSupervisor() starts *)
(* the boot hart before the threads run.                                   *)
Init ==
    /\ scenario \in Scenarios
    /\ inbox_pending = [h \in Harts |-> h = Boot]
    /\ exit_request = [h \in Harts |-> FALSE]
    /\ irq_lines = [h \in Harts |-> FALSE]
    /\ ssip_posted = [h \in Harts |-> FALSE]
    /\ hsm_start_posted = [h \in Harts |-> h = Boot]
    /\ tlb_flush_req = [h \in Harts |-> 0]
    /\ tlb_flush_done = [h \in Harts |-> 0]
    /\ hsm_state = [h \in Harts |->
                        IF h = Boot THEN "START_PENDING" ELSE "STOPPED"]
    /\ hsm_addr = [h \in Harts |-> "boot"]
    /\ mip = [h \in Harts |-> {}]
    /\ power_down_flag = [h \in Harts |-> TRUE]
    /\ hsm_stopped = [h \in Harts |-> TRUE]
    /\ hsm_suspended = [h \in Harts |-> FALSE]
    /\ hsm_resume = [h \in Harts |-> FALSE]
    /\ pc = [h \in Harts |-> IF h \in scenario.harts THEN "top" ELSE "ended"]
    /\ ret = [h \in Harts |-> "idle"]
    /\ req = [h \in Harts |-> 0]
    /\ kicked = [h \in Harts |-> FALSE]
    /\ op = [p \in Posters |-> "none"] /\ ppc = [p \in Posters |-> "none"]
    /\ target = [p \in Posters |-> Boot] /\ todo = [p \in Posters |-> {}]
    /\ tickets = [h \in Harts |-> [g \in Harts |-> 0]]
    /\ awaits = [h \in Harts |-> {}]
    /\ fStop = FALSE
    /\ owed = [h \in Harts |-> {}]

Goto(h, to) == pc' = [pc EXCEPT ![h] = to]

-----------------------------------------------------------------------------
(* process_inbox()                                                         *)

CallInbox(h, caller) ==
    /\ Goto(h, "inbox")
    /\ ret' = [ret EXCEPT ![h] = caller]

Leave(h, to) == Goto(h, to) /\ ret' = [ret EXCEPT ![h] = "idle"]

(* A load, and a store if there is anything: a post between the two has    *)
(* already stored what it posts.                                           *)
TakeInbox(h) ==
    /\ pc[h] = "inbox"
    /\ Goto(h, IF inbox_pending[h] THEN "flush" ELSE "after")
    /\ inbox_pending' = [inbox_pending EXCEPT ![h] = FALSE]
    /\ UNCHANGED <<exit_request, irq_lines, ssip_posted, hsm_start_posted,
                   tlb_flush_req, tlb_flush_done, hsm, mip, power_down_flag,
                   ret, req, kicked, call, run, owed>>

(* tlb_flush_all() of h *)
Flush(h) == owed' = [g \in Harts |-> owed[g] \ {h}]

(* take_posted_tlb_flush(), from process_inbox() or RemoteSfence(): loads  *)
(* the last request and flushes, then stores that it is done.             *)
TakeFlush(h) ==
    /\ pc[h] \in {"flush", "take"}
    /\ Goto(h, IF tlb_flush_req[h] # tlb_flush_done[h]
               THEN IF pc[h] = "flush" THEN "flushed" ELSE "taken"
               ELSE IF pc[h] = "flush" THEN "ssip"
               ELSE IF ppc[h] = "next" THEN "call" ELSE "fence")
    /\ req' = [req EXCEPT ![h] = IF tlb_flush_req[h] # tlb_flush_done[h]
                                 THEN tlb_flush_req[h] ELSE 0]
    /\ IF tlb_flush_req[h] # tlb_flush_done[h] THEN Flush(h) ELSE UNCHANGED owed
    /\ UNCHANGED <<posted, hsm, mip, power_down_flag, ret, kicked, call, run>>

(* Mutant: the requests that came during the flush are taken as done too. *)
FlushRereads(h) ==
    /\ pc[h] \in {"flushed", "taken"}
    /\ tlb_flush_done' = [tlb_flush_done EXCEPT ![h] = tlb_flush_req[h]]
    /\ req' = [req EXCEPT ![h] = 0]
    /\ Goto(h, IF pc[h] = "flushed" THEN "ssip"
               ELSE IF ppc[h] = "next" THEN "call" ELSE "fence")
    /\ UNCHANGED <<inbox_pending, exit_request, irq_lines, ssip_posted,
                   hsm_start_posted, tlb_flush_req, hsm, mip, power_down_flag,
                   ret, kicked, call, run, owed>>

FlushTaken(h) ==
    /\ pc[h] \in {"flushed", "taken"}
    /\ tlb_flush_done' = [tlb_flush_done EXCEPT ![h] = req[h]]
    /\ req' = [req EXCEPT ![h] = 0]
    /\ Goto(h, IF pc[h] = "flushed" THEN "ssip"
               ELSE IF ppc[h] = "next" THEN "call" ELSE "fence")
    /\ UNCHANGED <<inbox_pending, exit_request, irq_lines, ssip_posted,
                   hsm_start_posted, tlb_flush_req, hsm, mip, power_down_flag,
                   ret, kicked, call, run, owed>>

TakeSsip(h) ==
    /\ pc[h] = "ssip"
    /\ ssip_posted' = [ssip_posted EXCEPT ![h] = FALSE]
    /\ mip' = [mip EXCEPT ![h] = IF ssip_posted[h] THEN @ \cup {"ssip"} ELSE @]
    /\ Goto(h, "start")
    /\ UNCHANGED <<inbox_pending, exit_request, irq_lines, hsm_start_posted,
                   tlb_flush_req, tlb_flush_done, hsm, power_down_flag, ret,
                   req, kicked, call, run, owed>>

(* sbi_enter() at hsm_addr *)
Enter(h) ==
    /\ hsm_stopped' = [hsm_stopped EXCEPT ![h] = FALSE]
    /\ hsm_suspended' = [hsm_suspended EXCEPT ![h] = FALSE]
    /\ hsm_resume' = [hsm_resume EXCEPT ![h] = FALSE]
    /\ power_down_flag' = [power_down_flag EXCEPT ![h] = FALSE]
    /\ hsm_state' = [hsm_state EXCEPT ![h] = "STARTED"]
    /\ Flush(h)

TakeStart(h) ==
    /\ pc[h] = "start"
    /\ hsm_start_posted' = [hsm_start_posted EXCEPT ![h] = FALSE]
    /\ Goto(h, "lines")
    /\ IF hsm_start_posted[h]
       THEN Enter(h) /\ UNCHANGED hsm_addr
       ELSE UNCHANGED <<hsm, power_down_flag, owed>>
    /\ UNCHANGED <<inbox_pending, exit_request, irq_lines, ssip_posted,
                   tlb_flush_req, tlb_flush_done, mip, ret, req, kicked, call,
                   run>>

(* Mutant: the inbox is cleared when it has been taken in. *)
TakeLinesClears(h) ==
    /\ pc[h] = "lines"
    /\ mip' = [mip EXCEPT ![h] = IF irq_lines[h] THEN @ \cup {"line"}
                                 ELSE @ \ {"line"}]
    /\ power_down_flag' = [power_down_flag EXCEPT ![h] =
                            @ /\ (mip'[h] = {} \/ hsm_stopped[h])]
    /\ Goto(h, "after")
    /\ inbox_pending' = [inbox_pending EXCEPT ![h] = FALSE]
    /\ UNCHANGED <<exit_request, irq_lines, ssip_posted, hsm_start_posted,
                   tlb_flush_req, tlb_flush_done, hsm, ret, req, kicked, call, run, owed>>

(* The lines, and wake_on_irq(). *)
TakeLines(h) ==
    /\ pc[h] = "lines"
    /\ mip' = [mip EXCEPT ![h] = IF irq_lines[h] THEN @ \cup {"line"}
                                 ELSE @ \ {"line"}]
    /\ power_down_flag' = [power_down_flag EXCEPT ![h] =
                            @ /\ (mip'[h] = {} \/ hsm_stopped[h])]
    /\ Goto(h, "after")
    /\ UNCHANGED <<posted, hsm, ret, req, kicked, call, run, owed>>

-----------------------------------------------------------------------------
(* The hart's thread: HartThread(), and riscv_cpu_interp() around its      *)
(* blocks of instructions.                                                 *)

Top(h) ==
    /\ pc[h] = "top"
    /\ IF fStop THEN Goto(h, "ended") /\ UNCHANGED ret ELSE CallInbox(h, "idle")
    /\ UNCHANGED <<posted, hsm, mip, power_down_flag, req, kicked, call, run,
                   owed>>

(* Idle() returns. *)
Idled(h) ==
    /\ pc[h] = "after" /\ ret[h] = "idle"
    /\ IF power_down_flag[h] THEN Goto(h, "wait") /\ UNCHANGED ret
                             ELSE CallInbox(h, "interp")
    /\ UNCHANGED <<posted, hsm, mip, power_down_flag, req, kicked, call, run,
                   owed>>

WaitReturns(h) ==
    /\ pc[h] = "wait" /\ kicked[h]
    /\ kicked' = [kicked EXCEPT ![h] = FALSE]
    /\ Goto(h, "top")
    /\ UNCHANGED <<posted, hsm, mip, power_down_flag, ret, req, call, run,
                   owed>>

(* The top of the interpreter's loop. *)
InterpDown(h) ==
    /\ pc[h] = "after" /\ ret[h] = "interp" /\ power_down_flag[h]
    /\ Leave(h, "top")
    /\ UNCHANGED <<posted, hsm, mip, power_down_flag, req, kicked, call,
                   run, owed>>

(* Mutant: exit_request is not looked at. *)
InterpIgnoresExit(h) ==
    /\ pc[h] = "after" /\ ret[h] = "interp" /\ ~power_down_flag[h]
    /\ IF hsm_suspended[h] /\ hsm_resume[h] THEN Enter(h) /\ UNCHANGED hsm_addr
       ELSE /\ hsm_suspended' = [hsm_suspended EXCEPT ![h] = FALSE]
            /\ hsm_state' = [hsm_state EXCEPT ![h] =
                                IF hsm_suspended[h] THEN "STARTED" ELSE @]
            /\ UNCHANGED <<hsm_addr, hsm_stopped, hsm_resume,
                           power_down_flag, owed>>
    /\ Leave(h, "run")
    /\ UNCHANGED <<posted, mip, req, kicked, call, run>>

Interp(h) ==
    /\ pc[h] = "after" /\ ret[h] = "interp" /\ ~power_down_flag[h]
    /\ IF hsm_suspended[h] /\ hsm_resume[h] THEN Enter(h) /\ UNCHANGED hsm_addr
       ELSE /\ hsm_suspended' = [hsm_suspended EXCEPT ![h] = FALSE]
            /\ hsm_state' = [hsm_state EXCEPT ![h] =
                                IF hsm_suspended[h] THEN "STARTED" ELSE @]
            /\ UNCHANGED <<hsm_addr, hsm_stopped, hsm_resume,
                           power_down_flag, owed>>
    /\ Leave(h, IF exit_request[h] THEN "exit" ELSE "run")
    /\ UNCHANGED <<posted, mip, req, kicked, call, run>>

Exit(h) ==
    /\ pc[h] = "exit"
    /\ exit_request' = [exit_request EXCEPT ![h] = FALSE]
    /\ Goto(h, "top")
    /\ UNCHANGED <<inbox_pending, irq_lines, ssip_posted, hsm_start_posted,
                   tlb_flush_req, tlb_flush_done, hsm, mip, power_down_flag,
                   ret, req, kicked, call, run, owed>>

(* A block finds something posted, takes a trap, or is the last of         *)
(* INTERP_COUNT_LIMIT instructions.                                        *)
LeaveBlocks(h) ==
    /\ pc[h] = "run"
    /\ CallInbox(h, "interp")
    /\ UNCHANGED <<posted, hsm, mip, power_down_flag, req, kicked, call, run,
                   owed>>

-----------------------------------------------------------------------------
(* What the guest does in a block.                                         *)

(* A CSR access, or WFI, begins with process_inbox(). *)
Instruction(h, what) ==
    /\ what \in scenario.ops /\ pc[h] = "run"
    /\ CallInbox(h, what)
    /\ UNCHANGED <<posted, hsm, mip, power_down_flag, req, kicked, call, run,
                   owed>>

CsrReturns(h) ==
    /\ pc[h] = "after" /\ ret[h] = "csr"
    /\ Leave(h, "run")
    /\ UNCHANGED <<posted, hsm, mip, power_down_flag, req, kicked, call,
                   run, owed>>

(* WFI powers down unless an interrupt is pending. *)
WfiReturns(h) ==
    /\ pc[h] = "after" /\ ret[h] = "wfi"
    /\ IF mip[h] = {}
       THEN /\ power_down_flag' = [power_down_flag EXCEPT ![h] = TRUE]
            /\ CallInbox(h, "interp")
       ELSE Leave(h, "run") /\ UNCHANGED power_down_flag
    /\ UNCHANGED <<posted, hsm, mip, req, kicked, call, run, owed>>

(* The guest handles its software interrupt. *)
ClearSoftIrq(h) ==
    /\ pc[h] = "run" /\ "ssip" \in mip[h]
    /\ mip' = [mip EXCEPT ![h] = @ \ {"ssip"}]
    /\ UNCHANGED <<posted, hsm, power_down_flag, thread, kicked, call, run,
                   owed>>

-----------------------------------------------------------------------------
(* The SBI calls of a hart; every one leaves the blocks when it returns.   *)

(* Mutant: the stopped hart is not powered down. *)
HsmStopRunsOn(h) ==
    /\ "stop" \in scenario.ops /\ pc[h] = "run"
    /\ hsm_stopped' = [hsm_stopped EXCEPT ![h] = TRUE]
    /\ hsm_suspended' = [hsm_suspended EXCEPT ![h] = FALSE]
    /\ hsm_state' = [hsm_state EXCEPT ![h] = "STOPPED"]
    /\ CallInbox(h, "interp")
    /\ UNCHANGED <<posted, hsm_addr, hsm_resume, mip, power_down_flag, req, kicked,
                   call, run, owed>>

HsmStop(h) ==
    /\ "stop" \in scenario.ops /\ pc[h] = "run"
    /\ hsm_stopped' = [hsm_stopped EXCEPT ![h] = TRUE]
    /\ hsm_suspended' = [hsm_suspended EXCEPT ![h] = FALSE]
    /\ power_down_flag' = [power_down_flag EXCEPT ![h] = TRUE]
    /\ hsm_state' = [hsm_state EXCEPT ![h] = "STOPPED"]
    /\ CallInbox(h, "interp")
    /\ UNCHANGED <<posted, hsm_addr, hsm_resume, mip, req, kicked,
                   call, run, owed>>

HsmSuspend(h, retentive) ==
    /\ "suspend" \in scenario.ops /\ pc[h] = "run"
    /\ hsm_suspended' = [hsm_suspended EXCEPT ![h] = TRUE]
    /\ hsm_resume' = [hsm_resume EXCEPT ![h] = ~retentive]
    /\ hsm_addr' = [hsm_addr EXCEPT ![h] = "resume"]
    /\ hsm_state' = [hsm_state EXCEPT ![h] = "SUSPENDED"]
    /\ power_down_flag' = [power_down_flag EXCEPT ![h] = mip[h] = {}]
    /\ CallInbox(h, "interp")
    /\ UNCHANGED <<posted, hsm_stopped, mip, req, kicked, call, run,
                   owed>>

BeginPosting(p, what, set) ==
    /\ op' = [op EXCEPT ![p] = what]
    /\ ppc' = [ppc EXCEPT ![p] = "next"]
    /\ todo' = [todo EXCEPT ![p] = set]
    /\ UNCHANGED <<target, tickets, awaits>>

(* The fences asked of a hart so far, for the bound. *)
FencesOf(g) ==
    tlb_flush_req[g]
    + Cardinality({p \in Harts : op[p] = "fence" /\ g \in todo[p]})

(* SendIpi(), RemoteSfence() to a set of harts, HsmStart() of one. *)
Ecall(h, what, set) ==
    /\ what \in scenario.ops /\ pc[h] = "run"
    /\ what = "fence" => \A g \in set : FencesOf(g) < MaxFences
    /\ BeginPosting(h, what, set)
    /\ owed' = [owed EXCEPT ![h] = IF what = "fence" THEN set ELSE {}]
    /\ Goto(h, "call")
    /\ UNCHANGED <<posted, hsm, mip, power_down_flag, ret, req, kicked, run>>

(* A device changes the level of its line to a hart. *)
SetIrqLine(g) ==
    /\ ppc[Device] = "none"
    /\ BeginPosting(Device, "line", {g})
    /\ UNCHANGED <<posted, hsm, mip, power_down_flag, thread, kicked, run,
                   owed>>

(* Stop(), and InterruptExecution() *)
Stop ==
    /\ scenario.stops /\ ~fStop
    /\ fStop' = TRUE
    /\ BeginPosting(Main, "exit", scenario.harts)
    /\ UNCHANGED <<posted, hsm, mip, power_down_flag, thread, kicked, scenario,
                   owed>>

-----------------------------------------------------------------------------
(* One hart of the set: what is posted, inbox_pending, the wakeup.         *)

PostTo(p, g) ==
    /\ ppc' = [ppc EXCEPT ![p] = IF op[p] = "start" THEN "addr" ELSE "inbox"]
    /\ target' = [target EXCEPT ![p] = g]
    /\ todo' = [todo EXCEPT ![p] = @ \ {g}]

Posts(p, what, g) == /\ op[p] = what /\ ppc[p] = "next" /\ g \in todo[p]
                     /\ p \in Harts => pc[p] = "call"

PostSoftIrq(p, g) ==
    /\ Posts(p, "ipi", g) /\ PostTo(p, g)
    /\ ssip_posted' = [ssip_posted EXCEPT ![g] = TRUE]
    /\ UNCHANGED <<inbox_pending, exit_request, irq_lines, hsm_start_posted,
                   tlb_flush_req, tlb_flush_done, hsm, mip, power_down_flag,
                   thread, kicked, op, tickets, awaits, run, owed>>

(* Mutant: the ticket is one too high. *)
PostTlbFlushOffByOne(p, g) ==
    /\ Posts(p, "fence", g) /\ g # p /\ PostTo(p, g)
    /\ tlb_flush_req' = [tlb_flush_req EXCEPT ![g] = @ + 1]
    /\ tickets' = [tickets EXCEPT ![p][g] = tlb_flush_req[g] + 2]
    /\ awaits' = [awaits EXCEPT ![p] = @ \cup {g}]
    /\ UNCHANGED <<inbox_pending, exit_request, irq_lines, ssip_posted,
                   hsm_start_posted, tlb_flush_done, hsm, mip, power_down_flag,
                   thread, kicked, op, run, owed>>

PostTlbFlush(p, g) ==
    /\ Posts(p, "fence", g) /\ g # p /\ PostTo(p, g)
    /\ tlb_flush_req' = [tlb_flush_req EXCEPT ![g] = @ + 1]
    /\ tickets' = [tickets EXCEPT ![p][g] = tlb_flush_req[g] + 1]
    /\ awaits' = [awaits EXCEPT ![p] = @ \cup {g}]
    /\ UNCHANGED <<inbox_pending, exit_request, irq_lines, ssip_posted,
                   hsm_start_posted, tlb_flush_done, hsm, mip, power_down_flag,
                   thread, kicked, op, run, owed>>

(* The hart itself is in its set: it flushes, and takes what was posted. *)
FlushTlb(h) ==
    /\ Posts(h, "fence", h)
    /\ todo' = [todo EXCEPT ![h] = @ \ {h}]
    /\ Flush(h)
    /\ Goto(h, "take")
    /\ UNCHANGED <<posted, hsm, mip, power_down_flag, ret, req, kicked, op,
                   ppc, target, tickets, awaits, run>>

DriveLine(p, g) ==
    /\ Posts(p, "line", g) /\ PostTo(p, g)
    /\ irq_lines' = [irq_lines EXCEPT ![g] = ~@]
    /\ UNCHANGED <<inbox_pending, exit_request, ssip_posted, hsm_start_posted,
                   tlb_flush_req, tlb_flush_done, hsm, mip, power_down_flag,
                   thread, kicked, op, tickets, awaits, run, owed>>

RequestExit(p, g) ==
    /\ Posts(p, "exit", g) /\ PostTo(p, g)
    /\ exit_request' = [exit_request EXCEPT ![g] = TRUE]
    /\ UNCHANGED <<inbox_pending, irq_lines, ssip_posted, hsm_start_posted,
                   tlb_flush_req, tlb_flush_done, hsm, mip, power_down_flag,
                   thread, kicked, op, tickets, awaits, run, owed>>

(* Mutant: the start does not claim the hart. *)
HsmStartUnclaimed(p, g) ==
    /\ Posts(p, "start", g) /\ hsm_state[g] \in {"STOPPED", "START_PENDING"}
    /\ PostTo(p, g)
    /\ hsm_state' = [hsm_state EXCEPT ![g] = "START_PENDING"]
    /\ UNCHANGED <<posted, hsm_addr, hsm_stopped, hsm_suspended, hsm_resume,
                   mip, power_down_flag, thread, kicked, op, tickets,
                   awaits, run, owed>>

(* HsmStart() claims a stopped hart, and fails on any other. *)
HsmStart(p, g) ==
    /\ Posts(p, "start", g) /\ hsm_state[g] = "STOPPED"
    /\ PostTo(p, g)
    /\ hsm_state' = [hsm_state EXCEPT ![g] = "START_PENDING"]
    /\ UNCHANGED <<posted, hsm_addr, hsm_stopped, hsm_suspended, hsm_resume,
                   mip, power_down_flag, thread, kicked, op, tickets,
                   awaits, run, owed>>

HsmStartFails(p, g) ==
    /\ Posts(p, "start", g) /\ hsm_state[g] # "STOPPED"
    /\ todo' = [todo EXCEPT ![p] = {}]
    /\ UNCHANGED <<posted, hsm, mip, power_down_flag, thread, kicked, op, ppc,
                   target, tickets, awaits, run, owed>>

HsmStartAddr(p) ==
    /\ ppc[p] = "addr"
    /\ hsm_addr' = [hsm_addr EXCEPT ![target[p]] = p]
    /\ ppc' = [ppc EXCEPT ![p] = "post"]
    /\ UNCHANGED <<posted, hsm_state, hsm_stopped, hsm_suspended, hsm_resume,
                   mip, power_down_flag, thread, kicked, op, target,
                   todo, tickets, awaits, run, owed>>

HsmStartPost(p) ==
    /\ ppc[p] = "post"
    /\ hsm_start_posted' = [hsm_start_posted EXCEPT ![target[p]] = TRUE]
    /\ ppc' = [ppc EXCEPT ![p] = "inbox"]
    /\ UNCHANGED <<inbox_pending, exit_request, irq_lines, ssip_posted,
                   tlb_flush_req, tlb_flush_done, hsm, mip, power_down_flag,
                   thread, kicked, op, target, todo, tickets, awaits, run,
                   owed>>

StoreInbox(p) ==
    /\ ppc[p] = "inbox"
    /\ inbox_pending' = [inbox_pending EXCEPT ![target[p]] = TRUE]
    /\ ppc' = [ppc EXCEPT ![p] = "kick"]
    /\ UNCHANGED <<exit_request, irq_lines, ssip_posted, hsm_start_posted,
                   tlb_flush_req, tlb_flush_done, hsm, mip, power_down_flag,
                   thread, kicked, op, target, todo, tickets, awaits, run,
                   owed>>

(* Mutant: the hart is not woken. *)
WakeHartForgotten(p) ==
    /\ ppc[p] = "kick"
    /\ ppc' = [ppc EXCEPT ![p] = "next"]
    /\ UNCHANGED <<posted, hsm, mip, power_down_flag, thread, kicked, op, target, todo,
                   tickets, awaits, run, owed>>

WakeHart(p) ==
    /\ ppc[p] = "kick"
    /\ kicked' = [kicked EXCEPT ![target[p]] = TRUE]
    /\ ppc' = [ppc EXCEPT ![p] = "next"]
    /\ UNCHANGED <<posted, hsm, mip, power_down_flag, thread, op, target, todo,
                   tickets, awaits, run, owed>>

(* Everything is posted: a fence waits, the others return. *)
Posted(p) ==
    /\ ppc[p] = "next" /\ todo[p] = {}
    /\ p \in Harts => pc[p] = "call"
    /\ ppc' = [ppc EXCEPT ![p] = "none"]
    /\ op' = [op EXCEPT ![p] = "none"]
    /\ target' = [target EXCEPT ![p] = Boot]
    /\ IF p \notin Harts THEN UNCHANGED <<pc, ret>>
       ELSE IF op[p] = "fence" THEN Goto(p, "fence") /\ UNCHANGED ret
       ELSE CallInbox(p, "interp")
    /\ UNCHANGED <<posted, hsm, mip, power_down_flag, req, kicked, todo,
                   tickets, awaits, run, owed>>

-----------------------------------------------------------------------------
(* RemoteSfence() waits for the flushes it asked for.                      *)

TlbFlushDone(h, g) == tlb_flush_done[g] >= tickets[h][g]

FenceSees(h, g) ==
    /\ pc[h] = "fence" /\ g \in awaits[h] /\ TlbFlushDone(h, g)
    /\ awaits' = [awaits EXCEPT ![h] = @ \ {g}]
    /\ tickets' = [tickets EXCEPT ![h][g] = 0]
    /\ UNCHANGED <<posted, hsm, mip, power_down_flag, thread, kicked, op, ppc,
                   target, todo, run, owed>>

(* Mutant: it only waits. *)
FenceOnlyWaits(h, g) ==
    /\ pc[h] = "fence" /\ g \in awaits[h] /\ ~TlbFlushDone(h, g)
    /\ ~fStop
    /\ UNCHANGED vars

(* Meanwhile it takes the flushes that others ask of it. *)
FenceWaits(h, g) ==
    /\ pc[h] = "fence" /\ g \in awaits[h] /\ ~TlbFlushDone(h, g)
    /\ ~fStop
    /\ Goto(h, "take")
    /\ UNCHANGED <<posted, hsm, mip, power_down_flag, ret, req, kicked, call,
                   run, owed>>

FenceEnds(h) ==
    /\ CallInbox(h, "interp")
    /\ awaits' = [awaits EXCEPT ![h] = {}]
    /\ tickets' = [tickets EXCEPT ![h] = [g \in Harts |-> 0]]
    /\ owed' = [owed EXCEPT ![h] = {}]
    /\ UNCHANGED <<posted, hsm, mip, power_down_flag, req, kicked, op, ppc,
                   target, todo, run>>

FenceReturns(h) == pc[h] = "fence" /\ awaits[h] = {} /\ FenceEnds(h)

FenceGivesUp(h) ==
    /\ pc[h] = "fence" /\ fStop
    /\ \E g \in awaits[h] : ~TlbFlushDone(h, g)
    /\ FenceEnds(h)

-----------------------------------------------------------------------------
InboxStep(h) == \/ TakeInbox(h) \/ TakeFlush(h) \/ FlushTaken(h)
                \/ TakeSsip(h) \/ TakeStart(h) \/ TakeLines(h)

HartStep(h) == \/ InboxStep(h) \/ Top(h) \/ Idled(h) \/ WaitReturns(h)
               \/ InterpDown(h) \/ Interp(h) \/ Exit(h)
               \/ CsrReturns(h) \/ WfiReturns(h)
               \/ FenceReturns(h) \/ FenceGivesUp(h)
               \/ \E g \in Harts : FenceSees(h, g) \/ FenceWaits(h, g)

PostStep(p) ==
    \/ \E g \in Harts : \/ PostSoftIrq(p, g) \/ PostTlbFlush(p, g)
                        \/ DriveLine(p, g) \/ RequestExit(p, g)
                        \/ HsmStart(p, g) \/ HsmStartFails(p, g)
    \/ HsmStartAddr(p) \/ HsmStartPost(p) \/ StoreInbox(p) \/ WakeHart(p)
    \/ Posted(p)

Guest(h) ==
    \/ \E what \in {"csr", "wfi"} : Instruction(h, what)
    \/ ClearSoftIrq(h) \/ HsmStop(h)
    \/ \E retentive \in BOOLEAN : HsmSuspend(h, retentive)
    \/ \E what \in {"ipi", "fence"}, set \in scenario.sets : Ecall(h, what, set)
    \/ \E g \in scenario.harts : Ecall(h, "start", {g})

Next == \/ \E h \in Harts : HartStep(h) \/ LeaveBlocks(h) \/ Guest(h)
                            \/ FlushTlb(h)
        \/ \E p \in Posters : PostStep(p)
        \/ \E g \in scenario.lines : SetIrqLine(g)
        \/ Stop

(* Threads go on.  Of the guest nothing is asked, but the interpreter      *)
(* leaves its blocks at the latest after INTERP_COUNT_LIMIT instructions.  *)
Fairness ==
    /\ \A h \in Harts : /\ WF_vars(HartStep(h)) /\ SF_vars(LeaveBlocks(h))
                        /\ WF_vars(FlushTlb(h))
    /\ \A p \in Posters : WF_vars(PostStep(p))

Spec == Init /\ [][Next]_vars
FairSpec == Spec /\ Fairness

-----------------------------------------------------------------------------
(* Properties *)

(* What somebody has stored for h but not yet announced. *)
Coming(what, h) ==
    \E p \in Posters : op[p] = what /\ target[p] = h /\ ppc[p] = "inbox"

(* A post is never lost: what was posted to a hart and not taken in has    *)
(* inbox_pending set, or its poster about to set it, or process_inbox()    *)
(* still to come to it ("cleared first, so that a post racing with this is *)
(* seen next time").                                                       *)
InboxNotLost ==
    \A h \in Harts :
        /\ ssip_posted[h] => \/ inbox_pending[h] \/ Coming("ipi", h)
                             \/ pc[h] \in {"flush", "flushed", "ssip"}
        /\ hsm_start_posted[h] =>
                \/ inbox_pending[h] \/ Coming("start", h)
                \/ pc[h] \in {"flush", "flushed", "ssip", "start"}
        /\ tlb_flush_req[h] # tlb_flush_done[h] =>
                \/ inbox_pending[h] \/ Coming("fence", h)
                \/ pc[h] \in {"flush", "flushed", "taken"}
        /\ (irq_lines[h] <=> "line" \notin mip[h]) =>
                \/ inbox_pending[h] \/ Coming("line", h)
                \/ pc[h] \in {"flush", "flushed", "ssip", "start", "lines"}

(* Nobody else may have claimed the hart p starts: what p wrote to         *)
(* hsm_addr is still there when it posts the start.                        *)
StartClaimed ==
    /\ \A p \in Posters :
        op[p] = "start" /\ ppc[p] \in {"addr", "post"} =>
            /\ hsm_state[target[p]] = "START_PENDING"
            /\ ~hsm_start_posted[target[p]]
            /\ ppc[p] = "post" => hsm_addr[target[p]] = p
    /\ \A h \in Harts : hsm_start_posted[h] =>
            hsm_state[h] = "START_PENDING" /\ hsm_addr[h] # "resume"

(* A hart that the SBI reports as stopped, starting or suspended executes  *)
(* nothing: HsmState() and the hart's own flags agree when it matters.     *)
StoppedRunsNothing ==
    \A h \in Harts :
        pc[h] \in {"run", "call", "fence", "take", "taken"} =>
            hsm_state[h] = "STARTED" /\ ~hsm_stopped[h] /\ ~hsm_suspended[h]

(* RemoteSfence() "returns once every hart in 'set' has flushed its TLB":  *)
(* a hart that has not flushed since the call began is one whose ticket is *)
(* not done.                                                               *)
SfenceComplete ==
    \A h \in Harts :
        pc[h] = "fence" =>
            owed[h] \subseteq {g \in awaits[h] : ~TlbFlushDone(h, g)}

(* An IPI is taken in, unless the machine stops. *)
IpiDelivered == \A h \in Harts : ssip_posted[h] ~> ~ssip_posted[h] \/ fStop

(* "two harts fencing each other do not wait for ever" *)
FenceCompletes ==
    \A h \in Harts : op[h] = "fence" ~> op[h] = "none" /\ awaits[h] = {}

(* Every hart's thread ends once Stop() has asked for it, whatever it      *)
(* runs, waits for or posts.                                               *)
StopReturns == fStop ~> \A h \in Harts : pc[h] = "ended"
=============================================================================
