---------------------------- MODULE RiscvHartProofs ----------------------------
(* For any harts, scenarios and number of fences: no post to a hart is     *)
(* lost, only one hart starts another at a time, a hart the SBI reports as *)
(* stopped executes nothing, and a remote fence returns only after every   *)
(* hart of its set has flushed.                                            *)
EXTENDS RiscvHart, FiniteSetTheorems, TLAPS

-----------------------------------------------------------------------------
(* The inductive invariant                                                 *)

(* A hart posts only from an SBI call; while it takes the flushes asked of *)
(* itself it is between two posts of its own fence.                        *)
CallShape ==
    /\ \A p \in Posters : /\ op[p] = "none" <=> ppc[p] = "none"
                          /\ ppc[p] = "none" => todo[p] = {}
                          /\ ppc[p] \in {"addr", "post"} => op[p] = "start"
    /\ op[Device] \in {"none", "line"} /\ op[Main] \in {"none", "exit"}
    /\ \A h \in Harts :
        /\ op[h] \in {"none", "ipi", "fence", "start"}
        /\ IF ppc[h] = "none" THEN pc[h] # "call"
           ELSE \/ pc[h] = "call"
                \/ /\ pc[h] \in {"take", "taken"}
                   /\ ppc[h] = "next" /\ op[h] = "fence"

(* The fences that were asked for or are still to be stay in the bound. *)
FenceBound == \A g \in Harts : FencesOf(g) <= MaxFences

(* The flags only the hart's thread uses say the same as the state that    *)
(* the other harts see.                                                    *)
HsmAgrees ==
    \A h \in Harts :
        /\ hsm_stopped[h] <=> hsm_state[h] \in {"STOPPED", "START_PENDING"}
        /\ hsm_suspended[h] <=> hsm_state[h] = "SUSPENDED"
        /\ hsm_stopped[h] => power_down_flag[h]

(* process_inbox() inside an instruction is called by a started hart. *)
InboxPcs == {"inbox", "flush", "flushed", "ssip", "start", "lines", "after"}

InstructionRuns ==
    \A h \in Harts :
        ret[h] \in {"csr", "wfi"} =>
            pc[h] \in InboxPcs /\ hsm_state[h] = "STARTED"

HsmRuns == HsmAgrees /\ InstructionRuns /\ StoppedRunsNothing

(* No two calls are starting the same hart. *)
Starting(p) == op[p] = "start" /\ ppc[p] \in {"addr", "post"}

StartUnique ==
    \A p, q \in Posters :
        Starting(p) /\ Starting(q) /\ target[p] = target[q] => p = q

HsmStarts == StartUnique /\ StartClaimed

(* Somebody has told the hart of what was posted, or is about to. *)
Announced(what, h) == inbox_pending[h] \/ Coming(what, h)

(* InboxNotLost for one hart; and a request to flush that came after       *)
(* take_posted_tlb_flush() loaded the last one is announced as well.       *)
HartInbox(h) ==
    /\ ssip_posted[h] =>
            Announced("ipi", h) \/ pc[h] \in {"flush", "flushed", "ssip"}
    /\ hsm_start_posted[h] =>
            \/ Announced("start", h)
            \/ pc[h] \in {"flush", "flushed", "ssip", "start"}
    /\ tlb_flush_req[h] # tlb_flush_done[h] =>
            Announced("fence", h) \/ pc[h] \in {"flush", "flushed", "taken"}
    /\ (irq_lines[h] <=> "line" \notin mip[h]) =>
            \/ Announced("line", h)
            \/ pc[h] \in {"flush", "flushed", "ssip", "start", "lines"}
    /\ pc[h] \in {"flushed", "taken"} /\ req[h] # tlb_flush_req[h] =>
            Announced("fence", h)

Inbox == \A h \in Harts : HartInbox(h)

FlushOrder ==
    \A h \in Harts : /\ tlb_flush_done[h] <= tlb_flush_req[h]
                     /\ req[h] <= tlb_flush_req[h]

(* A hart g that has not flushed since h's fence began is one h has still  *)
(* to ask, or one whose ticket is neither done nor about to be.            *)
Unflushed(h, g) ==
    /\ g \in awaits[h]
    /\ tlb_flush_done[g] < tickets[h][g]
    /\ tickets[h][g] <= tlb_flush_req[g]
    /\ pc[g] \in {"flushed", "taken"} => req[g] < tickets[h][g]

OwedTicket ==
    \A h \in Harts :
        /\ op[h] \in {"ipi", "start"} => owed[h] = {}
        /\ \A g \in owed[h] : g \in todo[h] \/ Unflushed(h, g)

Sfence == FlushOrder /\ OwedTicket

IInv == TypeOK /\ CallShape /\ FenceBound /\ HsmRuns /\ HsmStarts /\ Inbox
        /\ Sfence

-----------------------------------------------------------------------------
(* The steps, in the groups in which the proofs go through them.           *)

ThreadMoves(h) ==
    \/ Top(h) \/ Idled(h) \/ WaitReturns(h) \/ InterpDown(h) \/ Interp(h)
    \/ Exit(h) \/ CsrReturns(h) \/ WfiReturns(h) \/ LeaveBlocks(h)
    \/ \E what \in {"csr", "wfi"} : Instruction(h, what)

GuestCalls(h) ==
    \/ ClearSoftIrq(h) \/ HsmStop(h)
    \/ \E retentive \in BOOLEAN : HsmSuspend(h, retentive)

Fences(h) ==
    \/ FenceReturns(h) \/ FenceGivesUp(h) \/ FlushTlb(h)
    \/ \E g \in Harts : FenceSees(h, g) \/ FenceWaits(h, g)

Begins ==
    \/ Stop \/ \E g \in Harts : SetIrqLine(g)
    \/ \E h \in Harts, what \in {"ipi", "fence", "start"},
          set \in SUBSET Harts : Ecall(h, what, set)

PostsOne(p) ==
    \E g \in Harts : \/ PostSoftIrq(p, g) \/ PostTlbFlush(p, g)
                     \/ DriveLine(p, g) \/ RequestExit(p, g)
                     \/ HsmStart(p, g) \/ HsmStartFails(p, g)

PostsOn(p) == \/ HsmStartAddr(p) \/ HsmStartPost(p) \/ StoreInbox(p)
              \/ WakeHart(p) \/ Posted(p)

(* What a scenario is made of. *)
LEMMA ScenarioType ==
    ASSUME IInv
    PROVE /\ MaxFences \in Nat /\ Boot \in Harts
          /\ scenario.harts \subseteq Harts /\ scenario.lines \subseteq Harts
          /\ scenario.sets \subseteq SUBSET Harts
BY Zenon, HartAssumption DEF IInv, TypeOK, Scenario, MaxFences

LEMMA Steps ==
    ASSUME IInv, [Next]_vars
    PROVE \/ UNCHANGED vars \/ Begins
          \/ \E h \in Harts : \/ InboxStep(h) \/ ThreadMoves(h)
                              \/ GuestCalls(h) \/ Fences(h)
          \/ \E p \in Posters : PostsOne(p) \/ PostsOn(p)
<1>1. /\ scenario.harts \subseteq Harts /\ scenario.lines \subseteq Harts
      /\ scenario.sets \subseteq SUBSET Harts
  BY Zenon, ScenarioType
<1>2. ASSUME NEW h \in Harts, HartStep(h) \/ LeaveBlocks(h) \/ FlushTlb(h)
      PROVE InboxStep(h) \/ ThreadMoves(h) \/ Fences(h)
  BY Zenon, <1>2 DEF HartStep, ThreadMoves, Fences
<1>3. ASSUME NEW h \in Harts, Guest(h)
      PROVE ThreadMoves(h) \/ GuestCalls(h) \/ Begins
  <2>1. \A g \in scenario.harts : {g} \in SUBSET Harts BY Zenon, <1>1
  <2>2. \A set \in scenario.sets : set \in SUBSET Harts BY Zenon, <1>1
  <2> QED BY Zenon, <1>3, <2>1, <2>2 DEF Guest, ThreadMoves, GuestCalls, Begins
<1>4. ASSUME NEW p \in Posters, PostStep(p) PROVE PostsOne(p) \/ PostsOn(p)
  BY Zenon, <1>4 DEF PostStep, PostsOne, PostsOn
<1>5. ASSUME Stop \/ \E g \in scenario.lines : SetIrqLine(g) PROVE Begins
  BY Zenon, <1>1, <1>5 DEF Begins
<1> QED BY Zenon, <1>2, <1>3, <1>4, <1>5 DEF Next

LEMMA ScenarioKept == ASSUME IInv, [Next]_vars PROVE scenario' = scenario
<1>1. ASSUME NEW h \in Harts, InboxStep(h) PROVE scenario' = scenario
  BY Zenon, <1>1
     DEF InboxStep, TakeInbox, TakeFlush, FlushTaken, TakeSsip, TakeStart,
              TakeLines, run
<1>2. ASSUME NEW h \in Harts, ThreadMoves(h) PROVE scenario' = scenario
  BY Zenon, <1>2
     DEF ThreadMoves, Top, Idled, WaitReturns, InterpDown, Interp, Exit,
              CsrReturns, WfiReturns, LeaveBlocks, Instruction, run
<1>3. ASSUME NEW h \in Harts, GuestCalls(h) \/ Fences(h)
      PROVE scenario' = scenario
  BY Zenon, <1>3 DEF GuestCalls, ClearSoftIrq, HsmStop, HsmSuspend, Fences,
              FenceReturns, FenceGivesUp, FenceEnds, FlushTlb, FenceSees,
              FenceWaits, run
<1>4. ASSUME Begins \/ UNCHANGED vars PROVE scenario' = scenario
  BY Zenon, <1>4 DEF Begins, Stop, SetIrqLine, Ecall, vars, run
<1>5. ASSUME NEW p \in Posters, PostsOne(p) \/ PostsOn(p)
      PROVE scenario' = scenario
  BY Zenon, <1>5
     DEF PostsOne, PostSoftIrq, PostTlbFlush, DriveLine, RequestExit,
              HsmStart, HsmStartFails, PostsOn, HsmStartAddr, HsmStartPost,
              StoreInbox, WakeHart, Posted, run
<1> QED BY Zenon, Steps, <1>1, <1>2, <1>3, <1>4, <1>5

-----------------------------------------------------------------------------
(* The types                                                               *)

(* A request stays in the bound because a fence began only within it. *)
Fencing(g) == {p \in Harts : op[p] = "fence" /\ g \in todo[p]}

LEMMA FencingFinite ==
    \A g \in Harts : IsFiniteSet(Fencing(g)) /\ Cardinality(Fencing(g)) \in Nat
<1> SUFFICES ASSUME NEW g \in Harts
             PROVE IsFiniteSet(Fencing(g)) /\ Cardinality(Fencing(g)) \in Nat
  OBVIOUS
<1>1. IsFiniteSet(Harts) /\ Fencing(g) \in SUBSET Harts
  BY Zenon, HartAssumption DEF Fencing
<1>2. IsFiniteSet(Fencing(g)) BY Zenon, <1>1, FS_Subset
<1> QED BY Zenon, <1>2, FS_CardinalityType

LEMMA RequestInBound ==
    ASSUME IInv, NEW p \in Posters, NEW g \in Harts, Posts(p, "fence", g)
    PROVE p \in Harts /\ tlb_flush_req[g] + 1 \in 0..MaxFences
<1>1. op \in [Posters -> Ops] /\ tlb_flush_req[g] \in Nat /\ MaxFences \in Nat
  BY ScenarioType DEF IInv, TypeOK, CallOK, PostedOK
<1>2. p \in Harts BY Zenon, <1>1 DEF Posts, IInv, CallShape, Posters
<1>3. p \in Fencing(g) BY Zenon, <1>2 DEF Posts, Fencing
<1>4. IsFiniteSet(Fencing(g)) /\ Cardinality(Fencing(g)) \in Nat
  BY Zenon, FencingFinite
<1>5. Cardinality(Fencing(g)) # 0 BY Zenon, <1>3, <1>4, FS_EmptySet
<1>6. tlb_flush_req[g] + Cardinality(Fencing(g)) <= MaxFences
  BY Zenon DEF IInv, FenceBound, FencesOf, Fencing
<1> DEFINE n == Cardinality(Fencing(g))
<1>7. n \in Nat /\ n # 0 /\ tlb_flush_req[g] + n <= MaxFences
  BY Zenon, <1>4, <1>5, <1>6
<1> HIDE DEF n
<1> QED BY <1>1, <1>2, <1>7

LEMMA PostedKept == ASSUME IInv, [Next]_vars PROVE PostedOK'
<1>1. PostedOK /\ MaxFences' = MaxFences /\ MaxFences \in Nat
  BY Zenon, ScenarioKept, ScenarioType DEF IInv, TypeOK, MaxFences
<1>2. ASSUME UNCHANGED posted PROVE PostedOK'
  BY Zenon, <1>1, <1>2 DEF PostedOK, posted, Bools
<1>3. ASSUME NEW h \in Harts, InboxStep(h) PROVE PostedOK'
  <2>1. req \in [Harts -> 0..MaxFences] BY Zenon DEF IInv, TypeOK, ThreadOK
  <2>2. CASE FlushTaken(h)
    BY Zenon, <1>1, <2>1, <2>2 DEF FlushTaken, PostedOK, Bools
  <2>3. CASE TakeFlush(h) \/ TakeLines(h)
    BY Zenon, <1>2, <2>3 DEF TakeFlush, TakeLines
  <2>4. CASE TakeInbox(h) \/ TakeSsip(h) \/ TakeStart(h)
    BY Zenon, <1>1, <2>4 DEF TakeInbox, TakeSsip, TakeStart, PostedOK, Bools
  <2> QED BY Zenon, <1>3, <2>2, <2>3, <2>4 DEF InboxStep
<1>4. ASSUME NEW h \in Harts, ThreadMoves(h) PROVE PostedOK'
  <2>1. CASE Exit(h) BY Zenon, <1>1, <2>1 DEF Exit, PostedOK, Bools
  <2>2. CASE ~Exit(h)
    <3>1. UNCHANGED posted
      BY Zenon, <1>4, <2>2
         DEF ThreadMoves, Top, Idled, WaitReturns, InterpDown,
                        Interp, CsrReturns, WfiReturns, LeaveBlocks,
                        Instruction
    <3> QED BY Zenon, <1>2, <3>1
  <2> QED BY Zenon, <2>1, <2>2
<1>5. ASSUME Begins \/ UNCHANGED vars PROVE PostedOK'
  BY Zenon, <1>2, <1>5 DEF Begins, Stop, SetIrqLine, Ecall, vars
<1>6. ASSUME NEW h \in Harts, GuestCalls(h) \/ Fences(h) PROVE PostedOK'
  BY Zenon, <1>2, <1>6
     DEF GuestCalls, ClearSoftIrq, HsmStop, HsmSuspend, Fences,
                    FenceReturns, FenceGivesUp, FenceEnds, FlushTlb,
                    FenceSees, FenceWaits
<1>7. ASSUME NEW p \in Posters, PostsOne(p) PROVE PostedOK'
  <2>1. PICK g \in Harts :
            \/ PostSoftIrq(p, g) \/ PostTlbFlush(p, g) \/ DriveLine(p, g)
            \/ RequestExit(p, g) \/ HsmStart(p, g) \/ HsmStartFails(p, g)
    BY Zenon, <1>7 DEF PostsOne
  <2>2. CASE PostTlbFlush(p, g)
    <3>1. Posts(p, "fence", g) BY Zenon, <2>2 DEF PostTlbFlush
    <3>2. tlb_flush_req[g] + 1 \in 0..MaxFences BY Zenon, <3>1, RequestInBound
    <3> QED BY Zenon, <1>1, <2>2, <3>2 DEF PostTlbFlush, PostedOK, Bools
  <2>3. CASE HsmStart(p, g) \/ HsmStartFails(p, g)
    BY Zenon, <1>2, <2>3 DEF HsmStart, HsmStartFails
  <2>4. CASE PostSoftIrq(p, g) \/ DriveLine(p, g) \/ RequestExit(p, g)
    BY Zenon, <1>1, <2>4
       DEF PostSoftIrq, DriveLine, RequestExit, PostedOK, Bools
  <2> QED BY Zenon, <2>1, <2>2, <2>3, <2>4
<1>8. ASSUME NEW p \in Posters, PostsOn(p) PROVE PostedOK'
  <2>1. target \in [Posters -> Harts] BY Zenon DEF IInv, TypeOK, CallOK
  <2>2. CASE HsmStartPost(p) \/ StoreInbox(p)
    BY Zenon, <1>1, <2>1, <2>2 DEF HsmStartPost, StoreInbox, PostedOK, Bools
  <2>3. CASE HsmStartAddr(p) \/ WakeHart(p) \/ Posted(p)
    BY Zenon, <1>2, <2>3 DEF HsmStartAddr, WakeHart, Posted
  <2> QED BY Zenon, <1>8, <2>2, <2>3 DEF PostsOn
<1> QED BY Zenon, Steps, <1>3, <1>4, <1>5, <1>6, <1>7, <1>8

(* A stopped hart is entered, or a suspended one resumes. *)
LEMMA StartDoes ==
    ASSUME NEW h \in Harts, TakeStart(h)
    PROVE IF hsm_start_posted[h] THEN Enter(h) /\ UNCHANGED hsm_addr
          ELSE UNCHANGED <<hsm, power_down_flag, owed>>
BY Zenon DEF TakeStart

Continues(h) ==
    /\ hsm_suspended' = [hsm_suspended EXCEPT ![h] = FALSE]
    /\ hsm_state' = [hsm_state EXCEPT ![h] =
                        IF hsm_suspended[h] THEN "STARTED" ELSE @]
    /\ UNCHANGED <<hsm_addr, hsm_stopped, hsm_resume, power_down_flag, owed>>

LEMMA InterpDoes ==
    ASSUME NEW h \in Harts, Interp(h)
    PROVE (Enter(h) /\ UNCHANGED hsm_addr) \/ Continues(h)
BY Zenon DEF Interp, Continues

LEMMA HsmKept == ASSUME IInv, [Next]_vars PROVE HsmOK'
<1>1. HsmOK BY Zenon DEF IInv, TypeOK
<1>2. ASSUME UNCHANGED <<hsm, mip, power_down_flag>> PROVE HsmOK'
  BY Zenon, <1>1, <1>2 DEF HsmOK, hsm, Bools
<1>3. ASSUME NEW h \in Harts, Enter(h), UNCHANGED <<hsm_addr, mip>>
      PROVE HsmOK'
  BY Zenon, <1>1, <1>3 DEF HsmOK, Enter, HsmStates, Bools
<1>4. ASSUME NEW h \in Harts, InboxStep(h) PROVE HsmOK'
  <2>1. CASE TakeStart(h)
    <3>1. UNCHANGED mip BY Zenon, <2>1 DEF TakeStart
    <3> QED BY Zenon, <1>2, <1>3, <2>1, <3>1, StartDoes
  <2>2. CASE TakeInbox(h) \/ TakeFlush(h) \/ FlushTaken(h)
    BY Zenon, <1>2, <2>2 DEF TakeInbox, TakeFlush, FlushTaken
  <2>3. CASE TakeSsip(h) BY Zenon, <1>1, <2>3 DEF TakeSsip, HsmOK, hsm, Bools
  <2>4. CASE TakeLines(h) BY Zenon, <1>1, <2>4 DEF TakeLines, HsmOK, hsm, Bools
  <2> QED BY Zenon, <1>4, <2>1, <2>2, <2>3, <2>4 DEF InboxStep
<1>5. ASSUME NEW h \in Harts, ThreadMoves(h) PROVE HsmOK'
  <2>1. CASE Interp(h)
    <3>1. UNCHANGED mip BY Zenon, <2>1 DEF Interp
    <3>2. CASE Continues(h)
      BY Zenon, <1>1, <3>1, <3>2 DEF Continues, HsmOK, HsmStates, Bools
    <3> QED BY Zenon, <1>3, <2>1, <3>1, <3>2, InterpDoes
  <2>2. CASE WfiReturns(h)
    <3>1. \/ UNCHANGED power_down_flag
          \/ power_down_flag' = [power_down_flag EXCEPT ![h] = TRUE]
      BY Zenon, <2>2 DEF WfiReturns
    <3>2. UNCHANGED <<hsm, mip>> BY Zenon, <2>2 DEF WfiReturns
    <3> QED BY Zenon, <1>1, <3>1, <3>2 DEF HsmOK, hsm, Bools
  <2>3. CASE ~Interp(h) /\ ~WfiReturns(h)
    <3>1. UNCHANGED <<hsm, mip, power_down_flag>>
      BY Zenon, <1>5, <2>3
         DEF ThreadMoves, Top, Idled, WaitReturns, InterpDown,
                        Exit, CsrReturns, LeaveBlocks, Instruction
    <3> QED BY Zenon, <1>2, <3>1
  <2> QED BY Zenon, <2>1, <2>2, <2>3
<1>6. ASSUME Begins \/ UNCHANGED vars PROVE HsmOK'
  BY Zenon, <1>2, <1>6 DEF Begins, Stop, SetIrqLine, Ecall, vars
<1>7. ASSUME NEW h \in Harts, GuestCalls(h) PROVE HsmOK'
  <2>1. CASE ClearSoftIrq(h)
    BY Zenon, <1>1, <2>1 DEF ClearSoftIrq, HsmOK, hsm, Bools
  <2>2. CASE HsmStop(h)
    BY Zenon, <1>1, <2>2 DEF HsmStop, HsmOK, HsmStates, Bools
  <2>3. CASE \E retentive \in BOOLEAN : HsmSuspend(h, retentive)
    BY Zenon, <1>1, <2>3 DEF HsmSuspend, HsmOK, HsmStates, Entries, Bools
  <2> QED BY Zenon, <1>7, <2>1, <2>2, <2>3 DEF GuestCalls
<1>8. ASSUME NEW h \in Harts, Fences(h) PROVE HsmOK'
  BY Zenon, <1>2, <1>8
     DEF Fences, FenceReturns, FenceGivesUp, FenceEnds, FlushTlb,
                    FenceSees, FenceWaits
<1>9. ASSUME NEW p \in Posters, PostsOne(p) PROVE HsmOK'
  <2>1. PICK g \in Harts :
            \/ PostSoftIrq(p, g) \/ PostTlbFlush(p, g) \/ DriveLine(p, g)
            \/ RequestExit(p, g) \/ HsmStart(p, g) \/ HsmStartFails(p, g)
    BY Zenon, <1>9 DEF PostsOne
  <2>2. CASE HsmStart(p, g)
    BY Zenon, <1>1, <2>2 DEF HsmStart, HsmOK, HsmStates, Bools
  <2>3. CASE ~HsmStart(p, g)
    BY Zenon, <1>2, <2>1, <2>3
       DEF PostSoftIrq, PostTlbFlush, DriveLine, RequestExit,
                            HsmStartFails
  <2> QED BY Zenon, <2>2, <2>3
<1>10. ASSUME NEW p \in Posters, PostsOn(p) PROVE HsmOK'
  <2>1. CASE HsmStartAddr(p)
    <3>1. target[p] \in Harts /\ p \in Harts
      BY Zenon, <2>1 DEF HsmStartAddr, IInv, TypeOK, CallOK, CallShape, Posters
    <3> QED BY Zenon, <1>1, <2>1, <3>1 DEF HsmStartAddr, HsmOK, Entries, Bools
  <2>2. CASE ~HsmStartAddr(p)
    BY Zenon, <1>2, <1>10, <2>2
       DEF PostsOn, HsmStartPost, StoreInbox, WakeHart, Posted
  <2> QED BY Zenon, <2>1, <2>2
<1> QED BY Zenon, Steps, <1>4, <1>5, <1>6, <1>7, <1>8, <1>9, <1>10

(* Where the thread goes between two blocks of instructions. *)
LEMMA ThreadDoes ==
    ASSUME IInv, NEW h \in Harts, ThreadMoves(h)
    PROVE /\ pc[h] \in {"top", "after", "wait", "exit", "run"}
          /\ UNCHANGED <<call, run, req, mip>>
          /\ \E to \in {"ended", "inbox", "wait", "top", "run", "exit"},
                from \in Callers : /\ pc' = [pc EXCEPT ![h] = to]
                                   /\ ret' = [ret EXCEPT ![h] = from]
<1>1. pc \in [Harts -> Pcs] /\ ret \in [Harts -> Callers]
  BY Zenon DEF IInv, TypeOK, ThreadOK
<1>2. UNCHANGED <<call, run, req, mip>>
  BY Zenon DEF ThreadMoves, Top, Idled, WaitReturns, InterpDown, Interp, Exit,
         CsrReturns, WfiReturns, LeaveBlocks, Instruction
<1>3. pc[h] \in {"top", "after", "wait", "exit", "run"}
  BY Zenon DEF ThreadMoves, Top, Idled, WaitReturns, InterpDown, Interp, Exit,
         CsrReturns, WfiReturns, LeaveBlocks, Instruction
<1>4. \/ \E from \in Callers : CallInbox(h, from)
      \/ \E to \in {"top", "run", "exit"} : Leave(h, to)
      \/ UNCHANGED ret /\ \E to \in {"ended", "wait", "top"} : Goto(h, to)
  BY Zenon DEF ThreadMoves, Top, Idled, WaitReturns, InterpDown, Interp, Exit,
         CsrReturns, WfiReturns, LeaveBlocks, Instruction, Callers
<1>5. ret' = ret => ret' = [ret EXCEPT ![h] = ret[h]] BY Zenon, <1>1
<1> QED
  BY Zenon, <1>1, <1>2, <1>3, <1>4, <1>5 DEF CallInbox, Leave, Goto, Callers

LEMMA ThreadKept == ASSUME IInv, [Next]_vars PROVE ThreadOK'
<1>1. ThreadOK /\ MaxFences' = MaxFences /\ MaxFences \in Nat
  BY Zenon, ScenarioKept, ScenarioType DEF IInv, TypeOK, MaxFences
<1>2. ASSUME UNCHANGED <<thread, kicked>> PROVE ThreadOK'
  BY Zenon, <1>1, <1>2 DEF ThreadOK, thread, Bools
<1>3. ASSUME NEW h \in Harts, NEW to \in Pcs, pc' = [pc EXCEPT ![h] = to],
             UNCHANGED <<req, kicked>>,
             UNCHANGED ret \/ ret' = [ret EXCEPT ![h] = "interp"]
      PROVE ThreadOK'
  BY Zenon, <1>1, <1>3 DEF ThreadOK, Callers, Bools
<1>4. ASSUME NEW h \in Harts, InboxStep(h) PROVE ThreadOK'
  <2>1. CASE TakeFlush(h) \/ FlushTaken(h)
    <3>1. tlb_flush_req[h] \in 0..MaxFences BY Zenon DEF IInv, TypeOK, PostedOK
    <3> QED BY <1>1, <2>1, <3>1 DEF TakeFlush, FlushTaken, Goto, ThreadOK, Pcs,
                                   Bools
  <2>2. CASE TakeInbox(h) \/ TakeSsip(h) \/ TakeStart(h) \/ TakeLines(h)
    BY Zenon, <1>3, <2>2
       DEF TakeInbox, TakeSsip, TakeStart, TakeLines, Goto, Pcs
  <2> QED BY Zenon, <1>4, <2>1, <2>2 DEF InboxStep
<1>5. ASSUME NEW h \in Harts, ThreadMoves(h) PROVE ThreadOK'
  <2>1. PICK to \in {"ended", "inbox", "wait", "top", "run", "exit"},
             from \in Callers : /\ pc' = [pc EXCEPT ![h] = to]
                                /\ ret' = [ret EXCEPT ![h] = from]
    BY Zenon, <1>5, ThreadDoes
  <2>2. UNCHANGED req BY Zenon, <1>5, ThreadDoes
  <2>3. UNCHANGED kicked \/ kicked' = [kicked EXCEPT ![h] = FALSE]
    BY Zenon, <1>5
       DEF ThreadMoves, Top, Idled, WaitReturns, InterpDown, Interp, Exit,
                CsrReturns, WfiReturns, LeaveBlocks, Instruction
  <2> QED BY Zenon, <1>1, <2>1, <2>2, <2>3 DEF ThreadOK, Pcs, Bools
<1>6. ASSUME Begins \/ UNCHANGED vars PROVE ThreadOK'
  <2>1. CASE \E h \in Harts, what \in {"ipi", "fence", "start"},
                set \in SUBSET Harts : Ecall(h, what, set)
    BY Zenon, <1>3, <2>1 DEF Ecall, Goto, Pcs
  <2> QED BY Zenon, <1>2, <1>6, <2>1 DEF Begins, Stop, SetIrqLine, vars
<1>7. ASSUME NEW h \in Harts, GuestCalls(h) PROVE ThreadOK'
  <2>1. CASE ClearSoftIrq(h) BY Zenon, <1>2, <2>1 DEF ClearSoftIrq
  <2> QED
    BY Zenon, <1>3, <1>7, <2>1 DEF GuestCalls, HsmStop, HsmSuspend, CallInbox,
                                  Goto, Pcs
<1>8. ASSUME NEW h \in Harts, Fences(h) PROVE ThreadOK'
  <2>1. CASE \E g \in Harts : FenceSees(h, g)
    BY Zenon, <1>2, <2>1 DEF FenceSees
  <2> QED BY Zenon, <1>3, <1>8, <2>1 DEF Fences, FenceReturns, FenceGivesUp,
                FenceEnds, FlushTlb, FenceWaits, CallInbox, Goto, Pcs
<1>9. ASSUME NEW p \in Posters, PostsOne(p) PROVE ThreadOK'
  BY Zenon, <1>2, <1>9 DEF PostsOne, PostSoftIrq, PostTlbFlush, DriveLine,
                    RequestExit, HsmStart, HsmStartFails
<1>10. ASSUME NEW p \in Posters, PostsOn(p) PROVE ThreadOK'
  <2>1. CASE WakeHart(p)
    <3>1. target[p] \in Harts BY Zenon DEF IInv, TypeOK, CallOK
    <3> QED BY Zenon, <1>1, <2>1, <3>1 DEF WakeHart, ThreadOK, thread, Bools
  <2>2. CASE Posted(p)
    BY Zenon, <1>2, <1>3, <2>2 DEF Posted, CallInbox, Goto, Pcs, thread
  <2>3. CASE HsmStartAddr(p) \/ HsmStartPost(p) \/ StoreInbox(p)
    BY Zenon, <1>2, <2>3 DEF HsmStartAddr, HsmStartPost, StoreInbox
  <2> QED BY Zenon, <1>10, <2>1, <2>2, <2>3 DEF PostsOn
<1> QED BY Zenon, Steps, <1>4, <1>5, <1>6, <1>7, <1>8, <1>9, <1>10

(* What a hart or another thread does with one hart of its set. *)
LEMMA PostDoes ==
    ASSUME NEW p \in Posters, NEW g \in Harts,
           \/ PostSoftIrq(p, g) \/ PostTlbFlush(p, g) \/ DriveLine(p, g)
           \/ RequestExit(p, g) \/ HsmStart(p, g)
    PROVE /\ Posts(p, op[p], g) /\ PostTo(p, g)
          /\ UNCHANGED <<op, thread, owed>>
          /\ \/ UNCHANGED <<tickets, awaits>> /\ op[p] # "fence"
             \/ PostTlbFlush(p, g) /\ op[p] = "fence"
BY Zenon DEF PostSoftIrq, PostTlbFlush, DriveLine, RequestExit, HsmStart, Posts

LEMMA CallKept == ASSUME IInv, [Next]_vars PROVE CallOK'
<1>1. CallOK /\ MaxFences' = MaxFences /\ MaxFences \in Nat /\ Boot \in Harts
  BY Zenon, ScenarioKept, ScenarioType DEF IInv, TypeOK, MaxFences
<1>2. ASSUME UNCHANGED call, UNCHANGED owed \/ \E h \in Harts : Flush(h)
      PROVE CallOK'
  BY Zenon, <1>1, <1>2 DEF CallOK, call, Flush
<1>3. ASSUME NEW h \in Harts, InboxStep(h) PROVE CallOK'
  <2>1. UNCHANGED call
    BY Zenon, <1>3 DEF InboxStep, TakeInbox, TakeFlush, FlushTaken, TakeSsip,
                TakeStart, TakeLines
  <2>2. UNCHANGED owed \/ Flush(h)
    BY Zenon, <1>3 DEF InboxStep, TakeInbox, TakeFlush, FlushTaken, TakeSsip,
                TakeStart, TakeLines, Enter
  <2> QED BY Zenon, <1>2, <2>1, <2>2
<1>4. ASSUME NEW h \in Harts, ThreadMoves(h) PROVE CallOK'
  <2>1. UNCHANGED call BY Zenon, <1>4, ThreadDoes
  <2>2. UNCHANGED owed \/ Flush(h)
    BY Zenon, <1>4
       DEF ThreadMoves, Top, Idled, WaitReturns, InterpDown, Interp,
                Enter, Exit, CsrReturns, WfiReturns, LeaveBlocks, Instruction
  <2> QED BY Zenon, <1>2, <2>1, <2>2
<1>5. ASSUME Begins \/ UNCHANGED vars PROVE CallOK'
  <2>1. CASE UNCHANGED vars BY Zenon, <1>2, <2>1 DEF vars
  <2>2. CASE \E h \in Harts, what \in {"ipi", "fence", "start"},
                set \in SUBSET Harts : Ecall(h, what, set)
    BY <1>1, <2>2 DEF Ecall, BeginPosting, CallOK, Ops, PostPcs, Posters
  <2>3. CASE Stop \/ \E g \in Harts : SetIrqLine(g)
    BY <1>1, <2>3, ScenarioType DEF Stop, SetIrqLine, BeginPosting, CallOK,
                                    Ops, PostPcs, Posters
  <2> QED BY Zenon, <1>5, <2>1, <2>2, <2>3 DEF Begins
<1>6. ASSUME NEW h \in Harts, GuestCalls(h) PROVE CallOK'
  BY Zenon, <1>2, <1>6 DEF GuestCalls, ClearSoftIrq, HsmStop, HsmSuspend
<1>7. ASSUME NEW h \in Harts, Fences(h) PROVE CallOK'
  <2>1. CASE \E g \in Harts : FenceWaits(h, g)
    BY Zenon, <1>2, <2>1 DEF FenceWaits
  <2>2. CASE \E g \in Harts : FenceSees(h, g)
    BY <1>1, <2>2 DEF FenceSees, CallOK
  <2>3. CASE FlushTlb(h)
    BY Zenon, <1>1, <2>3 DEF FlushTlb, Flush, CallOK, Posters
  <2>4. CASE FenceReturns(h) \/ FenceGivesUp(h)
    <3>1. FenceEnds(h) BY Zenon, <2>4 DEF FenceReturns, FenceGivesUp
    <3>2. [g \in Harts |-> 0] \in [Harts -> 0..MaxFences] BY <1>1
    <3> QED BY Zenon, <1>1, <3>1, <3>2 DEF FenceEnds, CallOK
  <2> QED BY Zenon, <1>7, <2>1, <2>2, <2>3, <2>4 DEF Fences
<1>8. ASSUME NEW p \in Posters, PostsOne(p) PROVE CallOK'
  <2>1. PICK g \in Harts :
            \/ PostSoftIrq(p, g) \/ PostTlbFlush(p, g) \/ DriveLine(p, g)
            \/ RequestExit(p, g) \/ HsmStart(p, g) \/ HsmStartFails(p, g)
    BY Zenon, <1>8 DEF PostsOne
  <2>2. CASE HsmStartFails(p, g) BY Zenon, <1>1, <2>2 DEF HsmStartFails, CallOK
  <2>3. CASE ~HsmStartFails(p, g)
    <3>1. PostTo(p, g) /\ UNCHANGED <<op, owed>> BY Zenon, <2>1, <2>3, PostDoes
    <3>2. CASE UNCHANGED <<tickets, awaits>>
      BY Zenon, <1>1, <3>1, <3>2 DEF PostTo, CallOK, PostPcs
    <3>3. CASE PostTlbFlush(p, g)
      <4>1. p \in Harts /\ tlb_flush_req[g] + 1 \in 0..MaxFences
        BY Zenon, <3>3, RequestInBound DEF PostTlbFlush
      <4> QED BY <1>1, <3>1, <3>3, <4>1 DEF PostTlbFlush, PostTo, CallOK,
                                            PostPcs
    <3> QED BY Zenon, <2>1, <2>3, <3>2, <3>3, PostDoes
  <2> QED BY Zenon, <2>2, <2>3
<1>9. ASSUME NEW p \in Posters, PostsOn(p) PROVE CallOK'
  <2>1. UNCHANGED <<todo, tickets, awaits, owed>>
    BY Zenon, <1>9
       DEF PostsOn, HsmStartAddr, HsmStartPost, StoreInbox, WakeHart,
                Posted
  <2>2. PICK to \in PostPcs : ppc' = [ppc EXCEPT ![p] = to]
    BY Zenon, <1>9
       DEF PostsOn, HsmStartAddr, HsmStartPost, StoreInbox, WakeHart,
                Posted, PostPcs
  <2>3. \/ UNCHANGED <<op, target>>
        \/ /\ op' = [op EXCEPT ![p] = "none"]
           /\ target' = [target EXCEPT ![p] = Boot]
    BY Zenon, <1>9
       DEF PostsOn, HsmStartAddr, HsmStartPost, StoreInbox, WakeHart,
                Posted
  <2> QED BY Zenon, <1>1, <2>1, <2>2, <2>3 DEF CallOK, Ops
<1> QED BY Zenon, Steps, <1>3, <1>4, <1>5, <1>6, <1>7, <1>8, <1>9

LEMMA TypeStep == ASSUME IInv, [Next]_vars PROVE TypeOK'
<1>1. scenario' \in Scenarios BY Zenon, ScenarioKept DEF IInv, TypeOK
<1>2. fStop \in BOOLEAN BY Zenon DEF IInv, TypeOK
<1>3. fStop' \in {fStop, TRUE}
  <2>1. ASSUME NEW h \in Harts, InboxStep(h) PROVE fStop' = fStop
    BY Zenon, <2>1 DEF InboxStep, TakeInbox, TakeFlush, FlushTaken, TakeSsip,
                TakeStart, TakeLines, run
  <2>2. ASSUME NEW h \in Harts, ThreadMoves(h) PROVE fStop' = fStop
    BY Zenon, <2>2, ThreadDoes DEF run
  <2>3. ASSUME NEW h \in Harts, GuestCalls(h) \/ Fences(h) PROVE fStop' = fStop
    BY Zenon, <2>3 DEF GuestCalls, ClearSoftIrq, HsmStop, HsmSuspend, Fences,
                FenceReturns, FenceGivesUp, FenceEnds, FlushTlb, FenceSees,
                FenceWaits, run
  <2>4. ASSUME Begins \/ UNCHANGED vars PROVE fStop' \in {fStop, TRUE}
    BY Zenon, <2>4 DEF Begins, Stop, SetIrqLine, Ecall, vars, run
  <2>5. ASSUME NEW p \in Posters, PostsOne(p) \/ PostsOn(p)
        PROVE fStop' = fStop
    BY Zenon, <2>5
       DEF PostsOne, PostSoftIrq, PostTlbFlush, DriveLine, RequestExit,
                HsmStart, HsmStartFails, PostsOn, HsmStartAddr, HsmStartPost,
                StoreInbox, WakeHart, Posted, run
  <2> QED BY Zenon, Steps, <2>1, <2>2, <2>3, <2>4, <2>5
<1>4. fStop' \in BOOLEAN BY Zenon, <1>2, <1>3
<1> QED
  BY Zenon, <1>1, <1>4, PostedKept, HsmKept, ThreadKept, CallKept DEF TypeOK

-----------------------------------------------------------------------------
(* The calls                                                               *)

(* Only SBI calls, the posts and the flushes a fence takes on the way move *)
(* a hart to or from "call", "take" and "taken".                           *)
LEMMA CallStep == ASSUME IInv, [Next]_vars PROVE CallShape'
<1>1. /\ CallShape /\ op \in [Posters -> Ops] /\ ppc \in [Posters -> PostPcs]
      /\ pc \in [Harts -> Pcs] /\ todo \in [Posters -> SUBSET Harts]
  BY Zenon DEF IInv, TypeOK, ThreadOK, CallOK
<1>2. ASSUME NEW h \in Harts, NEW to, to # "call",
             pc[h] \notin {"call", "take", "taken"},
             pc' = [pc EXCEPT ![h] = to], UNCHANGED <<op, ppc, todo>>
      PROVE CallShape'
  BY Zenon, <1>1, <1>2 DEF CallShape
<1>3. ASSUME UNCHANGED <<pc, op, ppc, todo>> PROVE CallShape'
  BY Zenon, <1>1, <1>3 DEF CallShape
<1>4. ASSUME NEW h \in Harts, InboxStep(h) PROVE CallShape'
  <2>1. CASE TakeFlush(h) \/ FlushTaken(h)
    BY <1>1, <2>1 DEF TakeFlush, FlushTaken, Goto, call, CallShape
  <2>2. CASE TakeInbox(h) \/ TakeSsip(h) \/ TakeStart(h) \/ TakeLines(h)
    BY Zenon, <1>2, <2>2
       DEF TakeInbox, TakeSsip, TakeStart, TakeLines, Goto, call
  <2> QED BY Zenon, <1>4, <2>1, <2>2 DEF InboxStep
<1>5. ASSUME NEW h \in Harts, ThreadMoves(h) PROVE CallShape'
  BY Zenon, <1>2, <1>5, ThreadDoes DEF call
<1>6. ASSUME Begins \/ UNCHANGED vars PROVE CallShape'
  <2>1. CASE UNCHANGED vars BY Zenon, <1>3, <2>1 DEF vars, thread, call
  <2>2. ASSUME NEW h \in Harts, NEW what \in {"ipi", "fence", "start"},
               NEW set \in SUBSET Harts, Ecall(h, what, set)
        PROVE CallShape'
    BY Zenon, <1>1, <2>2, HartAssumption
       DEF Ecall, BeginPosting, Goto, CallShape,
                                      Posters
  <2>3. CASE Stop \/ \E g \in Harts : SetIrqLine(g)
    BY <1>1, <2>3, HartAssumption DEF Stop, SetIrqLine, BeginPosting, thread,
                                      CallShape, Posters
  <2> QED BY Zenon, <1>6, <2>1, <2>2, <2>3 DEF Begins
<1>7. ASSUME NEW h \in Harts, GuestCalls(h) PROVE CallShape'
  <2>1. CASE ClearSoftIrq(h)
    BY Zenon, <1>3, <2>1 DEF ClearSoftIrq, thread, call
  <2> QED BY Zenon, <1>2, <1>7, <2>1
             DEF GuestCalls, HsmStop, HsmSuspend, CallInbox,
                                  Goto, call
<1>8. ASSUME NEW h \in Harts, Fences(h) PROVE CallShape'
  <2>1. CASE \E g \in Harts : FenceSees(h, g)
    BY Zenon, <1>3, <2>1 DEF FenceSees, thread
  <2>2. CASE FlushTlb(h)
    BY Zenon, <1>1, <2>2, HartAssumption
       DEF FlushTlb, Posts, Goto, CallShape, Posters
  <2> QED
    BY Zenon, <1>2, <1>8, <2>1, <2>2 DEF Fences, FenceReturns, FenceGivesUp,
                FenceEnds, FenceWaits, CallInbox, Goto, call
<1>9. ASSUME NEW p \in Posters, PostsOne(p) PROVE CallShape'
  <2>1. PICK g \in Harts :
            \/ PostSoftIrq(p, g) \/ PostTlbFlush(p, g) \/ DriveLine(p, g)
            \/ RequestExit(p, g) \/ HsmStart(p, g) \/ HsmStartFails(p, g)
    BY Zenon, <1>9 DEF PostsOne
  <2>2. CASE HsmStartFails(p, g)
    BY Zenon, <1>1, <2>2 DEF HsmStartFails, Posts, thread, CallShape, Posters
  <2>3. CASE ~HsmStartFails(p, g)
    <3>1. Posts(p, op[p], g) /\ PostTo(p, g) /\ UNCHANGED <<op, thread>>
      BY Zenon, <2>1, <2>3, PostDoes
    <3> QED
      BY Zenon, <1>1, <3>1, HartAssumption
         DEF Posts, PostTo, thread, CallShape,
                                              Posters
  <2> QED BY Zenon, <2>2, <2>3
<1>10. ASSUME NEW p \in Posters, PostsOn(p) PROVE CallShape'
  <2>1. CASE Posted(p)
    <3>1. CASE p \notin Harts
      BY Zenon, <1>1, <2>1, <3>1 DEF Posted, CallShape, Posters
    <3>2. CASE p \in Harts
      <4>1. PICK to \in {"fence", "inbox"} : pc' = [pc EXCEPT ![p] = to]
        BY Zenon, <2>1, <3>2 DEF Posted, Goto, CallInbox
      <4> QED
        BY Zenon, <1>1, <2>1, <3>2, <4>1, HartAssumption DEF Posted, CallShape,
                                                            Posters
    <3> QED BY Zenon, <3>1, <3>2
  <2>2. CASE ~Posted(p)
    BY <1>1, <1>10, <2>2, HartAssumption
       DEF PostsOn, HsmStartAddr, HsmStartPost, StoreInbox, WakeHart, thread,
           CallShape, Posters
  <2> QED BY Zenon, <2>1, <2>2
<1> QED BY Zenon, Steps, <1>4, <1>5, <1>6, <1>7, <1>8, <1>9, <1>10

-----------------------------------------------------------------------------
(* Starting, stopping and suspending a hart                                *)

Executing == {"run", "call", "fence", "take", "taken"}

(* A start is taken in only by a hart that waits for it, which executes    *)
(* nothing; the other changes of the state are the hart's own.             *)
LEMMA HsmRunsStep == ASSUME IInv, [Next]_vars PROVE HsmRuns'
<1>1. /\ HsmRuns /\ pc \in [Harts -> Pcs] /\ ret \in [Harts -> Callers]
      /\ hsm_state \in [Harts -> HsmStates] /\ power_down_flag \in Bools
      /\ hsm_stopped \in Bools /\ hsm_suspended \in Bools
  BY Zenon DEF IInv, TypeOK, ThreadOK, HsmOK
<1>2. ASSUME UNCHANGED <<hsm, power_down_flag, pc, ret>> PROVE HsmRuns'
  BY Zenon, <1>1, <1>2
     DEF HsmRuns, HsmAgrees, InstructionRuns, StoppedRunsNothing,
                    hsm
<1>3. ASSUME NEW h \in Harts, NEW to, NEW from,
             UNCHANGED <<hsm, power_down_flag>>,
             pc' = [pc EXCEPT ![h] = to], ret' = [ret EXCEPT ![h] = from],
             from \in {"csr", "wfi"} =>
                to \in InboxPcs /\ (from = ret[h] \/ pc[h] = "run"),
             to \in Executing =>
                pc[h] \in Executing \/ ret[h] \in {"csr", "wfi"}
      PROVE HsmRuns'
  <2>1. HsmAgrees'
    BY Zenon, <1>1, <1>3 DEF HsmRuns, HsmAgrees, hsm
  <2>2. InstructionRuns'
    BY Zenon, <1>1, <1>3 DEF HsmRuns, InstructionRuns, StoppedRunsNothing, hsm
  <2>3. StoppedRunsNothing'
    BY Zenon, <1>1, <1>3
       DEF HsmRuns, HsmAgrees, InstructionRuns, StoppedRunsNothing,
                      Executing, hsm
  <2> QED BY Zenon, <2>1, <2>2, <2>3 DEF HsmRuns
<1>4. ASSUME NEW h \in Harts, NEW to, to \notin Executing, Enter(h),
             hsm_state[h] = "START_PENDING", UNCHANGED ret,
             pc' = [pc EXCEPT ![h] = to], to \in InboxPcs
      PROVE HsmRuns'
  BY Zenon, <1>1, <1>4
     DEF HsmRuns, HsmAgrees, InstructionRuns, StoppedRunsNothing,
                    Enter, Executing, Bools
<1>5. ASSUME NEW h \in Harts, InboxStep(h) PROVE HsmRuns'
  <2>1. UNCHANGED ret
    BY Zenon, <1>5 DEF InboxStep, TakeInbox, TakeFlush, FlushTaken, TakeSsip,
                TakeStart, TakeLines
  <2>2. ret' = [ret EXCEPT ![h] = ret[h]] BY Zenon, <1>1, <2>1
  <2>3. CASE TakeStart(h)
    <3>1. pc[h] = "start" /\ pc' = [pc EXCEPT ![h] = "lines"]
      BY Zenon, <2>3 DEF TakeStart, Goto
    <3>2. CASE hsm_start_posted[h]
      <4>1. hsm_state[h] = "START_PENDING"
        BY Zenon, <3>2 DEF IInv, HsmStarts, StartClaimed
      <4>2. Enter(h) BY Zenon, <2>3, <3>2, StartDoes
      <4> QED BY Zenon, <1>4, <2>1, <3>1, <4>1, <4>2 DEF Executing, InboxPcs
    <3>3. CASE ~hsm_start_posted[h]
      <4>1. UNCHANGED <<hsm, power_down_flag>> BY Zenon, <2>3, <3>3, StartDoes
      <4> QED BY Zenon, <1>3, <2>2, <3>1, <4>1 DEF Executing, InboxPcs
    <3> QED BY Zenon, <3>2, <3>3
  <2>4. CASE TakeLines(h)
    BY Zenon, <1>1, <2>1, <2>4
       DEF TakeLines, Goto, hsm, HsmRuns, HsmAgrees, Bools,
                       InstructionRuns, StoppedRunsNothing, InboxPcs
  <2>5. CASE TakeInbox(h) \/ TakeSsip(h) \/ TakeFlush(h) \/ FlushTaken(h)
    <3>1. UNCHANGED <<hsm, power_down_flag>>
      BY Zenon, <2>5 DEF TakeInbox, TakeSsip, TakeFlush, FlushTaken
    <3>2. CASE pc[h] \in InboxPcs
      <4>1. PICK to \in InboxPcs : pc' = [pc EXCEPT ![h] = to]
        BY Zenon, <2>5, <3>2
           DEF TakeInbox, TakeSsip, TakeFlush, FlushTaken, Goto,
                          InboxPcs
      <4> QED BY Zenon, <1>3, <2>2, <3>1, <4>1 DEF Executing, InboxPcs
    <3>3. CASE pc[h] \in {"take", "taken"}
      <4>1. PICK to \in {"taken", "call", "fence"} :
                pc' = [pc EXCEPT ![h] = to]
        BY Zenon, <2>5, <3>3
           DEF TakeInbox, TakeSsip, TakeFlush, FlushTaken, Goto
      <4>2. ret[h] \notin {"csr", "wfi"}
        BY Zenon, <1>1, <3>3 DEF HsmRuns, InstructionRuns, InboxPcs
      <4> QED BY Zenon, <1>3, <2>2, <3>1, <3>3, <4>1, <4>2 DEF Executing
    <3> QED
      BY Zenon, <2>5, <3>2, <3>3
         DEF TakeInbox, TakeSsip, TakeFlush, FlushTaken,
                                    InboxPcs
  <2> QED BY Zenon, <1>5, <2>3, <2>4, <2>5 DEF InboxStep
<1>6. ASSUME NEW h \in Harts, ThreadMoves(h) PROVE HsmRuns'
  <2>1. CASE Top(h) \/ Idled(h) \/ WaitReturns(h) \/ Exit(h)
    <3>1. UNCHANGED <<hsm, power_down_flag>>
      BY Zenon, <2>1 DEF Top, Idled, WaitReturns, Exit
    <3>2. ret[h] \notin {"csr", "wfi"}
      BY Zenon, <1>1, <2>1 DEF Top, Idled, WaitReturns, Exit, HsmRuns,
                        InstructionRuns, InboxPcs
    <3>3. \/ CallInbox(h, "idle") \/ CallInbox(h, "interp")
          \/ UNCHANGED ret /\ \E to \in {"ended", "wait", "top"} : Goto(h, to)
      BY Zenon, <2>1 DEF Top, Idled, WaitReturns, Exit
    <3>4. PICK to \in {"ended", "wait", "top", "inbox"},
               from \in {"idle", "interp", ret[h]} :
              pc' = [pc EXCEPT ![h] = to] /\ ret' = [ret EXCEPT ![h] = from]
      BY Zenon, <1>1, <3>3 DEF CallInbox, Goto
    <3> QED BY Zenon, <1>3, <3>1, <3>2, <3>4 DEF Executing
  <2>2. CASE InterpDown(h)
    BY Zenon, <1>3, <2>2 DEF InterpDown, Leave, Goto, Executing
  <2>3. CASE CsrReturns(h)
    BY Zenon, <1>3, <2>3 DEF CsrReturns, Leave, Goto, Executing
  <2>4. CASE Interp(h)
    <3>1. /\ pc[h] = "after" /\ ret' = [ret EXCEPT ![h] = "idle"]
          /\ \E to \in {"exit", "run"} : pc' = [pc EXCEPT ![h] = to]
      BY Zenon, <2>4 DEF Interp, Leave, Goto
    <3>2. ~hsm_stopped[h]
      BY Zenon, <1>1, <2>4 DEF Interp, HsmRuns, HsmAgrees
    <3>3. CASE Enter(h)
      BY Zenon, <1>1, <3>1, <3>3
         DEF Enter, HsmRuns, HsmAgrees, InstructionRuns,
                              StoppedRunsNothing, Bools
    <3>4. CASE Continues(h)
      BY Zenon, <1>1, <3>1, <3>2, <3>4
         DEF Continues, HsmRuns, HsmAgrees, Bools,
                   InstructionRuns, StoppedRunsNothing, HsmStates
    <3> QED BY Zenon, <2>4, <3>3, <3>4, InterpDoes
  <2>5. CASE WfiReturns(h)
    <3>1. CASE mip[h] = {}
      <4>1. /\ CallInbox(h, "interp") /\ UNCHANGED hsm
            /\ power_down_flag' = [power_down_flag EXCEPT ![h] = TRUE]
        BY Zenon, <2>5, <3>1 DEF WfiReturns
      <4> QED
        BY Zenon, <1>1, <4>1 DEF CallInbox, Goto, hsm, HsmRuns, HsmAgrees,
                        InstructionRuns, StoppedRunsNothing, InboxPcs, Bools
    <3>2. CASE mip[h] # {}
      <4>1. Leave(h, "run") /\ UNCHANGED <<hsm, power_down_flag>>
        BY Zenon, <2>5, <3>2 DEF WfiReturns
      <4>2. ret[h] = "wfi" BY Zenon, <2>5 DEF WfiReturns
      <4> QED BY Zenon, <1>3, <4>1, <4>2 DEF Leave, Goto, Executing
    <3> QED BY Zenon, <3>1, <3>2
  <2>6. CASE \/ LeaveBlocks(h)
             \/ \E what \in {"csr", "wfi"} : Instruction(h, what)
    <3>1. PICK from \in {"interp", "csr", "wfi"} : CallInbox(h, from)
      BY Zenon, <2>6 DEF LeaveBlocks, Instruction
    <3>2. UNCHANGED <<hsm, power_down_flag>> /\ pc[h] = "run"
      BY Zenon, <2>6 DEF LeaveBlocks, Instruction
    <3> QED BY Zenon, <1>3, <3>1, <3>2 DEF CallInbox, Goto, Executing, InboxPcs
  <2> QED BY Zenon, <1>6, <2>1, <2>2, <2>3, <2>4, <2>5, <2>6 DEF ThreadMoves
<1>7. ASSUME Begins \/ UNCHANGED vars PROVE HsmRuns'
  <2>1. CASE \E h \in Harts, what \in {"ipi", "fence", "start"},
                set \in SUBSET Harts : Ecall(h, what, set)
    <3>1. PICK h \in Harts : /\ pc[h] = "run" /\ Goto(h, "call")
                             /\ UNCHANGED <<hsm, power_down_flag, ret>>
      BY Zenon, <2>1 DEF Ecall
    <3>2. ret' = [ret EXCEPT ![h] = ret[h]] BY Zenon, <1>1, <3>1
    <3>3. ret[h] \notin {"csr", "wfi"}
      BY Zenon, <1>1, <3>1 DEF HsmRuns, InstructionRuns, InboxPcs
    <3> QED BY Zenon, <1>3, <3>1, <3>2, <3>3 DEF Goto, Executing
  <2> QED BY Zenon, <1>2, <1>7, <2>1 DEF Begins, Stop, SetIrqLine, vars, thread
<1>8. ASSUME NEW h \in Harts, GuestCalls(h) PROVE HsmRuns'
  <2>1. CASE ClearSoftIrq(h) BY Zenon, <1>2, <2>1 DEF ClearSoftIrq, thread
  <2>2. CASE HsmStop(h)
    BY Zenon, <1>1, <2>2
       DEF HsmStop, CallInbox, Goto, HsmRuns, HsmAgrees, Bools,
                      InstructionRuns, StoppedRunsNothing
  <2>3. ASSUME NEW retentive \in BOOLEAN, HsmSuspend(h, retentive)
        PROVE HsmRuns'
    BY Zenon, <1>1, <2>3
       DEF HsmSuspend, CallInbox, Goto, HsmRuns, HsmAgrees, Bools,
                      InstructionRuns, StoppedRunsNothing
  <2> QED BY Zenon, <1>8, <2>1, <2>2, <2>3 DEF GuestCalls
<1>9. ASSUME NEW h \in Harts, Fences(h) PROVE HsmRuns'
  <2>1. CASE \E g \in Harts : FenceSees(h, g)
    BY Zenon, <1>2, <2>1 DEF FenceSees, thread
  <2>2. CASE FlushTlb(h) \/ \E g \in Harts : FenceWaits(h, g)
    <3>1. /\ pc[h] \in {"call", "fence"} /\ Goto(h, "take")
          /\ UNCHANGED <<hsm, power_down_flag, ret>>
      BY Zenon, <2>2 DEF FlushTlb, Posts, FenceWaits
    <3>2. ret' = [ret EXCEPT ![h] = ret[h]] BY Zenon, <1>1, <3>1
    <3>3. ret[h] \notin {"csr", "wfi"}
      BY Zenon, <1>1, <3>1 DEF HsmRuns, InstructionRuns, InboxPcs
    <3> QED BY Zenon, <1>3, <3>1, <3>2, <3>3 DEF Goto, Executing
  <2>3. CASE FenceReturns(h) \/ FenceGivesUp(h)
    <3>1. CallInbox(h, "interp") /\ UNCHANGED <<hsm, power_down_flag>>
      BY Zenon, <2>3 DEF FenceReturns, FenceGivesUp, FenceEnds
    <3> QED BY Zenon, <1>3, <3>1 DEF CallInbox, Goto, Executing
  <2> QED BY Zenon, <1>9, <2>1, <2>2, <2>3 DEF Fences
<1>10. ASSUME NEW p \in Posters, PostsOne(p) PROVE HsmRuns'
  <2>1. CASE \E g \in Harts : HsmStart(p, g)
    BY <1>1, <2>1 DEF HsmStart, thread, HsmRuns, HsmAgrees, Bools,
                      InstructionRuns, StoppedRunsNothing
  <2> QED BY Zenon, <1>2, <1>10, <2>1 DEF PostsOne, PostSoftIrq, PostTlbFlush,
                DriveLine, RequestExit, HsmStartFails, thread
<1>11. ASSUME NEW p \in Posters, PostsOn(p) PROVE HsmRuns'
  <2>1. CASE Posted(p)
    <3>1. UNCHANGED <<hsm, power_down_flag>> BY Zenon, <2>1 DEF Posted
    <3>2. CASE p \notin Harts BY Zenon, <1>2, <2>1, <3>1, <3>2 DEF Posted
    <3>3. CASE p \in Harts
      <4>1. (Goto(p, "fence") /\ UNCHANGED ret) \/ CallInbox(p, "interp")
        BY Zenon, <2>1, <3>3 DEF Posted
      <4>2. PICK to \in {"fence", "inbox"}, from \in {"interp", ret[p]} :
              pc' = [pc EXCEPT ![p] = to] /\ ret' = [ret EXCEPT ![p] = from]
        BY Zenon, <1>1, <4>1 DEF CallInbox, Goto
      <4>3. pc[p] = "call" BY Zenon, <2>1, <3>3 DEF Posted
      <4>4. ret[p] \notin {"csr", "wfi"}
        BY Zenon, <1>1, <3>3, <4>3 DEF HsmRuns, InstructionRuns, InboxPcs
      <4> QED BY Zenon, <1>3, <3>1, <3>3, <4>2, <4>3, <4>4 DEF Executing
    <3> QED BY Zenon, <3>2, <3>3
  <2>2. CASE HsmStartAddr(p)
    BY Zenon, <1>1, <2>2 DEF HsmStartAddr, thread, HsmRuns, HsmAgrees,
                      InstructionRuns, StoppedRunsNothing
  <2>3. CASE HsmStartPost(p) \/ StoreInbox(p) \/ WakeHart(p)
    BY Zenon, <1>2, <2>3 DEF HsmStartPost, StoreInbox, WakeHart, thread
  <2> QED BY Zenon, <1>11, <2>1, <2>2, <2>3 DEF PostsOn
<1> QED BY Zenon, Steps, <1>5, <1>6, <1>7, <1>8, <1>9, <1>10, <1>11

starting == <<op, ppc, target, hsm_state, hsm_start_posted, hsm_addr>>

(* HsmStart() claims a stopped hart, so no other call is starting it; what *)
(* a claimed hart waits for is posted by the one that claimed it.          *)
LEMMA HsmStartsStep == ASSUME IInv, [Next]_vars PROVE HsmStarts'
<1>1. /\ HsmStarts /\ op \in [Posters -> Ops] /\ ppc \in [Posters -> PostPcs]
      /\ target \in [Posters -> Harts] /\ hsm_state \in [Harts -> HsmStates]
      /\ hsm_start_posted \in Bools /\ hsm_addr \in [Harts -> Entries]
  BY Zenon DEF IInv, TypeOK, HsmOK, PostedOK, CallOK
<1>2. ASSUME UNCHANGED starting PROVE HsmStarts'
  BY Zenon, <1>1, <1>2
     DEF starting, HsmStarts, StartUnique, StartClaimed, Starting
<1>3. ASSUME NEW h \in Harts, hsm_state[h] # "START_PENDING",
             UNCHANGED <<op, ppc, target, hsm_start_posted>>,
             \A g \in Harts \ {h} : /\ hsm_state'[g] = hsm_state[g]
                                    /\ hsm_addr'[g] = hsm_addr[g]
      PROVE HsmStarts'
  BY Zenon, <1>1, <1>3 DEF HsmStarts, StartUnique, StartClaimed, Starting
<1>4. ASSUME NEW p \in Posters, NEW to, to \notin {"addr", "post"},
             ppc' = [ppc EXCEPT ![p] = to],
             \A q \in Posters \ {p} : op'[q] = op[q] /\ target'[q] = target[q],
             UNCHANGED <<hsm_state, hsm_start_posted, hsm_addr>>
      PROVE HsmStarts'
  BY <1>1, <1>4 DEF HsmStarts, StartUnique, StartClaimed, Starting
<1>5. ASSUME NEW h \in Harts, InboxStep(h) PROVE HsmStarts'
  <2>1. CASE TakeStart(h)
    <3>1. UNCHANGED <<op, ppc, target>> BY Zenon, <2>1 DEF TakeStart, call
    <3>2. hsm_start_posted' = [hsm_start_posted EXCEPT ![h] = FALSE]
      BY Zenon, <2>1 DEF TakeStart
    <3>3. CASE hsm_start_posted[h]
      <4>1. Enter(h) /\ UNCHANGED hsm_addr BY Zenon, <2>1, <3>3, StartDoes
      <4> QED BY Zenon, <1>1, <3>1, <3>2, <3>3, <4>1
              DEF Enter, HsmStarts, StartUnique, StartClaimed, Starting, Bools
    <3>4. CASE ~hsm_start_posted[h]
      <4>1. UNCHANGED hsm BY Zenon, <2>1, <3>4, StartDoes
      <4>2. hsm_start_posted' = hsm_start_posted
        BY Zenon, <1>1, <3>2, <3>4 DEF Bools
      <4> QED BY Zenon, <1>2, <3>1, <4>1, <4>2 DEF hsm, starting
    <3> QED BY Zenon, <3>3, <3>4
  <2>2. CASE ~TakeStart(h)
    <3>1. UNCHANGED starting
      BY Zenon, <1>5, <2>2
         DEF InboxStep, TakeInbox, TakeFlush, FlushTaken, TakeSsip,
                        TakeLines, posted, hsm, call, starting
    <3> QED BY Zenon, <1>2, <3>1
  <2> QED BY Zenon, <2>1, <2>2
<1>6. ASSUME NEW h \in Harts, ThreadMoves(h) PROVE HsmStarts'
  <2>1. CASE Interp(h)
    <3>1. UNCHANGED <<op, ppc, target, hsm_start_posted, hsm_addr>>
      BY Zenon, <2>1, InterpDoes DEF Interp, posted, call, Continues
    <3>2. hsm_state[h] # "START_PENDING"
      BY Zenon, <2>1 DEF Interp, IInv, HsmRuns, HsmAgrees
    <3>3. \A g \in Harts \ {h} : hsm_state'[g] = hsm_state[g]
      BY Zenon, <1>1, <2>1, InterpDoes DEF Enter, Continues
    <3> QED BY Zenon, <1>3, <3>1, <3>2, <3>3
  <2>2. CASE ~Interp(h)
    <3>1. UNCHANGED starting
      BY Zenon, <1>6, <2>2
         DEF ThreadMoves, Top, Idled, WaitReturns, InterpDown, Exit,
                        CsrReturns, WfiReturns, LeaveBlocks, Instruction,
                        posted, hsm, call, starting
    <3> QED BY Zenon, <1>2, <3>1
  <2> QED BY Zenon, <2>1, <2>2
<1>7. ASSUME Begins \/ UNCHANGED vars PROVE HsmStarts'
  <2>1. CASE UNCHANGED vars
    BY Zenon, <1>2, <2>1 DEF vars, posted, hsm, call, starting
  <2>2. CASE Begins
    <3>1. PICK p, what, set : /\ p \in Posters /\ BeginPosting(p, what, set)
                              /\ UNCHANGED <<posted, hsm>>
      BY Zenon, <2>2 DEF Begins, Ecall, SetIrqLine, Stop, Posters
    <3>2. /\ ppc' = [ppc EXCEPT ![p] = "next"]
          /\ \A q \in Posters \ {p} : op'[q] = op[q] /\ target'[q] = target[q]
      BY Zenon, <1>1, <3>1 DEF BeginPosting
    <3> QED BY Zenon, <1>4, <3>1, <3>2 DEF posted, hsm
  <2> QED BY Zenon, <1>7, <2>1, <2>2
<1>8. ASSUME NEW h \in Harts, GuestCalls(h) PROVE HsmStarts'
  <2>1. CASE ClearSoftIrq(h)
    BY Zenon, <1>2, <2>1 DEF ClearSoftIrq, posted, hsm, call, starting
  <2>2. CASE HsmStop(h) \/ \E r \in BOOLEAN : HsmSuspend(h, r)
    <3>1. pc[h] = "run" /\ UNCHANGED <<op, ppc, target, hsm_start_posted>>
      BY Zenon, <2>2 DEF HsmStop, HsmSuspend, posted, call
    <3>2. hsm_state[h] # "START_PENDING"
      BY Zenon, <3>1 DEF IInv, HsmRuns, StoppedRunsNothing
    <3>3. \A g \in Harts \ {h} : /\ hsm_state'[g] = hsm_state[g]
                                 /\ hsm_addr'[g] = hsm_addr[g]
      BY Zenon, <1>1, <2>2 DEF HsmStop, HsmSuspend
    <3> QED BY Zenon, <1>3, <3>1, <3>2, <3>3
  <2> QED BY Zenon, <1>8, <2>1, <2>2 DEF GuestCalls
<1>9. ASSUME NEW h \in Harts, Fences(h) PROVE HsmStarts'
  <2>1. UNCHANGED starting
    BY Zenon, <1>9 DEF Fences, FenceReturns, FenceGivesUp, FenceEnds, FlushTlb,
                FenceSees, FenceWaits, posted, hsm, call, starting
  <2> QED BY Zenon, <1>2, <2>1
<1>10. ASSUME NEW p \in Posters, PostsOne(p) PROVE HsmStarts'
  <2>1. PICK g \in Harts :
            \/ PostSoftIrq(p, g) \/ PostTlbFlush(p, g) \/ DriveLine(p, g)
            \/ RequestExit(p, g) \/ HsmStart(p, g) \/ HsmStartFails(p, g)
    BY Zenon, <1>10 DEF PostsOne
  <2>2. CASE HsmStart(p, g)
    <3>1. /\ hsm_state[g] = "STOPPED" /\ op[p] = "start"
          /\ hsm_state' = [hsm_state EXCEPT ![g] = "START_PENDING"]
          /\ ppc' = [ppc EXCEPT ![p] = "addr"]
          /\ target' = [target EXCEPT ![p] = g]
          /\ UNCHANGED <<op, hsm_start_posted, hsm_addr>>
      BY Zenon, <2>2 DEF HsmStart, Posts, PostTo, posted
    <3> QED
      BY Zenon, <1>1, <3>1 DEF HsmStarts, StartUnique, StartClaimed, Starting
  <2>3. CASE HsmStartFails(p, g)
    BY Zenon, <1>2, <2>3 DEF HsmStartFails, posted, hsm, starting
  <2>4. CASE ~HsmStart(p, g) /\ ~HsmStartFails(p, g)
    <3>1. PostTo(p, g) /\ UNCHANGED op BY Zenon, <2>1, <2>4, PostDoes
    <3>2. op[p] # "start" /\ UNCHANGED <<hsm, hsm_start_posted>>
      BY Zenon, <2>1, <2>4
         DEF PostSoftIrq, PostTlbFlush, DriveLine, RequestExit,
                        Posts
    <3> QED BY Zenon, <1>1, <1>4, <3>1, <3>2 DEF PostTo, hsm
  <2> QED BY Zenon, <2>2, <2>3, <2>4
<1>11. ASSUME NEW p \in Posters, PostsOn(p) PROVE HsmStarts'
  <2>1. CASE StoreInbox(p) \/ WakeHart(p) \/ Posted(p)
    <3>1. PICK to \in {"kick", "next", "none"} : ppc' = [ppc EXCEPT ![p] = to]
      BY Zenon, <2>1 DEF StoreInbox, WakeHart, Posted
    <3>2. \A q \in Posters \ {p} : op'[q] = op[q] /\ target'[q] = target[q]
      BY Zenon, <1>1, <2>1 DEF StoreInbox, WakeHart, Posted
    <3>3. UNCHANGED <<hsm_start_posted, hsm>>
      BY Zenon, <2>1 DEF StoreInbox, WakeHart, Posted, posted
    <3> QED BY Zenon, <1>4, <3>1, <3>2, <3>3 DEF hsm
  <2>2. CASE HsmStartAddr(p) \/ HsmStartPost(p)
    <3>1. op[p] = "start" /\ p \in Harts
      BY Zenon, <2>2 DEF HsmStartAddr, HsmStartPost, IInv, CallShape, Posters
    <3>2. UNCHANGED <<op, target, hsm_state>>
      BY Zenon, <2>2 DEF HsmStartAddr, HsmStartPost, hsm
    <3>3. CASE HsmStartAddr(p)
      BY <1>1, <3>1, <3>2, <3>3, HartAssumption
         DEF HsmStartAddr, posted, HsmStarts, StartUnique, StartClaimed,
             Starting
    <3>4. CASE HsmStartPost(p)
      BY <1>1, <3>1, <3>2, <3>4, HartAssumption
         DEF HsmStartPost, hsm, HsmStarts, StartUnique, StartClaimed,
             Starting, Bools
    <3> QED BY Zenon, <2>2, <3>3, <3>4
  <2> QED BY Zenon, <1>11, <2>1, <2>2 DEF PostsOn
<1> QED BY Zenon, Steps, <1>5, <1>6, <1>7, <1>8, <1>9, <1>10, <1>11

-----------------------------------------------------------------------------
(* The inbox                                                               *)

Kinds == {"ipi", "start", "fence", "line"}

(* Only process_inbox() takes back what has been announced. *)
LEMMA AnnouncedKept ==
    ASSUME IInv, [Next]_vars,
           NEW what \in Kinds, NEW g \in Harts, Announced(what, g)
    PROVE Announced(what, g)' \/ pc'[g] = "flush"
<1>1. /\ CallShape /\ inbox_pending \in Bools /\ pc \in [Harts -> Pcs]
      /\ op \in [Posters -> Ops] /\ ppc \in [Posters -> PostPcs]
      /\ target \in [Posters -> Harts]
  BY Zenon DEF IInv, TypeOK, ThreadOK, PostedOK, CallOK
<1>2. ASSUME UNCHANGED <<op, ppc, target, inbox_pending>>
      PROVE Announced(what, g)'
  BY Zenon, <1>2 DEF Announced, Coming
<1>3. ASSUME NEW p \in Posters,
             \A q \in Posters \ {p} : UNCHANGED <<op[q], ppc[q], target[q]>>,
             ppc[p] # "inbox" \/ op[p] \notin Kinds, UNCHANGED inbox_pending
      PROVE Announced(what, g)'
  BY Zenon, <1>3 DEF Announced, Coming
<1>4. ASSUME NEW h \in Harts, InboxStep(h)
      PROVE Announced(what, g)' \/ pc'[g] = "flush"
  <2>1. UNCHANGED <<op, ppc, target>>
    BY Zenon, <1>4 DEF InboxStep, TakeInbox, TakeFlush, FlushTaken, TakeSsip,
                TakeStart, TakeLines, call
  <2>2. CASE TakeInbox(h)
    <3>1. inbox_pending[g] => inbox_pending'[g] \/ pc'[g] = "flush"
      BY Zenon, <1>1, <2>2 DEF TakeInbox, Goto, Bools
    <3> QED BY Zenon, <2>1, <3>1 DEF Announced, Coming
  <2>3. CASE ~TakeInbox(h)
    <3>1. UNCHANGED inbox_pending
      BY Zenon, <1>4, <2>3
         DEF InboxStep, TakeFlush, FlushTaken, TakeSsip, TakeStart,
                        TakeLines, posted
    <3> QED BY Zenon, <1>2, <2>1, <3>1
  <2> QED BY Zenon, <2>2, <2>3
<1>5. ASSUME NEW h \in Harts, ThreadMoves(h) PROVE Announced(what, g)'
  <2>1. UNCHANGED <<op, ppc, target>> BY Zenon, <1>5, ThreadDoes DEF call
  <2>2. UNCHANGED inbox_pending
    BY Zenon, <1>5
       DEF ThreadMoves, Top, Idled, WaitReturns, InterpDown, Interp, Exit,
                CsrReturns, WfiReturns, LeaveBlocks, Instruction, posted
  <2> QED BY Zenon, <1>2, <2>1, <2>2
<1>6. ASSUME NEW h \in Harts, GuestCalls(h) \/ Fences(h)
      PROVE Announced(what, g)'
  <2>1. UNCHANGED <<op, ppc, target, inbox_pending>>
    BY Zenon, <1>6 DEF GuestCalls, ClearSoftIrq, HsmStop, HsmSuspend, Fences,
                FenceReturns, FenceGivesUp, FenceEnds, FlushTlb, FenceSees,
                FenceWaits, posted, call
  <2> QED BY Zenon, <1>2, <2>1
<1>7. ASSUME Begins \/ UNCHANGED vars PROVE Announced(what, g)'
  <2>1. CASE UNCHANGED vars BY Zenon, <1>2, <2>1 DEF vars, posted, call
  <2>2. CASE Begins
    <3>1. PICK p, kind, set :
            /\ p \in Posters /\ BeginPosting(p, kind, set) /\ UNCHANGED posted
            /\ ppc[p] = "none" \/ p = Main
      <4>1. CASE Stop BY Zenon, <4>1 DEF Stop, Posters
      <4>2. CASE \E k \in Harts : SetIrqLine(k)
        BY Zenon, <4>2 DEF SetIrqLine, Posters
      <4>3. ASSUME NEW h \in Harts, NEW kind, NEW set, Ecall(h, kind, set)
            PROVE ppc[h] = "none" /\ BeginPosting(h, kind, set)
                  /\ UNCHANGED posted
        BY Zenon, <1>1, <4>3 DEF Ecall, CallShape
      <4> QED BY Zenon, <2>2, <4>1, <4>2, <4>3 DEF Begins, Posters
    <3>2. ppc[p] # "inbox" \/ op[p] \notin Kinds
      BY Zenon, <1>1, <3>1 DEF CallShape, Kinds
    <3>3. \A q \in Posters \ {p} : UNCHANGED <<op[q], ppc[q], target[q]>>
      BY Zenon, <1>1, <3>1 DEF BeginPosting
    <3> QED BY Zenon, <1>3, <3>1, <3>2, <3>3 DEF posted
  <2> QED BY Zenon, <1>7, <2>1, <2>2
<1>8. ASSUME NEW p \in Posters, PostsOne(p) PROVE Announced(what, g)'
  <2>1. PICK k \in Harts :
            \/ PostSoftIrq(p, k) \/ PostTlbFlush(p, k) \/ DriveLine(p, k)
            \/ RequestExit(p, k) \/ HsmStart(p, k) \/ HsmStartFails(p, k)
    BY Zenon, <1>8 DEF PostsOne
  <2>2. ppc[p] = "next" /\ UNCHANGED inbox_pending
    BY Zenon, <2>1
       DEF PostSoftIrq, PostTlbFlush, DriveLine, RequestExit, HsmStart,
                HsmStartFails, Posts, posted
  <2>3. (PostTo(p, k) /\ UNCHANGED op) \/ UNCHANGED <<op, ppc, target>>
    BY Zenon, <2>1, PostDoes DEF HsmStartFails
  <2>4. \A q \in Posters \ {p} : UNCHANGED <<op[q], ppc[q], target[q]>>
    BY Zenon, <1>1, <2>3 DEF PostTo
  <2> QED BY Zenon, <1>3, <2>2, <2>4
<1>9. ASSUME NEW p \in Posters, PostsOn(p) PROVE Announced(what, g)'
  <2>1. CASE StoreInbox(p)
    <3>1. CASE target[p] = g
      BY Zenon, <1>1, <2>1, <3>1 DEF StoreInbox, Announced, Bools
    <3>2. CASE target[p] # g
      BY Zenon, <1>1, <2>1, <3>2 DEF StoreInbox, Announced, Coming, Bools
    <3> QED BY Zenon, <3>1, <3>2
  <2>2. CASE ~StoreInbox(p)
    <3>1. ppc[p] # "inbox" /\ UNCHANGED inbox_pending
      BY Zenon, <1>9, <2>2
         DEF PostsOn, HsmStartAddr, HsmStartPost, WakeHart, Posted,
                        posted
    <3>2. \A q \in Posters \ {p} : UNCHANGED <<op[q], ppc[q], target[q]>>
      BY Zenon, <1>1, <1>9, <2>2
         DEF PostsOn, HsmStartAddr, HsmStartPost, WakeHart,
                              Posted
    <3> QED BY Zenon, <1>3, <3>1, <3>2
  <2> QED BY Zenon, <2>1, <2>2
<1> QED BY Zenon, Steps, <1>4, <1>5, <1>6, <1>7, <1>8, <1>9

(* A post is announced after it has been stored, and process_inbox() takes *)
(* back the announcement before it takes anything in.                      *)
LEMMA InboxKept ==
    ASSUME IInv, [Next]_vars, NEW g \in Harts
    PROVE HartInbox(g)'
<1>1. /\ HartInbox(g) /\ pc \in [Harts -> Pcs]
      /\ mip \in [Harts -> SUBSET {"ssip", "line"}]
      /\ op \in [Posters -> Ops] /\ ppc \in [Posters -> PostPcs]
      /\ target \in [Posters -> Harts]
  BY Zenon DEF IInv, Inbox, TypeOK, ThreadOK, HsmOK, CallOK
<1>2. /\ ssip_posted \in Bools /\ hsm_start_posted \in Bools
      /\ irq_lines \in Bools /\ tlb_flush_req \in [Harts -> 0..MaxFences]
      /\ tlb_flush_done \in [Harts -> 0..MaxFences]
      /\ req \in [Harts -> 0..MaxFences]
  BY Zenon DEF IInv, TypeOK, PostedOK, ThreadOK
<1>3. /\ Announced("ipi", g) => Announced("ipi", g)' \/ pc'[g] = "flush"
      /\ Announced("start", g) => Announced("start", g)' \/ pc'[g] = "flush"
      /\ Announced("fence", g) => Announced("fence", g)' \/ pc'[g] = "flush"
      /\ Announced("line", g) => Announced("line", g)' \/ pc'[g] = "flush"
  BY Zenon, AnnouncedKept DEF Kinds
<1>4. ASSUME UNCHANGED <<ssip_posted, hsm_start_posted, irq_lines,
                         tlb_flush_req, tlb_flush_done, req>>,
             "line" \in mip'[g] <=> "line" \in mip[g],
             \/ pc'[g] = pc[g]
             \/ /\ pc[g] \notin {"flush", "flushed", "ssip", "start", "lines",
                                 "taken"}
                /\ pc'[g] \notin {"flushed", "taken"}
      PROVE HartInbox(g)'
  BY Zenon, <1>1, <1>3, <1>4 DEF HartInbox
<1>5. ASSUME NEW h \in Harts, NEW to, pc' = [pc EXCEPT ![h] = to],
             to \notin {"flushed", "taken"},
             pc[h] \in {"top", "after", "wait", "exit", "run", "fence",
                        "call"},
             UNCHANGED <<ssip_posted, hsm_start_posted, irq_lines,
                         tlb_flush_req, tlb_flush_done, req, mip>>
      PROVE HartInbox(g)'
  <2>1. CASE g = h BY Zenon, <1>1, <1>4, <1>5, <2>1
  <2>2. CASE g # h BY Zenon, <1>1, <1>4, <1>5, <2>2
  <2> QED BY Zenon, <2>1, <2>2
<1>6. ASSUME NEW h \in Harts, InboxStep(h) PROVE HartInbox(g)'
  <2>1. CASE TakeInbox(h)
    <3>1. CASE g = h
      BY Zenon, <1>1, <1>3, <2>1, <3>1 DEF TakeInbox, Goto, HartInbox
    <3>2. CASE g # h
      BY Zenon, <1>1, <1>3, <2>1, <3>2 DEF TakeInbox, Goto, HartInbox
    <3> QED BY Zenon, <3>1, <3>2
  <2>2. CASE TakeFlush(h)
    <3>1. CASE g = h
      BY Zenon, <1>1, <1>2, <1>3, <2>2, <3>1
         DEF TakeFlush, Goto, posted, HartInbox
    <3>2. CASE g # h
      BY Zenon, <1>1, <1>2, <1>3, <2>2, <3>2
         DEF TakeFlush, Goto, posted, HartInbox
    <3> QED BY Zenon, <3>1, <3>2
  <2>3. CASE FlushTaken(h)
    <3>1. CASE g = h
      BY Zenon, <1>1, <1>2, <1>3, <2>3, <3>1 DEF FlushTaken, Goto, HartInbox
    <3>2. CASE g # h
      BY Zenon, <1>1, <1>2, <1>3, <2>3, <3>2 DEF FlushTaken, Goto, HartInbox
    <3> QED BY Zenon, <3>1, <3>2
  <2>4. CASE TakeSsip(h)
    <3>1. CASE g = h
      BY Zenon, <1>1, <1>2, <1>3, <2>4, <3>1
         DEF TakeSsip, Goto, HartInbox, Bools
    <3>2. CASE g # h
      BY Zenon, <1>1, <1>2, <1>3, <2>4, <3>2
         DEF TakeSsip, Goto, HartInbox, Bools
    <3> QED BY Zenon, <3>1, <3>2
  <2>5. CASE TakeStart(h)
    <3>1. CASE g = h
      BY Zenon, <1>1, <1>2, <1>3, <2>5, <3>1
         DEF TakeStart, Goto, HartInbox, Bools
    <3>2. CASE g # h
      BY Zenon, <1>1, <1>2, <1>3, <2>5, <3>2
         DEF TakeStart, Goto, HartInbox, Bools
    <3> QED BY Zenon, <3>1, <3>2
  <2>6. CASE TakeLines(h)
    <3>1. CASE g = h
      BY Zenon, <1>1, <1>2, <1>3, <2>6, <3>1
         DEF TakeLines, Goto, posted, HartInbox
    <3>2. CASE g # h
      BY Zenon, <1>1, <1>2, <1>3, <2>6, <3>2
         DEF TakeLines, Goto, posted, HartInbox
    <3> QED BY Zenon, <3>1, <3>2
  <2> QED BY Zenon, <1>6, <2>1, <2>2, <2>3, <2>4, <2>5, <2>6 DEF InboxStep
<1>7. ASSUME NEW h \in Harts, ThreadMoves(h) PROVE HartInbox(g)'
  <2>1. UNCHANGED <<ssip_posted, hsm_start_posted, irq_lines, tlb_flush_req,
                    tlb_flush_done>>
    BY Zenon, <1>7
       DEF ThreadMoves, Top, Idled, WaitReturns, InterpDown, Interp, Exit,
                CsrReturns, WfiReturns, LeaveBlocks, Instruction, posted
  <2> QED BY Zenon, <1>5, <1>7, <2>1, ThreadDoes
<1>8. ASSUME Begins \/ UNCHANGED vars PROVE HartInbox(g)'
  <2>1. CASE \E h \in Harts, what \in {"ipi", "fence", "start"},
                set \in SUBSET Harts : Ecall(h, what, set)
    <3>1. PICK h \in Harts : /\ pc[h] = "run" /\ Goto(h, "call")
                             /\ UNCHANGED <<posted, mip, req>>
      BY Zenon, <2>1 DEF Ecall
    <3> QED BY Zenon, <1>5, <3>1 DEF Goto, posted
  <2>2. CASE UNCHANGED vars \/ Stop \/ \E k \in Harts : SetIrqLine(k)
    <3>1. UNCHANGED <<posted, mip, req, pc>>
      BY Zenon, <2>2 DEF vars, Stop, SetIrqLine, thread
    <3> QED BY Zenon, <1>4, <3>1 DEF posted
  <2> QED BY Zenon, <1>8, <2>1, <2>2 DEF Begins
<1>9. ASSUME NEW h \in Harts, GuestCalls(h) PROVE HartInbox(g)'
  <2>1. CASE ClearSoftIrq(h)
    <3>1. UNCHANGED <<posted, req, pc>> BY Zenon, <2>1 DEF ClearSoftIrq, thread
    <3>2. "line" \in mip'[g] <=> "line" \in mip[g]
      BY Zenon, <1>1, <2>1 DEF ClearSoftIrq
    <3> QED BY Zenon, <1>4, <3>1, <3>2 DEF posted
  <2>2. CASE HsmStop(h) \/ \E r \in BOOLEAN : HsmSuspend(h, r)
    <3>1. /\ pc[h] = "run" /\ CallInbox(h, "interp")
          /\ UNCHANGED <<posted, mip, req>>
      BY Zenon, <2>2 DEF HsmStop, HsmSuspend
    <3> QED BY Zenon, <1>5, <3>1 DEF CallInbox, Goto, posted
  <2> QED BY Zenon, <1>9, <2>1, <2>2 DEF GuestCalls
<1>10. ASSUME NEW h \in Harts, Fences(h) PROVE HartInbox(g)'
  <2>1. CASE \E k \in Harts : FenceSees(h, k)
    <3>1. UNCHANGED <<posted, req, pc, mip>>
      BY Zenon, <2>1 DEF FenceSees, thread
    <3> QED BY Zenon, <1>4, <3>1 DEF posted
  <2>2. CASE ~\E k \in Harts : FenceSees(h, k)
    <3>1. /\ pc[h] \in {"fence", "call"} /\ UNCHANGED <<posted, mip, req>>
          /\ Goto(h, "take") \/ Goto(h, "inbox")
      BY Zenon, <1>10, <2>2 DEF Fences, FenceReturns, FenceGivesUp, FenceEnds,
                         FlushTlb, Posts, FenceWaits, CallInbox
    <3> QED BY <1>5, <3>1 DEF Goto, posted
  <2> QED BY Zenon, <2>1, <2>2
<1>11. ASSUME NEW p \in Posters, PostsOne(p) PROVE HartInbox(g)'
  <2>1. PICK k \in Harts :
            \/ PostSoftIrq(p, k) \/ PostTlbFlush(p, k) \/ DriveLine(p, k)
            \/ RequestExit(p, k) \/ HsmStart(p, k) \/ HsmStartFails(p, k)
    BY Zenon, <1>11 DEF PostsOne
  <2>2. UNCHANGED <<pc, req, mip>>
    BY Zenon, <2>1
       DEF PostSoftIrq, PostTlbFlush, DriveLine, RequestExit, HsmStart,
                HsmStartFails, thread
  <2>3. ASSUME ~HsmStartFails(p, k), op[p] # "start"
        PROVE Announced(op[p], k)'
    <3>1. PostTo(p, k) /\ UNCHANGED op BY Zenon, <2>1, <2>3, PostDoes
    <3>2. ppc'[p] = "inbox" /\ target'[p] = k
      BY Zenon, <1>1, <2>3, <3>1 DEF PostTo
    <3> QED BY Zenon, <3>1, <3>2 DEF Announced, Coming
  <2>4. CASE PostSoftIrq(p, k)
    <3>1. Announced("ipi", k)'
      BY Zenon, <2>3, <2>4 DEF PostSoftIrq, HsmStartFails, Posts
    <3> QED BY <1>1, <1>2, <1>3, <2>2, <2>4, <3>1 DEF PostSoftIrq, HartInbox
  <2>5. CASE PostTlbFlush(p, k)
    <3>1. Announced("fence", k)'
      BY Zenon, <2>3, <2>5 DEF PostTlbFlush, HsmStartFails, Posts
    <3> QED
      BY Zenon, <1>1, <1>2, <1>3, <2>2, <2>5, <3>1 DEF PostTlbFlush, HartInbox
  <2>6. CASE DriveLine(p, k)
    <3>1. Announced("line", k)'
      BY Zenon, <2>3, <2>6 DEF DriveLine, HsmStartFails, Posts
    <3> QED BY <1>1, <1>2, <1>3, <2>2, <2>6, <3>1 DEF DriveLine, HartInbox
  <2>7. CASE RequestExit(p, k)
    BY Zenon, <1>4, <2>2, <2>7 DEF RequestExit
  <2>8. CASE HsmStart(p, k) \/ HsmStartFails(p, k)
    BY Zenon, <1>4, <2>2, <2>8 DEF HsmStart, HsmStartFails, posted
  <2> QED BY Zenon, <2>1, <2>4, <2>5, <2>6, <2>7, <2>8
<1>12. ASSUME NEW p \in Posters, PostsOn(p) PROVE HartInbox(g)'
  <2>1. CASE HsmStartPost(p)
    <3>1. op[p] = "start" BY Zenon, <2>1 DEF HsmStartPost, IInv, CallShape
    <3>2. Announced("start", target[p])'
      BY Zenon, <1>1, <2>1, <3>1 DEF HsmStartPost, Announced, Coming
    <3>3. hsm_start_posted'[g] => hsm_start_posted[g] \/ Announced("start", g)'
      BY <1>1, <1>2, <2>1, <3>2 DEF HsmStartPost
    <3>4. UNCHANGED <<ssip_posted, irq_lines, tlb_flush_req, tlb_flush_done,
                      pc, req, mip>>
      BY Zenon, <2>1 DEF HsmStartPost, thread
    <3> QED BY Zenon, <1>1, <1>3, <3>3, <3>4 DEF HartInbox
  <2>2. CASE HsmStartAddr(p) \/ StoreInbox(p) \/ WakeHart(p)
    BY Zenon, <1>4, <2>2 DEF HsmStartAddr, StoreInbox, WakeHart, posted, thread
  <2>3. CASE Posted(p)
    <3>1. UNCHANGED <<posted, req, mip>> BY Zenon, <2>3 DEF Posted
    <3>2. CASE p \notin Harts
      BY Zenon, <1>4, <2>3, <3>1, <3>2 DEF Posted, posted
    <3>3. CASE p \in Harts
      <4>1. pc[p] = "call" /\ (Goto(p, "fence") \/ Goto(p, "inbox"))
        BY Zenon, <2>3, <3>3 DEF Posted, CallInbox
      <4>2. UNCHANGED <<ssip_posted, hsm_start_posted, irq_lines,
                        tlb_flush_req, tlb_flush_done, req, mip>>
        BY Zenon, <3>1 DEF posted
      <4>3. CASE Goto(p, "fence")
        BY Zenon, <1>5, <3>3, <4>1, <4>2, <4>3 DEF Goto
      <4>4. CASE Goto(p, "inbox")
        BY Zenon, <1>5, <3>3, <4>1, <4>2, <4>4 DEF Goto
      <4> QED BY Zenon, <4>1, <4>3, <4>4
    <3> QED BY Zenon, <3>2, <3>3
  <2> QED BY Zenon, <1>12, <2>1, <2>2, <2>3 DEF PostsOn
<1> QED BY Zenon, Steps, <1>6, <1>7, <1>8, <1>9, <1>10, <1>11, <1>12

-----------------------------------------------------------------------------
(* The remote fence                                                        *)

InBound(g) == tlb_flush_req[g] + Cardinality(Fencing(g)) <= MaxFences

(* A fence begins within the bound, and each post of it moves one from     *)
(* those to come to those asked.                                           *)
LEMMA BoundKept ==
    ASSUME IInv, [Next]_vars, NEW g \in Harts
    PROVE InBound(g)'
<1>1. /\ InBound(g) /\ IsFiniteSet(Fencing(g))
      /\ Cardinality(Fencing(g)) \in Nat /\ tlb_flush_req[g] \in Nat
      /\ MaxFences \in Nat /\ MaxFences' = MaxFences
  BY FencingFinite, ScenarioType, ScenarioKept
     DEF IInv, FenceBound, FencesOf, Fencing, InBound, TypeOK, PostedOK,
         MaxFences
<1>2. /\ op \in [Posters -> Ops] /\ todo \in [Posters -> SUBSET Harts]
      /\ tlb_flush_req \in [Harts -> 0..MaxFences]
  BY Zenon DEF IInv, TypeOK, PostedOK, CallOK
<1>3. ASSUME tlb_flush_req'[g] = tlb_flush_req[g],
             Fencing(g)' \subseteq Fencing(g)
      PROVE InBound(g)'
  <2>1. /\ Cardinality(Fencing(g)') <= Cardinality(Fencing(g))
        /\ Cardinality(Fencing(g)') \in Nat
    BY Zenon, <1>1, <1>3, FS_Subset, FS_CardinalityType
  <2> QED BY <1>1, <1>3, <2>1 DEF InBound
<1>4. ASSUME UNCHANGED <<op, todo, tlb_flush_req>> PROVE InBound(g)'
  BY Zenon, <1>3, <1>4 DEF Fencing
<1>5. ASSUME NEW h \in Harts, InboxStep(h) PROVE InBound(g)'
  <2>1. UNCHANGED <<op, todo, tlb_flush_req>>
    BY Zenon, <1>5 DEF InboxStep, TakeInbox, TakeFlush, FlushTaken, TakeSsip,
                TakeStart, TakeLines, posted, call
  <2> QED BY Zenon, <1>4, <2>1
<1>6. ASSUME NEW h \in Harts, ThreadMoves(h) PROVE InBound(g)'
  <2>1. UNCHANGED tlb_flush_req
    BY Zenon, <1>6
       DEF ThreadMoves, Top, Idled, WaitReturns, InterpDown, Interp, Exit,
                CsrReturns, WfiReturns, LeaveBlocks, Instruction, posted
  <2> QED BY Zenon, <1>4, <1>6, <2>1, ThreadDoes DEF call
<1>7. ASSUME Begins \/ UNCHANGED vars PROVE InBound(g)'
  <2>1. CASE UNCHANGED vars BY Zenon, <1>4, <2>1 DEF vars, posted, call
  <2>2. CASE Stop \/ \E k \in Harts : SetIrqLine(k)
    <3>1. UNCHANGED tlb_flush_req BY Zenon, <2>2 DEF Stop, SetIrqLine, posted
    <3>2. Fencing(g)' \subseteq Fencing(g)
      BY Zenon, <1>2, <2>2, HartAssumption DEF Stop, SetIrqLine, BeginPosting,
                                        Fencing, Posters
    <3> QED BY Zenon, <1>3, <3>1, <3>2
  <2>3. ASSUME NEW h \in Harts, NEW what \in {"ipi", "fence", "start"},
               NEW set \in SUBSET Harts, Ecall(h, what, set)
        PROVE InBound(g)'
    <3>1. tlb_flush_req' = tlb_flush_req BY Zenon, <2>3 DEF Ecall, posted
    <3>2. CASE what # "fence" \/ g \notin set
      <4>1. Fencing(g)' \subseteq Fencing(g)
        BY Zenon, <1>2, <2>3, <3>2 DEF Ecall, BeginPosting, Fencing, Posters
      <4> QED BY Zenon, <1>3, <3>1, <4>1
    <3>3. CASE what = "fence" /\ g \in set
      <4>1. tlb_flush_req[g] + Cardinality(Fencing(g)) < MaxFences
        BY Zenon, <2>3, <3>3 DEF Ecall, FencesOf, Fencing
      <4>2. Fencing(g)' = Fencing(g) \cup {h}
        BY Zenon, <1>2, <2>3, <3>3 DEF Ecall, BeginPosting, Fencing, Posters
      <4>3. Cardinality(Fencing(g) \cup {h}) \in
                {Cardinality(Fencing(g)), Cardinality(Fencing(g)) + 1}
        BY Zenon, <1>1, FS_AddElement
      <4>4. /\ Cardinality(Fencing(g)') <= Cardinality(Fencing(g)) + 1
            /\ Cardinality(Fencing(g)') \in Nat
        BY <1>1, <4>2, <4>3
      <4> QED BY <1>1, <3>1, <4>1, <4>4 DEF InBound
    <3> QED BY Zenon, <3>2, <3>3
  <2> QED BY Zenon, <1>7, <2>1, <2>2, <2>3 DEF Begins
<1>8. ASSUME NEW h \in Harts, GuestCalls(h) \/ Fences(h) PROVE InBound(g)'
  <2>1. /\ UNCHANGED <<op, tlb_flush_req>>
        /\ todo' = todo \/ todo' = [todo EXCEPT ![h] = @ \ {h}]
    BY Zenon, <1>8 DEF GuestCalls, ClearSoftIrq, HsmStop, HsmSuspend, Fences,
                FenceReturns, FenceGivesUp, FenceEnds, FlushTlb, FenceSees,
                FenceWaits, posted, call
  <2>2. Fencing(g)' \subseteq Fencing(g)
    BY Zenon, <1>2, <2>1 DEF Fencing, Posters
  <2> QED BY Zenon, <1>3, <2>1, <2>2
<1>9. ASSUME NEW p \in Posters, PostsOne(p) PROVE InBound(g)'
  <2>1. PICK k \in Harts :
            \/ PostSoftIrq(p, k) \/ PostTlbFlush(p, k) \/ DriveLine(p, k)
            \/ RequestExit(p, k) \/ HsmStart(p, k) \/ HsmStartFails(p, k)
    BY Zenon, <1>9 DEF PostsOne
  <2>2. CASE ~PostTlbFlush(p, k)
    <3>1. /\ UNCHANGED <<op, tlb_flush_req>>
          /\ \/ todo' = [todo EXCEPT ![p] = @ \ {k}]
             \/ todo' = [todo EXCEPT ![p] = {}]
      BY Zenon, <2>1, <2>2 DEF PostSoftIrq, DriveLine, RequestExit, HsmStart,
                        HsmStartFails, PostTo, posted
    <3>2. Fencing(g)' \subseteq Fencing(g)
      BY Zenon, <1>2, <3>1 DEF Fencing, Posters
    <3> QED BY Zenon, <1>3, <3>1, <3>2
  <2>3. CASE PostTlbFlush(p, k)
    <3>1. /\ UNCHANGED op /\ todo' = [todo EXCEPT ![p] = @ \ {k}]
          /\ tlb_flush_req' = [tlb_flush_req EXCEPT ![k] = @ + 1]
      BY Zenon, <2>3 DEF PostTlbFlush, PostTo
    <3>2. CASE k # g
      <4>1. tlb_flush_req'[g] = tlb_flush_req[g] BY Zenon, <1>2, <3>1, <3>2
      <4>2. Fencing(g)' \subseteq Fencing(g)
        BY Zenon, <1>2, <3>1 DEF Fencing, Posters
      <4> QED BY Zenon, <1>3, <4>1, <4>2
    <3>3. CASE k = g
      <4>1. p \in Harts BY Zenon, <2>3, RequestInBound DEF PostTlbFlush
      <4>2. p \in Fencing(g) /\ Fencing(g)' = Fencing(g) \ {p}
        BY Zenon, <1>2, <2>3, <3>1, <3>3, <4>1
           DEF PostTlbFlush, Posts, Fencing, Posters
      <4>3. Cardinality(Fencing(g) \ {p}) = Cardinality(Fencing(g)) - 1
        BY <1>1, <4>2, FS_RemoveElement, Zenon
      <4>4. tlb_flush_req'[g] = tlb_flush_req[g] + 1 BY Zenon, <1>2, <3>1, <3>3
      <4> QED BY <1>1, <4>2, <4>3, <4>4 DEF InBound
    <3> QED BY Zenon, <3>2, <3>3
  <2> QED BY Zenon, <2>2, <2>3
<1>10. ASSUME NEW p \in Posters, PostsOn(p) PROVE InBound(g)'
  <2>1. /\ UNCHANGED <<todo, tlb_flush_req>>
        /\ op' = op \/ op' = [op EXCEPT ![p] = "none"]
    BY Zenon, <1>10
       DEF PostsOn, HsmStartAddr, HsmStartPost, StoreInbox, WakeHart,
                 Posted, posted
  <2>2. Fencing(g)' \subseteq Fencing(g)
    BY Zenon, <1>2, <2>1 DEF Fencing, Posters
  <2> QED BY Zenon, <1>3, <2>1, <2>2
<1> QED BY Zenon, Steps, <1>5, <1>6, <1>7, <1>8, <1>9, <1>10

asked == <<tlb_flush_req, tlb_flush_done, awaits, tickets>>
Flushing == {"flushed", "taken"}

(* A hart that loads the last request flushes, so it owes no fence any     *)
(* more; a fence posted after that has a ticket beyond what it loaded.     *)
LEMMA SfenceStep == ASSUME IInv, [Next]_vars PROVE Sfence'
<1>1. /\ Sfence /\ CallShape /\ pc \in [Harts -> Pcs]
      /\ op \in [Posters -> Ops] /\ todo \in [Posters -> SUBSET Harts]
      /\ tickets \in [Harts -> [Harts -> 0..MaxFences]]
      /\ awaits \in [Harts -> SUBSET Harts] /\ owed \in [Harts -> SUBSET Harts]
  BY Zenon DEF IInv, TypeOK, ThreadOK, CallOK
<1>2. /\ tlb_flush_req \in [Harts -> 0..MaxFences]
      /\ tlb_flush_done \in [Harts -> 0..MaxFences]
      /\ req \in [Harts -> 0..MaxFences] /\ MaxFences \in Nat
  BY Zenon, ScenarioType DEF IInv, TypeOK, PostedOK, ThreadOK
<1>3. ASSUME UNCHANGED <<asked, req>>,
             \A h \in Harts : \/ op'[h] = op[h] /\ todo'[h] = todo[h]
                              \/ op'[h] = "none" /\ todo[h] = {}
                              \/ op'[h] = op[h] /\ op[h] \in {"ipi", "start"},
             \A h \in Harts : owed'[h] \subseteq owed[h],
             \A g \in Harts : pc'[g] \in Flushing => pc[g] \in Flushing
      PROVE Sfence'
  BY Zenon, <1>1, <1>3
     DEF Sfence, FlushOrder, OwedTicket, Unflushed, asked, Flushing
<1>4. ASSUME NEW h \in Harts, InboxStep(h) PROVE Sfence'
  <2>1. UNCHANGED <<op, todo, awaits, tickets>>
    BY Zenon, <1>4 DEF InboxStep, TakeInbox, TakeFlush, FlushTaken, TakeSsip,
                TakeStart, TakeLines, call
  <2>2. CASE TakeInbox(h) \/ TakeSsip(h) \/ TakeLines(h) \/ TakeStart(h)
    <3>1. UNCHANGED <<tlb_flush_req, tlb_flush_done, req>>
      BY Zenon, <2>2 DEF TakeInbox, TakeSsip, TakeLines, TakeStart, posted
    <3>2. UNCHANGED owed \/ Flush(h)
      BY Zenon, <2>2 DEF TakeInbox, TakeSsip, TakeLines, TakeStart, Enter
    <3>3. \A k \in Harts : owed'[k] \subseteq owed[k] BY Zenon, <3>2 DEF Flush
    <3>4. \A g \in Harts : pc'[g] \in Flushing => pc[g] \in Flushing
      BY Zenon, <1>1, <2>2 DEF TakeInbox, TakeSsip, TakeLines, TakeStart, Goto,
                        Flushing
    <3> QED BY Zenon, <1>3, <2>1, <3>1, <3>3, <3>4 DEF asked
  <2>3. CASE TakeFlush(h)
    <3>1. UNCHANGED <<tlb_flush_req, tlb_flush_done>>
      BY Zenon, <2>3 DEF TakeFlush, posted
    <3>2. \A g \in Harts \ {h} : pc'[g] = pc[g]
      BY Zenon, <1>1, <2>3 DEF TakeFlush, Goto
    <3>3. CASE tlb_flush_req[h] # tlb_flush_done[h]
      <4>1. Flush(h) /\ req' = [req EXCEPT ![h] = tlb_flush_req[h]]
        BY Zenon, <2>3, <3>3 DEF TakeFlush
      <4> QED BY <1>1, <1>2, <2>1, <3>1, <3>2, <4>1
              DEF Flush, Sfence, FlushOrder, OwedTicket, Unflushed
    <3>4. CASE tlb_flush_req[h] = tlb_flush_done[h]
      <4>1. UNCHANGED owed /\ req' = [req EXCEPT ![h] = 0]
        BY Zenon, <2>3, <3>4 DEF TakeFlush
      <4>2. pc'[h] \notin {"flushed", "taken"}
        BY Zenon, <1>1, <2>3, <3>4 DEF TakeFlush, Goto
      <4> QED BY <1>1, <1>2, <2>1, <3>1, <3>2, <4>1, <4>2
              DEF Sfence, FlushOrder, OwedTicket, Unflushed
    <3> QED BY Zenon, <3>3, <3>4
  <2>4. CASE FlushTaken(h)
    <3>1. /\ UNCHANGED <<tlb_flush_req, owed>>
          /\ tlb_flush_done' = [tlb_flush_done EXCEPT ![h] = req[h]]
          /\ req' = [req EXCEPT ![h] = 0]
      BY Zenon, <2>4 DEF FlushTaken
    <3>2. /\ \A g \in Harts \ {h} : pc'[g] = pc[g]
          /\ pc'[h] \notin {"flushed", "taken"}
          /\ pc[h] \in {"flushed", "taken"}
      BY Zenon, <1>1, <2>4 DEF FlushTaken, Goto
    <3> QED BY <1>1, <1>2, <2>1, <3>1, <3>2
            DEF Sfence, FlushOrder, OwedTicket, Unflushed
  <2> QED BY Zenon, <1>4, <2>2, <2>3, <2>4 DEF InboxStep
<1>5. ASSUME NEW h \in Harts, ThreadMoves(h) PROVE Sfence'
  <2>1. UNCHANGED <<tlb_flush_req, tlb_flush_done>>
    BY Zenon, <1>5
       DEF ThreadMoves, Top, Idled, WaitReturns, InterpDown, Interp, Exit,
                CsrReturns, WfiReturns, LeaveBlocks, Instruction, posted
  <2>2. UNCHANGED owed \/ Flush(h)
    BY Zenon, <1>5
       DEF ThreadMoves, Top, Idled, WaitReturns, InterpDown, Interp,
                Enter, Exit, CsrReturns, WfiReturns, LeaveBlocks, Instruction
  <2>3. \A k \in Harts : owed'[k] \subseteq owed[k] BY Zenon, <2>2 DEF Flush
  <2>4. \A g \in Harts : pc'[g] \in Flushing => pc[g] \in Flushing
    BY Zenon, <1>1, <1>5, ThreadDoes DEF Flushing
  <2> QED BY Zenon, <1>3, <1>5, <2>1, <2>3, <2>4, ThreadDoes DEF asked, call
<1>6. ASSUME Begins \/ UNCHANGED vars PROVE Sfence'
  <2>1. CASE UNCHANGED vars
    BY Zenon, <1>3, <2>1 DEF vars, posted, call, thread, asked
  <2>2. CASE Stop \/ \E g \in Harts : SetIrqLine(g)
    <3>1. UNCHANGED <<asked, req, owed, pc>>
      BY Zenon, <2>2 DEF Stop, SetIrqLine, BeginPosting, posted, thread, asked
    <3>2. \A h \in Harts : op'[h] = op[h] /\ todo'[h] = todo[h]
      BY Zenon, <1>1, <2>2, HartAssumption
         DEF Stop, SetIrqLine, BeginPosting, Posters
    <3> QED BY Zenon, <1>3, <3>1, <3>2
  <2>3. ASSUME NEW h \in Harts, NEW what \in {"ipi", "fence", "start"},
               NEW set \in SUBSET Harts, Ecall(h, what, set)
        PROVE Sfence'
    <3>1. /\ UNCHANGED <<asked, req>>
          /\ owed' = [owed EXCEPT ![h] = IF what = "fence" THEN set ELSE {}]
          /\ op' = [op EXCEPT ![h] = what] /\ todo' = [todo EXCEPT ![h] = set]
          /\ pc' = [pc EXCEPT ![h] = "call"]
      BY Zenon, <2>3 DEF Ecall, BeginPosting, Goto, posted, asked
    <3> QED BY <1>1, <1>2, <3>1 DEF asked, Sfence, FlushOrder, OwedTicket,
                                    Unflushed, Posters
  <2> QED BY Zenon, <1>6, <2>1, <2>2, <2>3 DEF Begins
<1>7. ASSUME NEW h \in Harts, GuestCalls(h) PROVE Sfence'
  <2>1. UNCHANGED <<asked, req, op, todo, owed>>
    BY Zenon, <1>7
       DEF GuestCalls, ClearSoftIrq, HsmStop, HsmSuspend, posted, call,
                thread, asked
  <2>2. \A g \in Harts : pc'[g] \in Flushing => pc[g] \in Flushing
    BY Zenon, <1>1, <1>7
       DEF GuestCalls, ClearSoftIrq, HsmStop, HsmSuspend, CallInbox,
                      Goto, thread, Flushing
  <2> QED BY Zenon, <1>3, <2>1, <2>2
<1>8. ASSUME NEW h \in Harts, Fences(h) PROVE Sfence'
  <2>1. UNCHANGED <<tlb_flush_req, tlb_flush_done, req, op>>
    BY Zenon, <1>8 DEF Fences, FenceReturns, FenceGivesUp, FenceEnds, FlushTlb,
                FenceSees, FenceWaits, posted, call, thread
  <2>2. \A g \in Harts : pc'[g] \in Flushing => pc[g] \in Flushing
    BY Zenon, <1>1, <1>8
       DEF Fences, FenceReturns, FenceGivesUp, FenceEnds, FlushTlb,
                      FenceSees, FenceWaits, CallInbox, Goto, thread, Flushing
  <2>3. CASE FlushTlb(h)
    <3>1. /\ UNCHANGED <<awaits, tickets>> /\ Flush(h)
          /\ todo' = [todo EXCEPT ![h] = @ \ {h}]
      BY Zenon, <2>3 DEF FlushTlb
    <3> QED BY Zenon, <1>1, <1>2, <2>1, <2>2, <3>1 DEF Flush, Flushing, Sfence,
                    FlushOrder, OwedTicket, Unflushed, Posters
  <2>4. CASE FenceReturns(h) \/ FenceGivesUp(h)
    <3>1. FenceEnds(h) BY Zenon, <2>4 DEF FenceReturns, FenceGivesUp
    <3> QED
      BY Zenon, <1>1, <1>2, <2>1, <2>2, <3>1 DEF FenceEnds, Flushing, Sfence,
                    FlushOrder, OwedTicket, Unflushed
  <2>5. ASSUME NEW g \in Harts, FenceSees(h, g) PROVE Sfence'
    <3>1. /\ g \in awaits[h] /\ tlb_flush_done[g] >= tickets[h][g]
          /\ awaits' = [awaits EXCEPT ![h] = @ \ {g}]
          /\ tickets' = [tickets EXCEPT ![h][g] = 0]
          /\ UNCHANGED <<todo, owed>>
      BY Zenon, <2>5 DEF FenceSees, TlbFlushDone
    <3> QED BY <1>1, <1>2, <2>1, <2>2, <3>1 DEF Flushing, Sfence, FlushOrder,
                                               OwedTicket, Unflushed
  <2>6. ASSUME NEW g \in Harts, FenceWaits(h, g) PROVE Sfence'
    <3>1. UNCHANGED <<todo, owed, awaits, tickets>>
      BY Zenon, <2>6 DEF FenceWaits, call
    <3> QED BY Zenon, <1>3, <2>1, <2>2, <3>1 DEF asked
  <2> QED BY Zenon, <1>8, <2>3, <2>4, <2>5, <2>6 DEF Fences
<1>9. ASSUME NEW p \in Posters, PostsOne(p) PROVE Sfence'
  <2>1. PICK g \in Harts :
            \/ PostSoftIrq(p, g) \/ PostTlbFlush(p, g) \/ DriveLine(p, g)
            \/ RequestExit(p, g) \/ HsmStart(p, g) \/ HsmStartFails(p, g)
    BY Zenon, <1>9 DEF PostsOne
  <2>2. UNCHANGED <<op, owed, pc, req, tlb_flush_done>>
    BY Zenon, <2>1
       DEF PostSoftIrq, PostTlbFlush, DriveLine, RequestExit, HsmStart,
                HsmStartFails, thread, posted
  <2>3. CASE PostTlbFlush(p, g)
    <3>1. p \in Harts /\ op[p] = "fence"
      BY Zenon, <2>3, RequestInBound DEF PostTlbFlush, Posts
    <3>2. /\ tlb_flush_req' = [tlb_flush_req EXCEPT ![g] = @ + 1]
          /\ tickets' = [tickets EXCEPT ![p][g] = tlb_flush_req[g] + 1]
          /\ awaits' = [awaits EXCEPT ![p] = @ \cup {g}]
          /\ todo' = [todo EXCEPT ![p] = @ \ {g}]
      BY Zenon, <2>3 DEF PostTlbFlush, PostTo
    <3> QED BY <1>1, <1>2, <2>2, <3>1, <3>2 DEF Sfence, FlushOrder, OwedTicket,
                                               Unflushed, Posters
  <2>4. CASE ~PostTlbFlush(p, g)
    <3>1. UNCHANGED asked
      BY Zenon, <2>1, <2>4 DEF PostSoftIrq, DriveLine, RequestExit, HsmStart,
                        HsmStartFails, posted, asked
    <3>2. op[p] \in {"ipi", "line", "exit", "start"}
      BY Zenon, <2>1, <2>4 DEF PostSoftIrq, DriveLine, RequestExit, HsmStart,
                        HsmStartFails, Posts
    <3>3. p \in Harts => op[p] \in {"ipi", "start"}
      BY Zenon, <1>1, <3>2 DEF CallShape
    <3>4. \A h \in Harts : h # p => todo'[h] = todo[h]
      BY Zenon, <1>1, <2>1, <2>4
         DEF PostSoftIrq, DriveLine, RequestExit, HsmStart,
                        HsmStartFails, PostTo, Posters
    <3> QED BY Zenon, <1>3, <2>2, <3>1, <3>3, <3>4
  <2> QED BY Zenon, <2>3, <2>4
<1>10. ASSUME NEW p \in Posters, PostsOn(p) PROVE Sfence'
  <2>1. UNCHANGED <<asked, req, todo, owed>>
    BY Zenon, <1>10
       DEF PostsOn, HsmStartAddr, HsmStartPost, StoreInbox, WakeHart,
                 Posted, posted, thread, asked
  <2>2. \A g \in Harts : pc'[g] \in Flushing => pc[g] \in Flushing
    BY Zenon, <1>1, <1>10 DEF PostsOn, HsmStartAddr, HsmStartPost, StoreInbox,
                       WakeHart, Posted, Goto, CallInbox, thread, Flushing
  <2>3. \A h \in Harts : \/ op'[h] = op[h]
                         \/ op'[h] = "none" /\ todo[h] = {}
    <3>1. CASE Posted(p)
      <4>1. op' = [op EXCEPT ![p] = "none"] /\ todo[p] = {}
        BY Zenon, <3>1 DEF Posted
      <4> QED BY Zenon, <1>1, <4>1 DEF Posters
    <3>2. CASE ~Posted(p)
      <4>1. UNCHANGED op
        BY Zenon, <1>10, <3>2
           DEF PostsOn, HsmStartAddr, HsmStartPost, StoreInbox,
                           WakeHart
      <4> QED BY Zenon, <4>1
    <3> QED BY Zenon, <3>1, <3>2
  <2> QED BY Zenon, <1>3, <2>1, <2>2, <2>3
<1> QED BY Zenon, Steps, <1>4, <1>5, <1>6, <1>7, <1>8, <1>9, <1>10

-----------------------------------------------------------------------------
LEMMA Initially == ASSUME Init PROVE IInv
<1>1. Boot \in Harts /\ MaxFences \in Nat
  BY Zenon, HartAssumption DEF Init, Scenario, MaxFences
<1>2. PostedOK
  <2>1. /\ inbox_pending \in Bools /\ exit_request \in Bools
        /\ irq_lines \in Bools /\ ssip_posted \in Bools
        /\ hsm_start_posted \in Bools
    BY Zenon DEF Init, Bools
  <2>2. /\ tlb_flush_req \in [Harts -> 0..MaxFences]
        /\ tlb_flush_done \in [Harts -> 0..MaxFences]
    BY <1>1 DEF Init
  <2> QED BY Zenon, <2>1, <2>2 DEF PostedOK
<1>3. HsmOK BY Zenon DEF Init, HsmOK, Bools, HsmStates, Entries
<1>4. ThreadOK
  <2>1. req \in [Harts -> 0..MaxFences] BY <1>1 DEF Init
  <2> QED BY Zenon, <2>1 DEF Init, ThreadOK, Pcs, Callers, Bools
<1>5. CallOK
  <2>1. tickets \in [Harts -> [Harts -> 0..MaxFences]] BY <1>1 DEF Init
  <2> QED BY Zenon, <1>1, <2>1 DEF Init, CallOK, Ops, PostPcs
<1>6. TypeOK BY Zenon, <1>2, <1>3, <1>4, <1>5 DEF Init, TypeOK
<1>7. CallShape BY Zenon DEF Init, CallShape, Posters
<1>8. HsmRuns
  BY Zenon DEF Init, HsmRuns, HsmAgrees, InstructionRuns, StoppedRunsNothing
<1>9. HsmStarts
  BY Zenon DEF Init, HsmStarts, StartUnique, StartClaimed, Starting, Posters
<1>10. Inbox
  <2> SUFFICES ASSUME NEW h \in Harts PROVE HartInbox(h)
    BY Zenon DEF Inbox
  <2>1. hsm_start_posted[h] => Announced("start", h)
    BY Zenon DEF Init, Announced
  <2> QED BY Zenon, <2>1 DEF Init, HartInbox
<1>11. Sfence BY DEF Init, Sfence, FlushOrder, OwedTicket
<1>12. FenceBound
  <2> SUFFICES ASSUME NEW g \in Harts PROVE FencesOf(g) <= MaxFences
    BY Zenon DEF FenceBound
  <2>1. {p \in Harts : op[p] = "fence" /\ g \in todo[p]} = {}
    BY Zenon DEF Init, Posters
  <2>2. Cardinality({p \in Harts : op[p] = "fence" /\ g \in todo[p]}) = 0
    BY Zenon, <2>1, FS_EmptySet
  <2>3. tlb_flush_req[g] = 0 BY Zenon DEF Init
  <2> QED BY <1>1, <2>2, <2>3 DEF FencesOf
<1> QED BY Zenon, <1>6, <1>7, <1>8, <1>9, <1>10, <1>11, <1>12 DEF IInv

LEMMA Inductive == ASSUME IInv, [Next]_vars PROVE IInv'
<1>1. FenceBound'
  BY Zenon, BoundKept DEF FenceBound, FencesOf, InBound, Fencing
<1>2. Inbox' BY Zenon, InboxKept DEF Inbox
<1> QED BY Zenon, TypeStep, CallStep, <1>1, HsmRunsStep, HsmStartsStep, <1>2,
           SfenceStep DEF IInv

LEMMA Invariance == Spec => []IInv
<1>1. Init => IInv BY Zenon, Initially
<1>2. IInv /\ [Next]_vars => IInv' BY Zenon, Inductive
<1> QED BY <1>1, <1>2, PTL DEF Spec

-----------------------------------------------------------------------------
(* The variables keep their types; in particular no more fences are asked  *)
(* of a hart (posted_tlb_flush) than the scenario's bound.                 *)
THEOREM TypeCorrect == Spec => []TypeOK
<1>1. IInv => TypeOK BY Zenon DEF IInv
<1> QED BY <1>1, Invariance, PTL

(* What post_*() has stored for a hart and process_inbox() has not taken   *)
(* in is announced by inbox_pending, or about to be.                       *)
THEOREM InboxCorrect == Spec => []InboxNotLost
<1>1. IInv => InboxNotLost
  BY Zenon DEF IInv, Inbox, HartInbox, Announced, InboxNotLost
<1> QED BY <1>1, Invariance, PTL

(* HsmStart() claims a hart for one caller: the address it stores is the   *)
(* one the hart starts at.                                                 *)
THEOREM StartCorrect == Spec => []StartClaimed
<1>1. IInv => StartClaimed BY Zenon DEF IInv, HsmStarts
<1> QED BY <1>1, Invariance, PTL

(* A hart executes only while HsmState() says that it is started. *)
THEOREM StoppedCorrect == Spec => []StoppedRunsNothing
<1>1. IInv => StoppedRunsNothing BY Zenon DEF IInv, HsmRuns
<1> QED BY <1>1, Invariance, PTL

(* RemoteSfence() waits for every hart that has not flushed since the call *)
(* began.                                                                  *)
THEOREM SfenceCorrect == Spec => []SfenceComplete
<1>1. ASSUME IInv PROVE SfenceComplete
  <2> SUFFICES ASSUME NEW h \in Harts, pc[h] = "fence", NEW g \in owed[h]
               PROVE g \in awaits[h] /\ ~TlbFlushDone(h, g)
    BY Zenon DEF SfenceComplete
  <2>1. todo[h] = {} BY Zenon, <1>1 DEF IInv, CallShape, Posters
  <2>2. Unflushed(h, g) BY Zenon, <1>1, <2>1 DEF IInv, Sfence, OwedTicket
  <2>3. g \in Harts BY Zenon, <1>1 DEF IInv, TypeOK, CallOK
  <2>4. tlb_flush_done[g] \in Nat /\ tickets[h][g] \in Nat
    BY <1>1, <2>3, ScenarioType DEF IInv, TypeOK, PostedOK, CallOK
  <2> QED BY <2>2, <2>3, <2>4 DEF Unflushed, TlbFlushDone
<1> QED BY <1>1, Invariance, PTL
=============================================================================
