-------------------------------- MODULE PcCpus --------------------------------
(***************************************************************************)
(* The PC's processor threads (VcpuThread() in machine/x86_machine.cpp)    *)
(* with the interpreter's run and exit request (cpu/x86/x86_cpu.cpp), and  *)
(* what the local APICs send them: an interrupt, an INIT, a STARTUP.  Each *)
(* load, store and exchange another thread can see is a step.              *)
(*                                                                         *)
(* Each send happens once, so a run is not interrupted forever before it  *)
(* has begun.  A sender has the device lock down to the kick.  An APIC     *)
(* is the one interrupt it may have for its processor (PcApics has the     *)
(* rest), and a processor's instructions are those that matter to whether  *)
(* it takes interrupts.                                                    *)
(***************************************************************************)
EXTENDS Naturals, FiniteSets

CONSTANTS
    Cpus,           \* their indexes, from 0
    Device,         \* a thread that raises interrupts
    Main,           \* the machine thread, which stops them
    NoOne,
    Halting,        \* the processors whose guest masks interrupts and halts
    Boot,           \* the processor that stops and starts others
    Started,        \* the ones it does that to
    Interrupting    \* the senders that interrupt those

VARIABLES
    cpc,            \* where each processor's thread is
    spc, sending,   \* where each sender is in a send, and in which
    lock,           \* the device lock
    irr,            \* whether a processor's APIC has an interrupt for it
    irq_level, exit_request, run_ends,  \* run_ends: cycles_end is 0
    power_down, eflags_if, irq_inhibit,
    shutdown,       \* power_down after a triple fault
    init, startup, waiting,  \* CpuStart
    kicked,         \* fVcpuWakeups
    fStop,
    left            \* the sends still to come

vars == <<cpc, spc, sending, lock, irr, irq_level, exit_request, run_ends,
          power_down, eflags_if, irq_inhibit, shutdown, init, startup, waiting,
          kicked, fStop, left>>

Senders == Cpus \cup {Device, Main}

(* What is sent, each once: <<sender, operation, target, number>>. *)
Sends == {<<Boot, op, c, 1>> : op \in {"init", "startup"}, c \in Started}
         \cup {<<s, "irq", c, 1>> : s \in Interrupting, c \in Started}
Nothing == <<NoOne, "none", 0, 0>>

TypeOK ==
    /\ cpc \in [Cpus -> {"top", "startup", "idle", "wait", "run", "exchange",
                         "loop", "ack", "insn", "done"}]
    /\ spc \in [Senders -> {"none", "store", "level", "exit", "ends", "kick"}]
    /\ sending \in [Senders -> Sends \cup {Nothing} \cup
                    ({Main} \X {"stop"} \X Cpus \X {0})]
    /\ lock \in Senders \cup {NoOne}
    /\ irr \in [Cpus -> BOOLEAN] /\ irq_level \in [Cpus -> BOOLEAN]
    /\ exit_request \in [Cpus -> BOOLEAN] /\ run_ends \in [Cpus -> BOOLEAN]
    /\ power_down \in [Cpus -> BOOLEAN] /\ eflags_if \in [Cpus -> BOOLEAN]
    /\ init \in [Cpus -> BOOLEAN] /\ startup \in [Cpus -> BOOLEAN]
    /\ waiting \in [Cpus -> BOOLEAN] /\ kicked \in [Cpus -> BOOLEAN]
    /\ irq_inhibit \in [Cpus -> BOOLEAN] /\ shutdown \in [Cpus -> BOOLEAN]
    /\ left \subseteq Sends
    /\ fStop \in BOOLEAN

Init ==
    /\ cpc = [c \in Cpus |-> "top"]
    /\ spc = [t \in Senders |-> "none"]
    /\ sending = [t \in Senders |-> Nothing]
    /\ lock = NoOne
    /\ irr = [c \in Cpus |-> FALSE] /\ irq_level = [c \in Cpus |-> FALSE]
    /\ exit_request = [c \in Cpus |-> FALSE]
    /\ run_ends = [c \in Cpus |-> FALSE]
    /\ power_down = [c \in Cpus |-> FALSE]
    /\ eflags_if = [c \in Cpus |-> FALSE]
    /\ irq_inhibit = [c \in Cpus |-> FALSE] /\ shutdown = [c \in Cpus |-> FALSE]
    /\ init = [c \in Cpus |-> FALSE] /\ startup = [c \in Cpus |-> FALSE]
    /\ waiting = [c \in Cpus |-> c # 0]
    /\ kicked = [c \in Cpus |-> FALSE]
    /\ left = Sends
    /\ fStop = FALSE

Goto(c, label) == cpc' = [cpc EXCEPT ![c] = label]

sender == <<spc, sending>>
apic == <<irr, irq_level>>
exits == <<exit_request, run_ends>>
state == <<power_down, eflags_if, irq_inhibit, shutdown>>
starts == <<init, startup, waiting>>

(* ---- sending ---- *)

(* A device thread, or a guest's write of its command register. *)
Send(s) ==
    LET t == s[1]
    IN  /\ s \in left /\ left' = left \ {s}
        /\ spc[t] = "none" /\ lock = NoOne
        /\ t \in Cpus => cpc[t] = "insn"
        /\ spc' = [spc EXCEPT ![t] = "store"]
        /\ sending' = [sending EXCEPT ![t] = s]
        /\ lock' = t
        /\ UNCHANGED <<cpc, apic, exits, state, starts, kicked, fStop>>

SendStep(t, label) ==
    /\ spc' = [spc EXCEPT ![t] = label]
    /\ UNCHANGED <<cpc, sending, lock, state, fStop, left>>

(* LocalApic::Accept() or Init(), up to SetApicInterrupt(). *)
StoreIrr(t) ==
    /\ spc[t] = "store" /\ sending[t][2] \in {"irq", "init"}
    /\ irr' = [irr EXCEPT ![sending[t][3]] = sending[t][2] = "irq"]
    /\ SendStep(t, "level")
    /\ UNCHANGED <<irq_level, exits, starts, kicked>>

(* SetApicInterrupt(): an interrupt for another processor kicks it. *)
StoreLevel(t) ==
    LET c == sending[t][3]
    IN  /\ spc[t] = "level"
        /\ irq_level' = [irq_level EXCEPT ![c] = irr[c]]
        /\ IF sending[t][2] = "init"
           THEN init' = [init EXCEPT ![c] = TRUE]
           ELSE UNCHANGED init
        /\ SendStep(t, IF sending[t][2] = "irq" /\ t = c THEN "kick"
                       ELSE "exit")
        /\ UNCHANGED <<irr, exits, startup, waiting, kicked>>

(* ApicStartup() *)
StoreStartup(t) ==
    LET c == sending[t][3]
    IN  /\ spc[t] = "store" /\ sending[t][2] = "startup"
        /\ startup' = [startup EXCEPT ![c] = TRUE]
        /\ SendStep(t, "exit")
        /\ UNCHANGED <<apic, exits, init, waiting, kicked>>

(* KickVcpu(): x86_cpu_request_exit(), then the wakeup. *)
StoreExit(t) ==
    /\ spc[t] = "exit"
    /\ exit_request' = [exit_request EXCEPT ![sending[t][3]] = TRUE]
    /\ SendStep(t, "ends")
    /\ UNCHANGED <<apic, run_ends, starts, kicked>>

StoreEnds(t) ==
    /\ spc[t] = "ends"
    /\ run_ends' = [run_ends EXCEPT ![sending[t][3]] = TRUE]
    /\ SendStep(t, "kick")
    /\ UNCHANGED <<apic, exit_request, starts, kicked>>

(* The last step; an interrupt of one's own needs no kick. *)
Kick(t) ==
    LET c == sending[t][3]
    IN  /\ spc[t] = "kick"
        /\ kicked' = [kicked EXCEPT ![c] = @ \/ sending[t][2] # "irq" \/ t # c]
        /\ spc' = [spc EXCEPT ![t] = "none"]
        /\ sending' = [sending EXCEPT ![t] = Nothing]
        /\ lock' = IF lock = t THEN NoOne ELSE lock
        /\ cpc' = IF t \in Cpus THEN [cpc EXCEPT ![t] = "loop"] ELSE cpc
        /\ UNCHANGED <<apic, exits, state, starts, fStop, left>>

(* VirtMachine::Stop(), then InterruptExecution() on each in turn. *)
Stop ==
    /\ ~fStop
    /\ fStop' = TRUE
    /\ spc' = [spc EXCEPT ![Main] = "exit"]
    /\ sending' = [sending EXCEPT ![Main] = <<Main, "stop", 0, 0>>]
    /\ UNCHANGED <<cpc, lock, apic, exits, state, starts, kicked, left>>

KickNext ==
    LET c == sending[Main][3]
    IN  /\ spc[Main] = "kick"
        /\ kicked' = [kicked EXCEPT ![c] = TRUE]
        /\ IF c + 1 \in Cpus
           THEN /\ spc' = [spc EXCEPT ![Main] = "exit"]
                /\ sending' = [sending EXCEPT ![Main] = <<Main, "stop", c + 1, 0>>]
           ELSE /\ spc' = [spc EXCEPT ![Main] = "none"]
                /\ sending' = [sending EXCEPT ![Main] = Nothing]
        /\ UNCHANGED <<cpc, lock, apic, exits, state, starts, fStop, left>>

(* ---- the processor's thread ---- *)

CpuStep(c, label) == Goto(c, label) /\ UNCHANGED <<sender, irr, fStop, left>>

(* TakeCpuStart(), its first exchange: the INIT resets the processor. *)
TakeInit(c) ==
    /\ cpc[c] = "top"
    /\ IF fStop
       THEN CpuStep(c, "done") /\ UNCHANGED <<init, waiting, state>>
       ELSE /\ CpuStep(c, "startup")
            /\ init' = [init EXCEPT ![c] = FALSE]
            /\ waiting' = [waiting EXCEPT ![c] =
                            IF init[c] THEN c # 0 ELSE @]
            /\ power_down' = [power_down EXCEPT ![c] = @ /\ ~init[c]]
            /\ eflags_if' = [eflags_if EXCEPT ![c] = @ /\ ~init[c]]
            /\ irq_inhibit' = [irq_inhibit EXCEPT ![c] = @ /\ ~init[c]]
            /\ shutdown' = [shutdown EXCEPT ![c] = @ /\ ~init[c]]
    /\ UNCHANGED <<lock, irq_level, exits, startup, kicked>>

TakeStartup(c) ==
    /\ cpc[c] = "startup"
    /\ startup' = [startup EXCEPT ![c] = FALSE]
    /\ waiting' = [waiting EXCEPT ![c] = @ /\ ~startup[c]]
    /\ CpuStep(c, IF waiting'[c] THEN "wait" ELSE "idle")
    /\ UNCHANGED <<lock, irq_level, exits, init, state, kicked>>

(* A halted processor that nothing wakes; one shut down is woken by no     *)
(* interrupt.                                                              *)
Sleeps(c) == power_down[c] /\ (shutdown[c] \/ ~(irq_level[c] /\ eflags_if[c]))

(* X86InterpVcpu::Idle() *)
Idle(c) ==
    /\ cpc[c] = "idle"
    /\ CpuStep(c, IF Sleeps(c) THEN "wait" ELSE "run")
    /\ UNCHANGED <<lock, irq_level, exits, starts, state, kicked>>

(* Wait(-1) ends by a kick (HostWakeup). *)
Wait(c) ==
    /\ cpc[c] = "wait" /\ kicked[c]
    /\ kicked' = [kicked EXCEPT ![c] = FALSE]
    /\ CpuStep(c, "top")
    /\ UNCHANGED <<lock, irq_level, exits, starts, state>>

(* cpu_run(): cycles_end first, then exit_request. *)
SetCyclesEnd(c) ==
    /\ cpc[c] = "run"
    /\ run_ends' = [run_ends EXCEPT ![c] = FALSE]
    /\ CpuStep(c, "exchange")
    /\ UNCHANGED <<lock, irq_level, exit_request, starts, state, kicked>>

(* Mutant: a request from before the run does not end it. *)
ExchangeRunsOn(c) ==
    /\ cpc[c] = "exchange"
    /\ exit_request' = [exit_request EXCEPT ![c] = FALSE]
    /\ power_down' = [power_down EXCEPT ![c] = Sleeps(c)]
    /\ CpuStep(c, IF Sleeps(c) THEN "top" ELSE "loop")
    /\ UNCHANGED <<lock, irq_level, run_ends, starts, eflags_if, irq_inhibit,
                   shutdown, kicked>>

(* The exchange and the test of power_down. *)
ExchangeExit(c) ==
    /\ cpc[c] = "exchange"
    /\ exit_request' = [exit_request EXCEPT ![c] = FALSE]
    /\ power_down' = [power_down EXCEPT ![c] =
                        IF exit_request[c] THEN @ ELSE Sleeps(c)]
    /\ CpuStep(c, IF exit_request[c] \/ Sleeps(c) THEN "top" ELSE "loop")
    /\ UNCHANGED <<lock, irq_level, run_ends, starts, eflags_if, irq_inhibit,
                   shutdown, kicked>>

(* exec_loop(): the end of the run, an interrupt, or an instruction; none  *)
(* right after STI.                                                        *)
ExecLoop(c) ==
    /\ cpc[c] = "loop"
    /\ LET ends == run_ends[c] \/ power_down[c]
           takes == ~irq_inhibit[c] /\ irq_level[c] /\ eflags_if[c]
       IN  /\ CpuStep(c, CASE ends -> "top"
                           [] ~ends /\ takes -> "ack"
                           [] OTHER -> "insn")
           /\ irq_inhibit' = [irq_inhibit EXCEPT ![c] = @ /\ ends]
    /\ UNCHANGED <<lock, irq_level, exits, starts, power_down, eflags_if,
                   shutdown, kicked>>

(* HardIntno() with the device lock: Acknowledge() and the Update() in it; *)
(* the interrupt gate clears IF.  An interrupt that has gone away is a     *)
(* spurious one.                                                           *)
HardIntno(c) ==
    /\ cpc[c] = "ack" /\ lock = NoOne
    /\ irr' = [irr EXCEPT ![c] = FALSE]
    /\ irq_level' = [irq_level EXCEPT ![c] = FALSE]
    /\ eflags_if' = [eflags_if EXCEPT ![c] = FALSE]
    /\ Goto(c, "insn")
    /\ UNCHANGED <<sender, lock, exits, starts, power_down,
                   irq_inhibit, shutdown, kicked, fStop, left>>

(* CLI, STI and HLT, or any other instruction. *)
Instruction(c) ==
    /\ cpc[c] = "insn" /\ spc[c] = "none"
    /\ CpuStep(c, "loop")
    /\ \/ c \notin Halting /\ UNCHANGED state
       \/ \E on \in BOOLEAN :
            /\ c \in Halting
            /\ eflags_if' = [eflags_if EXCEPT ![c] = on]
            /\ irq_inhibit' = [irq_inhibit EXCEPT ![c] = on /\ ~eflags_if[c]]
            /\ UNCHANGED <<power_down, shutdown>>
       \/ /\ c \in Halting
          /\ power_down' = [power_down EXCEPT ![c] = TRUE]
          /\ UNCHANGED <<eflags_if, irq_inhibit, shutdown>>
    /\ UNCHANGED <<lock, irq_level, exits, starts, kicked>>

(* raise_exception() in a double fault.  ProcessorShutdown() takes the     *)
(* device lock and asks for a reset, which is a Stop (Machine).            *)
TripleFault(c) ==
    /\ cpc[c] = "insn" /\ spc[c] = "none" /\ c \in Halting /\ lock = NoOne
    /\ shutdown' = [shutdown EXCEPT ![c] = TRUE]
    /\ power_down' = [power_down EXCEPT ![c] = TRUE]
    /\ CpuStep(c, "loop")
    /\ UNCHANGED <<lock, irq_level, exits, starts, eflags_if, irq_inhibit, kicked>>

ThreadStep(c) ==
    \/ TakeInit(c) \/ TakeStartup(c) \/ Idle(c) \/ Wait(c) \/ SetCyclesEnd(c)
    \/ ExchangeExit(c) \/ ExecLoop(c) \/ HardIntno(c) \/ Instruction(c)

SenderStep(t) ==
    \/ StoreIrr(t) \/ StoreLevel(t) \/ StoreStartup(t) \/ StoreExit(t)
    \/ StoreEnds(t) \/ (t # Main /\ Kick(t))

Next ==
    \/ \E s \in Sends : Send(s)
    \/ Stop \/ KickNext
    \/ \E t \in Senders : SenderStep(t)
    \/ \E c \in Cpus : ThreadStep(c) \/ TripleFault(c)

(* Every thread runs; a thread gets the lock it waits for. *)
Fairness ==
    /\ WF_vars(KickNext)
    /\ \A t \in Senders : WF_vars(SenderStep(t))
    /\ \A c \in Cpus : SF_vars(ThreadStep(c))

Spec == Init /\ [][Next]_vars /\ Fairness

(* What is sent to a processor is taken by it: an INIT, a STARTUP, and an  *)
(* interrupt while it may be interrupted, whatever it runs or sleeps in,   *)
(* but not in the shutdown of a triple fault, which only an INIT ends;     *)
(* and when the machine stops, every thread ends.                          *)
Responds ==
    /\ \A c \in {s[3] : s \in Sends} :
        /\ init[c] ~> ~init[c] \/ fStop
        /\ startup[c] ~> ~startup[c] \/ fStop
        /\ irr[c] /\ eflags_if[c] ~>
            ~irr[c] \/ ~eflags_if[c] \/ waiting[c] \/ shutdown[c] \/ fStop
    /\ fStop ~> \A c \in Cpus : cpc[c] = "done"
=============================================================================
