------------------------------- MODULE HostVcpu -------------------------------
(***************************************************************************)
(* A PC's processor thread (VcpuThread() in machine/x86_machine.cpp) on a  *)
(* host's hypervisor: KVM without its interrupt controllers                *)
(* (platform/linux/kvm_x86.cpp), NVMM (platform/haiku/nvmm_x86.cpp) or     *)
(* the Windows Hypervisor Platform (platform/win32/whp_x86.cpp).  Each     *)
(* load and store another thread can see is a step; what a thread does     *)
(* with the device lock held is one.                                       *)
(*                                                                         *)
(* The hypervisors are external: how they leave a run is modelled from     *)
(* the comments and the use of them here.  An interrupt is its priority,   *)
(* and the processor's local APIC is the one it may have, its task         *)
(* priority and the request they make (fApicIrq).                          *)
(***************************************************************************)
EXTENDS Integers

CONSTANTS
    Priorities,     \* of interrupts, from 1
    Tasks,          \* task priorities, from 0
    Hypervisors     \* its kind, and what the other threads do

ASSUME VcpuAssumption ==
    /\ Priorities \subseteq Nat \ {0} /\ Tasks \subseteq Nat /\ 0 \in Tasks
    /\ Hypervisors \subseteq [kind : {"kvm", "nvmm", "whp"},
                              ops : SUBSET {"irq", "stop"}]

VARIABLES
    vcpu,       \* the processor and its local APIC
    kicks,      \* the threads that kick it
    hyper       \* the hypervisor

vcpuVars == <<vcpu, kicks, hyper>>

Kickers == {"device", "main"}

VcpuPcs == {"top", "idle", "wait", "clear", "inject", "inrun", "look",
            "enter", "guest", "back", "sync", "handle", "done"}
Reasons == {"none", "tpr", "hlt", "io", "shutdown", "window"}
VcpuState ==
    [pc : VcpuPcs, stop : BOOLEAN, irr : Priorities \cup {0}, tpr : Tasks,
     irq : BOOLEAN, cr8 : Tasks, fTaskPriority : Tasks,
     event : Priorities \cup {0}, if_flag : BOOLEAN, shadow : BOOLEAN,
     halted : BOOLEAN,
     shutdown : BOOLEAN, window : BOOLEAN, immediate_exit : BOOLEAN, kicked : BOOLEAN,
     inrun : BOOLEAN, leave : BOOLEAN, timer : BOOLEAN, missed : BOOLEAN,
     forgot : BOOLEAN, wakeup : BOOLEAN, reason : Reasons]

VcpuTypeOK ==
    /\ vcpu \in VcpuState /\ hyper \in Hypervisors
    /\ kicks \in [Kickers -> {"none", "request", "signal", "kick"}]

(* The device lock is free: the device has it from its interrupt to the    *)
(* kick.                                                                   *)
Unlocked == kicks["device"] = "none"

(* LocalApic: the request follows what it has and the task priority. *)
Requests(d) == [d EXCEPT !.irq = d.irr > d.tpr]
SetTaskPriority(d, t) == Requests([d EXCEPT !.tpr = t])
Acknowledge(d) == Requests([d EXCEPT !.irr = 0])

-----------------------------------------------------------------------------
(* Other threads. *)

(* SetApicInterrupt() and KickVcpu(), from a device's thread. *)
Raise ==
    \E p \in Priorities :
      /\ "irq" \in hyper.ops /\ Unlocked /\ vcpu.irr < p
      /\ vcpu' = Requests([vcpu EXCEPT !.irr = p])
      /\ kicks' = [kicks EXCEPT !["device"] = IF p > vcpu.tpr THEN "request"
                                          ELSE "none"]
      /\ UNCHANGED hyper

(* VirtMachine::Stop() *)
Stop ==
    /\ "stop" \in hyper.ops /\ ~vcpu.stop
    /\ vcpu' = [vcpu EXCEPT !.stop = TRUE]
    /\ kicks' = [kicks EXCEPT !["main"] = "request"]
    /\ UNCHANGED hyper

(* Mutant: only a run under way is asked to end. *)
InterruptRunLate(t) ==
    /\ kicks[t] = "request"
    /\ vcpu' = IF hyper.kind = "nvmm" THEN [vcpu EXCEPT !.kicked = TRUE]
               ELSE vcpu
    /\ kicks' = [kicks EXCEPT ![t] = "signal"]
    /\ UNCHANGED hyper

(* InterruptRun(): a flag a run looks at before it begins... *)
InterruptRun(t) ==
    /\ kicks[t] = "request"
    /\ vcpu' = CASE hyper.kind = "kvm" -> [vcpu EXCEPT !.immediate_exit = TRUE]
                [] hyper.kind = "nvmm" -> [vcpu EXCEPT !.kicked = TRUE]
                [] hyper.kind = "whp" -> vcpu
    /\ kicks' = [kicks EXCEPT ![t] = "signal"]
    /\ UNCHANGED hyper

(* ... and what ends the run.  Outside it the signal's handler does        *)
(* nothing, and there is no run to cancel: NVMM misses a signal between    *)
(* the look at fKicked and the kernel's entry, as its class says.          *)
SendSignal(t) ==
    /\ kicks[t] = "signal"
    /\ vcpu' = [vcpu EXCEPT !.leave = @ \/ vcpu.pc = "guest",
                          !.missed = @ \/ (vcpu.pc = "enter"
                                           /\ hyper.kind = "nvmm")]
    /\ kicks' = [kicks EXCEPT ![t] = "kick"]
    /\ UNCHANGED hyper

Kick(t) ==
    /\ kicks[t] = "kick"
    /\ vcpu' = [vcpu EXCEPT !.wakeup = TRUE]
    /\ kicks' = [kicks EXCEPT ![t] = "none"]
    /\ UNCHANGED hyper

-----------------------------------------------------------------------------
(* The processor's thread. *)

Goto(label) == [vcpu EXCEPT !.pc = label]
Then(d) == vcpu' = d /\ UNCHANGED <<kicks, hyper>>

LookAtStop ==
    /\ vcpu.pc = "top"
    /\ Then(Goto(IF vcpu.stop THEN "done" ELSE "idle"))

VcpuIdle == vcpu.shutdown \/ (vcpu.halted /\ ~(vcpu.irq /\ vcpu.if_flag))

LookAtIdle ==
    /\ vcpu.pc = "idle"
    /\ Then(Goto(IF VcpuIdle THEN "wait"
                 ELSE IF hyper.kind = "nvmm" THEN "clear" ELSE "inject"))

Wait ==
    /\ vcpu.pc = "wait" /\ vcpu.wakeup
    /\ Then([Goto("top") EXCEPT !.wakeup = FALSE])

(* NVMM: what was asked before the interrupts are looked at is done.  That *)
(* is not so for a stop that came after the thread looked at it: its       *)
(* request is forgotten, and the run goes on to its next exit.             *)
ClearKicked ==
    /\ vcpu.pc = "clear"
    /\ Then([Goto("inject") EXCEPT
               !.kicked = FALSE,
               !.forgot = vcpu.stop /\ kicks["main"] # "request"])

(* The task priority the guest gave the local APIC reaches CR8. *)
TakePriority(d) == [d EXCEPT !.fTaskPriority = d.tpr, !.cr8 = d.tpr]

(* The end of a run that could not take the interrupt: the window. *)
Windowed(d) ==
    [d EXCEPT !.window = CASE hyper.kind = "kvm" -> d.irq
                           [] hyper.kind = "nvmm" -> @ \/ (d.irq /\ ~d.halted)
                           [] hyper.kind = "whp" -> @ \/ d.irq,
              !.pc = IF d.halted THEN "top"
                     ELSE IF hyper.kind = "nvmm" THEN "inrun" ELSE "enter"]

(* Mutant: the task priority of the last run is the processor's. *)
InjectInterruptStale ==
    LET can == vcpu.irq /\ vcpu.if_flag /\ ~vcpu.shadow /\ vcpu.event = 0
        e == IF can THEN [Acknowledge(vcpu) EXCEPT !.event = vcpu.irr,
                                                  !.halted = FALSE] ELSE vcpu
    IN  vcpu.pc = "inject" /\ Unlocked /\ Then(Windowed(e))

(* The interrupt goes in if the processor can take it; otherwise the run   *)
(* ends when it can.                                                       *)
InjectInterrupt ==
    LET d == TakePriority(vcpu)
        can == d.irq /\ d.if_flag /\ ~d.shadow /\ d.event = 0
        e == IF can THEN [Acknowledge(d) EXCEPT !.event = d.irr,
                                                !.halted = FALSE] ELSE d
    IN  vcpu.pc = "inject" /\ Unlocked /\ Then(Windowed(e))

SetInRun ==
    /\ vcpu.pc = "inrun"
    /\ Then([Goto("look") EXCEPT !.inrun = TRUE])

LookAtKicked ==
    /\ vcpu.pc = "look"
    /\ Then(IF vcpu.kicked THEN [Goto("top") EXCEPT !.inrun = FALSE]
            ELSE Goto("enter"))

(* WHP: a run has a longest time. *)
Enter ==
    /\ vcpu.pc = "enter"
    /\ Then(IF vcpu.immediate_exit THEN [Goto("back") EXCEPT !.reason = "none"]
            ELSE [Goto("guest") EXCEPT !.timer = hyper.kind = "whp"])

Exit(reason) ==
    [Goto("back") EXCEPT !.reason = reason, !.leave = FALSE, !.timer = FALSE,
                         !.missed = FALSE]

(* An interrupt that was injected comes first. *)
TakeEvent ==
    /\ vcpu.pc = "guest" /\ vcpu.event # 0
    /\ Then([vcpu EXCEPT !.event = 0, !.if_flag = FALSE])

(* What the guest does that matters here.  A lower task priority ends a    *)
(* run, where the hypervisor does so.  The instruction after an STI is in  *)
(* its shadow, which ends with it; an access ends a run half done.         *)
Guest ==
    /\ vcpu.pc = "guest" /\ vcpu.event = 0
    /\ \/ Then([vcpu EXCEPT !.if_flag = ~@, !.shadow = ~vcpu.if_flag])
       \/ vcpu.shadow /\ Then([vcpu EXCEPT !.shadow = FALSE])
       \/ \E t \in Tasks :
            Then([IF t < vcpu.cr8 /\ hyper.kind # "whp" THEN Exit("tpr")
                  ELSE vcpu EXCEPT !.cr8 = t, !.shadow = FALSE])
       \/ \E r \in {"hlt", "io", "shutdown"} :
            Then([Exit(r) EXCEPT !.shadow = @ /\ r = "io"])

WindowOpens ==
    /\ vcpu.pc = "guest" /\ vcpu.event = 0 /\ vcpu.window
    /\ vcpu.if_flag /\ ~vcpu.shadow
    /\ Then([Exit("window") EXCEPT !.window = FALSE])

Leave ==
    /\ vcpu.pc = "guest" /\ (vcpu.leave \/ vcpu.timer)
    /\ Then(Exit("none"))

(* KVM: a request to return that came while it ran has done its job. *)
Back ==
    /\ vcpu.pc = "back"
    /\ Then([Goto("sync") EXCEPT !.immediate_exit = FALSE, !.inrun = FALSE])

(* The local APIC learns of a write of CR8 before anything else sees it. *)
ExitApicState ==
    /\ vcpu.pc = "sync"
    /\ vcpu.cr8 # vcpu.fTaskPriority => Unlocked
    /\ Then(LET d == [Goto("handle") EXCEPT !.fTaskPriority = vcpu.cr8]
            IN  IF vcpu.cr8 # vcpu.fTaskPriority
                THEN SetTaskPriority(d, vcpu.cr8) ELSE d)

(* An access for the machine: of the local APIC's task priority, say. *)
ExitIo ==
    /\ vcpu.pc = "handle" /\ vcpu.reason = "io" /\ Unlocked
    /\ \E t \in Tasks : Then([SetTaskPriority(vcpu, t) EXCEPT !.pc = "top"])

Handle ==
    /\ vcpu.pc = "handle" /\ vcpu.reason # "io"
    /\ vcpu.reason = "shutdown" => Unlocked
    /\ Then([Goto("top") EXCEPT !.halted = @ \/ vcpu.reason = "hlt",
                                !.shutdown = @ \/ vcpu.reason = "shutdown"])

(* A processor that halted for good may wait for ever. *)
Done == vcpu.pc \in {"wait", "done"} /\ UNCHANGED vcpuVars

VcpuInit ==
    /\ hyper \in Hypervisors
    /\ vcpu = [pc |-> "top", stop |-> FALSE, irr |-> 0, tpr |-> 0,
              irq |-> FALSE, cr8 |-> 0, fTaskPriority |-> 0, event |-> 0,
              if_flag |-> FALSE, shadow |-> FALSE, halted |-> FALSE,
              shutdown |-> FALSE,
              window |-> FALSE, immediate_exit |-> FALSE, kicked |-> FALSE,
              inrun |-> FALSE, leave |-> FALSE, timer |-> FALSE,
              missed |-> FALSE, forgot |-> FALSE, wakeup |-> FALSE,
              reason |-> "none"]
    /\ kicks = [t \in Kickers |-> "none"]

VcpuNext ==
    \/ Raise \/ Stop
    \/ \E t \in Kickers : InterruptRun(t) \/ SendSignal(t) \/ Kick(t)
    \/ LookAtStop \/ LookAtIdle \/ Wait \/ ClearKicked \/ InjectInterrupt
    \/ SetInRun \/ LookAtKicked \/ Enter \/ TakeEvent \/ Guest
    \/ WindowOpens \/ Leave \/ Back \/ ExitApicState \/ ExitIo \/ Handle
    \/ Done

VcpuSpec == VcpuInit /\ [][VcpuNext]_vcpuVars

-----------------------------------------------------------------------------

(* A processor in the guest leaves it for whatever it has been kicked for, *)
(* at once or when it can take the interrupt, and one that waits has       *)
(* nothing to do: no kick is lost, whenever it comes (InterruptRun(),      *)
(* Run(), InjectInterrupt(), Idle()), but for two of NVMM's: the signal    *)
(* its class says it misses, and a stop whose request ClearKicked forgets. *)
NoKickLost ==
    (\A t \in Kickers : kicks[t] = "none") =>
      /\ vcpu.pc = "guest" /\ ~vcpu.missed
           => /\ vcpu.stop => vcpu.leave \/ vcpu.timer \/ vcpu.forgot
              /\ vcpu.irq => vcpu.leave \/ vcpu.timer \/ vcpu.window
      /\ vcpu.pc = "wait" /\ (vcpu.stop \/ ~VcpuIdle) => vcpu.wakeup

(* No interrupt goes to a guest that has masked it, by its flag, by the    *)
(* STI right before or by its task priority, and the local APIC and the processor agree on that       *)
(* priority whenever the machine looks (ExitApicState(),                   *)
(* InjectInterrupt()).                                                     *)
MaskedNotTaken ==
    /\ vcpu.event # 0 => /\ vcpu.if_flag /\ ~vcpu.shadow
                         /\ vcpu.event > vcpu.cr8
    /\ vcpu.pc \in {"top", "idle", "wait", "clear", "inject"}
         => vcpu.fTaskPriority = vcpu.cr8

(* No kick of a processor is lost, whenever it comes, and no interrupt     *)
(* goes to a guest that has masked it (InterruptRun(), InjectInterrupt()). *)
KicksHeard == NoKickLost /\ MaskedNotTaken

=============================================================================
