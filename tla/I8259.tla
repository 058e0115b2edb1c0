-------------------------------- MODULE I8259 ---------------------------------
(***************************************************************************)
(* The PC's pair of interrupt controllers (device/intc/i8259.cpp): the     *)
(* lines of the devices, the commands of the guest, the processor's        *)
(* acknowledge.  The device lock covers every call, so each is one action. *)
(* A register is a set of inputs; a chip is a record of its registers.     *)
(* irq_base and read_reg_select only choose what a read returns and are    *)
(* left out.                                                               *)
(***************************************************************************)
EXTENDS Integers, FiniteSets

CONSTANTS
    PicInputs,      \* inputs of a chip, 8 on the part
    Cascade,        \* the master's input the slave is on, 2 on the PC
    PicUses         \* which commands and wiring a guest uses: see TypeOK

VARIABLES
    pic,
    cpuIrq,         \* SetCPUIRQ()
    lines,          \* the lines that are high
    uses,
    fresh           \* history: no initialisation since the last Update()

vars == <<pic, cpuIrq, lines, uses, fresh>>

Inputs == 0..(PicInputs - 1)
Master == 0
Slave == 1
Chips == {Master, Slave}

Registers ==
    [last_irr : SUBSET Inputs, irr : SUBSET Inputs, imr : SUBSET Inputs,
     isr : SUBSET Inputs, elcr : SUBSET Inputs, priority_add : Inputs,
     special_mask : BOOLEAN, init_state : 0..3, auto_eoi : BOOLEAN,
     rotate_on_autoeoi : BOOLEAN, init4 : BOOLEAN, single : BOOLEAN,
     sfnm : BOOLEAN, poll : BOOLEAN]

TypeOK ==
    /\ pic \in [Chips -> Registers]
    /\ cpuIrq \in BOOLEAN
    /\ lines \subseteq uses.lines
    /\ fresh \in BOOLEAN
    /\ uses \in PicUses
    /\ uses.lines \subseteq Chips \X Inputs
    /\ uses.commands \subseteq {"mask", "eoi", "specific", "rotate", "auto",
                                "special", "poll", "elcr", "init"}

(* pic_reset(): everything but the trigger modes. *)
Reset(p) ==
    [p EXCEPT !.last_irr = {}, !.irr = {}, !.imr = {}, !.isr = {},
              !.priority_add = 0, !.special_mask = FALSE, !.init_state = 0,
              !.auto_eoi = FALSE, !.rotate_on_autoeoi = FALSE,
              !.init4 = FALSE, !.single = FALSE, !.sfnm = FALSE,
              !.poll = FALSE]

Init ==
    /\ pic = [c \in Chips |-> [last_irr |-> {}, irr |-> {}, imr |-> {},
              isr |-> {}, elcr |-> {}, priority_add |-> 0,
              special_mask |-> FALSE, init_state |-> 0, auto_eoi |-> FALSE,
              rotate_on_autoeoi |-> FALSE, init4 |-> FALSE, single |-> FALSE,
              sfnm |-> FALSE, poll |-> FALSE]]
    /\ cpuIrq = FALSE /\ lines = {}
    /\ fresh = TRUE
    /\ uses \in PicUses

(* An edge latches the request; a level triggered one follows the line. *)
SetIrq1(p, irq, level) ==
    [p EXCEPT
        !.last_irr = IF level THEN @ \cup {irq} ELSE @ \ {irq},
        !.irr = CASE level /\ (irq \in p.elcr \/ irq \notin p.last_irr) ->
                        @ \cup {irq}
                  [] ~level /\ irq \in p.elcr -> @ \ {irq}
                  [] OTHER -> @]

Input(p, priority) == (priority + p.priority_add) % PicInputs

(* The rotated offset of the first input of the mask, PicInputs for none. *)
Priority(p, mask) ==
    IF mask = {} THEN PicInputs
    ELSE CHOOSE k \in Inputs :
            /\ Input(p, k) \in mask
            /\ \A j \in 0..(k - 1) : Input(p, j) \notin mask

(* What is in service and holds back what ranks below it. *)
Holding(ps, c) ==
    LET p == ps[c]
        masked == IF p.special_mask THEN p.isr \ p.imr ELSE p.isr
    IN  IF p.sfnm /\ c = Master THEN masked \ {Cascade} ELSE masked

(* The input the chip wants served, -1 for none. *)
GetIrq(ps, c) ==
    LET wanted == Priority(ps[c], ps[c].irr \ ps[c].imr)
    IN  IF wanted < Priority(ps[c], Holding(ps, c)) THEN Input(ps[c], wanted)
        ELSE -1

(* pic_intack(): a level triggered request is not cleared. *)
Intack(p, irq) ==
    [p EXCEPT !.isr = IF p.auto_eoi THEN @ ELSE @ \cup {irq},
              !.priority_add = IF p.auto_eoi /\ p.rotate_on_autoeoi
                               THEN (irq + 1) % PicInputs ELSE @,
              !.irr = IF irq \in p.elcr THEN @ ELSE @ \ {irq}]

(* Mutant: the slave's request is signalled once only. *)
PulseIfServed(ps) ==
    IF GetIrq(ps, Slave) >= 0 /\ Cascade \notin ps[Master].isr
    THEN [ps EXCEPT ![Master] =
            SetIrq1(SetIrq1(@, Cascade, TRUE), Cascade, FALSE)]
    ELSE ps

(* A request of the slave's is a pulse on the master's cascade input. *)
Pulse(ps) ==
    IF GetIrq(ps, Slave) >= 0
    THEN [ps EXCEPT ![Master] =
            SetIrq1(SetIrq1(@, Cascade, TRUE), Cascade, FALSE)]
    ELSE ps

Update(ps) ==
    /\ pic' = Pulse(ps)
    /\ cpuIrq' = (GetIrq(Pulse(ps), Master) >= 0)
    /\ fresh' = TRUE
    /\ UNCHANGED uses

(* Update() at the end of an operation of the guest's. *)
GuestUpdate(ps) == Update(ps) /\ UNCHANGED lines

SetIRQ(c, irq) ==
    /\ <<c, irq>> \in uses.lines
    /\ \E level \in BOOLEAN :
        /\ lines' = IF level THEN lines \cup {<<c, irq>>}
                    ELSE lines \ {<<c, irq>>}
        /\ Update([pic EXCEPT ![c] = SetIrq1(@, irq, level)])

(* I8259Pair::Acknowledge(), when the processor saw its line up. *)
Acknowledge ==
    /\ cpuIrq
    /\ LET irq == GetIrq(pic, Master)
           irq2 == GetIrq(pic, Slave)
       IN  GuestUpdate([c \in Chips |->
            CASE c = Master /\ irq >= 0 -> Intack(pic[c], irq)
              [] c = Slave /\ irq = Cascade /\ irq2 >= 0 -> Intack(pic[c], irq2)
              [] OTHER -> pic[c]])

(* The commands of port 0 that end an interrupt or rotate the priorities.  *)
(* An end of interrupt that rotates makes the input just served the lowest.*)
Eoi(c) ==
    LET p == pic[c]
        first == Priority(p, p.isr)
        irq == Input(p, first)
    IN  \/ /\ "eoi" \in uses.commands
           /\ GuestUpdate(IF first = PicInputs THEN pic
                     ELSE [pic EXCEPT ![c].isr = @ \ {irq}])
        \/ /\ "rotate" \in uses.commands
           /\ GuestUpdate(IF first = PicInputs THEN pic
                     ELSE [pic EXCEPT ![c].isr = @ \ {irq},
                           ![c].priority_add = (irq + 1) % PicInputs])

SpecificEoi(c) ==
    /\ "specific" \in uses.commands
    /\ \E irq \in Inputs, rotate \in BOOLEAN :
        GuestUpdate([pic EXCEPT ![c].isr = @ \ {irq},
                ![c].priority_add = IF rotate THEN (irq + 1) % PicInputs
                                    ELSE @])

(* Mutant: the rotation runs past the last input. *)
SetPriorityUnmasked(c) ==
    /\ "rotate" \in uses.commands
    /\ \E irq \in Inputs : GuestUpdate([pic EXCEPT ![c].priority_add = irq + 1])

SetPriority(c) ==
    /\ "rotate" \in uses.commands
    /\ \E irq \in Inputs :
        GuestUpdate([pic EXCEPT ![c].priority_add = (irq + 1) % PicInputs])

RotateOnAutoEoi(c) ==
    /\ "auto" \in uses.commands
    /\ \E on \in BOOLEAN :
        GuestUpdate([pic EXCEPT ![c].rotate_on_autoeoi = on])

(* OCW3: the poll command and the special mask mode; only a change of the *)
(* latter needs Update().                                                 *)
SetPoll(c) ==
    /\ "poll" \in uses.commands
    /\ \E poll \in BOOLEAN : pic' = [pic EXCEPT ![c].poll = poll]
    /\ UNCHANGED <<cpuIrq, lines, fresh, uses>>

SetSpecialMask(c) ==
    /\ "special" \in uses.commands
    /\ \E on \in BOOLEAN, poll \in {FALSE, "poll" \in uses.commands} :
        GuestUpdate([pic EXCEPT ![c].special_mask = on, ![c].poll = poll])

(* PICState::Read() after a poll command is an acknowledge. *)
Poll(c) ==
    /\ pic[c].poll
    /\ LET irq == GetIrq(pic, c)
           p == [pic[c] EXCEPT !.poll = FALSE]
       IN  GuestUpdate([pic EXCEPT ![c] = IF irq >= 0 THEN Intack(p, irq) ELSE p])

WriteImr(c) ==
    /\ "mask" \in uses.commands
    /\ pic[c].init_state = 0
    /\ \E m \in SUBSET Inputs : GuestUpdate([pic EXCEPT ![c].imr = m])

(* ICW1 to ICW4; none of them calls GuestUpdate(). *)
Icw1(c) ==
    /\ "init" \in uses.commands
    /\ \E icw4, sngl \in BOOLEAN :
        pic' = [pic EXCEPT ![c] = [Reset(@) EXCEPT !.init_state = 1,
                                   !.init4 = icw4, !.single = sngl]]
    /\ fresh' = FALSE
    /\ UNCHANGED <<cpuIrq, lines, uses>>

Icw(c) ==
    /\ pic[c].init_state \in 1..3
    /\ LET p == pic[c]
           last == IF p.init4 THEN 3 ELSE 0
       IN  \E auto, nested \in BOOLEAN :
            pic' = [pic EXCEPT ![c] =
                IF p.init_state = 3
                THEN [p EXCEPT !.auto_eoi = auto, !.sfnm = nested,
                               !.init_state = 0]
                ELSE [p EXCEPT !.init_state =
                        IF @ = 1 /\ ~p.single THEN 2 ELSE last]]
    /\ fresh' = FALSE
    /\ UNCHANGED <<cpuIrq, lines, uses>>

(* pic_set_elcr(): an input made level triggered asks while it is high.    *)
(* elcr_mask keeps the cascade edge triggered.                             *)
ElcrWrite(c) ==
    /\ "elcr" \in uses.commands
    /\ \E level \in SUBSET {i \in Inputs : <<c, i>> \in uses.lines} :
        GuestUpdate([pic EXCEPT ![c].elcr = level,
                ![c].irr = (@ \ level) \cup (pic[c].last_irr \cap level)])

Next ==
    \/ \E c \in Chips, irq \in Inputs : SetIRQ(c, irq)
    \/ Acknowledge
    \/ \E c \in Chips :
        \/ Eoi(c) \/ SpecificEoi(c) \/ SetPriority(c) \/ RotateOnAutoEoi(c)
        \/ SetPoll(c) \/ SetSpecialMask(c) \/ Poll(c) \/ WriteImr(c)
        \/ Icw1(c) \/ Icw(c) \/ ElcrWrite(c)

(* The processor is asked exactly when the master has an input to serve,   *)
(* and the master knows of the slave's; an initialisation alone does not   *)
(* bring this about, the next command does.                                *)
LineIsRequest ==
    fresh => /\ cpuIrq = (GetIrq(pic, Master) >= 0)
             /\ GetIrq(pic, Slave) >= 0 => Cascade \in pic[Master].irr
=============================================================================
