-------------------------------- MODULE Aplic ---------------------------------
(***************************************************************************)
(* The RISC-V machine's advanced platform level interrupt controller       *)
(* (device/intc/aplic.cpp): a machine level domain and the supervisor      *)
(* level one it delegates sources to, with direct delivery to the harts'   *)
(* lines or with MSIs.  The device lock covers every call, so each is one  *)
(* action.  The registers that act on a bitmap of sources are modelled for *)
(* one source; reads without effect are left out.                          *)
(***************************************************************************)
EXTENDS Naturals, TLAPS

CONSTANTS
    AplicSources,   \* source numbers, from 1
    AplicHarts,     \* hart numbers, from 0
    HartIndices,    \* what the hart field of a register can hold
    MsiHarts,       \* 2^hart_index_bits, the span of an MSI's hart field
    AplicUses       \* what the machine is and the guest does: see TypeOK

VARIABLES
    fLevel,         \* the sources whose wire is high
    sourcecfg, pending, enable, target, ie,  \* of each domain
    idc,            \* of each domain, one for every hart
    external,       \* SetExternalIrq(): the <<domain, hart>> lines that are up
    msis,           \* the MSIs of the last step, as <<domain, hart, eiid>>
    uses

vars == <<fLevel, sourcecfg, pending, enable, target, ie, idc, external, msis,
          uses>>
domains == <<sourcecfg, pending, enable, target, ie, idc>>

Domains == {"M", "S"}
SourceModes == {"inactive", "detached", "edge1", "edge0", "level1", "level0"}
Levels == {"level1", "level0"}
Delegated == "D"
NoTarget == [hart |-> 0, iprio |-> 0]

MsiMode == uses.msi
Iprios == 0..uses.priorities

TypeOK ==
    /\ uses \in AplicUses
    /\ uses.msi \in BOOLEAN
    /\ uses.modes \subseteq SourceModes \cup {Delegated}
    /\ fLevel \subseteq AplicSources
    /\ sourcecfg \in [Domains -> [AplicSources -> SourceModes \cup {Delegated}]]
    /\ pending \in [Domains -> SUBSET AplicSources]
    /\ enable \in [Domains -> SUBSET AplicSources]
    /\ target \in [Domains ->
            [AplicSources -> [hart : HartIndices, iprio : Iprios]]]
    /\ ie \in [Domains -> BOOLEAN]
    /\ idc \in [Domains -> [AplicHarts ->
            [idelivery : BOOLEAN, iforce : BOOLEAN, ithreshold : Iprios]]]
    /\ external \subseteq Domains \X AplicHarts
    /\ msis \subseteq Domains \X (0..MsiHarts - 1) \X Iprios

Init ==
    /\ uses \in AplicUses
    /\ fLevel = {} /\ external = {} /\ msis = {}
    /\ sourcecfg = [d \in Domains |-> [s \in AplicSources |-> "inactive"]]
    /\ pending = [d \in Domains |-> {}] /\ enable = [d \in Domains |-> {}]
    /\ target = [d \in Domains |-> [s \in AplicSources |-> NoTarget]]
    /\ ie = [d \in Domains |-> FALSE]
    /\ idc = [d \in Domains |-> [h \in AplicHarts |->
                [idelivery |-> FALSE, iforce |-> FALSE, ithreshold |-> 0]]]

(* A source the machine level domain has not delegated looks unimplemented *)
(* to the supervisor level one.                                            *)
Visible(d, s) == d = "M" \/ sourcecfg["M"][s] = Delegated

(* The mode of a source, inactive where it is delegated further down. *)
Mode(d, s) ==
    IF ~Visible(d, s) \/ sourcecfg[d][s] = Delegated THEN "inactive"
    ELSE sourcecfg[d][s]

Active(d, s) == Mode(d, s) # "inactive"

(* A wire as a mode reads it. *)
Asserted(mode, high) ==
    \/ mode \in {"edge1", "level1"} /\ high
    \/ mode \in {"edge0", "level0"} /\ ~high

Rectified(d, s) == Asserted(Mode(d, s), s \in fLevel)

(* The sources hart h could claim: lower priority numbers win, then lower  *)
(* source numbers.                                                         *)
Candidates(d, h) ==
    {s \in pending[d] \cap enable[d] :
        /\ target[d][s].hart = h
        /\ \/ idc[d][h].ithreshold = 0
           \/ target[d][s].iprio < idc[d][h].ithreshold}

Topi(d, h) ==
    CHOOSE s \in Candidates(d, h) : \A t \in Candidates(d, h) :
        \/ target[d][s].iprio < target[d][t].iprio
        \/ target[d][s].iprio = target[d][t].iprio /\ s <= t

Line(d, h) ==
    ie[d] /\ idc[d][h].idelivery /\ (idc[d][h].iforce \/ Candidates(d, h) # {})
Lines == {l \in Domains \X AplicHarts : Line(l[1], l[2])}

Put(set, s, on) == IF on THEN set \cup {s} ELSE set \ {s}

(* An MSI's address has room for the low bits of the hart index. *)
SendMsi(d, hart, eiid) == <<d, hart % MsiHarts, eiid>>

(* Update(), at the end of a step that leaves 'pend' pending: direct       *)
(* delivery sets the lines, MSI delivery sends and forgets what is pending *)
(* and enabled.                                                            *)
Update(pend) ==
    LET sent(d) == IF MsiMode /\ ie'[d] THEN pend[d] \cap enable'[d] ELSE {}
    IN  /\ pending' = [d \in Domains |-> pend[d] \ sent(d)]
        /\ msis' = UNION {{SendMsi(d, target'[d][s].hart, target'[d][s].iprio) :
                           s \in sent(d)} : d \in Domains}
        /\ external' = IF MsiMode THEN external ELSE Lines'
        /\ UNCHANGED uses

(* Deactivate() in the domains of ds; a target needs a priority while its  *)
(* source is active, in direct mode.                                       *)
Cleared(f, ds, s) == [d \in Domains |-> IF d \in ds THEN f[d] \ {s} ELSE f[d]]

(* WriteSourcecfg().  A leaf domain cannot delegate; a source no longer    *)
(* delegated vanishes from the child; a level source is pending with its   *)
(* wire.                                                                   *)
WriteSourcecfg(d, s) ==
    /\ Visible(d, s)
    /\ \E val \in uses.modes :
        LET cfg == IF val = Delegated /\ d = "S" THEN "inactive" ELSE val
            child == IF d = "M" /\ cfg # Delegated THEN {"S"} ELSE {}
            off == child \cup (IF cfg \in {"inactive", Delegated} THEN {d}
                               ELSE {})
            kept == Cleared(pending, off, s)
        IN  /\ sourcecfg' = [e \in Domains |-> [sourcecfg[e] EXCEPT ![s] =
                    CASE e = d -> cfg
                      [] e \in child -> "inactive"
                      [] OTHER -> @]]
            /\ enable' = Cleared(enable, off, s)
            /\ target' = [e \in Domains |-> [target[e] EXCEPT ![s] =
                    CASE e \in off -> NoTarget
                      [] e = d /\ e \notin off /\ ~MsiMode /\ @.iprio = 0 ->
                            [hart |-> 0, iprio |-> 1]
                      [] OTHER -> @]]
            /\ UNCHANGED <<fLevel, ie, idc>>
            /\ Update(IF cfg \in Levels
                      THEN [kept EXCEPT ![d] =
                                Put(@, s, Asserted(cfg, s \in fLevel))]
                      ELSE kept)

(* Any hart index is kept, of a hart there is or not.  Priority 0 is not   *)
(* legal in direct mode.                                                   *)
WriteTarget(d, s) ==
    /\ Active(d, s)
    /\ \E h \in HartIndices, p \in Iprios :
        target' = [target EXCEPT ![d][s] =
                    [hart |-> h, iprio |-> IF p = 0 /\ ~MsiMode THEN 1 ELSE p]]
    /\ UNCHANGED <<fLevel, sourcecfg, enable, ie, idc>>
    /\ Update(pending)

(* setip, setipnum: a level source follows its wire in direct mode, and    *)
(* can only be made pending while the wire is asserted in MSI mode.        *)
SetPending(d, s) ==
    /\ Active(d, s)
    /\ Mode(d, s) \in Levels => MsiMode /\ Rectified(d, s)
    /\ UNCHANGED <<fLevel, sourcecfg, enable, target, ie, idc>>
    /\ Update([pending EXCEPT ![d] = @ \cup {s}])

Clearable(d, s) == Active(d, s) /\ (Mode(d, s) \in Levels => MsiMode)

(* in_clrip, clripnum *)
ClearPending(d, s) ==
    /\ Clearable(d, s)
    /\ UNCHANGED <<fLevel, sourcecfg, enable, target, ie, idc>>
    /\ Update([pending EXCEPT ![d] = @ \ {s}])

(* setie, setienum, clrie, clrienum *)
SetEnable(d, s) ==
    /\ Active(d, s)
    /\ \E on \in BOOLEAN : enable' = [enable EXCEPT ![d] = Put(@, s, on)]
    /\ UNCHANGED <<fLevel, sourcecfg, target, ie, idc>>
    /\ Update(pending)

WriteDomaincfg(d) ==
    /\ \E on \in BOOLEAN : ie' = [ie EXCEPT ![d] = on]
    /\ UNCHANGED <<fLevel, sourcecfg, enable, target, idc>>
    /\ Update(pending)

(* genmsi is sent at once, whatever IE says. *)
WriteGenmsi(d) ==
    /\ MsiMode
    /\ \E h \in HartIndices, e \in Iprios : msis' = {SendMsi(d, h, e)}
    /\ UNCHANGED <<fLevel, domains, external, uses>>

WriteIdc(d, h) ==
    /\ ~MsiMode
    /\ \/ \E on \in BOOLEAN : idc' = [idc EXCEPT ![d][h].idelivery = on]
       \/ \E on \in BOOLEAN : idc' = [idc EXCEPT ![d][h].iforce = on]
       \/ \E t \in Iprios : idc' = [idc EXCEPT ![d][h].ithreshold = t]
    /\ UNCHANGED <<fLevel, sourcecfg, enable, target, ie>>
    /\ Update(pending)

(* claimi: the top source stops pending, unless its wire holds it; with    *)
(* none, the forced interrupt ends.                                        *)
Claimi(d, h) ==
    /\ ~MsiMode
    /\ UNCHANGED <<fLevel, sourcecfg, enable, target, ie>>
    /\ IF Candidates(d, h) = {}
       THEN idc' = [idc EXCEPT ![d][h].iforce = FALSE] /\ Update(pending)
       ELSE /\ UNCHANGED idc
            /\ Update(IF Clearable(d, Topi(d, h))
                      THEN [pending EXCEPT ![d] = @ \ {Topi(d, h)}]
                      ELSE pending)

(* What is pending in a domain once the wire of s is high or low. *)
Sampled(d, s, high) ==
    LET level == Mode(d, s) \in Levels
        now == Asserted(Mode(d, s), high)
    IN  CASE level /\ ~MsiMode -> Put(pending[d], s, now)
          [] ~(level /\ ~MsiMode) /\ ~Rectified(d, s) /\ now ->
                pending[d] \cup {s}
          [] level /\ MsiMode /\ ~now -> pending[d] \ {s}
          [] OTHER -> pending[d]

(* SetIRQ(): for the domain the source is active in, if any; the wire is   *)
(* recorded in any case.                                                   *)
SetIRQ(s) ==
    /\ UNCHANGED <<sourcecfg, enable, target, ie, idc>>
    /\ \E high \in BOOLEAN :
        LET wired == {d \in Domains : Mode(d, s) \notin {"inactive", "detached"}}
        IN  /\ fLevel' = Put(fLevel, s, high)
            /\ \/ wired = {} /\ msis' = {} /\ UNCHANGED <<pending, external, uses>>
               \/ \E d \in wired :
                    Update([pending EXCEPT ![d] = Sampled(d, s, high)])

Next ==
    \/ \E s \in AplicSources : SetIRQ(s)
    \/ \E d \in Domains :
        \/ WriteDomaincfg(d) \/ WriteGenmsi(d)
        \/ \E s \in AplicSources :
            \/ WriteSourcecfg(d, s) \/ WriteTarget(d, s) \/ SetEnable(d, s)
            \/ SetPending(d, s) \/ ClearPending(d, s)
        \/ \E h \in AplicHarts : WriteIdc(d, h) \/ Claimi(d, h)

AplicSpec == Init /\ [][Next]_vars

(* With direct delivery a hart's line is up exactly when its domain has it *)
(* take an interrupt; with MSIs nothing that may be sent is left pending.  *)
LineIsClaim ==
    IF MsiMode
    THEN \A d \in Domains : ie[d] => pending[d] \cap enable[d] = {}
    ELSE external = Lines

(* A source is active in one domain at most, and where it is not active it *)
(* is neither pending nor enabled, however it was delegated back and forth *)
(* meanwhile; a level source that is delivered directly is pending exactly *)
(* while its wire is asserted.                                             *)
OneDomain ==
    \A s \in AplicSources :
        /\ ~(Active("M", s) /\ Active("S", s))
        /\ \A d \in Domains :
            /\ ~Active(d, s) => s \notin pending[d] \cup enable[d]
            /\ Mode(d, s) \in Levels /\ ~MsiMode =>
                (s \in pending[d] <=> Rectified(d, s))
            (* an MSI is sent again for the next edge, not for the level *)
            /\ Mode(d, s) \in Levels /\ MsiMode /\ s \in pending[d] =>
                Rectified(d, s)

-----------------------------------------------------------------------------
(* ---- the proof ---- *)

(* What the guest writes are modes there are. *)
ModesWritten ==
    \A u \in AplicUses : u.modes \subseteq SourceModes \cup {Delegated}

(* The inductive invariant.  What the child domain knew of a source goes   *)
(* when the source is taken back, or it would come to life again, out of   *)
(* step with its wire, with the next delegation.                           *)
Shape ==
    /\ sourcecfg \in [Domains -> [AplicSources -> SourceModes \cup {Delegated}]]
    /\ pending \in [Domains -> SUBSET AplicSources]
    /\ enable \in [Domains -> SUBSET AplicSources]
    /\ uses.modes \subseteq SourceModes \cup {Delegated}

Undelegated ==
    \A s \in AplicSources :
        sourcecfg["M"][s] # Delegated => sourcecfg["S"][s] = "inactive"

(* A domain has of a source what its mode and its wire make of it. *)
Settled(d, s) ==
    /\ ~Active(d, s) => s \notin pending[d] \cup enable[d]
    /\ Mode(d, s) \in Levels /\ ~MsiMode => (s \in pending[d] <=> Rectified(d, s))
    /\ Mode(d, s) \in Levels /\ MsiMode /\ s \in pending[d] => Rectified(d, s)

AplicIInv == Shape /\ Undelegated /\ OneDomain /\ LineIsClaim

(* What Update() leaves of a set of pending sources. *)
LEMMA Updated ==
    ASSUME NEW pend \in [Domains -> SUBSET AplicSources], Update(pend),
           enable' \in [Domains -> SUBSET AplicSources]
    PROVE  /\ uses' = uses
           /\ pending' \in [Domains -> SUBSET AplicSources]
           /\ \A d \in Domains :
                /\ pending'[d] \subseteq pend[d]
                /\ ~MsiMode => pending'[d] = pend[d]
           /\ LineIsClaim'
<1> DEFINE sent(d) == IF MsiMode /\ ie'[d] THEN pend[d] \cap enable'[d] ELSE {}
<1>1. uses' = uses /\ pending' = [d \in Domains |-> pend[d] \ sent(d)]
  BY DEF Update
<1>2. MsiMode' = MsiMode
  BY <1>1 DEF MsiMode
<1>3. CASE MsiMode
  <2>1. \A d \in Domains : ie'[d] => pending'[d] \cap enable'[d] = {}
    BY <1>1, <1>3
  <2> QED  BY <1>1, <1>2, <1>3, <2>1 DEF LineIsClaim
<1>4. CASE ~MsiMode
  <2>1. external' = Lines'
    BY <1>4 DEF Update
  <2>2. LineIsClaim'
    BY <1>2, <1>4, <2>1 DEF LineIsClaim
  <2> QED  BY <1>1, <1>4, <2>2
<1> QED  BY <1>3, <1>4

LEMMA SettledSources ==
    OneDomain <=> \A s \in AplicSources : \A d \in Domains : Settled(d, s)
<1>1. \A s : ~(Active("M", s) /\ Active("S", s))
  BY DEF Active, Mode, Visible
<1> QED  BY <1>1 DEF OneDomain, Settled

LEMMA SettledAfter ==
    ASSUME \A s \in AplicSources : \A d \in Domains : Settled(d, s)'
    PROVE  OneDomain'
<1>1. \A s : ~(Active("M", s)' /\ Active("S", s)')
  BY DEF Active, Mode, Visible
<1> QED  BY <1>1 DEF OneDomain, Settled

(* What a step leaves alone stays settled, with an MSI sent or not. *)
LEMMA StaysSettled ==
    ASSUME NEW d \in Domains, NEW s \in AplicSources, Settled(d, s),
           NEW pend \in [Domains -> SUBSET AplicSources],
           pending'[d] \subseteq pend[d], ~MsiMode => pending'[d] = pend[d],
           s \in pend[d] <=> s \in pending[d],
           s \in enable'[d] <=> s \in enable[d],
           Mode(d, s)' = Mode(d, s), Rectified(d, s)' = Rectified(d, s),
           MsiMode' = MsiMode
    PROVE  Settled(d, s)'
<1>1. Active(d, s)' = Active(d, s)
  BY DEF Active
<1>2. (~Active(d, s) => s \notin pending[d] \cup enable[d])'
  BY <1>1 DEF Settled
<1>3. (Mode(d, s) \in Levels /\ ~MsiMode
        => (s \in pending[d] <=> Rectified(d, s)))'
  BY DEF Settled
<1>4. (Mode(d, s) \in Levels /\ MsiMode /\ s \in pending[d]
        => Rectified(d, s))'
  BY DEF Settled
<1> QED  BY <1>2, <1>3, <1>4 DEF Settled

(* The modes stay as they are with the configuration, and so does what is  *)
(* read of a wire.                                                         *)
LEMMA SameModes ==
    ASSUME UNCHANGED sourcecfg
    PROVE  /\ \A d \in Domains, s \in AplicSources : Mode(d, s)' = Mode(d, s)
           /\ \A d \in Domains, s \in AplicSources : Active(d, s)' = Active(d, s)
           /\ Undelegated' = Undelegated
BY DEF Mode, Active, Visible, Undelegated

(* So do the lines, with what they are computed from. *)
LEMMA SameLines ==
    ASSUME LineIsClaim,
           UNCHANGED <<pending, enable, target, ie, idc, external, uses>>
    PROVE  LineIsClaim'
BY DEF LineIsClaim, Lines, Line, Candidates, MsiMode

(* A register of one source or hart leaves the configuration and the wires *)
(* alone: what matters is that a source comes to be pending or enabled     *)
(* only where it is active, and no level source against its wire.          *)
LEMMA RegisterStep ==
    ASSUME AplicIInv, NEW pend \in [Domains -> SUBSET AplicSources],
           UNCHANGED <<fLevel, sourcecfg>>, Update(pend),
           enable' \in [Domains -> SUBSET AplicSources],
           \A d \in Domains, s \in AplicSources :
             /\ s \in pend[d] /\ s \notin pending[d] =>
                  Active(d, s) /\ (Mode(d, s) \in Levels =>
                                    MsiMode /\ Rectified(d, s))
             /\ s \in pending[d] /\ s \notin pend[d] => Clearable(d, s)
             /\ s \in enable'[d] /\ s \notin enable[d] => Active(d, s)
    PROVE  AplicIInv'
<1> USE DEF AplicIInv
<1>1. /\ uses' = uses
      /\ pending' \in [Domains -> SUBSET AplicSources]
      /\ \A d \in Domains :
            /\ pending'[d] \subseteq pend[d]
            /\ ~MsiMode => pending'[d] = pend[d]
      /\ LineIsClaim'
  BY Updated
<1>2. Shape'
  BY <1>1 DEF Shape
<1>3. Undelegated'
  BY SameModes
<1>4. MsiMode' = MsiMode
  BY <1>1 DEF MsiMode
<1>5. \A d \in Domains, s \in AplicSources : Rectified(d, s)' = Rectified(d, s)
  BY SameModes DEF Rectified
<1>6. ASSUME NEW d \in Domains, NEW s \in AplicSources
      PROVE  Settled(d, s)'
  <2>1. Settled(d, s)
    BY SettledSources
  <2>2. Mode(d, s)' = Mode(d, s) /\ Active(d, s)' = Active(d, s)
    BY SameModes
  <2>3. ~Active(d, s)' => s \notin pending'[d] \cup enable'[d]
    BY <1>1, <2>1, <2>2 DEF Settled
  <2>4. Mode(d, s)' \in Levels /\ ~MsiMode' =>
          (s \in pending'[d] <=> Rectified(d, s)')
    BY <1>1, <1>4, <1>5, <2>1, <2>2 DEF Settled, Clearable
  <2>5. Mode(d, s)' \in Levels /\ MsiMode' /\ s \in pending'[d]
          => Rectified(d, s)'
    BY <1>1, <1>4, <1>5, <2>1, <2>2 DEF Settled
  <2> QED  BY <2>3, <2>4, <2>5 DEF Settled
<1>7. OneDomain'
  BY <1>6, SettledAfter
<1> QED  BY <1>1, <1>2, <1>3, <1>7
LEMMA WriteTargetStep ==
    ASSUME AplicIInv, NEW d \in Domains, NEW s \in AplicSources, WriteTarget(d, s)
    PROVE  AplicIInv'
<1>1. /\ UNCHANGED <<fLevel, sourcecfg, enable>> /\ Update(pending)
  BY DEF WriteTarget
<1>2. Shape
  BY DEF AplicIInv
<1> QED  BY <1>1, <1>2, RegisterStep DEF Shape

LEMMA SetPendingStep ==
    ASSUME AplicIInv, NEW d \in Domains, NEW s \in AplicSources, SetPending(d, s)
    PROVE  AplicIInv'
<1> DEFINE pend == [pending EXCEPT ![d] = @ \cup {s}]
<1>1. /\ Active(d, s) /\ (Mode(d, s) \in Levels => MsiMode /\ Rectified(d, s))
      /\ UNCHANGED <<fLevel, sourcecfg, enable>> /\ Update(pend)
  BY DEF SetPending
<1>2. Shape
  BY DEF AplicIInv
<1>3. /\ pend \in [Domains -> SUBSET AplicSources]
      /\ \A e \in Domains, t \in AplicSources :
            /\ t \in pend[e] /\ t \notin pending[e] => e = d /\ t = s
            /\ t \in pending[e] => t \in pend[e]
  BY <1>2 DEF Shape
<1> HIDE DEF pend
<1> QED  BY <1>1, <1>2, <1>3, RegisterStep DEF Shape

LEMMA ClearPendingStep ==
    ASSUME AplicIInv, NEW d \in Domains, NEW s \in AplicSources, ClearPending(d, s)
    PROVE  AplicIInv'
<1> DEFINE pend == [pending EXCEPT ![d] = @ \ {s}]
<1>1. /\ Clearable(d, s)
      /\ UNCHANGED <<fLevel, sourcecfg, enable>> /\ Update(pend)
  BY DEF ClearPending
<1>2. Shape
  BY DEF AplicIInv
<1>3. /\ pend \in [Domains -> SUBSET AplicSources]
      /\ \A e \in Domains, t \in AplicSources :
            /\ t \in pending[e] /\ t \notin pend[e] => e = d /\ t = s
            /\ t \in pend[e] => t \in pending[e]
  BY <1>2 DEF Shape
<1> HIDE DEF pend
<1> QED  BY <1>1, <1>2, <1>3, RegisterStep DEF Shape

LEMMA SetEnableStep ==
    ASSUME AplicIInv, NEW d \in Domains, NEW s \in AplicSources, SetEnable(d, s)
    PROVE  AplicIInv'
<1>1. /\ Active(d, s)
      /\ \E on \in BOOLEAN : enable' = [enable EXCEPT ![d] = Put(@, s, on)]
      /\ UNCHANGED <<fLevel, sourcecfg>> /\ Update(pending)
  BY Zenon DEF SetEnable
<1>2. Shape
  BY DEF AplicIInv
<1>3. /\ enable' \in [Domains -> SUBSET AplicSources]
      /\ \A e \in Domains, t \in AplicSources :
            t \in enable'[e] /\ t \notin enable[e] => e = d /\ t = s
  BY <1>1, <1>2 DEF Shape, Put
<1> QED  BY <1>1, <1>2, <1>3, RegisterStep DEF Shape

LEMMA DeliveryStep ==
    ASSUME AplicIInv, NEW d \in Domains,
           \/ WriteDomaincfg(d) \/ WriteGenmsi(d)
           \/ \E h \in AplicHarts : WriteIdc(d, h) \/ Claimi(d, h)
    PROVE  AplicIInv'
<1>1. Shape
  BY DEF AplicIInv
<1>2. CASE WriteDomaincfg(d)
  <2>1. UNCHANGED <<fLevel, sourcecfg, enable>> /\ Update(pending)
    BY <1>2 DEF WriteDomaincfg
  <2> QED  BY <1>1, <2>1, RegisterStep DEF Shape
<1>3. CASE WriteGenmsi(d)
  <2>1. UNCHANGED <<fLevel, sourcecfg, pending, enable, target, ie, idc,
                    external, uses>>
    BY <1>3 DEF WriteGenmsi, domains
  <2>2. OneDomain'
    BY <2>1 DEF AplicIInv, OneDomain, Active, Mode, Visible, Rectified, MsiMode
  <2>3. LineIsClaim'
    BY <2>1, SameLines DEF AplicIInv
  <2> QED  BY <2>1, <2>2, <2>3 DEF AplicIInv, Shape, Undelegated
<1>4. ASSUME NEW h \in AplicHarts, WriteIdc(d, h)
      PROVE  AplicIInv'
  <2>1. UNCHANGED <<fLevel, sourcecfg, enable>> /\ Update(pending)
    BY <1>4 DEF WriteIdc
  <2> QED  BY <1>1, <2>1, RegisterStep DEF Shape
<1>5. ASSUME NEW h \in AplicHarts, Claimi(d, h)
      PROVE  AplicIInv'
  <2> DEFINE top == Topi(d, h)
             pend == [pending EXCEPT ![d] = @ \ {top}]
  <2>1. /\ UNCHANGED <<fLevel, sourcecfg, enable>>
        /\ Update(pending) \/ (Clearable(d, top) /\ Update(pend))
    <3>1. CASE Candidates(d, h) = {}
      BY <1>5, <3>1 DEF Claimi
    <3>2. CASE Candidates(d, h) # {} /\ Clearable(d, top)
      <4>1. (IF Clearable(d, top) THEN pend ELSE pending) = pend
        BY <3>2
      <4> QED  BY <1>5, <3>2, <4>1 DEF Claimi
    <3>3. CASE Candidates(d, h) # {} /\ ~Clearable(d, top)
      <4>1. (IF Clearable(d, top) THEN pend ELSE pending) = pending
        BY <3>3
      <4> QED  BY <1>5, <3>3, <4>1 DEF Claimi
    <3> QED  BY <3>1, <3>2, <3>3
  <2>2. /\ pend \in [Domains -> SUBSET AplicSources]
        /\ \A e \in Domains, t \in AplicSources :
              /\ t \in pending[e] /\ t \notin pend[e] => e = d /\ t = top
              /\ t \in pend[e] => t \in pending[e]
    BY <1>1 DEF Shape
  <2> HIDE DEF top, pend
  <2> QED  BY <1>1, <2>1, <2>2, RegisterStep DEF Shape
<1> QED  BY <1>2, <1>3, <1>4, <1>5
(* A wire changes: only the domain the source is active in looks at it. *)
LEMMA WireStep ==
    ASSUME AplicIInv, NEW s \in AplicSources, NEW d \in Domains, Active(d, s),
           NEW pend \in [Domains -> SUBSET AplicSources], Update(pend),
           NEW high \in BOOLEAN, fLevel' = Put(fLevel, s, high),
           UNCHANGED <<sourcecfg, enable>>,
           \A e \in Domains, t \in AplicSources :
              e # d \/ t # s => (t \in pend[e] <=> t \in pending[e]),
           Mode(d, s) \in Levels /\ ~MsiMode =>
              (s \in pend[d] <=> Rectified(d, s)'),
           Mode(d, s) \in Levels /\ MsiMode /\ s \in pend[d] => Rectified(d, s)'
    PROVE  AplicIInv'
<1>1. Shape /\ Undelegated /\ OneDomain
  BY DEF AplicIInv
<1>2. \A e \in Domains, t \in AplicSources :
        t # s => Rectified(e, t)' = Rectified(e, t)
  BY SameModes DEF Rectified, Asserted, Put
<1>3. /\ Undelegated'
      /\ \A e \in Domains, t \in AplicSources :
            Mode(e, t)' = Mode(e, t) /\ Active(e, t)' = Active(e, t)
  BY <1>1, SameModes
<1>4. /\ uses' = uses
      /\ pending' \in [Domains -> SUBSET AplicSources]
      /\ \A e \in Domains :
            /\ pending'[e] \subseteq pend[e]
            /\ ~MsiMode => pending'[e] = pend[e]
      /\ LineIsClaim'
  BY <1>1, Updated DEF Shape
<1>5. MsiMode' = MsiMode
  BY <1>4 DEF MsiMode
<1>6. \A e \in Domains : e # d => ~Active(e, s)
  BY <1>1 DEF OneDomain, Domains
<1>7. ASSUME NEW t \in AplicSources, NEW e \in Domains
      PROVE  Settled(e, t)'
  <2>1. Settled(e, t)
    BY <1>1, SettledSources
  <2>2. CASE t # s
    BY <1>2, <1>3, <1>4, <1>5, <2>1, <2>2, StaysSettled
  <2>3. CASE t = s /\ e = d
    BY <1>3, <1>4, <1>5, <2>1, <2>3 DEF Settled
  <2>4. CASE t = s /\ e # d
    <3>1. Mode(e, s)' = "inactive"
      BY <1>3, <1>6, <2>4 DEF Active
    <3>2. s \notin pending[e] \cup enable[e]
      BY <1>6, <2>1, <2>4 DEF Settled
    <3> QED  BY <1>4, <2>4, <3>1, <3>2 DEF Settled, Levels
  <2> QED  BY <2>2, <2>3, <2>4
<1>8. Shape'
  BY <1>1, <1>4 DEF Shape
<1>9. OneDomain'
  BY <1>7, SettledAfter
<1> QED  BY <1>3, <1>4, <1>8, <1>9 DEF AplicIInv
LEMMA SetIRQStep ==
    ASSUME AplicIInv, NEW s \in AplicSources, SetIRQ(s)
    PROVE  AplicIInv'
<1> DEFINE wired == {d \in Domains : Mode(d, s) \notin {"inactive", "detached"}}
<1>1. Shape /\ Undelegated /\ OneDomain /\ LineIsClaim
  BY DEF AplicIInv
<1>2. UNCHANGED <<sourcecfg, enable, target, ie, idc>>
  BY DEF SetIRQ
<1>3. PICK high \in BOOLEAN :
        /\ fLevel' = Put(fLevel, s, high)
        /\ \/ wired = {} /\ UNCHANGED <<pending, external, uses>>
           \/ \E d \in wired : Update([pending EXCEPT ![d] = Sampled(d, s, high)])
  BY DEF SetIRQ
<1>4. CASE wired = {} /\ UNCHANGED <<pending, external, uses>>
  <2>1. \A d \in Domains : Mode(d, s) \notin Levels
    BY <1>4 DEF Levels
  <2>2. \A e \in Domains, t \in AplicSources :
          t # s => Rectified(e, t)' = Rectified(e, t)
    BY <1>2, <1>3, SameModes DEF Rectified, Asserted, Put
  <2>3. OneDomain'
    BY <1>1, <1>2, <1>4, <2>1, <2>2, SameModes DEF OneDomain, MsiMode, Domains
  <2>4. Shape'
    BY <1>1, <1>2, <1>4 DEF Shape
  <2>5. LineIsClaim'
    BY <1>1, <1>2, <1>4, SameLines
  <2> QED  BY <1>1, <1>2, <2>3, <2>4, <2>5, SameModes DEF AplicIInv
<1>5. ASSUME NEW d \in wired, Update([pending EXCEPT ![d] = Sampled(d, s, high)])
      PROVE  AplicIInv'
  <2> DEFINE set == Sampled(d, s, high)
             pend == [pending EXCEPT ![d] = set]
  <2>1. Rectified(d, s)' = Asserted(Mode(d, s), high)
    BY <1>2, <1>3, SameModes DEF Rectified, Asserted, Put
  <2>2. /\ set \subseteq AplicSources
        /\ \A t \in AplicSources : t # s => (t \in set <=> t \in pending[d])
        /\ Mode(d, s) \in Levels /\ ~MsiMode => (s \in set <=> Rectified(d, s)')
        /\ Mode(d, s) \in Levels /\ MsiMode /\ s \in set => Rectified(d, s)'
    <3>1. pending[d] \subseteq AplicSources
      BY <1>1 DEF Shape
    <3> QED  BY <2>1, <3>1 DEF Sampled, Put
  <2> HIDE DEF set
  <2>3. /\ pend \in [Domains -> SUBSET AplicSources] /\ pend[d] = set
        /\ \A e \in Domains : e # d => pend[e] = pending[e]
    BY <1>1, <2>2 DEF Shape
  <2>4. Active(d, s)
    BY DEF Active
  <2>5. Update(pend)
    BY <1>5 DEF set
  <2> HIDE DEF pend
  <2> QED  BY <1>2, <1>3, <2>2, <2>3, <2>4, <2>5, WireStep
<1> QED  BY <1>3, <1>4, <1>5, Zenon

(* A source is given a mode, delegated or taken back: what changes is what *)
(* the two domains have of this source.                                    *)
Configured(d, s, cfg, pend) ==
    /\ UNCHANGED fLevel
    /\ sourcecfg' \in [Domains -> [AplicSources -> SourceModes \cup {Delegated}]]
    /\ enable' \in [Domains -> SUBSET AplicSources]
    /\ \A e \in Domains, t \in AplicSources : t # s =>
         /\ sourcecfg'[e][t] = sourcecfg[e][t]
         /\ t \in pend[e] <=> t \in pending[e]
         /\ t \in enable'[e] <=> t \in enable[e]
    /\ sourcecfg'[d][s] = cfg
    /\ cfg \in {"inactive", Delegated} => s \notin pend[d] \cup enable'[d]
    /\ Mode(d, s)' \in Levels => (s \in pend[d] <=> Rectified(d, s)')
    /\ \A e \in Domains : e # d =>
         IF d = "M" /\ cfg # Delegated
         THEN sourcecfg'[e][s] = "inactive" /\ s \notin pend[e] \cup enable'[e]
         ELSE /\ sourcecfg'[e][s] = sourcecfg[e][s]
              /\ s \in pend[e] <=> s \in pending[e]
              /\ s \in enable'[e] <=> s \in enable[e]

LEMMA ConfigStep ==
    ASSUME AplicIInv, NEW d \in Domains, NEW s \in AplicSources, Visible(d, s),
           NEW cfg \in SourceModes \cup {Delegated}, d = "S" => cfg # Delegated,
           NEW pend \in [Domains -> SUBSET AplicSources], Update(pend),
           Configured(d, s, cfg, pend)
    PROVE  AplicIInv'
<1>1. Shape /\ Undelegated /\ OneDomain
  BY DEF AplicIInv
<1>2. /\ uses' = uses
      /\ pending' \in [Domains -> SUBSET AplicSources]
      /\ \A e \in Domains :
            /\ pending'[e] \subseteq pend[e]
            /\ ~MsiMode => pending'[e] = pend[e]
      /\ LineIsClaim'
  BY <1>1, Updated DEF Shape, Configured
<1>3. Shape'
  BY <1>1, <1>2 DEF Shape, Configured
<1>4. Undelegated'
  BY <1>1 DEF Undelegated, Domains, Visible, Shape, Configured
<1>5. MsiMode' = MsiMode
  BY <1>2 DEF MsiMode
<1>6. \A e \in Domains, t \in AplicSources : t # s =>
        Mode(e, t)' = Mode(e, t) /\ Rectified(e, t)' = Rectified(e, t)
  BY DEF Mode, Visible, Rectified, Domains, Configured
<1>7. \A e \in Domains, t \in AplicSources : Settled(e, t)
  BY <1>1, SettledSources
<1>8. ASSUME NEW t \in AplicSources, t # s, NEW e \in Domains
      PROVE  Settled(e, t)'
  BY <1>2, <1>5, <1>6, <1>7, <1>8, StaysSettled DEF Configured
<1>9. Settled(d, s)'
  <2>1. ~Active(d, s)' => cfg \in {"inactive", Delegated}
    BY DEF Active, Mode, Visible, Domains, Configured
  <2> QED  BY <1>2, <1>5, <2>1 DEF Settled, Configured
<1>10. ASSUME NEW e \in Domains, e # d
       PROVE  Settled(e, s)'
  <2>1. CASE d = "M" /\ cfg # Delegated
    <3>1. Mode(e, s)' = "inactive"
      BY <1>10, <2>1 DEF Mode, Configured
    <3>2. s \notin pend[e] \cup enable'[e]
      BY <1>10, <2>1 DEF Configured
    <3> QED  BY <1>2, <3>1, <3>2 DEF Levels, Settled
  <2>2. CASE ~(d = "M" /\ cfg # Delegated)
    <3>1. Mode(e, s)' = Mode(e, s)
      BY <1>1, <1>10, <2>2
         DEF Mode, Visible, Domains, Undelegated, Configured
    <3>2. Rectified(e, s)' = Rectified(e, s)
      BY <3>1 DEF Rectified, Configured
    <3>3. /\ s \in pend[e] <=> s \in pending[e]
          /\ s \in enable'[e] <=> s \in enable[e]
      BY <1>10, <2>2 DEF Configured
    <3> QED  BY <1>2, <1>5, <1>7, <3>1, <3>2, <3>3, StaysSettled
  <2> QED  BY <2>1, <2>2
<1>11. \A t \in AplicSources : \A e \in Domains : Settled(e, t)'
  BY <1>8, <1>9, <1>10
<1>12. OneDomain'
  BY <1>11, SettledAfter
<1> QED  BY <1>2, <1>3, <1>4, <1>12 DEF AplicIInv

LEMMA WriteSourcecfgStep ==
    ASSUME AplicIInv, NEW d \in Domains, NEW s \in AplicSources,
           WriteSourcecfg(d, s)
    PROVE  AplicIInv'
<1>1. Shape
  BY DEF AplicIInv
<1>2. PICK val \in uses.modes :
        LET cfg == IF val = Delegated /\ d = "S" THEN "inactive" ELSE val
            child == IF d = "M" /\ cfg # Delegated THEN {"S"} ELSE {}
            off == child \cup (IF cfg \in {"inactive", Delegated} THEN {d}
                               ELSE {})
            kept == Cleared(pending, off, s)
        IN  /\ sourcecfg' = [e \in Domains |-> [sourcecfg[e] EXCEPT ![s] =
                    CASE e = d -> cfg
                      [] e \in child -> "inactive"
                      [] OTHER -> @]]
            /\ enable' = Cleared(enable, off, s)
            /\ fLevel' = fLevel
            /\ Update(IF cfg \in Levels
                      THEN [kept EXCEPT ![d] =
                                Put(@, s, Asserted(cfg, s \in fLevel))]
                      ELSE kept)
  BY Zenon DEF WriteSourcecfg
<1> DEFINE cfg == IF val = Delegated /\ d = "S" THEN "inactive" ELSE val
           child == IF d = "M" /\ cfg # Delegated THEN {"S"} ELSE {}
           off == child \cup (IF cfg \in {"inactive", Delegated} THEN {d} ELSE {})
           kept == Cleared(pending, off, s)
           pend == IF cfg \in Levels
                   THEN [kept EXCEPT ![d] = Put(@, s, Asserted(cfg, s \in fLevel))]
                   ELSE kept
<1>3. Update(pend)
  BY <1>2
<1>4. cfg \in SourceModes \cup {Delegated} /\ (d = "S" => cfg # Delegated)
  BY <1>1 DEF Shape, SourceModes, Delegated
<1>5. /\ off \subseteq Domains
      /\ d = "M" /\ cfg # Delegated => "S" \in off
      /\ ~(d = "M" /\ cfg # Delegated) => off \subseteq {d}
      /\ d \in off <=> cfg \in {"inactive", Delegated}
  BY DEF Domains
<1>6. /\ enable' \in [Domains -> SUBSET AplicSources]
      /\ kept \in [Domains -> SUBSET AplicSources]
      /\ \A e \in Domains, t \in AplicSources :
            /\ t \in enable'[e] <=> t \in enable[e] /\ ~(e \in off /\ t = s)
            /\ t \in kept[e] <=> t \in pending[e] /\ ~(e \in off /\ t = s)
  BY <1>1, <1>2 DEF Shape, Cleared
<1>7. /\ sourcecfg' \in [Domains -> [AplicSources -> SourceModes \cup {Delegated}]]
      /\ sourcecfg'[d][s] = cfg
      /\ \A e \in Domains, t \in AplicSources :
            t # s => sourcecfg'[e][t] = sourcecfg[e][t]
      /\ \A e \in Domains : e # d => sourcecfg'[e][s] =
            IF d = "M" /\ cfg # Delegated THEN "inactive" ELSE sourcecfg[e][s]
  <2>1. sourcecfg' = [e \in Domains |-> [sourcecfg[e] EXCEPT ![s] =
            CASE e = d -> cfg [] e \in child -> "inactive" [] OTHER -> @]]
    BY <1>2
  <2>2. \A e \in Domains : e # d =>
          (e \in child <=> d = "M" /\ cfg # Delegated)
    BY DEF Domains
  <2>3. d \notin child
    OBVIOUS
  <2>4. "inactive" \in SourceModes
    BY DEF SourceModes
  <2> HIDE DEF cfg, child
  <2>5. ASSUME NEW e \in Domains
        PROVE  /\ sourcecfg'[e] \in [AplicSources -> SourceModes \cup {Delegated}]
               /\ \A t \in AplicSources :
                    t # s => sourcecfg'[e][t] = sourcecfg[e][t]
               /\ e = d => sourcecfg'[e][s] = cfg
               /\ e # d => sourcecfg'[e][s] =
                    IF d = "M" /\ cfg # Delegated THEN "inactive"
                    ELSE sourcecfg[e][s]
    <3>1. sourcecfg[e] \in [AplicSources -> SourceModes \cup {Delegated}]
      BY <1>1 DEF Shape
    <3>2. CASE e = d
      <4>1. sourcecfg'[e] = [sourcecfg[e] EXCEPT ![s] = cfg]
        BY <2>1, <2>3, <3>2
      <4> QED  BY <1>4, <3>1, <3>2, <4>1
    <3>3. CASE e # d /\ e \in child
      <4>1. sourcecfg'[e] = [sourcecfg[e] EXCEPT ![s] = "inactive"]
        BY <2>1, <3>3
      <4> QED  BY <2>2, <2>4, <3>1, <3>3, <4>1
    <3>4. CASE e # d /\ e \notin child
      <4>1. sourcecfg'[e] = [sourcecfg[e] EXCEPT ![s] = sourcecfg[e][s]]
        BY <2>1, <3>4
      <4> QED  BY <2>2, <3>1, <3>4, <4>1
    <3> QED  BY <3>2, <3>3, <3>4
  <2> QED  BY <2>1, <2>5
<1>8. UNCHANGED fLevel
  BY <1>2
<1>9. Visible(d, s)
  BY DEF WriteSourcecfg
<1>10. /\ Mode(d, s)' \in Levels <=> cfg \in Levels
       /\ cfg \in Levels => cfg \notin {"inactive", Delegated}
       /\ cfg \in Levels => Rectified(d, s)' = Asserted(cfg, s \in fLevel)
  BY <1>4, <1>7, <1>8, <1>9 DEF Mode, Levels, Rectified, Delegated, Visible, Domains
<1> HIDE DEF cfg, off, kept, pend
<1>11. /\ pend \in [Domains -> SUBSET AplicSources]
       /\ \A e \in Domains, t \in AplicSources :
             e # d \/ t # s => (t \in pend[e] <=> t \in kept[e])
       /\ Mode(d, s)' \in Levels => (s \in pend[d] <=> Rectified(d, s)')
       /\ Mode(d, s)' \notin Levels => pend[d] = kept[d]
  BY <1>6, <1>10 DEF Put, pend
<1>12. \A e \in Domains, t \in AplicSources : t # s =>
         /\ sourcecfg'[e][t] = sourcecfg[e][t]
         /\ t \in pend[e] <=> t \in pending[e]
         /\ t \in enable'[e] <=> t \in enable[e]
  BY <1>6, <1>7, <1>11
<1>13. cfg \in {"inactive", Delegated} => s \notin pend[d] \cup enable'[d]
  BY <1>5, <1>6, <1>10, <1>11
<1>14. ASSUME NEW e \in Domains, e # d
       PROVE  IF d = "M" /\ cfg # Delegated
              THEN sourcecfg'[e][s] = "inactive" /\ s \notin pend[e] \cup enable'[e]
              ELSE /\ sourcecfg'[e][s] = sourcecfg[e][s]
                   /\ s \in pend[e] <=> s \in pending[e]
                   /\ s \in enable'[e] <=> s \in enable[e]
  <2>1. CASE d = "M" /\ cfg # Delegated
    <3>1. e \in off
      BY <1>5, <1>14, <2>1 DEF Domains
    <3> QED  BY <1>6, <1>7, <1>11, <1>14, <2>1, <3>1
  <2>2. CASE ~(d = "M" /\ cfg # Delegated)
    <3>1. e \notin off
      BY <1>5, <1>14, <2>2
    <3> QED  BY <1>6, <1>7, <1>11, <1>14, <2>2, <3>1
  <2> QED  BY <2>1, <2>2
<1>15. Configured(d, s, cfg, pend)
  BY <1>6, <1>7, <1>8, <1>11, <1>12, <1>13, <1>14 DEF Configured
<1> QED  BY <1>3, <1>4, <1>9, <1>11, <1>15, ConfigStep
LEMMA AplicInitially == ASSUME ModesWritten, Init PROVE AplicIInv
<1>1. Shape
  BY DEF Init, Shape, ModesWritten, SourceModes
<1>2. Undelegated
  BY DEF Init, Undelegated, Domains
<1>3. \A d \in Domains, s \in AplicSources : Mode(d, s) = "inactive"
  BY DEF Init, Mode
<1>4. OneDomain
  BY <1>3 DEF Init, OneDomain, Active, Levels, Domains
<1>5. LineIsClaim
  <2>1. \A d \in Domains : ~ie[d]
    BY DEF Init
  <2>2. Lines = {}
    BY <2>1 DEF Lines, Line
  <2> QED  BY <2>1, <2>2 DEF Init, LineIsClaim
<1> QED  BY <1>1, <1>2, <1>4, <1>5 DEF AplicIInv

(* The inductive invariant holds of every state. *)
THEOREM AplicInductive == ASSUME ModesWritten PROVE AplicSpec => []AplicIInv
<1>1. Init => AplicIInv
  BY AplicInitially
<1>2. AplicIInv /\ [Next]_vars => AplicIInv'
  <2> SUFFICES ASSUME AplicIInv, [Next]_vars PROVE AplicIInv'
    OBVIOUS
  <2>1. CASE UNCHANGED vars
    <3>1. OneDomain'
      BY <2>1 DEF vars, AplicIInv, OneDomain, Active, Mode, Visible, Rectified,
         MsiMode
    <3>2. LineIsClaim'
      BY <2>1, SameLines DEF vars, AplicIInv
    <3> QED  BY <2>1, <3>1, <3>2 DEF vars, AplicIInv, Shape, Undelegated
  <2>2. CASE \E s \in AplicSources : SetIRQ(s)
    BY <2>2, SetIRQStep
  <2>3. ASSUME NEW d \in Domains, NEW s \in AplicSources,
               \/ WriteSourcecfg(d, s) \/ WriteTarget(d, s) \/ SetEnable(d, s)
               \/ SetPending(d, s) \/ ClearPending(d, s)
        PROVE  AplicIInv'
    BY <2>3, WriteSourcecfgStep, WriteTargetStep, SetEnableStep, SetPendingStep,
       ClearPendingStep
  <2>4. ASSUME NEW d \in Domains,
               \/ WriteDomaincfg(d) \/ WriteGenmsi(d)
               \/ \E h \in AplicHarts : WriteIdc(d, h) \/ Claimi(d, h)
        PROVE  AplicIInv'
    BY <2>4, DeliveryStep
  <2> QED  BY <2>1, <2>2, <2>3, <2>4 DEF Next
<1> QED  BY <1>1, <1>2, PTL DEF AplicSpec

(* WriteSourcecfg(), SetIRQ(): a source is active in one domain at most,   *)
(* leaves nothing in the other and follows its wire, for any sources and   *)
(* harts.                                                                  *)
THEOREM OneDomainCorrect == ASSUME ModesWritten PROVE AplicSpec => []OneDomain
<1>1. AplicIInv => OneDomain
  BY DEF AplicIInv
<1> QED  BY <1>1, AplicInductive, PTL

(* Update(): the lines of the harts are up exactly for what they could     *)
(* claim, or every MSI that may be sent has been.                          *)
THEOREM LinesCorrect == ASSUME ModesWritten PROVE AplicSpec => []LineIsClaim
<1>1. AplicIInv => LineIsClaim
  BY DEF AplicIInv
<1> QED  BY <1>1, AplicInductive, PTL
=============================================================================
