---------------------------- MODULE ProcessorProofs ---------------------------
(***************************************************************************)
(* What the processors' threads share with the others, for any number of   *)
(* processors, pages and priorities: no write to the screen goes           *)
(* unrecorded (DirtyPages), and no kick is lost (HostVcpu).                *)
(***************************************************************************)
EXTENDS DirtyPages, HostVcpu, TLAPS

-----------------------------------------------------------------------------
(* ---- dirty pages ---- *)

(* FoundAreMarked is inductive by itself.  That a page which is not drawn  *)
(* as it is will be drawn needs more: an entry left between the switch of  *)
(* the bitmaps and its flush is one whose page the old bitmap has, which   *)
(* is drawn (EntriesKept), and so is the page of a write that has not been *)
(* overtaken by either (WritesMarked).                                     *)

(* The old bitmap has the page, and what is in the TLB of c is still to be *)
(* flushed.                                                                *)
StillToFlush(c, p) ==
    /\ refresh.at = "scan" \/ (refresh.at = "flush" /\ c \in refresh.left)
    /\ p \in dirty_bits_tab[1 - dirty_bits]

EntriesFound == \A c \in TlbCpus : tlb[c] \subseteq found[c]

EntriesKept ==
    \A c \in TlbCpus : \A p \in tlb[c] :
        \/ IsDirtyBit(p) \/ StillToFlush(c, p)
        \/ cpu[c].at = "recheck" /\ cpu[c].page = p

WritesMarked ==
    \A c \in TlbCpus : cpu[c].write /\ ~cpu[c].crossed =>
        /\ cpu[c].at = "mark" => cpu[c].bits = dirty_bits
        /\ cpu[c].at \in {"fill", "recheck"} => IsDirtyBit(cpu[c].page)
        /\ cpu[c].at = "store" => \/ IsDirtyBit(cpu[c].page)
                                  \/ StillToFlush(c, cpu[c].page)

(* Only writes fill entries. *)
WritesBegun ==
    \A c \in TlbCpus : /\ cpu[c].at # "test"
                       /\ cpu[c].at # "run" => cpu[c].write

OnlyDrawn == refresh.at # "draw" => refresh.pages = {}

Riscv == /\ EntriesFound /\ EntriesKept /\ WritesMarked /\ WritesBegun
         /\ UndrawnIsMarked

(* The inductive invariant. *)
DirtyIInv ==
    /\ DirtyTypeOK /\ FoundAreMarked /\ OnlyDrawn
    /\ fill = "riscv" => Riscv

LEMMA IdleType ==
    Idle \in CpuState /\ Idle.at = "run" /\ ~Idle.write
<1> DEFINE any == CHOOSE q \in VideoPages : TRUE
<1>1. any \in VideoPages
  BY DirtyAssumption, Zenon
<1>2. Idle = [at |-> "run", page |-> any, bits |-> 0, write |-> FALSE,
              crossed |-> FALSE]
  BY Zenon DEF Idle
<1> HIDE DEF any
<1>3. Idle \in CpuState
  BY <1>1, <1>2 DEF CpuState
<1>4. Idle.at = "run" /\ ~Idle.write
  BY <1>2
<1> QED
  BY <1>3, <1>4

(* What a step of a processor leaves in its state. *)
LEMMA StateTypes ==
    ASSUME NEW s \in CpuState,
           NEW to \in {"run", "mark", "fill", "test", "recheck", "store"},
           NEW b \in BOOLEAN
    PROVE  /\ [s EXCEPT !.at = to] \in CpuState
           /\ [s EXCEPT !.crossed = b] \in CpuState
BY DEF CpuState

LEMMA InitDirty == DirtyInit => DirtyIInv
<1> SUFFICES ASSUME DirtyInit PROVE DirtyIInv
  OBVIOUS
<1>1. DirtyTypeOK
  <2>1. cpu \in [TlbCpus -> CpuState]
    BY IdleType, Zenon DEF DirtyInit
  <2> QED
    BY <2>1 DEF DirtyInit, DirtyTypeOK
<1>2. FoundAreMarked /\ OnlyDrawn /\ EntriesFound /\ EntriesKept
  BY DEF DirtyInit, FoundAreMarked, OnlyDrawn, EntriesFound, EntriesKept
<1>3. WritesMarked /\ WritesBegun /\ UndrawnIsMarked
  <2>1. \A c \in TlbCpus : cpu[c].at = "run" /\ ~cpu[c].write
    BY IdleType, Zenon DEF DirtyInit
  <2> QED
    BY <2>1 DEF DirtyInit, WritesMarked, WritesBegun, UndrawnIsMarked
<1> QED
  BY <1>1, <1>2, <1>3 DEF DirtyIInv, Riscv

LEMMA WriteKeeps ==
    ASSUME DirtyIInv, NEW c \in TlbCpus, Write(c) PROVE DirtyIInv'
<1>1. DirtyTypeOK'
  <2>1. cpu' \in [TlbCpus -> CpuState]
    <3>1. PICK q \in VideoPages :
            cpu' = [cpu EXCEPT ![c] =
                        [at |-> IF q \in tlb[c] THEN "store" ELSE "mark",
                         page |-> q, bits |-> dirty_bits, write |-> TRUE,
                         crossed |-> FALSE]]
      BY Zenon DEF Write
    <3>2. [at |-> IF q \in tlb[c] THEN "store" ELSE "mark", page |-> q,
           bits |-> dirty_bits, write |-> TRUE, crossed |-> FALSE]
            \in CpuState
      BY DEF DirtyIInv, DirtyTypeOK, CpuState
    <3> QED
      BY <3>1, <3>2 DEF DirtyIInv, DirtyTypeOK
  <2> QED
    BY <2>1 DEF DirtyIInv, DirtyTypeOK, Write
<1>2. FoundAreMarked' /\ OnlyDrawn'
  BY DEF DirtyIInv, DirtyTypeOK, CpuState, Write, FoundAreMarked, OnlyDrawn, Marked,
     IsDirtyBit
<1>3. ASSUME fill = "riscv" PROVE Riscv'
  BY <1>3
     DEF DirtyIInv, DirtyTypeOK, CpuState, Write, Riscv, EntriesFound, EntriesKept,
         WritesMarked, WritesBegun, UndrawnIsMarked, IsDirtyBit, StillToFlush
<1> QED
  BY <1>1, <1>2, <1>3 DEF DirtyIInv, Write

LEMMA ReadKeeps ==
    ASSUME DirtyIInv, NEW c \in TlbCpus, Read(c) PROVE DirtyIInv'
<1>1. DirtyTypeOK'
  <2>1. cpu' \in [TlbCpus -> CpuState]
    BY DEF DirtyIInv, DirtyTypeOK, CpuState, Read
  <2> QED
    BY <2>1 DEF DirtyIInv, DirtyTypeOK, Read
<1>2. FoundAreMarked' /\ OnlyDrawn'
  BY DEF DirtyIInv, DirtyTypeOK, CpuState, Read, FoundAreMarked, OnlyDrawn, Marked,
     IsDirtyBit
<1>3. ASSUME fill = "riscv" PROVE Riscv'
  BY <1>3
     DEF DirtyIInv, DirtyTypeOK, CpuState, Read, Riscv, EntriesFound, EntriesKept,
         WritesMarked, WritesBegun, UndrawnIsMarked, IsDirtyBit, StillToFlush
<1> QED
  BY <1>1, <1>2, <1>3 DEF DirtyIInv, Read

LEMMA SetDirtyBitKeeps ==
    ASSUME DirtyIInv, NEW c \in TlbCpus, SetDirtyBit(c) PROVE DirtyIInv'
<1>1. DirtyTypeOK'
  <2>1. cpu[c] \in CpuState /\ cpu[c].page \in VideoPages
    BY DEF DirtyIInv, DirtyTypeOK, CpuState
  <2>2. cpu' \in [TlbCpus -> CpuState]
    BY <2>1, StateTypes DEF DirtyIInv, DirtyTypeOK, SetDirtyBit, Goes
  <2> QED
    BY <2>1, <2>2 DEF DirtyIInv, DirtyTypeOK, CpuState, SetDirtyBit, Goes
<1>2. FoundAreMarked' /\ OnlyDrawn'
  BY DEF DirtyIInv, DirtyTypeOK, CpuState, SetDirtyBit, Goes, FoundAreMarked,
     OnlyDrawn, Marked, IsDirtyBit
<1>3. ASSUME fill = "riscv" PROVE Riscv'
  BY <1>3
     DEF DirtyIInv, DirtyTypeOK, CpuState, SetDirtyBit, Goes, Riscv, EntriesFound,
         EntriesKept, WritesMarked, WritesBegun, UndrawnIsMarked, IsDirtyBit,
         StillToFlush
<1> QED
  BY <1>1, <1>2, <1>3 DEF DirtyIInv, SetDirtyBit

LEMMA FillKeeps ==
    ASSUME DirtyIInv, NEW c \in TlbCpus, Fill(c) PROVE DirtyIInv'
<1>1. DirtyTypeOK'
  <2>1. cpu[c] \in CpuState /\ cpu[c].page \in VideoPages
    BY DEF DirtyIInv, DirtyTypeOK, CpuState
  <2>2. cpu' \in [TlbCpus -> CpuState]
    BY <2>1, StateTypes DEF DirtyIInv, DirtyTypeOK, Fill, Goes
  <2> QED
    BY <2>1, <2>2 DEF DirtyIInv, DirtyTypeOK, CpuState, Fill, Goes
<1>2. FoundAreMarked' /\ OnlyDrawn'
  BY DEF DirtyIInv, DirtyTypeOK, CpuState, Fill, Goes, After, FoundAreMarked,
     OnlyDrawn, Marked, IsDirtyBit
<1>3. ASSUME fill = "riscv" PROVE Riscv'
  <2>1. EntriesFound'
    BY <1>3 DEF DirtyIInv, DirtyTypeOK, CpuState, Riscv, EntriesFound, Fill, Goes
  <2>2. EntriesKept'
    BY <1>3
       DEF DirtyIInv, DirtyTypeOK, CpuState, Riscv, EntriesKept, Fill, Goes,
           StillToFlush, IsDirtyBit
  <2>3. WritesMarked' /\ WritesBegun'
    BY <1>3
       DEF DirtyIInv, DirtyTypeOK, CpuState, Riscv, WritesMarked, WritesBegun, Fill,
           Goes, StillToFlush, IsDirtyBit
  <2>4. UndrawnIsMarked'
    BY <1>3
       DEF DirtyIInv, DirtyTypeOK, CpuState, Riscv, UndrawnIsMarked, Fill, Goes,
           OnlyDrawn, IsDirtyBit
  <2> QED
    BY <2>1, <2>2, <2>3, <2>4 DEF Riscv
<1> QED
  BY <1>1, <1>2, <1>3 DEF DirtyIInv, Fill

LEMMA FillWriteKeeps ==
    ASSUME DirtyIInv, NEW c \in TlbCpus, FillWrite(c) PROVE DirtyIInv'
<1>1. DirtyTypeOK'
  <2>1. cpu[c] \in CpuState /\ cpu[c].page \in VideoPages
    BY DEF DirtyIInv, DirtyTypeOK, CpuState
  <2>2. cpu' \in [TlbCpus -> CpuState]
    BY <2>1, StateTypes DEF DirtyIInv, DirtyTypeOK, FillWrite, Goes, After
  <2>3. tlb' \in [TlbCpus -> SUBSET VideoPages]
    BY <2>1 DEF DirtyIInv, DirtyTypeOK, FillWrite
  <2> QED
    BY <2>2, <2>3 DEF DirtyIInv, DirtyTypeOK, FillWrite
<1>2. FoundAreMarked' /\ OnlyDrawn'
  BY DEF DirtyIInv, DirtyTypeOK, CpuState, FillWrite, Goes, After, FoundAreMarked,
     OnlyDrawn, Marked, IsDirtyBit
<1>3. ASSUME fill = "riscv" PROVE Riscv'
  BY <1>3
     DEF DirtyIInv, DirtyTypeOK, CpuState, FillWrite, Goes, After, Riscv,
         EntriesFound, EntriesKept, WritesMarked, WritesBegun, UndrawnIsMarked,
         IsDirtyBit, StillToFlush
<1> QED
  BY <1>1, <1>2, <1>3 DEF DirtyIInv, FillWrite

LEMMA RecheckKeeps ==
    ASSUME DirtyIInv, NEW c \in TlbCpus, Recheck(c) PROVE DirtyIInv'
<1>1. DirtyTypeOK'
  <2>1. cpu[c] \in CpuState /\ cpu[c].page \in VideoPages
    BY DEF DirtyIInv, DirtyTypeOK, CpuState
  <2>2. cpu' \in [TlbCpus -> CpuState]
    BY <2>1, StateTypes DEF DirtyIInv, DirtyTypeOK, Recheck, Goes, After
  <2> QED
    BY <2>1, <2>2 DEF DirtyIInv, DirtyTypeOK, CpuState, Recheck, Goes, After
<1>2. FoundAreMarked' /\ OnlyDrawn'
  BY DEF DirtyIInv, DirtyTypeOK, CpuState, Recheck, Goes, After, FoundAreMarked,
     OnlyDrawn, Marked, IsDirtyBit
<1>3. ASSUME fill = "riscv" PROVE Riscv'
  BY <1>3
     DEF DirtyIInv, DirtyTypeOK, CpuState, Recheck, Goes, After, Riscv,
         EntriesFound, EntriesKept, WritesMarked, WritesBegun, UndrawnIsMarked,
         IsDirtyBit, StillToFlush
<1> QED
  BY <1>1, <1>2, <1>3 DEF DirtyIInv, Recheck

LEMMA StoreKeeps ==
    ASSUME DirtyIInv, NEW c \in TlbCpus, Store(c) PROVE DirtyIInv'
<1>1. DirtyTypeOK'
  <2>1. cpu' \in [TlbCpus -> CpuState]
    BY IdleType DEF DirtyIInv, DirtyTypeOK, Store
  <2>2. drawn' \subseteq VideoPages /\ raced' \subseteq VideoPages
    BY DEF DirtyIInv, DirtyTypeOK, CpuState, Store
  <2> QED
    BY <2>1, <2>2 DEF DirtyIInv, DirtyTypeOK, Store
<1>2. /\ cpu'[c].at = "run" /\ ~cpu'[c].write
      /\ \A d \in TlbCpus \ {c} : cpu'[d] = cpu[d]
  BY IdleType DEF DirtyIInv, DirtyTypeOK, Store
<1>3. FoundAreMarked' /\ OnlyDrawn'
  BY <1>2
     DEF DirtyIInv, DirtyTypeOK, Store, FoundAreMarked, OnlyDrawn, Marked,
         IsDirtyBit
<1>4. ASSUME fill = "riscv" PROVE Riscv'
  <2>1. EntriesFound' /\ WritesBegun'
    BY <1>2, <1>4 DEF DirtyIInv, Riscv, EntriesFound, WritesBegun, Store
  <2>2. EntriesKept'
    BY <1>2, <1>4 DEF DirtyIInv, Riscv, EntriesKept, Store, StillToFlush, IsDirtyBit
  <2>3. WritesMarked'
    BY <1>2, <1>4
       DEF DirtyIInv, Riscv, WritesMarked, Store, StillToFlush, IsDirtyBit
  <2>4. cpu[c].write
    BY <1>4 DEF DirtyIInv, Riscv, WritesBegun, Store
  <2>5. UndrawnIsMarked'
    BY <2>4, <1>4
       DEF DirtyIInv, Riscv, WritesMarked, UndrawnIsMarked, Store, StillToFlush,
           IsDirtyBit
  <2> QED
    BY <2>1, <2>2, <2>3, <2>5 DEF Riscv
<1> QED
  BY <1>1, <1>3, <1>4 DEF DirtyIInv, Store

LEMMA EvictKeeps ==
    ASSUME DirtyIInv, NEW c \in TlbCpus, Evict(c) PROVE DirtyIInv'
<1>1. DirtyTypeOK'
  BY DEF DirtyIInv, DirtyTypeOK, Evict
<1>2. FoundAreMarked' /\ OnlyDrawn'
  BY DEF DirtyIInv, DirtyTypeOK, CpuState, Evict, FoundAreMarked, OnlyDrawn, Marked,
     IsDirtyBit
<1>3. ASSUME fill = "riscv" PROVE Riscv'
  BY <1>3
     DEF DirtyIInv, DirtyTypeOK, CpuState, Evict, Riscv, EntriesFound, EntriesKept,
         WritesMarked, WritesBegun, UndrawnIsMarked, IsDirtyBit, StillToFlush
<1> QED
  BY <1>1, <1>2, <1>3 DEF DirtyIInv, Evict

LEMMA DeviceWriteKeeps ==
    ASSUME DirtyIInv, DeviceWrite PROVE DirtyIInv'
<1>1. DirtyTypeOK'
  BY DEF DirtyIInv, DirtyTypeOK, DeviceWrite
<1>2. FoundAreMarked' /\ OnlyDrawn'
  BY DEF DirtyIInv, DirtyTypeOK, CpuState, DeviceWrite, FoundAreMarked, OnlyDrawn,
     Marked, IsDirtyBit
<1>3. ASSUME fill = "riscv" PROVE Riscv'
  BY <1>3
     DEF DirtyIInv, DirtyTypeOK, CpuState, DeviceWrite, Riscv, EntriesFound,
         EntriesKept, WritesMarked, WritesBegun, UndrawnIsMarked, IsDirtyBit,
         StillToFlush
<1> QED
  BY <1>1, <1>2, <1>3 DEF DirtyIInv, DeviceWrite

LEMMA ClearKeeps ==
    ASSUME DirtyIInv, Clear PROVE DirtyIInv'
<1>1. DirtyTypeOK'
  BY DEF DirtyIInv, DirtyTypeOK, Clear
<1>2. FoundAreMarked' /\ OnlyDrawn'
  BY DEF DirtyIInv, DirtyTypeOK, CpuState, Clear, FoundAreMarked, OnlyDrawn, Marked,
     IsDirtyBit
<1>3. ASSUME fill = "riscv" PROVE Riscv'
  BY <1>3
     DEF DirtyIInv, DirtyTypeOK, CpuState, Clear, Riscv, EntriesFound, EntriesKept,
         WritesMarked, WritesBegun, UndrawnIsMarked, IsDirtyBit, StillToFlush
<1> QED
  BY <1>1, <1>2, <1>3 DEF DirtyIInv, Clear

LEMMA SwitchKeeps ==
    ASSUME DirtyIInv, Switch PROVE DirtyIInv'
<1>1. DirtyTypeOK'
  <2>1. ASSUME NEW c \in TlbCpus
        PROVE  [cpu[c] EXCEPT !.crossed = cpu[c].at # "run" /\ cpu[c].write]
                 \in CpuState
    <3>1. /\ cpu[c] \in CpuState
          /\ (cpu[c].at # "run" /\ cpu[c].write) \in BOOLEAN
      BY DEF DirtyIInv, DirtyTypeOK, CpuState
    <3> QED
      BY <3>1, StateTypes
  <2>2. cpu' \in [TlbCpus -> CpuState]
    BY <2>1, Zenon DEF Switch
  <2> QED
    BY <2>2 DEF DirtyIInv, DirtyTypeOK, Switch
<1>2. FoundAreMarked' /\ OnlyDrawn'
  BY DEF DirtyIInv, DirtyTypeOK, CpuState, Switch, FoundAreMarked, OnlyDrawn,
     Marked, IsDirtyBit
<1>3. ASSUME fill = "riscv" PROVE Riscv'
  BY <1>3
     DEF DirtyIInv, DirtyTypeOK, CpuState, Switch, Riscv, EntriesFound, EntriesKept,
         WritesMarked, WritesBegun, UndrawnIsMarked, IsDirtyBit, StillToFlush
<1> QED
  BY <1>1, <1>2, <1>3 DEF DirtyIInv, Switch

LEMMA ScanKeeps ==
    ASSUME DirtyIInv, Scan PROVE DirtyIInv'
<1>1. DirtyTypeOK'
  BY DEF DirtyIInv, DirtyTypeOK, Scan
<1>2. FoundAreMarked' /\ OnlyDrawn'
  BY DEF DirtyIInv, DirtyTypeOK, CpuState, Scan, FoundAreMarked, OnlyDrawn, Marked,
     IsDirtyBit
<1>3. ASSUME fill = "riscv" PROVE Riscv'
  <2>1. EntriesFound'
    BY <1>3 DEF DirtyIInv, DirtyTypeOK, CpuState, Riscv, EntriesFound, Scan
  <2>2. EntriesKept'
    BY <1>3
       DEF DirtyIInv, DirtyTypeOK, CpuState, Riscv, EntriesKept, Scan, StillToFlush,
           IsDirtyBit
  <2>3. WritesMarked' /\ WritesBegun'
    BY <1>3
       DEF DirtyIInv, DirtyTypeOK, CpuState, Riscv, WritesMarked, WritesBegun, Scan,
           StillToFlush, IsDirtyBit
  <2>4. UndrawnIsMarked'
    BY <1>3
       DEF DirtyIInv, DirtyTypeOK, CpuState, Riscv, UndrawnIsMarked, Scan,
           OnlyDrawn, IsDirtyBit
  <2> QED
    BY <2>1, <2>2, <2>3, <2>4 DEF Riscv
<1> QED
  BY <1>1, <1>2, <1>3 DEF DirtyIInv, Scan

(* FlushTlbWriteRange() for one processor. *)
FlushOf(c) ==
    /\ tlb' = [tlb EXCEPT ![c] = @ \ found[c]]
    /\ found' = [found EXCEPT ![c] = {}]
    /\ cpu' = [cpu EXCEPT ![c].crossed = @ \/ cpu[c].at = "store"]
    /\ refresh' =
        IF refresh.left = {c}
        THEN [at |-> "draw", left |-> {},
              pages |-> dirty_bits_tab[1 - dirty_bits]]
        ELSE [refresh EXCEPT !.left = @ \ {c}]

LEMMA FlushKeeps ==
    ASSUME DirtyIInv, Flush PROVE DirtyIInv'
<1>1. DirtyTypeOK'
  <2> PICK c \in refresh.left : FlushOf(c)
    BY Zenon DEF Flush, FlushOf
  <2>1. c \in TlbCpus /\ cpu[c] \in CpuState
    BY DEF DirtyIInv, DirtyTypeOK
  <2>2. [cpu[c] EXCEPT !.crossed = @ \/ cpu[c].at = "store"] \in CpuState
    BY <2>1 DEF CpuState
  <2>3. cpu' \in [TlbCpus -> CpuState]
    BY <2>1, <2>2 DEF DirtyIInv, DirtyTypeOK, FlushOf
  <2>4. refresh' \in [at : {"idle", "switch", "scan", "flush", "draw"},
                      left : SUBSET TlbCpus, pages : SUBSET VideoPages]
    BY DEF DirtyIInv, DirtyTypeOK, FlushOf
  <2>5. /\ tlb' \in [TlbCpus -> SUBSET VideoPages]
        /\ found' \in [TlbCpus -> SUBSET VideoPages]
    BY <2>1 DEF DirtyIInv, DirtyTypeOK, FlushOf
  <2> QED
    BY <2>3, <2>4, <2>5 DEF DirtyIInv, DirtyTypeOK, Flush
<1>2. FoundAreMarked' /\ OnlyDrawn'
  BY DEF DirtyIInv, DirtyTypeOK, CpuState, Flush, FoundAreMarked, OnlyDrawn, Marked,
     IsDirtyBit
<1>3. ASSUME fill = "riscv" PROVE Riscv'
  <2> PICK c \in refresh.left : FlushOf(c)
    BY Zenon DEF Flush, FlushOf
  <2>1. EntriesFound'
    BY <1>3
       DEF DirtyIInv, DirtyTypeOK, CpuState, Riscv, EntriesFound, Flush, FlushOf
  <2>2. EntriesKept'
    <3>1. c \in TlbCpus /\ tlb'[c] = {}
      BY <1>3 DEF DirtyIInv, DirtyTypeOK, Riscv, EntriesFound, FlushOf
    <3>2. \A d \in TlbCpus \ {c} : tlb'[d] = tlb[d] /\ cpu'[d] = cpu[d]
      BY <3>1 DEF DirtyIInv, DirtyTypeOK, FlushOf
    <3>3. ASSUME NEW d \in TlbCpus \ {c}, NEW p \in VideoPages,
                 StillToFlush(d, p)
          PROVE  StillToFlush(d, p)'
      BY <3>3 DEF DirtyIInv, DirtyTypeOK, StillToFlush, Flush, FlushOf
    <3>4. \A p \in VideoPages : IsDirtyBit(p)' <=> IsDirtyBit(p)
      BY DEF IsDirtyBit, Flush
    <3> QED
      BY <1>3, <3>1, <3>2, <3>3, <3>4 DEF DirtyIInv, DirtyTypeOK, Riscv, EntriesKept
  <2>3. WritesMarked' /\ WritesBegun'
    BY <1>3
       DEF DirtyIInv, DirtyTypeOK, CpuState, Riscv, WritesMarked, WritesBegun,
           Flush, FlushOf, StillToFlush, IsDirtyBit
  <2>4. UndrawnIsMarked'
    BY <1>3
       DEF DirtyIInv, DirtyTypeOK, CpuState, Riscv, UndrawnIsMarked, Flush, FlushOf,
           OnlyDrawn, IsDirtyBit
  <2> QED
    BY <2>1, <2>2, <2>3, <2>4 DEF Riscv
<1> QED
  BY <1>1, <1>2, <1>3 DEF DirtyIInv, Flush

LEMMA DrawKeeps ==
    ASSUME DirtyIInv, Draw PROVE DirtyIInv'
<1>1. DirtyTypeOK'
  BY DEF DirtyIInv, DirtyTypeOK, Draw
<1>2. FoundAreMarked' /\ OnlyDrawn'
  BY DEF DirtyIInv, DirtyTypeOK, CpuState, Draw, FoundAreMarked, OnlyDrawn, Marked,
     IsDirtyBit
<1>3. ASSUME fill = "riscv" PROVE Riscv'
  BY <1>3
     DEF DirtyIInv, DirtyTypeOK, CpuState, Draw, Riscv, EntriesFound, EntriesKept,
         WritesMarked, WritesBegun, UndrawnIsMarked, IsDirtyBit, StillToFlush
<1> QED
  BY <1>1, <1>2, <1>3 DEF DirtyIInv, Draw

LEMMA DirtyStep == DirtyIInv /\ [DirtyNext]_dirtyVars => DirtyIInv'
<1> SUFFICES ASSUME DirtyIInv, [DirtyNext]_dirtyVars PROVE DirtyIInv'
  OBVIOUS
<1>1. ASSUME NEW c \in TlbCpus,
             Write(c) \/ Read(c) \/ SetDirtyBit(c) \/ Fill(c)
             \/ FillWrite(c) \/ Recheck(c) \/ Store(c) \/ Evict(c)
      PROVE  DirtyIInv'
  BY <1>1, WriteKeeps, ReadKeeps, SetDirtyBitKeeps, FillKeeps, FillWriteKeeps,
     RecheckKeeps, StoreKeeps, EvictKeeps, Zenon
<1>2. ASSUME DeviceWrite \/ Clear \/ Switch \/ Scan \/ Flush \/ Draw
      PROVE  DirtyIInv'
  BY <1>2, DeviceWriteKeeps, ClearKeeps, SwitchKeeps, ScanKeeps, FlushKeeps,
     DrawKeeps, Zenon
<1>3. CASE UNCHANGED dirtyVars
  BY <1>3
     DEF dirtyVars, DirtyIInv, DirtyTypeOK, FoundAreMarked, Marked, OnlyDrawn,
         Riscv, EntriesFound, EntriesKept, WritesMarked, WritesBegun,
         UndrawnIsMarked, IsDirtyBit, StillToFlush
<1> QED
  BY <1>1, <1>2, <1>3, Zenon DEF DirtyNext

LEMMA InvTracked == DirtyIInv => DirtyTracked
<1> SUFFICES ASSUME DirtyIInv PROVE DirtyTracked
  OBVIOUS
<1>1. ASSUME fill = "riscv" PROVE EntriesAreMarked
  BY <1>1 DEF DirtyIInv, Riscv, EntriesKept, EntriesAreMarked, Marked, StillToFlush
<1> QED
  BY <1>1 DEF DirtyIInv, Riscv, DirtyTracked

(* For any number of processors and pages: a page that a processor can     *)
(* write without marking it is marked, whatever step of tlb_fill_write()   *)
(* or tlb_fill() GetDirtyBits() comes in between, and a page of the screen *)
(* written since it was drawn is drawn again.                              *)
THEOREM TrackingCorrect == DirtySpec => []DirtyTracked
BY InitDirty, DirtyStep, InvTracked, PTL DEF DirtySpec

-----------------------------------------------------------------------------
(* ---- the processor's thread on a hypervisor ---- *)

(* NoKickLost is not inductive: it needs how far each request to end the   *)
(* run has come at every step into the guest (Asked), for a stop and for   *)
(* an interrupt, and what wakes a thread that waits.  MaskedNotTaken needs *)
(* that the task priority does not move under an interrupt already put in. *)

(* The local APIC's request is what its interrupt and task priority make. *)
Requested == vcpu.irq = (vcpu.irr > vcpu.tpr)

(* An interrupt that was put in stays one the guest can take: the task     *)
(* priority does not change until it has been taken.                       *)
Injected ==
    vcpu.event # 0 =>
      /\ vcpu.if_flag /\ ~vcpu.shadow /\ vcpu.event > vcpu.cr8
      /\ vcpu.tpr = vcpu.cr8 /\ vcpu.fTaskPriority = vcpu.cr8
      /\ vcpu.pc \in {"back", "sync", "handle"} => vcpu.reason = "none"

Agreed ==
    vcpu.pc \notin {"guest", "back", "sync"} => vcpu.fTaskPriority = vcpu.cr8

(* How far a request of thread t to end the run has come, on the way into  *)
(* the guest and in it.                                                    *)
Asked(t) ==
    \/ kicks[t] = "request"
    \/ CASE vcpu.pc \in {"inject", "inrun", "look"} ->
              vcpu.kicked \/ vcpu.immediate_exit
         [] vcpu.pc = "enter" ->
              \/ vcpu.immediate_exit
              \/ hyper.kind = "nvmm" /\ (kicks[t] = "signal" \/ vcpu.missed)
         [] vcpu.pc = "guest" ->
              kicks[t] = "signal" \/ vcpu.leave \/ vcpu.missed
         [] OTHER -> vcpu.immediate_exit

(* WHP's longest time is running, and NVMM alone clears requests. *)
Kinds ==
    /\ hyper.kind = "whp" /\ vcpu.pc = "guest" => vcpu.timer
    /\ vcpu.pc \in {"clear", "inrun", "look"} => hyper.kind = "nvmm"
    /\ vcpu.immediate_exit => hyper.kind = "kvm"
    /\ vcpu.kicked => hyper.kind = "nvmm"

StopAsked ==
    vcpu.stop =>
      /\ vcpu.pc \in {"inject", "inrun", "look", "enter", "guest"}
           => hyper.kind = "whp" \/ vcpu.forgot \/ Asked("main")
      /\ vcpu.pc = "idle" /\ hyper.kind = "kvm" => Asked("main")
      /\ vcpu.pc \notin {"top", "done"}
           => kicks["main"] # "none" \/ vcpu.wakeup

IrqAsked ==
    vcpu.irq =>
      /\ vcpu.pc \in {"inrun", "look", "enter", "guest"}
           => hyper.kind = "whp" \/ vcpu.window \/ Asked("device")

Waking ==
    vcpu.pc = "wait" /\ ~VcpuIdle => vcpu.wakeup \/ kicks["device"] # "none"

Masking == Requested /\ Injected /\ Agreed
AllAsked == Kinds /\ StopAsked /\ IrqAsked /\ Waking
VcpuIInv == VcpuTypeOK /\ Masking /\ AllAsked

-----------------------------------------------------------------------------
(* What the operators on a processor's state return has its type. *)
LEMMA RequestsTyped ==
    ASSUME NEW d \in VcpuState PROVE Requests(d) \in VcpuState
<1> DEFINE r == d.irr > d.tpr
<1>1. r \in BOOLEAN OBVIOUS
<1> HIDE DEF r
<1>2. [d EXCEPT !.irq = r] \in VcpuState BY <1>1 DEF VcpuState
<1> QED BY <1>2 DEF Requests, r

LEMMA PriorityTyped ==
    ASSUME NEW d \in VcpuState, NEW t \in Tasks
    PROVE SetTaskPriority(d, t) \in VcpuState
<1>1. [d EXCEPT !.tpr = t] \in VcpuState BY DEF VcpuState
<1> QED BY <1>1, RequestsTyped DEF SetTaskPriority

LEMMA GotoTyped ==
    ASSUME vcpu \in VcpuState,
           NEW l \in VcpuPcs
    PROVE Goto(l) \in VcpuState
BY DEF Goto, VcpuState

LEMMA ExitTyped ==
    ASSUME vcpu \in VcpuState,
           NEW r \in Reasons
    PROVE Exit(r) \in VcpuState
<1> DEFINE b == Goto("back")
<1>1. b \in VcpuState BY GotoTyped DEF VcpuPcs
<1>2. Exit(r) = [b EXCEPT !.reason = r, !.leave = FALSE, !.timer = FALSE,
                         !.missed = FALSE]
  BY DEF Exit
<1> HIDE DEF b
<1>3. [b EXCEPT !.reason = r, !.leave = FALSE, !.timer = FALSE,
                !.missed = FALSE] \in VcpuState
  BY <1>1, Zenon DEF VcpuState
<1> QED BY <1>2, <1>3

(* A processor that takes the interrupt or asks for the window. *)
LEMMA WindowedTyped ==
    ASSUME VcpuTypeOK, NEW d \in VcpuState PROVE Windowed(d) \in VcpuState
<1> DEFINE w == CASE hyper.kind = "kvm" -> d.irq
                  [] hyper.kind = "nvmm" -> d.window \/ (d.irq /\ ~d.halted)
                  [] hyper.kind = "whp" -> d.window \/ d.irq
           l == IF d.halted THEN "top"
                ELSE IF hyper.kind = "nvmm" THEN "inrun" ELSE "enter"
<1>1. w \in BOOLEAN
  <2>1. d.irq \in BOOLEAN /\ d.window \in BOOLEAN BY DEF VcpuState
  <2>2. hyper.kind \in {"kvm", "nvmm", "whp"}
    BY VcpuAssumption DEF VcpuTypeOK
  <2> QED BY <2>1, <2>2
<1>2. l \in VcpuPcs BY DEF VcpuPcs
<1>3. Windowed(d) = [d EXCEPT !.window = w, !.pc = l] BY DEF Windowed
<1> HIDE DEF w, l
<1> QED BY <1>1, <1>2, <1>3 DEF VcpuState

LEMMA InjectTyped ==
    ASSUME VcpuTypeOK, InjectInterrupt PROVE VcpuTypeOK'
<1> DEFINE d == TakePriority(vcpu)
           a == [Acknowledge(d) EXCEPT !.event = d.irr, !.halted = FALSE]
<1>1. d \in VcpuState BY DEF TakePriority, VcpuTypeOK, VcpuState
<1> HIDE DEF d
<1>2. [d EXCEPT !.irr = 0] \in VcpuState BY <1>1 DEF VcpuState
<1>3. Acknowledge(d) \in VcpuState BY <1>2, RequestsTyped DEF Acknowledge
<1>4. a \in VcpuState
  <2>1. d.irr \in Priorities \cup {0} BY <1>1 DEF VcpuState
  <2> QED BY <1>3, <2>1 DEF VcpuState
<1>5. vcpu' = Windowed(a) \/ vcpu' = Windowed(d)
  BY DEF InjectInterrupt, Then, d
<1>6. vcpu' \in VcpuState BY <1>1, <1>4, <1>5, WindowedTyped
<1> QED BY <1>6 DEF InjectInterrupt, Then, VcpuTypeOK

(* What the guest does: its interrupt flag, its task priority, an exit. *)
LEMMA GuestCases ==
    ASSUME Guest
    PROVE \/ vcpu' = [vcpu EXCEPT !.if_flag = ~@, !.shadow = ~vcpu.if_flag]
          \/ vcpu' = [vcpu EXCEPT !.shadow = FALSE]
          \/ \E t \in Tasks : vcpu' = [vcpu EXCEPT !.cr8 = t, !.shadow = FALSE]
          \/ \E t \in Tasks :
               /\ hyper.kind # "whp"
               /\ vcpu' = [Exit("tpr") EXCEPT !.cr8 = t, !.shadow = FALSE]
          \/ \E r \in {"hlt", "io", "shutdown"} :
               vcpu' = [Exit(r) EXCEPT !.shadow = @ /\ r = "io"]
BY Zenon DEF Guest, Then

LEMMA GuestTyped == ASSUME VcpuTypeOK, Guest PROVE VcpuTypeOK'
<1> USE DEF VcpuTypeOK
<1>1. CASE \/ vcpu' = [vcpu EXCEPT !.if_flag = ~@, !.shadow = ~vcpu.if_flag]
           \/ vcpu' = [vcpu EXCEPT !.shadow = FALSE]
  <2> DEFINE b == ~vcpu.if_flag
  <2>1. /\ b \in BOOLEAN
        /\ \/ vcpu' = [vcpu EXCEPT !.if_flag = b, !.shadow = b]
           \/ vcpu' = [vcpu EXCEPT !.shadow = FALSE]
    BY <1>1
  <2> HIDE DEF b
  <2>2. vcpu' \in VcpuState BY <2>1 DEF VcpuState
  <2> QED BY <2>2 DEF Guest, Then
<1>2. ASSUME NEW t \in Tasks,
             vcpu' = [vcpu EXCEPT !.cr8 = t, !.shadow = FALSE]
      PROVE VcpuTypeOK'
  <2>1. vcpu' \in VcpuState BY <1>2 DEF VcpuState
  <2> QED BY <2>1 DEF Guest, Then
<1>3. ASSUME NEW t \in Tasks,
             vcpu' = [Exit("tpr") EXCEPT !.cr8 = t, !.shadow = FALSE]
      PROVE VcpuTypeOK'
  <2>1. Exit("tpr") \in VcpuState BY ExitTyped DEF Reasons
  <2>2. vcpu' \in VcpuState BY <1>3, <2>1 DEF VcpuState
  <2> QED BY <2>2 DEF Guest, Then
<1>4. ASSUME NEW r \in {"hlt", "io", "shutdown"},
             vcpu' = [Exit(r) EXCEPT !.shadow = @ /\ r = "io"]
      PROVE VcpuTypeOK'
  <2> DEFINE b == Exit(r).shadow /\ r = "io"
  <2>1. Exit(r) \in VcpuState BY ExitTyped DEF Reasons
  <2>2. b \in BOOLEAN /\ vcpu' = [Exit(r) EXCEPT !.shadow = b] BY <1>4
  <2> HIDE DEF b
  <2>3. vcpu' \in VcpuState BY <2>1, <2>2 DEF VcpuState
  <2> QED BY <2>3 DEF Guest, Then
<1> QED BY <1>1, <1>2, <1>3, <1>4, GuestCases

LEMMA RaiseTyped == ASSUME VcpuTypeOK, Raise PROVE VcpuTypeOK'
<1>1. PICK p \in Priorities :
        /\ vcpu' = Requests([vcpu EXCEPT !.irr = p])
        /\ kicks' = [kicks EXCEPT !["device"] =
                       IF p > vcpu.tpr THEN "request" ELSE "none"]
        /\ UNCHANGED hyper
  BY DEF Raise
<1>2. [vcpu EXCEPT !.irr = p] \in VcpuState BY DEF VcpuTypeOK, VcpuState
<1>3. vcpu' \in VcpuState BY <1>1, <1>2, RequestsTyped
<1> QED BY <1>1, <1>3 DEF VcpuTypeOK, Kickers

LEMMA OthersTyped ==
    ASSUME VcpuTypeOK,
           \/ ClearKicked \/ WindowOpens \/ Leave \/ ExitApicState \/ ExitIo
           \/ Handle \/ \E t \in Kickers : SendSignal(t)
    PROVE VcpuTypeOK'
<1> USE DEF VcpuTypeOK, Then
<1>1. CASE ClearKicked
  <2> DEFINE b == vcpu.stop /\ kicks["main"] # "request"
  <2>1. b \in BOOLEAN /\ Goto("inject") \in VcpuState BY GotoTyped DEF VcpuPcs
  <2> HIDE DEF b
  <2>2. [Goto("inject") EXCEPT !.kicked = FALSE, !.forgot = b] \in VcpuState
    BY <2>1 DEF VcpuState
  <2> QED BY <1>1, <2>2 DEF ClearKicked, b
<1>2. CASE WindowOpens
  <2>1. Exit("window") \in VcpuState BY ExitTyped DEF Reasons
  <2>2. [Exit("window") EXCEPT !.window = FALSE] \in VcpuState
    BY <2>1 DEF VcpuState
  <2> QED BY <1>2, <2>2 DEF WindowOpens
<1>3. CASE Leave BY <1>3, ExitTyped DEF Leave, Reasons
<1>4. CASE ExitApicState
  <2> DEFINE d == [Goto("handle") EXCEPT !.fTaskPriority = vcpu.cr8]
  <2>1. vcpu.cr8 \in Tasks BY DEF VcpuState
  <2>2. Goto("handle") \in VcpuState BY GotoTyped DEF VcpuPcs
  <2>3. d \in VcpuState BY <2>1, <2>2 DEF VcpuState
  <2>4. SetTaskPriority(d, vcpu.cr8) \in VcpuState
    BY <2>1, <2>3, PriorityTyped
  <2> QED BY <1>4, <2>3, <2>4 DEF ExitApicState
<1>5. CASE ExitIo
  <2>1. PICK t \in Tasks :
          Then([SetTaskPriority(vcpu, t) EXCEPT !.pc = "top"])
    BY <1>5 DEF ExitIo
  <2>2. /\ SetTaskPriority(vcpu, t) \in VcpuState
        /\ "top" \in VcpuPcs
    BY PriorityTyped DEF VcpuPcs
  <2>3. [SetTaskPriority(vcpu, t) EXCEPT !.pc = "top"] \in VcpuState
    BY <2>2 DEF VcpuState
  <2> QED BY <2>1, <2>3
<1>6. CASE Handle
  <2> DEFINE h == vcpu.halted \/ vcpu.reason = "hlt"
             o == vcpu.shutdown \/ vcpu.reason = "shutdown"
  <2>1. /\ h \in BOOLEAN /\ o \in BOOLEAN /\ Goto("top") \in VcpuState
        /\ Goto("top").halted = vcpu.halted
        /\ Goto("top").shutdown = vcpu.shutdown
    BY GotoTyped DEF VcpuPcs, Goto, VcpuState
  <2>2. vcpu' = [Goto("top") EXCEPT !.halted = h, !.shutdown = o]
    BY <1>6, <2>1 DEF Handle
  <2> HIDE DEF h, o
  <2>3. h \in BOOLEAN /\ o \in BOOLEAN /\ Goto("top") \in VcpuState BY <2>1
  <2>4. [Goto("top") EXCEPT !.halted = h, !.shutdown = o] \in VcpuState
    BY <2>3 DEF VcpuState
  <2> QED BY <1>6, <2>2, <2>4 DEF Handle
<1>7. ASSUME NEW t \in Kickers, SendSignal(t) PROVE VcpuTypeOK'
  <2> DEFINE g == vcpu.leave \/ vcpu.pc = "guest"
             n == vcpu.missed \/ (vcpu.pc = "enter" /\ hyper.kind = "nvmm")
  <2>1. g \in BOOLEAN /\ n \in BOOLEAN OBVIOUS
  <2>2. vcpu' = [vcpu EXCEPT !.leave = g, !.missed = n] BY <1>7 DEF SendSignal
  <2> HIDE DEF g, n
  <2>3. vcpu' \in VcpuState BY <2>1, <2>2 DEF VcpuState
  <2> QED BY <1>7, <2>3 DEF SendSignal, Kickers
<1> QED BY <1>1, <1>2, <1>3, <1>4, <1>5, <1>6, <1>7


(* Every step keeps the types. *)
LEMMA VcpuTypeStep == ASSUME VcpuTypeOK, [VcpuNext]_vcpuVars PROVE VcpuTypeOK'
<1>1. CASE Raise BY <1>1, RaiseTyped
<1>2. CASE InjectInterrupt BY <1>2, InjectTyped
<1>3. CASE Guest BY <1>3, GuestTyped
<1>4. CASE \/ ClearKicked \/ WindowOpens \/ Leave \/ ExitApicState \/ ExitIo
           \/ Handle \/ \E t \in Kickers : SendSignal(t)
  BY <1>4, OthersTyped
<1> USE DEF VcpuTypeOK, VcpuState, VcpuPcs, Reasons, Kickers, Then, Goto
<1>5. CASE Stop BY <1>5 DEF Stop
<1>6. CASE LookAtStop BY <1>6 DEF LookAtStop
<1>7. CASE LookAtIdle BY <1>7 DEF LookAtIdle
<1>8. CASE Wait BY <1>8 DEF Wait
<1>9. CASE SetInRun BY <1>9 DEF SetInRun
<1>10. CASE LookAtKicked BY <1>10 DEF LookAtKicked
<1>11. CASE Enter BY <1>11 DEF Enter
<1>12. CASE TakeEvent BY <1>12 DEF TakeEvent
<1>13. CASE Back BY <1>13 DEF Back
<1>14. ASSUME NEW t \in Kickers, InterruptRun(t) PROVE VcpuTypeOK'
  <2>1. hyper.kind \in {"kvm", "nvmm", "whp"} BY VcpuAssumption
  <2>2. vcpu' \in VcpuState BY <1>14, <2>1 DEF InterruptRun
  <2> QED BY <1>14, <2>2 DEF InterruptRun
<1>15. ASSUME NEW t \in Kickers, Kick(t) PROVE VcpuTypeOK'
  BY <1>15 DEF Kick
<1>16. CASE UNCHANGED vcpuVars BY <1>16 DEF vcpuVars
<1> QED
  BY <1>1, <1>2, <1>3, <1>4, <1>5, <1>6, <1>7, <1>8, <1>9, <1>10, <1>11, <1>12,
     <1>13, <1>14, <1>15, <1>16
  DEF VcpuNext, Done

(* The guest changes nothing a kick or the local APIC depends on. *)
LEMMA GuestKeeps ==
    ASSUME VcpuTypeOK, Guest
    PROVE /\ vcpu.pc = "guest" /\ vcpu'.pc \in {"guest", "back"}
          /\ vcpu'.stop = vcpu.stop /\ vcpu'.irq = vcpu.irq
          /\ vcpu'.irr = vcpu.irr /\ vcpu'.tpr = vcpu.tpr
          /\ vcpu'.event = vcpu.event
          /\ vcpu'.window = vcpu.window /\ vcpu'.forgot = vcpu.forgot
          /\ vcpu'.kicked = vcpu.kicked /\ vcpu'.wakeup = vcpu.wakeup
          /\ vcpu'.immediate_exit = vcpu.immediate_exit
          /\ vcpu'.pc = "guest" =>
               /\ vcpu'.leave = vcpu.leave /\ vcpu'.timer = vcpu.timer
               /\ vcpu'.missed = vcpu.missed
          /\ UNCHANGED <<kicks, hyper>>
<1>1. vcpu.pc = "guest" /\ UNCHANGED <<kicks, hyper>> BY DEF Guest, Then
<1> USE <1>1 DEF VcpuTypeOK, VcpuState, Exit, Goto
<1>2. CASE \/ vcpu' = [vcpu EXCEPT !.if_flag = ~@, !.shadow = ~vcpu.if_flag]
           \/ vcpu' = [vcpu EXCEPT !.shadow = FALSE]
  BY <1>2
<1>3. CASE \E t \in Tasks : vcpu' = [vcpu EXCEPT !.cr8 = t, !.shadow = FALSE]
  BY <1>3
<1>4. CASE \E t \in Tasks :
             vcpu' = [Exit("tpr") EXCEPT !.cr8 = t, !.shadow = FALSE]
  BY <1>4
<1>5. CASE \E r \in {"hlt", "io", "shutdown"} :
             vcpu' = [Exit(r) EXCEPT !.shadow = @ /\ r = "io"]
  BY <1>5
<1> QED BY <1>2, <1>3, <1>4, <1>5, GuestCases

(* Every step keeps what the local APIC and the processor agree on. *)
LEMMA PriorityStep == ASSUME VcpuIInv, [VcpuNext]_vcpuVars PROVE Masking'
<1> USE VcpuAssumption
    DEF VcpuIInv, VcpuTypeOK, VcpuState, Kickers, Then, Goto, Masking,
        Requested, Injected, Agreed
<1>1. CASE Raise BY <1>1 DEF Raise, Requests, Unlocked
<1>2. CASE Stop BY <1>2 DEF Stop
<1>3. CASE LookAtStop BY <1>3 DEF LookAtStop
<1>4. CASE LookAtIdle BY <1>4 DEF LookAtIdle
<1>5. CASE Wait BY <1>5 DEF Wait
<1>6. CASE ClearKicked BY <1>6 DEF ClearKicked
<1>7. CASE InjectInterrupt
  BY <1>7 DEF InjectInterrupt, Windowed, Acknowledge, Requests, TakePriority
<1>8. CASE SetInRun BY <1>8 DEF SetInRun
<1>9. CASE LookAtKicked BY <1>9 DEF LookAtKicked
<1>10. CASE Enter BY <1>10 DEF Enter
<1>11. CASE TakeEvent BY <1>11 DEF TakeEvent
<1>12. CASE Guest
  <2>1. vcpu.event = 0 /\ vcpu.pc = "guest" BY <1>12 DEF Guest
  <2>2. /\ vcpu'.event = 0 /\ vcpu'.pc \in {"guest", "back"}
        /\ vcpu'.irq = vcpu.irq /\ vcpu'.irr = vcpu.irr /\ vcpu'.tpr = vcpu.tpr
    BY <1>12, <2>1, GuestKeeps
  <2> QED BY <2>1, <2>2
<1>13. CASE WindowOpens BY <1>13 DEF WindowOpens, Exit
<1>14. CASE Leave BY <1>14 DEF Leave, Exit
<1>15. CASE Back BY <1>15 DEF Back
<1>16. CASE ExitApicState BY <1>16 DEF ExitApicState, SetTaskPriority, Requests
<1>17. CASE ExitIo BY <1>17 DEF ExitIo, SetTaskPriority, Requests
<1>18. CASE Handle BY <1>18 DEF Handle
<1>19. ASSUME NEW t \in Kickers, InterruptRun(t) PROVE Masking'
  BY <1>19 DEF InterruptRun
<1>20. ASSUME NEW t \in Kickers, SendSignal(t) PROVE Masking'
  BY <1>20 DEF SendSignal
<1>21. ASSUME NEW t \in Kickers, Kick(t) PROVE Masking'
  BY <1>21 DEF Kick
<1>22. CASE UNCHANGED vcpuVars BY <1>22 DEF vcpuVars
<1> QED
  BY <1>1, <1>2, <1>3, <1>4, <1>5, <1>6, <1>7, <1>8, <1>9, <1>10, <1>11,
     <1>12, <1>13, <1>14, <1>15, <1>16, <1>17, <1>18, <1>19, <1>20, <1>21,
     <1>22
  DEF VcpuNext, Done

(* Every step keeps what became of each kick. *)
LEMMA AskedStep == ASSUME VcpuIInv, [VcpuNext]_vcpuVars PROVE AllAsked'
<1> USE VcpuAssumption
    DEF VcpuIInv, VcpuTypeOK, VcpuState, Kickers, Then, Goto, AllAsked,
        Kinds, StopAsked, IrqAsked,
        Waking, VcpuIdle, Asked
<1>1. CASE Raise BY <1>1 DEF Raise, Requests, Unlocked
<1>2. CASE Stop BY <1>2 DEF Stop
<1>3. CASE LookAtStop BY <1>3 DEF LookAtStop
<1>4. CASE LookAtIdle BY <1>4 DEF LookAtIdle
<1>5. CASE Wait BY <1>5 DEF Wait
<1>6. CASE ClearKicked BY <1>6 DEF ClearKicked
<1>7. CASE InjectInterrupt
  BY <1>7 DEF InjectInterrupt, Windowed, Acknowledge, Requests, TakePriority
<1>8. CASE SetInRun BY <1>8 DEF SetInRun
<1>9. CASE LookAtKicked BY <1>9 DEF LookAtKicked
<1>10. CASE Enter BY <1>10 DEF Enter
<1>11. CASE TakeEvent BY <1>11 DEF TakeEvent
<1>12. CASE Guest BY <1>12, GuestKeeps
<1>13. CASE WindowOpens BY <1>13 DEF WindowOpens, Exit
<1>14. CASE Leave BY <1>14 DEF Leave, Exit
<1>15. CASE Back BY <1>15 DEF Back
<1>16. CASE ExitApicState BY <1>16 DEF ExitApicState, SetTaskPriority, Requests
<1>17. CASE ExitIo BY <1>17 DEF ExitIo, SetTaskPriority, Requests
<1>18. CASE Handle BY <1>18 DEF Handle
<1>19. ASSUME NEW t \in Kickers, InterruptRun(t) PROVE AllAsked'
  BY <1>19 DEF InterruptRun
<1>20. ASSUME NEW t \in Kickers, SendSignal(t) PROVE AllAsked'
  BY <1>20 DEF SendSignal
<1>21. ASSUME NEW t \in Kickers, Kick(t) PROVE AllAsked'
  BY <1>21 DEF Kick
<1>22. CASE UNCHANGED vcpuVars BY <1>22 DEF vcpuVars
<1> QED
  BY <1>1, <1>2, <1>3, <1>4, <1>5, <1>6, <1>7, <1>8, <1>9, <1>10, <1>11,
     <1>12, <1>13, <1>14, <1>15, <1>16, <1>17, <1>18, <1>19, <1>20, <1>21,
     <1>22
  DEF VcpuNext, Done

(* A machine that starts has neither kicks nor interrupts. *)
LEMMA InitVcpu == ASSUME VcpuInit PROVE VcpuIInv
<1> USE VcpuAssumption DEF VcpuInit
<1>1. VcpuTypeOK BY DEF VcpuTypeOK, VcpuState, VcpuPcs, Reasons, Kickers
<1>2. Masking
  <2>1. Requested
    <3>1. vcpu.irq = FALSE /\ vcpu.irr = 0 /\ vcpu.tpr = 0 OBVIOUS
    <3>2. (0 > 0) = FALSE OBVIOUS
    <3> QED BY <3>1, <3>2 DEF Requested
  <2> QED BY <2>1 DEF Masking, Injected, Agreed
<1>3. AllAsked
  BY DEF AllAsked, Kinds, StopAsked, IrqAsked, Waking
<1> QED BY <1>1, <1>2, <1>3 DEF VcpuIInv

(* The invariant says what the property does: when no thread is half way   *)
(* through a kick, every request has reached the run.                      *)
LEMMA InvHeard == ASSUME VcpuIInv PROVE KicksHeard
<1>1. NoKickLost
  BY VcpuAssumption
  DEF NoKickLost, VcpuIInv, AllAsked, VcpuTypeOK, Kickers, Kinds, StopAsked,
      IrqAsked, Asked, Waking
<1>2. MaskedNotTaken BY Zenon
  DEF MaskedNotTaken, VcpuIInv, Masking, Injected, Agreed
<1> QED BY <1>1, <1>2 DEF KicksHeard

(* For any priorities, on each of the three hypervisors and whatever the   *)
(* guest, the devices and Stop() do: no kick of a processor is lost but    *)
(* for the two of NVMM's, and no masked interrupt is taken.                *)
THEOREM VcpuCorrect == VcpuSpec => []KicksHeard
<1>1. VcpuIInv /\ [VcpuNext]_vcpuVars => VcpuIInv'
  <2> SUFFICES ASSUME VcpuIInv, [VcpuNext]_vcpuVars PROVE VcpuIInv'
    OBVIOUS
  <2>1. VcpuTypeOK' BY Zenon, VcpuTypeStep DEF VcpuIInv
  <2>2. AllAsked' BY Zenon, AskedStep
  <2> QED BY <2>1, <2>2, PriorityStep DEF VcpuIInv
<1>2. VcpuIInv => KicksHeard BY InvHeard
<1> QED BY InitVcpu, <1>1, <1>2, PTL DEF VcpuSpec
=============================================================================
