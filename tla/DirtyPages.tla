------------------------------- MODULE DirtyPages -----------------------------
(***************************************************************************)
(* Which pages of video memory were written since they were last drawn     *)
(* (core/iomem.cpp, core/iomem.h).  A processor writes through its own     *)
(* write TLB without any lock; filling an entry marks the page in the      *)
(* bitmap in use (tlb_fill_write() in cpu/riscv/riscv_cpu_impl.h,          *)
(* tlb_fill() in cpu/x86/x86_cpu.cpp).  The machine thread, with the       *)
(* device lock, puts a cleared bitmap in its place, empties the write TLBs *)
(* and draws the pages of the old one.  What a page holds is left out: it  *)
(* is drawn as it is, or not.                                              *)
(***************************************************************************)
EXTENDS Integers

CONSTANTS
    TlbCpus,        \* the processors
    VideoPages,     \* the pages of a range with dirty bits
    Fills           \* whose way to fill an entry: "riscv", "x86"

ASSUME DirtyAssumption == VideoPages # {}

VARIABLES
    dirty_bits_tab, \* both bitmaps
    dirty_bits,     \* the index of the one in use
    tlb, found,     \* each processor's entries for writing, and those that
                    \* a flush finds
    cpu,            \* what each processor is doing
    refresh,        \* what the machine thread is doing
    drawn,          \* the pages drawn as they are
    raced,          \* history: not so, by a write older than the bitmap in use
    fill

dirtyVars == <<dirty_bits_tab, dirty_bits, tlb, found, cpu, refresh, drawn,
               raced, fill>>

CpuState ==
    [at : {"run", "mark", "fill", "test", "recheck", "store"},
     page : VideoPages, bits : 0..1, write : BOOLEAN, crossed : BOOLEAN]

Idle == [at |-> "run", page |-> CHOOSE p \in VideoPages : TRUE, bits |-> 0,
         write |-> FALSE, crossed |-> FALSE]

DirtyTypeOK ==
    /\ dirty_bits_tab \in [0..1 -> SUBSET VideoPages] /\ dirty_bits \in 0..1
    /\ tlb \in [TlbCpus -> SUBSET VideoPages]
    /\ found \in [TlbCpus -> SUBSET VideoPages]
    /\ cpu \in [TlbCpus -> CpuState]
    /\ refresh \in [at : {"idle", "switch", "scan", "flush", "draw"},
                    left : SUBSET TlbCpus, pages : SUBSET VideoPages]
    /\ drawn \subseteq VideoPages /\ raced \subseteq VideoPages
    /\ fill \in Fills

DirtyInit ==
    /\ dirty_bits_tab = [i \in 0..1 |-> {}] /\ dirty_bits = 0
    /\ tlb = [c \in TlbCpus |-> {}] /\ found = [c \in TlbCpus |-> {}]
    /\ cpu = [c \in TlbCpus |-> Idle]
    /\ refresh = [at |-> "idle", left |-> {}, pages |-> {}]
    /\ drawn = VideoPages /\ raced = {}
    /\ fill \in Fills

Goes(c, to) == cpu' = [cpu EXCEPT ![c].at = to]

(* ---- a processor ---- *)

(* A write finds its entry and is past the lookup, or loads the bitmap to  *)
(* mark.                                                                   *)
Write(c) ==
    /\ cpu[c].at = "run"
    /\ \E p \in VideoPages :
        cpu' = [cpu EXCEPT ![c] =
                    [at |-> IF p \in tlb[c] THEN "store" ELSE "mark",
                     page |-> p, bits |-> dirty_bits, write |-> TRUE,
                     crossed |-> FALSE]]
    /\ UNCHANGED <<dirty_bits_tab, dirty_bits, tlb, found, refresh, drawn,
                   raced, fill>>

(* On a PC a read fills an entry too, for writing if the page is marked. *)
Read(c) ==
    /\ cpu[c].at = "run" /\ fill = "x86"
    /\ \E p \in VideoPages :
        cpu' = [cpu EXCEPT ![c] = [at |-> "fill", page |-> p, bits |-> 0,
                                   write |-> FALSE, crossed |-> FALSE]]
    /\ UNCHANGED <<dirty_bits_tab, dirty_bits, tlb, found, refresh, drawn,
                   raced, fill>>

(* PhysMemoryRange::SetDirtyBit() *)
SetDirtyBit(c) ==
    /\ cpu[c].at = "mark" /\ Goes(c, "fill")
    /\ dirty_bits_tab' =
        [dirty_bits_tab EXCEPT ![cpu[c].bits] = @ \cup {cpu[c].page}]
    /\ UNCHANGED <<dirty_bits, tlb, found, refresh, drawn, raced, fill>>

(* PhysMemoryRange::IsDirtyBit() *)
IsDirtyBit(p) == p \in dirty_bits_tab[dirty_bits]

After(c) == IF cpu[c].write THEN "store" ELSE "run"

(* tlb_fill_write() makes the entry valid at once; tlb_fill() makes it     *)
(* valid for reading, by which the flush goes, ...                         *)
Fill(c) ==
    /\ cpu[c].at = "fill"
    /\ found' = [found EXCEPT ![c] = @ \cup {cpu[c].page}]
    /\ IF fill = "riscv"
       THEN /\ tlb' = [tlb EXCEPT ![c] = @ \cup {cpu[c].page}]
            /\ Goes(c, "recheck")
       ELSE UNCHANGED tlb /\ Goes(c, "test")
    /\ UNCHANGED <<dirty_bits_tab, dirty_bits, refresh, drawn, raced, fill>>

(* ... and then, if the page is marked, for writing. *)
FillWrite(c) ==
    /\ cpu[c].at = "test"
    /\ IF IsDirtyBit(cpu[c].page)
       THEN /\ tlb' = [tlb EXCEPT ![c] = @ \cup {cpu[c].page}]
            /\ Goes(c, "recheck")
       ELSE tlb' = [tlb EXCEPT ![c] = @ \ {cpu[c].page}] /\ Goes(c, After(c))
    /\ UNCHANGED <<dirty_bits_tab, dirty_bits, found, refresh, drawn, raced,
                   fill>>

(* Mutant: the bits are not looked at again. *)
RecheckNothing(c) ==
    /\ cpu[c].at = "recheck" /\ Goes(c, After(c))
    /\ UNCHANGED <<tlb, found, dirty_bits_tab, dirty_bits, refresh, drawn,
                   raced, fill>>

(* "either its flush sees this entry, or this sees the reset" *)
Recheck(c) ==
    /\ cpu[c].at = "recheck" /\ Goes(c, After(c))
    /\ tlb' = IF IsDirtyBit(cpu[c].page) THEN tlb
              ELSE [tlb EXCEPT ![c] = @ \ {cpu[c].page}]
    /\ UNCHANGED <<dirty_bits_tab, dirty_bits, found, refresh, drawn, raced,
                   fill>>

(* The write itself, "already past its TLB lookup" or after the fill. *)
Store(c) ==
    /\ cpu[c].at = "store" /\ cpu' = [cpu EXCEPT ![c] = Idle]
    /\ drawn' = drawn \ {cpu[c].page}
    /\ raced' = IF cpu[c].crossed THEN raced \cup {cpu[c].page} ELSE raced
    /\ UNCHANGED <<dirty_bits_tab, dirty_bits, tlb, found, refresh, fill>>

(* Entries make room for others. *)
Evict(c) ==
    /\ cpu[c].at = "run"
    /\ \E p \in tlb[c] \cup found[c] :
        /\ tlb' = [tlb EXCEPT ![c] = @ \ {p}]
        /\ found' = [found EXCEPT ![c] = @ \ {p}]
    /\ UNCHANGED <<dirty_bits_tab, dirty_bits, cpu, refresh, drawn, raced,
                   fill>>

(* ---- a thread with the device lock ---- *)

(* PhysMemoryMap::GetRamPtr() for writing *)
DeviceWrite ==
    /\ refresh.at = "idle"
    /\ \E p \in VideoPages :
        /\ dirty_bits_tab' = [dirty_bits_tab EXCEPT ![dirty_bits] = @ \cup {p}]
        /\ drawn' = drawn \ {p}
    /\ UNCHANGED <<dirty_bits, tlb, found, cpu, refresh, raced, fill>>

(* PhysMemoryMap::GetDirtyBits(): the other bitmap is cleared, ... *)
Clear ==
    /\ refresh.at = "idle"
    /\ dirty_bits_tab' = [dirty_bits_tab EXCEPT ![1 - dirty_bits] = {}]
    /\ refresh' = [refresh EXCEPT !.at = "switch"]
    /\ UNCHANGED <<dirty_bits, tlb, found, cpu, drawn, raced, fill>>

(* ... takes over, ... *)
Switch ==
    /\ refresh.at = "switch"
    /\ dirty_bits' = 1 - dirty_bits
    /\ refresh' = [refresh EXCEPT !.at = "scan"]
    /\ cpu' = [c \in TlbCpus |->
                [cpu[c] EXCEPT !.crossed = cpu[c].at # "run" /\ cpu[c].write]]
    /\ UNCHANGED <<dirty_bits_tab, tlb, found, drawn, raced, fill>>

(* ... and the entries go, if anything is marked. *)
Scan ==
    /\ refresh.at = "scan"
    /\ refresh' = IF dirty_bits_tab[1 - dirty_bits] # {}
                  THEN [refresh EXCEPT !.at = "flush", !.left = TlbCpus]
                  ELSE [refresh EXCEPT !.at = "draw", !.pages = {}]
    /\ UNCHANGED <<dirty_bits_tab, dirty_bits, tlb, found, cpu, drawn, raced,
                   fill>>

(* FlushTlbWriteRange(), one processor after the other, under a write      *)
(* already past its lookup.  The bitmap is read after the last.            *)
Flush ==
    /\ refresh.at = "flush"
    /\ \E c \in refresh.left :
        /\ tlb' = [tlb EXCEPT ![c] = @ \ found[c]]
        /\ found' = [found EXCEPT ![c] = {}]
        /\ cpu' = [cpu EXCEPT ![c].crossed = @ \/ cpu[c].at = "store"]
        /\ refresh' =
            IF refresh.left = {c}
            THEN [at |-> "draw", left |-> {},
                  pages |-> dirty_bits_tab[1 - dirty_bits]]
            ELSE [refresh EXCEPT !.left = @ \ {c}]
    /\ UNCHANGED <<dirty_bits_tab, dirty_bits, drawn, raced, fill>>

(* fb_walk_dirty_bits() *)
Draw ==
    /\ refresh.at = "draw"
    /\ \/ \E p \in refresh.pages :
            /\ refresh' = [refresh EXCEPT !.pages = @ \ {p}]
            /\ drawn' = drawn \cup {p} /\ raced' = raced \ {p}
       \/ /\ refresh.pages = {} /\ refresh' = [refresh EXCEPT !.at = "idle"]
          /\ UNCHANGED <<drawn, raced>>
    /\ UNCHANGED <<dirty_bits_tab, dirty_bits, tlb, found, cpu, fill>>

DirtyNext ==
    \/ \E c \in TlbCpus :
        Write(c) \/ Read(c) \/ SetDirtyBit(c) \/ Fill(c)
        \/ FillWrite(c) \/ Recheck(c) \/ Store(c) \/ Evict(c)
    \/ DeviceWrite \/ Clear \/ Switch \/ Scan \/ Flush \/ Draw

DirtySpec == DirtyInit /\ [][DirtyNext]_dirtyVars

(* ---- properties ---- *)

(* A processor that can write a page without marking it finds it marked:   *)
(* no entry outlives the bitmap it was filled under, except between the    *)
(* switch and the flush, and in the hands of a processor about to look.    *)
Marked(c, p) ==
    \/ IsDirtyBit(p)
    \/ refresh.at = "scan" /\ p \in dirty_bits_tab[1 - dirty_bits]
    \/ refresh.at = "flush" /\ c \in refresh.left
    \/ cpu[c].at \in {"test", "recheck"} /\ cpu[c].page = p
EntriesAreMarked == \A c \in TlbCpus : \A p \in tlb[c] : Marked(c, p)

(* The same of the entries a flush finds. *)
FoundAreMarked ==
    \A c \in TlbCpus : \A p \in tlb[c] \cap found[c] : Marked(c, p)

(* A page that is not drawn as it is will be: it is marked, or about to be *)
(* drawn, or was written by a write that a switch or a flush overtook.     *)
UndrawnIsMarked ==
    \A p \in VideoPages \ (drawn \cup raced) :
        \/ IsDirtyBit(p)
        \/ /\ refresh.at \in {"scan", "flush"}
           /\ p \in dirty_bits_tab[1 - dirty_bits]
        \/ p \in refresh.pages

(* No page a processor can write unrecorded is left unmarked by            *)
(* GetDirtyBits() at any interleaving with tlb_fill_write(), and no page   *)
(* of the screen stays as it was drawn before it was written; on a PC, of  *)
(* the entries that x86_cpu_flush_tlb_write_range_ram() finds.             *)
DirtyTracked ==
    /\ FoundAreMarked
    /\ fill = "riscv" => EntriesAreMarked /\ UndrawnIsMarked
=============================================================================
