------------------------------- MODULE BlockNet --------------------------------
(***************************************************************************)
(* A disk image on a web server (platform/curl/block_net.cpp): a cache of  *)
(* blocks fetched whole, alone or in prefetched groups, clusters for what  *)
(* the guest has written, and a queue of requests, the first of which is   *)
(* served.  The transfers are those of platform/curl/fs_wget.cpp, which    *)
(* the event loop performs, in any order.  Everything runs with the        *)
(* device lock held; a call of the device's and a callback is a step.      *)
(*                                                                         *)
(* A sector of the image holds its own number, one that was written what   *)
(* was written.  A cluster is a part of a block, as it is for every image  *)
(* with blocks of 4 KB or more.                                            *)
(***************************************************************************)
EXTENDS Integers, SequencesExt, FiniteSets

CONSTANTS
    BlockCount, BlockSize, ClusterSize,     \* sizes in sectors
    CacheMax,                               \* n_cached_blocks_max
    Completions,                            \* negative: also what is written
    Uses                                    \* prefetch, group, requests, ops

VARIABLES
    dev,        \* BlockDeviceHTTP and its transfers
    drv,        \* the device the image belongs to
    uses

vars == <<dev, drv, uses>>

Sectors == 0..BlockCount * BlockSize - 1
Blocks == 0..BlockCount - 1
Clusters == 0..(BlockCount * BlockSize) \div ClusterSize - 1
NoCluster == <<>>
NoBlock == -1           \* of a group's: it is there already
Blank == -100           \* a buffer nothing was loaded into
Lost == -101            \* a sector whose write was cancelled

CachedBlock == [num : Blocks, state : {"loading", "loaded"},
                data : Blocks \cup {Blank}]

TypeOK ==
    /\ dev.cached \in Seq(CachedBlock)
    /\ \A x \in dev.loads : /\ x.nums \in Seq(Blocks)
                            /\ x.tab \in Seq(Blocks \cup {NoBlock})
                            /\ Len(x.tab) = Len(x.nums)
    /\ \A c \in Clusters : \/ dev.clusters[c] = NoCluster
                           \/ dev.clusters[c] \in Seq(Sectors \cup Completions)
    /\ \A i \in 1..Len(dev.requests) :
         LET r == dev.requests[i]
         IN  /\ r.c \in Completions /\ r.index \in 0..r.count
             /\ ~r.write => Len(r.buf) = r.index
    /\ {dev.pump, dev.pumping, dev.exited} \subseteq BOOLEAN
    /\ drv.waits \subseteq Completions

-----------------------------------------------------------------------------
(* The cache, most recently used first. *)

Position(d, num) == {i \in 1..Len(d.cached) : d.cached[i].num = num}

(* bf_find_block(), which moves the block to the front. *)
Found(d, num) == Position(d, num) # {}
FindBlock(d, num) ==
    LET i == CHOOSE j \in Position(d, num) : TRUE
    IN  [d EXCEPT !.cached = <<d.cached[i]>> \o RemoveAt(d.cached, i)]

(* Mutant: a block that is still loading may go. *)
EvictAny(s) ==
    LET keep == IF CacheMax - 1 < Len(s) THEN CacheMax - 1 ELSE Len(s)
    IN  SubSeq(s, 1, keep)

(* The least recently used of the loaded blocks are freed, until there is  *)
(* room for another or there are none.                                     *)
RECURSIVE EvictFrom(_, _)
EvictFrom(s, i) ==
    IF i = 0 \/ Len(s) < CacheMax THEN s
    ELSE EvictFrom(IF s[i].state = "loaded" THEN RemoveAt(s, i) ELSE s, i - 1)
Evict(s) == EvictFrom(s, Len(s))

(* bf_add_block() *)
AddBlock(d, num) ==
    [d EXCEPT !.cached = <<[num |-> num, state |-> "loading", data |-> Blank]>>
                         \o Evict(d.cached)]

(* bf_start_load_block() *)
StartLoadBlock(d, num) ==
    [AddBlock(d, num) EXCEPT !.loads = @ \cup {[nums |-> <<num>>,
                                               tab |-> <<num>>]}]

(* bf_start_load_prefetch_group(): only what is not there is filled. *)
RECURSIVE GroupBlocks(_, _, _)
GroupBlocks(d, nums, tab) ==
    IF Len(tab) = Len(nums) THEN [d |-> d, tab |-> tab]
    ELSE LET num == nums[Len(tab) + 1]
         IN  IF Found(d, num)
             THEN GroupBlocks(FindBlock(d, num), nums, Append(tab, NoBlock))
             ELSE GroupBlocks(AddBlock(d, num), nums, Append(tab, num))
StartLoadPrefetchGroup(d, nums) ==
    LET g == GroupBlocks(d, nums, <<>>)
    IN  IF \A i \in 1..Len(nums) : g.tab[i] = NoBlock THEN g.d
        ELSE [g.d EXCEPT !.loads = @ \cup {[nums |-> nums, tab |-> g.tab]}]

-----------------------------------------------------------------------------
(* Requests. *)

First(d) == d.requests[1]
Served(d, r) == [d EXCEPT !.requests[1] = r]
Least(a, b) == IF a < b THEN a ELSE b
Finished(d) == First(d).index = First(d).count
Sector(r) == r.start + r.index

(* The buffer's next n sectors are those of f from off on, or the other    *)
(* way round.                                                              *)
Taken(r, n, f(_)) == [r EXCEPT !.index = @ + n,
                              !.buf = @ \o [i \in 1..n |-> f(i - 1)]]
Passed(r, n) == [r EXCEPT !.index = @ + n]

InCluster(d) ==
    LET r == First(d)
        num == Sector(r) \div ClusterSize
        off == Sector(r) % ClusterSize
        n == Least(r.count - r.index, ClusterSize - off)
        put == [i \in 1..ClusterSize |->
                  IF i \in off + 1..off + n THEN r.c ELSE d.clusters[num][i]]
    IN  IF r.write
        THEN [Served(d, Passed(r, n)) EXCEPT !.clusters[num] = put]
        ELSE Served(d, Taken(r, n, LAMBDA i : d.clusters[num][off + i + 1]))

(* What a block holds at an offset. *)
At(b, off) == IF b.data = Blank THEN Blank ELSE b.data * BlockSize + off

(* A write to a block makes a cluster of the part it falls in. *)
AllocCluster(d, b) ==
    LET num == Sector(First(d)) \div ClusterSize
        off == (num * ClusterSize) % BlockSize
    IN  [d EXCEPT !.clusters[num] =
                    [i \in 1..ClusterSize |-> At(b, off + i - 1)]]

FromBlock(d, b) ==
    LET r == First(d)
        off == Sector(r) % BlockSize
        n == Least(r.count - r.index, BlockSize - off)
    IN  Served(d, Taken(r, n, LAMBDA i : At(b, off + i)))

(* bf_rw_step() *)
RECURSIVE RwStep(_)
RwStep(d) ==
    LET r == First(d)
        num == Sector(r) \div BlockSize
        f == FindBlock(d, num)
    IN  CASE Finished(d) -> d
          [] ~Finished(d) /\ d.clusters[Sector(r) \div ClusterSize] # NoCluster ->
               RwStep(InCluster(d))
          [] ~Finished(d) /\ d.clusters[Sector(r) \div ClusterSize] = NoCluster ->
               IF ~Found(d, num) THEN StartLoadBlock(d, num)
               ELSE IF f.cached[1].state = "loading" THEN f
               ELSE IF r.write THEN RwStep(AllocCluster(f, f.cached[1]))
               ELSE RwStep(FromBlock(f, f.cached[1]))

Popped(d) == [d EXCEPT !.requests = Tail(@)]

(* bf_schedule_pump() *)
SchedulePump(d) == [d EXCEPT !.pump = @ \/ d.requests # <<>>]

-----------------------------------------------------------------------------
(* The device.  What it may expect of a read is what the writes before it  *)
(* in the queue leave.                                                     *)

Range0(r) == r.start..r.start + r.count - 1

Expected(r) == [i \in 1..r.count |-> drv.disk[r.start + i - 1]]
Written(disk, r, v) ==
    [s \in Sectors |-> IF r.write /\ s \in Range0(r) THEN v ELSE disk[s]]

(* A read's data is what was expected of it, where that is known. *)
AsExpected(r, expect) ==
    r.write \/ \A i \in 1..r.count : expect[i] \in {Lost, r.buf[i]}

(* bf_rw_async(): served at once if nothing is ahead of it. *)
RwAsync(r) ==
    /\ ~dev.exited /\ r.c \notin drv.waits
    /\ LET d == [dev EXCEPT !.requests = Append(@, r)]
           e == IF Len(d.requests) > 1 THEN d ELSE RwStep(d)
           now == Len(d.requests) = 1 /\ Finished(e)
       IN  /\ dev' = IF now THEN Popped(e) ELSE e
           /\ drv' = [drv EXCEPT
                 !.waits = IF now THEN @ ELSE @ \cup {r.c},
                 !.expect[r.c] = IF now THEN <<>> ELSE Expected(r),
                 !.disk = Written(@, r, r.c),
                 !.wrong = @ \/ (now /\ ~AsExpected(First(e), Expected(r)))]
    /\ UNCHANGED uses

(* ReadAsync(), WriteAsync(), from a processor or inside a completion. *)
ReadWriteAsync ==
    \E q \in uses.reqs, c \in Completions :
      RwAsync([c |-> c, write |-> q.write, start |-> q.start,
               count |-> q.count, index |-> 0, buf |-> <<>>])

(* Mutant: whoever is next waits for a block to be loaded. *)
CancelOnly(c) ==
    [dev EXCEPT !.requests = SelectSeq(@, LAMBDA r : r.c # c)]

(* Cancel(): the next one may be waiting for nothing but its turn. *)
Cancel(c) ==
    SchedulePump([dev EXCEPT !.requests = SelectSeq(@, LAMBDA r : r.c # c)])

CancelOne ==
    \E i \in 1..Len(dev.requests) :
      LET r == dev.requests[i]
          lost == IF r.write THEN Range0(r) ELSE {}
          forget(c) == LET j == CHOOSE k \in 1..Len(dev.requests) :
                                  dev.requests[k].c = c
                       IN  [n \in 1..Len(drv.expect[c]) |->
                              IF dev.requests[j].start + n - 1 \in lost
                              THEN Lost ELSE drv.expect[c][n]]
      IN  /\ "cancel" \in uses.ops /\ ~dev.exited
          /\ dev' = Cancel(r.c)
          /\ drv' = [drv EXCEPT
                !.waits = @ \ {r.c},
                !.disk = Written(@, r, Lost),
                !.expect = [c \in Completions |->
                              IF c \in drv.waits \ {r.c} THEN forget(c)
                              ELSE <<>>]]
          /\ UNCHANGED uses

-----------------------------------------------------------------------------
(* The event loop. *)

(* Mutant: the data of a group is that of the blocks to fill alone. *)
UpdateBlocksPacked(d, x) ==
    [d EXCEPT !.cached = [i \in 1..Len(d.cached) |->
       LET b == d.cached[i]
           fill == SelectSeq(x.tab, LAMBDA n : n # NoBlock)
           at == {j \in 1..Len(fill) : fill[j] = b.num}
       IN  IF at = {} THEN b
           ELSE [b EXCEPT !.state = "loaded",
                          !.data = x.nums[CHOOSE j \in at : TRUE]]]]

(* bf_update_block(), for each block of a transfer that is to be filled. *)
UpdateBlocks(d, x) ==
    [d EXCEPT !.cached = [i \in 1..Len(d.cached) |->
       LET b == d.cached[i]
           at == {j \in 1..Len(x.tab) : x.tab[j] = b.num}
       IN  IF at = {} THEN b
           ELSE [b EXCEPT !.state = "loaded",
                          !.data = x.nums[CHOOSE j \in at : TRUE]]]]

(* CachedBlockLoader::WGetWrite(), PrefetchGroupRequest::WGetWrite(): what *)
(* came is the size of what was asked for.                                 *)
WGetWrite ==
    \E x \in dev.loads :
      /\ ~dev.exited /\ ~dev.pumping
      /\ dev' = SchedulePump(UpdateBlocks([dev EXCEPT !.loads = @ \ {x}], x))
      /\ UNCHANGED <<drv, uses>>

(* A transfer the server refuses ends the emulator. *)
LoadFails ==
    /\ "fails" \in uses.ops /\ dev.loads # {} /\ ~dev.exited /\ ~dev.pumping
    /\ dev' = [dev EXCEPT !.exited = TRUE]
    /\ UNCHANGED <<drv, uses>>

(* Dispatch(), and bf_pump(), which goes on after each completion until    *)
(* the first request waits for a block; the completion may do anything the *)
(* device does.                                                            *)
Pump ==
    /\ (dev.pump \/ dev.pumping) /\ ~dev.exited
    /\ LET d == [dev EXCEPT !.pump = @ /\ dev.pumping]
           e == RwStep(d)
       IN  IF d.requests = <<>>
           THEN dev' = [d EXCEPT !.pumping = FALSE] /\ UNCHANGED drv
           ELSE IF ~Finished(e)
           THEN dev' = [e EXCEPT !.pumping = FALSE] /\ UNCHANGED drv
           ELSE /\ dev' = [Popped(e) EXCEPT !.pumping = TRUE]
                /\ drv' = [drv EXCEPT
                     !.waits = @ \ {First(e).c},
                     !.expect[First(e).c] = <<>>,
                     !.wrong = \/ @ \/ First(e).c \notin drv.waits
                               \/ ~AsExpected(First(e),
                                              drv.expect[First(e).c])]
    /\ UNCHANGED uses

Exited == dev.exited /\ UNCHANGED vars

-----------------------------------------------------------------------------

(* BlockDeviceHTTP::WGetWrite(): the blocks the image's description names  *)
(* are prefetched, in groups, before the machine starts.                   *)
RECURSIVE Prefetch(_, _, _)
Prefetch(d, nums, len) ==
    LET l == Least(Len(nums), len)
        group == SubSeq(nums, 1, l)
        rest == SubSeq(nums, l + 1, Len(nums))
    IN  IF nums = <<>> THEN d
        ELSE IF l > 1 THEN Prefetch(StartLoadPrefetchGroup(d, group), rest, len)
        ELSE Prefetch(IF Found(d, nums[1]) THEN FindBlock(d, nums[1])
                      ELSE StartLoadBlock(d, nums[1]), rest, len)

Empty == [cached |-> <<>>, loads |-> {}, requests |-> <<>>,
          clusters |-> [c \in Clusters |-> NoCluster],
          pump |-> FALSE, pumping |-> FALSE, exited |-> FALSE]

Init ==
    /\ uses \in Uses
    /\ dev = Prefetch(Empty, uses.prefetch, uses.group)
    /\ drv = [waits |-> {}, expect |-> [c \in Completions |-> <<>>],
              disk |-> [s \in Sectors |-> s], wrong |-> FALSE]

Next == \/ ReadWriteAsync \/ CancelOne
        \/ WGetWrite \/ LoadFails \/ Pump \/ Exited

Spec == Init /\ [][Next]_vars

-----------------------------------------------------------------------------

(* Every request the device waits for is in the queue once, and no other   *)
(* is (bf_rw_async(), Cancel(), bf_pump()).                                *)
EachOnce ==
    /\ {dev.requests[i].c : i \in 1..Len(dev.requests)} = drv.waits
    /\ Len(dev.requests) = Cardinality(drv.waits)

(* A read returns what the requests before it wrote, and the image where   *)
(* they wrote nothing (bf_rw_step(), bf_update_block()).                   *)
ReadsSeeWrites == ~drv.wrong

(* A queue that is not empty is to be looked at, or its first request's    *)
(* block is loading; a block is loading just while one transfer is to fill *)
(* it (bf_schedule_pump(), bf_add_block()).                                *)
Filling(num) == {x \in dev.loads : \E i \in 1..Len(x.tab) : x.tab[i] = num}

NoneStuck ==
    /\ \A i \in 1..Len(dev.cached) :
         Cardinality(Filling(dev.cached[i].num))
           = (IF dev.cached[i].state = "loading" THEN 1 ELSE 0)
    /\ \A x \in dev.loads : \A i \in 1..Len(x.tab) :
         x.tab[i] # NoBlock => Found(dev, x.tab[i])
    /\ dev.requests # <<>> /\ ~dev.pump /\ ~dev.pumping =>
         /\ dev.clusters[Sector(First(dev)) \div ClusterSize] = NoCluster
         /\ \E i \in 1..Len(dev.cached) :
              /\ dev.cached[i].num = Sector(First(dev)) \div BlockSize
              /\ dev.cached[i].state = "loading"
=============================================================================
