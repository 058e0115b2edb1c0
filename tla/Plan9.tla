-------------------------------- MODULE Plan9 --------------------------------
(* The shared directory: the virtio 9P device (device/fs/virtio_9p.cpp)    *)
(* over a directory of the host (platform/posix/fs_disk.cpp) or over the   *)
(* file system in memory whose files are fetched when they are opened      *)
(* (platform/curl/fs_net.cpp).                                             *)
(*                                                                         *)
(* A request is handled whole, and answered, except for an open whose file *)
(* has to be fetched: the requests behind it stay in the queue until the   *)
(* fetch calls back, and are handled inside that call.  A message is a     *)
(* record, an error a string.  A file of the host directory is a path and  *)
(* a handle; a file in memory is an inode with its two counts.             *)
EXTENDS Integers, Sequences, FiniteSets, TLC

CONSTANTS
    Root,           \* the path of the shared directory
    CacheLimit,     \* inode_cache_size_limit
    MaxBlocks,      \* fs_max_blocks
    MaxQueued,      \* requests the guest has under way
    Uses            \* what a run asks for: see Scenario

VARIABLES
    dev,    \* the device, its files and the file system
    drv,    \* what the guest has asked, and the logical contents of files
    uses    \* the scenario, chosen at the start

vars == <<dev, drv, uses>>

None == 0
Boot == -1          \* the completion of the loader, not of a request
BootFid == -1

(* Restricting a function, and extending it. *)
Less(f, x) == [y \in DOMAIN f \ {x} |-> f[y]]
More(f, x, v) == [y \in DOMAIN f \cup {x} |-> IF y = x THEN v ELSE f[y]]
Sum(S, f) ==
    LET RECURSIVE Add(_)
        Add(T) == IF T = {} THEN 0
                  ELSE LET x == CHOOSE y \in T : TRUE
                       IN f[x] + Add(T \ {x})
    IN Add(S)
Without(q, x) == SelectSeq(q, LAMBDA y : y # x)
Occurs(q, x) == \E i \in DOMAIN q : q[i] = x

---------------------------------------------------------------------------
(* The inodes of the file system in memory.  (want is what the file should *)
(* hold, for the properties.)                                              *)

NoInfo == [kind |-> "none", pos |-> 0, fid |-> None, done |-> None,
           files |-> <<>>, of |-> None, off |-> 0]
Dir(ents) == [type |-> "dir", ents |-> ents, refs |-> 1, opens |-> 0,
              state |-> "local", size |-> 0, data |-> <<>>, id |-> None,
              oi |-> NoInfo, want |-> <<>>]
Reg == [Dir(<<>>) EXCEPT !.type = "reg", !.ents = [x \in {} |-> None]]

IncRef(w, n) == [w EXCEPT !.ino[n].refs = @ + 1]
IncOpen(w, n) == [w EXCEPT !.ino[n].opens = @ + 1]

(* to_blocks() of the directory's own size: it is small. *)
DirBlocks(ents) == IF DOMAIN ents = {} THEN 0 ELSE 1

(* inode_search() *)
Search(w, n, name) ==
    IF w.ino[n].type = "dir" /\ name \in DOMAIN w.ino[n].ents
      THEN w.ino[n].ents[name] ELSE None

SetEnts(w, n, ents) ==
    [w EXCEPT !.ino[n].ents = ents,
              !.blocks = @ + DirBlocks(ents) - DirBlocks(w.ino[n].ents)]

(* inode_dir_add(): the caller has counted the reference. *)
DirAdd(w, n, name, n1) == SetEnts(w, n, More(w.ino[n].ents, name, n1))
DirentDeleteNoDecref(w, n, name) == SetEnts(w, n, Less(w.ino[n].ents, name))

(* inode_new() *)
NewNode(w, rec) ==
    [w EXCEPT !.ino = More(@, w.alloc, rec), !.alloc = @ + 1]

(* fs_open_end(): a file of an archive leaves the archive's list. *)
OpenEnd(w, n, oi) ==
    IF oi.kind # "file" \/ oi.of \notin DOMAIN w.ino THEN w
    ELSE IF w.ino[oi.of].oi = NoInfo THEN w
    ELSE [w EXCEPT !.ino[oi.of].oi.files = Without(@, n)]

(* fs_trim_cache(): from the end of the list, files nobody has open.       *)
(* Mutant: open ones too.                                                  *)
RECURSIVE TrimFrom(_, _, _, _)
TrimFrom(w, i, added, any) ==
    IF i = 0 \/ w.cacheSize + added <= CacheLimit THEN w
    ELSE LET n == w.cache[i] IN
         TrimFrom(IF w.ino[n].opens # 0 /\ ~any THEN w
                  ELSE [w EXCEPT !.ino[n].state = "unloaded",
                                 !.ino[n].data = <<>>,
                                 !.cache = Without(@, n),
                                 !.cacheSize = @ - w.ino[n].size],
                  i - 1, added, any)
TrimOpenToo(w, added) == TrimFrom(w, Len(w.cache), added, TRUE)
TrimCache(w, added) == TrimFrom(w, Len(w.cache), added, FALSE)

(* fs_open_wget(): the transfer starts, for an archive's file with that    *)
(* of the archive.  The memory of the record is the allocator's: what      *)
(* completion holds before it is set is what was there.                    *)
OpenWget(w, n, kind) ==
    LET t == TrimCache(w, w.ino[n].size) IN
    [t EXCEPT !.ino[n].state = "loading",
              !.ino[n].oi = [NoInfo EXCEPT !.kind = kind,
                                           !.done = w.heap]]

---------------------------------------------------------------------------
(* Files that are fetched ahead, with the one that is opened. *)

RootInode == 1
Unloaded(w, name) ==
    LET n == Search(w, RootInode, name) IN
    n # None /\ w.ino[n].type = "reg" /\ w.ino[n].state = "unloaded"

(* fs_preload_file() *)
PreloadFile(w, name) ==
    IF Unloaded(w, name) THEN OpenWget(w, Search(w, RootInode, name), "reg")
    ELSE w

RECURSIVE PreloadEach(_, _)
PreloadEach(w, names) ==
    IF names = <<>> THEN w
    ELSE PreloadEach(PreloadFile(w, Head(names)), Tail(names))

(* The files of the archive begin to load with it, each at its offset; one *)
(* that is not what the archive holds is fetched by itself.  Mutant: the   *)
(* offset counts only the files that are taken from it.                    *)
RECURSIVE JoinArchive(_, _, _, _, _)
JoinArchive(w, n, files, off, skip) ==
    IF files = <<>> THEN w
    ELSE LET p == Head(files)
             n1 == Search(w, RootInode, p.name)
             fits == w.ino[n1].size = p.size /\ w.ino[n1].id = p.id
             take == Unloaded(w, p.name)
             w1 == IF ~take THEN w
                   ELSE IF ~fits THEN PreloadFile(w, p.name)
                   ELSE [OpenWget(w, n1, "file")
                           EXCEPT !.ino[n1].oi.of = n,
                                  !.ino[n1].oi.off = off,
                                  !.ino[n].oi.files = Append(@, n1)]
         IN JoinArchive(w1, n, Tail(files),
                        IF take \/ ~skip THEN off + p.size ELSE off, skip)
JoinPacked(w, n, files) == JoinArchive(w, n, files, 0, TRUE)
Join(w, n, files) == JoinArchive(w, n, files, 0, FALSE)

(* fs_preload_archive() *)
PreloadArchive(w, name) ==
    IF name \notin DOMAIN w.lists.archives THEN w
    ELSE LET files == w.lists.archives[name]
             n == Search(w, RootInode, name)
             size == Sum(DOMAIN files,
                         [i \in DOMAIN files |-> files[i].size])
             each == PreloadEach(w, [i \in DOMAIN files |-> files[i].name])
         IN IF ~Unloaded(w, name) THEN each
            ELSE IF ~ \E i \in DOMAIN files : Unloaded(w, files[i].name)
              THEN w
            ELSE IF size # w.ino[n].size THEN each
            ELSE Join(OpenWget(w, n, "archive"), n, files)

(* fs_preload_files() *)
RECURSIVE PreloadList(_, _)
PreloadList(w, list) ==
    IF list = <<>> THEN w
    ELSE PreloadList(IF Head(list).archive
                       THEN PreloadArchive(w, Head(list).name)
                       ELSE PreloadFile(w, Head(list).name), Tail(list))
PreloadFiles(w, id) ==
    IF id \in DOMAIN w.lists.preload THEN PreloadList(w, w.lists.preload[id])
    ELSE w

---------------------------------------------------------------------------
(* What the operations of the file system in memory do: each gives the     *)
(* state after it and its error.                                           *)

Did(w, err) == [w |-> w, err |-> err, data |-> <<>>]

(* file_buffer_set() zeroes what the file grows by. *)
Cut(data, size) ==
    [i \in 1..size |-> IF i \in DOMAIN data THEN data[i] ELSE 0]

ToLocal(w, n) ==
    IF w.ino[n].state # "loaded" THEN w
    ELSE [w EXCEPT !.ino[n].state = "local", !.cache = Without(@, n),
                   !.cacheSize = @ - w.ino[n].size]

(* fs_truncate() *)
Truncate(w, n, size) ==
    LET f == w.ino[n]
        diff == size - f.size
        Sized(v) == [v EXCEPT !.ino[n].size = size, !.blocks = @ + diff,
                              !.ino[n].want = Cut(@, size)]
    IN IF f.type # "reg" THEN Did(w, "EINVAL")
       ELSE IF diff = 0 THEN Did(w, "OK")
       ELSE IF f.state = "loading" THEN Did(w, "EIO")
       ELSE IF f.state = "unloaded"
         THEN Did(Sized([w EXCEPT !.ino[n].state =
                           IF size = 0 THEN "local" ELSE @]), "OK")
       ELSE IF diff > 0 /\ w.blocks + diff > MaxBlocks
         THEN Did(w, "ENOSPC")
       ELSE Did(Sized([ToLocal(w, n) EXCEPT !.ino[n].data = Cut(@, size)]),
                "OK")

(* fs_open() *)
NetOpen(w, fid, r, done) ==
    LET n == w.fids[fid].n
        w0 == [w EXCEPT !.fids[fid].open = FALSE,
                        !.fids[fid].wr = r.wr]
        w1 == IF r.trunc /\ r.wr THEN Truncate(w0, n, 0).w ELSE w0
        Opened(v) == Did([v EXCEPT !.fids[fid].open = TRUE], "OK")
        Wait(v) == Did([v EXCEPT !.ino[n].oi.fid = fid,
                                 !.ino[n].oi.done = done], "WAIT")
        Loading(v) == IF v.ino[n].oi.done # None THEN Did(v, "EIO")
                      ELSE Wait(v)
    IN CASE w.ino[n].type = "dir" -> Opened(w0)
         [] w.ino[n].type \notin {"dir", "reg"} ->
              Did([w EXCEPT !.fids[fid].open = FALSE], "EINVAL")
         [] w.ino[n].type = "reg" ->
              LET s == w1.ino[n].state IN
              CASE s = "unloaded" ->
                     LET p == PreloadFiles(w1, w1.ino[n].id) IN
                     IF p.ino[n].state = "loading" THEN Loading(p)
                     ELSE Wait(OpenWget(p, n, "reg"))
                [] s = "loading" -> Loading(w1)
                [] s = "local" -> Opened(w1)
                [] s = "loaded" ->
                     Opened([w1 EXCEPT !.cache = <<n>> \o Without(@, n)])

(* What a call still has to do, the innermost first: the loops and the     *)
(* callbacks inside which the handling of other requests runs.             *)
Job(k, n) == [k |-> k, n |-> n, m |-> None, err |-> "OK", data |-> <<>>,
              oi |-> NoInfo]
Then(w, jobs) == [w EXCEPT !.jobs = jobs \o @]

(* P9OpenInfo::Complete() and KernelLoadCompletion::Complete(): the reply, *)
(* and then the requests that have waited.  Mutant: they wait on.          *)
Answer(w, tag, err, data) ==
    [w EXCEPT !.answers = Append(@, [tag |-> tag, err |-> err,
                                     data |-> data])]
CompleteFrom(w, done, err, after) ==
    IF done = Boot THEN Then(w, <<Job("boot", None)>>)
    ELSE IF done # w.busy THEN [w EXCEPT !.bad = TRUE]
    ELSE Then([Answer(w, done, err, <<>>) EXCEPT !.busy = None], after)
CompleteLeaves(w, done, err) == CompleteFrom(w, done, err, <<>>)
Complete(w, done, err) ==
    CompleteFrom(w, done, err, <<Job("queue", None)>>)

(* fs_wget_set_loaded(), fs_wget_set_error(), and fs_open_end() after the  *)
(* callback.                                                               *)
SetLoaded(w, n) ==
    LET oi == w.ino[n].oi
        w1 == Then([w EXCEPT !.ino[n].state = "loaded",
                             !.cache = <<n>> \o @,
                             !.cacheSize = @ + w.ino[n].size],
                   <<[Job("end", n) EXCEPT !.oi = oi]>>)
    IN IF oi.done = None THEN w1
       ELSE IF oi.fid = None THEN [w1 EXCEPT !.bad = TRUE]
       ELSE Complete([w1 EXCEPT !.fids[oi.fid].open = TRUE], oi.done, "OK")
SetError(w, n) ==
    LET oi == w.ino[n].oi
        w1 == Then([w EXCEPT !.ino[n].state = "unloaded",
                             !.ino[n].data = <<>>],
                   <<[Job("end", n) EXCEPT !.oi = oi, !.err = "EIO"]>>)
    IN IF oi.done = None THEN w1 ELSE Complete(w1, oi.done, "EIO")
Ended(w, n, oi, err) ==
    LET w1 == OpenEnd(w, n, oi) IN
    IF n \in DOMAIN w1.ino /\ (err = "EIO" => w1.ino[n].oi = oi)
      THEN [w1 EXCEPT !.ino[n].oi = NoInfo] ELSE w1

(* fs_read_archive(), fs_error_archive(): the loops over an archive's      *)
(* files hold the next one across the body.                                *)
Following(files, m) ==
    LET i == CHOOSE j \in DOMAIN files : files[j] = m
    IN IF i = Len(files) THEN None ELSE files[i + 1]
Held(w, n, m) ==
    n \in DOMAIN w.ino /\ w.ino[n].oi # NoInfo /\ Occurs(w.ino[n].oi.files, m)
First(w, n) ==
    IF w.ino[n].oi.files = <<>> THEN None ELSE Head(w.ino[n].oi.files)
Loop(k, w, n) == [Job(k, n) EXCEPT !.m = First(w, n)]
FromArchive(w, n, m) ==
    LET off == w.ino[m].oi.off IN
    SubSeq(w.ino[n].data, off + 1, off + w.ino[m].size)
Each(w, j) ==
    LET w1 == Then(w, <<[j EXCEPT !.m =
                           Following(w.ino[j.n].oi.files, j.m)]>>)
    IN IF j.m = None THEN w
       ELSE IF ~Held(w, j.n, j.m) THEN [w EXCEPT !.bad = TRUE]
       ELSE IF j.k = "lose" THEN SetError(w1, j.m)
       ELSE SetLoaded([w1 EXCEPT !.ino[j.m].data =
                         FromArchive(w, j.n, j.m)], j.m)

(* inode_free(): of a file that is loading, after its archive's. *)
Gone(w, n) ==
    LET f == w.ino[n] IN
    [w EXCEPT !.ino = Less(@, n),
              !.bad = @ \/ DOMAIN f.ents # {}
                        \/ (n = w.running /\ f.state = "loading")]
Free(w, n) ==
    LET f == w.ino[n]
        w1 == [w EXCEPT !.blocks = @ - f.size]
    IN IF f.type = "reg" /\ f.state = "loading"
         THEN Then(w1, <<Loop("lose", w, n), Job("gone", n)>>)
       ELSE Gone(IF f.type # "reg" THEN w
                 ELSE IF f.state # "loaded" THEN w1
                 ELSE [w1 EXCEPT !.cache = Without(@, n),
                                 !.cacheSize = @ - f.size], n)

(* inode_decref(), inode_dec_open() *)
DecRef(w, n) ==
    LET w1 == [w EXCEPT !.ino[n].refs = @ - 1] IN
    IF w1.ino[n].refs = 0 /\ w1.ino[n].opens = 0 THEN Free(w1, n) ELSE w1
DecOpen(w, n) ==
    LET w1 == [w EXCEPT !.ino[n].opens = @ - 1] IN
    IF w1.ino[n].opens = 0 /\ w1.ino[n].refs = 0 THEN Free(w1, n) ELSE w1

DirentDelete(w, n, name) ==
    DecRef(DirentDeleteNoDecref(w, n, name), w.ino[n].ents[name])

(* FSOpenInfo::Writer::WGetWrite(): data, the end, or an error.  The end   *)
(* of less than the whole file is an error.                                *)
Content(w, n) == w.remote[w.ino[n].id]
Arrived(w, n, len) ==
    LET pos == w.ino[n].oi.pos
        got == IF pos + len > w.ino[n].size THEN w.ino[n].size ELSE pos + len
    IN [w EXCEPT !.ino[n].oi.pos = got,
                 !.ino[n].data = SubSeq(Content(w, n), 1, got)]
WGetFailed(w, n) == Then(w, <<Loop("lose", w, n), Job("failed", n)>>)
WGetEnded(w, n) ==
    IF w.ino[n].oi.pos # w.ino[n].size THEN WGetFailed(w, n)
    ELSE Then(w, <<Loop("hand", w, n), Job("loaded", n)>>)

---------------------------------------------------------------------------
(* The rest of the file system in memory. *)

NetFile(n) == [n |-> n, open |-> FALSE, wr |-> FALSE]

(* fs_delete() *)
NetDelete(w, fid) ==
    DecOpen([w EXCEPT !.fids = Less(@, fid)], w.fids[fid].n)

(* fid_set(): the file that had the number goes. *)
NetFidSet(w, fid, n) ==
    LET w1 == IncOpen(w, n)
        w2 == IF fid \in DOMAIN w.fids THEN NetDelete(w1, fid) ELSE w1
    IN [w2 EXCEPT !.fids = More(@, fid, NetFile(n))]

(* fs_walk(): as far as the names go. *)
RECURSIVE NetWalkFrom(_, _, _)
NetWalkFrom(w, n, names) ==
    IF names = <<>> THEN n
    ELSE LET m == Search(w, n, Head(names)) IN
         IF m = None THEN n ELSE NetWalkFrom(w, m, Tail(names))
NetWalk(w, r) ==
    Did(NetFidSet(w, r.newfid, NetWalkFrom(w, w.fids[r.fid].n, r.names)),
        "OK")

(* fs_mkdir() *)
NetMkdir(w, r) ==
    LET n == w.fids[r.fid].n
        m == w.alloc
    IN IF w.ino[n].type # "dir" THEN Did(w, "ENOTDIR")
       ELSE IF Search(w, n, r.name) # None THEN Did(w, "EEXIST")
       ELSE Did(DirAdd(DirAdd(DirAdd(
                  IncRef(IncRef(NewNode(w, Dir([x \in {} |-> None])), m), n),
                  m, ".", m), m, "..", n), n, r.name, m), "OK")

(* fs_create(): the fid becomes the new file's. *)
NetCreate(w, r) ==
    LET n == w.fids[r.fid].n
        m == w.alloc
        w1 == DirAdd(NewNode(w, Reg), n, r.name, m)
    IN IF w.ino[n].type # "dir" THEN Did(w, "ENOTDIR")
       ELSE IF Search(w, n, r.name) # None THEN Did(w, "EEXIST")
       ELSE Did(IncOpen([DecOpen(w1, n) EXCEPT
                           !.fids[r.fid] = [n |-> m, open |-> TRUE,
                                            wr |-> TRUE]], m), "OK")

(* fs_symlink(), fs_mknod() *)
NetMake(w, r) ==
    LET n == w.fids[r.fid].n IN
    IF Search(w, n, r.name) # None THEN Did(w, "EEXIST")
    ELSE Did(DirAdd(NewNode(w, [Reg EXCEPT !.type =
                                  IF r.op = "symlink" THEN "lnk" ELSE "reg"]),
                    n, r.name, w.alloc), "OK")

(* fs_link() *)
NetLink(w, r) ==
    LET d == w.fids[r.fid].n
        n == w.fids[r.newfid].n
    IN IF w.ino[n].type = "dir" THEN Did(w, "EPERM")
       ELSE IF Search(w, d, r.name) # None THEN Did(w, "EEXIST")
       ELSE Did(DirAdd(IncRef(w, n), d, r.name, n), "OK")

(* fs_renameat(): the name it takes loses its file last.  Mutant: the      *)
(* reference of the moved file is not counted for its new name.            *)
NetRenameFrom(w, r, count) ==
    LET d == w.fids[r.fid].n
        e == w.fids[r.newfid].n
        n == Search(w, d, r.name)
        old == Search(w, e, r.newname)
        w1 == IF old = None THEN w ELSE DirentDeleteNoDecref(w, e, r.newname)
        w2 == DirentDelete(DirAdd(IF count THEN IncRef(w1, n) ELSE w1,
                                  e, r.newname, n), d, r.name)
    IN IF n = None THEN Did(w, "ENOENT")
       ELSE IF old # None /\ w.ino[old].type = "dir" THEN Did(w, "EEXIST")
       ELSE Did(IF old = None THEN w2 ELSE DecRef(w2, old), "OK")
NetRenameUncounted(w, r) == NetRenameFrom(w, r, FALSE)
NetRename(w, r) == NetRenameFrom(w, r, TRUE)

(* fs_unlinkat() *)
NetUnlink(w, r) ==
    LET d == w.fids[r.fid].n
        n == Search(w, d, r.name)
        flushed == DirentDelete(DirentDelete(w, n, "."), n, "..")
    IN IF n = None THEN Did(w, "ENOENT")
       ELSE IF w.ino[n].type # "dir" THEN Did(DirentDelete(w, d, r.name), "OK")
       ELSE IF DOMAIN w.ino[n].ents # {".", ".."} THEN Did(w, "ENOTEMPTY")
       ELSE Did(DirentDelete(flushed, d, r.name), "OK")

(* fs_read(), fs_write(): one unit, at r.at. *)
NetRead(w, r) ==
    LET f == w.fids[r.fid] IN
    IF ~f.open THEN Did(w, "EPROTO")
    ELSE IF w.ino[f.n].type # "reg" THEN Did(w, "EIO")
    ELSE [Did(w, "OK") EXCEPT !.data = w.ino[f.n].data]
NetWrite(w, r) ==
    LET f == w.fids[r.fid]
        n == f.n
        grown == IF r.at > w.ino[n].size THEN Truncate(w, n, r.at)
                 ELSE Did(w, "OK")
    IN IF ~f.open THEN Did(w, "EPROTO")
       ELSE IF w.ino[n].type # "reg" \/ ~f.wr THEN Did(w, "EIO")
       ELSE IF grown.err # "OK" THEN grown
       ELSE Did([ToLocal(grown.w, n) EXCEPT !.ino[n].data[r.at] = r.val,
                                            !.ino[n].want[r.at] = r.val],
                "OK")

(* fs_setattr() of the size *)
NetSetSize(w, r) == Truncate(w, w.fids[r.fid].n, r.at)

---------------------------------------------------------------------------
(* KernelLoadCompletion::Complete(): two files are loaded one after the    *)
(* other, whether or not they can be; then their lists hold.               *)

KernelFiles == <<".preload", "preload.txt">>
BootNext(w) ==
    LET w0 == IF BootFid \in DOMAIN w.fids THEN NetDelete(w, BootFid) ELSE w
        n == Search(w0, RootInode, KernelFiles[w0.boot + 1])
        w1 == NetFidSet([w0 EXCEPT !.boot = @ + 1], BootFid, n)
        o == NetOpen(w1, BootFid, [wr |-> FALSE, trunc |-> FALSE], Boot)
        Parsed(name) ==
            LET m == Search(w0, RootInode, name) IN
            m # None /\ w0.ino[m].type = "reg" /\ w0.ino[m].state = "loaded"
    IN IF w0.boot = Len(KernelFiles)
         THEN [w0 EXCEPT
                 !.started = @ + 1,
                 !.lists = IF Parsed("preload.txt") THEN w.offered.new
                           ELSE IF Parsed(".preload") THEN w.offered.old
                           ELSE @]
       ELSE IF n = None
         THEN Then([w0 EXCEPT !.boot = @ + 1], <<Job("boot", None)>>)
       ELSE IF o.err = "WAIT" THEN o.w
       ELSE Then(o.w, <<Job("boot", None)>>)

---------------------------------------------------------------------------
(* The directory of the host.  A file is a path, the handle it has open,   *)
(* and (for the properties) the file it was walked to and whether that     *)
(* file has lost the name.  The host's own calls work on the tree, a       *)
(* function from paths to files.                                           *)

DiskFile(path, is) == [path |-> path, fd |-> None, is |-> is, lost |-> FALSE]
Under(p, q) == Len(p) <= Len(q) /\ SubSeq(q, 1, Len(p)) = p
Moved(p, from, to) == to \o SubSeq(p, Len(from) + 1, Len(p))
IsDir(w, p) == p \in DOMAIN w.tree /\ w.kind[w.tree[p]] = "dir"
Parent(p) == SubSeq(p, 1, Len(p) - 1)

(* The host: link a new file or an existing one, remove a name. *)
Enter(w, p, n) == [w EXCEPT !.tree = More(@, p, n)]
Make(w, p, kind) ==
    [Enter(w, p, w.alloc) EXCEPT !.kind = More(@, w.alloc, kind),
                                 !.alloc = @ + 1]
Leave(w, p) ==
    [w EXCEPT !.tree = Less(@, p),
              !.fids = [f \in DOMAIN @ |->
                          [@[f] EXCEPT !.lost = @ \/ w.fids[f].path = p]]]

(* fs_close(): once for what was opened. *)
DiskClose(w, fid) ==
    IF w.fids[fid].fd = None THEN w
    ELSE [w EXCEPT !.fids[fid].fd = None, !.handles = @ - 1]
OpenHandle(w, fid, n) ==
    [w EXCEPT !.fids[fid].fd = n, !.handles = @ + 1]

(* fs_delete(), fid_set() *)
DiskDelete(w, fid) == [DiskClose(w, fid) EXCEPT !.fids = Less(@, fid)]
DiskFidSet(w, fid, file) ==
    LET w1 == IF fid \in DOMAIN w.fids THEN DiskDelete(w, fid) ELSE w IN
    [w1 EXCEPT !.fids = More(@, fid, file)]

(* parent_path(): no further up than the shared directory. *)
ParentPathAbove(p) == Parent(p)
ParentPath(p) == IF p = Root THEN p ELSE Parent(p)

(* fs_walk(): as far as the names go; none is a second fid of the file. *)
RECURSIVE DiskWalkFrom(_, _, _)
DiskWalkFrom(w, file, names) ==
    IF names = <<>> THEN file
    ELSE LET p == file.path
             q == IF Head(names) = "." THEN p
                  ELSE IF Head(names) = ".." THEN ParentPath(p)
                  ELSE Append(p, Head(names))
         IN IF q \notin DOMAIN w.tree THEN file
            ELSE DiskWalkFrom(w, DiskFile(q, w.tree[q]), Tail(names))
DiskWalk(w, r) ==
    Did(DiskFidSet(w, r.newfid,
                   DiskWalkFrom(w, [w.fids[r.fid] EXCEPT !.fd = None],
                                r.names)), "OK")

(* fs_open(): what was open is closed, whatever comes of it.  Mutant: it   *)
(* is left to the host.                                                    *)
DiskOpenAs(w, fid, r) ==
    LET p == w.fids[fid].path IN
    IF p \notin DOMAIN w.tree \/ w.kind[w.tree[p]] = "lnk"
      THEN Did(w, "ENOENT")
    ELSE IF IsDir(w, p) /\ r.wr THEN Did(w, "EISDIR")
    ELSE Did(OpenHandle(w, fid, w.tree[p]), "OK")
DiskOpenOver(w, fid, r) == DiskOpenAs(w, fid, r)
DiskOpen(w, fid, r) == DiskOpenAs(DiskClose(w, fid), fid, r)

(* fs_create(): the fid becomes the file's that is there now. *)
DiskCreate(w, r) ==
    LET w0 == DiskClose(w, r.fid)
        q == Append(w.fids[r.fid].path, r.name)
        w1 == IF q \in DOMAIN w.tree THEN w0 ELSE Make(w0, q, "reg")
    IN IF ~IsDir(w, Parent(q)) THEN Did(w0, "ENOTDIR")
       ELSE IF IsDir(w, q) THEN Did(w0, "EISDIR")
       ELSE Did(OpenHandle([w1 EXCEPT !.fids[r.fid] =
                              DiskFile(q, w1.tree[q])],
                           r.fid, w1.tree[q]), "OK")

(* fs_mkdir(), fs_symlink(), fs_mknod(), fs_link() *)
DiskMake(w, r) ==
    LET q == Append(w.fids[r.fid].path, r.name) IN
    IF ~IsDir(w, Parent(q)) THEN Did(w, "ENOTDIR")
    ELSE IF q \in DOMAIN w.tree THEN Did(w, "EEXIST")
    ELSE Did(Make(w, q, CASE r.op = "mkdir" -> "dir"
                          [] r.op = "symlink" -> "lnk"
                          [] r.op = "mknod" -> "reg"), "OK")
DiskLink(w, r) ==
    LET q == Append(w.fids[r.fid].path, r.name)
        p == w.fids[r.newfid].path
    IN IF p \notin DOMAIN w.tree THEN Did(w, "ENOENT")
       ELSE IF IsDir(w, p) THEN Did(w, "EPERM")
       ELSE IF ~IsDir(w, Parent(q)) THEN Did(w, "ENOTDIR")
       ELSE IF q \in DOMAIN w.tree THEN Did(w, "EEXIST")
       ELSE Did(Enter(w, q, w.tree[p]), "OK")

(* rename() of the host: what is below moves along, and the file that had  *)
(* the name is gone.                                                       *)
HostRename(w, p, q) ==
    LET out == IF q \in DOMAIN w.tree THEN Leave(w, q) ELSE w
        stay == {x \in DOMAIN out.tree : ~Under(p, x)}
        move == DOMAIN out.tree \ stay
    IN [out EXCEPT !.tree =
          [x \in stay \cup {Moved(y, p, q) : y \in move} |->
             IF x \in stay THEN @[x] ELSE @[Moved(x, q, p)]]]
RenameError(w, p, q) ==
    CASE p \notin DOMAIN w.tree -> "ENOENT"
      [] p \in DOMAIN w.tree /\ ~IsDir(w, Parent(q)) -> "ENOTDIR"
      [] p \in DOMAIN w.tree /\ IsDir(w, Parent(q)) ->
           IF p # q /\ Under(p, q) THEN "EINVAL"
           ELSE IF q \notin DOMAIN w.tree \/ p = q THEN "OK"
           ELSE IF IsDir(w, p) # IsDir(w, q) THEN "EISDIR"
           ELSE IF IsDir(w, q)
                   /\ \E x \in DOMAIN w.tree : x # q /\ Under(q, x)
             THEN "ENOTEMPTY"
           ELSE "OK"

(* move_paths(): the fids of the file and of those below it.  Mutant: only *)
(* those of the file itself.                                               *)
MovePathsOnly(w, p, q) ==
    [w EXCEPT !.fids = [f \in DOMAIN @ |->
        IF @[f].path = p THEN [@[f] EXCEPT !.path = q] ELSE @[f]]]
MovePaths(w, p, q) ==
    [w EXCEPT !.fids = [f \in DOMAIN @ |->
        IF Under(p, @[f].path)
          THEN [@[f] EXCEPT !.path = Moved(@, p, q)] ELSE @[f]]]

(* fs_renameat() *)
DiskRename(w, r) ==
    LET p == Append(w.fids[r.fid].path, r.name)
        q == Append(w.fids[r.newfid].path, r.newname)
        same == q \in DOMAIN w.tree /\ w.tree[q] = w.tree[p]
        err == RenameError(w, p, q)
    IN IF err # "OK" THEN Did(w, err)
       ELSE Did(MovePaths(IF same THEN w ELSE HostRename(w, p, q), p, q),
                "OK")

(* fs_unlinkat() *)
DiskUnlink(w, r) ==
    LET p == Append(w.fids[r.fid].path, r.name) IN
    IF p \notin DOMAIN w.tree THEN Did(w, "ENOENT")
    ELSE IF \E x \in DOMAIN w.tree : x # p /\ Under(p, x)
      THEN Did(w, "ENOTEMPTY")
    ELSE Did(Leave(w, p), "OK")

(* fs_read(), fs_write(), fs_setattr() of the size *)
DiskData(w, r) ==
    LET f == w.fids[r.fid] IN
    IF f.fd = None \/ w.kind[f.fd] # "reg" THEN Did(w, "EPROTO")
    ELSE Did(w, "OK")
DiskSetSize(w, r) ==
    LET p == w.fids[r.fid].path IN
    IF p \notin DOMAIN w.tree THEN Did(w, "ENOENT")
    ELSE IF IsDir(w, p) THEN Did(w, "EISDIR")
    ELSE Did(w, "OK")

---------------------------------------------------------------------------
(* VIRTIO9PDevice::RecvRequest() *)

Net == uses.fs = "net"

(* p9_name_ok(), p9_entry_name_ok(): "a/b" stands for the names with a     *)
(* slash.                                                                  *)
NameOk(name) == name \notin {"", "a/b"}
EntryNameOk(name) == NameOk(name) /\ name \notin {".", ".."}

RECURSIVE Elements(_)
Elements(names) ==
    IF names = <<>> \/ ~NameOk(Head(names)) THEN <<>>
    ELSE <<Head(names)>> \o Elements(Tail(names))

Attach(w, r) ==
    IF Net THEN Did(NetFidSet(w, r.fid, RootInode), "OK")
    ELSE Did(DiskFidSet(w, r.fid, DiskFile(Root, w.tree[Root])), "OK")
Walk(w, r) ==
    LET s == [r EXCEPT !.names = Elements(@)] IN
    IF r.names # <<>> /\ s.names = <<>> THEN Did(w, "ENOENT")
    ELSE IF Net THEN NetWalk(w, s) ELSE DiskWalk(w, s)
Clunk(w, r) ==
    IF r.fid \notin DOMAIN w.fids THEN Did(w, "OK")
    ELSE Did(IF Net THEN NetDelete(w, r.fid) ELSE DiskDelete(w, r.fid), "OK")
Lopen(w, r) ==
    IF Net THEN NetOpen(w, r.fid, r, r.tag) ELSE DiskOpen(w, r.fid, r)

(* The requests that name an entry: a new one, *)
Create(w, r) ==
    CASE r.op = "lcreate" -> IF Net THEN NetCreate(w, r) ELSE DiskCreate(w, r)
      [] r.op \in {"symlink", "mknod"} ->
           IF Net THEN NetMake(w, r) ELSE DiskMake(w, r)
(* or another. *)
Change(w, r) ==
    CASE r.op = "link" -> IF Net THEN NetLink(w, r) ELSE DiskLink(w, r)
      [] r.op = "mkdir" -> IF Net THEN NetMkdir(w, r) ELSE DiskMake(w, r)
      [] r.op = "renameat" ->
           IF Net THEN NetRename(w, r) ELSE DiskRename(w, r)
      [] r.op = "unlinkat" ->
           IF Net THEN NetUnlink(w, r) ELSE DiskUnlink(w, r)
Creates == {"lcreate", "symlink", "mknod"}
Changes == {"link", "mkdir", "renameat", "unlinkat"}

Data(w, r) ==
    CASE r.op = "read" -> IF Net THEN NetRead(w, r) ELSE DiskData(w, r)
      [] r.op = "write" -> IF Net THEN NetWrite(w, r) ELSE DiskData(w, r)
Setattr(w, r) == IF Net THEN NetSetSize(w, r) ELSE DiskSetSize(w, r)

(* readlink, getattr, readdir, fsync, statfs and the locks want a file and *)
(* change nothing.                                                         *)
Getattr(w, r) == Did(w, "OK")

Known(w, r) ==
    r.fid \in DOMAIN w.fids
    /\ (r.op \in {"link", "renameat"} => r.newfid \in DOMAIN w.fids)
NamesOk(r) == EntryNameOk(r.name) /\ EntryNameOk(r.newname)
OnFile(w, r) ==
    CASE r.op \in Creates -> IF NamesOk(r) THEN Create(w, r)
                             ELSE Did(w, "EINVAL")
      [] r.op \in Changes -> IF NamesOk(r) THEN Change(w, r)
                             ELSE Did(w, "EINVAL")
      [] r.op = "walk" -> Walk(w, r)
      [] r.op = "lopen" -> Lopen(w, r)
      [] r.op \in {"read", "write"} -> Data(w, r)
      [] r.op = "setattr" -> Setattr(w, r)
      [] r.op = "getattr" -> Getattr(w, r)
Result(w, r) ==
    CASE r.op = "attach" -> Attach(w, r)
      [] r.op = "clunk" -> Clunk(w, r)
      [] r.op = "flush" -> Did(w, "OK")
      [] r.op = "xattrwalk" -> Did(w, "ENOTSUP")
      [] r.op \notin {"attach", "clunk", "flush", "xattrwalk"} ->
           IF Known(w, r) THEN OnFile(w, r) ELSE Did(w, "EPROTO")

RecvRequest(w, r) ==
    LET d == Result([w EXCEPT !.jobs = <<>>], r)
        reply == [Job("reply", r.tag) EXCEPT !.err = d.err, !.data = d.data]
    IN IF d.err = "WAIT" THEN [d.w EXCEPT !.busy = r.tag, !.jobs = @ \o w.jobs]
       ELSE [d.w EXCEPT !.jobs = @ \o <<reply>> \o w.jobs]

(* queue_notify(): RecvRequest() refuses while an open waits. *)
Drain(w) ==
    IF w.busy # None \/ w.queue = <<>> THEN w
    ELSE RecvRequest(Then([w EXCEPT !.queue = Tail(@)],
                          <<Job("queue", None)>>), Head(w.queue))

(* One call from outside runs to its end. *)
Step(w, j) ==
    CASE j.k = "queue" -> Drain(w)
      [] j.k = "reply" -> Answer(w, j.n, j.err, j.data)
      [] j.k = "boot" -> BootNext(w)
      [] j.k = "loaded" -> IF j.n \in DOMAIN w.ino THEN SetLoaded(w, j.n)
                           ELSE w
      [] j.k = "failed" -> SetError(w, j.n)
      [] j.k \in {"hand", "lose"} -> Each(w, j)
      [] j.k = "end" -> Ended(w, j.n, j.oi, j.err)
      [] j.k = "gone" -> Gone(OpenEnd(w, j.n, w.ino[j.n].oi), j.n)
RECURSIVE Run(_)
Run(w) ==
    IF w.jobs = <<>> \/ w.bad THEN [w EXCEPT !.jobs = <<>>]
    ELSE Run(Step([w EXCEPT !.jobs = Tail(@)], Head(w.jobs)))
Called(w, job) == Run([w EXCEPT !.jobs = <<job>>])

---------------------------------------------------------------------------
(* The system. *)

NoLists == [preload |-> [x \in {} |-> <<>>],
            archives |-> [x \in {} |-> <<>>]]

(* fs_net_init(), disk_fs_open() *)
Fresh(u) ==
    [fids |-> [x \in {} |-> None], busy |-> None, queue |-> <<>>,
     answers |-> <<>>, jobs |-> <<>>, bad |-> FALSE, alloc |-> 2, started |-> 0,
     \* in memory
     ino |-> (1 :> [Dir(("." :> 1) @@ (".." :> 1)) EXCEPT !.refs = 3]),
     blocks |-> 1, cache |-> <<>>, cacheSize |-> 0, running |-> None,
     phase |-> "head", boot |-> 0, lists |-> NoLists, heap |-> u.heap,
     offered |-> u.offered, remote |-> [x \in {} |-> <<>>],
     \* on the host
     tree |-> (<<>> :> 0) @@ (Root :> 1),
     kind |-> (0 :> "dir") @@ (1 :> "dir"), handles |-> 0]

RECURSIVE MakeAll(_, _)
MakeAll(w, files) ==
    IF files = <<>> THEN w
    ELSE MakeAll(Make(w, Root \o Head(files).path, Head(files).kind),
                 Tail(files))

Init ==
    /\ uses \in Uses
    /\ dev = IF uses.fs = "net" THEN Fresh(uses)
             ELSE [MakeAll(Fresh(uses), uses.files) EXCEPT !.started = 1]
    /\ drv = [n |-> 0]

(* FSNetInitState::HeadLoaded::FileLoaded() and FileListLoaded: a file     *)
(* that is not there ends the program.                                     *)
HeadLoaded ==
    /\ Net /\ dev.phase = "head"
    /\ dev' = [dev EXCEPT !.phase = "list"]
    /\ UNCHANGED <<drv, uses>>

(* filelist_load_rec(), fs_net_set_url() *)
RECURSIVE LoadList(_, _)
LoadList(w, files) ==
    IF files = <<>> THEN w
    ELSE LET f == Head(files)
             size == Len(f.data)
             rec == [Reg EXCEPT !.state = IF size = 0 THEN @ ELSE "unloaded",
                                !.size = size, !.want = f.data, !.id = f.id]
             w1 == DirAdd(NewNode(w, rec), RootInode, f.name, w.alloc)
         IN LoadList([w1 EXCEPT !.blocks = @ + size,
                                !.remote = More(@, f.id, f.data)],
                     Tail(files))
FileListLoaded ==
    /\ Net /\ dev.phase = "list"
    /\ dev' = Called([LoadList(dev, uses.files) EXCEPT !.phase = "files"],
                    Job("boot", None))
    /\ UNCHANGED <<drv, uses>>

(* The guest, once it runs: a request of the scenario, while there is room *)
(* in the queue.                                                           *)
Ask ==
    /\ dev.started = 1
    /\ drv.n < uses.max
    /\ drv.n - Len(dev.answers) < MaxQueued
    /\ \E r \in uses.reqs :
         dev' = Called([dev EXCEPT !.queue =
                          Append(@, [r EXCEPT !.tag = drv.n + 1])],
                       Job("queue", None))
    /\ drv' = [drv EXCEPT !.n = @ + 1]
    /\ UNCHANGED uses

(* The network. *)
Transfers == {n \in DOMAIN dev.ino : dev.ino[n].state = "loading"
                                     /\ dev.ino[n].oi.kind # "file"}
WGetData ==
    /\ \E n \in Transfers : \E len \in 1..2 :
         /\ dev.ino[n].oi.pos < dev.ino[n].size
         /\ dev' = Arrived(dev, n, len)
    /\ UNCHANGED <<drv, uses>>
(* A transfer ends, or fails. *)
WGetEnd ==
    /\ \E n \in Transfers, failed \in {FALSE, uses.errors} :
         LET d == [dev EXCEPT !.running = n]
         IN  dev' = [Run(IF failed THEN WGetFailed(d, n) ELSE WGetEnded(d, n))
                       EXCEPT !.running = None]
    /\ UNCHANGED <<drv, uses>>

(* The guest has asked all it will, and has its answers. *)
Rest == drv.n = uses.max /\ Len(dev.answers) = drv.n /\ UNCHANGED vars

Next ==
    HeadLoaded \/ FileListLoaded \/ Ask \/ WGetData \/ WGetEnd \/ Rest

Spec == Init /\ [][Next]_vars

---------------------------------------------------------------------------
TypeOK ==
    /\ dev.busy \in 0..drv.n
    /\ dev.started \in 0..1
    /\ \A n \in DOMAIN dev.ino :
         dev.ino[n].state \in {"local", "unloaded", "loading", "loaded"}

(* Each request of the guest is answered once, in the order of the         *)
(* requests, whether or not opens before it waited for the network         *)
(* (P9OpenInfo::Complete()); and the machine is started once               *)
(* (KernelLoadCompletion::Complete()).                                     *)
EachOnce ==
    /\ \A i \in DOMAIN dev.answers : dev.answers[i].tag = i
    /\ Len(dev.answers) <= drv.n

(* A request is left in the queue only behind an open, and an open waits   *)
(* only for a file that is on its way: its own transfer runs, or that of   *)
(* an archive that lists it (fs_preload_archive()).  The same holds of the *)
(* files loaded before the machine starts.                                 *)
Coming(done) ==
    \E n \in DOMAIN dev.ino :
        /\ dev.ino[n].state = "loading" /\ dev.ino[n].oi.done = done
        /\ dev.ino[n].oi.fid \in DOMAIN dev.fids
        /\ dev.fids[dev.ino[n].oi.fid].n = n
        /\ dev.ino[n].oi.kind = "file" =>
             \E a \in Transfers : Occurs(dev.ino[a].oi.files, n)
NoneStuck ==
    /\ dev.queue # <<>> => dev.busy # None
    /\ dev.busy # None => Coming(dev.busy)
    /\ Len(dev.answers) + Len(dev.queue) + (IF dev.busy = None THEN 0 ELSE 1)
         = drv.n
    /\ Net /\ dev.phase = "files" /\ dev.started = 0 => Coming(Boot)

(* No loop over an archive's files goes on to one that the requests        *)
(* handled inside it have freed, and none frees the file whose transfer    *)
(* is calling back (fs_read_archive(), fs_error_archive()); a load nobody  *)
(* waits for calls nobody back (fs_wget_set_loaded()).                     *)
NothingStale == ~dev.bad

(* An inode's counts are the names and the fids it has, it is there while  *)
(* it has either, and blocks and cache size are those of the files         *)
(* (inode_decref(), inode_free(), fs_trim_cache()).                        *)
Counted ==
    \A n \in DOMAIN dev.ino :
        /\ dev.ino[n].opens =
             Cardinality({f \in DOMAIN dev.fids : dev.fids[f].n = n})
        /\ dev.ino[n].refs =
             Sum(DOMAIN dev.ino, [d \in DOMAIN dev.ino |->
                   Cardinality({x \in DOMAIN dev.ino[d].ents :
                                  dev.ino[d].ents[x] = n})])
             + (IF n = RootInode THEN 1 ELSE 0)
        /\ dev.ino[n].refs + dev.ino[n].opens > 0
Accounted ==
    Net =>
      /\ Counted
      /\ \A f \in DOMAIN dev.fids : dev.fids[f].n \in DOMAIN dev.ino
      /\ dev.blocks =
           Sum(DOMAIN dev.ino, [n \in DOMAIN dev.ino |->
                 dev.ino[n].size + DirBlocks(dev.ino[n].ents)])
      /\ dev.cacheSize =
           Sum(DOMAIN dev.cache,
               [i \in DOMAIN dev.cache |-> dev.ino[dev.cache[i]].size])
      /\ \A n \in DOMAIN dev.ino :
           dev.ino[n].state = "loaded" <=> Occurs(dev.cache, n)

(* What an open file holds is what was written to it, on top of what the   *)
(* network has of it, however it came: by itself, out of an archive, again *)
(* after it was dropped from the cache.                                    *)
HeldRight ==
    Net => \A f \in DOMAIN dev.fids :
             LET n == dev.ino[dev.fids[f].n] IN
             n.type = "reg" /\ dev.fids[f].open =>
               n.state \in {"local", "loaded"} /\ n.data = n.want

(* A fid names the file it was walked to, through the renames of it and of *)
(* the directories above it, until the name itself is removed or taken by  *)
(* another file (move_paths()); it does not leave the shared directory;    *)
(* and the host's open handles are those of the fids (fs_close()).         *)
FidsFollow ==
    ~Net => \A f \in DOMAIN dev.fids :
              LET x == dev.fids[f] IN
              /\ Under(Root, x.path)
              /\ ~x.lost => x.path \in DOMAIN dev.tree
                            /\ dev.tree[x.path] = x.is
                            /\ x.fd \in {None, x.is}
HandlesOwned ==
    ~Net => dev.handles =
              Cardinality({f \in DOMAIN dev.fids : dev.fids[f].fd # None})
=============================================================================
