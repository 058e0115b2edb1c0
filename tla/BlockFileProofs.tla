--------------------------- MODULE BlockFileProofs ---------------------------
(***************************************************************************)
(* For any number of requests, sectors and values: the image implements    *)
(* BlockContract, and a read that is done sees the writes queued before it.*)
(***************************************************************************)
EXTENDS BlockFile, TLAPS

(* A completion has at most one request in flight, and the device waits    *)
(* for it: Queue() is called with a completion that is free.               *)
Once(q) == \A i, j \in DOMAIN q : q[i].c = q[j].c => i = j

Apart(p, q) == \A i \in DOMAIN p, j \in DOMAIN q : p[i].c # q[j].c

Among(q, C) == \A i \in DOMAIN q : q[i].c \in C

InFlight ==
    /\ Once(fPending) /\ Once(fDone)
    /\ Apart(fPending, fDone) /\ Apart(fPending, fCurrent)
    /\ Apart(fCurrent, fDone)
    /\ Among(fPending, waits) /\ Among(fCurrent, waits) /\ Among(fDone, waits)

(* The worker has a request while it is on one, and the image is there as  *)
(* long as the worker is.                                                  *)
Working ==
    /\ wpc \in {"perform", "finish"} => Len(fCurrent) = 1
    /\ wpc \in {"wait", "ended"} => fCurrent = <<>>
    /\ wpc # "ended" => open
    /\ wpc = "ended" => fStop
    /\ fStop => cancelling = Null

(* Only a writable image has writes queued, and only snapshot mode keeps   *)
(* sectors in memory.                                                      *)
NoWrites(q) == \A i \in DOMAIN q : ~q[i].write

ModeKept ==
    /\ fMode # "RW" => NoWrites(fPending) /\ NoWrites(fCurrent)
    /\ fMode # "SNAPSHOT" => \A s \in Sectors : fSectorTable[s] = Null

(* What a read of s shows when v is in the file. *)
Overlay(table, s, v) == IF table[s] # Null THEN table[s] ELSE v

Writes(r, s) == r.write /\ r.sector = s

(* What the file has in s once the worker is done with its request. *)
Base(s) == IF wpc = "perform" /\ Writes(fCurrent[1], s)
           THEN buf[fCurrent[1].c] ELSE Overlay(fSectorTable, s, file[s])

(* A read of s behind the first i - 1 requests of q sees v: it is what the *)
(* last of them that writes s has in its buffer b, or there is none and it *)
(* is what was there.                                                      *)
NoneFrom(q, i, j, s) == \A k \in i..j : ~Writes(q[k], s)

Sees(q, b, base, i, s, v) ==
    \/ base = v /\ NoneFrom(q, 1, i - 1, s)
    \/ \E j \in 1..(i - 1) : /\ Writes(q[j], s) /\ b[q[j].c] = v
                             /\ NoneFrom(q, j + 1, i - 1, s)

(* So does a new read, and every outstanding one. *)
NewReads ==
    open => \A s \in Sectors : wrote[s] # Unknown =>
        Sees(fPending, buf, Base(s), Len(fPending) + 1, s, wrote[s])

Outstanding(r, s) == ~r.write /\ r.sector = s /\ expect[r.c] # Unknown

PendingReads ==
    \A s \in Sectors, i \in DOMAIN fPending :
        Outstanding(fPending[i], s) =>
            Sees(fPending, buf, Base(s), i, s, expect[fPending[i].c])

CurrentRead ==
    \A s \in Sectors, i \in DOMAIN fCurrent :
        Outstanding(fCurrent[i], s) =>
            /\ wpc = "perform" =>
                    expect[fCurrent[i].c] = Overlay(fSectorTable, s, file[s])
            /\ wpc = "finish" /\ fCurrent[i].ok =>
                    expect[fCurrent[i].c]
                        = Overlay(fSectorTable, s, buf[fCurrent[i].c])

DoneReads ==
    \A s \in Sectors, i \in DOMAIN fDone :
        Outstanding(fDone[i], s) /\ fDone[i].ok =>
            expect[fDone[i].c] = Overlay(fSectorTable, s, buf[fDone[i].c])

Reads == NewReads /\ PendingReads /\ CurrentRead /\ DoneReads

IInv == TypeOK /\ InFlight /\ Working /\ ModeKept /\ Reads

-----------------------------------------------------------------------------
(* Sequences *)

(* p is q without its k-th element. *)
Removed(q, p, k) ==
    /\ k \in 1..Len(q) /\ Len(p) = Len(q) - 1
    /\ \A j \in 1..Len(p) : p[j] = IF j < k THEN q[j] ELSE q[j + 1]

LEMMA EraseIs ==
    ASSUME NEW q \in Seq(Request), NEW k \in 1..Len(q)
    PROVE /\ Erase(q, k) \in Seq(Request)
          /\ Removed(q, Erase(q, k), k)
<1>1. /\ Len(q) \in Nat /\ k - 1 \in 0..Len(q) /\ k \in Nat
  OBVIOUS
<1> DEFINE a == SubSeq(q, 1, k - 1)
           b == SubSeq(q, k + 1, Len(q))
<1>2. a \in Seq(Request) /\ Len(a) = k - 1 /\ \A j \in 1..(k - 1) : a[j] = q[j]
  BY <1>1
<1>3. /\ b \in Seq(Request) /\ Len(b) = Len(q) - k
      /\ \A j \in 1..(Len(q) - k) : b[j] = q[j + k]
  BY <1>1
<1>4. Erase(q, k) = a \o b BY DEF Erase
<1> HIDE DEF a, b
<1>5. /\ a \o b \in Seq(Request) /\ Len(a \o b) = Len(q) - 1
      /\ \A j \in 1..(Len(q) - 1) :
            (a \o b)[j] = IF j <= k - 1 THEN a[j] ELSE b[j - (k - 1)]
  <2>1. /\ a \o b \in Seq(Request) /\ Len(a \o b) = Len(a) + Len(b)
        /\ \A j \in 1..(Len(a) + Len(b)) :
              (a \o b)[j] = IF j <= Len(a) THEN a[j] ELSE b[j - Len(a)]
    <3>1. Len(a) \in Nat /\ Len(b) \in Nat BY <1>2, <1>3
    <3>2. a \o b \in Seq(Request) BY <1>2, <1>3
    <3>3. Len(a \o b) = Len(a) + Len(b)
      <4>1. a \in Seq(Request) /\ b \in Seq(Request) BY Zenon, <1>2, <1>3
      <4> QED BY ONLY <4>1
    <3>4. ASSUME NEW j \in 1..(Len(a) + Len(b))
          PROVE (a \o b)[j] = IF j <= Len(a) THEN a[j] ELSE b[j - Len(a)]
      BY <1>2, <1>3, <3>1
    <3> QED BY Zenon, <3>2, <3>3, <3>4
  <2> QED BY <1>1, <1>2, <1>3, <2>1
<1> QED BY <1>1, <1>2, <1>3, <1>4, <1>5 DEF Removed

LEMMA TailIs ==
    ASSUME NEW q \in Seq(Request), q # <<>>
    PROVE /\ Tail(q) \in Seq(Request) /\ Head(q) = q[1] /\ q[1] \in Request
          /\ Removed(q, Tail(q), 1)
BY DEF Removed

LEMMA AppendIs ==
    ASSUME NEW q \in Seq(Request), NEW r \in Request
    PROVE /\ Append(q, r) \in Seq(Request) /\ Len(Append(q, r)) = Len(q) + 1
          /\ \A i \in 1..Len(q) : Append(q, r)[i] = q[i]
          /\ Append(q, r)[Len(q) + 1] = r
OBVIOUS

(* Cancel() leaves a queue alone or drops the one request of the           *)
(* completion's that is in it.                                             *)
LEMMA WithoutIs ==
    ASSUME NEW q \in Seq(Request), NEW c
    PROVE /\ Without(q, c) \in Seq(Request)
          /\ \/ /\ Without(q, c) = q
                /\ \A i \in 1..Len(q) : q[i].c # c
             \/ \E k \in 1..Len(q) : q[k].c = c /\ Removed(q, Without(q, c), k)
<1>1. DOMAIN q = 1..Len(q) OBVIOUS
<1>2. CASE \E i \in DOMAIN q : IsFor(q, c, i)
  <2> DEFINE k == CHOOSE i \in DOMAIN q : IsFor(q, c, i)
  <2>1. k \in DOMAIN q /\ IsFor(q, c, k) BY Zenon, <1>2
  <2>2. Without(q, c) = Erase(q, k) BY Zenon, <1>2 DEF Without
  <2> HIDE DEF k
  <2>3. k \in 1..Len(q) /\ q[k].c = c BY <2>1, <1>1 DEF IsFor
  <2> QED BY <2>2, <2>3, EraseIs
<1>3. CASE ~ \E i \in DOMAIN q : IsFor(q, c, i)
  BY Zenon, <1>1, <1>3 DEF IsFor, Without
<1> QED BY <1>2, <1>3

(* What a queue's removal keeps. *)
LEMMA RemovedKeeps ==
    ASSUME NEW q \in Seq(Request), NEW p \in Seq(Request), NEW k,
           Removed(q, p, k)
    PROVE \A j \in DOMAIN p : \E i \in DOMAIN q :
              i # k /\ p[j] = q[i] /\ i = (IF j < k THEN j ELSE j + 1)
<1>1. DOMAIN q = 1..Len(q) /\ DOMAIN p = 1..Len(p) /\ Len(q) \in Nat
  OBVIOUS
<1>2. k \in 1..Len(q) /\ Len(p) = Len(q) - 1
  BY DEF Removed
<1>3. ASSUME NEW j \in 1..Len(p)
      PROVE \E i \in 1..Len(q) :
              i # k /\ p[j] = q[i] /\ i = (IF j < k THEN j ELSE j + 1)
  <2> DEFINE i == IF j < k THEN j ELSE j + 1
  <2>1. i \in 1..Len(q) /\ i # k BY <1>1, <1>2
  <2>2. p[j] = q[i] BY DEF Removed
  <2> QED BY <2>1, <2>2
<1> QED BY <1>1, <1>3

LEMMA RemovedFrom ==
    ASSUME NEW q \in Seq(Request), NEW p \in Seq(Request), NEW k,
           Removed(q, p, k)
    PROVE \A j \in DOMAIN p : \E i \in DOMAIN q : p[j] = q[i]
<1> TAKE j \in DOMAIN p
<1>1. PICK i \in DOMAIN q :
            i # k /\ p[j] = q[i] /\ i = (IF j < k THEN j ELSE j + 1)
  BY RemovedKeeps
<1> QED BY Zenon, <1>1

-----------------------------------------------------------------------------
(* What a read sees *)

(* It depends on the buffers of the queued writes only. *)
LEMMA SeesBuffers ==
    ASSUME NEW q \in Seq(Request), NEW b, NEW d, NEW base, NEW s, NEW v,
           NEW i \in 1..(Len(q) + 1), Sees(q, b, base, i, s, v),
           \A j \in DOMAIN q : b[q[j].c] = d[q[j].c]
    PROVE Sees(q, d, base, i, s, v)
<1>1. DOMAIN q = 1..Len(q) /\ \A j \in 1..(i - 1) : j \in 1..Len(q)
  OBVIOUS
<1> QED BY Zenon, <1>1 DEF Sees

(* and on the requests before it only. *)
LEMMA SeesBefore ==
    ASSUME NEW q \in Seq(Request), NEW p \in Seq(Request), NEW b, NEW base,
           NEW s, NEW v, NEW i \in 1..(Len(q) + 1), Sees(q, b, base, i, s, v),
           \A j \in 1..Len(q) : p[j] = q[j]
    PROVE Sees(p, b, base, i, s, v)
<1>1. \A j \in 1..(i - 1) : p[j] = q[j]
  OBVIOUS
<1>2. \A k \in 1..(i - 1) : \A l \in (k + 1)..(i - 1) : l \in 1..(i - 1)
  OBVIOUS
<1> QED BY Zenon, <1>1, <1>2 DEF Sees, NoneFrom

LEMMA NoneRemoved ==
    ASSUME NEW q \in Seq(Request), NEW p \in Seq(Request), NEW k,
           Removed(q, p, k), NEW s, NEW i \in Nat \ {0}, NEW j \in Nat,
           j <= Len(q), NoneFrom(q, i, j, s)
    PROVE NoneFrom(p, IF i > k THEN i - 1 ELSE i,
                      IF j >= k THEN j - 1 ELSE j, s)
<1> DEFINE a == IF i > k THEN i - 1 ELSE i
           e == IF j >= k THEN j - 1 ELSE j
<1>1. k \in 1..Len(q) /\ Len(p) = Len(q) - 1 /\ Len(q) \in Nat
  BY DEF Removed
<1> SUFFICES ASSUME NEW x \in a..e PROVE ~Writes(p[x], s)
  BY Zenon DEF NoneFrom
<1>2. x \in 1..Len(p) BY <1>1
<1>3. CASE x < k
  <2>1. x \in i..j BY <1>1, <1>3
  <2>2. p[x] = q[x] BY <1>2, <1>3 DEF Removed
  <2> QED BY Zenon, <2>1, <2>2 DEF NoneFrom
<1>4. CASE ~(x < k)
  <2>1. x + 1 \in i..j BY <1>1, <1>4
  <2>2. p[x] = q[x + 1] BY <1>2, <1>4 DEF Removed
  <2> QED BY Zenon, <2>1, <2>2 DEF NoneFrom
<1> QED BY <1>3, <1>4

(* A request that goes does not matter to the sectors it does not write. *)
LEMMA SeesRemoved ==
    ASSUME NEW q \in Seq(Request), NEW p \in Seq(Request), NEW k,
           Removed(q, p, k), NEW b, NEW base, NEW s, NEW v,
           ~Writes(q[k], s), NEW i \in 1..(Len(q) + 1),
           Sees(q, b, base, i, s, v)
    PROVE Sees(p, b, base, IF i > k THEN i - 1 ELSE i, s, v)
<1> DEFINE a == IF i > k THEN i - 1 ELSE i
<1>1. k \in 1..Len(q) /\ Len(p) = Len(q) - 1 /\ Len(q) \in Nat
  BY DEF Removed
<1>2. (IF i - 1 >= k THEN i - 1 - 1 ELSE i - 1) = a - 1 /\ i - 1 \in Nat
      /\ i - 1 <= Len(q)
  BY <1>1
<1>3. CASE base = v /\ NoneFrom(q, 1, i - 1, s)
  <2>1. (IF 1 > k THEN 1 - 1 ELSE 1) = 1 BY <1>1
  <2>2. NoneFrom(p, 1, a - 1, s)
    BY <1>3, <1>2, <2>1, NoneRemoved, 1 \in Nat \ {0}
  <2> QED BY Zenon, <1>3, <2>2 DEF Sees
<1>4. ASSUME NEW j \in 1..(i - 1), Writes(q[j], s), b[q[j].c] = v,
             NoneFrom(q, j + 1, i - 1, s)
      PROVE Sees(p, b, base, a, s, v)
  <2> DEFINE h == IF j > k THEN j - 1 ELSE j
  <2>1. j # k BY Zenon, <1>4
  <2>2. h \in 1..(a - 1) /\ h \in 1..Len(p) BY <1>1, <2>1
  <2>3. p[h] = q[j] BY <1>1, <2>1, <2>2 DEF Removed
  <2>4. (IF j + 1 > k THEN j + 1 - 1 ELSE j + 1) = h + 1 /\ j + 1 \in Nat \ {0}
    BY <1>1, <2>1
  <2>5. NoneFrom(p, h + 1, a - 1, s)
    BY <1>4, <1>2, <2>4, NoneRemoved
  <2> HIDE DEF a, h
  <2> QED BY Zenon, <1>4, <2>2, <2>3, <2>5 DEF Sees
<1> QED BY Zenon, <1>3, <1>4 DEF Sees

(* The worker takes the first request: what it will leave in the file is   *)
(* what the reads behind it see there.                                     *)
LEMMA SeesTaken ==
    ASSUME NEW q \in Seq(Request), NEW p \in Seq(Request), Removed(q, p, 1),
           NEW b, NEW base, NEW s, NEW v, NEW i \in 2..(Len(q) + 1),
           Sees(q, b, base, i, s, v)
    PROVE Sees(p, b, IF Writes(q[1], s) THEN b[q[1].c] ELSE base, i - 1, s, v)
<1>1. Len(p) = Len(q) - 1 /\ Len(q) \in Nat /\ 1 \in 1..Len(q)
  BY DEF Removed
<1>2. i \in 1..(Len(q) + 1) /\ (IF i > 1 THEN i - 1 ELSE i) = i - 1
  BY <1>1
<1>3. CASE ~Writes(q[1], s)
  BY <1>2, <1>3, SeesRemoved
<1>4. CASE Writes(q[1], s)
  <2>1. ~NoneFrom(q, 1, i - 1, s)
    <3>1. 1 \in 1..(i - 1) OBVIOUS
    <3> QED BY Zenon, <1>4, <3>1 DEF NoneFrom
  <2>2. PICK j \in 1..(i - 1) : Writes(q[j], s) /\ b[q[j].c] = v
                                 /\ NoneFrom(q, j + 1, i - 1, s)
    BY Zenon, <2>1 DEF Sees
  <2>3. NoneFrom(p, j, i - 1 - 1, s)
    <3>1. /\ (IF j + 1 > 1 THEN j + 1 - 1 ELSE j + 1) = j
          /\ (IF i - 1 >= 1 THEN i - 1 - 1 ELSE i - 1) = i - 1 - 1
          /\ i - 1 \in Nat /\ i - 1 <= Len(q) /\ j + 1 \in Nat \ {0}
      BY <1>1
    <3> QED BY <2>2, <3>1, NoneRemoved
  <2>4. CASE j = 1
    BY Zenon, <1>4, <2>2, <2>3, <2>4 DEF Sees
  <2>5. CASE j # 1
    <3>1. j - 1 \in 1..(i - 1 - 1) /\ j - 1 + 1 = j /\ j - 1 \in 1..Len(p)
      BY <1>1, <2>5
    <3>2. p[j - 1] = q[j] BY <1>1, <3>1, <2>5 DEF Removed
    <3> QED BY Zenon, <2>2, <2>3, <3>1, <3>2 DEF Sees
  <2> QED BY <2>4, <2>5
<1> QED BY <1>3, <1>4

(* A request at the end that does not write s hides nothing. *)
LEMMA SeesPast ==
    ASSUME NEW q \in Seq(Request), NEW p \in Seq(Request),
           Len(p) = Len(q) + 1, \A j \in 1..Len(q) : p[j] = q[j],
           NEW b, NEW base, NEW s, NEW v, ~Writes(p[Len(q) + 1], s),
           Sees(q, b, base, Len(q) + 1, s, v)
    PROVE Sees(p, b, base, Len(p) + 1, s, v)
<1>1. /\ Len(q) \in Nat /\ Len(q) + 1 - 1 = Len(q)
      /\ Len(p) + 1 - 1 = Len(q) + 1
  OBVIOUS
<1>2. ASSUME NEW i \in 1..(Len(q) + 1), NoneFrom(q, i, Len(q), s)
      PROVE NoneFrom(p, i, Len(q) + 1, s)
  <2>1. \A k \in i..(Len(q) + 1) :
            k = Len(q) + 1 \/ (k \in 1..Len(q) /\ k \in i..Len(q))
    BY <1>1
  <2> QED BY Zenon, <1>2, <2>1 DEF NoneFrom
<1>3. CASE base = v /\ NoneFrom(q, 1, Len(q), s)
  <2>1. 1 \in 1..(Len(q) + 1) BY <1>1
  <2>2. NoneFrom(p, 1, Len(q) + 1, s) BY Zenon, <1>2, <1>3, <2>1
  <2> QED BY <1>1, <1>3, <2>2 DEF Sees
<1>4. ASSUME NEW j \in 1..Len(q), Writes(q[j], s), b[q[j].c] = v,
             NoneFrom(q, j + 1, Len(q), s)
      PROVE Sees(p, b, base, Len(p) + 1, s, v)
  <2>1. j + 1 \in 1..(Len(q) + 1) /\ j \in 1..(Len(q) + 1) BY <1>1
  <2>2. NoneFrom(p, j + 1, Len(q) + 1, s) BY Zenon, <1>2, <1>4, <2>1
  <2>3. p[j] = q[j] BY Zenon
  <2> QED BY <1>1, <1>4, <2>1, <2>2, <2>3 DEF Sees
<1> QED BY <1>1, <1>3, <1>4 DEF Sees

-----------------------------------------------------------------------------
(* Which requests are in flight *)

LEMMA Fewer ==
    ASSUME NEW q \in Seq(Request), NEW p \in Seq(Request), NEW k,
           Removed(q, p, k)
    PROVE /\ Once(q) => Once(p)
          /\ Once(q) => \A j \in DOMAIN p : p[j].c # q[k].c
          /\ \A r : Apart(q, r) => Apart(p, r)
          /\ \A r : Apart(r, q) => Apart(r, p)
          /\ \A C : Among(q, C) => Among(p, C)
          /\ NoWrites(q) => NoWrites(p)
          /\ k \in DOMAIN q
<1>1. /\ DOMAIN q = 1..Len(q) /\ DOMAIN p = 1..Len(p) /\ Len(q) \in Nat
      /\ Len(p) \in Nat /\ k \in 1..Len(q)
  BY DEF Removed
<1>2. \A j \in DOMAIN p : \E i \in DOMAIN q :
          i # k /\ p[j] = q[i] /\ i = (IF j < k THEN j ELSE j + 1)
  BY RemovedKeeps
<1>3. ASSUME Once(q) PROVE Once(p)
  <2> SUFFICES ASSUME NEW i \in DOMAIN p, NEW j \in DOMAIN p,
                      p[i].c = p[j].c
               PROVE i = j
    BY Zenon DEF Once
  <2>1. PICK x \in DOMAIN q : p[i] = q[x] /\ x = (IF i < k THEN i ELSE i + 1)
    BY Zenon, <1>2
  <2>2. PICK y \in DOMAIN q : p[j] = q[y] /\ y = (IF j < k THEN j ELSE j + 1)
    BY Zenon, <1>2
  <2>3. x = y BY Zenon, <1>3, <2>1, <2>2 DEF Once
  <2> QED BY <1>1, <2>1, <2>2, <2>3
<1>4. ASSUME Once(q) PROVE \A j \in DOMAIN p : p[j].c # q[k].c
  BY Zenon, <1>1, <1>2, <1>4 DEF Once
<1>5. ASSUME NEW r, Apart(q, r) PROVE Apart(p, r)
  <2> SUFFICES ASSUME NEW i \in DOMAIN p, NEW j \in DOMAIN r
               PROVE p[i].c # r[j].c
    BY Zenon DEF Apart
  <2>1. PICK x \in DOMAIN q : p[i] = q[x] BY Zenon, <1>2
  <2> QED BY Zenon, <1>5, <2>1 DEF Apart
<1>6. ASSUME NEW r, Apart(r, q) PROVE Apart(r, p)
  BY Zenon, <1>2, <1>6 DEF Apart
<1>7. ASSUME NEW C, Among(q, C) PROVE Among(p, C)
  BY Zenon, <1>2, <1>7 DEF Among
<1>8. ASSUME NoWrites(q) PROVE NoWrites(p)
  BY Zenon, <1>2, <1>8 DEF NoWrites
<1> QED BY Zenon, <1>1, <1>3, <1>4, <1>5, <1>6, <1>7, <1>8

(* A completion that is free gets a request behind all others. *)
LEMMA QueueKeeps ==
    ASSUME IInv, NEW c \in Requests, NEW w \in BOOLEAN, NEW s \in Sectors,
           c \notin waits, Queue(c, w, s)
    PROVE /\ InFlight'
          /\ fPending' \in Seq(Request) /\ waits' \subseteq Requests
          /\ Len(fPending') = Len(fPending) + 1
          /\ \A i \in 1..Len(fPending) : fPending'[i] = fPending[i]
          /\ fPending'[Len(fPending) + 1]
                = [c |-> c, write |-> w, sector |-> s, ok |-> TRUE]
          /\ \A i \in DOMAIN fPending' : i \in 1..Len(fPending)
                                           \/ i = Len(fPending) + 1
<1> DEFINE r == [c |-> c, write |-> w, sector |-> s, ok |-> TRUE]
<1>1. /\ fPending \in Seq(Request) /\ fCurrent \in Seq(Request)
      /\ fDone \in Seq(Request) /\ waits \subseteq Requests
  BY Zenon DEF IInv, TypeOK
<1>2. r \in Request BY DEF Request
<1>3. /\ fPending' = Append(fPending, r) /\ waits' = waits \cup {c}
      /\ fCurrent' = fCurrent /\ fDone' = fDone
  BY Zenon DEF Queue
<1>4. r.c = c OBVIOUS
<1> HIDE DEF r
<1>5. /\ fPending' \in Seq(Request) /\ Len(fPending') = Len(fPending) + 1
      /\ \A i \in 1..Len(fPending) : fPending'[i] = fPending[i]
      /\ fPending'[Len(fPending) + 1] = r
  BY <1>1, <1>2, <1>3, AppendIs
<1>6. /\ DOMAIN fPending = 1..Len(fPending) /\ Len(fPending) \in Nat
      /\ \A i \in DOMAIN fPending' : \/ i \in 1..Len(fPending)
                                      \/ i = Len(fPending) + 1
  BY <1>1, <1>5
<1>7. /\ \A i \in DOMAIN fPending : fPending[i].c # c
      /\ \A i \in DOMAIN fCurrent : fCurrent[i].c # c
      /\ \A i \in DOMAIN fDone : fDone[i].c # c
  BY Zenon DEF IInv, InFlight, Among
<1>8. Once(fPending')
  <2>1. Once(fPending) BY Zenon DEF IInv, InFlight
  <2> QED BY Zenon, <2>1, <1>4, <1>5, <1>6, <1>7 DEF Once
<1>9. Apart(fPending, fCurrent) /\ Apart(fPending, fDone)
  BY Zenon DEF IInv, InFlight
<1>10. Apart(fPending', fCurrent') /\ Apart(fPending', fDone')
  <2>1. ASSUME NEW i \in DOMAIN fPending', NEW j \in DOMAIN fCurrent
        PROVE fPending'[i].c # fCurrent[j].c
    BY Zenon, <1>9, <1>4, <1>5, <1>6, <1>7 DEF Apart
  <2>2. ASSUME NEW i \in DOMAIN fPending', NEW j \in DOMAIN fDone
        PROVE fPending'[i].c # fDone[j].c
    BY Zenon, <1>9, <1>4, <1>5, <1>6, <1>7 DEF Apart
  <2> QED BY Zenon, <1>3, <2>1, <2>2 DEF Apart
<1>11. /\ Among(fPending, waits) /\ Among(fCurrent, waits)
       /\ Among(fDone, waits)
  BY Zenon DEF IInv, InFlight
<1>12. Among(fPending', waits')
  BY Zenon, <1>11, <1>3, <1>4, <1>5, <1>6 DEF Among
<1>13. Among(fCurrent', waits') /\ Among(fDone', waits')
  BY Zenon, <1>11, <1>3 DEF Among
<1>14. Once(fDone') /\ Apart(fCurrent', fDone')
  BY Zenon, <1>3 DEF IInv, InFlight
<1>15. InFlight'
  BY Zenon, <1>8, <1>10, <1>12, <1>13, <1>14 DEF InFlight
<1>16. waits' \subseteq Requests BY Zenon, <1>1, <1>3
<1> QED BY <1>5, <1>6, <1>15, <1>16 DEF r

(* A step that leaves requests, file and buffers alone. *)
LEMMA Aside ==
    ASSUME IInv, UNCHANGED <<image, queues, waits, buf, open, fMode, seen>>,
           wpc' = wpc \/ (wpc = "wait" /\ wpc' = "ended")
    PROVE InFlight' /\ ModeKept' /\ Reads'
<1>1. /\ file' = file /\ fSectorTable' = fSectorTable
      /\ fPending' = fPending /\ fCurrent' = fCurrent /\ fDone' = fDone
      /\ waits' = waits /\ buf' = buf /\ open' = open /\ fMode' = fMode
      /\ wrote' = wrote /\ expect' = expect
  BY DEF image, queues, seen
<1>2. /\ wpc' = "perform" <=> wpc = "perform"
      /\ wpc' = "finish" <=> wpc = "finish"
  OBVIOUS
<1>3. InFlight' BY Zenon, <1>1 DEF IInv, InFlight
<1>4. ModeKept' BY Zenon, <1>1 DEF IInv, ModeKept
<1>5. \A s : Overlay(fSectorTable, s, file[s])'
                = Overlay(fSectorTable, s, file[s])
  BY Zenon, <1>1 DEF Overlay
<1>6. \A s : Base(s)' = Base(s) BY Zenon, <1>1, <1>2, <1>5 DEF Base
<1>7. NewReads'
  <2> SUFFICES ASSUME open', NEW s \in Sectors, wrote'[s] # Unknown
               PROVE Sees(fPending', buf', Base(s)', Len(fPending') + 1, s,
                          wrote'[s])
    BY Zenon DEF NewReads
  <2>1. open BY <1>1
  <2>2. wrote[s] # Unknown BY <1>1
  <2>3. Sees(fPending, buf, Base(s), Len(fPending) + 1, s, wrote[s])
    BY Zenon, <2>1, <2>2 DEF IInv, Reads, NewReads
  <2> QED BY Zenon, <1>1, <1>6, <2>3
<1>8. PendingReads'
  BY Zenon, <1>1, <1>6 DEF IInv, Reads, PendingReads, Outstanding
<1>9. CurrentRead'
  BY Zenon, <1>1, <1>2 DEF IInv, Reads, CurrentRead, Outstanding
<1>10. DoneReads'
  BY Zenon, <1>1 DEF IInv, Reads, DoneReads, Outstanding
<1> QED BY <1>3, <1>4, <1>7, <1>8, <1>9, <1>10 DEF Reads

(* What is known of a read the worker is at, or has finished, depends on   *)
(* the read and its sector only.                                           *)
LEMMA CurrentKept ==
    ASSUME CurrentRead, fCurrent' = fCurrent, wpc' = wpc,
           \A s \in Sectors, i \in DOMAIN fCurrent :
               Outstanding(fCurrent[i], s)' =>
                   /\ expect'[fCurrent[i].c] = expect[fCurrent[i].c]
                   /\ buf'[fCurrent[i].c] = buf[fCurrent[i].c]
                   /\ fSectorTable'[s] = fSectorTable[s] /\ file'[s] = file[s]
    PROVE CurrentRead'
<1> SUFFICES ASSUME NEW s \in Sectors, NEW i \in DOMAIN fCurrent,
                    Outstanding(fCurrent[i], s)'
             PROVE /\ wpc = "perform" =>
                        expect'[fCurrent[i].c]
                            = Overlay(fSectorTable', s, file'[s])
                   /\ wpc = "finish" /\ fCurrent[i].ok =>
                        expect'[fCurrent[i].c]
                            = Overlay(fSectorTable', s, buf'[fCurrent[i].c])
  BY Zenon DEF CurrentRead
<1>1. /\ expect'[fCurrent[i].c] = expect[fCurrent[i].c]
      /\ buf'[fCurrent[i].c] = buf[fCurrent[i].c]
      /\ fSectorTable'[s] = fSectorTable[s] /\ file'[s] = file[s]
  BY Zenon
<1>2. Outstanding(fCurrent[i], s) BY Zenon, <1>1 DEF Outstanding
<1>3. \A v : Overlay(fSectorTable', s, v) = Overlay(fSectorTable, s, v)
  BY Zenon, <1>1 DEF Overlay
<1>4. wpc = "perform" =>
        expect[fCurrent[i].c] = Overlay(fSectorTable, s, file[s])
  BY Zenon, <1>2 DEF CurrentRead
<1>5. wpc = "finish" /\ fCurrent[i].ok =>
          expect[fCurrent[i].c] = Overlay(fSectorTable, s, buf[fCurrent[i].c])
  BY Zenon, <1>2 DEF CurrentRead
<1> QED BY <1>1, <1>3, <1>4, <1>5

LEMMA DoneKept ==
    ASSUME DoneReads,
           \A s \in Sectors, j \in DOMAIN fDone' :
               Outstanding(fDone[j], s)' =>
                   \E i \in DOMAIN fDone :
                       /\ fDone'[j] = fDone[i]
                       /\ expect'[fDone[i].c] = expect[fDone[i].c]
                       /\ buf'[fDone[i].c] = buf[fDone[i].c]
                       /\ fSectorTable'[s] = fSectorTable[s]
    PROVE DoneReads'
<1> SUFFICES ASSUME NEW s \in Sectors, NEW j \in DOMAIN fDone',
                    Outstanding(fDone[j], s)', fDone'[j].ok
             PROVE expect'[fDone'[j].c]
                        = Overlay(fSectorTable', s, buf'[fDone'[j].c])
  BY Zenon DEF DoneReads
<1>1. PICK i \in DOMAIN fDone :
          /\ fDone'[j] = fDone[i] /\ expect'[fDone[i].c] = expect[fDone[i].c]
          /\ buf'[fDone[i].c] = buf[fDone[i].c]
          /\ fSectorTable'[s] = fSectorTable[s]
  BY Zenon
<1>2. Outstanding(fDone[i], s) BY Zenon, <1>1 DEF Outstanding
<1>3. \A v : Overlay(fSectorTable', s, v) = Overlay(fSectorTable, s, v)
  BY Zenon, <1>1 DEF Overlay
<1>4. expect[fDone[i].c] = Overlay(fSectorTable, s, buf[fDone[i].c])
  BY Zenon, <1>1, <1>2 DEF DoneReads
<1> QED BY <1>1, <1>3, <1>4

-----------------------------------------------------------------------------
(* One lemma per step *)

LEMMA ReadAsyncKeeps ==
    ASSUME IInv, NEW c \in Requests, NEW s \in Sectors, ReadAsync(c, s)
    PROVE IInv'
<1>1. /\ file' = file /\ fSectorTable' = fSectorTable /\ fStop' = fStop
      /\ wpc' = wpc /\ woken' = woken /\ loop' = loop
      /\ cancelling' = cancelling /\ buf' = buf /\ open' = open
      /\ fMode' = fMode /\ wrote' = wrote /\ c \notin waits /\ open
      /\ Queue(c, FALSE, s) /\ expect' = [expect EXCEPT ![c] = wrote[s]]
      /\ fCurrent' = fCurrent /\ fDone' = fDone
  BY DEF ReadAsync, MayCall, image, Queue
<1>2. /\ fPending \in Seq(Request)
      /\ wrote \in [Sectors -> Values \cup {Unknown}]
      /\ expect \in [Requests -> Values \cup {Unknown}]
      /\ fCurrent \in Seq(Request) /\ fDone \in Seq(Request)
  BY Zenon DEF IInv, TypeOK
<1> DEFINE n == Len(fPending)
<1>3. /\ InFlight'
      /\ fPending' \in Seq(Request) /\ waits' \subseteq Requests
      /\ Len(fPending') = n + 1
      /\ \A i \in 1..n : fPending'[i] = fPending[i]
      /\ fPending'[n + 1].c = c /\ fPending'[n + 1].write = FALSE
      /\ fPending'[n + 1].sector = s
      /\ \A i \in DOMAIN fPending' : i \in 1..n \/ i = n + 1
  <2>1. FALSE \in BOOLEAN OBVIOUS
  <2>2. /\ InFlight'
        /\ fPending' \in Seq(Request) /\ waits' \subseteq Requests
        /\ Len(fPending') = n + 1
        /\ \A i \in 1..n : fPending'[i] = fPending[i]
        /\ fPending'[n + 1]
              = [c |-> c, write |-> FALSE, sector |-> s, ok |-> TRUE]
        /\ \A i \in DOMAIN fPending' : i \in 1..n \/ i = n + 1
    BY Zenon, <1>1, <2>1, QueueKeeps
  <2> QED BY <2>2
<1>4. /\ n \in Nat /\ DOMAIN fPending = 1..n
      /\ \A i \in 1..n : i \in 1..(n + 1) /\ n + 1 \in 1..(n + 1)
  BY <1>2
<1>5. TypeOK'
  <2>1. expect' \in [Requests -> Values \cup {Unknown}] BY <1>1, <1>2
  <2> QED BY Zenon, <1>1, <1>3, <2>1 DEF IInv, TypeOK
<1>6. Working' BY Zenon, <1>1 DEF IInv, Working
<1>7. ModeKept'
  <2>1. NoWrites(fPending) => NoWrites(fPending')
    BY Zenon, <1>3, <1>4 DEF NoWrites
  <2> QED BY Zenon, <1>1, <2>1 DEF IInv, ModeKept
<1>8. \A t : Base(t)' = Base(t) BY Zenon, <1>1 DEF Base, Overlay
<1>9. \A x \in Requests : x # c => expect'[x] = expect[x]
  BY <1>1, <1>2
<1>10. expect'[c] = wrote[s] BY <1>1, <1>2
<1>11. ASSUME NEW t \in Sectors, wrote[t] # Unknown
       PROVE Sees(fPending, buf, Base(t), n + 1, t, wrote[t])
  BY Zenon, <1>1, <1>11 DEF IInv, Reads, NewReads
<1>12. NewReads'
  <2> SUFFICES ASSUME NEW t \in Sectors, wrote[t] # Unknown
               PROVE Sees(fPending', buf, Base(t), Len(fPending') + 1, t,
                          wrote[t])
    BY Zenon, <1>1, <1>8 DEF NewReads
  <2>1. ~Writes(fPending'[n + 1], t) BY Zenon, <1>3 DEF Writes
  <2> HIDE DEF n
  <2> QED BY <1>2, <1>3, <1>11, <2>1, SeesPast DEF n
<1>13. ASSUME NEW i \in 1..(n + 1), NEW t, NEW v, NEW base,
              Sees(fPending, buf, base, i, t, v)
       PROVE Sees(fPending', buf, base, i, t, v)
  BY <1>2, <1>3, <1>13, SeesBefore
<1>14. PendingReads'
  <2> SUFFICES ASSUME NEW t \in Sectors, NEW i \in DOMAIN fPending',
                      Outstanding(fPending[i], t)'
               PROVE Sees(fPending', buf, Base(t), i, t,
                          expect'[fPending'[i].c])
    BY Zenon, <1>1, <1>8 DEF PendingReads
  <2>1. CASE i \in 1..n
    <3>1. fPending'[i] = fPending[i] /\ i \in DOMAIN fPending
      BY Zenon, <1>3, <1>4, <2>1
    <3>2. fPending[i].c # c /\ fPending[i].c \in Requests
      BY Zenon, <1>1, <3>1 DEF IInv, InFlight, Among, TypeOK
    <3>3. expect'[fPending[i].c] = expect[fPending[i].c]
      BY Zenon, <1>9, <3>2
    <3>4. Sees(fPending, buf, Base(t), i, t, expect[fPending[i].c])
      BY Zenon, <3>1, <3>3 DEF IInv, Reads, PendingReads, Outstanding
    <3> QED BY Zenon, <1>4, <1>13, <2>1, <3>1, <3>3, <3>4
  <2>2. CASE i = n + 1
    <3>1. t = s /\ wrote[s] # Unknown
      BY Zenon, <1>3, <1>10, <2>2 DEF Outstanding
    <3>2. Sees(fPending, buf, Base(s), n + 1, s, wrote[s])
      BY Zenon, <1>11, <3>1
    <3>3. n + 1 \in 1..(n + 1) BY <1>4
    <3> QED BY Zenon, <1>3, <1>10, <1>13, <2>2, <3>1, <3>2, <3>3
  <2> QED BY Zenon, <1>3, <2>1, <2>2
<1>15. /\ \A i \in DOMAIN fCurrent :
              expect'[fCurrent[i].c] = expect[fCurrent[i].c]
       /\ \A i \in DOMAIN fDone : expect'[fDone[i].c] = expect[fDone[i].c]
  BY Zenon, <1>1, <1>9 DEF IInv, InFlight, Among, TypeOK
<1>16. CurrentRead'
  BY Zenon, <1>1, <1>15, CurrentKept DEF IInv, Reads
<1>17. DoneReads'
  BY Zenon, <1>1, <1>15, DoneKept DEF IInv, Reads
<1> QED
  BY Zenon, <1>3, <1>5, <1>6, <1>7, <1>12, <1>14, <1>16, <1>17
  DEF IInv, Reads

LEMMA WriteAsyncKeeps ==
    ASSUME IInv, NEW c \in Requests, NEW s \in Sectors, NEW v \in Values,
           WriteAsync(c, s, v)
    PROVE IInv'
<1>1. /\ file' = file /\ fSectorTable' = fSectorTable /\ fStop' = fStop
      /\ wpc' = wpc /\ woken' = woken /\ loop' = loop
      /\ cancelling' = cancelling /\ open' = open
      /\ fMode' = fMode /\ expect' = expect /\ c \notin waits /\ open
      /\ Queue(c, TRUE, s) /\ wrote' = [wrote EXCEPT ![s] = v]
      /\ fCurrent' = fCurrent /\ fDone' = fDone /\ fMode = "RW"
      /\ buf' = [buf EXCEPT ![c] = v]
  BY DEF WriteAsync, MayCall, image, Queue
<1>2. /\ fPending \in Seq(Request)
      /\ wrote \in [Sectors -> Values \cup {Unknown}]
      /\ fCurrent \in Seq(Request) /\ fDone \in Seq(Request)
      /\ buf \in [Requests -> Values]
  BY Zenon DEF IInv, TypeOK
<1> DEFINE n == Len(fPending)
<1>3. /\ InFlight'
      /\ fPending' \in Seq(Request) /\ waits' \subseteq Requests
      /\ Len(fPending') = n + 1
      /\ \A i \in 1..n : fPending'[i] = fPending[i]
      /\ fPending'[n + 1].c = c /\ fPending'[n + 1].write = TRUE
      /\ fPending'[n + 1].sector = s
      /\ \A i \in DOMAIN fPending' : i \in 1..n \/ i = n + 1
  <2>1. TRUE \in BOOLEAN OBVIOUS
  <2>2. /\ InFlight'
        /\ fPending' \in Seq(Request) /\ waits' \subseteq Requests
        /\ Len(fPending') = n + 1
        /\ \A i \in 1..n : fPending'[i] = fPending[i]
        /\ fPending'[n + 1]
              = [c |-> c, write |-> TRUE, sector |-> s, ok |-> TRUE]
        /\ \A i \in DOMAIN fPending' : i \in 1..n \/ i = n + 1
    BY Zenon, <1>1, <2>1, QueueKeeps
  <2> QED BY <2>2
<1>4. /\ n \in Nat /\ DOMAIN fPending = 1..n /\ n + 1 \in 1..(n + 1)
      /\ \A i \in 1..n : i \in 1..(n + 1)
  BY <1>2
<1>5. TypeOK'
  <2>1. /\ wrote' \in [Sectors -> Values \cup {Unknown}]
        /\ buf' \in [Requests -> Values]
    BY <1>1, <1>2
  <2> QED BY Zenon, <1>1, <1>3, <2>1 DEF IInv, TypeOK
<1>6. Working' BY Zenon, <1>1 DEF IInv, Working
<1>7. ModeKept' BY Zenon, <1>1 DEF IInv, ModeKept
<1>8. /\ \A i \in DOMAIN fPending : buf'[fPending[i].c] = buf[fPending[i].c]
      /\ \A i \in DOMAIN fCurrent : buf'[fCurrent[i].c] = buf[fCurrent[i].c]
      /\ \A i \in DOMAIN fDone : buf'[fDone[i].c] = buf[fDone[i].c]
  <2>1. \A x \in Requests : x # c => buf'[x] = buf[x] BY <1>1, <1>2
  <2>2. /\ Among(fPending, waits) /\ Among(fCurrent, waits)
        /\ Among(fDone, waits) /\ waits \subseteq Requests
    BY Zenon DEF IInv, InFlight, TypeOK
  <2> QED BY Zenon, <1>1, <2>1, <2>2 DEF Among
<1>9. \A t : Base(t)' = Base(t)
  <2>1. wpc = "perform" => 1 \in DOMAIN fCurrent
    BY <1>2 DEF IInv, Working
  <2> QED BY Zenon, <1>1, <1>8, <2>1 DEF Base, Overlay
<1>10. ASSUME NEW i \in 1..(n + 1), NEW t, NEW w, NEW base,
              Sees(fPending, buf, base, i, t, w)
       PROVE Sees(fPending, buf', base, i, t, w)
  BY <1>2, <1>8, <1>10, SeesBuffers
<1>11. NewReads'
  <2> SUFFICES ASSUME NEW t \in Sectors, wrote'[t] # Unknown
               PROVE Sees(fPending', buf', Base(t), Len(fPending') + 1, t,
                          wrote'[t])
    BY Zenon, <1>9 DEF NewReads
  <2>1. CASE t = s
    <3>1. wrote'[t] = v /\ buf'[c] = v BY <1>1, <1>2, <2>1
    <3>2. Writes(fPending'[n + 1], t) BY Zenon, <1>3, <2>1 DEF Writes
    <3>3. NoneFrom(fPending', n + 1 + 1, n + 1, t) BY <1>4 DEF NoneFrom
    <3>4. Len(fPending') + 1 - 1 = n + 1 BY <1>3, <1>4
    <3> HIDE DEF n
    <3> QED BY <1>3, <1>4, <3>1, <3>2, <3>3, <3>4 DEF Sees
  <2>2. CASE t # s
    <3>1. wrote'[t] = wrote[t] BY <1>1, <1>2, <2>2
    <3>2. ~Writes(fPending'[n + 1], t) BY Zenon, <1>3, <2>2 DEF Writes
    <3>3. Sees(fPending, buf, Base(t), n + 1, t, wrote[t])
      BY Zenon, <1>1, <3>1 DEF IInv, Reads, NewReads
    <3>4. Sees(fPending, buf', Base(t), n + 1, t, wrote[t])
      BY Zenon, <1>4, <1>10, <3>3
    <3> QED BY <1>2, <1>3, <3>1, <3>2, <3>4, SeesPast
  <2> QED BY <2>1, <2>2
<1>12. ASSUME NEW i \in 1..(n + 1), NEW t, NEW w, NEW base,
              Sees(fPending, buf', base, i, t, w)
       PROVE Sees(fPending', buf', base, i, t, w)
  BY <1>2, <1>3, <1>12, SeesBefore
<1>13. PendingReads'
  <2> SUFFICES ASSUME NEW t \in Sectors, NEW i \in DOMAIN fPending',
                      Outstanding(fPending[i], t)'
               PROVE Sees(fPending', buf', Base(t), i, t,
                          expect[fPending'[i].c])
    BY Zenon, <1>1, <1>9 DEF PendingReads
  <2>1. i \in 1..n BY Zenon, <1>3 DEF Outstanding
  <2>2. fPending'[i] = fPending[i] /\ i \in DOMAIN fPending
    BY Zenon, <1>3, <1>4, <2>1
  <2>3. Sees(fPending, buf, Base(t), i, t, expect[fPending[i].c])
    BY Zenon, <1>1, <2>2 DEF IInv, Reads, PendingReads, Outstanding
  <2> QED BY Zenon, <1>4, <1>10, <1>12, <2>1, <2>2, <2>3
<1>14. CurrentRead'
  BY Zenon, <1>1, <1>8, CurrentKept DEF IInv, Reads
<1>15. DoneReads'
  BY Zenon, <1>1, <1>8, DoneKept DEF IInv, Reads
<1> QED
  BY Zenon, <1>3, <1>5, <1>6, <1>7, <1>11, <1>13, <1>14, <1>15
  DEF IInv, Reads

(* The reads that Forget() forgets are those of the sector. *)
LEMMA Forgotten ==
    ASSUME IInv, NEW s, Forget(Reading(s))
    PROVE /\ expect' \in [Requests -> Values \cup {Unknown}]
          /\ \A c \in Requests : expect'[c] \in {expect[c], Unknown}
          /\ \A i \in DOMAIN fPending :
                ~fPending[i].write /\ fPending[i].sector = s
                    => expect'[fPending[i].c] = Unknown
          /\ \A i \in DOMAIN fCurrent :
                ~fCurrent[i].write /\ fCurrent[i].sector = s
                    => expect'[fCurrent[i].c] = Unknown
          /\ \A i \in DOMAIN fDone :
                ~fDone[i].write /\ fDone[i].sector = s
                    => expect'[fDone[i].c] = Unknown
<1>1. /\ expect \in [Requests -> Values \cup {Unknown}]
      /\ waits \subseteq Requests
  BY Zenon DEF IInv, TypeOK
<1>2. expect' = [c \in Requests |-> IF c \in Reading(s) THEN Unknown
                                    ELSE expect[c]]
  BY Zenon DEF Forget
<1>3. \A c \in Requests : expect'[c] \in {expect[c], Unknown}
  BY Zenon, <1>2
<1>4. \A c \in Reading(s) : c \in Requests /\ expect'[c] = Unknown
  BY Zenon, <1>1, <1>2 DEF Reading
<1>5. /\ \A i \in DOMAIN fPending : fPending[i].c \in waits
      /\ \A i \in DOMAIN fCurrent : fCurrent[i].c \in waits
      /\ \A i \in DOMAIN fDone : fDone[i].c \in waits
  BY Zenon DEF IInv, InFlight, Among
<1>6. ASSUME NEW i \in DOMAIN fPending, ~fPending[i].write,
             fPending[i].sector = s
      PROVE fPending[i].c \in Reading(s)
  BY Zenon, <1>5, <1>6 DEF Reading
<1>7. ASSUME NEW i \in DOMAIN fCurrent, ~fCurrent[i].write,
             fCurrent[i].sector = s
      PROVE fCurrent[i].c \in Reading(s)
  BY Zenon, <1>5, <1>7 DEF Reading
<1>8. ASSUME NEW i \in DOMAIN fDone, ~fDone[i].write, fDone[i].sector = s
      PROVE fDone[i].c \in Reading(s)
  BY Zenon, <1>5, <1>8 DEF Reading
<1>9. expect' \in [Requests -> Values \cup {Unknown}]
  BY <1>1, <1>2
<1> QED BY Zenon, <1>3, <1>4, <1>6, <1>7, <1>8, <1>9

LEMMA WriteSnapshotKeeps ==
    ASSUME IInv, NEW s \in Sectors, NEW v \in Values, WriteSnapshot(s, v)
    PROVE IInv'
<1>1. /\ file' = file /\ fStop' = fStop /\ wpc' = wpc /\ woken' = woken
      /\ loop' = loop /\ cancelling' = cancelling /\ open' = open
      /\ fMode' = fMode /\ waits' = waits /\ buf' = buf
      /\ fPending' = fPending /\ fCurrent' = fCurrent /\ fDone' = fDone
      /\ fMode = "SNAPSHOT" /\ wrote' = [wrote EXCEPT ![s] = v] /\ open
      /\ fSectorTable' = [fSectorTable EXCEPT ![s] = v]
      /\ Forget(Reading(s))
  BY DEF WriteSnapshot, MayCall, queues
<1>2. /\ fSectorTable \in [Sectors -> Values \cup {Null}]
      /\ wrote \in [Sectors -> Values \cup {Unknown}]
      /\ fPending \in Seq(Request) /\ fCurrent \in Seq(Request)
      /\ fDone \in Seq(Request)
  BY Zenon DEF IInv, TypeOK
<1>3. TypeOK'
  <2>1. /\ wrote' \in [Sectors -> Values \cup {Unknown}]
        /\ fSectorTable' \in [Sectors -> Values \cup {Null}]
    BY <1>1, <1>2
  <2>2. expect' \in [Requests -> Values \cup {Unknown}]
    BY <1>1, Forgotten
  <2> QED BY Zenon, <1>1, <2>1, <2>2 DEF IInv, TypeOK
<1>4. InFlight' BY Zenon, <1>1 DEF IInv, InFlight
<1>5. Working' BY Zenon, <1>1 DEF IInv, Working
<1>6. ModeKept'
  <2>1. fMode' = "SNAPSHOT" BY <1>1
  <2> QED BY Zenon, <1>1, <2>1 DEF IInv, ModeKept
<1>7. NoWrites(fPending) /\ NoWrites(fCurrent)
  <2>1. fMode # "RW" BY <1>1
  <2> QED BY Zenon, <2>1 DEF IInv, ModeKept
<1>8. /\ \A t \in Sectors : t # s => fSectorTable'[t] = fSectorTable[t]
      /\ fSectorTable'[s] = v /\ v # Null
      /\ wrote'[s] = v /\ \A t \in Sectors : t # s => wrote'[t] = wrote[t]
  BY <1>1, <1>2, BlockAssumption
<1>9. ASSUME NEW t, wpc = "perform" PROVE ~Writes(fCurrent[1], t)
  <2>1. 1 \in DOMAIN fCurrent BY <1>2, <1>9 DEF IInv, Working
  <2> QED BY Zenon, <1>7, <2>1 DEF NoWrites, Writes
<1>10. \A t : /\ Base(t)' = Overlay(fSectorTable, t, file[t])'
              /\ Base(t) = Overlay(fSectorTable, t, file[t])
  BY Zenon, <1>1, <1>9 DEF Base
<1>11. \A t \in Sectors : t # s => Base(t)' = Base(t)
  BY Zenon, <1>1, <1>8, <1>10 DEF Overlay
<1>12. Base(s)' = v BY Zenon, <1>8, <1>10 DEF Overlay
<1>13. NewReads'
  <2> SUFFICES ASSUME NEW t \in Sectors, wrote'[t] # Unknown
               PROVE Sees(fPending, buf, Base(t)', Len(fPending) + 1, t,
                          wrote'[t])
    BY Zenon, <1>1 DEF NewReads
  <2>1. CASE t = s
    <3>1. \A k \in 1..(Len(fPending) + 1 - 1) : k \in DOMAIN fPending
      BY <1>2
    <3>2. NoneFrom(fPending, 1, Len(fPending) + 1 - 1, s)
      BY Zenon, <1>7, <3>1 DEF NoneFrom, NoWrites, Writes
    <3> QED BY <1>8, <1>12, <2>1, <3>2 DEF Sees
  <2>2. CASE t # s
    BY Zenon, <1>1, <1>8, <1>11, <2>2 DEF IInv, Reads, NewReads
  <2> QED BY <2>1, <2>2
<1>14. /\ Among(fPending, waits) /\ Among(fCurrent, waits)
       /\ Among(fDone, waits) /\ waits \subseteq Requests
  BY Zenon DEF IInv, InFlight, TypeOK
<1>15. PendingReads'
  <2> SUFFICES ASSUME NEW t \in Sectors, NEW i \in DOMAIN fPending,
                      Outstanding(fPending[i], t)'
               PROVE Sees(fPending, buf, Base(t)', i, t,
                          expect'[fPending[i].c])
    BY Zenon, <1>1 DEF PendingReads
  <2>1. t # s BY Zenon, <1>1, Forgotten DEF Outstanding
  <2>2. expect'[fPending[i].c] = expect[fPending[i].c]
    BY Zenon, <1>1, <1>14, Forgotten DEF Among, Outstanding
  <2> QED
    BY Zenon, <1>1, <1>11, <2>1, <2>2
       DEF IInv, Reads, PendingReads, Outstanding
<1>16. CurrentRead'
  <2>1. ASSUME NEW t \in Sectors, NEW i \in DOMAIN fCurrent,
               Outstanding(fCurrent[i], t)'
        PROVE /\ expect'[fCurrent[i].c] = expect[fCurrent[i].c]
              /\ fSectorTable'[t] = fSectorTable[t]
    <3>1. t # s BY Zenon, <1>1, <2>1, Forgotten DEF Outstanding
    <3>2. expect'[fCurrent[i].c] = expect[fCurrent[i].c]
      BY Zenon, <1>1, <1>14, <2>1, Forgotten DEF Among, Outstanding
    <3> QED BY Zenon, <1>1, <1>8, <2>1, <3>1, <3>2
  <2> QED BY Zenon, <1>1, <2>1, CurrentKept DEF IInv, Reads
<1>17. DoneReads'
  <2>1. ASSUME NEW t \in Sectors, NEW i \in DOMAIN fDone,
               Outstanding(fDone[i], t)'
        PROVE /\ expect'[fDone[i].c] = expect[fDone[i].c]
              /\ fSectorTable'[t] = fSectorTable[t]
    <3>1. t # s BY Zenon, <1>1, <2>1, Forgotten DEF Outstanding
    <3>2. expect'[fDone[i].c] = expect[fDone[i].c]
      BY Zenon, <1>1, <1>14, <2>1, Forgotten DEF Among, Outstanding
    <3> QED BY Zenon, <1>1, <1>8, <2>1, <3>1, <3>2
  <2> QED BY Zenon, <1>1, <2>1, DoneKept DEF IInv, Reads
<1> QED
  BY Zenon, <1>3, <1>4, <1>5, <1>6, <1>13, <1>15, <1>16, <1>17
  DEF IInv, Reads

LEMMA TakeKeeps ==
    ASSUME IInv, Take
    PROVE IInv'
<1>1. /\ file' = file /\ fSectorTable' = fSectorTable /\ fStop' = fStop
      /\ woken' = woken /\ loop' = loop /\ cancelling' = cancelling
      /\ open' = open /\ fMode' = fMode /\ waits' = waits /\ buf' = buf
      /\ fDone' = fDone /\ wrote' = wrote /\ expect' = expect
      /\ fPending # <<>> /\ fCurrent' = <<Head(fPending)>>
      /\ fPending' = Tail(fPending) /\ wpc = "wait" /\ wpc' = "perform"
  BY DEF Take, image, seen
<1>2. /\ fPending \in Seq(Request) /\ fDone \in Seq(Request)
  BY Zenon DEF IInv, TypeOK
<1> DEFINE r == fPending[1]
<1>3. /\ fPending' \in Seq(Request) /\ r \in Request
      /\ Removed(fPending, fPending', 1) /\ fCurrent' = <<r>>
  BY <1>1, <1>2, TailIs
<1>4. /\ fCurrent' \in Seq(Request) /\ Len(fCurrent') = 1
      /\ DOMAIN fCurrent' = {1} /\ fCurrent'[1] = r
      /\ 1 \in DOMAIN fPending
  BY <1>1, <1>2, <1>3
<1>5. TypeOK'
  <2>1. Len(fCurrent') <= 1 BY <1>4
  <2>2. wpc' \in {"wait", "perform", "finish", "ended"} BY <1>1
  <2> QED BY Zenon, <1>1, <1>3, <1>4, <2>1, <2>2 DEF IInv, TypeOK
<1>6. InFlight'
  <2>1. /\ Once(fPending') /\ \A j \in DOMAIN fPending' : fPending'[j].c # r.c
        /\ Apart(fPending', fDone) /\ Among(fPending', waits)
    BY Zenon, <1>2, <1>3, Fewer DEF IInv, InFlight
  <2>2. /\ Apart(fPending', fCurrent') BY Zenon, <2>1, <1>4 DEF Apart
  <2>3. Apart(fCurrent', fDone) /\ Among(fCurrent', waits)
    BY Zenon, <1>4 DEF IInv, InFlight, Apart, Among
  <2> QED BY Zenon, <1>1, <2>1, <2>2, <2>3 DEF IInv, InFlight
<1>7. Working'
  <2>1. wpc' \notin {"wait", "ended"} /\ wpc # "ended" BY <1>1
  <2> QED BY Zenon, <1>1, <1>4, <2>1 DEF IInv, Working
<1>8. ModeKept'
  <2>1. NoWrites(fPending) => NoWrites(fPending')
    BY Zenon, <1>2, <1>3, Fewer
  <2>2. NoWrites(fPending) => NoWrites(fCurrent')
    BY Zenon, <1>4 DEF NoWrites
  <2> QED BY Zenon, <1>1, <2>1, <2>2 DEF IInv, ModeKept
<1>9. \A s : Base(s) = Overlay(fSectorTable, s, file[s])
  <2>1. wpc # "perform" BY <1>1
  <2> QED BY Zenon, <2>1 DEF Base
<1>10. \A s : Base(s)' = IF Writes(r, s) THEN buf[r.c] ELSE Base(s)
  BY Zenon, <1>1, <1>4, <1>9 DEF Base, Overlay
<1>11. ASSUME NEW i \in 2..(Len(fPending) + 1), NEW s, NEW v,
              Sees(fPending, buf, Base(s), i, s, v)
       PROVE Sees(fPending', buf', Base(s)', i - 1, s, v)
  <2>1. Sees(fPending', buf, IF Writes(r, s) THEN buf[r.c] ELSE Base(s),
             i - 1, s, v)
    BY <1>2, <1>3, <1>11, SeesTaken
  <2> QED BY Zenon, <1>1, <1>10, <2>1
<1>12. NewReads'
  <2> SUFFICES ASSUME open, NEW s \in Sectors, wrote[s] # Unknown
               PROVE Sees(fPending', buf', Base(s)', Len(fPending') + 1, s,
                          wrote[s])
    BY Zenon, <1>1 DEF NewReads
  <2>1. Sees(fPending, buf, Base(s), Len(fPending) + 1, s, wrote[s])
    BY Zenon DEF IInv, Reads, NewReads
  <2>2. /\ Len(fPending) + 1 \in 2..(Len(fPending) + 1)
        /\ Len(fPending) + 1 - 1 = Len(fPending') + 1
    BY <1>2, <1>3 DEF Removed
  <2>3. Sees(fPending', buf', Base(s)', Len(fPending) + 1 - 1, s, wrote[s])
    BY <1>11, <2>1, <2>2
  <2> QED BY <2>2, <2>3
<1>13. PendingReads'
  <2> SUFFICES ASSUME NEW s \in Sectors, NEW i \in DOMAIN fPending',
                      Outstanding(fPending[i], s)'
               PROVE Sees(fPending', buf', Base(s)', i, s,
                          expect[fPending'[i].c])
    BY Zenon, <1>1 DEF PendingReads
  <2>1. /\ i + 1 \in DOMAIN fPending /\ fPending'[i] = fPending[i + 1]
        /\ i + 1 \in 2..(Len(fPending) + 1) /\ i + 1 - 1 = i
    BY <1>2, <1>3 DEF Removed
  <2>2. i \in Nat BY <1>3
  <2>3. PICK k \in Nat : k = i + 1 BY <2>2
  <2>4. k - 1 = i BY <2>2, <2>3
  <2>5. /\ k \in 2..(Len(fPending) + 1)
        /\ k \in DOMAIN fPending /\ fPending'[i] = fPending[k]
    BY Zenon, <2>1, <2>3
  <2>6. Sees(fPending, buf, Base(s), k, s, expect[fPending'[i].c])
    BY Zenon, <1>1, <2>5 DEF IInv, Reads, PendingReads, Outstanding
  <2>7. Sees(fPending', buf', Base(s)', k - 1, s, expect[fPending'[i].c])
    BY Zenon, <1>11, <2>5, <2>6
  <2> QED BY Zenon, <2>4, <2>7
<1>14. CurrentRead'
  <2> SUFFICES ASSUME NEW s \in Sectors, Outstanding(r, s)
               PROVE expect[r.c] = Overlay(fSectorTable, s, file[s])
    <3>1. wpc' # "finish" BY <1>1
    <3> QED
      BY Zenon, <1>1, <1>4, <3>1 DEF CurrentRead, Overlay, Outstanding
  <2>1. Sees(fPending, buf, Base(s), 1, s, expect[r.c])
    BY Zenon, <1>4 DEF IInv, Reads, PendingReads
  <2>2. 1..(1 - 1) = {} OBVIOUS
  <2>3. Base(s) = expect[r.c] BY <2>1, <2>2 DEF Sees
  <2> QED BY Zenon, <1>9, <2>3
<1>15. DoneReads'
  BY Zenon, <1>1 DEF IInv, Reads, DoneReads, Outstanding
<1> QED
  BY Zenon, <1>5, <1>6, <1>7, <1>8, <1>12, <1>13, <1>14, <1>15
  DEF IInv, Reads

LEMMA PerformKeeps ==
    ASSUME IInv, NEW ok \in BOOLEAN, Perform(ok)
    PROVE IInv'
<1> DEFINE r == fCurrent[1]
           lost(s) == r.write /\ ~ok /\ s = r.sector
<1>1. /\ fSectorTable' = fSectorTable /\ fStop' = fStop
      /\ woken' = woken /\ loop' = loop /\ cancelling' = cancelling
      /\ open' = open /\ fMode' = fMode /\ waits' = waits
      /\ fPending' = fPending /\ fDone' = fDone
      /\ wpc = "perform" /\ wpc' = "finish"
      /\ fCurrent' = <<[r EXCEPT !.ok = ok]>>
  BY DEF Perform
<1>2. /\ file \in [Sectors -> Values] /\ buf \in [Requests -> Values]
      /\ fCurrent \in Seq(Request) /\ fPending \in Seq(Request)
      /\ fDone \in Seq(Request)
      /\ wrote \in [Sectors -> Values \cup {Unknown}]
      /\ expect \in [Requests -> Values \cup {Unknown}]
      /\ waits \subseteq Requests
  BY Zenon DEF IInv, TypeOK
<1>3. Len(fCurrent) = 1 BY <1>1 DEF IInv, Working
<1>4. r \in Request /\ 1 \in DOMAIN fCurrent /\ DOMAIN fCurrent = {1}
  <2>1. DOMAIN fCurrent = 1..1 BY <1>2, <1>3
  <2>2. 1..1 = {1} OBVIOUS
  <2>3. 1 \in 1..Len(fCurrent) BY <1>3
  <2>4. r \in Request BY <1>2, <2>3
  <2> QED BY Zenon, <2>1, <2>2, <2>4
<1>5. /\ r.c \in Requests /\ r.sector \in Sectors /\ r.write \in BOOLEAN
  BY <1>4 DEF Request
<1>6. /\ fCurrent' \in Seq(Request) /\ Len(fCurrent') = 1
      /\ DOMAIN fCurrent' = {1} /\ fCurrent'[1].c = r.c
      /\ fCurrent'[1].write = r.write /\ fCurrent'[1].sector = r.sector
      /\ fCurrent'[1].ok = ok
  <2> DEFINE u == [r EXCEPT !.ok = ok]
  <2>1. /\ u \in Request /\ u.c = r.c /\ u.write = r.write
        /\ u.sector = r.sector /\ u.ok = ok
    BY <1>4 DEF Request
  <2>2. fCurrent' = <<u>> BY <1>1
  <2> HIDE DEF u
  <2> QED BY <2>1, <2>2
<1>7. \/ /\ r.write /\ buf' = buf
         /\ \/ file' = [file EXCEPT ![r.sector] = buf[r.c]]
            \/ ~ok /\ file' = file
      \/ /\ ~r.write /\ file' = file
         /\ \/ buf' = [buf EXCEPT ![r.c] = file[r.sector]]
            \/ ~ok /\ buf' = buf
  BY DEF Perform
<1>8. /\ file' \in [Sectors -> Values] /\ buf' \in [Requests -> Values]
      /\ \A s \in Sectors : ~Writes(r, s) => file'[s] = file[s]
      /\ r.write /\ ok => file'[r.sector] = buf[r.c]
      /\ \A x \in Requests : x # r.c => buf'[x] = buf[x]
      /\ r.write => buf' = buf
      /\ ~r.write /\ ok => buf'[r.c] = file[r.sector]
  <2>1. CASE r.write
    <3>1. /\ buf' = buf
          /\ \/ file' = [file EXCEPT ![r.sector] = buf[r.c]]
             \/ ~ok /\ file' = file
      BY Zenon, <1>7, <2>1
    <3> QED BY <1>2, <1>5, <2>1, <3>1 DEF Writes
  <2>2. CASE ~r.write
    <3>1. /\ file' = file
          /\ \/ buf' = [buf EXCEPT ![r.c] = file[r.sector]]
             \/ ~ok /\ buf' = buf
      BY Zenon, <1>7, <2>2
    <3>2. /\ buf' \in [Requests -> Values]
          /\ \A x \in Requests : x # r.c => buf'[x] = buf[x]
          /\ ok => buf'[r.c] = file[r.sector]
      BY <1>2, <1>5, <3>1
    <3> QED BY Zenon, <1>2, <2>2, <3>1, <3>2
  <2> QED BY <2>1, <2>2
<1>9. /\ wrote' \in [Sectors -> Values \cup {Unknown}]
      /\ expect' \in [Requests -> Values \cup {Unknown}]
      /\ \A s \in Sectors : wrote'[s] # Unknown =>
                                wrote'[s] = wrote[s] /\ ~lost(s)
      /\ \A x \in Requests : expect'[x] # Unknown => expect'[x] = expect[x]
      /\ \A s \in Sectors, i \in DOMAIN fPending :
            Outstanding(fPending[i], s)' => ~lost(s)
  <2>1. CASE ok \/ ~r.write
    <3>1. wrote' = wrote /\ expect' = expect
      BY <2>1 DEF Perform, WriteLost, seen
    <3> QED BY Zenon, <1>2, <2>1, <3>1
  <2>2. CASE ~ok /\ r.write
    <3>1. wrote' = [wrote EXCEPT ![r.sector] = Unknown]
      BY <2>2 DEF Perform, WriteLost
    <3>2. Forget(Reading(r.sector)) BY <2>2 DEF Perform, WriteLost
    <3>3. /\ wrote' \in [Sectors -> Values \cup {Unknown}]
          /\ \A s \in Sectors : wrote'[s] # Unknown =>
                                wrote'[s] = wrote[s] /\ s # r.sector
      BY <1>2, <1>5, <3>1
    <3>4. /\ expect' \in [Requests -> Values \cup {Unknown}]
          /\ \A x \in Requests : expect'[x] \in {expect[x], Unknown}
          /\ \A i \in DOMAIN fPending :
                ~fPending[i].write /\ fPending[i].sector = r.sector
                    => expect'[fPending[i].c] = Unknown
      BY Zenon, <3>2, Forgotten
    <3>5. \A s \in Sectors, i \in DOMAIN fPending :
            Outstanding(fPending[i], s)' => s # r.sector
      BY Zenon, <1>1, <3>4 DEF Outstanding
    <3> QED BY Zenon, <3>3, <3>4, <3>5
  <2> QED BY <2>1, <2>2
<1>10. TypeOK'
  <2>1. Len(fCurrent') <= 1 BY <1>6
  <2>2. wpc' \in {"wait", "perform", "finish", "ended"} BY <1>1
  <2> QED BY Zenon, <1>1, <1>6, <1>8, <1>9, <2>1, <2>2 DEF IInv, TypeOK
<1>11. InFlight'
  <2>1. Apart(fPending', fCurrent')
    <3>1. \A i \in DOMAIN fPending : fPending[i].c # r.c
      BY Zenon, <1>4 DEF IInv, InFlight, Apart
    <3> QED BY Zenon, <1>1, <1>6, <3>1 DEF Apart
  <2>2. Apart(fCurrent', fDone')
    <3>1. \A i \in DOMAIN fDone : r.c # fDone[i].c
      BY Zenon, <1>4 DEF IInv, InFlight, Apart
    <3> SUFFICES ASSUME NEW i \in DOMAIN fCurrent', NEW j \in DOMAIN fDone'
                 PROVE fCurrent'[i].c # fDone'[j].c
      BY Zenon DEF Apart
    <3>2. i = 1 /\ j \in DOMAIN fDone BY <1>1, <1>6
    <3> QED BY <1>1, <1>6, <3>1, <3>2
  <2>3. Among(fCurrent', waits')
    BY Zenon, <1>1, <1>4, <1>6 DEF IInv, InFlight, Among
  <2> QED BY Zenon, <1>1, <2>1, <2>2, <2>3 DEF IInv, InFlight
<1>12. Working'
  <2>1. wpc' \notin {"wait", "ended"} /\ wpc # "ended" BY <1>1
  <2> QED BY Zenon, <1>1, <1>6, <2>1 DEF IInv, Working
<1>13. ModeKept'
  <2>1. NoWrites(fCurrent) => NoWrites(fCurrent')
    BY Zenon, <1>4, <1>6 DEF NoWrites
  <2> QED BY Zenon, <1>1, <2>1 DEF IInv, ModeKept
<1>14. r.write => \A s \in Sectors : fSectorTable[s] = Null
  <2>1. r.write => fMode = "RW" BY Zenon, <1>4 DEF IInv, ModeKept, NoWrites
  <2>2. r.write => fMode # "SNAPSHOT" BY <2>1
  <2> QED BY Zenon, <2>2 DEF IInv, ModeKept
<1>15. ASSUME NEW s \in Sectors, ~lost(s) PROVE Base(s)' = Base(s)
  <2>1. Base(s)' = Overlay(fSectorTable, s, file'[s])
    <3>1. wpc' # "perform" BY <1>1
    <3> QED BY Zenon, <1>1, <3>1 DEF Base
  <2>2. CASE ~Writes(r, s) BY Zenon, <1>1, <1>8, <2>1, <2>2 DEF Base
  <2>3. CASE Writes(r, s)
    <3>1. ok /\ r.write /\ s = r.sector BY Zenon, <1>15, <2>3 DEF Writes
    <3>2. file'[s] = buf[r.c] BY Zenon, <1>8, <3>1
    <3>3. Base(s) = buf[r.c] BY Zenon, <1>1, <2>3 DEF Base
    <3> QED BY Zenon, <1>14, <2>1, <3>1, <3>2, <3>3 DEF Overlay
  <2> QED BY <2>2, <2>3
<1>16. /\ \A i \in DOMAIN fPending : buf'[fPending[i].c] = buf[fPending[i].c]
       /\ \A i \in DOMAIN fDone : buf'[fDone[i].c] = buf[fDone[i].c]
  <2>1. /\ \A i \in DOMAIN fPending :
              fPending[i].c # r.c /\ fPending[i].c \in Requests
        /\ \A i \in DOMAIN fDone : fDone[i].c # r.c /\ fDone[i].c \in Requests
    BY Zenon, <1>2, <1>4 DEF IInv, InFlight, Apart, Among
  <2> QED BY Zenon, <1>8, <2>1
<1>17. ASSUME NEW i \in 1..(Len(fPending) + 1), NEW s, NEW v, NEW base,
              Sees(fPending, buf, base, i, s, v)
       PROVE Sees(fPending, buf', base, i, s, v)
  BY <1>2, <1>16, <1>17, SeesBuffers
<1> HIDE DEF lost
<1>18. NewReads'
  <2> SUFFICES ASSUME open, NEW s \in Sectors, wrote'[s] # Unknown
               PROVE Sees(fPending, buf', Base(s)', Len(fPending) + 1, s,
                          wrote'[s])
    BY Zenon, <1>1 DEF NewReads
  <2>1. wrote'[s] = wrote[s] /\ Base(s)' = Base(s) BY Zenon, <1>9, <1>15
  <2>2. Sees(fPending, buf, Base(s), Len(fPending) + 1, s, wrote[s])
    BY Zenon, <2>1 DEF IInv, Reads, NewReads
  <2>3. Len(fPending) + 1 \in 1..(Len(fPending) + 1) BY <1>2
  <2> QED BY Zenon, <1>17, <2>1, <2>2, <2>3
<1>19. PendingReads'
  <2> SUFFICES ASSUME NEW s \in Sectors, NEW i \in DOMAIN fPending,
                      Outstanding(fPending[i], s)'
               PROVE Sees(fPending, buf', Base(s)', i, s,
                          expect'[fPending[i].c])
    BY Zenon, <1>1 DEF PendingReads
  <2>1. fPending[i].c \in Requests
    BY Zenon, <1>2 DEF IInv, InFlight, Among
  <2>2. expect'[fPending[i].c] = expect[fPending[i].c] /\ Base(s)' = Base(s)
    BY Zenon, <1>1, <1>9, <1>15, <2>1 DEF Outstanding
  <2>3. Sees(fPending, buf, Base(s), i, s, expect[fPending[i].c])
    BY Zenon, <1>1, <2>2 DEF IInv, Reads, PendingReads, Outstanding
  <2>4. i \in 1..(Len(fPending) + 1) BY <1>2
  <2> QED BY Zenon, <1>17, <2>2, <2>3, <2>4
<1>20. CurrentRead'
  <2> SUFFICES ASSUME NEW s \in Sectors, Outstanding(fCurrent[1], s)', ok
               PROVE expect'[r.c] = Overlay(fSectorTable, s, buf'[r.c])
    <3>1. wpc' # "perform" BY <1>1
    <3> SUFFICES ASSUME NEW s \in Sectors, NEW i \in DOMAIN fCurrent',
                        Outstanding(fCurrent[i], s)', fCurrent'[i].ok
                 PROVE expect'[fCurrent'[i].c]
                          = Overlay(fSectorTable', s, buf'[fCurrent'[i].c])
      BY Zenon, <3>1 DEF CurrentRead
    <3>2. i = 1 BY Zenon, <1>6
    <3> QED BY Zenon, <1>1, <1>6, <3>2
  <2>1. ~r.write /\ r.sector = s /\ expect'[r.c] # Unknown
    BY Zenon, <1>6 DEF Outstanding
  <2>2. expect'[r.c] = expect[r.c] BY Zenon, <1>5, <1>9, <2>1
  <2>3. expect[r.c] = Overlay(fSectorTable, s, file[s])
    BY Zenon, <1>1, <1>4, <2>1, <2>2 DEF IInv, Reads, CurrentRead, Outstanding
  <2> QED BY Zenon, <1>8, <2>1, <2>2, <2>3
<1>21. DoneReads'
  <2>1. ASSUME NEW s \in Sectors, NEW i \in DOMAIN fDone,
               Outstanding(fDone[i], s)'
        PROVE expect'[fDone[i].c] = expect[fDone[i].c]
    <3>1. fDone[i].c \in Requests BY Zenon, <1>2 DEF IInv, InFlight, Among
    <3> QED BY Zenon, <1>1, <1>9, <2>1, <3>1 DEF Outstanding
  <2> QED BY Zenon, <1>1, <1>16, <2>1, DoneKept DEF IInv, Reads
<1> QED
  BY Zenon, <1>10, <1>11, <1>12, <1>13, <1>18, <1>19, <1>20, <1>21
  DEF IInv, Reads

LEMMA FinishKeeps ==
    ASSUME IInv, Finish
    PROVE IInv'
<1> DEFINE r == fCurrent[1]
<1>1. /\ file' = file /\ fSectorTable' = fSectorTable /\ fStop' = fStop
      /\ loop' = loop /\ cancelling' = cancelling /\ open' = open
      /\ fMode' = fMode /\ waits' = waits /\ buf' = buf
      /\ fPending' = fPending /\ wrote' = wrote /\ expect' = expect
      /\ wpc = "finish" /\ wpc' = "wait" /\ woken' = TRUE
      /\ fDone' = Append(fDone, r) /\ fCurrent' = <<>>
  BY DEF Finish, image, seen
<1>2. /\ fCurrent \in Seq(Request) /\ fDone \in Seq(Request)
  BY Zenon DEF IInv, TypeOK
<1>3. Len(fCurrent) = 1 BY <1>1 DEF IInv, Working
<1>4. r \in Request /\ 1 \in DOMAIN fCurrent
  <2>1. 1 \in 1..Len(fCurrent) /\ 1 \in DOMAIN fCurrent BY <1>2, <1>3
  <2> QED BY <1>2, <2>1
<1>5. /\ fCurrent' \in Seq(Request) /\ Len(fCurrent') <= 1
      /\ DOMAIN fCurrent' = {}
  BY <1>1
<1>6. /\ fDone' \in Seq(Request)
      /\ \A j \in DOMAIN fDone' :
            \/ j \in DOMAIN fDone /\ fDone'[j] = fDone[j]
            \/ j = Len(fDone) + 1 /\ fDone'[j] = r
  <2>1. /\ fDone' \in Seq(Request) /\ Len(fDone') = Len(fDone) + 1
        /\ \A i \in 1..Len(fDone) : fDone'[i] = fDone[i]
        /\ fDone'[Len(fDone) + 1] = r
    BY Zenon, <1>1, <1>2, <1>4, AppendIs
  <2>2. /\ DOMAIN fDone = 1..Len(fDone) /\ Len(fDone) \in Nat
        /\ DOMAIN fDone' = 1..Len(fDone')
    BY <1>2, <2>1
  <2>3. ASSUME NEW j \in DOMAIN fDone'
        PROVE j \in 1..Len(fDone) \/ j = Len(fDone) + 1
    BY <2>1, <2>2
  <2> QED BY Zenon, <2>1, <2>2, <2>3
<1>7. /\ \A j \in DOMAIN fDone : fDone[j].c # r.c
      /\ \A j \in DOMAIN fPending : fPending[j].c # r.c
      /\ r.c \in waits
  BY Zenon, <1>4 DEF IInv, InFlight, Apart, Among
<1>17. \A s \in Sectors : Outstanding(r, s) /\ r.ok =>
            expect[r.c] = Overlay(fSectorTable, s, buf[r.c])
  BY Zenon, <1>1, <1>4 DEF IInv, Reads, CurrentRead
<1> HIDE DEF r
<1>8. TypeOK'
  <2>1. wpc' \in {"wait", "perform", "finish", "ended"} /\ woken' \in BOOLEAN
    BY <1>1
  <2> QED BY Zenon, <1>1, <1>5, <1>6, <2>1 DEF IInv, TypeOK
<1>9. InFlight'
  <2>1. Once(fDone')
    <3> SUFFICES ASSUME NEW i \in DOMAIN fDone', NEW j \in DOMAIN fDone',
                        fDone'[i].c = fDone'[j].c
                 PROVE i = j
      BY Zenon DEF Once
    <3>1. CASE i \in DOMAIN fDone /\ fDone'[i] = fDone[i]
      <4>1. ~(j = Len(fDone) + 1 /\ fDone'[j] = r)
        BY Zenon, <1>7, <3>1
      <4>2. j \in DOMAIN fDone /\ fDone'[j] = fDone[j]
        BY Zenon, <1>6, <4>1
      <4>3. fDone[i].c = fDone[j].c BY <3>1, <4>2
      <4> QED BY Zenon, <3>1, <4>2, <4>3 DEF IInv, InFlight, Once
    <3>2. CASE i = Len(fDone) + 1 /\ fDone'[i] = r
      <4>1. ~(j \in DOMAIN fDone /\ fDone'[j] = fDone[j])
        BY Zenon, <1>7, <3>2
      <4> QED BY Zenon, <1>6, <3>2, <4>1
    <3> QED BY Zenon, <1>6, <3>1, <3>2
  <2>2. Apart(fPending', fDone')
    <3> SUFFICES ASSUME NEW i \in DOMAIN fPending, NEW j \in DOMAIN fDone'
                 PROVE fPending[i].c # fDone'[j].c
      BY Zenon, <1>1 DEF Apart
    <3>1. CASE j \in DOMAIN fDone /\ fDone'[j] = fDone[j]
      BY Zenon, <3>1 DEF IInv, InFlight, Apart
    <3>2. CASE fDone'[j] = r BY Zenon, <1>7, <3>2
    <3> QED BY Zenon, <1>6, <3>1, <3>2
  <2>3. Apart(fPending', fCurrent') /\ Apart(fCurrent', fDone')
    BY Zenon, <1>5 DEF Apart
  <2>4. Among(fDone', waits')
    BY Zenon, <1>1, <1>6, <1>7 DEF IInv, InFlight, Among
  <2>5. Among(fCurrent', waits') BY Zenon, <1>5 DEF Among
  <2> QED
    BY Zenon, <1>1, <2>1, <2>2, <2>3, <2>4, <2>5 DEF IInv, InFlight
<1>10. Working'
  <2>1. wpc' \notin {"perform", "finish", "ended"} /\ wpc # "ended"
    BY <1>1
  <2> QED BY Zenon, <1>1, <2>1 DEF IInv, Working
<1>11. ModeKept'
  BY Zenon, <1>1, <1>5 DEF IInv, ModeKept, NoWrites
<1>12. ASSUME NEW s \in Sectors PROVE Base(s)' = Base(s)
  <2>1. wpc # "perform" /\ wpc' # "perform" BY <1>1
  <2> QED BY Zenon, <1>1, <2>1 DEF Base
<1>13. NewReads' BY Zenon, <1>1, <1>12 DEF IInv, Reads, NewReads
<1>14. PendingReads'
  BY Zenon, <1>1, <1>12 DEF IInv, Reads, PendingReads, Outstanding
<1>15. CurrentRead' BY Zenon, <1>5 DEF CurrentRead
<1>16. DoneReads'
  <2> SUFFICES ASSUME NEW s \in Sectors, NEW j \in DOMAIN fDone',
                      Outstanding(fDone[j], s)', fDone'[j].ok
               PROVE expect[fDone'[j].c]
                        = Overlay(fSectorTable, s, buf[fDone'[j].c])
    BY Zenon, <1>1 DEF DoneReads
  <2>1. Outstanding(fDone'[j], s) BY Zenon, <1>1 DEF Outstanding
  <2>2. CASE j \in DOMAIN fDone /\ fDone'[j] = fDone[j]
    BY Zenon, <2>1, <2>2 DEF IInv, Reads, DoneReads
  <2>3. CASE fDone'[j] = r
    <3>1. Outstanding(r, s) /\ r.ok BY Zenon, <2>1, <2>3
    <3> QED BY Zenon, <1>17, <2>3, <3>1
  <2> QED BY Zenon, <1>6, <2>2, <2>3
<1> QED
  BY Zenon, <1>8, <1>9, <1>10, <1>11, <1>13, <1>14, <1>15, <1>16
  DEF IInv, Reads

LEMMA CompleteKeeps ==
    ASSUME IInv, Complete
    PROVE IInv'
<1> DEFINE r == fDone[1]
<1>1. /\ file' = file /\ fSectorTable' = fSectorTable /\ fStop' = fStop
      /\ wpc' = wpc /\ woken' = woken /\ cancelling' = cancelling
      /\ open' = open /\ fMode' = fMode /\ fPending' = fPending
      /\ fCurrent' = fCurrent /\ wrote' = wrote /\ expect' = expect
      /\ loop > 0 /\ loop' = loop - 1 /\ fDone # <<>> /\ fDone' = Tail(fDone)
      /\ buf' = Merged(Head(fDone)) /\ waits' = waits \ {Head(fDone).c}
  BY DEF Complete, image, seen
<1>2. /\ fPending \in Seq(Request) /\ fDone \in Seq(Request)
      /\ fSectorTable \in [Sectors -> Values \cup {Null}]
      /\ buf \in [Requests -> Values] /\ fCurrent \in Seq(Request)
  BY Zenon DEF IInv, TypeOK
<1>3. /\ fDone' \in Seq(Request) /\ Head(fDone) = r /\ r \in Request
      /\ Removed(fDone, fDone', 1)
  BY Zenon, <1>1, <1>2, TailIs
<1>4. r.c \in Requests /\ r.sector \in Sectors BY <1>3 DEF Request
<1>5. /\ buf' \in [Requests -> Values]
      /\ \A x \in Requests : x # r.c => buf'[x] = buf[x]
  <2>1. buf' = Merged(r) BY Zenon, <1>1, <1>3
  <2> HIDE DEF r
  <2>2. \/ buf' = buf
        \/ /\ buf' = [buf EXCEPT ![r.c] = fSectorTable[r.sector]]
           /\ fSectorTable[r.sector] # Null
    BY Zenon, <2>1 DEF Merged
  <2>3. fSectorTable[r.sector] \in Values \cup {Null} BY <1>2, <1>4
  <2> QED BY <1>2, <1>4, <2>2, <2>3
<1>6. /\ Once(fDone') /\ \A j \in DOMAIN fDone' : fDone'[j].c # r.c
      /\ Apart(fPending, fDone') /\ Apart(fCurrent, fDone')
      /\ Among(fDone', waits) /\ 1 \in DOMAIN fDone
  BY Zenon, <1>2, <1>3, Fewer DEF IInv, InFlight
<1>7. /\ \A j \in DOMAIN fPending : fPending[j].c # r.c
      /\ \A j \in DOMAIN fCurrent : fCurrent[j].c # r.c
  BY Zenon, <1>6 DEF IInv, InFlight, Apart
<1>8. waits' = waits \ {r.c} BY Zenon, <1>1, <1>3
<1>9. /\ \A j \in DOMAIN fPending : buf'[fPending[j].c] = buf[fPending[j].c]
      /\ \A j \in DOMAIN fCurrent : buf'[fCurrent[j].c] = buf[fCurrent[j].c]
      /\ \A j \in DOMAIN fDone' : buf'[fDone'[j].c] = buf[fDone'[j].c]
  <2>1. waits \subseteq Requests BY Zenon DEF IInv, TypeOK
  <2> QED BY Zenon, <1>5, <1>6, <1>7, <2>1 DEF IInv, InFlight, Among
<1> HIDE DEF r
<1>10. TypeOK'
  <2>1. waits' \subseteq Requests BY Zenon, <1>8 DEF IInv, TypeOK
  <2>2. loop' \in Nat \cup {-1}
    <3>1. loop \in Nat \cup {-1} BY Zenon DEF IInv, TypeOK
    <3> QED BY <1>1, <3>1
  <2>3. Len(fCurrent') <= 1 BY <1>1 DEF IInv, TypeOK
  <2> QED BY Zenon, <1>1, <1>3, <1>5, <2>1, <2>2, <2>3 DEF IInv, TypeOK
<1>11. InFlight'
  <2>1. Among(fPending, waits') /\ Among(fCurrent, waits')
        /\ Among(fDone', waits')
    BY Zenon, <1>6, <1>7, <1>8 DEF IInv, InFlight, Among
  <2> QED BY Zenon, <1>1, <1>6, <2>1 DEF IInv, InFlight
<1>12. Working' /\ ModeKept'
  BY Zenon, <1>1 DEF IInv, Working, ModeKept
<1>13. ASSUME NEW s \in Sectors PROVE Base(s)' = Base(s)
  <2>1. wpc = "perform" => 1 \in DOMAIN fCurrent
    BY <1>2 DEF IInv, Working
  <2> QED BY Zenon, <1>1, <1>9, <2>1 DEF Base
<1>14. ASSUME NEW i \in 1..(Len(fPending) + 1), NEW s, NEW v, NEW base,
              Sees(fPending, buf, base, i, s, v)
       PROVE Sees(fPending, buf', base, i, s, v)
  BY <1>2, <1>9, <1>14, SeesBuffers
<1>15. NewReads'
  <2>1. Len(fPending) + 1 \in 1..(Len(fPending) + 1) BY <1>2
  <2> QED BY Zenon, <1>1, <1>13, <1>14, <2>1 DEF IInv, Reads, NewReads
<1>16. PendingReads'
  <2>1. \A i \in DOMAIN fPending : i \in 1..(Len(fPending) + 1) BY <1>2
  <2> QED
    BY Zenon, <1>1, <1>13, <1>14, <2>1
    DEF IInv, Reads, PendingReads, Outstanding
<1>17. CurrentRead' BY Zenon, <1>1, <1>9, CurrentKept DEF IInv, Reads
<1>18. DoneReads'
  <2>1. \A j \in DOMAIN fDone' : \E i \in DOMAIN fDone : fDone'[j] = fDone[i]
    BY Zenon, <1>2, <1>3, RemovedFrom
  <2>2. ASSUME NEW j \in DOMAIN fDone'
        PROVE \E i \in DOMAIN fDone : /\ fDone'[j] = fDone[i]
                                      /\ buf'[fDone[i].c] = buf[fDone[i].c]
    <3>1. PICK i \in DOMAIN fDone : fDone'[j] = fDone[i] BY Zenon, <2>1
    <3>2. buf'[fDone'[j].c] = buf[fDone'[j].c] BY Zenon, <1>9
    <3>3. buf'[fDone[i].c] = buf[fDone[i].c] BY <3>1, <3>2
    <3> QED BY Zenon, <3>1, <3>3
  <2> QED BY Zenon, <1>1, <2>2, DoneKept DEF IInv, Reads
<1> QED
  BY Zenon, <1>10, <1>11, <1>12, <1>15, <1>16, <1>17, <1>18 DEF IInv, Reads

(* What Cancel() keeps of a queue. *)
LEMMA WithoutKeeps ==
    ASSUME NEW q \in Seq(Request), NEW c, Once(q), NEW p, p = Without(q, c)
    PROVE /\ p \in Seq(Request) /\ Once(p)
          /\ \A r : Apart(q, r) => Apart(p, r)
          /\ \A r : Apart(r, q) => Apart(r, p)
          /\ \A C : Among(q, C) => Among(p, C \ {c})
          /\ NoWrites(q) => NoWrites(p)
          /\ \A j \in DOMAIN p : \E i \in DOMAIN q : p[j] = q[i]
<1>1. p \in Seq(Request) BY Zenon, WithoutIs
<1>2. CASE /\ p = q
           /\ \A i \in 1..Len(q) : q[i].c # c
  <2>1. DOMAIN q = 1..Len(q) OBVIOUS
  <2> QED BY Zenon, <1>1, <1>2, <2>1 DEF Among
<1>3. CASE \E k \in 1..Len(q) : q[k].c = c /\ Removed(q, p, k)
  <2>1. PICK k \in 1..Len(q) : q[k].c = c /\ Removed(q, p, k) BY <1>3
  <2>5. Removed(q, p, k) BY Zenon, <2>1
  <2>2. /\ Once(p) /\ \A j \in DOMAIN p : p[j].c # q[k].c
        /\ \A r : Apart(q, r) => Apart(p, r)
        /\ \A r : Apart(r, q) => Apart(r, p)
        /\ \A C : Among(q, C) => Among(p, C)
        /\ NoWrites(q) => NoWrites(p)
    BY Zenon, <1>1, <2>5, Fewer
  <2>3. \A j \in DOMAIN p : \E i \in DOMAIN q : p[j] = q[i]
    BY Zenon, <1>1, <2>1, RemovedFrom
  <2>4. \A C : Among(q, C) => Among(p, C \ {c})
    BY Zenon, <2>1, <2>2 DEF Among
  <2> QED BY Zenon, <1>1, <2>2, <2>3, <2>4
<1> QED BY Zenon, <1>2, <1>3, WithoutIs

(* A write that is dropped is forgotten, by the reads behind it too. *)
LEMMA Dropped ==
    ASSUME IInv, NEW c, Drop(c)
    PROVE /\ wrote' \in [Sectors -> Values \cup {Unknown}]
          /\ expect' \in [Requests -> Values \cup {Unknown}]
          /\ \A s \in Sectors : wrote'[s] # Unknown => wrote'[s] = wrote[s]
          /\ \A x \in Requests : expect'[x] # Unknown => expect'[x] = expect[x]
          /\ \A k \in DOMAIN fPending, s \in Sectors :
                fPending[k].c = c /\ Writes(fPending[k], s) =>
                    /\ wrote'[s] = Unknown
                    /\ \A i \in DOMAIN fPending :
                          ~fPending[i].write /\ fPending[i].sector = s =>
                              expect'[fPending[i].c] = Unknown
<1>1. /\ wrote \in [Sectors -> Values \cup {Unknown}]
      /\ expect \in [Requests -> Values \cup {Unknown}]
      /\ fPending \in Seq(Request)
  BY Zenon DEF IInv, TypeOK
<1>2. CASE /\ ~ \E i \in DOMAIN fPending : IsFor(fPending, c, i)
           /\ UNCHANGED seen
  <2>1. wrote' = wrote /\ expect' = expect BY <1>2 DEF seen
  <2>2. \A k \in DOMAIN fPending : fPending[k].c # c
    BY Zenon, <1>2 DEF IsFor
  <2> QED BY Zenon, <1>1, <2>1, <2>2
<1>3. ASSUME NEW k \in DOMAIN fPending, IsFor(fPending, c, k),
             WriteLost(fPending[k])
      PROVE /\ wrote' \in [Sectors -> Values \cup {Unknown}]
            /\ expect' \in [Requests -> Values \cup {Unknown}]
            /\ \A s \in Sectors : wrote'[s] # Unknown => wrote'[s] = wrote[s]
            /\ \A x \in Requests :
                    expect'[x] # Unknown => expect'[x] = expect[x]
            /\ \A s \in Sectors : Writes(fPending[k], s) =>
                    /\ wrote'[s] = Unknown
                    /\ \A i \in DOMAIN fPending :
                          ~fPending[i].write /\ fPending[i].sector = s =>
                              expect'[fPending[i].c] = Unknown
  <2>1. CASE ~fPending[k].write
    <3>1. UNCHANGED seen BY Zenon, <1>3, <2>1 DEF WriteLost
    <3>2. wrote' = wrote /\ expect' = expect BY <3>1 DEF seen
    <3> QED BY Zenon, <1>1, <2>1, <3>2 DEF Writes
  <2>2. CASE fPending[k].write
    <3> DEFINE t == fPending[k].sector
    <3>1. /\ wrote' = [wrote EXCEPT ![t] = Unknown]
          /\ Forget(Reading(t))
      BY Zenon, <1>3, <2>2 DEF WriteLost
    <3>2. t \in Sectors
      <4>1. fPending[k] \in Request BY <1>1
      <4> QED BY <4>1 DEF Request
    <3> HIDE DEF t
    <3>3. /\ wrote' \in [Sectors -> Values \cup {Unknown}]
          /\ \A s \in Sectors : wrote'[s] # Unknown => wrote'[s] = wrote[s]
          /\ wrote'[t] = Unknown
      BY <1>1, <3>1, <3>2
    <3>4. /\ expect' \in [Requests -> Values \cup {Unknown}]
          /\ \A x \in Requests : expect'[x] \in {expect[x], Unknown}
          /\ \A i \in DOMAIN fPending :
                ~fPending[i].write /\ fPending[i].sector = t
                    => expect'[fPending[i].c] = Unknown
      BY Zenon, <3>1, Forgotten
    <3>5. \A s \in Sectors : Writes(fPending[k], s) => s = t
      BY Zenon DEF Writes, t
    <3> QED BY Zenon, <3>3, <3>4, <3>5
  <2> QED BY <2>1, <2>2
<1>4. CASE \E i \in DOMAIN fPending :
              IsFor(fPending, c, i) /\ WriteLost(fPending[i])
  <2>1. PICK k \in DOMAIN fPending :
            IsFor(fPending, c, k) /\ WriteLost(fPending[k])
    BY Zenon, <1>4
  <2>2. \A j \in DOMAIN fPending : fPending[j].c = c => j = k
    BY Zenon, <2>1 DEF IInv, InFlight, Once, IsFor
  <2> QED BY Zenon, <1>3, <2>1, <2>2
<1> QED BY Zenon, <1>2, <1>4 DEF Drop

LEMMA CancelReturnsKeeps ==
    ASSUME IInv, CancelReturns
    PROVE IInv'
<1> DEFINE c == cancelling
<1>1. /\ file' = file /\ fSectorTable' = fSectorTable /\ fStop' = fStop
      /\ wpc' = wpc /\ woken' = woken /\ loop' = loop /\ open' = open
      /\ fMode' = fMode /\ fCurrent' = fCurrent /\ buf' = buf
      /\ fPending' = Without(fPending, c) /\ fDone' = Without(fDone, c)
      /\ waits' = waits \ {c} /\ cancelling' = Null
      /\ ~WorkerIsOn(c) /\ Drop(c)
  BY DEF CancelReturns, image
<1> HIDE DEF c
<1>2. /\ fPending \in Seq(Request) /\ fDone \in Seq(Request)
      /\ fCurrent \in Seq(Request) /\ waits \subseteq Requests
  BY Zenon DEF IInv, TypeOK
<1>3. /\ fPending' \in Seq(Request) /\ Once(fPending')
      /\ Apart(fPending', fDone) /\ Apart(fPending', fCurrent)
      /\ Among(fPending', waits \ {c})
      /\ NoWrites(fPending) => NoWrites(fPending')
  BY Zenon, <1>1, <1>2, WithoutKeeps DEF IInv, InFlight
<1>4. /\ fDone' \in Seq(Request) /\ Once(fDone')
      /\ Apart(fPending', fDone') /\ Apart(fCurrent, fDone')
      /\ Among(fDone', waits \ {c})
      /\ \A j \in DOMAIN fDone' : \E i \in DOMAIN fDone : fDone'[j] = fDone[i]
  <2>1. Once(fDone) /\ Apart(fCurrent, fDone) /\ Among(fDone, waits)
    BY Zenon DEF IInv, InFlight
  <2>2. /\ fDone' \in Seq(Request) /\ Once(fDone')
        /\ \A r : Apart(r, fDone) => Apart(r, fDone')
        /\ \A C : Among(fDone, C) => Among(fDone', C \ {c})
    BY Zenon, <1>1, <1>2, <2>1, WithoutKeeps
  <2>3. \A j \in DOMAIN fDone' : \E i \in DOMAIN fDone : fDone'[j] = fDone[i]
    BY <1>1, <1>2, <2>1, WithoutKeeps
  <2> QED BY Zenon, <1>3, <2>1, <2>2, <2>3
<1>5. Among(fCurrent, waits \ {c})
  BY Zenon, <1>1 DEF IInv, InFlight, Among, WorkerIsOn, IsFor
<1>6. /\ wrote' \in [Sectors -> Values \cup {Unknown}]
      /\ expect' \in [Requests -> Values \cup {Unknown}]
      /\ \A s \in Sectors : wrote'[s] # Unknown => wrote'[s] = wrote[s]
      /\ \A x \in Requests : expect'[x] # Unknown => expect'[x] = expect[x]
      /\ \A k \in DOMAIN fPending, s \in Sectors :
            fPending[k].c = c /\ Writes(fPending[k], s) =>
                /\ wrote'[s] = Unknown
                /\ \A i \in DOMAIN fPending :
                      ~fPending[i].write /\ fPending[i].sector = s =>
                          expect'[fPending[i].c] = Unknown
  BY Zenon, <1>1, Dropped
<1>7. TypeOK'
  <2>1. waits' \subseteq Requests BY Zenon, <1>1, <1>2
  <2>2. Len(fCurrent') <= 1 BY <1>1 DEF IInv, TypeOK
  <2> QED BY Zenon, <1>1, <1>3, <1>4, <1>6, <2>1, <2>2 DEF IInv, TypeOK
<1>8. InFlight'
  BY Zenon, <1>1, <1>3, <1>4, <1>5 DEF IInv, InFlight
<1>9. Working' /\ ModeKept'
  BY Zenon, <1>1, <1>3 DEF IInv, Working, ModeKept
<1>10. ASSUME NEW s \in Sectors PROVE Base(s)' = Base(s)
  BY Zenon, <1>1 DEF Base
<1>11. \A i \in DOMAIN fPending : fPending[i].c \in Requests
  BY Zenon, <1>2 DEF IInv, InFlight, Among
<1>12. NewReads' /\ PendingReads'
  <2>1. CASE /\ fPending' = fPending
             /\ \A i \in 1..Len(fPending) : fPending[i].c # c
    <3>1. NewReads' BY Zenon, <1>1, <1>6, <1>10, <2>1 DEF IInv, Reads, NewReads
    <3>2. PendingReads'
      <4> SUFFICES ASSUME NEW s \in Sectors, NEW i \in DOMAIN fPending,
                          Outstanding(fPending[i], s)'
                   PROVE Sees(fPending, buf, Base(s), i, s,
                              expect'[fPending[i].c])
        BY Zenon, <1>1, <1>10, <2>1 DEF PendingReads
      <4>1. expect'[fPending[i].c] = expect[fPending[i].c]
        BY Zenon, <1>6, <1>11, <2>1 DEF Outstanding
      <4> QED
        BY Zenon, <2>1, <4>1 DEF IInv, Reads, PendingReads, Outstanding
    <3> QED BY <3>1, <3>2
  <2>2. CASE \E k \in 1..Len(fPending) :
                fPending[k].c = c /\ Removed(fPending, fPending', k)
    <3>1. PICK k \in 1..Len(fPending) :
                fPending[k].c = c /\ Removed(fPending, fPending', k)
      BY Zenon, <2>2
    <3>2. /\ k \in DOMAIN fPending /\ k \in Nat /\ Len(fPending) \in Nat
          /\ Len(fPending') + 1 = Len(fPending)
          /\ Len(fPending) + 1 > k
          /\ (Len(fPending) + 1) - 1 = Len(fPending') + 1
      BY <1>2, <3>1 DEF Removed
    <3>3. ASSUME NEW i \in 1..(Len(fPending) + 1), NEW s, NEW v,
                 ~Writes(fPending[k], s),
                 Sees(fPending, buf, Base(s), i, s, v)
          PROVE Sees(fPending', buf, Base(s), IF i > k THEN i - 1 ELSE i, s, v)
      BY Zenon, <1>2, <1>3, <3>1, <3>3, SeesRemoved
    <3>4. NewReads'
      <4> SUFFICES ASSUME open, NEW s \in Sectors, wrote'[s] # Unknown
                   PROVE Sees(fPending', buf, Base(s), Len(fPending') + 1, s,
                              wrote[s])
        BY Zenon, <1>1, <1>6, <1>10 DEF NewReads
      <4>1. ~Writes(fPending[k], s) BY Zenon, <1>6, <3>1, <3>2
      <4>2. Sees(fPending, buf, Base(s), Len(fPending) + 1, s, wrote[s])
        BY Zenon, <1>6 DEF IInv, Reads, NewReads
      <4> DEFINE n == Len(fPending) + 1
      <4>3. n \in 1..(Len(fPending) + 1) /\ n > k /\ n - 1 = Len(fPending') + 1
        BY <3>2
      <4>4. Sees(fPending', buf, Base(s), IF n > k THEN n - 1 ELSE n, s,
                 wrote[s])
        BY Zenon, <3>3, <4>1, <4>2, <4>3
      <4> HIDE DEF n
      <4> QED BY <4>3, <4>4
    <3>5. PendingReads'
      <4> SUFFICES ASSUME NEW s \in Sectors, NEW j \in DOMAIN fPending',
                          Outstanding(fPending[j], s)'
                   PROVE Sees(fPending', buf, Base(s), j, s,
                              expect'[fPending'[j].c])
        BY Zenon, <1>1, <1>10 DEF PendingReads
      <4>1. PICK i \in DOMAIN fPending :
                /\ i # k /\ fPending'[j] = fPending[i]
                /\ i = (IF j < k THEN j ELSE j + 1)
        BY <1>2, <1>3, <3>1, RemovedKeeps
      <4>2. /\ i \in 1..(Len(fPending) + 1) /\ i \in Nat /\ j \in Nat
            /\ (IF i > k THEN i - 1 ELSE i) = j
        BY <1>2, <1>3, <3>2, <4>1
      <4>3. /\ ~fPending[i].write /\ fPending[i].sector = s
            /\ expect'[fPending[i].c] # Unknown
        BY Zenon, <4>1 DEF Outstanding
      <4>4. expect'[fPending[i].c] = expect[fPending[i].c]
        BY Zenon, <1>6, <1>11, <4>3
      <4>5. ~Writes(fPending[k], s) BY Zenon, <1>6, <3>1, <3>2, <4>3
      <4>6. Sees(fPending, buf, Base(s), i, s, expect[fPending[i].c])
        BY Zenon, <4>3, <4>4 DEF IInv, Reads, PendingReads, Outstanding
      <4>7. Sees(fPending', buf, Base(s), IF i > k THEN i - 1 ELSE i, s,
                 expect[fPending[i].c])
        BY Zenon, <3>3, <4>2, <4>5, <4>6
      <4>8. Sees(fPending', buf, Base(s), j, s, expect[fPending[i].c])
        BY <4>2, <4>7
      <4> QED BY Zenon, <4>1, <4>4, <4>8
    <3> QED BY <3>4, <3>5
  <2> QED BY Zenon, <1>1, <1>2, <2>1, <2>2, WithoutIs
<1>13. CurrentRead'
  <2>1. \A i \in DOMAIN fCurrent : fCurrent[i].c \in Requests
    BY Zenon, <1>2 DEF IInv, InFlight, Among
  <2> QED
    BY Zenon, <1>1, <1>6, <2>1, CurrentKept DEF IInv, Reads, Outstanding
<1>14. DoneReads'
  <2>1. \A i \in DOMAIN fDone : fDone[i].c \in Requests
    BY Zenon, <1>2 DEF IInv, InFlight, Among
  <2>2. ASSUME NEW s \in Sectors, NEW j \in DOMAIN fDone',
               Outstanding(fDone[j], s)'
        PROVE \E i \in DOMAIN fDone :
                    /\ fDone'[j] = fDone[i]
                    /\ expect'[fDone[i].c] = expect[fDone[i].c]
    <3>1. PICK i \in DOMAIN fDone : fDone'[j] = fDone[i] BY Zenon, <1>4
    <3>2. expect'[fDone[i].c] # Unknown BY Zenon, <2>2, <3>1 DEF Outstanding
    <3> QED BY Zenon, <1>6, <2>1, <3>1, <3>2
  <2> QED BY Zenon, <1>1, <2>2, DoneKept DEF IInv, Reads
<1> QED
  BY Zenon, <1>7, <1>8, <1>9, <1>12, <1>13, <1>14 DEF IInv, Reads

LEMMA DestroyedKeeps ==
    ASSUME IInv, Destroyed
    PROVE IInv'
<1>1. /\ file' = file /\ fSectorTable' = fSectorTable /\ fStop' = fStop
      /\ wpc' = wpc /\ woken' = woken /\ loop' = loop /\ open' = FALSE
      /\ fMode' = fMode /\ fCurrent' = fCurrent /\ buf' = buf
      /\ cancelling' = cancelling /\ wrote' = wrote /\ expect' = expect
      /\ fPending' = <<>> /\ fDone' = <<>> /\ waits' = {} /\ wpc = "ended"
  BY DEF Destroyed, image, seen
<1>2. fCurrent = <<>> /\ fStop BY <1>1 DEF IInv, Working
<1>3. /\ DOMAIN fPending' = {} /\ DOMAIN fDone' = {} /\ DOMAIN fCurrent' = {}
      /\ fPending' \in Seq(Request) /\ fDone' \in Seq(Request)
      /\ Len(fCurrent') <= 1 /\ open' \in BOOLEAN /\ ~open'
      /\ waits' \subseteq Requests
  <2>1. open' \in BOOLEAN /\ ~open' BY Zenon, <1>1
  <2>2. waits' \subseteq Requests BY <1>1
  <2>3. fCurrent' = <<>> BY <1>1, <1>2
  <2>4. DOMAIN <<>> = {} /\ <<>> \in Seq(Request) /\ Len(<<>>) <= 1 OBVIOUS
  <2>5. DOMAIN fPending' = {} /\ fPending' \in Seq(Request) BY <1>1, <2>4
  <2>6. DOMAIN fDone' = {} /\ fDone' \in Seq(Request) BY <1>1, <2>4
  <2>7. DOMAIN fCurrent' = {} /\ Len(fCurrent') <= 1 BY <2>3, <2>4
  <2> QED BY <2>1, <2>2, <2>5, <2>6, <2>7
<1>4. TypeOK' BY Zenon, <1>1, <1>3 DEF IInv, TypeOK
<1>5. InFlight' BY Zenon, <1>3 DEF InFlight, Once, Apart, Among
<1>6. Working'
  <2>1. wpc' \notin {"perform", "finish"} /\ wpc' = "ended" BY <1>1
  <2> QED BY Zenon, <1>1, <1>2, <2>1 DEF IInv, Working
<1>7. ModeKept' BY Zenon, <1>1, <1>3 DEF IInv, ModeKept, NoWrites
<1>8. Reads'
  BY Zenon, <1>3 DEF Reads, NewReads, PendingReads, CurrentRead, DoneReads
<1> QED BY Zenon, <1>4, <1>5, <1>6, <1>7, <1>8 DEF IInv

-----------------------------------------------------------------------------
(* The invariant *)

LEMMA Initially == Init => IInv
<1> SUFFICES ASSUME Init PROVE IInv OBVIOUS
<1>1. /\ fPending = <<>> /\ fCurrent = <<>> /\ fDone = <<>> /\ wpc = "wait"
      /\ open = TRUE /\ fStop = FALSE /\ cancelling = Null
      /\ wrote = [s \in Sectors |-> Zero]
      /\ file = [s \in Sectors |-> Zero]
      /\ fSectorTable = [s \in Sectors |-> Null]
  BY DEF Init
<1>2. DOMAIN <<>> = {} /\ <<>> \in Seq(Request) /\ Len(<<>>) = 0
  OBVIOUS
<1>3. TypeOK
  <2>1. /\ file \in [Sectors -> Values]
        /\ fSectorTable \in [Sectors -> Values \cup {Null}]
        /\ wrote \in [Sectors -> Values \cup {Unknown}]
    BY BlockAssumption, <1>1
  <2>2. /\ buf \in [Requests -> Values]
        /\ expect \in [Requests -> Values \cup {Unknown}]
    BY BlockAssumption DEF Init
  <2>3. /\ Len(fCurrent) <= 1 /\ loop \in Nat \cup {-1}
        /\ wpc \in {"wait", "perform", "finish", "ended"}
    BY <1>1, <1>2 DEF Init
  <2>4. /\ fStop \in BOOLEAN /\ woken \in BOOLEAN /\ open \in BOOLEAN
        /\ fMode \in Modes /\ cancelling \in Requests \cup {Null}
        /\ waits \subseteq Requests
    BY Zenon DEF Init
  <2> QED BY Zenon, <1>1, <1>2, <2>1, <2>2, <2>3, <2>4 DEF TypeOK
<1>4. InFlight BY Zenon, <1>1, <1>2 DEF InFlight, Once, Apart, Among
<1>5. Working BY <1>1 DEF Working
<1>6. ModeKept
  <2>1. \A s \in Sectors : fSectorTable[s] = Null BY <1>1
  <2> QED BY Zenon, <1>1, <1>2, <2>1 DEF ModeKept, NoWrites
<1>7. NewReads
  <2> SUFFICES ASSUME NEW s \in Sectors
               PROVE Sees(fPending, buf, Base(s), Len(fPending) + 1, s,
                          wrote[s])
    BY Zenon DEF NewReads
  <2>1. wpc # "perform" /\ fSectorTable[s] = Null /\ file[s] = Zero
        /\ wrote[s] = Zero
    BY <1>1
  <2>2. Base(s) = wrote[s] BY Zenon, <2>1 DEF Base, Overlay
  <2>3. 1..(Len(fPending) + 1 - 1) = {} BY <1>1
  <2>4. NoneFrom(fPending, 1, Len(fPending) + 1 - 1, s)
    BY Zenon, <2>3 DEF NoneFrom
  <2> QED BY <2>2, <2>4 DEF Sees
<1>8. PendingReads /\ CurrentRead /\ DoneReads
  BY Zenon, <1>1, <1>2 DEF PendingReads, CurrentRead, DoneReads
<1> QED BY Zenon, <1>3, <1>4, <1>5, <1>6, <1>7, <1>8 DEF IInv, Reads

(* Cancel(), until it returns, the worker's end, Dispatch() around the     *)
(* completions and the destructor's call do not touch what is read.        *)
LEMMA AsideKeeps ==
    ASSUME IInv,
           \/ \E c \in Requests : Cancel(c)
           \/ WorkerEnds \/ Dispatch \/ DispatchReturns \/ Destroy
    PROVE IInv'
<1>1. /\ UNCHANGED <<image, queues, waits, buf, open, fMode, seen>>
      /\ wpc' = wpc \/ (wpc = "wait" /\ wpc' = "ended")
  BY DEF Cancel, WorkerEnds, Dispatch, DispatchReturns, Destroy
<1>2. InFlight' /\ ModeKept' /\ Reads' BY Zenon, <1>1, Aside
<1>3. /\ file' = file /\ fSectorTable' = fSectorTable
      /\ fPending' = fPending /\ fCurrent' = fCurrent /\ fDone' = fDone
      /\ waits' = waits /\ buf' = buf /\ open' = open /\ fMode' = fMode
      /\ wrote' = wrote /\ expect' = expect
  BY <1>1 DEF image, queues, seen
<1>4. TypeOK'
  <2>1. fDone \in Seq(Request) /\ woken \in BOOLEAN /\ loop \in Nat \cup {-1}
        /\ fStop \in BOOLEAN /\ cancelling \in Requests \cup {Null}
    BY Zenon DEF IInv, TypeOK
  <2>2. loop' \in Nat \cup {-1}
    BY <2>1 DEF Cancel, WorkerEnds, Dispatch, DispatchReturns, Destroy
  <2>3. woken' \in BOOLEAN /\ fStop' \in BOOLEAN
    <3>1. /\ woken' = woken \/ woken' = FALSE
          /\ fStop' = fStop \/ fStop' = TRUE
      BY DEF Cancel, WorkerEnds, Dispatch, DispatchReturns, Destroy
    <3> QED BY Zenon, <2>1, <3>1
  <2>4. cancelling' \in Requests \cup {Null}
    BY <2>1 DEF Cancel, WorkerEnds, Dispatch, DispatchReturns, Destroy
  <2>5. wpc' \in {"wait", "perform", "finish", "ended"}
    BY <1>1 DEF IInv, TypeOK
  <2> QED
    BY Zenon, <1>3, <2>2, <2>3, <2>4, <2>5 DEF IInv, TypeOK
<1>5. Working'
  <2>1. CASE \E c \in Requests : Cancel(c)
    BY <1>3, <2>1 DEF IInv, Working, Cancel, MayCall
  <2>2. CASE WorkerEnds BY <1>3, <2>2 DEF IInv, Working, WorkerEnds
  <2>3. CASE Dispatch BY <1>3, <2>3 DEF IInv, Working, Dispatch
  <2>4. CASE DispatchReturns
    BY <1>3, <2>4 DEF IInv, Working, DispatchReturns
  <2>5. CASE Destroy BY <1>3, <2>5 DEF IInv, Working, Destroy, MayCall
  <2> QED BY <2>1, <2>2, <2>3, <2>4, <2>5
<1> QED BY <1>2, <1>4, <1>5 DEF IInv

LEMMA StutterKeeps == ASSUME IInv, UNCHANGED vars PROVE IInv'
<1>1. /\ UNCHANGED <<image, queues, waits, buf, open, fMode, seen>>
      /\ wpc' = wpc /\ fStop' = fStop /\ woken' = woken /\ loop' = loop
      /\ cancelling' = cancelling
  BY DEF vars
<1>2. InFlight' /\ ModeKept' /\ Reads' BY Zenon, <1>1, Aside
<1>3. /\ file' = file /\ fSectorTable' = fSectorTable
      /\ fPending' = fPending /\ fCurrent' = fCurrent /\ fDone' = fDone
      /\ waits' = waits /\ buf' = buf /\ open' = open /\ fMode' = fMode
      /\ wrote' = wrote /\ expect' = expect
  BY <1>1 DEF image, queues, seen
<1>4. TypeOK' BY Zenon, <1>1, <1>3 DEF IInv, TypeOK
<1>5. Working' BY <1>1, <1>3 DEF IInv, Working
<1> QED BY <1>2, <1>4, <1>5 DEF IInv

LEMMA Inductive == IInv /\ [Next]_vars => IInv'
<1> SUFFICES ASSUME IInv, [Next]_vars PROVE IInv' OBVIOUS
<1>1. CASE Worker
  BY Zenon, <1>1, TakeKeeps, PerformKeeps, FinishKeeps, AsideKeeps DEF Worker
<1>2. CASE Loop BY Zenon, <1>2, CompleteKeeps, AsideKeeps DEF Loop
<1>3. CASE Device
  BY Zenon, <1>3, ReadAsyncKeeps, WriteAsyncKeeps, WriteSnapshotKeeps,
     AsideKeeps
  DEF Device
<1>4. CASE CancelReturns BY Zenon, <1>4, CancelReturnsKeeps
<1>5. CASE Destroy BY Zenon, <1>5, AsideKeeps
<1>6. CASE Destroyed BY Zenon, <1>6, DestroyedKeeps
<1>7. CASE UNCHANGED vars BY Zenon, <1>7, StutterKeeps
<1> QED BY Zenon, <1>1, <1>2, <1>3, <1>4, <1>5, <1>6, <1>7 DEF Next

-----------------------------------------------------------------------------
(* The theorems *)

(* Every step of the image is one the contract of host_block.h allows the  *)
(* device to see, or none: a request is submitted with a completion that   *)
(* is free, its buffer is touched only while it is in flight, and it is    *)
(* notified once at most and never after Cancel() or the destructor.       *)
LEMMA Simulates == IInv /\ [Next]_vars => [Contract!Next]_Contract!vars
<1> SUFFICES ASSUME IInv, [Next]_vars
             PROVE [Contract!Next]_Contract!vars
  OBVIOUS
<1> DEFINE Same == waits' = waits /\ buf' = buf /\ open' = open
<1>1. ASSUME Same PROVE [Contract!Next]_Contract!vars
  BY Zenon, <1>1 DEF Contract!vars
<1>2. /\ buf \in [Requests -> Values] /\ file \in [Sectors -> Values]
      /\ fSectorTable \in [Sectors -> Values \cup {Null}]
      /\ fCurrent \in Seq(Request) /\ fDone \in Seq(Request)
      /\ cancelling \in Requests \cup {Null}
  BY Zenon DEF IInv, TypeOK
<1>3. \A x \in Requests : buf[x] \in Values /\ buf = [buf EXCEPT ![x] = buf[x]]
  BY <1>2
<1>4. ASSUME NEW c \in Requests, NEW s \in Sectors, ReadAsync(c, s)
      PROVE Contract!Submit(c)
  <2>1. /\ open /\ c \notin waits /\ waits' = waits \cup {c}
        /\ buf' = buf /\ open' = open
    BY <1>4 DEF ReadAsync, MayCall, Queue
  <2> QED BY Zenon, <1>3, <2>1 DEF Contract!Submit
<1>5. ASSUME NEW c \in Requests, NEW s \in Sectors, NEW v \in Values,
             WriteAsync(c, s, v)
      PROVE Contract!Submit(c)
  <2>1. /\ open /\ c \notin waits /\ waits' = waits \cup {c}
        /\ buf' = [buf EXCEPT ![c] = v] /\ open' = open
    BY <1>5 DEF WriteAsync, MayCall, Queue
  <2> QED BY Zenon, <2>1 DEF Contract!Submit
<1>6. ASSUME NEW ok \in BOOLEAN, Perform(ok)
      PROVE Same \/ \E c \in Requests : Contract!Touch(c)
  <2> DEFINE r == fCurrent[1]
  <2>1. /\ wpc = "perform" /\ waits' = waits /\ open' = open
        /\ buf' = buf \/ buf' = [buf EXCEPT ![r.c] = file[r.sector]]
    BY <1>6 DEF Perform
  <2>2. Len(fCurrent) = 1 /\ open BY <2>1 DEF IInv, Working
  <2>3. 1 \in 1..Len(fCurrent) /\ 1 \in DOMAIN fCurrent BY <1>2, <2>2
  <2>4. r \in Request BY <1>2, <2>3
  <2>5. r.c \in Requests /\ file[r.sector] \in Values
    BY <1>2, <2>4 DEF Request
  <2>6. r.c \in waits BY Zenon, <2>3 DEF IInv, InFlight, Among
  <2> HIDE DEF r
  <2>7. CASE buf' = buf BY Zenon, <2>1, <2>7
  <2>8. CASE buf' = [buf EXCEPT ![r.c] = file[r.sector]]
    <3>1. Contract!Touch(r.c)
      BY Zenon, <2>1, <2>2, <2>5, <2>6, <2>8 DEF Contract!Touch
    <3> QED BY Zenon, <2>5, <3>1
  <2> QED BY <2>1, <2>7, <2>8
<1>7. ASSUME Complete PROVE \E c \in Requests : Contract!Complete(c)
  <2> DEFINE r == fDone[1]
  <2>1. /\ fDone # <<>> /\ buf' = Merged(Head(fDone)) /\ open' = open /\ open
        /\ waits' = waits \ {Head(fDone).c}
    BY <1>7 DEF Complete, MayCall
  <2>2. Head(fDone) = r /\ r \in Request BY Zenon, <1>2, <2>1, TailIs
  <2>3. r.c \in Requests /\ r.sector \in Sectors BY <2>2 DEF Request
  <2>4. 1 \in DOMAIN fDone BY <1>2, <2>1
  <2>5. r.c \in waits BY Zenon, <2>4 DEF IInv, InFlight, Among
  <2>6. buf' = Merged(r) /\ waits' = waits \ {r.c} BY Zenon, <2>1, <2>2
  <2> HIDE DEF r
  <2>7. \/ buf' = buf
        \/ /\ buf' = [buf EXCEPT ![r.c] = fSectorTable[r.sector]]
           /\ fSectorTable[r.sector] # Null
    BY Zenon, <2>6 DEF Merged
  <2>8. fSectorTable[r.sector] # Null => fSectorTable[r.sector] \in Values
    BY <1>2, <2>3
  <2>9. \E v \in Values : buf' = [buf EXCEPT ![r.c] = v]
    BY Zenon, <1>3, <2>3, <2>7, <2>8
  <2>10. Contract!Complete(r.c)
    BY Zenon, <2>1, <2>5, <2>6, <2>9 DEF Contract!Complete
  <2> QED BY Zenon, <2>3, <2>10
<1>8. ASSUME CancelReturns PROVE \E c \in Requests : Contract!Cancel(c)
  <2>1. /\ cancelling # Null /\ waits' = waits \ {cancelling}
        /\ buf' = buf /\ open' = open
    BY <1>8 DEF CancelReturns
  <2>2. open BY <2>1 DEF IInv, Working
  <2>3. cancelling \in Requests BY <1>2, <2>1
  <2>4. Contract!Cancel(cancelling)
    BY Zenon, <2>1, <2>2 DEF Contract!Cancel
  <2> QED BY Zenon, <2>3, <2>4
<1>9. ASSUME Destroyed PROVE Contract!Destroy
  BY <1>9 DEF Destroyed, Contract!Destroy
<1>10. ASSUME \/ Take \/ Finish \/ WorkerEnds \/ Dispatch \/ DispatchReturns
              \/ Destroy \/ UNCHANGED vars
              \/ \E c \in Requests : Cancel(c)
              \/ \E s \in Sectors, v \in Values : WriteSnapshot(s, v)
       PROVE Same
  BY <1>10 DEF Take, Finish, WorkerEnds, Dispatch, DispatchReturns, Destroy,
               vars, Cancel, WriteSnapshot
<1> HIDE DEF Same
<1>11. CASE Worker
  BY Zenon, <1>1, <1>6, <1>10, <1>11 DEF Worker, Contract!Next
<1>12. CASE Loop
  BY Zenon, <1>1, <1>7, <1>10, <1>12 DEF Loop, Contract!Next
<1>13. CASE Device
  BY Zenon, <1>1, <1>4, <1>5, <1>10, <1>13 DEF Device, Contract!Next
<1>14. CASE CancelReturns BY Zenon, <1>8, <1>14 DEF Contract!Next
<1>15. CASE Destroyed BY Zenon, <1>9, <1>15 DEF Contract!Next
<1>16. CASE Destroy \/ UNCHANGED vars BY Zenon, <1>1, <1>10, <1>16
<1> QED
  BY Zenon, <1>11, <1>12, <1>13, <1>14, <1>15, <1>16 DEF Next

(* The image in a file implements the contract of host_block.h.            *)
THEOREM Refinement == Spec => ImplementsContract
<1>1. Init => Contract!Init
  BY BlockAssumption DEF Init, Contract!Init
<1> QED
  BY <1>1, Initially, Inductive, Simulates, PTL
  DEF Spec, ImplementsContract, Contract!Spec

(* When Dispatch() completes a read that did not fail, its buffer has what *)
(* was last written to the sector before the read was queued, unless that  *)
(* write failed, was cancelled or, in snapshot mode, was overtaken.        *)
LEMMA ReadStep ==
    ASSUME IInv, [Next]_vars, NEW c \in Requests,
           loop > 0, loop' = loop - 1, fDone # <<>>,
           fDone[1].c = c, ~fDone[1].write, fDone[1].ok
    PROVE expect[c] \in {buf'[c], Unknown}
<1> DEFINE r == fDone[1]
<1>1. Complete
  <2>1. loop \in Nat \cup {-1} BY Zenon DEF IInv, TypeOK
  <2>2. loop' # loop /\ loop' # -1 /\ loop # -1 BY <2>1
  <2>3. ~Dispatch /\ ~DispatchReturns
    BY Zenon, <2>2 DEF Dispatch, DispatchReturns
  <2>4. ~Worker
    BY Zenon, <2>2 DEF Worker, Take, Perform, Finish, WorkerEnds
  <2>5. ~Device
    BY Zenon, <2>2 DEF Device, ReadAsync, WriteAsync, WriteSnapshot, Cancel
  <2>6. ~CancelReturns /\ ~Destroy /\ ~Destroyed /\ ~UNCHANGED vars
    BY <2>2 DEF CancelReturns, Destroy, Destroyed, vars
  <2> QED BY Zenon, <2>3, <2>4, <2>5, <2>6 DEF Next, Loop
<1>2. /\ fDone \in Seq(Request) /\ buf \in [Requests -> Values]
      /\ fSectorTable \in [Sectors -> Values \cup {Null}]
  BY Zenon DEF IInv, TypeOK
<1>3. /\ Head(fDone) = r /\ r \in Request BY Zenon, <1>2, TailIs
<1>4. 1 \in DOMAIN fDone BY <1>2
<1>5. r.sector \in Sectors BY <1>3 DEF Request
<1>6. buf' = Merged(r)
  <2>1. buf' = Merged(Head(fDone)) BY Zenon, <1>1 DEF Complete
  <2> QED BY Zenon, <1>3, <2>1
<1>7. expect[c] # Unknown =>
        expect[c] = Overlay(fSectorTable, r.sector, buf[c])
  BY Zenon, <1>4, <1>5 DEF IInv, Reads, DoneReads, Outstanding
<1>8. CASE fSectorTable[r.sector] # Null
  <2>1. fMode = "SNAPSHOT" BY Zenon, <1>5, <1>8 DEF IInv, ModeKept
  <2>2. buf' = [buf EXCEPT ![c] = fSectorTable[r.sector]]
    BY Zenon, <1>6, <1>8, <2>1 DEF Merged
  <2>3. buf'[c] = fSectorTable[r.sector] BY <1>2, <2>2
  <2>4. Overlay(fSectorTable, r.sector, buf[c]) = fSectorTable[r.sector]
    BY Zenon, <1>8 DEF Overlay
  <2> QED BY Zenon, <1>7, <2>3, <2>4
<1>9. CASE fSectorTable[r.sector] = Null
  <2>1. buf' = buf BY Zenon, <1>6, <1>9 DEF Merged
  <2>2. Overlay(fSectorTable, r.sector, buf[c]) = buf[c]
    BY Zenon, <1>9 DEF Overlay
  <2> QED BY Zenon, <1>7, <2>1, <2>2
<1> QED BY <1>8, <1>9

THEOREM ReadCorrect == Spec => ReadSeesWrites
<1>1. IInv /\ [Next]_vars =>
        [\A c \in Requests :
            /\ loop > 0 /\ loop' = loop - 1 /\ fDone # <<>>
            /\ fDone[1].c = c /\ ~fDone[1].write /\ fDone[1].ok
            => expect[c] \in {buf'[c], Unknown}]_vars
  BY Zenon, ReadStep
<1> QED
  BY <1>1, Initially, Inductive, PTL DEF Spec, ReadSeesWrites

=============================================================================
