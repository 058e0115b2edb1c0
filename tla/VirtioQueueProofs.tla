--------------------------- MODULE VirtioQueueProofs --------------------------
(***************************************************************************)
(* Proofs about VirtioQueue, for every size of the queue, every range of   *)
(* the indexes it divides and every bound: where the buffers are, that the *)
(* device learns of those the driver adds, and that the driver learns of   *)
(* those the device hands back.                                            *)
(*                                                                         *)
(* The three invariants build on one another.  Conserved counts: the       *)
(* buffers of the two rings, taken in the order of their indexes, the      *)
(* driver's and the image's are different and QueueSize together, so that  *)
(* no index laps another.  Notified uses it to tell that the index the     *)
(* device published is the one it stopped at.  Interrupts is about the     *)
(* index and the event index alone.                                        *)
(***************************************************************************)
EXTENDS VirtioQueue, FiniteSetTheorems, TLAPS

-----------------------------------------------------------------------------
(* Arithmetic. *)

LEMMA DivMod ==
    ASSUME NEW n \in Nat \ {0}, NEW x \in Int
    PROVE  /\ x \div n \in Int /\ x % n \in 0..(n - 1)
           /\ x = n * (x \div n) + (x % n)
BY SMTT(20)

LEMMA Remainder ==
    ASSUME NEW n \in Nat \ {0}, NEW q \in Int, NEW r \in 0..(n - 1)
    PROVE  (n * q + r) % n = r
BY SMT

LEMMA SmallMod ==
    ASSUME NEW n \in Nat \ {0}, NEW x \in (-n)..(2 * n - 1)
    PROVE  x % n = IF x < 0 THEN x + n ELSE IF x < n THEN x ELSE x - n
BY SMT

LEMMA ModShift ==
    ASSUME NEW n \in Nat \ {0}, NEW x \in Int, NEW q \in Int
    PROVE  (x + n * q) % n = x % n
<1>1. PICK p \in Int, r \in 0..(n - 1) : x = n * p + r /\ r = x % n
  BY DivMod, Zenon
<1>2. x + n * q = n * (p + q) + r /\ p + q \in Int
  BY <1>1
<1>3. (n * (p + q) + r) % n = r
  BY <1>2, Remainder
<1> QED
  BY <1>1, <1>2, <1>3, Zenon

LEMMA ModDiffers ==
    ASSUME NEW n \in Nat \ {0}, NEW x \in Int, NEW d \in 1..(n - 1)
    PROVE  (x + d) % n # x % n
<1>1. PICK p \in Int, r \in 0..(n - 1) : x = n * p + r /\ r = x % n
  BY DivMod, Zenon
<1>2. CASE r + d < n
  <2>1. r + d \in 0..(n - 1) /\ x + d = n * p + (r + d)
    BY <1>1, <1>2
  <2>2. (n * p + (r + d)) % n = r + d
    BY <2>1, Remainder
  <2> QED
    BY <2>1, <2>2, <1>1
<1>3. CASE r + d >= n
  <2>1. /\ r + d - n \in 0..(n - 1) /\ x + d = n * (p + 1) + (r + d - n)
        /\ p + 1 \in Int
    BY <1>1, <1>3
  <2>2. (n * (p + 1) + (r + d - n)) % n = r + d - n
    BY <2>1, Remainder, Zenon
  <2> QED
    BY <2>1, <2>2, <1>1
<1> QED
  BY <1>2, <1>3

-----------------------------------------------------------------------------
(* Indexes of the rings, which wrap. *)

Plus(i, k) == (i + k) % IdxWrap
Gap(i, j) == (j - i) % IdxWrap

LEMMA Sizes ==
    /\ QueueSize \in Nat \ {0} /\ IdxWrap \in Nat \ {0}
    /\ QueueSize < IdxWrap /\ IdxWrap > 1
BY QueueAssumption

LEMMA PlusType ==
    ASSUME NEW i \in Indexes, NEW k \in Nat
    PROVE  Plus(i, k) \in Indexes
BY Sizes, DivMod DEF Plus, Indexes

LEMMA PlusZero ==
    ASSUME NEW i \in Indexes
    PROVE  Plus(i, 0) = i
BY Sizes, SmallMod DEF Plus, Indexes

LEMMA UpIs ==
    ASSUME NEW i \in Indexes
    PROVE  /\ Up(i) = IF i = IdxWrap - 1 THEN 0 ELSE i + 1
           /\ Up(i) \in Indexes /\ Up(i) # i /\ Up(i) = Plus(i, 1)
<1>1. Up(i) = IF i = IdxWrap - 1 THEN 0 ELSE i + 1
  BY Sizes, SmallMod DEF Up, Indexes
<1> QED
  BY <1>1, Sizes DEF Indexes, Up, Plus

LEMMA UpPlus ==
    ASSUME NEW i \in Indexes, NEW k \in Nat
    PROVE  Up(Plus(i, k)) = Plus(i, k + 1)
<1>1. PICK p \in Int, r \in 0..(IdxWrap - 1) :
        i + k = IdxWrap * p + r /\ r = Plus(i, k)
  BY DivMod, Sizes DEF Plus, Indexes
<1>2. i + (k + 1) = (r + 1) + IdxWrap * p /\ r + 1 \in Int
  BY <1>1, Sizes DEF Indexes
<1>3. ((r + 1) + IdxWrap * p) % IdxWrap = (r + 1) % IdxWrap
  BY <1>2, Sizes, ModShift, Zenon
<1> QED
  BY <1>1, <1>2, <1>3, Zenon DEF Up, Plus

LEMMA PlusUp ==
    ASSUME NEW i \in Indexes, NEW k \in Nat
    PROVE  Plus(Up(i), k) = Plus(i, k + 1)
<1>1. CASE i = IdxWrap - 1
  <2>1. /\ Up(i) = 0 /\ i + (k + 1) = (0 + k) + IdxWrap * 1
        /\ 0 + k \in Int /\ 1 \in Int
    BY <1>1, UpIs, Sizes
  <2>2. ((0 + k) + IdxWrap * 1) % IdxWrap = (0 + k) % IdxWrap
    BY <2>1, Sizes, ModShift, Zenon
  <2> QED
    BY <2>1, <2>2, Zenon DEF Plus
<1>2. CASE i # IdxWrap - 1
  <2>1. Up(i) + k = i + (k + 1)
    BY <1>2, UpIs DEF Indexes
  <2> QED
    BY <2>1, Zenon DEF Plus
<1> QED
  BY <1>1, <1>2

LEMMA PlusInjective ==
    ASSUME NEW i \in Indexes, NEW j \in 0..(IdxWrap - 1),
           NEW k \in 0..(IdxWrap - 1), Plus(i, j) = Plus(i, k)
    PROVE  j = k
<1>1. ASSUME NEW a \in 0..(IdxWrap - 1), NEW b \in 0..(IdxWrap - 1), a < b
      PROVE  Plus(i, a) # Plus(i, b)
  <2>1. /\ i + a \in Int /\ b - a \in 1..(IdxWrap - 1)
        /\ i + b = (i + a) + (b - a)
    BY <1>1, Sizes DEF Indexes
  <2>2. ((i + a) + (b - a)) % IdxWrap # (i + a) % IdxWrap
    BY <2>1, Sizes, ModDiffers, Zenon
  <2> QED
    BY <2>1, <2>2, Zenon DEF Plus
<1> QED
  BY <1>1, Sizes

LEMMA GapIs ==
    ASSUME NEW i \in Indexes, NEW j \in Indexes
    PROVE  /\ Gap(i, j) \in 0..(IdxWrap - 1) /\ Plus(i, Gap(i, j)) = j
           /\ Gap(i, j) = 0 <=> i = j
<1>1. Gap(i, j) = IF j < i THEN j - i + IdxWrap ELSE j - i
  <2> DEFINE d == j - i
  <2>1. /\ d \in (-IdxWrap)..(2 * IdxWrap - 1) /\ d < IdxWrap
        /\ d < 0 <=> j < i
    BY Sizes DEF Indexes
  <2>2. Gap(i, j) = d % IdxWrap
    BY Zenon DEF Gap
  <2> HIDE DEF d
  <2>3. d % IdxWrap = IF d < 0 THEN d + IdxWrap
                      ELSE IF d < IdxWrap THEN d ELSE d - IdxWrap
    BY <2>1, Sizes, SmallMod, Zenon
  <2> QED
    BY <2>1, <2>2, <2>3 DEF d
<1>2. i + Gap(i, j) = IF j < i THEN j + IdxWrap ELSE j
  BY <1>1, Sizes DEF Indexes
<1>3. Plus(i, Gap(i, j)) = j
  BY <1>2, Sizes, SmallMod DEF Plus, Indexes
<1> QED
  BY <1>1, <1>3, Sizes DEF Indexes

LEMMA GapPlus ==
    ASSUME NEW i \in Indexes, NEW n \in 0..(IdxWrap - 1)
    PROVE  Gap(i, Plus(i, n)) = n
<1>1. Plus(i, n) \in Indexes
  BY PlusType
<1>2. /\ Gap(i, Plus(i, n)) \in 0..(IdxWrap - 1)
      /\ Plus(i, Gap(i, Plus(i, n))) = Plus(i, n)
  BY <1>1, GapIs
<1> QED
  BY <1>2, PlusInjective

(* Another buffer, and one less. *)
LEMMA GapGrows ==
    ASSUME NEW i \in Indexes, NEW j \in Indexes, Gap(i, j) < IdxWrap - 1
    PROVE  Gap(i, Up(j)) = Gap(i, j) + 1
<1> DEFINE n == Gap(i, j)
<1>1. n \in Nat /\ n + 1 \in 0..(IdxWrap - 1) /\ Plus(i, n) = j
  BY GapIs, Sizes
<1> HIDE DEF n
<1>2. Up(j) = Plus(i, n + 1)
  BY <1>1, UpPlus
<1>3. Gap(i, Up(j)) = n + 1
  BY <1>1, <1>2, GapPlus
<1> QED
  BY <1>3 DEF n

LEMMA GapShrinks ==
    ASSUME NEW i \in Indexes, NEW j \in Indexes, i # j
    PROVE  Gap(Up(i), j) = Gap(i, j) - 1
<1> DEFINE n == Gap(i, j)
<1>1. n \in 0..(IdxWrap - 1) /\ Plus(i, n) = j /\ n # 0
  BY GapIs
<1> HIDE DEF n
<1>2. n - 1 \in Nat /\ n - 1 \in 0..(IdxWrap - 1) /\ (n - 1) + 1 = n
  BY <1>1, Sizes
<1>3. Plus(Up(i), n - 1) = j
  BY <1>1, <1>2, PlusUp
<1>4. Gap(Up(i), j) = n - 1
  BY <1>2, <1>3, UpIs, GapPlus
<1> QED
  BY <1>4 DEF n

LEMMA SlotType == ASSUME NEW i \in Indexes PROVE Slot(i) \in Slots
BY Sizes, DivMod DEF Slot, Slots, Indexes

LEMMA PlusPlus ==
    ASSUME NEW i \in Indexes, NEW j \in Nat, NEW k \in Nat
    PROVE  Plus(Plus(i, j), k) = Plus(i, j + k)
<1>0. i + j \in Int
  BY DEF Indexes
<1>1. PICK p \in Int, r \in 0..(IdxWrap - 1) :
        i + j = IdxWrap * p + r /\ r = Plus(i, j)
  BY <1>0, DivMod, Sizes, Zenon DEF Plus
<1>2. i + (j + k) = (r + k) + IdxWrap * p /\ r + k \in Int
  BY <1>1, Sizes DEF Indexes
<1>3. ((r + k) + IdxWrap * p) % IdxWrap = (r + k) % IdxWrap
  BY <1>2, Sizes, ModShift, Zenon
<1> QED
  BY <1>1, <1>2, <1>3, Zenon DEF Plus

LEMMA GapAdds ==
    ASSUME NEW i \in Indexes, NEW j \in Indexes, NEW n \in Nat,
           Gap(i, j) + n < IdxWrap
    PROVE  Gap(i, Plus(j, n)) = Gap(i, j) + n
<1> DEFINE g == Gap(i, j)
<1>1. g \in Nat /\ g + n \in 0..(IdxWrap - 1) /\ Plus(i, g) = j
  BY GapIs, Sizes
<1> HIDE DEF g
<1>2. Plus(j, n) = Plus(i, g + n)
  BY <1>1, PlusPlus
<1>3. Gap(i, Plus(j, n)) = g + n
  BY <1>1, <1>2, GapPlus
<1> QED
  BY <1>3 DEF g

(* The rings' size divides the range of the indexes. *)
LEMMA SlotWraps ==
    ASSUME NEW i \in Indexes, NEW k \in Nat
    PROVE  Slot(Plus(i, k)) = (i + k) % QueueSize
<1>1. PICK m \in Int : IdxWrap = QueueSize * m
  <2>1. IdxWrap % QueueSize = 0
    BY QueueAssumption
  <2>2. /\ IdxWrap = QueueSize * (IdxWrap \div QueueSize)
                      + (IdxWrap % QueueSize)
        /\ IdxWrap \div QueueSize \in Int
    BY Sizes, DivMod
  <2> DEFINE q == IdxWrap \div QueueSize
  <2>3. IdxWrap = QueueSize * q + 0 /\ q \in Int
    BY <2>1, <2>2
  <2> HIDE DEF q
  <2> QED
    BY <2>3, Sizes
<1>2. i + k \in Int
  BY DEF Indexes
<1>3. PICK p \in Int, r \in 0..(IdxWrap - 1) :
        i + k = IdxWrap * p + r /\ r = Plus(i, k)
  BY <1>2, DivMod, Sizes, Zenon DEF Plus
<1>4. i + k = r + QueueSize * (m * p) /\ m * p \in Int /\ r \in Int
  BY <1>1, <1>3, Sizes
<1>5. (r + QueueSize * (m * p)) % QueueSize = r % QueueSize
  BY <1>4, Sizes, ModShift, Zenon
<1> QED
  BY <1>3, <1>4, <1>5, Zenon DEF Slot

(* Within one turn of a ring, no two indexes share a slot. *)
LEMMA SlotsDiffer ==
    ASSUME NEW i \in Indexes, NEW j \in Nat, NEW k \in Nat,
           j # k, j - k < QueueSize, k - j < QueueSize
    PROVE  Slot(Plus(i, j)) # Slot(Plus(i, k))
<1>1. ASSUME NEW a \in Nat, NEW b \in Nat, a < b, b - a < QueueSize
      PROVE  Slot(Plus(i, a)) # Slot(Plus(i, b))
  <2>1. /\ i + a \in Int /\ b - a \in 1..(QueueSize - 1)
        /\ i + b = (i + a) + (b - a)
    BY <1>1, Sizes DEF Indexes
  <2>2. ((i + a) + (b - a)) % QueueSize # (i + a) % QueueSize
    BY <2>1, Sizes, ModDiffers, Zenon
  <2> QED
    BY <2>1, <2>2, SlotWraps
<1> QED
  BY <1>1

-----------------------------------------------------------------------------
(* Where the buffers are: a and u are the buffers of the rings in order,   *)
(* n and m how many of them count; f is the driver's and g the image's.    *)

Apart(a, n, u, m, f, g) ==
    /\ \A j, k \in 0..(n - 1) : a[j] = a[k] => j = k
    /\ \A j, k \in 0..(m - 1) : u[j] = u[k] => j = k
    /\ \A j \in 0..(n - 1), k \in 0..(m - 1) : a[j] # u[k]
    /\ \A k \in 0..(n - 1) : a[k] \notin f /\ a[k] \notin g
    /\ \A k \in 0..(m - 1) : u[k] \notin f /\ u[k] \notin g
    /\ f \cap g = {}

LEMMA ApartEmpty ==
    ASSUME NEW a, NEW u, NEW f
    PROVE  Apart(a, 0, u, 0, f, {})
BY DEF Apart

(* The driver adds a buffer. *)
LEMMA ApartAdd ==
    ASSUME NEW a, NEW n \in Nat, NEW u, NEW m \in Nat, NEW f, NEW g,
           Apart(a, n, u, m, f, g), NEW b, NEW d \in f,
           \A k \in 0..(n - 1) : b[k] = a[k], b[n] = d
    PROVE  Apart(b, n + 1, u, m, f \ {d}, g)
BY DEF Apart

(* The device gives the next available buffer to the image, ... *)
LEMMA ApartTake ==
    ASSUME NEW a, NEW n \in Nat \ {0}, NEW u, NEW m \in Nat, NEW f, NEW g,
           Apart(a, n, u, m, f, g), NEW b,
           \A k \in 0..(n - 2) : b[k] = a[k + 1]
    PROVE  Apart(b, n - 1, u, m, f, g \cup {a[0]}) /\ a[0] \notin g
BY DEF Apart

(* ... or hands it back; the image's are handed back too; ... *)
LEMMA ApartConsume ==
    ASSUME NEW a, NEW n \in Nat \ {0}, NEW u, NEW m \in Nat, NEW f, NEW g,
           Apart(a, n, u, m, f, g), NEW b, NEW v,
           \A k \in 0..(n - 2) : b[k] = a[k + 1],
           \A k \in 0..(m - 1) : v[k] = u[k], v[m] = a[0]
    PROVE  Apart(b, n - 1, v, m + 1, f, g)
BY DEF Apart

LEMMA ApartAnswer ==
    ASSUME NEW a, NEW n \in Nat, NEW u, NEW m \in Nat, NEW f, NEW g,
           Apart(a, n, u, m, f, g), NEW v, NEW d \in g,
           \A k \in 0..(m - 1) : v[k] = u[k], v[m] = d
    PROVE  Apart(a, n, v, m + 1, f, g \ {d})
BY DEF Apart

(* ... the driver takes the next used one back. *)
LEMMA ApartProcess ==
    ASSUME NEW a, NEW n \in Nat, NEW u, NEW m \in Nat \ {0}, NEW f, NEW g,
           Apart(a, n, u, m, f, g), NEW v,
           \A k \in 0..(m - 2) : v[k] = u[k + 1]
    PROVE  Apart(a, n, v, m - 1, f \cup {u[0]}, g) /\ u[0] \notin f
BY DEF Apart

-----------------------------------------------------------------------------
(* The first invariant: every buffer is in one place. *)

(* The next buffer of the available ring, once the device is through with  *)
(* one it has not popped; the image's requests, without one it has         *)
(* answered.                                                               *)
AvailFrom == IF step \in {"wanted", "pop"} /\ call # "complete"
             THEN Up(queue.last_avail_idx) ELSE queue.last_avail_idx
Flying == IF step = "wanted" /\ call = "complete" THEN in_flight \ {desc}
          ELSE in_flight

(* How many buffers there are in each ring, and which in what order. *)
nAvail == Gap(AvailFrom, ring.avail_idx)
nUsed == Gap(last_used, ring.used_idx) + pending
AvailSeq == [k \in Nat |-> ring.avail[Slot(Plus(AvailFrom, k))]]
UsedSeq == [k \in Nat |-> ring.used[Slot(Plus(last_used, k))]]

Count ==
    Cardinality(free) + nAvail + Cardinality(Flying) + nUsed = QueueSize

Distinct == Apart(AvailSeq, nAvail, UsedSeq, nUsed, free, Flying)

(* What the device has in its hands while a call is in it. *)
Held ==
    /\ step \in {"take", "consume"} /\ call # "complete"
        => nAvail > 0 /\ desc = AvailSeq[0]
    /\ step \in {"consume", "wanted"} /\ call = "complete"
        => desc \in in_flight
    /\ call = "complete" => step \in {"idle", "consume", "wanted"}
    /\ step = "idle" => pending = 0
    /\ step \in {"publish", "reread"} =>
        Gap(queue.last_avail_idx, seen) <= nAvail

Conserved == QueueTypeOK /\ Count /\ Distinct /\ Held

(* The records, a field at a time. *)
LEMMA RingFields ==
    ASSUME NEW r \in RingState
    PROVE  /\ r.avail \in [Slots -> Heads] /\ r.used \in [Slots -> Heads]
           /\ r.avail_idx \in Indexes /\ r.used_idx \in Indexes
           /\ r.used_event \in Indexes /\ r.avail_event \in Indexes
           /\ r.no_interrupt \in BOOLEAN /\ r.bad \in SUBSET Heads
BY DEF RingState

LEMMA RingUsedIdx ==
    ASSUME NEW r \in RingState, NEW i \in Indexes,
           NEW s, s = [r EXCEPT !.used_idx = i]
    PROVE  /\ s \in RingState /\ s.used_idx = i
           /\ s.avail = r.avail /\ s.avail_idx = r.avail_idx
           /\ s.used = r.used /\ s.used_event = r.used_event
           /\ s.avail_event = r.avail_event
           /\ s.no_interrupt = r.no_interrupt /\ s.bad = r.bad
BY DEF RingState

LEMMA RingAvailEvent ==
    ASSUME NEW r \in RingState, NEW i \in Indexes,
           NEW s, s = [r EXCEPT !.avail_event = i]
    PROVE  /\ s \in RingState /\ s.avail_event = i
           /\ s.avail = r.avail /\ s.avail_idx = r.avail_idx
           /\ s.used = r.used /\ s.used_event = r.used_event
           /\ s.used_idx = r.used_idx
           /\ s.no_interrupt = r.no_interrupt /\ s.bad = r.bad
BY DEF RingState

LEMMA RingUsed ==
    ASSUME NEW r \in RingState, NEW i \in Slots, NEW d \in Heads,
           NEW s, s = [r EXCEPT !.used[i] = d]
    PROVE  /\ s \in RingState /\ s.used = [r.used EXCEPT ![i] = d]
           /\ s.avail = r.avail /\ s.avail_idx = r.avail_idx
           /\ s.used_idx = r.used_idx /\ s.used_event = r.used_event
           /\ s.avail_event = r.avail_event
           /\ s.no_interrupt = r.no_interrupt /\ s.bad = r.bad
BY DEF RingState

LEMMA RingNoInterrupt ==
    ASSUME NEW r \in RingState, NEW b \in BOOLEAN,
           NEW s, s = [r EXCEPT !.no_interrupt = b]
    PROVE  /\ s \in RingState /\ s.no_interrupt = b
           /\ s.avail = r.avail /\ s.avail_idx = r.avail_idx
           /\ s.used = r.used /\ s.used_idx = r.used_idx
           /\ s.used_event = r.used_event
           /\ s.avail_event = r.avail_event /\ s.bad = r.bad
BY DEF RingState

LEMMA Popped ==
    ASSUME NEW q \in QueueState
    PROVE  q.last_avail_idx \in Indexes
BY DEF QueueState

LEMMA Fields ==
    ASSUME QueueTypeOK
    PROVE  /\ ring \in RingState /\ queue \in QueueState
           /\ ring.avail \in [Slots -> Heads] /\ ring.used \in [Slots -> Heads]
           /\ ring.avail_idx \in Indexes /\ ring.used_idx \in Indexes
           /\ ring.used_event \in Indexes /\ ring.avail_event \in Indexes
           /\ ring.no_interrupt \in BOOLEAN /\ ring.bad \in SUBSET Heads
           /\ queue.last_avail_idx \in Indexes /\ seen \in Indexes
           /\ last_used \in Indexes /\ pending \in 0..QueueSize
           /\ pending \in Nat
           /\ free \in SUBSET Heads /\ in_flight \in SUBSET Heads
<1>1. ring \in RingState /\ queue \in QueueState
  BY DEF QueueTypeOK
<1>2. /\ seen \in Indexes /\ last_used \in Indexes
      /\ pending \in 0..QueueSize
      /\ free \in SUBSET Heads /\ in_flight \in SUBSET Heads
  BY DEF QueueTypeOK
<1>3. pending \in Nat
  BY <1>2
<1> QED
  BY <1>1, <1>2, <1>3, RingFields, Popped, Zenon

LEMMA FiniteSlots == IsFiniteSet(Slots) /\ Cardinality(Slots) = QueueSize
<1>1. 0 \in Int /\ QueueSize - 1 \in Int /\ 0 <= QueueSize - 1
  BY Sizes
<1> QED
  BY <1>1, FS_Interval, Sizes DEF Slots

LEMMA FiniteHeads ==
    ASSUME NEW S \in SUBSET Heads
    PROVE  IsFiniteSet(S) /\ Cardinality(S) \in Nat
BY FiniteSlots, FS_Subset, FS_CardinalityType DEF Heads

LEMMA PlaceTypes ==
    ASSUME QueueTypeOK
    PROVE  /\ AvailFrom \in Indexes /\ Flying \in SUBSET Heads
           /\ nAvail \in 0..(IdxWrap - 1) /\ nUsed \in Nat
           /\ Cardinality(free) \in Nat /\ Cardinality(Flying) \in Nat
           /\ AvailSeq \in [Nat -> Heads] /\ UsedSeq \in [Nat -> Heads]
<1>1. AvailFrom \in Indexes
  BY Fields, UpIs DEF AvailFrom
<1>2. Flying \in SUBSET Heads
  BY Fields DEF Flying
<1>3. nAvail \in 0..(IdxWrap - 1)
  BY <1>1, Fields, GapIs DEF nAvail
<1>4. nUsed \in Nat
  BY Fields, GapIs DEF nUsed
<1>5. Cardinality(free) \in Nat /\ Cardinality(Flying) \in Nat
  BY <1>2, Fields, FiniteHeads
<1>6. ASSUME NEW k \in Nat
      PROVE  /\ Slot(Plus(AvailFrom, k)) \in Slots
             /\ Slot(Plus(last_used, k)) \in Slots
  BY <1>1, Fields, PlusType, SlotType
<1>7. AvailSeq \in [Nat -> Heads]
  BY <1>6, Fields DEF AvailSeq
<1>8. UsedSeq \in [Nat -> Heads]
  BY <1>6, Fields DEF UsedSeq
<1> QED
  BY <1>1, <1>2, <1>3, <1>4, <1>5, <1>7, <1>8

(* Neither ring is ever more than full. *)
LEMMA NeverFuller ==
    ASSUME QueueTypeOK, Count
    PROVE  nAvail <= QueueSize /\ nUsed <= QueueSize
BY PlaceTypes, Sizes DEF Count

(* Most steps leave every buffer where it is. *)
LEMMA SamePlaces ==
    ASSUME Count, Distinct, ring'.avail = ring.avail,
           ring'.avail_idx = ring.avail_idx, AvailFrom' = AvailFrom,
           free' = free, Flying' = Flying, ring'.used = ring.used,
           last_used' = last_used, nUsed' = nUsed
    PROVE  Count' /\ Distinct' /\ nAvail' = nAvail /\ AvailSeq' = AvailSeq
<1>1. nAvail' = nAvail
  BY Zenon DEF nAvail
<1>2. AvailSeq' = AvailSeq /\ UsedSeq' = UsedSeq
  BY Zenon DEF AvailSeq, UsedSeq
<1>3. Count'
  BY <1>1, Zenon DEF Count
<1>4. Distinct'
  BY <1>1, <1>2, Zenon DEF Distinct
<1> QED
  BY <1>1, <1>2, <1>3, <1>4

LEMMA StoreOutConserves == ASSUME Conserved, StoreOut PROVE Conserved'
<1> USE DEF Conserved
<1>1. /\ ring'.used_idx = Up(ring.used_idx) /\ pending' = pending - 1
      /\ pending > 0
      /\ ring'.avail = ring.avail /\ ring'.avail_idx = ring.avail_idx
      /\ ring'.used = ring.used /\ ring' \in RingState
  BY Fields, UpIs, RingUsedIdx DEF StoreOut
<1>2. UNCHANGED <<device, irq, driver, bounds>>
  BY DEF StoreOut
<1>3. QueueTypeOK'
  <2>1. pending' \in 0..QueueSize
    BY <1>1, Fields, Sizes
  <2> QED
    BY <1>1, <1>2, <2>1 DEF QueueTypeOK, device, irq, driver, bounds
<1>4. /\ AvailFrom' = AvailFrom /\ Flying' = Flying
      /\ free' = free /\ last_used' = last_used
  BY <1>2 DEF device, driver, AvailFrom, Flying
<1>5. nUsed' = nUsed
  <2> DEFINE g == Gap(last_used, ring.used_idx)
  <2>1. g \in Nat /\ g < IdxWrap - 1
    BY <1>1, Fields, GapIs, NeverFuller, PlaceTypes, Sizes DEF nUsed
  <2>2. Gap(last_used, Up(ring.used_idx)) = g + 1
    BY <2>1, Fields, GapGrows
  <2> QED
    BY <1>1, <1>4, <2>1, <2>2, Fields DEF nUsed
<1>6. Count' /\ Distinct' /\ nAvail' = nAvail /\ AvailSeq' = AvailSeq
  BY <1>1, <1>4, <1>5, SamePlaces
<1>7. Held'
  BY <1>1, <1>2, <1>6, Fields DEF Held, device
<1> QED
  BY <1>3, <1>6, <1>7

(* The same when the driver's and the device's indexes do not move, ... *)
LEMMA Quiet ==
    ASSUME Conserved, ring'.avail = ring.avail,
           ring'.avail_idx = ring.avail_idx, ring'.used = ring.used,
           ring'.used_idx = ring.used_idx, pending' = pending,
           free' = free, last_used' = last_used,
           AvailFrom' = AvailFrom, Flying' = Flying
    PROVE  Count' /\ Distinct' /\ nAvail' = nAvail /\ AvailSeq' = AvailSeq
<1>1. nUsed' = nUsed
  BY Zenon DEF nUsed
<1> QED
  BY <1>1, SamePlaces DEF Conserved

(* ... nor the device at all. *)
LEMMA QuietDriver ==
    ASSUME Conserved, ring'.avail = ring.avail,
           ring'.avail_idx = ring.avail_idx, ring'.used = ring.used,
           ring'.used_idx = ring.used_idx, pending' = pending,
           free' = free, last_used' = last_used, device' = device
    PROVE  Count' /\ Distinct' /\ Held'
<1>1. AvailFrom' = AvailFrom /\ Flying' = Flying
  BY DEF device, AvailFrom, Flying
<1>2. Count' /\ Distinct' /\ nAvail' = nAvail /\ AvailSeq' = AvailSeq
  BY <1>1, Quiet
<1>3. Held'
  BY <1>2 DEF Conserved, Held, device
<1> QED
  BY <1>2, <1>3

(* A fence. *)
LEMMA FencedPlaces ==
    ASSUME Conserved, ring'.used_idx = Plus(ring.used_idx, pending),
           pending' = 0, last_used' = last_used
    PROVE  nUsed' = nUsed
<1> DEFINE g == Gap(last_used, ring.used_idx)
<1>1. g \in Nat /\ g + pending < IdxWrap /\ pending \in Nat
  BY Fields, GapIs, NeverFuller, PlaceTypes, Sizes DEF nUsed, Conserved
<1>2. Gap(last_used, Plus(ring.used_idx, pending)) = g + pending
  BY <1>1, Fields, GapAdds DEF Conserved
<1> QED
  BY <1>1, <1>2 DEF nUsed

LEMMA FencedRing ==
    ASSUME QueueTypeOK, NEW r \in RingState, r.used_idx = ring.used_idx
    PROVE  /\ Fenced(r) \in RingState
           /\ Fenced(r).used_idx = Plus(ring.used_idx, pending)
           /\ Fenced(r).avail = r.avail /\ Fenced(r).avail_idx = r.avail_idx
           /\ Fenced(r).used = r.used /\ Fenced(r).used_event = r.used_event
           /\ Fenced(r).avail_event = r.avail_event
           /\ Fenced(r).no_interrupt = r.no_interrupt
           /\ Fenced(r).bad = r.bad
<1>1. Fenced(r) = [r EXCEPT !.used_idx = Plus(ring.used_idx, pending)]
  BY Zenon DEF Fenced, Plus
<1>2. Plus(ring.used_idx, pending) \in Indexes
  BY Fields, PlusType
<1> QED
  BY <1>1, <1>2, RingUsedIdx

LEMMA RaiseIrqType ==
    ASSUME QueueTypeOK, NEW c \in {"used", "config"}, RaiseIrq(c)
    PROVE  /\ int_status' \subseteq {"used", "config"} /\ line' \in BOOLEAN
           /\ msix' \in MsixState
           /\ setup.irq = "msix" => msix'.message \/ msix'.pba
           /\ setup.irq # "msix" => line'
<1>1. /\ msix \in MsixState /\ int_status \subseteq {"used", "config"}
      /\ line \in BOOLEAN
  BY DEF QueueTypeOK
<1>2. CASE setup.irq = "msix"
  <2>1. msix' = Sent(msix) /\ UNCHANGED <<int_status, line>>
    BY <1>2 DEF RaiseIrq
  <2>2. Sent(msix) \in MsixState /\ (Sent(msix).message \/ Sent(msix).pba)
    BY <1>1, Zenon DEF Sent, MsixState
  <2> QED
    BY <1>1, <1>2, <2>1, <2>2
<1>3. CASE setup.irq # "msix"
  BY <1>1, <1>3, Zenon DEF RaiseIrq
<1> QED
  BY <1>2, <1>3

LEMMA NeedsResetType ==
    ASSUME QueueTypeOK, SetNeedsReset
    PROVE  /\ queue' \in QueueState
           /\ queue'.last_avail_idx = queue.last_avail_idx
           /\ queue'.needs_reset /\ queue'.driver_ok = queue.driver_ok
           /\ queue'.ready = queue.ready
           /\ int_status' \subseteq {"used", "config"} /\ line' \in BOOLEAN
           /\ msix' \in MsixState
           /\ pending = 0 /\ step' = "idle" /\ desc' = NoHead
<1>1. /\ queue' \in QueueState
      /\ queue'.last_avail_idx = queue.last_avail_idx
      /\ queue'.needs_reset /\ queue'.driver_ok = queue.driver_ok
      /\ queue'.ready = queue.ready
  BY Fields, Zenon DEF SetNeedsReset, QueueState
<1>2. /\ int_status' \subseteq {"used", "config"} /\ line' \in BOOLEAN
      /\ msix' \in MsixState
  <2>1. CASE queue.driver_ok
    BY <2>1, RaiseIrqType DEF SetNeedsReset
  <2>2. CASE ~queue.driver_ok
    BY <2>2 DEF SetNeedsReset, QueueTypeOK, irq
  <2> QED
    BY <2>1, <2>2
<1> QED
  BY <1>1, <1>2 DEF SetNeedsReset, End

LEMMA PeekConserves == ASSUME Conserved, Peek PROVE Conserved'
<1> USE DEF Conserved
<1>1. /\ step = "peek" /\ step' \in {"idle", "publish", "reread"}
      /\ step' = "idle" => pending = 0 /\ desc' = NoHead /\ seen' = seen
      /\ step' # "idle" => seen' = ring.avail_idx /\ desc' = desc
      /\ host' \in {"blocked", host}
      /\ UNCHANGED <<ring, pending, queue, call, in_flight, irq, driver,
                     bounds>>
  BY DEF Peek, End
<1>2. QueueTypeOK'
  BY <1>1, Fields DEF QueueTypeOK, irq, driver, bounds
<1>3. AvailFrom' = AvailFrom /\ Flying' = Flying
      /\ AvailFrom = queue.last_avail_idx
  BY <1>1 DEF AvailFrom, Flying
<1>4. Count' /\ Distinct' /\ nAvail' = nAvail /\ AvailSeq' = AvailSeq
  BY <1>1, <1>3, Quiet DEF driver
<1>5. Gap(queue.last_avail_idx, ring.avail_idx) = nAvail
  BY <1>3 DEF nAvail
<1>6. Held'
  BY <1>1, <1>4, <1>5, PlaceTypes DEF Held
<1> QED
  BY <1>2, <1>4, <1>6

LEMMA PublishConserves == ASSUME Conserved, Publish PROVE Conserved'
<1> USE DEF Conserved
<1> DEFINE r == [ring EXCEPT !.avail_event = seen]
<1>1. /\ step = "publish" /\ step' = "reread" /\ pending' = 0
      /\ ring' = Fenced(r)
      /\ UNCHANGED <<queue, desc, seen, call, in_flight, host, irq, driver,
                     bounds>>
  BY DEF Publish
<1>2. /\ ring' \in RingState /\ ring'.avail = ring.avail
      /\ ring'.avail_idx = ring.avail_idx /\ ring'.used = ring.used
      /\ ring'.used_idx = Plus(ring.used_idx, pending)
  <2>1. /\ r \in RingState /\ r.used_idx = ring.used_idx
        /\ r.avail = ring.avail /\ r.avail_idx = ring.avail_idx
        /\ r.used = ring.used
    BY Fields, RingAvailEvent
  <2> HIDE DEF r
  <2> QED
    BY <1>1, <2>1, FencedRing
<1> HIDE DEF r
<1>3. QueueTypeOK'
  BY <1>1, <1>2, Sizes DEF QueueTypeOK, irq, driver, bounds
<1>4. /\ AvailFrom' = AvailFrom /\ Flying' = Flying
      /\ free' = free /\ last_used' = last_used
  BY <1>1 DEF AvailFrom, Flying, driver
<1>5. nUsed' = nUsed
  BY <1>1, <1>2, <1>4, FencedPlaces
<1>6. Count' /\ Distinct' /\ nAvail' = nAvail /\ AvailSeq' = AvailSeq
  BY <1>2, <1>4, <1>5, SamePlaces
<1>7. Held'
  BY <1>1, <1>6 DEF Held
<1> QED
  BY <1>3, <1>6, <1>7

LEMMA RereadConserves == ASSUME Conserved, Reread PROVE Conserved'
<1> USE DEF Conserved
<1>1. /\ step = "reread" /\ step' \in {"idle", "take"}
      /\ step' = "idle" => pending = 0 /\ desc' = NoHead
      /\ step' = "take" =>
            /\ \/ ring.avail_idx # queue.last_avail_idx
               \/ seen # queue.last_avail_idx
            /\ desc' = ring.avail[Slot(queue.last_avail_idx)]
      /\ host' \in {"blocked", host}
      /\ UNCHANGED <<ring, pending, queue, seen, call, in_flight, irq, driver,
                     bounds>>
  BY DEF Reread, End
<1>2. /\ AvailFrom' = AvailFrom /\ Flying' = Flying
      /\ AvailFrom = queue.last_avail_idx
  BY <1>1 DEF AvailFrom, Flying
<1>3. AvailSeq[0] = ring.avail[Slot(queue.last_avail_idx)]
  BY <1>2, Fields, PlusZero DEF AvailSeq
<1>4. QueueTypeOK'
  <2>1. desc' \in Heads \cup {NoHead}
    BY <1>1, <1>3, PlaceTypes
  <2> QED
    BY <1>1, <2>1 DEF QueueTypeOK, irq, driver, bounds
<1>5. Count' /\ Distinct' /\ nAvail' = nAvail /\ AvailSeq' = AvailSeq
  BY <1>1, <1>2, Quiet DEF driver
<1>6. ASSUME step' = "take" PROVE nAvail > 0
  <2>1. CASE ring.avail_idx # queue.last_avail_idx
    BY <2>1, <1>2, Fields, GapIs DEF nAvail
  <2>2. CASE seen # queue.last_avail_idx
    <3>1. Gap(queue.last_avail_idx, seen) \in Nat \ {0}
      BY <2>2, Fields, GapIs
    <3>2. Gap(queue.last_avail_idx, seen) <= nAvail
      BY <1>1 DEF Held
    <3> QED
      BY <3>1, <3>2, PlaceTypes
  <2> QED
    BY <1>1, <1>6, <2>1, <2>2
<1>7. Held'
  BY <1>1, <1>3, <1>5, <1>6, PlaceTypes DEF Held
<1> QED
  BY <1>4, <1>5, <1>7

(* The available ring, once the device is through with its next buffer. *)
LEMMA AvailMoves ==
    ASSUME QueueTypeOK, nAvail > 0, AvailFrom' = Up(AvailFrom),
           ring'.avail = ring.avail, ring'.avail_idx = ring.avail_idx
    PROVE  /\ nAvail' = nAvail - 1
           /\ \A k \in 0..(nAvail - 2) : AvailSeq'[k] = AvailSeq[k + 1]
<1>1. AvailFrom \in Indexes /\ AvailFrom # ring.avail_idx
  BY Fields, PlaceTypes, GapIs DEF nAvail
<1>2. nAvail' = nAvail - 1
  BY <1>1, Fields, GapShrinks DEF nAvail
<1>3. ASSUME NEW k \in 0..(nAvail - 2) PROVE AvailSeq'[k] = AvailSeq[k + 1]
  <2>1. k \in Nat /\ k + 1 \in Nat
    OBVIOUS
  <2>2. Plus(Up(AvailFrom), k) = Plus(AvailFrom, k + 1)
    BY <2>1, <1>1, PlusUp
  <2> QED
    BY <2>1, <2>2 DEF AvailSeq
<1> QED
  BY <1>2, <1>3

(* The used ring, once there is another buffer in it. *)
LEMMA UsedMoves ==
    ASSUME QueueTypeOK, nUsed < QueueSize, NEW d \in Heads,
           ring' = [ring EXCEPT !.used[Slot(ring.used_idx + pending)] = d],
           pending' = pending + 1, last_used' = last_used
    PROVE  /\ nUsed' = nUsed + 1
           /\ \A k \in 0..(nUsed - 1) : UsedSeq'[k] = UsedSeq[k]
           /\ UsedSeq'[nUsed] = d
           /\ ring' \in RingState /\ ring'.avail = ring.avail
           /\ ring'.avail_idx = ring.avail_idx
           /\ ring'.used_idx = ring.used_idx
<1> DEFINE s == Slot(Plus(last_used, nUsed))
<1>1. Slot(ring.used_idx + pending) = s
  <2>1. Slot(Plus(ring.used_idx, pending)) = Slot(ring.used_idx + pending)
    BY Fields, SlotWraps DEF Slot
  <2> DEFINE g == Gap(last_used, ring.used_idx)
  <2>2. Plus(last_used, g) = ring.used_idx /\ g \in Nat
    BY Fields, GapIs
  <2>3. Plus(Plus(last_used, g), pending) = Plus(last_used, g + pending)
    BY <2>2, Fields, PlusPlus
  <2> QED
    BY <2>1, <2>2, <2>3 DEF nUsed
<1>2. s \in Slots
  BY Fields, PlaceTypes, PlusType, SlotType
<1> HIDE DEF s
<1>3. /\ ring' \in RingState /\ ring'.used = [ring.used EXCEPT ![s] = d]
      /\ ring'.avail = ring.avail /\ ring'.avail_idx = ring.avail_idx
      /\ ring'.used_idx = ring.used_idx
  BY <1>1, <1>2, Fields, RingUsed
<1>4. nUsed' = nUsed + 1
  BY <1>3, Fields, GapIs DEF nUsed
<1>5. ASSUME NEW k \in 0..(nUsed - 1) PROVE UsedSeq'[k] = UsedSeq[k]
  <2>1. k \in Nat /\ nUsed \in Nat /\ k # nUsed /\ k - nUsed < QueueSize
        /\ nUsed - k < QueueSize
    BY PlaceTypes, Sizes
  <2>2. Slot(Plus(last_used, k)) # s
    BY <2>1, Fields, SlotsDiffer DEF s
  <2>3. Slot(Plus(last_used, k)) \in Slots
    BY <2>1, Fields, PlusType, SlotType
  <2> QED
    BY <1>3, <2>1, <2>2, <2>3, Fields DEF UsedSeq
<1>6. UsedSeq'[nUsed] = d
  BY <1>2, <1>3, Fields, PlaceTypes DEF UsedSeq, s
<1> QED
  BY <1>3, <1>4, <1>5, <1>6

LEMMA TakeRequestConserves == ASSUME Conserved, TakeRequest PROVE Conserved'
<1> USE DEF Conserved
<1>1. /\ step = "take" /\ call = "notify"
      /\ UNCHANGED <<ring, pending, seen, call, host, driver, bounds>>
      /\ AvailFrom = queue.last_avail_idx /\ Flying = in_flight
      /\ nAvail > 0 /\ desc = AvailSeq[0]
  BY DEF TakeRequest, AvailFrom, Flying, Held
<1>2. CASE Malformed(desc)
  <2>1. SetNeedsReset /\ in_flight' = in_flight
    BY <1>2 DEF TakeRequest
  <2>2. /\ queue' \in QueueState
        /\ queue'.last_avail_idx = queue.last_avail_idx
        /\ int_status' \subseteq {"used", "config"} /\ line' \in BOOLEAN
        /\ msix' \in MsixState
        /\ pending = 0 /\ step' = "idle" /\ desc' = NoHead
    BY <2>1, NeedsResetType
  <2>3. QueueTypeOK'
    BY <1>1, <2>1, <2>2 DEF QueueTypeOK, driver, bounds
  <2>4. AvailFrom' = AvailFrom /\ Flying' = Flying
    BY <1>1, <2>1, <2>2 DEF AvailFrom, Flying
  <2>5. Count' /\ Distinct' /\ nAvail' = nAvail /\ AvailSeq' = AvailSeq
    BY <1>1, <2>4, Quiet DEF driver
  <2>6. Held'
    BY <1>1, <2>2 DEF Held
  <2> QED
    BY <2>3, <2>5, <2>6
<1>3. CASE ~Malformed(desc) /\ step' = "consume" /\ in_flight' = in_flight
  <2>1. UNCHANGED <<queue, desc, irq>>
    BY <1>3 DEF TakeRequest
  <2>2. QueueTypeOK'
    BY <1>1, <1>3, <2>1 DEF QueueTypeOK, irq, driver, bounds
  <2>3. AvailFrom' = AvailFrom /\ Flying' = Flying
    BY <1>1, <1>3, <2>1 DEF AvailFrom, Flying
  <2>4. Count' /\ Distinct' /\ nAvail' = nAvail /\ AvailSeq' = AvailSeq
    BY <1>1, <2>3, Quiet DEF driver
  <2>5. Held'
    BY <1>1, <1>3, <2>1, <2>4 DEF Held
  <2> QED
    BY <2>2, <2>4, <2>5
<1>4. CASE ~Malformed(desc) /\ step' = "pop"
           /\ in_flight' = in_flight \cup {desc}
  <2>1. UNCHANGED <<queue, desc, irq>>
    BY <1>4 DEF TakeRequest
  <2>2. desc \in Heads
    BY <1>1, PlaceTypes
  <2>3. QueueTypeOK'
    BY <1>1, <1>4, <2>1, <2>2 DEF QueueTypeOK, irq, driver, bounds
  <2>4. /\ AvailFrom' = Up(AvailFrom) /\ Flying' = Flying \cup {AvailSeq[0]}
        /\ free' = free /\ last_used' = last_used
    BY <1>1, <1>4, <2>1 DEF AvailFrom, Flying, driver
  <2>5. /\ nAvail' = nAvail - 1
        /\ \A k \in 0..(nAvail - 2) : AvailSeq'[k] = AvailSeq[k + 1]
    BY <1>1, <2>4, AvailMoves
  <2>6. UsedSeq' = UsedSeq /\ nUsed' = nUsed
    BY <1>1, <2>4 DEF UsedSeq, nUsed
  <2>7. nAvail \in Nat \ {0} /\ nUsed \in Nat
    BY <1>1, PlaceTypes
  <2>8. /\ Apart(AvailSeq', nAvail - 1, UsedSeq, nUsed, free,
                 Flying \cup {AvailSeq[0]})
        /\ AvailSeq[0] \notin Flying
    BY <2>5, <2>7, ApartTake, Zenon DEF Distinct
  <2>9. Distinct'
    BY <2>4, <2>5, <2>6, <2>8 DEF Distinct
  <2>10. Cardinality(Flying') = Cardinality(Flying) + 1
    BY <2>4, <2>8, PlaceTypes, FiniteHeads, FS_AddElement
  <2>11. Count'
    BY <2>4, <2>5, <2>6, <2>10, PlaceTypes, Sizes DEF Count
  <2>12. Held'
    BY <1>1, <1>4 DEF Held
  <2> QED
    BY <2>3, <2>9, <2>11, <2>12
<1> QED
  BY <1>2, <1>3, <1>4 DEF TakeRequest, RecvRequest

LEMMA TakeRoomConserves == ASSUME Conserved, TakeRoom PROVE Conserved'
<1> USE DEF Conserved
<1>1. /\ step = "take" /\ call = "room" /\ pending = 0
      /\ host' = "watching" /\ step' = "idle" /\ desc' = NoHead
      /\ UNCHANGED <<ring, pending, queue, seen, call, in_flight, irq, driver,
                     bounds>>
  BY DEF TakeRoom, End
<1>2. QueueTypeOK'
  BY <1>1 DEF QueueTypeOK, irq, driver, bounds
<1>3. AvailFrom' = AvailFrom /\ Flying' = Flying
  BY <1>1 DEF AvailFrom, Flying
<1>4. Count' /\ Distinct'
  BY <1>1, <1>3, Quiet DEF driver
<1>5. Held'
  BY <1>1 DEF Held
<1> QED
  BY <1>2, <1>4, <1>5

LEMMA TakePacketConserves == ASSUME Conserved, TakePacket PROVE Conserved'
<1> USE DEF Conserved
<1>1. /\ step = "take" /\ call = "packet"
      /\ UNCHANGED <<ring, pending, seen, call, in_flight, host, driver,
                     bounds>>
  BY DEF TakePacket
<1>2. /\ queue' \in QueueState
      /\ queue'.last_avail_idx = queue.last_avail_idx
      /\ int_status' \subseteq {"used", "config"} /\ line' \in BOOLEAN
      /\ msix' \in MsixState
      /\ \/ pending = 0 /\ step' = "idle" /\ desc' = NoHead
         \/ step' = "consume" /\ desc' = desc
  <2>1. CASE Malformed(desc)
    BY <2>1, NeedsResetType DEF TakePacket
  <2>2. CASE ~Malformed(desc)
    BY <2>2, Zenon DEF TakePacket, End, irq, QueueTypeOK
  <2> QED
    BY <2>1, <2>2
<1>3. QueueTypeOK'
  BY <1>1, <1>2 DEF QueueTypeOK, driver, bounds
<1>4. AvailFrom' = AvailFrom /\ Flying' = Flying
  BY <1>1, <1>2 DEF AvailFrom, Flying
<1>5. Count' /\ Distinct' /\ nAvail' = nAvail /\ AvailSeq' = AvailSeq
  BY <1>1, <1>4, Quiet DEF driver
<1>6. Held'
  BY <1>1, <1>2, <1>5 DEF Held
<1> QED
  BY <1>3, <1>5, <1>6

LEMMA ConsumeConserves == ASSUME Conserved, Consume PROVE Conserved'
<1> USE DEF Conserved
<1>1. /\ step = "consume" /\ step' = "wanted" /\ pending' = pending + 1
      /\ ring' = [ring EXCEPT !.used[Slot(ring.used_idx + pending)] = desc]
      /\ UNCHANGED <<queue, desc, seen, call, in_flight, host, irq, driver,
                     bounds>>
  BY DEF Consume
<1>2. free' = free /\ last_used' = last_used /\ Flying = in_flight
      /\ AvailFrom = queue.last_avail_idx
  BY <1>1 DEF driver, Flying, AvailFrom
<1>3. CASE call # "complete"
  <2>1. /\ nAvail > 0 /\ desc = AvailSeq[0] /\ desc \in Heads
        /\ AvailFrom' = Up(AvailFrom) /\ Flying' = Flying
    BY <1>1, <1>2, <1>3, PlaceTypes DEF Held, AvailFrom, Flying
  <2>2. nUsed < QueueSize
    BY <2>1, PlaceTypes, Sizes DEF Count
  <2>3. /\ nUsed' = nUsed + 1
        /\ \A k \in 0..(nUsed - 1) : UsedSeq'[k] = UsedSeq[k]
        /\ UsedSeq'[nUsed] = desc
        /\ ring' \in RingState /\ ring'.avail = ring.avail
        /\ ring'.avail_idx = ring.avail_idx
    BY <1>1, <1>2, <2>1, <2>2, UsedMoves
  <2>4. /\ nAvail' = nAvail - 1
        /\ \A k \in 0..(nAvail - 2) : AvailSeq'[k] = AvailSeq[k + 1]
    BY <2>1, <2>3, AvailMoves
  <2>5. Count'
    BY <1>2, <2>1, <2>3, <2>4, PlaceTypes, Sizes DEF Count
  <2>6. nAvail \in Nat \ {0} /\ nUsed \in Nat
    BY <2>1, PlaceTypes
  <2>7. Apart(AvailSeq', nAvail - 1, UsedSeq', nUsed + 1, free, Flying)
    BY <2>1, <2>3, <2>4, <2>6, ApartConsume, Zenon DEF Distinct
  <2>8. Distinct'
    BY <1>2, <2>1, <2>3, <2>4, <2>7 DEF Distinct
  <2>9. pending' \in 0..QueueSize
    BY <1>1, <2>2, Fields, GapIs, Sizes DEF nUsed
  <2>10. QueueTypeOK'
    BY <1>1, <2>3, <2>9 DEF QueueTypeOK, irq, driver, bounds
  <2>11. Held'
    BY <1>1, <1>3 DEF Held
  <2> QED
    BY <2>5, <2>8, <2>10, <2>11
<1>4. CASE call = "complete"
  <2>1. /\ desc \in Flying /\ desc \in Heads
        /\ AvailFrom' = AvailFrom /\ Flying' = Flying \ {desc}
    BY <1>1, <1>2, <1>4, PlaceTypes DEF Held, AvailFrom, Flying
  <2>2. /\ Cardinality(Flying') = Cardinality(Flying) - 1
        /\ Cardinality(Flying) > 0
    <3>1. IsFiniteSet(Flying)
      BY PlaceTypes, FiniteHeads
    <3>2. Cardinality(Flying \ {desc}) = Cardinality(Flying) - 1
      BY <3>1, <2>1, FS_RemoveElement, Zenon
    <3>3. Cardinality(Flying \ {desc}) \in Nat
      BY FiniteHeads, PlaceTypes
    <3> QED
      BY <2>1, <3>2, <3>3, PlaceTypes
  <2>3. nUsed < QueueSize
    BY <2>2, PlaceTypes, Sizes DEF Count
  <2>4. /\ nUsed' = nUsed + 1
        /\ \A k \in 0..(nUsed - 1) : UsedSeq'[k] = UsedSeq[k]
        /\ UsedSeq'[nUsed] = desc
        /\ ring' \in RingState /\ ring'.avail = ring.avail
        /\ ring'.avail_idx = ring.avail_idx
    BY <1>1, <1>2, <2>1, <2>3, UsedMoves
  <2>5. nAvail' = nAvail /\ AvailSeq' = AvailSeq
    BY <2>1, <2>4 DEF nAvail, AvailSeq
  <2>6. Count'
    BY <1>2, <2>2, <2>4, <2>5, PlaceTypes, Sizes DEF Count
  <2>7. nAvail \in Nat /\ nUsed \in Nat
    BY PlaceTypes
  <2>8. Apart(AvailSeq, nAvail, UsedSeq', nUsed + 1, free, Flying \ {desc})
    BY <2>1, <2>4, <2>7, ApartAnswer DEF Distinct
  <2>9. Distinct'
    BY <1>2, <2>1, <2>4, <2>5, <2>8 DEF Distinct
  <2>10. pending' \in 0..QueueSize
    BY <1>1, <2>3, Fields, GapIs, Sizes DEF nUsed
  <2>11. QueueTypeOK'
    BY <1>1, <2>4, <2>10 DEF QueueTypeOK, irq, driver, bounds
  <2>12. Held'
    BY <1>1, <1>4 DEF Held
  <2> QED
    BY <2>6, <2>9, <2>11, <2>12
<1> QED
  BY <1>3, <1>4

(* Whether or not the driver asked for it. *)
LEMMA SignalRing ==
    ASSUME Conserved, Signal, last_used' = last_used
    PROVE  /\ ring' \in RingState /\ pending' \in {0, pending}
           /\ ring'.avail = ring.avail /\ ring'.avail_idx = ring.avail_idx
           /\ ring'.used = ring.used /\ ring'.used_event = ring.used_event
           /\ ring'.avail_event = ring.avail_event
           /\ ring'.no_interrupt = ring.no_interrupt
           /\ nUsed' = nUsed
           /\ int_status' \subseteq {"used", "config"} /\ line' \in BOOLEAN
           /\ msix' \in MsixState
<1> USE DEF Conserved
<1>1. CASE NotificationWanted((ring.used_idx + pending) % IdxWrap)
  <2>1. RaiseIrq("used") /\ ring' = Fenced(ring) /\ pending' = 0
    BY <1>1 DEF Signal
  <2>2. /\ int_status' \subseteq {"used", "config"} /\ line' \in BOOLEAN
        /\ msix' \in MsixState
    BY <2>1, RaiseIrqType
  <2>3. /\ ring' \in RingState
        /\ ring'.used_idx = Plus(ring.used_idx, pending)
        /\ ring'.avail = ring.avail /\ ring'.avail_idx = ring.avail_idx
        /\ ring'.used = ring.used /\ ring'.used_event = ring.used_event
        /\ ring'.avail_event = ring.avail_event
        /\ ring'.no_interrupt = ring.no_interrupt
    BY <2>1, Fields, FencedRing
  <2>4. nUsed' = nUsed
    BY <2>1, <2>3, FencedPlaces
  <2> QED
    BY <2>1, <2>2, <2>3, <2>4
<1>2. CASE ~NotificationWanted((ring.used_idx + pending) % IdxWrap)
  BY <1>2, Zenon DEF Signal, irq, nUsed, QueueTypeOK
<1> QED
  BY <1>1, <1>2

LEMMA WantedConserves == ASSUME Conserved, Wanted PROVE Conserved'
<1> USE DEF Conserved
<1>1. /\ step = "wanted" /\ Signal
      /\ UNCHANGED <<queue, seen, call, host, driver, bounds>>
  BY DEF Wanted
<1>2. \/ /\ call = "complete" /\ pending' = 0 /\ step' = "idle"
         /\ desc' = NoHead /\ in_flight' = in_flight \ {desc}
      \/ /\ call # "complete" /\ step' = "pop"
         /\ desc' = desc /\ in_flight' = in_flight
  BY <1>1 DEF Signal, End
<1>3. last_used' = last_used /\ free' = free
  BY <1>1 DEF driver
<1>4. /\ ring' \in RingState /\ pending' \in {0, pending}
      /\ ring'.avail = ring.avail /\ ring'.avail_idx = ring.avail_idx
      /\ ring'.used = ring.used /\ nUsed' = nUsed
      /\ int_status' \subseteq {"used", "config"} /\ line' \in BOOLEAN
      /\ msix' \in MsixState
  BY <1>1, <1>3, SignalRing
<1>5. pending' \in 0..QueueSize
  BY <1>4, Fields, Sizes
<1>6. QueueTypeOK'
  BY <1>1, <1>2, <1>4, <1>5 DEF QueueTypeOK, driver, bounds
<1>7. AvailFrom' = AvailFrom /\ Flying' = Flying
  BY <1>1, <1>2 DEF AvailFrom, Flying
<1>8. Count' /\ Distinct'
  BY <1>3, <1>4, <1>7, SamePlaces
<1>9. Held'
  BY <1>1, <1>2 DEF Held
<1> QED
  BY <1>6, <1>8, <1>9

LEMMA PopConserves == ASSUME Conserved, Pop PROVE Conserved'
<1> USE DEF Conserved
<1>1. /\ step = "pop" /\ call # "complete" /\ step' \in {"peek", "idle"}
      /\ step' = "idle" => pending = 0
      /\ desc' \in {desc, NoHead}
      /\ queue' = [queue EXCEPT !.last_avail_idx = Up(@)]
      /\ UNCHANGED <<ring, pending, seen, call, in_flight, host, irq, driver,
                     bounds>>
  BY DEF Pop, End
<1>2. queue' \in QueueState /\ queue'.last_avail_idx = Up(queue.last_avail_idx)
  BY <1>1, Fields, UpIs DEF QueueState
<1>3. QueueTypeOK'
  BY <1>1, <1>2 DEF QueueTypeOK, irq, driver, bounds
<1>4. AvailFrom' = AvailFrom /\ Flying' = Flying
  BY <1>1, <1>2 DEF AvailFrom, Flying
<1>5. Count' /\ Distinct'
  BY <1>1, <1>4, Quiet DEF driver
<1>6. Held'
  BY <1>1 DEF Held
<1> QED
  BY <1>3, <1>5, <1>6

(* A call begins. *)
LEMMA BeginConserves ==
    ASSUME Conserved, step = "idle",
           \/ step' = "consume" /\ call' = "complete" /\ desc' \in in_flight
           \/ /\ step' = "peek" /\ call' \in {"notify", "room", "packet"}
              /\ desc' = desc
           \/ step' = "idle" /\ call' = call /\ desc' = desc,
           queue' \in QueueState,
           queue'.last_avail_idx = queue.last_avail_idx,
           host' \in {"none", "watching", "blocked"},
           adding' \in {"idle", "check", "notify"},
           UNCHANGED <<ring, pending, seen, in_flight, irq, taking, acks,
                       last_used, free, bounds>>
    PROVE  Conserved'
<1> USE DEF Conserved
<1>1. QueueTypeOK'
  BY DEF QueueTypeOK, irq, bounds
<1>2. AvailFrom' = AvailFrom /\ Flying' = Flying
  BY DEF AvailFrom, Flying
<1>3. Count' /\ Distinct'
  BY <1>2, Quiet
<1>4. Held'
  BY DEF Held
<1> QED
  BY <1>1, <1>3, <1>4

LEMMA CallsConserve ==
    ASSUME Conserved, Complete \/ Prepare \/ Dispatch \/ SetReady \/ DriverOk
                      \/ Notify
    PROVE  Conserved'
<1>1. CASE Complete
  BY <1>1, BeginConserves, Fields
     DEF Complete, Begin, Conserved, QueueTypeOK, driver
<1>2. CASE Prepare
  BY <1>2, BeginConserves, Fields
     DEF Prepare, Begin, Conserved, QueueTypeOK, driver
<1>3. CASE Dispatch
  BY <1>3, BeginConserves, Fields
     DEF Dispatch, Begin, Conserved, QueueTypeOK, driver
<1>4. CASE SetReady
  <2>1. queue' \in QueueState /\ queue'.last_avail_idx = queue.last_avail_idx
    BY <1>4, Fields, Zenon DEF SetReady, QueueState, Conserved
  <2> QED
    BY <1>4, <2>1, BeginConserves DEF SetReady, Conserved, QueueTypeOK, driver
<1>5. CASE DriverOk
  <2>1. queue' \in QueueState /\ queue'.last_avail_idx = queue.last_avail_idx
    BY <1>5, Fields, Zenon DEF DriverOk, QueueState, Conserved
  <2> QED
    BY <1>5, <2>1, BeginConserves
       DEF DriverOk, NotifyAny, Begin, TargetReady, Conserved, QueueTypeOK,
           driver
<1>6. CASE Notify
  BY <1>6, BeginConserves, Fields
     DEF Notify, NotifyAny, Begin, TargetReady, Conserved, QueueTypeOK
<1> QED
  BY <1>1, <1>2, <1>3, <1>4, <1>5, <1>6

LEMMA EmptyRingType ==
    /\ EmptyRing \in RingState /\ EmptyRing.avail_idx = 0
    /\ EmptyRing.used_idx = 0 /\ EmptyRing.used_event = 0
    /\ EmptyRing.avail_event = 0 /\ EmptyRing.no_interrupt = FALSE
<1>1. 0 \in Slots /\ 0 \in Indexes
  BY Sizes DEF Slots, Indexes
<1> QED
  BY <1>1 DEF EmptyRing, RingState, Heads

LEMMA ResetQueueType ==
    /\ ResetQueue \in QueueState /\ ResetQueue.last_avail_idx = 0
    /\ ~ResetQueue.driver_ok /\ ~ResetQueue.needs_reset /\ ~ResetQueue.ready
<1>1. 0 \in Indexes
  BY Sizes DEF Indexes
<1> QED
  BY <1>1 DEF ResetQueue, QueueState

LEMMA EmptyPlaces ==
    Gap(0, 0) = 0 /\ Cardinality(Heads) = QueueSize /\ Cardinality({}) = 0
<1>1. 0 \in Indexes
  BY Sizes DEF Indexes
<1>2. Gap(0, 0) = 0
  BY <1>1, GapIs
<1> QED
  BY <1>2, FiniteSlots, FS_EmptySet DEF Heads

LEMMA ResetConserves == ASSUME Conserved, Reset PROVE Conserved'
<1> USE DEF Conserved
<1>1. /\ step = "idle" /\ queue' = ResetQueue /\ in_flight' = {}
      /\ int_status' = {} /\ line' = FALSE /\ ring' = EmptyRing
      /\ last_used' = 0 /\ free' = Heads /\ acks' = {}
      /\ resets < MaxResets /\ resets' = resets + 1
      /\ UNCHANGED <<msix, pending, step, desc, seen, call, host, adding,
                     taking, posts, setup>>
  BY DEF Reset, CancelRequests
<1>2. resets' \in 0..MaxResets /\ 0 \in Indexes
  BY <1>1, Sizes, QueueAssumption DEF QueueTypeOK, Indexes
<1>3. QueueTypeOK'
  BY <1>1, <1>2, EmptyRingType, ResetQueueType, Zenon DEF QueueTypeOK
<1>4. AvailFrom' = 0 /\ Flying' = {}
  BY <1>1, ResetQueueType DEF AvailFrom, Flying
<1>5. pending' = 0
  BY <1>1 DEF Held
<1>6. nAvail' = 0 /\ nUsed' = 0
  BY <1>1, <1>4, <1>5, EmptyRingType, EmptyPlaces DEF nAvail, nUsed
<1>7. Count'
  BY <1>1, <1>4, <1>6, EmptyPlaces, Sizes DEF Count
<1>8. Distinct'
  BY <1>4, <1>6, ApartEmpty DEF Distinct
<1>9. Held'
  BY <1>1, <1>5 DEF Held
<1> QED
  BY <1>3, <1>7, <1>8, <1>9

LEMMA AddConserves == ASSUME Conserved, Add PROVE Conserved'
<1> USE DEF Conserved
<1>1. PICK d \in free :
        /\ free' = free \ {d}
        /\ \E malformed \in {FALSE, setup.malformed} :
            ring' = [ring EXCEPT !.avail[Slot(ring.avail_idx)] = d,
                                 !.avail_idx = Up(@),
                                 !.bad = IF malformed THEN @ \cup {d} ELSE @]
  BY Zenon DEF Add
<1>2. /\ adding' = "check" /\ posts < MaxPosts /\ posts' = posts + 1
      /\ UNCHANGED <<pending, device, irq, taking, acks, last_used, resets,
                     setup>>
  BY DEF Add
<1>3. PICK b \in {ring.bad, ring.bad \cup {d}} :
        ring' = [ring EXCEPT !.avail[Slot(ring.avail_idx)] = d,
                             !.avail_idx = Up(ring.avail_idx), !.bad = b]
  BY <1>1, Zenon
<1>4. d \in Heads /\ b \in SUBSET Heads /\ Slot(ring.avail_idx) \in Slots
      /\ Up(ring.avail_idx) \in Indexes
  BY Fields, UpIs, SlotType
<1>5. /\ ring' \in RingState
      /\ ring'.avail = [ring.avail EXCEPT ![Slot(ring.avail_idx)] = d]
      /\ ring'.avail_idx = Up(ring.avail_idx) /\ ring'.used = ring.used
      /\ ring'.used_idx = ring.used_idx
  BY <1>3, <1>4, Fields, Zenon DEF RingState
<1>6. QueueTypeOK'
  <2>1. posts' \in 0..MaxPosts
    BY <1>2, QueueAssumption DEF QueueTypeOK
  <2>2. free' \subseteq Heads
    BY <1>1, Fields
  <2> QED
    BY <1>2, <1>5, <2>1, <2>2 DEF QueueTypeOK, device, irq
<1>7. AvailFrom' = AvailFrom /\ Flying' = Flying /\ UsedSeq' = UsedSeq
      /\ nUsed' = nUsed
  BY <1>2, <1>5 DEF AvailFrom, Flying, UsedSeq, nUsed, device
<1>8. /\ Cardinality(free') = Cardinality(free) - 1
      /\ Cardinality(free) > 0
  <2>1. IsFiniteSet(free)
    BY Fields, FiniteHeads
  <2>2. Cardinality(free \ {d}) = Cardinality(free) - 1
    BY <2>1, FS_RemoveElement
  <2>3. Cardinality(free \ {d}) \in Nat
    BY Fields, FiniteHeads
  <2> QED
    BY <1>1, <2>2, <2>3, PlaceTypes
<1>9. nAvail < QueueSize /\ nAvail \in Nat /\ nUsed \in Nat
  BY <1>8, PlaceTypes, Sizes DEF Count
<1>10. nAvail' = nAvail + 1
  BY <1>5, <1>7, <1>9, Fields, PlaceTypes, GapGrows, Sizes DEF nAvail
<1>11. Plus(AvailFrom, nAvail) = ring.avail_idx
  BY Fields, PlaceTypes, GapIs DEF nAvail
<1>12. AvailSeq'[nAvail] = d
  BY <1>4, <1>5, <1>7, <1>9, <1>11, Fields DEF AvailSeq
<1>13. ASSUME NEW k \in 0..(nAvail - 1) PROVE AvailSeq'[k] = AvailSeq[k]
  <2>1. k \in Nat /\ k # nAvail /\ k - nAvail < QueueSize
        /\ nAvail - k < QueueSize
    BY <1>9, Sizes
  <2>2. Slot(Plus(AvailFrom, k)) # Slot(ring.avail_idx)
    BY <1>9, <1>11, <2>1, PlaceTypes, SlotsDiffer
  <2>3. Slot(Plus(AvailFrom, k)) \in Slots
    BY <2>1, PlaceTypes, PlusType, SlotType
  <2> QED
    BY <1>5, <1>7, <2>1, <2>2, <2>3, Fields DEF AvailSeq
<1>14. Count'
  BY <1>7, <1>8, <1>10, PlaceTypes, Sizes DEF Count
<1>15. Apart(AvailSeq', nAvail + 1, UsedSeq, nUsed, free \ {d}, Flying)
  BY <1>9, <1>12, <1>13, ApartAdd DEF Distinct
<1>16. Distinct'
  BY <1>1, <1>7, <1>10, <1>15 DEF Distinct
<1>17. Held'
  <2>1. nAvail > 0 => AvailSeq'[0] = AvailSeq[0]
    BY <1>9, <1>13
  <2>2. ASSUME step \in {"publish", "reread"}
        PROVE  Gap(queue.last_avail_idx, seen) <= nAvail + 1
    BY <1>9, <2>2, Fields, GapIs DEF Held
  <2> QED
    BY <1>2, <1>9, <1>10, <2>1, <2>2 DEF Held, device
<1> QED
  BY <1>6, <1>14, <1>16, <1>17

LEMMA ProcessConserves == ASSUME Conserved, Process PROVE Conserved'
<1> USE DEF Conserved
<1>1. /\ taking = "process"
      /\ UNCHANGED <<pending, device, irq, adding, acks, bounds>>
  BY DEF Process
<1>2. CASE ring.used_idx = last_used
  <2>1. /\ ring' = [ring EXCEPT !.no_interrupt = FALSE,
                                !.used_event = last_used]
        /\ taking' = "recheck" /\ last_used' = last_used /\ free' = free
    BY <1>2 DEF Process
  <2>2. /\ ring' \in RingState /\ ring'.avail = ring.avail
        /\ ring'.avail_idx = ring.avail_idx /\ ring'.used = ring.used
        /\ ring'.used_idx = ring.used_idx
    BY <2>1, Fields, Zenon DEF RingState
  <2>3. QueueTypeOK'
    BY <1>1, <2>1, <2>2 DEF QueueTypeOK, device, irq, bounds
  <2> QED
    BY <1>1, <2>1, <2>2, <2>3, QuietDriver
<1>3. CASE ring.used_idx # last_used
  <2>1. /\ free' = free \cup {ring.used[Slot(last_used)]}
        /\ last_used' = Up(last_used) /\ ring' = ring /\ taking' = taking
    BY <1>3 DEF Process
  <2>2. AvailFrom' = AvailFrom /\ Flying' = Flying /\ AvailSeq' = AvailSeq
        /\ nAvail' = nAvail
    BY <1>1, <2>1 DEF AvailFrom, Flying, AvailSeq, nAvail, device
  <2>3. nUsed' = nUsed - 1 /\ nUsed > 0 /\ nUsed \in Nat
    BY <1>1, <1>3, <2>1, Fields, PlaceTypes, GapIs, GapShrinks DEF nUsed
  <2>4. ring.used[Slot(last_used)] = UsedSeq[0]
    BY Fields, PlusZero DEF UsedSeq
  <2>5. ASSUME NEW k \in 0..(nUsed - 2) PROVE UsedSeq'[k] = UsedSeq[k + 1]
    <3>1. k \in Nat /\ k + 1 \in Nat
      OBVIOUS
    <3>2. Plus(Up(last_used), k) = Plus(last_used, k + 1)
      BY <3>1, Fields, PlusUp
    <3> QED
      BY <2>1, <3>1, <3>2 DEF UsedSeq
  <2>6. nAvail \in Nat /\ nUsed \in Nat \ {0}
    BY <2>3, PlaceTypes
  <2>7. /\ Apart(AvailSeq, nAvail, UsedSeq', nUsed - 1, free \cup {UsedSeq[0]},
                 Flying)
        /\ UsedSeq[0] \notin free
    BY <2>5, <2>6, ApartProcess DEF Distinct
  <2>8. Distinct'
    BY <2>1, <2>2, <2>3, <2>4, <2>7 DEF Distinct
  <2>9. Cardinality(free') = Cardinality(free) + 1
    BY <2>1, <2>4, <2>7, Fields, FiniteHeads, FS_AddElement
  <2>10. Count'
    BY <2>2, <2>3, <2>9, PlaceTypes, Sizes DEF Count
  <2>11. QueueTypeOK'
    <3>1. free' \subseteq Heads /\ last_used' \in Indexes
      BY <2>1, <2>4, Fields, PlaceTypes, UpIs
    <3> QED
      BY <1>1, <2>1, <3>1 DEF QueueTypeOK, device, irq, bounds
  <2>12. Held'
    BY <1>1, <2>2 DEF Held, device
  <2> QED
    BY <2>8, <2>10, <2>11, <2>12
<1> QED
  BY <1>2, <1>3

LEMMA BegunRing ==
    ASSUME QueueTypeOK, Begun
    PROVE  /\ ring' \in RingState /\ ring'.no_interrupt = setup.suppress
           /\ ring'.avail = ring.avail /\ ring'.avail_idx = ring.avail_idx
           /\ ring'.used = ring.used /\ ring'.used_idx = ring.used_idx
           /\ ring'.used_event = ring.used_event
           /\ ring'.avail_event = ring.avail_event
           /\ taking' = "process" /\ acks' = {}
<1>1. setup.suppress \in BOOLEAN
  BY QueueAssumption DEF QueueTypeOK
<1> QED
  BY <1>1, Fields, RingNoInterrupt DEF Begun

LEMMA DriversConserve ==
    ASSUME Conserved, Check \/ Interrupt \/ Ack \/ LookAgain \/ SetMask
    PROVE  Conserved'
<1> USE DEF Conserved
<1>1. CASE Check
  <2>1. QueueTypeOK'
    BY <1>1 DEF Check, QueueTypeOK, device, irq, bounds
  <2> QED
    BY <1>1, <2>1, QuietDriver DEF Check
<1>2. CASE Interrupt
  <2>1. /\ UNCHANGED <<pending, device, adding, last_used, free, bounds>>
        /\ taking' \in {"ack", "process"} /\ acks' \subseteq {"used", "config"}
    BY <1>2 DEF Interrupt, Begun, QueueTypeOK
  <2>2. /\ ring' \in RingState /\ ring'.avail = ring.avail
        /\ ring'.avail_idx = ring.avail_idx /\ ring'.used = ring.used
        /\ ring'.used_idx = ring.used_idx
    BY <1>2, Fields, BegunRing DEF Interrupt
  <2>3. /\ int_status' \subseteq {"used", "config"} /\ line' \in BOOLEAN
        /\ msix' \in MsixState
    BY <1>2, Zenon DEF Interrupt, ReadIsr, irq, QueueTypeOK, MsixState
  <2>4. QueueTypeOK'
    BY <2>1, <2>2, <2>3 DEF QueueTypeOK, device, bounds
  <2> QED
    BY <2>1, <2>2, <2>4, QuietDriver
<1>3. CASE Ack
  <2>1. UNCHANGED <<pending, device, msix, adding, last_used, free, bounds>>
        /\ Begun
    BY <1>3 DEF Ack
  <2>2. /\ ring' \in RingState /\ ring'.avail = ring.avail
        /\ ring'.avail_idx = ring.avail_idx /\ ring'.used = ring.used
        /\ ring'.used_idx = ring.used_idx
        /\ taking' = "process" /\ acks' = {}
    BY <2>1, BegunRing
  <2>3. int_status' \subseteq {"used", "config"} /\ line' \in BOOLEAN
    BY <1>3 DEF Ack, QueueTypeOK
  <2>4. QueueTypeOK'
    BY <2>1, <2>2, <2>3 DEF QueueTypeOK, device, bounds
  <2> QED
    BY <2>1, <2>2, <2>4, QuietDriver
<1>4. CASE LookAgain
  <2> DEFINE b == setup.suppress /\ ring.used_idx # last_used
  <2>1. /\ ring' = [ring EXCEPT !.no_interrupt = b]
        /\ taking' \in {"process", "sleep"}
        /\ UNCHANGED <<pending, device, irq, adding, acks, last_used, free,
                       bounds>>
    BY <1>4 DEF LookAgain
  <2>2. b \in BOOLEAN
    OBVIOUS
  <2> HIDE DEF b
  <2>3. /\ ring' \in RingState /\ ring'.avail = ring.avail
        /\ ring'.avail_idx = ring.avail_idx /\ ring'.used = ring.used
        /\ ring'.used_idx = ring.used_idx
    BY <2>1, <2>2, Fields, RingNoInterrupt
  <2>4. QueueTypeOK'
    BY <2>1, <2>3 DEF QueueTypeOK, device, irq, bounds
  <2> QED
    BY <2>1, <2>3, <2>4, QuietDriver
<1>5. CASE SetMask
  <2>1. UNCHANGED <<ring, pending, device, int_status, line, driver, bounds>>
    BY <1>5 DEF SetMask
  <2>2. msix' \in MsixState
    BY <1>5, Zenon DEF SetMask, Sent, MsixState, QueueTypeOK
  <2>3. QueueTypeOK'
    BY <2>1, <2>2 DEF QueueTypeOK, device, driver, bounds
  <2> QED
    BY <2>1, <2>3, QuietDriver DEF driver
<1> QED
  BY <1>1, <1>2, <1>3, <1>4, <1>5

LEMMA ConservedInitially == QueueInit => Conserved
<1> SUFFICES ASSUME QueueInit PROVE Conserved
  OBVIOUS
<1> USE DEF QueueInit
<1>1. QueueTypeOK
  <2>1. /\ 0 \in Indexes /\ 0 \in 0..QueueSize /\ 0 \in 0..MaxPosts
        /\ 0 \in 0..MaxResets
    BY Sizes, QueueAssumption DEF Indexes
  <2>2. msix \in MsixState
    BY DEF MsixState
  <2> QED
    BY <2>1, <2>2, EmptyRingType, ResetQueueType, Zenon DEF QueueTypeOK
<1>2. AvailFrom = 0 /\ Flying = {}
  BY ResetQueueType DEF AvailFrom, Flying
<1>3. nAvail = 0 /\ nUsed = 0
  BY <1>2, EmptyRingType, EmptyPlaces DEF nAvail, nUsed
<1>4. Count
  BY <1>2, <1>3, EmptyPlaces, Sizes DEF Count
<1>5. Distinct
  BY <1>2, <1>3, ApartEmpty DEF Distinct
<1>6. Held
  BY DEF Held
<1> QED
  BY <1>1, <1>4, <1>5, <1>6 DEF Conserved

LEMMA ConservedInductive == Conserved /\ [QueueNext]_queueVars => Conserved'
<1> SUFFICES ASSUME Conserved, [QueueNext]_queueVars PROVE Conserved'
  OBVIOUS
<1>1. CASE UNCHANGED queueVars
  <2>1. QueueTypeOK'
    BY <1>1 DEF Conserved, QueueTypeOK, queueVars, device, irq, driver, bounds
  <2> QED
    BY <1>1, <2>1, QuietDriver DEF Conserved, queueVars, driver
<1>2. CASE QueueNext
  BY <1>2, StoreOutConserves, PeekConserves, PublishConserves, RereadConserves,
     TakeRequestConserves, TakeRoomConserves, TakePacketConserves,
     ConsumeConserves, WantedConserves, PopConserves, CallsConserve,
     ResetConserves, AddConserves, ProcessConserves, DriversConserve
     DEF QueueNext
<1> QED
  BY <1>1, <1>2

LEMMA Elements ==
    ASSUME NEW n \in Nat, NEW a \in [Nat -> Heads],
           \A j, k \in 0..(n - 1) : a[j] = a[k] => j = k
    PROVE  /\ {a[k] : k \in 0..(n - 1)} \in SUBSET Heads
           /\ Cardinality({a[k] : k \in 0..(n - 1)}) = n
<1> DEFINE S == 0..(n - 1)
           T == {a[k] : k \in S}
           f == [k \in S |-> a[k]]
<1>1. IsFiniteSet(S) /\ Cardinality(S) = n
  BY FS_Interval
<1>2. f \in Injection(S, T) /\ f \in Surjection(S, T)
  BY DEF Injection, Surjection, IsInjective
<1>3. T \in SUBSET Heads
  OBVIOUS
<1> HIDE DEF S, T, f
<1>4. Cardinality(T) = n
  BY <1>1, <1>2, FS_Surjection
<1> QED
  BY <1>3, <1>4 DEF T, S

LEMMA DisjointUnion ==
    ASSUME NEW S \in SUBSET Heads, NEW T \in SUBSET Heads, S \cap T = {}
    PROVE  /\ S \cup T \in SUBSET Heads
           /\ Cardinality(S \cup T) = Cardinality(S) + Cardinality(T)
<1>1. /\ IsFiniteSet(S) /\ IsFiniteSet(T)
      /\ Cardinality(S) \in Nat /\ Cardinality(T) \in Nat
  BY FiniteHeads
<1>2. Cardinality(S \cup T) =
        Cardinality(S) + Cardinality(T) - Cardinality(S \cap T)
  BY <1>1, FS_Union
<1> QED
  BY <1>1, <1>2, FS_EmptySet

LEMMA ConservedSuffices == Conserved => BuffersConserved
<1> SUFFICES ASSUME Conserved, step \notin {"wanted", "pop"}
             PROVE  BuffersConserved
  BY DEF BuffersConserved
<1> USE DEF Conserved
<1> DEFINE A == {AvailSeq[k] : k \in 0..(nAvail - 1)}
           U == {UsedSeq[k] : k \in 0..(nUsed - 1)}
<1>1. /\ nAvail \in Nat /\ nUsed \in Nat /\ nUsed < IdxWrap
      /\ AvailSeq \in [Nat -> Heads] /\ UsedSeq \in [Nat -> Heads]
  BY PlaceTypes, NeverFuller, Sizes
<1>2. AvailFrom = queue.last_avail_idx /\ Flying = in_flight
  BY DEF AvailFrom, Flying
<1>3. (ring.used_idx + pending - last_used) % IdxWrap = nUsed
  <2> DEFINE g == Gap(last_used, ring.used_idx)
  <2>1. /\ g \in 0..(IdxWrap - 1)
        /\ g = IF ring.used_idx < last_used
               THEN ring.used_idx - last_used + IdxWrap
               ELSE ring.used_idx - last_used
    <3>1. ring.used_idx - last_used \in (-IdxWrap)..(2 * IdxWrap - 1)
      BY Fields, Sizes DEF Indexes
    <3> DEFINE x == ring.used_idx - last_used
    <3>2. x % IdxWrap = IF x < 0 THEN x + IdxWrap
                        ELSE IF x < IdxWrap THEN x ELSE x - IdxWrap
      BY <3>1, Sizes, SmallMod, Zenon
    <3>3. g = x % IdxWrap
      BY DEF Gap
    <3> HIDE DEF g
    <3>4. g = IF x < 0 THEN x + IdxWrap
              ELSE IF x < IdxWrap THEN x ELSE x - IdxWrap
      BY <3>2, <3>3, Zenon
    <3> QED
      BY <3>4, Fields, Sizes DEF Indexes
  <2> HIDE DEF g
  <2>2. g + pending = nUsed
    BY DEF g, nUsed
  <2>3. ring.used_idx + pending - last_used \in (-IdxWrap)..(2 * IdxWrap - 1)
    BY <1>1, <2>1, <2>2, Fields, Sizes DEF Indexes
  <2> DEFINE x == ring.used_idx + pending - last_used
  <2>4. x % IdxWrap = IF x < 0 THEN x + IdxWrap
                      ELSE IF x < IdxWrap THEN x ELSE x - IdxWrap
    BY <2>3, Sizes, SmallMod, Zenon
  <2>5. (IF x < 0 THEN x + IdxWrap
         ELSE IF x < IdxWrap THEN x ELSE x - IdxWrap) = nUsed
    BY <1>1, <2>1, <2>2, Fields, Sizes DEF Indexes
  <2> QED
    BY <2>4, <2>5, Zenon
<1>4. {ring.avail[Slot(i)] :
        i \in Between(queue.last_avail_idx, ring.avail_idx)} = A
  <2>1. (ring.avail_idx - queue.last_avail_idx) % IdxWrap = nAvail
    BY <1>2, Zenon DEF nAvail, Gap
  <2>2. \A k \in 0..(nAvail - 1) :
          AvailSeq[k] = ring.avail[Slot(Plus(queue.last_avail_idx, k))]
    BY <1>1, <1>2 DEF AvailSeq
  <2>3. Between(queue.last_avail_idx, ring.avail_idx)
          = {Plus(queue.last_avail_idx, k) : k \in 0..(nAvail - 1)}
    BY <2>1, Zenon DEF Between, Plus
  <2>4. {ring.avail[Slot(i)] :
            i \in {Plus(queue.last_avail_idx, k) : k \in 0..(nAvail - 1)}} = A
    BY <2>2
  <2> QED
    BY <2>3, <2>4, Zenon
<1>5. {ring.used[Slot(i)] :
        i \in Between(last_used, ring.used_idx + pending)} = U
  <2>1. \A k \in 0..(nUsed - 1) :
          UsedSeq[k] = ring.used[Slot(Plus(last_used, k))]
    BY <1>1 DEF UsedSeq
  <2>2. Between(last_used, ring.used_idx + pending)
          = {Plus(last_used, k) : k \in 0..(nUsed - 1)}
    <3>1. (ring.used_idx + pending) - last_used
            = ring.used_idx + pending - last_used
      BY Fields DEF Indexes
    <3>2. ((ring.used_idx + pending) - last_used) % IdxWrap = nUsed
      BY <1>3, <3>1, Zenon
    <3> QED
      BY <3>2, Zenon DEF Between, Plus
  <2>3. {ring.used[Slot(i)] :
            i \in {Plus(last_used, k) : k \in 0..(nUsed - 1)}} = U
    BY <2>1
  <2> QED
    BY <2>2, <2>3, Zenon
<1>6. A \in SUBSET Heads /\ Cardinality(A) = nAvail
  BY <1>1, Elements DEF Distinct, Apart
<1>7. U \in SUBSET Heads /\ Cardinality(U) = nUsed
  BY <1>1, Elements DEF Distinct, Apart
<1>8. /\ free \cap A = {} /\ (free \cup A) \cap in_flight = {}
      /\ (free \cup A \cup in_flight) \cap U = {}
  BY <1>2 DEF Distinct, Apart
<1> HIDE DEF A, U
<1>9. /\ free \cup A \in SUBSET Heads
      /\ Cardinality(free \cup A) = Cardinality(free) + Cardinality(A)
  BY <1>6, <1>8, Fields, DisjointUnion
<1>10. /\ free \cup A \cup in_flight \in SUBSET Heads
       /\ Cardinality(free \cup A \cup in_flight)
            = Cardinality(free \cup A) + Cardinality(in_flight)
  BY <1>8, <1>9, Fields, DisjointUnion
<1>11. /\ free \cup A \cup in_flight \cup U \in SUBSET Heads
       /\ Cardinality(free \cup A \cup in_flight \cup U)
            = Cardinality(free \cup A \cup in_flight) + Cardinality(U)
  BY <1>7, <1>8, <1>10, DisjointUnion
<1>12. Cardinality(free) + Cardinality(A) + Cardinality(in_flight)
        + Cardinality(U) = QueueSize
  BY <1>2, <1>6, <1>7, PlaceTypes DEF Count
<1>13. Cardinality(free \cup A \cup in_flight \cup U) = Cardinality(Heads)
  BY <1>9, <1>10, <1>11, <1>12, FiniteSlots DEF Heads
<1>14. free \cup A \cup in_flight \cup U = Heads
  BY <1>11, <1>13, FiniteSlots, FS_Subset DEF Heads
<1> QED
  BY <1>3, <1>4, <1>5, <1>7, <1>12, <1>14, Zenon DEF BuffersConserved

(* Every buffer of the queue is in one place, whatever its size, the range *)
(* of its indexes and the interleaving of the device, the image, the host  *)
(* and the driver, and across resets (virtio_queue_peek(),                 *)
(* virtio_consume_desc(), VIRTIOBlockDevice::Reset()).                     *)
THEOREM BuffersCorrect == QueueSpec => []BuffersConserved
BY ConservedInitially, ConservedInductive, ConservedSuffices, PTL DEF QueueSpec

(* Every variable of the queue keeps its type: no index leaves its range   *)
(* and no more used buffers wait for a fence than the ring has slots.      *)
THEOREM QueueTyped == QueueSpec => []QueueTypeOK
<1>1. Conserved => QueueTypeOK
  BY DEF Conserved
<1> QED
  BY <1>1, ConservedInitially, ConservedInductive, PTL DEF QueueSpec

-----------------------------------------------------------------------------
(* The second invariant: the device learns of what the driver adds. *)

(* Which calls a queue sees; a queue in use has been set up. *)
Kinds ==
    /\ setup.kind = "request" =>
        host = "none" /\ call \in {"notify", "complete"}
    /\ setup.kind = "receive" =>
        /\ in_flight = {} /\ call # "complete"
        /\ step # "idle" => call \in {"room", "packet"}
        /\ step # "idle" /\ call = "packet" => host = "none"
    /\ queue.driver_ok => queue.ready

(* Between its two looks at the index: what it saw is what it published,   *)
(* or the driver is about to notify of more.                               *)
Seen ==
    /\ step = "publish" => setup.event_idx
    /\ step = "reread" /\ setup.event_idx => ring.avail_event = seen
    /\ step = "reread" /\ ~setup.event_idx /\ seen # ring.avail_idx
        => adding # "idle"

(* The driver will notify, or there is nothing to notify of. *)
Told ==
    IF setup.event_idx
    THEN \/ adding = "notify"
         \/ /\ ring.avail_event = queue.last_avail_idx
            /\ \/ ring.avail_idx = queue.last_avail_idx
               \/ /\ adding = "check"
                  /\ ring.avail_idx = Up(queue.last_avail_idx)
    ELSE adding # "idle" \/ ring.avail_idx = queue.last_avail_idx

(* The device is not looking at the available ring. *)
AtRest == \/ setup.kind = "request" /\ (step = "idle" \/ call = "complete")
          \/ setup.kind = "receive" /\ host = "blocked" /\ step = "idle"

ToldAtRest == Usable /\ AtRest => Told

Notified == Kinds /\ Seen /\ ToldAtRest

LEMMA KindIs == ASSUME QueueTypeOK PROVE setup.kind \in {"request", "receive"}
BY QueueAssumption DEF QueueTypeOK

(* Steps that leave the available ring and the device's call alone. *)
LEMMA QuietNotifies ==
    ASSUME Notified, ring'.avail_idx = ring.avail_idx,
           ring'.avail_event = ring.avail_event, device' = device,
           adding' = adding, setup' = setup
    PROVE  Notified'
<1>1. queue' = queue /\ step' = step /\ seen' = seen /\ call' = call
      /\ in_flight' = in_flight /\ host' = host
  BY DEF device
<1>2. Kinds'
  BY <1>1, Zenon DEF Notified, Kinds
<1>3. Seen'
  BY <1>1, Zenon DEF Notified, Seen
<1>4. (Usable' <=> Usable) /\ (AtRest' <=> AtRest)
  BY <1>1, Zenon DEF Usable, AtRest
<1>5. Told' <=> Told
  BY <1>1, Zenon DEF Told
<1>6. ToldAtRest'
  BY <1>4, <1>5, Zenon DEF Notified, ToldAtRest
<1> QED
  BY <1>2, <1>3, <1>6 DEF Notified

LEMMA DriversNotify ==
    ASSUME Conserved, Notified,
           StoreOut \/ Interrupt \/ Ack \/ Process \/ LookAgain \/ SetMask
    PROVE  Notified'
<1>1. QueueTypeOK
  BY DEF Conserved
<1>2. /\ ring'.avail_idx = ring.avail_idx
      /\ ring'.avail_event = ring.avail_event
  <2>1. CASE StoreOut
    BY <1>1, <2>1, Fields DEF StoreOut, RingState
  <2>2. CASE Interrupt
    BY <1>1, <2>2, BegunRing DEF Interrupt
  <2>3. CASE Ack
    BY <1>1, <2>3, BegunRing DEF Ack
  <2>4. CASE Process
    <3>1. \/ ring' = ring
          \/ ring' = [ring EXCEPT !.no_interrupt = FALSE,
                                 !.used_event = last_used]
      BY <2>4 DEF Process
    <3> QED
      BY <1>1, <3>1, Fields, Zenon DEF RingState
  <2>5. CASE LookAgain
    BY <1>1, <2>5, Fields DEF LookAgain, RingState
  <2>6. CASE SetMask
    BY <2>6 DEF SetMask
  <2> QED
    BY <2>1, <2>2, <2>3, <2>4, <2>5, <2>6
<1>3. device' = device /\ adding' = adding /\ setup' = setup
  BY DEF StoreOut, Interrupt, Ack, Process, LookAgain, SetMask, driver, bounds
<1> QED
  BY <1>2, <1>3, QuietNotifies

LEMMA PeekNotifies == ASSUME Conserved, Notified, Peek PROVE Notified'
<1>1. setup.kind \in {"request", "receive"} /\ call # "complete"
  BY KindIs DEF Conserved, Held, Peek
<1>2. /\ step = "peek" /\ step' \in {"idle", "publish", "reread"}
      /\ UNCHANGED <<ring, queue, call, in_flight, adding, setup>>
  BY DEF Peek, End, driver, bounds
<1>3. Kinds'
  BY <1>1, <1>2 DEF Notified, Kinds, Peek
<1>4. Seen'
  BY <1>2 DEF Notified, Seen, Peek, End
<1>5. ToldAtRest'
  <2>1. Usable' <=> Usable
    BY <1>2, Zenon DEF Usable
  <2>2. Usable => step' # "idle"
    BY DEF Peek
  <2> QED
    BY <1>1, <1>2, <2>1, <2>2 DEF ToldAtRest, AtRest
<1> QED
  BY <1>3, <1>4, <1>5 DEF Notified

LEMMA PublishNotifies == ASSUME Conserved, Notified, Publish PROVE Notified'
<1>1. /\ step = "publish" /\ step' = "reread" /\ setup.event_idx
      /\ UNCHANGED <<queue, seen, call, in_flight, host, adding, setup>>
  BY DEF Publish, driver, bounds, Notified, Seen
<1>2. ring'.avail_event = seen
  <2> DEFINE r == [ring EXCEPT !.avail_event = seen]
  <2>1. ring' = Fenced(r)
    BY DEF Publish
  <2>2. /\ r \in RingState /\ r.used_idx = ring.used_idx
        /\ r.avail_event = seen
    BY Fields, RingAvailEvent DEF Conserved
  <2> HIDE DEF r
  <2> QED
    BY <2>1, <2>2, FencedRing DEF Conserved
<1>3. call # "complete"
  BY <1>1 DEF Conserved, Held
<1>4. Kinds'
  BY <1>1 DEF Notified, Kinds
<1>5. Seen'
  BY <1>1, <1>2 DEF Seen
<1>6. ToldAtRest'
  BY <1>1, <1>3 DEF ToldAtRest, AtRest
<1> QED
  BY <1>4, <1>5, <1>6 DEF Notified

LEMMA RereadNotifies == ASSUME Conserved, Notified, Reread PROVE Notified'
<1>1. /\ step = "reread" /\ step' \in {"idle", "take"}
      /\ UNCHANGED <<ring, queue, seen, call, in_flight, adding, setup>>
      /\ host' = host \/ (host' = "blocked" /\ call = "room")
  BY DEF Reread, End, driver, bounds
<1>2. setup.kind \in {"request", "receive"} /\ call # "complete"
  BY <1>1, KindIs DEF Conserved, Held
<1>3. Kinds'
  BY <1>1, <1>2 DEF Notified, Kinds
<1>4. Seen'
  BY <1>1 DEF Seen
<1>5. CASE step' = "take"
  <2>1. ToldAtRest'
    BY <1>1, <1>2, <1>5 DEF ToldAtRest, AtRest
  <2> QED
    BY <1>3, <1>4, <2>1 DEF Notified
<1>6. CASE step' = "idle"
  <2>1. CASE setup.event_idx
    <3>1. ring.avail_idx = queue.last_avail_idx /\ ring.avail_event = seen
      BY <1>1, <1>6, <2>1 DEF Reread, Notified, Seen
    <3>2. nAvail = 0
      <4>1. AvailFrom = queue.last_avail_idx
        BY <1>1 DEF AvailFrom
      <4> QED
        BY <3>1, <4>1, Fields, GapIs DEF nAvail, Conserved
    <3>3. Gap(queue.last_avail_idx, seen) <= 0
      BY <1>1, <3>2 DEF Conserved, Held
    <3>4. queue.last_avail_idx = seen
      BY <3>3, Fields, GapIs DEF Conserved
    <3> QED
      BY <1>1, <2>1, <3>1, <3>4, <1>3, <1>4 DEF Told, ToldAtRest, Notified
  <2>2. CASE ~setup.event_idx
    <3>1. seen = queue.last_avail_idx
      BY <1>6, <2>2 DEF Reread
    <3>2. seen # ring.avail_idx => adding # "idle"
      BY <1>1, <2>2 DEF Notified, Seen
    <3> QED
      BY <1>1, <2>2, <3>1, <3>2, <1>3, <1>4 DEF Told, ToldAtRest, Notified
  <2> QED
    BY <2>1, <2>2
<1> QED
  BY <1>1, <1>5, <1>6

(* The device is in a call that looks at the ring again before it ends, or *)
(* that has found it not to be usable.                                     *)
LEMMA TakesNotify ==
    ASSUME Conserved, Notified, TakeRequest \/ TakeRoom \/ TakePacket
    PROVE  Notified'
<1>1. setup.kind \in {"request", "receive"} /\ QueueTypeOK
  BY KindIs DEF Conserved
<1>2. UNCHANGED <<call, setup>> /\ step = "take" /\ call # "complete"
      /\ step' \in {"idle", "consume", "pop"}
  BY DEF TakeRequest, TakeRoom, TakePacket, SetNeedsReset, RecvRequest, End,
     bounds, Conserved, Held
<1>3. /\ queue'.driver_ok = queue.driver_ok /\ queue'.ready = queue.ready
      /\ queue'.needs_reset \/ queue' = queue
  BY <1>1, NeedsResetType DEF TakeRequest, TakeRoom, TakePacket
<1>4. Seen'
  BY <1>2 DEF Seen
<1>5. Kinds'
  BY <1>1, <1>2, <1>3 DEF Notified, Kinds, TakeRequest, TakeRoom, TakePacket
<1>6. ToldAtRest'
  <2>1. CASE queue'.needs_reset
    BY <2>1 DEF ToldAtRest, Usable
  <2>2. CASE step' # "idle"
    BY <1>2, <2>2 DEF ToldAtRest, AtRest
  <2>3. CASE queue' = queue /\ step' = "idle"
    <3>1. call # "notify" \/ queue'.needs_reset
      BY <1>1, <1>2, <2>3, NeedsResetType
         DEF TakeRequest, TakeRoom, TakePacket, RecvRequest
    <3>2. queue'.needs_reset \/ (setup.kind = "receive" /\ host' # "blocked")
      BY <1>1, <1>2, <3>1
         DEF Notified, Kinds, TakeRequest, TakeRoom, TakePacket
    <3> QED
      BY <1>2, <3>2 DEF ToldAtRest, AtRest, Usable
  <2> QED
    BY <1>3, <2>1, <2>2, <2>3
<1> QED
  BY <1>4, <1>5, <1>6 DEF Notified

LEMMA ConsumeNotifies == ASSUME Conserved, Notified, Consume PROVE Notified'
<1>1. /\ step = "consume" /\ step' = "wanted"
      /\ UNCHANGED <<queue, call, in_flight, host, adding, setup>>
  BY DEF Consume, driver, bounds
<1>2. /\ ring'.avail_idx = ring.avail_idx
      /\ ring'.avail_event = ring.avail_event
  BY Fields DEF Conserved, Consume, RingState
<1>3. Kinds' /\ Seen'
  BY <1>1 DEF Notified, Kinds, Seen
<1>4. (Usable' <=> Usable) /\ (AtRest' => AtRest) /\ (Told' <=> Told)
  BY <1>1, <1>2 DEF Usable, AtRest, Told
<1> QED
  BY <1>3, <1>4 DEF Notified, ToldAtRest

LEMMA WantedNotifies == ASSUME Conserved, Notified, Wanted PROVE Notified'
<1>1. /\ step = "wanted" /\ Signal
      /\ UNCHANGED <<queue, call, host, adding, setup, last_used>>
  BY DEF Wanted, driver, bounds
<1>2. \/ /\ call = "complete" /\ step' = "idle"
         /\ in_flight' = in_flight \ {desc}
      \/ call # "complete" /\ step' = "pop" /\ in_flight' = in_flight
  BY <1>1 DEF Signal, End
<1>3. /\ ring'.avail_idx = ring.avail_idx
      /\ ring'.avail_event = ring.avail_event
  BY <1>1, SignalRing
<1>4. setup.kind \in {"request", "receive"}
  BY KindIs DEF Conserved
<1>5. Kinds' /\ Seen'
  BY <1>1, <1>2, <1>4 DEF Notified, Kinds, Seen
<1>6. AtRest' => AtRest
  BY <1>1, <1>2, <1>4 DEF AtRest, Notified, Kinds
<1>7. (Usable' <=> Usable) /\ (Told' <=> Told)
  BY <1>1, <1>3 DEF Usable, Told
<1> QED
  BY <1>5, <1>6, <1>7 DEF Notified, ToldAtRest

LEMMA PopNotifies == ASSUME Conserved, Notified, Pop PROVE Notified'
<1>1. /\ step = "pop" /\ \/ call = "notify" /\ step' = "peek"
                         \/ call = "packet" /\ step' = "idle"
      /\ UNCHANGED <<call, in_flight, host, setup>>
  BY DEF Pop, End, bounds
<1>2. queue'.driver_ok = queue.driver_ok /\ queue'.ready = queue.ready
  BY Fields DEF Pop, Conserved, QueueState
<1>3. setup.kind \in {"request", "receive"}
  BY KindIs DEF Conserved
<1>4. Kinds' /\ Seen'
  BY <1>1, <1>2, <1>3 DEF Notified, Kinds, Seen
<1>5. ~AtRest'
  BY <1>1, <1>3 DEF AtRest, Notified, Kinds
<1> QED
  BY <1>4, <1>5 DEF Notified, ToldAtRest

LEMMA CallsNotify ==
    ASSUME Conserved, Notified, Complete \/ Prepare \/ Dispatch
    PROVE  Notified'
<1>1. /\ step = "idle" /\ step' \in {"consume", "peek"}
      /\ UNCHANGED <<ring, queue, in_flight, adding, setup>>
  BY DEF Complete, Prepare, Dispatch, Begin, driver, bounds
<1>2. setup.kind \in {"request", "receive"}
  BY KindIs DEF Conserved
<1>3. Kinds' /\ Seen'
  BY <1>1, <1>2 DEF Notified, Kinds, Seen, Complete, Prepare, Dispatch, Begin
<1>4. AtRest' => AtRest
  BY <1>1, <1>2 DEF AtRest, Notified, Kinds, Complete, Prepare, Dispatch, Begin
<1>5. (Usable' <=> Usable) /\ (Told' <=> Told)
  BY <1>1 DEF Usable, Told
<1> QED
  BY <1>3, <1>4, <1>5 DEF Notified, ToldAtRest

(* The driver starts the device, or notifies it. *)
LEMMA StartsNotify ==
    ASSUME Conserved, Notified, SetReady \/ DriverOk \/ Notify
    PROVE  Notified'
<1>1. setup.kind \in {"request", "receive"} /\ queue \in QueueState
  BY KindIs, Fields DEF Conserved
<1>2. CASE SetReady
  <2>1. /\ queue'.driver_ok = queue.driver_ok /\ queue'.ready /\ ~queue.ready
        /\ step = "idle" /\ UNCHANGED <<step, call, in_flight, host, setup>>
    BY <1>1, <1>2 DEF SetReady, QueueState, bounds
  <2>2. ~Usable'
    BY <2>1 DEF Usable, Notified, Kinds
  <2>3. Kinds' /\ Seen'
    BY <2>1 DEF Notified, Kinds, Seen
  <2> QED
    BY <2>2, <2>3 DEF Notified, ToldAtRest
<1>3. CASE DriverOk
  <2>1. /\ queue'.ready = queue.ready /\ queue.ready
        /\ queue'.needs_reset = queue.needs_reset
        /\ step = "idle" /\ UNCHANGED <<in_flight, setup>>
        /\ NotifyAny(~queue.needs_reset)
    BY <1>1, <1>3, Zenon DEF DriverOk, QueueState, bounds
  <2>2. CASE queue.needs_reset
    <3>1. UNCHANGED <<step, call, host>> /\ ~Usable'
      BY <2>1, <2>2 DEF NotifyAny, Usable
    <3>2. Kinds' /\ Seen'
      BY <2>1, <3>1 DEF Notified, Kinds, Seen
    <3> QED
      BY <3>1, <3>2 DEF Notified, ToldAtRest
  <2>3. CASE ~queue.needs_reset
    <3>1. \/ /\ setup.kind = "request" /\ call' = "notify" /\ step' = "peek"
             /\ host' = host
          \/ /\ setup.kind = "receive" /\ call' = call /\ step' = step
             /\ host' # "blocked"
      BY <1>1, <2>1, <2>3 DEF NotifyAny, Begin, TargetReady
    <3>2. Kinds' /\ Seen'
      BY <1>1, <2>1, <3>1 DEF Notified, Kinds, Seen
    <3>3. ~AtRest'
      BY <2>1, <3>1 DEF AtRest
    <3> QED
      BY <3>2, <3>3 DEF Notified, ToldAtRest
  <2> QED
    BY <2>2, <2>3
<1>4. CASE Notify
  <2>1. /\ step = "idle" /\ UNCHANGED <<ring, queue, in_flight, setup>>
        /\ NotifyAny(Usable) /\ (Usable' <=> Usable)
    BY <1>4 DEF Notify, bounds, Usable
  <2>2. CASE ~Usable
    <3>1. UNCHANGED <<step, call, host>>
      BY <2>1, <2>2 DEF NotifyAny
    <3>2. Kinds' /\ Seen'
      BY <2>1, <3>1 DEF Notified, Kinds, Seen
    <3> QED
      BY <2>1, <2>2, <3>2 DEF Notified, ToldAtRest
  <2>3. CASE Usable
    <3>1. \/ /\ setup.kind = "request" /\ call' = "notify" /\ step' = "peek"
             /\ host' = host
          \/ /\ setup.kind = "receive" /\ call' = call /\ step' = step
             /\ host' # "blocked"
      BY <1>1, <2>1, <2>3 DEF NotifyAny, Begin, TargetReady
    <3>2. Kinds' /\ Seen'
      BY <1>1, <2>1, <3>1 DEF Notified, Kinds, Seen
    <3>3. ~AtRest'
      BY <2>1, <3>1 DEF AtRest
    <3> QED
      BY <3>2, <3>3 DEF Notified, ToldAtRest
  <2> QED
    BY <2>2, <2>3
<1> QED
  BY <1>2, <1>3, <1>4

LEMMA ResetNotifies == ASSUME Conserved, Notified, Reset PROVE Notified'
<1>1. /\ step = "idle" /\ queue' = ResetQueue /\ in_flight' = {}
      /\ UNCHANGED <<step, call, host, setup>>
  BY DEF Reset, CancelRequests
<1>2. Kinds' /\ Seen'
  BY <1>1, ResetQueueType DEF Notified, Kinds, Seen
<1>3. ~Usable'
  BY <1>1, ResetQueueType DEF Usable
<1> QED
  BY <1>2, <1>3 DEF Notified, ToldAtRest

LEMMA AddNotifies == ASSUME Conserved, Notified, Add PROVE Notified'
<1>1. /\ adding = "idle" /\ adding' = "check" /\ device' = device
      /\ setup' = setup
  BY DEF Add
<1>2. UNCHANGED <<queue, step, seen, call, in_flight, host>>
  BY <1>1 DEF device
<1>3. /\ ring'.avail_idx = Up(ring.avail_idx)
      /\ ring'.avail_event = ring.avail_event
  <2>1. PICK d, b : ring' = [ring EXCEPT !.avail[Slot(ring.avail_idx)] = d,
                                         !.avail_idx = Up(ring.avail_idx),
                                         !.bad = b]
    BY Zenon DEF Add
  <2> QED
    BY <2>1, Fields DEF Conserved, RingState
<1>4. Kinds' /\ Seen'
  BY <1>1, <1>2, <1>3 DEF Notified, Kinds, Seen
<1>5. (Usable' <=> Usable) /\ (AtRest' <=> AtRest)
  BY <1>1, <1>2 DEF Usable, AtRest
<1>6. Told => Told'
  BY <1>1, <1>2, <1>3 DEF Told
<1> QED
  BY <1>4, <1>5, <1>6 DEF Notified, ToldAtRest

LEMMA CheckNotifies == ASSUME Conserved, Notified, Check PROVE Notified'
<1>1. /\ adding = "check" /\ device' = device /\ ring' = ring
      /\ setup' = setup
      /\ adding' = IF setup.event_idx /\ Up(ring.avail_event) # ring.avail_idx
                   THEN "idle" ELSE "notify"
  BY DEF Check, bounds
<1>2. UNCHANGED <<queue, step, seen, call, in_flight, host>>
  BY <1>1 DEF device
<1>3. Kinds' /\ Seen'
  BY <1>1, <1>2 DEF Notified, Kinds, Seen
<1>4. (Usable' <=> Usable) /\ (AtRest' <=> AtRest)
  BY <1>1, <1>2 DEF Usable, AtRest
<1>5. Told => Told'
  BY <1>1, <1>2 DEF Told
<1> QED
  BY <1>3, <1>4, <1>5 DEF Notified, ToldAtRest

LEMMA NotifiedInitially == QueueInit => Notified
<1> SUFFICES ASSUME QueueInit PROVE Notified
  OBVIOUS
<1>1. Kinds /\ Seen
  BY ResetQueueType DEF QueueInit, Kinds, Seen
<1>2. ~Usable
  BY ResetQueueType DEF QueueInit, Usable
<1> QED
  BY <1>1, <1>2 DEF Notified, ToldAtRest

LEMMA NotifiedInductive ==
    Conserved /\ Notified /\ [QueueNext]_queueVars => Notified'
<1> SUFFICES ASSUME Conserved, Notified, [QueueNext]_queueVars
             PROVE  Notified'
  OBVIOUS
<1>1. CASE UNCHANGED queueVars
  BY <1>1, QuietNotifies DEF queueVars, driver, bounds
<1>2. CASE QueueNext
  BY <1>2, DriversNotify, PeekNotifies, PublishNotifies, RereadNotifies,
     TakesNotify, ConsumeNotifies, WantedNotifies, PopNotifies, CallsNotify,
     StartsNotify, ResetNotifies, AddNotifies, CheckNotifies
     DEF QueueNext
<1> QED
  BY <1>1, <1>2

LEMMA NotifiedSuffices == Conserved /\ Notified => NoLostNotify
<1> SUFFICES ASSUME Conserved, Notified PROVE NoLostNotify
  OBVIOUS
<1>1. /\ setup.kind \in {"request", "receive"}
      /\ adding \in {"idle", "check", "notify"}
  BY KindIs DEF Conserved, QueueTypeOK
<1> QED
  BY <1>1 DEF Notified, ToldAtRest, AtRest, Told, NoLostNotify

(* With the event index or without it, no available buffer waits for a     *)
(* device that does not know of it: the index is read again after what was *)
(* seen has been published (virtio_queue_peek()), the queues are looked at *)
(* when the driver is ready (virtio_write_status()), and a host that found *)
(* no buffer is woken (TapEthernet::TargetReady()).                        *)
THEOREM NotifyCorrect == QueueSpec => []NoLostNotify
BY ConservedInitially, ConservedInductive, NotifiedInitially,
   NotifiedInductive, NotifiedSuffices, PTL
   DEF QueueSpec

-----------------------------------------------------------------------------
(* The third invariant: the driver learns of what the device hands back.   *)
(* A driver that does without interrupts for a while says so through the   *)
(* event index: the flag is the case the queue_flags run is about.         *)

InterruptsAsked == setup.suppress => setup.event_idx

IrqUp == line \/ msix.message \/ msix.pba

(* An index that is not out yet is followed by the decision on the         *)
(* interrupt; a driver that sleeps has asked for the next one.             *)
Asked ==
    /\ pending # 0 => pending = 1 /\ step = "wanted"
    /\ ~setup.event_idx => ~ring.no_interrupt
    /\ setup.event_idx /\ taking \in {"recheck", "sleep"}
        => ring.used_event = last_used

Coming ==
    taking = "sleep" =>
        \/ IrqUp
        \/ ring.used_idx = last_used
        \/ /\ step = "wanted"
           /\ setup.event_idx => ring.used_idx = Up(last_used) /\ pending = 0

Interrupts == Asked /\ Coming

(* Steps that leave the used ring and the driver's side of it alone: an    *)
(* interrupt that is up stays up.                                          *)
LEMMA QuietInterrupts ==
    ASSUME Interrupts, pending' = pending, setup' = setup,
           step' = step \/ step # "wanted",
           ring'.no_interrupt = ring.no_interrupt,
           ring'.used_event = ring.used_event,
           ring'.used_idx = ring.used_idx,
           taking' = taking, last_used' = last_used, IrqUp => IrqUp'
    PROVE  Interrupts'
<1>1. Asked'
  BY DEF Interrupts, Asked
<1>2. Coming'
  BY DEF Interrupts, Coming
<1> QED
  BY <1>1, <1>2 DEF Interrupts

LEMMA RaiseIrqUp ==
    ASSUME QueueTypeOK, NEW c \in {"used", "config"}, RaiseIrq(c)
    PROVE  IrqUp'
BY RaiseIrqType DEF IrqUp

LEMMA SameIrqUp == ASSUME UNCHANGED irq PROVE IrqUp' <=> IrqUp
BY Zenon DEF irq, IrqUp

(* The device, until it hands a buffer back. *)
LEMMA CallsInterrupt ==
    ASSUME Conserved, Interrupts,
           \/ Peek \/ Publish \/ Reread
           \/ TakeRequest \/ TakeRoom \/ TakePacket
           \/ Consume \/ Pop \/ Complete \/ Prepare \/ Dispatch
           \/ SetReady \/ DriverOk \/ Notify \/ Check \/ Add
    PROVE  Interrupts'
<1>1. QueueTypeOK
  BY DEF Conserved
<1>2. CASE \/ Peek \/ Reread \/ TakeRequest \/ TakeRoom \/ TakePacket
           \/ Pop \/ Complete \/ Prepare \/ Dispatch
           \/ SetReady \/ DriverOk \/ Notify \/ Check
  <2>1. /\ UNCHANGED <<ring, pending, setup, taking, last_used>>
        /\ step' = step \/ step # "wanted"
    BY <1>2
       DEF Peek, Reread, TakeRequest, TakeRoom, TakePacket, Pop, Complete,
           Begin, Prepare, Dispatch, SetReady, DriverOk, Notify, Check, device,
           driver, bounds
  <2>2. IrqUp => IrqUp'
    <3>1. CASE SetNeedsReset
      BY <1>1, <3>1, RaiseIrqUp, SameIrqUp DEF SetNeedsReset
    <3>2. CASE UNCHANGED irq
      BY <3>2, SameIrqUp
    <3> QED
      BY <1>2, <3>1, <3>2
         DEF Peek, Reread, TakeRequest, TakeRoom, TakePacket, Pop, Complete,
             Prepare, Dispatch, SetReady, DriverOk, Notify, Check
  <2> QED
    BY <2>1, <2>2, QuietInterrupts
<1>3. CASE Publish
  <2> DEFINE r == [ring EXCEPT !.avail_event = seen]
  <2>1. /\ step = "publish" /\ ring' = Fenced(r) /\ pending' = 0
        /\ UNCHANGED <<irq, setup, taking, last_used>>
    BY <1>3 DEF Publish, driver, bounds
  <2>2. /\ r \in RingState /\ r.used_idx = ring.used_idx
        /\ r.no_interrupt = ring.no_interrupt
        /\ r.used_event = ring.used_event
    BY <1>1, Fields, RingAvailEvent
  <2> HIDE DEF r
  <2>3. pending = 0
    BY <2>1 DEF Interrupts, Asked
  <2>4. /\ ring'.used_idx = ring.used_idx
        /\ ring'.no_interrupt = ring.no_interrupt
        /\ ring'.used_event = ring.used_event
    BY <1>1, <2>1, <2>2, <2>3, FencedRing, Fields, PlusZero
  <2> QED
    BY <2>1, <2>3, <2>4, SameIrqUp, QuietInterrupts
<1>4. CASE Consume
  <2>1. /\ step = "consume" /\ step' = "wanted" /\ pending' = pending + 1
        /\ UNCHANGED <<irq, setup, taking, last_used>>
    BY <1>4 DEF Consume, driver, bounds
  <2>2. /\ ring'.used_idx = ring.used_idx
        /\ ring'.no_interrupt = ring.no_interrupt
        /\ ring'.used_event = ring.used_event
    BY <1>1, <1>4, Fields DEF Consume, RingState
  <2>3. pending = 0
    BY <2>1 DEF Interrupts, Asked
  <2>4. Asked'
    BY <2>1, <2>2, <2>3 DEF Interrupts, Asked
  <2>5. Coming'
    BY <2>1, <2>2, SameIrqUp DEF Interrupts, Coming
  <2> QED
    BY <2>4, <2>5 DEF Interrupts
<1>5. CASE Add
  <2>1. UNCHANGED <<pending, device, irq, setup, taking, last_used>>
    BY <1>5, Zenon DEF Add
  <2>2. /\ ring'.used_idx = ring.used_idx
        /\ ring'.no_interrupt = ring.no_interrupt
        /\ ring'.used_event = ring.used_event
    <3>1. PICK d, b : ring' = [ring EXCEPT !.avail[Slot(ring.avail_idx)] = d,
                                           !.avail_idx = Up(ring.avail_idx),
                                           !.bad = b]
      BY <1>5, Zenon DEF Add
    <3> QED
      BY <1>1, <3>1, Fields DEF RingState
  <2>3. step' = step
    BY <2>1 DEF device
  <2> QED
    BY <2>1, <2>2, <2>3, SameIrqUp, QuietInterrupts
<1> QED
  BY <1>2, <1>3, <1>4, <1>5

LEMMA StoreOutInterrupts ==
    ASSUME Conserved, Interrupts, StoreOut PROVE Interrupts'
<1>1. /\ pending = 1 /\ pending' = 0 /\ step = "wanted"
      /\ UNCHANGED <<step, irq, setup, taking, last_used>>
  BY Fields DEF StoreOut, Interrupts, Asked, Conserved, device, driver, bounds
<1>2. /\ ring'.used_idx = Up(ring.used_idx)
      /\ ring'.no_interrupt = ring.no_interrupt
      /\ ring'.used_event = ring.used_event
  BY Fields DEF Conserved, StoreOut, RingState
<1>3. Asked'
  BY <1>1, <1>2 DEF Interrupts, Asked
<1>4. Coming'
  BY <1>1, <1>2, SameIrqUp DEF Interrupts, Coming
<1> QED
  BY <1>3, <1>4 DEF Interrupts

(* The event index is reached with the buffer after it. *)
LEMMA EventReached ==
    ASSUME NEW i \in Indexes
    PROVE  (Up(i) - i - 1) % IdxWrap < 1
<1>1. CASE i = IdxWrap - 1
  <2>1. Up(i) - i - 1 = -IdxWrap
    BY <1>1, UpIs, Sizes DEF Indexes
  <2>2. (-IdxWrap) % IdxWrap = 0
    BY Sizes, SmallMod
  <2> QED
    BY <2>1, <2>2
<1>2. CASE i # IdxWrap - 1
  <2>1. Up(i) - i - 1 = 0
    BY <1>2, UpIs, Sizes DEF Indexes
  <2>2. 0 % IdxWrap = 0
    BY Sizes, SmallMod
  <2> QED
    BY <2>1, <2>2
<1> QED
  BY <1>1, <1>2

LEMMA WantedInterrupts ==
    ASSUME Conserved, Interrupts, Wanted PROVE Interrupts'
<1> DEFINE new == (ring.used_idx + pending) % IdxWrap
<1>1. /\ step = "wanted" /\ Signal /\ (setup.event_idx => pending = 0)
      /\ UNCHANGED <<setup, taking, last_used>>
  BY DEF Wanted, driver, bounds
<1>2. QueueTypeOK /\ pending \in Nat /\ ring.used_idx \in Indexes
      /\ last_used \in Indexes
  BY Fields DEF Conserved
<1>3. /\ ring'.no_interrupt = ring.no_interrupt
      /\ ring'.used_event = ring.used_event
  BY <1>1, SignalRing
<1>4. CASE NotificationWanted(new)
  <2>1. RaiseIrq("used") /\ pending' = 0
    BY <1>1, <1>4 DEF Signal
  <2>2. IrqUp'
    BY <1>2, <2>1, RaiseIrqUp
  <2>3. Asked'
    BY <1>1, <1>3, <2>1 DEF Interrupts, Asked
  <2> QED
    BY <2>2, <2>3 DEF Interrupts, Coming
<1>5. CASE ~NotificationWanted(new)
  <2>1. UNCHANGED <<irq, ring, pending>>
    BY <1>1, <1>5 DEF Signal
  <2>2. setup.event_idx
    BY <1>5 DEF NotificationWanted, Interrupts, Asked
  <2>3. pending = 0 /\ new = ring.used_idx
    BY <1>1, <1>2, <2>2, PlusZero DEF Plus
  <2>4. Asked'
    BY <1>1, <2>1, <2>3 DEF Interrupts, Asked
  <2>5. ASSUME taking = "sleep" PROVE ring.used_idx # Up(last_used)
    <3>1. ring.used_event = last_used
      BY <2>2, <2>5 DEF Interrupts, Asked
    <3>2. ~((ring.used_idx - last_used - 1) % IdxWrap < 1)
      BY <1>5, <2>2, <2>3, <3>1, Zenon DEF NotificationWanted
    <3> QED
      BY <1>2, <3>2, EventReached
  <2>6. Coming'
    BY <1>1, <2>1, <2>2, <2>5, SameIrqUp DEF Interrupts, Coming
  <2> QED
    BY <2>4, <2>6 DEF Interrupts
<1> QED
  BY <1>4, <1>5

LEMMA ResetInterrupts == ASSUME Conserved, Interrupts, Reset PROVE Interrupts'
<1>1. /\ ring' = EmptyRing /\ last_used' = 0 /\ pending' = pending
      /\ step = "idle" /\ step' = step /\ setup' = setup
  BY DEF Reset
<1>2. Asked' /\ Coming'
  BY <1>1, EmptyRingType DEF Interrupts, Asked, Coming
<1> QED
  BY <1>2 DEF Interrupts

LEMMA DriversInterrupt ==
    ASSUME Conserved, Interrupts, InterruptsAsked,
           Interrupt \/ Ack \/ Process \/ LookAgain \/ SetMask
    PROVE  Interrupts'
<1>1. QueueTypeOK /\ ring \in RingState
  BY Fields DEF Conserved
<1>2. UNCHANGED <<pending, step, setup>>
  BY DEF Interrupt, Ack, Process, LookAgain, SetMask, device, bounds
<1>3. CASE Begun
  <2>1. ring'.no_interrupt = setup.suppress /\ taking' = "process"
    BY <1>1, <1>3, BegunRing
  <2>2. Asked' /\ Coming'
    BY <1>2, <2>1 DEF Interrupts, Asked, Coming, InterruptsAsked
  <2> QED
    BY <2>2 DEF Interrupts
<1>4. CASE Interrupt /\ taking' = "ack" /\ ring' = ring
  <2>1. Asked' /\ Coming'
    BY <1>2, <1>4 DEF Interrupts, Asked, Coming
  <2> QED
    BY <2>1 DEF Interrupts
<1>5. CASE Process
  <2>1. CASE ring.used_idx # last_used
    <3>1. taking' = "process" /\ ring' = ring
      BY <1>5, <2>1 DEF Process
    <3>2. Asked' /\ Coming'
      BY <1>2, <3>1 DEF Interrupts, Asked, Coming
    <3> QED
      BY <3>2 DEF Interrupts
  <2>2. CASE ring.used_idx = last_used
    <3>1. /\ ring' = [ring EXCEPT !.no_interrupt = FALSE,
                                  !.used_event = last_used]
          /\ taking' = "recheck" /\ last_used' = last_used
      BY <1>5, <2>2 DEF Process
    <3>2. ~ring'.no_interrupt /\ ring'.used_event = last_used
      BY <1>1, <3>1 DEF RingState
    <3>3. Asked' /\ Coming'
      BY <1>2, <3>1, <3>2 DEF Interrupts, Asked, Coming
    <3> QED
      BY <3>3 DEF Interrupts
  <2> QED
    BY <2>1, <2>2
<1>6. CASE LookAgain
  <2>1. /\ taking = "recheck" /\ last_used' = last_used
        /\ taking' = IF ring.used_idx # last_used THEN "process" ELSE "sleep"
        /\ ring' = [ring EXCEPT !.no_interrupt =
                        setup.suppress /\ ring.used_idx # last_used]
    BY <1>6 DEF LookAgain
  <2>2. /\ ring'.no_interrupt = (setup.suppress /\ ring.used_idx # last_used)
        /\ ring'.used_event = ring.used_event
        /\ ring'.used_idx = ring.used_idx
    BY <1>1, <2>1 DEF RingState
  <2>3. Asked'
    BY <1>2, <2>1, <2>2, Zenon DEF Interrupts, Asked, InterruptsAsked
  <2>4. Coming'
    BY <2>1, <2>2 DEF Coming
  <2> QED
    BY <2>3, <2>4 DEF Interrupts
<1>7. CASE SetMask
  <2>1. UNCHANGED <<ring, line, taking, last_used>>
    BY <1>7 DEF SetMask, driver
  <2>2. msix.message \/ msix.pba => msix'.message \/ msix'.pba
    BY <1>1, <1>7 DEF SetMask, Sent, QueueTypeOK, MsixState
  <2>3. IrqUp => IrqUp'
    BY <2>1, <2>2 DEF IrqUp
  <2> QED
    BY <1>2, <2>1, <2>3, QuietInterrupts
<1> QED
  BY <1>3, <1>4, <1>5, <1>6, <1>7 DEF Interrupt, Ack

LEMMA InterruptsInitially == QueueInit => Interrupts
<1> SUFFICES ASSUME QueueInit PROVE Interrupts
  OBVIOUS
<1>1. Asked /\ Coming
  BY EmptyRingType DEF QueueInit, Asked, Coming
<1> QED
  BY <1>1 DEF Interrupts

LEMMA SetupStays == [QueueNext]_queueVars => setup' = setup
<1> SUFFICES ASSUME [QueueNext]_queueVars PROVE setup' = setup
  OBVIOUS
<1>1. CASE UNCHANGED queueVars
  BY <1>1 DEF queueVars, bounds
<1>2. CASE QueueNext
  BY <1>2, Zenon
     DEF QueueNext, StoreOut, Peek, Publish, Reread, TakeRequest, TakeRoom,
         TakePacket, Consume, Wanted, Pop, Complete, Prepare, Dispatch,
         SetReady, DriverOk, Reset, Add, Check, Notify, Interrupt, Ack,
         Process, LookAgain, SetMask, bounds
<1> QED
  BY <1>1, <1>2

LEMMA InterruptsInductive ==
    Conserved /\ Interrupts /\ InterruptsAsked /\ [QueueNext]_queueVars
        => Interrupts' /\ InterruptsAsked'
<1> SUFFICES ASSUME Conserved, Interrupts, InterruptsAsked,
                    [QueueNext]_queueVars
             PROVE  Interrupts' /\ InterruptsAsked'
  OBVIOUS
<1>1. InterruptsAsked'
  BY SetupStays DEF InterruptsAsked
<1>2. CASE UNCHANGED queueVars
  <2>1. Interrupts'
    BY <1>2, SameIrqUp, QuietInterrupts DEF queueVars, device, driver, bounds
  <2> QED
    BY <1>1, <2>1
<1>3. CASE QueueNext
  BY <1>1, <1>3, CallsInterrupt, StoreOutInterrupts, WantedInterrupts,
     ResetInterrupts, DriversInterrupt
     DEF QueueNext
<1> QED
  BY <1>2, <1>3

LEMMA InterruptsSuffice == Interrupts => NoLostInterrupt
BY DEF Interrupts, Coming, IrqUp, NoLostInterrupt, InterruptComing

(* No used buffer waits for a driver that sleeps: the index is out before  *)
(* the driver's event index is read (virtio_consume_desc()), and a mask    *)
(* holds an interrupt back without losing it (PCIMsixState).               *)
THEOREM InterruptCorrect ==
    QueueSpec /\ InterruptsAsked => []NoLostInterrupt
BY ConservedInitially, ConservedInductive, InterruptsInitially,
   InterruptsInductive, InterruptsSuffice, PTL
   DEF QueueSpec

=============================================================================
