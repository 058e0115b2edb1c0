---------------------------- MODULE EventLoopProofs ----------------------------
(* For any number of threads and sources: the wake protocol of EventLoop   *)
(* loses no wakeup, and the loop never sleeps on posted work.  For any     *)
(* timers and any clock: the wait the loop is in ends in time for every    *)
(* armed timer, though Arm() wakes the loop only sometimes.                *)
EXTENDS EventLoop, LoopTimer, NaturalsInduction, WellFoundedInduction, TLAPS

(* NoLostWakeup is not inductive: it needs the account of who owes the     *)
(* pipe a byte (WakeToken), and that a wake since the preparation left     *)
(* fWakePending set, because only a wait that returned clears it.          *)
OwedPending == lpc \in {"prepare", "select"} /\ owed => fWakePending

(* Work posted to a source that is already prepared. *)
WorkAnnounced ==
    \A s \in Sources :
        lpc \in {"prepare", "select"} /\ posted[s] /\ s \notin todo =>
            \/ zero \/ fWakePending
            \/ \E t \in Threads : pc[t] = "exchange"

SelectAllPrepared == lpc = "select" => todo = {}

(* A loop that is not joinable has no thread in the middle of a wait. *)
NotJoinable == pc[Main] = "idle" => lpc = "exit"

IInv == /\ TypeOK /\ NotJoinable /\ WakeToken /\ OwedPending /\ WorkAnnounced
        /\ SelectAllPrepared

(* The variables keep their types: the pipe because only one thread ever   *)
(* writes to it at a time, when it is empty.                               *)
LEMMA TypeStep == TypeOK /\ WakeToken /\ [Next]_vars => TypeOK'
<1> SUFFICES ASSUME TypeOK, WakeToken, [Next]_vars PROVE TypeOK'
  OBVIOUS
<1> USE DEF TypeOK, LoopPcs, Threads
<1>1. CASE Start BY <1>1 DEF Start
<1>2. CASE Stop BY <1>2 DEF Stop
<1>3. CASE Join BY <1>3 DEF Join
<1>4. ASSUME NEW w \in Wakers, NEW s \in Sources, Post(w, s) PROVE TypeOK'
  BY <1>4 DEF Post
<1>5. ASSUME NEW t \in Threads, Exchange(t) PROVE TypeOK'
  BY <1>5 DEF Exchange, WakeReturns
<1>6. ASSUME NEW t \in Threads, Write(t) PROVE TypeOK'
  <2>1. pipe = 0 BY <1>6 DEF Write, WakeToken, Writing
  <2> QED BY <1>6, <2>1 DEF Write, WakeReturns
<1>7. CASE WaitStep
  <2>1. CASE Top BY <2>1 DEF Top
  <2>2. CASE UnlockPrepare BY <2>2 DEF UnlockPrepare
  <2>3. CASE SelectReady BY <2>3 DEF SelectReady
  <2>4. CASE Drain BY <2>4 DEF Drain
  <2>5. CASE ClearPending BY <2>5 DEF ClearPending
  <2>6. CASE UnlockDispatch BY <2>6 DEF UnlockDispatch
  <2>7. ASSUME NEW s \in Sources, Prepare(s) PROVE TypeOK'
    BY <2>7 DEF Prepare
  <2>8. ASSUME NEW s \in Sources, Dispatch(s) PROVE TypeOK'
    BY <2>8 DEF Dispatch
  <2> QED BY <1>7, <2>1, <2>2, <2>3, <2>4, <2>5, <2>6, <2>7, <2>8 DEF WaitStep
<1>8. CASE LockPrepare BY <1>8 DEF LockPrepare
<1>9. CASE LockDispatch BY <1>9 DEF LockDispatch
<1>10. CASE SelectOther BY <1>10 DEF SelectOther
<1>11. CASE UNCHANGED vars BY <1>11 DEF vars
<1> QED
  BY <1>1, <1>2, <1>3, <1>4, <1>5, <1>6, <1>7, <1>8, <1>9, <1>10, <1>11 DEF Next

(* Only Main changes whether the loop is joinable, and it joins only a     *)
(* thread that has ended.                                                  *)
LEMMA NotJoinableStep ==
    TypeOK /\ NotJoinable /\ [Next]_vars => NotJoinable'
<1> SUFFICES ASSUME TypeOK, NotJoinable, [Next]_vars PROVE NotJoinable'
  OBVIOUS
<1> USE ThreadsAssumption DEF TypeOK, Threads, NotJoinable
<1>1. CASE Start \/ Stop \/ Join BY <1>1 DEF Start, Stop, Join
<1>2. ASSUME NEW w \in Wakers, NEW s \in Sources, Post(w, s) PROVE NotJoinable'
  BY <1>2 DEF Post
<1>3. ASSUME NEW t \in Threads, Exchange(t) \/ Write(t) PROVE NotJoinable'
  BY <1>3 DEF Exchange, Write, WakeReturns
<1>4. CASE WaitStep \/ LockPrepare \/ LockDispatch \/ SelectOther
  BY <1>4 DEF WaitStep, Top, UnlockPrepare, SelectReady, Drain, ClearPending,
              UnlockDispatch, Prepare, Dispatch, LockPrepare, LockDispatch,
              SelectOther
<1>5. CASE UNCHANGED vars BY <1>5 DEF vars
<1> QED BY <1>1, <1>2, <1>3, <1>4, <1>5 DEF Next

(* One byte per set of fWakePending: kept by Exchange, Write, Drain and    *)
(* ClearPending; no other step touches the flag, the pipe or a writer.     *)
LEMMA TokenStep ==
    TypeOK /\ NotJoinable /\ WakeToken /\ [Next]_vars => WakeToken'
<1> SUFFICES ASSUME TypeOK, NotJoinable, WakeToken, [Next]_vars
             PROVE WakeToken'
  OBVIOUS
<1> USE ThreadsAssumption DEF TypeOK
<1>1. CASE Start
  <2>1. Writing' = Writing BY <1>1 DEF Start, Writing, Threads
  <2> QED BY <1>1, <2>1 DEF Start, WakeToken, NotJoinable
<1>2. CASE Stop \/ Join
  <2>1. Writing' = Writing BY <1>2 DEF Stop, Join, Writing, Threads
  <2> QED BY <1>2, <2>1 DEF Stop, Join, WakeToken
<1>3. ASSUME NEW w \in Wakers, NEW s \in Sources, Post(w, s) PROVE WakeToken'
  <2>1. Writing' = Writing BY <1>3 DEF Post, Writing, Threads
  <2> QED BY <1>3, <2>1 DEF Post, WakeToken
<1>4. ASSUME NEW t \in Threads, Exchange(t) PROVE WakeToken'
  <2>1. CASE fWakePending
    <3>1. Writing' = Writing
      BY <1>4, <2>1 DEF Exchange, WakeReturns, Writing, Threads
    <3> QED BY <1>4, <2>1, <3>1 DEF Exchange, WakeToken
  <2>2. CASE ~fWakePending
    <3>1. Writing' = Writing \cup {t}
      BY <1>4, <2>2 DEF Exchange, Writing, Threads
    <3> QED BY <1>4, <2>2, <3>1 DEF Exchange, WakeToken
  <2> QED BY <2>1, <2>2
<1>5. ASSUME NEW t \in Threads, Write(t) PROVE WakeToken'
  <2>1. t \in Writing /\ Writing' = Writing \ {t}
    BY <1>5 DEF Write, WakeReturns, Writing, Threads
  <2>2. Writing' = {} BY <2>1 DEF WakeToken
  <2> QED BY <1>5, <2>1, <2>2 DEF Write, WakeToken
<1>6. CASE Drain \/ ClearPending
  <2>1. Writing' = Writing BY <1>6 DEF Drain, ClearPending, Writing, Threads
  <2> QED BY <1>6, <2>1 DEF Drain, ClearPending, WakeToken
<1>7. CASE \/ Top \/ UnlockPrepare \/ SelectReady \/ UnlockDispatch
           \/ LockPrepare \/ LockDispatch \/ SelectOther
           \/ \E s \in Sources : Prepare(s) \/ Dispatch(s)
  <2>1. Writing' = Writing
    BY <1>7 DEF Top, UnlockPrepare, SelectReady, UnlockDispatch, LockPrepare,
                LockDispatch, SelectOther, Prepare, Dispatch, Writing, Threads
  <2> QED BY <1>7, <2>1
    DEF Top, UnlockPrepare, SelectReady, UnlockDispatch, LockPrepare,
        LockDispatch, SelectOther, Prepare, Dispatch, WakeToken
<1>8. CASE UNCHANGED vars
  <2>1. Writing' = Writing BY <1>8 DEF vars, Writing
  <2> QED BY <1>8, <2>1 DEF vars, WakeToken
<1> QED BY <1>1, <1>2, <1>3, <1>4, <1>5, <1>6, <1>7, <1>8 DEF Next, WaitStep

(* A wait clears fWakePending only after it returned, and the next one     *)
(* starts with nothing owed.                                               *)
LEMMA OwedStep == TypeOK /\ NotJoinable /\ OwedPending /\ [Next]_vars => OwedPending'
<1> SUFFICES ASSUME TypeOK, NotJoinable, OwedPending, [Next]_vars
             PROVE OwedPending'
  OBVIOUS
<1> USE DEF OwedPending
<1>1. CASE Start \/ Stop \/ Join BY <1>1 DEF Start, Stop, Join
<1>2. ASSUME NEW w \in Wakers, NEW s \in Sources, Post(w, s) PROVE OwedPending'
  BY <1>2 DEF Post
<1>3. ASSUME NEW t \in Threads, Exchange(t) \/ Write(t) PROVE OwedPending'
  BY <1>3 DEF Exchange, Write
<1>4. CASE WaitStep \/ LockPrepare \/ LockDispatch \/ SelectOther
  BY <1>4 DEF WaitStep, Top, UnlockPrepare, SelectReady, Drain, ClearPending,
              UnlockDispatch, Prepare, Dispatch, LockPrepare, LockDispatch,
              SelectOther
<1>5. CASE UNCHANGED vars BY <1>5 DEF vars
<1> QED BY <1>1, <1>2, <1>3, <1>4, <1>5 DEF Next

(* Work posted to a prepared source is announced: by the poster that has   *)
(* not called Wake() yet, or by the flag its Wake() left set.              *)
LEMMA WorkStep ==
    TypeOK /\ SelectAllPrepared /\ WorkAnnounced /\ [Next]_vars
        => WorkAnnounced' /\ SelectAllPrepared'
<1> SUFFICES ASSUME TypeOK, SelectAllPrepared, WorkAnnounced, [Next]_vars
             PROVE WorkAnnounced' /\ SelectAllPrepared'
  OBVIOUS
<1> USE ThreadsAssumption DEF TypeOK, Threads, WorkAnnounced, SelectAllPrepared
<1>1. CASE Start BY <1>1 DEF Start
<1>2. CASE Stop BY <1>2 DEF Stop
<1>3. CASE Join BY <1>3 DEF Join
<1>4. ASSUME NEW w \in Wakers, NEW s \in Sources, Post(w, s)
      PROVE WorkAnnounced' /\ SelectAllPrepared'
  BY <1>4 DEF Post
<1>5. ASSUME NEW t \in Threads, Exchange(t)
      PROVE WorkAnnounced' /\ SelectAllPrepared'
  BY <1>5 DEF Exchange
<1>6. ASSUME NEW t \in Threads, Write(t)
      PROVE WorkAnnounced' /\ SelectAllPrepared'
  BY <1>6 DEF Write, WakeReturns
<1>7. ASSUME NEW s \in Sources, Prepare(s)
      PROVE WorkAnnounced' /\ SelectAllPrepared'
  BY <1>7 DEF Prepare
<1>8. CASE \/ Top \/ UnlockPrepare \/ SelectReady \/ UnlockDispatch
           \/ LockPrepare \/ LockDispatch \/ SelectOther
           \/ Drain \/ ClearPending \/ \E s \in Sources : Dispatch(s)
  BY <1>8 DEF Top, UnlockPrepare, SelectReady, UnlockDispatch, LockPrepare,
              LockDispatch, SelectOther, Drain, ClearPending, Dispatch
<1>9. CASE UNCHANGED vars BY <1>9 DEF vars
<1> QED
  BY <1>1, <1>2, <1>3, <1>4, <1>5, <1>6, <1>7, <1>8, <1>9 DEF Next, WaitStep

(* The inductive invariant holds in every reachable state. *)
THEOREM Inductive == Spec => []IInv
<1>1. Init => IInv
  <2> SUFFICES ASSUME Init PROVE IInv
    OBVIOUS
  <2>1. TypeOK
    <3>1. pc \in [Threads -> {"idle", "exchange", "write", "join", "running"}]
      BY DEF Init
    <3>2. pipe \in 0..1 BY DEF Init
    <3> QED BY <3>1, <3>2 DEF Init, TypeOK, LoopPcs
  <2>2. Writing = {} BY DEF Init, Writing
  <2>3. WakeToken BY <2>2 DEF Init, WakeToken
  <2>4. NotJoinable /\ OwedPending /\ SelectAllPrepared
    BY DEF Init, NotJoinable, OwedPending, SelectAllPrepared
  <2>5. WorkAnnounced BY DEF Init, WorkAnnounced
  <2> QED BY <2>1, <2>3, <2>4, <2>5 DEF IInv
<1>2. IInv /\ [Next]_vars => IInv'
  BY TypeStep, NotJoinableStep, TokenStep, OwedStep, WorkStep DEF IInv
<1> QED BY <1>1, <1>2, PTL DEF Spec

(* The types, for any threads and sources. *)
THEOREM TypeCorrect == Spec => []TypeOK
<1>1. IInv => TypeOK BY DEF IInv
<1> QED BY <1>1, Inductive, PTL

(* The wake pipe holds at most one byte, and a set fWakePending always has *)
(* that byte, or the one thread that is about to write it, behind it.      *)
THEOREM TokenCorrect == Spec => []WakeToken
<1>1. IInv => WakeToken BY DEF IInv
<1> QED BY <1>1, Inductive, PTL

(* Wake() is never lost, whichever threads race with the wait. *)
THEOREM WakeupCorrect == Spec => []NoLostWakeup
<1>1. IInv => NoLostWakeup BY DEF IInv, WakeToken, OwedPending, NoLostWakeup
<1> QED BY <1>1, Inductive, PTL

(* The loop does not sleep while a source has work nobody will announce. *)
THEOREM WorkCorrect == Spec => []NeverSleepsOnWork
<1>1. IInv => NeverSleepsOnWork
  <2> SUFFICES ASSUME IInv, NEW s \in Sources, lpc = "select", posted[s]
               PROVE \/ zero \/ pipe = 1
                     \/ \E t \in Threads : pc[t] \in {"exchange", "write"}
    BY DEF NeverSleepsOnWork
  <2>1. zero \/ fWakePending \/ \E t \in Threads : pc[t] = "exchange"
    BY DEF IInv, WorkAnnounced, SelectAllPrepared
  <2>2. fWakePending => pipe = 1 \/ \E t \in Threads : pc[t] = "write"
    BY DEF IInv, WakeToken, Writing
  <2> QED BY <2>1, <2>2
<1> QED BY <1>1, Inductive, PTL

(* Every step of the loop is one that event_loop.h's contract allows. *)
THEOREM Refinement == Spec => ImplementsSafety
<1>1. Init => Contract!CInit
  BY DEF Init, Contract!CInit
<1>2. IInv /\ [Next]_vars => [Contract!CNext]_(Contract!cvars)
  <2> SUFFICES ASSUME IInv, [Next]_vars
               PROVE Contract!CNext \/ UNCHANGED Contract!cvars
    OBVIOUS
  <2> USE DEF Contract!cvars, Contract!CNext
  <2>1. CASE Start BY <2>1 DEF Start, IInv, NotJoinable, Contract!CStart
  <2>2. CASE Stop \/ Join BY <2>2 DEF Stop, Join
  <2>3. ASSUME NEW w \in Wakers, NEW s \in Sources, Post(w, s)
        PROVE UNCHANGED Contract!cvars
    BY <2>3 DEF Post
  <2>4. ASSUME NEW t \in Threads, Exchange(t) PROVE Contract!CNext
    BY <2>4 DEF Exchange, Contract!CWake
  <2>5. ASSUME NEW t \in Threads, Write(t) PROVE UNCHANGED Contract!cvars
    BY <2>5 DEF Write
  <2>6. CASE Top BY <2>6 DEF Top, Contract!CExit
  <2>7. CASE LockPrepare BY <2>7 DEF LockPrepare, Contract!CPrepare
  <2>8. CASE UnlockPrepare \/ Drain \/ ClearPending \/ LockDispatch
    BY <2>8 DEF UnlockPrepare, Drain, ClearPending, LockDispatch
  <2>9. CASE SelectReady \/ SelectOther
    BY <2>9 DEF SelectReady, SelectOther, Contract!CReturn
  <2>10. ASSUME NEW s \in Sources, Prepare(s) \/ Dispatch(s)
         PROVE UNCHANGED Contract!cvars
    BY <2>10 DEF Prepare, Dispatch
  <2>11. CASE UnlockDispatch BY <2>11 DEF UnlockDispatch, Contract!CDispatch
  <2>12. CASE UNCHANGED vars BY <2>12 DEF vars
  <2> QED
    BY <2>1, <2>2, <2>3, <2>4, <2>5, <2>6, <2>7, <2>8, <2>9, <2>10, <2>11, <2>12
    DEF Next, WaitStep
<1> QED BY <1>1, <1>2, Inductive, PTL DEF Spec, ImplementsSafety, Contract!CSafety

-----------------------------------------------------------------------------
(* ---- the timers ---- *)

(* What is dispatched: nothing outside Dispatch(). *)
Dispatching == \A t \in Timers : fDispatching[t] => tPhase = "dispatch"

TimerIInv == TimerTypeOK /\ Dispatching /\ WaitCoversTimers

(* The least of a set of numbers is one of them and none is less. *)
LEMMA MinIsLeast ==
    ASSUME NEW S \in SUBSET Nat, S # {}
    PROVE Min(S) \in S /\ \A y \in S : Min(S) <= y
<1>1. PICK x \in S : \A y \in S : ~(<<y, x>> \in OpToRel(<, Nat))
  BY Zenon, NatLessThanWellFounded, WFMin
<1>2. \A y \in S : x <= y
  <2> TAKE y \in S
  <2>1. ~(<<y, x>> \in {ss \in Nat \X Nat : ss[1] < ss[2]})
    BY Zenon, <1>1 DEF OpToRel
  <2>2. x \in Nat /\ y \in Nat OBVIOUS
  <2> QED BY <2>1, <2>2
<1> QED BY <1>2 DEF Min

LEMMA MaxOfTwo ==
    ASSUME NEW a \in Int, NEW b \in Int
    PROVE Max({a, b}) = IF a >= b THEN a ELSE b
BY DEF Max

(* Milliseconds rounded up are less than one too many. *)
LEMMA Rounding ==
    ASSUME NEW x \in Nat, NEW u \in Nat \ {0}
    PROVE /\ (x + (u - 1)) \div u \in Nat
          /\ ((x + (u - 1)) \div u) * u < x + u
OBVIOUS

LEMMA Monotone ==
    ASSUME NEW x \in Nat, NEW y \in Nat, x <= y, NEW u \in Nat
    PROVE x * u <= y * u /\ x * u \in Nat
OBVIOUS

(* The time a wait may take for one timer ends less than a millisecond     *)
(* after its deadline, or at once.                                         *)
LEMMA TimeoutInTime ==
    ASSUME now \in Nat, NEW d \in Nat, NEW n \in Nat, n <= TimeoutMs(d)
    PROVE /\ now >= d => n = 0
          /\ now < d => now + n * US < d + US
          /\ TimeoutMs(d) \in Nat
<1>1. US \in Nat \ {0} /\ IdleMs \in Nat BY TimersAssumption
<1>2. CASE now >= d
  <2>1. TimeoutMs(d) = 0 BY <1>2 DEF TimeoutMs
  <2> QED BY <1>2, <2>1
<1>3. CASE now < d
  <2> DEFINE ms == (d - now + (US - 1)) \div US
  <2>1. ms \in Nat /\ ms * US < d - now + US
    BY <1>1, <1>3, Rounding
  <2>2. TimeoutMs(d) = IF ms > IdleMs THEN IdleMs ELSE ms
    BY <1>3 DEF TimeoutMs
  <2> HIDE DEF ms
  <2>3. n <= ms /\ TimeoutMs(d) \in Nat BY <1>1, <2>1, <2>2
  <2>4. n * US <= ms * US /\ n * US \in Nat BY <1>1, <2>1, <2>3, Monotone
  <2>5. ms * US \in Nat BY <1>1, <2>1, Monotone
  <2> HIDE DEF ms
  <2> QED BY <1>1, <1>3, <2>1, <2>3, <2>4, <2>5
<1> QED BY <1>2, <1>3

(* What Prepare() makes of the timers, for each of them. *)
LEMMA PrepareCovers ==
    ASSUME TimerTypeOK, PrepareTimers
    PROVE /\ limit' \in 0..IdleMs
          /\ \A t \in Armed : limit' <= TimeoutMs(fDeadlineUs[t])
<1> DEFINE S == {IdleMs} \cup {TimeoutMs(fDeadlineUs[t]) : t \in Armed}
<1>1. \A t \in Armed : TimeoutMs(fDeadlineUs[t]) \in Nat
  <2> TAKE t \in Armed
  <2>1. t \in Timers /\ now \in Nat /\ fDeadlineUs[t] \in Nat
    BY TimersAssumption DEF TimerTypeOK, Armed
  <2> QED BY <2>1, TimersAssumption, Rounding DEF TimeoutMs
<1>2. S \in SUBSET Nat /\ S # {} /\ IdleMs \in S
  BY <1>1, TimersAssumption
<1>3. limit' = Min(S) BY DEF PrepareTimers
<1>4. \A t \in Armed : TimeoutMs(fDeadlineUs[t]) \in S OBVIOUS
<1> HIDE DEF S
<1>5. Min(S) \in S /\ \A y \in S : Min(S) <= y BY <1>2, MinIsLeast
<1>6. Min(S) \in Nat /\ Min(S) <= IdleMs BY <1>2, <1>5
<1>7. \A t \in Armed : Min(S) <= TimeoutMs(fDeadlineUs[t]) BY <1>4, <1>5
<1> QED BY <1>3, <1>6, <1>7, TimersAssumption

(* A step, and what it leaves alone.                                       *)
Calls(t) == Disarm(t) \/ \E d \in 0..MaxTime : Arm(t, d)

LEMMA TypeKept == ASSUME TimerIInv, [TimerNext]_timerVars PROVE TimerTypeOK'
<1>1. /\ tPhase \in {"off", "top", "wait", "dispatch"} /\ tOwed \in BOOLEAN
      /\ now \in 0..MaxTime
      /\ fArmed \in [Timers -> BOOLEAN]
      /\ fDeadlineUs \in [Timers -> 0..MaxTime]
      /\ fDispatching \in [Timers -> BOOLEAN]
      /\ expected \in [Timers -> BOOLEAN]
      /\ tTodo \subseteq Timers
      /\ limit \in 0..IdleMs
      /\ preparedAt \in 0..MaxTime /\ asleep \in BOOLEAN
      /\ left \in 0..(IdleMs * US)
  BY DEF TimerIInv, TimerTypeOK
<1>2. US \in Nat \ {0} /\ IdleMs \in Nat /\ MaxTime \in Nat
  BY TimersAssumption
<1>3. ASSUME NEW t \in Timers, Calls(t),
             UNCHANGED <<tPhase, now, fDispatching, tTodo, wait>>
      PROVE TimerTypeOK'
  <2>1. CASE Disarm(t)
    BY <1>1, <1>3, <2>1 DEF Disarm, wait, TimerTypeOK
  <2>2. ASSUME NEW d \in 0..MaxTime, Arm(t, d) PROVE TimerTypeOK'
    <3>1. tOwed' \in BOOLEAN BY <2>2 DEF Arm
    <3>2. /\ fArmed' \in [Timers -> BOOLEAN]
          /\ fDeadlineUs' \in [Timers -> 0..MaxTime]
          /\ expected' \in [Timers -> BOOLEAN]
      BY <1>1, <2>2 DEF Arm
    <3> QED BY <1>1, <1>3, <3>1, <3>2 DEF wait, TimerTypeOK
  <2> QED BY <1>3, <2>1, <2>2 DEF Calls
<1>4. ASSUME NEW t \in Timers, DeviceCall(t) \/ CallbackCall(t)
      PROVE TimerTypeOK'
  BY <1>3, <1>4 DEF DeviceCall, CallbackCall, Calls
<1>5. ASSUME NEW t \in Timers, CallbackReturns(t) \/ Skip(t) \/ Expire(t)
      PROVE TimerTypeOK'
  BY <1>1, <1>5 DEF CallbackReturns, Skip, Expire, timer, wait, TimerTypeOK
<1>6. CASE LoopStarts \/ DispatchEnds \/ Return \/ ReturnInTime
  BY <1>1, <1>6 DEF LoopStarts, DispatchEnds, ReturnInTime, Return,
                    Waits!CStart, Waits!CDispatch, Waits!CReturn, timer, wait, TimerTypeOK
<1>7. CASE Tick
  <2>1. now' \in 0..MaxTime BY <1>1, <1>2, <1>7 DEF Tick
  <2>2. IdleMs * US \in Nat BY <1>2
  <2>3. left' \in 0..(IdleMs * US) BY <1>1, <1>7, <2>2 DEF Tick
  <2> QED BY <1>1, <1>7, <2>1, <2>3 DEF Tick, timer, TimerTypeOK
<1>8. CASE PrepareTimers
  <2>1. limit' \in 0..IdleMs BY <1>8, PrepareCovers DEF TimerIInv
  <2> QED
    BY <1>1, <1>8, <2>1
    DEF PrepareTimers, Waits!CPrepare, timer, TimerTypeOK
<1>9. CASE Select
  <2>1. limit * US <= IdleMs * US /\ limit * US \in Nat
    BY <1>1, <1>2, Monotone
  <2>2. IdleMs * US \in Nat BY <1>2
  <2>3. left' \in 0..(IdleMs * US) BY <1>9, <2>1, <2>2 DEF Select
  <2> QED BY <1>1, <1>9, <2>3 DEF Select, timer, TimerTypeOK
<1>10. CASE UNCHANGED timerVars
  BY <1>1, <1>10 DEF timerVars, timer, wait, TimerTypeOK
<1> QED
  BY <1>4, <1>5, <1>6, <1>7, <1>8, <1>9, <1>10 DEF TimerNext, LoopStep

LEMMA DispatchingKept == ASSUME TimerIInv, [TimerNext]_timerVars PROVE Dispatching'
<1>1. /\ fDispatching \in [Timers -> BOOLEAN] /\ Dispatching
  BY DEF TimerIInv, TimerTypeOK
<1>2. ASSUME UNCHANGED <<tPhase, fDispatching>> PROVE Dispatching'
  BY <1>1, <1>2 DEF Dispatching
<1>3. CASE LoopStarts \/ Return \/ PrepareTimers
  <2>1. tPhase # "dispatch" /\ UNCHANGED fDispatching
    BY <1>3 DEF LoopStarts, Return, PrepareTimers, Waits!CStart,
                  Waits!CReturn, Waits!CPrepare, timer
  <2> QED BY <1>1, <2>1 DEF Dispatching
<1>4. CASE DispatchEnds
  <2>1. NotInCallback /\ UNCHANGED fDispatching
    BY <1>4 DEF DispatchEnds, timer
  <2> QED BY <2>1 DEF Dispatching, NotInCallback
<1>5. ASSUME NEW t \in Timers, CallbackReturns(t) PROVE Dispatching'
  BY <1>1, <1>5 DEF CallbackReturns, Dispatching
<1>6. ASSUME NEW t \in Timers, Expire(t) PROVE Dispatching'
  BY <1>1, <1>6 DEF Expire, Dispatching
<1>7. ASSUME NEW t \in Timers, DeviceCall(t) \/ CallbackCall(t) \/ Skip(t)
      PROVE Dispatching'
  BY <1>2, <1>7 DEF DeviceCall, CallbackCall, Skip, timer
<1>8. CASE Tick \/ Select \/ UNCHANGED timerVars
  BY <1>2, <1>8 DEF Tick, Select, timerVars, timer
<1> QED
  BY <1>3, <1>4, <1>5, <1>6, <1>7, <1>8 DEF TimerNext, LoopStep, ReturnInTime

(* WaitCoversTimers for one deadline d. *)
Covers(d) == preparedAt + limit * US < Max({d, preparedAt}) + US

LEMMA CoversLater ==
    ASSUME preparedAt \in Nat, limit \in Nat, NEW d \in Nat, NEW e \in Nat,
           d <= e, Covers(d)
    PROVE Covers(e)
<1>1. limit * US \in Nat /\ US \in Nat BY TimersAssumption
<1>2. /\ Max({d, preparedAt}) = IF d >= preparedAt THEN d ELSE preparedAt
      /\ Max({e, preparedAt}) = IF e >= preparedAt THEN e ELSE preparedAt
  BY MaxOfTwo
<1> QED BY <1>1, <1>2 DEF Covers

(* An Arm() that wakes nobody asks for nothing sooner than was asked.      *)
LEMMA CoversKept == ASSUME TimerIInv, [TimerNext]_timerVars PROVE WaitCoversTimers'
<1>1. /\ tPhase \in {"off", "top", "wait", "dispatch"} /\ tOwed \in BOOLEAN
      /\ now \in Nat
      /\ fArmed \in [Timers -> BOOLEAN]
      /\ fDeadlineUs \in [Timers -> Nat]
      /\ limit \in Nat /\ preparedAt \in Nat
      /\ \A t \in Timers : fDispatching[t] => tPhase # "wait"
      /\ US \in Nat \ {0}
  BY TimersAssumption DEF TimerIInv, TimerTypeOK, Dispatching
<1>2. tPhase = "wait" /\ ~tOwed => \A t \in Armed : Covers(fDeadlineUs[t])
  BY DEF TimerIInv, WaitCoversTimers, Covers
<1>3. ASSUME tPhase' = "wait" /\ ~tOwed' =>
                 \A t \in Armed' : Covers(fDeadlineUs[t])'
      PROVE WaitCoversTimers'
  BY Zenon, <1>3 DEF WaitCoversTimers, Covers
<1>4. ASSUME tPhase' = tPhase \/ tPhase' # "wait",
             UNCHANGED <<tOwed, fArmed, fDeadlineUs, limit, preparedAt>>
      PROVE WaitCoversTimers'
  <2>1. Armed' = Armed BY <1>4 DEF Armed
  <2>2. \A t \in Armed : Covers(fDeadlineUs[t])' <=> Covers(fDeadlineUs[t])
    BY Zenon, <1>4 DEF Covers
  <2> QED BY Zenon, <1>2, <1>3, <1>4, <2>1, <2>2
<1>5. ASSUME NEW t \in Timers, Calls(t),
             UNCHANGED <<tPhase, limit, preparedAt>>
      PROVE WaitCoversTimers'
  <2> SUFFICES ASSUME tPhase = "wait", ~tOwed', NEW u \in Timers, fArmed'[u]
               PROVE Covers(fDeadlineUs'[u])
    BY <1>3, <1>5 DEF Covers, Armed
  <2>1. CASE Disarm(t)
    <3>1. ~tOwed /\ u \in Armed /\ fDeadlineUs'[u] = fDeadlineUs[u]
      BY <1>1, <2>1 DEF Disarm, Armed
    <3> QED BY <1>2, <3>1
  <2>2. ASSUME NEW d \in 0..MaxTime, Arm(t, d)
        PROVE Covers(fDeadlineUs'[u])
    <3>1. ~tOwed /\ ~fDispatching[t] /\ ~Sooner(t, d)
      BY <1>1, <2>2 DEF Arm
    <3>2. fArmed[t] /\ d >= fDeadlineUs[t] /\ d \in Nat
      BY <1>1, <3>1, TimersAssumption DEF Sooner
    <3>3. t \in Armed BY <3>2 DEF Armed
    <3>4. Covers(fDeadlineUs[t]) BY <1>2, <3>1, <3>3
    <3>5. CASE u = t
      <4>1. fDeadlineUs'[u] = d BY <1>1, <2>2, <3>5 DEF Arm
      <4> QED BY <1>1, <3>2, <3>4, <4>1, CoversLater
    <3>6. CASE u # t
      <4>1. fDeadlineUs'[u] = fDeadlineUs[u] /\ fArmed[u]
        BY <1>1, <2>2, <3>6 DEF Arm
      <4> QED BY <1>2, <3>1, <4>1 DEF Armed
    <3> QED BY <3>5, <3>6
  <2> QED BY <1>5, <2>1, <2>2 DEF Calls
<1>6. ASSUME NEW t \in Timers, DeviceCall(t) \/ CallbackCall(t)
      PROVE WaitCoversTimers'
  BY <1>5, <1>6 DEF DeviceCall, CallbackCall, Calls, wait
<1>7. CASE PrepareTimers
  <2>1. /\ limit' \in Nat /\ preparedAt' = now
        /\ UNCHANGED <<fArmed, fDeadlineUs>>
        /\ \A t \in Armed : limit' <= TimeoutMs(fDeadlineUs[t])
    <3>1. /\ limit' \in 0..IdleMs
          /\ \A t \in Armed : limit' <= TimeoutMs(fDeadlineUs[t])
      BY Zenon, <1>7, PrepareCovers DEF TimerIInv
    <3>2. preparedAt' = now /\ UNCHANGED <<fArmed, fDeadlineUs>>
      BY <1>7 DEF PrepareTimers, timer
    <3>3. limit' \in Nat BY <3>1, TimersAssumption
    <3> QED BY Zenon, <3>1, <3>2, <3>3
  <2>2. ASSUME NEW t \in Armed PROVE Covers(fDeadlineUs[t])'
    <3> DEFINE d == fDeadlineUs[t]
    <3>1. d \in Nat /\ t \in Timers BY <1>1 DEF Armed
    <3>2. limit' <= TimeoutMs(d) BY <2>1
    <3>3. fDeadlineUs'[t] = d BY <2>1
    <3> HIDE DEF d
    <3>4. /\ now >= d => limit' = 0
          /\ now < d => now + limit' * US < d + US
      BY <1>1, <2>1, <3>1, <3>2, TimeoutInTime
    <3>5. Max({d, now}) = IF d >= now THEN d ELSE now
      BY <1>1, <3>1, MaxOfTwo
    <3>6. now + limit' * US < Max({d, now}) + US
      BY <1>1, <3>1, <3>4, <3>5
    <3> QED BY Zenon, <2>1, <3>3, <3>6 DEF Covers
  <2>3. Armed' = Armed BY <2>1 DEF Armed
  <2> QED BY <1>3, <2>2, <2>3
<1>8. ASSUME NEW t \in Timers, Expire(t) PROVE WaitCoversTimers'
  <2>1. tPhase' # "wait" BY <1>8 DEF Expire
  <2> QED BY <1>3, <2>1
<1>9. ASSUME NEW t \in Timers, Skip(t) \/ CallbackReturns(t)
      PROVE WaitCoversTimers'
  BY <1>4, <1>9 DEF Skip, CallbackReturns, timer, wait
<1>10. CASE LoopStarts \/ Return \/ DispatchEnds
  BY <1>4, <1>10 DEF LoopStarts, Return, DispatchEnds, Waits!CStart,
                     Waits!CReturn, Waits!CDispatch,
                     timer, wait
<1>11. CASE Tick \/ Select \/ UNCHANGED timerVars
  BY <1>4, <1>11 DEF Tick, Select, timerVars, timer, wait
<1> QED
  BY <1>6, <1>7, <1>8, <1>9, <1>10, <1>11 DEF TimerNext, LoopStep, ReturnInTime

LEMMA TimerInitially == ASSUME TimerInit PROVE TimerIInv
<1>1. IdleMs * US \in Nat BY TimersAssumption
<1>2. TimerTypeOK
  <2>1. /\ fArmed \in [Timers -> BOOLEAN]
        /\ fDispatching \in [Timers -> BOOLEAN]
        /\ expected \in [Timers -> BOOLEAN] /\ tTodo \subseteq Timers
        /\ tPhase \in {"off", "top", "wait", "dispatch"}
        /\ tOwed \in BOOLEAN /\ asleep \in BOOLEAN
    BY Zenon DEF TimerInit, Waits!CInit
  <2>2. /\ now \in 0..MaxTime /\ fDeadlineUs \in [Timers -> 0..MaxTime]
        /\ limit \in 0..IdleMs /\ preparedAt \in 0..MaxTime
        /\ left \in 0..(IdleMs * US)
    BY <1>1, TimersAssumption DEF TimerInit
  <2> QED BY <2>1, <2>2 DEF TimerTypeOK
<1>3. Dispatching /\ WaitCoversTimers
  BY DEF TimerInit, Waits!CInit, Dispatching, WaitCoversTimers
<1> QED BY <1>2, <1>3 DEF TimerIInv

LEMMA TimerInductive == ASSUME TimerIInv, [TimerNext]_timerVars PROVE TimerIInv'
BY TypeKept, DispatchingKept, CoversKept DEF TimerIInv

(* The wait EventLoop::Run() is in ends less than a millisecond after      *)
(* every armed deadline, or is about to be woken: the wakes that           *)
(* LoopTimer::Arm() leaves out are not needed, and Prepare() rounds and    *)
(* caps its timeout on the right side (loop_timer.cpp).                    *)
THEOREM WaitCorrect == TimerSpec => []WaitCoversTimers
<1>1. TimerIInv => WaitCoversTimers BY DEF TimerIInv
<1> QED BY TimerInitially, TimerInductive, <1>1, PTL DEF TimerSpec
=============================================================================
