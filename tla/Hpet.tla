--------------------------------- MODULE Hpet ---------------------------------
(***************************************************************************)
(* The PC's high precision event timer (device/timer/hpet.cpp) and the     *)
(* part of the machine that sleeps until its next comparator.  The state   *)
(* is the record hpet; an access works on a copy of it, as the handlers    *)
(* call one another.                                                       *)
(*                                                                         *)
(* The counter and the comparators are two halves of Narrow values each.   *)
(* up is the set of lines the HPET last raised.  What a read returns is    *)
(* left out; that it looks at the comparators is not.                      *)
(***************************************************************************)
EXTENDS Integers, FiniteSetsExt

CONSTANTS
    MaxNow,             \* bound: the host's clock
    TicksPerUs,         \* TICKS_PER_US
    Narrow,             \* 2^32
    MaxDelay,           \* MAX_DELAY_US
    HpetTimers,         \* their indexes, from 0
    HpetUses            \* what a guest programs: see TypeOK

VARIABLES
    now, wakeAt,        \* the clock; when the machine thread runs next
    hpet, uses

vars == <<now, wakeAt, hpet, uses>>

Never == MaxNow + 1000
Wide == Narrow * Narrow
Mask(t) == IF t.narrow THEN Narrow ELSE Wide
NoLine == "none"

Timer == [level : BOOLEAN, int : BOOLEAN, periodic : BOOLEAN,
          set_value : BOOLEAN, narrow : BOOLEAN, route : STRING,
          comparator : 0..(Wide - 1), period : 0..(Wide - 1),
          last : 0..(Wide - 1), setValueHigh : BOOLEAN,
          raisedLine : STRING, passed : BOOLEAN]

TypeOK ==
    /\ now \in 0..MaxNow /\ wakeAt \in 0..Never
    /\ uses \in HpetUses /\ uses.timers \subseteq HpetTimers
    /\ uses.values \cup uses.highs \subseteq 0..(Narrow - 1)
    /\ uses.ops \subseteq {"legacy", "counter"}
    /\ hpet.enabled \in BOOLEAN /\ hpet.legacy \in BOOLEAN
    /\ hpet.status \subseteq HpetTimers
    /\ hpet.counter \in 0..(Wide - 1) /\ hpet.baseUs \in 0..MaxNow
    /\ \A i \in HpetTimers : hpet.timers[i] \in Timer

Init ==
    /\ now = 0 /\ wakeAt = 0 /\ uses \in HpetUses
    /\ hpet = [enabled |-> FALSE, legacy |-> FALSE, status |-> {},
               counter |-> 0, baseUs |-> 0, up |-> {},
               timers |-> [i \in HpetTimers |->
                  [level |-> FALSE, int |-> FALSE, periodic |-> FALSE,
                   set_value |-> FALSE, narrow |-> FALSE,
                   route |-> NoLine,
                   comparator |-> 0, period |-> 0, last |-> 0,
                   setValueHigh |-> FALSE, raisedLine |-> NoLine,
                   passed |-> FALSE]]]

Counter(h, us) ==
    IF h.enabled THEN (h.counter + (us - h.baseUs) * TicksPerUs) % Wide
    ELSE h.counter

(* Whether the comparator lies in (last, counter], modulo its width. *)
Crossed(t, counter) ==
    (t.comparator - t.last - 1) % Mask(t) < (counter - t.last) % Mask(t)

LineOf(h, i) ==
    CASE h.enabled /\ h.legacy /\ i = 0 -> "irq0"
      [] h.enabled /\ h.legacy /\ i = 1 -> "irq8"
      [] OTHER -> h.timers[i].route

Holds(h, i) ==
    h.enabled /\ h.timers[i].level /\ h.timers[i].int /\ i \in h.status

(* A level interrupt holds its line up while its status bit is set, and    *)
(* follows the timer to another line.                                      *)
UpdateLevel(h, i) ==
    LET line == IF Holds(h, i) THEN LineOf(h, i) ELSE NoLine
        raised == h.timers[i].raisedLine
    IN  IF line = raised THEN h
        ELSE [h EXCEPT !.up = ((@ \ {raised}) \cup {line}) \ {NoLine},
                       !.timers[i].raisedLine = line]

UpdateLevels(h) == FoldSet(LAMBDA i, s : UpdateLevel(s, i), h, HpetTimers)

(* An edge is a pulse. *)
Fire(h, i) ==
    CASE h.timers[i].level ->
            UpdateLevel([h EXCEPT !.status = @ \cup {i}], i)
      [] ~h.timers[i].level /\ h.timers[i].int ->
            [h EXCEPT !.up = @ \ {LineOf(h, i)}]
      [] OTHER -> h

(* A periodic comparator moves past the counter, however far it fell       *)
(* behind.                                                                 *)
CheckTimer(h, i, counter) ==
    LET t == h.timers[i]
        period == t.period % Mask(t)
        moves == t.periodic /\ period # 0
        behind == (counter - t.comparator) % Mask(t)
        next == (t.comparator + (behind \div period + 1) * period) % Mask(t)
        ran == IF ~Crossed(t, counter) THEN h
               ELSE [Fire(h, i) EXCEPT
                        !.timers[i].comparator = IF moves THEN next ELSE @,
                        !.timers[i].passed = ~moves]
    IN  [ran EXCEPT !.timers[i].last = counter]

Process(h) ==
    IF ~h.enabled THEN h
    ELSE FoldSet(LAMBDA i, s : CheckTimer(s, i, Counter(h, now)), h, HpetTimers)

(* The microseconds to a comparator, rounded up and capped.  One just      *)
(* reached is not waited for.                                              *)
Delays(h) ==
    {Min({MaxDelay, (ticks + TicksPerUs - 1) \div TicksPerUs}) : ticks \in
        {(h.timers[i].comparator - Counter(h, now)) % Mask(h.timers[i]) :
            i \in {j \in HpetTimers : h.timers[j].int}} \ {0}}

(* History: what is not waited for again. *)
Reached(h) ==
    [h EXCEPT !.timers = [i \in HpetTimers |-> [h.timers[i] EXCEPT
        !.passed = @ \/ (h.timers[i].comparator - Counter(h, now))
                            % Mask(h.timers[i]) = 0]]]

RunTimers ==
    /\ hpet' = Reached(Process(hpet))
    /\ wakeAt' = IF hpet.enabled /\ Delays(hpet') # {}
                 THEN now + Min(Delays(hpet')) ELSE Never
    /\ UNCHANGED <<now, uses>>

Tick == now < MaxNow /\ now' = now + 1 /\ UNCHANGED <<wakeAt, hpet, uses>>

DeviceRead == hpet' = Process(hpet) /\ UNCHANGED <<now, wakeAt, uses>>

(* A write ends with a kick, as the next deadline may have moved. *)
DeviceWrite(h) == hpet' = h /\ wakeAt' = now /\ UNCHANGED <<now, uses>>

(* A route the timer does not have is not taken. *)
WriteTimerConfig(i) ==
    \E c \in uses.configs :
        LET h == Process(hpet)
            t == h.timers[i]
            route == IF uses.shared THEN c.route
                     ELSE IF c.route = NoLine THEN NoLine
                     ELSE IF i = 0 THEN "a" ELSE "b"
            cut(v) == IF c.narrow THEN v % Narrow ELSE v
        IN  DeviceWrite(UpdateLevel([h EXCEPT
                !.timers[i] = [t EXCEPT
                    !.level = c.level, !.int = c.int, !.periodic = c.periodic,
                    !.set_value = c.set_value, !.narrow = c.narrow,
                    !.route = IF route = NoLine THEN @ ELSE route,
                    !.comparator = cut(@), !.period = cut(@),
                    !.passed = @ /\ c.narrow = t.narrow],
                !.status = IF c.level THEN @ ELSE @ \ {i}], i))

SetLow(v, val) == (v \div Narrow) * Narrow + val
SetHigh(v, val) == val * Narrow + (v % Narrow)

(* In periodic mode the write sets the period, and also the comparator if  *)
(* the set value bit, which it spends, says so; the bit is kept for the    *)
(* high half that may follow.                                              *)
ComparatorLow(h, i, val) ==
    LET t == h.timers[i]
    IN  [h EXCEPT !.timers[i] = [t EXCEPT
            !.comparator = IF ~t.periodic \/ t.set_value THEN SetLow(@, val)
                           ELSE @,
            !.period = IF t.periodic THEN SetLow(@, val) ELSE @,
            !.set_value = FALSE, !.setValueHigh = t.set_value,
            !.last = Counter(h, now), !.passed = FALSE]]

ComparatorHigh(h, i, val) ==
    LET t == h.timers[i]
        sets == t.set_value \/ t.setValueHigh
    IN  [h EXCEPT !.timers[i] = [t EXCEPT
            !.set_value = FALSE, !.setValueHigh = FALSE,
            !.comparator = IF ~t.narrow /\ (~t.periodic \/ sets)
                           THEN SetHigh(@, val) ELSE @,
            !.period = IF ~t.narrow /\ t.periodic THEN SetHigh(@, val) ELSE @,
            !.last = IF t.narrow THEN @ ELSE Counter(h, now),
            !.passed = @ /\ t.narrow]]

(* By halves, or both at one instant. *)
WriteComparator(i) ==
    \E lo \in uses.values, hi \in uses.highs :
        \/ DeviceWrite(ComparatorLow(Process(hpet), i, lo))
        \/ DeviceWrite(ComparatorHigh(Process(hpet), i, hi))
        \/ DeviceWrite(ComparatorHigh(ComparatorLow(Process(hpet), i, lo),
                                      i, hi))

(* The comparators are checked from the new value on. *)
SetCounter(h, counter) ==
    [h EXCEPT !.counter = counter, !.baseUs = now,
              !.timers = [i \in HpetTimers |->
                            [h.timers[i] EXCEPT !.last = counter,
                                                !.passed = FALSE]]]

(* Halting keeps the count. *)
WriteConfig ==
    \E on, legacy \in BOOLEAN :
        LET h == Process(hpet)
            set == [h EXCEPT !.enabled = on, !.legacy = legacy]
        IN  /\ legacy => "legacy" \in uses.ops
            /\ DeviceWrite(UpdateLevels(
                IF on = h.enabled THEN set ELSE SetCounter(set, Counter(h, now))))

WriteStatus(i) ==
    DeviceWrite(UpdateLevels([Process(hpet) EXCEPT !.status = @ \ {i}]))

WriteCounter ==
    \E lo \in uses.values :
        LET h == Process(hpet)
        IN  /\ "counter" \in uses.ops
            /\ \E c \in {SetLow(Counter(h, now), lo),
                         SetHigh(Counter(h, now), lo), lo} :
                DeviceWrite(SetCounter(h, c))

Next ==
    \/ Tick \/ RunTimers \/ DeviceRead \/ WriteConfig \/ WriteCounter
    \/ \E i \in uses.timers :
        WriteTimerConfig(i) \/ WriteComparator(i) \/ WriteStatus(i)

(* The machine thread does not sleep past a comparator that may interrupt, *)
(* however it was programmed since, unless the counter has reached it       *)
(* already and only reaches it again after a wrap.                         *)
NotLate ==
    \A i \in HpetTimers, us \in now..MaxNow :
        LET t == hpet.timers[i]
        IN  hpet.enabled /\ t.int /\ ~t.passed /\ Crossed(t, Counter(hpet, us))
            => wakeAt <= us

(* "A level interrupt holds its line up while its status bit is set, and   *)
(* follows the timer to another line when it is rerouted" (UpdateLevel()). *)
LevelHoldsLine ==
    \A i \in HpetTimers :
        Holds(hpet, i) /\ LineOf(hpet, i) # NoLine => LineOf(hpet, i) \in hpet.up

(* And a line no level interrupt holds is down. *)
NoLineLeftUp ==
    \A l \in hpet.up : \E i \in HpetTimers :
        Holds(hpet, i) /\ LineOf(hpet, i) = l
=============================================================================
