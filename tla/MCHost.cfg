SPECIFICATION HostSpec
CONSTANTS
    Wakers = {w1, w2, w3}
    Lockers = {w3}
    Sources = {s1, s2}
    Loop = loop
    Main = main
    NoOne = noone
    Kickers = {k1, k2, k3}
    Sleeper = s
    Nobody = nobody
    Timers = {t1, t2}
    US = 2
    IdleMs = 1
    MaxTime = 3
INVARIANTS TypeOK NeverSleepsOnWork WaitCoversTimers
PROPERTIES StopReturns ImplementsContract DueTimerExpires WakeupImplementsContract
