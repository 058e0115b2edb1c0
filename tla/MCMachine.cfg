SPECIFICATION FairSpec
CONSTANTS
    t1 = t1
    t2 = t2
    l1 = l1
    l2 = l2
    Machines <- MCMachines
    NCpus = 2
    Timers <- MCTimers
    Loaders <- MCLoaders
    Refresh = 1
    MaxTime = 1
    Io = io
    Thread = thread
    NoOne = noone
INVARIANTS StartAndStop
PROPERTIES StopReturns ProcessorsStart TimerRuns
CHECK_DEADLOCK FALSE
