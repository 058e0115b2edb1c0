------------------------------ MODULE MCMachine ------------------------------
(* A machine with two processors, so that the first is interrupted while   *)
(* the second still runs, and two loaders, so that only the last release   *)
(* kicks; and one with two timers, so that a set one is waited for while   *)
(* another comes.                                                          *)
EXTENDS Machine

CONSTANTS t1, t2, l1, l2

MCTimers == {t1, t2}
MCLoaders == {l1, l2}

MCMachines ==
    {[cpus |-> 2, timers |-> {}, loaders |-> {l1, l2}, screen |-> FALSE],
     [cpus |-> 1, timers |-> {t1, t2}, loaders |-> {}, screen |-> FALSE],
     [cpus |-> 1, timers |-> {t1}, loaders |-> {l1}, screen |-> TRUE]}
=============================================================================
