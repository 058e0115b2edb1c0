\* One hart: the counter, the two comparators and the machine thread are what
\* interact, and the hart itself moves mtime.
SPECIFICATION FairSpec
CONSTANTS
    Harts = {h1}
    MaxNow = 2
    MaxTime = 1
    NoOne = noone
    Thread = thread

PROPERTIES STimerRaised
CHECK_DEADLOCK FALSE
