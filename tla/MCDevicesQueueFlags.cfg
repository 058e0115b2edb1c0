SPECIFICATION Spec
CONSTANTS
    Scenarios <- MCQueues
    QueueSize = 2
    IdxWrap = 4
    MaxPosts = 4
    MaxResets = 1
    Setups <- FlagQueueUses
    TlbCpus = {1, 2}
    VideoPages = {1}
    Fills = {"riscv", "x86"}
    Priorities = {1, 2}
    Tasks = {0, 1}
    Hypervisors <- MCHypervisors
INVARIANTS NoLostInterrupt
