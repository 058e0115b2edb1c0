SPECIFICATION Spec
CONSTANTS
    Scenarios <- MCScenarios
    QueueSize = 2
    IdxWrap = 4
    MaxPosts = 4
    MaxResets = 1
    Setups <- MCQueueUses
    TlbCpus = {1, 2}
    VideoPages = {1}
    Fills = {"riscv", "x86"}
    Priorities = {1, 2}
    Tasks = {0, 1}
    Hypervisors <- MCHypervisors
INVARIANTS TypeOK DeviceLines SourcesServed NoLateTimer NoLostNotify NoLostInterrupt BuffersConserved DirtyTracked KicksHeard
