\* Two requests on one sector: one read or write in each queue, or two of
\* them one behind the other.
SPECIFICATION FairSpec
CONSTANTS
    Requests = {c1, c2}
    Sectors = {s1}
    Values = {v0, v1}
    Zero = v0
    Unknown = unknown
    Null = null
    Modes = {"RO", "RW", "SNAPSHOT"}
PROPERTIES ReadSeesWrites ImplementsContract AllEnd
CHECK_DEADLOCK FALSE
