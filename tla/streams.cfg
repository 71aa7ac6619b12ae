SPECIFICATION FairSpec
CONSTANTS
    r1 = r1
    r2 = r2
    Program <- WritesAfterClose
    Executions = {x1, x2}
    Readers = {r1, r2}
    SnapshotReaders = {r2}
    FromOffset <- Offsets
    MaxStarts = 3
    MaxCancels = 1
INVARIANTS
    WrittenOnce
    SentinelIsLast
    ReaderFollowsStream
PROPERTIES
    ReadersReturn
CHECK_DEADLOCK FALSE
