\* Two publishers, one consumer, two offsets, one restart and one more offset.
CONSTANTS
    Publishers = {p1, p2}
    Consumers = {c}
    Worker = w
    Spawned = {s}
    None = None
    BatchSizes = {1, 2}
    FlushSize = 2
    MaxTxn = 1
    MaxCount = 1
    RetentionMs = 0
    MaxOffset = 1
    MaxEpoch = 1
    MaxStrays = 2
    MaxTime = 1
SPECIFICATION FairSpec
INVARIANTS TypeOK OffsetsUnique AckedIsKept
PROPERTIES EventuallyFlushed
