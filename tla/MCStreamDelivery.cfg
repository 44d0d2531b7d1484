\* No crash, no retention, no oversized flush: only interleaving.
CONSTANTS
    Publishers = {p1, p2}
    Consumers = {c}
    Worker = w
    Spawned = {s}
    None = None
    BatchSizes = {1}
    FlushSize = 2
    MaxTxn = 2
    MaxCount = 1
    RetentionMs = 0
    MaxOffset = 1
    MaxEpoch = 0
    MaxStrays = 1
    MaxTime = 0
SPECIFICATION Spec
INVARIANTS AtLeastOnce
