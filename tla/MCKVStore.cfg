SPECIFICATION Spec
CONSTANTS
    Procs = {p1, p2}
    SingleKeys = {k}
    ka = ka
    kb = kb
    kc = kc
    kd = kd
    ke = ke
    Groups <- MCGroups
    Values = {Empty, v}
    Empty = Empty
    Absent = Absent
    Ttls = {0, 1}
    ChunkSize = 2
    TxnLimit = 2
    MaxTime = 1
    MaxCalls = 3
    MaxRestarts = 1
SYMMETRY Interchangeable
INVARIANTS
    CountsNeverInvented
    BatchReplaces
    SeenTogether
CHECK_DEADLOCK FALSE
