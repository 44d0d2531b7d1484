SPECIFICATION Spec
CONSTANTS
    Conns = {c1, c2}
    Workers = {w1, w2}
    k1 = k1
    k2 = k2
    v1 = v1
    v2 = v2
    Keys <- MCKeys
    Values = {v1, v2}
    Absent = Absent
    Commands <- MCCommands
    Fragments <- MCFragments
    OutCap = 1
    JobCap = 1
    Window = 2
    MaxSent = 2
    MaxScraps = 2
INVARIANTS
    TypeOK
    ValuesIntact
    CommandsConserved
PROPERTIES
    StopReturns
CHECK_DEADLOCK FALSE
