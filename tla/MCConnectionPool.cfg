\* Four goroutines share a pool of at most three connections.
CONSTANTS
    Callers = {g1, g2, g3, g4}
    Conns = {k1, k2, k3, k4}
    NoConn = NoConn
    MinSize = 0
    MaxSize = 3
SPECIFICATION FairSpec
INVARIANTS TypeOK Accounting Exclusive
PROPERTIES WaiterServed
CHECK_DEADLOCK FALSE
