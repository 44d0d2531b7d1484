\* Two consumers pop from one snapshot (TestConcurrentConsumers).
CONSTANTS
    Queues = {q, d}
    MsgIds = {1, 2}
    Procs = {c1, c2}
    c1 = c1
    c2 = c2
    q = q
    d = d
    NoMsg = NoMsg
    NoQueue = NoQueue
    PushQueues = {q}
    DlqCalls <- MCDlqCalls
    Timeouts = {1}
    MaxTime = 2
    MaxDeliveries = 2
SPECIFICATION Spec
SYMMETRY ConsumerSymmetry
INVARIANTS RedeliveryNeedsRequeue
