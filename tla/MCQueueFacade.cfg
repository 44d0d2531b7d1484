\* One goroutine: transactions never overlap.
CONSTANTS
    Queues = {q, d}
    MsgIds = {1, 2}
    Procs = {c1}
    c1 = c1
    q = q
    d = d
    NoMsg = NoMsg
    NoQueue = NoQueue
    PushQueues = {q}
    DlqCalls <- MCAllDlqCalls
    Timeouts = {0, 1}
    MaxTime = 2
    MaxDeliveries = 2
    Values = {1}
    NoItem = NoItem
    MaxSeq = 1
SPECIFICATION FacadeSpec
INVARIANTS IndexIsExact RedeliveryNeedsRequeue
PROPERTIES ImplementsLifecycle
