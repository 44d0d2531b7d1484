\* One consumer and the worker, which monitors q; r may become its dead-letter queue.
CONSTANTS
    Queues = {q, r}
    MsgIds = {1, 2}
    Procs = {c, w}
    Worker = w
    NoMsg = NoMsg
    NoQueue = NoQueue
    PushQueues = {q}
    DlqCalls <- MCDlqCalls
    q = q
    r = r
    WatchQueues = {q}
    Timeouts = {1}
    MaxTime = 2
    MaxDeliveries = 1
SPECIFICATION WorkerSpec
PROPERTIES ExpiredIsRequeued StopReturns
