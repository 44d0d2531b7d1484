---------------------------- MODULE VisibilityWorker ----------------------------
(***************************************************************************)
(* VisibilityTimeoutWorker (internal/queue/worker.go) running beside the   *)
(* clients of QueueStorage.  Its goroutine calls RequeueExpiredMessages    *)
(* for every monitored queue on each tick of its ticker.                   *)
(***************************************************************************)
EXTENDS QueueStorage

CONSTANTS
    Worker,       \* the goroutine of run
    WatchQueues   \* the queues AddQueue and RemoveQueue are called for

ASSUME WorkerAssumption == Worker \in Procs /\ WatchQueues \subseteq Queues

VARIABLES
    queueNames,   \* the monitored queues
    sweep,        \* queues the current check has still to visit
    worker        \* "new", "running", "stopping" or "stopped"

workerVars == <<queueNames, sweep, worker>>
allVars == <<vars, workerVars>>

WorkerInit ==
    /\ Init
    /\ queueNames = {}
    /\ sweep = {}
    /\ worker = "new"

\* AddQueue ignores a name it already holds.
AddQueue(q) ==
    /\ queueNames' = queueNames \cup {q}
    /\ UNCHANGED <<vars, sweep, worker>>

RemoveQueue(q) ==
    /\ queueNames' = queueNames \ {q}
    /\ UNCHANGED <<vars, sweep, worker>>

Start ==
    /\ worker = "new"
    /\ worker' = "running"
    /\ UNCHANGED <<vars, queueNames, sweep>>

\* Closes stopChan, then waits for WorkerExit.
Stop ==
    /\ worker = "running"
    /\ worker' = "stopping"
    /\ UNCHANGED <<vars, queueNames, sweep>>

BetweenChecks == txn[Worker] = Idle /\ sweep = {}

\* A tick copies the monitored names; select may still take it after Stop.
WorkerTick ==
    /\ worker \in {"running", "stopping"}
    /\ BetweenChecks
    /\ sweep' = queueNames
    /\ UNCHANGED <<vars, queueNames, worker>>

\* checkExpiredMessages goes on to the next queue when the last one is done.
WorkerCheck(q) ==
    /\ q \in sweep
    /\ RequeueExpiredMessages(Worker, q)
    /\ sweep' = sweep \ {q}
    /\ UNCHANGED <<queueNames, worker>>

\* Fault: the stop signal is only looked at when nothing is monitored.
ExitWhenUnmonitored ==
    /\ worker = "stopping"
    /\ BetweenChecks
    /\ queueNames = {}
    /\ worker' = "stopped"
    /\ UNCHANGED <<vars, queueNames, sweep>>

WorkerExit ==
    /\ worker = "stopping"
    /\ BetweenChecks
    /\ worker' = "stopped"
    /\ UNCHANGED <<vars, queueNames, sweep>>

\* The names live in memory, and nothing in the repository adds them again.
CrashAll ==
    /\ Crash
    /\ queueNames' = {}
    /\ sweep' = {}
    /\ worker' = "new"

StorageStep ==
    /\ \/ \E p \in Procs \ {Worker} : Call(p)
       \/ \E p \in Procs : TxnStep(p)
       \/ \E c \in DlqCalls : SetDeadLetterQueue(c[1], c[2], c[3])
       \/ Tick
    /\ UNCHANGED workerVars

WorkerNext ==
    \/ StorageStep
    \/ \E q \in WatchQueues : AddQueue(q) \/ RemoveQueue(q)
    \/ Start
    \/ Stop
    \/ WorkerTick
    \/ \E q \in Queues : WorkerCheck(q)
    \/ WorkerExit
    \/ CrashAll

\* The worker's goroutine is scheduled and its ticker fires; select chooses among
\* ready cases at random, so it cannot pass over a closed stopChan for ever.
\* Clients, the administrator and the clock promise nothing.
Fairness ==
    /\ WF_allVars(WorkerTick)
    /\ WF_allVars(\E q \in Queues : WorkerCheck(q))
    /\ WF_allVars(TxnStep(Worker) /\ UNCHANGED workerVars)
    /\ SF_allVars(WorkerExit)

WorkerSpec == WorkerInit /\ [][WorkerNext]_allVars /\ Fairness

-----------------------------------------------------------------------------
TimedOut(k) ==
    /\ msgs[k] # NoMsg
    /\ msgs[k].state = InFlight
    /\ msgs[k].visibilityTimeout > 0
    /\ msgs[k].inFlightAt + msgs[k].visibilityTimeout < now

Monitored(q) == worker = "running" /\ q \in queueNames

\* A delivery that timed out comes to an end, by a requeue or by its consumer, as
\* long as the worker runs and monitors the queue (run, checkExpiredMessages).
ExpiredIsRequeued ==
    \A k \in MessageKeys :
        (TimedOut(k) /\ Monitored(k[1])) ~> (~TimedOut(k) \/ ~Monitored(k[1]))

\* Stop returns: run leaves its loop although ticks keep coming.
StopReturns == (worker = "stopping") ~> (worker # "stopping")

=============================================================================
