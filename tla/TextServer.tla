------------------------------- MODULE TextServer -------------------------------
(***************************************************************************)
(* The server behind its text protocol: one reading and one writing        *)
(* goroutine per connection, the worker pool of the slow path, the         *)
(* key-value store, and Stop.  What one Read returns is parsed as one      *)
(* command, whether the network and the 32768 bytes of readBuf let it be   *)
(* one whole command, several, or part of one.  A command keeps its key    *)
(* strings, but its values are slices of the connection's readBuf: a job   *)
(* that runs after the next Read into that buffer, by the same connection  *)
(* or by a later one that got the buffer from the pool, stores what the    *)
(* buffer holds then.                                                      *)
(***************************************************************************)
EXTENDS Integers, Sequences, FiniteSets, Functions

CONSTANTS
    Conns,
    Workers,
    Keys,
    Values,     \* what SET and MSET store, none 8 bytes long; counters are integers
    Absent,
    Commands,   \* records [cmd, puts], puts a function from the keys to values
    Fragments,  \* what bytes that are not one whole command may be parsed as
    OutCap,     \* capacity of outQueue
    JobCap,     \* capacity of jobQueue
    Window,     \* bound: commands a client has in flight
    MaxSent,    \* bound: commands of all connections together
    MaxScraps   \* bound: Reads of a connection that return no whole command

ASSUME ServerAssumption ==
    /\ OutCap \in Nat \ {0} /\ JobCap \in Nat \ {0}
    /\ Window \in Nat \ {0} /\ MaxSent \in Nat /\ MaxScraps \in Nat
    /\ Absent \notin Values \cup Conns
    /\ \A c \in Commands \cup Fragments :
          DOMAIN c.puts \subseteq Keys /\ c.puts \in [DOMAIN c.puts -> Values \cup {Absent}]

VARIABLES
    store,      \* the key-value store
    inbox,      \* what the next Reads of each connection will return
    sent,       \* commands sent on each connection
    got,        \* the answers each client has read: serial numbers of commands,
                \* and negative ones for answers to anything else
    buffer,     \* the buffer of each connection, named after the connection it was made for
    readBuf,    \* the command that each buffer holds
    reader,     \* where readLoop is: "new" (not accepted), "read", "incr" or "exited"
    txn,        \* what an open Incr or Decr has read
    writer,     \* writeLoop runs
    cancelled,  \* the connection's context is done
    outQueue,
    jobQueue,
    worker,     \* the job of each worker
    stop,       \* Stop's progress: "no", "cancelled", "closed", "returned"
    panicked,
    ahead,      \* history: a client sent or left before it had its answer
    dropped,    \* history: an answer was dropped because outQueue was full
    scraps      \* history: how many Reads the network has made return no whole command

conns == <<inbox, scraps, sent, got, ahead, buffer>>
pool == <<jobQueue, worker, stop, panicked>>
vars == <<store, conns, readBuf, reader, txn, writer, cancelled, outQueue, pool, dropped>>

NoJob == [conn |-> Absent, serial |-> 0, cmd |-> "none", puts |-> <<>>]

Init ==
    /\ store = [k \in Keys |-> Absent]
    /\ inbox = [c \in Conns |-> <<>>]
    /\ sent = [c \in Conns |-> 0] /\ scraps = [c \in Conns |-> 0]
    /\ got = [c \in Conns |-> <<>>]
    /\ buffer = [c \in Conns |-> c]
    /\ readBuf = [c \in Conns |-> NoJob]
    /\ reader = [c \in Conns |-> "new"]
    /\ txn = [c \in Conns |-> 0]
    /\ writer = [c \in Conns |-> FALSE]
    /\ cancelled = [c \in Conns |-> FALSE]
    /\ outQueue = [c \in Conns |-> <<>>]
    /\ jobQueue = <<>>
    /\ worker = [w \in Workers |-> NoJob]
    /\ stop = "no"
    /\ panicked = FALSE
    /\ ahead = FALSE
    /\ dropped = [c \in Conns |-> FALSE]

Serving(c) == writer[c] \/ reader[c] \in {"read", "incr"}

\* The buffers that bufferPool may hand out: a new one, or one that a connection gave
\* back when both its loops had ended.
FreeBuffers(c) ==
    ({c} \cup {buffer[d] : d \in {e \in Conns : reader[e] = "exited" /\ ~writer[e]}})
        \ {buffer[d] : d \in {e \in Conns : Serving(e)}}

\* handleConnection; after Stop has begun its loops end at once.
Accept(c) ==
    /\ ~panicked /\ stop = "no" /\ reader[c] = "new"
    /\ \E b \in FreeBuffers(c) : buffer' = [buffer EXCEPT ![c] = b]
    /\ reader' = [reader EXCEPT ![c] = "read"]
    /\ writer' = [writer EXCEPT ![c] = TRUE]
    /\ UNCHANGED <<store, inbox, scraps, sent, got, ahead, readBuf, txn, cancelled, outQueue, pool, dropped>>

Waiting(c) == sent[c] > Len(got[c])

\* A client sends a command, possibly before it has the answers to earlier ones; what
\* it sends after readLoop has ended is never read.
Send(c, command) ==
    /\ ~panicked /\ reader[c] \in {"read", "incr"}
    /\ FoldFunction(+, 0, sent) < MaxSent
    /\ sent[c] - Len(got[c]) < Window
    /\ sent' = [sent EXCEPT ![c] = @ + 1]
    /\ inbox' = [inbox EXCEPT ![c] =
                    Append(@, [conn |-> c, serial |-> sent[c] + 1, cmd |-> command.cmd, puts |-> command.puts])]
    /\ ahead' = (ahead \/ Waiting(c))
    /\ UNCHANGED <<store, scraps, got, buffer, readBuf, reader, txn, writer, cancelled, outQueue, pool, dropped>>

(***************************************************************************)
(* The network.  TCP keeps the bytes in order and nothing else.            *)
(***************************************************************************)
Scrap(c, i, f) == [conn |-> c, serial |-> -(scraps[c] + i), cmd |-> f.cmd, puts |-> f.puts]

\* The next two pieces arrive in one Read: the parser takes the first for a command and
\* ignores the second or, when the two run into each other, sees something else.
Coalesce(c, f) ==
    /\ ~panicked /\ Len(inbox[c]) > 1 /\ scraps[c] < MaxScraps
    /\ inbox' = [inbox EXCEPT ![c] = <<Scrap(c, 1, f)>> \o Tail(Tail(@))]
    /\ scraps' = [scraps EXCEPT ![c] = @ + 1]
    /\ UNCHANGED <<store, sent, got, ahead, buffer, readBuf, reader, txn, writer, cancelled, outQueue, pool, dropped>>

\* The next piece is longer than readBuf, or TCP delivers it in two: each half is parsed
\* as a command and answered.
Cut(c, f, g) ==
    /\ ~panicked /\ scraps[c] + 1 < MaxScraps
    /\ inbox' = [inbox EXCEPT ![c] = <<Scrap(c, 1, f), Scrap(c, 2, g)>> \o Tail(@)]
    /\ scraps' = [scraps EXCEPT ![c] = @ + 2]
    /\ UNCHANGED <<store, sent, got, ahead, buffer, readBuf, reader, txn, writer, cancelled, outQueue, pool, dropped>>

\* What arrives after readLoop has ended is never read, and need not be told apart.
Network(c) ==
    /\ reader[c] \in {"read", "incr"} /\ inbox[c] # <<>>
    /\ \/ \E f \in {Head(inbox[c])} \cup Fragments : Coalesce(c, f)
       \/ \E f, g \in Fragments : Cut(c, f, g)

(***************************************************************************)
(* Answers.                                                                *)
(***************************************************************************)
\* Fault: an answer replaces what is queued.
RespondLatest(c, serial) ==
    /\ outQueue' = [outQueue EXCEPT ![c] = <<serial>>]
    /\ UNCHANGED dropped

\* The select over outQueue, ctx.Done and default: a full queue drops the answer, and
\* so may a connection whose context is done.
Respond(c, serial) ==
    \/ /\ Len(outQueue[c]) < OutCap
       /\ outQueue' = [outQueue EXCEPT ![c] = Append(@, serial)]
       /\ UNCHANGED dropped
    \/ /\ Len(outQueue[c]) >= OutCap /\ ~cancelled[c]
       /\ dropped' = [dropped EXCEPT ![c] = TRUE]
       /\ UNCHANGED outQueue
    \/ /\ cancelled[c]
       /\ UNCHANGED <<outQueue, dropped>>

\* writeLoop sends one answer.
WriteLoop(c) ==
    /\ ~panicked /\ writer[c] /\ outQueue[c] # <<>>
    /\ got' = [got EXCEPT ![c] = Append(@, Head(outQueue[c]))]
    /\ outQueue' = [outQueue EXCEPT ![c] = Tail(@)]
    /\ UNCHANGED <<store, inbox, scraps, sent, readBuf, reader, txn, writer, cancelled, pool, ahead, buffer, dropped>>

\* Writing fails: the answer is gone, and so is the connection.
WriteFails(c) ==
    /\ ~panicked /\ writer[c] /\ outQueue[c] # <<>>
    /\ outQueue' = [outQueue EXCEPT ![c] = Tail(@)]
    /\ writer' = [writer EXCEPT ![c] = FALSE]
    /\ cancelled' = [cancelled EXCEPT ![c] = TRUE]
    /\ UNCHANGED <<store, conns, readBuf, reader, txn, pool, dropped>>

WriterExit(c) ==
    /\ ~panicked /\ writer[c] /\ cancelled[c]
    /\ writer' = [writer EXCEPT ![c] = FALSE]
    /\ UNCHANGED <<store, conns, readBuf, reader, txn, cancelled, outQueue, pool, dropped>>

(***************************************************************************)
(* readLoop.                                                               *)
(***************************************************************************)
\* shouldUseFastPath: SET and DEL take either path, depending on measured latency.
FastCommands == {"GET", "EXISTS", "MGET", "SET", "DEL", "INCR", "DECR"}
SlowCommands == {"SET", "DEL", "MSET", "MDEL", "UNKNOWN"}
CounterCommands == {"INCR", "DECR"}

\* parseCommandExtended refuses a counter command without its key, and takes one key.
ASSUME CounterAssumption ==
    \A c \in Commands \cup Fragments : c.cmd \in CounterCommands => \E k \in Keys : DOMAIN c.puts = {k}

\* The store after a command that is no counter operation; reads leave it alone.
Execute(job) ==
    IF job.cmd \in {"SET", "DEL", "MSET", "MDEL"}
    THEN [k \in Keys |-> IF k \in DOMAIN job.puts THEN job.puts[k] ELSE store[k]]
    ELSE store

\* Read returns the next piece, and overwrites the buffer with it.
ReadNext(c) ==
    /\ ~panicked /\ reader[c] = "read" /\ inbox[c] # <<>>
    /\ readBuf' = [readBuf EXCEPT ![buffer[c]] = Head(inbox[c])]
    /\ inbox' = [inbox EXCEPT ![c] = Tail(@)]
    /\ UNCHANGED <<scraps, sent, got, ahead, buffer, writer, cancelled, stop>>

\* The loop ends at its top once the context is done.
Loop(c) == reader' = [reader EXCEPT ![c] = IF cancelled[c] THEN "exited" ELSE "read"]

\* A command that the reading goroutine answers itself; one that does not parse is
\* answered with an error.
processFastPath(c) ==
    /\ ReadNext(c)
    /\ Head(inbox[c]).cmd \in (FastCommands \cup {"INVALID"}) \ CounterCommands
    /\ store' = Execute(Head(inbox[c]))
    /\ Respond(c, Head(inbox[c]).serial)
    /\ Loop(c)
    /\ UNCHANGED <<txn, jobQueue, worker, panicked>>

\* The command that a connection's buffer holds.
Held(c) == readBuf[buffer[c]]

CounterKey(job) == CHOOSE k \in DOMAIN job.puts : TRUE

\* A value that is no counter counts as zero.
Current(k) == IF store[k] \in Values \cup {Absent} THEN 0 ELSE store[k]

\* Incr and Decr: the transaction's read.
CounterRead(c) ==
    /\ ReadNext(c)
    /\ Head(inbox[c]).cmd \in CounterCommands
    /\ txn' = [txn EXCEPT ![c] = Current(CounterKey(Head(inbox[c])))]
    /\ reader' = [reader EXCEPT ![c] = "incr"]
    /\ UNCHANGED <<store, outQueue, jobQueue, worker, panicked, dropped>>

Step(job) == IF job.cmd = "INCR" THEN 1 ELSE -1

\* Its commit, which no conflict with another transaction stops.
CounterCommit(c) ==
    /\ ~panicked /\ reader[c] = "incr"
    /\ store' = [store EXCEPT ![CounterKey(Held(c))] = txn[c] + Step(Held(c))]
    /\ txn' = [txn EXCEPT ![c] = 0]
    /\ Respond(c, Held(c).serial)
    /\ Loop(c)
    /\ UNCHANGED <<conns, readBuf, writer, cancelled, pool>>

\* Fault: dispatching to a full queue goes through.
DispatchUnbounded(c, job) ==
    /\ jobQueue' = Append(jobQueue, job)
    /\ UNCHANGED <<outQueue, dropped, panicked>>

\* The select of processSlowPath: a closed queue panics, even when the context is done
\* as well and the select might have noticed that instead.
Dispatch(c, job) ==
    \/ /\ stop \in {"closed", "returned"}
       /\ panicked' = TRUE
       /\ UNCHANGED <<outQueue, dropped, jobQueue>>
    \/ /\ stop \notin {"closed", "returned"} /\ Len(jobQueue) < JobCap
       /\ jobQueue' = Append(jobQueue, job)
       /\ UNCHANGED <<outQueue, dropped, panicked>>
    \/ /\ stop \notin {"closed", "returned"} /\ Len(jobQueue) >= JobCap /\ ~cancelled[c]
       /\ Respond(c, job.serial)        \* server busy
       /\ UNCHANGED <<jobQueue, panicked>>
    \/ /\ cancelled[c]
       /\ UNCHANGED <<outQueue, dropped, jobQueue, panicked>>

processSlowPath(c) ==
    /\ ReadNext(c)
    /\ Head(inbox[c]).cmd \in SlowCommands
    /\ Dispatch(c, Head(inbox[c]))
    /\ Loop(c)
    /\ UNCHANGED <<store, txn, worker>>

\* The peer closes, or thirty seconds pass without a byte.
ReaderExit(c) ==
    /\ ~panicked /\ reader[c] = "read"
    /\ reader' = [reader EXCEPT ![c] = "exited"]
    /\ cancelled' = [cancelled EXCEPT ![c] = TRUE]
    /\ ahead' = (ahead \/ Waiting(c))
    /\ UNCHANGED <<store, inbox, scraps, sent, got, buffer, readBuf, txn, writer, outQueue, pool, dropped>>

(***************************************************************************)
(* The worker pool.                                                        *)
(***************************************************************************)
\* Fault: workers end when the queue is closed, not when it is empty.
TakeWhileOpen(w) ==
    /\ ~panicked /\ worker[w] = NoJob /\ jobQueue # <<>> /\ stop \in {"no", "cancelled"}
    /\ worker' = [worker EXCEPT ![w] = Head(jobQueue)]
    /\ jobQueue' = Tail(jobQueue)
    /\ UNCHANGED <<store, conns, readBuf, reader, txn, writer, cancelled, outQueue, stop, panicked, dropped>>

Take(w) ==
    /\ ~panicked /\ worker[w] = NoJob /\ jobQueue # <<>>
    /\ worker' = [worker EXCEPT ![w] = Head(jobQueue)]
    /\ jobQueue' = Tail(jobQueue)
    /\ UNCHANGED <<store, conns, readBuf, reader, txn, writer, cancelled, outQueue, stop, panicked, dropped>>

\* Fault: a buffer goes back to the pool after every request.
ContentsPooled(job) == [DOMAIN job.puts -> Values]

\* What a job's slices hold: its own values or, once the buffer was read into again,
\* any bytes at all.
Contents(job) ==
    IF Held(job.conn) = job \/ job.cmd \in {"DEL", "MDEL"} THEN {job.puts}
    ELSE [DOMAIN job.puts -> Values]

processJob(w) ==
    /\ ~panicked /\ worker[w] # NoJob
    /\ \E puts \in Contents(worker[w]) : store' = Execute([worker[w] EXCEPT !.puts = puts])
    /\ Respond(worker[w].conn, worker[w].serial)
    /\ worker' = [worker EXCEPT ![w] = NoJob]
    /\ UNCHANGED <<conns, readBuf, reader, txn, writer, cancelled, jobQueue, stop, panicked>>

(***************************************************************************)
(* Stop: cancel every context, close the job queue, wait for the workers.  *)
(***************************************************************************)
StopCancel ==
    /\ ~panicked /\ stop = "no"
    /\ stop' = "cancelled"
    /\ cancelled' = [c \in Conns |-> TRUE]
    /\ UNCHANGED <<store, conns, readBuf, reader, txn, writer, outQueue, jobQueue, worker, panicked, dropped>>

StopClose ==
    /\ ~panicked /\ stop = "cancelled"
    /\ stop' = "closed"
    /\ UNCHANGED <<store, conns, readBuf, reader, txn, writer, cancelled, outQueue, jobQueue, worker, panicked, dropped>>

WorkersIdle == \A w \in Workers : worker[w] = NoJob

\* Workers leave their range loop when the closed queue is empty.
StopWait ==
    /\ ~panicked /\ stop = "closed" /\ jobQueue = <<>> /\ WorkersIdle
    /\ stop' = "returned"
    /\ UNCHANGED <<store, conns, readBuf, reader, txn, writer, cancelled, outQueue, jobQueue, worker, panicked, dropped>>

ReaderStep(c) ==
    processFastPath(c) \/ CounterRead(c) \/ CounterCommit(c) \/ processSlowPath(c)

WorkerStep(w) == Take(w) \/ processJob(w)

Next ==
    \/ \E c \in Conns :
        \/ Accept(c)
        \/ \E command \in Commands : Send(c, command)
        \/ Network(c)
        \/ ReaderStep(c)
        \/ ReaderExit(c)
        \/ WriteLoop(c)
        \/ WriteFails(c)
        \/ WriterExit(c)
    \/ \E w \in Workers : WorkerStep(w)
    \/ StopCancel \/ StopClose \/ StopWait

\* Goroutines that can run do run; clients and peers owe nothing.
Spec ==
    /\ Init
    /\ [][Next]_vars
    /\ \A c \in Conns : WF_vars(ReaderStep(c)) /\ WF_vars(WriteLoop(c))
    /\ \A w \in Workers : WF_vars(WorkerStep(w))
    /\ WF_vars(StopClose) /\ WF_vars(StopWait)

(***************************************************************************)
(* Properties.                                                             *)
(***************************************************************************)
\* A command as it was sent, or a piece of the stream that is none.
Job ==
    {j \in [conn : Conns, serial : Int, cmd : {c.cmd : c \in Commands \cup Fragments},
            puts : {c.puts : c \in Commands \cup Fragments}] :
        \E c \in (IF j.serial > 0 THEN Commands ELSE Commands \cup Fragments) :
            j.cmd = c.cmd /\ j.puts = c.puts}

\* Queues keep their capacities and hold what clients sent, or pieces of it.
TypeOK ==
    /\ DOMAIN store = Keys /\ \A k \in Keys : store[k] \in Values \cup {Absent} \cup Int
    /\ inbox \in [Conns -> Seq(Job)]
    /\ sent \in [Conns -> Nat] /\ scraps \in [Conns -> Nat]
    /\ got \in [Conns -> Seq(Int)]
    /\ buffer \in [Conns -> Conns]
    /\ readBuf \in [Conns -> Job \cup {NoJob}]
    /\ reader \in [Conns -> {"new", "read", "incr", "exited"}]
    /\ txn \in [Conns -> Int]
    /\ writer \in [Conns -> BOOLEAN] /\ cancelled \in [Conns -> BOOLEAN]
    /\ outQueue \in [Conns -> Seq(Int)] /\ \A c \in Conns : Len(outQueue[c]) <= OutCap
    /\ jobQueue \in Seq(Job) /\ Len(jobQueue) <= JobCap
    /\ worker \in [Workers -> Job \cup {NoJob}]
    /\ stop \in {"no", "cancelled", "closed", "returned"}
    /\ panicked \in BOOLEAN /\ ahead \in BOOLEAN
    /\ dropped \in [Conns -> BOOLEAN]

Written(k) == {c.puts[k] : c \in {d \in Commands : k \in DOMAIN d.puts}}

\* While every client waits for its answers and every Read returns one whole command, a
\* key only holds values that some command gave it: the buffer that a slow job's values
\* point into is not yet read into again.
ValuesIntact ==
    ~ahead /\ (\A c \in Conns : scraps[c] = 0) =>
        \A k \in Keys : store[k] \in Written(k) \cup {Absent} \cup Int

\* Stop returns once it has started, unless a late command makes the process panic.
StopReturns == (stop = "cancelled") ~> (stop = "returned" \/ panicked)

\* Where command n of connection c can be.
InInbox(c, n) == \E i \in 1..Len(inbox[c]) : inbox[c][i].serial = n
InReader(c, n) == reader[c] = "incr" /\ Held(c).serial = n
InJobQueue(c, n) == \E i \in 1..Len(jobQueue) : jobQueue[i].conn = c /\ jobQueue[i].serial = n
InWorker(c, n) == \E w \in Workers : worker[w].conn = c /\ worker[w].serial = n
InOutQueue(c, n) == \E i \in 1..Len(outQueue[c]) : outQueue[c][i] = n
Received(c, n) == \E i \in 1..Len(got[c]) : got[c][i] = n

Places(c, n) ==
    <<InInbox(c, n), InReader(c, n), InJobQueue(c, n), InWorker(c, n), InOutQueue(c, n), Received(c, n)>>

PlacesOf(c, n) == {i \in 1..6 : Places(c, n)[i]}

\* No command is worked on or answered twice: it is in at most one of inbox, reader, job
\* queue, worker, outQueue and answers.  None vanishes while its connection is in service
\* and the network has torn none of the connection's commands: it is in exactly one.  An
\* answer is dropped only when some client sent ahead or some command was torn, so
\* clients that wait get the answers to their own commands, in order.
CommandsConserved ==
    \A c \in Conns : \A n \in 1..sent[c] :
        /\ Cardinality(PlacesOf(c, n)) <= 1
        /\ ~panicked /\ ~cancelled[c] /\ scraps[c] = 0
              /\ (dropped[c] => ~ahead /\ \A d \in Conns : scraps[d] = 0)
              => PlacesOf(c, n) # {}

================================================================================
