----------------------------- MODULE QueueStorage -----------------------------
(***************************************************************************)
(* The acknowledged message queue of internal/queue: storage_ack.go and    *)
(* the calls of the facade queue.go that lead to it.                       *)
(*                                                                         *)
(* Every storage call runs in one Badger transaction, and NewStorage opens *)
(* the database with DetectConflicts = false.  A transaction reads the     *)
(* snapshot of its begin, buffers its writes and applies them in one       *)
(* atomic commit, whatever other transactions committed in between.  So an *)
(* operation is two steps here: the step that reads the snapshot and       *)
(* computes the write batch, and Commit, which applies that batch to the   *)
(* store of a later moment.                                                *)
(***************************************************************************)
EXTENDS Naturals

CONSTANTS
    Queues,         \* queue names (the empty name is refused by every call)
    MsgIds,         \* message ids: uuid strings, ordered as index keys are
    Procs,          \* goroutines that call the queue
    NoMsg,          \* no value under a message key
    NoQueue,        \* the empty DeadLetterQueue of a configuration
    PushQueues,     \* the queues clients push to
    DlqCalls,       \* the arguments <<queue, dlq, maxRetries>> of SetDeadLetterQueue
    Timeouts,       \* the visibilityTimeout arguments of PopMessage
    MaxTime,        \* bound on the clock
    MaxDeliveries   \* bound on the stored delivery count

ASSUME QueueAssumption ==
    /\ MsgIds \subseteq Nat
    /\ NoQueue \notin Queues
    /\ PushQueues \subseteq Queues
    /\ DlqCalls \subseteq Queues \X (Queues \cup {NoQueue}) \X Nat
    /\ Timeouts \subseteq Nat
    /\ MaxTime \in Nat
    /\ MaxDeliveries \in Nat

Pending == "pending"
InFlight == "inflight"

(***************************************************************************)
(* The stored form of a QueueMessage.  EnqueuedAt, ConsumerID and          *)
(* MaxRetries are written and never read, so they are left out.  The value *)
(* of a message is the id it was pushed under: a dead-letter copy has a    *)
(* new id and the old value.                                               *)
(***************************************************************************)
Messages ==
    [value : MsgIds, state : {Pending, InFlight}, deliveryCount : Nat,
     inFlightAt : Nat, visibilityTimeout : Nat]

Configs == [deadLetterQueue : Queues \cup {NoQueue}, maxRetries : Nat]

MessageKeys == Queues \X MsgIds
IndexKeys == Queues \X {Pending, InFlight} \X MsgIds

ASSUME NoMsgAssumption == NoMsg \notin Messages

VARIABLES
    msgs,       \* queue:msg:<queue>:<id>, NoMsg where the key is absent
    index,      \* the keys queue:idx:<queue>:<state>:<id> that are present
    config,     \* queue:config:<queue>
    txn,        \* the open transaction of each goroutine
    now,        \* time.Now().UnixMilli()
    handles,    \* keys of the MessageHandles that PopMessage returned
    issued,     \* uuids generated so far
    settled,    \* history: values acked or rejected for good
    origin,     \* history: the value stored under each id
    deliveries  \* history: deliveries of each id since it was last put back

store == <<msgs, index, config>>
history == <<settled, origin, deliveries>>
vars == <<msgs, index, config, txn, now, handles, issued, settled, origin, deliveries>>

Idle == [pc |-> "idle"]

Init ==
    /\ msgs = [k \in MessageKeys |-> NoMsg]
    /\ index = {}
    /\ config = [q \in Queues |-> [deadLetterQueue |-> NoQueue, maxRetries |-> 3]]
    /\ txn = [p \in Procs |-> Idle]
    /\ now = 0
    /\ handles = {}
    /\ issued = {}
    /\ settled = {}
    /\ origin = [i \in MsgIds |-> i]
    /\ deliveries = [i \in MsgIds |-> 0]

-----------------------------------------------------------------------------
(***************************************************************************)
(* Write batches.  puts maps message keys to what the transaction writes   *)
(* under them (NoMsg for a Delete); del and add are the index keys it      *)
(* deletes and sets.  A Set after a Delete of the same key wins, which is  *)
(* the order of every function below.                                      *)
(***************************************************************************)
Batch(op, puts, del, add, settles) ==
    [pc |-> "commit", op |-> op, puts |-> puts, del |-> del, add |-> add,
     settles |-> settles]

NewMessage(value, count) ==
    [value |-> value, state |-> Pending, deliveryCount |-> count,
     inFlightAt |-> 0, visibilityTimeout |-> 0]

PushBatch(q, id) ==
    Batch("push", [k \in {<<q, id>>} |-> NewMessage(id, 0)],
          {}, {<<q, Pending, id>>}, {})

\* Fault: the pending index key is not deleted.
PopKeepsPendingKey(q, id, m, timeout) ==
    Batch("pop",
          [k \in {<<q, id>>} |->
              [m EXCEPT !.state = InFlight, !.inFlightAt = now,
                        !.visibilityTimeout = timeout,
                        !.deliveryCount = m.deliveryCount + 1]],
          {}, {<<q, InFlight, id>>}, {})

PopBatch(q, id, m, timeout) ==
    Batch("pop",
          [k \in {<<q, id>>} |->
              [m EXCEPT !.state = InFlight, !.inFlightAt = now,
                        !.visibilityTimeout = timeout,
                        !.deliveryCount = m.deliveryCount + 1]],
          {<<q, Pending, id>>}, {<<q, InFlight, id>>}, {})

\* Fault: the index key is taken to be the in-flight one.
RemoveInFlightKey(op, q, id, m) ==
    Batch(op, [k \in {<<q, id>>} |-> NoMsg], {<<q, InFlight, id>>}, {}, {m.value})

RemoveBatch(op, q, id, m) ==
    Batch(op, [k \in {<<q, id>>} |-> NoMsg], {<<q, m.state, id>>}, {}, {m.value})

BackToPending(m) == [m EXCEPT !.state = Pending, !.inFlightAt = 0]

\* Fault: the new index key is set before the old one is deleted, and the two may be
\* the same key.
RequeueSetsThenDeletes(q, id, m) ==
    Batch("requeue", [k \in {<<q, id>>} |-> BackToPending(m)],
          {<<q, m.state, id>>}, {<<q, Pending, id>>} \ {<<q, m.state, id>>}, {})

RequeueBatch(q, id, m) ==
    Batch("requeue", [k \in {<<q, id>>} |-> BackToPending(m)],
          {<<q, m.state, id>>}, {<<q, Pending, id>>}, {})

\* Fault: the copy is left to a second transaction.
MoveWithoutCopy(q, id, m, dlq, newId) ==
    Batch("deadletter", [k \in {<<q, id>>} |-> NoMsg], {<<q, m.state, id>>}, {}, {})

\* Fault: the source message is not deleted.
MoveKeepsSource(q, id, m, dlq, newId) ==
    Batch("deadletter", [k \in {<<dlq, newId>>} |-> NewMessage(m.value, m.deliveryCount)],
          {}, {<<dlq, Pending, newId>>}, {})

\* Fault: the copy is stored in the dead-letter state.
MoveAsDeadLetter(q, id, m, dlq, newId) ==
    Batch("deadletter",
          [k \in {<<q, id>>, <<dlq, newId>>} |->
              IF k = <<q, id>> THEN NoMsg
              ELSE [NewMessage(m.value, m.deliveryCount) EXCEPT !.state = "deadletter"]],
          {<<q, m.state, id>>}, {<<dlq, "deadletter", newId>>}, {})

moveToDeadLetter(q, id, m, dlq, newId) ==
    Batch("deadletter",
          [k \in {<<q, id>>, <<dlq, newId>>} |->
              IF k = <<q, id>> THEN NoMsg ELSE NewMessage(m.value, m.deliveryCount)],
          {<<q, m.state, id>>}, {<<dlq, Pending, newId>>}, {})

\* Fault: the comparison is the wrong way round.
NotYetExpired(q, t) ==
    {id \in MsgIds :
        /\ <<q, InFlight, id>> \in index
        /\ msgs[<<q, id>>] # NoMsg
        /\ msgs[<<q, id>>].visibilityTimeout > 0
        /\ msgs[<<q, id>>].inFlightAt + msgs[<<q, id>>].visibilityTimeout > t}

\* The ids of q the index shows in flight whose stored message has timed out at t.
Expired(q, t) ==
    {id \in MsgIds :
        /\ <<q, InFlight, id>> \in index
        /\ msgs[<<q, id>>] # NoMsg
        /\ msgs[<<q, id>>].visibilityTimeout > 0
        /\ msgs[<<q, id>>].inFlightAt + msgs[<<q, id>>].visibilityTimeout < t}

ExpiredBatch(q, t) ==
    Batch("requeue",
          [k \in {q} \X Expired(q, t) |-> BackToPending(msgs[k])],
          {<<q, InFlight, id>> : id \in Expired(q, t)},
          {<<q, Pending, id>> : id \in Expired(q, t)}, {})

-----------------------------------------------------------------------------
(***************************************************************************)
(* The operations: what each transaction does up to its commit.            *)
(***************************************************************************)
Buffer(p, b) == txn' = [txn EXCEPT ![p] = b]

PushMessage(p, q) ==
    /\ txn[p] = Idle
    /\ \E id \in MsgIds \ issued :
          /\ issued' = issued \cup {id}
          /\ Buffer(p, PushBatch(q, id))
    /\ UNCHANGED <<store, now, handles, history>>

\* The first index key under the pending prefix.  A key without a message is the
\* error return of txn.Get, as the empty prefix is ErrQueueEmpty: nothing is written.
FirstPending(q) ==
    {id \in MsgIds :
        /\ <<q, Pending, id>> \in index
        /\ \A other \in MsgIds : <<q, Pending, other>> \in index => id <= other}

PopMessage(p, q, timeout) ==
    /\ txn[p] = Idle
    /\ \E id \in FirstPending(q) :
          /\ msgs[<<q, id>>] # NoMsg
          /\ msgs[<<q, id>>].deliveryCount < MaxDeliveries
          /\ Buffer(p, PopBatch(q, id, msgs[<<q, id>>], timeout))
    /\ UNCHANGED <<store, now, handles, issued, history>>

AckMessage(p, q, id) ==
    /\ txn[p] = Idle
    /\ msgs[<<q, id>>] # NoMsg
    /\ Buffer(p, RemoveBatch("ack", q, id, msgs[<<q, id>>]))
    /\ UNCHANGED <<store, now, handles, issued, history>>

\* NackMessage reads the message from its snapshot ...
NackMessage(p, q, id, requeue) ==
    /\ txn[p] = Idle
    /\ msgs[<<q, id>>] # NoMsg
    /\ Buffer(p, [pc |-> "nack", queue |-> q, id |-> id, requeue |-> requeue,
                  msg |-> msgs[<<q, id>>]])
    /\ UNCHANGED <<store, now, handles, issued, history>>

RetriesExhausted(m, cfg) ==
    m.deliveryCount >= cfg.maxRetries /\ cfg.maxRetries > 0

\* ... and the configuration in a second, later transaction (GetQueueConfig).
NackDecide(p) ==
    /\ txn[p].pc = "nack"
    /\ LET t == txn[p]
           cfg == config[t.queue]
           exhausted == RetriesExhausted(t.msg, cfg)
       IN  \/ /\ exhausted
              /\ cfg.deadLetterQueue # NoQueue
              /\ \E newId \in MsgIds \ issued :
                    /\ issued' = issued \cup {newId}
                    /\ origin' = [origin EXCEPT ![newId] = t.msg.value]
                    /\ Buffer(p, moveToDeadLetter(t.queue, t.id, t.msg,
                                                  cfg.deadLetterQueue, newId))
           \/ /\ IF exhausted THEN cfg.deadLetterQueue = NoQueue ELSE ~t.requeue
              /\ Buffer(p, RemoveBatch("reject", t.queue, t.id, t.msg))
              /\ UNCHANGED <<issued, origin>>
           \/ /\ ~exhausted
              /\ t.requeue
              /\ Buffer(p, RequeueBatch(t.queue, t.id, t.msg))
              /\ UNCHANGED <<issued, origin>>
    /\ UNCHANGED <<store, now, handles, settled, deliveries>>

\* RequeueExpiredMessages reads the clock before its transaction begins.
RequeueExpiredMessages(p, q) ==
    /\ txn[p] = Idle
    /\ Buffer(p, [pc |-> "requeue", queue |-> q, now |-> now])
    /\ UNCHANGED <<store, now, handles, issued, history>>

RequeueScan(p) ==
    /\ txn[p].pc = "requeue"
    /\ Buffer(p, ExpiredBatch(txn[p].queue, txn[p].now))
    /\ UNCHANGED <<store, now, handles, issued, history>>

\* Apply a write batch: Badger's commit without conflict detection.
Apply(b) ==
    /\ msgs' = [k \in MessageKeys |-> IF k \in DOMAIN b.puts THEN b.puts[k] ELSE msgs[k]]
    /\ index' = (index \ b.del) \cup b.add

Touches(b, i) == \E k \in DOMAIN b.puts : k[2] = i

Commit(p) ==
    /\ txn[p].pc = "commit"
    /\ LET b == txn[p]
       IN  /\ Apply(b)
           /\ handles' = IF b.op = "pop" THEN handles \cup DOMAIN b.puts ELSE handles
           /\ settled' = settled \cup b.settles
           /\ deliveries' =
                 [i \in MsgIds |->
                     CASE b.op = "pop" /\ Touches(b, i) -> deliveries[i] + 1
                       [] b.op = "requeue" /\ Touches(b, i) -> 0
                       [] OTHER -> deliveries[i]]
    /\ Buffer(p, Idle)
    /\ UNCHANGED <<config, now, issued, origin>>

\* SetDeadLetterQueue: the read of the old configuration only keeps the default
\* visibility timeout, which no operation of this module reads.
SetDeadLetterQueue(q, dlq, maxRetries) ==
    /\ config' = [config EXCEPT ![q] = [deadLetterQueue |-> dlq, maxRetries |-> maxRetries]]
    /\ UNCHANGED <<msgs, index, txn, now, handles, issued, history>>

-----------------------------------------------------------------------------
Tick ==
    /\ now < MaxTime
    /\ now' = now + 1
    /\ UNCHANGED <<store, txn, handles, issued, history>>

\* The process dies and starts again: open transactions and handles are gone,
\* what committed is kept.
Crash ==
    /\ txn' = [p \in Procs |-> Idle]
    /\ handles' = {}
    /\ UNCHANGED <<store, now, issued, history>>

Call(p) ==
    \/ \E q \in PushQueues : PushMessage(p, q)
    \/ \E q \in Queues, timeout \in Timeouts : PopMessage(p, q, timeout)
    \/ \E k \in handles : AckMessage(p, k[1], k[2])
    \/ \E k \in handles, requeue \in BOOLEAN : NackMessage(p, k[1], k[2], requeue)
    \/ \E q \in Queues : RequeueExpiredMessages(p, q)

TxnStep(p) == NackDecide(p) \/ RequeueScan(p) \/ Commit(p)

Next ==
    \/ \E p \in Procs : Call(p) \/ TxnStep(p)
    \/ \E c \in DlqCalls : SetDeadLetterQueue(c[1], c[2], c[3])
    \/ Tick
    \/ Crash

Spec == Init /\ [][Next]_vars

-----------------------------------------------------------------------------
(***************************************************************************)
(* Types.                                                                  *)
(***************************************************************************)
\* The write batches that touch exactly the message keys K.
BatchesOn(K) ==
    [pc : {"commit"},
     op : {"push", "pop", "ack", "reject", "requeue", "deadletter"},
     puts : [K -> Messages \cup {NoMsg}],
     del : SUBSET IndexKeys, add : SUBSET IndexKeys, settles : SUBSET MsgIds]

Nacks ==
    [pc : {"nack"}, queue : Queues, id : MsgIds, requeue : BOOLEAN, msg : Messages]

Requeues == [pc : {"requeue"}, queue : Queues, now : Nat]

TxnOK(t) ==
    \/ t = Idle
    \/ t \in Nacks
    \/ t \in Requeues
    \/ /\ t.pc = "commit"
       /\ DOMAIN t.puts \subseteq MessageKeys
       /\ t \in BatchesOn(DOMAIN t.puts)

\* Type invariant.
TypeOK ==
    /\ msgs \in [MessageKeys -> Messages \cup {NoMsg}]
    /\ index \in SUBSET IndexKeys
    /\ config \in [Queues -> Configs]
    /\ DOMAIN txn = Procs
    /\ \A p \in Procs : TxnOK(txn[p])
    /\ now \in Nat
    /\ handles \in SUBSET MessageKeys
    /\ issued \in SUBSET MsgIds
    /\ settled \in SUBSET MsgIds
    /\ origin \in [MsgIds -> MsgIds]
    /\ deliveries \in [MsgIds -> Nat]

-----------------------------------------------------------------------------
(***************************************************************************)
(* What holds whatever transactions overlap.                               *)
(***************************************************************************)
Stored == {k \in MessageKeys : msgs[k] # NoMsg}

\* A stored message always has the index key of its state.  PopMessage and
\* RequeueExpiredMessages find messages only through the index, so a message
\* without its key could never be delivered or timed out again.
IndexCoversMessages ==
    \A k \in Stored : <<k[1], msgs[k].state, k[2]>> \in index

\* Values that are in the store or were acknowledged or rejected.
Accounted == settled \cup {msgs[k].value : k \in Stored}

\* No step drops a value: whatever commits over whatever, and wherever the process
\* dies, a pushed value stays stored until an Ack or a final Nack settles it.
NothingLost == [][Accounted \subseteq Accounted']_vars

-----------------------------------------------------------------------------
(***************************************************************************)
(* What holds while transactions do not overlap (one goroutine).           *)
(***************************************************************************)
\* An index key stands for a stored message in that state.  A pending key without
\* its message would be the first key of every PopMessage and fail them all.
IndexIsExact ==
    \A key \in index :
        /\ msgs[<<key[1], key[3]>>] # NoMsg
        /\ msgs[<<key[1], key[3]>>].state = key[2]

\* A message is handed out again only after it was put back (TestConcurrentConsumers
\* expects ten processed messages for ten pushes).
RedeliveryNeedsRequeue ==
    \A i \in MsgIds : deliveries[i] <= 1

\* The one stored copy of a value, if there is exactly one.
Copies(v) == {k \in Stored : msgs[k].value = v}

StageOf(v) ==
    IF Copies(v) = {} THEN IF v \in settled THEN "gone" ELSE "absent"
    ELSE IF \A k1, k2 \in Copies(v) : k1 = k2
         THEN msgs[CHOOSE k \in Copies(v) : TRUE].state
         ELSE "duplicated"

PlaceOf(v) ==
    IF Copies(v) = {} THEN NoQueue ELSE (CHOOSE k \in Copies(v) : TRUE)[1]

Lifecycle == INSTANCE MessageLifecycle
    WITH Values <- MsgIds,
         stage <- [v \in MsgIds |-> StageOf(v)],
         place <- [v \in MsgIds |-> PlaceOf(v)]

\* Run by one goroutine, the store implements the life cycle of a message: one place
\* at a time, delivered only from pending, gone for good once acknowledged.
ImplementsLifecycle == Lifecycle!Spec

=============================================================================
