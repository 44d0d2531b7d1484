------------------------------ MODULE LegacyQueue ------------------------------
(***************************************************************************)
(* The head/tail queue of internal/queue/storage.go: Push, Pop, Peek, Len  *)
(* and Clear over the keys queue:meta:<queue> and queue:data:<queue>:<n>.  *)
(* As in QueueStorage an updating call reads the snapshot of its begin and *)
(* applies its writes in a later, atomic and unchecked commit.             *)
(* Push has no caller in the repository: see QueueFacade.                  *)
(***************************************************************************)
EXTENDS Naturals, Sequences

CONSTANTS
    Queues,
    Values,    \* what is pushed
    Procs,     \* goroutines that call the queue
    NoItem,    \* no value under a data key
    MaxSeq     \* bound on the sequence numbers of a queue

Slots == 0 .. MaxSeq - 1

VARIABLES
    meta,    \* [head, tail] of each queue; a missing key reads as 0, 0
    data,    \* data[q][n], NoItem where the key is absent
    txn,     \* the open update of each goroutine
    reply    \* what the last call of each goroutine returned

Idle == [pc |-> "idle"]
Empty == <<>>

Init ==
    /\ meta = [q \in Queues |-> [head |-> 0, tail |-> 0]]
    /\ data = [q \in Queues |-> [n \in Slots |-> NoItem]]
    /\ txn = [p \in Procs |-> Idle]
    /\ reply = [p \in Procs |-> Empty]

\* An update of queue q: the new metadata, the items after it, the return value.
Update(q, head, tail, items, result) ==
    [pc |-> "commit", queue |-> q, meta |-> [head |-> head, tail |-> tail],
     items |-> items, reply |-> result]

PushUpdate(q, v) ==
    Update(q, meta[q].head, meta[q].tail + 1, [n \in {meta[q].tail} |-> v], Empty)

PopUpdate(q) ==
    Update(q, meta[q].head + 1, meta[q].tail, [n \in {meta[q].head} |-> NoItem],
           <<data[q][meta[q].head]>>)

ClearUpdate(q) ==
    Update(q, 0, 0, [n \in meta[q].head .. meta[q].tail - 1 |-> NoItem], Empty)

Begin(p, u) ==
    /\ txn[p] = Idle
    /\ txn' = [txn EXCEPT ![p] = u]
    /\ UNCHANGED <<meta, data, reply>>

Answer(p, r) ==
    /\ txn[p] = Idle
    /\ reply' = [reply EXCEPT ![p] = r]
    /\ UNCHANGED <<meta, data, txn>>

HasItems(q) == meta[q].head < meta[q].tail

\* ErrQueueEmpty, or the error of a data key that is not there.
NothingAtHead(q) == ~HasItems(q) \/ data[q][meta[q].head] = NoItem

Push(p, q, v) == meta[q].tail < MaxSeq /\ Begin(p, PushUpdate(q, v))

Pop(p, q) ==
    IF NothingAtHead(q) THEN Answer(p, Empty) ELSE Begin(p, PopUpdate(q))

Peek(p, q) ==
    Answer(p, IF NothingAtHead(q) THEN Empty ELSE <<data[q][meta[q].head]>>)

Length(p, q) ==
    Answer(p, <<IF HasItems(q) THEN meta[q].tail - meta[q].head ELSE 0>>)

Clear(p, q) == Begin(p, ClearUpdate(q))

Commit(p) ==
    /\ txn[p].pc = "commit"
    /\ LET u == txn[p]
       IN  /\ meta' = [meta EXCEPT ![u.queue] = u.meta]
           /\ data' = [data EXCEPT ![u.queue] =
                          [n \in Slots |-> IF n \in DOMAIN u.items THEN u.items[n] ELSE @[n]]]
           /\ reply' = [reply EXCEPT ![p] = u.reply]
    /\ txn' = [txn EXCEPT ![p] = Idle]

Crash ==
    /\ txn' = [p \in Procs |-> Idle]
    /\ reply' = [p \in Procs |-> Empty]
    /\ UNCHANGED <<meta, data>>

=============================================================================
