-------------------------------- MODULE StreamLog --------------------------------
(***************************************************************************)
(* One topic partition of internal/stream: Publish and PublishBatch        *)
(* through the atomic offset counter and the shared write buffer, the      *)
(* goroutines that flush the buffer, retention, and a consumer group that  *)
(* fetches from the partition and commits its offset.                      *)
(***************************************************************************)
EXTENDS Integers, FiniteSets

CONSTANTS
    Publishers,    \* goroutines that publish
    Consumers,     \* goroutines that consume for the group
    Worker,        \* the goroutine of flushWorker
    Spawned,       \* goroutines AppendMessage may start to flush
    None,
    BatchSizes,    \* messages of one PublishBatch (1: Publish)
    FlushSize,     \* buffered messages that start a flush (1000 in the code)
    MaxTxn,        \* messages one Badger transaction can hold
    MaxCount,      \* messages a fetch returns at most
    RetentionMs,
    MaxOffset,     \* bound on the offsets handed out, one fewer after every restart
    MaxEpoch,      \* bound on restarts
    MaxStrays,     \* bound on goroutines left behind with an offset to cache
    MaxTime        \* bound on the clock

Flushers == Consumers \cup Spawned \cup {Worker}

ASSUME StreamAssumption ==
    /\ Worker \notin Consumers \cup Spawned
    /\ Consumers \cap Spawned = {}
    /\ BatchSizes \subseteq Nat \ {0}
    /\ FlushSize \in Nat /\ MaxTxn \in Nat /\ MaxCount \in Nat /\ RetentionMs \in Nat
    /\ MaxOffset \in Nat /\ MaxEpoch \in Nat /\ MaxTime \in Nat /\ MaxStrays \in Nat
    /\ None \notin Nat

VARIABLES
    epoch,       \* how often the process was restarted
    now,
    nextOffset,  \* the partition's atomic counter plus one
    pub,         \* each publisher: messages left, offset taken, batch or not
    buffer,      \* writeBuffer
    flight,      \* what each flusher swapped out and has not committed
    spawn,       \* flush goroutines that were started and have not swapped yet
    stored,      \* messages in Badger, one per offset
    cache,       \* offsetCache entry of the group, None if absent
    saved,       \* committed offset in storage, 0 if absent
    con,         \* each consumer: where it is, its offset, what it fetched
    stray,       \* offsets that goroutines nobody waits for looked up and have yet to cache
    acked,       \* history: messages whose publish returned
    gone,        \* history: messages lost to an oversized flush or to retention
    delivered    \* history: messages returned to some consumer

logVars == <<nextOffset, pub, buffer, flight, spawn, stored>>
groupVars == <<cache, saved, con, stray>>
history == <<acked, gone, delivered>>
vars == <<epoch, now, nextOffset, pub, buffer, flight, spawn, stored, cache, saved,
          con, stray, acked, gone, delivered>>

Messages ==
    [offset : Nat, by : Publishers, epoch : Nat, ts : Nat]

NotPublishing == [left |-> 0, offset |-> None, batch |-> FALSE]
NotConsuming == [pc |-> "idle", offset |-> 0, got |-> {}]

Init ==
    /\ epoch = 0
    /\ now = 0
    /\ nextOffset = 0
    /\ pub = [p \in Publishers |-> NotPublishing]
    /\ buffer = {}
    /\ flight = [f \in Flushers |-> {}]
    /\ spawn = {}
    /\ stored = {}
    /\ cache = None
    /\ saved = 0
    /\ con = [c \in Consumers |-> NotConsuming]
    /\ stray = {}
    /\ acked = {}
    /\ gone = {}
    /\ delivered = {}

-----------------------------------------------------------------------------
(***************************************************************************)
(* Publishing.                                                             *)
(***************************************************************************)
\* Fault: the counter is read and not incremented.
TakeWithoutAdd(p, n, isBatch) ==
    /\ nextOffset + epoch <= MaxOffset
    /\ pub' = [pub EXCEPT ![p] = [left |-> n, offset |-> nextOffset, batch |-> isBatch]]
    /\ UNCHANGED <<epoch, now, nextOffset, buffer, flight, spawn, stored, groupVars, history>>

\* getPartitionOffset(...).Add(1), for the first of n messages or a later one.
TakeOffset(p, n, isBatch) ==
    /\ nextOffset + epoch <= MaxOffset
    /\ nextOffset' = nextOffset + 1
    /\ pub' = [pub EXCEPT ![p] = [left |-> n, offset |-> nextOffset, batch |-> isBatch]]
    /\ UNCHANGED <<epoch, now, buffer, flight, spawn, stored, groupVars, history>>

Publish(p, n) == pub[p] = NotPublishing /\ TakeOffset(p, n, n > 1)

NextOfBatch(p) ==
    /\ pub[p].left > 0 /\ pub[p].offset = None
    /\ TakeOffset(p, pub[p].left, pub[p].batch)

\* The append under writeBufferMu.  AppendMessage starts a goroutine to flush a large
\* buffer; AppendMessageBatch only signals the worker.
Append(p) ==
    /\ pub[p].offset # None
    /\ LET m == [offset |-> pub[p].offset, by |-> p, epoch |-> epoch, ts |-> now]
           large == ~pub[p].batch /\ Cardinality(buffer) + 1 >= FlushSize
       IN  /\ buffer' = buffer \cup {m}
           /\ acked' = acked \cup {m}
           /\ IF large
              THEN \E s \in Spawned \ spawn : flight[s] = {} /\ spawn' = spawn \cup {s}
              ELSE UNCHANGED spawn
    /\ pub' = [pub EXCEPT ![p] =
                  IF @.left = 1 THEN NotPublishing
                  ELSE [left |-> @.left - 1, offset |-> None, batch |-> @.batch]]
    /\ UNCHANGED <<epoch, now, nextOffset, flight, stored, groupVars, gone, delivered>>

-----------------------------------------------------------------------------
(***************************************************************************)
(* flushWrites: swap the buffer under its mutex, then write what was       *)
(* swapped out in one transaction.  A transaction that is too big returns  *)
(* an error that every caller ignores.                                     *)
(***************************************************************************)
\* Fault: a flush beside the worker's clears the buffer without taking it.
SwapForgets(f) ==
    /\ flight' = [flight EXCEPT ![f] = IF flight[Worker] # {} THEN {} ELSE buffer]
    /\ buffer' = {}

Swap(f) ==
    /\ flight' = [flight EXCEPT ![f] = buffer]
    /\ buffer' = {}

OffsetsOf(S) == {m.offset : m \in S}

Overwrite(S) == {m \in stored : m.offset \notin OffsetsOf(S)} \cup S

WriteOut(f) ==
    /\ IF Cardinality(flight[f]) <= MaxTxn
       THEN stored' = Overwrite(flight[f]) /\ UNCHANGED gone
       ELSE gone' = gone \cup flight[f] /\ UNCHANGED stored
    /\ flight' = [flight EXCEPT ![f] = {}]

\* Fault: only a large buffer is flushed.
FlushWhenLarge ==
    /\ flight[Worker] = {}
    /\ Cardinality(buffer) >= FlushSize
    /\ Swap(Worker)
    /\ UNCHANGED <<epoch, now, nextOffset, pub, spawn, stored, groupVars, history>>

\* The ticker, or the signal of a large batch.
WorkerFlush ==
    /\ flight[Worker] = {}
    /\ buffer # {}
    /\ Swap(Worker)
    /\ UNCHANGED <<epoch, now, nextOffset, pub, spawn, stored, groupVars, history>>

SpawnedFlush(s) ==
    /\ s \in spawn
    /\ spawn' = spawn \ {s}
    /\ Swap(s)
    /\ UNCHANGED <<epoch, now, nextOffset, pub, stored, groupVars, history>>

FlushCommit(f) ==
    /\ f \in Spawned \cup {Worker}
    /\ flight[f] # {}
    /\ WriteOut(f)
    /\ UNCHANGED <<epoch, now, nextOffset, pub, buffer, spawn, groupVars, acked, delivered>>

\* DeleteOldMessages on a tick of retentionLoop.  The transaction detects conflicts.
Retention ==
    /\ LET old == {m \in stored : m.ts + RetentionMs < now}
       IN  /\ old # {}
           /\ stored' = stored \ old
           /\ gone' = gone \cup old
    /\ UNCHANGED <<epoch, now, nextOffset, pub, buffer, flight, spawn, groupVars,
                   acked, delivered>>

-----------------------------------------------------------------------------
(***************************************************************************)
(* Consume and Commit.                                                     *)
(***************************************************************************)
At(c, where) == con[c].pc = where

\* getCachedOffset: the cache, or on a miss the storage and then the cache.
ReadOffset(c) ==
    /\ At(c, "idle")
    /\ con' = [con EXCEPT ![c] =
                  IF cache = None THEN [pc |-> "fill", offset |-> saved, got |-> {}]
                                  ELSE [pc |-> "flush", offset |-> cache, got |-> {}]]
    /\ UNCHANGED <<epoch, now, logVars, cache, saved, stray, history>>

FillCache(c) ==
    /\ At(c, "fill")
    /\ cache' = con[c].offset
    /\ con' = [con EXCEPT ![c].pc = "flush"]
    /\ UNCHANGED <<epoch, now, logVars, saved, stray, history>>

\* Consume collects what it needs from the other partitions and returns while the
\* goroutine of this one still has its lookup to cache.  It does so later, over whatever
\* was committed meanwhile; its flush is one like any other and nobody gets its answer.
LeaveBehind(c) ==
    /\ At(c, "fill")
    /\ Cardinality(stray) < MaxStrays
    /\ stray' = stray \cup {con[c].offset}
    /\ con' = [con EXCEPT ![c] = NotConsuming]
    /\ UNCHANGED <<epoch, now, logVars, cache, saved, history>>

StrayFill ==
    /\ \E o \in stray : cache' = o /\ stray' = stray \ {o}
    /\ UNCHANGED <<epoch, now, logVars, saved, con, history>>

\* FetchMessages: flush, then read a snapshot.
FetchFlush(c) ==
    /\ At(c, "flush")
    /\ Swap(c)
    /\ con' = [con EXCEPT ![c].pc = IF buffer = {} THEN "read" ELSE "commit"]
    /\ UNCHANGED <<epoch, now, nextOffset, pub, spawn, stored, cache, saved, stray, history>>

FetchCommit(c) ==
    /\ At(c, "commit")
    /\ WriteOut(c)
    /\ con' = [con EXCEPT ![c].pc = "read"]
    /\ UNCHANGED <<epoch, now, nextOffset, pub, buffer, spawn, cache, saved, stray, acked, delivered>>

\* The first MaxCount stored messages from the offset on.
Fetched(from) ==
    {m \in stored :
        /\ m.offset >= from
        /\ Cardinality({o \in OffsetsOf(stored) : from <= o /\ o < m.offset}) < MaxCount}

FetchRead(c) ==
    /\ At(c, "read")
    /\ LET got == Fetched(con[c].offset)
       IN  /\ delivered' = delivered \cup got
           /\ con' = [con EXCEPT ![c] =
                         IF got = {} THEN NotConsuming
                         ELSE [@ EXCEPT !.pc = "got", !.got = got]]
    /\ UNCHANGED <<epoch, now, logVars, cache, saved, stray, acked, gone>>

\* Fault: the offset before the last message is committed.
CommitPrevious(c) ==
    /\ At(c, "got")
    /\ \E m \in con[c].got :
          /\ cache' = m.offset - 1
          /\ con' = [con EXCEPT ![c] = [pc |-> "persist", offset |-> m.offset - 1, got |-> {}]]
    /\ UNCHANGED <<epoch, now, logVars, saved, stray, history>>

\* The client commits the offset after the last message it got, or gives up.
CommitCache(c) ==
    /\ At(c, "got")
    /\ \E m \in con[c].got :
          /\ \A other \in con[c].got : other.offset <= m.offset
          /\ cache' = m.offset + 1
          /\ con' = [con EXCEPT ![c] = [pc |-> "persist", offset |-> m.offset + 1, got |-> {}]]
    /\ UNCHANGED <<epoch, now, logVars, saved, stray, history>>

CommitStore(c) ==
    /\ At(c, "persist")
    /\ saved' = con[c].offset
    /\ con' = [con EXCEPT ![c] = NotConsuming]
    /\ UNCHANGED <<epoch, now, logVars, cache, stray, history>>

GiveUp(c) ==
    /\ At(c, "got")
    /\ con' = [con EXCEPT ![c] = NotConsuming]
    /\ UNCHANGED <<epoch, now, logVars, cache, saved, stray, history>>

-----------------------------------------------------------------------------
InMemory == buffer \cup UNION {flight[f] : f \in Flushers}

\* The process dies and starts again.  The counter is loaded from a key that nothing
\* writes, so it starts at the beginning.  What was only in memory is lost, and the
\* histories go on with what is stored.
Crash ==
    /\ epoch < MaxEpoch
    /\ epoch' = epoch + 1
    /\ nextOffset' = 0
    /\ pub' = [p \in Publishers |-> NotPublishing]
    /\ buffer' = {}
    /\ flight' = [f \in Flushers |-> {}]
    /\ spawn' = {}
    /\ cache' = None
    /\ con' = [c \in Consumers |-> NotConsuming]
    /\ stray' = {}
    /\ acked' = acked \cap stored
    /\ gone' = {}
    /\ delivered' = delivered \cap stored
    /\ UNCHANGED <<now, stored, saved>>

Tick ==
    /\ now < MaxTime
    /\ now' = now + 1
    /\ UNCHANGED <<epoch, logVars, groupVars, history>>

PublisherStep(p) == (\E n \in BatchSizes : Publish(p, n)) \/ NextOfBatch(p) \/ Append(p)

ConsumerStep(c) ==
    \/ ReadOffset(c) \/ FillCache(c) \/ LeaveBehind(c) \/ FetchFlush(c) \/ FetchCommit(c) \/ FetchRead(c)
    \/ CommitCache(c) \/ CommitStore(c) \/ GiveUp(c)

Next ==
    \/ \E p \in Publishers : PublisherStep(p)
    \/ \E c \in Consumers : ConsumerStep(c)
    \/ StrayFill
    \/ WorkerFlush
    \/ \E s \in Spawned : SpawnedFlush(s)
    \/ \E f \in Spawned \cup {Worker} : FlushCommit(f)
    \/ Retention
    \/ Crash
    \/ Tick

Spec == Init /\ [][Next]_vars

\* The flush goroutines are scheduled, the ticker fires every 10 ms, and a fetch that
\* began its flush goes on.
Fairness ==
    /\ WF_vars(WorkerFlush)
    /\ \A f \in Spawned \cup {Worker} : WF_vars(FlushCommit(f))
    /\ \A c \in Consumers : WF_vars(FetchCommit(c))

FairSpec == Spec /\ Fairness

-----------------------------------------------------------------------------
\* Type invariant.
TypeOK ==
    /\ epoch \in Nat /\ now \in Nat /\ nextOffset \in Nat
    /\ pub \in [Publishers -> [left : Nat, offset : Nat \cup {None}, batch : BOOLEAN]]
    /\ buffer \subseteq Messages
    /\ DOMAIN flight = Flushers /\ \A f \in Flushers : flight[f] \subseteq Messages
    /\ spawn \subseteq Spawned
    /\ stored \subseteq Messages
    /\ cache \in Nat \cup {None}
    /\ saved \in Nat /\ stray \subseteq Nat
    /\ DOMAIN con = Consumers
    /\ \A c \in Consumers :
          /\ con[c].pc \in {"idle", "fill", "flush", "commit", "read", "got", "persist"}
          /\ con[c].offset \in Nat
          /\ con[c].got \subseteq Messages
    /\ acked \subseteq Messages /\ gone \subseteq Messages /\ delivered \subseteq Messages

\* Within one life of the process no two published messages share an offset, however
\* the publishers interleave.
OffsetsUnique ==
    \A m1, m2 \in acked :
        (m1.epoch = m2.epoch /\ m1.offset = m2.offset) => m1 = m2

\* A message whose Publish returned and that no crash caught in memory is buffered, in
\* a flush or stored, until an oversized flush or retention takes it or a restarted
\* counter reuses its offset: no interleaving of appends and swaps drops one.
AckedIsKept ==
    \A m \in acked :
        \/ m \in InMemory \cup stored \cup gone
        \/ \E n \in stored \cup gone : n.offset = m.offset /\ n.epoch > m.epoch

\* A published message leaves memory: the worker writes out what it and others buffer.
Unflushed(o) == o \in OffsetsOf(InMemory)

EventuallyFlushed == \A o \in 0 .. MaxOffset : Unflushed(o) ~> ~Unflushed(o)

\* At-least-once delivery: a message the group's committed offset has passed was
\* delivered to the group (README.md, stream features).
AtLeastOnce ==
    \A m \in acked :
        (m \in stored /\ m.offset < saved) => m \in delivered

=============================================================================
