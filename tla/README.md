# A verification project for flin

flin is a small data platform in Go: one server process that offers a key-value
store, message queues, streams and a document store over one TCP port, Go and
Node.js clients, and a connection pool for the Go client. All data lives in
Badger databases. The TLA+ modules in this directory model the parts in which
goroutines, transactions, crashes and byte streams meet; TLC checks them on small
instances, and TLAPS proves all their safety properties for every instance. Paths
below are relative to the repository (`src/` in `PROJECT.json`).

`PROJECT.json` is the machine-readable index: components, runs, mutants, the map
from every definition to the code it models, findings, hazards and theorems.

## 1. The system

| Component | State | Operations | What makes it hard |
|---|---|---|---|
| Acknowledged queue (`internal/queue/storage_ack.go`) | messages, an index by state, a configuration per queue | push, pop, ack, nack, requeue expired, move to dead letters | Badger runs with `DetectConflicts = false`: a transaction commits over whatever happened since its snapshot |
| Visibility worker (`internal/queue/worker.go`) | the monitored queues, a ticker, a stop channel | add, remove, start, stop, tick | scans a snapshot and acts on it later; `Stop` waits for it |
| Legacy queue (`internal/queue/storage.go`) | head, tail, data keys | push, pop, peek, len, clear | three kinds of keys that must change together; nothing calls its push |
| Queue facade (`internal/queue/queue.go`) | none | `Push` goes to the acknowledged queue, `Pop`, `Peek`, `Len` and `Clear` to the legacy one | the two halves share nothing |
| Stream log (`internal/stream`) | offset counters, a write buffer, stored messages, committed offsets and their cache | publish, batch, flush (worker, spawned goroutine, fetch), fetch, commit, retention | the buffer is emptied before its transaction commits; counters are lost in a restart |
| Consumer groups (`internal/stream/stream.go`) | topics in memory and on disk, members and their partitions, committed offsets and their cache | create topic, publish, subscribe, unsubscribe, rebalance, consume, commit | a goroutine per partition, of which some outlive the call; rebalancing under readers; two copies of topics and offsets |
| Connection pool (`internal/net/pool.go`) | idle connections (a channel), a count of places | get, put, close | counting under a lock, dialling outside it, waiting on a channel that is closed |
| Wire protocol (`internal/net/protocol.go`) | none | encoders and decoders of every request and answer | lengths of 16 and 32 bits, frames cut by TCP |
| Binary session (`clients/go`, `internal/server/*_handlers.go`) | the bytes in both directions | call, read loop, handler, answer, timeout | no framing on the server; bytes left unread on a pooled connection; handlers that panic |
| Text server (`internal/server/server.go`, `kv_handlers.go`) | buffers, `outQueue`, `jobQueue`, workers | accept, read, fast path, slow path, write, stop | one `Read` is taken for one command; jobs keep slices of a buffer that is read into again; answers are dropped when a queue is full |
| Key-value store (`internal/kv`) | keys, values and expiry times | set, get, delete, exists, incr, decr, batches, scans, close | counters are read and written without conflict detection; large batches are several transactions; time passes inside a call |
| Document store (`internal/db`) | documents, in-memory indexes, names of the indexes on disk | insert, update, delete, find, update and delete by query, create and drop index | documents and indexes change in separate steps; searches read an index first and documents later; values change their type through JSON; indexes are not rebuilt after a restart |
| HTTP API (`internal/server/http_api.go`) | none | keys: list, get, set, delete, update; queues: push, pop | update is a check and a set |
| Commands, `pkg/protocol`, Node.js client, ClusterKit | none of their own, or external | | |

The server's read loop decides by the first byte whether a request is binary or
text. Binary requests run in the reading goroutine. Text requests take the *fast
path* (the same) or the *slow path*: a job for the worker pool, whose workers put
the answer into the connection's `outQueue`, from which a writing goroutine sends
it. All stores are called from these goroutines concurrently, and each store call
is one Badger transaction: it reads the snapshot of its begin, buffers its writes
and applies them atomically.

What makes each part correct, in a sentence: a pushed message is delivered until it
is acknowledged and can always be found; an acknowledged publish is neither lost nor
renumbered; a connection serves one caller at a time and the pool never leaks a
place; a handler receives exactly the call that the client made, and the client
exactly the answer to it; no command of a text client vanishes, and `Stop` returns; a
key holds what its calls made it, and a batch is seen whole; partitions are shared
out exactly and a group resumes where it committed, skipping nothing that it could
read; an index covers what it should, a search misses nothing that stayed, and a
write by query touches only what matched.

## 2. Modules

| Module | Models | Used by |
|---|---|---|
| `QueueStorage` | acknowledged queue | `MCQueue`, `VisibilityWorker`, `QueueFacade` |
| `MessageLifecycle` | abstract: the life of one message | instantiated by `QueueStorage` |
| `VisibilityWorker` | the worker beside the clients of `QueueStorage` | `MCQueueWorker`, `QueueStorageProofs` |
| `LegacyQueue` | head/tail queue | `QueueFacade` |
| `QueueFacade` | composes `QueueStorage` and `LegacyQueue` as the facade calls them | `MCQueueFacade`, `QueueStorageProofs` |
| `StreamLog` | one partition with its group offset | `StreamLogProofs` |
| `ConsumerGroup` | topics, members, partitions and offsets of one group | `MCConsumerGroup`, `ConsumerGroupProofs` |
| `DocStore` | one collection and its indexes | `MCDocStore`, `DocStoreProofs` |
| `KVStore` | the key-value store under its callers, HTTP handlers included | `MCKVStore`, `KVStoreProofs` |
| `ConnectionPool` | the client's pool | `ConnectionPoolProofs` |
| `WireProtocol` | the codec, as operators on sequences of small bytes | `BinarySession` |
| `BinarySession` | client and server ends of a binary connection | `MCBinarySession`, `BinarySessionProofs` |
| `TextServer` | text protocol, worker pool, buffers, Stop | `MCTextServer`, `TextServerProofs` |
| `QueueStorageProofs` | theorems about `QueueStorage`: under overlapping calls, with `VisibilityWorker`, and, while calls do not overlap, behind `QueueFacade` | |
| `BinarySessionProofs` | theorems about the codec of `WireProtocol` and about `BinarySession` | |
| `ConnectionPoolProofs`, `StreamLogProofs`, `ConsumerGroupProofs`, `KVStoreProofs`, `DocStoreProofs`, `TextServerProofs` | theorems about the module each is named for | |

### How state and actions correspond to the code

**Transactions.** An operation of `QueueStorage` or `LegacyQueue` is a step that
reads the store and computes a write batch (`puts`, `del`, `add`), and a later
`Commit` that applies the batch to whatever the store is then. This is what Badger
does with conflict detection off. `NackMessage` has a step in between, because it
reads the configuration in a second transaction. `RequeueExpiredMessages` takes
the time, opens its transaction and commits in three steps. `Crash` forgets open
transactions and keeps the store: with `SyncWrites = false` a crash of the process
keeps committed writes in the page cache. A crash of the operating system is not
modelled.

**Histories.** Message values are the identities under which they were first
pushed, so `settled`, `origin` and `deliveries` can say which value was
acknowledged, copied or delivered. They are written and never read by actions.

**Stream log.** `pub` is a publisher between the atomic `Add(1)` and its append;
`flight[f]` is a buffer that flusher `f` has taken and not committed. A flush that
exceeds `MaxTxn` stands for Badger's `ErrTxnTooBig` and loses its messages into
`gone`, as retention does; a crash loses memory. The package as committed does
not compile (`StreamStorage` has no field `flushCh`, and `stopFlush` is used as a
channel that it is not declared to be); the model follows the code's evident
meaning. The timestamp of a message is taken at the append. A goroutine that an
earlier `Consume` started and nobody waits for any more may have looked up an offset
and cache it at any later moment: `LeaveBehind` puts that offset into `stray`,
`StrayFill` caches it.

**Consumer group.** How a message reaches the disk is `StreamLog`'s subject. Here a
partition has a counter of offsets (`next`), messages that have an offset and cannot
be read yet (`hidden`) and messages that can (`log`). Hidden messages become readable
in any order or never, retention takes any that can be read, and a restart loses the
hidden ones and sets the counter back to 0, so that offsets are used again. `stored`
and `topics` are the number of partitions on disk and in memory, 0 where there is
none; a publisher or a rebalance that has read or written the one and not yet the
other is a state of its own. `Subscribe` and `Unsubscribe` hold `groupsMu` until
`rebalanceGroup` ends or fails; members come in any order, as the Go map gives them.
`Consume` starts one goroutine (`fetch[x]`) per partition. Each looks its offset up,
fills the cache if it must, and reads; answers are collected in any order until there
are enough, and what has not answered by then runs on with nobody listening (`for` is
`None`). Such a goroutine matters only while it may still fill the cache, so it ends
there. A client commits message by message or gives up the rest. The histories are
`delivered` (what `Consume` returned), `late` (offsets at which a message could be
read only after the group had read that offset or a higher one), `done` (commits that
returned), `crossed` (partitions that two members worked on at once, or whose offset
was looked up during a commit), `muddled` (topic creations and loads that overlapped)
and `based` (the partitions at the last rebalance).

**Document store.** A call is a chain of Badger transactions and of critical sections
of `ds.mu`: `Update` is `Get`, `Store`, `removeIndexes`, `updateIndexes`; a search is
the index lookup and then one read per document, or one scan; a write by query is a
search and then one such chain for each document found. `CreateIndex` holds `ds.mu`
over its scan, which other calls notice only when they reach the lock. A value has a
Go type, by which an index distinguishes, and a text, by which filters compare: the
number 1 and the string "1" are two values with one text. A document is stored as
JSON (`Stored`), so an `int` or `int64` that a caller gives is a `float64` when it is
read: the indexes get the value in memory, and entries are removed under the value
that was read. A document also has an `_id`, which a merge may change; writes by
query and `CreateIndex` go by that (`NameOf`), and find no document where it is no
id. The results of a search are documents. A limit of 0 is no limit, except where an
index is used, where nothing is read then. The histories name the known weaknesses,
so that the properties say everything else: `raced` (documents that two calls wrote
at once), `gap` (documents an index may miss: a restart, a race, a value that JSON
changes, an `_id` that was changed when the index was created), `messy` (documents it
may list wrongly: an insert over an existing id, a race, a value that JSON changes,
an index created twice or over changed `_id`s), `want` (the documents had every write
been one step), `steady` and `ever` (what a search must and may return). Sort order
is left out. Values that cannot be map keys are not among the values: a call with one
panics, which `BinarySession` has as an outcome.

**Key-value store.** A call that only writes is one step. Counters and the HTTP
update are a read and a write. A batch write adds its entries one at a time, each
with the expiry of that moment, and commits whenever `TxnLimit` entries are
collected, as Badger's write batch does; a batch read takes a new snapshot for
every `ChunkSize` keys, and each key is found or not by the clock of its own read.
`Close` sets a flag that refuses new calls, then closes the database, after which
calls under way fail. The histories are `counted`, the commits of `Incr` and of `Decr`
on a key, and `due`, what the keys of a batch may hold: the values of the latest batch
write that returned and of those that overlapped it or came later.

**Pool.** Each critical section of `p.mu` and each channel operation is a step.
`Get` finding a dead connection and `Put` finding a full channel cannot happen,
because connections are put back alive and `MaxSize` is the channel's capacity;
their branches have no step of their own. Callers may close a connection they hold
(`Discard`), which the Go client never does. `lapsed[g]` counts the places that were
given up without waking anyone, by a failed dial or by the `Put` of a dead connection,
while `g` waits.

**Wire protocol.** A byte is a digit below `Base`; two-byte fields wrap at
`Base2` and four-byte fields at `Base4`. Integers are put together and taken apart
two, four and eight bytes at a time, as `encoding/binary` does; a payload is parsed
field by field. Opcodes and statuses keep their values.
`decodeSimpleRequest` adds 2 to a 16-bit length in 16 bits, so it panics for the
two longest keys; the model has that outcome.

**Binary session.** `ServerRead(n)` is one `Read` of any `n` bytes that have arrived,
handed whole to the decoder. What a handler answers is any of the answers that its
code can give, with as many messages and as long a queue as the constants allow; the
handler of a document request may also panic, as `db.go` does for values that cannot
be map keys and for a negative skip, and nothing recovers. The text protocol, reached
when the first byte is no opcode, answers with an error whose first five bytes the
client takes for a header. The history `disturbed` says that a read cut a frame, that
a call ran into its deadline, or that one was made while bytes of an earlier answer
were unread; what happens to a session after that is modelled, and is promised
nothing but `TypeOK`. The encoders check no length, so `CallsFit` asks that a call's
strings fit their fields: up to `MaxKeyLen` bytes, batches of fewer than `Base2`
items, frames below `Base4` bytes. Integers are any: they are cut to the width of
their place, so that a partition of -1 arrives as the largest number of four bytes
(`Arriving`). `AnswersFit` asks the same of answers.

**Text server.** One `Read` is parsed as one command, whatever it returned. Clients send
whole commands; `Network` may then cut the next command in two, or join it with the
one after it, as TCP and the 32768 bytes of `readBuf` do. What is not one whole command
is parsed as any of `Fragments` (part of a `SET`, for instance), or as the first of the
commands that were joined, the others of which are lost; `scraps` counts these pieces.
A job remembers its command, and the values that it stores are those its buffer still
holds: once the buffer has been read into again, by the same connection or by a new one that got it from
`bufferPool`, they are arbitrary. `INCR` and `DECR` are a read and a commit; other
store calls are one step. A `SET` takes either path, since the choice depends on
measured latency. `INVALID` stands for every command that does not parse. The
second attempt of `MGET` to report a full queue is folded into the drop.

## 3. Runs

Every run is listed with its properties in `PROJECT.json`. Distinct states are
given for orientation.

| Run | Instance | Shows |
|---|---|---|
| `queue_concurrent` | 2 goroutines, 2 ids, 2 queues, clock to 2 (4,732,396 states) | `TypeOK`, `IndexCoversMessages`, `NothingLost`. Two goroutines with overlapping, unchecked transactions: the index still covers every stored message and no value is dropped. |
| `queue_serial` | 1 goroutine, 2 ids, dead letters on or off, with and without timeout, legacy calls (219,516 states) | `IndexIsExact`, `RedeliveryNeedsRequeue`, `ImplementsLifecycle`. One goroutine calls the whole queue facade, both kinds of queue included: index and messages agree exactly, nothing is delivered twice without being put back, and the store implements the message life cycle. |
| `queue_redelivery` | as queue_concurrent (violation) | `RedeliveryNeedsRequeue`. Two consumers that pop from one snapshot both receive the same message. |
| `queue_worker` | 1 consumer, the worker, 1 monitored queue, which may get a dead-letter queue, 2 ids, clock to 2, 1 delivery (259,632 states) | `ExpiredIsRequeued`, `StopReturns`. With the visibility worker running beside a consumer, dead-letter moves included, a timed-out delivery comes to an end and Stop returns. |
| `connection_pool` | 4 callers, at most 3 of 4 connections, none at the start (155,915 states) | `TypeOK`, `Accounting`, `Exclusive`, `WaiterServed`. Four goroutines share three connections, any of them may close its connection or the pool: places are neither lost nor doubled, connections are never shared, and a waiter is served as long as one of the places it waits for is not given up. |
| `stream_log` | 2 publishers, 1 consumer, 2 offsets, 1 restart (186,880 states) | `TypeOK`, `OffsetsUnique`, `AckedIsKept`, `EventuallyFlushed`. Two publishers, every kind of flusher, retention, a consumer and a restart: offsets are unique per life, acknowledged messages are kept until a named cause takes them, and memory drains. |
| `stream_delivery` | as stream_log, no restart, no retention (violation) | `AtLeastOnce`. Without any crash a consumer commits past a message that another goroutine still holds in an unfinished flush. |
| `binary_session` | base 3, 441 calls, every cut of every frame (72,952 states) | `TypeOK`, `HandlerGetsCall`, `CutFrameNotExecuted`, `AnswerIsReply`, `InSync`, `PanicHasCause`, `NeverStuck`. Every request of the Go client with short, empty and longest strings and negative integers, its frame cut at any byte or read whole: a whole frame reaches its handler as it was called, integers cut to their width, a cut one is refused, the answer comes back as the handler gave it, and only the longest keys and document handlers bring the server down. |
| `text_server` | 2 connections, 2 workers, queues of 1 place, 2 commands, up to 2 torn pieces on a connection (849,695 states) | `TypeOK`, `ValuesIntact`, `CommandsConserved`, `StopReturns`. Two connections, two workers and Stop at any moment, with queues of one place and a network that cuts and joins what clients send: no command is worked on twice, none vanishes unless it was torn or clients send ahead of their answers, stored values are what whole commands gave, and Stop returns. |
| `doc_store` | 2 goroutines, 2 ids, 2 fields of which 1 indexed, and `_id`, 4 calls, 1 restart (625,659 states) | `IndexCovers`, `IndexExact`, `FindComplete`, `OnlyMatchedWritten`, `UpdatesKept`. Two goroutines insert, update, delete, search and index two documents, with a restart, values that JSON changes and updates that change an `_id`: indexes cover and list exactly what they should outside the causes that are named, searches miss no document that was left alone, writes by query stay within the query, and only overlapping writes of one document are lost. |
| `consumer_group` | 2 members, 1 publisher, up to 2 partitions, 2 fetching goroutines, 2 messages, 3 changes of membership, topic or process (3,120,468 states) | `AssignmentExact`, `NothingSkipped`, `ResumesAfterCommit`, `MetadataAgrees`. Two members join, leave, fetch and commit while a topic is created, published to and the process restarts: partitions are split exactly, the group never resumes past a message it could have read and was not given, whatever the order in which messages appear, nor before a commit that returned unless the named races happened, and the topic in memory agrees with the disk. |
| `kv_store` | 2 goroutines, a single key, groups of 2 and 3 keys, 3 calls, 1 tick, 1 restart (2,252,964 states) | `CountsNeverInvented`, `BatchReplaces`, `SeenTogether`. Two goroutines set, count, update, delete, batch and scan keys with and without a time to live, with Close and a crash at any moment: no count is applied twice, a batch write leaves nothing of what was there before it, in however many transactions, and a batch that fits one transaction is seen whole. |

### What the violations show

* `queue_redelivery`: two consumers read the same first pending key and both
  commit. `TestConcurrentConsumers` expects every message to be processed once.
* `stream_delivery`: between the swap of the buffer and the commit of the flush, a
  message is nowhere to be read. A consumer that fetches then, sees a later
  message and commits past it, never receives the earlier one.

### Noticed while modelling, without a run of their own

* `decodeSimpleRequest` panics on a key of 65534 or 65535 bytes (`protocol.go:489`),
  though `MaxKeyLen` allows it; `PanicHasCause` shows that decoding panics on nothing
  else. The 32768 bytes of `readBuf` hide this: the frame of such a key never arrives in
  one read (`OnlyDocumentsPanic`).
* Document handlers panic, and with them the process: on an array or object in an
  indexed field, searched for (`db.go:130`), written (`db.go:462`) or found while an
  index is created (`db.go:394`); on a negative skip with an index (`db.go:176`).
* `Incr` and `Decr` lose counts when they overlap on one key, since `kv/storage.go:40`
  turns conflict detection off, though `API_Doc.md:57,63` says that they count
  "atomically" and `clients/go/README.md:12` lists "Atomic Counters".
  `CountsNeverInvented` is what remains.
* Negative integers arrive as large ones: `Publish(topic, -1, ...)`, the documented
  automatic choice, reaches the handler with partition 4294967295, which `Publish`
  replaces as it would -1; a `Consume` of -1 messages asks the server for 4294967295.
  The count of messages in an answer wraps at 65536.
* A text `SET` that TCP cuts, or that is longer than `readBuf`, is stored truncated and
  its rest answered as another command; of several commands in one `Read` all but the
  first are lost without an answer.
* A failed dial, like the `Put` of a dead connection, frees a place of the pool without
  waking who waits for one. With all places lost in this way a waiter waits for ever.
* `EncodeSPublishBatchRequest` writes no payload length and its opcode 0x37 lies
  outside the range that `processRequestHybrid` takes for binary, so
  `Client.PublishBatch` always runs into its timeout (`NeverStuck` excepts it).
* Requests longer than the 32768 bytes of `readBuf` are never accepted, though
  `MaxValueLen` is 1 GiB; `MSET` counts wrap at 65536.
* `StreamClient.Consume` leaves the payload of an error unread (`InSync` excepts
  it) and always reports partition 0.
* The server never starts the visibility worker; `Stop` called twice panics.
* `Queue.Push` stores an acknowledged message while `Pop`, `Peek`, `Len` and `Clear`
  work on the head/tail keys, which nothing writes: a `Push` followed by a `Pop`
  reports an empty queue, contrary to `TestLegacyMethods` and the README's example,
  and `Clear` clears nothing.
* The server has no handler for `EXISTS` in the binary protocol, and
  `KVClient.Exists` turns its error into "the key is absent", leaving the error text
  on the connection.
* `/queues/create` and `/queues/delete` answer success and do nothing;
  `handleKVUpdate` reports success for a key that was deleted in between, and brings
  it back. `Incr` and `Decr` drop a key's remaining time to live.
* Indexed equality searches: `Limit` 0, which the client's update and delete
  builders send, selects nothing where a scan selects everything; `Skip` is applied
  to the ids and again to the documents; the limit is applied before sorting and
  before the other filters. An index distinguishes the number 1 from the string
  "1", which the filters do not, and the `int` 1 of a caller in the process from the
  `float64` 1 that is stored: the index then misses the document, and the entry stays
  when the document goes. So it is with an index on `_updated_at`.
* A merge update may change a document's `_id` (`db.go:271`); updates and deletes by
  query then write the document of that name, or none.
* `Insert` over an existing id leaves the old index entries; after a restart indexes
  exist but are empty; between `removeIndexes` and `updateIndexes` a document is in
  no index list.
* A topic that is created again with more partitions is not rebalanced, so nobody
  reads the new ones until a member comes or goes; a publish that finds no topic may
  overwrite one created meanwhile. A goroutine that an earlier `Consume` left behind
  can put the cached offset back behind a later commit.

### Bounds, and why they are enough

Where a theorem of section 4 states a property, the bounds below only decide how
soon TLC would notice a slip in the model; the proof holds without them. They
carry weight for the liveness properties.

* Queue: two messages and two goroutines overlap every pair of operations on one
  message, and the dead-letter copy uses the second identity. Two ticks of the
  clock pass a timeout of one. The limit of one delivery makes a nack cross it.
* Worker: a message that times out once, and a nack that moves it to the dead-letter
  queue under a second identity; two ticks pass the timeout of one.
* Stream: two publishers and two offsets give every order of counter and append;
  batches of one and two messages lie on either side of the flush size and of the
  transaction limit; one restart is needed to reuse offsets. Two goroutines left
  behind can cache their offsets in either order.
* Pool: four callers for three places, so that one waits; no connection at the start
  (`MinSize` 0), so that all three dials may fail while it does; four identities of
  connections allow a discarded one to be replaced while the others live.
* Consumer group: two members and two partitions give every split, and a member with
  nothing; two goroutines let one of an earlier `Consume` meet one of a later; two
  messages in one partition become readable in either order; counts of 1 and 2 make
  `Consume` stop early or not; three changes allow two members to join and one to
  leave, or a member to join, restart and join again.
* Document store: four calls are enough to index and write a document while the other
  goroutine searches or writes by query, or to insert, rename and index one and
  search for it; an `int` and a number with one text let JSON change a type; a second
  id shows that entries of other documents survive. The restart is the only way to an
  index that exists and is empty.
* Key-value store: two writers or a writer and a reader overlap on a group of two,
  which fits a transaction and a chunk, and on one of three, which fits neither; one
  tick ends a time to live of one. Three calls let a third come between the two steps
  of another.
* Binary session: base 3 makes two-byte lengths wrap at 9, and keys of 6, 7 and 8
  bytes surround that limit; frames are cut at every byte. Integers of -1
  wrap, and answers hold up to two messages, all that fits a frame at this base. The
  run makes one call; the theorems cover any number.
* Text server: queues of one place overflow with two commands, which keep both
  connections or both workers busy, and the second connection may start after the
  first has ended, with its buffer; two pieces are a command
  cut in two, or two that were joined. One key is a counter; the other is
  only ever given `v2` by a whole command, so that any other value in it is corruption
  or comes of a torn one.

### Fairness

* `WorkerSpec`: the worker's goroutine is scheduled and its ticker fires (weak
  fairness of its steps). Go's `select` picks among ready cases at random, so the
  closed stop channel cannot be passed over for ever: strong fairness of
  `WorkerExit`. Clients and the clock promise nothing.
* `ConnectionPool!FairSpec`: goroutines inside the pool run and callers return
  what they hold (every client method defers `Put`). Go serves the receivers of a
  channel in order of arrival: strong fairness of `Wait`.
* `StreamLog!FairSpec`: the flush worker's ticker fires and flushes that began go on.
* `ConsumerGroup`, `DocStore` and `KVStore` state safety only: what they promise
  after a race is nothing, and their clients owe no further call.
* `TextServer!Spec`: reading goroutines that have a command, writers that have an
  answer, workers that have a job, and `Stop` once called, go on.

### Mutants

Every property of every passing run has a mutant in `PROJECT.json`: a definition
of the model changed the way a slip in the code would change it (a dropped index
key, a copy that is not made, a place that is not given back, a buffer returned too
early). They are kept in the modules, marked "Fault", and each makes TLC report
that property.

## 4. Proofs

Every safety property of a passing run is a theorem: it holds for any sets of
goroutines, keys, messages, documents and connections that satisfy the module's named
assumptions, and for any values of the bounds. Where a property is not inductive, the
proof module defines the invariant that is, one named part per idea. A step of the
induction has a lemma per action that says what the action changes, and a lemma per
part of the invariant.

**Queue with overlapping calls** (`QueueStorageProofs`).
* `TypeCorrect`: `Spec => []TypeOK`.
* `IndexCovers`: `Spec => []IndexCoversMessages`. A commit applies a batch computed
  from an older snapshot, so `IndexInv` adds `TxnIndexed`: every open batch adds the
  index key of each message that it writes, and deletes keys only of messages that
  it writes or deletes. Whatever a commit overwrites, message and key change
  together.
* `NoValueLost`: `Spec => NothingLost`. `ValueInv` ties every stored or buffered
  message to the value that its identity had when it was issued, and asks of every
  open batch that what it deletes is settled by it or written elsewhere in it
  (`KeepsValues`). A stale commit may resurrect a message; it cannot drop one.
* `WorkerKeepsMessages`: `WorkerSpec => []IndexCoversMessages /\ NothingLost`. Every
  step of `VisibilityWorker` is a step of `QueueStorage` or a stutter, as the worker's
  goroutine is one of its callers (`WorkerAssumption`).

**Queue without overlap** (`QueueStorageProofs`, second part).
* `IndexExactInSeries`, `RedeliveryOnlyAfterRequeue`: `Spec /\ []Serial` implies
  `[]IndexIsExact` and `[]RedeliveryNeedsRequeue`, where `Serial` says that at most
  one call is under way, whichever goroutine makes it. `queue_redelivery` shows that
  the second does not hold without it. `SerialInv` says of an open batch that it
  was computed from the store as it still is, in one of five shapes (`Fresh`); that
  a value has one copy (`OneCopy`), under an id that was issued (`Known`); and that a
  pending message was not handed out since it was put back (`Counted`).
* `SerialQueueIsLifecycle`: `Spec /\ []Serial => ImplementsLifecycle`. Each shape of
  batch, committed, is one step of `MessageLifecycle` for every value it touches and
  leaves the other values where they are; all other steps are stutters.
* `OneGoroutineFacade`: with one goroutine, `FacadeSpec` implies all three, because a
  step of the facade is a step of the acknowledged queue or leaves it alone. This is
  what `queue_serial` checks. With two goroutines that take turns, the invariant was
  checked on 174,011 states.

**Connection pool** (`ConnectionPoolProofs`): `PoolTypeCorrect`,
`ConnectionsExclusive`, `PlacesAccounted` for `TypeOK`, `Exclusive`, `Accounting`.
`PoolInv` says that a goroutine has a connection exactly between `Get` and `Put`, that
an open connection is in the channel or in one goroutine's hands, that `activeCount`
is the number of connections in the channel plus those in use or being dialled until
the channel is closed and at least that after it, and that a panic is final. Counts
are handled by the library's facts on cardinalities, hence the assumption that
callers and connections are finite.

**Stream log** (`StreamLogProofs`).
* `LogTypeCorrect`, `OffsetsNeverShared` and `NoAppendLost` for `TypeOK`,
  `OffsetsUnique` and `AckedIsKept`. `LogInv` adds that the counter is past every
  offset of this life of the process and an offset taken is its owner's
  (`OffsetsFresh`), that what is in memory is of this life (`Epochs`), and that a
  goroutine about to swap the buffer has no unfinished flush to overwrite
  (`FlightsEmpty`).

**Consumer groups** (`ConsumerGroupProofs`): `AssignmentAlwaysExact`,
`NoMessageSkipped`, `CommitsAreKept`, `MetadataKept`. The first is the arithmetic of
`rebalanceGroup`: `j * q + min(j, r)` is where the j-th share starts, shares are
consecutive, cover all partitions and differ by at most one. For the others
`GroupInv` says that of the messages that can be read below an offset, only late ones
were not delivered, for the cached and the stored offset (`Behind`) and for those that
goroutines and members hold, whose answers leave out nothing but late messages
(`NothingAhead`), that on a partition nobody crossed the offset
looked up, the cached one and the one held are the stored one but for a commit half
done (`Line`), and that a change of the topic has stored what it will set
(`TopicInLine`). Members and publishers are finite, and there is a largest number of
partitions.

**Key-value store** (`KVStoreProofs`): `CountsAreReal`, `BatchesReplaceAll` and
`BatchesSeenWhole`. `KVInv` says that a batch that fits a transaction has written
nothing until it commits (`WriteOn`), so the stored entries of such a group are alike
(`StoreUniform`), and that a read within one chunk answers from one snapshot, up to
entries that expired meanwhile (`ReadOn`). `CountInv` adds that a counter call under
way has read a number between the decrements and the increments committed so far;
both only grow, so its commit cannot leave them. `BatchInv` adds that a batch write
knows every other one under way on its group (`over`), and that each key it is done
with holds its value or one of theirs. Groups are finite and disjoint from each other
and from single keys.

**Document store** (`DocStoreProofs`): `NoUpdateLost`, `WritesStayInQuery`,
`IndexesCover`, `IndexesExact`, `FindsAreComplete`. `DocInv` says that outside `raced`
one call at a time writes a document, from what is stored (`InTurn`); that what a
write by query still holds has matched (`Matched`); that the scan of `CreateIndex`
has every document nobody is writing as it is (`ScanFresh`), under its own name unless
the index counts as incomplete there (`ScanNamed`); that outside the gap of
an index a document is listed under its stored value or a writer will list it
(`Covered`, with `Plain` for values that JSON leaves alone); that outside
`messy` a list has nothing else, once (`Exact`); and that a search still has, or has
yet to read, what it must find (`OnTheWay`). That lists in key order have the
elements of their set is proved from the well-foundedness of `<`, once for all
finite sets.

**Text server** (`TextServerProofs`): `ServerTypeCorrect`, `NoCommandVanishes`,
`ValuesStayIntact` for `TypeOK`, `CommandsConserved`, `ValuesIntact`. Conservation
needs that no place holds a command twice (`Once`), that no two places hold the same
one (`Apart`) and that, unless one was torn, an answer dropped or the connection
ended, some place does (`Complete`). Pieces of the stream have numbers of their own,
below those of commands, so that they are never taken for one. Values need that
connections in service have buffers of their own (`Buffers`) and, while every client
waits for its answers and no command is torn (`Patient`), that a connection has one
command under way and the buffer a job points into is left alone (`JobsHeld`).
`CounterAssumption` is what the parser enforces: a counter command has one key.

**Codec and binary session** (`BinarySessionProofs`). The argument has four layers.
* *Integers.* Two, four and eight bytes carry a number below `Base2`, `Base4`, `Base8`
  and wrap above (`Put16`, `Put32`, `Put64`), for every base.
* *Fields.* `ReadField` reads back a field that fits, whatever follows it
  (`FieldReadBack`); hence `Parse` gives back any list of arguments from its fields
  (`RoundTrip`), for batches of any length. This is an induction over the fields. The
  library's induction theorem takes an operator that the provers cannot instantiate, so
  induction is stated for sets of numbers (`Induction`, from the well-foundedness of
  `<`), and the functions that `Parse` and `FlattenSeq` define by recursion are shown to
  exist in the same way (`ParseIs`, `FlattenIs`).
* *Frames.* `CallFrame`: what an encoder wrote, `DecodeRequest` turns into the call,
  with its integers cut to their width, or into a panic for a single key within two
  bytes of `MaxKeyLen`, and it refuses every proper prefix. `AnswerRead`: what a
  handler answers, the client's reader takes for what the handler meant; only a
  refused `EXISTS` or `SCONSUME` leaves its payload unread. `DecodedKeys`: from any
  bytes at all, a decoded `MGET` has a number of keys.
* *Sessions.* `Inv` says that an undisturbed connection is at one of six stages:
  unused, a call sent and unread, the server dead of a key at the limit or in a
  document handler, an answer on its way whole, a batch taken for text, or the call
  finished with the expected answer (`Undisturbed`); and of the first call, disturbed
  or not, that its frame is whole until it is read and that a read of less executes
  nothing (`FirstCall`). It implies `TypeOK`, `HandlerGetsCall`,
  `CutFrameNotExecuted`, `AnswerIsReply`, `InSync`, `PanicHasCause` and `NeverStuck`
  (`SessionTypes`, `CallReachesHandler`, `CutFrameRefused`, `CallReturnsReply`,
  `ConnectionReturnedEmpty`, `PanicsHaveCause`, `AnswerArrives`).

`OnlyDocumentsPanic` adds: if `ReadBuf < Base2 + 5`, as in the code (32768 and 65536),
only a document request brings the server down in an undisturbed session.

The other assumptions are typing: identities that the code orders are natural
numbers, arguments come from the declared sets, markers for "none" are not values.
Each is named in the module that declares the constants, and TLC evaluates it in
every run over that module.

Only model-checked: liveness (`WaiterServed`, `EventuallyFlushed`,
`ExpiredIsRequeued`, both `StopReturns`), which needs fairness and `ENABLED`, out of
the prover's reach.

## 5. Not modelled

The commands, the unused copy of the protocol in `pkg/protocol` and the Node.js
client have no state of their own or repeat what is modelled; of the HTTP API only
the handlers that change keys are. ClusterKit is external and the server takes no
decision from it. Also left out: queue, group and collection names that contain the
separator of the key scheme (the names are atomic here), the default visibility
timeout, which nothing reads, the failure path of `NewConnectionPool`, the order of
sorted results, more than one topic or group at a time, and crashes of the operating
system. A first-in-first-out specification of the legacy queue was dropped: without
a caller of its `Push` there is nothing in it to keep in order.

## 6. What could come next

All modules of section 2 are written and all their safety properties proved. Worth
adding, should the code move there:

1. the key scheme of the queue (names joined with `:`), as a module over which
   `QueueStorage` could be refined;
2. what a disturbed session may do: today nothing but `TypeOK` is claimed of it, and the
   code gives it no resynchronisation;
3. two topics, or two groups on one topic, in `ConsumerGroup`.
