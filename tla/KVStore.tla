------------------------------- MODULE KVStore -------------------------------
(***************************************************************************)
(* The key-value store of internal/kv and the handlers of the HTTP API     *)
(* that use it.  Storage is Badger without conflict detection: an update   *)
(* reads the snapshot of its begin and commits later, unchecked.  A call   *)
(* that only writes is a single step; one that reads and then writes, and  *)
(* one over several keys, is several.                                      *)
(***************************************************************************)
EXTENDS Integers, FiniteSets

CONSTANTS
    Procs,        \* goroutines that call the store
    SingleKeys,   \* keys of calls with one key
    Groups,       \* disjoint sets of keys, each only read and written by batch calls
    Values,       \* what callers store, none 8 bytes long; counters are integers
    Empty,        \* the empty value
    Absent,
    Ttls,         \* times to live, 0 for none
    ChunkSize,    \* keys that BatchGet reads in a transaction (100 in the code)
    TxnLimit,     \* writes that fit a transaction of a Badger write batch
    MaxTime,      \* bound on the clock
    MaxCalls,     \* bound on calls
    MaxRestarts   \* bound on restarts

ASSUME KVAssumption ==
    /\ Empty \in Values /\ Absent \notin Values
    /\ Ttls \subseteq Nat
    /\ ChunkSize \in Nat \ {0} /\ TxnLimit \in Nat \ {0}
    /\ MaxTime \in Nat /\ MaxCalls \in Nat /\ MaxRestarts \in Nat
    /\ \A B \in Groups : IsFiniteSet(B) /\ B \cap SingleKeys = {}
    /\ \A B1, B2 \in Groups : B1 = B2 \/ B1 \cap B2 = {}

Keys == SingleKeys \cup UNION Groups

VARIABLES
    store,      \* the entry of each key
    now,        \* the clock, in seconds
    status,     \* "open", "closing" once the closed flag is set, "closed" with the database
    call,       \* what each goroutine is doing
    calls,      \* calls made so far
    restarts,
    counted,    \* history: commits of Incr (1) and of Decr (-1) on each key
    due         \* history: what the keys of a group may hold, by the batch writes on it

vars == <<store, now, status, call, calls, restarts, counted, due>>

Idle == [pc |-> "idle"]

\* expires is 0 for an entry that stays.
Missing == [value |-> Absent, expires |-> 0]
Entry(v, ttl) == [value |-> v, expires |-> IF ttl > 0 THEN now + ttl ELSE 0]

\* What a transaction finds under a key at a time: expired entries are not there.
Visible(e, t) == e.value # Absent /\ (e.expires = 0 \/ t < e.expires)
Found(e) == IF Visible(e, now) THEN e ELSE Missing

Init ==
    /\ store = [k \in Keys |-> Missing]
    /\ now = 0
    /\ status = "open"
    /\ call = [g \in Procs |-> Idle]
    /\ calls = 0 /\ restarts = 0
    /\ counted = [k \in SingleKeys |-> [by \in {1, -1} |-> 0]]
    /\ due = [B \in Groups |-> {Absent}]

\* A call on a closed store returns ErrClosed.
Begin(g) ==
    /\ call[g].pc \in {"idle", "answer"}
    /\ status = "open"
    /\ calls < MaxCalls
    /\ calls' = calls + 1
    /\ UNCHANGED <<now, status, restarts>>

Goto(g, state) == call' = [call EXCEPT ![g] = state]

\* The end of a call: once the database is closed it fails and writes nothing.
End(g, written) ==
    /\ Goto(g, Idle)
    /\ store' = IF status = "closed" THEN store
                ELSE [k \in Keys |-> IF k \in DOMAIN written THEN written[k] ELSE store[k]]
    /\ UNCHANGED <<now, status, calls, restarts>>

-----------------------------------------------------------------------------
(***************************************************************************)
(* Calls that only write one key.                                          *)
(***************************************************************************)
Put(g, k, e) ==
    /\ Begin(g)
    /\ Goto(g, Idle)
    /\ store' = [store EXCEPT ![k] = e]
    /\ UNCHANGED <<counted, due>>

Set(g, k, v, ttl) == Put(g, k, Entry(v, ttl))

Delete(g, k) == Put(g, k, Missing)

\* The HTTP handler refuses an empty value.
handleKVSet(g, k, v, ttl) == v # Empty /\ Set(g, k, v, ttl)

-----------------------------------------------------------------------------
(***************************************************************************)
(* Calls that read a key and then write it.                                *)
(***************************************************************************)
Number(e) == IF e.value \in Values \cup {Absent} THEN 0 ELSE e.value

\* Incr and Decr: the transaction's read.
CounterRead(g, k, by) ==
    /\ Begin(g)
    /\ Goto(g, [pc |-> "count", key |-> k, by |-> by, from |-> Number(Found(store[k]))])
    /\ UNCHANGED <<store, counted, due>>

Counted(k, by) ==
    counted' = IF status = "closed" THEN counted ELSE [counted EXCEPT ![k][by] = @ + 1]

\* Fault: the transaction is tried again although it had committed.
CommitTwice(g) ==
    /\ call[g].pc = "count"
    /\ LET c == call[g]
       IN  /\ End(g, [k \in {c.key} |-> [value |-> c.from + 2 * c.by, expires |-> 0]])
           /\ Counted(c.key, c.by)
    /\ UNCHANGED due

\* Its commit; the number stays for good, whatever time the key had left.
CounterCommit(g) ==
    /\ call[g].pc = "count"
    /\ LET c == call[g]
       IN  /\ End(g, [k \in {c.key} |-> [value |-> c.from + c.by, expires |-> 0]])
           /\ Counted(c.key, c.by)
    /\ UNCHANGED due

\* handleKVUpdate answers 404 unless Get finds the key, ...
UpdateGet(g, k, v, ttl) ==
    /\ v # Empty
    /\ Begin(g)
    /\ Goto(g, IF Visible(store[k], now)
               THEN [pc |-> "update", key |-> k, value |-> v, ttl |-> ttl] ELSE Idle)
    /\ UNCHANGED <<store, counted, due>>

\* ... and then sets it, in a transaction of its own.
UpdateSet(g) ==
    /\ call[g].pc = "update"
    /\ LET c == call[g]
       IN  End(g, [k \in {c.key} |-> Entry(c.value, c.ttl)])
    /\ UNCHANGED <<counted, due>>

-----------------------------------------------------------------------------
(***************************************************************************)
(* Batches.  Each entry gets its time to live as it is added, and a write  *)
(* batch that is full commits and goes on in a new transaction.            *)
(***************************************************************************)
Writers(B) == {g \in Procs : call[g].pc = "write" /\ call[g].group = B}

\* over is a history: the values of the batch writes that overlap this one.
Write(g, B, v, ttl) ==
    /\ Begin(g)
    /\ call' = [h \in Procs |->
                   IF h = g
                   THEN [pc |-> "write", group |-> B, left |-> B, added |-> <<>>, value |-> v,
                         ttl |-> ttl, over |-> {call[w].value : w \in Writers(B)}]
                   ELSE IF h \in Writers(B) THEN [call[h] EXCEPT !.over = @ \cup {v}]
                   ELSE call[h]]
    /\ due' = [due EXCEPT ![B] = @ \cup {v}]
    /\ UNCHANGED <<store, counted>>

BatchSet(g, B, v, ttl) == Write(g, B, v, ttl)

BatchSetNoTTL(g, B, v) == Write(g, B, v, 0)

BatchDelete(g, B) == Write(g, B, Absent, 0)

With(added, k, e) == [x \in DOMAIN added \cup {k} |-> IF x = k THEN e ELSE added[x]]

\* Fault: every entry is a transaction of its own.
AddAtOnce(g, k) ==
    /\ call[g].pc = "write" /\ k \in call[g].left
    /\ status # "closed"
    /\ store' = [store EXCEPT ![k] = Entry(call[g].value, call[g].ttl)]
    /\ Goto(g, [call[g] EXCEPT !.left = @ \ {k}])
    /\ UNCHANGED <<now, status, calls, restarts, counted, due>>

\* Fault: the entry that did not fit the full transaction is forgotten.
AddForgets(g, k) ==
    /\ call[g].pc = "write" /\ k \in call[g].left
    /\ LET c == call[g]
           full == Cardinality(DOMAIN c.added) = TxnLimit
       IN  /\ store' = IF full /\ status # "closed"
                       THEN [x \in Keys |-> IF x \in DOMAIN c.added THEN c.added[x] ELSE store[x]]
                       ELSE store
           /\ Goto(g, [c EXCEPT !.left = @ \ {k},
                                !.added = IF full THEN <<>> ELSE With(@, k, Entry(c.value, c.ttl))])
    /\ UNCHANGED <<now, status, calls, restarts, counted, due>>

AddEntry(g, k) ==
    /\ call[g].pc = "write" /\ k \in call[g].left
    /\ LET c == call[g]
           full == Cardinality(DOMAIN c.added) = TxnLimit
       IN  /\ store' = IF full /\ status # "closed"
                       THEN [x \in Keys |-> IF x \in DOMAIN c.added THEN c.added[x] ELSE store[x]]
                       ELSE store
           /\ Goto(g, [c EXCEPT !.left = @ \ {k},
                                !.added = With(IF full THEN <<>> ELSE @, k, Entry(c.value, c.ttl))])
    /\ UNCHANGED <<now, status, calls, restarts, counted, due>>

Flush(g) ==
    /\ call[g].pc = "write" /\ call[g].left = {}
    /\ LET c == call[g]
       IN  /\ End(g, c.added)
           /\ due' = IF status = "closed" THEN due
                     ELSE [due EXCEPT ![c.group] = {c.value} \cup c.over]
    /\ UNCHANGED counted

Read(g, B, chunk) ==
    /\ Begin(g)
    /\ Goto(g, [pc |-> "read", left |-> B, chunk |-> chunk, room |-> 0, snap |-> <<>>,
                res |-> <<>>])
    /\ UNCHANGED <<store, counted, due>>

BatchGet(g, B) == Read(g, B, ChunkSize)

\* Scan, ScanKeys and ScanKeysWithValues iterate in one transaction.
Scan(g, B) == Read(g, B, Cardinality(B))

\* One key: a transaction with no room left makes way for one with a new snapshot.
ReadKey(g, k) ==
    /\ call[g].pc = "read" /\ k \in call[g].left
    /\ LET c == call[g]
           fresh == c.room = 0
           snap == IF fresh THEN [x \in c.left |-> store[x]] ELSE c.snap
       IN  Goto(g, IF status = "closed" THEN Idle
                   ELSE [c EXCEPT !.left = @ \ {k}, !.snap = snap,
                                  !.room = (IF fresh THEN c.chunk ELSE @) - 1,
                                  !.res = With(@, k, Found(snap[k]))])
    /\ UNCHANGED <<store, now, status, calls, restarts, counted, due>>

Return(g) ==
    /\ call[g].pc = "read" /\ call[g].left = {}
    /\ Goto(g, [pc |-> "answer", chunk |-> call[g].chunk, res |-> call[g].res])
    /\ UNCHANGED <<store, now, status, calls, restarts, counted, due>>

-----------------------------------------------------------------------------
(***************************************************************************)
(* Time, Close and restarts.                                               *)
(***************************************************************************)
Tick ==
    /\ now < MaxTime
    /\ now' = now + 1
    /\ UNCHANGED <<store, status, call, calls, restarts, counted, due>>

\* The flag refuses new calls; those under way go on until the database is closed.
Close ==
    /\ status # "closed"
    /\ status' = IF status = "open" THEN "closing" ELSE "closed"
    /\ UNCHANGED <<store, now, call, calls, restarts, counted, due>>

\* After a crash or a Close; Badger keeps what was committed.
Restart ==
    /\ restarts < MaxRestarts
    /\ restarts' = restarts + 1
    /\ status' = "open"
    /\ call' = [g \in Procs |-> Idle]
    /\ UNCHANGED <<store, now, calls, counted, due>>

-----------------------------------------------------------------------------
SingleCall(g) ==
    \E k \in SingleKeys :
        \/ \E v \in Values, ttl \in Ttls :
              Set(g, k, v, ttl) \/ handleKVSet(g, k, v, ttl) \/ UpdateGet(g, k, v, ttl)
        \/ Delete(g, k)
        \/ \E by \in {1, -1} : CounterRead(g, k, by)

GroupCall(g) ==
    \E B \in Groups :
        \/ \E v \in Values : BatchSetNoTTL(g, B, v) \/ \E ttl \in Ttls : BatchSet(g, B, v, ttl)
        \/ BatchDelete(g, B) \/ BatchGet(g, B) \/ Scan(g, B)

Work(g) ==
    \/ CounterCommit(g) \/ UpdateSet(g) \/ Flush(g) \/ Return(g)
    \/ \E k \in Keys : AddEntry(g, k) \/ ReadKey(g, k)

Next ==
    \/ \E g \in Procs : SingleCall(g) \/ GroupCall(g) \/ Work(g)
    \/ Tick \/ Close \/ Restart

Spec == Init /\ [][Next]_vars

-----------------------------------------------------------------------------
\* Increments and decrements that overlap each other or other writes may lose counts, since
\* conflicts are not detected; a crash may cut them off.  None is ever counted twice, and no
\* old number comes back as a larger one: a counter is never above the increments that were
\* committed on its key, nor below the decrements.
CountsNeverInvented ==
    \A k \in SingleKeys :
        store[k].value \notin Values \cup {Absent} =>
            store[k].value \in -counted[k][-1]..counted[k][1]

\* Once BatchSet, BatchSetNoTTL or BatchDelete has returned, each of its keys holds its value
\* or that of a batch write that overlapped it or came later, in however many transactions
\* the batch was committed and whatever a crash or Close cut short: the value from before
\* the batch is nowhere left.
BatchReplaces == \A B \in Groups : \A k \in B : store[k].value \in due[B]

\* A batch write of keys that fit a transaction is seen whole or not at all by a read of
\* these keys that fits a transaction, across Close and crashes as well; only keys with a
\* time to live go missing one by one.
SeenTogether ==
    \A g \in Procs : call[g].pc = "answer" =>
        LET res == call[g].res
            B == DOMAIN res
        IN  Cardinality(B) <= TxnLimit /\ Cardinality(B) <= call[g].chunk =>
                \A k1, k2 \in B :
                    \/ res[k1].value = res[k2].value
                    \/ res[k1] = Missing /\ res[k2].expires # 0
                    \/ res[k2] = Missing /\ res[k1].expires # 0

=============================================================================
