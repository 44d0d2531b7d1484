------------------------------ MODULE ConsumerGroup ------------------------------
(***************************************************************************)
(* One topic and one consumer group of internal/stream/stream.go: topic    *)
(* metadata in memory and in storage, members and their partitions, the    *)
(* goroutines of Consume that fetch all partitions at once, and the offset *)
(* cache in front of the stored offsets.                                   *)
(*                                                                         *)
(* How a message reaches the disk is in StreamLog; here it has an offset   *)
(* first and can be read later, or never, in whatever order flushes        *)
(* commit, retention deletes any of those that can be read, and the        *)
(* offsets start again at 0 when the process does.                         *)
(***************************************************************************)
EXTENDS Integers, FiniteSets

CONSTANTS
    Members,       \* consumer ids; each is one client that makes one call at a time
    Publishers,    \* goroutines that create the topic and publish
    Fetchers,      \* goroutines of Consume; bounds how many exist at a time
    Counts,        \* messages that Consume is asked for
    Sizes,         \* numbers of partitions that CreateTopic is given
    DefaultSize,   \* partitions of a topic that Publish creates (4 in the code)
    None,
    MaxMessages,   \* bound on published messages
    MaxChurn       \* bound on subscriptions, creations of the topic and restarts

Parts == 0 .. (CHOOSE n \in Sizes : \A k \in Sizes : k <= n) - 1

ASSUME GroupAssumption ==
    /\ IsFiniteSet(Members) /\ IsFiniteSet(Publishers) /\ Members \cap Publishers = {}
    /\ Counts \subseteq Nat \ {0}
    /\ Sizes \subseteq Nat \ {0} /\ DefaultSize \in Sizes
    /\ \E n \in Sizes : \A k \in Sizes : k <= n
    /\ MaxMessages \in Nat /\ MaxChurn \in Nat
    /\ None \notin Nat \cup Members /\ \A S \in SUBSET Parts : S # None

VARIABLES
    stored,      \* partitions of the topic according to storage, 0 if absent
    topics,      \* the same in s.topics, 0 if not loaded
    pub,         \* each publisher: idle, or about to change s.topics
    published,   \* messages published so far, for the bound
    next,        \* the counter of offsets of each partition
    hidden,      \* offsets of messages that are buffered or being written
    log,         \* offsets of the messages that can be read
    assigned,    \* the partitions of each member, None if it is not in the group
    client,      \* the call of each member
    groupsMu,    \* the member whose Subscribe or Unsubscribe holds the lock
    fetch,       \* the goroutines of Consume
    cache,       \* offsetCache, None where there is no entry
    saved,       \* committed offsets in storage, 0 where there is none
    churn,
    delivered,   \* history: offsets that Consume returned to some member
    late,        \* history: offsets under which a message could be read only after the
                 \* group had read that offset or a higher one
    done,        \* history: the highest offset whose Commit returned
    crossed,     \* history: partitions that two members worked on at once, or whose offset
                 \* was being looked up during a commit
    muddled,     \* history: the topic was created during another creation or a load
    based        \* history: partitions at the last rebalance, 0 if it failed

logVars == <<published, next, hidden, log, late>>
topicVars == <<stored, topics, pub, logVars>>
groupVars == <<assigned, groupsMu, based>>
offsetVars == <<cache, saved, done>>
vars == <<stored, topics, pub, published, next, hidden, log, late, assigned, client, groupsMu,
          fetch, cache, saved, churn, delivered, done, crossed, muddled, based>>

Idle == [pc |-> "idle"]

Init ==
    /\ stored = 0 /\ topics = 0
    /\ pub = [a \in Publishers |-> Idle]
    /\ published = 0 /\ next = [p \in Parts |-> 0]
    /\ hidden = [p \in Parts |-> {}]
    /\ log = [p \in Parts |-> {}] /\ late = [p \in Parts |-> {}]
    /\ assigned = [m \in Members |-> None]
    /\ client = [m \in Members |-> Idle]
    /\ groupsMu = None
    /\ fetch = [x \in Fetchers |-> Idle]
    /\ cache = [p \in Parts |-> None]
    /\ saved = [p \in Parts |-> 0]
    /\ churn = 0
    /\ delivered = [p \in Parts |-> {}]
    /\ done = [p \in Parts |-> 0]
    /\ crossed = {} /\ muddled = FALSE /\ based = 0

Churn == churn < MaxChurn /\ churn' = churn + 1

-----------------------------------------------------------------------------
(***************************************************************************)
(* Topics and publishing.                                                  *)
(***************************************************************************)
\* Fault: a topic that exists keeps its stored metadata.
StoreNew(a, n, pc) ==
    /\ stored' = IF stored = 0 THEN n ELSE stored
    /\ pub' = [pub EXCEPT ![a] = [pc |-> pc, size |-> n]]

\* storage.CreateTopic, before s.topics is changed.
StoreTopic(a, n, pc) ==
    /\ stored' = n
    /\ pub' = [pub EXCEPT ![a] = [pc |-> pc, size |-> n]]

CreateTopic(a, n) ==
    /\ pub[a] = Idle
    /\ Churn
    /\ StoreTopic(a, n, "create")
    /\ UNCHANGED <<topics, logVars, groupVars, client, fetch, offsetVars, delivered>>

\* GetTopicMetadata finds the topic in storage only.
LoadTopic(a) ==
    /\ pub[a] = Idle
    /\ topics = 0 /\ stored # 0
    /\ pub' = [pub EXCEPT ![a] = [pc |-> "publish", size |-> stored]]
    /\ UNCHANGED <<stored, topics, logVars, groupVars, client, fetch, offsetVars, churn, delivered>>

\* AppendMessage to a partition that the caller names, or one by the hash of the key or
\* the clock: the message has its offset and cannot be read yet.
AppendTo(n) ==
    /\ \E p \in 0 .. n - 1 :
          /\ next' = [next EXCEPT ![p] = @ + 1]
          /\ hidden' = [hidden EXCEPT ![p] = @ \cup {next[p]}]
    /\ published' = published + 1
    /\ UNCHANGED <<log, late>>

\* Publish finds no topic, here or in storage, ...
FindNoTopic(a) ==
    /\ pub[a] = Idle
    /\ topics = 0 /\ stored = 0
    /\ published < MaxMessages
    /\ pub' = [pub EXCEPT ![a] = [pc |-> "missing"]]
    /\ UNCHANGED <<stored, topics, logVars, groupVars, client, fetch, offsetVars, churn, delivered>>

\* ... and creates it, over one that somebody else has created since.
AutoCreate(a) ==
    /\ pub[a].pc = "missing"
    /\ StoreTopic(a, DefaultSize, "publish")
    /\ UNCHANGED <<topics, logVars, groupVars, client, fetch, offsetVars, churn, delivered>>

Publish(a) ==
    /\ pub[a] = Idle
    /\ topics # 0
    /\ published < MaxMessages
    /\ AppendTo(topics)
    /\ UNCHANGED <<stored, topics, pub, groupVars, client, fetch, offsetVars, churn, delivered>>

\* The change of s.topics that ends CreateTopic and GetTopicMetadata; Publish goes on.
SetTopic(a) ==
    /\ pub[a].pc \in {"create", "publish"}
    /\ topics' = pub[a].size
    /\ pub' = [pub EXCEPT ![a] = Idle]
    /\ IF pub[a].pc = "publish" /\ published < MaxMessages
       THEN AppendTo(pub[a].size) ELSE UNCHANGED logVars
    /\ UNCHANGED <<stored, groupVars, client, fetch, offsetVars, churn, delivered>>

\* What the group has read: delivered, or collected by a Consume that will return it.
Read(p) ==
    delivered[p] \cup UNION {client[m].got[p].msgs : m \in {c \in Members : client[c].pc = "collect"}}

\* A flush commits; which of several flushes comes first is left open (StreamLog).
flushWrites(p, S) ==
    /\ S # {}
    /\ log' = [log EXCEPT ![p] = @ \cup S]
    /\ hidden' = [hidden EXCEPT ![p] = @ \ S]
    /\ late' = [late EXCEPT ![p] = @ \cup {o \in S : \E d \in Read(p) : o <= d}]
    /\ UNCHANGED <<stored, topics, pub, published, next, groupVars, client, fetch, offsetVars, churn, delivered>>

\* The age of a message says nothing about its offset once offsets were reused.
DeleteOldMessages(p, S) ==
    /\ S # {}
    /\ log' = [log EXCEPT ![p] = @ \ S]
    /\ UNCHANGED <<stored, topics, pub, published, next, hidden, late, groupVars, client, fetch,
                   offsetVars, churn, delivered>>

-----------------------------------------------------------------------------
(***************************************************************************)
(* Membership.  groupsMu is held from the registration to the end of the   *)
(* rebalance.                                                              *)
(***************************************************************************)
InGroup == {m \in Members : assigned[m] # None}

Subscribe(m) ==
    /\ client[m] = Idle
    /\ groupsMu = None
    /\ Churn
    /\ assigned' = [assigned EXCEPT ![m] = IF @ = None THEN {} ELSE @]
    /\ groupsMu' = m
    /\ client' = [client EXCEPT ![m] = [pc |-> "metadata"]]
    /\ UNCHANGED <<topicVars, fetch, offsetVars, delivered, based>>

\* An empty group is deleted.
Unsubscribe(m) ==
    /\ client[m] = Idle
    /\ groupsMu = None
    /\ InGroup # {}
    /\ Churn
    /\ assigned' = [assigned EXCEPT ![m] = None]
    /\ IF InGroup \subseteq {m}
       THEN UNCHANGED <<groupsMu, client>>
       ELSE groupsMu' = m /\ client' = [client EXCEPT ![m] = [pc |-> "metadata"]]
    /\ UNCHANGED <<topicVars, fetch, offsetVars, delivered, based>>

\* GetTopicMetadata of a rebalance.  Without a topic the call fails here, and what it
\* registered stays.
RebalanceMetadata(m) ==
    /\ client[m].pc = "metadata"
    /\ LET goto(state) == client' = [client EXCEPT ![m] = state]
       IN  \/ topics # 0 /\ goto([pc |-> "assign", size |-> topics])
              /\ UNCHANGED <<groupsMu, based>>
           \/ topics = 0 /\ stored # 0 /\ goto([pc |-> "load", size |-> stored])
              /\ UNCHANGED <<groupsMu, based>>
           \/ topics = 0 /\ stored = 0 /\ goto(Idle) /\ groupsMu' = None /\ based' = 0
    /\ UNCHANGED <<topicVars, assigned, fetch, offsetVars, churn, delivered>>

RebalanceLoad(m) ==
    /\ client[m].pc = "load"
    /\ topics' = client[m].size
    /\ client' = [client EXCEPT ![m].pc = "assign"]
    /\ UNCHANGED <<stored, pub, logVars, groupVars, fetch, offsetVars, churn, delivered>>

\* Fault: the extra partitions are not counted down.
ShareWithExtras(i, n, k) ==
    LET size == n \div k + (IF n % k > 0 THEN 1 ELSE 0)
    IN  {p \in Parts : i * size <= p /\ p < (i + 1) * size}

\* The partitions of the i-th of k members (from 0): the first n % k get one more.
Share(i, n, k) ==
    LET extra(j) == IF j < n % k THEN j ELSE n % k
        start(j) == j * (n \div k) + extra(j)
    IN  start(i) .. start(i + 1) - 1

\* Members come in the order of a Go map.
Orders == {pos \in [InGroup -> 0 .. Cardinality(InGroup) - 1] :
              \A m1, m2 \in InGroup : pos[m1] = pos[m2] => m1 = m2}

rebalanceGroup(m) ==
    /\ client[m].pc = "assign"
    /\ \E pos \in Orders :
          assigned' = [c \in Members |->
              IF c \in InGroup THEN Share(pos[c], client[m].size, Cardinality(InGroup))
              ELSE None]
    /\ based' = client[m].size
    /\ groupsMu' = None
    /\ client' = [client EXCEPT ![m] = Idle]
    /\ UNCHANGED <<topicVars, fetch, offsetVars, churn, delivered>>

-----------------------------------------------------------------------------
(***************************************************************************)
(* Consume.                                                                *)
(***************************************************************************)
\* What a member has of each partition: messages, and the offset that it read them from or
\* committed last.
Nothing == [p \in Parts |-> [from |-> 0, msgs |-> {}]]
Holds(got) == {p \in Parts : got[p].msgs # {}}

PerPart(count, parts) ==
    LET share == count \div Cardinality(parts) IN IF share = 0 THEN 1 ELSE share

\* Goroutines are interchangeable: one for each partition.
Runners(parts) ==
    CHOOSE on \in [parts -> {x \in Fetchers : fetch[x] = Idle}] :
        \A p1, p2 \in parts : on[p1] = on[p2] => p1 = p2

\* A copy of the member's partitions, and one goroutine for each.  A member without
\* partitions gets an empty answer, one that is not registered an error.
Consume(m, count) ==
    /\ client[m] = Idle
    /\ assigned[m] \notin {None, {}}
    /\ Cardinality({x \in Fetchers : fetch[x] = Idle}) >= Cardinality(assigned[m])
    /\ LET on == Runners(assigned[m])
       IN  fetch' = [x \in Fetchers |->
               IF \E p \in assigned[m] : on[p] = x
               THEN [pc |-> "offset", for |-> m, part |-> CHOOSE p \in assigned[m] : on[p] = x,
                     max |-> PerPart(count, assigned[m])]
               ELSE fetch[x]]
    /\ client' = [client EXCEPT ![m] = [pc |-> "collect", left |-> count, got |-> Nothing]]
    /\ UNCHANGED <<topicVars, groupVars, offsetVars, churn, delivered>>

\* A goroutine that Consume has left behind reads messages that nobody receives: in this
\* model it ends where only the read is left.
LookedUp(f, pc, offset) ==
    IF pc = "read" /\ f.for = None THEN Idle
    ELSE [pc |-> pc, for |-> f.for, part |-> f.part, max |-> f.max, offset |-> offset]

\* Fault: a miss starts from the beginning.
OffsetFromZero(x) ==
    /\ fetch[x].pc = "offset"
    /\ LET p == fetch[x].part
       IN  fetch' = [fetch EXCEPT ![x] =
               IF cache[p] = None THEN LookedUp(fetch[x], "fill", 0)
               ELSE LookedUp(fetch[x], "read", cache[p])]
    /\ UNCHANGED <<topicVars, groupVars, client, offsetVars, churn, delivered>>

\* getCachedOffset: the cache, or the storage and then the cache.
getCachedOffset(x) ==
    /\ fetch[x].pc = "offset"
    /\ LET p == fetch[x].part
       IN  fetch' = [fetch EXCEPT ![x] =
               IF cache[p] = None THEN LookedUp(fetch[x], "fill", saved[p])
               ELSE LookedUp(fetch[x], "read", cache[p])]
    /\ UNCHANGED <<topicVars, groupVars, client, offsetVars, churn, delivered>>

FillCache(x) ==
    /\ fetch[x].pc = "fill"
    /\ cache' = [cache EXCEPT ![fetch[x].part] = fetch[x].offset]
    /\ fetch' = [fetch EXCEPT ![x] = LookedUp(@, "read", @.offset)]
    /\ UNCHANGED <<topicVars, groupVars, client, saved, done, churn, delivered>>

\* Fault: the search starts behind the offset.
FetchAfter(f) ==
    [from |-> f.offset,
     msgs |-> {o \in log[f.part] :
                 /\ f.offset < o
                 /\ Cardinality({i \in log[f.part] : f.offset < i /\ i < o}) < f.max}]

\* The first messages of a partition, from an offset on, that can be read.
FetchMessages(f) ==
    [from |-> f.offset,
     msgs |-> {o \in log[f.part] :
                 /\ f.offset <= o
                 /\ Cardinality({i \in log[f.part] : f.offset <= i /\ i < o}) < f.max}]

\* Consume returns with what it has; goroutines that have not answered run on unheard.
Return(m, got, x) ==
    /\ client' = [client EXCEPT ![m] =
                     IF Holds(got) = {} THEN Idle ELSE [pc |-> "got", got |-> got]]
    /\ delivered' = [p \in Parts |-> delivered[p] \cup got[p].msgs]
    /\ fetch' = [y \in Fetchers |->
                    IF fetch[y] = Idle \/ y = x THEN Idle
                    ELSE IF fetch[y].for # m THEN fetch[y]
                    ELSE IF fetch[y].pc = "read" THEN Idle
                    ELSE [fetch[y] EXCEPT !.for = None]]

\* A goroutine sends what it read, and Consume collects answers in the order in which
\* they come until it has enough.
Collect(x) ==
    /\ fetch[x].pc = "read"
    /\ LET m == fetch[x].for
           res == FetchMessages(fetch[x])
           n == Cardinality(res.msgs)
           got == [client[m].got EXCEPT ![fetch[x].part] = res]
           others == {y \in Fetchers \ {x} : fetch[y] # Idle /\ fetch[y].for = m}
       IN  IF n >= client[m].left \/ others = {}
           THEN Return(m, got, x)
           ELSE /\ client' = [client EXCEPT ![m].got = got, ![m].left = @ - n]
                /\ fetch' = [fetch EXCEPT ![x] = Idle]
                /\ UNCHANGED delivered

Answer(x) == Collect(x) /\ UNCHANGED <<topicVars, groupVars, offsetVars, churn>>

-----------------------------------------------------------------------------
(***************************************************************************)
(* Commit: the client commits after each message, in the order of offsets, *)
(* or gives up what is left.                                               *)
(***************************************************************************)
CommitCache(m, p, o) ==
    /\ client[m].pc = "got"
    /\ o \in client[m].got[p].msgs /\ \A i \in client[m].got[p].msgs : o <= i
    /\ cache' = [cache EXCEPT ![p] = o + 1]
    /\ LET got == client[m].got
       IN  client' = [client EXCEPT ![m] =
               [pc |-> "persist", part |-> p,
                got |-> [got EXCEPT ![p] = [from |-> o + 1, msgs |-> got[p].msgs \ {o}]]]]
    /\ UNCHANGED <<topicVars, groupVars, fetch, saved, done, churn, delivered>>

CommitStore(m) ==
    /\ client[m].pc = "persist"
    /\ LET p == client[m].part
           got == client[m].got
       IN  /\ saved' = [saved EXCEPT ![p] = got[p].from]
           /\ done' = [done EXCEPT ![p] = IF got[p].from > @ THEN got[p].from ELSE @]
           /\ client' = [client EXCEPT ![m] =
                            IF Holds(got) = {} THEN Idle ELSE [pc |-> "got", got |-> got]]
    /\ UNCHANGED <<topicVars, groupVars, fetch, cache, churn, delivered>>

GiveUp(m) ==
    /\ client[m].pc = "got"
    /\ client' = [client EXCEPT ![m] = Idle]
    /\ UNCHANGED <<topicVars, groupVars, fetch, offsetVars, churn, delivered>>

\* The process starts again.  Members, the cache and what was not written are gone, and
\* the counters of offsets, which nothing stores, start again.
Restart ==
    /\ Churn
    /\ topics' = 0
    /\ pub' = [a \in Publishers |-> Idle]
    /\ assigned' = [m \in Members |-> None]
    /\ client' = [m \in Members |-> Idle]
    /\ groupsMu' = None
    /\ fetch' = [x \in Fetchers |-> Idle]
    /\ cache' = [p \in Parts |-> None]
    /\ done' = [p \in Parts |-> IF p \in crossed THEN saved[p] ELSE done[p]]
    /\ based' = 0
    /\ next' = [p \in Parts |-> 0] /\ hidden' = [p \in Parts |-> {}]
    /\ UNCHANGED <<stored, published, log, late, saved, delivered>>

-----------------------------------------------------------------------------
\* The members that are fetching from a partition or hold messages of it.
Working(p, clients, fetches) ==
    {m \in Members :
        \/ clients[m].pc \in {"got", "collect"} /\ p \in Holds(clients[m].got)
        \/ clients[m].pc = "persist" /\ (p \in Holds(clients[m].got) \/ clients[m].part = p)
        \/ \E x \in Fetchers : fetches[x] # Idle /\ fetches[x].for = m /\ fetches[x].part = p}

Clash(p, clients, fetches) ==
    \/ Cardinality(Working(p, clients, fetches)) > 1
    \/ /\ \E m \in Members : clients[m].pc = "persist" /\ clients[m].part = p
       /\ \E x \in Fetchers : fetches[x].pc = "fill" /\ fetches[x].part = p

\* Creations of the topic, and changes of s.topics, that are under way.
Changing(pubs, clients) ==
    {a \in Publishers : pubs[a] # Idle} \cup {m \in Members : clients[m].pc = "load"}

Observe ==
    IF topics' = 0 /\ topics # 0
    THEN crossed' = {} /\ muddled' = FALSE
    ELSE /\ crossed' = crossed \cup {p \in Parts : Clash(p, client', fetch')}
         /\ muddled' = (muddled \/ Cardinality(Changing(pub', client')) > 1)

PublisherStep(a) ==
    \/ \E n \in Sizes : CreateTopic(a, n)
    \/ LoadTopic(a) \/ FindNoTopic(a) \/ AutoCreate(a) \/ Publish(a) \/ SetTopic(a)

RebalanceStep(m) == RebalanceMetadata(m) \/ RebalanceLoad(m) \/ rebalanceGroup(m)

FetchStep(x) == getCachedOffset(x) \/ FillCache(x) \/ Answer(x)

CommitStep(m) ==
    client[m].pc = "got" /\ \E p \in Parts : \E o \in client[m].got[p].msgs : CommitCache(m, p, o)

LogStep(p) ==
    \/ \E S \in SUBSET hidden[p] : flushWrites(p, S)
    \/ \E S \in SUBSET log[p] : DeleteOldMessages(p, S)

Next ==
    /\ \/ \E a \in Publishers : PublisherStep(a)
       \/ \E m \in Members :
             \/ Subscribe(m) \/ Unsubscribe(m) \/ RebalanceStep(m)
             \/ \E count \in Counts : Consume(m, count)
             \/ CommitStep(m) \/ CommitStore(m) \/ GiveUp(m)
       \/ \E x \in Fetchers : FetchStep(x)
       \/ \E p \in Parts : LogStep(p)
       \/ Restart
    /\ Observe

Spec == Init /\ [][Next]_vars

-----------------------------------------------------------------------------
\* No two members ever share a partition, also while a rebalance is under way, and when
\* none is, the members together have every partition that the topic had at the last
\* rebalance, in shares that differ by at most one; a group that was joined before the
\* topic existed has none.
AssignmentExact ==
    /\ \A m1, m2 \in InGroup : m1 # m2 => assigned[m1] \cap assigned[m2] = {}
    /\ (groupsMu = None /\ InGroup # {}) =>
          /\ UNION {assigned[m] : m \in InGroup} = 0 .. based - 1
          /\ \A m1, m2 \in InGroup : Cardinality(assigned[m1]) <= Cardinality(assigned[m2]) + 1

\* The group never resumes behind a message that it has not received: whatever can be read
\* below the stored or the cached offset was delivered, although Consume drops the answers
\* that come too late, members overlap during a rebalance, messages appear in any order
\* and offsets are used again after a restart; but for messages that could be read only
\* after the group had read that offset or a higher one.
NothingSkipped ==
    \A p \in Parts : \A o \in log[p] :
        (o < saved[p] \/ (cache[p] # None /\ o < cache[p])) => o \in delivered[p] \cup late[p]

Resume(p) == IF cache[p] = None THEN saved[p] ELSE cache[p]

\* The group resumes no earlier than the last commit that returned, across rebalances and
\* restarts, unless two members worked on the partition at once or a goroutine was
\* looking up the offset during a commit.
ResumesAfterCommit == \A p \in Parts \ crossed : Resume(p) >= done[p]

\* The topic in memory is the topic on disk, unless creations or loads of it overlapped.
MetadataAgrees ==
    (~muddled /\ topics # 0 /\ Changing(pub, client) = {}) => topics = stored

=============================================================================
