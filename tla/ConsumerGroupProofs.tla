--------------------------- MODULE ConsumerGroupProofs ---------------------------
(***************************************************************************)
(* Proofs about ConsumerGroup for any number of members, publishers,       *)
(* goroutines and partitions: the assignment is exact, no message is       *)
(* skipped, a group resumes after its last commit, and the metadata in     *)
(* memory agree with the storage.                                          *)
(***************************************************************************)
EXTENDS ConsumerGroup, FiniteSetTheorems, TLAPS

(***************************************************************************)
(* The arithmetic of rebalanceGroup.                                       *)
(***************************************************************************)
\* Where the share of the j-th of k members starts, for q = n \div k and r = n % k.
Start(j, q, r) == j * q + (IF j < r THEN j ELSE r)

\* Division with remainder.
LEMMA Division ==
    ASSUME NEW n \in Nat, NEW k \in Nat \ {0}
    PROVE  /\ n \div k \in Nat /\ n % k \in Nat
           /\ n % k < k /\ n = k * (n \div k) + (n % k)
  <1>1. n \div k \in Int /\ n \div k >= 0
    OBVIOUS
  <1>2. n % k \in 0 .. k - 1
    OBVIOUS
  <1>3. n = k * (n \div k) + (n % k)
    OBVIOUS
  <1> QED
    BY <1>1, <1>2, <1>3

\* Multiplication is monotone.
LEMMA TimesMonotone ==
    ASSUME NEW a \in Nat, NEW b \in Nat, NEW q \in Nat, a <= b
    PROVE  a * q \in Nat /\ b * q \in Nat /\ a * q <= b * q
  <1>1. PICK d \in Nat : b = a + d
    <2>1. b - a \in Nat /\ b = a + (b - a)
      OBVIOUS
    <2> QED
      BY <2>1
  <1>2. a * q \in Nat /\ d * q \in Nat /\ b * q = a * q + d * q
    BY <1>1
  <1> QED
    BY <1>2

\* The shares are consecutive.
LEMMA StartMonotone ==
    ASSUME NEW a \in Nat, NEW b \in Nat, a <= b, NEW q \in Nat, NEW r \in Nat
    PROVE  /\ Start(a, q, r) \in Nat /\ Start(b, q, r) \in Nat
           /\ Start(a, q, r) <= Start(b, q, r)
  <1>1. a * q \in Nat /\ b * q \in Nat /\ a * q <= b * q
    BY TimesMonotone
  <1> QED
    BY <1>1 DEF Start

\* The first share starts with the first partition and the last ends with the last.
LEMMA StartEnds ==
    ASSUME NEW n \in Nat, NEW k \in Nat \ {0}
    PROVE  Start(0, n \div k, n % k) = 0 /\ Start(k, n \div k, n % k) = n
  <1>1. /\ n \div k \in Nat /\ n % k \in Nat
        /\ n % k < k /\ n = k * (n \div k) + (n % k)
    BY Division
  <1>2. 0 * (n \div k) = 0
    BY <1>1
  <1> QED
    BY <1>1, <1>2 DEF Start

\* A share has q partitions, or one more.
LEMMA StartNext ==
    ASSUME NEW j \in Nat, NEW q \in Nat, NEW r \in Nat
    PROVE  /\ Start(j, q, r) \in Nat
           /\ Start(j + 1, q, r) = Start(j, q, r) + q + (IF j < r THEN 1 ELSE 0)
  <1>1. j * q \in Nat /\ (j + 1) * q = j * q + q
    OBVIOUS
  <1> QED
    BY <1>1 DEF Start

\* Every partition is in somebody's share.
LEMMA StartCovers ==
    ASSUME NEW n \in Nat, NEW k \in Nat \ {0}, NEW p \in 0 .. n - 1
    PROVE  \E i \in 0 .. k - 1 :
              Start(i, n \div k, n % k) <= p /\ p < Start(i + 1, n \div k, n % k)
  <1> DEFINE q == n \div k
             r == n % k
  <1>1. q \in Nat /\ r \in Nat /\ r < k /\ n = k * q + r
    BY Division
  <1> HIDE DEF q, r
  <1>2. CASE p < r * (q + 1)
    <2> DEFINE i == p \div (q + 1)
               t == p % (q + 1)
    <2>1. i \in Nat /\ t \in Nat /\ t < q + 1 /\ p = (q + 1) * i + t
      <3>1. p \in Nat /\ q + 1 \in Nat \ {0}
        BY <1>1
      <3> QED
        BY <3>1, Division
    <2> HIDE DEF i, t
    <2>2. i < r
      <3> SUFFICES ASSUME r <= i
                   PROVE  FALSE
        BY <1>1, <2>1
      <3>1. r * (q + 1) <= i * (q + 1)
        BY <1>1, <2>1, TimesMonotone
      <3>2. i * (q + 1) = (q + 1) * i /\ i * (q + 1) \in Nat /\ r * (q + 1) \in Nat
        BY <1>1, <2>1
      <3> QED
        BY <1>2, <2>1, <3>1, <3>2
    <2>3. (q + 1) * i = i * q + i /\ i * q \in Nat
      BY <1>1, <2>1
    <2>4. Start(i, q, r) = i * q + i /\ Start(i + 1, q, r) = i * q + i + q + 1
      BY <1>1, <2>1, <2>2, <2>3, StartNext DEF Start
    <2>5. i \in 0 .. k - 1
      BY <1>1, <2>1, <2>2
    <2>6. Start(i, q, r) <= p /\ p < Start(i + 1, q, r)
      BY <1>1, <2>1, <2>3, <2>4
    <2> QED
      BY <2>5, <2>6 DEF q, r
  <1>3. CASE r * (q + 1) <= p
    <2>1. r * (q + 1) = r * q + r /\ r * q \in Nat
      BY <1>1
    <2>2. k * q = r * q + (k - r) * q /\ (k - r) \in Nat /\ (k - r) * q \in Nat
      BY <1>1
    <2>3. q # 0
      BY <1>1, <1>3
    <2> DEFINE s == p - (r * q + r)
               j == s \div q
               t == s % q
    <2>4. s \in Nat /\ s < (k - r) * q
      BY <1>1, <1>3, <2>1, <2>2
    <2>5. j \in Nat /\ t \in Nat /\ t < q /\ s = q * j + t
      <3> HIDE DEF s
      <3> QED
        BY <1>1, <2>3, <2>4, Division
    <2>6. p = r * q + r + s
      BY <1>1, <2>1
    <2> HIDE DEF s, j, t
    <2>7. j < k - r
      <3> SUFFICES ASSUME k - r <= j
                   PROVE  FALSE
        BY <1>1, <2>5
      <3>1. (k - r) * q <= j * q
        BY <1>1, <2>2, <2>5, TimesMonotone
      <3>2. j * q = q * j /\ j * q \in Nat
        BY <1>1, <2>5
      <3> QED
        BY <2>2, <2>4, <2>5, <3>1, <3>2
    <2>8. (r + j) * q = r * q + j * q /\ j * q = q * j /\ j * q \in Nat
      BY <1>1, <2>5
    <2>9. /\ Start(r + j, q, r) = r * q + q * j + r
          /\ Start(r + j + 1, q, r) = r * q + q * j + r + q
      <3>1. Start(r + j, q, r) = r * q + q * j + r
        BY <1>1, <2>5, <2>8 DEF Start
      <3>2. r + j \in Nat /\ ~(r + j < r)
        BY <1>1, <2>5
      <3>3. Start(r + j + 1, q, r) = Start(r + j, q, r) + q + 0
        BY <1>1, <3>2, StartNext
      <3> QED
        BY <1>1, <2>1, <2>8, <3>1, <3>3
    <2>10. r + j \in 0 .. k - 1
      BY <1>1, <2>5, <2>7
    <2>11. Start(r + j, q, r) <= p /\ p < Start(r + j + 1, q, r)
      BY <1>1, <2>1, <2>4, <2>5, <2>6, <2>8, <2>9
    <2> QED
      BY <2>10, <2>11 DEF q, r
  <1>4. p \in Nat /\ r * (q + 1) \in Nat
    BY <1>1
  <1> QED
    BY <1>2, <1>3, <1>4
-----------------------------------------------------------------------------
(***************************************************************************)
(* The inductive invariant.                                                *)
(***************************************************************************)
PubStates == {Idle} \cup [pc : {"missing"}] \cup [pc : {"create", "publish"}, size : Sizes]

Gots ==
    {g \in [Parts -> [from : Nat, msgs : SUBSET Nat]] : \A p \in Parts : \A d \in g[p].msgs : g[p].from <= d}

ClientStates ==
    {Idle} \cup [pc : {"metadata"}] \cup [pc : {"load", "assign"}, size : Sizes]
           \cup [pc : {"collect"}, left : Int, got : Gots] \cup [pc : {"got"}, got : Gots]
           \cup [pc : {"persist"}, part : Parts, got : Gots]

FetchStates ==
    {Idle} \cup [pc : {"offset"}, for : Members \cup {None}, part : Parts, max : Nat]
           \cup [pc : {"fill"}, for : Members \cup {None}, part : Parts, max : Nat, offset : Nat]
           \cup [pc : {"read"}, for : Members, part : Parts, max : Nat, offset : Nat]

LogTypes ==
    /\ next \in [Parts -> Nat]
    /\ hidden \in [Parts -> SUBSET Nat] /\ log \in [Parts -> SUBSET Nat]
    /\ \A p \in Parts : IsFiniteSet(hidden[p]) /\ IsFiniteSet(log[p])
    /\ DOMAIN late = Parts

TopicTypes ==
    /\ stored \in Sizes \cup {0} /\ topics \in Sizes \cup {0}
    /\ pub \in [Publishers -> PubStates]
    /\ LogTypes

ClientTypes ==
    /\ assigned \in [Members -> (SUBSET Parts) \cup {None}]
    /\ client \in [Members -> ClientStates]
    /\ fetch \in [Fetchers -> FetchStates]

OffsetTypes ==
    /\ cache \in [Parts -> Nat \cup {None}]
    /\ saved \in [Parts -> Nat] /\ done \in [Parts -> Nat]
    /\ DOMAIN delivered = Parts

\* A goroutine that somebody waits for works for a member that collects.
Collecting ==
    \A x \in Fetchers : fetch[x] # Idle /\ fetch[x].for # None =>
        client[fetch[x].for].pc = "collect"

Types == TopicTypes /\ ClientTypes /\ OffsetTypes /\ Collecting

\* Before there is a topic nobody has, or is about to get, a partition.
NothingBeforeTopic ==
    stored = 0 =>
        /\ topics = 0
        /\ \A a \in Publishers : pub[a].pc \notin {"create", "publish"}
        /\ \A m \in Members : client[m].pc \notin {"load", "assign"} /\ assigned[m] \in {None, {}}

\* Of messages L that can be read, those below o are in D or in T, and something at or
\* after every offset below o is in D.
Through(o, L, D, T) ==
    /\ \A i \in L : i < o => i \in D \cup T
    /\ \A i \in Nat : i < o => \E d \in D : i <= d

\* Whatever can be read below o of partition p was delivered or is late, and whatever can
\* be read there from now on will be late.
Passed(p, o) == Through(o, log[p], delivered[p], late[p])

\* Messages that were read have left out nothing, of L, since the offset they were read from.
Whole(g, L, T) == \A d \in g.msgs : \A i \in L : g.from <= i /\ i <= d => i \in g.msgs \cup T

\* The group's offsets.
Behind ==
    \A p \in Parts :
        /\ Passed(p, saved[p])
        /\ cache[p] # None => Passed(p, cache[p])

\* Nobody is about to resume after a message that was not delivered.
NothingAhead ==
    /\ \A x \in Fetchers : fetch[x].pc \in {"fill", "read"} => Passed(fetch[x].part, fetch[x].offset)
    /\ \A m \in Members : \A p \in Parts :
          /\ client[m].pc = "collect" =>
                Passed(p, client[m].got[p].from) /\ Whole(client[m].got[p], log[p], late[p])
          /\ client[m].pc \in {"got", "persist"} =>
                /\ Passed(p, client[m].got[p].from)
                /\ \A d \in client[m].got[p].msgs : Passed(p, d + 1)

Persisting(p) == {m \in Members : client[m].pc = "persist" /\ client[m].part = p}

\* A partition that nobody crossed: the offset that a goroutine has looked up, the cached
\* one and that of the messages a member holds are the stored one, but for a commit that
\* has changed the cache and not yet the storage.
Line(p) ==
    /\ done[p] <= saved[p]
    /\ cache[p] = None \/ cache[p] = saved[p] \/ Persisting(p) # {}
    /\ \A x \in Fetchers : fetch[x].pc \in {"fill", "read"} /\ fetch[x].part = p =>
          fetch[x].offset = saved[p]
    /\ \A m \in Members :
          /\ client[m].pc \in {"collect", "got", "persist"} /\ m \notin Persisting(p)
                /\ p \in Holds(client[m].got) => client[m].got[p].from = saved[p]
          /\ m \in Persisting(p) =>
                cache[p] = client[m].got[p].from /\ client[m].got[p].from >= saved[p]

InLine(p) == ~Clash(p, client, fetch) /\ Line(p)

\* One change of the topic at a time, which has stored what it will set.
TopicInLine ==
    ~muddled =>
        /\ \A a1, a2 \in Changing(pub, client) : a1 = a2
        /\ \A a \in Publishers : pub[a].pc \in {"create", "publish"} => pub[a].size = stored
        /\ \A m \in Members : client[m].pc = "load" => client[m].size = stored
        /\ topics # 0 /\ Changing(pub, client) = {} => topics = stored

GroupInv ==
    /\ Types
    /\ NothingBeforeTopic /\ AssignmentExact
    /\ NothingAhead /\ Behind
    /\ \A p \in Parts \ crossed : InLine(p)
    /\ TopicInLine

-----------------------------------------------------------------------------
(***************************************************************************)
(* Types.                                                                  *)
(***************************************************************************)
\* What a state is, by its place.
LEMMA ClientIs ==
    ASSUME NEW c \in ClientStates
    PROVE  /\ c.pc = "idle" => c = Idle
           /\ c = Idle => c.pc = "idle"
           /\ c.pc \in {"load", "assign"} => c \in [pc : {"load", "assign"}, size : Sizes]
           /\ c.pc = "collect" => c \in [pc : {"collect"}, left : Int, got : Gots]
           /\ c.pc = "got" => c \in [pc : {"got"}, got : Gots]
           /\ c.pc = "persist" => c \in [pc : {"persist"}, part : Parts, got : Gots]
  BY DEF ClientStates, Idle

\* The fields that a fetching goroutine has at each of its steps.
LEMMA FetchIs ==
    ASSUME NEW f \in FetchStates
    PROVE  /\ f.pc \in {"idle", "offset", "fill", "read"}
           /\ f.pc = "idle" <=> f = Idle
           /\ f.pc = "offset" =>
                 f \in [pc : {"offset"}, for : Members \cup {None}, part : Parts, max : Nat]
           /\ f.pc = "fill" =>
                 f \in [pc : {"fill"}, for : Members \cup {None}, part : Parts, max : Nat,
                        offset : Nat]
           /\ f.pc = "read" =>
                 f \in [pc : {"read"}, for : Members, part : Parts, max : Nat, offset : Nat]
           /\ f # Idle => f.for \in Members \cup {None} /\ f.part \in Parts
  BY DEF FetchStates, Idle

\* The fields that a publisher has at each of its steps.
LEMMA PubIs ==
    ASSUME NEW s \in PubStates
    PROVE  /\ s.pc = "idle" <=> s = Idle
           /\ s.pc \in {"create", "publish"} => s.size \in Sizes
  BY DEF PubStates, Idle

\* The largest number of partitions bounds them all.
LEMMA PartsIs ==
    /\ \A n \in Sizes : n \in Nat \ {0} /\ 0 .. n - 1 \subseteq Parts
    /\ IsFiniteSet(Parts) /\ Parts \subseteq Nat
    /\ {} \in SUBSET Parts /\ None \notin SUBSET Parts /\ None \notin Nat
  <1> DEFINE N == CHOOSE n \in Sizes : \A k \in Sizes : k <= n
  <1>1. N \in Sizes /\ \A k \in Sizes : k <= N
    BY GroupAssumption
  <1>2. Parts = 0 .. N - 1
    BY DEF Parts
  <1> HIDE DEF N
  <1>3. \A n \in Sizes : n \in Nat \ {0} /\ n <= N
    BY <1>1, GroupAssumption
  <1>4. IsFiniteSet(Parts)
    BY <1>1, <1>2, <1>3, FS_Interval
  <1>5. Parts \subseteq Nat
    BY <1>1, <1>2, <1>3
  <1>6. \A n \in Sizes : 0 .. n - 1 \subseteq Parts
    BY <1>1, <1>2, <1>3
  <1> QED
    BY <1>3, <1>4, <1>5, <1>6, GroupAssumption

\* The share of a member, from the start of its own to the start of the next.
LEMMA ShareIs ==
    ASSUME NEW n \in Sizes, NEW k \in Nat \ {0}, NEW i \in 0 .. k - 1
    PROVE  /\ Share(i, n, k) = Start(i, n \div k, n % k) .. Start(i + 1, n \div k, n % k) - 1
           /\ Share(i, n, k) \subseteq 0 .. n - 1
           /\ Share(i, n, k) \in SUBSET Parts
  <1>1. n \in Nat /\ i \in Nat /\ i + 1 \in Nat /\ i + 1 <= k /\ k \in Nat
    BY GroupAssumption
  <1>2. n \div k \in Nat /\ n % k \in Nat
    BY <1>1, Division
  <1>3. Share(i, n, k) = Start(i, n \div k, n % k) .. Start(i + 1, n \div k, n % k) - 1
    BY DEF Share, Start
  <1>4. /\ Start(i, n \div k, n % k) \in Nat /\ Start(i + 1, n \div k, n % k) \in Nat
        /\ Start(i + 1, n \div k, n % k) <= Start(k, n \div k, n % k)
    <2> DEFINE q == n \div k
               r == n % k
    <2>1. q \in Nat /\ r \in Nat
      BY <1>2
    <2> HIDE DEF q, r
    <2>2. Start(i, q, r) \in Nat
      BY <1>1, <2>1, StartNext
    <2>3. Start(i + 1, q, r) \in Nat /\ Start(i + 1, q, r) <= Start(k, q, r)
      BY <1>1, <2>1, StartMonotone
    <2> QED
      BY <2>2, <2>3 DEF q, r
  <1>5. Start(k, n \div k, n % k) = n
    BY <1>1, StartEnds
  <1>6. Share(i, n, k) \subseteq 0 .. n - 1
    BY <1>1, <1>3, <1>4, <1>5
  <1> QED
    BY <1>3, <1>6, PartsIs

\* The group is finite.
LEMMA InGroupFinite ==
    /\ InGroup \in SUBSET Members
    /\ IsFiniteSet(InGroup) /\ Cardinality(InGroup) \in Nat
    /\ InGroup # {} => Cardinality(InGroup) \in Nat \ {0}
  <1>1. InGroup \in SUBSET Members
    BY DEF InGroup
  <1>2. IsFiniteSet(InGroup)
    BY <1>1, GroupAssumption, FS_Subset
  <1>3. Cardinality(InGroup) \in Nat /\ (Cardinality(InGroup) = 0 <=> InGroup = {})
    BY <1>2, FS_CardinalityType, FS_EmptySet
  <1> QED
    BY <1>1, <1>2, <1>3

\* The publishers' steps keep the types.
LEMMA PublisherTypes ==
    ASSUME Types, NEW a \in Publishers, PublisherStep(a)
    PROVE  Types'
  <1> USE DEF Types
  <1>1. /\ stored \in Sizes \cup {0} /\ topics \in Sizes \cup {0} /\ LogTypes
        /\ pub \in [Publishers -> PubStates] /\ DefaultSize \in Sizes
    BY GroupAssumption DEF TopicTypes
  <1>2. UNCHANGED <<assigned, client, fetch, cache, saved, done, delivered>>
    BY DEF PublisherStep, CreateTopic, LoadTopic, FindNoTopic, AutoCreate, Publish, SetTopic,
           groupVars, offsetVars
  <1>3. ClientTypes' /\ OffsetTypes' /\ Collecting'
    BY <1>2 DEF ClientTypes, OffsetTypes, Collecting
  <1>4. ASSUME NEW n \in Sizes, AppendTo(n)
        PROVE  LogTypes'
    <2>1. PICK p \in 0 .. n - 1 :
              next' = [next EXCEPT ![p] = @ + 1] /\ hidden' = [hidden EXCEPT ![p] = @ \cup {next[p]}]
      BY <1>4 DEF AppendTo
    <2>2. p \in Parts /\ UNCHANGED <<log, late>>
      BY <1>4, PartsIs DEF AppendTo
    <2>3. IsFiniteSet(hidden[p] \cup {next[p]})
      BY <1>1, <2>2, FS_AddElement DEF LogTypes
    <2> QED
      BY <1>1, <2>1, <2>2, <2>3 DEF LogTypes
  <1>5. ASSUME NEW n \in Sizes, NEW w \in {"create", "publish"}
        PROVE  [pub EXCEPT ![a] = [pc |-> w, size |-> n]] \in [Publishers -> PubStates]
    BY <1>1 DEF PubStates
  <1>6. /\ [pub EXCEPT ![a] = Idle] \in [Publishers -> PubStates]
        /\ [pub EXCEPT ![a] = [pc |-> "missing"]] \in [Publishers -> PubStates]
    BY <1>1 DEF PubStates
  <1>7. CASE \E n \in Sizes : CreateTopic(a, n)
    BY <1>1, <1>3, <1>5, <1>7 DEF CreateTopic, StoreTopic, TopicTypes, LogTypes, logVars
  <1>8. CASE LoadTopic(a)
    BY <1>1, <1>3, <1>5, <1>8 DEF LoadTopic, TopicTypes, LogTypes, logVars
  <1>9. CASE FindNoTopic(a)
    BY <1>1, <1>3, <1>6, <1>9 DEF FindNoTopic, TopicTypes, LogTypes, logVars
  <1>10. CASE AutoCreate(a)
    BY <1>1, <1>3, <1>5, <1>10 DEF AutoCreate, StoreTopic, TopicTypes, LogTypes, logVars
  <1>11. CASE Publish(a)
    BY <1>1, <1>3, <1>4, <1>11 DEF Publish, TopicTypes
  <1>12. CASE SetTopic(a)
    <2>1. topics' \in Sizes
      BY <1>1, <1>12, PubIs DEF SetTopic
    <2>2. LogTypes'
      <3>1. UNCHANGED logVars => LogTypes'
        BY <1>1 DEF logVars, LogTypes
      <3> QED
        BY <1>1, <1>4, <1>12, <3>1, PubIs DEF SetTopic
    <2> QED
      BY <1>1, <1>3, <1>6, <1>12, <2>1, <2>2 DEF SetTopic, TopicTypes
  <1> QED
    BY <1>7, <1>8, <1>9, <1>10, <1>11, <1>12 DEF PublisherStep

\* A member that is not collecting, before and after.
LEMMA ClientGoto ==
    ASSUME Types, NEW m \in Members, client[m].pc # "collect", NEW s \in ClientStates,
           client' = [client EXCEPT ![m] = s], fetch' = fetch,
           assigned' \in [Members -> (SUBSET Parts) \cup {None}]
    PROVE  /\ ClientTypes' /\ Collecting'
           /\ client'[m] = s /\ \A h \in Members : h # m => client'[h] = client[h]
  <1>1. client \in [Members -> ClientStates] /\ fetch \in [Fetchers -> FetchStates]
    BY DEF Types, ClientTypes
  <1>2. client' \in [Members -> ClientStates]
    BY <1>1
  <1>3. client'[m] = s /\ \A h \in Members : h # m => client'[h] = client[h]
    BY <1>1
  <1>4. Collecting'
    BY <1>1, <1>3, FetchIs DEF Types, Collecting
  <1> QED
    BY <1>1, <1>2, <1>3, <1>4 DEF ClientTypes

\* The steps of membership keep the types.
LEMMA MemberTypes ==
    ASSUME Types, NEW m \in Members, Subscribe(m) \/ Unsubscribe(m) \/ RebalanceStep(m)
    PROVE  Types'
  <1> USE DEF Types
  <1>1. /\ stored \in Sizes \cup {0} /\ topics \in Sizes \cup {0}
        /\ assigned \in [Members -> (SUBSET Parts) \cup {None}]
        /\ client \in [Members -> ClientStates] /\ client[m] \in ClientStates
    BY DEF TopicTypes, ClientTypes
  <1>2. UNCHANGED <<stored, pub, next, hidden, log, late, fetch, cache, saved, done, delivered>>
    BY DEF Subscribe, Unsubscribe, RebalanceStep, RebalanceMetadata, RebalanceLoad,
           rebalanceGroup, topicVars, logVars, groupVars, offsetVars
  <1>3. OffsetTypes'
    BY <1>2 DEF OffsetTypes
  <1>4. ASSUME topics' \in Sizes \cup {0}
        PROVE  TopicTypes'
    BY <1>2, <1>4 DEF TopicTypes, LogTypes
  <1>5. client[m].pc # "collect"
    BY DEF Subscribe, Unsubscribe, RebalanceStep, RebalanceMetadata, RebalanceLoad,
           rebalanceGroup, Idle
  <1>6. Idle \in ClientStates /\ [pc |-> "metadata"] \in ClientStates
    BY DEF ClientStates
  <1>7. \A n \in Sizes : \A w \in {"load", "assign"} : [pc |-> w, size |-> n] \in ClientStates
    BY DEF ClientStates
  <1>8. CASE Subscribe(m)
    <2>1. assigned' \in [Members -> (SUBSET Parts) \cup {None}]
      BY <1>1, <1>8, PartsIs DEF Subscribe
    <2> QED
      BY <1>1, <1>2, <1>3, <1>4, <1>5, <1>6, <1>8, <2>1, ClientGoto DEF Subscribe, topicVars, logVars
  <1>9. CASE Unsubscribe(m)
    <2>1. assigned' \in [Members -> (SUBSET Parts) \cup {None}]
      BY <1>1, <1>9 DEF Unsubscribe
    <2>2. topics' = topics
      BY <1>9 DEF Unsubscribe, topicVars, logVars
    <2>3. CASE UNCHANGED client
      BY <1>1, <1>2, <1>3, <1>4, <2>1, <2>2, <2>3 DEF ClientTypes, Collecting
    <2>4. CASE client' = [client EXCEPT ![m] = [pc |-> "metadata"]]
      BY <1>1, <1>2, <1>3, <1>4, <1>5, <1>6, <2>1, <2>2, <2>4, ClientGoto
    <2> QED
      BY <1>9, <2>3, <2>4 DEF Unsubscribe
  <1>10. CASE RebalanceMetadata(m)
    <2>1. assigned' = assigned /\ topics' = topics
      BY <1>10 DEF RebalanceMetadata, topicVars, logVars
    <2>2. PICK s \in ClientStates : client' = [client EXCEPT ![m] = s]
      BY <1>1, <1>6, <1>7, <1>10 DEF RebalanceMetadata
    <2> QED
      BY <1>1, <1>2, <1>3, <1>4, <1>5, <2>1, <2>2, ClientGoto
  <1>11. CASE RebalanceLoad(m)
    <2>1. client[m] \in [pc : {"load", "assign"}, size : Sizes]
      BY <1>1, <1>11, ClientIs DEF RebalanceLoad
    <2>2. [client[m] EXCEPT !.pc = "assign"] \in ClientStates /\ client[m].size \in Sizes
      BY <2>1 DEF ClientStates
    <2>3. client' = [client EXCEPT ![m] = [client[m] EXCEPT !.pc = "assign"]]
      BY <1>11 DEF RebalanceLoad
    <2>4. topics' \in Sizes /\ assigned' = assigned
      BY <1>11, <2>2 DEF RebalanceLoad, groupVars
    <2> QED
      BY <1>1, <1>2, <1>3, <1>4, <1>5, <2>2, <2>3, <2>4, ClientGoto
  <1>12. CASE rebalanceGroup(m)
    <2>1. client[m].size \in Sizes
      BY <1>1, <1>12, ClientIs DEF rebalanceGroup
    <2>2. PICK pos \in Orders :
             assigned' = [c \in Members |->
                 IF c \in InGroup THEN Share(pos[c], client[m].size, Cardinality(InGroup))
                 ELSE None]
      BY <1>12 DEF rebalanceGroup
    <2>3. \A c \in InGroup : pos[c] \in 0 .. Cardinality(InGroup) - 1
                             /\ Cardinality(InGroup) \in Nat \ {0}
      BY <2>2, InGroupFinite DEF Orders
    <2>4. \A c \in InGroup :
             Share(pos[c], client[m].size, Cardinality(InGroup)) \in SUBSET Parts
      BY <2>1, <2>3, ShareIs
    <2>5. assigned' \in [Members -> (SUBSET Parts) \cup {None}]
      BY <2>2, <2>4
    <2>6. topics' = topics /\ client' = [client EXCEPT ![m] = Idle]
      BY <1>12 DEF rebalanceGroup, topicVars, logVars
    <2> QED
      BY <1>1, <1>2, <1>3, <1>4, <1>5, <1>6, <2>5, <2>6, ClientGoto
  <1> QED
    BY <1>8, <1>9, <1>10, <1>11, <1>12 DEF RebalanceStep

\* Consume: one goroutine for each of the member's partitions.
LEMMA ConsumeIs ==
    ASSUME Types, NEW m \in Members, NEW count \in Counts, Consume(m, count)
    PROVE  /\ client[m] = Idle /\ client[m].pc = "idle"
           /\ client' = [client EXCEPT ![m] = [pc |-> "collect", left |-> count, got |-> Nothing]]
           /\ [pc |-> "collect", left |-> count, got |-> Nothing]
                 \in [pc : {"collect"}, left : Int, got : Gots]
           /\ client'[m] = [pc |-> "collect", left |-> count, got |-> Nothing]
           /\ \A h \in Members : h # m => client'[h] = client[h]
           /\ DOMAIN fetch' = Fetchers
           /\ fetch' = [x \in Fetchers |-> fetch'[x]]
           /\ \A x \in Fetchers :
                 \/ fetch'[x] = fetch[x]
                 \/ /\ fetch'[x] \in [pc : {"offset"}, for : {m}, part : Parts, max : Nat]
                    /\ fetch'[x] \in FetchStates
           /\ UNCHANGED <<stored, topics, pub, next, hidden, log, late, assigned, groupsMu, based, cache, saved, done,
                          delivered>>
  <1>1. /\ assigned \in [Members -> (SUBSET Parts) \cup {None}]
        /\ client \in [Members -> ClientStates] /\ fetch \in [Fetchers -> FetchStates]
    BY DEF Types, ClientTypes
  <1>2. client[m] = Idle /\ client[m].pc = "idle" /\ assigned[m] \in SUBSET Parts /\ assigned[m] # {}
    BY <1>1 DEF Consume, Idle
  <1>3. client' = [client EXCEPT ![m] = [pc |-> "collect", left |-> count, got |-> Nothing]]
    BY DEF Consume
  <1>4. [pc |-> "collect", left |-> count, got |-> Nothing]
           \in [pc : {"collect"}, left : Int, got : Gots]
    BY GroupAssumption DEF Nothing, Gots
  <1>5. PerPart(count, assigned[m]) \in Nat
    <2>1. IsFiniteSet(assigned[m])
      BY <1>2, PartsIs, FS_Subset
    <2>2. Cardinality(assigned[m]) \in Nat \ {0}
      BY <1>2, <2>1, FS_CardinalityType, FS_EmptySet
    <2>3. count \div Cardinality(assigned[m]) \in Nat
      BY <2>2, Division, GroupAssumption
    <2> QED
      BY <2>3 DEF PerPart
  <1>6. PICK on :
          fetch' = [x \in Fetchers |->
               IF \E p \in assigned[m] : on[p] = x
               THEN [pc |-> "offset", for |-> m, part |-> CHOOSE p \in assigned[m] : on[p] = x,
                     max |-> PerPart(count, assigned[m])]
               ELSE fetch[x]]
    BY DEF Consume
  <1>7. ASSUME NEW x \in Fetchers
        PROVE  \/ fetch'[x] = fetch[x]
               \/ /\ fetch'[x] \in [pc : {"offset"}, for : {m}, part : Parts, max : Nat]
                  /\ fetch'[x] \in FetchStates
    <2>1. CASE \E p \in assigned[m] : on[p] = x
      <3> DEFINE p == CHOOSE p \in assigned[m] : on[p] = x
      <3>1. p \in assigned[m]
        BY <2>1
      <3>2. fetch'[x] = [pc |-> "offset", for |-> m, part |-> p,
                         max |-> PerPart(count, assigned[m])]
        BY <1>6, <2>1
      <3> HIDE DEF p
      <3>3. p \in Parts
        BY <1>2, <3>1
      <3> QED
        BY <1>5, <3>2, <3>3 DEF FetchStates
    <2>2. CASE ~ \E p \in assigned[m] : on[p] = x
      BY <1>6, <2>2
    <2> QED
      BY <2>1, <2>2
  <1>8. DOMAIN fetch' = Fetchers /\ fetch' = [x \in Fetchers |-> fetch'[x]]
    BY <1>6
  <1>9. /\ client'[m] = [pc |-> "collect", left |-> count, got |-> Nothing]
        /\ \A h \in Members : h # m => client'[h] = client[h]
    BY <1>1, <1>3
  <1>10. UNCHANGED <<stored, topics, pub, next, hidden, log, late, assigned, groupsMu, based, cache, saved, done,
                    delivered>>
    BY DEF Consume, topicVars, logVars, groupVars, offsetVars
  <1> QED
    BY <1>2, <1>3, <1>4, <1>7, <1>8, <1>9, <1>10

\* A goroutine looks up its offset, and fills the cache if it was a miss.
LEMMA LookupIs ==
    ASSUME Types, NEW x \in Fetchers, getCachedOffset(x) \/ FillCache(x)
    PROVE  LET f == fetch[x]
               p == f.part
               g == fetch'[x]
           IN  /\ f \in FetchStates /\ f # Idle /\ p \in Parts /\ g \in FetchStates
               /\ \A y \in Fetchers : y # x => fetch'[y] = fetch[y]
               /\ fetch' \in [Fetchers -> FetchStates]
               /\ g = Idle \/ (g.part = p /\ g.for = f.for /\ g.pc \in {"fill", "read"})
               /\ f.pc \in {"offset", "fill"}
               /\ getCachedOffset(x) => cache' = cache
               /\ getCachedOffset(x) /\ g # Idle =>
                     \/ g.pc = "fill" /\ cache[p] = None /\ g.offset = saved[p]
                     \/ g.pc = "read" /\ cache[p] # None /\ g.offset = cache[p]
               /\ FillCache(x) =>
                     /\ f.pc = "fill" /\ f.offset \in Nat
                     /\ cache' = [cache EXCEPT ![p] = f.offset]
                     /\ g = Idle \/ (g.pc = "read" /\ g.offset = f.offset)
               /\ UNCHANGED <<stored, topics, pub, next, hidden, log, late, assigned, groupsMu, based, client, saved,
                              done, delivered>>
  <1> DEFINE f == fetch[x]
             p == f.part
  <1>1. /\ fetch \in [Fetchers -> FetchStates] /\ f \in FetchStates /\ f.pc \in {"offset", "fill"}
        /\ cache \in [Parts -> Nat \cup {None}] /\ saved \in [Parts -> Nat]
    BY DEF Types, ClientTypes, OffsetTypes, getCachedOffset, FillCache
  <1>2. f # Idle /\ p \in Parts /\ f.for \in Members \cup {None} /\ f.max \in Nat
    BY <1>1, FetchIs
  <1>3. ASSUME NEW o \in Nat, NEW w \in {"fill", "read"}
        PROVE  LET g == LookedUp(f, w, o)
               IN  /\ g \in FetchStates
                   /\ \/ g = Idle
                      \/ /\ g.pc = w /\ g.part = p /\ g.for = f.for /\ g.offset = o
    BY <1>2 DEF LookedUp, FetchStates
  <1>4. UNCHANGED <<stored, topics, pub, next, hidden, log, late, assigned, groupsMu, based, client, saved,
                    done, delivered>>
    BY DEF getCachedOffset, FillCache, topicVars, logVars, groupVars, offsetVars
  <1>5. CASE getCachedOffset(x)
    <2>1. PICK w \in {"fill", "read"}, o \in Nat :
            /\ fetch' = [fetch EXCEPT ![x] = LookedUp(f, w, o)]
            /\ \/ w = "fill" /\ cache[p] = None /\ o = saved[p]
               \/ w = "read" /\ cache[p] # None /\ o = cache[p]
      <3>1. CASE cache[p] = None
        <4>1. fetch' = [fetch EXCEPT ![x] = LookedUp(f, "fill", saved[p])] /\ saved[p] \in Nat
          BY <1>1, <1>2, <1>5, <3>1 DEF getCachedOffset
        <4> QED
          BY <3>1, <4>1
      <3>2. CASE cache[p] # None
        <4>1. fetch' = [fetch EXCEPT ![x] = LookedUp(f, "read", cache[p])] /\ cache[p] \in Nat
          BY <1>1, <1>2, <1>5, <3>2 DEF getCachedOffset
        <4> QED
          BY <3>2, <4>1
      <3> QED
        BY <3>1, <3>2
    <2>2. /\ LookedUp(f, w, o) \in FetchStates
          /\ \/ LookedUp(f, w, o) = Idle
             \/ /\ LookedUp(f, w, o).pc = w /\ LookedUp(f, w, o).part = p
                /\ LookedUp(f, w, o).for = f.for /\ LookedUp(f, w, o).offset = o
      BY <1>3
    <2>3. /\ fetch'[x] = LookedUp(f, w, o) /\ fetch' \in [Fetchers -> FetchStates]
          /\ \A y \in Fetchers : y # x => fetch'[y] = fetch[y]
      BY <1>1, <2>1, <2>2
    <2>4. cache' = cache /\ ~FillCache(x)
      BY <1>5 DEF getCachedOffset, FillCache, offsetVars
    <2> QED
      BY <1>1, <1>2, <1>4, <2>1, <2>2, <2>3, <2>4
  <1>6. CASE FillCache(x)
    <2>1. f.pc = "fill" /\ f.offset \in Nat
      BY <1>1, <1>6, FetchIs DEF FillCache
    <2>2. /\ LookedUp(f, "read", f.offset) \in FetchStates
          /\ \/ LookedUp(f, "read", f.offset) = Idle
             \/ /\ LookedUp(f, "read", f.offset).pc = "read"
                /\ LookedUp(f, "read", f.offset).part = p
                /\ LookedUp(f, "read", f.offset).for = f.for
                /\ LookedUp(f, "read", f.offset).offset = f.offset
      BY <1>3, <2>1
    <2>3. fetch' = [fetch EXCEPT ![x] = LookedUp(f, "read", f.offset)]
          /\ cache' = [cache EXCEPT ![p] = f.offset] /\ ~getCachedOffset(x)
      BY <1>6 DEF FillCache, getCachedOffset
    <2>4. /\ fetch'[x] = LookedUp(f, "read", f.offset) /\ fetch' \in [Fetchers -> FetchStates]
          /\ \A y \in Fetchers : y # x => fetch'[y] = fetch[y]
      BY <1>1, <2>2, <2>3
    <2> QED
      BY <1>1, <1>2, <1>4, <2>1, <2>2, <2>3, <2>4
  <1> QED
    BY <1>5, <1>6

\* A goroutine that a member no longer waits for.
LEMMA Forgotten ==
    ASSUME NEW f \in FetchStates, f # Idle, f.pc # "read"
    PROVE  LET g == [f EXCEPT !.for = None]
           IN  /\ g \in FetchStates /\ g # Idle /\ g.for = None
               /\ g.pc = f.pc /\ g.part = f.part
               /\ g.pc = "fill" => g.offset = f.offset
  <1>1. CASE f.pc = "offset"
    <2>1. f \in [pc : {"offset"}, for : Members \cup {None}, part : Parts, max : Nat]
      BY <1>1, FetchIs
    <2> QED
      BY <1>1, <2>1 DEF FetchStates, Idle
  <1>2. CASE f.pc = "fill"
    <2>1. f \in [pc : {"fill"}, for : Members \cup {None}, part : Parts, max : Nat, offset : Nat]
      BY <1>2, FetchIs
    <2> QED
      BY <1>2, <2>1 DEF FetchStates, Idle
  <1> QED
    BY <1>1, <1>2, FetchIs

\* FetchMessages leaves out nothing between the offset and what it finds.
LEMMA FetchedIs ==
    ASSUME LogTypes,
           NEW f \in [pc : {"read"}, for : Members, part : Parts, max : Nat, offset : Nat]
    PROVE  LET res == FetchMessages(f)
           IN  /\ res \in [from : Nat, msgs : SUBSET Nat] /\ res.from = f.offset
               /\ \A d \in res.msgs : res.from <= d
               /\ Whole(res, log[f.part], {}) /\ Cardinality(res.msgs) \in Nat
  <1> DEFINE L == log[f.part]
             before(o) == {i \in L : f.offset <= i /\ i < o}
             S == {o \in L : f.offset <= o /\ Cardinality(before(o)) < f.max}
  <1>1. L \in SUBSET Nat /\ IsFiniteSet(L)
    BY DEF LogTypes
  <1>2. FetchMessages(f) = [from |-> f.offset, msgs |-> S]
    BY DEF FetchMessages
  <1>3. IsFiniteSet(S) /\ Cardinality(S) \in Nat
    BY <1>1, FS_Subset, FS_CardinalityType
  <1>4. ASSUME NEW d \in S, NEW i \in L, f.offset <= i, i <= d
        PROVE  i \in S
    <2>1. before(i) \in SUBSET before(d)
      BY <1>1, <1>4
    <2>2. IsFiniteSet(before(d))
      BY <1>1, FS_Subset
    <2>3. IsFiniteSet(before(i)) /\ Cardinality(before(i)) <= Cardinality(before(d))
      BY <2>1, <2>2, FS_Subset
    <2>4. Cardinality(before(i)) \in Nat /\ Cardinality(before(d)) \in Nat
      BY <2>2, <2>3, FS_CardinalityType
    <2>5. Cardinality(before(d)) < f.max /\ f.max \in Nat
      OBVIOUS
    <2> HIDE DEF before
    <2> QED
      BY <1>4, <2>3, <2>4, <2>5
  <1>5. \A d \in S : f.offset <= d
    OBVIOUS
  <1>6. S \in SUBSET Nat
    BY <1>1
  <1> HIDE DEF S
  <1> QED
    BY <1>2, <1>3, <1>4, <1>5, <1>6 DEF Whole

\* An answer: what the collecting member gets, and whether it goes on collecting.
LEMMA AnswerIs ==
    ASSUME Types, NEW x \in Fetchers, Answer(x)
    PROVE  LET f == fetch[x]
               m == f.for
               p == f.part
               res == FetchMessages(f)
               got == [client[m].got EXCEPT ![p] = res]
           IN  /\ f \in FetchStates /\ f.pc = "read" /\ f.offset \in Nat
               /\ m \in Members /\ p \in Parts /\ client[m].pc = "collect"
               /\ client[m].got \in Gots /\ got \in Gots
               /\ res \in [from : Nat, msgs : SUBSET Nat] /\ res.from = f.offset
               /\ Whole(res, log[p], {})
               /\ client' \in [Members -> ClientStates] /\ fetch' \in [Fetchers -> FetchStates]
               /\ \A h \in Members : h # m => client'[h] = client[h]
               /\ \/ /\ client'[m].pc = "collect" /\ client'[m].got = got
                     /\ UNCHANGED delivered
                     /\ fetch' = [fetch EXCEPT ![x] = Idle]
                  \/ /\ client'[m] = Idle \/ (client'[m].pc = "got" /\ client'[m].got = got)
                     /\ Return(m, got, x)
               /\ fetch'[x] = Idle
               /\ \A y \in Fetchers : y # x =>
                     \/ fetch'[y] = fetch[y] /\ (fetch[y] = Idle \/ fetch[y].for # m
                                                 \/ client'[m].pc = "collect")
                     \/ fetch'[y] = Idle
                     \/ /\ fetch[y] # Idle /\ fetch'[y].pc = fetch[y].pc /\ fetch[y].pc # "read"
                        /\ fetch'[y].part = fetch[y].part /\ fetch'[y].for = None
                        /\ fetch[y].pc = "fill" => fetch'[y].offset = fetch[y].offset
               /\ UNCHANGED <<stored, topics, pub, next, hidden, log, late, assigned, groupsMu, based, cache, saved, done>>
  <1> DEFINE f == fetch[x]
             m == f.for
             p == f.part
             res == FetchMessages(f)
             got == [client[m].got EXCEPT ![p] = res]
             n == Cardinality(res.msgs)
             others == {y \in Fetchers \ {x} : fetch[y] # Idle /\ fetch[y].for = m}
  <1>1. /\ fetch \in [Fetchers -> FetchStates] /\ client \in [Members -> ClientStates]
        /\ f \in FetchStates /\ f.pc = "read" /\ LogTypes
    BY DEF Types, ClientTypes, TopicTypes, Answer, Collect
  <1>2. /\ f \in [pc : {"read"}, for : Members, part : Parts, max : Nat, offset : Nat]
        /\ f # Idle
    BY <1>1, FetchIs
  <1>3. m \in Members /\ p \in Parts /\ f.offset \in Nat /\ f.max \in Nat /\ m # None
    BY <1>2, GroupAssumption
  <1>4. client[m].pc = "collect"
    BY <1>2, <1>3 DEF Types, Collecting
  <1>5. client[m] \in [pc : {"collect"}, left : Int, got : Gots]
    BY <1>1, <1>3, <1>4, ClientIs
  <1>6. /\ res \in [from : Nat, msgs : SUBSET Nat] /\ res.from = f.offset
        /\ \A d \in res.msgs : res.from <= d
        /\ Whole(res, log[p], {}) /\ Cardinality(res.msgs) \in Nat
    BY <1>1, <1>2, FetchedIs
  <1>7. client[m].got \in Gots /\ got \in Gots
    BY <1>3, <1>5, <1>6 DEF Gots
  <1>8. UNCHANGED <<stored, topics, pub, next, hidden, log, late, assigned, groupsMu, based, cache, saved, done>>
    BY DEF Answer, topicVars, logVars, groupVars, offsetVars
  <1>9. \/ Return(m, got, x)
        \/ /\ client' = [client EXCEPT ![m].got = got, ![m].left = @ - n]
           /\ fetch' = [fetch EXCEPT ![x] = Idle]
           /\ UNCHANGED delivered
    BY DEF Answer, Collect
  <1>10. n \in Int
    BY <1>6
  <1> HIDE DEF res, got, n
  <1>11. Idle \in FetchStates /\ Idle \in ClientStates
    BY DEF FetchStates, ClientStates
  <1>12. CASE /\ client' = [client EXCEPT ![m].got = got, ![m].left = @ - n]
              /\ fetch' = [fetch EXCEPT ![x] = Idle]
              /\ UNCHANGED delivered
    <2>1. /\ client'[m] = [[client[m] EXCEPT !.got = got] EXCEPT !.left = @ - n]
          /\ \A h \in Members : h # m => client'[h] = client[h]
          /\ DOMAIN client' = Members /\ client' = [h \in Members |-> client'[h]]
      BY <1>1, <1>3, <1>12
    <2>2. client'[m] \in [pc : {"collect"}, left : Int, got : Gots] /\ client'[m].got = got
      <3> DEFINE c == [client[m] EXCEPT !.got = got]
      <3>1. c \in [pc : {"collect"}, left : Int, got : Gots] /\ c.got = got
        BY <1>5, <1>7
      <3>2. client'[m] = [c EXCEPT !.left = @ - n]
        BY <2>1
      <3> HIDE DEF c
      <3>3. c.left - n \in Int
        BY <1>10, <3>1
      <3>4. client'[m] \in [pc : {"collect"}, left : Int, got : Gots]
        BY <3>1, <3>2, <3>3
      <3>5. client'[m].got = c.got
        BY <3>1, <3>2
      <3> QED
        BY <3>1, <3>4, <3>5
    <2>3. client'[m] \in ClientStates /\ client'[m].pc = "collect"
      BY <2>2 DEF ClientStates
    <2>4. client' \in [Members -> ClientStates]
      BY <1>1, <2>1, <2>3
    <2>5. fetch' \in [Fetchers -> FetchStates]
      BY <1>1, <1>11, <1>12
    <2>6. fetch'[x] = Idle /\ \A y \in Fetchers : y # x => fetch'[y] = fetch[y]
      BY <1>1, <1>12
    <2> QED
      BY <1>1, <1>3, <1>4, <1>6, <1>7, <1>8, <1>12, <2>1, <2>2, <2>3, <2>4, <2>5, <2>6 DEF res, got
  <1>13. CASE Return(m, got, x)
    <2>1. client' = [client EXCEPT ![m] = IF Holds(got) = {} THEN Idle
                                          ELSE [pc |-> "got", got |-> got]]
      BY <1>13 DEF Return
    <2>2. [pc |-> "got", got |-> got] \in ClientStates
      BY <1>7 DEF ClientStates
    <2>3. /\ client' \in [Members -> ClientStates]
          /\ \A h \in Members : h # m => client'[h] = client[h]
          /\ client'[m] = Idle \/ client'[m] = [pc |-> "got", got |-> got]
      BY <1>1, <1>3, <1>11, <2>1, <2>2
    <2>4. client'[m] = Idle \/ (client'[m].pc = "got" /\ client'[m].got = got)
      BY <2>3
    <2>5. fetch' = [y \in Fetchers |->
                    IF fetch[y] = Idle \/ y = x THEN Idle
                    ELSE IF fetch[y].for # m THEN fetch[y]
                    ELSE IF fetch[y].pc = "read" THEN Idle
                    ELSE [fetch[y] EXCEPT !.for = None]]
      BY <1>13 DEF Return
    <2>6. fetch'[x] = Idle
      BY <2>5
    <2>7. ASSUME NEW y \in Fetchers
          PROVE  /\ fetch'[y] \in FetchStates
                 /\ y # x =>
                     \/ fetch'[y] = fetch[y] /\ (fetch[y] = Idle \/ fetch[y].for # m)
                     \/ fetch'[y] = Idle
                     \/ /\ fetch[y] # Idle /\ fetch'[y].pc = fetch[y].pc /\ fetch[y].pc # "read"
                        /\ fetch'[y].part = fetch[y].part /\ fetch'[y].for = None
                        /\ fetch[y].pc = "fill" => fetch'[y].offset = fetch[y].offset
      <3>1. fetch[y] \in FetchStates
        BY <1>1
      <3>2. CASE fetch[y] = Idle \/ y = x
        BY <1>11, <2>5, <3>2
      <3>3. CASE ~(fetch[y] = Idle \/ y = x) /\ fetch[y].for # m
        BY <2>5, <3>1, <3>3
      <3>4. CASE ~(fetch[y] = Idle \/ y = x) /\ fetch[y].for = m /\ fetch[y].pc = "read"
        BY <1>11, <2>5, <3>4
      <3>5. CASE ~(fetch[y] = Idle \/ y = x) /\ fetch[y].for = m /\ fetch[y].pc # "read"
        <4>1. fetch'[y] = [fetch[y] EXCEPT !.for = None]
          BY <2>5, <3>5
        <4> QED
          BY <3>1, <3>5, <4>1, Forgotten
      <3> QED
        BY <3>2, <3>3, <3>4, <3>5
    <2>8. fetch' \in [Fetchers -> FetchStates]
      BY <2>5, <2>7
    <2> QED
      BY <1>1, <1>3, <1>4, <1>6, <1>7, <1>8, <1>13, <2>3, <2>4, <2>6, <2>7, <2>8 DEF res, got
  <1> QED
    BY <1>9, <1>12, <1>13

\* The two halves of a commit, and a client that gives up.
LEMMA CommitIs ==
    ASSUME Types, NEW m \in Members, CommitStep(m) \/ CommitStore(m) \/ GiveUp(m)
    PROVE  /\ client' \in [Members -> ClientStates]
           /\ \A h \in Members : h # m => client'[h] = client[h]
           /\ UNCHANGED <<stored, topics, pub, next, hidden, log, late, assigned, groupsMu, based, fetch, delivered>>
           /\ \/ \E p \in Parts : \E o \in client[m].got[p].msgs :
                    /\ client[m].pc = "got" /\ client[m].got \in Gots
                    /\ p \in Holds(client[m].got) /\ o \in Nat /\ client[m].got[p].from <= o
                    /\ cache' = [cache EXCEPT ![p] = o + 1] /\ UNCHANGED <<saved, done>>
                    /\ client'[m].pc = "persist" /\ client'[m].part = p
                    /\ client'[m].got \in Gots
                    /\ client'[m].got[p].from = o + 1
                    /\ client'[m].got[p].msgs = client[m].got[p].msgs \ {o}
                    /\ \A q \in Parts : q # p => client'[m].got[q] = client[m].got[q]
              \/ LET p == client[m].part
                     got == client[m].got
                 IN  /\ client[m].pc = "persist" /\ p \in Parts /\ got \in Gots
                     /\ saved' = [saved EXCEPT ![p] = got[p].from] /\ UNCHANGED cache
                     /\ done' = [done EXCEPT ![p] = IF got[p].from > @ THEN got[p].from ELSE @]
                     /\ client'[m] = Idle \/ (client'[m].pc = "got" /\ client'[m].got = got)
              \/ client[m].pc = "got" /\ client'[m] = Idle /\ UNCHANGED <<cache, saved, done>>
  <1>1. client \in [Members -> ClientStates] /\ client[m] \in ClientStates /\ Idle \in ClientStates
    BY DEF Types, ClientTypes, ClientStates
  <1>2. UNCHANGED <<stored, topics, pub, next, hidden, log, late, assigned, groupsMu, based, fetch, delivered>>
    BY DEF CommitStep, CommitCache, CommitStore, GiveUp, topicVars, logVars, groupVars, offsetVars
  <1>3. ASSUME NEW p \in Parts, NEW o \in client[m].got[p].msgs, CommitCache(m, p, o)
        PROVE  /\ client' \in [Members -> ClientStates]
               /\ \A h \in Members : h # m => client'[h] = client[h]
               /\ client[m].pc = "got" /\ client[m].got \in Gots
               /\ p \in Holds(client[m].got) /\ o \in Nat /\ client[m].got[p].from <= o
               /\ cache' = [cache EXCEPT ![p] = o + 1] /\ UNCHANGED <<saved, done>>
               /\ client'[m].pc = "persist" /\ client'[m].part = p
               /\ client'[m].got \in Gots
               /\ client'[m].got[p].from = o + 1
               /\ client'[m].got[p].msgs = client[m].got[p].msgs \ {o}
               /\ \A q \in Parts : q # p => client'[m].got[q] = client[m].got[q]
    <2> DEFINE old == client[m].got
               new == [from |-> o + 1, msgs |-> old[p].msgs \ {o}]
               got == [old EXCEPT ![p] = new]
               s == [pc |-> "persist", part |-> p, got |-> got]
    <2>1. /\ client[m].pc = "got" /\ \A i \in old[p].msgs : o <= i
          /\ cache' = [cache EXCEPT ![p] = o + 1] /\ UNCHANGED <<saved, done>>
          /\ client' = [client EXCEPT ![m] = s]
      BY <1>3 DEF CommitCache
    <2>2. old \in Gots
      BY <1>1, <2>1, ClientIs
    <2>3. /\ old \in [Parts -> [from : Nat, msgs : SUBSET Nat]] /\ o \in Nat
          /\ old[p].from <= o /\ p \in Holds(old)
      BY <2>2 DEF Gots, Holds
    <2>4. new \in [from : Nat, msgs : SUBSET Nat] /\ \A d \in new.msgs : new.from <= d
      BY <2>1, <2>3
    <2>5. new.from = o + 1 /\ new.msgs = old[p].msgs \ {o}
      OBVIOUS
    <2> HIDE DEF new
    <2>6. got[p] = new /\ \A q \in Parts : q # p => got[q] = old[q]
      BY <2>3
    <2>7. got \in Gots
      <3>1. got \in [Parts -> [from : Nat, msgs : SUBSET Nat]]
        BY <2>3, <2>4
      <3>2. \A q \in Parts : \A d \in got[q].msgs : got[q].from <= d
        BY <2>2, <2>4, <2>6 DEF Gots
      <3> QED
        BY <3>1, <3>2 DEF Gots
    <2> HIDE DEF got, old
    <2>8. s \in ClientStates
      BY <2>7 DEF ClientStates
    <2>9. client' \in [Members -> ClientStates] /\ client'[m] = s
          /\ \A h \in Members : h # m => client'[h] = client[h]
      BY <1>1, <2>1, <2>8
    <2>10. s.pc = "persist" /\ s.part = p /\ s.got = got
      OBVIOUS
    <2> HIDE DEF s
    <2> QED
      BY <2>1, <2>2, <2>3, <2>5, <2>6, <2>7, <2>9, <2>10 DEF old
  <1>4. CASE CommitStore(m)
    <2> DEFINE p == client[m].part
               got == client[m].got
    <2>1. /\ client[m].pc = "persist"
          /\ saved' = [saved EXCEPT ![p] = got[p].from] /\ UNCHANGED cache
          /\ done' = [done EXCEPT ![p] = IF got[p].from > @ THEN got[p].from ELSE @]
          /\ client' = [client EXCEPT ![m] =
                            IF Holds(got) = {} THEN Idle ELSE [pc |-> "got", got |-> got]]
      BY <1>4 DEF CommitStore
    <2>2. client[m] \in [pc : {"persist"}, part : Parts, got : Gots]
      BY <1>1, <2>1, ClientIs
    <2>3. p \in Parts /\ got \in Gots
      BY <2>2
    <2>4. [pc |-> "got", got |-> got] \in ClientStates
      BY <2>3 DEF ClientStates
    <2> HIDE DEF got
    <2>5. /\ client' \in [Members -> ClientStates]
          /\ \A h \in Members : h # m => client'[h] = client[h]
          /\ client'[m] = Idle \/ client'[m] = [pc |-> "got", got |-> got]
      BY <1>1, <2>1, <2>4
    <2>6. client'[m] = Idle \/ (client'[m].pc = "got" /\ client'[m].got = got)
      BY <2>5
    <2> QED
      BY <1>2, <2>1, <2>3, <2>5, <2>6 DEF got
  <1>5. CASE GiveUp(m)
    <2>1. /\ client' = [client EXCEPT ![m] = Idle] /\ client[m].pc = "got"
          /\ UNCHANGED <<cache, saved, done>>
      BY <1>5 DEF GiveUp, offsetVars
    <2>2. /\ client' \in [Members -> ClientStates] /\ client'[m] = Idle
          /\ \A h \in Members : h # m => client'[h] = client[h]
      BY <1>1, <2>1
    <2> QED
      BY <1>2, <2>1, <2>2
  <1> QED
    BY <1>2, <1>3, <1>4, <1>5 DEF CommitStep

\* A process that starts again.
LEMMA RestartIs ==
    ASSUME Types, Restart
    PROVE  /\ Types'
           /\ \A m \in Members : client'[m].pc = "idle" /\ assigned'[m] = None
           /\ \A x \in Fetchers : fetch'[x].pc = "idle" /\ fetch'[x] = Idle
           /\ \A a \in Publishers : pub'[a] = Idle /\ pub'[a].pc = "idle"
           /\ \A p \in Parts : cache'[p] = None
           /\ topics' = 0 /\ groupsMu' = None /\ UNCHANGED <<stored, saved, log, late, delivered>>
  <1>1. Idle \in PubStates /\ Idle \in ClientStates /\ Idle \in FetchStates /\ Idle.pc = "idle"
    BY DEF PubStates, ClientStates, FetchStates, Idle
  <1>2. TopicTypes'
    <2>1. LogTypes'
      BY FS_EmptySet DEF Restart, Types, TopicTypes, LogTypes
    <2> QED
      BY <1>1, <2>1 DEF Restart, Types, TopicTypes
  <1>3. ClientTypes'
    BY <1>1 DEF Restart, ClientTypes
  <1>4. Collecting'
    BY DEF Restart, Collecting
  <1>5. OffsetTypes'
    BY DEF Restart, Types, OffsetTypes
  <1>6. /\ \A m \in Members : client'[m] = Idle /\ assigned'[m] = None
        /\ \A x \in Fetchers : fetch'[x] = Idle
        /\ \A a \in Publishers : pub'[a] = Idle
        /\ \A p \in Parts : cache'[p] = None
        /\ topics' = 0 /\ groupsMu' = None /\ UNCHANGED <<stored, saved, log, late, delivered>>
    BY DEF Restart
  <1> QED
    BY <1>1, <1>2, <1>3, <1>4, <1>5, <1>6 DEF Types

\* A flush that commits, or retention.
LEMMA LogStepIs ==
    ASSUME Types, NEW p \in Parts, LogStep(p)
    PROVE  /\ Types'
           /\ UNCHANGED <<stored, topics, pub, assigned, groupsMu, based, client, fetch, cache, saved,
                          done, delivered>>
  <1>1. LogTypes
    BY DEF Types, TopicTypes
  <1>2. UNCHANGED <<stored, topics, pub, next, assigned, groupsMu, based, client, fetch, cache,
                    saved, done, delivered>>
    BY DEF LogStep, flushWrites, DeleteOldMessages, groupVars, offsetVars
  <1>3. LogTypes'
    <2>1. ASSUME NEW S \in SUBSET hidden[p], flushWrites(p, S)
          PROVE  LogTypes'
      <3>1. IsFiniteSet(S) /\ IsFiniteSet(hidden[p] \ S) /\ IsFiniteSet(log[p] \cup S)
        BY <1>1, FS_Subset, FS_Union DEF LogTypes
      <3> QED
        BY <1>1, <1>2, <2>1, <3>1 DEF LogTypes, flushWrites
    <2>2. ASSUME NEW S \in SUBSET log[p], DeleteOldMessages(p, S)
          PROVE  LogTypes'
      <3>1. IsFiniteSet(log[p] \ S)
        BY <1>1, FS_Subset DEF LogTypes
      <3> QED
        BY <1>1, <1>2, <2>2, <3>1 DEF LogTypes, DeleteOldMessages
    <2> QED
      BY <2>1, <2>2 DEF LogStep
  <1> QED
    BY <1>2, <1>3 DEF Types, TopicTypes, ClientTypes, OffsetTypes, Collecting

\* Every step keeps the types.
LEMMA TypesKept ==
    ASSUME Types, [Next]_vars
    PROVE  Types'
  <1>1. /\ assigned \in [Members -> (SUBSET Parts) \cup {None}]
        /\ client \in [Members -> ClientStates] /\ fetch \in [Fetchers -> FetchStates]
        /\ cache \in [Parts -> Nat \cup {None}]
        /\ saved \in [Parts -> Nat] /\ done \in [Parts -> Nat]
        /\ DOMAIN delivered = Parts
    BY DEF Types, ClientTypes, OffsetTypes
  <1>2. ASSUME UNCHANGED <<stored, topics, pub, next, hidden, log, late>>
        PROVE  TopicTypes'
    BY <1>2 DEF Types, TopicTypes, LogTypes
  <1>3. ASSUME NEW a \in Publishers, PublisherStep(a)
        PROVE  Types'
    BY <1>3, PublisherTypes
  <1>4. ASSUME NEW m \in Members, Subscribe(m) \/ Unsubscribe(m) \/ RebalanceStep(m)
        PROVE  Types'
    BY <1>4, MemberTypes
  <1>5. ASSUME NEW m \in Members, NEW count \in Counts, Consume(m, count)
        PROVE  Types'
    <2>1. /\ client' = [client EXCEPT ![m] = [pc |-> "collect", left |-> count, got |-> Nothing]]
          /\ [pc |-> "collect", left |-> count, got |-> Nothing]
                 \in [pc : {"collect"}, left : Int, got : Gots]
          /\ client'[m] = [pc |-> "collect", left |-> count, got |-> Nothing]
          /\ \A h \in Members : h # m => client'[h] = client[h]
          /\ fetch' = [x \in Fetchers |-> fetch'[x]]
          /\ \A x \in Fetchers :
                 \/ fetch'[x] = fetch[x]
                 \/ /\ fetch'[x] \in [pc : {"offset"}, for : {m}, part : Parts, max : Nat]
                    /\ fetch'[x] \in FetchStates
          /\ UNCHANGED <<stored, topics, pub, next, hidden, log, late, assigned, cache, saved, done, delivered>>
          /\ client[m].pc = "idle"
      BY <1>5, ConsumeIs
    <2>2. client' \in [Members -> ClientStates] /\ fetch' \in [Fetchers -> FetchStates]
      BY <1>1, <2>1 DEF ClientStates
    <2>3. client'[m].pc = "collect"
      BY <2>1
    <2>4. Collecting'
      <3> SUFFICES ASSUME NEW x \in Fetchers, fetch'[x] # Idle, fetch'[x].for # None
                   PROVE  client'[fetch'[x].for].pc = "collect"
        BY DEF Collecting
      <3>1. CASE fetch'[x] = fetch[x]
        <4>1. client[fetch[x].for].pc = "collect" /\ fetch[x].for \in Members
          BY <1>1, <3>1, FetchIs DEF Types, Collecting
        <4> QED
          BY <2>1, <2>3, <3>1, <4>1
      <3>2. CASE fetch'[x] \in [pc : {"offset"}, for : {m}, part : Parts, max : Nat]
        BY <2>3, <3>2
      <3> QED
        BY <2>1, <3>1, <3>2
    <2> QED
      BY <1>1, <1>2, <2>1, <2>2, <2>4 DEF Types, ClientTypes, OffsetTypes
  <1>6. ASSUME NEW m \in Members, CommitStep(m) \/ CommitStore(m) \/ GiveUp(m)
        PROVE  Types'
    <2>1. /\ client' \in [Members -> ClientStates]
          /\ \A h \in Members : h # m => client'[h] = client[h]
          /\ UNCHANGED <<stored, topics, pub, next, hidden, log, late, assigned, fetch, delivered>>
          /\ client[m].pc # "collect"
      BY <1>6, CommitIs
    <2>2. Collecting'
      BY <1>1, <2>1, FetchIs DEF Types, Collecting
    <2>3. /\ cache' \in [Parts -> Nat \cup {None}]
          /\ saved' \in [Parts -> Nat] /\ done' \in [Parts -> Nat]
      <3>1. CASE \E p \in Parts, o \in Nat :
                    cache' = [cache EXCEPT ![p] = o] /\ UNCHANGED <<saved, done>>
        BY <1>1, <3>1
      <3>2. CASE \E p \in Parts, o \in Nat :
                    /\ saved' = [saved EXCEPT ![p] = o] /\ UNCHANGED cache
                    /\ done' = [done EXCEPT ![p] = IF o > @ THEN o ELSE @]
        BY <1>1, <3>2
      <3>3. CASE UNCHANGED <<cache, saved, done>>
        BY <1>1, <3>3
      <3>4. \A p \in Parts : client[m].got \in Gots => client[m].got[p].from \in Nat
        BY DEF Gots
      <3> QED
        BY <1>6, <3>1, <3>2, <3>3, <3>4, CommitIs
    <2> QED
      BY <1>1, <1>2, <2>1, <2>2, <2>3 DEF Types, ClientTypes, OffsetTypes
  <1>7. ASSUME NEW x \in Fetchers, getCachedOffset(x) \/ FillCache(x)
        PROVE  Types'
    <2>1. /\ fetch[x] \in FetchStates /\ fetch[x] # Idle /\ fetch[x].part \in Parts
          /\ \A y \in Fetchers : y # x => fetch'[y] = fetch[y]
          /\ fetch' \in [Fetchers -> FetchStates]
          /\ fetch'[x] = Idle \/ fetch'[x].for = fetch[x].for
          /\ cache' = cache \/ (fetch[x].offset \in Nat
                                /\ cache' = [cache EXCEPT ![fetch[x].part] = fetch[x].offset])
          /\ UNCHANGED <<stored, topics, pub, next, hidden, log, late, assigned, client, saved, done, delivered>>
      BY <1>7, LookupIs
    <2>2. Collecting'
      BY <1>1, <2>1 DEF Types, Collecting
    <2>3. cache' \in [Parts -> Nat \cup {None}]
      BY <1>1, <2>1
    <2> QED
      BY <1>1, <1>2, <2>1, <2>2, <2>3 DEF Types, ClientTypes, OffsetTypes
  <1>8. ASSUME NEW x \in Fetchers, Answer(x)
        PROVE  Types'
    <2> DEFINE m == fetch[x].for
    <2>1. /\ m \in Members /\ client[m].pc = "collect"
          /\ client' \in [Members -> ClientStates] /\ fetch' \in [Fetchers -> FetchStates]
          /\ \A h \in Members : h # m => client'[h] = client[h]
          /\ fetch'[x] = Idle
          /\ UNCHANGED <<stored, topics, pub, next, hidden, log, late, assigned, cache, saved, done>>
      BY <1>8, AnswerIs
    <2>2. ASSUME NEW y \in Fetchers, y # x
          PROVE  \/ fetch'[y] = fetch[y] /\ (fetch[y] = Idle \/ fetch[y].for # m
                                             \/ client'[m].pc = "collect")
                 \/ fetch'[y] = Idle
                 \/ fetch'[y].for = None
      BY <1>8, <2>2, AnswerIs, ZenonT(60)
    <2>3. DOMAIN delivered' = Parts
      BY <1>1, <1>8, AnswerIs DEF Return
    <2> HIDE DEF m
    <2>4. Collecting'
      <3> SUFFICES ASSUME NEW y \in Fetchers, fetch'[y] # Idle, fetch'[y].for # None
                   PROVE  client'[fetch'[y].for].pc = "collect"
        BY DEF Collecting
      <3>1. /\ y # x /\ fetch'[y] = fetch[y]
            /\ fetch[y].for # m \/ client'[m].pc = "collect"
        BY <2>1, <2>2
      <3>2. client[fetch[y].for].pc = "collect" /\ fetch[y].for \in Members
        BY <1>1, <3>1, FetchIs DEF Types, Collecting
      <3> QED
        BY <2>1, <3>1, <3>2
    <2> QED
      BY <1>1, <1>2, <2>1, <2>3, <2>4 DEF Types, ClientTypes, OffsetTypes
  <1>9. CASE Restart
    BY <1>9, RestartIs
  <1>10. CASE UNCHANGED vars
    BY <1>10 DEF vars, Types, TopicTypes, LogTypes, ClientTypes, OffsetTypes, Collecting
  <1>11. ASSUME NEW p \in Parts, LogStep(p)
         PROVE  Types'
    BY <1>11, LogStepIs
  <1> QED
    BY <1>3, <1>4, <1>5, <1>6, <1>7, <1>8, <1>9, <1>10, <1>11 DEF Next, FetchStep

-----------------------------------------------------------------------------
(***************************************************************************)
(* The assignment.                                                         *)
(***************************************************************************)
\* The members are at all the positions there are.
LEMMA PositionsTaken ==
    ASSUME NEW G, IsFiniteSet(G), G # {}, NEW pos \in [G -> 0 .. Cardinality(G) - 1],
           \A m1, m2 \in G : pos[m1] = pos[m2] => m1 = m2
    PROVE  /\ Cardinality(G) \in Nat \ {0}
           /\ \A i \in 0 .. Cardinality(G) - 1 : \E m \in G : pos[m] = i
  <1> DEFINE k == Cardinality(G)
             T == 0 .. k - 1
  <1>1. k \in Nat \ {0}
    BY FS_CardinalityType, FS_EmptySet
  <1> HIDE DEF k
  <1>2. IsFiniteSet(T) /\ Cardinality(T) = k
    BY <1>1, FS_Interval
  <1>3. pos \in [G -> T] /\ \A m1, m2 \in G : pos[m1] = pos[m2] => m1 = m2
    BY DEF k
  <1> HIDE DEF T
  <1>4. pos \in Injection(G, T)
    BY <1>3 DEF Injection, IsInjective
  <1>5. pos \in Surjection(G, T)
    BY <1>2, <1>4, FS_Injection DEF k
  <1>6. \A i \in T : \E m \in G : pos[m] = i
    BY <1>5 DEF Surjection
  <1> QED
    BY <1>1, <1>6 DEF T, k

\* The shares of two positions are disjoint, and as long as each other but for one.
LEMMA SharesApart ==
    ASSUME NEW n \in Sizes, NEW k \in Nat \ {0}, NEW i \in 0 .. k - 1, NEW j \in 0 .. k - 1
    PROVE  /\ i # j => Share(i, n, k) \cap Share(j, n, k) = {}
           /\ Cardinality(Share(i, n, k)) <= Cardinality(Share(j, n, k)) + 1
  <1> DEFINE q == n \div k
             r == n % k
  <1>1. q \in Nat /\ r \in Nat
    BY GroupAssumption, Division
  <1>2. /\ Share(i, n, k) = Start(i, q, r) .. Start(i + 1, q, r) - 1
        /\ Share(j, n, k) = Start(j, q, r) .. Start(j + 1, q, r) - 1
    BY ShareIs
  <1> HIDE DEF q, r
  <1>3. ASSUME NEW a \in 0 .. k - 1
        PROVE  /\ Start(a, q, r) \in Nat /\ Start(a + 1, q, r) \in Nat
               /\ Cardinality(Start(a, q, r) .. Start(a + 1, q, r) - 1) \in {q, q + 1}
    <2>1. /\ Start(a, q, r) \in Nat
          /\ Start(a + 1, q, r) = Start(a, q, r) + q + (IF a < r THEN 1 ELSE 0)
      BY <1>1, StartNext
    <2> DEFINE lo == Start(a, q, r)
               hi == Start(a + 1, q, r) - 1
    <2>2. lo \in Int /\ hi \in Int /\ (hi - lo + 1 = q \/ hi - lo + 1 = q + 1)
      BY <1>1, <2>1
    <2> HIDE DEF lo, hi
    <2>3. Cardinality(lo .. hi) = IF lo > hi THEN 0 ELSE hi - lo + 1
      BY <2>2, FS_Interval
    <2>4. Cardinality(lo .. hi) \in {q, q + 1}
      BY <1>1, <2>2, <2>3
    <2> QED
      BY <1>1, <2>1, <2>4 DEF lo, hi
  <1>4. ASSUME NEW a \in 0 .. k - 1, NEW b \in 0 .. k - 1, a < b
        PROVE  (Start(a, q, r) .. Start(a + 1, q, r) - 1)
                   \cap (Start(b, q, r) .. Start(b + 1, q, r) - 1) = {}
    <2>1. a + 1 \in Nat /\ b \in Nat /\ a + 1 <= b
      BY <1>4
    <2>2. Start(a + 1, q, r) <= Start(b, q, r)
      BY <1>1, <2>1, StartMonotone
    <2> QED
      BY <1>3, <2>2
  <1>5. i # j => Share(i, n, k) \cap Share(j, n, k) = {}
    BY <1>2, <1>4
  <1>6. Cardinality(Share(i, n, k)) \in {q, q + 1} /\ Cardinality(Share(j, n, k)) \in {q, q + 1}
    BY <1>2, <1>3
  <1> QED
    BY <1>1, <1>5, <1>6

\* A rebalance shares out all partitions, whatever the order of the members.
LEMMA RebalanceExact ==
    ASSUME Types, NEW m \in Members, rebalanceGroup(m)
    PROVE  AssignmentExact'
  <1> DEFINE n == client[m].size
             k == Cardinality(InGroup)
  <1>1. n \in Sizes
    BY ClientIs DEF Types, ClientTypes, rebalanceGroup
  <1>2. PICK pos \in Orders :
          assigned' = [c \in Members |-> IF c \in InGroup THEN Share(pos[c], n, k) ELSE None]
    BY DEF rebalanceGroup
  <1>3. based' = n /\ groupsMu' = None
    BY DEF rebalanceGroup
  <1> HIDE DEF n
  <1>4. CASE InGroup = {}
    <2>1. InGroup' = {}
      BY <1>2, <1>4 DEF InGroup
    <2> QED
      BY <2>1 DEF AssignmentExact
  <1>5. CASE InGroup # {}
    <2>1. k \in Nat \ {0} /\ \A i \in 0 .. k - 1 : \E c \in InGroup : pos[c] = i
      BY <1>2, <1>5, InGroupFinite, PositionsTaken DEF Orders
    <2>2. /\ \A c \in InGroup : pos[c] \in 0 .. k - 1
          /\ \A c1, c2 \in InGroup : pos[c1] = pos[c2] => c1 = c2
      BY <1>2 DEF Orders
    <2> HIDE DEF k
    <2>3. \A c \in InGroup : assigned'[c] = Share(pos[c], n, k) /\ assigned'[c] \in SUBSET Parts
      BY <1>1, <1>2, <2>1, <2>2, ShareIs, InGroupFinite
    <2>4. InGroup' = InGroup
      <3>1. \A c \in Members : c \in InGroup <=> assigned'[c] # None
        BY <1>2, <2>3, PartsIs
      <3> QED
        BY <3>1, InGroupFinite DEF InGroup
    <2>5. ASSUME NEW c1 \in InGroup, NEW c2 \in InGroup
          PROVE  /\ c1 # c2 => assigned'[c1] \cap assigned'[c2] = {}
                 /\ Cardinality(assigned'[c1]) <= Cardinality(assigned'[c2]) + 1
      BY <1>1, <2>1, <2>2, <2>3, SharesApart
    <2>6. UNION {assigned'[c] : c \in InGroup} = 0 .. n - 1
      <3>1. \A c \in InGroup : assigned'[c] \subseteq 0 .. n - 1
        BY <1>1, <2>1, <2>2, <2>3, ShareIs
      <3>2. ASSUME NEW p \in 0 .. n - 1
            PROVE  \E c \in InGroup : p \in assigned'[c]
        <4> DEFINE q == n \div k
                   r == n % k
        <4>1. n \in Nat
          BY <1>1, GroupAssumption
        <4>2. PICK i \in 0 .. k - 1 : Start(i, q, r) <= p /\ p < Start(i + 1, q, r)
          BY <2>1, <4>1, StartCovers
        <4>3. PICK c \in InGroup : pos[c] = i
          BY <2>1
        <4>4. assigned'[c] = Start(i, q, r) .. Start(i + 1, q, r) - 1
          BY <1>1, <2>1, <2>3, <4>3, ShareIs
        <4>5. q \in Nat /\ r \in Nat
          BY <2>1, <4>1, Division
        <4> HIDE DEF q, r
        <4>6. Start(i, q, r) \in Nat /\ Start(i + 1, q, r) \in Nat
          <5>1. i \in Nat
            BY <2>1
          <5>2. /\ Start(i, q, r) \in Nat
                /\ Start(i + 1, q, r) = Start(i, q, r) + q + (IF i < r THEN 1 ELSE 0)
            BY <4>5, <5>1, StartNext
          <5> QED
            BY <4>5, <5>1, <5>2
        <4> QED
          BY <4>2, <4>4, <4>6
      <3> QED
        BY <3>1, <3>2
    <2> QED
      BY <1>3, <2>4, <2>5, <2>6 DEF AssignmentExact
  <1> QED
    BY <1>4, <1>5

\* The steps that touch neither the members nor what they have.
LEMMA GroupUntouched ==
    ASSUME Types,
           \/ \E a \in Publishers : PublisherStep(a)
           \/ \E m \in Members : \/ RebalanceLoad(m) \/ CommitStep(m) \/ CommitStore(m) \/ GiveUp(m)
                                 \/ \E count \in Counts : Consume(m, count)
           \/ \E x \in Fetchers : FetchStep(x)
           \/ \E p \in Parts : LogStep(p)
           \/ UNCHANGED vars
    PROVE  UNCHANGED <<assigned, groupsMu, based>>
  <1>1. ASSUME NEW a \in Publishers, PublisherStep(a)
        PROVE  UNCHANGED groupVars
    BY <1>1 DEF PublisherStep, CreateTopic, LoadTopic, FindNoTopic, AutoCreate, Publish, SetTopic
  <1>2. ASSUME NEW m \in Members, \/ RebalanceLoad(m) \/ CommitStep(m) \/ CommitStore(m) \/ GiveUp(m)
                                  \/ \E count \in Counts : Consume(m, count)
        PROVE  UNCHANGED groupVars
    BY <1>2 DEF RebalanceLoad, CommitStep, CommitCache, CommitStore, GiveUp, Consume
  <1>3. ASSUME NEW x \in Fetchers, FetchStep(x)
        PROVE  UNCHANGED groupVars
    BY <1>3 DEF FetchStep, getCachedOffset, FillCache, Answer
  <1>4. ASSUME NEW p \in Parts, LogStep(p)
        PROVE  UNCHANGED groupVars
    BY <1>4, LogStepIs DEF groupVars
  <1> QED
    BY <1>1, <1>2, <1>3, <1>4 DEF groupVars, vars

\* Without a topic there is nothing to assign, and it is created in storage first.
LEMMA NothingBeforeTopicKept ==
    ASSUME Types, NothingBeforeTopic, [Next]_vars
    PROVE  NothingBeforeTopic'
  <1> SUFFICES ASSUME stored' = 0
               PROVE  /\ topics' = 0
                      /\ \A a \in Publishers : pub'[a].pc \notin {"create", "publish"}
                      /\ \A m \in Members : /\ client'[m].pc \notin {"load", "assign"}
                                            /\ assigned'[m] \in {None, {}}
    BY DEF NothingBeforeTopic
  <1>1. /\ pub \in [Publishers -> PubStates] /\ client \in [Members -> ClientStates]
        /\ assigned \in [Members -> (SUBSET Parts) \cup {None}]
        /\ \A n \in Sizes : n # 0
        /\ DefaultSize \in Sizes
    BY GroupAssumption DEF Types, TopicTypes, ClientTypes
  <1>2. stored = 0
    BY <1>1 DEF Next, vars, PublisherStep, CreateTopic, LoadTopic, FindNoTopic, AutoCreate,
        Publish, SetTopic, StoreTopic, Subscribe, Unsubscribe, RebalanceStep, RebalanceMetadata,
        RebalanceLoad, rebalanceGroup, Consume, FetchStep, getCachedOffset, FillCache, Answer,
        CommitStep, CommitCache, CommitStore, GiveUp, LogStep, flushWrites, DeleteOldMessages,
        Restart, topicVars
  <1>3. /\ topics = 0
        /\ \A a \in Publishers : pub[a].pc \notin {"create", "publish"}
        /\ \A m \in Members : client[m].pc \notin {"load", "assign"} /\ assigned[m] \in {None, {}}
    BY <1>2 DEF NothingBeforeTopic
  <1>4. ASSUME NEW a \in Publishers, PublisherStep(a)
        PROVE  /\ pub' = pub \/ pub' = [pub EXCEPT ![a] = [pc |-> "missing"]]
               /\ UNCHANGED <<topics, client, assigned>>
    BY <1>1, <1>2, <1>3, <1>4 DEF PublisherStep, CreateTopic, LoadTopic, FindNoTopic, AutoCreate,
        Publish, SetTopic, StoreTopic, groupVars
  <1>5. ASSUME NEW m \in Members, Subscribe(m) \/ Unsubscribe(m) \/ RebalanceStep(m)
        PROVE  /\ UNCHANGED <<topics, pub>>
               /\ client' = client \/ \E s \in {Idle, [pc |-> "metadata"]} :
                                          client' = [client EXCEPT ![m] = s]
               /\ assigned' = assigned \/ \E s \in {None, {}} :
                                          assigned' = [assigned EXCEPT ![m] = s]
    <2>1. CASE Subscribe(m)
      BY <1>3, <2>1 DEF Subscribe, topicVars, logVars
    <2>2. CASE Unsubscribe(m)
      BY <2>2 DEF Unsubscribe, topicVars, logVars
    <2>3. CASE RebalanceStep(m)
      BY <1>2, <1>3, <2>3 DEF RebalanceStep, RebalanceMetadata, RebalanceLoad, rebalanceGroup,
          topicVars, logVars
    <2> QED
      BY <1>5, <2>1, <2>2, <2>3
  <1>6. ASSUME NEW m \in Members, NEW count \in Counts, Consume(m, count)
        PROVE  FALSE
    BY <1>3, <1>6 DEF Consume
  <1>7. ASSUME NEW m \in Members, CommitStep(m) \/ CommitStore(m) \/ GiveUp(m)
        PROVE  /\ UNCHANGED <<topics, pub, assigned>>
               /\ \A h \in Members : h # m => client'[h] = client[h]
               /\ client'[m].pc \notin {"load", "assign"}
    BY <1>7, CommitIs DEF Idle
  <1>8. ASSUME NEW x \in Fetchers, FetchStep(x)
        PROVE  /\ UNCHANGED <<topics, pub, assigned>>
               /\ \A h \in Members : client'[h] = client[h] \/ client'[h].pc \notin {"load", "assign"}
    <2>1. CASE getCachedOffset(x) \/ FillCache(x)
      BY <2>1, LookupIs
    <2>2. CASE Answer(x)
      <3> DEFINE m == fetch[x].for
      <3>1. /\ UNCHANGED <<topics, pub, assigned>>
            /\ \A h \in Members : h # m => client'[h] = client[h]
            /\ \/ client'[m].pc = "collect"
               \/ client'[m] = Idle \/ client'[m].pc = "got"
        BY <2>2, AnswerIs
      <3>2. client'[m].pc \in {"collect", "idle", "got"}
        BY <3>1 DEF Idle
      <3> QED
        BY <3>1, <3>2
    <2> QED
      BY <1>8, <2>1, <2>2 DEF FetchStep
  <1>9. CASE \E a \in Publishers : PublisherStep(a)
    <2>1. PICK a \in Publishers : PublisherStep(a)
      BY <1>9
    <2> QED
      BY <1>1, <1>3, <1>4, <2>1
  <1>10. CASE \E m \in Members : Subscribe(m) \/ Unsubscribe(m) \/ RebalanceStep(m)
    <2>1. PICK m \in Members : Subscribe(m) \/ Unsubscribe(m) \/ RebalanceStep(m)
      BY <1>10
    <2>2. topics' = 0 /\ pub' = pub
      BY <1>3, <1>5, <2>1
    <2>3. ASSUME NEW h \in Members
          PROVE  client'[h].pc \notin {"load", "assign"}
      BY <1>1, <1>3, <1>5, <2>1 DEF Idle
    <2>4. ASSUME NEW h \in Members
          PROVE  assigned'[h] \in {None, {}}
      BY <1>1, <1>3, <1>5, <2>1
    <2> QED
      BY <1>3, <2>2, <2>3, <2>4
  <1>11. CASE \E m \in Members : CommitStep(m) \/ CommitStore(m) \/ GiveUp(m)
    BY <1>3, <1>7, <1>11
  <1>12. CASE \E x \in Fetchers : FetchStep(x)
    BY <1>3, <1>8, <1>12
  <1>13. CASE Restart
    BY <1>13, RestartIs
  <1>14. CASE UNCHANGED vars
    BY <1>3, <1>14 DEF vars
  <1>15. CASE \E p \in Parts : LogStep(p)
    <2>1. UNCHANGED <<topics, pub, client, assigned>>
      BY <1>15, LogStepIs
    <2> QED
      BY <1>3, <2>1
  <1> QED
    BY <1>6, <1>9, <1>10, <1>11, <1>12, <1>13, <1>14, <1>15 DEF Next

\* Every step keeps the assignment exact.
LEMMA AssignmentKept ==
    ASSUME Types, NothingBeforeTopic, AssignmentExact, [Next]_vars
    PROVE  AssignmentExact'
  <1>1. assigned \in [Members -> (SUBSET Parts) \cup {None}] /\ {} # None
    BY PartsIs DEF Types, ClientTypes
  <1>2. ASSUME UNCHANGED <<assigned, groupsMu, based>>
        PROVE  AssignmentExact'
    BY <1>2 DEF AssignmentExact, InGroup
  <1>3. ASSUME NEW m \in Members, Subscribe(m)
        PROVE  AssignmentExact'
    <2>1. /\ \A h \in Members : \/ assigned'[h] = assigned[h]
                                   \/ (assigned'[h] = {} /\ assigned[h] = None)
          /\ groupsMu' # None
      <3>1. /\ assigned' = [assigned EXCEPT ![m] = IF assigned[m] = None THEN {} ELSE assigned[m]]
            /\ groupsMu' = m
        BY <1>3 DEF Subscribe
      <3>2. groupsMu' # None
        BY <3>1, GroupAssumption
      <3>3. \A h \in Members : h # m => assigned'[h] = assigned[h]
        BY <1>1, <3>1
      <3>4. assigned'[m] = IF assigned[m] = None THEN {} ELSE assigned[m]
        BY <1>1, <3>1
      <3> QED
        BY <3>2, <3>3, <3>4
    <2> QED
      BY <2>1 DEF AssignmentExact, InGroup
  <1>4. ASSUME NEW m \in Members, Unsubscribe(m)
        PROVE  AssignmentExact'
    <2>1. /\ \A h \in Members : h # m => assigned'[h] = assigned[h]
          /\ assigned'[m] = None
      BY <1>1, <1>4 DEF Unsubscribe
    <2>2. InGroup' = {} \/ groupsMu' # None
      BY <1>4, <2>1, GroupAssumption DEF Unsubscribe, InGroup
    <2> QED
      BY <2>1, <2>2 DEF AssignmentExact, InGroup
  <1>5. ASSUME NEW m \in Members, RebalanceMetadata(m)
        PROVE  AssignmentExact'
    <2>1. CASE UNCHANGED <<groupsMu, based>>
      BY <1>2, <1>5, <2>1 DEF RebalanceMetadata
    <2>2. CASE stored = 0 /\ based' = 0
      <3>1. assigned' = assigned
        BY <1>5 DEF RebalanceMetadata
      <3>2. \A h \in Members : assigned[h] \in {None, {}}
        BY <2>2 DEF NothingBeforeTopic
      <3>3. \A h \in InGroup' : h \in Members /\ assigned'[h] = {}
        BY <3>1, <3>2 DEF InGroup
      <3>4. UNION {assigned'[h] : h \in InGroup'} = {}
        BY <3>3
      <3>5. 0 .. based' - 1 = {}
        BY <2>2
      <3>6. Cardinality({}) = 0
        BY FS_EmptySet
      <3>7. \A h1, h2 \in InGroup' : Cardinality(assigned'[h1]) <= Cardinality(assigned'[h2]) + 1
        BY <3>3, <3>6
      <3> QED
        BY <3>3, <3>4, <3>5, <3>7 DEF AssignmentExact
    <2> QED
      BY <1>5, <2>1, <2>2 DEF RebalanceMetadata
  <1>6. ASSUME NEW m \in Members, rebalanceGroup(m)
        PROVE  AssignmentExact'
    BY <1>6, RebalanceExact
  <1>7. CASE Restart
    <2>1. InGroup' = {}
      BY <1>7, RestartIs DEF InGroup
    <2> QED
      BY <2>1 DEF AssignmentExact
  <1>8. CASE \/ \E a \in Publishers : PublisherStep(a)
             \/ \E m \in Members : \/ RebalanceLoad(m) \/ CommitStep(m) \/ CommitStore(m) \/ GiveUp(m)
                                   \/ \E count \in Counts : Consume(m, count)
             \/ \E x \in Fetchers : FetchStep(x)
             \/ \E p \in Parts : LogStep(p)
             \/ UNCHANGED vars
    BY <1>2, <1>8, GroupUntouched
  <1> QED
    BY <1>3, <1>4, <1>5, <1>6, <1>7, <1>8 DEF Next, RebalanceStep

-----------------------------------------------------------------------------
(***************************************************************************)
(* No message is skipped.                                                  *)
(***************************************************************************)
\* What was delivered or late stays so, and a message that appears below something that
\* the group has read is late.
LEMMA LogMoves ==
    ASSUME Types, [Next]_vars, NEW p \in Parts
    PROVE  /\ delivered[p] \subseteq delivered'[p] /\ late[p] \subseteq late'[p]
           /\ \A o \in log'[p] \ log[p] : o \in Nat /\ ((\E d \in Read(p) : o <= d) => o \in late'[p])
  <1>1. LogTypes
    BY DEF Types, TopicTypes
  <1>2. ASSUME NEW x \in Fetchers, Answer(x)
        PROVE  delivered[p] \subseteq delivered'[p] /\ UNCHANGED <<log, late>>
    BY <1>2 DEF Answer, Collect, Return, topicVars, logVars
  <1>3. ASSUME NEW q \in Parts, LogStep(q)
        PROVE  /\ UNCHANGED delivered /\ late[p] \subseteq late'[p]
               /\ \A o \in log'[p] \ log[p] : o \in Nat /\ ((\E d \in Read(p) : o <= d) => o \in late'[p])
    <2>1. ASSUME NEW S \in SUBSET hidden[q], flushWrites(q, S)
          PROVE  /\ UNCHANGED delivered /\ late[p] \subseteq late'[p]
                 /\ \A o \in log'[p] \ log[p] :
                       o \in Nat /\ ((\E d \in Read(p) : o <= d) => o \in late'[p])
      <3>1. /\ UNCHANGED delivered /\ S \in SUBSET Nat
            /\ log' = [log EXCEPT ![q] = @ \cup S]
            /\ late' = [late EXCEPT ![q] = @ \cup {o \in S : \E d \in Read(q) : o <= d}]
        BY <1>1, <2>1 DEF LogTypes, flushWrites
      <3>2. CASE p # q
        BY <1>1, <3>1, <3>2 DEF LogTypes
      <3>3. CASE p = q
        <4>1. /\ log'[p] = log[p] \cup S
              /\ late'[p] = late[p] \cup {o \in S : \E d \in Read(p) : o <= d}
          BY <1>1, <3>1, <3>3 DEF LogTypes
        <4> QED
          BY <3>1, <4>1
      <3> QED
        BY <3>2, <3>3
    <2>2. ASSUME NEW S \in SUBSET log[q], DeleteOldMessages(q, S)
          PROVE  /\ UNCHANGED <<delivered, late>> /\ log'[p] \subseteq log[p]
      BY <1>1, <2>2 DEF DeleteOldMessages, LogTypes
    <2> QED
      BY <1>3, <2>1, <2>2 DEF LogStep
  <1>4. ASSUME NEW a \in Publishers, PublisherStep(a)
        PROVE  UNCHANGED <<log, late, delivered>>
    <2>1. CASE SetTopic(a)
      BY <2>1 DEF SetTopic, AppendTo, logVars
    <2> QED
      BY <1>4, <2>1 DEF PublisherStep, CreateTopic, LoadTopic, FindNoTopic, AutoCreate, Publish,
          AppendTo, logVars
  <1>5. ASSUME NEW m \in Members,
               \/ Subscribe(m) \/ Unsubscribe(m) \/ RebalanceStep(m)
               \/ \E count \in Counts : Consume(m, count)
               \/ CommitStep(m) \/ CommitStore(m) \/ GiveUp(m)
        PROVE  UNCHANGED <<log, late, delivered>>
    <2>1. CASE RebalanceStep(m)
      BY <2>1 DEF RebalanceStep, RebalanceMetadata, RebalanceLoad, rebalanceGroup, topicVars, logVars
    <2>2. CASE CommitStep(m) \/ CommitStore(m) \/ GiveUp(m)
      BY <2>2 DEF CommitStep, CommitCache, CommitStore, GiveUp, topicVars, logVars
    <2> QED
      BY <1>5, <2>1, <2>2 DEF Subscribe, Unsubscribe, Consume, topicVars, logVars
  <1>6. ASSUME NEW x \in Fetchers, getCachedOffset(x) \/ FillCache(x)
        PROVE  UNCHANGED <<log, late, delivered>>
    BY <1>6 DEF getCachedOffset, FillCache, topicVars, logVars
  <1>7. CASE Restart \/ UNCHANGED vars
    BY <1>7 DEF Restart, vars
  <1> QED
    BY <1>2, <1>3, <1>4, <1>5, <1>6, <1>7 DEF Next, FetchStep

\* What was passed stays passed.
LEMMA PassedKept ==
    ASSUME Types, [Next]_vars, NEW p \in Parts, NEW o, Passed(p, o)
    PROVE  Through(o, log'[p], delivered'[p], late'[p])
  <1>1. /\ delivered[p] \subseteq delivered'[p] /\ late[p] \subseteq late'[p]
        /\ \A i \in log'[p] \ log[p] : i \in Nat /\ ((\E d \in Read(p) : i <= d) => i \in late'[p])
    BY LogMoves
  <1>2. delivered[p] \subseteq Read(p)
    BY DEF Read
  <1>3. \A i \in Nat : i < o => \E d \in delivered[p] : i <= d
    BY DEF Passed, Through
  <1>4. \A i \in log'[p] : i < o => i \in delivered'[p] \cup late'[p]
    BY <1>1, <1>2, <1>3 DEF Passed, Through
  <1> QED
    BY <1>1, <1>3, <1>4 DEF Through

\* So does what a member collects.
LEMMA WholeKept ==
    ASSUME Types, [Next]_vars, NEW p \in Parts, NEW m \in Members, client[m].pc = "collect",
           Whole(client[m].got[p], log[p], late[p])
    PROVE  Whole(client[m].got[p], log'[p], late'[p])
  <1> DEFINE g == client[m].got[p]
  <1>1. /\ late[p] \subseteq late'[p]
        /\ \A i \in log'[p] \ log[p] : i \in Nat /\ ((\E d \in Read(p) : i <= d) => i \in late'[p])
    BY LogMoves
  <1>2. g.msgs \subseteq Read(p)
    BY DEF Read
  <1>3. Whole(g, log[p], late[p])
    OBVIOUS
  <1> HIDE DEF g
  <1> SUFFICES Whole(g, log'[p], late'[p])
    BY DEF g
  <1> QED
    BY <1>1, <1>2, <1>3 DEF Whole

\* A client state that is not newly about any offset.
Settled(c) == c.pc \notin {"collect", "got", "persist"}

\* NothingAhead and Behind after a step that settles some clients and goroutines.
LEMMA OffsetsKept ==
    ASSUME Types, NothingAhead, Behind, [Next]_vars,
           \A m \in Members : client'[m] = client[m] \/ Settled(client'[m]),
           \A x \in Fetchers : fetch'[x] = fetch[x] \/ fetch'[x].pc \notin {"fill", "read"},
           \A p \in Parts : cache'[p] = cache[p] \/ cache'[p] = None,
           UNCHANGED saved
    PROVE  NothingAhead' /\ Behind'
  <1>1. Behind'
    BY PassedKept DEF Behind, Passed
  <1>2. ASSUME NEW x \in Fetchers, fetch'[x].pc \in {"fill", "read"}
        PROVE  Passed(fetch[x].part, fetch[x].offset)'
    <2>1. fetch'[x] = fetch[x] /\ Passed(fetch[x].part, fetch[x].offset)
      BY <1>2 DEF NothingAhead
    <2>2. fetch[x].part \in Parts
      BY <1>2, <2>1, FetchIs DEF Types, ClientTypes
    <2> QED
      BY <2>1, <2>2, PassedKept DEF Passed
  <1>3. ASSUME NEW m \in Members, NEW p \in Parts
        PROVE  /\ client'[m].pc = "collect" =>
                     Passed(p, client[m].got[p].from)' /\ Whole(client'[m].got[p], log'[p], late'[p])
               /\ client'[m].pc \in {"got", "persist"} =>
                     /\ Passed(p, client[m].got[p].from)'
                     /\ \A d \in client'[m].got[p].msgs : Through(d + 1, log'[p], delivered'[p], late'[p])
    <2>1. CASE client'[m] = client[m]
      BY <2>1, PassedKept, WholeKept DEF NothingAhead, Passed
    <2>2. CASE Settled(client'[m])
      BY <2>2 DEF Settled
    <2> QED
      BY <2>1, <2>2
  <1> QED
    BY <1>1, <1>2, <1>3 DEF NothingAhead, Passed

\* Every step keeps the group behind what it has received.
LEMMA SkippedKept ==
    ASSUME Types, NothingAhead, Behind, [Next]_vars
    PROVE  NothingAhead' /\ Behind'
  <1>1. /\ client \in [Members -> ClientStates] /\ fetch \in [Fetchers -> FetchStates]
        /\ cache \in [Parts -> Nat \cup {None}] /\ saved \in [Parts -> Nat]
    BY DEF Types, ClientTypes, OffsetTypes
  <1>2. ASSUME NEW a \in Publishers, PublisherStep(a)
        PROVE  UNCHANGED <<client, fetch, cache, saved>>
    BY <1>2 DEF PublisherStep, CreateTopic, LoadTopic, FindNoTopic, AutoCreate, Publish, SetTopic,
        offsetVars
  <1>3. ASSUME NEW m \in Members, Subscribe(m) \/ Unsubscribe(m) \/ RebalanceStep(m)
        PROVE  /\ UNCHANGED <<fetch, cache, saved>>
               /\ \A h \in Members : client'[h] = client[h] \/ Settled(client'[h])
    <2>1. UNCHANGED <<fetch, cache, saved>>
      BY <1>3 DEF Subscribe, Unsubscribe, RebalanceStep, RebalanceMetadata, RebalanceLoad,
          rebalanceGroup, offsetVars
    <2>2. CASE Subscribe(m) \/ Unsubscribe(m)
      <3>1. client' = client \/ client' = [client EXCEPT ![m] = [pc |-> "metadata"]]
        BY <2>2 DEF Subscribe, Unsubscribe
      <3>2. client' = client \/ (client'[m].pc = "metadata"
                                 /\ \A h \in Members : h # m => client'[h] = client[h])
        BY <1>1, <3>1
      <3> QED
        BY <2>1, <3>2 DEF Settled
    <2>3. CASE RebalanceMetadata(m) \/ rebalanceGroup(m)
      <3>1. \/ client' = [client EXCEPT ![m] = Idle]
            \/ client' = [client EXCEPT ![m] = [pc |-> "assign", size |-> topics]]
            \/ client' = [client EXCEPT ![m] = [pc |-> "load", size |-> stored]]
        BY <2>3 DEF RebalanceMetadata, rebalanceGroup
      <3>2. /\ client'[m].pc \in {"idle", "assign", "load"}
            /\ \A h \in Members : h # m => client'[h] = client[h]
        BY <1>1, <3>1 DEF Idle
      <3> QED
        BY <2>1, <3>2 DEF Settled
    <2>4. CASE RebalanceLoad(m)
      <3> DEFINE s == [client[m] EXCEPT !.pc = "assign"]
      <3>1. client[m] \in [pc : {"load", "assign"}, size : Sizes]
        BY <1>1, <2>4, ClientIs DEF RebalanceLoad
      <3>2. s.pc = "assign"
        BY <3>1
      <3>3. client' = [client EXCEPT ![m] = s]
        BY <2>4 DEF RebalanceLoad
      <3> HIDE DEF s
      <3>4. client'[m] = s /\ \A h \in Members : h # m => client'[h] = client[h]
        BY <1>1, <3>3
      <3> QED
        BY <2>1, <3>2, <3>4 DEF Settled
    <2> QED
      BY <1>3, <2>1, <2>2, <2>3, <2>4 DEF RebalanceStep
  <1>4. ASSUME NEW m \in Members, NEW count \in Counts, Consume(m, count)
        PROVE  NothingAhead' /\ Behind'
    <2>1. /\ client'[m].pc = "collect" /\ client'[m].got = Nothing
          /\ \A h \in Members : h # m => client'[h] = client[h]
          /\ \A x \in Fetchers : fetch'[x] = fetch[x] \/ fetch'[x].pc = "offset"
          /\ UNCHANGED <<cache, saved, log, late, delivered>>
      <3>1. /\ client'[m] = [pc |-> "collect", left |-> count, got |-> Nothing]
            /\ \A h \in Members : h # m => client'[h] = client[h]
            /\ \A x \in Fetchers :
                  \/ fetch'[x] = fetch[x]
                  \/ fetch'[x] \in [pc : {"offset"}, for : {m}, part : Parts, max : Nat]
            /\ UNCHANGED <<cache, saved, log, late, delivered>>
        BY <1>4, ConsumeIs
      <3>2. client'[m].pc = "collect" /\ client'[m].got = Nothing
        BY <3>1
      <3>3. \A x \in Fetchers : fetch'[x] = fetch[x] \/ fetch'[x].pc = "offset"
        BY <3>1
      <3> QED
        BY <3>1, <3>2, <3>3
    <2>2. Behind'
      BY <2>1 DEF Behind, Passed
    <2>3. \A p \in Parts : Nothing[p].from = 0 /\ Nothing[p].msgs = {}
      BY DEF Nothing
    <2>4. \A p \in Parts : Passed(p, 0)' /\ Whole(Nothing[p], log'[p], late'[p])
      <3>1. LogTypes'
        BY TypesKept DEF Types, TopicTypes
      <3> QED
        BY <2>3, <3>1 DEF Passed, Through, Whole, LogTypes
    <2>5. ASSUME NEW x \in Fetchers, fetch'[x].pc \in {"fill", "read"}
          PROVE  Passed(fetch[x].part, fetch[x].offset)'
      BY <2>1, <2>5 DEF NothingAhead, Passed
    <2>6. ASSUME NEW h \in Members, NEW p \in Parts
          PROVE  /\ client'[h].pc = "collect" =>
                       Passed(p, client[h].got[p].from)' /\ Whole(client'[h].got[p], log'[p], late'[p])
                 /\ client'[h].pc \in {"got", "persist"} =>
                       /\ Passed(p, client[h].got[p].from)'
                       /\ \A d \in client'[h].got[p].msgs : Through(d + 1, log'[p], delivered'[p], late'[p])
      <3>1. CASE h = m
        BY <2>1, <2>3, <2>4, <3>1 DEF Passed
      <3>2. CASE h # m
        BY <2>1, <3>2 DEF NothingAhead, Passed
      <3> QED
        BY <3>1, <3>2
    <2> QED
      BY <2>2, <2>5, <2>6 DEF NothingAhead, Passed
  <1>5. ASSUME NEW x \in Fetchers, getCachedOffset(x) \/ FillCache(x)
        PROVE  NothingAhead' /\ Behind'
    <2> DEFINE f == fetch[x]
               p == f.part
               g == fetch'[x]
    <2>1. /\ f \in FetchStates /\ f # Idle /\ p \in Parts
          /\ \A y \in Fetchers : y # x => fetch'[y] = fetch[y]
          /\ g = Idle \/ (g.part = p /\ g.pc \in {"fill", "read"})
          /\ UNCHANGED <<client, saved, log, late, delivered>>
      BY <1>5, LookupIs
    <2>2. \/ cache' = cache
          \/ f.pc = "fill" /\ cache' = [cache EXCEPT ![p] = f.offset]
      BY <1>5, LookupIs
    <2>3. g = Idle \/ g.offset = saved[p] \/ (cache[p] # None /\ g.offset = cache[p])
          \/ (f.pc = "fill" /\ g.offset = f.offset)
      BY <1>5, LookupIs
    <2>4. f.pc = "fill" => Passed(p, f.offset)
      BY DEF NothingAhead
    <2> HIDE DEF f, g, p
    <2>5. Behind'
      <3>1. CASE cache' = cache
        BY <2>1, <3>1 DEF Behind, Passed
      <3>2. CASE f.pc = "fill" /\ cache' = [cache EXCEPT ![p] = f.offset]
        <4>1. \A q \in Parts : q # p => cache'[q] = cache[q]
          BY <1>1, <2>1, <3>2
        <4>2. cache'[p] = f.offset
          BY <1>1, <2>1, <3>2
        <4> QED
          BY <2>1, <2>4, <3>2, <4>1, <4>2 DEF Behind, Passed
      <3> QED
        BY <2>2, <3>1, <3>2
    <2>6. g # Idle => Passed(p, g.offset)
      BY <2>1, <2>3, <2>4 DEF Behind, Passed
    <2>7. ASSUME NEW y \in Fetchers, fetch'[y].pc \in {"fill", "read"}
          PROVE  Passed(fetch[y].part, fetch[y].offset)'
      <3>1. CASE y = x
        BY <2>1, <2>6, <2>7, <3>1 DEF Passed, g, Idle
      <3>2. CASE y # x
        BY <2>1, <2>7, <3>2 DEF NothingAhead, Passed
      <3> QED
        BY <3>1, <3>2
    <2> QED
      BY <2>1, <2>5, <2>7 DEF NothingAhead, Passed
  <1>6. ASSUME NEW x \in Fetchers, Answer(x)
        PROVE  NothingAhead' /\ Behind'
    <2> DEFINE f == fetch[x]
               m == f.for
               p == f.part
               res == FetchMessages(f)
               got == [client[m].got EXCEPT ![p] = res]
    <2>1. /\ f \in FetchStates /\ f.pc = "read" /\ f.offset \in Nat
          /\ m \in Members /\ p \in Parts /\ client[m].pc = "collect"
          /\ client[m].got \in Gots /\ got \in Gots
          /\ res.from = f.offset /\ Whole(res, log[p], {})
          /\ \A h \in Members : h # m => client'[h] = client[h]
          /\ UNCHANGED <<cache, saved, log, late>>
      BY <1>6, AnswerIs
    <2>2. \/ client'[m].pc = "collect" /\ client'[m].got = got
          \/ /\ client'[m] = Idle \/ (client'[m].pc = "got" /\ client'[m].got = got)
             /\ delivered' = [q \in Parts |-> delivered[q] \cup got[q].msgs]
      BY <1>6, AnswerIs DEF Return
    <2>3. ASSUME NEW y \in Fetchers, fetch'[y].pc \in {"fill", "read"}
          PROVE  /\ fetch[y].pc = fetch'[y].pc
                 /\ fetch'[y].part = fetch[y].part /\ fetch'[y].offset = fetch[y].offset
      <3>1. /\ fetch'[x] = Idle
            /\ y # x =>
                 \/ fetch'[y] = fetch[y]
                 \/ fetch'[y] = Idle
                 \/ /\ fetch'[y].pc = fetch[y].pc /\ fetch[y].pc # "read"
                    /\ fetch'[y].part = fetch[y].part
                    /\ fetch[y].pc = "fill" => fetch'[y].offset = fetch[y].offset
        BY <1>6, AnswerIs
      <3>2. fetch'[y] # Idle /\ y # x
        BY <2>3, <3>1 DEF Idle
      <3> QED
        BY <2>3, <3>1, <3>2
    <2>4. \A q \in Parts : got[q] = IF q = p THEN res ELSE client[m].got[q]
      BY <2>1 DEF Gots
    <2>5. \A q \in Parts : got[q].from \in Nat /\ got[q].msgs \in SUBSET Nat /\ log[q] \in SUBSET Nat
      BY <2>1 DEF Gots, Types, TopicTypes, LogTypes
    <2>6. /\ Passed(p, f.offset)
          /\ \A q \in Parts : Passed(q, client[m].got[q].from) /\ Whole(client[m].got[q], log[q], late[q])
      BY <2>1 DEF NothingAhead
    <2> HIDE DEF got, res, f, p, m
    <2>7. \A q \in Parts : Passed(q, got[q].from) /\ Whole(got[q], log[q], late[q])
      <3>1. Whole(res, log[p], late[p])
        BY <2>1 DEF Whole
      <3> QED
        BY <2>1, <2>4, <2>6, <3>1
    <2>8. Behind'
      BY <2>1, PassedKept DEF Behind, Passed
    <2>9. ASSUME NEW y \in Fetchers, fetch'[y].pc \in {"fill", "read"}
          PROVE  Passed(fetch[y].part, fetch[y].offset)'
      <3>1. Passed(fetch[y].part, fetch[y].offset)
        BY <2>3, <2>9 DEF NothingAhead
      <3>2. fetch[y].part \in Parts
        BY <1>1, <2>3, <2>9, FetchIs
      <3> QED
        BY <2>3, <2>9, <3>1, <3>2, PassedKept DEF Passed
    <2>10. ASSUME NEW h \in Members, NEW q \in Parts
           PROVE  /\ client'[h].pc = "collect" =>
                        Passed(q, client[h].got[q].from)' /\ Whole(client'[h].got[q], log'[q], late'[q])
                  /\ client'[h].pc \in {"got", "persist"} =>
                        /\ Passed(q, client[h].got[q].from)'
                        /\ \A d \in client'[h].got[q].msgs : Through(d + 1, log'[q], delivered'[q], late'[q])
      <3>1. CASE h # m
        BY <2>1, <3>1, PassedKept, WholeKept DEF NothingAhead, Passed
      <3>2. CASE h = m /\ client'[m].pc = "collect"
        <4>1. client'[m].got = got
          BY <2>2, <3>2 DEF Idle
        <4>2. Through(got[q].from, log'[q], delivered'[q], late'[q])
          BY <2>7, PassedKept
        <4> QED
          BY <2>1, <2>7, <3>2, <4>1, <4>2 DEF Passed
      <3>3. CASE h = m /\ client'[m].pc # "collect" /\ client'[m].pc = "got"
        <4>1. /\ client'[m].got = got
              /\ delivered'[q] = delivered[q] \cup got[q].msgs
          BY <2>2, <3>3 DEF Idle
        <4>2. /\ Through(got[q].from, log[q], delivered[q], late[q]) /\ Whole(got[q], log[q], late[q])
              /\ got[q].from \in Nat /\ got[q].msgs \in SUBSET Nat /\ log[q] \in SUBSET Nat
              /\ log'[q] = log[q] /\ late'[q] = late[q]
          BY <2>1, <2>5, <2>7 DEF Passed
        <4>3. Through(got[q].from, log'[q], delivered'[q], late'[q])
          BY <4>1, <4>2 DEF Through
        <4>4. ASSUME NEW d \in got[q].msgs
              PROVE  Through(d + 1, log'[q], delivered'[q], late'[q])
          <5>1. ASSUME NEW i \in log[q], i < d + 1
                PROVE  i \in delivered'[q] \cup late'[q]
            <6>1. CASE i < got[q].from
              BY <4>1, <4>2, <6>1 DEF Through
            <6>2. CASE got[q].from <= i
              <7>1. i <= d
                BY <4>2, <5>1
              <7> QED
                BY <4>1, <4>2, <6>2, <7>1 DEF Whole
            <6> QED
              BY <4>2, <6>1, <6>2
          <5>2. ASSUME NEW i \in Nat, i < d + 1
                PROVE  \E e \in delivered'[q] : i <= e
            <6>1. d \in delivered'[q] /\ i <= d
              BY <4>1, <4>2, <5>2
            <6> QED
              BY <6>1
          <5> QED
            BY <4>2, <5>1, <5>2 DEF Through
        <4> QED
          BY <3>3, <4>1, <4>3, <4>4 DEF Passed
      <3>4. CASE h = m /\ client'[m] = Idle
        BY <3>4 DEF Idle
      <3> QED
        BY <2>2, <3>1, <3>2, <3>3, <3>4
    <2> QED
      BY <2>8, <2>9, <2>10 DEF NothingAhead, Passed
  <1>7. ASSUME NEW m \in Members, CommitStep(m) \/ CommitStore(m) \/ GiveUp(m)
        PROVE  NothingAhead' /\ Behind'
    <2>1. /\ \A h \in Members : h # m => client'[h] = client[h]
          /\ UNCHANGED <<fetch, log, late, delivered>>
      BY <1>7, CommitIs
    <2>2. ASSUME \A q \in Parts : client'[m].pc \in {"got", "persist"} =>
                     /\ Passed(q, client'[m].got[q].from)
                     /\ \A d \in client'[m].got[q].msgs : Passed(q, d + 1),
                 client'[m].pc # "collect"
          PROVE  NothingAhead'
      BY <2>1, <2>2 DEF NothingAhead, Passed
    <2>3. ASSUME NEW p \in Parts, NEW o \in client[m].got[p].msgs, client[m].pc = "got",
                 cache' = [cache EXCEPT ![p] = o + 1],
                 UNCHANGED saved, client'[m].pc = "persist",
                 client'[m].got[p].from = o + 1,
                 client'[m].got[p].msgs = client[m].got[p].msgs \ {o},
                 \A q \in Parts : q # p => client'[m].got[q] = client[m].got[q]
          PROVE  NothingAhead' /\ Behind'
      <3>1. Passed(p, o + 1) /\ \A d \in client[m].got[p].msgs : Passed(p, d + 1)
        BY <2>3 DEF NothingAhead
      <3>2. \A q \in Parts : Passed(q, client[m].got[q].from)
                              /\ \A d \in client[m].got[q].msgs : Passed(q, d + 1)
        BY <2>3 DEF NothingAhead
      <3>3. \A q \in Parts : Passed(q, client'[m].got[q].from)
                              /\ \A d \in client'[m].got[q].msgs : Passed(q, d + 1)
        BY <2>3, <3>1, <3>2
      <3>4. NothingAhead'
        BY <2>2, <2>3, <3>3
      <3>5. /\ \A q \in Parts : q # p => cache'[q] = cache[q]
            /\ cache'[p] = o + 1
        BY <1>1, <2>3
      <3>6. Behind'
        BY <2>1, <2>3, <3>1, <3>5 DEF Behind, Passed
      <3> QED
        BY <3>4, <3>6
    <2>4. ASSUME client[m].pc = "persist", client[m].part \in Parts, UNCHANGED cache,
                 saved' = [saved EXCEPT ![client[m].part] = client[m].got[client[m].part].from],
                 client'[m] = Idle \/ (client'[m].pc = "got" /\ client'[m].got = client[m].got)
          PROVE  NothingAhead' /\ Behind'
      <3>1. \A q \in Parts : Passed(q, client[m].got[q].from)
                              /\ \A d \in client[m].got[q].msgs : Passed(q, d + 1)
        BY <2>4 DEF NothingAhead
      <3>2. NothingAhead'
        BY <2>2, <2>4, <3>1 DEF Idle
      <3>3. /\ \A q \in Parts : q # client[m].part => saved'[q] = saved[q]
            /\ saved'[client[m].part] = client[m].got[client[m].part].from
        BY <1>1, <2>4
      <3>4. Behind'
        BY <2>1, <2>4, <3>1, <3>3 DEF Behind, Passed
      <3> QED
        BY <3>2, <3>4
    <2>5. ASSUME client'[m] = Idle, UNCHANGED <<cache, saved>>
          PROVE  NothingAhead' /\ Behind'
      <3>1. NothingAhead'
        BY <2>2, <2>5 DEF Idle
      <3> QED
        BY <2>1, <2>5, <3>1 DEF Behind, Passed
    <2> QED
      BY <1>7, <2>3, <2>4, <2>5, CommitIs
  <1>8. CASE Restart
    <2>1. /\ \A m \in Members : client'[m].pc = "idle"
          /\ \A x \in Fetchers : fetch'[x].pc = "idle"
          /\ \A p \in Parts : cache'[p] = None
          /\ UNCHANGED saved
      BY <1>8, RestartIs
    <2> QED
      BY <2>1, OffsetsKept DEF Settled
  <1>9. CASE UNCHANGED vars
    BY <1>9, OffsetsKept DEF vars
  <1>10. CASE \E a \in Publishers : PublisherStep(a)
    BY <1>2, <1>10, OffsetsKept
  <1>11. CASE \E m \in Members : Subscribe(m) \/ Unsubscribe(m) \/ RebalanceStep(m)
    BY <1>3, <1>11, OffsetsKept
  <1>12. CASE \E p \in Parts : LogStep(p)
    <2>1. UNCHANGED <<client, fetch, cache, saved>>
      BY <1>12, LogStepIs
    <2> QED
      BY <2>1, OffsetsKept
  <1> QED
    BY <1>4, <1>5, <1>6, <1>7, <1>8, <1>9, <1>10, <1>11, <1>12 DEF Next, FetchStep

-----------------------------------------------------------------------------
(***************************************************************************)
(* A group resumes after its last commit.                                  *)
(***************************************************************************)
\* At most one member works on a partition without a clash.
LEMMA OneWorks ==
    ASSUME NEW p, NEW c, NEW f, ~Clash(p, c, f),
           NEW a \in Working(p, c, f), NEW b \in Working(p, c, f)
    PROVE  a = b
  <1>1. Working(p, c, f) \in SUBSET Members
    BY DEF Working
  <1> DEFINE W == Working(p, c, f)
  <1>2. IsFiniteSet(W) /\ Cardinality(W) \in Nat /\ Cardinality(W) <= 1
    BY <1>1, GroupAssumption, FS_Subset, FS_CardinalityType DEF Clash
  <1>3. a \in W /\ b \in W
    OBVIOUS
  <1> HIDE DEF W
  <1>4. W # {}
    BY <1>3
  <1>5. Cardinality(W) = 1
    BY <1>2, <1>4, FS_EmptySet
  <1>6. \E w : W = {w}
    BY <1>2, <1>5, FS_Singleton
  <1> QED
    BY <1>3, <1>6

\* Who works on a partition: whoever commits it, holds messages of it or waits for a
\* goroutine that reads it.
LEMMA WorkingIs ==
    ASSUME Types, NEW p \in Parts
    PROVE  /\ Persisting(p) \subseteq Working(p, client, fetch)
           /\ \A m \in Members : client[m].pc \in {"collect", "got", "persist"}
                 /\ p \in Holds(client[m].got) => m \in Working(p, client, fetch)
           /\ \A x \in Fetchers : fetch[x] # Idle /\ fetch[x].part = p /\ fetch[x].for # None =>
                 fetch[x].for \in Working(p, client, fetch)
                 /\ fetch[x].for \in Members /\ client[fetch[x].for].pc = "collect"
  <1>1. fetch \in [Fetchers -> FetchStates]
    BY DEF Types, ClientTypes
  <1>2. ASSUME NEW x \in Fetchers, fetch[x] # Idle, fetch[x].part = p, fetch[x].for # None
        PROVE  /\ fetch[x].for \in Working(p, client, fetch)
               /\ fetch[x].for \in Members /\ client[fetch[x].for].pc = "collect"
    <2>1. fetch[x].for \in Members /\ client[fetch[x].for].pc = "collect"
      BY <1>1, <1>2, FetchIs DEF Types, Collecting
    <2> QED
      BY <1>2, <2>1 DEF Working
  <1>3. Persisting(p) \subseteq Working(p, client, fetch)
    BY DEF Persisting, Working
  <1>4. ASSUME NEW m \in Members, client[m].pc \in {"collect", "got", "persist"},
               p \in Holds(client[m].got)
        PROVE  m \in Working(p, client, fetch)
    BY <1>4 DEF Working
  <1> QED
    BY <1>2, <1>3, <1>4

\* While a partition that nobody crossed is being committed, no goroutine has its offset,
\* and nobody else holds messages of it.
LEMMA CommitAlone ==
    ASSUME Types, NEW p \in Parts, ~Clash(p, client, fetch), NEW m \in Members,
           \/ m \in Persisting(p)
           \/ client[m].pc = "got" /\ p \in Holds(client[m].got)
    PROVE  /\ \A h \in Persisting(p) : h = m
           /\ \A h \in Members : client[h].pc \in {"collect", "got", "persist"}
                 /\ p \in Holds(client[h].got) => h = m
           /\ \A x \in Fetchers : fetch[x].pc = "read" => fetch[x].part # p
           /\ m \in Persisting(p) =>
                 \A x \in Fetchers : fetch[x].pc = "fill" => fetch[x].part # p
  <1>1. m \in Working(p, client, fetch) /\ client[m].pc \in {"got", "persist"}
    BY WorkingIs DEF Persisting
  <1>2. \A h \in Working(p, client, fetch) : h = m
    BY <1>1, OneWorks
  <1>3. ASSUME NEW x \in Fetchers, fetch[x].pc = "read", fetch[x].part = p
        PROVE  FALSE
    <2>1. fetch[x] # Idle /\ fetch[x].for # None
      <3>1. fetch[x] \in FetchStates
        BY DEF Types, ClientTypes
      <3>2. fetch[x] \in [pc : {"read"}, for : Members, part : Parts, max : Nat, offset : Nat]
        BY <1>3, <3>1, FetchIs
      <3> QED
        BY <3>2, GroupAssumption DEF Idle
    <2>2. fetch[x].for = m /\ client[fetch[x].for].pc = "collect"
      BY <1>2, <1>3, <2>1, WorkingIs
    <2> QED
      BY <1>1, <2>2
  <1>4. m \in Persisting(p) => \A x \in Fetchers : fetch[x].pc = "fill" => fetch[x].part # p
    BY DEF Clash, Persisting
  <1> QED
    BY <1>2, <1>3, <1>4, WorkingIs

\* A step that concerns no offset of the partition keeps it in line.
LEMMA LineKept ==
    ASSUME Types, NEW p \in Parts, Line(p),
           \A m \in Members :
              \/ client'[m] = client[m]
              \/ /\ m \notin Persisting(p) /\ m \notin Persisting(p)'
                 /\ client'[m].pc \in {"collect", "got", "persist"} /\ p \in Holds(client'[m].got) =>
                       /\ client[m].pc \in {"collect", "got", "persist"}
                       /\ client[m].got[p] = client'[m].got[p] /\ p \in Holds(client[m].got),
           \A x \in Fetchers : fetch'[x].pc \in {"fill", "read"} /\ fetch'[x].part = p =>
                 /\ fetch[x].pc \in {"fill", "read"} /\ fetch[x].part = p
                 /\ fetch'[x].offset = fetch[x].offset,
           cache'[p] = cache[p], saved'[p] = saved[p], done'[p] = done[p]
    PROVE  Line(p)'
  <1>1. Persisting(p)' = Persisting(p)
    BY DEF Persisting
  <1>2. /\ (done[p] <= saved[p])'
        /\ (cache[p] = None \/ cache[p] = saved[p] \/ Persisting(p) # {})'
    BY <1>1 DEF Line
  <1>3. \A x \in Fetchers : fetch'[x].pc \in {"fill", "read"} /\ fetch'[x].part = p =>
          fetch'[x].offset = saved'[p]
    BY DEF Line
  <1>4. ASSUME NEW m \in Members
        PROVE  /\ client'[m].pc \in {"collect", "got", "persist"} /\ m \notin Persisting(p)'
                     /\ p \in Holds(client'[m].got) => client'[m].got[p].from = saved'[p]
               /\ m \in Persisting(p)' =>
                     cache'[p] = client'[m].got[p].from /\ client'[m].got[p].from >= saved'[p]
    <2>1. CASE client'[m] = client[m]
      BY <1>1, <2>1 DEF Line
    <2>2. CASE client'[m] # client[m]
      BY <1>1, <2>2 DEF Line
    <2> QED
      BY <2>1, <2>2
  <1> QED
    BY <1>2, <1>3, <1>4 DEF Line

\* The steps of publishers and of membership, and the start of Consume.
LEMMA OtherLine ==
    ASSUME Types, NEW p \in Parts, Line(p),
           \/ \E a \in Publishers : PublisherStep(a)
           \/ \E m \in Members : \/ Subscribe(m) \/ Unsubscribe(m) \/ RebalanceStep(m)
                                 \/ \E count \in Counts : Consume(m, count)
           \/ \E q \in Parts : LogStep(q)
           \/ UNCHANGED vars
    PROVE  Line(p)'
  <1>1. client \in [Members -> ClientStates] /\ fetch \in [Fetchers -> FetchStates]
    BY DEF Types, ClientTypes
  <1>2. CASE \/ \E a \in Publishers : PublisherStep(a)
             \/ UNCHANGED vars
    <2>1. UNCHANGED <<client, fetch, cache, saved, done>>
      BY <1>2 DEF PublisherStep, CreateTopic, LoadTopic, FindNoTopic, AutoCreate, Publish, SetTopic,
          offsetVars, vars
    <2> QED
      BY <2>1, LineKept
  <1>3. ASSUME NEW m \in Members, Subscribe(m) \/ Unsubscribe(m) \/ RebalanceStep(m)
        PROVE  Line(p)'
    <2>1. UNCHANGED <<fetch, cache, saved, done>>
      BY <1>3 DEF Subscribe, Unsubscribe, RebalanceStep, RebalanceMetadata, RebalanceLoad,
          rebalanceGroup, offsetVars
    <2>2. Settled(client[m])
      BY <1>3 DEF Subscribe, Unsubscribe, RebalanceStep, RebalanceMetadata, RebalanceLoad,
          rebalanceGroup, Settled, Idle
    <2>3. /\ \A h \in Members : h # m => client'[h] = client[h]
          /\ Settled(client'[m])
      <3>1. CASE UNCHANGED client
        BY <2>2, <3>1
      <3>2. CASE RebalanceLoad(m)
        <4> DEFINE s == [client[m] EXCEPT !.pc = "assign"]
        <4>1. client[m] \in [pc : {"load", "assign"}, size : Sizes]
          BY <1>1, <3>2, ClientIs DEF RebalanceLoad
        <4>2. s.pc = "assign"
          BY <4>1
        <4>3. client' = [client EXCEPT ![m] = s]
          BY <3>2 DEF RebalanceLoad
        <4> HIDE DEF s
        <4>4. client'[m] = s /\ \A h \in Members : h # m => client'[h] = client[h]
          BY <1>1, <4>3
        <4> QED
          BY <4>2, <4>4 DEF Settled
      <3>3. CASE \/ client' = [client EXCEPT ![m] = Idle]
                 \/ client' = [client EXCEPT ![m] = [pc |-> "metadata"]]
                 \/ client' = [client EXCEPT ![m] = [pc |-> "assign", size |-> topics]]
                 \/ client' = [client EXCEPT ![m] = [pc |-> "load", size |-> stored]]
        <4>1. /\ client'[m].pc \in {"idle", "metadata", "assign", "load"}
              /\ \A h \in Members : h # m => client'[h] = client[h]
          BY <1>1, <3>3 DEF Idle
        <4> QED
          BY <4>1 DEF Settled
      <3> QED
        BY <1>3, <3>1, <3>2, <3>3 DEF Subscribe, Unsubscribe, RebalanceStep, RebalanceMetadata,
            rebalanceGroup
    <2>4. m \notin Persisting(p) /\ m \notin Persisting(p)'
      BY <2>2, <2>3 DEF Settled, Persisting
    <2> QED
      BY <2>1, <2>3, <2>4, LineKept DEF Settled
  <1>4. ASSUME NEW m \in Members, NEW count \in Counts, Consume(m, count)
        PROVE  Line(p)'
    <2>1. /\ client[m].pc = "idle"
          /\ client'[m] = [pc |-> "collect", left |-> count, got |-> Nothing]
          /\ \A h \in Members : h # m => client'[h] = client[h]
          /\ \A x \in Fetchers :
                \/ fetch'[x] = fetch[x]
                \/ fetch'[x] \in [pc : {"offset"}, for : {m}, part : Parts, max : Nat]
          /\ UNCHANGED <<cache, saved, done>>
      BY <1>4, ConsumeIs
    <2>2. client'[m].pc = "collect" /\ client'[m].got = Nothing
      BY <2>1
    <2>3. p \notin Holds(Nothing)
      BY DEF Holds, Nothing
    <2>4. m \notin Persisting(p) /\ m \notin Persisting(p)'
      BY <2>1, <2>2 DEF Persisting
    <2>5. \A x \in Fetchers : fetch'[x] = fetch[x] \/ fetch'[x].pc = "offset"
      BY <2>1
    <2> QED
      BY <2>1, <2>2, <2>3, <2>4, <2>5, LineKept
  <1>5. CASE \E q \in Parts : LogStep(q)
    <2>1. UNCHANGED <<client, fetch, cache, saved, done>>
      BY <1>5, LogStepIs
    <2> QED
      BY <2>1, LineKept
  <1> QED
    BY <1>2, <1>3, <1>4, <1>5

\* A goroutine that looks up an offset, or fills the cache, finds the stored one.
LEMMA LookupLine ==
    ASSUME Types, NEW p \in Parts, InLine(p), NEW x \in Fetchers,
           getCachedOffset(x) \/ FillCache(x)
    PROVE  Line(p)'
  <1> USE DEF InLine
  <1> DEFINE f == fetch[x]
             g == fetch'[x]
  <1>1. /\ f \in FetchStates /\ f # Idle /\ f.part \in Parts /\ g \in FetchStates
        /\ \A y \in Fetchers : y # x => fetch'[y] = fetch[y]
        /\ g = Idle \/ (g.part = f.part /\ g.for = f.for /\ g.pc \in {"fill", "read"})
        /\ f.pc \in {"offset", "fill"}
        /\ UNCHANGED <<client, saved, done>>
    BY LookupIs
  <1>2. /\ getCachedOffset(x) => cache' = cache
        /\ getCachedOffset(x) /\ g # Idle =>
              \/ g.pc = "fill" /\ cache[f.part] = None /\ g.offset = saved[f.part]
              \/ g.pc = "read" /\ cache[f.part] # None /\ g.offset = cache[f.part]
        /\ FillCache(x) =>
              /\ f.pc = "fill" /\ f.offset \in Nat
              /\ cache' = [cache EXCEPT ![f.part] = f.offset]
              /\ g = Idle \/ (g.pc = "read" /\ g.offset = f.offset)
    BY LookupIs
  <1>3. CASE f.part # p
    <2>1. cache'[p] = cache[p]
      BY <1>1, <1>2, <1>3 DEF Types, OffsetTypes
    <2>2. g = Idle \/ g.part # p
      BY <1>1, <1>3
    <2> QED
      BY <1>1, <2>1, <2>2, LineKept DEF Idle
  <1>4. CASE f.part = p /\ getCachedOffset(x)
    <2>1. g # Idle => g.offset = saved[p]
      <3> SUFFICES ASSUME g # Idle, g.pc = "read", cache[p] # None, g.offset = cache[p]
                   PROVE  cache[p] = saved[p]
        BY <1>2, <1>4
      <3> SUFFICES ASSUME Persisting(p) # {}
                   PROVE  FALSE
        BY DEF Line
      <3>1. PICK h \in Persisting(p) : TRUE
        OBVIOUS
      <3>2. f.for # None
        <4>1. g.for \in Members
          <5>1. g \in [pc : {"read"}, for : Members, part : Parts, max : Nat, offset : Nat]
            BY <1>1, FetchIs
          <5> QED
            BY <5>1
        <4> QED
          BY <1>1, <4>1, GroupAssumption
      <3>3. f.for \in Working(p, client, fetch) /\ client[f.for].pc = "collect"
        BY <1>1, <1>4, <3>2, WorkingIs
      <3>4. h = f.for
        BY <3>1, <3>3, OneWorks, WorkingIs
      <3> QED
        BY <3>1, <3>3, <3>4 DEF Persisting
    <2>2. Persisting(p)' = Persisting(p) /\ cache' = cache
      BY <1>1, <1>2, <1>4 DEF Persisting
    <2>3. ASSUME NEW y \in Fetchers, fetch'[y].pc \in {"fill", "read"}, fetch'[y].part = p
          PROVE  fetch'[y].offset = saved'[p]
      <3>1. CASE y = x
        BY <1>1, <2>1, <2>3, <3>1 DEF Idle
      <3>2. CASE y # x
        BY <1>1, <2>3, <3>2 DEF Line
      <3> QED
        BY <3>1, <3>2
    <2> QED
      BY <1>1, <2>2, <2>3 DEF Line
  <1>5. CASE f.part = p /\ FillCache(x)
    <2>1. f.pc = "fill" /\ f.offset = saved[p]
      BY <1>2, <1>5 DEF Line
    <2>2. cache'[p] = saved[p] /\ (g = Idle \/ g.offset = saved[p])
      BY <1>2, <1>5, <2>1 DEF Types, OffsetTypes
    <2>3. Persisting(p) = {} /\ Persisting(p)' = {}
      <3>1. Persisting(p) = {}
        BY <1>5, <2>1 DEF Clash, Persisting
      <3> QED
        BY <1>1, <3>1 DEF Persisting
    <2>4. ASSUME NEW y \in Fetchers, fetch'[y].pc \in {"fill", "read"}, fetch'[y].part = p
          PROVE  fetch'[y].offset = saved'[p]
      <3>1. CASE y = x
        BY <1>1, <2>2, <2>4, <3>1 DEF Idle
      <3>2. CASE y # x
        BY <1>1, <2>4, <3>2 DEF Line
      <3> QED
        BY <3>1, <3>2
    <2> QED
      BY <1>1, <2>2, <2>3, <2>4 DEF Line
  <1> QED
    BY <1>3, <1>4, <1>5

\* What a member receives starts where its goroutine was told to.
LEMMA AnswerLine ==
    ASSUME Types, NEW p \in Parts, InLine(p), NEW x \in Fetchers, Answer(x)
    PROVE  Line(p)'
  <1> USE DEF InLine
  <1> DEFINE f == fetch[x]
             m == f.for
             res == FetchMessages(f)
             got == [client[m].got EXCEPT ![f.part] = res]
  <1>1. /\ f.pc = "read" /\ m \in Members /\ f.part \in Parts /\ client[m].pc = "collect"
        /\ client[m].got \in Gots /\ got \in Gots /\ res.from = f.offset
        /\ \A h \in Members : h # m => client'[h] = client[h]
        /\ \/ client'[m].pc = "collect" /\ client'[m].got = got
           \/ client'[m] = Idle \/ (client'[m].pc = "got" /\ client'[m].got = got)
        /\ fetch'[x] = Idle
        /\ UNCHANGED <<cache, saved, done>>
    BY AnswerIs
  <1>2. \A y \in Fetchers : y # x =>
           \/ fetch'[y] = fetch[y]
           \/ fetch'[y] = Idle
           \/ /\ fetch'[y].pc = fetch[y].pc /\ fetch[y].pc # "read"
              /\ fetch'[y].part = fetch[y].part
              /\ fetch[y].pc = "fill" => fetch'[y].offset = fetch[y].offset
    BY AnswerIs
  <1>3. \A q \in Parts : got[q] = IF q = f.part THEN res ELSE client[m].got[q]
    BY <1>1 DEF Gots
  <1> HIDE DEF got, res
  <1>4. \A y \in Fetchers : fetch'[y].pc \in {"fill", "read"} /\ fetch'[y].part = p =>
           /\ fetch[y].pc \in {"fill", "read"} /\ fetch[y].part = p
           /\ fetch'[y].offset = fetch[y].offset
    BY <1>1, <1>2 DEF Idle
  <1>5. m \notin Persisting(p) /\ m \notin Persisting(p)'
    BY <1>1 DEF Persisting, Idle
  <1>6. Persisting(p)' = Persisting(p)
    BY <1>1, <1>5 DEF Persisting
  <1>7. p = f.part => res.from = saved[p]
    BY <1>1 DEF Line
  <1>8. p \in Holds(got) => got[p].from = saved[p]
    <2>1. CASE p = f.part
      BY <1>3, <1>7, <2>1
    <2>2. CASE p # f.part
      <3>1. got[p] = client[m].got[p]
        BY <1>3, <2>2
      <3>2. p \in Holds(got) => p \in Holds(client[m].got)
        BY <3>1 DEF Holds
      <3> QED
        BY <1>1, <1>5, <3>1, <3>2 DEF Line
    <2> QED
      BY <2>1, <2>2
  <1>9. ASSUME NEW h \in Members
        PROVE  /\ client'[h].pc \in {"collect", "got", "persist"} /\ h \notin Persisting(p)'
                     /\ p \in Holds(client'[h].got) => client'[h].got[p].from = saved'[p]
               /\ h \in Persisting(p)' =>
                     cache'[p] = client'[h].got[p].from /\ client'[h].got[p].from >= saved'[p]
    <2>1. CASE h = m
      BY <1>1, <1>5, <1>8, <2>1 DEF Idle
    <2>2. CASE h # m
      BY <1>1, <1>6, <2>2 DEF Line
    <2> QED
      BY <2>1, <2>2
  <1>10. /\ (done[p] <= saved[p])'
         /\ (cache[p] = None \/ cache[p] = saved[p] \/ Persisting(p) # {})'
    BY <1>1, <1>6 DEF Line
  <1>11. \A y \in Fetchers : fetch'[y].pc \in {"fill", "read"} /\ fetch'[y].part = p =>
           fetch'[y].offset = saved'[p]
    BY <1>1, <1>4 DEF Line
  <1> QED
    BY <1>9, <1>10, <1>11 DEF Line

\* A commit moves the cache first and the storage after it, and is alone with the
\* partition until then.
LEMMA CommitLine ==
    ASSUME Types, NEW p \in Parts, InLine(p), NEW m \in Members,
           CommitStep(m) \/ CommitStore(m) \/ GiveUp(m)
    PROVE  Line(p)'
  <1> USE DEF InLine
  <1>1. /\ cache \in [Parts -> Nat \cup {None}] /\ client \in [Members -> ClientStates]
        /\ saved \in [Parts -> Nat] /\ done \in [Parts -> Nat]
    BY DEF Types, OffsetTypes, ClientTypes
  <1>2. /\ \A h \in Members : h # m => client'[h] = client[h]
        /\ UNCHANGED fetch
    BY CommitIs
  <1>3. ASSUME NEW q \in Parts, NEW o \in Nat, client[m].pc = "got", client[m].got \in Gots,
               client[m].got[q].from <= o,
               q \in Holds(client[m].got), cache' = [cache EXCEPT ![q] = o + 1],
               UNCHANGED <<saved, done>>, client'[m].pc = "persist", client'[m].part = q,
               client'[m].got[q].from = o + 1,
               \A r \in Parts : r # q => client'[m].got[r] = client[m].got[r]
        PROVE  Line(p)'
    <2>1. m \notin Persisting(p) /\ m \notin Persisting(q)
      BY <1>3 DEF Persisting
    <2>2. CASE p # q
      <3>1. m \notin Persisting(p)' /\ cache'[p] = cache[p]
        BY <1>1, <1>3, <2>2 DEF Persisting
      <3>2. client'[m].got[p] = client[m].got[p]
        BY <1>3, <2>2
      <3>3. p \in Holds(client'[m].got) => p \in Holds(client[m].got)
        BY <3>2 DEF Holds
      <3> QED
        BY <1>2, <1>3, <2>1, <3>1, <3>2, <3>3, LineKept
    <2>3. CASE p = q
      <3>1. /\ \A h \in Persisting(p) : h = m
            /\ \A h \in Members : client[h].pc \in {"collect", "got", "persist"}
                  /\ p \in Holds(client[h].got) => h = m
        BY <1>3, <2>3, CommitAlone
      <3>2. client[m].got[p].from = saved[p] /\ saved[p] \in Nat /\ done[p] \in Nat
        BY <1>1, <1>3, <2>1, <2>3 DEF Line
      <3>3. /\ cache'[p] = o + 1 /\ client'[m].got[p].from = o + 1 /\ o + 1 >= saved[p]
            /\ saved'[p] = saved[p]
        BY <1>1, <1>3, <2>3, <3>2
      <3>4. m \in Persisting(p)' /\ \A h \in Persisting(p)' : h = m
        BY <1>2, <1>3, <2>3, <3>1 DEF Persisting
      <3>5. ASSUME NEW h \in Members
            PROVE  /\ client'[h].pc \in {"collect", "got", "persist"} /\ h \notin Persisting(p)'
                         /\ p \in Holds(client'[h].got) => client'[h].got[p].from = saved'[p]
                   /\ h \in Persisting(p)' =>
                         cache'[p] = client'[h].got[p].from /\ client'[h].got[p].from >= saved'[p]
        <4>1. CASE h = m
          BY <3>2, <3>3, <3>4, <4>1
        <4>2. CASE h # m
          BY <1>2, <3>1, <3>4, <4>2
        <4> QED
          BY <4>1, <4>2
      <3>6. /\ (done[p] <= saved[p])'
            /\ (cache[p] = None \/ cache[p] = saved[p] \/ Persisting(p) # {})'
        BY <1>3, <3>4 DEF Line
      <3>7. \A y \in Fetchers : fetch'[y].pc \in {"fill", "read"} /\ fetch'[y].part = p =>
               fetch'[y].offset = saved'[p]
        BY <1>2, <1>3 DEF Line
      <3> QED
        BY <3>5, <3>6, <3>7 DEF Line
    <2> QED
      BY <2>2, <2>3
  <1>4. ASSUME NEW q \in Parts, client[m].pc = "persist", client[m].part = q, client[m].got \in Gots,
               saved' = [saved EXCEPT ![q] = client[m].got[q].from], UNCHANGED cache,
               done' = [done EXCEPT ![q] = IF client[m].got[q].from > done[q]
                                           THEN client[m].got[q].from ELSE done[q]],
               client'[m] = Idle \/ (client'[m].pc = "got" /\ client'[m].got = client[m].got)
        PROVE  Line(p)'
    <2>1. m \notin Persisting(p)'
      BY <1>4 DEF Persisting, Idle
    <2>2. CASE p # q
      <3>1. saved'[p] = saved[p] /\ done'[p] = done[p]
        BY <1>1, <1>4, <2>2
      <3>2. m \notin Persisting(p)
        BY <1>4, <2>2 DEF Persisting
      <3>3. client'[m].pc \in {"collect", "got", "persist"} => client'[m].got = client[m].got
        BY <1>4 DEF Idle
      <3> QED
        BY <1>2, <1>4, <2>1, <3>1, <3>2, <3>3, LineKept
    <2>3. CASE p = q
      <3>1. m \in Persisting(p)
        BY <1>4, <2>3 DEF Persisting
      <3>2. /\ \A h \in Persisting(p) : h = m
            /\ \A h \in Members : client[h].pc \in {"collect", "got", "persist"}
                  /\ p \in Holds(client[h].got) => h = m
            /\ \A x \in Fetchers : fetch[x].pc = "read" => fetch[x].part # p
            /\ \A x \in Fetchers : fetch[x].pc = "fill" => fetch[x].part # p
        BY <3>1, CommitAlone
      <3> DEFINE o == client[m].got[p].from
      <3>3. o \in Nat /\ saved[p] \in Nat /\ done[p] \in Nat
        BY <1>1, <1>4 DEF Gots
      <3>4. cache[p] = o /\ o >= saved[p] /\ done[p] <= saved[p]
        BY <3>1 DEF Line
      <3>5. saved'[p] = o /\ done'[p] = IF o > done[p] THEN o ELSE done[p]
        BY <1>1, <1>4, <2>3
      <3>6. client'[m] = Idle \/ (client'[m].pc = "got" /\ client'[m].got[p].from = o)
        BY <1>4
      <3> HIDE DEF o
      <3>7. Persisting(p)' = {}
        BY <1>2, <2>1, <3>2 DEF Persisting
      <3>8. ASSUME NEW h \in Members, client'[h].pc \in {"collect", "got", "persist"},
                   p \in Holds(client'[h].got)
            PROVE  client'[h].got[p].from = saved'[p]
        <4>1. h = m
          BY <1>2, <3>2, <3>8
        <4> QED
          BY <3>5, <3>6, <3>8, <4>1 DEF Idle
      <3>9. (done[p] <= saved[p])' /\ cache'[p] = saved'[p]
        BY <1>4, <3>3, <3>4, <3>5
      <3>10. \A y \in Fetchers : fetch'[y].pc \in {"fill", "read"} => fetch'[y].part # p
        BY <1>2, <3>2
      <3> QED
        BY <3>7, <3>8, <3>9, <3>10 DEF Line
    <2> QED
      BY <2>2, <2>3
  <1>5. ASSUME client[m].pc = "got", client'[m] = Idle, UNCHANGED <<cache, saved, done>>
        PROVE  Line(p)'
    <2>1. client'[m].pc = "idle"
      BY <1>5 DEF Idle
    <2>2. m \notin Persisting(p) /\ m \notin Persisting(p)'
      BY <1>5, <2>1 DEF Persisting
    <2> QED
      BY <1>2, <1>5, <2>1, <2>2, LineKept
  <1> QED
    BY <1>3, <1>4, <1>5, CommitIs

\* After a restart every partition is in line: what a crossed one has lost is forgotten.
LEMMA RestartLine ==
    ASSUME Types, \A p \in Parts \ crossed : InLine(p), Restart, NEW p \in Parts
    PROVE  InLine(p)'
  <1>1. /\ \A m \in Members : client'[m].pc = "idle"
        /\ \A x \in Fetchers : fetch'[x].pc = "idle" /\ fetch'[x] = Idle
        /\ cache'[p] = None /\ UNCHANGED saved
    BY RestartIs
  <1>2. done'[p] <= saved'[p]
    <2>1. done'[p] = IF p \in crossed THEN saved[p] ELSE done[p]
      BY DEF Restart
    <2>2. saved[p] \in Nat
      BY DEF Types, OffsetTypes
    <2> QED
      BY <1>1, <2>1, <2>2 DEF InLine, Line
  <1>3. Persisting(p)' = {}
    BY <1>1 DEF Persisting
  <1>4. Line(p)'
    BY <1>1, <1>2, <1>3 DEF Line
  <1>5. Working(p, client', fetch') = {}
    BY <1>1 DEF Working
  <1>6. ~Clash(p, client', fetch')
    BY <1>1, <1>5, FS_EmptySet DEF Clash
  <1> QED
    BY <1>4, <1>6 DEF InLine

\* Only a restart forgets the topic.
LEMMA TopicStays ==
    ASSUME Types, Next, ~Restart, topics # 0
    PROVE  topics' # 0
  <1>1. /\ \A n \in Sizes : n # 0
        /\ pub \in [Publishers -> PubStates] /\ client \in [Members -> ClientStates]
    BY GroupAssumption DEF Types, TopicTypes, ClientTypes
  <1>2. ASSUME NEW a \in Publishers, SetTopic(a)
        PROVE  topics' # 0
    BY <1>1, <1>2, PubIs DEF SetTopic
  <1>3. ASSUME NEW m \in Members, RebalanceLoad(m)
        PROVE  topics' # 0
    BY <1>1, <1>3, ClientIs DEF RebalanceLoad
  <1>4. \/ topics' = topics
        \/ \E a \in Publishers : SetTopic(a)
        \/ \E m \in Members : RebalanceLoad(m)
    BY DEF Next, PublisherStep, CreateTopic, LoadTopic, FindNoTopic, AutoCreate,
        Publish, Subscribe, Unsubscribe, RebalanceStep, RebalanceMetadata,
        rebalanceGroup, Consume, FetchStep, getCachedOffset, FillCache, Answer,
        CommitStep, CommitCache, CommitStore, GiveUp, LogStep, flushWrites, DeleteOldMessages,
        topicVars
  <1> QED
    BY <1>2, <1>3, <1>4

\* Every step keeps the partitions in line that nobody has crossed.
LEMMA LinesKept ==
    ASSUME Types, \A p \in Parts \ crossed : InLine(p), [Next]_vars
    PROVE  (\A p \in Parts \ crossed : InLine(p))'
  <1>1. CASE UNCHANGED vars
    <2>1. \A p \in Parts \ crossed : Line(p)'
      BY <1>1, OtherLine DEF InLine
    <2> QED
      BY <1>1, <2>1 DEF vars, InLine
  <1>2. CASE Next /\ Restart
    <2>1. \A p \in Parts : InLine(p)'
      BY <1>2, RestartLine
    <2> QED
      BY <2>1
  <1>3. CASE Next /\ ~Restart
    <2>1. topics # 0 => topics' # 0
      BY <1>3, TopicStays
    <2>2. crossed' = crossed \cup {p \in Parts : Clash(p, client', fetch')}
      BY <1>3, <2>1 DEF Next, Observe
    <2> SUFFICES ASSUME NEW p \in Parts, p \notin crossed'
                 PROVE  InLine(p)'
      OBVIOUS
    <2>3. InLine(p) /\ ~Clash(p, client', fetch')
      BY <2>2
    <2>4. CASE \/ \E a \in Publishers : PublisherStep(a)
               \/ \E m \in Members : \/ Subscribe(m) \/ Unsubscribe(m) \/ RebalanceStep(m)
                                     \/ \E count \in Counts : Consume(m, count)
               \/ \E q \in Parts : LogStep(q)
      BY <2>3, <2>4, OtherLine DEF InLine
    <2>5. ASSUME NEW x \in Fetchers, FetchStep(x)
          PROVE  InLine(p)'
      <3>1. Line(p)'
        BY <2>3, <2>5, LookupLine, AnswerLine DEF FetchStep
      <3> QED
        BY <2>3, <3>1 DEF InLine
    <2>6. ASSUME NEW m \in Members, CommitStep(m) \/ CommitStore(m) \/ GiveUp(m)
          PROVE  InLine(p)'
      <3>1. Line(p)'
        BY <2>3, <2>6, CommitLine
      <3> QED
        BY <2>3, <3>1 DEF InLine
    <2> QED
      BY <1>3, <2>4, <2>5, <2>6 DEF Next
  <1> QED
    BY <1>1, <1>2, <1>3

-----------------------------------------------------------------------------
(***************************************************************************)
(* The metadata of the topic.                                              *)
(***************************************************************************)
\* Creations and loads that do not overlap come one at a time.
LEMMA OneChanges ==
    ASSUME NEW s, NEW c, ~(Cardinality(Changing(s, c)) > 1),
           NEW a \in Changing(s, c), NEW b \in Changing(s, c)
    PROVE  a = b
  <1> DEFINE C == Changing(s, c)
  <1>1. C \in SUBSET (Publishers \cup Members)
    BY DEF Changing
  <1>2. IsFiniteSet(Publishers \cup Members)
    BY GroupAssumption, FS_Union
  <1> HIDE DEF C
  <1>3. IsFiniteSet(C) /\ Cardinality(C) \in Nat
    BY <1>1, <1>2, FS_Subset, FS_CardinalityType
  <1>4. a \in C /\ b \in C /\ Cardinality(C) <= 1
    BY <1>3 DEF C
  <1>5. Cardinality(C) = 1
    BY <1>3, <1>4, FS_EmptySet
  <1>6. \E w : C = {w}
    BY <1>3, <1>5, FS_Singleton
  <1> QED
    BY <1>4, <1>6

\* One change at a time keeps memory and storage together.
LEMMA TopicKept ==
    ASSUME Types, TopicInLine, [Next]_vars
    PROVE  TopicInLine'
  <1>1. /\ pub \in [Publishers -> PubStates] /\ client \in [Members -> ClientStates]
        /\ Members \cap Publishers = {}
    BY GroupAssumption DEF Types, TopicTypes, ClientTypes
  <1>2. CASE UNCHANGED vars
    BY <1>2 DEF vars, TopicInLine, Changing
  <1>3. CASE Restart
    <2>1. /\ \A m \in Members : client'[m].pc = "idle"
          /\ \A a \in Publishers : pub'[a] = Idle /\ pub'[a].pc = "idle"
          /\ topics' = 0
      BY <1>3, RestartIs
    <2>2. Changing(pub', client') = {}
      BY <2>1 DEF Changing
    <2> QED
      BY <2>1, <2>2 DEF TopicInLine
  <1>4. ASSUME Next, ~Restart, ~muddled'
        PROVE  TopicInLine'
    <2>1. ~muddled /\ ~(Cardinality(Changing(pub', client')) > 1)
      <3>1. topics # 0 => topics' # 0
        BY <1>4, TopicStays
      <3> QED
        BY <1>4, <3>1 DEF Next, Observe
    <2>2. \A a, b \in Changing(pub', client') : a = b
      BY <2>1, OneChanges
    <2>3. /\ \A a \in Publishers : pub[a].pc \in {"create", "publish"} => pub[a].size = stored
          /\ \A m \in Members : client[m].pc = "load" => client[m].size = stored
          /\ topics # 0 /\ Changing(pub, client) = {} => topics = stored
      BY <2>1 DEF TopicInLine
    <2>4. ASSUME NEW a \in Publishers, NEW n, NEW w \in {"create", "publish"},
                 StoreTopic(a, n, w), UNCHANGED client
          PROVE  TopicInLine'
      <3>1. stored' = n /\ pub'[a] = [pc |-> w, size |-> n]
            /\ \A b \in Publishers : b # a => pub'[b] = pub[b]
        BY <1>1, <2>4 DEF StoreTopic
      <3>2. pub'[a].pc = w /\ pub'[a].size = n /\ pub'[a] # Idle
        BY <3>1 DEF Idle
      <3>3. a \in Changing(pub', client')
        BY <3>2 DEF Changing
      <3>4. \A b \in Publishers : pub'[b].pc \in {"create", "publish"} => b = a
        BY <2>2, <3>3 DEF Changing, Idle
      <3>5. \A m \in Members : client'[m].pc # "load"
        BY <1>1, <2>2, <3>3 DEF Changing
      <3> QED
        BY <2>2, <3>1, <3>2, <3>3, <3>4, <3>5 DEF TopicInLine
    <2>5. ASSUME UNCHANGED <<stored, topics>>,
                 Changing(pub, client) \subseteq Changing(pub', client'),
                 \A a \in Publishers : pub'[a].pc \in {"create", "publish"} =>
                    pub'[a] = pub[a] \/ (pub'[a].size = stored /\ Changing(pub', client') # {}),
                 \A m \in Members : client'[m].pc = "load" =>
                    client'[m] = client[m] \/ client'[m].size = stored
          PROVE  TopicInLine'
      <3>1. \A a \in Publishers : pub'[a].pc \in {"create", "publish"} => pub'[a].size = stored'
        BY <2>3, <2>5
      <3>2. \A m \in Members : client'[m].pc = "load" => client'[m].size = stored'
        BY <2>3, <2>5
      <3>3. topics' # 0 /\ Changing(pub', client') = {} => topics' = stored'
        BY <2>3, <2>5
      <3> QED
        BY <2>2, <3>1, <3>2, <3>3 DEF TopicInLine
    <2>6. ASSUME NEW a \in Publishers, PublisherStep(a)
          PROVE  TopicInLine'
      <3>1. UNCHANGED client
        BY <2>6 DEF PublisherStep, CreateTopic, LoadTopic, FindNoTopic, AutoCreate, Publish, SetTopic
      <3>2. CASE (\E n \in Sizes : CreateTopic(a, n)) \/ AutoCreate(a)
        BY <2>4, <3>1, <3>2 DEF CreateTopic, AutoCreate
      <3>3. CASE LoadTopic(a) \/ FindNoTopic(a)
        <4>1. PICK s : /\ pub' = [pub EXCEPT ![a] = s] /\ s # Idle
                       /\ s.pc \in {"create", "publish"} => s.size = stored
          <5>1. CASE LoadTopic(a)
            <6> DEFINE s == [pc |-> "publish", size |-> stored]
            <6>1. pub' = [pub EXCEPT ![a] = s] /\ s # Idle /\ s.size = stored
              BY <5>1 DEF LoadTopic, Idle
            <6> QED
              BY <6>1
          <5>2. CASE FindNoTopic(a)
            <6> DEFINE s == [pc |-> "missing"]
            <6>1. pub' = [pub EXCEPT ![a] = s] /\ s # Idle /\ s.pc = "missing"
              BY <5>2 DEF FindNoTopic, Idle
            <6> QED
              BY <6>1
          <5> QED
            BY <3>3, <5>1, <5>2
        <4>2. pub'[a] = s /\ \A b \in Publishers : b # a => pub'[b] = pub[b]
          BY <1>1, <4>1
        <4>3. UNCHANGED <<stored, topics>>
          BY <3>3 DEF LoadTopic, FindNoTopic
        <4>4. a \in Changing(pub', client') /\ Changing(pub, client) \subseteq Changing(pub', client')
          BY <3>1, <4>1, <4>2 DEF Changing
        <4> QED
          BY <2>5, <3>1, <4>1, <4>2, <4>3, <4>4
      <3>4. CASE Publish(a)
        <4>1. UNCHANGED <<stored, topics, pub>>
          BY <3>4 DEF Publish
        <4> QED
          BY <2>5, <3>1, <4>1
      <3>5. CASE SetTopic(a)
        <4>1. /\ topics' = stored /\ UNCHANGED stored
              /\ pub' = [pub EXCEPT ![a] = Idle]
          BY <2>3, <3>5 DEF SetTopic
        <4>2. pub'[a].pc = "idle" /\ \A b \in Publishers : b # a => pub'[b] = pub[b]
          BY <1>1, <4>1 DEF Idle
        <4>3. \A b \in Publishers : pub'[b].pc \in {"create", "publish"} => pub'[b].size = stored'
          BY <2>3, <4>1, <4>2
        <4> QED
          BY <2>2, <2>3, <3>1, <4>1, <4>3 DEF TopicInLine
      <3> QED
        BY <2>6, <3>2, <3>3, <3>4, <3>5 DEF PublisherStep
    <2>7. ASSUME NEW m \in Members, RebalanceMetadata(m)
          PROVE  TopicInLine'
      <3>1. UNCHANGED <<stored, topics, pub>> /\ client[m].pc = "metadata"
        BY <2>7 DEF RebalanceMetadata, topicVars, logVars
      <3>2. \/ client' = [client EXCEPT ![m] = Idle]
            \/ client' = [client EXCEPT ![m] = [pc |-> "assign", size |-> topics]]
            \/ client' = [client EXCEPT ![m] = [pc |-> "load", size |-> stored]]
        BY <2>7 DEF RebalanceMetadata
      <3>3. /\ \A h \in Members : h # m => client'[h] = client[h]
            /\ client'[m].pc = "load" => client'[m].size = stored
        BY <1>1, <3>2 DEF Idle
      <3>4. Changing(pub, client) \subseteq Changing(pub', client')
        BY <3>1, <3>3 DEF Changing
      <3> QED
        BY <2>5, <3>1, <3>3, <3>4
    <2>8. ASSUME NEW m \in Members, RebalanceLoad(m)
          PROVE  TopicInLine'
      <3> DEFINE s == [client[m] EXCEPT !.pc = "assign"]
      <3>1. client[m] \in [pc : {"load", "assign"}, size : Sizes] /\ client[m].pc = "load"
        BY <1>1, <2>8, ClientIs DEF RebalanceLoad
      <3>2. s.pc = "assign"
        BY <3>1
      <3>3. /\ client' = [client EXCEPT ![m] = s] /\ topics' = client[m].size
            /\ UNCHANGED <<stored, pub>>
        BY <2>8 DEF RebalanceLoad
      <3> HIDE DEF s
      <3>4. client'[m] = s /\ \A h \in Members : h # m => client'[h] = client[h]
        BY <1>1, <3>3
      <3>5. \A h \in Members : client'[h].pc = "load" => client'[h].size = stored
        BY <2>3, <3>2, <3>4
      <3>6. topics' = stored'
        BY <2>3, <3>1, <3>3
      <3> QED
        BY <2>2, <2>3, <3>3, <3>5, <3>6 DEF TopicInLine
    <2>9. ASSUME UNCHANGED <<stored, topics, pub>>,
                 \A m \in Members : client'[m].pc = "load" <=> client[m].pc = "load",
                 \A m \in Members : client[m].pc = "load" => client'[m] = client[m]
          PROVE  TopicInLine'
      <3>1. Changing(pub, client) \subseteq Changing(pub', client')
        BY <2>9 DEF Changing
      <3> QED
        BY <2>5, <2>9, <3>1
    <2>10. ASSUME NEW m \in Members, Subscribe(m) \/ Unsubscribe(m) \/ rebalanceGroup(m)
           PROVE  TopicInLine'
      <3>1. UNCHANGED <<stored, topics, pub>> /\ client[m].pc \in {"idle", "assign"}
        BY <2>10 DEF Subscribe, Unsubscribe, rebalanceGroup, topicVars, logVars, Idle
      <3>2. \/ UNCHANGED client
            \/ client' = [client EXCEPT ![m] = Idle]
            \/ client' = [client EXCEPT ![m] = [pc |-> "metadata"]]
        BY <2>10 DEF Subscribe, Unsubscribe, rebalanceGroup
      <3>3. /\ \A h \in Members : h # m => client'[h] = client[h]
            /\ client'[m].pc # "load" /\ client[m].pc # "load"
        BY <1>1, <3>1, <3>2 DEF Idle
      <3> QED
        BY <2>9, <3>1, <3>3
    <2>11. ASSUME NEW m \in Members, NEW count \in Counts, Consume(m, count)
           PROVE  TopicInLine'
      <3>1. /\ UNCHANGED <<stored, topics, pub>> /\ client[m].pc = "idle"
            /\ \A h \in Members : h # m => client'[h] = client[h]
            /\ client'[m] = [pc |-> "collect", left |-> count, got |-> Nothing]
        BY <2>11, ConsumeIs
      <3>2. client'[m].pc = "collect"
        BY <3>1
      <3> QED
        BY <2>9, <3>1, <3>2
    <2>12. ASSUME NEW m \in Members, CommitStep(m) \/ CommitStore(m) \/ GiveUp(m)
           PROVE  TopicInLine'
      <3>1. /\ UNCHANGED <<stored, topics, pub>> /\ client[m].pc \in {"got", "persist"}
            /\ \A h \in Members : h # m => client'[h] = client[h]
            /\ client'[m].pc \in {"got", "persist"} \/ client'[m] = Idle
        BY <2>12, CommitIs
      <3>2. client'[m].pc # "load"
        BY <3>1 DEF Idle
      <3> QED
        BY <2>9, <3>1, <3>2
    <2>13. ASSUME NEW x \in Fetchers, FetchStep(x)
           PROVE  TopicInLine'
      <3>1. CASE getCachedOffset(x) \/ FillCache(x)
        <4>1. UNCHANGED <<stored, topics, pub, client>>
          BY <3>1, LookupIs
        <4> QED
          BY <2>9, <4>1
      <3>2. CASE Answer(x)
        <4> DEFINE m == fetch[x].for
        <4>1. /\ UNCHANGED <<stored, topics, pub>> /\ client[m].pc = "collect"
              /\ \A h \in Members : h # m => client'[h] = client[h]
              /\ client'[m].pc \in {"collect", "got"} \/ client'[m] = Idle
          BY <3>2, AnswerIs
        <4>2. client'[m].pc # "load"
          BY <4>1 DEF Idle
        <4> HIDE DEF m
        <4> QED
          BY <2>9, <4>1, <4>2
      <3> QED
        BY <2>13, <3>1, <3>2 DEF FetchStep
    <2>14. ASSUME NEW p \in Parts, LogStep(p)
           PROVE  TopicInLine'
      <3>1. UNCHANGED <<stored, topics, pub, client>>
        BY <2>14, LogStepIs
      <3> QED
        BY <2>9, <3>1
    <2> QED
      BY <1>4, <2>6, <2>7, <2>8, <2>10, <2>11, <2>12, <2>13, <2>14 DEF Next, RebalanceStep
  <1>5. muddled' => TopicInLine'
    BY DEF TopicInLine
  <1> QED
    BY <1>2, <1>3, <1>4, <1>5

-----------------------------------------------------------------------------
(***************************************************************************)
(* The theorems.                                                           *)
(***************************************************************************)
\* The initial states.
LEMMA GroupInit ==
    Init => GroupInv
  <1> SUFFICES ASSUME Init
               PROVE  GroupInv
    OBVIOUS
  <1>1. Idle \in PubStates /\ Idle \in ClientStates /\ Idle \in FetchStates /\ Idle.pc = "idle"
    BY DEF PubStates, ClientStates, FetchStates, Idle
  <1>2. Types
    BY <1>1, FS_EmptySet DEF Init, Types, TopicTypes, LogTypes, ClientTypes, OffsetTypes, Collecting
  <1>3. /\ \A m \in Members : client[m].pc = "idle" /\ assigned[m] = None
        /\ \A x \in Fetchers : fetch[x].pc = "idle" /\ fetch[x] = Idle
        /\ \A a \in Publishers : pub[a].pc = "idle" /\ pub[a] = Idle
        /\ \A p \in Parts : cache[p] = None /\ saved[p] = 0 /\ done[p] = 0
        /\ stored = 0 /\ topics = 0
    BY <1>1 DEF Init
  <1>4. NothingBeforeTopic
    BY <1>3 DEF NothingBeforeTopic
  <1>5. InGroup = {}
    BY <1>3 DEF InGroup
  <1>6. AssignmentExact
    BY <1>5 DEF AssignmentExact
  <1>7. NothingAhead
    BY <1>3 DEF NothingAhead
  <1>8. Behind
    <2>1. \A p \in Parts : log[p] = {}
      BY DEF Init
    <2> QED
      BY <1>3, <2>1 DEF Behind, Passed, Through
  <1>9. ASSUME NEW p \in Parts
        PROVE  InLine(p)
    <2>1. Working(p, client, fetch) = {} /\ Persisting(p) = {}
      BY <1>3 DEF Working, Persisting
    <2>2. ~Clash(p, client, fetch)
      BY <1>3, <2>1, FS_EmptySet DEF Clash
    <2>3. Line(p)
      BY <1>3, <2>1 DEF Line
    <2> QED
      BY <2>2, <2>3 DEF InLine
  <1>10. Changing(pub, client) = {}
    BY <1>3 DEF Changing
  <1>11. TopicInLine
    BY <1>3, <1>10 DEF TopicInLine
  <1> QED
    BY <1>2, <1>4, <1>6, <1>7, <1>8, <1>9, <1>11 DEF GroupInv

\* The invariant holds in every reachable state.
LEMMA GroupInvariant ==
    Spec => []GroupInv
  <1>1. GroupInv /\ [Next]_vars => GroupInv'
    <2> SUFFICES ASSUME GroupInv, [Next]_vars
                 PROVE  GroupInv'
      OBVIOUS
    <2>1. Types'
      BY TypesKept DEF GroupInv
    <2>2. NothingBeforeTopic'
      BY NothingBeforeTopicKept DEF GroupInv
    <2>3. AssignmentExact'
      BY AssignmentKept DEF GroupInv
    <2>4. NothingAhead' /\ Behind'
      BY SkippedKept DEF GroupInv
    <2>5. (\A p \in Parts \ crossed : InLine(p))'
      BY LinesKept DEF GroupInv
    <2>6. TopicInLine'
      BY TopicKept DEF GroupInv
    <2> QED
      BY <2>1, <2>2, <2>3, <2>4, <2>5, <2>6 DEF GroupInv
  <1> QED
    BY <1>1, GroupInit, PTL DEF Spec

\* For any number of members and partitions, whatever the order in which rebalanceGroup
\* finds the members in its map and whenever somebody joins or leaves: no two members
\* share a partition, and between rebalances all partitions are assigned, in shares that
\* differ by at most one.
THEOREM AssignmentAlwaysExact ==
    Spec => []AssignmentExact
  <1>1. GroupInv => AssignmentExact
    BY DEF GroupInv
  <1> QED
    BY <1>1, GroupInvariant, PTL

\* Consume and Commit never move a group past a message that can be read and that no member
\* received, unless it appeared at or below an offset that the group had read: however many
\* goroutines answer late, in whatever order messages appear and are deleted, and across
\* rebalances and restarts.
THEOREM NoMessageSkipped ==
    Spec => []NothingSkipped
  <1>1. GroupInv => NothingSkipped
    BY DEF GroupInv, Behind, Passed, Through, NothingSkipped
  <1> QED
    BY <1>1, GroupInvariant, PTL

\* A group resumes no earlier than the last commit that returned, on every partition that
\* no two members worked on at once and that nobody looked up during a commit.
THEOREM CommitsAreKept ==
    Spec => []ResumesAfterCommit
  <1>1. ASSUME GroupInv
        PROVE  ResumesAfterCommit
    <2> SUFFICES ASSUME NEW p \in Parts \ crossed
                 PROVE  Resume(p) >= done[p]
      BY DEF ResumesAfterCommit
    <2>1. Line(p) /\ Types
      BY <1>1 DEF GroupInv, InLine
    <2>2. saved[p] \in Nat /\ done[p] \in Nat /\ done[p] <= saved[p]
      BY <2>1 DEF Types, OffsetTypes, Line
    <2>3. CASE cache[p] = None \/ cache[p] = saved[p]
      BY <2>2, <2>3 DEF Resume
    <2>4. CASE cache[p] # None /\ Persisting(p) # {}
      <3>1. PICK m \in Members : m \in Persisting(p)
        BY <2>4 DEF Persisting
      <3>2. cache[p] = client[m].got[p].from /\ client[m].got[p].from >= saved[p]
        BY <2>1, <3>1 DEF Line
      <3>3. cache[p] \in Nat
        BY <2>1, <2>4 DEF Types, OffsetTypes
      <3> QED
        BY <2>2, <2>4, <3>2, <3>3 DEF Resume
    <2> QED
      BY <2>1, <2>3, <2>4 DEF Line
  <1> QED
    BY <1>1, GroupInvariant, PTL

\* What GetTopicMetadata answers from memory is what the storage holds, as long as
\* creations and loads of the topic have not overlapped.
THEOREM MetadataKept ==
    Spec => []MetadataAgrees
  <1>1. GroupInv => MetadataAgrees
    BY DEF GroupInv, TopicInLine, MetadataAgrees
  <1> QED
    BY <1>1, GroupInvariant, PTL

=============================================================================
