------------------------------ MODULE DocStoreProofs ------------------------------
(***************************************************************************)
(* Proofs about DocStore for any number of goroutines, documents, fields   *)
(* and values: only overlapping writes are lost, writes by query stay      *)
(* within the query, indexes cover what they should, and searches miss     *)
(* nothing that was left alone.                                            *)
(***************************************************************************)
EXTENDS DocStore, FiniteSetTheorems, WellFoundedInduction, TLAPS

(***************************************************************************)
(* The inductive invariant.                                                *)
(***************************************************************************)
Acts == Updates \cup {Delete}
Searches == Finds \cup {s.find : s \in Selections}
DocOrNone == Document \cup {NoDoc}
IdOrNone == Ids \cup {None}

GetStates == [pc : {"get"}, todo : Seq(IdOrNone) \ {<<>>}, act : Acts]

WriteStates ==
    [pc : {"store", "remove"}, id : Ids, old : Document, new : DocOrNone, todo : Seq(IdOrNone), act : Acts]
        \cup [pc : {"add"}, id : Ids, old : DocOrNone, new : Document, todo : Seq(IdOrNone),
              act : Acts \cup {None}]

ReadStates ==
    [pc : {"read"}, find : Searches, act : Acts \cup {None}, res : Seq(Document), ids : Seq(Ids)]
ScanStates == [pc : {"scan"}, find : Searches, act : Acts \cup {None}]
FoundStates == [pc : {"found"}, find : Searches, act : Acts \cup {None}, res : Seq(Document)]
BuildStates == [pc : {"build"}, field : Fields, scan : [Ids -> DocOrNone]]

States ==
    {Idle} \cup GetStates \cup WriteStates \cup ReadStates \cup ScanStates \cup FoundStates
           \cup BuildStates

\* A goroutine without further documents has none after its index update.
OpTypes ==
    /\ op \in [Procs -> States]
    /\ \A p \in Procs : op[p].pc = "add" /\ op[p].act = None => op[p].todo = <<>>
    /\ \A p \in Procs : op[p].pc = "build" <=> mu = p
    /\ mu \in Procs \cup {None}

StoreTypes ==
    /\ docs \in [Ids -> DocOrNone]
    /\ indexes \in [Fields -> [Values -> Seq(Ids)] \cup {NoIndex}]

HistoryTypes ==
    /\ DOMAIN gap = Fields /\ DOMAIN want = Ids
    /\ DOMAIN steady = Procs /\ DOMAIN ever = Procs
    /\ restarts \in Nat

Types == OpTypes /\ StoreTypes /\ HistoryTypes

\* One call at a time writes the document, from what it has read, and stores what it will
\* enter into the indexes.
Alone(id) == \A p, q \in Writers(op, id) : p = q

Current(id) ==
    \A p \in Procs : op[p].pc \in {"remove", "add"} /\ op[p].id = id => docs[id] = Stored(op[p].new)

InTurn(id) ==
    /\ Alone(id) /\ Current(id)
    /\ docs[id] = want[id]
    /\ \A p \in Procs : op[p].pc = "store" /\ op[p].id = id =>
          docs[id] # NoDoc /\ op[p].new = Apply(op[p].act, id, docs[id])

\* What a call still has to write was named by a document that matched its query.
Matched(p) ==
    /\ op[p].pc \in {"get", "store", "remove", "add"} => Elements(op[p].todo) \subseteq ever[p]
    /\ op[p].pc = "store" => op[p].id \in ever[p]
    /\ op[p].pc \in {"read", "found"} => \A d \in Elements(op[p].res) : NameOf(d) \in ever[p]

Building(f) == \E p \in Procs : op[p].pc = "build" /\ op[p].field = f

\* While an index is built nobody ends a write, so its scan has the documents that nobody
\* is writing as they are.
ScanFresh ==
    \A p \in Procs : op[p].pc = "build" =>
        \A id \in Ids : Quiet(id) => op[p].scan[id] = docs[id]

\* The index of a field gets the value that is stored.
Plain(f, id) == id \notin Retyped(op, f)

\* An index that is being made has the names of its scan: outside the gap of the index a
\* document has its own, and where the index is not messy no other document has it.
ScanNamed ==
    \A p \in Procs : op[p].pc = "build" =>
        \A id \in Ids : op[p].scan[id] # NoDoc =>
            \/ NameOf(op[p].scan[id]) = id
            \/ /\ id \in gap[op[p].field] /\ id \in messy[op[p].field]
               /\ NameOf(op[p].scan[id]) \in messy[op[p].field]

\* Outside the gap of an index the index has the document, or a writer will enter it.
Entered(f, id) ==
    indexes[f] # NoIndex /\ ~Building(f) /\ Quiet(id) /\ docs[id] # NoDoc /\ docs[id][f] # Absent
        => docs[id][f] \in Listed(f, id)

Covered(f, id) == id \notin gap[f] => Alone(id) /\ Current(id) /\ Plain(f, id) /\ Entered(f, id)

\* Where the index of a field is not messy: nothing but what a quiet document has, or a
\* writer is going to take out, is listed, and once; an index that is being made has nothing
\* yet of the documents in its scan; and nothing that is in the gap is listed.
Once(s, id) == \A i, j \in DOMAIN s : s[i] = id /\ s[j] = id => i = j

Held(f, id, v) ==
    /\ Quiet(id) => docs[id] # NoDoc /\ docs[id][f] = v
    /\ \A p \in Procs : Writes(op[p], id) => op[p].pc # "add" /\ op[p].old[f] = v

Neat(f, id) ==
    indexes[f] # NoIndex =>
        \A v \in Listed(f, id) : Held(f, id, v) /\ Once(indexes[f][v], id)

Clean(f, id) == indexes[f] # NoIndex => Listed(f, id) = {}

Scanned(f, id) ==
    \A b \in Procs : op[b].pc = "build" /\ op[b].field = f =>
        /\ Clean(f, id)
        /\ \A p \in Procs : Writes(op[p], id) =>
              op[b].scan[id] = IF op[p].pc = "add" THEN NoDoc ELSE op[p].old

Missed(f, id) == id \in gap[f] => id \notin raced /\ ~Building(f) /\ Clean(f, id)

Exact(f, id) ==
    id \notin messy[f] =>
        Alone(id) /\ Current(id) /\ Plain(f, id) /\ Neat(f, id) /\ Scanned(f, id) /\ Missed(f, id)

\* A search that wants everything still has, or has yet to read, what it must find.
Whole(o) == o.skip = 0 /\ o.limit <= 0

OnTheWay(p) ==
    Searching(op[p]) /\ Whole(op[p].find) =>
        /\ \A id \in steady[p] : op[p].pc # "found" => matchesFilters(docs[id], op[p].find.filters)
        /\ op[p].pc = "read" =>
              \A id \in steady[p] : id \in Elements(op[p].ids) \/ docs[id] \in Elements(op[p].res)
        /\ op[p].pc = "found" => \A id \in steady[p] : docs[id] \in Elements(op[p].res)
        /\ steady[p] \subseteq Ids

DocInv ==
    /\ Types
    /\ \A id \in Ids \ raced : InTurn(id)
    /\ \A p \in Procs : Matched(p)
    /\ ScanFresh /\ ScanNamed
    /\ \A f \in Fields, id \in Ids : Covered(f, id) /\ Exact(f, id)
    /\ \A p \in Procs : OnTheWay(p)
-----------------------------------------------------------------------------
(***************************************************************************)
(* Lists in key order.                                                     *)
(***************************************************************************)
LEMMA LeastNat ==
    ASSUME NEW T \in SUBSET Nat, T # {}
    PROVE  \E n \in T : \A m \in T : n <= m
  <1>1. PICK n \in T : \A m \in T : ~(<<m, n>> \in OpToRel(<, Nat))
    BY WFMin, NatLessThanWellFounded, Zenon
  <1>2. \A m \in T : ~(m < n)
    BY <1>1 DEF OpToRel
  <1> QED
    BY <1>2

InOrder(s) == \A i, j \in DOMAIN s : i < j => s[i] < s[j]

\* Every finite set of numbers has a list in order: the least number, then the others.  Of
\* the sizes of sets without one there would be a least.
LEMMA HasOrder ==
    ASSUME NEW S \in SUBSET Nat, IsFiniteSet(S)
    PROVE  \E s \in [1 .. Cardinality(S) -> S] : InOrder(s)
  <1> DEFINE Orderless(T) == ~ \E s \in [1 .. Cardinality(T) -> T] : InOrder(s)
             Bad == {n \in Nat : \E T \in SUBSET Nat :
                        IsFiniteSet(T) /\ Cardinality(T) = n /\ Orderless(T)}
  <1> SUFFICES ASSUME Orderless(S)
               PROVE  FALSE
    OBVIOUS
  <1>1. Bad \in SUBSET Nat /\ Bad # {}
    BY FS_CardinalityType
  <1>2. PICK n \in Bad : \A m \in Bad : n <= m
    <2> HIDE DEF Bad
    <2> QED
      BY <1>1, LeastNat
  <1>3. PICK T \in SUBSET Nat : IsFiniteSet(T) /\ Cardinality(T) = n /\ Orderless(T)
    BY <1>2
  <1>4. CASE T = {}
    <2>1. n = 0
      BY <1>3, <1>4, FS_EmptySet
    <2>2. [i \in {} |-> 0] \in [1 .. Cardinality(T) -> T] /\ InOrder([i \in {} |-> 0])
      BY <1>3, <1>4, <2>1 DEF InOrder
    <2> QED
      BY <1>3, <2>2
  <1>5. CASE T # {}
    <2>1. PICK least \in T : \A k \in T : least <= k
      BY <1>5, LeastNat
    <2> DEFINE U == T \ {least}
    <2>2. U \in SUBSET Nat /\ IsFiniteSet(U) /\ Cardinality(U) = n - 1
      BY <1>3, <2>1, FS_RemoveElement
    <2>3. n - 1 \in Nat
      BY <1>3, <2>2, FS_CardinalityType
    <2>4. ~Orderless(U)
      <3> SUFFICES ASSUME Orderless(U)
                   PROVE  FALSE
        OBVIOUS
      <3>1. n - 1 \in Bad
        BY <2>2, <2>3
      <3> QED
        BY <1>1, <1>2, <3>1
    <2>5. PICK s \in [1 .. n - 1 -> U] : InOrder(s)
      BY <2>2, <2>4
    <2> DEFINE t == [i \in 1 .. n |-> IF i = 1 THEN least ELSE s[i - 1]]
    <2>6. n \in Nat
      BY <1>1
    <2>7. \A i \in 2 .. n : s[i - 1] \in U /\ s[i - 1] \in Nat /\ least < s[i - 1]
      <3> TAKE i \in 2 .. n
      <3>1. i - 1 \in 1 .. n - 1
        BY <2>6
      <3>2. s[i - 1] \in U
        BY <2>5, <3>1
      <3>3. s[i - 1] \in Nat /\ least \in Nat
        BY <2>1, <3>2
      <3> QED
        BY <2>1, <3>2, <3>3
    <2>8. t \in [1 .. n -> T]
      BY <2>1, <2>6, <2>7
    <2>9. InOrder(t)
      <3> SUFFICES ASSUME NEW i \in 1 .. n, NEW j \in 1 .. n, i < j
                   PROVE  t[i] < t[j]
        BY DEF InOrder
      <3>1. j # 1 /\ t[j] = s[j - 1] /\ j \in 2 .. n
        BY <2>6
      <3>2. CASE i = 1
        BY <2>7, <3>1, <3>2
      <3>3. CASE i # 1
        <4>1. i - 1 \in 1 .. n - 1 /\ j - 1 \in 1 .. n - 1 /\ i - 1 < j - 1
          BY <2>6, <3>3
        <4>2. s[i - 1] < s[j - 1]
          BY <2>5, <4>1 DEF InOrder
        <4>3. t[i] = s[i - 1]
          BY <3>3
        <4> QED
          BY <3>1, <4>2, <4>3
      <3> QED
        BY <3>2, <3>3
    <2> HIDE DEF t
    <2> QED
      BY <1>3, <2>8, <2>9
  <1> QED
    BY <1>4, <1>5

\* The sorted list of a set has each of its members, once and in order.
LEMMA SortedIs ==
    ASSUME NEW S \in SUBSET Nat, IsFiniteSet(S)
    PROVE  /\ Cardinality(S) \in Nat
           /\ Sorted(S) \in [1 .. Cardinality(S) -> S] /\ InOrder(Sorted(S))
           /\ Sorted(S) \in Seq(S) /\ Elements(Sorted(S)) = S
  <1> DEFINE N == Cardinality(S)
             s == Sorted(S)
  <1>1. N \in Nat
    BY FS_CardinalityType
  <1>2. s \in [1 .. N -> S] /\ InOrder(s)
    BY HasOrder DEF Sorted, InOrder
  <1> HIDE DEF N, s
  <1>3. s \in Injection(1 .. N, S)
    <2> SUFFICES ASSUME NEW i \in 1 .. N, NEW j \in 1 .. N, s[i] = s[j]
                 PROVE  i = j
      BY <1>2 DEF Injection, IsInjective
    <2>1. s[i] \in Nat /\ s[j] \in Nat /\ DOMAIN s = 1 .. N
      BY <1>2
    <2>2. ~(i < j) /\ ~(j < i)
      BY <1>2, <2>1 DEF InOrder
    <2> QED
      BY <2>2, <1>1
  <1>4. s \in Surjection(1 .. N, S)
    <2>1. Cardinality(1 .. N) = N
      BY <1>1, FS_Interval
    <2> QED
      BY <1>3, <2>1, FS_Injection DEF N
  <1>5. \A x \in S : \E i \in 1 .. N : s[i] = x
    BY <1>4 DEF Surjection
  <1>6. Elements(s) = S
    BY <1>2, <1>5 DEF Elements
  <1>7. s \in Seq(S)
    BY <1>1, <1>2
  <1> QED
    BY <1>1, <1>2, <1>6, <1>7 DEF N, s
\* The members of a list after Head, Append and concatenation.
LEMMA NoElements ==
    <<>> \in Seq(Ids) /\ <<>> \in Seq(IdOrNone) /\ <<>> \in Seq(Document) /\ Elements(<<>>) = {}
  BY DEF Elements

\* A list is its head and its tail.
LEMMA HeadElements ==
    ASSUME NEW S, NEW s \in Seq(S), s # <<>>
    PROVE  /\ Head(s) \in S /\ Tail(s) \in Seq(S) /\ Elements(s) \in SUBSET S
           /\ Head(s) \in Elements(s) /\ Elements(Tail(s)) \subseteq Elements(s)
           /\ Elements(s) \subseteq {Head(s)} \cup Elements(Tail(s))
  <1> DEFINE t == Tail(s)
  <1>1. /\ Len(s) \in Nat \ {0} /\ DOMAIN s = 1 .. Len(s) /\ Head(s) = s[1] /\ Head(s) \in S
        /\ t \in Seq(S) /\ DOMAIN t = 1 .. Len(s) - 1
        /\ \A i \in 1 .. Len(s) : s[i] \in S
    OBVIOUS
  <1>2. \A i \in 1 .. Len(s) - 1 : t[i] = s[i + 1]
    OBVIOUS
  <1> HIDE DEF t
  <1>3. \A i \in 2 .. Len(s) : i - 1 \in 1 .. Len(s) - 1 /\ t[i - 1] = s[i]
    BY <1>1, <1>2
  <1>4. \A x \in Elements(t) : x \in Elements(s)
    <2> TAKE x \in Elements(t)
    <2>1. PICK i \in 1 .. Len(s) - 1 : x = t[i]
      BY <1>1 DEF Elements
    <2>2. i + 1 \in DOMAIN s
      BY <1>1
    <2> QED
      BY <1>2, <2>1, <2>2 DEF Elements
  <1>5. \A x \in Elements(s) : x = Head(s) \/ x \in Elements(t)
    <2> TAKE x \in Elements(s)
    <2>1. PICK i \in 1 .. Len(s) : x = s[i]
      BY <1>1 DEF Elements
    <2>2. CASE i = 1
      BY <1>1, <2>1, <2>2
    <2>3. CASE i # 1
      BY <1>1, <1>3, <2>1, <2>3 DEF Elements
    <2> QED
      BY <2>2, <2>3
  <1>6. 1 \in DOMAIN s
    BY <1>1
  <1> QED
    BY <1>1, <1>4, <1>5, <1>6 DEF Elements, t

\* Append adds one element to a list.
LEMMA AppendElements ==
    ASSUME NEW S, NEW s \in Seq(S), NEW id \in S
    PROVE  Append(s, id) \in Seq(S) /\ Elements(Append(s, id)) = Elements(s) \cup {id}
  <1> DEFINE t == Append(s, id)
  <1>1. /\ t \in Seq(S) /\ Len(s) \in Nat /\ DOMAIN s = 1 .. Len(s)
        /\ DOMAIN t = 1 .. Len(s) + 1 /\ t[Len(s) + 1] = id
        /\ \A i \in 1 .. Len(s) : t[i] = s[i]
    OBVIOUS
  <1> HIDE DEF t
  <1>2. \A i \in DOMAIN t : i \in DOMAIN s \/ i = Len(s) + 1
    BY <1>1
  <1>3. \A i \in DOMAIN s : i \in DOMAIN t
    BY <1>1
  <1>4. Len(s) + 1 \in DOMAIN t
    BY <1>1
  <1>5. Elements(t) = Elements(s) \cup {id}
    BY <1>1, <1>2, <1>3, <1>4 DEF Elements
  <1> QED
    BY <1>1, <1>5 DEF t

\* Two lists put together have the elements of both.
LEMMA ConcatElements ==
    ASSUME NEW s \in Seq(Ids), NEW r \in Seq(Ids)
    PROVE  s \o r \in Seq(Ids) /\ Elements(s \o r) = Elements(s) \cup Elements(r)
  <1> DEFINE t == s \o r
  <1>1. /\ t \in Seq(Ids) /\ Len(s) \in Nat /\ DOMAIN s = 1 .. Len(s)
        /\ Len(r) \in Nat /\ DOMAIN r = 1 .. Len(r)
        /\ DOMAIN t = 1 .. Len(s) + Len(r)
    OBVIOUS
  <1>2. /\ \A i \in 1 .. Len(s) : t[i] = s[i]
        /\ \A i \in Len(s) + 1 .. Len(s) + Len(r) : t[i] = r[i - Len(s)]
    OBVIOUS
  <1> HIDE DEF t
  <1>3. \A i \in DOMAIN s : i \in DOMAIN t /\ t[i] = s[i]
    BY <1>1, <1>2
  <1>4. \A i \in DOMAIN r : i + Len(s) \in DOMAIN t /\ t[i + Len(s)] = r[i]
    <2> TAKE i \in DOMAIN r
    <2>1. i + Len(s) \in Len(s) + 1 .. Len(s) + Len(r) /\ (i + Len(s)) - Len(s) = i
      BY <1>1
    <2>2. t[i + Len(s)] = r[(i + Len(s)) - Len(s)]
      BY <1>2, <2>1
    <2>3. i + Len(s) \in DOMAIN t
      BY <1>1, <2>1
    <2> QED
      BY <2>1, <2>2, <2>3
  <1>5. \A i \in DOMAIN t : \/ i \in DOMAIN s /\ t[i] = s[i]
                            \/ i - Len(s) \in DOMAIN r /\ t[i] = r[i - Len(s)]
    BY <1>1, <1>2
  <1>6. \A x : x \in Elements(t) => x \in Elements(s) \/ x \in Elements(r)
    BY <1>5 DEF Elements
  <1>7. \A x : x \in Elements(s) => x \in Elements(t)
    BY <1>3 DEF Elements
  <1>8. \A x : x \in Elements(r) => x \in Elements(t)
    BY <1>4 DEF Elements
  <1> QED
    BY <1>1, <1>6, <1>7, <1>8 DEF t

\* removeIndexes takes one id out of a list and leaves the others in it.
LEMMA WithoutIs ==
    ASSUME NEW s \in Seq(Ids), NEW id \in Ids
    PROVE  Without(s, id) \in Seq(Ids) /\ Elements(Without(s, id)) = Elements(s) \ {id}
  <1> DEFINE K == {i \in DOMAIN s : s[i] # id}
             kept == Sorted(K)
             t == [k \in DOMAIN kept |-> s[kept[k]]]
  <1>1. Without(s, id) = t
    BY DEF Without
  <1>2. Len(s) \in Nat /\ DOMAIN s = 1 .. Len(s) /\ \A i \in DOMAIN s : s[i] \in Ids
    OBVIOUS
  <1>3. K \in SUBSET Nat /\ K \subseteq 1 .. Len(s)
    BY <1>2
  <1>4. IsFiniteSet(K)
    <2>1. IsFiniteSet(1 .. Len(s))
      BY <1>2, FS_Interval
    <2> HIDE DEF K
    <2> QED
      BY <1>3, <2>1, FS_Subset
  <1>5. /\ Cardinality(K) \in Nat /\ kept \in [1 .. Cardinality(K) -> K]
        /\ Elements(kept) = K
    <2> HIDE DEF K
    <2> QED
      BY <1>3, <1>4, SortedIs
  <1>6. \A k \in DOMAIN kept : kept[k] \in K
    BY <1>5
  <1>7. \A i \in K : \E k \in DOMAIN kept : kept[k] = i
    BY <1>5 DEF Elements
  <1> HIDE DEF kept
  <1>8. t \in Seq(Ids)
    <2>1. t \in [1 .. Cardinality(K) -> Ids]
      BY <1>2, <1>5, <1>6
    <2> QED
      BY <1>5, <2>1
  <1>9. \A x : x \in Elements(t) <=> x \in Elements(s) /\ x # id
    <2>1. ASSUME NEW x, x \in Elements(t)
          PROVE  x \in Elements(s) /\ x # id
      <3>1. PICK k \in DOMAIN kept : x = s[kept[k]]
        BY <2>1 DEF Elements
      <3> QED
        BY <1>6, <3>1 DEF Elements
    <2>2. ASSUME NEW x, x \in Elements(s), x # id
          PROVE  x \in Elements(t)
      <3>1. PICK i \in K : x = s[i]
        BY <2>2 DEF Elements
      <3>2. PICK k \in DOMAIN kept : kept[k] = i
        BY <1>7
      <3> QED
        BY <3>1, <3>2 DEF Elements
    <2> QED
      BY <2>1, <2>2
  <1> HIDE DEF t
  <1> QED
    BY <1>1, <1>8, <1>9
-----------------------------------------------------------------------------
(***************************************************************************)
(* Types.                                                                  *)
(***************************************************************************)
\* What a state is, by its place.
LEMMA StateIs ==
    ASSUME NEW s \in States
    PROVE  /\ s.pc \in {"idle", "get", "store", "remove", "add", "read", "scan", "found", "build"}
           /\ s.pc = "idle" <=> s = Idle
           /\ s.pc = "get" => s \in GetStates
           /\ s.pc \in {"store", "remove", "add"} => s \in WriteStates
           /\ s.pc = "read" => s \in ReadStates
           /\ s.pc = "scan" => s \in ScanStates
           /\ s.pc = "found" => s \in FoundStates
           /\ s.pc = "build" => s \in BuildStates
  BY DEF States, Idle, GetStates, WriteStates, ReadStates, ScanStates, FoundStates, BuildStates

\* Every kind of state is a state of a call.
LEMMA StatesHas ==
    /\ Idle \in States /\ GetStates \subseteq States /\ WriteStates \subseteq States
    /\ ReadStates \subseteq States /\ ScanStates \subseteq States
    /\ FoundStates \subseteq States /\ BuildStates \subseteq States
  BY DEF States

\* A call goes on with the next document or ends.
LEMMA WorkIs ==
    ASSUME NEW todo \in Seq(IdOrNone), NEW act, act \in Acts \/ todo = <<>>
    PROVE  /\ Work(todo, act) \in {Idle} \cup GetStates
           /\ Work(todo, act) \in States
           /\ Work(todo, act).pc \in {"idle", "get"}
           /\ Work(todo, act).pc = "get" => Work(todo, act).todo = todo
  BY StatesHas DEF Work, Idle, GetStates

\* One goroutine moves.
LEMMA GotoIs ==
    ASSUME OpTypes, NEW p \in Procs, NEW s \in States, Goto(p, s)
    PROVE  /\ op' \in [Procs -> States] /\ op'[p] = s
           /\ \A q \in Procs \ {p} : op'[q] = op[q]
  BY DEF OpTypes, Goto

\* The mutex is kept by a step of a goroutine that does not use it.
LEMMA MutexKept ==
    ASSUME OpTypes, NEW p \in Procs, NEW s \in States, Goto(p, s), UNCHANGED mu,
           s.pc # "build", op[p].pc # "build",
           s.pc = "add" /\ s.act = None => s.todo = <<>>
    PROVE  OpTypes'
  BY GotoIs DEF OpTypes

\* The fields of the FindOptions of a search.
LEMMA OptionsAre ==
    ASSUME NEW o \in Searches
    PROVE  /\ o.skip \in Nat /\ o.limit \in Int
           /\ DOMAIN o.filters \in SUBSET Nat
           /\ \A i \in DOMAIN o.filters :
                 /\ o.filters[i].field \in Fields
                 /\ o.filters[i].op = "eq" => o.filters[i].value \in Values
  <1> DEFINE Q == [field : Fields, op : {"eq", "ne", "gt", "gte", "lt", "lte"}, value : Values]
                  \cup [field : Fields, op : {"in"}, value : SUBSET Values]
  <1>1. o.skip \in Nat /\ o.limit \in Int /\ o.filters \in Seq(Q)
    BY DocAssumption DEF Searches
  <1>2. \A q \in Q : q.field \in Fields /\ (q.op = "eq" => q.value \in Values)
    OBVIOUS
  <1> HIDE DEF Q
  <1>3. DOMAIN o.filters = 1 .. Len(o.filters) /\ \A i \in DOMAIN o.filters : o.filters[i] \in Q
    BY <1>1
  <1> QED
    BY <1>1, <1>2, <1>3

\* The index list that a search reads.
LEMMA TryIs ==
    ASSUME StoreTypes, NEW o \in Searches, Indexable(o.filters) # {}
    PROVE  LET q == o.filters[FirstOf(Indexable(o.filters))]
           IN  /\ q.field \in Indexed /\ q.value \in Values
               /\ tryUseIndexes(o.filters) = indexes[q.field][q.value]
               /\ tryUseIndexes(o.filters) \in Seq(Ids)
  <1> DEFINE I == Indexable(o.filters)
  <1>1. I \in SUBSET Nat /\ I # {} /\ I \subseteq DOMAIN o.filters
    BY OptionsAre DEF Indexable
  <1>2. FirstOf(I) \in I
    <2> HIDE DEF I
    <2> QED
      BY <1>1, LeastNat DEF FirstOf
  <1> DEFINE q == o.filters[FirstOf(I)]
  <1>3. q.op = "eq" /\ indexes[q.field] # NoIndex
    BY <1>2 DEF Indexable
  <1>4. q.field \in Fields /\ q.value \in Values
    BY <1>1, <1>2, <1>3, OptionsAre
  <1>5. indexes[q.field] \in [Values -> Seq(Ids)]
    BY <1>3, <1>4 DEF StoreTypes
  <1> QED
    BY <1>3, <1>4, <1>5 DEF tryUseIndexes, Indexed

\* Skip and limit only take documents away, and none when neither is set.
LEMMA PageIs ==
    ASSUME NEW S, NEW s \in Seq(S), NEW o, o.skip \in Nat, o.limit \in Int
    PROVE  /\ Page(s, o) \in Seq(S) /\ Paginate(s, o) \in Seq(S)
           /\ Elements(Paginate(s, o)) \subseteq Elements(s)
           /\ Whole(o) => Paginate(s, o) = s
           /\ Whole(o) /\ o.limit < 0 => Page(s, o) = s
  <1>1. Len(s) \in Nat /\ DOMAIN s = 1 .. Len(s) /\ \A i \in 1 .. Len(s) : s[i] \in S
    OBVIOUS
  <1>2. \A m \in Nat \ {0}, n \in Int : n <= Len(s) =>
            /\ SubSeq(s, m, n) \in Seq(S)
            /\ Elements(SubSeq(s, m, n)) \subseteq Elements(s)
    <2> TAKE m \in Nat \ {0}, n \in Int
    <2> HAVE n <= Len(s)
    <2>1. SubSeq(s, m, n) \in Seq(S)
      BY <1>1
    <2>2. DOMAIN SubSeq(s, m, n) = 1 .. n - m + 1
      BY <1>1
    <2>3. \A i \in 1 .. n - m + 1 : SubSeq(s, m, n)[i] = s[m + i - 1] /\ m + i - 1 \in 1 .. Len(s)
      BY <1>1
    <2> QED
      BY <1>1, <2>1, <2>2, <2>3 DEF Elements
  <1>3. Page(s, o) \in Seq(S)
    <2>1. o.skip + 1 \in Nat \ {0} /\ o.skip + o.limit \in Int
      OBVIOUS
    <2> QED
      BY <1>1, <1>2, <2>1 DEF Page
  <1> DEFINE rest == IF o.skip > 0 THEN SubSeq(s, o.skip + 1, Len(s)) ELSE s
  <1>4. rest \in Seq(S) /\ Elements(rest) \subseteq Elements(s)
    <2>1. o.skip + 1 \in Nat \ {0} /\ Len(s) \in Int /\ Len(s) <= Len(s)
      BY <1>1
    <2> QED
      BY <1>2, <2>1
  <1>5. Paginate(s, o) = IF o.limit > 0 /\ Len(rest) > o.limit THEN SubSeq(rest, 1, o.limit) ELSE rest
    BY DEF Paginate
  <1> HIDE DEF rest
  <1>6. Paginate(s, o) \in Seq(S) /\ Elements(Paginate(s, o)) \subseteq Elements(rest)
    <2>1. CASE ~(o.limit > 0 /\ Len(rest) > o.limit)
      BY <1>4, <1>5, <2>1
    <2>2. CASE o.limit > 0 /\ Len(rest) > o.limit
      <3>1. Len(rest) \in Nat /\ DOMAIN rest = 1 .. Len(rest) /\ \A i \in 1 .. Len(rest) : rest[i] \in S
        BY <1>4
      <3>2. SubSeq(rest, 1, o.limit) \in Seq(S)
        BY <1>4, <2>2, <3>1
      <3>3. DOMAIN SubSeq(rest, 1, o.limit) = 1 .. o.limit
        BY <2>2, <3>1
      <3>4. \A i \in 1 .. o.limit : SubSeq(rest, 1, o.limit)[i] = rest[i] /\ i \in 1 .. Len(rest)
        BY <2>2, <3>1
      <3> QED
        BY <1>5, <2>2, <3>1, <3>2, <3>3, <3>4 DEF Elements
    <2> QED
      BY <2>1, <2>2
  <1>7. Whole(o) => Paginate(s, o) = s
    BY DEF Paginate, Whole
  <1>8. ASSUME Whole(o), o.limit < 0
        PROVE  Page(s, o) = s
    <2>1. SubSeq(s, 1, Len(s)) = s
      OBVIOUS
    <2> QED
      BY <1>1, <1>8, <2>1 DEF Page, Whole
  <1> QED
    BY <1>3, <1>4, <1>6, <1>7, <1>8

\* An update makes a document of a document, a delete leaves none.
LEMMA ApplyIs ==
    ASSUME NEW act \in Acts, NEW id \in Ids, NEW doc \in Document
    PROVE  Apply(act, id, doc) \in DocOrNone
  <1>1. CASE act = Delete
    BY <1>1 DEF Apply, DocOrNone
  <1>2. CASE act # Delete
    <2>1. act \in Updates
      BY <1>2 DEF Acts
    <2>2. Updated(act, id, doc) \in Document
      BY <2>1, DocAssumption DEF Updated, Document
    <2> QED
      BY <1>2, <2>2 DEF Apply, DocOrNone
  <1> QED
    BY <1>1, <1>2

\* What is stored of a document is a document.
LEMMA StoredIs ==
    ASSUME NEW doc \in DocOrNone
    PROVE  /\ Stored(doc) \in DocOrNone
           /\ Stored(doc) = NoDoc <=> doc = NoDoc
           /\ doc # NoDoc => doc \in Document /\ Stored(doc) \in Document
  <1>1. NoDoc \notin Document
    BY DocAssumption
  <1>2. doc \in Document => Stored(doc) \in Document
    <2> SUFFICES ASSUME doc \in Document
                 PROVE  Stored(doc) \in Document
      OBVIOUS
    <2>1. Stored(doc) = [f \in Fields |-> IF doc[f] = Absent THEN Absent ELSE Json[doc[f]]]
      BY <1>1 DEF Stored
    <2>2. \A f \in Fields : doc[f] \in Values \cup {Absent}
      BY DEF Document
    <2>3. \A v \in Values : Json[v] \in Values
      BY DocAssumption
    <2> QED
      BY <2>1, <2>2, <2>3 DEF Document
  <1>3. doc = NoDoc => Stored(doc) = NoDoc
    BY DEF Stored
  <1> QED
    BY <1>1, <1>2, <1>3 DEF DocOrNone

\* The names of documents, each with its place.
LEMMA NamesAre ==
    ASSUME NEW S, NEW res \in Seq(S)
    PROVE  /\ [i \in DOMAIN res |-> NameOf(res[i])] \in Seq(IdOrNone)
           /\ Elements([i \in DOMAIN res |-> NameOf(res[i])]) = {NameOf(d) : d \in Elements(res)}
  <1>1. \A d : NameOf(d) \in IdOrNone
    BY DEF NameOf, IdOrNone
  <1>2. DOMAIN res = 1 .. Len(res) /\ Len(res) \in Nat
    OBVIOUS
  <1> HIDE DEF NameOf
  <1>3. [i \in DOMAIN res |-> NameOf(res[i])] \in [1 .. Len(res) -> IdOrNone]
    BY <1>1, <1>2
  <1> QED
    BY <1>2, <1>3 DEF Elements

\* The others stay where they are.
Moves(p) ==
    /\ OpTypes' /\ \A q \in Procs \ {p} : op'[q] = op[q]
    /\ op[p] \in States /\ op'[p] \in States

\* One lemma for each operation says where it takes its goroutine.
LEMMA InsertIs ==
    ASSUME OpTypes, StoreTypes, NEW p \in Procs, NEW id \in Ids, NEW doc \in Documents,
           Insert(p, id, doc)
    PROVE  /\ Moves(p) /\ StoreTypes'
           /\ op[p] = Idle /\ op[p].pc = "idle"
           /\ op'[p].pc = "add" /\ op'[p].id = id /\ op'[p].new \in Document /\ op'[p].todo = <<>>
           /\ docs' = [docs EXCEPT ![id] = Stored(op'[p].new)]
           /\ UNCHANGED <<indexes, saved, mu, restarts>>
  <1> DEFINE new == [doc EXCEPT ![IdField] = Name[id]]
             s == [pc |-> "add", id |-> id, old |-> NoDoc, new |-> new, todo |-> <<>>, act |-> None]
  <1>1. new \in Document /\ Stored(new) \in DocOrNone
    <2>1. doc \in Document /\ Name[id] \in Values
      BY DocAssumption
    <2>2. new \in Document
      BY <2>1 DEF Document
    <2> QED
      BY <2>2, StoredIs DEF DocOrNone
  <1>2. docs' = [docs EXCEPT ![id] = Stored(new)]
    BY DEF Insert
  <1>3. Goto(p, s)
    BY DEF Insert
  <1> HIDE DEF new
  <1>4. s \in WriteStates /\ s \in States
    BY <1>1, StatesHas, NoElements DEF WriteStates, DocOrNone
  <1>5. op[p] = Idle /\ op[p].pc = "idle" /\ Goto(p, s) /\ UNCHANGED <<indexes, saved, mu, restarts>>
    BY <1>3 DEF Insert, Call, Idle
  <1>6. /\ s.pc = "add" /\ s.id = id /\ s.new = new /\ s.todo = <<>>
    OBVIOUS
  <1> HIDE DEF s
  <1>7. OpTypes'
    BY <1>4, <1>5, <1>6, MutexKept
  <1>8. op'[p] = s /\ \A q \in Procs \ {p} : op'[q] = op[q]
    BY <1>4, <1>5, GotoIs
  <1>9. StoreTypes'
    BY <1>1, <1>5, <1>2 DEF StoreTypes
  <1> QED
    BY <1>1, <1>2, <1>4, <1>5, <1>6, <1>7, <1>8, <1>9 DEF Moves, OpTypes

\* Update and DeleteOne.
LEMMA StartWorkIs ==
    ASSUME OpTypes, StoreTypes, NEW p \in Procs, NEW id \in Ids, NEW act \in Acts,
           Call(p), Goto(p, Work(<<id>>, act)), UNCHANGED store
    PROVE  /\ Moves(p) /\ StoreTypes'
           /\ op[p] = Idle /\ op[p].pc = "idle"
           /\ op'[p].pc = "get" /\ op'[p].todo = <<id>>
           /\ UNCHANGED <<docs, indexes, saved, mu, restarts>>
  <1> DEFINE s == Work(<<id>>, act)
  <1>1. s \in States /\ s.pc = "get" /\ s.todo = <<id>>
    <2>1. <<id>> \in Seq(IdOrNone) /\ <<id>> # <<>>
      BY DEF IdOrNone
    <2> QED
      BY <2>1, WorkIs DEF Work
  <1>2. op[p] = Idle /\ op[p].pc = "idle" /\ UNCHANGED <<docs, indexes, saved, mu, restarts>>
    BY DEF Call, store, Idle
  <1>3. Goto(p, s)
    OBVIOUS
  <1> HIDE DEF s
  <1>4. OpTypes'
    BY <1>1, <1>2, <1>3, MutexKept
  <1>5. op'[p] = s /\ \A q \in Procs \ {p} : op'[q] = op[q]
    BY <1>1, <1>2, <1>3, GotoIs
  <1>6. StoreTypes'
    BY <1>2 DEF StoreTypes
  <1> QED
    BY <1>1, <1>2, <1>4, <1>5, <1>6 DEF Moves, OpTypes

\* The read of Update and Delete, before they store.
LEMMA GetIs ==
    ASSUME OpTypes, StoreTypes, NEW p \in Procs, Get(p)
    PROVE  /\ Moves(p) /\ StoreTypes'
           /\ op[p].pc = "get" /\ op[p] # Idle /\ op[p] \in GetStates
           /\ \/ op'[p].pc = "idle"
              \/ op'[p].pc = "get" /\ op'[p].todo = Tail(op[p].todo)
              \/ /\ op'[p].pc = "store" /\ op'[p].id = Head(op[p].todo)
                 /\ op'[p].todo = Tail(op[p].todo)
                 /\ op'[p].id \in Ids /\ docs[op'[p].id] # NoDoc /\ op'[p].old = docs[op'[p].id]
                 /\ op'[p].new = Apply(op'[p].act, op'[p].id, docs[op'[p].id])
           /\ UNCHANGED <<docs, indexes, saved, mu, restarts>>
  <1> DEFINE id == Head(op[p].todo)
             rest == Tail(op[p].todo)
             act == op[p].act
             w == [pc |-> "store", id |-> id, old |-> docs[id],
                   new |-> Apply(act, id, docs[id]), todo |-> rest, act |-> act]
             s == IF id \notin Existing THEN Work(rest, act) ELSE w
  <1>1. op[p].pc = "get" /\ op[p] \in States /\ op[p] # Idle /\ op[p] \in GetStates
    BY StateIs DEF Get, OpTypes, Idle
  <1>2. rest \in Seq(IdOrNone) /\ act \in Acts
    BY <1>1, HeadElements DEF GetStates
  <1>3. Goto(p, s) /\ UNCHANGED <<docs, indexes, saved, mu, restarts>>
    BY DEF Get, Within, store
  <1>4. id \in Existing =>
            id \in Ids /\ docs[id] # NoDoc /\ Apply(act, id, docs[id]) \in DocOrNone /\ docs[id] \in Document
    BY <1>2, ApplyIs DEF DocOrNone, Existing, StoreTypes
  <1> HIDE DEF id, rest, act
  <1>5. id \in Existing => w \in WriteStates
    BY <1>2, <1>4 DEF WriteStates
  <1>6. /\ w.pc = "store" /\ w.id = id /\ w.todo = rest /\ w.old = docs[id]
        /\ w.new = Apply(w.act, id, docs[id])
    OBVIOUS
  <1> HIDE DEF w
  <1>7. /\ s \in States
        /\ \/ s.pc = "idle"
           \/ s.pc = "get" /\ s.todo = rest
           \/ s = w /\ id \in Ids /\ docs[id] # NoDoc
    BY <1>2, <1>4, <1>5, WorkIs, StatesHas
  <1> HIDE DEF s
  <1>8. OpTypes'
    BY <1>1, <1>3, <1>6, <1>7, MutexKept
  <1>9. op'[p] = s /\ \A q \in Procs \ {p} : op'[q] = op[q]
    BY <1>3, <1>7, GotoIs
  <1>10. StoreTypes'
    BY <1>3 DEF StoreTypes
  <1> QED
    BY <1>1, <1>3, <1>6, <1>7, <1>8, <1>9, <1>10 DEF Moves, id, rest

\* The write of Update and Delete.
LEMMA StoreIs ==
    ASSUME OpTypes, StoreTypes, NEW p \in Procs, Store(p)
    PROVE  /\ Moves(p) /\ StoreTypes'
           /\ op[p].pc = "store" /\ op[p] # Idle /\ op[p].id \in Ids
           /\ op'[p].pc = "remove" /\ op'[p].id = op[p].id /\ op'[p].new = op[p].new
           /\ op'[p].todo = op[p].todo /\ op'[p].old = op[p].old
           /\ op[p].new \in DocOrNone
           /\ docs' = [docs EXCEPT ![op[p].id] = Stored(op[p].new)]
           /\ UNCHANGED <<indexes, saved, mu, restarts>>
  <1> DEFINE s == [op[p] EXCEPT !.pc = "remove"]
  <1>1. op[p].pc = "store" /\ op[p] \in States /\ op[p] # Idle /\ op[p] \in WriteStates
    BY StateIs DEF Store, OpTypes, Idle
  <1>2. op[p] \in [pc : {"store", "remove"}, id : Ids, old : Document, new : DocOrNone, todo : Seq(IdOrNone),
                   act : Acts]
    BY <1>1 DEF WriteStates
  <1>3. Goto(p, s) /\ UNCHANGED <<indexes, saved, mu, restarts>>
        /\ docs' = [docs EXCEPT ![op[p].id] = Stored(op[p].new)]
    BY DEF Store, Within
  <1>4. /\ s.pc = "remove" /\ s.id = op[p].id /\ s.new = op[p].new /\ s.todo = op[p].todo
        /\ s.old = op[p].old
    BY <1>2
  <1>5. s \in States
    BY <1>2, StatesHas DEF WriteStates
  <1> HIDE DEF s
  <1>6. OpTypes'
    BY <1>1, <1>3, <1>4, <1>5, MutexKept
  <1>7. op'[p] = s /\ \A q \in Procs \ {p} : op'[q] = op[q]
    BY <1>3, <1>5, GotoIs
  <1>8. StoreTypes'
    <2>1. Stored(op[p].new) \in DocOrNone /\ op[p].id \in Ids
      BY <1>2, StoredIs
    <2> QED
      BY <1>3, <2>1 DEF StoreTypes
  <1> QED
    BY <1>1, <1>2, <1>3, <1>4, <1>5, <1>6, <1>7, <1>8 DEF Moves
\* What the critical sections of a writer do to the index of a field.
LEMMA RemoveIs ==
    ASSUME OpTypes, StoreTypes, NEW p \in Procs, removeIndexes(p)
    PROVE  /\ Moves(p) /\ StoreTypes' /\ mu = None
           /\ op[p].pc = "remove" /\ op[p] # Idle /\ op[p].id \in Ids /\ op[p].todo \in Seq(IdOrNone)
           /\ op[p].old \in Document /\ op[p].new \in DocOrNone
           /\ op[p].new = NoDoc =>
                 \/ op'[p].pc = "idle"
                 \/ op'[p].pc = "get" /\ op'[p].todo = op[p].todo
           /\ op[p].new # NoDoc =>
                 /\ op'[p].pc = "add" /\ op'[p].id = op[p].id /\ op'[p].new = op[p].new
                 /\ op'[p].todo = op[p].todo
           /\ \A f \in Fields :
                 IF indexes[f] = NoIndex \/ op[p].old[f] = Absent THEN indexes'[f] = indexes[f]
                 ELSE indexes'[f] = [indexes[f] EXCEPT ![op[p].old[f]] = Without(@, op[p].id)]
           /\ UNCHANGED <<docs, saved, mu, restarts>>
  <1> DEFINE s == IF op[p].new = NoDoc THEN Work(op[p].todo, op[p].act)
                  ELSE [op[p] EXCEPT !.pc = "add"]
  <1>1. op[p].pc = "remove" /\ op[p] \in States /\ op[p] # Idle /\ op[p] \in WriteStates
    BY StateIs DEF removeIndexes, OpTypes, Idle
  <1>2. op[p] \in [pc : {"store", "remove"}, id : Ids, old : Document, new : DocOrNone, todo : Seq(IdOrNone),
                   act : Acts]
    BY <1>1 DEF WriteStates
  <1>3. Goto(p, s) /\ mu = None /\ UNCHANGED <<docs, saved, mu, restarts>>
    BY DEF removeIndexes, Within
  <1>4. \A f \in Fields :
           IF indexes[f] = NoIndex \/ op[p].old[f] = Absent THEN indexes'[f] = indexes[f]
           ELSE indexes'[f] = [indexes[f] EXCEPT ![op[p].old[f]] = Without(@, op[p].id)]
    BY DEF removeIndexes
  <1>5. /\ op[p].new = NoDoc =>
              s \in States /\ (s.pc = "idle" \/ (s.pc = "get" /\ s.todo = op[p].todo))
        /\ op[p].new # NoDoc =>
              /\ s \in States /\ s.pc = "add" /\ s.id = op[p].id /\ s.new = op[p].new
              /\ s.todo = op[p].todo /\ s.act \in Acts
    <2>1. CASE op[p].new = NoDoc
      BY <1>2, <2>1, WorkIs
    <2>2. CASE op[p].new # NoDoc
      <3>1. op[p].new \in Document
        BY <1>2, <2>2 DEF DocOrNone
      <3>2. [op[p] EXCEPT !.pc = "add"] \in WriteStates
        BY <1>2, <3>1 DEF WriteStates, DocOrNone
      <3>3. s = [op[p] EXCEPT !.pc = "add"]
        BY <2>2
      <3> QED
        BY <1>2, <2>2, <3>2, <3>3, StatesHas
    <2> QED
      BY <2>1, <2>2
  <1>6. None \notin Acts
    BY DocAssumption DEF Acts
  <1> HIDE DEF s
  <1>7. OpTypes'
    BY <1>1, <1>3, <1>5, <1>6, MutexKept
  <1>8. op'[p] = s /\ \A q \in Procs \ {p} : op'[q] = op[q]
    BY <1>3, <1>5, GotoIs
  <1>9. StoreTypes'
    <2>1. \A f \in Fields : indexes'[f] \in [Values -> Seq(Ids)] \cup {NoIndex}
      <3> TAKE f \in Fields
      <3>1. indexes[f] # NoIndex => indexes[f] \in [Values -> Seq(Ids)]
        BY DEF StoreTypes
      <3>2. op[p].old[f] \in Values \cup {Absent}
        BY <1>2 DEF Document
      <3>3. CASE indexes[f] = NoIndex \/ op[p].old[f] = Absent
        BY <1>4, <3>1, <3>3
      <3>4. CASE ~(indexes[f] = NoIndex \/ op[p].old[f] = Absent)
        <4>1. Without(indexes[f][op[p].old[f]], op[p].id) \in Seq(Ids)
          BY <1>2, <3>1, <3>2, <3>4, WithoutIs
        <4> QED
          BY <1>4, <3>1, <3>4, <4>1
      <3> QED
        BY <3>3, <3>4
    <2>2. indexes' = [f \in Fields |-> indexes'[f]]
      BY DEF removeIndexes
    <2> QED
      BY <1>3, <2>1, <2>2 DEF StoreTypes
  <1> QED
    BY <1>1, <1>2, <1>3, <1>4, <1>5, <1>7, <1>8, <1>9 DEF Moves

\* updateIndexes appends the id to the list of its value in every index that there is.
LEMMA AddIs ==
    ASSUME OpTypes, StoreTypes, NEW p \in Procs, updateIndexes(p)
    PROVE  /\ Moves(p) /\ StoreTypes' /\ mu = None
           /\ op[p].pc = "add" /\ op[p] # Idle /\ op[p].id \in Ids /\ op[p].todo \in Seq(IdOrNone)
           /\ op[p].new \in Document
           /\ \/ op'[p].pc = "idle"
              \/ op'[p].pc = "get" /\ op'[p].todo = op[p].todo
           /\ \A f \in Fields :
                 IF indexes[f] = NoIndex \/ op[p].new[f] = Absent THEN indexes'[f] = indexes[f]
                 ELSE indexes'[f] = [indexes[f] EXCEPT ![op[p].new[f]] = Append(@, op[p].id)]
           /\ UNCHANGED <<docs, saved, mu, restarts>>
  <1> DEFINE s == Work(op[p].todo, op[p].act)
  <1>1. op[p].pc = "add" /\ op[p] \in States /\ op[p] # Idle /\ op[p] \in WriteStates
    BY StateIs DEF updateIndexes, OpTypes, Idle
  <1>2. op[p] \in [pc : {"add"}, id : Ids, old : DocOrNone, new : Document, todo : Seq(IdOrNone),
                   act : Acts \cup {None}]
    BY <1>1 DEF WriteStates
  <1>3. Goto(p, s) /\ mu = None /\ UNCHANGED <<docs, saved, mu, restarts>>
    BY DEF updateIndexes, Within
  <1>4. \A f \in Fields :
           IF indexes[f] = NoIndex \/ op[p].new[f] = Absent THEN indexes'[f] = indexes[f]
           ELSE indexes'[f] = [indexes[f] EXCEPT ![op[p].new[f]] = Append(@, op[p].id)]
    BY DEF updateIndexes
  <1>5. s \in States /\ (s.pc = "idle" \/ (s.pc = "get" /\ s.todo = op[p].todo))
    <2>1. op[p].act \in Acts \/ op[p].todo = <<>>
      BY <1>1, <1>2 DEF OpTypes
    <2> QED
      BY <1>2, <2>1, WorkIs
  <1> HIDE DEF s
  <1>6. OpTypes'
    BY <1>1, <1>3, <1>5, MutexKept
  <1>7. op'[p] = s /\ \A q \in Procs \ {p} : op'[q] = op[q]
    BY <1>3, <1>5, GotoIs
  <1>8. StoreTypes'
    <2>1. \A f \in Fields : indexes'[f] \in [Values -> Seq(Ids)] \cup {NoIndex}
      <3> TAKE f \in Fields
      <3>1. indexes[f] # NoIndex => indexes[f] \in [Values -> Seq(Ids)]
        BY DEF StoreTypes
      <3>2. op[p].new[f] \in Values \cup {Absent}
        BY <1>2 DEF Document
      <3>3. CASE indexes[f] = NoIndex \/ op[p].new[f] = Absent
        BY <1>4, <3>1, <3>3
      <3>4. CASE ~(indexes[f] = NoIndex \/ op[p].new[f] = Absent)
        <4>1. Append(indexes[f][op[p].new[f]], op[p].id) \in Seq(Ids)
          BY <1>2, <3>1, <3>2, <3>4, AppendElements
        <4> QED
          BY <1>4, <3>1, <3>4, <4>1
      <3> QED
        BY <3>3, <3>4
    <2>2. indexes' = [f \in Fields |-> indexes'[f]]
      BY DEF updateIndexes
    <2> QED
      BY <1>3, <2>1, <2>2 DEF StoreTypes
  <1> QED
    BY <1>1, <1>2, <1>3, <1>4, <1>5, <1>6, <1>7, <1>8 DEF Moves
\* Searches.
LEMMA FindIs ==
    ASSUME OpTypes, StoreTypes, NEW p \in Procs, NEW o \in Searches,
           NEW act \in Acts \cup {None}, Find(p, o, act)
    PROVE  /\ Moves(p) /\ StoreTypes'
           /\ op[p] = Idle /\ op[p].pc = "idle"
           /\ op'[p].find = o
           /\ \/ /\ Indexable(o.filters) # {} /\ op'[p].pc = "read" /\ op'[p].res = <<>>
                 /\ op'[p].ids = Page(tryUseIndexes(o.filters), o)
              \/ Indexable(o.filters) = {} /\ op'[p].pc = "scan"
           /\ mu = None /\ UNCHANGED <<docs, indexes, saved, mu, restarts>>
  <1> DEFINE ids == Page(tryUseIndexes(o.filters), o)
             r == [pc |-> "read", find |-> o, act |-> act, res |-> <<>>, ids |-> ids]
             t == [pc |-> "scan", find |-> o, act |-> act]
             s == IF Indexable(o.filters) # {} THEN r ELSE t
  <1>1. op[p] = Idle /\ op[p].pc = "idle" /\ Goto(p, s) /\ mu = None
        /\ UNCHANGED <<docs, indexes, saved, mu, restarts>>
    BY DEF Find, Call, store, Idle
  <1>2. Indexable(o.filters) # {} => ids \in Seq(Ids)
    BY TryIs, PageIs, OptionsAre
  <1> HIDE DEF ids
  <1>3. Indexable(o.filters) # {} => r \in ReadStates
    BY <1>2, NoElements DEF ReadStates
  <1>4. t \in ScanStates
    BY DEF ScanStates
  <1>5. /\ r.pc = "read" /\ r.find = o /\ r.res = <<>> /\ r.ids = ids
        /\ t.pc = "scan" /\ t.find = o
    OBVIOUS
  <1> HIDE DEF r, t
  <1>6. s \in States
    BY <1>3, <1>4, StatesHas
  <1>7. (s = r /\ Indexable(o.filters) # {}) \/ (s = t /\ Indexable(o.filters) = {})
    OBVIOUS
  <1> HIDE DEF s
  <1>8. OpTypes'
    BY <1>1, <1>5, <1>6, <1>7, MutexKept
  <1>9. op'[p] = s /\ \A q \in Procs \ {p} : op'[q] = op[q]
    BY <1>1, <1>6, GotoIs
  <1>10. StoreTypes'
    BY <1>1 DEF StoreTypes
  <1> QED
    BY <1>1, <1>5, <1>6, <1>7, <1>8, <1>9, <1>10 DEF Moves, OpTypes, ids

\* A search that has all it will find keeps the page that was asked for.
LEMMA FoundIs ==
    ASSUME OpTypes, StoreTypes, NEW p \in Procs, NEW res \in Seq(Document), Found(p, res), Within,
           UNCHANGED store, op[p].pc \in {"read", "scan"}
    PROVE  /\ Moves(p) /\ StoreTypes'
           /\ op'[p].pc = "found" /\ op'[p].find = op[p].find
           /\ op'[p].res = Paginate(res, op[p].find)
           /\ UNCHANGED <<docs, indexes, saved, mu, restarts>>
  <1> DEFINE s == [pc |-> "found", find |-> op[p].find, act |-> op[p].act,
                   res |-> Paginate(res, op[p].find)]
  <1>1. op[p] \in States /\ op[p].find \in Searches /\ op[p].act \in Acts \cup {None}
    BY StateIs DEF OpTypes, ReadStates, ScanStates
  <1>2. Paginate(res, op[p].find) \in Seq(Document)
    BY <1>1, OptionsAre, PageIs
  <1>3. s \in FoundStates
    BY <1>1, <1>2 DEF FoundStates
  <1>4. s \in States /\ s.pc = "found" /\ s.find = op[p].find /\ s.res = Paginate(res, op[p].find)
    BY <1>3, StatesHas
  <1>5. Goto(p, s) /\ UNCHANGED <<docs, indexes, saved, mu, restarts>>
    BY DEF Found, Within, store
  <1> HIDE DEF s
  <1>6. OpTypes'
    BY <1>4, <1>5, MutexKept
  <1>7. op'[p] = s /\ \A q \in Procs \ {p} : op'[q] = op[q]
    BY <1>4, <1>5, GotoIs
  <1>8. StoreTypes'
    BY <1>5 DEF StoreTypes
  <1> QED
    BY <1>1, <1>4, <1>5, <1>6, <1>7, <1>8 DEF Moves

\* A search by index reads the next document of its list, or is done with it.
LEMMA ReadIs ==
    ASSUME OpTypes, StoreTypes, NEW p \in Procs, FindRead(p)
    PROVE  /\ Moves(p) /\ StoreTypes'
           /\ op[p].pc = "read" /\ op[p] # Idle /\ op[p] \in ReadStates
           /\ op'[p].find = op[p].find
           /\ \/ /\ op[p].ids = <<>> /\ op'[p].pc = "found"
                 /\ op'[p].res = Paginate(op[p].res, op[p].find)
              \/ /\ op[p].ids # <<>> /\ op'[p].pc = "read" /\ op'[p].ids = Tail(op[p].ids)
                 /\ op'[p].res = IF matchesFilters(docs[Head(op[p].ids)], op[p].find.filters)
                                 THEN Append(op[p].res, docs[Head(op[p].ids)]) ELSE op[p].res
           /\ UNCHANGED <<docs, indexes, saved, mu, restarts>>
  <1>1. op[p].pc = "read" /\ op[p] \in States /\ op[p] # Idle /\ op[p] \in ReadStates
    BY StateIs DEF FindRead, OpTypes, Idle
  <1>2. op[p].res \in Seq(Document) /\ op[p].ids \in Seq(Ids)
    BY <1>1 DEF ReadStates
  <1>3. CASE op[p].ids = <<>>
    <2>1. Found(p, op[p].res) /\ Within /\ UNCHANGED store
      BY <1>3 DEF FindRead
    <2> QED
      BY <1>1, <1>2, <1>3, <2>1, FoundIs
  <1>4. CASE op[p].ids # <<>>
    <2> DEFINE id == Head(op[p].ids)
               res == IF matchesFilters(docs[id], op[p].find.filters)
                      THEN Append(op[p].res, docs[id]) ELSE op[p].res
               s == [op[p] EXCEPT !.ids = Tail(op[p].ids), !.res = res]
    <2>1. Goto(p, s) /\ UNCHANGED <<docs, indexes, saved, mu, restarts>>
      BY <1>1, <1>4 DEF FindRead, Within, store, ReadStates
    <2>2. id \in Ids /\ Tail(op[p].ids) \in Seq(Ids)
      BY <1>2, <1>4, HeadElements
    <2>3. res \in Seq(Document)
      <3>1. matchesFilters(docs[id], op[p].find.filters) => docs[id] \in Document
        BY <2>2 DEF matchesFilters, StoreTypes, DocOrNone
      <3> QED
        BY <1>2, <3>1, AppendElements
    <2> HIDE DEF res
    <2>4. s \in ReadStates
      BY <1>1, <2>2, <2>3 DEF ReadStates
    <2>5. s.pc = "read" /\ s.find = op[p].find /\ s.ids = Tail(op[p].ids) /\ s.res = res /\ s \in States
      BY <1>1, <2>4, StatesHas DEF ReadStates
    <2> HIDE DEF s
    <2>6. OpTypes'
      BY <1>1, <2>1, <2>5, MutexKept
    <2>7. op'[p] = s /\ \A q \in Procs \ {p} : op'[q] = op[q]
      BY <2>1, <2>5, GotoIs
    <2>8. StoreTypes'
      BY <2>1 DEF StoreTypes
    <2> QED
      BY <1>1, <1>4, <2>1, <2>5, <2>6, <2>7, <2>8 DEF Moves, res
  <1> QED
    BY <1>3, <1>4

Matches(filters) == {id \in Ids : matchesFilters(docs[id], filters)}
MatchList(filters) == LET ids == Sorted(Matches(filters)) IN [i \in DOMAIN ids |-> docs[ids[i]]]

\* A search by scan finds the documents that match in one transaction.
LEMMA ScanIs ==
    ASSUME OpTypes, StoreTypes, NEW p \in Procs, FindScan(p)
    PROVE  /\ Moves(p) /\ StoreTypes'
           /\ op[p].pc = "scan" /\ op[p] # Idle /\ op[p] \in ScanStates
           /\ op'[p].find = op[p].find /\ op'[p].pc = "found"
           /\ MatchList(op[p].find.filters) \in Seq(Document)
           /\ Elements(MatchList(op[p].find.filters)) = {docs[id] : id \in Matches(op[p].find.filters)}
           /\ op'[p].res = Paginate(MatchList(op[p].find.filters), op[p].find)
           /\ UNCHANGED <<docs, indexes, saved, mu, restarts>>
  <1> DEFINE M == Matches(op[p].find.filters)
  <1>1. op[p].pc = "scan" /\ op[p] \in States /\ op[p] # Idle /\ op[p] \in ScanStates
    BY StateIs DEF FindScan, OpTypes, Idle
  <1>2. Found(p, MatchList(op[p].find.filters)) /\ Within /\ UNCHANGED store
    BY DEF FindScan, Matches, MatchList
  <1>3. /\ M \subseteq Ids /\ M \in SUBSET Nat /\ IsFiniteSet(M)
        /\ \A id \in M : docs[id] \in Document
    BY DocAssumption, FS_Subset DEF Matches, matchesFilters, StoreTypes, DocOrNone
  <1> HIDE DEF M
  <1>4. /\ Cardinality(M) \in Nat /\ Sorted(M) \in [1 .. Cardinality(M) -> M]
        /\ Elements(Sorted(M)) = M
    BY <1>3, SortedIs
  <1> DEFINE ids == Sorted(M)
             list == [i \in DOMAIN ids |-> docs[ids[i]]]
  <1>5. MatchList(op[p].find.filters) = list
    BY DEF MatchList, M
  <1> HIDE DEF ids
  <1>6. list \in Seq(Document)
    <2>1. list \in [1 .. Cardinality(M) -> Document]
      BY <1>3, <1>4 DEF ids
    <2> QED
      BY <1>4, <2>1
  <1>7. Elements(list) = {docs[id] : id \in M}
    <2>1. M = {ids[i] : i \in DOMAIN ids}
      BY <1>4 DEF Elements, ids
    <2> QED
      BY <2>1 DEF Elements
  <1> HIDE DEF list
  <1> QED
    BY <1>1, <1>2, <1>5, <1>6, <1>7, FoundIs DEF M

\* Find returns, and a write by query goes on with what was found.
LEMMA ReturnIs ==
    ASSUME OpTypes, StoreTypes, NEW p \in Procs, FindReturn(p)
    PROVE  /\ Moves(p) /\ StoreTypes'
           /\ op[p].pc = "found" /\ op[p] # Idle /\ op[p].res \in Seq(Document)
           /\ \/ op'[p].pc = "idle"
              \/ op'[p].pc = "get" /\ Elements(op'[p].todo) = {NameOf(d) : d \in Elements(op[p].res)}
           /\ UNCHANGED <<docs, indexes, saved, mu, restarts>>
  <1> DEFINE names == [i \in DOMAIN op[p].res |-> NameOf(op[p].res[i])]
             s == IF op[p].act = None THEN Idle ELSE Work(names, op[p].act)
  <1>1. op[p].pc = "found" /\ op[p] \in States /\ op[p] # Idle /\ op[p] \in FoundStates
    BY StateIs DEF FindReturn, OpTypes, Idle
  <1>2. op[p].res \in Seq(Document) /\ op[p].act \in Acts \cup {None}
    BY <1>1 DEF FoundStates
  <1>3. names \in Seq(IdOrNone) /\ Elements(names) = {NameOf(d) : d \in Elements(op[p].res)}
    BY <1>2, NamesAre
  <1>4. Goto(p, s) /\ UNCHANGED <<docs, indexes, saved, mu, restarts>>
    BY DEF FindReturn, Within, store
  <1> HIDE DEF names
  <1>5. s \in States /\ (s.pc = "idle" \/ (s.pc = "get" /\ s.todo = names))
    BY <1>2, <1>3, WorkIs, StatesHas DEF Idle
  <1> HIDE DEF s
  <1>6. OpTypes'
    BY <1>1, <1>5, <1>4, MutexKept
  <1>7. op'[p] = s /\ \A q \in Procs \ {p} : op'[q] = op[q]
    BY <1>5, <1>4, GotoIs
  <1>8. StoreTypes'
    BY <1>4 DEF StoreTypes
  <1> QED
    BY <1>1, <1>2, <1>5, <1>4, <1>6, <1>7, <1>8, <1>3 DEF Moves
\* Nobody has the name of the free lock.
LEMMA NoneIsNobody == None \notin Procs
  BY DocAssumption

\* Indexes.
LEMMA CreateScanIs ==
    ASSUME OpTypes, StoreTypes, NEW p \in Procs, NEW f \in Fields, CreateIndexScan(p, f)
    PROVE  /\ Moves(p) /\ StoreTypes' /\ mu = None
           /\ op[p] = Idle /\ op[p].pc = "idle"
           /\ op'[p].pc = "build" /\ op'[p].field = f /\ op'[p].scan = docs
           /\ UNCHANGED <<docs, indexes, saved, restarts>>
  <1> DEFINE s == [pc |-> "build", field |-> f, scan |-> docs]
  <1>1. op[p] = Idle /\ op[p].pc = "idle" /\ Goto(p, s) /\ mu = None /\ mu' = p
        /\ UNCHANGED <<docs, indexes, saved, restarts>>
    BY DEF CreateIndexScan, Call, Idle
  <1>2. s \in BuildStates
    BY DEF BuildStates, StoreTypes
  <1>3. s \in States /\ s.pc = "build" /\ s.field = f /\ s.scan = docs
    BY <1>2, StatesHas
  <1> HIDE DEF s
  <1>4. op' \in [Procs -> States] /\ op'[p] = s /\ \A q \in Procs \ {p} : op'[q] = op[q]
    BY <1>1, <1>3, GotoIs
  <1>5. OpTypes'
    BY <1>1, <1>3, <1>4, NoneIsNobody DEF OpTypes
  <1>6. StoreTypes'
    BY <1>1 DEF StoreTypes
  <1> QED
    BY <1>1, <1>3, <1>4, <1>5, <1>6 DEF Moves, OpTypes

\* A name is that of an id.
LEMMA NamedIs ==
    ASSUME NEW doc
    PROVE  NameOf(doc) \in Ids \cup {None}
  BY DEF NameOf

\* The documents with a name that a scan has under a value, and their names.
Under(scan, f, v) == {id \in Ids : scan[id] # NoDoc /\ scan[id][f] = v /\ NameOf(scan[id]) # None}

NameList(scan, f, v) ==
    LET ids == Sorted(Under(scan, f, v)) IN [i \in DOMAIN ids |-> NameOf(scan[ids[i]])]

\* CreateIndex enters the names of the documents of its scan in the order of their keys:
\* a name that only one document has, once.
LEMMA UnderIs ==
    ASSUME NEW scan, NEW f, NEW v
    PROVE  /\ NameList(scan, f, v) \in Seq(Ids)
           /\ Elements(NameList(scan, f, v)) = {NameOf(scan[id]) : id \in Under(scan, f, v)}
           /\ \A n \in Ids :
                 (\A id \in Under(scan, f, v) : NameOf(scan[id]) = n => id = n) => Once(NameList(scan, f, v), n)
  <1> DEFINE M == Under(scan, f, v)
             s == Sorted(M)
             t == [i \in DOMAIN s |-> NameOf(scan[s[i]])]
  <1>1. M \subseteq Ids /\ M \in SUBSET Nat /\ IsFiniteSet(M)
    BY DocAssumption, FS_Subset DEF Under
  <1>2. \A id \in M : NameOf(scan[id]) \in Ids
    BY NamedIs DEF Under
  <1>3. NameList(scan, f, v) = t
    BY DEF NameList
  <1> HIDE DEF M
  <1>4. /\ Cardinality(M) \in Nat /\ s \in [1 .. Cardinality(M) -> M]
        /\ Elements(s) = M /\ InOrder(s)
    BY <1>1, SortedIs
  <1> HIDE DEF s
  <1>5. t \in Seq(Ids)
    <2>1. t \in [1 .. Cardinality(M) -> Ids]
      BY <1>2, <1>4
    <2> QED
      BY <1>4, <2>1
  <1>6. Elements(t) = {NameOf(scan[id]) : id \in M}
    BY <1>4 DEF Elements
  <1>7. ASSUME NEW n \in Ids, \A id \in M : NameOf(scan[id]) = n => id = n
        PROVE  Once(t, n)
    <2> SUFFICES ASSUME NEW i \in DOMAIN s, NEW j \in DOMAIN s, t[i] = n, t[j] = n
                 PROVE  i = j
      BY DEF Once
    <2>1. s[i] = n /\ s[j] = n
      BY <1>4, <1>7
    <2>2. i \in Nat /\ j \in Nat /\ n \in Nat
      BY <1>4, DocAssumption
    <2>3. ~(i < j) /\ ~(j < i)
      BY <1>4, <2>1, <2>2 DEF InOrder
    <2> QED
      BY <2>2, <2>3
  <1> HIDE DEF t
  <1> QED
    BY <1>3, <1>5, <1>6, <1>7 DEF M

\* CreateIndex appends what it scanned to the lists and releases the lock.
LEMMA BuildIs ==
    ASSUME OpTypes, StoreTypes, NEW p \in Procs, CreateIndexBuild(p)
    PROVE  /\ Moves(p) /\ StoreTypes' /\ mu = p /\ mu' = None
           /\ op[p].pc = "build" /\ op[p] # Idle /\ op[p].field \in Fields
           /\ op'[p] = Idle /\ op'[p].pc = "idle"
           /\ indexes'[op[p].field] \in [Values -> Seq(Ids)]
           /\ \A v \in Values :
                 indexes'[op[p].field][v] =
                    (IF indexes[op[p].field] = NoIndex THEN <<>> ELSE indexes[op[p].field][v])
                       \o NameList(op[p].scan, op[p].field, v)
           /\ \A f \in Fields \ {op[p].field} : indexes'[f] = indexes[f]
           /\ UNCHANGED <<docs, restarts>>
  <1> DEFINE f == op[p].field
             base == IF indexes[f] = NoIndex THEN EmptyIndex ELSE indexes[f]
             made == [v \in Values |-> base[v] \o NameList(op[p].scan, f, v)]
  <1>1. op[p].pc = "build" /\ op[p] \in States /\ op[p] # Idle /\ op[p] \in BuildStates
    BY StateIs DEF CreateIndexBuild, OpTypes, Idle
  <1>2. f \in Fields
    BY <1>1 DEF BuildStates
  <1>3. Goto(p, Idle) /\ mu' = None /\ UNCHANGED <<docs, restarts>>
    BY DEF CreateIndexBuild, Within
  <1>4. indexes' = [indexes EXCEPT ![f] = made]
    BY DEF CreateIndexBuild, Under, NameList
  <1>5. \A v \in Values :
          base[v] = (IF indexes[f] = NoIndex THEN <<>> ELSE indexes[f][v]) /\ base[v] \in Seq(Ids)
    BY <1>2, NoElements DEF EmptyIndex, StoreTypes
  <1> HIDE DEF base
  <1>6. \A v \in Values : base[v] \o NameList(op[p].scan, f, v) \in Seq(Ids)
    BY <1>5, UnderIs, ConcatElements
  <1>7. made \in [Values -> Seq(Ids)]
    BY <1>6
  <1>8. \A v \in Values : made[v] = base[v] \o NameList(op[p].scan, f, v)
    OBVIOUS
  <1> HIDE DEF made
  <1>9. indexes'[f] = made /\ \A g \in Fields \ {f} : indexes'[g] = indexes[g]
    BY <1>2, <1>4 DEF StoreTypes
  <1>10. StoreTypes'
    BY <1>2, <1>3, <1>4, <1>7 DEF StoreTypes
  <1>11. op' \in [Procs -> States] /\ op'[p] = Idle /\ \A q \in Procs \ {p} : op'[q] = op[q]
    BY <1>3, GotoIs, StatesHas
  <1>12. OpTypes' /\ mu = p
    BY <1>1, <1>3, <1>11, NoneIsNobody DEF OpTypes, Idle
  <1>13. op'[p].pc = "idle"
    BY <1>11 DEF Idle
  <1> QED
    BY <1>1, <1>2, <1>3, <1>5, <1>7, <1>8, <1>9, <1>10, <1>11, <1>12, <1>13 DEF Moves, OpTypes

\* DropIndex removes one index under the lock.
LEMMA DropIs ==
    ASSUME OpTypes, StoreTypes, NEW p \in Procs, NEW f \in Fields, DropIndex(p, f)
    PROVE  /\ Moves(p) /\ StoreTypes' /\ mu = None /\ op' = op
           /\ op[p] = Idle /\ op[p].pc = "idle"
           /\ indexes'[f] = NoIndex
           /\ \A g \in Fields \ {f} : indexes'[g] = indexes[g]
           /\ UNCHANGED <<docs, mu, restarts>>
  <1>1. op[p] = Idle /\ op[p].pc = "idle" /\ mu = None /\ indexes' = [indexes EXCEPT ![f] = NoIndex]
        /\ UNCHANGED <<docs, mu, op, restarts>>
    BY DEF DropIndex, Call, Idle
  <1>2. OpTypes'
    BY <1>1 DEF OpTypes
  <1> QED
    BY <1>1, <1>2 DEF StoreTypes, Moves, OpTypes

\* A restart keeps the documents and ends all calls.
LEMMA RestartIs ==
    ASSUME OpTypes, StoreTypes, restarts \in Nat, Restart
    PROVE  /\ OpTypes' /\ StoreTypes' /\ mu' = None
           /\ restarts' # restarts /\ restarts' \in Nat
           /\ op' \in [Procs -> States] /\ \A p \in Procs : op'[p] = Idle /\ op'[p].pc = "idle"
           /\ docs' = docs
  <1>1. /\ indexes' = [f \in Fields |-> IF f \in saved THEN EmptyIndex ELSE NoIndex]
        /\ mu' = None /\ op' = [p \in Procs |-> Idle] /\ docs' = docs /\ restarts' = restarts + 1
    BY DEF Restart
  <1>2. EmptyIndex \in [Values -> Seq(Ids)]
    BY NoElements DEF EmptyIndex
  <1>3. op' \in [Procs -> States] /\ \A p \in Procs : op'[p] = Idle /\ op'[p].pc = "idle"
    BY <1>1, StatesHas DEF Idle
  <1>4. StoreTypes'
    BY <1>1, <1>2 DEF StoreTypes
  <1>5. OpTypes'
    BY <1>1, <1>3, DocAssumption DEF OpTypes
  <1> QED
    BY <1>1, <1>3, <1>4, <1>5
\* A step of a goroutine that leaves the documents alone and neither begins nor ends a
\* write.
Writing == {"store", "remove", "add"}

Aside(p) == docs' = docs /\ op[p].pc \notin Writing /\ op'[p].pc \notin Writing

\* Beginning a write, searching and making indexes neither change nor write documents.
LEMMA AsideIs ==
    ASSUME OpTypes, StoreTypes, NEW p \in Procs,
           \/ \E id \in Ids, u \in Updates : Update(p, id, u)
           \/ \E id \in Ids : DeleteOne(p, id)
           \/ FinderStep(p) \/ IndexStep(p)
    PROVE  /\ Aside(p) /\ Moves(p) /\ StoreTypes' /\ UNCHANGED restarts
  <1>1. CASE \E id \in Ids, u \in Updates : Update(p, id, u)
    BY <1>1, StartWorkIs DEF Update, Acts, Aside, Writing
  <1>2. CASE \E id \in Ids : DeleteOne(p, id)
    BY <1>2, StartWorkIs DEF DeleteOne, Acts, Aside, Writing
  <1>3. CASE \E o \in Finds : Find(p, o, None)
    BY <1>3, FindIs DEF Searches, Aside, Writing
  <1>4. CASE \E s \in Selections : Find(p, s.find, s.act)
    BY <1>4, FindIs, DocAssumption DEF Searches, Acts, Aside, Writing
  <1>5. CASE FindRead(p)
    BY <1>5, ReadIs DEF Aside, Writing
  <1>6. CASE FindScan(p)
    BY <1>6, ScanIs DEF Aside, Writing
  <1>7. CASE FindReturn(p)
    BY <1>7, ReturnIs DEF Aside, Writing
  <1>8. CASE \E f \in IndexFields : CreateIndexScan(p, f)
    BY <1>8, CreateScanIs, DocAssumption DEF Aside, Writing
  <1>9. CASE \E f \in IndexFields : DropIndex(p, f)
    BY <1>9, DropIs, DocAssumption DEF Aside, Writing
  <1>10. CASE CreateIndexBuild(p)
    BY <1>10, BuildIs DEF Aside, Writing
  <1> QED
    BY <1>1, <1>2, <1>3, <1>4, <1>5, <1>6, <1>7, <1>8, <1>9, <1>10 DEF FinderStep, IndexStep

\* Every step is a restart or one of a goroutine.
Inserts(p) == \E id \in Ids, doc \in Documents : Insert(p, id, doc)
Updating(p) == \E id \in Ids, u \in Updates : Update(p, id, u)
Deleting(p) == \E id \in Ids : DeleteOne(p, id)
Walks(p) == Updating(p) \/ Deleting(p) \/ FinderStep(p) \/ IndexStep(p)

\* Every step is a restart or a step of one goroutine.
LEMMA StepIs ==
    ASSUME Types, Next
    PROVE  \/ Restart /\ restarts' # restarts
           \/ /\ restarts' = restarts /\ StoreTypes'
              /\ \E p \in Procs :
                    /\ Moves(p)
                    /\ \/ Inserts(p) \/ Get(p) \/ Store(p) \/ removeIndexes(p)
                       \/ updateIndexes(p) \/ (Walks(p) /\ Aside(p))
  <1>1. CASE Restart
    BY <1>1, RestartIs DEF Types, HistoryTypes
  <1>2. ASSUME NEW p \in Procs, WriterStep(p) \/ FinderStep(p) \/ IndexStep(p)
        PROVE  /\ restarts' = restarts /\ StoreTypes'
               /\ Moves(p)
               /\ \/ Inserts(p) \/ Get(p) \/ Store(p) \/ removeIndexes(p)
                  \/ updateIndexes(p) \/ (Walks(p) /\ Aside(p))
    <2>1. CASE Inserts(p)
      BY <2>1, InsertIs DEF Types, Inserts
    <2>2. CASE Get(p)
      BY <2>2, GetIs DEF Types
    <2>3. CASE Store(p)
      BY <2>3, StoreIs DEF Types
    <2>4. CASE removeIndexes(p)
      BY <2>4, RemoveIs DEF Types
    <2>5. CASE updateIndexes(p)
      BY <2>5, AddIs DEF Types
    <2>6. CASE Walks(p)
      BY <2>6, AsideIs DEF Types, Walks, Updating, Deleting
    <2>7. \/ Inserts(p) \/ Get(p) \/ Store(p) \/ removeIndexes(p) \/ updateIndexes(p) \/ Walks(p)
      BY <1>2 DEF WriterStep, Walks, Inserts, Updating, Deleting
    <2> QED
      BY <2>1, <2>2, <2>3, <2>4, <2>5, <2>6, <2>7
  <1> QED
    BY <1>1, <1>2 DEF Next

\* What a step records, unless it is a restart.
LEMMA HistoryIs ==
    ASSUME Next, restarts' = restarts
    PROVE  /\ raced' = raced \cup Overlapped(op')
           /\ \A f \in Fields : gap'[f] = NextGap(f) /\ messy'[f] = NextMessy(f)
           /\ \A id \in Ids : want'[id] = NextWant(id)
           /\ \A p \in Procs : steady'[p] = NextSteady(p) /\ ever'[p] = NextEver(p)
  BY DEF Next, Observe

\* Every step preserves the types.
LEMMA TypesKept ==
    ASSUME Types, Next
    PROVE  Types'
  <1>1. OpTypes' /\ StoreTypes' /\ restarts' \in Nat
    BY StepIs, RestartIs DEF Types, HistoryTypes, Moves
  <1>2. DOMAIN gap' = Fields /\ DOMAIN want' = Ids /\ DOMAIN steady' = Procs /\ DOMAIN ever' = Procs
    <2>1. CASE restarts' # restarts
      <3>1. docs' = docs /\ DOMAIN docs = Ids
        BY <2>1, StepIs, RestartIs DEF Types, HistoryTypes, StoreTypes
      <3> QED
        BY <2>1, <3>1 DEF Next, Observe
    <2>2. CASE restarts' = restarts
      BY <2>2 DEF Next, Observe
    <2> QED
      BY <2>1, <2>2
  <1> QED
    BY <1>1, <1>2 DEF Types, HistoryTypes

-----------------------------------------------------------------------------
(***************************************************************************)
(* Writes that nobody overlaps.                                            *)
(***************************************************************************)
LEMMA NotOverlapped ==
    ASSUME NEW id \in Ids, id \notin Overlapped(op')
    PROVE  Alone(id)'
  <1> DEFINE W == Writers(op', id)
  <1>1. W \subseteq Procs /\ IsFiniteSet(W) /\ ~(Cardinality(W) > 1)
    BY DocAssumption, FS_Subset DEF Overlapped, Writers
  <1> HIDE DEF W
  <1>2. ASSUME NEW p \in W, NEW q \in W, p # q
        PROVE  FALSE
    <2>1. {p, q} \subseteq W
      OBVIOUS
    <2>2. Cardinality({p, q}) <= Cardinality(W) /\ IsFiniteSet({p, q})
      BY <1>1, <2>1, FS_Subset
    <2>3. Cardinality({p, q}) = 2
      <3>1. IsFiniteSet({p}) /\ Cardinality({p}) = 1
        BY FS_Singleton
      <3>2. {p, q} = {p} \cup {q} /\ q \notin {p}
        BY <1>2
      <3> QED
        BY <3>1, <3>2, FS_AddElement
    <2>4. Cardinality(W) \in Nat
      BY <1>1, FS_CardinalityType
    <2> QED
      BY <1>1, <2>2, <2>3, <2>4
  <1>3. Writers(op, id)' = W
    BY DEF Writers, Writes, W
  <1> QED
    BY <1>2, <1>3 DEF Alone
\* A goroutine writes a document when its place and its id say so.
LEMMA WritersAre ==
    ASSUME NEW id
    PROVE  /\ \A p \in Procs : p \in Writers(op, id) <=> op[p].pc \in Writing /\ op[p].id = id
           /\ \A p \in Procs : p \in Writers(op', id) <=> op'[p].pc \in Writing /\ op'[p].id = id
           /\ Writers(op, id) \subseteq Procs /\ Writers(op', id) \subseteq Procs
           /\ Writers(op, id)' = Writers(op', id)
  BY DEF Writers, Writes, Writing

\* A step leaves what a document should be, unless it stores or inserts the document.
LEMMA WantKept ==
    ASSUME Next, restarts' = restarts, NEW p \in Procs, Moves(p), NEW id \in Ids,
           ~(op[p].pc = "store" /\ op[p].id = id),
           ~(op[p] = Idle /\ op'[p].pc = "add" /\ op'[p].id = id)
    PROVE  want'[id] = want[id]
  <1>1. \A q \in Procs : op'[q] # op[q] => q = p
    BY DEF Moves
  <1>2. {q \in Procs : op[q].pc = "store" /\ op[q].id = id /\ op'[q] # op[q]} = {}
    BY <1>1
  <1>3. {q \in Procs : op[q] = Idle /\ op'[q].pc = "add" /\ op'[q].id = id} = {}
    <2> SUFFICES ASSUME NEW q \in Procs, op[q] = Idle, op'[q].pc = "add", op'[q].id = id
                 PROVE  FALSE
      OBVIOUS
    <2>1. op'[q] # op[q]
      BY DEF Idle
    <2> QED
      BY <1>1, <2>1
  <1>4. want'[id] = NextWant(id)
    BY HistoryIs
  <1> QED
    BY <1>2, <1>3, <1>4 DEF NextWant

\* The one who stores a document alone stores what it should become.
LEMMA WantStored ==
    ASSUME Next, restarts' = restarts, NEW p \in Procs, Moves(p), NEW id \in Ids,
           op[p].pc = "store", op[p].id = id, op'[p].pc = "remove", want[id] # NoDoc
    PROVE  want'[id] = Stored(Apply(op[p].act, id, want[id]))
  <1> DEFINE stored == {q \in Procs : op[q].pc = "store" /\ op[q].id = id /\ op'[q] # op[q]}
  <1>1. \A q \in Procs : op'[q] # op[q] => q = p
    BY DEF Moves
  <1>2. op'[p] # op[p]
    OBVIOUS
  <1>3. stored = {p}
    BY <1>1, <1>2
  <1>4. (CHOOSE q \in stored : TRUE) = p /\ stored # {}
    BY <1>3
  <1>5. want'[id] = NextWant(id)
    BY HistoryIs
  <1>6. {q \in Procs : op[q] = Idle /\ op'[q].pc = "add" /\ op'[q].id = id} = {}
    BY <1>1 DEF Idle
  <1>7. NextWant(id) = Stored(Apply(op[CHOOSE q \in stored : TRUE].act, id, want[id]))
    BY <1>4, <1>6 DEF NextWant
  <1> QED
    BY <1>4, <1>5, <1>7

\* An insert makes the wanted document the inserted one.
LEMMA WantInserted ==
    ASSUME Next, restarts' = restarts, NEW p \in Procs, Moves(p), NEW id \in Ids,
           op[p] = Idle, op'[p].pc = "add", op'[p].id = id
    PROVE  want'[id] = Stored(op'[p].new)
  <1> DEFINE stored == {q \in Procs : op[q].pc = "store" /\ op[q].id = id /\ op'[q] # op[q]}
             inserted == {q \in Procs : op[q] = Idle /\ op'[q].pc = "add" /\ op'[q].id = id}
  <1>1. \A q \in Procs : op'[q] # op[q] => q = p
    BY DEF Moves
  <1>2. op[p].pc = "idle"
    BY DEF Idle
  <1>3. stored = {}
    BY <1>1, <1>2
  <1>4. inserted = {p}
    <2> SUFFICES ASSUME NEW q \in inserted
                 PROVE  q = p
      OBVIOUS
    <2>1. op'[q] # op[q]
      BY DEF Idle
    <2> QED
      BY <1>1, <2>1
  <1>5. (CHOOSE q \in inserted : TRUE) = p
    BY <1>4
  <1>6. want'[id] = NextWant(id)
    BY HistoryIs
  <1>7. NextWant(id) = Stored(op'[CHOOSE q \in inserted : TRUE].new)
    BY <1>3, <1>4 DEF NextWant
  <1> QED
    BY <1>5, <1>6, <1>7

\* What a writer has stored stays in the store while it writes alone.
LEMMA CurrentKept ==
    ASSUME Types, Next, restarts' = restarts, NEW id \in Ids, Current(id), Alone(id)'
    PROVE  Current(id)'
  <1>1. PICK p \in Procs :
          /\ Moves(p)
          /\ \/ Inserts(p) \/ Get(p) \/ Store(p) \/ removeIndexes(p)
             \/ updateIndexes(p) \/ (Walks(p) /\ Aside(p))
    BY StepIs
  <1>2. \A q \in Procs \ {p} : op'[q] = op[q]
    BY <1>1 DEF Moves
  <1>3. \A q \in Procs \ {p} :
          op'[p].pc \in Writing /\ op'[p].id = id /\ op'[q].pc \in Writing => op'[q].id # id
    BY WritersAre DEF Alone
  <1> SUFFICES ASSUME NEW q \in Procs, op'[q].pc \in {"remove", "add"}, op'[q].id = id
               PROVE  docs'[id] = Stored(op'[q].new)
    BY DEF Current, Stored
  <1>4. CASE Inserts(p)
    <2>1. PICK i \in Ids, doc \in Documents : Insert(p, i, doc)
      BY <1>4 DEF Inserts
    <2>2. /\ op'[p].pc = "add" /\ op'[p].id = i
          /\ docs' = [docs EXCEPT ![i] = Stored(op'[p].new)]
      BY <2>1, InsertIs DEF Types
    <2>3. docs \in [Ids -> DocOrNone]
      BY DEF Types, StoreTypes
    <2>4. CASE i = id
      BY <1>3, <2>2, <2>3, <2>4 DEF Writing
    <2>5. CASE i # id
      BY <1>2, <2>2, <2>3, <2>5 DEF Current
    <2> QED
      BY <2>4, <2>5
  <1>5. CASE Get(p)
    BY <1>2, <1>5, GetIs DEF Types, Current
  <1>6. CASE Store(p)
    <2>1. /\ op'[p].pc = "remove" /\ op'[p].id = op[p].id /\ op'[p].new = op[p].new
          /\ docs' = [docs EXCEPT ![op[p].id] = Stored(op[p].new)]
      BY <1>6, StoreIs DEF Types
    <2>2. docs \in [Ids -> DocOrNone]
      BY DEF Types, StoreTypes
    <2>3. CASE op[p].id = id
      BY <1>3, <2>1, <2>2, <2>3 DEF Writing
    <2>4. CASE op[p].id # id
      BY <1>2, <2>1, <2>2, <2>4 DEF Current
    <2> QED
      BY <2>3, <2>4
  <1>7. CASE removeIndexes(p)
    BY <1>2, <1>7, RemoveIs DEF Types, Current
  <1>8. CASE updateIndexes(p)
    BY <1>2, <1>8, AddIs DEF Types, Current
  <1>9. CASE Walks(p) /\ Aside(p)
    BY <1>2, <1>9 DEF Aside, Writing, Current
  <1> QED
    BY <1>1, <1>4, <1>5, <1>6, <1>7, <1>8, <1>9

\* A document that no two calls wrote at once stays what its calls made it.
LEMMA InTurnKept ==
    ASSUME Types, Next, NEW id \in Ids, id \notin raced',
           id \notin raced => InTurn(id)
    PROVE  InTurn(id)'
  <1>1. CASE restarts' # restarts
    <2>1. /\ \A p \in Procs : op'[p].pc = "idle"
          /\ docs' = docs
      BY <1>1, StepIs, RestartIs DEF Types, HistoryTypes
    <2>2. want' = docs
      BY <1>1 DEF Next, Observe
    <2>3. Writers(op', id) = {}
      BY <2>1, WritersAre DEF Writing
    <2> QED
      BY <2>1, <2>2, <2>3, WritersAre DEF InTurn, Alone, Current
  <1>2. CASE restarts' = restarts
    <2>1. Alone(id)' /\ InTurn(id)
      BY <1>2, HistoryIs, NotOverlapped
    <2>2. Current(id)'
      BY <1>2, <2>1, CurrentKept DEF InTurn
    <2>3. PICK p \in Procs :
            /\ Moves(p)
            /\ \/ Inserts(p) \/ Get(p) \/ Store(p) \/ removeIndexes(p)
               \/ updateIndexes(p) \/ (Walks(p) /\ Aside(p))
      BY <1>2, StepIs
    <2>4. \A q \in Procs \ {p} : op'[q] = op[q]
      BY <2>3 DEF Moves
    <2>5. \A q \in Procs \ {p} :
            op'[p].pc \in Writing /\ op'[p].id = id /\ op'[q].pc \in Writing => op'[q].id # id
      BY <2>1, WritersAre DEF Alone
    <2>6. ASSUME want'[id] = want[id], docs'[id] = docs[id],
                 op'[p].pc = "store" /\ op'[p].id = id =>
                    docs[id] # NoDoc /\ op'[p].new = Apply(op'[p].act, id, docs[id])
          PROVE  InTurn(id)'
      BY <2>1, <2>2, <2>4, <2>6 DEF InTurn
    <2>7. docs \in [Ids -> DocOrNone]
      BY DEF Types, StoreTypes
    <2>8. CASE Inserts(p)
      <3>1. PICK i \in Ids, doc \in Documents : Insert(p, i, doc)
        BY <2>8 DEF Inserts
      <3>2. /\ op[p] = Idle
            /\ op'[p].pc = "add" /\ op'[p].id = i
            /\ docs' = [docs EXCEPT ![i] = Stored(op'[p].new)]
        BY <3>1, InsertIs DEF Types
      <3>3. CASE i = id
        <4>1. want'[id] = Stored(op'[p].new)
          BY <1>2, <2>3, <3>2, <3>3, WantInserted
        <4>2. docs'[id] = Stored(op'[p].new)
          BY <2>7, <3>2, <3>3
        <4>3. \A q \in Procs : ~(op'[q].pc = "store" /\ op'[q].id = id)
          BY <2>5, <3>2, <3>3 DEF Writing
        <4> QED
          BY <2>1, <2>2, <4>1, <4>2, <4>3 DEF InTurn
      <3>4. CASE i # id
        <4>1. want'[id] = want[id]
          BY <1>2, <2>3, <3>2, <3>4, WantKept DEF Idle
        <4>2. docs'[id] = docs[id]
          BY <2>7, <3>2, <3>4
        <4> QED
          BY <2>6, <3>2, <4>1, <4>2
      <3> QED
        BY <3>3, <3>4
    <2>9. CASE Get(p)
      <3>1. want'[id] = want[id]
        BY <1>2, <2>3, <2>9, GetIs, WantKept DEF Types
      <3> QED
        BY <2>6, <2>9, <3>1, GetIs DEF Types
    <2>10. CASE Store(p)
      <3>1. /\ op[p].pc = "store" /\ op[p] # Idle
            /\ op'[p].pc = "remove" /\ op'[p].id = op[p].id /\ op'[p].new = op[p].new
            /\ docs' = [docs EXCEPT ![op[p].id] = Stored(op[p].new)]
        BY <2>10, StoreIs DEF Types
      <3>2. CASE op[p].id = id
        <4>1. docs[id] # NoDoc /\ op[p].new = Apply(op[p].act, id, docs[id]) /\ docs[id] = want[id]
          BY <2>1, <3>1, <3>2 DEF InTurn
        <4>2. want'[id] = Stored(Apply(op[p].act, id, want[id]))
          BY <1>2, <2>3, <3>1, <3>2, <4>1, WantStored
        <4>3. docs'[id] = Stored(op[p].new)
          BY <2>7, <3>1, <3>2
        <4>4. \A q \in Procs : ~(op'[q].pc = "store" /\ op'[q].id = id)
          BY <2>5, <3>1, <3>2 DEF Writing
        <4> QED
          BY <2>1, <2>2, <4>1, <4>2, <4>3, <4>4 DEF InTurn
      <3>3. CASE op[p].id # id
        <4>1. want'[id] = want[id]
          BY <1>2, <2>3, <3>1, <3>3, WantKept
        <4>2. docs'[id] = docs[id]
          BY <2>7, <3>1, <3>3
        <4> QED
          BY <2>6, <3>1, <4>1, <4>2
      <3> QED
        BY <3>2, <3>3
    <2>11. CASE removeIndexes(p)
      <3>1. want'[id] = want[id]
        BY <1>2, <2>3, <2>11, RemoveIs, WantKept DEF Types
      <3>2. op'[p].pc # "store" /\ docs' = docs
        BY <2>11, RemoveIs DEF Types
      <3> QED
        BY <2>6, <3>1, <3>2
    <2>12. CASE updateIndexes(p)
      <3>1. want'[id] = want[id]
        BY <1>2, <2>3, <2>12, AddIs, WantKept DEF Types
      <3>2. op'[p].pc # "store" /\ docs' = docs
        BY <2>12, AddIs DEF Types
      <3> QED
        BY <2>6, <3>1, <3>2
    <2>13. CASE Walks(p) /\ Aside(p)
      <3>1. /\ docs' = docs /\ op[p].pc # "store" /\ op'[p].pc # "store"
            /\ op'[p].pc # "add"
        BY <2>13 DEF Aside, Writing
      <3>2. want'[id] = want[id]
        BY <1>2, <2>3, <3>1, WantKept
      <3> QED
        BY <2>6, <3>1, <3>2
    <2> QED
      BY <2>3, <2>8, <2>9, <2>10, <2>11, <2>12, <2>13
  <1> QED
    BY <1>1, <1>2
-----------------------------------------------------------------------------
(***************************************************************************)
(* Writes by query.                                                        *)
(***************************************************************************)
LEMMA EverIs ==
    ASSUME Next, restarts' = restarts, NEW p \in Procs
    PROVE  /\ op[p] # Idle /\ op'[p] # Idle => ever[p] \subseteq ever'[p]
           /\ op[p] = Idle /\ op'[p] # Idle /\ ~Searching(op'[p]) => ever'[p] = Ids
           /\ Searching(op'[p]) => Matching(op'[p].find) \subseteq ever'[p]
  <1>1. ever'[p] = NextEver(p)
    BY HistoryIs
  <1>2. Searching(op'[p]) => op'[p] # Idle
    BY DEF Searching, Idle
  <1>3. CASE op'[p] = Idle
    BY <1>2, <1>3
  <1>4. CASE op'[p] # Idle /\ Searching(op'[p])
    <2>1. NextEver(p) = ever[p] \cup Matching(op'[p].find)
      BY <1>4 DEF NextEver
    <2> QED
      BY <1>1, <1>4, <2>1
  <1>5. CASE op'[p] # Idle /\ ~Searching(op'[p]) /\ op[p] = Idle
    <2>1. NextEver(p) = Ids
      BY <1>5 DEF NextEver
    <2> QED
      BY <1>1, <1>5, <2>1
  <1>6. CASE op'[p] # Idle /\ ~Searching(op'[p]) /\ op[p] # Idle
    <2>1. NextEver(p) = ever[p]
      BY <1>6 DEF NextEver
    <2> QED
      BY <1>1, <1>6, <2>1
  <1> QED
    BY <1>3, <1>4, <1>5, <1>6

\* Nothing is claimed of a goroutine that neither writes nor has results.
LEMMA NothingToMatch ==
    ASSUME NEW p, op'[p].pc \in {"idle", "scan", "build"}
    PROVE  Matched(p)'
  BY DEF Matched

\* What others do leaves what a call may write within its query.
LEMMA OtherMatched ==
    ASSUME Next, restarts' = restarts, NEW q \in Procs, op'[q] = op[q], Matched(q)
    PROVE  Matched(q)'
  <1>1. CASE op[q] = Idle
    BY <1>1, NothingToMatch DEF Idle
  <1>2. CASE op[q] # Idle
    <2>1. ever[q] \subseteq ever'[q]
      BY <1>2, EverIs
    <2> QED
      BY <2>1 DEF Matched
  <1> QED
    BY <1>1, <1>2

\* Every step keeps what a call may write within its query.
LEMMA MatchedKept ==
    ASSUME Types, Next, \A p \in Procs : Matched(p), NEW q \in Procs
    PROVE  Matched(q)'
  <1>1. CASE restarts' # restarts
    BY <1>1, StepIs, RestartIs, NothingToMatch DEF Types, HistoryTypes
  <1>2. CASE restarts' = restarts
    <2>1. PICK p \in Procs :
            /\ Moves(p)
            /\ \/ Inserts(p) \/ Get(p) \/ Store(p) \/ removeIndexes(p)
               \/ updateIndexes(p) \/ (Walks(p) /\ Aside(p))
      BY <1>2, StepIs
    <2>2. CASE q # p
      BY <1>2, <2>1, <2>2, OtherMatched DEF Moves
    <2> SUFFICES ASSUME q = p
                 PROVE  Matched(p)'
      BY <2>2
    <2>3. Matched(p)
      OBVIOUS
    <2>4. op[p] # Idle /\ op'[p].pc # "idle" => ever[p] \subseteq ever'[p]
      BY <1>2, EverIs DEF Idle
    <2>5. ASSUME op'[p].pc = "get", Elements(op'[p].todo) \subseteq ever'[p]
          PROVE  Matched(p)'
      BY <2>5 DEF Matched
    <2>6. ASSUME op'[p].pc \in {"read", "found"},
                  \A d \in Elements(op'[p].res) : NameOf(d) \in ever'[p]
           PROVE  Matched(p)'
      <3>1. \A d : NameOf(d)' = NameOf(d)
        BY DEF NameOf
      <3>2. Elements(op[p].res)' = Elements(op'[p].res)
        BY DEF Elements
      <3> QED
        BY <2>6, <3>1, <3>2 DEF Matched
    <2>7. CASE Inserts(p)
      <3>1. op'[p].pc = "add" /\ op'[p].todo = <<>>
        BY <2>7, InsertIs DEF Types, Inserts
      <3> QED
        BY <3>1, NoElements DEF Matched
    <2>8. CASE Get(p)
      <3>1. op[p].pc = "get" /\ op[p] # Idle /\ op[p].todo \in Seq(IdOrNone) /\ op[p].todo # <<>>
        BY <2>8, GetIs DEF Types, GetStates
      <3>2. /\ Head(op[p].todo) \in Elements(op[p].todo)
            /\ Elements(Tail(op[p].todo)) \subseteq Elements(op[p].todo)
        BY <3>1, HeadElements
      <3>3. Elements(op[p].todo) \subseteq ever[p]
        BY <2>3, <3>1 DEF Matched
      <3>4. CASE op'[p].pc = "idle"
        BY <3>4, NothingToMatch
      <3>5. CASE op'[p].pc = "get" /\ op'[p].todo = Tail(op[p].todo)
        BY <2>4, <2>5, <3>1, <3>2, <3>3, <3>5
      <3>6. CASE /\ op'[p].pc = "store" /\ op'[p].id = Head(op[p].todo)
                 /\ op'[p].todo = Tail(op[p].todo)
        BY <2>4, <3>1, <3>2, <3>3, <3>6 DEF Matched
      <3> QED
        BY <2>8, <3>4, <3>5, <3>6, GetIs DEF Types
    <2>9. CASE Store(p)
      <3>1. /\ op[p].pc = "store" /\ op[p] # Idle
            /\ op'[p].pc = "remove" /\ op'[p].todo = op[p].todo
        BY <2>9, StoreIs DEF Types
      <3> QED
        BY <2>3, <2>4, <3>1 DEF Matched
    <2>10. CASE removeIndexes(p)
      <3>1. /\ op[p].pc = "remove" /\ op[p] # Idle
            /\ \/ op'[p].pc = "idle"
               \/ op'[p].pc \in {"get", "add"} /\ op'[p].todo = op[p].todo
        BY <2>10, RemoveIs DEF Types
      <3>2. CASE op'[p].pc = "idle"
        BY <3>2, NothingToMatch
      <3>3. CASE op'[p].pc \in {"get", "add"} /\ op'[p].todo = op[p].todo
        BY <2>3, <2>4, <3>1, <3>3 DEF Matched
      <3> QED
        BY <3>1, <3>2, <3>3
    <2>11. CASE updateIndexes(p)
      <3>1. /\ op[p].pc = "add" /\ op[p] # Idle
            /\ \/ op'[p].pc = "idle"
               \/ op'[p].pc = "get" /\ op'[p].todo = op[p].todo
        BY <2>11, AddIs DEF Types
      <3>2. CASE op'[p].pc = "idle"
        BY <3>2, NothingToMatch
      <3>3. CASE op'[p].pc = "get" /\ op'[p].todo = op[p].todo
        BY <2>3, <2>4, <3>1, <3>3 DEF Matched
      <3> QED
        BY <3>1, <3>2, <3>3
    <2>12. CASE Updating(p) \/ Deleting(p)
      <3>1. \E id \in Ids : op[p] = Idle /\ op'[p].pc = "get" /\ op'[p].todo = <<id>>
        BY <2>12, StartWorkIs DEF Types, Updating, Deleting, Update, DeleteOne, Acts
      <3>2. op'[p] # Idle /\ ~Searching(op'[p])
        BY <3>1 DEF Idle, Searching
      <3>3. ever'[p] = Ids
        BY <1>2, <3>1, <3>2, EverIs
      <3> QED
        BY <2>5, <3>1, <3>3 DEF Elements
    <2>13. CASE FinderStep(p)
      <3>1. ASSUME NEW o \in Searches, NEW act \in Acts \cup {None}, Find(p, o, act)
            PROVE  Matched(p)'
        <4>1. op'[p].pc = "scan" \/ (op'[p].pc = "read" /\ op'[p].res = <<>>)
          BY <3>1, FindIs DEF Types
        <4> QED
          BY <4>1, NothingToMatch, NoElements DEF Matched
      <3>2. CASE \E o \in Finds : Find(p, o, None)
        BY <3>1, <3>2 DEF Searches
      <3>3. CASE \E s \in Selections : Find(p, s.find, s.act)
        BY <3>1, <3>3, DocAssumption DEF Searches, Acts
      <3>4. CASE FindRead(p)
        <4>1. /\ op[p].pc = "read" /\ op[p] # Idle /\ op[p].find \in Searches
              /\ op[p].res \in Seq(Document) /\ op[p].ids \in Seq(Ids)
              /\ op'[p].find = op[p].find /\ docs' = docs
          BY <3>4, ReadIs DEF Types, ReadStates
        <4>2. \A d \in Elements(op[p].res) : NameOf(d) \in ever[p]
          BY <2>3, <4>1 DEF Matched
        <4>3. CASE op'[p].pc = "found" /\ op'[p].res = Paginate(op[p].res, op[p].find)
          <5>1. Elements(op'[p].res) \subseteq Elements(op[p].res)
            BY <4>1, <4>3, OptionsAre, PageIs
          <5> QED
            BY <2>4, <2>6, <4>1, <4>2, <4>3, <5>1
        <4>4. CASE /\ op[p].ids # <<>> /\ op'[p].pc = "read"
                   /\ op'[p].res = IF matchesFilters(docs[Head(op[p].ids)], op[p].find.filters)
                                   THEN Append(op[p].res, docs[Head(op[p].ids)]) ELSE op[p].res
          <5> DEFINE doc == docs[Head(op[p].ids)]
          <5>1. Head(op[p].ids) \in Ids /\ doc \in DocOrNone
            BY <4>1, <4>4, HeadElements DEF Types, StoreTypes
          <5>2. \A d \in Elements(op'[p].res) :
                   d \in Elements(op[p].res) \/ (d = doc /\ matchesFilters(doc, op[p].find.filters))
            <6>1. CASE matchesFilters(doc, op[p].find.filters)
              <7>1. doc \in Document
                BY <5>1, <6>1 DEF matchesFilters, DocOrNone
              <7> QED
                BY <4>1, <4>4, <6>1, <7>1, AppendElements
            <6>2. CASE ~matchesFilters(doc, op[p].find.filters)
              BY <4>4, <6>2
            <6> QED
              BY <6>1, <6>2
          <5>3. Matching(op[p].find) \subseteq ever'[p]
            BY <1>2, <4>1, <4>4, EverIs DEF Searching
          <5>4. matchesFilters(doc, op[p].find.filters) => NameOf(doc) \in ever'[p]
            BY <4>1, <5>1, <5>3 DEF Matching
          <5>5. \A d \in Elements(op'[p].res) : NameOf(d) \in ever'[p]
            BY <2>4, <4>1, <4>2, <4>4, <5>2, <5>4
          <5> QED
            BY <2>6, <4>4, <5>5
        <4> QED
          BY <3>4, <4>3, <4>4, ReadIs DEF Types
      <3>5. CASE FindScan(p)
        <4> DEFINE M == Matches(op[p].find.filters)
        <4>1. /\ op[p].find \in Searches /\ op'[p].find = op[p].find /\ docs' = docs
              /\ op'[p].pc = "found"
              /\ op'[p].res = Paginate(MatchList(op[p].find.filters), op[p].find)
              /\ MatchList(op[p].find.filters) \in Seq(Document)
              /\ Elements(MatchList(op[p].find.filters)) = {docs[id] : id \in M}
          BY <3>5, ScanIs DEF Types, ScanStates
        <4>2. Elements(op'[p].res) \subseteq {docs[id] : id \in M}
          BY <4>1, OptionsAre, PageIs
        <4>3. \A id \in M : NameOf(docs[id]) \in Matching(op'[p].find)
          BY <4>1 DEF Matches, Matching
        <4>4. Matching(op'[p].find) \subseteq ever'[p]
          BY <1>2, <4>1, EverIs DEF Searching
        <4>5. \A d \in Elements(op'[p].res) : NameOf(d) \in ever'[p]
          BY <4>2, <4>3, <4>4
        <4> QED
          BY <2>6, <4>1, <4>5
      <3>6. CASE FindReturn(p)
        <4>1. /\ op[p].pc = "found" /\ op[p] # Idle
              /\ \/ op'[p].pc = "idle"
                 \/ op'[p].pc = "get" /\ Elements(op'[p].todo) = {NameOf(d) : d \in Elements(op[p].res)}
          BY <3>6, ReturnIs DEF Types
        <4>2. CASE op'[p].pc = "idle"
          BY <4>2, NothingToMatch
        <4>3. CASE op'[p].pc = "get" /\ Elements(op'[p].todo) = {NameOf(d) : d \in Elements(op[p].res)}
          <5>1. \A d \in Elements(op[p].res) : NameOf(d) \in ever'[p]
            BY <2>3, <2>4, <4>1, <4>3 DEF Matched
          <5> QED
            BY <2>5, <4>3, <5>1
        <4> QED
          BY <4>1, <4>2, <4>3
      <3> QED
        BY <2>13, <3>2, <3>3, <3>4, <3>5, <3>6 DEF FinderStep
    <2>14. CASE IndexStep(p)
      <3>1. op'[p].pc \in {"idle", "build"}
        BY <2>14, CreateScanIs, DropIs, BuildIs, DocAssumption DEF Types, IndexStep
      <3> QED
        BY <3>1, NothingToMatch
    <2> QED
      BY <2>1, <2>7, <2>8, <2>9, <2>10, <2>11, <2>12, <2>13, <2>14 DEF Walks
  <1> QED
    BY <1>1, <1>2
-----------------------------------------------------------------------------
(***************************************************************************)
(* Indexes cover what they should.                                         *)
(***************************************************************************)
\* A document that nobody writes after a step was not written before it either, unless a
\* critical section ended the write; and a document that changed is being written.
LEMMA QuietKept ==
    ASSUME Types, Next, restarts' = restarts, NEW id \in Ids, Quiet(id)'
    PROVE  /\ docs'[id] = docs[id]
           /\ \/ Quiet(id)
              \/ \E p \in Procs :
                    /\ removeIndexes(p) /\ op[p].id = id /\ op[p].new = NoDoc
              \/ \E p \in Procs : updateIndexes(p) /\ op[p].id = id
  <1>1. PICK p \in Procs :
          /\ Moves(p)
          /\ \/ Inserts(p) \/ Get(p) \/ Store(p) \/ removeIndexes(p)
             \/ updateIndexes(p) \/ (Walks(p) /\ Aside(p))
    BY StepIs
  <1>2. \A q \in Procs \ {p} : op'[q] = op[q]
    BY <1>1 DEF Moves
  <1>3. \A q \in Procs : ~(op'[q].pc \in Writing /\ op'[q].id = id)
    BY WritersAre DEF Quiet
  <1>4. ASSUME ~(op[p].pc \in Writing /\ op[p].id = id)
        PROVE  Quiet(id)
    BY <1>2, <1>3, <1>4, WritersAre DEF Quiet
  <1>5. docs \in [Ids -> DocOrNone]
    BY DEF Types, StoreTypes
  <1>6. CASE Inserts(p)
    <2>1. PICK i \in Ids, doc \in Documents : Insert(p, i, doc)
      BY <1>6 DEF Inserts
    <2>2. /\ op[p].pc = "idle" /\ op'[p].pc = "add" /\ op'[p].id = i
          /\ docs' = [docs EXCEPT ![i] = Stored(op'[p].new)]
      BY <2>1, InsertIs DEF Types
    <2>3. i # id
      BY <1>3, <2>2 DEF Writing
    <2>4. op[p].pc \notin Writing
      BY <2>2 DEF Writing
    <2> QED
      BY <1>4, <1>5, <2>2, <2>3, <2>4
  <1>7. CASE Get(p)
    <2>1. op[p].pc = "get" /\ docs' = docs
      BY <1>7, GetIs DEF Types
    <2> QED
      BY <1>4, <2>1 DEF Writing
  <1>8. CASE Store(p)
    <2>1. /\ op'[p].pc = "remove" /\ op'[p].id = op[p].id
          /\ docs' = [docs EXCEPT ![op[p].id] = Stored(op[p].new)]
      BY <1>8, StoreIs DEF Types
    <2>2. op[p].id # id
      BY <1>3, <2>1 DEF Writing
    <2> QED
      BY <1>4, <1>5, <2>1, <2>2
  <1>9. CASE removeIndexes(p)
    <2>1. docs' = docs /\ (op[p].new # NoDoc => op'[p].pc = "add" /\ op'[p].id = op[p].id)
      BY <1>9, RemoveIs DEF Types
    <2> QED
      BY <1>3, <1>4, <1>9, <2>1 DEF Writing
  <1>10. CASE updateIndexes(p)
    <2>1. docs' = docs
      BY <1>10, AddIs DEF Types
    <2> QED
      BY <1>4, <1>10, <2>1
  <1>11. CASE Walks(p) /\ Aside(p)
    BY <1>4, <1>11 DEF Aside
  <1> QED
    BY <1>1, <1>6, <1>7, <1>8, <1>9, <1>10, <1>11

\* Only CreateIndex begins to make an index, from the documents as they are.
LEMMA BuilderIs ==
    ASSUME Types, Next, restarts' = restarts, NEW b \in Procs, op'[b].pc = "build", op'[b] # op[b]
    PROVE  op[b] = Idle /\ op'[b].scan = docs
  <1>1. PICK p \in Procs :
          /\ Moves(p)
          /\ \/ Inserts(p) \/ Get(p) \/ Store(p) \/ removeIndexes(p)
             \/ updateIndexes(p) \/ (Walks(p) /\ Aside(p))
    BY StepIs
  <1>2. b = p
    BY <1>1 DEF Moves
  <1>3. Inserts(p) => op'[p].pc # "build"
    BY InsertIs DEF Inserts, Types
  <1>4. Get(p) \/ Store(p) \/ removeIndexes(p) \/ updateIndexes(p) => op'[p].pc # "build"
    BY GetIs, StoreIs, RemoveIs, AddIs DEF Types
  <1>5. Updating(p) \/ Deleting(p) => op'[p].pc # "build"
    BY StartWorkIs DEF Types, Updating, Deleting, Update, DeleteOne, Acts
  <1>6. FinderStep(p) => op'[p].pc # "build"
    <2>1. (\E o \in Finds : Find(p, o, None)) => op'[p].pc # "build"
      BY FindIs DEF Types, Searches
    <2>2. (\E s \in Selections : Find(p, s.find, s.act)) => op'[p].pc # "build"
      BY FindIs, DocAssumption DEF Types, Searches, Acts
    <2> QED
      BY <2>1, <2>2, ReadIs, ScanIs, ReturnIs DEF Types, FinderStep
  <1>7. IndexStep(p) => op'[p].pc = "idle" \/ (op[p] = Idle /\ op'[p].scan = docs)
    BY CreateScanIs, DropIs, BuildIs, DocAssumption DEF Types, IndexStep
  <1> QED
    BY <1>1, <1>2, <1>3, <1>4, <1>5, <1>6, <1>7 DEF Walks

\* Every step keeps the scan of CreateIndex up to date for documents nobody writes.
LEMMA ScanFreshKept ==
    ASSUME Types, Next, ScanFresh
    PROVE  ScanFresh'
  <1>1. CASE restarts' # restarts
    BY <1>1, StepIs, RestartIs DEF Types, HistoryTypes, ScanFresh
  <1>2. CASE restarts' = restarts
    <2> SUFFICES ASSUME NEW b \in Procs, op'[b].pc = "build", NEW id \in Ids, Quiet(id)'
                 PROVE  op'[b].scan[id] = docs'[id]
      BY DEF ScanFresh
    <2>1. docs'[id] = docs[id]
      BY <1>2, QuietKept
    <2>2. CASE op'[b] = op[b]
      <3>1. mu # None
        BY <2>2, NoneIsNobody DEF Types, OpTypes
      <3>2. Quiet(id)
        BY <1>2, <3>1, QuietKept, RemoveIs, AddIs DEF Types
      <3> QED
        BY <2>1, <2>2, <3>2 DEF ScanFresh
    <2>3. CASE op'[b] # op[b]
      BY <1>2, <2>1, <2>3, BuilderIs
    <2> QED
      BY <2>2, <2>3
  <1> QED
    BY <1>1, <1>2

\* The steps that change an index or end the making of one.
Leaves == indexes' = indexes /\ \A q \in Procs : op[q].pc = "build" => op'[q] = op[q]

\* Only removeIndexes, updateIndexes, CreateIndex and DropIndex change an index.
LEMMA IndexStepIs ==
    ASSUME Types, NEW p \in Procs, Moves(p)
    PROVE  /\ Inserts(p) \/ Get(p) \/ Store(p) => Leaves
           /\ Walks(p) => Leaves \/ CreateIndexBuild(p) \/ \E f \in Fields : DropIndex(p, f)
  <1>1. ASSUME indexes' = indexes, op[p].pc # "build"
        PROVE  Leaves
    BY <1>1 DEF Moves, Leaves
  <1>2. CASE Inserts(p)
    <2>1. indexes' = indexes /\ op[p].pc # "build"
      BY <1>2, InsertIs DEF Types, Inserts
    <2> QED
      BY <1>1, <2>1
  <1>3. CASE Get(p) \/ Store(p)
    <2>1. indexes' = indexes /\ op[p].pc # "build"
      BY <1>3, GetIs, StoreIs DEF Types
    <2> QED
      BY <1>1, <2>1
  <1>4. CASE Updating(p) \/ Deleting(p)
    <2>1. indexes' = indexes /\ op[p].pc # "build"
      BY <1>4, StartWorkIs DEF Types, Updating, Deleting, Update, DeleteOne, Acts
    <2> QED
      BY <1>1, <2>1
  <1>5. CASE FinderStep(p)
    <2>1. indexes' = indexes /\ op[p].pc # "build"
      <3>1. (\E o \in Finds : Find(p, o, None)) => indexes' = indexes /\ op[p].pc # "build"
        BY FindIs DEF Types, Searches
      <3>2. ASSUME NEW s \in Selections, Find(p, s.find, s.act)
            PROVE  indexes' = indexes /\ op[p].pc # "build"
        <4>1. s.find \in Searches /\ s.act \in Acts
          BY DocAssumption DEF Searches, Acts
        <4> QED
          BY <3>2, <4>1, FindIs DEF Types
      <3>3. FindRead(p) => indexes' = indexes /\ op[p].pc # "build"
        BY ReadIs DEF Types
      <3>4. FindScan(p) => indexes' = indexes /\ op[p].pc # "build"
        BY ScanIs DEF Types
      <3>5. FindReturn(p) => indexes' = indexes /\ op[p].pc # "build"
        BY ReturnIs DEF Types
      <3> QED
        BY <1>5, <3>1, <3>2, <3>3, <3>4, <3>5 DEF FinderStep
    <2> QED
      BY <1>1, <2>1
  <1>6. ASSUME IndexStep(p)
        PROVE  Leaves \/ CreateIndexBuild(p) \/ \E f \in Fields : DropIndex(p, f)
    <2>1. ASSUME NEW f \in IndexFields, CreateIndexScan(p, f)
          PROVE  Leaves
      <3>1. indexes' = indexes /\ op[p].pc # "build"
        BY <2>1, CreateScanIs, DocAssumption DEF Types
      <3> QED
        BY <1>1, <3>1
    <2> QED
      BY <1>6, <2>1, DocAssumption DEF IndexStep
  <1> QED
    BY <1>2, <1>3, <1>4, <1>5, <1>6 DEF Walks

\* A scan has just begun, or the document was reindexed.
LEMMA ScanOfIs ==
    ASSUME NEW f, ScanOf(f)
    PROVE  Building(f)'
  BY DEF ScanOf, Building

\* A document is entered again by updateIndexes only.
LEMMA ReindexedIs ==
    ASSUME Types, Next, restarts' = restarts, NEW id \in Reindexed
    PROVE  \E p \in Procs : updateIndexes(p) /\ op[p].id = id
  <1>1. PICK q \in Procs : op[q].pc = "add" /\ op[q].id = id /\ op'[q] # op[q]
    BY DEF Reindexed
  <1>2. PICK p \in Procs :
          /\ Moves(p)
          /\ \/ Inserts(p) \/ Get(p) \/ Store(p) \/ removeIndexes(p)
             \/ updateIndexes(p) \/ (Walks(p) /\ Aside(p))
    BY StepIs
  <1>3. p = q
    BY <1>1, <1>2 DEF Moves
  <1>4. ~Inserts(p)
    BY <1>1, <1>3, InsertIs DEF Inserts, Types
  <1>5. ~Get(p) /\ ~Store(p) /\ ~removeIndexes(p) /\ ~Aside(p)
    BY <1>1, <1>3 DEF Get, Store, removeIndexes, Aside, Writing
  <1> QED
    BY <1>1, <1>2, <1>3, <1>4, <1>5

\* While an index is made its gap and its mess only grow, and what the scan found renamed is
\* in both.
LEMMA ScanNamedKept ==
    ASSUME Types, Next, ScanNamed
    PROVE  ScanNamed'
  <1>1. CASE restarts' # restarts
    BY <1>1, StepIs, RestartIs DEF Types, HistoryTypes, ScanNamed
  <1>2. CASE restarts' = restarts
    <2>1. \A d : NameOf(d)' = NameOf(d)
      BY DEF NameOf
    <2> SUFFICES ASSUME NEW b \in Procs, op'[b].pc = "build", NEW id \in Ids, op'[b].scan[id] # NoDoc,
                        NameOf(op'[b].scan[id]) # id
                 PROVE  /\ id \in gap'[op'[b].field] /\ id \in messy'[op'[b].field]
                        /\ NameOf(op'[b].scan[id]) \in messy'[op'[b].field]
      BY <2>1 DEF ScanNamed
    <2> DEFINE f == op'[b].field
    <2>2. Types'
      BY TypesKept
    <2>3. mu' = b /\ f \in Fields
      BY <2>2, StateIs DEF Types, OpTypes, BuildStates
    <2>4. gap'[f] = NextGap(f) /\ messy'[f] = NextMessy(f)
      BY <1>2, <2>3, HistoryIs
    <2>5. CASE op'[b] = op[b]
      <3>1. mu # None
        BY <2>5, NoneIsNobody DEF Types, OpTypes
      <3>2. Reindexed = {}
        BY <1>2, <3>1, ReindexedIs, AddIs DEF Types
      <3>3. ~ScanOf(f)
        <4> SUFFICES ASSUME NEW p \in Procs, op'[p].pc = "build", op[p] = Idle
                     PROVE  FALSE
          BY DEF ScanOf
        <4>1. mu' = p
          BY <2>2 DEF Types, OpTypes
        <4> QED
          BY <2>3, <2>5, <4>1 DEF Idle
      <3>4. gap[f] \subseteq gap'[f] /\ messy[f] \subseteq messy'[f]
        BY <2>4, <3>2, <3>3 DEF NextGap, NextMessy
      <3> QED
        BY <2>5, <3>4 DEF ScanNamed
    <2>6. CASE op'[b] # op[b]
      <3>1. op[b] = Idle /\ op'[b].scan = docs
        BY <1>2, <2>6, BuilderIs
      <3>2. ScanOf(f)
        BY <3>1 DEF ScanOf
      <3>3. id \in Renamed
        BY <3>1 DEF Renamed, Existing
      <3> QED
        BY <2>4, <3>1, <3>2, <3>3 DEF NextGap, NextMessy
    <2> QED
      BY <2>5, <2>6
  <1> QED
    BY <1>1, <1>2

\* What a scan has under the name of an id is the document of that id, outside the mess of
\* the index, and outside its gap the document is there.
LEMMA ScanHasOwn ==
    ASSUME ScanNamed, NEW p \in Procs, op[p].pc = "build", NEW id \in Ids
    PROVE  /\ id \notin messy[op[p].field] =>
                 \A i \in Ids : op[p].scan[i] # NoDoc /\ NameOf(op[p].scan[i]) = id => i = id
           /\ id \notin gap[op[p].field] /\ op[p].scan[id] # NoDoc => NameOf(op[p].scan[id]) = id
  BY DEF ScanNamed

\* A value that is stored as it is in memory.
LEMMA PlainIs ==
    ASSUME NEW f, NEW id \in Ids, Plain(f, id), NEW p \in Procs, Writes(op[p], id), op[p].new # NoDoc
    PROVE  Stored(op[p].new)[f] = op[p].new[f]
  BY DEF Plain, Retyped, Writers

\* Nothing is claimed of the values of a document that nobody writes.
LEMMA PlainNext ==
    ASSUME NEW f, NEW id
    PROVE  /\ Plain(f, id)' <=> id \notin Retyped(op', f)
           /\ Writers(op', id) = {} => Plain(f, id)' /\ id \notin Retyped(op', f)
  <1>1. Retyped(op, f)' = Retyped(op', f)
    BY DEF Retyped, Writers, Writes, Stored
  <1>2. Writers(op', id) = {} => id \notin Retyped(op', f)
    BY DEF Retyped
  <1> QED
    BY <1>1, <1>2 DEF Plain

\* Every step keeps the indexes covering the documents outside their gaps.
LEMMA CoveredKept ==
    ASSUME Types, Next, ScanFresh, ScanNamed, NEW f \in Fields, NEW id \in Ids, Covered(f, id),
           id \notin raced => InTurn(id)
    PROVE  Covered(f, id)'
  <1> SUFFICES ASSUME id \notin gap'[f]
               PROVE  Alone(id)' /\ Current(id)' /\ Plain(f, id)' /\ Entered(f, id)'
    BY DEF Covered
  <1>1. CASE restarts' # restarts
    <2>1. /\ \A p \in Procs : op'[p].pc = "idle"
          /\ docs' = docs
      BY <1>1, StepIs, RestartIs DEF Types, HistoryTypes
    <2>2. gap'[f] = Existing
      BY <1>1 DEF Next, Observe
    <2>3. Writers(op', id) = {}
      BY <2>1, WritersAre DEF Writing
    <2>4. docs'[id] = NoDoc
      BY <2>1, <2>2 DEF Existing
    <2> QED
      BY <2>1, <2>3, <2>4, WritersAre, PlainNext DEF Alone, Current, Entered
  <1>2. CASE restarts' = restarts
    <2>1. gap'[f] = NextGap(f)
      BY <1>2, HistoryIs
    <2>2. Alone(id)'
      BY <2>1, NotOverlapped DEF NextGap
    <2>3. \/ id \notin gap[f]
          \/ ScanOf(f) /\ (id \notin raced \/ Writers(op, id) = {})
          \/ ~ScanOf(f) /\ id \in Reindexed \ raced /\ Plain(f, id)
      BY <2>1 DEF NextGap, Plain
    <2>4. Plain(f, id)'
      BY <2>1, PlainNext DEF NextGap
    <2>5. Current(id)
      <3>1. CASE id \notin gap[f]
        BY <3>1 DEF Covered
      <3>2. CASE id \notin raced
        BY <3>2 DEF InTurn
      <3>3. CASE Writers(op, id) = {}
        BY <3>3, WritersAre DEF Current, Writing
      <3> QED
        BY <2>3, <3>1, <3>2, <3>3
    <2>6. Current(id)'
      BY <1>2, <2>2, <2>5, CurrentKept
    <2> DEFINE d == docs[id]
    <2>7. ASSUME indexes'[f] # NoIndex, ~Building(f)', Quiet(id)', docs'[id] # NoDoc,
                 docs'[id][f] # Absent
          PROVE  id \in Elements(indexes'[f][docs'[id][f]]) /\ docs'[id][f] \in Values
      <3>1. ~ScanOf(f)
        BY <2>7, ScanOfIs
      <3>2. docs'[id] = d
        BY <1>2, <2>7, QuietKept
      <3>3. d \in Document /\ d[f] \in Values /\ d # NoDoc
        BY <2>7, <3>2 DEF Types, StoreTypes, DocOrNone, Document
      <3>4. PICK p \in Procs :
              /\ Moves(p)
              /\ \/ Leaves \/ removeIndexes(p) \/ updateIndexes(p) \/ CreateIndexBuild(p)
                 \/ \E g \in Fields : DropIndex(p, g)
        BY <1>2, StepIs, IndexStepIs
      <3>5. ASSUME NEW r \in Procs, updateIndexes(r), op[r].id = id
            PROVE  id \in Elements(indexes'[f][d[f]])
        <4>1. /\ op[r].pc = "add"
              /\ IF indexes[f] = NoIndex \/ op[r].new[f] = Absent THEN indexes'[f] = indexes[f]
                 ELSE indexes'[f] = [indexes[f] EXCEPT ![op[r].new[f]] = Append(@, op[r].id)]
          BY <3>5, AddIs DEF Types
        <4>2. d = Stored(op[r].new) /\ op[r].new \in Document /\ op[r].new # NoDoc
          BY <2>5, <3>5, <4>1, AddIs, DocAssumption DEF Current, Types
        <4>3. d[f] = op[r].new[f]
          <5>1. Plain(f, id)
            BY <2>3, <3>1 DEF Covered
          <5>2. Writes(op[r], id)
            BY <3>5, <4>1 DEF Writes
          <5> QED
            BY <4>2, <5>1, <5>2, PlainIs
        <4>4. indexes[f] # NoIndex /\ indexes[f] \in [Values -> Seq(Ids)]
          BY <2>7, <4>1 DEF Types, StoreTypes
        <4>5. d[f] # Absent
          BY <3>3, DocAssumption
        <4>6. indexes'[f][d[f]] = Append(indexes[f][d[f]], id)
          BY <3>3, <3>5, <4>1, <4>4, <4>5, <4>3
        <4>7. indexes[f][d[f]] \in Seq(Ids)
          BY <3>3, <4>4
        <4> QED
          BY <4>6, <4>7, AppendElements
      <3>6. ASSUME NEW r \in Procs, removeIndexes(r), op[r].id = id, op[r].new = NoDoc
            PROVE  FALSE
        <4>1. op[r].pc = "remove"
          BY <3>6, RemoveIs DEF Types
        <4> QED
          BY <2>5, <3>3, <3>6, <4>1 DEF Current, Stored
      <3>7. Quiet(id) \/ \E r \in Procs : updateIndexes(r) /\ op[r].id = id
        BY <1>2, <2>7, <3>6, QuietKept
      <3>8. CASE \E r \in Procs : updateIndexes(r) /\ op[r].id = id
        BY <3>2, <3>3, <3>5, <3>8
      <3>9. CASE Quiet(id) /\ ~\E r \in Procs : updateIndexes(r) /\ op[r].id = id
        <4>1. id \notin gap[f]
          BY <1>2, <2>3, <3>1, <3>9, ReindexedIs
        <4>2. ASSUME indexes[f] # NoIndex, ~Building(f)
              PROVE  id \in Elements(indexes[f][d[f]]) /\ indexes[f] \in [Values -> Seq(Ids)]
          <5>1. d[f] \in Listed(f, id)
            BY <3>3, <3>9, <4>1, <4>2, DocAssumption DEF Covered, Entered
          <5> QED
            BY <4>2, <5>1 DEF Listed, Types, StoreTypes
        <4>3. ASSUME op[p].pc # "build"
              PROVE  ~Building(f)
          BY <2>7, <3>4, <4>3 DEF Building, Moves
        <4>4. CASE Leaves
          <5>1. ~Building(f)
            BY <2>7, <4>4 DEF Building, Leaves
          <5> QED
            BY <2>7, <3>2, <3>3, <4>2, <4>4, <5>1 DEF Leaves
        <4>5. CASE removeIndexes(p)
          <5>1. /\ op[p].pc = "remove" /\ op[p].id \in Ids /\ op[p].old \in Document
                /\ IF indexes[f] = NoIndex \/ op[p].old[f] = Absent THEN indexes'[f] = indexes[f]
                   ELSE indexes'[f] = [indexes[f] EXCEPT ![op[p].old[f]] = Without(@, op[p].id)]
            BY <4>5, RemoveIs DEF Types
          <5>2. op[p].id # id
            BY <3>9, <5>1, WritersAre DEF Quiet, Writing
          <5>3. indexes[f] # NoIndex
            BY <2>7, <5>1
          <5>4. /\ id \in Elements(indexes[f][d[f]]) /\ indexes[f] \in [Values -> Seq(Ids)]
            BY <4>2, <4>3, <5>1, <5>3
          <5>5. CASE op[p].old[f] = Absent
            BY <3>2, <3>3, <5>1, <5>4, <5>5
          <5>6. CASE op[p].old[f] # Absent
            <6>1. op[p].old[f] \in Values
              BY <5>1, <5>6 DEF Document
            <6>2. indexes[f][d[f]] \in Seq(Ids)
              BY <3>3, <5>4
            <6>3. \/ indexes'[f][d[f]] = indexes[f][d[f]]
                  \/ indexes'[f][d[f]] = Without(indexes[f][d[f]], op[p].id)
              BY <3>3, <5>1, <5>3, <5>4, <5>6, <6>1
            <6>4. id \in Elements(Without(indexes[f][d[f]], op[p].id))
              BY <5>1, <5>2, <5>4, <6>2, WithoutIs
            <6> QED
              BY <3>2, <3>3, <5>4, <6>3, <6>4
          <5> QED
            BY <5>5, <5>6
        <4>6. CASE updateIndexes(p)
          <5>1. /\ op[p].pc = "add" /\ op[p].id \in Ids /\ op[p].new \in Document
                /\ IF indexes[f] = NoIndex \/ op[p].new[f] = Absent THEN indexes'[f] = indexes[f]
                   ELSE indexes'[f] = [indexes[f] EXCEPT ![op[p].new[f]] = Append(@, op[p].id)]
            BY <4>6, AddIs DEF Types
          <5>2. indexes[f] # NoIndex
            BY <2>7, <5>1
          <5>3. /\ id \in Elements(indexes[f][d[f]]) /\ indexes[f] \in [Values -> Seq(Ids)]
            BY <4>2, <4>3, <5>1, <5>2
          <5>4. indexes[f][d[f]] \in Seq(Ids)
            BY <3>3, <5>3
          <5>5. \/ indexes'[f][d[f]] = indexes[f][d[f]]
                \/ indexes'[f][d[f]] = Append(indexes[f][d[f]], op[p].id)
            BY <3>3, <5>1, <5>2, <5>3
          <5>6. id \in Elements(Append(indexes[f][d[f]], op[p].id))
            BY <5>1, <5>3, <5>4, AppendElements
          <5> QED
            BY <3>2, <3>3, <5>3, <5>5, <5>6
        <4>7. CASE CreateIndexBuild(p)
          <5>1. CASE op[p].field = f
            <6>1. /\ op[p].pc = "build"
                  /\ \A v \in Values :
                        indexes'[f][v] = (IF indexes[f] = NoIndex THEN <<>> ELSE indexes[f][v])
                                            \o NameList(op[p].scan, f, v)
              BY <4>7, <5>1, BuildIs DEF Types
            <6>2. op[p].scan[id] = d
              BY <3>9, <6>1 DEF ScanFresh
            <6>3. NameOf(op[p].scan[id]) = id
              BY <3>3, <4>1, <5>1, <6>1, <6>2, ScanHasOwn
            <6>4. id # None
              BY DocAssumption
            <6>5. id \in Under(op[p].scan, f, d[f])
              BY <3>3, <6>2, <6>3, <6>4 DEF Under
            <6> DEFINE b == IF indexes[f] = NoIndex THEN <<>> ELSE indexes[f][d[f]]
                       u == NameList(op[p].scan, f, d[f])
            <6>6. b \in Seq(Ids)
              BY <3>3, NoElements DEF Types, StoreTypes
            <6>7. u \in Seq(Ids) /\ id \in Elements(u)
              BY <6>5, <6>3, UnderIs
            <6>8. indexes'[f][d[f]] = b \o u
              BY <3>3, <6>1
            <6> HIDE DEF b, u
            <6> QED
              BY <3>2, <3>3, <6>6, <6>7, <6>8, ConcatElements
          <5>2. CASE op[p].field # f
            <6>1. op[p].pc = "build" /\ indexes'[f] = indexes[f]
              BY <4>7, <5>2, BuildIs DEF Types
            <6>2. ~Building(f)
              BY <2>7, <3>4, <5>2 DEF Building, Moves
            <6> QED
              BY <2>7, <3>2, <3>3, <4>2, <6>1, <6>2
          <5> QED
            BY <5>1, <5>2
        <4>8. CASE \E g \in Fields : DropIndex(p, g)
          <5>1. indexes'[f] = indexes[f] /\ op[p].pc # "build"
            BY <2>7, <4>8, DropIs DEF Types
          <5> QED
            BY <2>7, <3>2, <3>3, <4>2, <4>3, <5>1
        <4> QED
          BY <3>4, <4>4, <4>5, <4>6, <4>7, <4>8
      <3> QED
        BY <3>7, <3>8, <3>9
    <2> QED
      BY <2>2, <2>6, <2>7, <2>4 DEF Listed, Entered
  <1> QED
    BY <1>1, <1>2
-----------------------------------------------------------------------------
(***************************************************************************)
(* Indexes list nothing else.                                              *)
(***************************************************************************)
LEMMA OnceAppended ==
    ASSUME NEW s \in Seq(Ids), NEW e \in Ids, NEW id, Once(s, id), e = id => id \notin Elements(s)
    PROVE  Once(Append(s, e), id)
  <1> DEFINE t == Append(s, e)
  <1>1. /\ Len(s) \in Nat /\ DOMAIN s = 1 .. Len(s)
        /\ DOMAIN t = 1 .. Len(s) + 1 /\ t[Len(s) + 1] = e
        /\ \A i \in 1 .. Len(s) : t[i] = s[i]
    OBVIOUS
  <1> HIDE DEF t
  <1>2. \A i \in DOMAIN t : (i \in DOMAIN s /\ t[i] = s[i]) \/ (i = Len(s) + 1 /\ t[i] = e)
    BY <1>1
  <1>3. \A i \in DOMAIN s : s[i] \in Elements(s)
    BY DEF Elements
  <1>4. Once(t, id)
    BY <1>2, <1>3 DEF Once
  <1> QED
    BY <1>4 DEF t

\* Taking ids out of a list doubles none.
LEMMA OnceWithout ==
    ASSUME NEW s \in Seq(Ids), NEW e \in Ids, NEW id, Once(s, id)
    PROVE  Once(Without(s, e), id)
  <1> DEFINE K == {i \in DOMAIN s : s[i] # e}
             kept == Sorted(K)
  <1>1. Without(s, e) = [k \in DOMAIN kept |-> s[kept[k]]]
    BY DEF Without
  <1>2. Len(s) \in Nat /\ DOMAIN s = 1 .. Len(s) /\ IsFiniteSet(1 .. Len(s))
    BY FS_Interval
  <1>3. K \in SUBSET Nat /\ K \subseteq 1 .. Len(s) /\ K \subseteq DOMAIN s
    BY <1>2
  <1>4. /\ Cardinality(K) \in Nat /\ kept \in [1 .. Cardinality(K) -> K] /\ InOrder(kept)
    <2> HIDE DEF K
    <2> QED
      BY <1>2, <1>3, FS_Subset, SortedIs
  <1> HIDE DEF kept, K
  <1> SUFFICES ASSUME NEW i \in DOMAIN kept, NEW j \in DOMAIN kept, s[kept[i]] = id, s[kept[j]] = id
               PROVE  i = j
    BY <1>1 DEF Once
  <1>5. kept[i] \in DOMAIN s /\ kept[j] \in DOMAIN s /\ kept[i] \in Nat /\ kept[j] \in Nat
    BY <1>3, <1>4
  <1>6. kept[i] = kept[j]
    BY <1>5 DEF Once
  <1>7. ~(i < j) /\ ~(j < i)
    BY <1>4, <1>5, <1>6 DEF InOrder
  <1> QED
    BY <1>4, <1>7

\* A list without an id, followed by a list that has it once.
LEMMA OnceConcat ==
    ASSUME NEW s \in Seq(Ids), NEW r \in Seq(Ids), NEW id, id \notin Elements(s), Once(r, id)
    PROVE  Once(s \o r, id)
  <1> DEFINE t == s \o r
  <1>1. /\ Len(s) \in Nat /\ DOMAIN s = 1 .. Len(s)
        /\ Len(r) \in Nat /\ DOMAIN r = 1 .. Len(r)
        /\ DOMAIN t = 1 .. Len(s) + Len(r)
    OBVIOUS
  <1>2. /\ \A i \in 1 .. Len(s) : t[i] = s[i]
        /\ \A i \in Len(s) + 1 .. Len(s) + Len(r) : t[i] = r[i - Len(s)]
    OBVIOUS
  <1> HIDE DEF t
  <1>3. \A i \in DOMAIN t : \/ i \in DOMAIN s /\ t[i] = s[i]
                            \/ i - Len(s) \in DOMAIN r /\ t[i] = r[i - Len(s)]
    BY <1>1, <1>2
  <1>4. ASSUME NEW i \in DOMAIN t, NEW j \in DOMAIN t, t[i] = id, t[j] = id
        PROVE  i = j
    <2>1. \A k \in DOMAIN s : s[k] # id
      BY DEF Elements
    <2>2. /\ i - Len(s) \in DOMAIN r /\ r[i - Len(s)] = id
          /\ j - Len(s) \in DOMAIN r /\ r[j - Len(s)] = id
      BY <1>3, <1>4, <2>1
    <2>3. i - Len(s) = j - Len(s)
      BY <2>2 DEF Once
    <2> QED
      BY <1>1, <2>3
  <1> QED
    BY <1>4 DEF Once, t

\* What an index holds of a document stays right while another document is written.
LEMMA HeldKept ==
    ASSUME NEW p \in Procs, Moves(p), NEW f, NEW id, NEW v, docs'[id] = docs[id],
           ~Writes(op[p], id), ~Writes(op'[p], id), Held(f, id, v)
    PROVE  Held(f, id, v)'
  <1>1. \A q \in Procs : Writes(op'[q], id) => Writes(op[q], id) /\ op'[q] = op[q]
    BY DEF Moves
  <1>2. \A q \in Procs : Writes(op[q], id) => Writes(op'[q], id)
    BY DEF Moves
  <1>3. Quiet(id)' => Quiet(id)
    BY <1>2 DEF Quiet, Writers, Writes
  <1>4. \A q \in Procs : Writes(op[q], id)' => Writes(op'[q], id)
    BY DEF Writes
  <1> QED
    BY <1>1, <1>3, <1>4 DEF Held

\* The one who begins to write a document finds nobody else writing it.
LEMMA FirstWriter ==
    ASSUME NEW p \in Procs, Moves(p), NEW id, Alone(id)', Writes(op'[p], id)
    PROVE  /\ \A q \in Procs : Writes(op'[q], id) => q = p
           /\ ~Writes(op[p], id) => Quiet(id)
           /\ ~Quiet(id)'
  <1>1. \A q \in Procs : q \in Writers(op', id) <=> Writes(op'[q], id)
    BY DEF Writers
  <1>2. \A q \in Procs : Writes(op'[q], id) => q = p
    BY <1>1, WritersAre DEF Alone
  <1>3. \A q \in Procs : Writes(op[q], id) => q = p
    BY <1>2 DEF Moves
  <1> QED
    BY <1>1, <1>2, <1>3, WritersAre DEF Quiet, Writers

\* Steps that leave the indexes alone keep an entry justified.
LEMMA HeldMoves ==
    ASSUME Types, NEW p \in Procs, Moves(p), Inserts(p) \/ Get(p) \/ Store(p) \/ Aside(p),
           NEW f \in Fields, NEW id \in Ids, NEW v,
           Alone(id)', id \notin InsertedOver, Held(f, id, v)
    PROVE  Held(f, id, v)'
  <1>1. docs \in [Ids -> DocOrNone]
    BY DEF Types, StoreTypes
  <1>2. \A q \in Procs : Writes(op[q], id)' => Writes(op'[q], id)
    BY DEF Writes
  <1>3. CASE Inserts(p)
    <2>1. PICK i \in Ids, doc \in Documents : Insert(p, i, doc)
      BY <1>3 DEF Inserts
    <2>2. /\ op[p] = Idle /\ op[p].pc = "idle" /\ op'[p].pc = "add" /\ op'[p].id = i
          /\ docs' = [docs EXCEPT ![i] = Stored(op'[p].new)]
      BY <2>1, InsertIs DEF Types
    <2>3. ~Writes(op[p], id)
      BY <2>2 DEF Writes
    <2>4. CASE i = id
      <3>1. Quiet(id)
        BY <2>2, <2>3, <2>4, FirstWriter DEF Writes
      <3>2. docs[id] = NoDoc
        BY <2>2, <2>4 DEF InsertedOver, Existing
      <3> QED
        BY <3>1, <3>2 DEF Held
    <2>5. CASE i # id
      BY <1>1, <2>2, <2>3, <2>5, HeldKept DEF Writes
    <2> QED
      BY <2>4, <2>5
  <1>4. CASE Get(p)
    <2>1. op[p].pc = "get" /\ docs' = docs
      BY <1>4, GetIs DEF Types
    <2>2. ~Writes(op[p], id)
      BY <2>1 DEF Writes
    <2>3. CASE ~Writes(op'[p], id)
      BY <2>1, <2>2, <2>3, HeldKept
    <2>4. CASE Writes(op'[p], id)
      <3>1. op'[p].pc = "store" /\ op'[p].old = docs[id]
        BY <1>4, <2>4, GetIs DEF Types, Writes
      <3>2. Quiet(id) /\ ~Quiet(id)' /\ \A q \in Procs : Writes(op'[q], id) => q = p
        BY <2>2, <2>4, FirstWriter
      <3>3. docs[id][f] = v
        BY <3>2 DEF Held
      <3> QED
        BY <1>2, <3>1, <3>2, <3>3 DEF Held
    <2> QED
      BY <2>3, <2>4
  <1>5. CASE Store(p)
    <2>1. /\ op[p].pc = "store" /\ op'[p].pc = "remove" /\ op'[p].id = op[p].id
          /\ op'[p].old = op[p].old
          /\ docs' = [docs EXCEPT ![op[p].id] = Stored(op[p].new)]
      BY <1>5, StoreIs DEF Types
    <2>2. CASE op[p].id # id
      BY <1>1, <2>1, <2>2, HeldKept DEF Writes
    <2>3. CASE op[p].id = id
      <3>1. Writes(op[p], id) /\ Writes(op'[p], id)
        BY <2>1, <2>3 DEF Writes
      <3>2. ~Quiet(id)' /\ \A q \in Procs : Writes(op'[q], id) => q = p
        BY <3>1, FirstWriter
      <3>3. op'[p].old[f] = v
        BY <2>1, <3>1 DEF Held
      <3> QED
        BY <1>2, <2>1, <3>2, <3>3 DEF Held
    <2> QED
      BY <2>2, <2>3
  <1>6. CASE Aside(p)
    <2>1. docs' = docs /\ ~Writes(op[p], id) /\ ~Writes(op'[p], id)
      BY <1>6 DEF Aside, Writes, Writing
    <2> QED
      BY <2>1, HeldKept
  <1> QED
    BY <1>3, <1>4, <1>5, <1>6

\* A critical section of a writer of another document leaves the entries of this one.
LEMMA OtherEntry ==
    ASSUME Types, NEW p \in Procs, removeIndexes(p) \/ updateIndexes(p),
           NEW f \in Fields, NEW id \in Ids, op[p].id # id, NEW v \in Values,
           indexes'[f] # NoIndex
    PROVE  /\ indexes[f] # NoIndex
           /\ id \in Elements(indexes'[f][v]) => id \in Elements(indexes[f][v])
           /\ Once(indexes[f][v], id) => Once(indexes'[f][v], id)
  <1>1. CASE removeIndexes(p)
    <2>1. /\ op[p].id \in Ids /\ op[p].old \in Document
          /\ IF indexes[f] = NoIndex \/ op[p].old[f] = Absent THEN indexes'[f] = indexes[f]
             ELSE indexes'[f] = [indexes[f] EXCEPT ![op[p].old[f]] = Without(@, op[p].id)]
      BY <1>1, RemoveIs DEF Types
    <2>2. indexes[f] # NoIndex /\ indexes[f] \in [Values -> Seq(Ids)]
      BY <2>1 DEF Types, StoreTypes
    <2>3. \/ indexes'[f][v] = indexes[f][v]
          \/ indexes'[f][v] = Without(indexes[f][v], op[p].id)
      BY <2>1, <2>2
    <2>4. indexes[f][v] \in Seq(Ids)
      BY <2>2
    <2> QED
      BY <2>1, <2>2, <2>3, <2>4, WithoutIs, OnceWithout
  <1>2. CASE updateIndexes(p)
    <2>1. /\ op[p].id \in Ids /\ op[p].new \in Document
          /\ IF indexes[f] = NoIndex \/ op[p].new[f] = Absent THEN indexes'[f] = indexes[f]
             ELSE indexes'[f] = [indexes[f] EXCEPT ![op[p].new[f]] = Append(@, op[p].id)]
      BY <1>2, AddIs DEF Types
    <2>2. indexes[f] # NoIndex /\ indexes[f] \in [Values -> Seq(Ids)]
      BY <2>1 DEF Types, StoreTypes
    <2>3. \/ indexes'[f][v] = indexes[f][v]
          \/ indexes'[f][v] = Append(indexes[f][v], op[p].id)
      BY <2>1, <2>2
    <2>4. indexes[f][v] \in Seq(Ids)
      BY <2>2
    <2>5. Elements(Append(indexes[f][v], op[p].id)) = Elements(indexes[f][v]) \cup {op[p].id}
      BY <2>1, <2>4, AppendElements
    <2>6. Once(indexes[f][v], id) => Once(Append(indexes[f][v], op[p].id), id)
      BY <2>1, <2>4, OnceAppended
    <2> QED
      BY <2>2, <2>3, <2>5, <2>6
  <1> QED
    BY <1>1, <1>2

\* Every step keeps the entries of a document justified and single.
LEMMA NeatKept ==
    ASSUME Types, Next, restarts' = restarts, ScanFresh, ScanNamed, NEW f \in Fields, NEW id \in Ids,
           id \notin messy[f], Alone(id), Current(id), Plain(f, id), Neat(f, id), Scanned(f, id),
           Alone(id)', Current(id)', id \notin InsertedOver
    PROVE  Neat(f, id)'
  <1>1. PICK p \in Procs :
          /\ Moves(p)
          /\ \/ Inserts(p) \/ Get(p) \/ Store(p) \/ removeIndexes(p)
             \/ updateIndexes(p) \/ (Walks(p) /\ Aside(p))
    BY StepIs
  <1> SUFFICES ASSUME indexes'[f] # NoIndex, NEW v \in Values, id \in Elements(indexes'[f][v])
               PROVE  Held(f, id, v)' /\ Once(indexes'[f][v], id)
    BY DEF Neat, Listed, Once
  <1>2. ASSUME indexes[f] # NoIndex, id \in Elements(indexes[f][v])
        PROVE  Held(f, id, v) /\ Once(indexes[f][v], id)
    BY <1>2 DEF Neat, Listed
  <1>3. \A q \in Procs : Writes(op[q], id)' <=> Writes(op'[q], id)
    BY DEF Writes
  <1>4. CASE (Inserts(p) \/ Get(p) \/ Store(p) \/ Aside(p)) /\ indexes'[f] = indexes[f]
    <2>1. Held(f, id, v) /\ Once(indexes[f][v], id)
      BY <1>2, <1>4
    <2>2. Held(f, id, v)'
      BY <1>1, <1>4, <2>1, HeldMoves
    <2> QED
      BY <1>4, <2>1, <2>2
  <1>5. CASE (removeIndexes(p) \/ updateIndexes(p)) /\ op[p].id # id
    <2>1. /\ indexes[f] # NoIndex /\ id \in Elements(indexes[f][v])
          /\ Once(indexes[f][v], id) => Once(indexes'[f][v], id)
      BY <1>5, OtherEntry
    <2>2. Held(f, id, v) /\ Once(indexes[f][v], id)
      BY <1>2, <2>1
    <2>3. docs' = docs /\ (op'[p].pc \in {"idle", "get"} \/ op'[p].id = op[p].id)
      BY <1>5, RemoveIs, AddIs DEF Types
    <2>4. Held(f, id, v)'
      BY <1>1, <1>5, <2>2, <2>3, HeldKept DEF Writes
    <2> QED
      BY <2>1, <2>2, <2>4
  <1>6. CASE removeIndexes(p) /\ op[p].id = id
    <2>1. /\ op[p].pc = "remove" /\ op[p].old \in Document
          /\ IF indexes[f] = NoIndex \/ op[p].old[f] = Absent THEN indexes'[f] = indexes[f]
             ELSE indexes'[f] = [indexes[f] EXCEPT ![op[p].old[f]] = Without(@, op[p].id)]
      BY <1>6, RemoveIs DEF Types
    <2>2. indexes[f] # NoIndex /\ indexes[f] \in [Values -> Seq(Ids)]
      BY <2>1 DEF Types, StoreTypes
    <2>3. Writes(op[p], id)
      BY <1>6, <2>1 DEF Writes
    <2>4. id \in Elements(indexes[f][v]) => op[p].old[f] = v
      BY <1>2, <2>2, <2>3 DEF Held
    <2>5. v # Absent
      BY DocAssumption
    <2>6. CASE op[p].old[f] = v
      <3>1. indexes'[f][v] = Without(indexes[f][v], id)
        BY <1>6, <2>1, <2>2, <2>5, <2>6
      <3>2. indexes[f][v] \in Seq(Ids)
        BY <2>2
      <3> QED
        BY <3>1, <3>2, WithoutIs
    <2>7. CASE op[p].old[f] # v
      <3>1. indexes'[f][v] = indexes[f][v]
        BY <2>1, <2>2, <2>7
      <3> QED
        BY <2>4, <2>7, <3>1
    <2> QED
      BY <2>6, <2>7
  <1>7. CASE updateIndexes(p) /\ op[p].id = id
    <2>1. /\ op[p].pc = "add" /\ op[p].new \in Document /\ docs' = docs
          /\ op'[p].pc \in {"idle", "get"}
          /\ IF indexes[f] = NoIndex \/ op[p].new[f] = Absent THEN indexes'[f] = indexes[f]
             ELSE indexes'[f] = [indexes[f] EXCEPT ![op[p].new[f]] = Append(@, op[p].id)]
      BY <1>7, AddIs DEF Types
    <2>2. indexes[f] # NoIndex /\ indexes[f] \in [Values -> Seq(Ids)]
      BY <2>1 DEF Types, StoreTypes
    <2>3. Writes(op[p], id)
      BY <1>7, <2>1 DEF Writes
    <2>4. id \notin Elements(indexes[f][v])
      BY <1>2, <2>1, <2>2, <2>3 DEF Held
    <2>5. op[p].new[f] = v /\ indexes'[f][v] = Append(indexes[f][v], id)
      BY <1>7, <2>1, <2>2, <2>4
    <2>6. indexes[f][v] \in Seq(Ids) /\ Once(indexes[f][v], id)
      BY <2>2, <2>4 DEF Once, Elements
    <2>7. Once(indexes'[f][v], id)
      BY <2>4, <2>5, <2>6, OnceAppended
    <2>8. op[p].new # NoDoc
      BY <2>1, DocAssumption
    <2>9. docs[id][f] = op[p].new[f] /\ docs[id] # NoDoc
      <3>1. docs[id] = Stored(op[p].new)
        BY <1>7, <2>1 DEF Current
      <3> QED
        BY <2>1, <2>3, <2>8, <3>1, PlainIs, StoredIs DEF DocOrNone
    <2>10. \A q \in Procs : ~Writes(op'[q], id)
      <3>1. \A q \in Procs : Writes(op[q], id) => q = p
        BY <2>3 DEF Alone, Writers
      <3>2. ~Writes(op'[p], id)
        BY <2>1 DEF Writes
      <3> QED
        BY <1>1, <3>1, <3>2 DEF Moves
    <2> QED
      BY <1>3, <2>1, <2>5, <2>7, <2>9, <2>10 DEF Held
  <1>8. CASE CreateIndexBuild(p)
    <2>1. CASE op[p].field = f
      <3>1. /\ op[p].pc = "build" /\ docs' = docs /\ op'[p].pc = "idle"
            /\ indexes'[f][v] = (IF indexes[f] = NoIndex THEN <<>> ELSE indexes[f][v])
                                   \o NameList(op[p].scan, f, v)
        BY <1>8, <2>1, BuildIs DEF Types
      <3> DEFINE b == IF indexes[f] = NoIndex THEN <<>> ELSE indexes[f][v]
                 u == NameList(op[p].scan, f, v)
      <3>2. Clean(f, id)
        BY <2>1, <3>1 DEF Scanned
      <3>3. b \in Seq(Ids) /\ id \notin Elements(b)
        BY <3>2, NoElements DEF Types, StoreTypes, Clean, Listed
      <3>4. \A i \in Under(op[p].scan, f, v) : NameOf(op[p].scan[i]) = id => i = id
        BY <2>1, <3>1, ScanHasOwn DEF Under
      <3>5. /\ u \in Seq(Ids) /\ Once(u, id)
            /\ Elements(u) = {NameOf(op[p].scan[i]) : i \in Under(op[p].scan, f, v)}
        BY <3>4, UnderIs
      <3>6. indexes'[f][v] = b \o u
        BY <3>1
      <3> HIDE DEF b, u
      <3>7. Once(indexes'[f][v], id)
        BY <3>3, <3>5, <3>6, OnceConcat
      <3>8. id \in Under(op[p].scan, f, v)
        <4>1. id \in Elements(u)
          BY <3>3, <3>5, <3>6, ConcatElements
        <4> QED
          BY <3>5, <3>4, <4>1
      <3>9. op[p].scan[id] # NoDoc /\ op[p].scan[id][f] = v
        BY <3>8 DEF Under
      <3>10. Held(f, id, v)
        <4>1. Quiet(id) => docs[id] # NoDoc /\ docs[id][f] = v
          BY <3>1, <3>9 DEF ScanFresh
        <4>2. ASSUME NEW q \in Procs, Writes(op[q], id)
              PROVE  op[q].pc # "add" /\ op[q].old[f] = v
          BY <2>1, <3>1, <3>9, <4>2 DEF Scanned
        <4> QED
          BY <4>1, <4>2 DEF Held
      <3>11. ~Writes(op[p], id) /\ ~Writes(op'[p], id)
        BY <3>1 DEF Writes
      <3>12. Held(f, id, v)'
        BY <1>1, <3>1, <3>10, <3>11, HeldKept
      <3> QED
        BY <3>7, <3>12
    <2>2. CASE op[p].field # f
      <3>1. indexes'[f] = indexes[f] /\ docs' = docs /\ op[p].pc = "build" /\ op'[p].pc = "idle"
        BY <1>8, <2>2, BuildIs DEF Types
      <3>2. Aside(p)
        BY <3>1 DEF Aside, Writing
      <3> QED
        BY <1>4, <3>1, <3>2
    <2> QED
      BY <2>1, <2>2
  <1>9. CASE \E g \in Fields : DropIndex(p, g)
    <2>1. indexes'[f] = indexes[f] /\ docs' = docs /\ op[p].pc = "idle" /\ op' = op
      BY <1>9, DropIs DEF Types
    <2>2. Aside(p)
      BY <2>1 DEF Aside, Writing
    <2> QED
      BY <1>4, <2>1, <2>2
  <1>10. Inserts(p) \/ Get(p) \/ Store(p) => Leaves
    BY <1>1, IndexStepIs
  <1>11. Walks(p) => Leaves \/ CreateIndexBuild(p) \/ \E g \in Fields : DropIndex(p, g)
    BY <1>1, IndexStepIs
  <1> QED
    BY <1>1, <1>4, <1>5, <1>6, <1>7, <1>8, <1>9, <1>10, <1>11 DEF Leaves

\* An index in the making is right about the documents it has scanned.
LEMMA ScannedKept ==
    ASSUME Types, Next, restarts' = restarts, ScanFresh, NEW f \in Fields, NEW id \in Ids,
           Scanned(f, id), Alone(id)', id \notin InsertedOver, ~ScanOf(f)
    PROVE  Scanned(f, id)'
  <1> SUFFICES ASSUME NEW b \in Procs, op'[b].pc = "build", op'[b].field = f
               PROVE  /\ Clean(f, id)'
                      /\ \A q \in Procs : Writes(op'[q], id) =>
                            op'[b].scan[id] = IF op'[q].pc = "add" THEN NoDoc ELSE op'[q].old
    BY DEF Scanned, Writes
  <1>1. op'[b] = op[b]
    BY BuilderIs DEF ScanOf
  <1>2. mu = b /\ mu # None
    BY <1>1, NoneIsNobody DEF Types, OpTypes
  <1>3. PICK p \in Procs :
          /\ Moves(p)
          /\ \/ Inserts(p) \/ Get(p) \/ Store(p) \/ removeIndexes(p)
             \/ updateIndexes(p) \/ (Walks(p) /\ Aside(p))
    BY StepIs
  <1>4. ~removeIndexes(p) /\ ~updateIndexes(p)
    BY <1>2 DEF removeIndexes, updateIndexes
  <1>5. ~CreateIndexBuild(p)
    BY <1>1, <1>2, BuildIs DEF Types
  <1>6. ~ \E g \in Fields : DropIndex(p, g)
    BY <1>2 DEF DropIndex
  <1>7. indexes' = indexes
    BY <1>3, <1>4, <1>5, <1>6, IndexStepIs DEF Leaves
  <1>8. Clean(f, id)'
    BY <1>1, <1>7 DEF Scanned, Clean, Listed
  <1>9. ASSUME NEW q \in Procs, Writes(op'[q], id)
        PROVE  op'[b].scan[id] = IF op'[q].pc = "add" THEN NoDoc ELSE op'[q].old
    <2>1. Quiet(id) => op[b].scan[id] = docs[id]
      BY <1>1 DEF ScanFresh
    <2>2. CASE op'[q] = op[q]
      BY <1>1, <1>9, <2>2 DEF Scanned
    <2>3. CASE op'[q] # op[q]
      <3>1. q = p
        BY <1>3, <2>3 DEF Moves
      <3>2. ~Writes(op[p], id) => Quiet(id)
        BY <1>3, <1>9, <3>1, FirstWriter
      <3>3. CASE Inserts(p)
        <4>1. /\ op[p] = Idle /\ op[p].pc = "idle" /\ op'[p].pc = "add"
          BY <3>3, InsertIs DEF Inserts, Types
        <4>2. op'[p].id = id /\ Quiet(id)
          BY <1>9, <3>1, <3>2, <4>1 DEF Writes
        <4>3. docs[id] = NoDoc
          BY <4>1, <4>2 DEF InsertedOver, Existing
        <4> QED
          BY <1>1, <2>1, <3>1, <4>1, <4>2, <4>3
      <3>4. CASE Get(p)
        <4>1. op[p].pc = "get" /\ op'[p].pc = "store" /\ op'[p].old = docs[id]
          BY <1>9, <3>1, <3>4, GetIs DEF Types, Writes
        <4>2. Quiet(id)
          BY <3>2, <4>1 DEF Writes
        <4> QED
          BY <1>1, <2>1, <3>1, <4>1, <4>2
      <3>5. CASE Store(p)
        <4>1. /\ op[p].pc = "store" /\ op'[p].pc = "remove" /\ op'[p].id = op[p].id
              /\ op'[p].old = op[p].old
          BY <3>5, StoreIs DEF Types
        <4>2. Writes(op[p], id)
          BY <1>9, <3>1, <4>1 DEF Writes
        <4> QED
          BY <1>1, <3>1, <4>1, <4>2 DEF Scanned
      <3>6. CASE Aside(p)
        BY <1>9, <3>1, <3>6 DEF Aside, Writes, Writing
      <3> QED
        BY <1>3, <1>4, <3>3, <3>4, <3>5, <3>6
    <2> QED
      BY <2>2, <2>3
  <1> QED
    BY <1>8, <1>9

\* What an index misses comes back only with a write of the document.
LEMMA MissedKept ==
    ASSUME Types, Next, restarts' = restarts, NEW f \in Fields, NEW id \in Ids,
           Missed(f, id), Plain(f, id), id \notin Overlapped(op') \cup Retyped(op', f), ~ScanOf(f)
    PROVE  Missed(f, id)'
  <1> SUFFICES ASSUME id \in gap'[f]
               PROVE  id \notin raced' /\ ~Building(f)' /\ Clean(f, id)'
    BY DEF Missed
  <1>1. gap'[f] = NextGap(f) /\ raced' = raced \cup Overlapped(op')
    BY HistoryIs
  <1>2. id \in gap[f] /\ id \notin Reindexed \ raced
    BY <1>1 DEF NextGap, Plain
  <1>3. id \notin raced /\ ~Building(f) /\ Clean(f, id)
    BY <1>2 DEF Missed
  <1>4. id \notin raced' /\ id \notin Reindexed
    BY <1>1, <1>2, <1>3
  <1>5. ~Building(f)'
    <2> SUFFICES ASSUME NEW b \in Procs, op'[b].pc = "build", op'[b].field = f
                 PROVE  FALSE
      BY DEF Building
    <2> QED
      BY <1>3, BuilderIs DEF ScanOf, Building
  <1>6. ASSUME indexes'[f] # NoIndex, NEW v \in Values, id \in Elements(indexes'[f][v])
        PROVE  FALSE
    <2>1. PICK p \in Procs :
            /\ Moves(p)
            /\ \/ Inserts(p) \/ Get(p) \/ Store(p) \/ removeIndexes(p)
               \/ updateIndexes(p) \/ (Walks(p) /\ Aside(p))
      BY StepIs
    <2>2. indexes[f] # NoIndex => id \notin Elements(indexes[f][v])
      BY <1>3 DEF Clean, Listed
    <2>3. indexes'[f] # indexes[f]
      BY <1>6, <2>2
    <2>4. CASE (removeIndexes(p) \/ updateIndexes(p)) /\ op[p].id # id
      BY <1>6, <2>2, <2>4, OtherEntry
    <2>5. CASE updateIndexes(p) /\ op[p].id = id
      <3>1. op[p].pc = "add" /\ op'[p].pc # "add"
        BY <2>5, AddIs DEF Types
      <3> QED
        BY <1>4, <2>5, <3>1 DEF Reindexed
    <2>6. CASE removeIndexes(p) /\ op[p].id = id
      <3>1. /\ op[p].old \in Document
            /\ IF indexes[f] = NoIndex \/ op[p].old[f] = Absent THEN indexes'[f] = indexes[f]
               ELSE indexes'[f] = [indexes[f] EXCEPT ![op[p].old[f]] = Without(@, op[p].id)]
        BY <2>6, RemoveIs DEF Types
      <3>2. indexes[f] # NoIndex /\ indexes[f] \in [Values -> Seq(Ids)]
        BY <1>6, <3>1 DEF Types, StoreTypes
      <3>3. \/ indexes'[f][v] = indexes[f][v]
            \/ indexes'[f][v] = Without(indexes[f][v], id)
        BY <2>6, <3>1, <3>2
      <3>4. indexes[f][v] \in Seq(Ids)
        BY <3>2
      <3> QED
        BY <1>6, <2>2, <3>2, <3>3, <3>4, WithoutIs
    <2>7. CASE CreateIndexBuild(p)
      <3>1. op[p].pc = "build" /\ op[p].field = f
        BY <2>3, <2>7, BuildIs DEF Types
      <3> QED
        BY <1>3, <3>1 DEF Building
    <2>8. CASE \E g \in Fields : DropIndex(p, g)
      BY <1>6, <2>3, <2>8, DropIs DEF Types
    <2>9. ~Leaves
      BY <2>3 DEF Leaves
    <2> QED
      BY <2>1, <2>4, <2>5, <2>6, <2>7, <2>8, <2>9, IndexStepIs
  <1> QED
    BY <1>4, <1>5, <1>6 DEF Clean, Listed

\* CreateIndex makes an index over what is neither listed nor written.
LEMMA ExactWhenScanned ==
    ASSUME Types, Next, restarts' = restarts, NEW f \in Fields, NEW id \in Ids,
           Exact(f, id), ScanOf(f), id \notin messy'[f]
    PROVE  /\ Alone(id)' /\ Current(id)' /\ Plain(f, id)'
           /\ Neat(f, id)' /\ Scanned(f, id)' /\ Missed(f, id)'
  <1>1. messy'[f] = NextMessy(f) /\ gap'[f] = NextGap(f)
    BY HistoryIs
  <1>2. /\ Writers(op, id) = {} /\ id \notin Renamed
        /\ indexes[f] # NoIndex => id \notin messy[f] /\ (id \notin Existing \/ id \in gap[f])
    BY <1>1 DEF NextMessy
  <1>3. PICK p \in Procs : op[p] = Idle /\ op'[p].pc = "build" /\ op'[p].field = f
    BY DEF ScanOf
  <1>4. PICK q \in Procs :
          /\ Moves(q)
          /\ \/ Inserts(q) \/ Get(q) \/ Store(q) \/ removeIndexes(q)
             \/ updateIndexes(q) \/ (Walks(q) /\ Aside(q))
    BY StepIs
  <1>5. q = p /\ op[p].pc = "idle"
    BY <1>3, <1>4 DEF Moves, Idle
  <1>6. ~Inserts(p)
    BY <1>3, InsertIs DEF Types, Inserts
  <1>7. Leaves
    <2>1. ~removeIndexes(p) /\ ~updateIndexes(p) /\ ~CreateIndexBuild(p)
      BY <1>5 DEF removeIndexes, updateIndexes, CreateIndexBuild
    <2>2. ~ \E g \in Fields : DropIndex(p, g)
      BY <1>3, <1>5, DropIs DEF Types
    <2> QED
      BY <1>4, <1>5, <2>1, <2>2, IndexStepIs
  <1>8. indexes' = indexes
    BY <1>7 DEF Leaves
  <1>9. \A r \in Procs : ~Writes(op'[r], id)
    <2>1. \A r \in Procs : ~Writes(op[r], id)
      BY <1>2 DEF Writers
    <2>2. ~Writes(op'[p], id)
      BY <1>3 DEF Writes
    <2> QED
      BY <1>4, <1>5, <2>1, <2>2 DEF Moves
  <1>10. Writers(op', id) = {} /\ \A r \in Procs : Writes(op[r], id)' <=> Writes(op'[r], id)
    BY <1>9 DEF Writers, Writes
  <1>11. Alone(id)' /\ Current(id)'
    BY <1>10, WritersAre DEF Alone, Current, Writing
  <1>12. Clean(f, id)
    <2> SUFFICES ASSUME indexes[f] # NoIndex, NEW v \in Listed(f, id)
                 PROVE  FALSE
      BY DEF Clean
    <2>1. Neat(f, id) /\ Missed(f, id)
      BY <1>2 DEF Exact
    <2>2. CASE id \in gap[f]
      BY <2>1, <2>2 DEF Missed, Clean
    <2>3. CASE id \notin Existing
      <3>1. docs[id] # NoDoc
        BY <1>2, <2>1 DEF Neat, Held, Quiet
      <3> QED
        BY <2>3, <3>1 DEF Existing
    <2> QED
      BY <1>2, <2>2, <2>3
  <1>13. Clean(f, id)'
    BY <1>8, <1>12 DEF Clean, Listed
  <1>14. Neat(f, id)' /\ Scanned(f, id)'
    BY <1>9, <1>10, <1>13 DEF Neat, Clean, Scanned
  <1>15. id \notin gap'[f]
    <2>1. id \notin Overlapped(op') /\ id \notin Retyped(op', f)
      BY <1>10, FS_EmptySet, PlainNext DEF Overlapped
    <2> QED
      BY <1>1, <1>2, <2>1 DEF NextGap
  <1> QED
    BY <1>10, <1>11, <1>14, <1>15, PlainNext DEF Missed

\* Every step keeps the indexes exact for documents that are not messy.
LEMMA ExactKept ==
    ASSUME Types, Next, ScanFresh, ScanNamed, NEW f \in Fields, NEW id \in Ids, Exact(f, id)
    PROVE  Exact(f, id)'
  <1> SUFFICES ASSUME id \notin messy'[f]
               PROVE  /\ Alone(id)' /\ Current(id)' /\ Plain(f, id)'
                      /\ Neat(f, id)' /\ Scanned(f, id)' /\ Missed(f, id)'
    BY DEF Exact
  <1>1. CASE restarts' # restarts
    <2>1. /\ Restart
          /\ \A p \in Procs : op'[p].pc = "idle"
      BY <1>1, StepIs, RestartIs DEF Types, HistoryTypes
    <2>2. raced' = {}
      BY <1>1 DEF Next, Observe
    <2>3. Writers(op', id) = {}
      BY <2>1, WritersAre DEF Writing
    <2>4. Clean(f, id)'
      <3>1. indexes' = [g \in Fields |-> IF g \in saved THEN EmptyIndex ELSE NoIndex]
        BY <2>1 DEF Restart
      <3>2. indexes'[f] # NoIndex => \A v \in Values : indexes'[f][v] = <<>>
        BY <3>1 DEF EmptyIndex
      <3> QED
        BY <3>2, NoElements DEF Clean, Listed
    <2>5. Alone(id)' /\ Current(id)' /\ Plain(f, id)'
      BY <2>1, <2>3, WritersAre, PlainNext DEF Alone, Current
    <2>6. Neat(f, id)' /\ Scanned(f, id)' /\ Missed(f, id)'
      BY <2>1, <2>2, <2>4 DEF Neat, Clean, Scanned, Missed, Building
    <2> QED
      BY <2>5, <2>6
  <1>2. CASE restarts' = restarts /\ ScanOf(f)
    BY <1>2, ExactWhenScanned
  <1>3. CASE restarts' = restarts /\ ~ScanOf(f)
    <2>1. messy'[f] = NextMessy(f)
      BY <1>3, HistoryIs
    <2>2. /\ id \notin messy[f] /\ id \notin Overlapped(op') /\ id \notin InsertedOver
          /\ id \notin Retyped(op', f)
      BY <1>3, <2>1 DEF NextMessy
    <2>3. Alone(id) /\ Current(id) /\ Plain(f, id) /\ Neat(f, id) /\ Scanned(f, id) /\ Missed(f, id)
      BY <2>2 DEF Exact
    <2>4. Alone(id)'
      BY <2>2, NotOverlapped
    <2>5. Current(id)'
      BY <1>3, <2>3, <2>4, CurrentKept
    <2>6. Neat(f, id)'
      BY <1>3, <2>2, <2>3, <2>4, <2>5, NeatKept
    <2>7. Scanned(f, id)'
      BY <1>3, <2>2, <2>3, <2>4, ScannedKept
    <2>8. Missed(f, id)'
      BY <1>3, <2>2, <2>3, MissedKept
    <2>9. Plain(f, id)'
      BY <2>2, PlainNext
    <2> QED
      BY <2>4, <2>5, <2>6, <2>7, <2>8, <2>9
  <1> QED
    BY <1>1, <1>2, <1>3

-----------------------------------------------------------------------------
(***************************************************************************)
(* Searches.                                                               *)
(***************************************************************************)
\* What a search must find is left alone by every step.
LEMMA SteadyIs ==
    ASSUME Next, restarts' = restarts, NEW p \in Procs
    PROVE  /\ ~Searching(op'[p]) => steady'[p] = {}
           /\ Searching(op[p]) /\ Searching(op'[p]) =>
                 \A id \in steady'[p] : id \in steady[p] /\ docs'[id] = docs[id]
           /\ ~Searching(op[p]) /\ Searching(op'[p]) =>
                 \A id \in steady'[p] :
                    id \in Due(op'[p].find) /\ docs'[id] = docs[id] /\ Quiet(id)
  <1>1. steady'[p] = NextSteady(p)
    BY HistoryIs
  <1>2. CASE ~Searching(op'[p])
    BY <1>1, <1>2 DEF NextSteady
  <1>3. CASE Searching(op'[p]) /\ Searching(op[p])
    BY <1>1, <1>3 DEF NextSteady
  <1>4. CASE Searching(op'[p]) /\ ~Searching(op[p])
    BY <1>1, <1>4 DEF NextSteady, Quiet
  <1> QED
    BY <1>2, <1>3, <1>4

\* What a search by index must find is in the list that it reads.
LEMMA DueIsListed ==
    ASSUME Types, mu = None, NEW o \in Searches, Indexable(o.filters) # {},
           \A f \in Fields, i \in Ids : Covered(f, i),
           NEW id \in Due(o), Quiet(id)
    PROVE  o.limit < 0 /\ id \in Elements(tryUseIndexes(o.filters))
  <1> DEFINE q == o.filters[FirstOf(Indexable(o.filters))]
  <1>1. /\ q.field \in Fields /\ indexes[q.field] # NoIndex /\ q.value \in Values
        /\ tryUseIndexes(o.filters) = indexes[q.field][q.value]
    BY TryIs DEF Types, Indexed
  <1>2. /\ id \in Ids /\ docs[id] # NoDoc /\ o.limit < 0
        /\ docs[id][q.field] = q.value /\ id \notin gap[q.field]
    BY DEF Due, matchesFilters
  <1> HIDE DEF q
  <1>3. ~Building(q.field)
    BY NoneIsNobody DEF Building, Types, OpTypes
  <1>4. Entered(q.field, id)
    BY <1>1, <1>2 DEF Covered
  <1>5. docs[id][q.field] \in Listed(q.field, id)
    BY <1>1, <1>2, <1>3, <1>4, DocAssumption DEF Entered
  <1> QED
    BY <1>1, <1>2, <1>5 DEF Listed

\* Every step keeps a search that wants everything on its way to what it must find.
LEMMA OnTheWayKept ==
    ASSUME Types, Next, \A f \in Fields, i \in Ids : Covered(f, i),
           \A p \in Procs : OnTheWay(p), NEW q \in Procs
    PROVE  OnTheWay(q)'
  <1>1. CASE restarts' # restarts
    <2>1. op'[q].pc = "idle"
      BY <1>1, StepIs, RestartIs DEF Types, HistoryTypes
    <2> QED
      BY <2>1 DEF OnTheWay, Searching
  <1>2. CASE restarts' = restarts
    <2>1. PICK p \in Procs :
            /\ Moves(p)
            /\ \/ Inserts(p) \/ Get(p) \/ Store(p) \/ removeIndexes(p)
               \/ updateIndexes(p) \/ (Walks(p) /\ Aside(p))
      BY <1>2, StepIs
    <2>2. OnTheWay(q)
      OBVIOUS
    <2> SUFFICES ASSUME Searching(op'[q]), Whole(op'[q].find)
                 PROVE  OnTheWay(q)'
      BY DEF OnTheWay
    <2>3. CASE op'[q] = op[q]
      <3>1. \A id \in steady'[q] : id \in steady[q] /\ docs'[id] = docs[id]
        BY <1>2, <2>3, SteadyIs
      <3>2. op[q].pc # "found" => \A id \in steady[q] : matchesFilters(docs[id], op[q].find.filters)
        BY <2>2, <2>3 DEF OnTheWay
      <3>3. \A id \in steady'[q] :
              op[q].pc # "found" => matchesFilters(docs'[id], op[q].find.filters)
        BY <3>1, <3>2
      <3> QED
        BY <2>2, <2>3, <3>1, <3>3 DEF OnTheWay
    <2>4. CASE op'[q] # op[q]
      <3>1. q = p
        BY <2>1, <2>4 DEF Moves
      <3>2. CASE \/ Inserts(p) \/ Get(p) \/ Store(p) \/ removeIndexes(p) \/ updateIndexes(p)
                 \/ Updating(p) \/ Deleting(p)
        <4>1. ~Searching(op'[p])
          <5>1. Inserts(p) => op'[p].pc = "add"
            BY InsertIs DEF Inserts, Types
          <5>2. Updating(p) \/ Deleting(p) => op'[p].pc = "get"
            BY StartWorkIs DEF Types, Updating, Deleting, Update, DeleteOne, Acts
          <5>3. op'[p].pc \in {"idle", "get", "store", "remove", "add"}
            BY <3>2, <5>1, <5>2, GetIs, StoreIs, RemoveIs, AddIs DEF Types
          <5> QED
            BY <5>3 DEF Searching
        <4> QED
          BY <3>1, <4>1
      <3>3. CASE IndexStep(p)
        <4>1. op'[p].pc \in {"idle", "build"}
          BY <3>3, CreateScanIs, DropIs, BuildIs, DocAssumption DEF Types, IndexStep
        <4> QED
          BY <3>1, <4>1 DEF Searching
      <3>4. ASSUME NEW o \in Searches, NEW act \in Acts \cup {None}, Find(p, o, act)
            PROVE  OnTheWay(p)'
        <4>1. /\ op[p].pc = "idle" /\ op'[p].find = o /\ mu = None /\ docs' = docs
              /\ \/ /\ Indexable(o.filters) # {} /\ op'[p].pc = "read" /\ op'[p].res = <<>>
                    /\ op'[p].ids = Page(tryUseIndexes(o.filters), o)
                 \/ Indexable(o.filters) = {} /\ op'[p].pc = "scan"
          BY <3>4, FindIs DEF Types
        <4>2. \A id \in steady'[p] : id \in Due(o) /\ Quiet(id)
          BY <1>2, <3>1, <4>1, SteadyIs DEF Searching
        <4>3. \A id \in steady'[p] : id \in Ids /\ matchesFilters(docs'[id], o.filters)
          BY <4>1, <4>2 DEF Due
        <4>4. CASE op'[p].pc = "scan"
          BY <4>1, <4>3, <4>4 DEF OnTheWay
        <4>5. CASE /\ Indexable(o.filters) # {} /\ op'[p].pc = "read"
                   /\ op'[p].ids = Page(tryUseIndexes(o.filters), o)
          <5>1. o.limit < 0 => op'[p].ids = tryUseIndexes(o.filters)
            <6>1. tryUseIndexes(o.filters) \in Seq(Ids)
              BY <4>5, TryIs DEF Types
            <6>2. Whole(o) /\ o.skip \in Nat /\ o.limit \in Int
              BY <3>1, <4>1, OptionsAre
            <6> QED
              BY <4>5, <6>1, <6>2, PageIs
          <5>2. \A id \in steady'[p] : id \in Elements(op'[p].ids)
            BY <4>1, <4>2, <4>5, <5>1, DueIsListed
          <5> QED
            BY <4>1, <4>3, <4>5, <5>2 DEF OnTheWay
        <4> QED
          BY <4>1, <4>4, <4>5
      <3>5. CASE \E o \in Finds : Find(p, o, None)
        BY <3>1, <3>4, <3>5 DEF Searches
      <3>6. CASE \E s \in Selections : Find(p, s.find, s.act)
        BY <3>1, <3>4, <3>6, DocAssumption DEF Searches, Acts
      <3>7. CASE FindRead(p)
        <4>1. /\ op[p].pc = "read" /\ op[p].find \in Searches
              /\ op[p].res \in Seq(Document) /\ op[p].ids \in Seq(Ids)
              /\ op'[p].find = op[p].find /\ docs' = docs
          BY <3>7, ReadIs DEF Types, ReadStates
        <4>2. Searching(op[p]) /\ Whole(op[p].find)
          BY <3>1, <4>1 DEF Searching
        <4>3. /\ \A id \in steady[p] : matchesFilters(docs[id], op[p].find.filters)
              /\ \A id \in steady[p] : id \in Elements(op[p].ids) \/ docs[id] \in Elements(op[p].res)
              /\ steady[p] \subseteq Ids
          BY <2>2, <3>1, <4>1, <4>2 DEF OnTheWay
        <4>4. steady'[p] \subseteq steady[p]
          BY <1>2, <3>1, <4>2, SteadyIs
        <4>5. CASE op[p].ids = <<>> /\ op'[p].pc = "found"
                   /\ op'[p].res = Paginate(op[p].res, op[p].find)
          <5>1. op'[p].res = op[p].res
            BY <4>1, <4>2, <4>5, OptionsAre, PageIs
          <5>2. Elements(op[p].ids) = {}
            BY <4>5, NoElements
          <5> QED
            BY <3>1, <4>1, <4>3, <4>4, <4>5, <5>1, <5>2 DEF OnTheWay
        <4>6. CASE /\ op[p].ids # <<>> /\ op'[p].pc = "read" /\ op'[p].ids = Tail(op[p].ids)
                   /\ op'[p].res = IF matchesFilters(docs[Head(op[p].ids)], op[p].find.filters)
                                   THEN Append(op[p].res, docs[Head(op[p].ids)]) ELSE op[p].res
          <5> DEFINE h == Head(op[p].ids)
          <5>1. h \in Ids /\ Elements(op[p].ids) \subseteq {h} \cup Elements(op'[p].ids)
            BY <4>1, <4>6, HeadElements
          <5>2. /\ Elements(op[p].res) \subseteq Elements(op'[p].res)
                /\ matchesFilters(docs[h], op[p].find.filters) => docs[h] \in Elements(op'[p].res)
            <6>1. CASE matchesFilters(docs[h], op[p].find.filters)
              <7>1. docs[h] \in Document
                BY <5>1, <6>1 DEF matchesFilters, Types, StoreTypes, DocOrNone
              <7> QED
                BY <4>1, <4>6, <6>1, <7>1, AppendElements
            <6>2. CASE ~matchesFilters(docs[h], op[p].find.filters)
              BY <4>6, <6>2
            <6> QED
              BY <6>1, <6>2
          <5>3. ASSUME NEW id \in steady'[p]
                PROVE  id \in Elements(op'[p].ids) \/ docs[id] \in Elements(op'[p].res)
            <6>1. id \in steady[p]
              BY <4>4, <5>3
            <6>2. CASE id = h
              <7>1. matchesFilters(docs[h], op[p].find.filters)
                BY <4>3, <6>1, <6>2
              <7> QED
                BY <5>2, <6>2, <7>1
            <6>3. CASE id # h
              BY <4>3, <5>1, <5>2, <6>1, <6>3
            <6> QED
              BY <6>2, <6>3
          <5>4. \A id \in steady'[p] : matchesFilters(docs'[id], op'[p].find.filters)
            BY <4>1, <4>3, <4>4
          <5> QED
            BY <3>1, <4>1, <4>3, <4>4, <4>6, <5>3, <5>4 DEF OnTheWay
        <4> QED
          BY <3>7, <4>5, <4>6, ReadIs DEF Types
      <3>8. CASE FindScan(p)
        <4> DEFINE M == Matches(op[p].find.filters)
        <4>1. /\ op[p].pc = "scan" /\ op[p].find \in Searches /\ op'[p].find = op[p].find
              /\ op'[p].pc = "found" /\ docs' = docs
              /\ op'[p].res = Paginate(MatchList(op[p].find.filters), op[p].find)
              /\ MatchList(op[p].find.filters) \in Seq(Document)
              /\ Elements(MatchList(op[p].find.filters)) = {docs[id] : id \in M}
          BY <3>8, ScanIs DEF Types, ScanStates
        <4>2. Searching(op[p]) /\ Whole(op[p].find)
          BY <3>1, <4>1 DEF Searching
        <4>3. steady[p] \subseteq M /\ steady[p] \subseteq Ids
          BY <2>2, <3>1, <4>1, <4>2 DEF OnTheWay, Matches
        <4>4. steady'[p] \subseteq steady[p]
          BY <1>2, <3>1, <4>2, SteadyIs
        <4>5. op'[p].res = MatchList(op[p].find.filters)
          BY <4>1, <4>2, OptionsAre, PageIs
        <4>6. \A id \in steady'[p] : docs'[id] \in Elements(op'[p].res)
          BY <4>1, <4>3, <4>4, <4>5
        <4> QED
          BY <3>1, <4>1, <4>3, <4>4, <4>6 DEF OnTheWay
      <3>9. CASE FindReturn(p)
        <4>1. op'[p].pc \in {"idle", "get"}
          BY <3>9, ReturnIs DEF Types
        <4> QED
          BY <3>1, <4>1 DEF Searching
      <3> QED
        BY <2>1, <3>2, <3>3, <3>5, <3>6, <3>7, <3>8, <3>9 DEF Walks, FinderStep
    <2> QED
      BY <2>3, <2>4
  <1> QED
    BY <1>1, <1>2

-----------------------------------------------------------------------------
(***************************************************************************)
(* The theorems.                                                           *)
(***************************************************************************)
LEMMA DocInit ==
    ASSUME Init
    PROVE  DocInv
  <1>1. /\ \A p \in Procs : op[p] = Idle /\ op[p].pc = "idle"
        /\ \A id \in Ids : docs[id] = NoDoc /\ want[id] = NoDoc
    BY DEF Init, Idle
  <1>2. \A id : Writers(op, id) = {}
    BY <1>1, WritersAre DEF Writing
  <1>3. Types
    <2>1. OpTypes
      BY <1>1, StatesHas, NoneIsNobody DEF Init, OpTypes
    <2> QED
      BY <2>1 DEF Init, Types, StoreTypes, HistoryTypes, DocOrNone
  <1>4. \A id \in Ids : InTurn(id) /\ Alone(id) /\ Current(id)
    BY <1>1, <1>2 DEF InTurn, Alone, Current
  <1>5. \A f \in Fields, id \in Ids : Plain(f, id)
    BY <1>2 DEF Plain, Retyped
  <1>6. \A f \in Fields, id \in Ids : Covered(f, id)
    BY <1>1, <1>4, <1>5 DEF Covered, Entered
  <1>7. ScanFresh /\ ScanNamed /\ \A p \in Procs : Matched(p) /\ OnTheWay(p)
    BY <1>1 DEF ScanFresh, ScanNamed, Matched, OnTheWay, Searching
  <1>8. \A f \in Fields, id \in Ids : Exact(f, id)
    BY <1>1, <1>4, <1>5 DEF Init, Exact, Neat, Clean, Scanned, Missed
  <1> QED
    BY <1>3, <1>4, <1>6, <1>7, <1>8 DEF DocInv

\* The invariant depends on nothing but the variables.
LEMMA DocStutter ==
    ASSUME DocInv, UNCHANGED vars
    PROVE  DocInv'
  <1>1. Types'
    BY DEF DocInv, Types, OpTypes, StoreTypes, HistoryTypes, vars
  <1>2. \A id : /\ Quiet(id)' <=> Quiet(id)
                /\ Alone(id)' <=> Alone(id)
                /\ Current(id)' <=> Current(id)
                /\ InTurn(id)' <=> InTurn(id)
    BY DEF Quiet, Alone, Current, InTurn, Writers, Writes, vars
  <1>3. \A f : \A id : Plain(f, id)' <=> Plain(f, id)
    BY DEF Plain, Retyped, Writers, Writes, vars
  <1>4. \A f : \A id : Covered(f, id)' <=> Covered(f, id)
    BY <1>2, <1>3 DEF Covered, Entered, Building, Listed, vars
  <1>5. ScanFresh' /\ ScanNamed'
    BY <1>2 DEF DocInv, ScanFresh, ScanNamed, vars
  <1>6. \A p : (Matched(p)' <=> Matched(p)) /\ (OnTheWay(p)' <=> OnTheWay(p))
    BY DEF Matched, OnTheWay, vars
  <1>7. \A f : \A id : Exact(f, id)' <=> Exact(f, id)
    <2>1. \A f : \A id : \A v : Held(f, id, v)' <=> Held(f, id, v)
      BY <1>2 DEF Held, vars
    <2>2. \A f : \A id : Neat(f, id)' <=> Neat(f, id)
      BY <2>1 DEF Neat, Listed, vars
    <2>3. \A f : \A id : /\ Scanned(f, id)' <=> Scanned(f, id)
                         /\ Missed(f, id)' <=> Missed(f, id)
      BY DEF Scanned, Missed, Clean, Listed, Building, vars
    <2> QED
      BY <1>2, <1>3, <2>2, <2>3 DEF Exact, vars
  <1> QED
    BY <1>1, <1>2, <1>4, <1>5, <1>6, <1>7 DEF DocInv, vars

\* DocInv is an invariant.
LEMMA DocInvariant == Spec => []DocInv
  <1>1. Init => DocInv
    BY DocInit
  <1>2. DocInv /\ [Next]_vars => DocInv'
    <2> SUFFICES ASSUME DocInv, Next
                 PROVE  DocInv'
      BY DocStutter
    <2>1. Types'
      BY TypesKept DEF DocInv
    <2>2. \A id \in Ids \ raced' : InTurn(id)'
      BY InTurnKept DEF DocInv
    <2>3. \A p \in Procs : Matched(p)'
      BY MatchedKept DEF DocInv
    <2>4. ScanFresh' /\ ScanNamed'
      BY ScanFreshKept, ScanNamedKept DEF DocInv
    <2>5. \A f \in Fields, id \in Ids : Covered(f, id)'
      BY CoveredKept DEF DocInv
    <2>6. \A f \in Fields, id \in Ids : Exact(f, id)'
      BY ExactKept DEF DocInv
    <2>7. \A p \in Procs : OnTheWay(p)'
      BY OnTheWayKept DEF DocInv
    <2> QED
      BY <2>1, <2>2, <2>3, <2>4, <2>5, <2>6, <2>7 DEF DocInv
  <1> QED
    BY <1>1, <1>2, PTL DEF Spec

\* Spec => []UpdatesKept: Update and Delete read the document in one transaction and write
\* it in another (db.go Update, Delete), and no call's write is lost unless two calls
\* overlap on the document.
THEOREM NoUpdateLost == Spec => []UpdatesKept
  <1>1. DocInv => UpdatesKept
    BY DEF DocInv, InTurn, UpdatesKept
  <1> QED
    BY <1>1, DocInvariant, PTL

\* Spec => []OnlyMatchedWritten: an update or delete by query (DeleteMany in db.go) writes
\* only under the "_id" of documents that matched its filters at some time since it began,
\* however old the index list was.
THEOREM WritesStayInQuery == Spec => []OnlyMatchedWritten
  <1>1. DocInv => OnlyMatchedWritten
    BY DEF DocInv, Matched, OnlyMatchedWritten
  <1> QED
    BY <1>1, DocInvariant, PTL

\* Spec => []IndexCovers: an index has every document that nobody is writing, whatever
\* critical sections of CreateIndex, removeIndexes and updateIndexes came between the
\* transactions of the writers, outside the gap that is left by restarts, overlapping writes,
\* values that JSON changes and, when the index is made, changed "_id"s.
THEOREM IndexesCover == Spec => []IndexCovers
  <1>1. DocInv => IndexCovers
    <2> SUFFICES ASSUME DocInv, mu = None, NEW f \in Indexed, NEW id \in Existing,
                        id \notin gap[f], Quiet(id), docs[id][f] # Absent
                 PROVE  docs[id][f] \in Listed(f, id)
      BY DEF IndexCovers
    <2>1. f \in Fields /\ indexes[f] # NoIndex /\ id \in Ids /\ docs[id] # NoDoc
      BY DEF Indexed, Existing
    <2>2. ~Building(f)
      BY NoneIsNobody DEF Building, DocInv, Types, OpTypes
    <2>3. Entered(f, id)
      BY <2>1 DEF DocInv, Covered
    <2> QED
      BY <2>1, <2>2, <2>3 DEF Entered
  <1> QED
    BY <1>1, DocInvariant, PTL

\* Spec => []IndexExact: an index lists a document once and under no value but its own,
\* unless Insert wrote over it, calls overlapped on it, JSON changed a value of it, or
\* CreateIndex ran over it again, while it was written, or with another of its name.
THEOREM IndexesExact == Spec => []IndexExact
  <1>1. DocInv => IndexExact
    <2> SUFFICES ASSUME DocInv, mu = None, NEW f \in Indexed, NEW id \in Ids,
                        id \notin messy[f], Quiet(id), NEW v \in Listed(f, id)
                 PROVE  /\ docs[id] # NoDoc /\ docs[id][f] = v
                        /\ Cardinality({i \in DOMAIN indexes[f][v] : indexes[f][v][i] = id}) = 1
      BY DEF IndexExact
    <2>1. f \in Fields /\ indexes[f] # NoIndex
      BY DEF Indexed
    <2>2. Held(f, id, v) /\ Once(indexes[f][v], id)
      BY <2>1 DEF DocInv, Exact, Neat
    <2>3. PICK i \in DOMAIN indexes[f][v] : indexes[f][v][i] = id
      BY DEF Listed, Elements
    <2>4. {j \in DOMAIN indexes[f][v] : indexes[f][v][j] = id} = {i}
      BY <2>2, <2>3 DEF Once
    <2> QED
      BY <2>2, <2>4, FS_Singleton DEF Held
  <1> QED
    BY <1>1, DocInvariant, PTL

\* Spec => []FindComplete: Find, which reads an index list under the lock and the documents
\* one by one after it, returns every document that it had to find and nobody touched, if
\* its limit is negative, or is 0 and no index serves it.
THEOREM FindsAreComplete == Spec => []FindComplete
  <1>1. DocInv => FindComplete
    BY DEF DocInv, OnTheWay, Searching, Whole, FindComplete
  <1> QED
    BY <1>1, DocInvariant, PTL

=============================================================================
