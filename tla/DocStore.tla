--------------------------------- MODULE DocStore ---------------------------------
(***************************************************************************)
(* One collection of internal/db: documents in Badger, secondary indexes   *)
(* in memory under ds.mu, and the names of the indexes in Badger.  A call  *)
(* is a sequence of store transactions and of critical sections of ds.mu,  *)
(* and other goroutines run between any two of them.                       *)
(*                                                                         *)
(* Values are Go values of scalar types.  A value has a type, by which an  *)
(* index compares, and a text, by which the filters compare.  A document   *)
(* is stored as JSON: an int64 in memory is a float64 when it is read.     *)
(***************************************************************************)
EXTENDS Integers, Sequences, FiniteSets

CONSTANTS
    Ids,          \* document ids, in key order
    Fields,
    Values,
    Text,         \* fmt.Sprintf("%v") of a value
    Number,       \* toFloat64 of a value
    Json,         \* a value after json.Marshal and json.Unmarshal
    Name,         \* the string of a document id, as a value
    IdField,      \* the field "_id"
    Absent,       \* the field is not in the document
    NoDoc, NoIndex, None,
    Delete,       \* what a call does to its documents, if it does not update them
    IndexFields,  \* fields that callers index
    Procs,        \* goroutines that call the store
    Documents,    \* documents that Insert is given
    Updates,      \* UpdateOptions: set, unset, merge
    Finds,        \* FindOptions of Find: filters, skip, limit
    Selections,   \* searches of DeleteMany and of an update by query, with the update
    MaxCalls,     \* bound on the calls
    MaxRestarts   \* bound on restarts

Document == [Fields -> Values \cup {Absent}]

\* A document as it is stored and read.
Stored(doc) == IF doc = NoDoc THEN NoDoc ELSE [f \in Fields |-> IF doc[f] = Absent THEN Absent ELSE Json[doc[f]]]

ASSUME DocAssumption ==
    /\ Ids \subseteq Nat /\ IsFiniteSet(Ids) /\ IsFiniteSet(Procs)
    /\ IndexFields \subseteq Fields /\ IdField \in Fields
    /\ Absent \notin Values /\ None \notin Procs \cup Ids
    /\ NoDoc \notin Document /\ NoIndex \notin [Values -> Seq(Ids)]
    /\ None \notin Updates /\ None # Delete
    /\ Text \in [Values -> STRING] /\ Number \in [Values -> Int]
    /\ Json \in [Values -> Values] /\ \A v \in Values : Json[Json[v]] = Json[v]
    /\ Name \in [Ids -> Values]
    /\ \A i, j \in Ids : Json[Name[i]] = Name[i] /\ (Name[i] = Name[j] => i = j)
    /\ Documents \subseteq Document
    /\ \A u \in Updates : \A f \in DOMAIN u.set : u.set[f] \in Values
    /\ \A s \in Selections : s.act \in Updates \cup {Delete}
    /\ \A o \in Finds \cup {s.find : s \in Selections} :
          /\ o.skip \in Nat /\ o.limit \in Int
          /\ o.filters \in Seq([field : Fields, op : {"eq", "ne", "gt", "gte", "lt", "lte"}, value : Values]
                               \cup [field : Fields, op : {"in"}, value : SUBSET Values])
    /\ MaxCalls \in Nat /\ MaxRestarts \in Nat

VARIABLES
    docs,       \* the stored documents
    indexes,    \* ds.indexes: field -> value -> document ids
    saved,      \* db:indexes_metadata
    mu,         \* who holds ds.mu across steps: a CreateIndex
    op,         \* the call of each goroutine
    calls, restarts,
    raced,      \* history: documents that two calls wrote at once, in this life
    gap,        \* history: documents an index may miss, and why is said below
    messy,      \* history: documents an index may hold twice or under an old value
    want,       \* history: the documents if every write were one step
    steady,     \* history: matches of a search that nobody has touched since it began
    ever        \* history: ids a call named, or documents named that its search matched

store == <<docs, indexes, saved, mu>>
history == <<raced, gap, messy, want, steady, ever>>
vars == <<docs, indexes, saved, mu, op, calls, restarts, raced, gap, messy, want,
          steady, ever>>

Idle == [pc |-> "idle"]
EmptyIndex == [v \in Values |-> <<>>]
Elements(s) == {s[i] : i \in DOMAIN s}
Existing == {id \in Ids : docs[id] # NoDoc}

\* The id that a document has in its "_id": a merge may have changed it.
NameOf(doc) ==
    IF \E id \in Ids : Name[id] = doc[IdField] THEN CHOOSE id \in Ids : Name[id] = doc[IdField] ELSE None

\* The members of S in key order.
Sorted(S) ==
    CHOOSE s \in [1 .. Cardinality(S) -> S] :
        \A i, j \in DOMAIN s : i < j => s[i] < s[j]

\* The list without an id, wherever it is in it.
Without(s, id) ==
    LET kept == Sorted({i \in DOMAIN s : s[i] # id})
    IN  [k \in DOMAIN kept |-> s[kept[k]]]

Init ==
    /\ docs = [id \in Ids |-> NoDoc]
    /\ indexes = [f \in Fields |-> NoIndex]
    /\ saved = {}
    /\ mu = None
    /\ op = [p \in Procs |-> Idle]
    /\ calls = 0 /\ restarts = 0
    /\ raced = {}
    /\ gap = [f \in Fields |-> {}]
    /\ messy = [f \in Fields |-> {}]
    /\ want = docs
    /\ steady = [p \in Procs |-> {}]
    /\ ever = [p \in Procs |-> {}]

-----------------------------------------------------------------------------
(***************************************************************************)
(* Filters (helpers.go).                                                   *)
(***************************************************************************)
equal(a, b) == Text[a] = Text[b]

matchesFilter(doc, q) ==
    LET val == doc[q.field]
    IN  IF val = Absent THEN q.op = "ne"
        ELSE CASE q.op = "eq" -> equal(val, q.value)
               [] q.op = "ne" -> ~equal(val, q.value)
               [] q.op = "gt" -> Number[val] > Number[q.value]
               [] q.op = "gte" -> Number[val] >= Number[q.value]
               [] q.op = "lt" -> Number[val] < Number[q.value]
               [] q.op = "lte" -> Number[val] <= Number[q.value]
               [] q.op = "in" -> \E item \in q.value : equal(val, item)
               [] OTHER -> FALSE

matchesFilters(doc, filters) ==
    doc # NoDoc /\ \A i \in DOMAIN filters : matchesFilter(doc, filters[i])

\* The filters that an index can serve; the first of them is used.
Indexable(filters) ==
    {i \in DOMAIN filters : filters[i].op = "eq" /\ indexes[filters[i].field] # NoIndex}

FirstOf(S) == CHOOSE i \in S : \A j \in S : i <= j

tryUseIndexes(filters) ==
    LET q == filters[FirstOf(Indexable(filters))] IN indexes[q.field][q.value]

-----------------------------------------------------------------------------
(***************************************************************************)
(* Writing.  A writing call works through a list of ids: Update and Delete *)
(* have one, an update or delete by query those that its search found.     *)
(***************************************************************************)
Work(todo, act) == IF todo = <<>> THEN Idle ELSE [pc |-> "get", todo |-> todo, act |-> act]

Call(p) == op[p] = Idle /\ calls < MaxCalls /\ calls' = calls + 1 /\ UNCHANGED restarts

Within == UNCHANGED <<calls, restarts>>

Goto(p, state) == op' = [op EXCEPT ![p] = state]

\* Merge, or replace all but the id; then remove the unset fields.
Updated(u, id, doc) ==
    [f \in Fields |->
        IF f \in u.unset THEN Absent
        ELSE IF f = IdField /\ ~u.merge THEN Name[id]
        ELSE IF f \in DOMAIN u.set THEN u.set[f]
        ELSE IF u.merge THEN doc[f] ELSE Absent]

Apply(act, id, doc) == IF act = Delete THEN NoDoc ELSE Updated(act, id, doc)

\* storage.Set, with an id of the caller's or a new one.  There is no check whether the
\* document exists.  The indexes get the values in memory.
Insert(p, id, doc) ==
    /\ Call(p)
    /\ LET new == [doc EXCEPT ![IdField] = Name[id]]
       IN  /\ docs' = [docs EXCEPT ![id] = Stored(new)]
           /\ Goto(p, [pc |-> "add", id |-> id, old |-> NoDoc, new |-> new, todo |-> <<>>, act |-> None])
    /\ UNCHANGED <<indexes, saved, mu>>

Update(p, id, u) == Call(p) /\ Goto(p, Work(<<id>>, u)) /\ UNCHANGED store

DeleteOne(p, id) == Call(p) /\ Goto(p, Work(<<id>>, Delete)) /\ UNCHANGED store

\* Fault: the fields that are set replace the document.
GetToReplace(p) ==
    /\ op[p].pc = "get"
    /\ LET id == Head(op[p].todo)
           act == op[p].act
           bare == [f \in Fields |-> Absent]
       IN  Goto(p, IF id \notin Existing THEN Work(Tail(op[p].todo), act)
                   ELSE [pc |-> "store", id |-> id, old |-> docs[id], new |-> Apply(act, id, bare),
                         todo |-> Tail(op[p].todo), act |-> act])
    /\ Within
    /\ UNCHANGED store

\* Get before a write: a document that is not there is an error, or skipped in a list, as
\* is one without a name.
Get(p) ==
    /\ op[p].pc = "get"
    /\ LET id == Head(op[p].todo)
           rest == Tail(op[p].todo)
           act == op[p].act
       IN  Goto(p, IF id \notin Existing THEN Work(rest, act)
                   ELSE [pc |-> "store", id |-> id, old |-> docs[id],
                         new |-> Apply(act, id, docs[id]), todo |-> rest, act |-> act])
    /\ Within
    /\ UNCHANGED store

\* storage.Set or storage.Delete.
Store(p) ==
    /\ op[p].pc = "store"
    /\ docs' = [docs EXCEPT ![op[p].id] = Stored(op[p].new)]
    /\ Goto(p, [op[p] EXCEPT !.pc = "remove"])
    /\ Within
    /\ UNCHANGED <<indexes, saved, mu>>

\* Fault: the entry of the new value is removed.
RemoveNew(p) ==
    /\ op[p].pc = "remove"
    /\ mu = None
    /\ LET id == op[p].id
           value(f) == IF op[p].new = NoDoc THEN Absent ELSE op[p].new[f]
       IN  indexes' = [f \in Fields |->
               IF indexes[f] = NoIndex \/ value(f) = Absent THEN indexes[f]
               ELSE [indexes[f] EXCEPT ![value(f)] = Without(@, id)]]
    /\ Goto(p, IF op[p].new = NoDoc THEN Work(op[p].todo, op[p].act)
               ELSE [op[p] EXCEPT !.pc = "add"])
    /\ Within
    /\ UNCHANGED <<docs, saved, mu>>

removeIndexes(p) ==
    /\ op[p].pc = "remove"
    /\ mu = None
    /\ LET id == op[p].id
           value(f) == op[p].old[f]
       IN  indexes' = [f \in Fields |->
               IF indexes[f] = NoIndex \/ value(f) = Absent THEN indexes[f]
               ELSE [indexes[f] EXCEPT ![value(f)] = Without(@, id)]]
    /\ Goto(p, IF op[p].new = NoDoc THEN Work(op[p].todo, op[p].act)
               ELSE [op[p] EXCEPT !.pc = "add"])
    /\ Within
    /\ UNCHANGED <<docs, saved, mu>>

updateIndexes(p) ==
    /\ op[p].pc = "add"
    /\ mu = None
    /\ LET value(f) == op[p].new[f]
       IN  indexes' = [f \in Fields |->
               IF indexes[f] = NoIndex \/ value(f) = Absent THEN indexes[f]
               ELSE [indexes[f] EXCEPT ![value(f)] = Append(@, op[p].id)]]
    /\ Goto(p, Work(op[p].todo, op[p].act))
    /\ Within
    /\ UNCHANGED <<docs, saved, mu>>

-----------------------------------------------------------------------------
(***************************************************************************)
(* Searching.  act is what a search by query does with its results.        *)
(***************************************************************************)
\* Fault: no limit is taken for a limit.
PageToLimit(s, o) ==
    SubSeq(s, o.skip + 1, IF o.skip + o.limit > Len(s) THEN Len(s) ELSE o.skip + o.limit)

\* The part of an index list that Find reads; the bounds are those of a Go slice.
Page(s, o) ==
    LET end == IF o.limit < 0 THEN Len(s) ELSE o.skip + o.limit
    IN  SubSeq(s, o.skip + 1, IF end > Len(s) THEN Len(s) ELSE end)

\* Skip and limit of the results.
Paginate(s, o) ==
    LET rest == IF o.skip > 0 THEN SubSeq(s, o.skip + 1, Len(s)) ELSE s
    IN  IF o.limit > 0 /\ Len(rest) > o.limit THEN SubSeq(rest, 1, o.limit) ELSE rest

Find(p, o, act) ==
    /\ Call(p)
    /\ mu = None
    /\ Goto(p, IF Indexable(o.filters) # {}
               THEN [pc |-> "read", find |-> o, act |-> act, res |-> <<>>,
                     ids |-> Page(tryUseIndexes(o.filters), o)]
               ELSE [pc |-> "scan", find |-> o, act |-> act])
    /\ UNCHANGED store

Found(p, res) ==
    Goto(p, [pc |-> "found", find |-> op[p].find, act |-> op[p].act,
             res |-> Paginate(res, op[p].find)])

\* Fault: the index is believed.
ReadUnchecked(p) ==
    /\ op[p].pc = "read"
    /\ IF op[p].ids = <<>> THEN Found(p, op[p].res)
       ELSE Goto(p, [op[p] EXCEPT !.ids = Tail(@),
                        !.res = IF docs[Head(op[p].ids)] # NoDoc
                                THEN Append(@, docs[Head(op[p].ids)]) ELSE @])
    /\ Within
    /\ UNCHANGED store

\* One storage.Get per id; a document that is gone or does not match is left out.
FindRead(p) ==
    /\ op[p].pc = "read"
    /\ IF op[p].ids = <<>> THEN Found(p, op[p].res)
       ELSE LET id == Head(op[p].ids)
            IN  Goto(p, [op[p] EXCEPT !.ids = Tail(@),
                            !.res = IF matchesFilters(docs[id], op[p].find.filters)
                                    THEN Append(@, docs[id]) ELSE @])
    /\ Within
    /\ UNCHANGED store

\* The scan of the collection is one transaction.
FindScan(p) ==
    /\ op[p].pc = "scan"
    /\ LET ids == Sorted({id \in Ids : matchesFilters(docs[id], op[p].find.filters)})
       IN  Found(p, [i \in DOMAIN ids |-> docs[ids[i]]])
    /\ Within
    /\ UNCHANGED store

\* Find returns; DeleteMany and an update by query go on with what the results have for
\* their "_id".
FindReturn(p) ==
    /\ op[p].pc = "found"
    /\ LET res == op[p].res
       IN  Goto(p, IF op[p].act = None THEN Idle
                   ELSE Work([i \in DOMAIN res |-> NameOf(res[i])], op[p].act))
    /\ Within
    /\ UNCHANGED store

-----------------------------------------------------------------------------
(***************************************************************************)
(* Indexes.                                                                *)
(***************************************************************************)
\* Fault: the scan runs before ds.mu is taken.
ScanUnlocked(p, f) ==
    /\ Call(p)
    /\ mu = None
    /\ Goto(p, [pc |-> "build", field |-> f, scan |-> docs])
    /\ UNCHANGED store

\* ds.mu is held from here to CreateIndexBuild; the scan reads this snapshot.
CreateIndexScan(p, f) ==
    /\ Call(p)
    /\ mu = None
    /\ mu' = p
    /\ Goto(p, [pc |-> "build", field |-> f, scan |-> docs])
    /\ UNCHANGED <<docs, indexes, saved>>

Indexed == {f \in Fields : indexes[f] # NoIndex}

\* What the documents have for their "_id" is appended to a list that may exist already;
\* then the metadata is saved.
CreateIndexBuild(p) ==
    /\ op[p].pc = "build"
    /\ LET f == op[p].field
           scan == op[p].scan
           base == IF indexes[f] = NoIndex THEN EmptyIndex ELSE indexes[f]
           under(v) == Sorted({id \in Ids : scan[id] # NoDoc /\ scan[id][f] = v /\ NameOf(scan[id]) # None})
           names(v) == [i \in DOMAIN under(v) |-> NameOf(scan[under(v)[i]])]
       IN  /\ indexes' = [indexes EXCEPT ![f] = [v \in Values |-> base[v] \o names(v)]]
           /\ saved' = Indexed \cup {f}
    /\ mu' = None
    /\ Goto(p, Idle)
    /\ Within
    /\ UNCHANGED docs

DropIndex(p, f) ==
    /\ Call(p)
    /\ mu = None
    /\ indexes' = [indexes EXCEPT ![f] = NoIndex]
    /\ saved' = Indexed \ {f}
    /\ UNCHANGED <<docs, mu, op>>

\* The process starts again: loadIndexMetadata makes the indexes and leaves them empty.
Restart ==
    /\ restarts < MaxRestarts
    /\ restarts' = restarts + 1
    /\ indexes' = [f \in Fields |-> IF f \in saved THEN EmptyIndex ELSE NoIndex]
    /\ mu' = None
    /\ op' = [p \in Procs |-> Idle]
    /\ UNCHANGED <<docs, saved, calls>>

-----------------------------------------------------------------------------
(***************************************************************************)
(* Histories, kept beside every step.                                      *)
(***************************************************************************)
\* A call is writing a document from its Get, or an Insert from its Set, to its last
\* change of an index.
Writes(state, id) == state.pc \in {"store", "remove", "add"} /\ state.id = id

Writers(ops, id) == {p \in Procs : Writes(ops[p], id)}

Overlapped(ops) == {id \in Ids : Cardinality(Writers(ops, id)) > 1}

Searching(state) == state.pc \in {"read", "scan", "found"}

ScanOf(f) == \E p \in Procs : op'[p].pc = "build" /\ op[p] = Idle /\ op'[p].field = f

Reindexed == {id \in Ids : \E p \in Procs : op[p].pc = "add" /\ op[p].id = id /\ op'[p] # op[p]}

InsertedOver ==
    {id \in Existing : \E p \in Procs : op[p] = Idle /\ op'[p].pc = "add" /\ op'[p].id = id}

\* Documents that are written with a value that JSON changes, such as an int.
Retyped(ops, f) ==
    {id \in Ids : \E p \in Writers(ops, id) : ops[p].new # NoDoc /\ Stored(ops[p].new)[f] # ops[p].new[f]}

\* Documents whose "_id" is not the id that they are stored under.
Renamed == {id \in Existing : NameOf(docs[id]) # id}

\* An index misses what was stored before a restart, or is renamed when the index is
\* created, or was written with a value that JSON changes, until it is written again or
\* the index is created again; and may miss what two calls wrote at once.
NextGap(f) ==
    LET cured == IF ScanOf(f) THEN {id \in Ids : id \notin raced \/ Writers(op, id) = {}}
                 ELSE Reindexed \ (raced \cup Retyped(op, f))
        missed == IF ScanOf(f) THEN Renamed ELSE {}
    IN  (gap[f] \ cured) \cup missed \cup Overlapped(op') \cup Retyped(op', f)

\* An index holds a document twice, or under another value, after an insert over it, after
\* overlapping writes, after a write of a value that JSON changes, when it is created
\* while the document is being written or while the index already has it, and when
\* it is created while another document has its name.
NextMessy(f) ==
    LET busy == {id \in Ids : Writers(op, id) # {}}
    IN  IF ScanOf(f)
        THEN (IF indexes[f] = NoIndex THEN {} ELSE messy[f] \cup (Existing \ gap[f])) \cup busy
                 \cup Renamed \cup {NameOf(docs[id]) : id \in Renamed}
        ELSE messy[f] \cup Overlapped(op') \cup InsertedOver \cup Retyped(op', f)

NextWant(id) ==
    LET stored == {p \in Procs : op[p].pc = "store" /\ op[p].id = id /\ op'[p] # op[p]}
        inserted == {p \in Procs : op[p] = Idle /\ op'[p].pc = "add" /\ op'[p].id = id}
    IN  CASE stored # {} /\ want[id] # NoDoc -> Stored(Apply(op[CHOOSE p \in stored : TRUE].act, id, want[id]))
          [] stored # {} /\ want[id] = NoDoc -> Stored(op[CHOOSE p \in stored : TRUE].new)
          [] inserted # {} -> Stored(op'[CHOOSE p \in inserted : TRUE].new)
          [] OTHER -> want[id]

\* What a search that starts must find.  On the index path values compare with type, and a
\* limit of 0, which elsewhere is no limit, leaves nothing.
Due(o) ==
    LET I == Indexable(o.filters)
        listed(id) == LET q == o.filters[FirstOf(I)]
                      IN  docs[id][q.field] = q.value /\ id \notin gap[q.field]
    IN  {id \in Ids : matchesFilters(docs[id], o.filters) /\ (I # {} => o.limit < 0 /\ listed(id))}

Matching(o) == {NameOf(docs'[id]) : id \in {i \in Ids : matchesFilters(docs'[i], o.filters)}}

NextSteady(p) ==
    IF ~Searching(op'[p]) THEN {}
    ELSE LET from == IF Searching(op[p]) THEN steady[p] ELSE Due(op'[p].find)
         IN  {id \in from : docs'[id] = docs[id] /\ Writers(op, id) \cup Writers(op', id) = {}}

NextEver(p) ==
    CASE op'[p] = Idle -> {}
      [] Searching(op'[p]) -> ever[p] \cup Matching(op'[p].find)
      [] op[p] = Idle /\ op'[p] # Idle /\ ~Searching(op'[p]) -> Ids
      [] OTHER -> ever[p]

Observe ==
    IF restarts' # restarts
    THEN /\ raced' = {}
         /\ gap' = [f \in Fields |-> Existing]
         /\ messy' = [f \in Fields |-> {}]
         /\ want' = docs
         /\ steady' = [p \in Procs |-> {}]
         /\ ever' = [p \in Procs |-> {}]
    ELSE /\ raced' = raced \cup Overlapped(op')
         /\ gap' = [f \in Fields |-> NextGap(f)]
         /\ messy' = [f \in Fields |-> NextMessy(f)]
         /\ want' = [id \in Ids |-> NextWant(id)]
         /\ steady' = [p \in Procs |-> NextSteady(p)]
         /\ ever' = [p \in Procs |-> NextEver(p)]

-----------------------------------------------------------------------------
WriterStep(p) ==
    \/ \E id \in Ids, doc \in Documents : Insert(p, id, doc)
    \/ \E id \in Ids, u \in Updates : Update(p, id, u)
    \/ \E id \in Ids : DeleteOne(p, id)
    \/ Get(p) \/ Store(p) \/ removeIndexes(p) \/ updateIndexes(p)

FinderStep(p) ==
    \/ \E o \in Finds : Find(p, o, None)
    \/ \E s \in Selections : Find(p, s.find, s.act)
    \/ FindRead(p) \/ FindScan(p) \/ FindReturn(p)

IndexStep(p) ==
    \/ \E f \in IndexFields : CreateIndexScan(p, f) \/ DropIndex(p, f)
    \/ CreateIndexBuild(p)

Next ==
    /\ \/ \E p \in Procs : WriterStep(p) \/ FinderStep(p) \/ IndexStep(p)
       \/ Restart
    /\ Observe

Spec == Init /\ [][Next]_vars

-----------------------------------------------------------------------------
Listed(f, id) == {v \in Values : id \in Elements(indexes[f][v])}

Quiet(id) == Writers(op, id) = {}

\* An index covers every document that it can be expected to cover: whatever order the
\* store transactions and the critical sections of several calls take, a document that
\* nobody is writing is listed under the value it is stored with, unless a restart
\* emptied the index, two calls wrote the document at once, or it was written with a
\* value that JSON changes; creating the index again cures all three, but misses a
\* document whose "_id" was changed.
IndexCovers ==
    mu = None =>
        \A f \in Indexed, id \in Existing :
            (id \notin gap[f] /\ Quiet(id) /\ docs[id][f] # Absent)
                => docs[id][f] \in Listed(f, id)

\* An index lists a document once and only under the value it is stored with, unless Insert
\* wrote over it, calls overlapped on it, it was written with a value that JSON changes,
\* or the index was created over it a second time or with another document of its name.
IndexExact ==
    mu = None =>
        \A f \in Indexed, id \in Ids :
            (id \notin messy[f] /\ Quiet(id)) =>
                \A v \in Listed(f, id) :
                    /\ docs[id] # NoDoc /\ docs[id][f] = v
                    /\ Cardinality({i \in DOMAIN indexes[f][v] : indexes[f][v][i] = id}) = 1

\* A search without skip and limit returns every document that matched when it began,
\* was covered by the index it used, and was left alone meanwhile, although it reads an
\* index first and the documents one by one afterwards.  Limit 0 counts as no limit
\* where no index is used.
FindComplete ==
    \A p \in Procs :
        (op[p].pc = "found" /\ op[p].find.skip = 0 /\ op[p].find.limit <= 0)
            => {docs[id] : id \in steady[p]} \subseteq Elements(op[p].res)

\* An update or delete by query writes no document but those that were named by one that
\* matched the query at some time since it began, however stale the index that led to
\* it; as long as no update changes an "_id", these are the matching documents.
OnlyMatchedWritten ==
    \A p \in Procs :
        op[p].pc = "store" => op[p].id \in ever[p]

\* No write is lost unless two calls wrote the document at once: the store holds what
\* the calls would have made of it one after the other.
UpdatesKept == \A id \in Ids \ raced : docs[id] = want[id]

=============================================================================
