----------------------------- MODULE KVStoreProofs -----------------------------
(***************************************************************************)
(* Proofs about KVStore for any number of goroutines, keys, batches and    *)
(* any sizes of transactions: no count is applied twice, a batch write     *)
(* leaves nothing of what was there before it, and a batch that fits a     *)
(* transaction is seen whole.                                              *)
(***************************************************************************)
EXTENDS KVStore, FiniteSetTheorems, TLAPS

\* What the proofs need of the types: the fields of a call, domains and the clock.
CallOK(c) ==
    /\ c.pc \in {"idle", "count", "update", "write", "read", "answer"}
    /\ c.pc \in {"count", "update"} => c.key \in SingleKeys
    /\ c.pc = "count" => c.by \in {1, -1}
    /\ c.pc = "update" => c.value \in Values
    /\ c.pc = "write" =>
          DOMAIN c = {"pc", "group", "left", "added", "value", "ttl", "over"} /\ c.ttl \in Nat
    /\ c.pc = "read" =>
          /\ DOMAIN c = {"pc", "left", "chunk", "room", "snap", "res"}
          /\ c.chunk \in Nat /\ c.room \in Int

Types ==
    /\ DOMAIN store = Keys /\ DOMAIN call = Procs
    /\ now \in Nat

Small(B) == Cardinality(B) <= TxnLimit

\* Entries of one batch: the same value, and all with a time to live or all without.
Uniform(f, B) ==
    \A k1, k2 \in B :
        f[k1].value = f[k2].value /\ (f[k1].expires = 0 <=> f[k2].expires = 0)

\* A write batch: what it has added is what its arguments say, and as long as it fits a
\* transaction it has written nothing.
WriteOn(c, B) ==
    /\ c.left \subseteq B /\ DOMAIN c.added \subseteq B
    /\ c.left \cap DOMAIN c.added = {}
    /\ Small(B) => B = c.left \cup DOMAIN c.added
    /\ \A k \in DOMAIN c.added :
          c.added[k].value = c.value /\ (c.added[k].expires = 0 <=> c.ttl = 0)

\* A read: while the keys fit its transaction, all answers come from one snapshot, except
\* for entries that have expired since.
ReadOn(c, B) ==
    /\ B = c.left \cup DOMAIN c.res /\ c.left \cap DOMAIN c.res = {}
    /\ Small(B) /\ Cardinality(B) <= c.chunk =>
          \/ DOMAIN c.res = {} /\ c.room = 0
          \/ /\ c.room = c.chunk - Cardinality(DOMAIN c.res)
             /\ B \subseteq DOMAIN c.snap /\ Uniform(c.snap, B)
             /\ \A k \in DOMAIN c.res :
                   \/ c.res[k] = c.snap[k]
                   \/ /\ c.res[k] = Missing
                      /\ c.snap[k].value = Absent \/ c.snap[k].expires # 0

\* An answer, as SeenTogether has it.
SeenWhole(c) ==
    Small(DOMAIN c.res) /\ Cardinality(DOMAIN c.res) <= c.chunk =>
        \A k1, k2 \in DOMAIN c.res :
            \/ c.res[k1].value = c.res[k2].value
            \/ c.res[k1] = Missing /\ c.res[k2].expires # 0
            \/ c.res[k2] = Missing /\ c.res[k1].expires # 0

Good(c) ==
    /\ CallOK(c)
    /\ c.pc = "write" => c.group \in Groups /\ WriteOn(c, c.group)
    /\ c.pc = "read" => \E B \in Groups : ReadOn(c, B)
    /\ c.pc = "answer" => SeenWhole(c)

StoreUniform == \A B \in Groups : Small(B) => Uniform(store, B)

\* The inductive invariant of calls and batches.
KVInv ==
    /\ Types
    /\ \A g \in Procs : Good(call[g])
    /\ StoreUniform

-----------------------------------------------------------------------------
(***************************************************************************)
(* What a call may become.                                                 *)
(***************************************************************************)
\* Keys of single calls are in no batch, and batches share no keys.
LEMMA KeysApart ==
    /\ \A B \in Groups : B \subseteq Keys /\ \A k \in B : k \notin SingleKeys
    /\ \A B1, B2 \in Groups : \A k \in B1 : k \in B2 => B1 = B2
    /\ SingleKeys \subseteq Keys
  BY KVAssumption DEF Keys

\* A goroutine that moves to a good state leaves the others alone.
LEMMA GotoGood ==
    ASSUME Types, \A g \in Procs : Good(call[g]), NEW g \in Procs, NEW s, Good(s), Goto(g, s)
    PROVE  /\ DOMAIN call' = Procs /\ call'[g] = s
           /\ \A h \in Procs : h # g => call'[h] = call[h]
           /\ \A h \in Procs : Good(call'[h])
  <1>1. DOMAIN call' = Procs /\ call'[g] = s /\ \A h \in Procs : h # g => call'[h] = call[h]
    BY DEF Types, Goto
  <1> QED
    BY <1>1

\* A goroutine between calls, or with a key that it has read, is in a good state.
LEMMA PlainGood ==
    /\ Good(Idle)
    /\ \A k \in SingleKeys, by \in {1, -1} : \A from :
          Good([pc |-> "count", key |-> k, by |-> by, from |-> from])
    /\ \A k \in SingleKeys, v \in Values : \A ttl :
          Good([pc |-> "update", key |-> k, value |-> v, ttl |-> ttl])
  BY DEF Good, CallOK, Idle

\* A batch write starts with all its keys left to add.
LEMMA WriteGood ==
    ASSUME NEW B \in Groups, NEW v, NEW ttl \in Nat, NEW o
    PROVE  Good([pc |-> "write", group |-> B, left |-> B, added |-> <<>>, value |-> v,
                 ttl |-> ttl, over |-> o])
  <1> DEFINE c == [pc |-> "write", group |-> B, left |-> B, added |-> <<>>, value |-> v,
                   ttl |-> ttl, over |-> o]
  <1>1. DOMAIN c.added = {} /\ c.group = B
    OBVIOUS
  <1>2. WriteOn(c, B)
    BY <1>1 DEF WriteOn
  <1>3. CallOK(c)
    BY DEF CallOK
  <1> QED
    BY <1>1, <1>2, <1>3 DEF Good

\* Another writer of the group begins.
LEMMA OverGood ==
    ASSUME NEW c, Good(c), c.pc = "write", NEW o
    PROVE  Good([c EXCEPT !.over = o])
  <1> DEFINE d == [c EXCEPT !.over = o]
  <1>1. DOMAIN c = {"pc", "group", "left", "added", "value", "ttl", "over"} /\ c.ttl \in Nat
    BY DEF Good, CallOK
  <1>2. /\ d.pc = "write" /\ d.group = c.group /\ d.left = c.left /\ d.added = c.added
        /\ d.value = c.value /\ d.ttl = c.ttl
        /\ DOMAIN d = {"pc", "group", "left", "added", "value", "ttl", "over"}
    BY <1>1
  <1> HIDE DEF d
  <1>3. CallOK(d)
    BY <1>1, <1>2 DEF CallOK
  <1>4. d.group \in Groups /\ WriteOn(d, d.group)
    BY <1>2 DEF Good, WriteOn
  <1> QED
    BY <1>2, <1>3, <1>4 DEF Good, d

\* A read starts with all its keys left and no snapshot.
LEMMA ReadGood ==
    ASSUME NEW B \in Groups, NEW chunk \in Nat
    PROVE  Good([pc |-> "read", left |-> B, chunk |-> chunk, room |-> 0, snap |-> <<>>,
                 res |-> <<>>])
  <1> DEFINE c == [pc |-> "read", left |-> B, chunk |-> chunk, room |-> 0, snap |-> <<>>,
                   res |-> <<>>]
  <1>1. DOMAIN c.res = {}
    OBVIOUS
  <1>2. ReadOn(c, B)
    BY <1>1 DEF ReadOn
  <1>3. CallOK(c)
    BY DEF CallOK
  <1> QED
    BY <1>2, <1>3 DEF Good

\* A proper part of a finite set has fewer elements, and one more with one more.
LEMMA FewerThan ==
    ASSUME NEW B, IsFiniteSet(B), NEW D \in SUBSET B, NEW k \in B, k \notin D
    PROVE  /\ Cardinality(B) \in Nat /\ Cardinality(D) \in Nat
           /\ Cardinality(D) < Cardinality(B)
           /\ Cardinality(D \cup {k}) = Cardinality(D) + 1
  <1>1. Cardinality(B \ {k}) = Cardinality(B) - 1 /\ IsFiniteSet(B \ {k})
    BY FS_RemoveElement
  <1>2. D \in SUBSET (B \ {k})
    OBVIOUS
  <1>3. IsFiniteSet(D) /\ Cardinality(D) <= Cardinality(B \ {k})
    BY <1>1, <1>2, FS_Subset
  <1>4. Cardinality(B) \in Nat /\ Cardinality(D) \in Nat
    BY <1>3, FS_CardinalityType
  <1>5. Cardinality(D \cup {k}) = Cardinality(D) + 1
    BY <1>3, FS_AddElement
  <1> QED
    BY <1>1, <1>3, <1>4, <1>5

\* An entry has the value it is given, and expires if and only if it has a time to live.
LEMMA EntryIs ==
    ASSUME Types, NEW v, NEW ttl \in Nat
    PROVE  /\ Entry(v, ttl).value = v
           /\ Entry(v, ttl).expires = 0 <=> ttl = 0
  BY DEF Entry, Types

\* Adding an entry to a write batch: a batch that fits a transaction is never full before
\* its last key is added.
LEMMA AddGood ==
    ASSUME Types, NEW c, Good(c), c.pc = "write", NEW k \in c.left, NEW full \in BOOLEAN,
           full <=> Cardinality(DOMAIN c.added) = TxnLimit,
           NEW d, d = [c EXCEPT !.left = c.left \ {k},
                                !.added = With(IF full THEN <<>> ELSE c.added, k,
                                               Entry(c.value, c.ttl))]
    PROVE  /\ Good(d)
           /\ full => \E B \in Groups : ~Small(B) /\ DOMAIN c.added \subseteq B
  <1> DEFINE B == c.group
  <1>1. B \in Groups /\ WriteOn(c, B)
    BY DEF Good
  <1>2. CallOK(c) /\ DOMAIN c = {"pc", "group", "left", "added", "value", "ttl", "over"} /\ c.ttl \in Nat
    BY DEF Good, CallOK
  <1> DEFINE e == Entry(c.value, c.ttl)
             old == IF full THEN <<>> ELSE c.added
  <1>3. /\ d.pc = "write" /\ d.left = c.left \ {k} /\ d.value = c.value /\ d.ttl = c.ttl
        /\ d.added = With(old, k, e) /\ d.group = B
        /\ DOMAIN d = {"pc", "group", "left", "added", "value", "ttl", "over"}
    BY <1>2
  <1>4. DOMAIN d.added = DOMAIN old \cup {k}
        /\ \A x \in DOMAIN d.added : d.added[x] = IF x = k THEN e ELSE old[x]
    BY <1>3 DEF With
  <1>5. e.value = c.value /\ (e.expires = 0 <=> c.ttl = 0)
    BY <1>2, EntryIs
  <1> HIDE DEF e, B
  <1>6. k \in B /\ k \notin DOMAIN c.added /\ DOMAIN c.added \subseteq B
    BY <1>1 DEF WriteOn
  <1>7. full => ~Small(B)
    <2> SUFFICES ASSUME full, Small(B)
                 PROVE  FALSE
      OBVIOUS
    <2>1. IsFiniteSet(B)
      BY <1>1, KVAssumption
    <2>2. Cardinality(DOMAIN c.added) < Cardinality(B) /\ Cardinality(B) \in Nat
          /\ Cardinality(DOMAIN c.added) \in Nat
      BY <1>6, <2>1, FewerThan
    <2> QED
      BY <2>2, KVAssumption DEF Small
  <1>8. WriteOn(d, B)
    <2>1. CASE full
      <3>1. DOMAIN old = {}
        BY <2>1
      <3> QED
        BY <1>1, <1>3, <1>4, <1>5, <1>6, <1>7, <2>1, <3>1 DEF WriteOn
    <2>2. CASE ~full
      <3>1. old = c.added
        BY <2>2
      <3>2. d.left \subseteq B /\ DOMAIN d.added \subseteq B /\ d.left \cap DOMAIN d.added = {}
        BY <1>1, <1>3, <1>4, <1>6, <3>1 DEF WriteOn
      <3>3. Small(B) => B = d.left \cup DOMAIN d.added
        BY <1>1, <1>3, <1>4, <1>6, <3>1 DEF WriteOn
      <3>4. \A x \in DOMAIN d.added :
               d.added[x].value = d.value /\ (d.added[x].expires = 0 <=> d.ttl = 0)
        BY <1>1, <1>3, <1>4, <1>5, <3>1 DEF WriteOn
      <3> QED
        BY <3>2, <3>3, <3>4 DEF WriteOn
    <2> QED
      BY <2>1, <2>2
  <1>9. CallOK(d)
    BY <1>2, <1>3 DEF CallOK
  <1> QED
    BY <1>1, <1>3, <1>6, <1>7, <1>8, <1>9 DEF Good

\* What a transaction finds is the entry of its snapshot, unless that is not there.
LEMMA FoundIs ==
    ASSUME NEW e
    PROVE  Found(e) = e \/ (Found(e) = Missing /\ (e.value = Absent \/ e.expires # 0))
  BY DEF Found, Visible

\* Reading a key: while the keys fit the transaction there is only one snapshot, taken of a
\* store in which the batch was whole.
LEMMA ReadKeyGood ==
    ASSUME Types, StoreUniform, NEW c, Good(c), c.pc = "read", NEW k \in c.left,
           NEW fresh \in BOOLEAN, fresh <=> c.room = 0,
           NEW snap, snap = (IF fresh THEN [x \in c.left |-> store[x]] ELSE c.snap),
           NEW d, d = [c EXCEPT !.left = c.left \ {k}, !.snap = snap,
                                !.room = (IF fresh THEN c.chunk ELSE c.room) - 1,
                                !.res = With(c.res, k, Found(snap[k]))]
    PROVE  Good(d)
  <1>1. PICK B \in Groups : ReadOn(c, B)
    BY DEF Good
  <1>2. /\ CallOK(c) /\ DOMAIN c = {"pc", "left", "chunk", "room", "snap", "res"}
        /\ c.chunk \in Nat /\ c.room \in Int
    BY DEF Good, CallOK
  <1> DEFINE e == Found(snap[k])
             D == DOMAIN c.res
             room == (IF fresh THEN c.chunk ELSE c.room) - 1
  <1>3. /\ d.pc = "read" /\ d.left = c.left \ {k} /\ d.chunk = c.chunk /\ d.snap = snap
        /\ d.room = room /\ d.res = With(c.res, k, e)
        /\ DOMAIN d = {"pc", "left", "chunk", "room", "snap", "res"}
    BY <1>2
  <1>4. /\ DOMAIN d.res = D \cup {k}
        /\ \A x \in DOMAIN d.res : d.res[x] = IF x = k THEN e ELSE c.res[x]
    BY <1>3 DEF With
  <1>5. e = snap[k] \/ (e = Missing /\ (snap[k].value = Absent \/ snap[k].expires # 0))
    BY FoundIs
  <1> HIDE DEF e
  <1>6. /\ k \in B /\ k \notin D /\ D \subseteq B /\ B = d.left \cup DOMAIN d.res
        /\ d.left \cap DOMAIN d.res = {}
    BY <1>1, <1>3, <1>4 DEF ReadOn
  <1>7. room \in Int
    BY <1>2
  <1>8. CallOK(d)
    BY <1>2, <1>3, <1>7 DEF CallOK
  <1>9. ASSUME Small(B), Cardinality(B) <= c.chunk
        PROVE  /\ room = c.chunk - Cardinality(D \cup {k})
               /\ B \subseteq DOMAIN snap /\ Uniform(snap, B)
               /\ \A x \in D : \/ c.res[x] = snap[x]
                               \/ /\ c.res[x] = Missing
                                  /\ snap[x].value = Absent \/ snap[x].expires # 0
    <2>1. /\ Cardinality(B) \in Nat /\ Cardinality(D) \in Nat
          /\ Cardinality(D) < Cardinality(B)
          /\ Cardinality(D \cup {k}) = Cardinality(D) + 1
      <3>1. IsFiniteSet(B) /\ D \in SUBSET B /\ k \in B /\ k \notin D
        BY <1>6, KVAssumption
      <3> HIDE DEF D
      <3> QED
        BY <3>1, FewerThan
    <2>2. CASE D = {} /\ c.room = 0
      <3>1. fresh /\ c.left = B /\ Cardinality(D) = 0
        BY <1>1, <2>2, FS_EmptySet DEF ReadOn
      <3>2. \A x \in B : snap[x] = store[x]
        BY <3>1
      <3>3. Uniform(snap, B)
        BY <1>9, <3>2 DEF StoreUniform, Uniform
      <3>4. room = c.chunk - Cardinality(D \cup {k})
        BY <1>2, <2>1, <3>1
      <3> QED
        BY <2>2, <3>1, <3>3, <3>4
    <2>3. CASE /\ c.room = c.chunk - Cardinality(D)
               /\ B \subseteq DOMAIN c.snap /\ Uniform(c.snap, B)
               /\ \A x \in D : \/ c.res[x] = c.snap[x]
                               \/ /\ c.res[x] = Missing
                                  /\ c.snap[x].value = Absent \/ c.snap[x].expires # 0
      <3>1. c.room # 0
        BY <1>2, <1>9, <2>1, <2>3
      <3>2. ~fresh /\ snap = c.snap
        BY <3>1
      <3>3. room = c.chunk - Cardinality(D \cup {k})
        BY <1>2, <2>1, <2>3, <3>2
      <3> QED
        BY <2>3, <3>2, <3>3
    <2> QED
      BY <1>1, <1>9, <2>2, <2>3 DEF ReadOn
  <1>10. ReadOn(d, B)
    <2> HIDE DEF D, room
    <2>1. ASSUME Small(B), Cardinality(B) <= d.chunk
          PROVE  /\ d.room = d.chunk - Cardinality(DOMAIN d.res)
                 /\ B \subseteq DOMAIN d.snap /\ Uniform(d.snap, B)
                 /\ \A x \in DOMAIN d.res :
                       \/ d.res[x] = d.snap[x]
                       \/ /\ d.res[x] = Missing
                          /\ d.snap[x].value = Absent \/ d.snap[x].expires # 0
      <3>1. Cardinality(B) <= c.chunk
        BY <1>3, <2>1
      <3> QED
        BY <1>3, <1>4, <1>5, <1>9, <2>1, <3>1
    <2> QED
      BY <1>6, <2>1 DEF ReadOn
  <1> QED
    BY <1>3, <1>8, <1>10 DEF Good

\* The answer of a read whose keys fit its transaction.
LEMMA AnswerGood ==
    ASSUME NEW c, Good(c), c.pc = "read", c.left = {}
    PROVE  Good([pc |-> "answer", chunk |-> c.chunk, res |-> c.res])
  <1> DEFINE a == [pc |-> "answer", chunk |-> c.chunk, res |-> c.res]
  <1>1. PICK B \in Groups : ReadOn(c, B)
    BY DEF Good
  <1>2. B = DOMAIN c.res
    BY <1>1 DEF ReadOn
  <1>3. ASSUME Small(B), Cardinality(B) <= c.chunk, NEW k1 \in B, NEW k2 \in B
        PROVE  \/ c.res[k1].value = c.res[k2].value
               \/ c.res[k1] = Missing /\ c.res[k2].expires # 0
               \/ c.res[k2] = Missing /\ c.res[k1].expires # 0
    <2>1. /\ Uniform(c.snap, B)
          /\ \A k \in B : \/ c.res[k] = c.snap[k]
                          \/ /\ c.res[k] = Missing
                             /\ c.snap[k].value = Absent \/ c.snap[k].expires # 0
      BY <1>1, <1>2, <1>3 DEF ReadOn
    <2>2. /\ c.snap[k1].value = c.snap[k2].value
          /\ c.snap[k1].expires = 0 <=> c.snap[k2].expires = 0
      BY <2>1 DEF Uniform
    <2> QED
      BY <2>1, <2>2 DEF Missing
  <1>4. SeenWhole(a)
    BY <1>2, <1>3 DEF SeenWhole
  <1>5. CallOK(a)
    BY DEF CallOK
  <1> QED
    BY <1>4, <1>5 DEF Good

-----------------------------------------------------------------------------
(***************************************************************************)
(* The keys of batches.                                                    *)
(***************************************************************************)
\* A write to keys of one batch leaves every batch that fits a transaction whole, if it is
\* too large itself or all its keys get entries of the same kind.
LEMMA BatchWriteUniform ==
    ASSUME Types, StoreUniform, NEW B \in Groups, NEW f, DOMAIN f \subseteq B,
           Small(B) => DOMAIN f = B /\ Uniform(f, B),
           store' = [k \in Keys |-> IF k \in DOMAIN f THEN f[k] ELSE store[k]]
    PROVE  StoreUniform'
  <1> SUFFICES ASSUME NEW C \in Groups, Small(C)
               PROVE  Uniform(store', C)
    BY DEF StoreUniform, Uniform
  <1>1. C \subseteq Keys
    BY KeysApart
  <1>2. CASE C = B
    BY <1>1, <1>2 DEF Uniform
  <1>3. CASE C # B
    <2>1. \A k \in C : store'[k] = store[k]
      BY <1>1, <1>3, KeysApart
    <2> QED
      BY <2>1 DEF StoreUniform, Uniform
  <1> QED
    BY <1>2, <1>3

\* A write of a single key does not touch a batch.
LEMMA SingleWriteUniform ==
    ASSUME Types, StoreUniform, NEW k \in SingleKeys,
           \A x \in Keys : x # k => store'[x] = store[x]
    PROVE  StoreUniform'
  <1> SUFFICES ASSUME NEW C \in Groups, Small(C)
               PROVE  Uniform(store', C)
    BY DEF StoreUniform, Uniform
  <1>1. \A x \in C : store'[x] = store[x]
    BY KeysApart
  <1> QED
    BY <1>1 DEF StoreUniform, Uniform

-----------------------------------------------------------------------------
(***************************************************************************)
(* What a step does: calls stay good and batches whole.                    *)
(***************************************************************************)
Effect ==
    /\ DOMAIN store' = Keys /\ DOMAIN call' = Procs
    /\ now' \in Nat
    /\ \A g \in Procs : Good(call'[g])
    /\ StoreUniform'

\* A goroutine that moves on while the store stays.
LEMMA QuietEffect ==
    ASSUME KVInv, NEW g \in Procs, NEW s, Good(s), Goto(g, s), UNCHANGED <<store, now>>
    PROVE  Effect
  <1> USE DEF KVInv
  <1>1. DOMAIN call' = Procs /\ \A h \in Procs : Good(call'[h])
    BY GotoGood
  <1>2. StoreUniform'
    BY DEF StoreUniform, Uniform
  <1> QED
    BY <1>1, <1>2 DEF Effect, Types

\* A call that moves on and writes only keys of batches.
LEMMA BatchEffect ==
    ASSUME KVInv, NEW g \in Procs, NEW s, Good(s), Goto(g, s), StoreUniform', now' = now,
           DOMAIN store' = Keys
    PROVE  Effect
  <1>1. DOMAIN call' = Procs /\ \A h \in Procs : Good(call'[h])
    BY GotoGood DEF KVInv
  <1> QED
    BY <1>1 DEF KVInv, Effect, Types

\* A call that ends and writes one key.
LEMMA SingleEffect ==
    ASSUME KVInv, NEW g \in Procs, NEW k \in SingleKeys, Goto(g, Idle), now' = now,
           DOMAIN store' = Keys, \A x \in Keys : x # k => store'[x] = store[x]
    PROVE  Effect
  <1>1. StoreUniform'
    BY SingleWriteUniform DEF KVInv
  <1> QED
    BY <1>1, PlainGood, BatchEffect

\* Set, Delete and the HTTP handler's set.
LEMMA PutEffect ==
    ASSUME KVInv, NEW g \in Procs, NEW k \in SingleKeys, NEW e, Put(g, k, e)
    PROVE  Effect
  <1>1. DOMAIN store = Keys /\ k \in Keys
    BY KeysApart DEF KVInv, Types
  <1>2. store' = [store EXCEPT ![k] = e] /\ now' = now /\ Goto(g, Idle)
    BY DEF Put, Begin
  <1>3. DOMAIN store' = Keys /\ \A x \in Keys : x # k => store'[x] = store[x]
    BY <1>1, <1>2
  <1> QED
    BY <1>2, <1>3, SingleEffect

\* The reads of Incr, Decr and the HTTP handler's update.
LEMMA ReadEffect ==
    ASSUME KVInv, NEW g \in Procs, NEW k \in SingleKeys,
           \/ \E by \in {1, -1} : CounterRead(g, k, by)
           \/ \E v \in Values, ttl \in Ttls : UpdateGet(g, k, v, ttl)
    PROVE  Effect
  <1>1. ASSUME NEW by \in {1, -1}, CounterRead(g, k, by)
        PROVE  Effect
    <2> DEFINE s == [pc |-> "count", key |-> k, by |-> by, from |-> Number(Found(store[k]))]
    <2>1. Good(s)
      BY PlainGood
    <2>2. Goto(g, s) /\ UNCHANGED <<store, now>>
      BY <1>1 DEF CounterRead, Begin
    <2> HIDE DEF s
    <2> QED
      BY <2>1, <2>2, QuietEffect
  <1>2. ASSUME NEW v \in Values, NEW ttl \in Ttls, UpdateGet(g, k, v, ttl)
        PROVE  Effect
    <2> DEFINE s == [pc |-> "update", key |-> k, value |-> v, ttl |-> ttl]
    <2>1. Good(s) /\ Good(Idle)
      BY PlainGood
    <2>2. UNCHANGED <<store, now>> /\ (Goto(g, s) \/ Goto(g, Idle))
      BY <1>2 DEF UpdateGet, Begin, Goto
    <2> HIDE DEF s
    <2> QED
      BY <2>1, <2>2, QuietEffect
  <1> QED
    BY <1>1, <1>2

\* The ends of those calls write their key, or nothing once the database is closed.
LEMMA CommitWrites ==
    ASSUME KVInv, NEW g \in Procs, CounterCommit(g) \/ UpdateSet(g)
    PROVE  /\ call[g].key \in SingleKeys /\ Goto(g, Idle) /\ now' = now /\ status' = status
           /\ DOMAIN store' = Keys
           /\ \A x \in Keys : x # call[g].key => store'[x] = store[x]
           /\ CounterCommit(g) => \/ store' = store /\ status = "closed"
                                  \/ /\ status # "closed"
                                     /\ store'[call[g].key].value = call[g].from + call[g].by
           /\ UpdateSet(g) => store' = store \/ store'[call[g].key].value = call[g].value
  <1> DEFINE c == call[g]
             k == c.key
  <1>1. /\ DOMAIN store = Keys
        /\ k \in SingleKeys /\ k \in Keys /\ c.pc \in {"count", "update"}
    BY KeysApart DEF KVInv, Types, Good, CallOK, CounterCommit, UpdateSet
  <1>2. PICK e : /\ End(g, [x \in {k} |-> e])
                 /\ CounterCommit(g) => e.value = c.from + c.by
                 /\ UpdateSet(g) => e.value = c.value
    <2>1. CASE CounterCommit(g)
      <3>1. ~UpdateSet(g)
        BY <2>1 DEF CounterCommit, UpdateSet
      <3>2. End(g, [x \in {k} |-> [value |-> c.from + c.by, expires |-> 0]])
        BY <2>1 DEF CounterCommit
      <3> QED
        BY <3>1, <3>2
    <2>2. CASE UpdateSet(g)
      <3>1. ~CounterCommit(g)
        BY <2>2 DEF CounterCommit, UpdateSet
      <3>2. End(g, [x \in {k} |-> Entry(c.value, c.ttl)])
        BY <2>2 DEF UpdateSet
      <3>3. Entry(c.value, c.ttl).value = c.value
        BY DEF Entry
      <3> QED
        BY <3>1, <3>2, <3>3
    <2> QED
      BY <2>1, <2>2
  <1>3. /\ Goto(g, Idle) /\ now' = now /\ status' = status
        /\ store' = IF status = "closed" THEN store
                    ELSE [x \in Keys |-> IF x \in {k} THEN e ELSE store[x]]
    <2>1. DOMAIN [x \in {k} |-> e] = {k} /\ \A x \in {k} : [y \in {k} |-> e][x] = e
      OBVIOUS
    <2> QED
      BY <1>2, <2>1 DEF End
  <1> HIDE DEF c, k
  <1>4. CASE status = "closed"
    BY <1>1, <1>3, <1>4 DEF k, c
  <1>5. CASE status # "closed"
    <2>1. /\ DOMAIN store' = Keys /\ store'[k] = e
          /\ \A x \in Keys : x # k => store'[x] = store[x]
      BY <1>1, <1>3, <1>5
    <2> QED
      BY <1>1, <1>2, <1>3, <1>5, <2>1 DEF k, c
  <1> QED
    BY <1>4, <1>5

LEMMA CommitEffect ==
    ASSUME KVInv, NEW g \in Procs, CounterCommit(g) \/ UpdateSet(g)
    PROVE  Effect
  BY CommitWrites, SingleEffect

\* The starts of batch writes and reads.
LEMMA StartEffect ==
    ASSUME KVInv, NEW g \in Procs, GroupCall(g)
    PROVE  Effect
  <1>1. ASSUME NEW B \in Groups, NEW v, NEW ttl \in Nat, Write(g, B, v, ttl)
        PROVE  Effect
    <2>1. DOMAIN call' = Procs /\ UNCHANGED <<store, now>>
      BY <1>1 DEF Write, Begin
    <2>2. ASSUME NEW h \in Procs
          PROVE  Good(call'[h])
      <3>1. CASE h = g
        BY <1>1, <3>1, WriteGood DEF Write
      <3>2. CASE h # g /\ h \in Writers(B)
        <4>1. call'[h] = [call[h] EXCEPT !.over = @ \cup {v}]
          BY <1>1, <3>2 DEF Write
        <4>2. Good(call[h]) /\ call[h].pc = "write"
          BY <3>2 DEF KVInv, Writers
        <4> QED
          BY <4>1, <4>2, OverGood
      <3>3. CASE h # g /\ h \notin Writers(B)
        BY <1>1, <3>3 DEF Write, KVInv
      <3> QED
        BY <3>1, <3>2, <3>3
    <2>3. StoreUniform'
      BY <2>1 DEF KVInv, StoreUniform, Uniform
    <2> QED
      BY <2>1, <2>2, <2>3 DEF KVInv, Effect, Types
  <1>2. ASSUME NEW B \in Groups, NEW chunk \in Nat, Read(g, B, chunk)
        PROVE  Effect
    <2> DEFINE s == [pc |-> "read", left |-> B, chunk |-> chunk, room |-> 0, snap |-> <<>>,
                     res |-> <<>>]
    <2>1. Good(s) /\ s.pc = "read"
      BY ReadGood
    <2>2. Goto(g, s) /\ UNCHANGED <<store, now>>
      BY <1>2 DEF Read, Begin
    <2> HIDE DEF s
    <2> QED
      BY <2>1, <2>2, QuietEffect
  <1>3. PICK B \in Groups :
          \/ \E v \in Values : BatchSetNoTTL(g, B, v) \/ \E ttl \in Ttls : BatchSet(g, B, v, ttl)
          \/ BatchDelete(g, B) \/ BatchGet(g, B) \/ Scan(g, B)
    BY DEF GroupCall
  <1>4. 0 \in Nat /\ Ttls \subseteq Nat /\ ChunkSize \in Nat /\ Cardinality(B) \in Nat
    BY KVAssumption, FS_CardinalityType
  <1>5. CASE \E v \in Values : BatchSetNoTTL(g, B, v) \/ \E ttl \in Ttls : BatchSet(g, B, v, ttl)
    BY <1>1, <1>4, <1>5 DEF BatchSetNoTTL, BatchSet
  <1>6. CASE BatchDelete(g, B)
    BY <1>1, <1>4, <1>6 DEF BatchDelete
  <1>7. CASE BatchGet(g, B) \/ Scan(g, B)
    BY <1>2, <1>4, <1>7 DEF BatchGet, Scan
  <1> QED
    BY <1>3, <1>5, <1>6, <1>7

\* A write batch commits a full transaction only if it does not fit one.
LEMMA AddEffect ==
    ASSUME KVInv, NEW g \in Procs, NEW k \in Keys, AddEntry(g, k)
    PROVE  Effect
  <1> DEFINE c == call[g]
             full == Cardinality(DOMAIN c.added) = TxnLimit
             d == [c EXCEPT !.left = c.left \ {k},
                            !.added = With(IF full THEN <<>> ELSE c.added, k,
                                           Entry(c.value, c.ttl))]
  <1>1. c.pc = "write" /\ k \in c.left /\ Good(c) /\ full \in BOOLEAN /\ Types /\ StoreUniform
    BY DEF KVInv, AddEntry
  <1>2. /\ Goto(g, d) /\ now' = now
        /\ store' = IF full /\ status # "closed"
                    THEN [x \in Keys |-> IF x \in DOMAIN c.added THEN c.added[x] ELSE store[x]]
                    ELSE store
    BY DEF AddEntry
  <1>3. Good(d) /\ (full => \E B \in Groups : ~Small(B) /\ DOMAIN c.added \subseteq B)
    BY <1>1, AddGood
  <1>4. d.pc = "write"
    BY <1>1 DEF Good, CallOK
  <1> HIDE DEF d
  <1>5. StoreUniform' /\ DOMAIN store' = Keys /\ \A x \in SingleKeys : store'[x] = store[x]
    <2>1. CASE full /\ status # "closed"
      <3>1. PICK B \in Groups : ~Small(B) /\ DOMAIN c.added \subseteq B
        BY <1>3, <2>1
      <3>2. store' = [x \in Keys |-> IF x \in DOMAIN c.added THEN c.added[x] ELSE store[x]]
        BY <1>2, <2>1
      <3> HIDE DEF full, c
      <3>3. StoreUniform'
        BY <1>1, <3>1, <3>2, BatchWriteUniform
      <3>4. \A x \in SingleKeys : store'[x] = store[x]
        BY <3>1, <3>2, KeysApart
      <3> QED
        BY <3>2, <3>3, <3>4
    <2>2. CASE ~(full /\ status # "closed")
      BY <1>1, <1>2, <2>2 DEF StoreUniform, Uniform, Types
    <2> QED
      BY <2>1, <2>2
  <1> QED
    BY <1>2, <1>3, <1>4, <1>5, BatchEffect

\* The end of a write batch: one that fits a transaction writes all its keys at once.
LEMMA FlushEffect ==
    ASSUME KVInv, NEW g \in Procs, Flush(g)
    PROVE  Effect
  <1> DEFINE c == call[g]
  <1>1. c.pc = "write" /\ c.left = {} /\ Good(c) /\ Types /\ StoreUniform
    BY DEF KVInv, Flush
  <1>2. PICK B \in Groups : WriteOn(c, B)
    BY <1>1 DEF Good
  <1>3. DOMAIN c.added \subseteq B /\ (Small(B) => DOMAIN c.added = B /\ Uniform(c.added, B))
    BY <1>1, <1>2 DEF WriteOn, Uniform
  <1>4. /\ Goto(g, Idle) /\ now' = now
        /\ store' = IF status = "closed" THEN store
                    ELSE [x \in Keys |-> IF x \in DOMAIN c.added THEN c.added[x] ELSE store[x]]
    BY DEF Flush, End
  <1> HIDE DEF c
  <1>5. StoreUniform' /\ DOMAIN store' = Keys /\ \A x \in SingleKeys : store'[x] = store[x]
    <2>1. CASE status # "closed"
      <3>1. store' = [x \in Keys |-> IF x \in DOMAIN c.added THEN c.added[x] ELSE store[x]]
        BY <1>4, <2>1
      <3>2. StoreUniform'
        BY <1>1, <1>3, <3>1, BatchWriteUniform
      <3>3. \A x \in SingleKeys : store'[x] = store[x]
        BY <1>3, <3>1, KeysApart
      <3> QED
        BY <3>1, <3>2, <3>3
    <2>2. CASE status = "closed"
      BY <1>1, <1>4, <2>2 DEF StoreUniform, Uniform, Types
    <2> QED
      BY <2>1, <2>2
  <1>6. Good(Idle) /\ Idle.pc \notin {"count", "update"}
    BY PlainGood DEF Idle
  <1> QED
    BY <1>4, <1>5, <1>6, BatchEffect

\* The steps of batch reads.
LEMMA AnswerEffect ==
    ASSUME KVInv, NEW g \in Procs, Return(g) \/ \E k \in Keys : ReadKey(g, k)
    PROVE  Effect
  <1> DEFINE c == call[g]
  <1>1. c.pc = "read" /\ Good(c) /\ Types /\ StoreUniform
    BY DEF KVInv, Return, ReadKey
  <1>2. UNCHANGED <<store, now>>
    BY DEF Return, ReadKey
  <1>3. CASE Return(g)
    <2> DEFINE s == [pc |-> "answer", chunk |-> c.chunk, res |-> c.res]
    <2>1. Good(s) /\ s.pc = "answer"
      BY <1>1, <1>3, AnswerGood DEF Return
    <2>2. Goto(g, s)
      BY <1>3 DEF Return
    <2> HIDE DEF s
    <2> QED
      BY <1>2, <2>1, <2>2, QuietEffect
  <1>4. ASSUME NEW k \in Keys, ReadKey(g, k)
        PROVE  Effect
    <2> DEFINE fresh == c.room = 0
               snap == IF fresh THEN [x \in c.left |-> store[x]] ELSE c.snap
               d == [c EXCEPT !.left = c.left \ {k}, !.snap = snap,
                              !.room = (IF fresh THEN c.chunk ELSE c.room) - 1,
                              !.res = With(c.res, k, Found(snap[k]))]
    <2>1. k \in c.left /\ fresh \in BOOLEAN /\ (Goto(g, Idle) \/ Goto(g, d))
      BY <1>4 DEF ReadKey, Goto
    <2>2. Good(d)
      BY <1>1, <2>1, ReadKeyGood
    <2>3. d.pc = "read"
      BY <1>1 DEF Good, CallOK
    <2>4. Good(Idle) /\ Idle.pc = "idle"
      BY PlainGood DEF Idle
    <2> HIDE DEF d
    <2>5. CASE Goto(g, d)
      BY <1>2, <2>2, <2>3, <2>5, QuietEffect
    <2>6. CASE Goto(g, Idle)
      BY <1>2, <2>4, <2>6, QuietEffect
    <2> QED
      BY <2>1, <2>5, <2>6
  <1> QED
    BY <1>3, <1>4

\* The clock, Close and restarts.
LEMMA SystemEffect ==
    ASSUME KVInv, Tick \/ Close \/ Restart
    PROVE  Effect
  <1> USE DEF KVInv
  <1>1. store' = store /\ now' \in Nat
    BY DEF Tick, Close, Restart, Types
  <1>2. StoreUniform'
    BY <1>1 DEF StoreUniform, Uniform
  <1>3. CASE call' = call
    BY <1>1, <1>2, <1>3 DEF Effect, Types
  <1>4. CASE call' = [g \in Procs |-> Idle]
    <2>1. DOMAIN call' = Procs /\ \A g \in Procs : Good(call'[g])
      BY <1>4, PlainGood
    <2> QED
      BY <1>1, <1>2, <2>1 DEF Effect, Types
  <1> QED
    BY <1>3, <1>4 DEF Tick, Close, Restart

-----------------------------------------------------------------------------
(***************************************************************************)
(* The invariant.                                                          *)
(***************************************************************************)
\* The empty store satisfies the invariant.
LEMMA KVInit == Init => KVInv
  <1> SUFFICES ASSUME Init
               PROVE  KVInv
    OBVIOUS
  <1>1. Types
    BY DEF Init, Types
  <1>2. \A g \in Procs : call[g] = Idle
    BY DEF Init
  <1>3. \A g \in Procs : Good(call[g])
    BY <1>2, PlainGood
  <1>4. \A k \in Keys : store[k] = Missing
    BY DEF Init
  <1>5. StoreUniform
    BY <1>4, KeysApart DEF StoreUniform, Uniform
  <1> QED
    BY <1>1, <1>3, <1>5 DEF KVInv

\* Every step preserves the invariant.
LEMMA KVStep == KVInv /\ [Next]_vars => KVInv'
  <1> SUFFICES ASSUME KVInv, [Next]_vars
               PROVE  KVInv'
    OBVIOUS
  <1>1. CASE UNCHANGED vars
    BY <1>1 DEF vars, KVInv, Types, StoreUniform, Uniform
  <1>2. CASE Next
    <2>1. ASSUME NEW g \in Procs, SingleCall(g)
          PROVE  Effect
      <3>1. PICK k \in SingleKeys :
              \/ \E v \in Values, ttl \in Ttls :
                    Set(g, k, v, ttl) \/ handleKVSet(g, k, v, ttl) \/ UpdateGet(g, k, v, ttl)
              \/ Delete(g, k)
              \/ \E by \in {1, -1} : CounterRead(g, k, by)
        BY <2>1 DEF SingleCall
      <3> QED
        BY <3>1, PutEffect, ReadEffect DEF Set, handleKVSet, Delete
    <2>2. ASSUME NEW g \in Procs, Work(g)
          PROVE  Effect
      BY <2>2, CommitEffect, FlushEffect, AnswerEffect, AddEffect DEF Work
    <2>3. Effect
      BY <1>2, <2>1, <2>2, StartEffect, SystemEffect DEF Next
    <2> QED
      BY <2>3 DEF Effect, KVInv, Types
  <1> QED
    BY <1>1, <1>2

\* The invariant holds for ever.
LEMMA KVInvariant == Spec => []KVInv
  <1> QED
    BY KVInit, KVStep, PTL DEF Spec

-----------------------------------------------------------------------------
(***************************************************************************)
(* Counters.                                                               *)
(***************************************************************************)
\* What a counter of a key may be, as far as the history f of counts goes.
Counts(f, k) == -f[k][-1]..f[k][1]

\* A call that has read a counter knows a number that the counts allow.
CountInv ==
    /\ counted \in [SingleKeys -> [{1, -1} -> Nat]]
    /\ CountsNeverInvented
    /\ \A g \in Procs : call[g].pc = "count" => call[g].from \in Counts(counted, call[g].key)

\* A commit is counted, and no other step changes the histories of counters.
LEMMA CountedGrows ==
    ASSUME KVInv, CountInv, NEW g \in Procs, CounterCommit(g), status # "closed"
    PROVE  /\ counted' \in [SingleKeys -> [{1, -1} -> Nat]]
           /\ \A k \in SingleKeys : \A n \in Counts(counted, k) : n \in Counts(counted', k)
           /\ \A n \in Counts(counted, call[g].key) : n + call[g].by \in Counts(counted', call[g].key)
  <1> DEFINE k == call[g].key
             b == call[g].by
  <1>1. k \in SingleKeys /\ b \in {1, -1}
    BY DEF KVInv, Good, CallOK, CounterCommit
  <1>2. counted' = [counted EXCEPT ![k][b] = @ + 1]
    BY DEF CounterCommit, Counted
  <1>3. counted \in [SingleKeys -> [{1, -1} -> Nat]]
    BY DEF CountInv
  <1> HIDE DEF k, b
  <1>4. /\ counted' \in [SingleKeys -> [{1, -1} -> Nat]]
        /\ counted'[k][b] = counted[k][b] + 1
        /\ \A x \in SingleKeys, y \in {1, -1} :
              x # k \/ y # b => counted'[x][y] = counted[x][y]
    BY <1>1, <1>2, <1>3
  <1>5. ASSUME NEW x \in SingleKeys, NEW n \in Counts(counted, x)
        PROVE  n \in Counts(counted', x)
    <2>1. /\ counted[x][1] \in Nat /\ counted[x][-1] \in Nat
          /\ counted'[x][1] \in Nat /\ counted'[x][-1] \in Nat
      BY <1>3, <1>4
    <2>2. counted[x][1] <= counted'[x][1] /\ counted[x][-1] <= counted'[x][-1]
      BY <1>1, <1>4, <2>1
    <2> QED
      BY <1>5, <2>1, <2>2 DEF Counts
  <1>6. ASSUME NEW n \in Counts(counted, k)
        PROVE  n + b \in Counts(counted', k)
    <2>1. counted[k][1] \in Nat /\ counted[k][-1] \in Nat
      BY <1>1, <1>3
    <2>2. CASE b = 1
      <3>1. counted'[k][1] = counted[k][1] + 1 /\ counted'[k][-1] = counted[k][-1]
        BY <1>1, <1>4, <2>2
      <3> QED
        BY <1>6, <2>1, <2>2, <3>1 DEF Counts
    <2>3. CASE b = -1
      <3>1. counted'[k][-1] = counted[k][-1] + 1 /\ counted'[k][1] = counted[k][1]
        BY <1>1, <1>4, <2>3
      <3> QED
        BY <1>6, <2>1, <2>3, <3>1 DEF Counts
    <2> QED
      BY <1>1, <2>2, <2>3
  <1> QED
    BY <1>4, <1>5, <1>6 DEF k, b

\* A step that commits no count: single keys keep their entries or get values that are no
\* numbers, and calls that count are as they were.
LEMMA OtherKeepsCounts ==
    ASSUME CountInv, counted' = counted,
           \A k \in SingleKeys : store'[k] = store[k] \/ store'[k].value \in Values \cup {Absent},
           \A g \in Procs : call'[g].pc = "count" =>
               \/ call'[g] = call[g]
               \/ call'[g].from \in Counts(counted, call'[g].key)
    PROVE  CountInv'
  <1>1. \A k : Counts(counted', k) = Counts(counted, k)
    BY DEF Counts
  <1>2. CountsNeverInvented'
    BY DEF CountInv, CountsNeverInvented
  <1>3. \A g \in Procs : call'[g].pc = "count" => call'[g].from \in Counts(counted', call'[g].key)
    BY <1>1 DEF CountInv, Counts
  <1> QED
    BY <1>2, <1>3 DEF CountInv, Counts

\* What Incr and Decr read is a number that the counts allow.
LEMMA ReadCounts ==
    ASSUME CountInv, NEW k \in SingleKeys
    PROVE  Number(Found(store[k])) \in Counts(counted, k)
  <1>1. counted[k][1] \in Nat /\ counted[k][-1] \in Nat
    BY DEF CountInv
  <1>2. 0 \in Counts(counted, k)
    BY <1>1 DEF Counts
  <1>3. Found(store[k]) = Missing \/ Found(store[k]) = store[k]
    BY DEF Found
  <1> QED
    BY <1>2, <1>3 DEF CountInv, CountsNeverInvented, Counts, Number, Missing

\* Every step preserves what is known of counters.
LEMMA CountStep == KVInv /\ CountInv /\ [Next]_vars => CountInv'
  <1> SUFFICES ASSUME KVInv, CountInv, [Next]_vars
               PROVE  CountInv'
    OBVIOUS
  <1>1. DOMAIN store = Keys /\ DOMAIN call = Procs /\ SingleKeys \subseteq Keys
    BY KeysApart DEF KVInv, Types
  <1>2. CASE UNCHANGED vars
    BY <1>2, OtherKeepsCounts DEF vars
  <1>3. ASSUME NEW g \in Procs, NEW k \in SingleKeys, NEW e, Put(g, k, e),
               e.value \in Values \cup {Absent}
        PROVE  CountInv'
    <2>1. counted' = counted /\ \A x \in SingleKeys :
             store'[x] = store[x] \/ store'[x].value \in Values \cup {Absent}
      BY <1>1, <1>3 DEF Put
    <2>2. \A h \in Procs : call'[h] = call[h] \/ call'[h].pc = "idle"
      BY <1>1, <1>3 DEF Put, Goto, Idle
    <2> QED
      BY <2>1, <2>2, OtherKeepsCounts
  <1>4. ASSUME NEW g \in Procs, NEW k \in SingleKeys, NEW by \in {1, -1}, CounterRead(g, k, by)
        PROVE  CountInv'
    <2>1. counted' = counted /\ store' = store
      BY <1>4 DEF CounterRead
    <2>2. \A h \in Procs :
             \/ call'[h] = call[h]
             \/ call'[h] = [pc |-> "count", key |-> k, by |-> by, from |-> Number(Found(store[k]))]
      BY <1>1, <1>4 DEF CounterRead, Goto
    <2>3. \A h \in Procs : call'[h] = call[h] \/ call'[h].from \in Counts(counted, call'[h].key)
      BY <2>2, ReadCounts
    <2> QED
      BY <2>1, <2>3, OtherKeepsCounts
  <1>5. ASSUME NEW g \in Procs, NEW k \in SingleKeys, NEW v \in Values, NEW ttl \in Ttls,
               UpdateGet(g, k, v, ttl)
        PROVE  CountInv'
    <2>1. counted' = counted /\ store' = store
      BY <1>5 DEF UpdateGet
    <2>2. \A h \in Procs : call'[h] = call[h] \/ call'[h].pc # "count"
      BY <1>1, <1>5 DEF UpdateGet, Goto, Idle
    <2> QED
      BY <2>1, <2>2, OtherKeepsCounts
  <1>6. ASSUME NEW g \in Procs, CounterCommit(g)
        PROVE  CountInv'
    <2>1. /\ call[g].key \in SingleKeys
          /\ \A x \in Keys : x # call[g].key => store'[x] = store[x]
          /\ \/ store' = store /\ status = "closed"
             \/ status # "closed" /\ store'[call[g].key].value = call[g].from + call[g].by
      BY <1>6, CommitWrites
    <2>2. \A h \in Procs : call'[h] = call[h] \/ call'[h].pc = "idle"
      BY <1>1, <1>6 DEF CounterCommit, End, Goto, Idle
    <2>3. CASE status = "closed"
      <3>1. counted' = counted /\ store' = store
        BY <1>6, <2>1, <2>3 DEF CounterCommit, Counted
      <3> QED
        BY <2>2, <3>1, OtherKeepsCounts
    <2>4. CASE status # "closed"
      <3>1. /\ counted' \in [SingleKeys -> [{1, -1} -> Nat]]
            /\ \A k \in SingleKeys : \A n \in Counts(counted, k) : n \in Counts(counted', k)
            /\ \A n \in Counts(counted, call[g].key) : n + call[g].by \in Counts(counted', call[g].key)
        BY <1>6, <2>4, CountedGrows
      <3>2. call[g].from \in Counts(counted, call[g].key)
        BY <1>6 DEF CountInv, CounterCommit
      <3>3. ASSUME NEW k \in SingleKeys, store'[k].value \notin Values \cup {Absent}
            PROVE  store'[k].value \in Counts(counted', k)
        <4>1. CASE k = call[g].key
          BY <2>1, <2>4, <3>1, <3>2, <4>1
        <4>2. CASE k # call[g].key
          BY <1>1, <2>1, <3>1, <3>3, <4>2 DEF CountInv, CountsNeverInvented, Counts
        <4> QED
          BY <4>1, <4>2
      <3>4. ASSUME NEW h \in Procs, call'[h].pc = "count"
            PROVE  call'[h].from \in Counts(counted', call'[h].key)
        <4>1. call'[h] = call[h] /\ call[h].key \in SingleKeys
          BY <2>2, <3>4 DEF KVInv, Good, CallOK
        <4> QED
          BY <3>1, <3>4, <4>1 DEF CountInv, Counts
      <3> QED
        BY <3>1, <3>3, <3>4 DEF CountInv, CountsNeverInvented, Counts
    <2> QED
      BY <2>3, <2>4
  <1>7. ASSUME NEW g \in Procs, UpdateSet(g)
        PROVE  CountInv'
    <2>1. /\ call[g].key \in SingleKeys
          /\ \A x \in Keys : x # call[g].key => store'[x] = store[x]
          /\ store' = store \/ store'[call[g].key].value = call[g].value
      BY <1>7, CommitWrites
    <2>2. call[g].value \in Values /\ counted' = counted
      BY <1>7 DEF KVInv, Good, CallOK, UpdateSet
    <2>3. \A h \in Procs : call'[h] = call[h] \/ call'[h].pc = "idle"
      BY <1>1, <1>7 DEF UpdateSet, End, Goto, Idle
    <2> QED
      BY <1>1, <2>1, <2>2, <2>3, OtherKeepsCounts
  <1>8. ASSUME NEW g \in Procs,
               \/ GroupCall(g) \/ Flush(g) \/ Return(g)
               \/ \E k \in Keys : AddEntry(g, k) \/ ReadKey(g, k)
        PROVE  CountInv'
    <2>1. counted' = counted
      BY <1>8 DEF GroupCall, BatchSetNoTTL, BatchSet, BatchDelete, BatchGet, Scan, Write, Read,
                  Flush, Return, AddEntry, ReadKey
    <2>2. \A k \in SingleKeys : store'[k] = store[k]
      <3>1. CASE store' = store
        BY <3>1
      <3>2. ASSUME store' = [x \in Keys |-> IF x \in DOMAIN call[g].added THEN call[g].added[x]
                                             ELSE store[x]],
                   call[g].pc = "write"
            PROVE  \A k \in SingleKeys : store'[k] = store[k]
        <4>1. DOMAIN call[g].added \cap SingleKeys = {}
          BY <3>2, KeysApart DEF KVInv, Good, WriteOn
        <4> QED
          BY <1>1, <3>2, <4>1
      <3> QED
        BY <1>8, <3>1, <3>2 DEF GroupCall, BatchSetNoTTL, BatchSet, BatchDelete, BatchGet, Scan,
                                Write, Read, Flush, End, Return, AddEntry, ReadKey
    <2>3. ASSUME NEW h \in Procs, call'[h].pc = "count"
          PROVE  call'[h] = call[h]
      <3>1. CASE h # g /\ ~GroupCall(g)
        BY <1>1, <1>8, <3>1 DEF Flush, End, Return, AddEntry, ReadKey, Goto
      <3>2. CASE h = g /\ ~GroupCall(g)
        <4>1. Return(g) \/ Flush(g) => call'[g].pc # "count"
          BY <1>1 DEF Return, Flush, End, Goto, Idle
        <4>2. (\E k \in Keys : AddEntry(g, k) \/ ReadKey(g, k)) => call'[g].pc # "count"
          <5>1. ASSUME NEW k \in Keys, AddEntry(g, k)
                PROVE  call'[g].pc # "count"
            BY <1>1, <5>1 DEF AddEntry, Goto, KVInv, Good, CallOK
          <5>2. ASSUME NEW k \in Keys, ReadKey(g, k)
                PROVE  call'[g].pc # "count"
            BY <1>1, <5>2 DEF ReadKey, Goto, Idle, KVInv, Good, CallOK
          <5> QED
            BY <5>1, <5>2
        <4> QED
          BY <1>8, <2>3, <3>2, <4>1, <4>2
      <3>3. CASE GroupCall(g)
        <4>1. ASSUME NEW B \in Groups, NEW v, NEW ttl, Write(g, B, v, ttl)
              PROVE  call'[h] = call[h]
          <5>1. CASE h # g /\ h \in Writers(B)
            <6>1. DOMAIN call[h] = {"pc", "group", "left", "added", "value", "ttl", "over"}
                  /\ call[h].pc = "write"
              BY <5>1 DEF Writers, KVInv, Good, CallOK
            <6>2. call'[h].pc = "write"
              BY <4>1, <5>1, <6>1 DEF Write
            <6> QED
              BY <2>3, <6>2
          <5> QED
            BY <2>3, <4>1, <5>1 DEF Write
        <4>2. ASSUME NEW B \in Groups, NEW chunk, Read(g, B, chunk)
              PROVE  call'[h] = call[h]
          BY <1>1, <2>3, <4>2 DEF Read, Goto
        <4> QED
          BY <3>3, <4>1, <4>2 DEF GroupCall, BatchSetNoTTL, BatchSet, BatchDelete, BatchGet, Scan
      <3> QED
        BY <3>1, <3>2, <3>3
    <2> QED
      BY <2>1, <2>2, <2>3, OtherKeepsCounts
  <1>9. CASE Tick \/ Close \/ Restart
    <2>1. counted' = counted /\ store' = store
      BY <1>9 DEF Tick, Close, Restart
    <2>2. \A h \in Procs : call'[h] = call[h] \/ call'[h].pc = "idle"
      BY <1>9 DEF Tick, Close, Restart, Idle
    <2> QED
      BY <2>1, <2>2, OtherKeepsCounts
  <1>10. ASSUME NEW g \in Procs, SingleCall(g)
        PROVE  CountInv'
    <2>1. PICK k \in SingleKeys :
            \/ \E v \in Values, ttl \in Ttls :
                  Set(g, k, v, ttl) \/ handleKVSet(g, k, v, ttl) \/ UpdateGet(g, k, v, ttl)
            \/ Delete(g, k)
            \/ \E by \in {1, -1} : CounterRead(g, k, by)
      BY <1>10 DEF SingleCall
    <2>2. \A v \in Values, ttl \in Ttls : Entry(v, ttl).value \in Values
      BY DEF Entry
    <2>3. Missing.value = Absent
      BY DEF Missing
    <2> QED
      BY <1>3, <1>4, <1>5, <2>1, <2>2, <2>3 DEF Set, handleKVSet, Delete
  <1> QED
    BY <1>2, <1>6, <1>7, <1>8, <1>9, <1>10 DEF Next, Work

\* A counter never counts a call twice, for any number of goroutines, however they overlap
\* and across Close and restarts.
THEOREM CountsAreReal == Spec => []CountsNeverInvented
  <1>1. Init => CountInv
    <2> SUFFICES ASSUME Init
                 PROVE  CountInv
      OBVIOUS
    <2>1. counted \in [SingleKeys -> [{1, -1} -> Nat]]
      BY DEF Init
    <2>2. \A k \in SingleKeys : store[k].value = Absent
      BY KeysApart DEF Init, Missing
    <2>3. \A g \in Procs : call[g].pc = "idle"
      BY DEF Init, Idle
    <2> QED
      BY <2>1, <2>2, <2>3 DEF CountInv, CountsNeverInvented
  <1>2. CountInv => CountsNeverInvented
    BY DEF CountInv
  <1> QED
    BY <1>1, <1>2, CountStep, KVInvariant, PTL DEF Spec

-----------------------------------------------------------------------------
(***************************************************************************)
(* Batches of any size.                                                    *)
(***************************************************************************)
\* What a batch write leaves in a key that it is done with, until the database is closed.
Leaves(c) == {c.value} \cup c.over

Done(c) == c.group \ (c.left \cup DOMAIN c.added)

\* A batch write under way is one of those whose values the keys may hold, it knows the
\* others, and a key it is done with holds its value or one of theirs.
BatchInv ==
    /\ DOMAIN due = Groups
    /\ BatchReplaces
    /\ \A g \in Procs : call[g].pc = "write" =>
          /\ call[g].value \in due[call[g].group]
          /\ \A h \in Procs \ {g} :
                call[h].pc = "write" /\ call[h].group = call[g].group =>
                    call[h].value \in call[g].over
          /\ status # "closed" =>
                \A k \in Done(call[g]) : store[k].value \in Leaves(call[g])

\* A step that leaves the keys of groups alone, and every batch write as it was or ended.
LEMMA OtherKeepsBatches ==
    ASSUME KVInv, BatchInv, due' = due,
           \A B \in Groups : \A k \in B : store'[k] = store[k],
           \A g \in Procs : call'[g] = call[g] \/ call'[g].pc # "write",
           status = "closed" /\ status' # "closed" => \A g \in Procs : call'[g].pc # "write"
    PROVE  BatchInv'
  <1>1. BatchReplaces'
    BY DEF BatchInv, BatchReplaces
  <1>2. ASSUME NEW g \in Procs, call'[g].pc = "write"
        PROVE  /\ call'[g].value \in due[call'[g].group]
               /\ \A h \in Procs \ {g} :
                     call'[h].pc = "write" /\ call'[h].group = call'[g].group =>
                         call'[h].value \in call'[g].over
               /\ status' # "closed" =>
                     \A k \in Done(call'[g]) : store'[k].value \in Leaves(call'[g])
    <2>1. call'[g] = call[g] /\ call[g].group \in Groups
      BY <1>2 DEF KVInv, Good
    <2>2. Done(call[g]) \subseteq call[g].group
      BY DEF Done
    <2> QED
      BY <1>2, <2>1, <2>2 DEF BatchInv
  <1> QED
    BY <1>1, <1>2 DEF BatchInv, Done, Leaves

\* A batch write begins: the others of its group hear of it, and it of them.
LEMMA WriteKeepsBatches ==
    ASSUME KVInv, BatchInv, NEW g \in Procs, NEW B \in Groups, NEW v, NEW ttl, Write(g, B, v, ttl)
    PROVE  BatchInv'
  <1>1. /\ store' = store /\ status' = status
        /\ DOMAIN due' = Groups /\ due'[B] = due[B] \cup {v}
        /\ \A C \in Groups : C # B => due'[C] = due[C]
    BY DEF Write, Begin, BatchInv
  <1>2. BatchReplaces'
    BY <1>1 DEF BatchInv, BatchReplaces
  <1>3. /\ call'[g].pc = "write" /\ call'[g].group = B /\ call'[g].value = v
        /\ call'[g].over = {call[w].value : w \in Writers(B)} /\ Done(call'[g]) = {}
    BY DEF Write, Done
  <1>4. ASSUME NEW h \in Procs, h # g, h \in Writers(B)
        PROVE  /\ call'[h].pc = "write" /\ call'[h].group = B /\ call'[h].value = call[h].value
               /\ call'[h].over = call[h].over \cup {v} /\ Done(call'[h]) = Done(call[h])
    <2>1. call[h].pc = "write" /\ call[h].group = B
          /\ DOMAIN call[h] = {"pc", "group", "left", "added", "value", "ttl", "over"}
      BY <1>4 DEF Writers, KVInv, Good, CallOK
    <2>2. call'[h] = [call[h] EXCEPT !.over = @ \cup {v}]
      BY <1>4 DEF Write
    <2> QED
      BY <2>1, <2>2 DEF Done
  <1>5. ASSUME NEW h \in Procs, h # g, h \notin Writers(B)
        PROVE  call'[h] = call[h]
    BY <1>5 DEF Write
  <1>6. ASSUME NEW h \in Procs, call'[h].pc = "write"
        PROVE  /\ call'[h].value \in due'[call'[h].group]
               /\ \A w \in Procs \ {h} :
                     call'[w].pc = "write" /\ call'[w].group = call'[h].group =>
                         call'[w].value \in call'[h].over
               /\ status' # "closed" =>
                     \A k \in Done(call'[h]) : store'[k].value \in Leaves(call'[h])
    <2>1. CASE h = g
      <3>1. \A w \in Procs \ {g} : call'[w].pc = "write" /\ call'[w].group = B =>
               w \in Writers(B) /\ call'[w].value = call[w].value
        BY <1>4, <1>5 DEF Writers
      <3> QED
        BY <1>1, <1>3, <2>1, <3>1
    <2>2. CASE h # g /\ h \in Writers(B)
      <3>1. \A w \in Procs \ {h} : call'[w].pc = "write" /\ call'[w].group = B =>
               \/ call'[w].value = v
               \/ call[w].pc = "write" /\ call[w].group = B /\ call'[w].value = call[w].value
        BY <1>3, <1>4, <1>5 DEF Writers
      <3>2. call[h].pc = "write" /\ call[h].group = B
        BY <2>2 DEF Writers
      <3> QED
        BY <1>1, <1>4, <2>2, <3>1, <3>2 DEF BatchInv, Leaves
    <2>3. CASE h # g /\ h \notin Writers(B)
      <3>1. call'[h] = call[h] /\ call[h].group \in Groups /\ call[h].group # B
        BY <1>5, <1>6, <2>3 DEF KVInv, Good, Writers
      <3>2. \A w \in Procs \ {h} : call'[w].pc = "write" /\ call'[w].group = call[h].group =>
               call'[w] = call[w]
        BY <1>3, <1>4, <1>5, <3>1
      <3> QED
        BY <1>1, <1>6, <3>1, <3>2 DEF BatchInv
    <2> QED
      BY <2>1, <2>2, <2>3
  <1> QED
    BY <1>1, <1>2, <1>6 DEF BatchInv, Done, Leaves

\* What a batch write adds to the store is its value, under keys of its group.
LEMMA AddedHolds ==
    ASSUME KVInv, NEW g \in Procs, call[g].pc = "write",
           store' = [x \in Keys |-> IF x \in DOMAIN call[g].added THEN call[g].added[x]
                                    ELSE store[x]]
    PROVE  /\ call[g].group \in Groups /\ DOMAIN call[g].added \subseteq call[g].group
           /\ \A k \in DOMAIN call[g].added : store'[k].value = call[g].value
           /\ \A B \in Groups : \A k \in B : k \notin DOMAIN call[g].added => store'[k] = store[k]
  <1>1. call[g].group \in Groups /\ DOMAIN call[g].added \subseteq call[g].group
        /\ \A k \in DOMAIN call[g].added : call[g].added[k].value = call[g].value
    BY DEF KVInv, Good, WriteOn
  <1> QED
    BY <1>1, KeysApart

\* A commit of a batch write: those under way keep what they know of their own keys, since
\* the writer is one of those they know.
LEMMA CommitKeepsOthers ==
    ASSUME KVInv, BatchInv, NEW g \in Procs, call[g].pc = "write", status # "closed",
           store' = [x \in Keys |-> IF x \in DOMAIN call[g].added THEN call[g].added[x]
                                    ELSE store[x]]
    PROVE  /\ \A B \in Groups : \A k \in B : store'[k].value \in due[B]
           /\ \A h \in Procs \ {g} : call[h].pc = "write" =>
                 \A k \in Done(call[h]) : store'[k].value \in Leaves(call[h])
           /\ \A k \in Done(call[g]) \cup DOMAIN call[g].added :
                 store'[k].value \in Leaves(call[g])
  <1>1. /\ call[g].group \in Groups /\ DOMAIN call[g].added \subseteq call[g].group
        /\ \A k \in DOMAIN call[g].added : store'[k].value = call[g].value
        /\ \A B \in Groups : \A k \in B : k \notin DOMAIN call[g].added => store'[k] = store[k]
    BY AddedHolds
  <1>2. ASSUME NEW B \in Groups, NEW k \in B
        PROVE  store'[k].value \in due[B]
    <2>1. CASE k \in DOMAIN call[g].added
      <3>1. call[g].group = B
        BY <1>1, <2>1, KeysApart
      <3> QED
        BY <1>1, <2>1, <3>1 DEF BatchInv
    <2>2. CASE k \notin DOMAIN call[g].added
      BY <1>1, <2>2 DEF BatchInv, BatchReplaces
    <2> QED
      BY <2>1, <2>2
  <1>3. ASSUME NEW h \in Procs \ {g}, call[h].pc = "write", NEW k \in Done(call[h])
        PROVE  store'[k].value \in Leaves(call[h])
    <2>1. call[h].group \in Groups /\ k \in call[h].group
      BY <1>3 DEF KVInv, Good, Done
    <2>2. CASE k \in DOMAIN call[g].added
      <3>1. call[g].group = call[h].group
        BY <1>1, <2>1, <2>2, KeysApart
      <3> QED
        BY <1>1, <1>3, <2>2, <3>1 DEF BatchInv, Leaves
    <2>3. CASE k \notin DOMAIN call[g].added
      BY <1>1, <1>3, <2>1, <2>3 DEF BatchInv
    <2> QED
      BY <2>2, <2>3
  <1>4. ASSUME NEW k \in Done(call[g]) \cup DOMAIN call[g].added
        PROVE  store'[k].value \in Leaves(call[g])
    <2>1. CASE k \in DOMAIN call[g].added
      BY <1>1, <2>1 DEF Leaves
    <2>2. CASE k \notin DOMAIN call[g].added
      BY <1>1, <1>4, <2>2 DEF BatchInv, Done
    <2> QED
      BY <2>1, <2>2
  <1> QED
    BY <1>2, <1>3, <1>4

\* An entry is added, perhaps after the commit of a full transaction.
LEMMA AddKeepsBatches ==
    ASSUME KVInv, BatchInv, NEW g \in Procs, NEW k \in Keys, AddEntry(g, k)
    PROVE  BatchInv'
  <1> DEFINE c == call[g]
             d == call'[g]
             full == Cardinality(DOMAIN c.added) = TxnLimit
  <1>1. c.pc = "write" /\ k \in c.left /\ due' = due /\ status' = status
    BY DEF AddEntry
  <1>2. DOMAIN c = {"pc", "group", "left", "added", "value", "ttl", "over"}
        /\ DOMAIN call = Procs /\ c.group \in Groups /\ WriteOn(c, c.group)
    BY <1>1 DEF KVInv, Good, CallOK, Types
  <1>3. /\ d = [c EXCEPT !.left = @ \ {k},
                         !.added = With(IF full THEN <<>> ELSE @, k, Entry(c.value, c.ttl))]
        /\ \A h \in Procs \ {g} : call'[h] = call[h]
    BY <1>2 DEF AddEntry, Goto
  <1>4. /\ d.pc = "write" /\ d.group = c.group /\ d.value = c.value /\ d.over = c.over
        /\ d.left = c.left \ {k}
        /\ d.added = With(IF full THEN <<>> ELSE c.added, k, Entry(c.value, c.ttl))
    BY <1>1, <1>2, <1>3
  <1>5. DOMAIN d.added = (IF full THEN {} ELSE DOMAIN c.added) \cup {k}
    BY <1>4 DEF With
  <1>6. Leaves(d) = Leaves(c) /\ Done(d) \subseteq Done(c) \cup (IF full THEN DOMAIN c.added ELSE {})
    BY <1>1, <1>2, <1>4, <1>5 DEF Leaves, Done, WriteOn
  <1> HIDE DEF d, full
  <1>7. /\ BatchReplaces'
        /\ status # "closed" =>
              /\ \A h \in Procs \ {g} : call[h].pc = "write" =>
                    \A x \in Done(call[h]) : store'[x].value \in Leaves(call[h])
              /\ \A x \in Done(d) : store'[x].value \in Leaves(d)
    <2>1. CASE full /\ status # "closed"
      <3>1. store' = [x \in Keys |-> IF x \in DOMAIN c.added THEN c.added[x] ELSE store[x]]
        BY <2>1 DEF AddEntry, full
      <3>2. /\ \A B \in Groups : \A x \in B : store'[x].value \in due[B]
            /\ \A h \in Procs \ {g} : call[h].pc = "write" =>
                  \A x \in Done(call[h]) : store'[x].value \in Leaves(call[h])
            /\ \A x \in Done(c) \cup DOMAIN c.added : store'[x].value \in Leaves(c)
        BY <1>1, <2>1, <3>1, CommitKeepsOthers
      <3> QED
        BY <1>1, <1>6, <3>2 DEF BatchReplaces
    <2>2. CASE ~(full /\ status # "closed")
      <3>1. store' = store
        BY <2>2 DEF AddEntry, full
      <3> QED
        BY <1>1, <1>6, <2>2, <3>1 DEF BatchInv, BatchReplaces
    <2> QED
      BY <2>1, <2>2
  <1>8. ASSUME NEW h \in Procs, call'[h].pc = "write"
        PROVE  /\ call'[h].value \in due'[call'[h].group]
               /\ \A w \in Procs \ {h} :
                     call'[w].pc = "write" /\ call'[w].group = call'[h].group =>
                         call'[w].value \in call'[h].over
               /\ status' # "closed" =>
                     \A x \in Done(call'[h]) : store'[x].value \in Leaves(call'[h])
    <2>1. \A w \in Procs : /\ call'[w].pc = "write" => call[w].pc = "write"
                           /\ call[w].pc = "write" => call'[w].group = call[w].group
                                /\ call'[w].value = call[w].value /\ call'[w].over = call[w].over
      BY <1>1, <1>3, <1>4 DEF d
    <2>2. status' # "closed" => \A x \in Done(call'[h]) : store'[x].value \in Leaves(call'[h])
      BY <1>1, <1>3, <1>7, <1>8, <2>1 DEF d
    <2> QED
      BY <1>1, <1>8, <2>1, <2>2 DEF BatchInv
  <1> QED
    BY <1>1, <1>7, <1>8 DEF BatchInv, Done, Leaves

\* A batch write ends: every key of its group is done, by it or by one that it knows.
LEMMA FlushKeepsBatches ==
    ASSUME KVInv, BatchInv, NEW g \in Procs, Flush(g)
    PROVE  BatchInv'
  <1> DEFINE c == call[g]
  <1>1. c.pc = "write" /\ c.left = {} /\ status' = status
    BY DEF Flush, End
  <1>2. DOMAIN call = Procs /\ c.group \in Groups /\ WriteOn(c, c.group)
    BY <1>1 DEF KVInv, Good, Types
  <1>3. call'[g].pc = "idle" /\ \A h \in Procs \ {g} : call'[h] = call[h]
    BY <1>2 DEF Flush, End, Goto, Idle
  <1>4. CASE status = "closed"
    <2>1. store' = store /\ due' = due
      BY <1>4 DEF Flush, End
    <2> QED
      BY <1>1, <1>3, <1>4, <2>1, OtherKeepsBatches
  <1>5. CASE status # "closed"
    <2>1. /\ store' = [x \in Keys |-> IF x \in DOMAIN c.added THEN c.added[x] ELSE store[x]]
          /\ due' = [due EXCEPT ![c.group] = Leaves(c)]
      BY <1>5 DEF Flush, End, Leaves
    <2>2. /\ \A B \in Groups : \A x \in B : store'[x].value \in due[B]
          /\ \A h \in Procs \ {g} : call[h].pc = "write" =>
                \A x \in Done(call[h]) : store'[x].value \in Leaves(call[h])
          /\ \A x \in Done(c) \cup DOMAIN c.added : store'[x].value \in Leaves(c)
      BY <1>1, <1>5, <2>1, CommitKeepsOthers
    <2>3. c.group \subseteq Done(c) \cup DOMAIN c.added
      BY <1>1 DEF Done
    <2>4. /\ DOMAIN due' = Groups /\ due'[c.group] = Leaves(c)
          /\ \A B \in Groups : B # c.group => due'[B] = due[B]
      BY <1>2, <2>1 DEF BatchInv
    <2>5. BatchReplaces'
      BY <2>2, <2>3, <2>4 DEF BatchReplaces
    <2>6. ASSUME NEW h \in Procs, call'[h].pc = "write"
          PROVE  /\ call'[h].value \in due'[call'[h].group]
                 /\ \A w \in Procs \ {h} :
                       call'[w].pc = "write" /\ call'[w].group = call'[h].group =>
                           call'[w].value \in call'[h].over
                 /\ \A x \in Done(call'[h]) : store'[x].value \in Leaves(call'[h])
      <3>1. h # g /\ call'[h] = call[h] /\ call[h].pc = "write" /\ call[h].group \in Groups
        BY <1>3, <2>6 DEF KVInv, Good
      <3>2. call[h].value \in due'[call[h].group]
        BY <1>1, <2>4, <3>1 DEF BatchInv, Leaves
      <3>3. \A w \in Procs \ {h} : call'[w].pc = "write" => call'[w] = call[w]
        BY <1>3
      <3> QED
        BY <2>2, <3>1, <3>2, <3>3 DEF BatchInv
    <2> QED
      BY <2>4, <2>5, <2>6 DEF BatchInv, Done, Leaves
  <1> QED
    BY <1>4, <1>5

\* Every step preserves what is known of batches.
LEMMA BatchStep == KVInv /\ BatchInv /\ [Next]_vars => BatchInv'
  <1> SUFFICES ASSUME KVInv, BatchInv, [Next]_vars
               PROVE  BatchInv'
    OBVIOUS
  <1>1. DOMAIN store = Keys /\ DOMAIN call = Procs
    BY DEF KVInv, Types
  <1>2. CASE UNCHANGED vars
    BY <1>2, OtherKeepsBatches DEF vars
  <1>3. ASSUME NEW g \in Procs, SingleCall(g)
        PROVE  BatchInv'
    <2>1. due' = due /\ status' = status
      BY <1>3 DEF SingleCall, Set, handleKVSet, Delete, Put, UpdateGet, CounterRead, Begin
    <2>2. \A h \in Procs : call'[h] = call[h] \/ call'[h].pc # "write"
      BY <1>1, <1>3 DEF SingleCall, Set, handleKVSet, Delete, Put, UpdateGet, CounterRead, Goto, Idle
    <2>3. \A B \in Groups : \A k \in B : store'[k] = store[k]
      <3>1. PICK j \in SingleKeys : store' = store \/ \E e : store' = [store EXCEPT ![j] = e]
        BY <1>3 DEF SingleCall, Set, handleKVSet, Delete, Put, UpdateGet, CounterRead
      <3>2. ASSUME NEW B \in Groups, NEW k \in B
            PROVE  store'[k] = store[k]
        <4>1. k # j /\ k \in Keys
          BY KeysApart
        <4> QED
          BY <1>1, <3>1, <4>1
      <3> QED
        BY <3>2
    <2> QED
      BY <2>1, <2>2, <2>3, OtherKeepsBatches
  <1>4. ASSUME NEW g \in Procs, CounterCommit(g) \/ UpdateSet(g)
        PROVE  BatchInv'
    <2>1. due' = due /\ status' = status
      BY <1>4 DEF CounterCommit, UpdateSet, End
    <2>2. \A h \in Procs : call'[h] = call[h] \/ call'[h].pc # "write"
      BY <1>1, <1>4 DEF CounterCommit, UpdateSet, End, Goto, Idle
    <2>3. \A B \in Groups : \A k \in B : store'[k] = store[k]
      BY <1>4, CommitWrites, KeysApart
    <2> QED
      BY <2>1, <2>2, <2>3, OtherKeepsBatches
  <1>5. ASSUME NEW g \in Procs, Return(g) \/ \E k \in Keys : ReadKey(g, k)
        PROVE  BatchInv'
    <2>1. due' = due /\ status' = status /\ store' = store
      BY <1>5 DEF Return, ReadKey
    <2>2. \A h \in Procs : call'[h] = call[h] \/ call'[h].pc # "write"
      <3>1. CASE Return(g)
        BY <1>1, <3>1 DEF Return, Goto
      <3>2. ASSUME NEW k \in Keys, ReadKey(g, k)
            PROVE  \A h \in Procs : call'[h] = call[h] \/ call'[h].pc # "write"
        BY <1>1, <3>2 DEF ReadKey, Goto, Idle, KVInv, Good, CallOK
      <3> QED
        BY <1>5, <3>1, <3>2
    <2> QED
      BY <2>1, <2>2, OtherKeepsBatches
  <1>6. ASSUME NEW g \in Procs, GroupCall(g)
        PROVE  BatchInv'
    <2>1. ASSUME NEW B \in Groups, NEW chunk, Read(g, B, chunk)
          PROVE  BatchInv'
      <3>1. due' = due /\ status' = status /\ store' = store
        BY <2>1 DEF Read, Begin
      <3>2. \A h \in Procs : call'[h] = call[h] \/ call'[h].pc # "write"
        BY <1>1, <2>1 DEF Read, Goto
      <3> QED
        BY <3>1, <3>2, OtherKeepsBatches
    <2> QED
      BY <1>6, <2>1, WriteKeepsBatches DEF GroupCall, BatchSetNoTTL, BatchSet, BatchDelete,
                                           BatchGet, Scan
  <1>7. CASE Tick \/ Close \/ Restart
    <2>1. due' = due /\ store' = store
      BY <1>7 DEF Tick, Close, Restart
    <2>2. \A h \in Procs : call'[h] = call[h] \/ call'[h].pc # "write"
      BY <1>7 DEF Tick, Close, Restart, Idle
    <2>3. status = "closed" /\ status' # "closed" => \A g \in Procs : call'[g].pc # "write"
      BY <1>7 DEF Tick, Close, Restart, Idle
    <2> QED
      BY <2>1, <2>2, <2>3, OtherKeepsBatches
  <1> QED
    BY <1>2, <1>3, <1>4, <1>5, <1>6, <1>7, AddKeepsBatches, FlushKeepsBatches DEF Next, Work

\* A batch write that returned has replaced every key of its group, in however many
\* transactions it was committed and whatever overlapped it, for any sizes of batches and
\* transactions.
THEOREM BatchesReplaceAll == Spec => []BatchReplaces
  <1>1. Init => BatchInv
    <2> SUFFICES ASSUME Init
                 PROVE  BatchInv
      OBVIOUS
    <2>1. \A B \in Groups : \A k \in B : store[k].value = Absent
      BY KeysApart DEF Init, Missing
    <2>2. \A g \in Procs : call[g].pc = "idle"
      BY DEF Init, Idle
    <2>3. DOMAIN due = Groups /\ \A B \in Groups : due[B] = {Absent}
      BY DEF Init
    <2> QED
      BY <2>1, <2>2, <2>3 DEF BatchInv, BatchReplaces
  <1>2. BatchInv => BatchReplaces
    BY DEF BatchInv
  <1> QED
    BY <1>1, <1>2, BatchStep, KVInvariant, PTL DEF Spec

\* A batch that fits a transaction is seen whole by every read that fits one, for any sizes
\* of batches, chunks and transactions and any number of goroutines.
THEOREM BatchesSeenWhole == Spec => []SeenTogether
  <1>1. KVInv => SeenTogether
    BY DEF KVInv, Good, SeenWhole, Small, SeenTogether
  <1> QED
    BY <1>1, KVInvariant, PTL

=============================================================================
