-------------------------- MODULE ConnectionPoolProofs --------------------------
(***************************************************************************)
(* Proofs about ConnectionPool for any number of goroutines, connections   *)
(* and any sizes: types, exclusive use and the accounting of places.       *)
(***************************************************************************)
EXTENDS ConnectionPool, FiniteSetTheorems, TLAPS

\* A goroutine has a connection exactly while it is between Get and Put.
HeldWhileHolding ==
    \A g \in Callers :
        /\ pc[g] = "holding" => held[g] # NoConn
        /\ pc[g] \notin {"holding", "dead"} => held[g] = NoConn

\* Connections in the channel are open, and an open one is in the channel or held.
NoStrayConnection ==
    /\ idle \subseteq open
    /\ \A c \in open : c \in idle \/ \E g \in Callers : held[g] = c

\* Every place in use is counted; until the channel is closed nothing else is.
Places ==
    /\ Cardinality(idle) + Cardinality(Owners) <= activeCount
    /\ ~chanClosed => activeCount = Cardinality(idle) + Cardinality(Owners)
    /\ activeCount <= MaxSize

\* A panic stops everything, and needs the closed channel.
PanicIsFinal ==
    /\ panicked => chanClosed /\ \A g \in Callers : pc[g] = "dead"
    /\ ~panicked => \A g \in Callers : pc[g] # "dead"

\* The inductive invariant.
PoolInv ==
    /\ TypeOK
    /\ Exclusive
    /\ HeldWhileHolding
    /\ NoStrayConnection
    /\ Places
    /\ PanicIsFinal
    /\ Cardinality(open) <= MaxSize


\* When a goroutine moves, the owners of places change by that goroutine at most.
LEMMA OwnersAfterGoto ==
    ASSUME TypeOK, NEW g \in Callers, NEW w, Goto(g, w)
    PROVE  /\ IsFiniteSet(Owners)
           /\ Cardinality(Owners) \in Nat
           /\ Cardinality(Owners') =
                IF w \in {"dial", "drop", "holding"}
                THEN IF g \in Owners THEN Cardinality(Owners) ELSE Cardinality(Owners) + 1
                ELSE IF g \in Owners THEN Cardinality(Owners) - 1 ELSE Cardinality(Owners)
  <1>1. Owners \in SUBSET Callers
    BY DEF Owners
  <1>2. IsFiniteSet(Owners)
    BY <1>1, PoolAssumption, FS_Subset
  <1>3. Cardinality(Owners) \in Nat
    BY <1>2, FS_CardinalityType
  <1>4. CASE w \in {"dial", "drop", "holding"}
    <2>1. Owners' = Owners \cup {g}
      BY <1>4 DEF Owners, Goto, TypeOK
    <2> QED
      BY <1>2, <1>3, <1>4, <2>1, FS_AddElement
  <1>5. CASE w \notin {"dial", "drop", "holding"}
    <2>1. Owners' = Owners \ {g}
      BY <1>5 DEF Owners, Goto, TypeOK
    <2> QED
      BY <1>2, <1>3, <1>5, <2>1, FS_RemoveElement
  <1> QED
    BY <1>2, <1>3, <1>4, <1>5

\* The channel's contents are finite, and their number changes by one with each send
\* and receive.
LEMMA IdleCount ==
    ASSUME TypeOK, NEW c \in Conns
    PROVE  /\ IsFiniteSet(idle)
           /\ Cardinality(idle) \in Nat
           /\ c \in idle => Cardinality(idle \ {c}) = Cardinality(idle) - 1
           /\ c \in idle => Cardinality(idle) >= 1
           /\ c \notin idle => Cardinality(idle \cup {c}) = Cardinality(idle) + 1
  <1>1. IsFiniteSet(idle)
    BY PoolAssumption, FS_Subset DEF TypeOK
  <1>2. Cardinality(idle) \in Nat
    BY <1>1, FS_CardinalityType
  <1>3. c \in idle => idle # {}
    OBVIOUS
  <1>4. Cardinality(idle) = 0 <=> idle = {}
    BY <1>1, FS_EmptySet
  <1>5. Cardinality(idle \ {c}) = IF c \in idle THEN Cardinality(idle) - 1
                                  ELSE Cardinality(idle)
    BY <1>1, FS_RemoveElement
  <1>6. Cardinality(idle \cup {c}) = IF c \in idle THEN Cardinality(idle)
                                     ELSE Cardinality(idle) + 1
    BY <1>1, FS_AddElement
  <1> QED
    BY <1>1, <1>2, <1>3, <1>4, <1>5, <1>6

\* Every open connection is in the channel or has an owner of its own, so there are no
\* more open connections than counted places.
LEMMA OpenBounded ==
    TypeOK /\ HeldWhileHolding /\ NoStrayConnection /\ Places /\ PanicIsFinal /\ ~panicked
        => Cardinality(open) <= MaxSize
  <1> SUFFICES ASSUME TypeOK, HeldWhileHolding, NoStrayConnection, Places, PanicIsFinal,
                      ~panicked
               PROVE  Cardinality(open) <= MaxSize
    OBVIOUS
  <1> DEFINE Holders == {g \in Callers : pc[g] = "holding"}
             Theirs == {held[g] : g \in Holders}
             f == [g \in Holders |-> held[g]]
  <1>1. Holders \in SUBSET Owners /\ Owners \in SUBSET Callers
    BY DEF Owners
  <1>2. IsFiniteSet(Owners) /\ IsFiniteSet(idle)
    BY <1>1, PoolAssumption, FS_Subset DEF TypeOK
  <1>3. IsFiniteSet(Holders) /\ Cardinality(Holders) <= Cardinality(Owners)
    BY <1>1, <1>2, FS_Subset
  <1>4. f \in Surjection(Holders, Theirs)
    BY DEF Surjection
  <1>5. IsFiniteSet(Theirs) /\ Cardinality(Theirs) <= Cardinality(Holders)
    BY <1>3, <1>4, FS_Surjection
  <1>6. open \in SUBSET (idle \cup Theirs)
    <2> SUFFICES ASSUME NEW c \in open, c \notin idle
                 PROVE  c \in Theirs
      OBVIOUS
    <2>1. PICK g \in Callers : held[g] = c
      BY DEF NoStrayConnection
    <2>2. c # NoConn
      BY PoolAssumption DEF TypeOK
    <2>3. g \in Holders
      BY <2>1, <2>2 DEF HeldWhileHolding, PanicIsFinal
    <2> QED
      BY <2>1, <2>3
  <1>7. /\ IsFiniteSet(idle \cup Theirs)
        /\ Cardinality(idle \cup Theirs)
             = Cardinality(idle) + Cardinality(Theirs) - Cardinality(idle \cap Theirs)
    BY <1>2, <1>5, FS_Union
  <1>8. IsFiniteSet(idle \cap Theirs)
    BY <1>2, FS_Intersection
  <1>9. Cardinality(open) <= Cardinality(idle \cup Theirs) /\ IsFiniteSet(open)
    BY <1>6, <1>7, FS_Subset
  <1>10. /\ Cardinality(open) \in Nat /\ Cardinality(idle \cap Theirs) \in Nat
         /\ Cardinality(Theirs) \in Nat /\ Cardinality(Holders) \in Nat
         /\ Cardinality(Owners) \in Nat /\ Cardinality(idle) \in Nat
    BY <1>2, <1>3, <1>5, <1>8, <1>9, FS_CardinalityType
  <1>11. activeCount <= MaxSize /\ Cardinality(idle) + Cardinality(Owners) <= activeCount
    BY DEF Places
  <1>12. activeCount \in Nat /\ MaxSize \in Nat
    BY PoolAssumption DEF TypeOK
  <1> HIDE DEF Holders, Theirs, f
  <1> QED
    BY <1>3, <1>5, <1>7, <1>9, <1>10, <1>11, <1>12

\* The same in the state after a step.
LEMMA OpenBoundedNext ==
    ASSUME TypeOK', HeldWhileHolding', NoStrayConnection', Places', (~panicked)', PanicIsFinal'
    PROVE  (Cardinality(open) <= MaxSize)'
  BY OpenBounded, PTL

-----------------------------------------------------------------------------
\* The pool that NewConnectionPool returns satisfies the invariant.
LEMMA PoolInit == Init => PoolInv
  <1> SUFFICES ASSUME Init
               PROVE  PoolInv
    OBVIOUS
  <1>1. 0 \in 0..MaxSize
    BY PoolAssumption
  <1>2. TypeOK
    BY <1>1, PoolAssumption DEF Init, TypeOK
  <1>3. Owners = {}
    BY DEF Init, Owners
  <1>4. Cardinality(Owners) = 0
    BY <1>3, FS_EmptySet
  <1>5. Exclusive /\ HeldWhileHolding /\ NoStrayConnection /\ PanicIsFinal
    BY DEF Init, Exclusive, HeldWhileHolding, NoStrayConnection, PanicIsFinal
  <1>6. Places /\ Cardinality(open) <= MaxSize
    BY <1>4, PoolAssumption DEF Init, Places
  <1> QED
    BY <1>2, <1>5, <1>6 DEF PoolInv

\* A receive from the channel, in Get or while waiting.
LEMMA ReceiveKeepsInv ==
    ASSUME PoolInv, NEW g \in Callers, pc[g] \in {"idle", "wait"}, Receive(g),
           UNCHANGED <<open, closed, chanClosed>>, lapsed' \in [Callers -> 0..MaxSize]
    PROVE  PoolInv'
  <1> USE DEF PoolInv
  <1>1. CASE idle = {} /\ chanClosed /\ Panic /\ UNCHANGED <<idle, activeCount, held>>
    <2>1. Owners' = {}
      BY <1>1 DEF Panic, Owners
    <2>2. Cardinality(Owners') = 0 /\ Cardinality(idle') = 0
      BY <1>1, <2>1, FS_EmptySet
    <2>3. TypeOK' /\ PanicIsFinal'
      BY <1>1 DEF TypeOK, Panic, PanicIsFinal
    <2>4. Exclusive' /\ HeldWhileHolding' /\ NoStrayConnection'
      BY <1>1 DEF Exclusive, HeldWhileHolding, NoStrayConnection, Panic
    <2>5. Places'
      BY <1>1, <2>2, <2>3 DEF Places, TypeOK
    <2> QED
      BY <2>3, <2>4, <2>5
  <1>2. ASSUME NEW c \in idle, idle' = idle \ {c}, UNCHANGED panicked,
               held' = [held EXCEPT ![g] = c], Goto(g, "holding"), UNCHANGED activeCount
        PROVE  PoolInv'
    <2>1. c \in Conns /\ c # NoConn /\ held[g] = NoConn /\ g \notin Owners
      BY PoolAssumption DEF TypeOK, HeldWhileHolding, Owners
    <2>2. TypeOK' /\ PanicIsFinal'
      BY <1>2, <2>1 DEF TypeOK, Goto, PanicIsFinal
    <2>3. HeldWhileHolding'
      BY <1>2, <2>1 DEF TypeOK, Goto, HeldWhileHolding
    <2>4. NoStrayConnection'
      <3>1. held'[g] = c /\ \A h \in Callers : h # g => held'[h] = held[h]
        BY <1>2 DEF TypeOK
      <3>2. \A k \in open : k # NoConn
        BY PoolAssumption DEF TypeOK
      <3> QED
        BY <1>2, <2>1, <3>1, <3>2 DEF NoStrayConnection
    <2>5. Exclusive'
      BY <1>2, <2>1 DEF TypeOK, Exclusive
    <2>6. Places'
      <3>1. Cardinality(idle') = Cardinality(idle) - 1 /\ Cardinality(idle) \in Nat
        BY <1>2, <2>1, IdleCount
      <3>2. Cardinality(Owners') = Cardinality(Owners) + 1 /\ Cardinality(Owners) \in Nat
        BY <1>2, <2>1, OwnersAfterGoto
      <3> QED
        BY <1>2, <3>1, <3>2 DEF Places
    <2> QED
      BY <2>2, <2>3, <2>4, <2>5, <2>6
  <1>3. \A c \in idle : c \in open
    BY DEF NoStrayConnection
  <1> QED
    BY <1>1, <1>2, <1>3 DEF Receive

\* Get: a connection from the channel, or on to createNewOrWait.
LEMMA GetKeepsInv ==
    ASSUME PoolInv, NEW g \in Callers, Get(g)
    PROVE  PoolInv'
  <1> USE DEF PoolInv
  <1>1. CASE Receive(g)
    BY <1>1, ReceiveKeepsInv DEF Get, TypeOK
  <1>2. CASE Goto(g, "create") /\ UNCHANGED <<idle, activeCount, held, panicked>>
    <2>1. Cardinality(Owners') = Cardinality(Owners)
      <3>1. g \notin Owners
        BY DEF Get, Owners
      <3> QED
        BY <1>2, <3>1, OwnersAfterGoto
    <2>2. TypeOK' /\ HeldWhileHolding' /\ NoStrayConnection' /\ Exclusive' /\ PanicIsFinal'
      BY <1>2 DEF Get, TypeOK, HeldWhileHolding, NoStrayConnection, Exclusive, PanicIsFinal, Goto
    <2>3. Places'
      BY <1>2, <2>1 DEF Get, Places
    <2> QED
      BY <1>2, <2>2, <2>3 DEF Get
  <1> QED
    BY <1>1, <1>2 DEF Get

\* createNewOrWait: a place is counted before the dial, and only one that is free.
LEMMA CreateKeepsInv ==
    ASSUME PoolInv, NEW g \in Callers, createNewOrWait(g)
    PROVE  PoolInv'
  <1> USE DEF PoolInv, createNewOrWait
  <1>1. g \notin Owners /\ activeCount \in Nat
    BY DEF Owners, TypeOK
  <1>2. PICK w \in {"idle", "wait", "dial"} :
           /\ Goto(g, w)
           /\ IF w = "dial" THEN activeCount < MaxSize /\ activeCount' = activeCount + 1
              ELSE activeCount' = activeCount
    OBVIOUS
  <1>3. TypeOK' /\ HeldWhileHolding' /\ NoStrayConnection' /\ Exclusive' /\ PanicIsFinal'
    BY <1>1, <1>2 DEF TypeOK, HeldWhileHolding, NoStrayConnection, Exclusive, PanicIsFinal, Goto
  <1>4. /\ Cardinality(Owners) \in Nat
        /\ Cardinality(Owners') = IF w = "dial" THEN Cardinality(Owners) + 1
                                  ELSE Cardinality(Owners)
    BY <1>1, <1>2, OwnersAfterGoto
  <1>5. Cardinality(idle) \in Nat
    BY PoolAssumption, FS_Subset, FS_CardinalityType DEF TypeOK
  <1>6. Places'
    BY <1>1, <1>2, <1>4, <1>5, PoolAssumption DEF Places
  <1> QED
    BY <1>3, <1>6

\* The dial, successful or not, happens in a place that is already counted.
LEMMA DialKeepsInv ==
    ASSUME PoolInv, NEW g \in Callers, Dial(g)
    PROVE  PoolInv'
  <1> USE DEF PoolInv, Dial
  <1>1. g \in Owners /\ held[g] = NoConn
    BY DEF Owners, HeldWhileHolding
  <1>2. CASE Goto(g, "drop") /\ UNCHANGED <<open, held>>
    <2>1. Cardinality(Owners') = Cardinality(Owners)
      BY <1>1, <1>2, OwnersAfterGoto
    <2>2. TypeOK' /\ HeldWhileHolding' /\ NoStrayConnection' /\ Exclusive' /\ PanicIsFinal'
      BY <1>2 DEF TypeOK, HeldWhileHolding, NoStrayConnection, Exclusive, PanicIsFinal, Goto
    <2> QED
      BY <1>2, <2>1, <2>2 DEF Places
  <1>3. ASSUME NEW c \in Conns \ (open \cup {held[h] : h \in Callers}),
               open' = open \cup {c}, held' = [held EXCEPT ![g] = c], Goto(g, "holding")
        PROVE  PoolInv'
    <2>1. c # NoConn /\ c \notin idle
      BY PoolAssumption DEF NoStrayConnection
    <2>2. TypeOK' /\ PanicIsFinal'
      BY <1>3 DEF TypeOK, PanicIsFinal, Goto
    <2>3. HeldWhileHolding' /\ NoStrayConnection'
      <3>1. HeldWhileHolding'
        BY <1>1, <1>3, <2>1 DEF TypeOK, HeldWhileHolding, Goto
      <3>2. held'[g] = c /\ \A h \in Callers : h # g => held'[h] = held[h]
        BY <1>3 DEF TypeOK
      <3>3. \A k \in open : k # NoConn
        BY PoolAssumption DEF TypeOK
      <3>4. NoStrayConnection'
        BY <1>1, <1>3, <3>2, <3>3 DEF NoStrayConnection
      <3> QED
        BY <3>1, <3>4
    <2>4. Exclusive'
      BY <1>3, <2>1 DEF TypeOK, Exclusive
    <2>5. Cardinality(Owners') = Cardinality(Owners)
      BY <1>1, <1>3, OwnersAfterGoto
    <2>6. Places'
      BY <2>5 DEF Places
    <2>7. ~panicked'
      BY DEF PanicIsFinal
    <2>8. (Cardinality(open) <= MaxSize)'
      BY <2>2, <2>3, <2>6, <2>7, OpenBoundedNext
    <2> QED
      BY <2>2, <2>3, <2>4, <2>6, <2>8
  <1> QED
    BY <1>2, <1>3

\* Giving up a place.
LEMMA DropKeepsInv ==
    ASSUME PoolInv, NEW g \in Callers, Drop(g)
    PROVE  PoolInv'
  <1> USE DEF PoolInv, Drop
  <1>1. g \in Owners
    BY DEF Owners
  <1>2. /\ Cardinality(Owners') = Cardinality(Owners) - 1
        /\ IsFiniteSet(Owners) /\ Cardinality(Owners) \in Nat
    BY <1>1, OwnersAfterGoto
  <1>3. Cardinality(Owners) # 0
    BY <1>1, <1>2, FS_EmptySet
  <1>4. Cardinality(idle) \in Nat
    BY PoolAssumption, FS_Subset, FS_CardinalityType DEF TypeOK
  <1>5. activeCount \in Nat /\ activeCount' \in Nat
    BY <1>2, <1>3, <1>4 DEF Places, TypeOK
  <1>6. ASSUME NEW h \in Callers
        PROVE  lapsed'[h] \in 0..MaxSize
    <2>1. lapsed[h] \in 0..MaxSize
      BY DEF TypeOK
    <2> QED
      BY <2>1, PoolAssumption
  <1>7. lapsed' \in [Callers -> 0..MaxSize]
    BY <1>6
  <1>8. TypeOK' /\ HeldWhileHolding' /\ NoStrayConnection' /\ Exclusive' /\ PanicIsFinal'
    BY <1>5, <1>7 DEF TypeOK, HeldWhileHolding, NoStrayConnection, Exclusive, PanicIsFinal, Goto
  <1>9. Places'
    BY <1>2, <1>4, <1>5, PoolAssumption DEF Places
  <1> QED
    BY <1>8, <1>9

\* Put: back into the channel, or closed and its place given up.
LEMMA PutKeepsInv ==
    ASSUME PoolInv, NEW g \in Callers, Put(g)
    PROVE  PoolInv'
  <1> USE DEF PoolInv, Put
  <1> DEFINE c == held[g]
  <1>1. c \in Conns /\ c # NoConn /\ c \notin idle /\ g \in Owners
    BY DEF TypeOK, HeldWhileHolding, Exclusive, Owners
  <1>2. CASE c \in open /\ chanClosed
    <2>1. Owners' = {}
      BY <1>2 DEF Panic, Owners
    <2>2. Cardinality(Owners') = 0
      BY <2>1, FS_EmptySet
    <2>3. TypeOK' /\ HeldWhileHolding' /\ NoStrayConnection' /\ Exclusive' /\ PanicIsFinal'
      BY <1>2 DEF TypeOK, HeldWhileHolding, NoStrayConnection, Exclusive, PanicIsFinal, Panic
    <2>4. Cardinality(Owners) \in Nat
      BY PoolAssumption, FS_Subset, FS_CardinalityType DEF Owners
    <2>5. Cardinality(idle) \in Nat
      BY <1>1, IdleCount
    <2>6. Places'
      BY <1>2, <2>2, <2>4, <2>5 DEF Places, TypeOK
    <2> QED
      BY <1>2, <2>3, <2>6
  <1>3. CASE c \in open /\ ~chanClosed /\ Cardinality(idle) < MaxSize
    <2>1. /\ idle' = idle \cup {c} /\ open' = open /\ Goto(g, "idle")
          /\ held' = [held EXCEPT ![g] = NoConn] /\ UNCHANGED panicked
      BY <1>3
    <2>2. TypeOK' /\ PanicIsFinal'
      BY <1>1, <2>1 DEF TypeOK, PanicIsFinal, Goto
    <2>3. HeldWhileHolding'
      BY <2>1 DEF TypeOK, HeldWhileHolding, Goto
    <2>4. NoStrayConnection'
      BY <1>1, <1>3, <2>1 DEF TypeOK, NoStrayConnection
    <2>5. Exclusive'
      BY <1>1, <2>1 DEF TypeOK, Exclusive
    <2>6. /\ Cardinality(Owners') = Cardinality(Owners) - 1
          /\ Cardinality(Owners) \in Nat
      BY <1>1, <2>1, OwnersAfterGoto
    <2>7. Cardinality(idle') = Cardinality(idle) + 1 /\ Cardinality(idle) \in Nat
      BY <1>1, <2>1, IdleCount
    <2>8. Places'
      BY <2>6, <2>7 DEF Places
    <2> QED
      BY <2>1, <2>2, <2>3, <2>4, <2>5, <2>8
  <1>4. CASE c \notin open \/ (~chanClosed /\ ~(Cardinality(idle) < MaxSize))
    <2>1. /\ idle' = idle /\ open' = open \ {c} /\ Goto(g, "drop")
          /\ held' = [held EXCEPT ![g] = NoConn] /\ UNCHANGED panicked
      BY <1>4
    <2>2. TypeOK' /\ PanicIsFinal'
      BY <2>1 DEF TypeOK, PanicIsFinal, Goto
    <2>3. HeldWhileHolding'
      BY <2>1 DEF TypeOK, HeldWhileHolding, Goto
    <2>4. NoStrayConnection'
      BY <1>1, <2>1 DEF TypeOK, NoStrayConnection
    <2>5. Exclusive'
      BY <2>1 DEF TypeOK, Exclusive
    <2>6. Cardinality(Owners') = Cardinality(Owners)
      BY <1>1, <2>1, OwnersAfterGoto
    <2>7. Places'
      BY <2>1, <2>6 DEF Places
    <2>8. ~panicked'
      BY <2>1 DEF PanicIsFinal
    <2>9. (Cardinality(open) <= MaxSize)'
      BY <2>2, <2>3, <2>4, <2>7, <2>8, OpenBoundedNext
    <2> QED
      BY <2>2, <2>3, <2>4, <2>5, <2>7, <2>9
  <1> QED
    BY <1>2, <1>3, <1>4

\* A connection closed by its holder stays counted until its Put.
LEMMA DiscardKeepsInv ==
    ASSUME PoolInv, NEW g \in Callers, Discard(g)
    PROVE  PoolInv'
  <1> USE DEF PoolInv, Discard
  <1>1. held[g] # NoConn /\ held[g] \notin idle
    BY DEF HeldWhileHolding, Exclusive
  <1>2. TypeOK' /\ HeldWhileHolding' /\ Exclusive' /\ PanicIsFinal'
    BY DEF TypeOK, HeldWhileHolding, Exclusive, PanicIsFinal
  <1>3. NoStrayConnection'
    BY <1>1 DEF NoStrayConnection
  <1>4. Owners' = Owners
    BY DEF Owners
  <1>5. Places'
    BY <1>4 DEF Places
  <1>6. ~panicked'
    BY DEF PanicIsFinal
  <1>7. (Cardinality(open) <= MaxSize)'
    BY <1>2, <1>3, <1>5, <1>6, OpenBoundedNext
  <1> QED
    BY <1>2, <1>3, <1>5, <1>7

\* Close sets the flag, closes the channel and drains it, in three kinds of steps.
LEMMA CloseKeepsInv ==
    ASSUME PoolInv, Close \/ CloseChannel \/ Drain
    PROVE  PoolInv'
  <1> USE DEF PoolInv
  <1>1. pc' = pc /\ held' = held /\ panicked' = panicked /\ activeCount' = activeCount
    BY DEF Close, CloseChannel, Drain
  <1>2. Owners' = Owners
    BY <1>1 DEF Owners
  <1>3. CASE Close \/ CloseChannel
    <2>1. TypeOK' /\ HeldWhileHolding' /\ NoStrayConnection' /\ Exclusive' /\ PanicIsFinal'
      BY <1>1, <1>3 DEF TypeOK, HeldWhileHolding, NoStrayConnection, Exclusive, PanicIsFinal,
                        Close, CloseChannel
    <2>2. Places' /\ (Cardinality(open) <= MaxSize)'
      BY <1>1, <1>2, <1>3 DEF Places, Close, CloseChannel
    <2> QED
      BY <2>1, <2>2
  <1>4. CASE Drain
    <2>1. PICK c \in idle : idle' = idle \ {c} /\ open' = open \ {c}
      BY <1>4 DEF Drain
    <2>2. c \in Conns
      BY DEF TypeOK
    <2>3. TypeOK' /\ HeldWhileHolding' /\ Exclusive' /\ PanicIsFinal'
      BY <1>1, <1>4, <2>1 DEF TypeOK, HeldWhileHolding, Exclusive, PanicIsFinal, Drain
    <2>4. NoStrayConnection'
      BY <1>1, <2>1 DEF NoStrayConnection
    <2>5. Cardinality(idle') = Cardinality(idle) - 1 /\ Cardinality(idle) \in Nat
      BY <2>1, <2>2, IdleCount
    <2>6. Cardinality(Owners) \in Nat
      BY PoolAssumption, FS_Subset, FS_CardinalityType DEF Owners
    <2>7. Places'
      BY <1>1, <1>2, <1>4, <2>5, <2>6 DEF Places, Drain, TypeOK
    <2>8. ~panicked'
      BY <1>1, <1>4 DEF Drain
    <2>9. (Cardinality(open) <= MaxSize)'
      BY <2>3, <2>4, <2>7, <2>8, OpenBoundedNext
    <2> QED
      BY <2>3, <2>4, <2>7, <2>9
  <1> QED
    BY <1>3, <1>4

\* Every step of the pool preserves the invariant.
LEMMA PoolStep == PoolInv /\ [Next]_vars => PoolInv'
  <1> SUFFICES ASSUME PoolInv, [Next]_vars
               PROVE  PoolInv'
    OBVIOUS
  <1>1. ASSUME NEW g \in Callers, Step(g)
        PROVE  PoolInv'
    <2>1. CASE Wait(g)
      <3>1. 0 \in 0..MaxSize /\ lapsed \in [Callers -> 0..MaxSize]
        BY PoolAssumption DEF PoolInv, TypeOK
      <3>2. lapsed' \in [Callers -> 0..MaxSize]
        BY <2>1, <3>1 DEF Wait
      <3> QED
        BY <2>1, <3>2, ReceiveKeepsInv DEF Wait
    <2> QED
      BY <1>1, <2>1, GetKeepsInv, CreateKeepsInv, DialKeepsInv, DropKeepsInv, DiscardKeepsInv,
         PutKeepsInv DEF Step
  <1>2. CASE UNCHANGED vars
    BY <1>2 DEF vars, PoolInv, TypeOK, Exclusive, HeldWhileHolding, NoStrayConnection, Places,
                PanicIsFinal, Owners
  <1> QED
    BY <1>1, <1>2, CloseKeepsInv DEF Next

\* The invariant holds for ever.
LEMMA PoolInvariant == Spec => []PoolInv
  <1> QED
    BY PoolInit, PoolStep, PTL DEF Spec

\* The state has its types; activeCount in particular is never negative, however Get, Put
\* and Close interleave.
THEOREM PoolTypeCorrect == Spec => []TypeOK
  <1>1. PoolInv => TypeOK
    BY DEF PoolInv
  <1> QED
    BY <1>1, PoolInvariant, PTL

\* No connection is used by two goroutines, or used while it is in the channel.
THEOREM ConnectionsExclusive == Spec => []Exclusive
  <1>1. PoolInv => Exclusive
    BY DEF PoolInv
  <1> QED
    BY <1>1, PoolInvariant, PTL

\* activeCount counts exactly the places in use until Close, and at most MaxSize
\* connections are ever open.
THEOREM PlacesAccounted == Spec => []Accounting
  <1>1. PoolInv => Accounting
    BY DEF PoolInv, Places, Accounting
  <1> QED
    BY <1>1, PoolInvariant, PTL

=============================================================================
