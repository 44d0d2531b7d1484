-------------------------- MODULE QueueStorageProofs --------------------------
(***************************************************************************)
(* Theorems about the acknowledged queue for any number of goroutines,     *)
(* queues and messages.  The first part holds however their transactions   *)
(* overlap, with or without VisibilityWorker among them.  The second part  *)
(* holds while calls do not overlap: the index is exact, a message is      *)
(* handed out again only after it was put back, and the store implements   *)
(* MessageLifecycle, behind QueueFacade too.                               *)
(***************************************************************************)
EXTENDS VisibilityWorker, QueueFacade, TLAPS

(***************************************************************************)
(* Every write batch the operations compute is well typed.                 *)
(***************************************************************************)

\* A batch whose parts have the right types is a transaction of the right type.
LEMMA BatchType ==
    ASSUME NEW op \in {"push", "pop", "ack", "reject", "requeue", "deadletter"},
           NEW K \in SUBSET MessageKeys,
           NEW puts \in [K -> Messages \cup {NoMsg}],
           NEW del \in SUBSET IndexKeys, NEW add \in SUBSET IndexKeys,
           NEW settles \in SUBSET MsgIds
    PROVE  TxnOK(Batch(op, puts, del, add, settles))
  <1> DEFINE b == Batch(op, puts, del, add, settles)
  <1>1. DOMAIN b.puts = K /\ b.pc = "commit"
    BY DEF Batch
  <1>2. b \in BatchesOn(K)
    BY DEF Batch, BatchesOn
  <1> QED
    BY <1>1, <1>2 DEF TxnOK

\* A fresh message is a message.
LEMMA NewMessageType ==
    ASSUME NEW v \in MsgIds, NEW n \in Nat
    PROVE  NewMessage(v, n) \in Messages
  BY DEF NewMessage, Messages

\* Putting a message back changes its state and time only.
LEMMA BackToPendingType ==
    ASSUME NEW m \in Messages
    PROVE  /\ BackToPending(m) \in Messages
           /\ BackToPending(m).state = Pending
           /\ BackToPending(m).value = m.value
  BY DEF BackToPending, Messages

\* The keys an operation on one message touches are keys of the store.
LEMMA KeyTypes ==
    ASSUME NEW q \in Queues, NEW id \in MsgIds, NEW s \in {Pending, InFlight}
    PROVE  /\ {<<q, id>>} \in SUBSET MessageKeys
           /\ {<<q, s, id>>} \in SUBSET IndexKeys
  BY DEF MessageKeys, IndexKeys

\* The batch of a PushMessage.
LEMMA PushType ==
    ASSUME NEW q \in Queues, NEW id \in MsgIds
    PROVE  TxnOK(PushBatch(q, id))
  <1>1. [k \in {<<q, id>>} |-> NewMessage(id, 0)] \in [{<<q, id>>} -> Messages \cup {NoMsg}]
    BY NewMessageType
  <1>2. /\ {<<q, id>>} \in SUBSET MessageKeys
        /\ {<<q, Pending, id>>} \in SUBSET IndexKeys
    BY KeyTypes
  <1>3. {} \in SUBSET IndexKeys /\ {} \in SUBSET MsgIds
    OBVIOUS
  <1> QED
    BY <1>1, <1>2, <1>3, BatchType DEF PushBatch

\* A delivered message is a message.
LEMMA DeliveredType ==
    ASSUME NEW m \in Messages, NEW timeout \in Nat, NEW t \in Nat
    PROVE  [m EXCEPT !.state = InFlight, !.inFlightAt = t, !.visibilityTimeout = timeout,
                     !.deliveryCount = m.deliveryCount + 1] \in Messages
  <1> DEFINE m1 == [m EXCEPT !.state = InFlight, !.inFlightAt = t]
  <1>1. m1 \in Messages
    BY DEF Messages
  <1>2. m.deliveryCount + 1 \in Nat
    BY DEF Messages
  <1>3. [m1 EXCEPT !.visibilityTimeout = timeout, !.deliveryCount = m.deliveryCount + 1]
           \in Messages
    <2> HIDE DEF m1
    <2> QED
      BY <1>1, <1>2 DEF Messages
  <1> QED
    BY <1>3

\* The batch of a PopMessage.
LEMMA PopType ==
    ASSUME NEW q \in Queues, NEW id \in MsgIds, NEW m \in Messages, NEW timeout \in Nat,
           now \in Nat
    PROVE  TxnOK(PopBatch(q, id, m, timeout))
  <1> DEFINE m2 == [m EXCEPT !.state = InFlight, !.inFlightAt = now,
                             !.visibilityTimeout = timeout,
                             !.deliveryCount = m.deliveryCount + 1]
  <1>1. m2 \in Messages
    BY DeliveredType
  <1>2. [k \in {<<q, id>>} |-> m2] \in [{<<q, id>>} -> Messages \cup {NoMsg}]
    BY <1>1
  <1>3. /\ {<<q, id>>} \in SUBSET MessageKeys
        /\ {<<q, Pending, id>>} \in SUBSET IndexKeys
        /\ {<<q, InFlight, id>>} \in SUBSET IndexKeys
    BY KeyTypes
  <1>4. {} \in SUBSET MsgIds
    OBVIOUS
  <1> QED
    BY <1>2, <1>3, <1>4, BatchType DEF PopBatch

\* The batch of an AckMessage or of a final NackMessage.
LEMMA RemoveType ==
    ASSUME NEW op \in {"ack", "reject"}, NEW q \in Queues, NEW id \in MsgIds,
           NEW m \in Messages
    PROVE  TxnOK(RemoveBatch(op, q, id, m))
  <1>1. [k \in {<<q, id>>} |-> NoMsg] \in [{<<q, id>>} -> Messages \cup {NoMsg}]
    OBVIOUS
  <1>2. m.state \in {Pending, InFlight} /\ m.value \in MsgIds
    BY DEF Messages
  <1>3. /\ {<<q, id>>} \in SUBSET MessageKeys
        /\ {<<q, m.state, id>>} \in SUBSET IndexKeys
    BY <1>2, KeyTypes
  <1>4. {} \in SUBSET IndexKeys /\ {m.value} \in SUBSET MsgIds
    BY <1>2
  <1> QED
    BY <1>1, <1>3, <1>4, BatchType DEF RemoveBatch

\* The batch of a NackMessage that puts the message back.
LEMMA RequeueType ==
    ASSUME NEW q \in Queues, NEW id \in MsgIds, NEW m \in Messages
    PROVE  TxnOK(RequeueBatch(q, id, m))
  <1>1. [k \in {<<q, id>>} |-> BackToPending(m)] \in [{<<q, id>>} -> Messages \cup {NoMsg}]
    BY BackToPendingType
  <1>2. m.state \in {Pending, InFlight}
    BY DEF Messages
  <1>3. /\ {<<q, id>>} \in SUBSET MessageKeys
        /\ {<<q, m.state, id>>} \in SUBSET IndexKeys
        /\ {<<q, Pending, id>>} \in SUBSET IndexKeys
    BY <1>2, KeyTypes
  <1>4. {} \in SUBSET MsgIds
    OBVIOUS
  <1> QED
    BY <1>1, <1>3, <1>4, BatchType DEF RequeueBatch

\* The batch of a move to the dead-letter queue.
LEMMA MoveType ==
    ASSUME NEW q \in Queues, NEW id \in MsgIds, NEW m \in Messages,
           NEW dlq \in Queues, NEW newId \in MsgIds
    PROVE  TxnOK(moveToDeadLetter(q, id, m, dlq, newId))
  <1> DEFINE K == {<<q, id>>, <<dlq, newId>>}
             puts == [k \in K |-> IF k = <<q, id>> THEN NoMsg
                                  ELSE NewMessage(m.value, m.deliveryCount)]
  <1>1. m.state \in {Pending, InFlight} /\ m.value \in MsgIds /\ m.deliveryCount \in Nat
    BY DEF Messages
  <1>2. puts \in [K -> Messages \cup {NoMsg}]
    BY <1>1, NewMessageType
  <1>3. K \in SUBSET MessageKeys
    BY DEF MessageKeys
  <1>4. {<<q, m.state, id>>} \in SUBSET IndexKeys /\ {<<dlq, Pending, newId>>} \in SUBSET IndexKeys
    BY <1>1, KeyTypes
  <1>5. {} \in SUBSET MsgIds
    OBVIOUS
  <1> QED
    BY <1>2, <1>3, <1>4, <1>5, BatchType DEF moveToDeadLetter

\* The batch of a RequeueExpiredMessages.
LEMMA ExpiredType ==
    ASSUME TypeOK, NEW q \in Queues, NEW t \in Nat
    PROVE  TxnOK(ExpiredBatch(q, t))
  <1> DEFINE K == {q} \X Expired(q, t)
  <1>1. \A k \in K : k \in MessageKeys /\ msgs[k] \in Messages
    BY DEF Expired, MessageKeys, TypeOK
  <1>2. [k \in K |-> BackToPending(msgs[k])] \in [K -> Messages \cup {NoMsg}]
    BY <1>1, BackToPendingType
  <1>3. K \in SUBSET MessageKeys
    BY <1>1
  <1>4. /\ {<<q, InFlight, id>> : id \in Expired(q, t)} \in SUBSET IndexKeys
        /\ {<<q, Pending, id>> : id \in Expired(q, t)} \in SUBSET IndexKeys
    <2>1. \A id \in Expired(q, t) : id \in MsgIds
      BY DEF Expired
    <2> QED
      BY <2>1 DEF IndexKeys
  <1>5. {} \in SUBSET MsgIds
    OBVIOUS
  <1> QED
    BY <1>2, <1>3, <1>4, <1>5, BatchType DEF ExpiredBatch

-----------------------------------------------------------------------------
(***************************************************************************)
(* Type correctness.                                                       *)
(***************************************************************************)

\* Buffering a well-typed transaction keeps the transactions well typed.
LEMMA BufferType ==
    ASSUME TypeOK, NEW p \in Procs, NEW b, TxnOK(b), Buffer(p, b)
    PROVE  /\ DOMAIN txn' = Procs
           /\ \A r \in Procs : TxnOK(txn'[r])
  <1>1. DOMAIN txn' = Procs
    BY DEF TypeOK, Buffer
  <1>2. ASSUME NEW r \in Procs PROVE TxnOK(txn'[r])
    <2>1. CASE r = p
      BY <2>1 DEF TypeOK, Buffer
    <2>2. CASE r # p
      <3>1. txn'[r] = txn[r]
        BY <2>2 DEF TypeOK, Buffer
      <3> QED
        BY <3>1 DEF TypeOK
    <2> QED
      BY <2>1, <2>2
  <1> QED
    BY <1>1, <1>2

\* A committed batch leaves a well-typed store.
LEMMA ApplyType ==
    ASSUME TypeOK, NEW b, TxnOK(b), b.pc = "commit", Apply(b)
    PROVE  /\ msgs' \in [MessageKeys -> Messages \cup {NoMsg}]
           /\ index' \in SUBSET IndexKeys
           /\ DOMAIN b.puts \subseteq MessageKeys
           /\ b.settles \subseteq MsgIds
  <1>1. DOMAIN b.puts \subseteq MessageKeys /\ b \in BatchesOn(DOMAIN b.puts)
    BY DEF TxnOK, Idle, Nacks, Requeues
  <1>2. /\ b.puts \in [DOMAIN b.puts -> Messages \cup {NoMsg}]
        /\ b.del \subseteq IndexKeys /\ b.add \subseteq IndexKeys
        /\ b.settles \subseteq MsgIds
    BY <1>1 DEF BatchesOn
  <1>3. index' \in SUBSET IndexKeys
    BY <1>2 DEF Apply, TypeOK
  <1>4. ASSUME NEW k \in MessageKeys
        PROVE  (IF k \in DOMAIN b.puts THEN b.puts[k] ELSE msgs[k]) \in Messages \cup {NoMsg}
    BY <1>2 DEF TypeOK
  <1>5. msgs' \in [MessageKeys -> Messages \cup {NoMsg}]
    BY <1>4 DEF Apply
  <1> QED
    BY <1>1, <1>2, <1>3, <1>5

\* A message key with a value under it holds a message.
LEMMA StoredIsMessage ==
    ASSUME TypeOK, NEW k \in MessageKeys, msgs[k] # NoMsg
    PROVE  msgs[k] \in Messages
  BY DEF TypeOK

\* The initial state is well typed.
LEMMA InitType == Init => TypeOK
  <1> SUFFICES ASSUME Init PROVE TypeOK
    OBVIOUS
  <1>1. msgs \in [MessageKeys -> Messages \cup {NoMsg}]
    BY DEF Init
  <1>2. config \in [Queues -> Configs]
    BY DEF Init, Configs
  <1>3. DOMAIN txn = Procs /\ \A p \in Procs : TxnOK(txn[p])
    BY DEF Init, TxnOK
  <1>4. index \in SUBSET IndexKeys /\ handles \in SUBSET MessageKeys
    BY DEF Init
  <1>5. issued \in SUBSET MsgIds /\ settled \in SUBSET MsgIds
    BY DEF Init
  <1>6. origin \in [MsgIds -> MsgIds] /\ deliveries \in [MsgIds -> Nat] /\ now \in Nat
    BY DEF Init
  <1> QED
    BY <1>1, <1>2, <1>3, <1>4, <1>5, <1>6 DEF TypeOK

\* An action that buffers a well-typed transaction and otherwise at most takes
\* fresh ids keeps the types.
LEMMA BufferedType ==
    ASSUME TypeOK, NEW p \in Procs, NEW b, TxnOK(b), Buffer(p, b),
           issued' \in SUBSET MsgIds, origin' \in [MsgIds -> MsgIds],
           UNCHANGED <<store, now, handles, settled, deliveries>>
    PROVE  TypeOK'
  <1>1. DOMAIN txn' = Procs /\ \A r \in Procs : TxnOK(txn'[r])
    BY BufferType
  <1> QED
    BY <1>1 DEF TypeOK, store

\* What NackDecide buffers is well typed, whichever way it decides.
LEMMA NackDecideType ==
    ASSUME TypeOK, NEW p \in Procs, NackDecide(p)
    PROVE  TypeOK'
  <1> DEFINE t == txn[p]
             cfg == config[t.queue]
  <1>1. t \in Nacks
    BY DEF NackDecide, TypeOK, TxnOK, Idle, Requeues
  <1>2. /\ t.queue \in Queues /\ t.id \in MsgIds /\ t.msg \in Messages
        /\ t.msg.value \in MsgIds /\ cfg.deadLetterQueue \in Queues \cup {NoQueue}
    BY <1>1 DEF Nacks, TypeOK, Configs, Messages
  <1>3. UNCHANGED <<store, now, handles, settled, deliveries>>
    BY DEF NackDecide
  <1>4. CASE /\ cfg.deadLetterQueue # NoQueue
             /\ \E newId \in MsgIds \ issued :
                   /\ issued' = issued \cup {newId}
                   /\ origin' = [origin EXCEPT ![newId] = t.msg.value]
                   /\ Buffer(p, moveToDeadLetter(t.queue, t.id, t.msg,
                                                 cfg.deadLetterQueue, newId))
    <2>1. PICK newId \in MsgIds \ issued :
             /\ issued' = issued \cup {newId}
             /\ origin' = [origin EXCEPT ![newId] = t.msg.value]
             /\ Buffer(p, moveToDeadLetter(t.queue, t.id, t.msg, cfg.deadLetterQueue, newId))
      BY <1>4
    <2>2. TxnOK(moveToDeadLetter(t.queue, t.id, t.msg, cfg.deadLetterQueue, newId))
      BY <1>2, <1>4, MoveType
    <2>3. issued' \in SUBSET MsgIds /\ origin' \in [MsgIds -> MsgIds]
      BY <1>2, <2>1 DEF TypeOK
    <2> QED
      BY <1>3, <2>1, <2>2, <2>3, BufferedType
  <1>5. CASE Buffer(p, RemoveBatch("reject", t.queue, t.id, t.msg))
             /\ UNCHANGED <<issued, origin>>
    <2>1. TxnOK(RemoveBatch("reject", t.queue, t.id, t.msg))
      BY <1>2, RemoveType
    <2> QED
      BY <1>3, <1>5, <2>1, BufferedType DEF TypeOK
  <1>6. CASE Buffer(p, RequeueBatch(t.queue, t.id, t.msg)) /\ UNCHANGED <<issued, origin>>
    <2>1. TxnOK(RequeueBatch(t.queue, t.id, t.msg))
      BY <1>2, RequeueType
    <2> QED
      BY <1>3, <1>6, <2>1, BufferedType DEF TypeOK
  <1> QED
    BY <1>4, <1>5, <1>6 DEF NackDecide

\* A commit keeps the types: the batch was checked when it was buffered.
LEMMA CommitType ==
    ASSUME TypeOK, NEW p \in Procs, Commit(p)
    PROVE  TypeOK'
  <1> DEFINE b == txn[p]
  <1>1. TxnOK(b) /\ b.pc = "commit" /\ Apply(b)
    BY DEF TypeOK, Commit
  <1>2. /\ msgs' \in [MessageKeys -> Messages \cup {NoMsg}]
        /\ index' \in SUBSET IndexKeys
        /\ DOMAIN b.puts \subseteq MessageKeys
        /\ b.settles \subseteq MsgIds
    BY <1>1, ApplyType
  <1>3. DOMAIN txn' = Procs /\ \A r \in Procs : TxnOK(txn'[r])
    <2>1. TxnOK(Idle)
      BY DEF TxnOK
    <2> QED
      BY <2>1, BufferType DEF Commit
  <1>4. handles' \in SUBSET MessageKeys /\ settled' \in SUBSET MsgIds
    BY <1>2 DEF Commit, TypeOK
  <1>5. deliveries' \in [MsgIds -> Nat]
    <2> DEFINE d(i) == CASE b.op = "pop" /\ Touches(b, i) -> deliveries[i] + 1
                         [] b.op = "requeue" /\ Touches(b, i) -> 0
                         [] OTHER -> deliveries[i]
    <2>1. \A i \in MsgIds : d(i) \in Nat
      BY DEF TypeOK
    <2>2. deliveries' = [i \in MsgIds |-> d(i)]
      BY DEF Commit
    <2> HIDE DEF d
    <2> QED
      BY <2>1, <2>2
  <1>6. UNCHANGED <<config, now, issued, origin>>
    BY DEF Commit
  <1> QED
    BY <1>2, <1>3, <1>4, <1>5, <1>6 DEF TypeOK

\* Every step keeps the types.
LEMMA StepType == TypeOK /\ [Next]_vars => TypeOK'
  <1> SUFFICES ASSUME TypeOK, [Next]_vars PROVE TypeOK'
    OBVIOUS
  <1>1. ASSUME NEW p \in Procs, NEW q \in PushQueues, PushMessage(p, q) PROVE TypeOK'
    <2>1. PICK id \in MsgIds \ issued :
             issued' = issued \cup {id} /\ Buffer(p, PushBatch(q, id))
      BY <1>1 DEF PushMessage
    <2>2. q \in Queues
      BY QueueAssumption
    <2>3. TxnOK(PushBatch(q, id))
      BY <2>2, PushType
    <2>4. issued' \in SUBSET MsgIds /\ origin' \in [MsgIds -> MsgIds]
      BY <1>1, <2>1 DEF PushMessage, TypeOK, history
    <2> QED
      BY <1>1, <2>1, <2>3, <2>4, BufferedType DEF PushMessage, history
  <1>2. ASSUME NEW p \in Procs, NEW q \in Queues, NEW timeout \in Timeouts,
               PopMessage(p, q, timeout)
        PROVE  TypeOK'
    <2>1. PICK id \in MsgIds : /\ msgs[<<q, id>>] # NoMsg
                               /\ Buffer(p, PopBatch(q, id, msgs[<<q, id>>], timeout))
      BY <1>2 DEF PopMessage, FirstPending
    <2>2. msgs[<<q, id>>] \in Messages
      BY <2>1, StoredIsMessage DEF MessageKeys
    <2>3. timeout \in Nat /\ now \in Nat
      BY QueueAssumption DEF TypeOK
    <2>4. TxnOK(PopBatch(q, id, msgs[<<q, id>>], timeout))
      BY <2>2, <2>3, PopType
    <2> QED
      BY <1>2, <2>1, <2>4, BufferedType DEF PopMessage, TypeOK, history
  <1>3. ASSUME NEW p \in Procs, NEW k \in handles, AckMessage(p, k[1], k[2]) PROVE TypeOK'
    <2>1. k[1] \in Queues /\ k[2] \in MsgIds /\ k = <<k[1], k[2]>>
      BY DEF TypeOK, MessageKeys
    <2>2. msgs[<<k[1], k[2]>>] \in Messages
      BY <1>3, <2>1, StoredIsMessage DEF AckMessage, MessageKeys
    <2>3. TxnOK(RemoveBatch("ack", k[1], k[2], msgs[<<k[1], k[2]>>]))
      BY <2>1, <2>2, RemoveType
    <2> QED
      BY <1>3, <2>3, BufferedType DEF AckMessage, TypeOK, history
  <1>4. ASSUME NEW p \in Procs, NEW k \in handles, NEW requeue \in BOOLEAN,
               NackMessage(p, k[1], k[2], requeue)
        PROVE  TypeOK'
    <2>1. k[1] \in Queues /\ k[2] \in MsgIds
      BY DEF TypeOK, MessageKeys
    <2>2. msgs[<<k[1], k[2]>>] \in Messages
      BY <1>4, <2>1, StoredIsMessage DEF NackMessage, MessageKeys
    <2> DEFINE b == [pc |-> "nack", queue |-> k[1], id |-> k[2], requeue |-> requeue,
                     msg |-> msgs[<<k[1], k[2]>>]]
    <2>3. TxnOK(b)
      BY <2>1, <2>2 DEF TxnOK, Nacks
    <2>4. Buffer(p, b)
      BY <1>4 DEF NackMessage
    <2> HIDE DEF b
    <2> QED
      BY <1>4, <2>3, <2>4, BufferedType DEF NackMessage, TypeOK, history
  <1>5. ASSUME NEW p \in Procs, NEW q \in Queues, RequeueExpiredMessages(p, q)
        PROVE  TypeOK'
    <2>1. TxnOK([pc |-> "requeue", queue |-> q, now |-> now])
      BY DEF TxnOK, Requeues, TypeOK
    <2> QED
      BY <1>5, <2>1, BufferedType DEF RequeueExpiredMessages, TypeOK, history
  <1>6. ASSUME NEW p \in Procs, RequeueScan(p) PROVE TypeOK'
    <2>1. txn[p] \in Requeues
      BY <1>6 DEF RequeueScan, TypeOK, TxnOK, Idle, Nacks
    <2>2. txn[p].queue \in Queues /\ txn[p].now \in Nat
      BY <2>1 DEF Requeues
    <2>3. TxnOK(ExpiredBatch(txn[p].queue, txn[p].now))
      BY <2>2, ExpiredType
    <2> QED
      BY <1>6, <2>3, BufferedType DEF RequeueScan, TypeOK, history
  <1>7. ASSUME NEW c \in DlqCalls, SetDeadLetterQueue(c[1], c[2], c[3]) PROVE TypeOK'
    <2>1. c[1] \in Queues /\ c[2] \in Queues \cup {NoQueue} /\ c[3] \in Nat
      BY QueueAssumption
    <2>2. config' \in [Queues -> Configs]
      BY <1>7, <2>1 DEF SetDeadLetterQueue, Configs, TypeOK
    <2> QED
      BY <1>7, <2>2 DEF SetDeadLetterQueue, TypeOK, history
  <1>8. CASE Tick
    BY <1>8 DEF Tick, TypeOK, store, history
  <1>9. CASE Crash
    <2>1. DOMAIN txn' = Procs /\ \A r \in Procs : TxnOK(txn'[r])
      BY <1>9 DEF Crash, TxnOK
    <2> QED
      BY <1>9, <2>1 DEF Crash, TypeOK, store, history
  <1>10. CASE UNCHANGED vars
    BY <1>10 DEF TypeOK, vars
  <1> QED
    BY <1>1, <1>2, <1>3, <1>4, <1>5, <1>6, <1>7, <1>8, <1>9, <1>10,
       NackDecideType, CommitType DEF Next, Call, TxnStep

\* Type correctness: whatever calls overlap and wherever the process dies, the keys,
\* values and open transactions of the store keep their types; in particular a stored
\* message is pending or in flight, never in the unused dead-letter state.
THEOREM TypeCorrect == Spec => []TypeOK
  BY InitType, StepType, PTL DEF Spec

-----------------------------------------------------------------------------
(***************************************************************************)
(* The index covers the messages.  IndexCoversMessages alone is not        *)
(* inductive: a commit applies a batch computed from an older snapshot.    *)
(* What saves it is that every open batch carries its own index keys: it   *)
(* adds the key of each message it writes, and deletes keys only of        *)
(* messages it overwrites.                                                 *)
(***************************************************************************)
BatchIndexed(b) ==
    /\ \A k \in DOMAIN b.puts : b.puts[k] # NoMsg => <<k[1], b.puts[k].state, k[2]>> \in b.add
    /\ \A key \in b.del : <<key[1], key[3]>> \in DOMAIN b.puts

TxnIndexed == \A p \in Procs : txn[p].pc = "commit" => BatchIndexed(txn[p])

IndexInv == IndexCoversMessages /\ TxnIndexed

\* Every batch the operations compute carries its index keys.
LEMMA BatchesIndexed ==
    ASSUME NEW q \in Queues, NEW id \in MsgIds, NEW m \in Messages, NEW timeout,
           NEW dlq \in Queues, NEW newId \in MsgIds, NEW op
    PROVE  /\ BatchIndexed(PushBatch(q, id))
           /\ BatchIndexed(PopBatch(q, id, m, timeout))
           /\ BatchIndexed(RemoveBatch(op, q, id, m))
           /\ BatchIndexed(RequeueBatch(q, id, m))
           /\ BatchIndexed(moveToDeadLetter(q, id, m, dlq, newId))
  <1>1. BatchIndexed(PushBatch(q, id))
    BY DEF BatchIndexed, PushBatch, Batch, NewMessage
  <1>2. BatchIndexed(PopBatch(q, id, m, timeout))
    <2> DEFINE m2 == [m EXCEPT !.state = InFlight, !.inFlightAt = now,
                               !.visibilityTimeout = timeout,
                               !.deliveryCount = m.deliveryCount + 1]
    <2>1. m2.state = InFlight
      BY DEF Messages
    <2> HIDE DEF m2
    <2>2. BatchIndexed(Batch("pop", [k \in {<<q, id>>} |-> m2],
                             {<<q, Pending, id>>}, {<<q, InFlight, id>>}, {}))
      BY <2>1 DEF BatchIndexed, Batch
    <2> QED
      BY <2>2 DEF PopBatch, m2
  <1>3. BatchIndexed(RemoveBatch(op, q, id, m))
    BY DEF BatchIndexed, RemoveBatch, Batch
  <1>4. BatchIndexed(RequeueBatch(q, id, m))
    BY BackToPendingType DEF BatchIndexed, RequeueBatch, Batch
  <1>5. BatchIndexed(moveToDeadLetter(q, id, m, dlq, newId))
    BY DEF BatchIndexed, moveToDeadLetter, Batch, NewMessage
  <1> QED
    BY <1>1, <1>2, <1>3, <1>4, <1>5

\* A scan for expired messages carries its index keys: each message it puts back is
\* stored as pending under the key it adds.
LEMMA ExpiredIndexed ==
    ASSUME TypeOK, NEW q \in Queues, NEW t
    PROVE  BatchIndexed(ExpiredBatch(q, t))
  <1> DEFINE b == ExpiredBatch(q, t)
  <1>1. \A i \in Expired(q, t) : BackToPending(msgs[<<q, i>>]).state = Pending
    BY BackToPendingType DEF Expired, TypeOK, MessageKeys
  <1>2. /\ b.puts = [k \in {q} \X Expired(q, t) |-> BackToPending(msgs[k])]
        /\ b.del = {<<q, InFlight, i>> : i \in Expired(q, t)}
        /\ b.add = {<<q, Pending, i>> : i \in Expired(q, t)}
    BY DEF ExpiredBatch, Batch
  <1>3. ASSUME NEW k \in DOMAIN b.puts
        PROVE  <<k[1], b.puts[k].state, k[2]>> \in b.add
    <2> HIDE DEF b
    <2>1. k[1] = q /\ k[2] \in Expired(q, t) /\ k = <<q, k[2]>>
      BY <1>2
    <2> QED
      BY <1>1, <1>2, <2>1
  <1>4. ASSUME NEW key \in b.del PROVE <<key[1], key[3]>> \in DOMAIN b.puts
    <2> HIDE DEF b
    <2> QED BY <1>2
  <1> QED
    BY <1>3, <1>4 DEF BatchIndexed

\* Committing a batch that carries its keys keeps the messages covered, whatever
\* the store holds by then.
LEMMA ApplyCovers ==
    ASSUME TypeOK, IndexCoversMessages, NEW b, TxnOK(b), b.pc = "commit",
           BatchIndexed(b), Apply(b)
    PROVE  IndexCoversMessages'
  <1> SUFFICES ASSUME NEW k \in MessageKeys, msgs'[k] # NoMsg
               PROVE  <<k[1], msgs'[k].state, k[2]>> \in index'
    BY DEF IndexCoversMessages, Stored
  <1>1. CASE k \in DOMAIN b.puts
    BY <1>1 DEF Apply, BatchIndexed
  <1>2. CASE k \notin DOMAIN b.puts
    <2>1. msgs'[k] = msgs[k]
      BY <1>2 DEF Apply
    <2>2. <<k[1], msgs[k].state, k[2]>> \in index
      BY <2>1 DEF IndexCoversMessages, Stored
    <2>3. <<k[1], msgs[k].state, k[2]>> \notin b.del
      BY <1>2 DEF BatchIndexed, MessageKeys
    <2> QED
      BY <2>1, <2>2, <2>3 DEF Apply
  <1> QED
    BY <1>1, <1>2

\* Buffering a batch that carries its keys.
LEMMA BufferIndexed ==
    ASSUME TypeOK, IndexInv, NEW p \in Procs, NEW b, b.pc = "commit" => BatchIndexed(b),
           Buffer(p, b), UNCHANGED <<msgs, index>>
    PROVE  IndexInv'
  <1>1. IndexCoversMessages'
    BY DEF IndexInv, IndexCoversMessages, Stored
  <1>2. ASSUME NEW r \in Procs, txn'[r].pc = "commit" PROVE BatchIndexed(txn'[r])
    BY <1>2 DEF IndexInv, TxnIndexed, Buffer, TypeOK
  <1> QED
    BY <1>1, <1>2 DEF IndexInv, TxnIndexed

\* Every step keeps the index invariant.
LEMMA StepIndex == TypeOK /\ IndexInv /\ [Next]_vars => IndexInv'
  <1> SUFFICES ASSUME TypeOK, IndexInv, [Next]_vars PROVE IndexInv'
    OBVIOUS
  <1>1. ASSUME NEW p \in Procs, NEW q \in PushQueues, PushMessage(p, q) PROVE IndexInv'
    <2>1. PICK id \in MsgIds : Buffer(p, PushBatch(q, id))
      BY <1>1 DEF PushMessage
    <2>2. BatchIndexed(PushBatch(q, id))
      BY DEF BatchIndexed, PushBatch, Batch, NewMessage
    <2> QED
      BY <1>1, <2>1, <2>2, BufferIndexed DEF PushMessage, store
  <1>2. ASSUME NEW p \in Procs, NEW q \in Queues, NEW timeout \in Timeouts,
               PopMessage(p, q, timeout)
        PROVE  IndexInv'
    <2>1. PICK id \in MsgIds : /\ msgs[<<q, id>>] # NoMsg
                               /\ Buffer(p, PopBatch(q, id, msgs[<<q, id>>], timeout))
      BY <1>2 DEF PopMessage, FirstPending
    <2>2. msgs[<<q, id>>] \in Messages
      BY <2>1, StoredIsMessage DEF MessageKeys
    <2>3. BatchIndexed(PopBatch(q, id, msgs[<<q, id>>], timeout))
      BY <2>2, BatchesIndexed
    <2> QED
      BY <1>2, <2>1, <2>3, BufferIndexed DEF PopMessage, store
  <1>3. ASSUME NEW p \in Procs, NEW k \in handles, AckMessage(p, k[1], k[2]) PROVE IndexInv'
    <2>1. BatchIndexed(RemoveBatch("ack", k[1], k[2], msgs[<<k[1], k[2]>>]))
      BY DEF BatchIndexed, RemoveBatch, Batch
    <2> QED
      BY <1>3, <2>1, BufferIndexed DEF AckMessage, store
  <1>4. ASSUME NEW p \in Procs, NEW k \in handles, NEW requeue \in BOOLEAN,
               NackMessage(p, k[1], k[2], requeue)
        PROVE  IndexInv'
    BY <1>4, BufferIndexed DEF NackMessage, store
  <1>5. ASSUME NEW p \in Procs, NackDecide(p) PROVE IndexInv'
    <2> DEFINE t == txn[p]
               cfg == config[t.queue]
    <2>1. t \in Nacks
      BY <1>5 DEF NackDecide, TypeOK, TxnOK, Idle, Requeues
    <2>2. /\ t.queue \in Queues /\ t.id \in MsgIds /\ t.msg \in Messages
          /\ cfg.deadLetterQueue \in Queues \cup {NoQueue}
      BY <2>1 DEF Nacks, TypeOK, Configs
    <2>3. PICK b : Buffer(p, b) /\ BatchIndexed(b)
      <3>1. CASE cfg.deadLetterQueue # NoQueue /\
                 \E newId \in MsgIds \ issued :
                    Buffer(p, moveToDeadLetter(t.queue, t.id, t.msg, cfg.deadLetterQueue, newId))
        BY <2>2, <3>1, BatchesIndexed
      <3>2. CASE Buffer(p, RemoveBatch("reject", t.queue, t.id, t.msg))
        BY <2>2, <3>2, BatchesIndexed
      <3>3. CASE Buffer(p, RequeueBatch(t.queue, t.id, t.msg))
        BY <2>2, <3>3, BatchesIndexed
      <3> QED
        BY <1>5, <3>1, <3>2, <3>3 DEF NackDecide
    <2> QED
      BY <1>5, <2>3, BufferIndexed DEF NackDecide, store
  <1>6. ASSUME NEW p \in Procs, NEW q \in Queues, RequeueExpiredMessages(p, q)
        PROVE  IndexInv'
    BY <1>6, BufferIndexed DEF RequeueExpiredMessages, store
  <1>7. ASSUME NEW p \in Procs, RequeueScan(p) PROVE IndexInv'
    <2>1. txn[p] \in Requeues
      BY <1>7 DEF RequeueScan, TypeOK, TxnOK, Idle, Nacks
    <2>2. txn[p].queue \in Queues
      BY <2>1 DEF Requeues
    <2>3. BatchIndexed(ExpiredBatch(txn[p].queue, txn[p].now))
      BY <2>2, ExpiredIndexed
    <2> QED
      BY <1>7, <2>3, BufferIndexed DEF RequeueScan, store
  <1>8. ASSUME NEW p \in Procs, Commit(p) PROVE IndexInv'
    <2> DEFINE b == txn[p]
    <2>1. TxnOK(b) /\ b.pc = "commit" /\ Apply(b) /\ BatchIndexed(b)
      BY <1>8 DEF TypeOK, Commit, IndexInv, TxnIndexed
    <2>2. IndexCoversMessages'
      BY <2>1, ApplyCovers DEF IndexInv
    <2>3. TxnIndexed'
      <3> SUFFICES ASSUME NEW r \in Procs, txn'[r].pc = "commit" PROVE BatchIndexed(txn'[r])
        BY DEF TxnIndexed
      <3> QED
        BY <1>8 DEF Commit, Buffer, Idle, TypeOK, IndexInv, TxnIndexed
    <2> QED
      BY <2>2, <2>3 DEF IndexInv
  <1>9. ASSUME NEW c \in DlqCalls, SetDeadLetterQueue(c[1], c[2], c[3]) PROVE IndexInv'
    BY <1>9 DEF SetDeadLetterQueue, IndexInv, TxnIndexed, IndexCoversMessages, Stored
  <1>10. CASE Tick
    BY <1>10 DEF Tick, store, IndexInv, TxnIndexed, IndexCoversMessages, Stored
  <1>11. CASE Crash
    BY <1>11 DEF Crash, store, Idle, IndexInv, TxnIndexed, IndexCoversMessages, Stored
  <1>12. CASE UNCHANGED vars
    BY <1>12 DEF vars, IndexInv, TxnIndexed, IndexCoversMessages, Stored
  <1> QED
    BY <1>1, <1>2, <1>3, <1>4, <1>5, <1>6, <1>7, <1>8, <1>9, <1>10, <1>11, <1>12
    DEF Next, Call, TxnStep

\* A stored message always has the index key of its state, so PopMessage and
\* RequeueExpiredMessages can find it: for any number of goroutines, although the
\* database detects no conflicts.
THEOREM IndexCovers == Spec => []IndexCoversMessages
  <1>1. Init => IndexInv
    BY DEF Init, Idle, IndexInv, TxnIndexed, IndexCoversMessages, Stored
  <1>2. IndexInv => IndexCoversMessages
    BY DEF IndexInv
  <1> QED
    BY <1>1, <1>2, TypeCorrect, StepIndex, PTL DEF Spec

(***************************************************************************)
(* No value is lost.  The inductive invariant ties the value of every      *)
(* message, stored or buffered, to the id it is stored under (ValueOf),    *)
(* and asks of every open batch that what it deletes is settled or         *)
(* written elsewhere by the same batch (KeepsValues).                      *)
(***************************************************************************)
ValueOf(k, m) == k[2] \in issued /\ (m # NoMsg => m.value = origin[k[2]])

KeepsValues(b) ==
    \A k \in DOMAIN b.puts :
        b.puts[k] = NoMsg =>
            \/ origin[k[2]] \in b.settles
            \/ \E k2 \in DOMAIN b.puts :
                  b.puts[k2] # NoMsg /\ b.puts[k2].value = origin[k[2]]

TxnValued(t) ==
    /\ t.pc = "nack" => ValueOf(<<t.queue, t.id>>, t.msg)
    /\ t.pc = "commit" => /\ \A k \in DOMAIN t.puts : ValueOf(k, t.puts[k])
                          /\ KeepsValues(t)

ValueInv ==
    /\ \A i \in MsgIds \ issued : origin[i] = i
    /\ \A k \in Stored : ValueOf(k, msgs[k])
    /\ \A p \in Procs : TxnValued(txn[p])

\* Issuing an id never changes what is known of the ids issued before.
LEMMA ValueOfStable ==
    ASSUME NEW k, NEW m, ValueOf(k, m), issued \subseteq issued',
           \A i \in issued : origin'[i] = origin[i]
    PROVE  ValueOf(k, m)'
  BY DEF ValueOf

\* The same for what an open transaction holds.
LEMMA TxnValuedStable ==
    ASSUME NEW t, TxnValued(t), issued \subseteq issued',
           \A i \in issued : origin'[i] = origin[i]
    PROVE  TxnValued(t)'
  <1>1. t.pc = "nack" => ValueOf(<<t.queue, t.id>>, t.msg)'
    BY ValueOfStable DEF TxnValued
  <1>2. ASSUME t.pc = "commit"
        PROVE  (\A k \in DOMAIN t.puts : ValueOf(k, t.puts[k])') /\ KeepsValues(t)'
    <2>1. \A k \in DOMAIN t.puts : ValueOf(k, t.puts[k])
      BY <1>2 DEF TxnValued
    <2>2. \A k \in DOMAIN t.puts : origin'[k[2]] = origin[k[2]]
      BY <2>1 DEF ValueOf
    <2>3. KeepsValues(t)
      BY <1>2 DEF TxnValued
    <2>4. KeepsValues(t)'
      BY <2>2, <2>3 DEF KeepsValues
    <2> QED
      BY <2>1, <2>4, ValueOfStable
  <1> QED
    BY <1>1, <1>2 DEF TxnValued

\* A step that buffers a transaction with the right values, taking fresh ids at most.
LEMMA BufferValued ==
    ASSUME TypeOK, ValueInv, NEW p \in Procs, NEW b, Buffer(p, b), TxnValued(b)',
           UNCHANGED msgs, issued \subseteq issued', issued' \subseteq MsgIds,
           \A i \in MsgIds \ issued' : origin'[i] = origin[i],
           \A i \in issued : origin'[i] = origin[i]
    PROVE  ValueInv'
  <1>1. \A i \in MsgIds \ issued' : origin'[i] = i
    BY DEF ValueInv
  <1>2. \A k \in Stored' : ValueOf(k, msgs[k])'
    BY ValueOfStable DEF ValueInv, Stored, ValueOf
  <1>3. ASSUME NEW r \in Procs PROVE TxnValued(txn[r])'
    <2>1. CASE r = p
      BY <2>1 DEF Buffer, TypeOK, TxnValued, ValueOf, KeepsValues
    <2>2. CASE r # p
      <3>1. txn'[r] = txn[r]
        BY <2>2 DEF Buffer, TypeOK
      <3>2. TxnValued(txn[r])
        BY DEF ValueInv
      <3> QED
        BY <3>1, <3>2, TxnValuedStable DEF TxnValued, ValueOf, KeepsValues
    <2> QED
      BY <2>1, <2>2
  <1> QED
    BY <1>1, <1>2, <1>3 DEF ValueInv

\* Deleting a message while settling its value.
LEMMA RemoveValued ==
    ASSUME NEW op, NEW q, NEW id, NEW m, id \in issued, m.value = origin[id],
           UNCHANGED <<issued, origin>>
    PROVE  TxnValued(RemoveBatch(op, q, id, m))'
  BY DEF RemoveBatch, Batch, TxnValued, ValueOf, KeepsValues

\* Writing messages over themselves, their values unchanged.
LEMMA RewriteValued ==
    ASSUME NEW b, b.pc = "commit",
           \A k \in DOMAIN b.puts :
               k[2] \in issued /\ b.puts[k] # NoMsg /\ b.puts[k].value = origin[k[2]],
           UNCHANGED <<issued, origin>>
    PROVE  TxnValued(b)'
  BY DEF TxnValued, ValueOf, KeepsValues

\* What a NackMessage that is told or forced to give up buffers: a message written over
\* itself, or a message deleted while its value is settled or copied.
LEMMA NackDecideValued ==
    ASSUME TypeOK, ValueInv, NEW p \in Procs, NackDecide(p)
    PROVE  ValueInv'
  <1> DEFINE t == txn[p]
             cfg == config[t.queue]
  <1>1. t \in Nacks
    BY DEF NackDecide, TypeOK, TxnOK, Idle, Requeues
  <1>2. /\ t.queue \in Queues /\ t.id \in MsgIds /\ t.msg \in Messages
        /\ t.msg.value \in MsgIds /\ t.msg # NoMsg
    BY <1>1, NoMsgAssumption DEF Nacks, Messages
  <1>3. t.id \in issued /\ t.msg.value = origin[t.id]
    <2>1. TxnValued(t) /\ t.pc = "nack"
      BY DEF ValueInv, NackDecide
    <2> QED
      BY <1>2, <2>1 DEF TxnValued, ValueOf
  <1>4. UNCHANGED msgs
    BY DEF NackDecide, store
  <1>5. ASSUME NEW newId \in MsgIds \ issued,
               issued' = issued \cup {newId},
               origin' = [origin EXCEPT ![newId] = t.msg.value],
               Buffer(p, moveToDeadLetter(t.queue, t.id, t.msg, cfg.deadLetterQueue, newId))
        PROVE  ValueInv'
    <2> DEFINE copy == NewMessage(t.msg.value, t.msg.deliveryCount)
    <2>1. PICK b, from, to :
             /\ b = moveToDeadLetter(t.queue, t.id, t.msg, cfg.deadLetterQueue, newId)
             /\ from = <<t.queue, t.id>>
             /\ to = <<cfg.deadLetterQueue, newId>>
      OBVIOUS
    <2>2. newId # t.id
      BY <1>3
    <2>3. copy.value = t.msg.value /\ copy # NoMsg
      <3>1. t.msg.deliveryCount \in Nat
        BY <1>2 DEF Messages
      <3>2. copy \in Messages
        BY <1>2, <3>1, NewMessageType
      <3> QED
        BY <3>2, NoMsgAssumption DEF NewMessage
    <2>4. /\ b.pc = "commit"
          /\ b.puts = [k \in {from, to} |-> IF k = from THEN NoMsg ELSE copy]
      BY <2>1 DEF moveToDeadLetter, Batch
    <2>5. /\ DOMAIN b.puts = {from, to} /\ from # to
          /\ b.puts[from] = NoMsg /\ b.puts[to] = copy
          /\ from[2] = t.id /\ to[2] = newId
      <3> HIDE DEF copy
      <3> QED BY <2>1, <2>2, <2>4
    <2>6. origin'[newId] = t.msg.value /\ origin'[t.id] = t.msg.value
      BY <1>3, <1>5, <2>2 DEF TypeOK
    <2>7. /\ ValueOf(from, b.puts[from])' /\ ValueOf(to, b.puts[to])'
      <3> HIDE DEF copy
      <3> QED BY <1>3, <1>5, <2>3, <2>5, <2>6 DEF ValueOf
    <2>8. KeepsValues(b)'
      <3> HIDE DEF copy
      <3> QED BY <2>3, <2>5, <2>6 DEF KeepsValues
    <2>9. TxnValued(b)'
      <3> HIDE DEF copy
      <3> QED BY <2>4, <2>5, <2>7, <2>8 DEF TxnValued
    <2>10. /\ issued \subseteq issued' /\ issued' \subseteq MsgIds
           /\ \A i \in MsgIds \ issued' : origin'[i] = origin[i]
           /\ \A i \in issued : origin'[i] = origin[i]
      BY <1>5 DEF TypeOK
    <2>11. Buffer(p, b)
      BY <1>5, <2>1
    <2> QED
      BY <1>4, <2>9, <2>10, <2>11, BufferValued
  <1>6. ASSUME Buffer(p, RemoveBatch("reject", t.queue, t.id, t.msg)),
               UNCHANGED <<issued, origin>>
        PROVE  ValueInv'
    <2>1. PICK b : b = RemoveBatch("reject", t.queue, t.id, t.msg)
      OBVIOUS
    <2>2. TxnValued(b)'
      BY <1>3, <1>6, <2>1, RemoveValued
    <2> QED
      BY <1>4, <1>6, <2>1, <2>2, BufferValued DEF TypeOK
  <1>7. ASSUME Buffer(p, RequeueBatch(t.queue, t.id, t.msg)), UNCHANGED <<issued, origin>>
        PROVE  ValueInv'
    <2>1. PICK b : b = RequeueBatch(t.queue, t.id, t.msg)
      OBVIOUS
    <2>2. BackToPending(t.msg) # NoMsg /\ BackToPending(t.msg).value = t.msg.value
      BY <1>2, BackToPendingType, NoMsgAssumption
    <2>3. b.pc = "commit" /\ b.puts = [k \in {<<t.queue, t.id>>} |-> BackToPending(t.msg)]
      BY <2>1 DEF RequeueBatch, Batch
    <2>4. TxnValued(b)'
      BY <1>3, <1>7, <2>2, <2>3, RewriteValued
    <2> QED
      BY <1>4, <1>7, <2>1, <2>4, BufferValued DEF TypeOK
  <1> QED
    BY <1>5, <1>6, <1>7 DEF NackDecide

\* A message read from the store has the value of its id.
LEMMA StoredValue ==
    ASSUME TypeOK, ValueInv, NEW k \in MessageKeys, msgs[k] # NoMsg
    PROVE  msgs[k] \in Messages /\ k[2] \in issued /\ msgs[k].value = origin[k[2]]
  BY StoredIsMessage DEF ValueInv, Stored, ValueOf

\* A commit keeps the values in place, and keeps each of them accounted for.
LEMMA CommitValued ==
    ASSUME TypeOK, ValueInv, NEW p \in Procs, Commit(p)
    PROVE  ValueInv' /\ Accounted \subseteq Accounted'
  <1>1. PICK b : b = txn[p]
    OBVIOUS
  <1>2. /\ b.pc = "commit" /\ Apply(b) /\ TxnOK(b)
        /\ settled' = settled \cup b.settles /\ UNCHANGED <<issued, origin>>
    BY <1>1 DEF Commit, TypeOK
  <1>3. DOMAIN b.puts \subseteq MessageKeys
    BY <1>2, ApplyType
  <1>4. (\A k \in DOMAIN b.puts : ValueOf(k, b.puts[k])) /\ KeepsValues(b)
    BY <1>1, <1>2 DEF ValueInv, TxnValued
  <1>5. \A k \in MessageKeys : msgs'[k] = IF k \in DOMAIN b.puts THEN b.puts[k] ELSE msgs[k]
    BY <1>2 DEF Apply
  <1>6. ValueInv'
    <2>1. \A i \in MsgIds \ issued' : origin'[i] = i
      BY <1>2 DEF ValueInv
    <2>2. ASSUME NEW k \in MessageKeys, msgs'[k] # NoMsg PROVE ValueOf(k, msgs'[k])
      BY <1>4, <1>5, <2>2 DEF ValueInv, Stored
    <2>3. \A k \in Stored' : ValueOf(k, msgs[k])'
      BY <1>2, <2>2 DEF Stored, ValueOf
    <2>4. ASSUME NEW r \in Procs PROVE TxnValued(txn[r])'
      <3>1. CASE r = p
        BY <3>1 DEF Commit, Buffer, TypeOK, Idle, TxnValued
      <3>2. CASE r # p
        <4>1. txn'[r] = txn[r] /\ TxnValued(txn[r])
          BY <3>2 DEF Commit, Buffer, TypeOK, ValueInv
        <4> QED
          BY <1>2, <4>1 DEF TxnValued, ValueOf, KeepsValues
      <3> QED
        BY <3>1, <3>2
    <2> QED
      BY <2>1, <2>3, <2>4 DEF ValueInv
  <1>7. ASSUME NEW v \in Accounted PROVE v \in Accounted'
    <2>1. CASE v \in settled
      BY <1>2, <2>1 DEF Accounted
    <2>2. CASE v \notin settled
      <3>1. PICK k \in MessageKeys : msgs[k] # NoMsg /\ msgs[k].value = v
        BY <2>2 DEF Accounted, Stored
      <3>2. v = origin[k[2]]
        BY <3>1, StoredValue
      <3>3. CASE k \notin DOMAIN b.puts
        BY <1>5, <3>1, <3>3 DEF Accounted, Stored
      <3>4. CASE k \in DOMAIN b.puts /\ b.puts[k] # NoMsg
        BY <1>4, <1>5, <3>2, <3>4 DEF Accounted, Stored, ValueOf
      <3>5. CASE k \in DOMAIN b.puts /\ b.puts[k] = NoMsg
        <4>1. CASE origin[k[2]] \in b.settles
          BY <1>2, <3>2, <4>1 DEF Accounted
        <4>2. CASE \E k2 \in DOMAIN b.puts :
                      b.puts[k2] # NoMsg /\ b.puts[k2].value = origin[k[2]]
          BY <1>3, <1>5, <3>2, <4>2 DEF Accounted, Stored
        <4> QED
          BY <1>4, <3>5, <4>1, <4>2 DEF KeepsValues
      <3> QED
        BY <3>3, <3>4, <3>5
    <2> QED
      BY <2>1, <2>2
  <1> QED
    BY <1>6, <1>7

\* Every step keeps the value invariant.
LEMMA StepValue == TypeOK /\ ValueInv /\ [Next]_vars => ValueInv'
  <1> SUFFICES ASSUME TypeOK, ValueInv, [Next]_vars PROVE ValueInv'
    OBVIOUS
  <1>1. ASSUME NEW p \in Procs, NEW q \in PushQueues, PushMessage(p, q) PROVE ValueInv'
    <2>1. PICK id \in MsgIds \ issued :
             issued' = issued \cup {id} /\ Buffer(p, PushBatch(q, id))
      BY <1>1 DEF PushMessage
    <2>2. UNCHANGED <<msgs, origin>> /\ origin[id] = id
      BY <1>1 DEF PushMessage, store, history, ValueInv
    <2>3. NewMessage(id, 0) \in Messages /\ NewMessage(id, 0).value = id
      BY NewMessageType DEF NewMessage
    <2>4. PICK b : b = PushBatch(q, id)
      OBVIOUS
    <2>5. b.pc = "commit" /\ b.puts = [k \in {<<q, id>>} |-> NewMessage(id, 0)]
      BY <2>4 DEF PushBatch, Batch
    <2>6. TxnValued(b)'
      BY <2>1, <2>2, <2>3, <2>5, NoMsgAssumption DEF TxnValued, ValueOf, KeepsValues
    <2> QED
      BY <2>1, <2>2, <2>4, <2>6, BufferValued DEF TypeOK
  <1>2. ASSUME NEW p \in Procs, NEW q \in Queues, NEW timeout \in Timeouts,
               PopMessage(p, q, timeout)
        PROVE  ValueInv'
    <2>1. PICK id \in MsgIds : /\ msgs[<<q, id>>] # NoMsg
                               /\ Buffer(p, PopBatch(q, id, msgs[<<q, id>>], timeout))
      BY <1>2 DEF PopMessage, FirstPending
    <2>2. /\ msgs[<<q, id>>] \in Messages /\ id \in issued
          /\ msgs[<<q, id>>].value = origin[id]
      BY <2>1, StoredValue DEF MessageKeys
    <2>3. PICK m, b : m = msgs[<<q, id>>] /\ b = PopBatch(q, id, m, timeout)
      OBVIOUS
    <2> DEFINE m2 == [m EXCEPT !.state = InFlight, !.inFlightAt = now,
                               !.visibilityTimeout = timeout,
                               !.deliveryCount = m.deliveryCount + 1]
    <2>4. b.pc = "commit" /\ b.puts = [k \in {<<q, id>>} |-> m2]
      BY <2>3 DEF PopBatch, Batch
    <2>5. m2 # NoMsg /\ m2.value = m.value
      <3>1. m \in Messages /\ timeout \in Nat /\ now \in Nat
        BY <2>2, <2>3, QueueAssumption DEF TypeOK
      <3>2. m2 \in Messages
        BY <3>1, DeliveredType
      <3>3. m2.value = m.value
        BY <3>1 DEF Messages
      <3> QED
        BY <3>2, <3>3, NoMsgAssumption
    <2>6. UNCHANGED <<msgs, issued, origin>>
      BY <1>2 DEF PopMessage, store, history
    <2>7. TxnValued(b)'
      <3> HIDE DEF m2
      <3>1. \A k \in DOMAIN b.puts :
               k[2] \in issued /\ b.puts[k] # NoMsg /\ b.puts[k].value = origin[k[2]]
        BY <2>2, <2>3, <2>4, <2>5
      <3> QED
        BY <2>4, <2>6, <3>1, RewriteValued
    <2>8. Buffer(p, b)
      BY <2>1, <2>3
    <2> QED
      BY <2>6, <2>7, <2>8, BufferValued DEF TypeOK
  <1>3. ASSUME NEW p \in Procs, NEW k \in handles, AckMessage(p, k[1], k[2]) PROVE ValueInv'
    <2>1. <<k[1], k[2]>> \in MessageKeys
      BY DEF TypeOK, MessageKeys
    <2>2. PICK b, m : b = RemoveBatch("ack", k[1], k[2], m) /\ m = msgs[<<k[1], k[2]>>]
      OBVIOUS
    <2>3. k[2] \in issued /\ m.value = origin[k[2]]
      BY <1>3, <2>1, <2>2, StoredValue DEF AckMessage
    <2>4. UNCHANGED <<msgs, issued, origin>> /\ Buffer(p, b)
      BY <1>3, <2>2 DEF AckMessage, store, history
    <2>5. TxnValued(b)'
      BY <2>2, <2>3, <2>4, RemoveValued
    <2> QED
      BY <2>4, <2>5, BufferValued DEF TypeOK
  <1>4. ASSUME NEW p \in Procs, NEW k \in handles, NEW requeue \in BOOLEAN,
               NackMessage(p, k[1], k[2], requeue)
        PROVE  ValueInv'
    <2>1. <<k[1], k[2]>> \in MessageKeys
      BY DEF TypeOK, MessageKeys
    <2>2. PICK b, m : /\ m = msgs[<<k[1], k[2]>>]
                      /\ b = [pc |-> "nack", queue |-> k[1], id |-> k[2],
                              requeue |-> requeue, msg |-> m]
      OBVIOUS
    <2>3. k[2] \in issued /\ m.value = origin[k[2]]
      BY <1>4, <2>1, <2>2, StoredValue DEF NackMessage
    <2>4. UNCHANGED <<msgs, issued, origin>> /\ Buffer(p, b)
      BY <1>4, <2>2 DEF NackMessage, store, history
    <2>5. TxnValued(b)'
      BY <2>2, <2>3, <2>4 DEF TxnValued, ValueOf
    <2> QED
      BY <2>4, <2>5, BufferValued DEF TypeOK
  <1>5. ASSUME NEW p \in Procs, NEW q \in Queues, RequeueExpiredMessages(p, q)
        PROVE  ValueInv'
    <2>1. PICK b : b = [pc |-> "requeue", queue |-> q, now |-> now]
      OBVIOUS
    <2>2. UNCHANGED <<msgs, issued, origin>> /\ Buffer(p, b)
      BY <1>5, <2>1 DEF RequeueExpiredMessages, store, history
    <2>3. TxnValued(b)'
      BY <2>1 DEF TxnValued
    <2> QED
      BY <2>2, <2>3, BufferValued DEF TypeOK
  <1>6. ASSUME NEW p \in Procs, RequeueScan(p) PROVE ValueInv'
    <2>1. PICK b, q, t : b = ExpiredBatch(q, t) /\ q = txn[p].queue /\ t = txn[p].now
      OBVIOUS
    <2>2. q \in Queues
      BY <1>6, <2>1 DEF RequeueScan, TypeOK, TxnOK, Idle, Nacks, Requeues
    <2>3. /\ b.pc = "commit"
          /\ b.puts = [k \in {q} \X Expired(q, t) |-> BackToPending(msgs[k])]
      BY <2>1 DEF ExpiredBatch, Batch
    <2>4. ASSUME NEW k \in DOMAIN b.puts
          PROVE  k[2] \in issued /\ b.puts[k] # NoMsg /\ b.puts[k].value = origin[k[2]]
      <3>1. k \in MessageKeys /\ msgs[k] # NoMsg
        BY <2>2, <2>3 DEF Expired, MessageKeys
      <3>2. b.puts[k] = BackToPending(msgs[k])
        BY <2>3
      <3> QED
        BY <3>1, <3>2, StoredValue, BackToPendingType, NoMsgAssumption
    <2>5. UNCHANGED <<msgs, issued, origin>> /\ Buffer(p, b)
      BY <1>6, <2>1 DEF RequeueScan, store, history
    <2>6. TxnValued(b)'
      BY <2>3, <2>4, <2>5, RewriteValued
    <2> QED
      BY <2>5, <2>6, BufferValued DEF TypeOK
  <1>7. ASSUME NEW c \in DlqCalls, SetDeadLetterQueue(c[1], c[2], c[3]) PROVE ValueInv'
    BY <1>7 DEF SetDeadLetterQueue, history, ValueInv, Stored, TxnValued, ValueOf, KeepsValues
  <1>8. CASE Tick
    BY <1>8 DEF Tick, store, history, ValueInv, Stored, TxnValued, ValueOf, KeepsValues
  <1>9. CASE Crash
    BY <1>9 DEF Crash, Idle, store, history, ValueInv, Stored, TxnValued, ValueOf, KeepsValues
  <1>10. CASE UNCHANGED vars
    BY <1>10 DEF vars, ValueInv, Stored, TxnValued, ValueOf, KeepsValues
  <1> QED
    BY <1>1, <1>2, <1>3, <1>4, <1>5, <1>6, <1>7, <1>8, <1>9, <1>10,
       NackDecideValued, CommitValued DEF Next, Call, TxnStep

\* Only a commit touches the messages and the settled values.
LEMMA OnlyCommitWrites ==
    ASSUME [Next]_vars, \A p \in Procs : ~Commit(p)
    PROVE  UNCHANGED <<msgs, settled>>
  BY DEF Next, Call, TxnStep, vars, store, history, PushMessage, PopMessage, AckMessage,
         NackMessage, NackDecide, RequeueExpiredMessages, RequeueScan, SetDeadLetterQueue,
         Tick, Crash

\* No value is ever dropped: although AckMessage, NackMessage, PopMessage and the
\* requeue scan commit over each other without conflict detection, and although the
\* process may die before any commit, a value that was stored stays stored in some
\* queue until an acknowledgement or a final rejection settles it.
THEOREM NoValueLost == Spec => NothingLost
  <1>1. Init => ValueInv
    BY DEF Init, Idle, ValueInv, Stored, TxnValued
  <1>2. TypeOK /\ ValueInv /\ [Next]_vars => [Accounted \subseteq Accounted']_vars
    <2> SUFFICES ASSUME TypeOK, ValueInv, [Next]_vars PROVE Accounted \subseteq Accounted'
      OBVIOUS
    <2>1. CASE \E p \in Procs : Commit(p)
      BY <2>1, CommitValued
    <2>2. CASE \A p \in Procs : ~Commit(p)
      BY <2>2, OnlyCommitWrites DEF Accounted, Stored
    <2> QED
      BY <2>1, <2>2
  <1> QED
    BY <1>1, <1>2, TypeCorrect, StepValue, PTL DEF Spec, NothingLost

-----------------------------------------------------------------------------
(***************************************************************************)
(* The worker beside the clients.                                          *)
(***************************************************************************)
\* The worker's goroutine does to the store what any caller of RequeueExpiredMessages
\* may do; its names and its stop channel are its own.
LEMMA WorkerImplementsStorage == WorkerSpec => Spec
  <1>1. WorkerInit => Init
    BY DEF WorkerInit
  <1>2. [WorkerNext]_allVars => [Next]_vars
    <2> SUFFICES ASSUME [WorkerNext]_allVars PROVE Next \/ UNCHANGED vars
      OBVIOUS
    <2>1. CASE StorageStep
      BY <2>1 DEF StorageStep, Next
    <2>2. ASSUME NEW q \in WatchQueues, AddQueue(q) \/ RemoveQueue(q) PROVE UNCHANGED vars
      BY <2>2 DEF AddQueue, RemoveQueue
    <2>3. CASE Start \/ Stop \/ WorkerTick \/ WorkerExit
      BY <2>3 DEF Start, Stop, WorkerTick, WorkerExit
    <2>4. ASSUME NEW q \in Queues, WorkerCheck(q) PROVE Next
      BY <2>4, WorkerAssumption DEF WorkerCheck, Next, Call
    <2>5. CASE CrashAll
      BY <2>5 DEF CrashAll, Next
    <2>6. CASE UNCHANGED allVars
      BY <2>6 DEF allVars
    <2> QED
      BY <2>1, <2>2, <2>3, <2>4, <2>5, <2>6 DEF WorkerNext
  <1> QED
    BY <1>1, <1>2, PTL DEF WorkerSpec, Spec

\* With the visibility worker sweeping beside any number of clients, started, stopped and
\* restarted at any moment, messages stay indexed and no value is dropped.
THEOREM WorkerKeepsMessages == WorkerSpec => []IndexCoversMessages /\ NothingLost
  BY WorkerImplementsStorage, IndexCovers, NoValueLost, PTL

-----------------------------------------------------------------------------
(***************************************************************************)
(* Calls that do not overlap.                                              *)
(***************************************************************************)
\* At most one call is under way.
Serial == \A p, r \in Procs : txn[p] # Idle /\ txn[r] # Idle => p = r

-----------------------------------------------------------------------------
(***************************************************************************)
(* The inductive invariant.  A batch that was computed from the store as   *)
(* it still is (Fresh) rewrites stored messages, removes one, moves one to *)
(* a new id or adds one.  Values have one copy each, so an id is in one    *)
(* queue, and a pending message has not been handed out since it was put   *)
(* back.                                                                   *)
(***************************************************************************)
Key(k, s) == <<k[1], s, k[2]>>

\* b writes the messages of K again, in state s and with their values.
Rewrites(b, K, s) ==
    /\ K \subseteq Stored /\ DOMAIN b.puts = K
    /\ \A k \in K : b.puts[k] \in Messages /\ b.puts[k].state = s /\ b.puts[k].value = msgs[k].value
    /\ b.del = {Key(k, msgs[k].state) : k \in K}
    /\ b.add = {Key(k, s) : k \in K}
    /\ b.settles = {}

Delivers(b) == \E k \in Stored : msgs[k].state = Pending /\ Rewrites(b, {k}, InFlight)

PutsBack(b) == \E q \in Queues, K \in SUBSET Stored :
                  (\A k \in K : k[1] = q) /\ Rewrites(b, K, Pending)

Removes(b) ==
    \E k \in Stored :
        /\ DOMAIN b.puts = {k} /\ b.puts[k] = NoMsg
        /\ b.del = {Key(k, msgs[k].state)} /\ b.add = {}
        /\ b.settles = {msgs[k].value}

\* No message was ever stored under id i.
Unused(i) == i \in issued /\ deliveries[i] = 0 /\ \A k \in Stored : k[2] # i

\* b stores value v as a new pending message under the key n.
Stores(b, n, v) ==
    /\ n \in MessageKeys /\ Unused(n[2])
    /\ b.puts[n] \in Messages /\ b.puts[n].state = Pending /\ b.puts[n].value = v
    /\ b.add = {Key(n, Pending)}
    /\ b.settles = {}

Moves(b) ==
    \E k \in Stored, n \in MessageKeys :
        /\ DOMAIN b.puts = {k, n} /\ b.puts[k] = NoMsg
        /\ b.del = {Key(k, msgs[k].state)}
        /\ Stores(b, n, msgs[k].value)

Adds(b) ==
    \E n \in MessageKeys :
        /\ DOMAIN b.puts = {n} /\ b.del = {}
        /\ Stores(b, n, n[2])
        /\ n[2] \notin settled /\ \A k \in Stored : msgs[k].value # n[2]

FreshBatch(b) ==
    \/ b.op = "pop" /\ Delivers(b)
    \/ b.op = "requeue" /\ PutsBack(b)
    \/ b.op \in {"ack", "reject"} /\ Removes(b)
    \/ b.op = "deadletter" /\ Moves(b)
    \/ b.op = "push" /\ Adds(b)

Fresh(t) ==
    /\ t.pc = "nack" => msgs[<<t.queue, t.id>>] = t.msg
    /\ t.pc = "commit" => FreshBatch(t)

OneCopy == \A k1, k2 \in Stored : msgs[k1].value = msgs[k2].value => k1 = k2

\* What is in the store or settled belongs to ids that were issued.
Known == settled \subseteq issued /\ \A i \in issued : origin[i] \in issued

Counted ==
    /\ \A k \in Stored : msgs[k].state = Pending => deliveries[k[2]] = 0
    /\ \A i \in MsgIds \ issued : deliveries[i] = 0

SerialInv ==
    /\ IndexIsExact
    /\ RedeliveryNeedsRequeue
    /\ OneCopy
    /\ Known
    /\ Counted
    /\ \A p \in Procs : Fresh(txn[p])
-----------------------------------------------------------------------------
(***************************************************************************)
(* Every call computes a batch that is fresh.                              *)
(***************************************************************************)
\* A stored key is a pair of a queue and an id.
LEMMA KeyIs ==
    ASSUME NEW k \in MessageKeys
    PROVE  k = <<k[1], k[2]>> /\ k[1] \in Queues /\ k[2] \in MsgIds
  BY DEF MessageKeys

\* A stored message has its key's value, which was issued, and no other message has it.
LEMMA StoredIs ==
    ASSUME TypeOK, ValueInv, Known, NEW k \in Stored
    PROVE  /\ k \in MessageKeys /\ msgs[k] \in Messages /\ msgs[k] # NoMsg
           /\ k[2] \in issued /\ msgs[k].value = origin[k[2]] /\ msgs[k].value \in issued
  <1>1. k \in MessageKeys /\ msgs[k] # NoMsg
    BY DEF Stored
  <1> QED
    BY <1>1, StoredValue DEF Known

\* An id is in one queue.
LEMMA IdOnce ==
    ASSUME TypeOK, ValueInv, Known, OneCopy, NEW k1 \in Stored, NEW k2 \in Stored, k1[2] = k2[2]
    PROVE  k1 = k2
  BY StoredIs DEF OneCopy

\* A new id is unused.
LEMMA NewIdUnused ==
    ASSUME TypeOK, ValueInv, Known, Counted, NEW i \in MsgIds \ issued
    PROVE  /\ deliveries[i] = 0 /\ i \notin settled
           /\ \A k \in Stored : k[2] # i /\ msgs[k].value # i
  BY StoredIs DEF Known, Counted

\* PushMessage: one new message under a new id.
LEMMA PushFresh ==
    ASSUME TypeOK, ValueInv, SerialInv, NEW q \in Queues, NEW id \in MsgIds \ issued,
           issued' = issued \cup {id}, UNCHANGED <<msgs, settled, deliveries>>
    PROVE  FreshBatch(PushBatch(q, id))'
  <1>1. PICK b, n : b = PushBatch(q, id) /\ n = <<q, id>>
    OBVIOUS
  <1>2. /\ b.op = "push" /\ DOMAIN b.puts = {n} /\ b.puts[n] = NewMessage(id, 0)
        /\ b.del = {} /\ b.add = {Key(n, Pending)} /\ b.settles = {}
    BY <1>1 DEF PushBatch, Batch, Key
  <1>3. NewMessage(id, 0) \in Messages /\ NewMessage(id, 0).state = Pending /\ NewMessage(id, 0).value = id
    BY NewMessageType DEF NewMessage
  <1>4. /\ deliveries[id] = 0 /\ id \notin settled
        /\ \A k \in Stored : k[2] # id /\ msgs[k].value # id
    BY NewIdUnused DEF SerialInv
  <1>5. Stored' = Stored
    BY DEF Stored
  <1>6. n \in MessageKeys /\ n[2] = id /\ Unused(id)'
    BY <1>1, <1>4, <1>5 DEF MessageKeys, Unused
  <1>7. Stores(b, n, n[2])'
    BY <1>2, <1>3, <1>6 DEF Stores, Unused, Stored
  <1>8. Adds(b)'
    BY <1>2, <1>4, <1>5, <1>6, <1>7 DEF Adds, Stores, Unused, Stored
  <1>9. FreshBatch(b)'
    BY <1>2, <1>8 DEF FreshBatch, Adds, Stores, Unused, Stored
  <1> QED
    BY <1>1, <1>9
\* What is fresh stays so while the messages, the settled values and the counts do.
LEMMA FreshStable ==
    ASSUME NEW t, Fresh(t), issued \subseteq issued', UNCHANGED <<msgs, settled, deliveries>>
    PROVE  Fresh(t)'
  <1>1. Stored' = Stored
    BY DEF Stored
  <1>2. \A i : Unused(i) => Unused(i)'
    BY <1>1 DEF Unused
  <1>3. \A n, v : Stores(t, n, v) => Stores(t, n, v)'
    BY <1>2 DEF Stores
  <1>4. \A K, s : Rewrites(t, K, s) => Rewrites(t, K, s)'
    BY <1>1 DEF Rewrites
  <1>5. (Delivers(t) => Delivers(t)') /\ (PutsBack(t) => PutsBack(t)')
    BY <1>1, <1>4 DEF Delivers, PutsBack
  <1>6. Removes(t) => Removes(t)'
    BY <1>1 DEF Removes
  <1>7. (Moves(t) => Moves(t)') /\ (Adds(t) => Adds(t)')
    BY <1>1, <1>3 DEF Moves, Adds
  <1>8. FreshBatch(t) => FreshBatch(t)'
    BY <1>5, <1>6, <1>7 DEF FreshBatch
  <1> QED
    BY <1>8 DEF Fresh

\* PopMessage: the first pending key stands for a pending message.
LEMMA PopFresh ==
    ASSUME TypeOK, SerialInv, NEW q \in Queues, NEW id \in FirstPending(q), NEW timeout \in Nat,
           msgs[<<q, id>>] # NoMsg, NEW b, b = PopBatch(q, id, msgs[<<q, id>>], timeout)
    PROVE  FreshBatch(b)
  <1>1. id \in MsgIds /\ <<q, Pending, id>> \in index
    BY DEF FirstPending
  <1>2. PICK k, m : k = <<q, id>> /\ m = msgs[k]
    OBVIOUS
  <1>3. k \in Stored /\ m \in Messages /\ k[1] = q /\ k[2] = id
    BY <1>1, <1>2, StoredIsMessage DEF Stored, MessageKeys
  <1>4. m.state = Pending
    BY <1>1, <1>2 DEF SerialInv, IndexIsExact
  <1> DEFINE m2 == [m EXCEPT !.state = InFlight, !.inFlightAt = now,
                             !.visibilityTimeout = timeout,
                             !.deliveryCount = m.deliveryCount + 1]
  <1>5. m2 \in Messages /\ m2.state = InFlight /\ m2.value = m.value
    <2>1. m2 \in Messages
      BY <1>3, DeliveredType DEF TypeOK
    <2> QED
      BY <1>3, <2>1 DEF Messages
  <1>6. /\ b.op = "pop" /\ b.puts = [x \in {k} |-> m2]
        /\ b.del = {<<q, Pending, id>>} /\ b.add = {<<q, InFlight, id>>} /\ b.settles = {}
    BY <1>2 DEF PopBatch, Batch
  <1> HIDE DEF m2
  <1>7. DOMAIN b.puts = {k} /\ b.puts[k] = m2
    BY <1>6
  <1>8. Rewrites(b, {k}, InFlight)
    BY <1>2, <1>3, <1>4, <1>5, <1>6, <1>7 DEF Rewrites, Key
  <1> QED
    BY <1>2, <1>3, <1>4, <1>6, <1>8 DEF FreshBatch, Delivers

\* AckMessage and a final NackMessage: a stored message goes.
LEMMA RemoveFresh ==
    ASSUME NEW k \in Stored, NEW op \in {"ack", "reject"},
           NEW b, b = RemoveBatch(op, k[1], k[2], msgs[k])
    PROVE  FreshBatch(b)
  <1>1. k = <<k[1], k[2]>>
    BY KeyIs DEF Stored
  <1>2. /\ b.op = op /\ DOMAIN b.puts = {k} /\ b.puts[k] = NoMsg
        /\ b.del = {Key(k, msgs[k].state)} /\ b.add = {} /\ b.settles = {msgs[k].value}
    BY <1>1 DEF RemoveBatch, Batch, Key
  <1>3. Removes(b)
    BY <1>2 DEF Removes
  <1> QED
    BY <1>2, <1>3 DEF FreshBatch

\* NackMessage with requeue: a stored message is written as pending.
LEMMA RequeueFresh ==
    ASSUME TypeOK, NEW k \in Stored, NEW b, b = RequeueBatch(k[1], k[2], msgs[k])
    PROVE  FreshBatch(b)
  <1>1. k = <<k[1], k[2]>> /\ k[1] \in Queues /\ msgs[k] \in Messages
    BY KeyIs, StoredIsMessage DEF Stored
  <1>2. /\ b.op = "requeue" /\ DOMAIN b.puts = {k} /\ b.puts[k] = BackToPending(msgs[k])
        /\ b.del = {Key(k, msgs[k].state)} /\ b.add = {Key(k, Pending)} /\ b.settles = {}
    BY <1>1 DEF RequeueBatch, Batch, Key
  <1>3. Rewrites(b, {k}, Pending)
    BY <1>1, <1>2, BackToPendingType DEF Rewrites
  <1>4. PutsBack(b)
    BY <1>1, <1>3 DEF PutsBack
  <1> QED
    BY <1>2, <1>4 DEF FreshBatch

\* RequeueExpiredMessages: the in-flight keys stand for in-flight messages.
LEMMA ExpiredFresh ==
    ASSUME TypeOK, SerialInv, NEW q \in Queues, NEW t, NEW b, b = ExpiredBatch(q, t)
    PROVE  FreshBatch(b)
  <1>1. PICK K : K = {q} \X Expired(q, t)
    OBVIOUS
  <1>2. ASSUME NEW k \in K
        PROVE  /\ k \in Stored /\ k[1] = q /\ k[2] \in Expired(q, t) /\ k = <<q, k[2]>>
               /\ msgs[k] \in Messages /\ msgs[k].state = InFlight
    <2>1. k[1] = q /\ k[2] \in Expired(q, t) /\ k = <<q, k[2]>>
      BY <1>1
    <2>2. k \in Stored /\ <<q, InFlight, k[2]>> \in index
      BY <2>1 DEF Expired, Stored, MessageKeys
    <2>3. msgs[k].state = InFlight
      BY <2>1, <2>2 DEF SerialInv, IndexIsExact
    <2> QED
      BY <2>1, <2>2, <2>3, StoredIsMessage DEF Stored
  <1>3. /\ b.op = "requeue" /\ b.puts = [k \in K |-> BackToPending(msgs[k])]
        /\ b.del = {<<q, InFlight, i>> : i \in Expired(q, t)}
        /\ b.add = {<<q, Pending, i>> : i \in Expired(q, t)} /\ b.settles = {}
    BY <1>1 DEF ExpiredBatch, Batch
  <1>4. \A i \in Expired(q, t) : <<q, i>> \in K
    BY <1>1
  <1>5. ASSUME NEW s
        PROVE  {<<q, s, i>> : i \in Expired(q, t)} = {Key(k, s) : k \in K}
    <2>1. \A i \in Expired(q, t) : <<q, s, i>> = Key(<<q, i>>, s)
      BY DEF Key
    <2>2. \A k \in K : Key(k, s) = <<q, s, k[2]>>
      BY <1>2 DEF Key
    <2>3. ASSUME NEW x \in {<<q, s, i>> : i \in Expired(q, t)} PROVE x \in {Key(k, s) : k \in K}
      <3>1. PICK i \in Expired(q, t) : x = <<q, s, i>>
        BY <2>3
      <3> QED
        BY <1>4, <2>1, <3>1
    <2>4. ASSUME NEW x \in {Key(k, s) : k \in K} PROVE x \in {<<q, s, i>> : i \in Expired(q, t)}
      BY <1>2, <2>2, <2>4
    <2> QED
      BY <2>3, <2>4
  <1>6. b.del = {Key(k, msgs[k].state) : k \in K} /\ b.add = {Key(k, Pending) : k \in K}
    BY <1>2, <1>3, <1>5
  <1>7. K \subseteq Stored
    BY <1>2
  <1>8. \A k \in K : b.puts[k] \in Messages /\ b.puts[k].state = Pending /\ b.puts[k].value = msgs[k].value
    BY <1>2, <1>3, BackToPendingType
  <1>9. Rewrites(b, K, Pending)
    BY <1>3, <1>6, <1>7, <1>8 DEF Rewrites
  <1>10. PutsBack(b)
    BY <1>2, <1>7, <1>9 DEF PutsBack
  <1> QED
    BY <1>3, <1>10 DEF FreshBatch

\* NackMessage with a dead-letter queue: a stored message goes and its value is stored
\* under a new id, in one batch.
LEMMA MoveFresh ==
    ASSUME TypeOK, ValueInv, SerialInv, NEW k \in Stored, NEW dlq \in Queues,
           NEW id \in MsgIds \ issued, issued' = issued \cup {id},
           UNCHANGED <<msgs, settled, deliveries>>,
           NEW b, b = moveToDeadLetter(k[1], k[2], msgs[k], dlq, id)
    PROVE  FreshBatch(b)'
  <1>1. PICK n, m, copy : n = <<dlq, id>> /\ m = msgs[k] /\ copy = NewMessage(m.value, m.deliveryCount)
    OBVIOUS
  <1>2. k = <<k[1], k[2]>> /\ m \in Messages /\ k[2] \in issued
    BY <1>1, KeyIs, StoredIs DEF SerialInv, Stored
  <1>3. m.value \in MsgIds /\ m.deliveryCount \in Nat
    BY <1>2 DEF Messages
  <1>4. copy \in Messages /\ copy.state = Pending /\ copy.value = m.value
    BY <1>1, <1>3, NewMessageType DEF NewMessage
  <1>5. /\ b.op = "deadletter" /\ b.puts = [x \in {k, n} |-> IF x = k THEN NoMsg ELSE copy]
        /\ b.del = {Key(k, m.state)} /\ b.add = {Key(n, Pending)} /\ b.settles = {}
    BY <1>1, <1>2 DEF moveToDeadLetter, Batch, Key
  <1>6. k # n /\ n \in MessageKeys /\ n[2] = id
    BY <1>1, <1>2 DEF MessageKeys
  <1>7. DOMAIN b.puts = {k, n} /\ b.puts[k] = NoMsg /\ b.puts[n] = copy
    BY <1>5, <1>6
  <1>8. Stored' = Stored
    BY DEF Stored
  <1>9. Unused(id)'
    BY <1>8, NewIdUnused DEF Unused, SerialInv
  <1>10. Stores(b, n, m.value)'
    BY <1>4, <1>5, <1>6, <1>7, <1>9 DEF Stores, Unused, Stored
  <1>11. Moves(b)'
    BY <1>1, <1>5, <1>6, <1>7, <1>8, <1>10 DEF Moves, Stores, Unused, Stored
  <1> QED
    BY <1>5, <1>11 DEF FreshBatch, Moves, Stores, Unused, Stored
-----------------------------------------------------------------------------
(***************************************************************************)
(* What committing a fresh batch does.                                     *)
(***************************************************************************)
\* A fresh batch deletes the index keys of all it overwrites, adds those of all it
\* writes, and duplicates no value; what it hands out or adds has a count of zero.
LEMMA FreshIs ==
    ASSUME TypeOK, ValueInv, SerialInv, NEW b, FreshBatch(b)
    PROVE  /\ \A k \in DOMAIN b.puts : k \in Stored => Key(k, msgs[k].state) \in b.del
           /\ \A key \in b.add : \E k \in DOMAIN b.puts :
                 /\ k \in MessageKeys /\ b.puts[k] \in Messages /\ key = Key(k, b.puts[k].state)
           /\ \A k \in DOMAIN b.puts : b.puts[k] # NoMsg =>
                 /\ \A k2 \in Stored \ DOMAIN b.puts : msgs[k2].value # b.puts[k].value
                 /\ \A k2 \in DOMAIN b.puts :
                       b.puts[k2] # NoMsg /\ b.puts[k2].value = b.puts[k].value => k2 = k
           /\ b.op = "pop" => \A k \in DOMAIN b.puts :
                 k \in Stored /\ deliveries[k[2]] = 0 /\ b.puts[k].state = InFlight
           /\ b.op \notin {"pop", "requeue"} => \A k \in DOMAIN b.puts :
                 b.puts[k] # NoMsg => deliveries[k[2]] = 0
           /\ b.settles \subseteq issued
  <1>1. ASSUME NEW K, NEW s, Rewrites(b, K, s)
        PROVE  /\ \A k \in DOMAIN b.puts : k \in Stored => Key(k, msgs[k].state) \in b.del
               /\ \A key \in b.add : \E k \in DOMAIN b.puts :
                     /\ k \in MessageKeys /\ b.puts[k] \in Messages /\ key = Key(k, b.puts[k].state)
               /\ \A k \in DOMAIN b.puts :
                     /\ \A k2 \in Stored \ DOMAIN b.puts : msgs[k2].value # b.puts[k].value
                     /\ \A k2 \in DOMAIN b.puts : b.puts[k2].value = b.puts[k].value => k2 = k
               /\ b.settles \subseteq issued
    <2>1. \A k \in K : k \in Stored /\ k \in MessageKeys
      BY <1>1 DEF Rewrites, Stored
    <2>2. \A k \in DOMAIN b.puts : Key(k, msgs[k].state) \in b.del
      BY <1>1 DEF Rewrites
    <2>3. \A key \in b.add : \E k \in DOMAIN b.puts :
             k \in MessageKeys /\ b.puts[k] \in Messages /\ key = Key(k, b.puts[k].state)
      BY <1>1, <2>1 DEF Rewrites
    <2>4. \A k \in DOMAIN b.puts :
             /\ \A k2 \in Stored \ DOMAIN b.puts : msgs[k2].value # b.puts[k].value
             /\ \A k2 \in DOMAIN b.puts : b.puts[k2].value = b.puts[k].value => k2 = k
      BY <1>1, <2>1 DEF Rewrites, SerialInv, OneCopy
    <2> QED
      BY <1>1, <2>2, <2>3, <2>4 DEF Rewrites
  <1>2. CASE b.op = "pop" /\ Delivers(b)
    <2>1. PICK k \in Stored : msgs[k].state = Pending /\ Rewrites(b, {k}, InFlight)
      BY <1>2 DEF Delivers
    <2>2. DOMAIN b.puts = {k} /\ b.puts[k].state = InFlight /\ deliveries[k[2]] = 0
      BY <2>1 DEF Rewrites, SerialInv, Counted
    <2> QED
      BY <1>1, <1>2, <2>1, <2>2
  <1>3. CASE b.op = "requeue" /\ PutsBack(b)
    <2>1. PICK K : Rewrites(b, K, Pending)
      BY <1>3 DEF PutsBack
    <2> QED
      BY <1>1, <1>3, <2>1
  <1>4. CASE b.op \in {"ack", "reject"} /\ Removes(b)
    <2>1. PICK k \in Stored :
             /\ DOMAIN b.puts = {k} /\ b.puts[k] = NoMsg
             /\ b.del = {Key(k, msgs[k].state)} /\ b.add = {} /\ b.settles = {msgs[k].value}
      BY <1>4 DEF Removes
    <2>2. msgs[k].value \in issued
      BY StoredIs DEF SerialInv
    <2> QED
      BY <1>4, <2>1, <2>2
  <1>5. CASE b.op = "deadletter" /\ Moves(b)
    <2>1. PICK k \in Stored, n \in MessageKeys :
             /\ DOMAIN b.puts = {k, n} /\ b.puts[k] = NoMsg
             /\ b.del = {Key(k, msgs[k].state)} /\ Stores(b, n, msgs[k].value)
      BY <1>5 DEF Moves
    <2>2. /\ n \notin Stored /\ deliveries[n[2]] = 0 /\ b.settles = {}
          /\ b.puts[n] \in Messages /\ b.puts[n].state = Pending /\ b.puts[n].value = msgs[k].value
          /\ b.add = {Key(n, Pending)}
      BY <2>1 DEF Stores, Unused
    <2>3. \A k2 \in Stored \ {k, n} : msgs[k2].value # msgs[k].value
      BY DEF SerialInv, OneCopy
    <2> QED
      BY <1>5, <2>1, <2>2, <2>3
  <1>6. CASE b.op = "push" /\ Adds(b)
    <2>1. PICK n \in MessageKeys :
             /\ DOMAIN b.puts = {n} /\ b.del = {} /\ Stores(b, n, n[2])
             /\ n[2] \notin settled /\ \A k \in Stored : msgs[k].value # n[2]
      BY <1>6 DEF Adds
    <2>2. /\ n \notin Stored /\ deliveries[n[2]] = 0 /\ b.settles = {}
          /\ b.puts[n] \in Messages /\ b.puts[n].state = Pending /\ b.puts[n].value = n[2]
          /\ b.add = {Key(n, Pending)}
      BY <2>1 DEF Stores, Unused
    <2> QED
      BY <1>6, <2>1, <2>2
  <1> QED
    BY <1>2, <1>3, <1>4, <1>5, <1>6 DEF FreshBatch

\* A commit while no other call is under way keeps the invariant.
LEMMA CommitSerial ==
    ASSUME TypeOK, ValueInv, SerialInv, Serial, NEW p \in Procs, Commit(p)
    PROVE  SerialInv'
  <1>1. PICK b : b = txn[p]
    OBVIOUS
  <1>2. /\ b.pc = "commit" /\ Apply(b) /\ TxnOK(b) /\ FreshBatch(b)
        /\ settled' = settled \cup b.settles /\ UNCHANGED <<issued, origin>>
    BY <1>1 DEF Commit, TypeOK, SerialInv, Fresh
  <1>3. DOMAIN b.puts \subseteq MessageKeys
    BY <1>2, ApplyType
  <1>4. \A k \in MessageKeys : msgs'[k] = IF k \in DOMAIN b.puts THEN b.puts[k] ELSE msgs[k]
    BY <1>2 DEF Apply
  <1>5. \A k \in DOMAIN b.puts : k \in Stored => Key(k, msgs[k].state) \in b.del
    BY <1>2, FreshIs
  <1>6. \A key \in b.add : \E k \in DOMAIN b.puts :
           k \in MessageKeys /\ b.puts[k] \in Messages /\ key = Key(k, b.puts[k].state)
    BY <1>2, FreshIs
  <1>7. \A k \in DOMAIN b.puts : b.puts[k] # NoMsg =>
           /\ \A k2 \in Stored \ DOMAIN b.puts : msgs[k2].value # b.puts[k].value
           /\ \A k2 \in DOMAIN b.puts :
                 b.puts[k2] # NoMsg /\ b.puts[k2].value = b.puts[k].value => k2 = k
    BY <1>2, FreshIs
  <1>8. b.op = "pop" => \A k \in DOMAIN b.puts :
           k \in Stored /\ deliveries[k[2]] = 0 /\ b.puts[k].state = InFlight
    BY <1>2, FreshIs
  <1>9. b.op \notin {"pop", "requeue"} => \A k \in DOMAIN b.puts :
           b.puts[k] # NoMsg => deliveries[k[2]] = 0
    BY <1>2, FreshIs
  <1>10. b.settles \subseteq issued
    BY <1>2, FreshIs
  <1>11. \A k \in DOMAIN b.puts : k[2] \in issued
    BY <1>1, <1>2 DEF ValueInv, TxnValued, ValueOf
  <1>12. \A i \in MsgIds : deliveries'[i] =
            CASE b.op = "pop" /\ Touches(b, i) -> deliveries[i] + 1
              [] b.op = "requeue" /\ Touches(b, i) -> 0
              [] OTHER -> deliveries[i]
    BY <1>1 DEF Commit
  <1>13. /\ \A i \in MsgIds : b.op = "pop" /\ Touches(b, i) => deliveries'[i] = deliveries[i] + 1
         /\ \A i \in MsgIds : b.op = "requeue" /\ Touches(b, i) => deliveries'[i] = 0
         /\ \A i \in MsgIds : b.op \notin {"pop", "requeue"} \/ ~Touches(b, i) => deliveries'[i] = deliveries[i]
    BY <1>12
  <1>14. \A i \in MsgIds : Touches(b, i) => \E k \in DOMAIN b.puts : k[2] = i
    BY DEF Touches
  <1>15. \A k \in DOMAIN b.puts : Touches(b, k[2])
    BY DEF Touches
  <1>16. IndexIsExact'
    <2> SUFFICES ASSUME NEW key \in index'
                 PROVE  /\ msgs'[<<key[1], key[3]>>] # NoMsg
                        /\ msgs'[<<key[1], key[3]>>].state = key[2]
      BY DEF IndexIsExact
    <2>1. CASE key \in b.add
      <3>1. PICK k \in DOMAIN b.puts :
               k \in MessageKeys /\ b.puts[k] \in Messages /\ key = Key(k, b.puts[k].state)
        BY <1>6, <2>1
      <3>2. <<key[1], key[3]>> = k /\ key[2] = b.puts[k].state
        BY <3>1, KeyIs DEF Key
      <3> QED
        BY <1>4, <3>1, <3>2, NoMsgAssumption
    <2>2. CASE key \in index /\ key \notin b.del
      <3>1. PICK k : k = <<key[1], key[3]>>
        OBVIOUS
      <3>2. key \in IndexKeys
        BY <2>2 DEF TypeOK
      <3>3. k \in MessageKeys /\ key = <<k[1], key[2], k[2]>>
        BY <3>1, <3>2 DEF IndexKeys, MessageKeys
      <3>4. msgs[k] # NoMsg /\ msgs[k].state = key[2]
        BY <2>2, <3>1 DEF SerialInv, IndexIsExact
      <3>5. k \in Stored /\ key = Key(k, msgs[k].state)
        BY <3>3, <3>4 DEF Stored, Key
      <3>6. k \notin DOMAIN b.puts
        BY <1>5, <2>2, <3>5
      <3> QED
        BY <1>4, <3>1, <3>3, <3>4, <3>6
    <2> QED
      BY <1>2, <2>1, <2>2 DEF Apply
  <1>17. OneCopy'
    <2> SUFFICES ASSUME NEW k1 \in MessageKeys, NEW k2 \in MessageKeys, msgs'[k1] # NoMsg,
                        msgs'[k2] # NoMsg, msgs'[k1].value = msgs'[k2].value
                 PROVE  k1 = k2
      BY DEF OneCopy, Stored
    <2>1. CASE k1 \in DOMAIN b.puts /\ k2 \in DOMAIN b.puts
      BY <1>4, <1>7, <2>1
    <2>2. CASE k1 \in DOMAIN b.puts /\ k2 \notin DOMAIN b.puts
      BY <1>4, <1>7, <2>2 DEF Stored
    <2>3. CASE k1 \notin DOMAIN b.puts /\ k2 \in DOMAIN b.puts
      BY <1>4, <1>7, <2>3 DEF Stored
    <2>4. CASE k1 \notin DOMAIN b.puts /\ k2 \notin DOMAIN b.puts
      BY <1>4, <2>4 DEF SerialInv, OneCopy, Stored
    <2> QED
      BY <2>1, <2>2, <2>3, <2>4
  <1>18. Known'
    BY <1>2, <1>10 DEF SerialInv, Known
  <1>19. RedeliveryNeedsRequeue'
    <2> SUFFICES ASSUME NEW i \in MsgIds PROVE deliveries'[i] <= 1
      BY DEF RedeliveryNeedsRequeue
    <2>1. deliveries[i] <= 1 /\ deliveries[i] \in Nat
      BY DEF SerialInv, RedeliveryNeedsRequeue, TypeOK
    <2>2. CASE b.op = "pop" /\ Touches(b, i)
      BY <1>8, <1>13, <1>14, <2>2
    <2>3. CASE ~(b.op = "pop" /\ Touches(b, i))
      BY <1>13, <2>1, <2>3
    <2> QED
      BY <2>2, <2>3
  <1>20. Counted'
    <2>1. ASSUME NEW k \in MessageKeys, msgs'[k] # NoMsg, msgs'[k].state = Pending
          PROVE  deliveries'[k[2]] = 0
      <3>1. k[2] \in MsgIds
        BY KeyIs
      <3>2. CASE k \in DOMAIN b.puts
        <4>1. b.puts[k] # NoMsg /\ b.puts[k].state = Pending /\ Touches(b, k[2])
          BY <1>4, <1>15, <2>1, <3>2
        <4>2. b.op # "pop"
          BY <1>8, <3>2, <4>1 DEF Pending, InFlight
        <4> QED
          BY <1>9, <1>13, <3>1, <3>2, <4>1, <4>2
      <3>3. CASE k \notin DOMAIN b.puts
        <4>1. k \in Stored /\ deliveries[k[2]] = 0
          BY <1>4, <2>1, <3>3 DEF Stored, SerialInv, Counted
        <4>2. ~(b.op = "pop" /\ Touches(b, k[2]))
          <5> SUFFICES ASSUME b.op = "pop", Touches(b, k[2]) PROVE FALSE
            OBVIOUS
          <5>1. PICK k2 \in DOMAIN b.puts : k2[2] = k[2]
            BY <1>14, <3>1
          <5>2. k2 \in Stored
            BY <1>8
          <5> QED
            BY <3>3, <4>1, <5>1, <5>2, IdOnce DEF SerialInv
        <4> QED
          BY <1>13, <3>1, <4>1, <4>2
      <3> QED
        BY <3>2, <3>3
    <2>2. ASSUME NEW i \in MsgIds \ issued' PROVE deliveries'[i] = 0
      <3>1. deliveries[i] = 0 /\ ~Touches(b, i)
        BY <1>2, <1>11, <1>14 DEF SerialInv, Counted
      <3> QED
        BY <1>13, <3>1
    <2> QED
      BY <2>1, <2>2 DEF Counted, Stored
  <1>21. ASSUME NEW r \in Procs PROVE Fresh(txn[r])'
    <2>1. txn'[r] = Idle
      <3>1. b # Idle
        BY <1>2 DEF Idle
      <3> QED
        BY <1>1, <3>1 DEF Serial, Commit, Buffer, TypeOK
    <2> QED
      BY <2>1 DEF Fresh, Idle
  <1> QED
    BY <1>16, <1>17, <1>18, <1>19, <1>20, <1>21 DEF SerialInv
-----------------------------------------------------------------------------
(***************************************************************************)
(* Every step keeps the invariant.                                         *)
(***************************************************************************)
\* A call that opens or goes on with a transaction that is fresh.
LEMMA BufferSerial ==
    ASSUME TypeOK, SerialInv, Serial', NEW p \in Procs, NEW b, Buffer(p, b), b # Idle,
           Fresh(b)', UNCHANGED <<msgs, index, settled, deliveries>>, Known',
           issued \subseteq issued'
    PROVE  SerialInv'
  <1>1. ASSUME NEW r \in Procs PROVE Fresh(txn[r])'
    <2>1. CASE r = p
      <3>1. txn'[r] = b
        BY <2>1 DEF Buffer, TypeOK
      <3> QED
        BY <3>1 DEF Fresh, FreshBatch, Delivers, PutsBack, Removes, Moves, Adds, Rewrites,
                    Stores, Unused, Stored
    <2>2. CASE r # p
      <3>1. txn'[p] # Idle
        BY DEF Buffer, TypeOK
      <3>2. txn'[r] = Idle
        BY <2>2, <3>1 DEF Serial
      <3> QED
        BY <3>2 DEF Fresh, Idle
    <2> QED
      BY <2>1, <2>2
  <1>2. IndexIsExact' /\ RedeliveryNeedsRequeue' /\ OneCopy'
    BY DEF SerialInv, IndexIsExact, RedeliveryNeedsRequeue, OneCopy, Stored
  <1>3. Counted'
    BY DEF SerialInv, Counted, Stored
  <1> QED
    BY <1>1, <1>2, <1>3 DEF SerialInv

\* The same, for the calls that take no new id.
LEMMA CallSerial ==
    ASSUME TypeOK, SerialInv, Serial', NEW p \in Procs, NEW b, Buffer(p, b), b # Idle,
           Fresh(b), UNCHANGED <<msgs, index, settled, deliveries, issued, origin>>
    PROVE  SerialInv'
  <1>1. Fresh(b)'
    BY FreshStable
  <1>2. Known'
    BY DEF SerialInv, Known
  <1> QED
    BY <1>1, <1>2, BufferSerial

\* A NackMessage that has read its message decides on what is still stored.
LEMMA NackDecideSerial ==
    ASSUME TypeOK, ValueInv, SerialInv, Serial', NEW p \in Procs, NackDecide(p)
    PROVE  SerialInv'
  <1>1. PICK t, cfg, k : t = txn[p] /\ cfg = config[t.queue] /\ k = <<t.queue, t.id>>
    OBVIOUS
  <1>2. t \in Nacks
    BY <1>1 DEF NackDecide, TypeOK, TxnOK, Idle, Requeues
  <1>3. /\ t.queue \in Queues /\ t.id \in MsgIds /\ t.msg \in Messages
        /\ k[1] = t.queue /\ k[2] = t.id /\ k \in MessageKeys
    BY <1>1, <1>2 DEF Nacks, MessageKeys
  <1>4. msgs[k] = t.msg /\ k \in Stored
    <2>1. msgs[k] = t.msg
      BY <1>1 DEF NackDecide, SerialInv, Fresh
    <2> QED
      BY <1>3, <2>1, NoMsgAssumption DEF Stored
  <1>5. UNCHANGED <<msgs, index, settled, deliveries>>
    BY DEF NackDecide, store
  <1>6. ASSUME cfg.deadLetterQueue # NoQueue, NEW newId \in MsgIds \ issued,
               issued' = issued \cup {newId},
               origin' = [origin EXCEPT ![newId] = t.msg.value],
               NEW b, b = moveToDeadLetter(t.queue, t.id, t.msg, cfg.deadLetterQueue, newId),
               Buffer(p, b)
        PROVE  SerialInv'
    <2>1. cfg.deadLetterQueue \in Queues
      BY <1>1, <1>3, <1>6 DEF TypeOK, Configs
    <2>2. FreshBatch(b)'
      BY <1>3, <1>4, <1>5, <1>6, <2>1, MoveFresh
    <2>3. b # Idle /\ b.pc = "commit"
      BY <1>6 DEF moveToDeadLetter, Batch, Idle
    <2>4. t.msg.value \in issued
      BY <1>4, StoredIs DEF SerialInv
    <2>5. Known'
      BY <1>5, <1>6, <2>4 DEF SerialInv, Known, TypeOK
    <2>6. Fresh(b)'
      BY <2>2, <2>3 DEF Fresh
    <2> QED
      BY <1>5, <1>6, <2>3, <2>5, <2>6, BufferSerial
  <1>7. ASSUME NEW b, b = RemoveBatch("reject", t.queue, t.id, t.msg), Buffer(p, b),
               UNCHANGED <<issued, origin>>
        PROVE  SerialInv'
    <2>1. FreshBatch(b)
      BY <1>3, <1>4, <1>7, RemoveFresh
    <2>2. b # Idle /\ b.pc = "commit"
      BY <1>7 DEF RemoveBatch, Batch, Idle
    <2> QED
      BY <1>5, <1>7, <2>1, <2>2, CallSerial DEF Fresh
  <1>8. ASSUME NEW b, b = RequeueBatch(t.queue, t.id, t.msg), Buffer(p, b),
               UNCHANGED <<issued, origin>>
        PROVE  SerialInv'
    <2>1. FreshBatch(b)
      BY <1>3, <1>4, <1>8, RequeueFresh
    <2>2. b # Idle /\ b.pc = "commit"
      BY <1>8 DEF RequeueBatch, Batch, Idle
    <2> QED
      BY <1>5, <1>8, <2>1, <2>2, CallSerial DEF Fresh
  <1> QED
    BY <1>1, <1>6, <1>7, <1>8 DEF NackDecide

\* Every step that leaves at most one call under way keeps the invariant.
LEMMA StepSerial ==
    TypeOK /\ ValueInv /\ SerialInv /\ Serial /\ Serial' /\ [Next]_vars => SerialInv'
  <1> SUFFICES ASSUME TypeOK, ValueInv, SerialInv, Serial, Serial', [Next]_vars PROVE SerialInv'
    OBVIOUS
  <1>1. ASSUME NEW p \in Procs, NEW q \in PushQueues, PushMessage(p, q) PROVE SerialInv'
    <2>1. PICK id \in MsgIds \ issued :
             issued' = issued \cup {id} /\ Buffer(p, PushBatch(q, id))
      BY <1>1 DEF PushMessage
    <2>2. UNCHANGED <<msgs, index, settled, deliveries, origin>> /\ q \in Queues
      BY <1>1, QueueAssumption DEF PushMessage, store, history
    <2>3. PICK b : b = PushBatch(q, id)
      OBVIOUS
    <2>4. b # Idle /\ b.pc = "commit" /\ FreshBatch(b)'
      <3>1. FreshBatch(PushBatch(q, id))'
        BY <2>1, <2>2, PushFresh
      <3> QED
        BY <2>3, <3>1 DEF PushBatch, Batch, Idle
    <2>5. Known'
      BY <2>1, <2>2 DEF SerialInv, Known, ValueInv
    <2>6. Fresh(b)'
      BY <2>4 DEF Fresh
    <2> QED
      BY <2>1, <2>2, <2>3, <2>4, <2>5, <2>6, BufferSerial
  <1>2. ASSUME NEW p \in Procs, NEW q \in Queues, NEW timeout \in Timeouts,
               PopMessage(p, q, timeout)
        PROVE  SerialInv'
    <2>1. PICK id \in FirstPending(q) :
             /\ msgs[<<q, id>>] # NoMsg
             /\ Buffer(p, PopBatch(q, id, msgs[<<q, id>>], timeout))
      BY <1>2 DEF PopMessage
    <2>2. PICK b : b = PopBatch(q, id, msgs[<<q, id>>], timeout)
      OBVIOUS
    <2>3. b # Idle /\ b.pc = "commit"
      BY <2>2 DEF PopBatch, Batch, Idle
    <2>4. FreshBatch(b)
      BY <2>1, <2>2, PopFresh, QueueAssumption
    <2>5. UNCHANGED <<msgs, index, settled, deliveries, issued, origin>>
      BY <1>2 DEF PopMessage, store, history
    <2> QED
      BY <2>1, <2>2, <2>3, <2>4, <2>5, CallSerial DEF Fresh
  <1>3. ASSUME NEW p \in Procs, NEW k \in handles, AckMessage(p, k[1], k[2]) PROVE SerialInv'
    <2>1. k \in MessageKeys /\ k = <<k[1], k[2]>>
      BY KeyIs DEF TypeOK
    <2>2. PICK b : b = RemoveBatch("ack", k[1], k[2], msgs[k])
      OBVIOUS
    <2>3. k \in Stored /\ Buffer(p, b)
      BY <1>3, <2>1, <2>2 DEF AckMessage, Stored
    <2>4. b # Idle /\ b.pc = "commit"
      BY <2>2 DEF RemoveBatch, Batch, Idle
    <2>5. FreshBatch(b)
      BY <2>2, <2>3, RemoveFresh
    <2>6. UNCHANGED <<msgs, index, settled, deliveries, issued, origin>>
      BY <1>3 DEF AckMessage, store, history
    <2> QED
      BY <2>3, <2>4, <2>5, <2>6, CallSerial DEF Fresh
  <1>4. ASSUME NEW p \in Procs, NEW k \in handles, NEW requeue \in BOOLEAN,
               NackMessage(p, k[1], k[2], requeue)
        PROVE  SerialInv'
    <2>1. PICK b : b = [pc |-> "nack", queue |-> k[1], id |-> k[2], requeue |-> requeue,
                        msg |-> msgs[<<k[1], k[2]>>]]
      OBVIOUS
    <2>2. Buffer(p, b)
      BY <1>4, <2>1 DEF NackMessage
    <2>3. b # Idle /\ Fresh(b)
      BY <2>1 DEF Idle, Fresh
    <2>4. UNCHANGED <<msgs, index, settled, deliveries, issued, origin>>
      BY <1>4 DEF NackMessage, store, history
    <2> QED
      BY <2>2, <2>3, <2>4, CallSerial
  <1>5. ASSUME NEW p \in Procs, NEW q \in Queues, RequeueExpiredMessages(p, q)
        PROVE  SerialInv'
    <2>1. PICK b : b = [pc |-> "requeue", queue |-> q, now |-> now]
      OBVIOUS
    <2>2. Buffer(p, b)
      BY <1>5, <2>1 DEF RequeueExpiredMessages
    <2>3. b # Idle /\ Fresh(b)
      BY <2>1 DEF Idle, Fresh
    <2>4. UNCHANGED <<msgs, index, settled, deliveries, issued, origin>>
      BY <1>5 DEF RequeueExpiredMessages, store, history
    <2> QED
      BY <2>2, <2>3, <2>4, CallSerial
  <1>6. ASSUME NEW p \in Procs, RequeueScan(p) PROVE SerialInv'
    <2>1. PICK b, q, t : b = ExpiredBatch(q, t) /\ q = txn[p].queue /\ t = txn[p].now
      OBVIOUS
    <2>2. q \in Queues
      BY <1>6, <2>1 DEF RequeueScan, TypeOK, TxnOK, Idle, Nacks, Requeues
    <2>3. b # Idle /\ b.pc = "commit"
      BY <2>1 DEF ExpiredBatch, Batch, Idle
    <2>4. FreshBatch(b)
      BY <2>1, <2>2, ExpiredFresh
    <2>5. UNCHANGED <<msgs, index, settled, deliveries, issued, origin>> /\ Buffer(p, b)
      BY <1>6, <2>1 DEF RequeueScan, store, history
    <2> QED
      BY <2>3, <2>4, <2>5, CallSerial DEF Fresh
  <1>7. ASSUME UNCHANGED <<msgs, index, issued, settled, origin, deliveries>>,
               \A p \in Procs : txn'[p] = txn[p] \/ txn'[p] = Idle
        PROVE  SerialInv'
    <2>1. IndexIsExact' /\ RedeliveryNeedsRequeue' /\ OneCopy' /\ Known'
      BY <1>7 DEF SerialInv, IndexIsExact, RedeliveryNeedsRequeue, OneCopy, Stored, Known
    <2>2. Counted'
      BY <1>7 DEF SerialInv, Counted, Stored
    <2>3. ASSUME NEW p \in Procs PROVE Fresh(txn[p])'
      <3>1. PICK t : t = txn'[p]
        OBVIOUS
      <3>2. Fresh(t)
        BY <1>7, <3>1 DEF SerialInv, Fresh, Idle
      <3>3. Fresh(t)'
        BY <1>7, <3>2, FreshStable
      <3> QED
        BY <3>1, <3>3 DEF Fresh, FreshBatch, Delivers, PutsBack, Removes, Moves, Adds, Rewrites,
                          Stores, Unused, Stored
    <2> QED
      BY <2>1, <2>2, <2>3 DEF SerialInv
  <1>8. ASSUME NEW c \in DlqCalls, SetDeadLetterQueue(c[1], c[2], c[3]) PROVE SerialInv'
    BY <1>7, <1>8 DEF SetDeadLetterQueue, history
  <1>9. CASE Tick
    BY <1>7, <1>9 DEF Tick, store, history
  <1>10. CASE Crash
    BY <1>7, <1>10 DEF Crash, store, history
  <1>11. CASE UNCHANGED vars
    BY <1>7, <1>11 DEF vars
  <1> QED
    BY <1>1, <1>2, <1>3, <1>4, <1>5, <1>6, <1>8, <1>9, <1>10, <1>11,
       NackDecideSerial, CommitSerial DEF Next, Call, TxnStep

\* The invariant holds at the start.
LEMMA InitSerial == Init => ValueInv /\ SerialInv
  <1> SUFFICES ASSUME Init PROVE ValueInv /\ SerialInv
    OBVIOUS
  <1>1. Stored = {}
    BY DEF Init, Stored
  <1>2. ValueInv
    BY <1>1 DEF Init, Idle, ValueInv, TxnValued
  <1>3. IndexIsExact /\ RedeliveryNeedsRequeue /\ OneCopy /\ Known /\ Counted
    BY <1>1 DEF Init, IndexIsExact, RedeliveryNeedsRequeue, OneCopy, Known, Counted
  <1>4. \A p \in Procs : Fresh(txn[p])
    BY DEF Init, Fresh, Idle
  <1> QED
    BY <1>2, <1>3, <1>4 DEF SerialInv

\* The two invariants together.
LEMMA SerialHolds == Spec /\ []Serial => [](TypeOK /\ ValueInv /\ SerialInv)
  BY InitSerial, TypeCorrect, StepValue, StepSerial, PTL DEF Spec

\* The index is exact while the calls of PopMessage, AckMessage, NackMessage and
\* RequeueExpiredMessages do not overlap, however many goroutines make them: a key
\* stands for a stored message in that state, so that PopMessage never stumbles over
\* a key that has no message.
THEOREM IndexExactInSeries == Spec /\ []Serial => []IndexIsExact
  <1>1. SerialInv => IndexIsExact
    BY DEF SerialInv
  <1> QED
    BY <1>1, SerialHolds, PTL

\* While calls do not overlap, PopMessage hands a message out again only after
\* NackMessage or RequeueExpiredMessages put it back.
THEOREM RedeliveryOnlyAfterRequeue == Spec /\ []Serial => []RedeliveryNeedsRequeue
  <1>1. SerialInv => RedeliveryNeedsRequeue
    BY DEF SerialInv
  <1> QED
    BY <1>1, SerialHolds, PTL
-----------------------------------------------------------------------------
(***************************************************************************)
(* Refinement.  The stage and the place of a value are read off its one    *)
(* stored copy; only a commit changes them, and it changes them for the    *)
(* values of its batch as one action of MessageLifecycle does.             *)
(***************************************************************************)
Stage == [v \in MsgIds |-> StageOf(v)]
Place == [v \in MsgIds |-> PlaceOf(v)]

StoredStages ==
    \A k \in Stored : StageOf(msgs[k].value) = msgs[k].state /\ PlaceOf(msgs[k].value) = k[1]

OtherStages ==
    \A v \in MsgIds : (\A k \in Stored : msgs[k].value # v) =>
        StageOf(v) = (IF v \in settled THEN "gone" ELSE "absent") /\ PlaceOf(v) = NoQueue

\* A stored value is in the state and the queue of its one copy.
LEMMA StageIs == OneCopy => StoredStages
  <1> SUFFICES ASSUME OneCopy, NEW k \in Stored
               PROVE  StageOf(msgs[k].value) = msgs[k].state /\ PlaceOf(msgs[k].value) = k[1]
    BY DEF StoredStages
  <1>1. Copies(msgs[k].value) = {k}
    BY DEF OneCopy, Copies
  <1>2. (CHOOSE x \in {k} : TRUE) = k
    OBVIOUS
  <1> QED
    BY <1>1, <1>2 DEF StageOf, PlaceOf

\* A value without a copy is gone if it was settled and otherwise not there yet.
LEMMA StageNone == OtherStages
  <1> SUFFICES ASSUME NEW v \in MsgIds, \A k \in Stored : msgs[k].value # v
               PROVE  StageOf(v) = (IF v \in settled THEN "gone" ELSE "absent") /\ PlaceOf(v) = NoQueue
    BY DEF OtherStages
  <1>1. Copies(v) = {}
    BY DEF Copies
  <1> QED
    BY <1>1 DEF StageOf, PlaceOf

\* Values that a batch does not touch keep their stage and place.
LEMMA OthersStay ==
    ASSUME OneCopy, OneCopy', NEW b, DOMAIN b.puts \subseteq MessageKeys,
           \A k \in MessageKeys : msgs'[k] = IF k \in DOMAIN b.puts THEN b.puts[k] ELSE msgs[k],
           NEW v \in MsgIds,
           \A k \in DOMAIN b.puts : (k \in Stored => msgs[k].value # v)
                                     /\ (b.puts[k] # NoMsg => b.puts[k].value # v),
           v \in settled' <=> v \in settled
    PROVE  StageOf(v)' = StageOf(v) /\ PlaceOf(v)' = PlaceOf(v)
  <1>1. StoredStages /\ StoredStages'
    BY StageIs, PTL
  <1>2. OtherStages /\ OtherStages'
    BY StageNone, PTL
  <1>3. CASE \E k \in Stored : msgs[k].value = v
    <2>1. PICK k \in Stored : msgs[k].value = v
      BY <1>3
    <2>2. k \in MessageKeys /\ msgs[k] # NoMsg /\ k \notin DOMAIN b.puts
      BY <2>1 DEF Stored
    <2>3. msgs'[k] = msgs[k] /\ k \in Stored'
      BY <2>2 DEF Stored
    <2>4. StageOf(v) = msgs[k].state /\ PlaceOf(v) = k[1]
      BY <1>1, <2>1 DEF StoredStages
    <2>5. StageOf(msgs[k].value)' = msgs'[k].state /\ PlaceOf(msgs[k].value)' = k[1]
      BY <1>1, <2>3 DEF StoredStages
    <2> QED
      BY <2>1, <2>3, <2>4, <2>5
  <1>4. CASE \A k \in Stored : msgs[k].value # v
    <2>1. \A k \in Stored' : msgs'[k].value # v
      BY <1>4 DEF Stored
    <2> QED
      BY <1>2, <1>4, <2>1 DEF OtherStages
  <1> QED
    BY <1>3, <1>4
\* A commit of one batch, as far as the life cycle is concerned.
Commits(b) ==
    /\ DOMAIN b.puts \subseteq MessageKeys
    /\ \A k \in MessageKeys : msgs'[k] = IF k \in DOMAIN b.puts THEN b.puts[k] ELSE msgs[k]
    /\ settled' = settled \cup b.settles

\* Before and after a commit, stages and places are those of the stored copies.
LEMMA CommitStages ==
    ASSUME OneCopy, OneCopy'
    PROVE  /\ \A k \in Stored : StageOf(msgs[k].value) = msgs[k].state /\ PlaceOf(msgs[k].value) = k[1]
           /\ \A k \in Stored' : StageOf(msgs[k].value)' = msgs'[k].state /\ PlaceOf(msgs[k].value)' = k[1]
           /\ \A v \in MsgIds : (\A k \in Stored : msgs[k].value # v) =>
                 StageOf(v) = (IF v \in settled THEN "gone" ELSE "absent") /\ PlaceOf(v) = NoQueue
           /\ \A v \in MsgIds : (\A k \in Stored' : msgs'[k].value # v) =>
                 StageOf(v)' = (IF v \in settled' THEN "gone" ELSE "absent") /\ PlaceOf(v)' = NoQueue
  <1>1. StoredStages /\ StoredStages' /\ OtherStages /\ OtherStages'
    BY StageIs, StageNone, PTL
  <1> QED
    BY <1>1 DEF StoredStages, OtherStages

\* A batch that writes stored messages again moves their values to its state and leaves
\* all others, and every place, as they are.
LEMMA RewriteStages ==
    ASSUME TypeOK, ValueInv, SerialInv, OneCopy', NEW b, Commits(b), NEW K, NEW s, Rewrites(b, K, s)
    PROVE  /\ \A k \in K : msgs[k].value \in MsgIds /\ StageOf(msgs[k].value) = msgs[k].state
                           /\ PlaceOf(msgs[k].value) = k[1]
           /\ \A v \in MsgIds : PlaceOf(v)' = PlaceOf(v)
           /\ \A v \in MsgIds : StageOf(v)' = IF \E k \in K : msgs[k].value = v THEN s ELSE StageOf(v)
  <1>1. \A k \in K : k \in Stored /\ k \in MessageKeys /\ msgs[k] \in Messages /\ msgs[k].value \in MsgIds
    BY StoredIs DEF Rewrites, SerialInv, Messages
  <1>2. \A k \in K : StageOf(msgs[k].value) = msgs[k].state /\ PlaceOf(msgs[k].value) = k[1]
    BY <1>1, CommitStages DEF SerialInv
  <1>3. ASSUME NEW k \in K
        PROVE  StageOf(msgs[k].value)' = s /\ PlaceOf(msgs[k].value)' = k[1]
               /\ msgs'[k].value = msgs[k].value
    <2>1. k \in Stored' /\ msgs'[k].value = msgs[k].value /\ msgs'[k].state = s
      BY <1>1, NoMsgAssumption DEF Rewrites, Commits, Stored
    <2> QED
      BY <2>1, CommitStages DEF SerialInv
  <1>4. ASSUME NEW v \in MsgIds, \A k \in K : msgs[k].value # v
        PROVE  StageOf(v)' = StageOf(v) /\ PlaceOf(v)' = PlaceOf(v)
    <2>1. \A k \in DOMAIN b.puts : (k \in Stored => msgs[k].value # v)
                                /\ (b.puts[k] # NoMsg => b.puts[k].value # v)
      BY <1>4 DEF Rewrites
    <2>2. v \in settled' <=> v \in settled
      BY DEF Rewrites, Commits
    <2> QED
      BY <2>1, <2>2, OthersStay DEF SerialInv, Commits
  <1>5. ASSUME NEW v \in MsgIds
        PROVE  /\ PlaceOf(v)' = PlaceOf(v)
               /\ StageOf(v)' = IF \E k \in K : msgs[k].value = v THEN s ELSE StageOf(v)
    <2>1. CASE \E k \in K : msgs[k].value = v
      <3>1. PICK k \in K : msgs[k].value = v
        BY <2>1
      <3>2. StageOf(msgs[k].value)' = s /\ PlaceOf(msgs[k].value)' = k[1] /\ msgs'[k].value = v
        BY <1>3, <3>1
      <3>3. PlaceOf(v) = k[1]
        BY <1>2, <3>1
      <3> QED
        BY <2>1, <3>2, <3>3
    <2>2. CASE \A k \in K : msgs[k].value # v
      BY <1>4, <2>2
    <2> QED
      BY <2>1, <2>2
  <1> QED
    BY <1>1, <1>2, <1>5

\* PopMessage's commit is the delivery of a pending message.
LEMMA DeliverRefines ==
    ASSUME TypeOK, ValueInv, SerialInv, OneCopy', NEW b, Commits(b), Delivers(b)
    PROVE  \E v \in MsgIds : Lifecycle!Deliver(v)
  <1>1. PICK k \in Stored : msgs[k].state = Pending /\ Rewrites(b, {k}, InFlight)
    BY DEF Delivers
  <1>2. PICK v : v = msgs[k].value
    OBVIOUS
  <1>3. v \in MsgIds /\ StageOf(v) = "pending"
    BY <1>1, <1>2, RewriteStages DEF Pending
  <1>4. \A w \in MsgIds : PlaceOf(w)' = PlaceOf(w)
    BY <1>1, RewriteStages
  <1>5. \A w \in MsgIds : StageOf(w)' = IF w = v THEN "inflight" ELSE StageOf(w)
    BY <1>1, <1>2, RewriteStages DEF InFlight
  <1>6. Stage' = [Stage EXCEPT ![v] = "inflight"] /\ Place' = Place
    BY <1>3, <1>4, <1>5 DEF Stage, Place
  <1>7. Lifecycle!Deliver(v)
    BY <1>3, <1>6 DEF Lifecycle!Deliver, Stage, Place
  <1> QED
    BY <1>3, <1>7

\* The commit of a requeue, by NackMessage or by RequeueExpiredMessages, makes some
\* messages of one queue deliverable again.
LEMMA RequeueRefines ==
    ASSUME TypeOK, ValueInv, SerialInv, OneCopy', NEW b, Commits(b), PutsBack(b)
    PROVE  \E S \in SUBSET MsgIds, q \in Queues : Lifecycle!Requeue(S, q)
  <1>1. PICK q \in Queues, K \in SUBSET Stored : (\A k \in K : k[1] = q) /\ Rewrites(b, K, Pending)
    BY DEF PutsBack
  <1>2. PICK S : S = {msgs[k].value : k \in K}
    OBVIOUS
  <1>3. \A k \in K : msgs[k].value \in MsgIds /\ StageOf(msgs[k].value) = msgs[k].state
                     /\ PlaceOf(msgs[k].value) = k[1]
    BY <1>1, RewriteStages
  <1>4. \A k \in K : msgs[k].state \in {"pending", "inflight"}
    BY <1>1, StoredIs DEF SerialInv, Messages, Pending, InFlight
  <1>5. \A v \in S : v \in MsgIds /\ StageOf(v) \in {"pending", "inflight"} /\ PlaceOf(v) = q
    BY <1>1, <1>2, <1>3, <1>4
  <1>6. \A v \in MsgIds : PlaceOf(v)' = PlaceOf(v)
    BY <1>1, RewriteStages
  <1>7. \A v \in MsgIds : StageOf(v)' = IF v \in S THEN "pending" ELSE StageOf(v)
    BY <1>1, <1>2, RewriteStages DEF Pending
  <1>8. Stage' = [v \in MsgIds |-> IF v \in S THEN "pending" ELSE Stage[v]] /\ Place' = Place
    BY <1>6, <1>7 DEF Stage, Place
  <1>9. Lifecycle!Requeue(S, q)
    BY <1>5, <1>8 DEF Lifecycle!Requeue, Lifecycle!Held, Stage, Place
  <1>10. S \in SUBSET MsgIds
    BY <1>5
  <1> QED
    BY <1>9, <1>10

\* The commit of AckMessage or of a final NackMessage settles a message.
LEMMA SettleRefines ==
    ASSUME TypeOK, ValueInv, SerialInv, OneCopy', NEW b, Commits(b), Removes(b)
    PROVE  \E v \in MsgIds : Lifecycle!Settle(v)
  <1>1. PICK k \in Stored :
           /\ DOMAIN b.puts = {k} /\ b.puts[k] = NoMsg
           /\ b.settles = {msgs[k].value}
    BY DEF Removes
  <1>2. PICK v : v = msgs[k].value
    OBVIOUS
  <1>3. k \in MessageKeys /\ v \in MsgIds /\ msgs[k].state \in {"pending", "inflight"}
    BY <1>2, StoredIs DEF SerialInv, Messages, Pending, InFlight
  <1>4. StageOf(v) \in {"pending", "inflight"}
    BY <1>2, <1>3, CommitStages DEF SerialInv
  <1>5. \A k2 \in Stored' : msgs'[k2].value # v
    BY <1>1, <1>2 DEF Commits, Stored, SerialInv, OneCopy
  <1>6. StageOf(v)' = "gone" /\ PlaceOf(v)' = NoQueue
    BY <1>1, <1>2, <1>3, <1>5, CommitStages DEF SerialInv, Commits
  <1>7. ASSUME NEW w \in MsgIds, w # v PROVE StageOf(w)' = StageOf(w) /\ PlaceOf(w)' = PlaceOf(w)
    <2>1. \A k2 \in DOMAIN b.puts : (k2 \in Stored => msgs[k2].value # w)
                                 /\ (b.puts[k2] # NoMsg => b.puts[k2].value # w)
      BY <1>1, <1>2, <1>7
    <2>2. w \in settled' <=> w \in settled
      BY <1>1, <1>2, <1>7 DEF Commits
    <2> QED
      BY <2>1, <2>2, OthersStay DEF SerialInv, Commits
  <1>8. Stage' = [Stage EXCEPT ![v] = "gone"] /\ Place' = [Place EXCEPT ![v] = NoQueue]
    BY <1>3, <1>6, <1>7 DEF Stage, Place
  <1>9. Lifecycle!Settle(v)
    BY <1>3, <1>4, <1>8 DEF Lifecycle!Settle, Lifecycle!Held, Stage, Place
  <1> QED
    BY <1>3, <1>9
\* What a batch stores under a new key is pending in that queue afterwards, and nothing
\* else changes but the message it may delete for it.
LEMMA StoreStages ==
    ASSUME TypeOK, ValueInv, SerialInv, OneCopy', NEW b, Commits(b), NEW n \in MessageKeys,
           n \in DOMAIN b.puts, NEW v \in MsgIds, Stores(b, n, v),
           \A k \in DOMAIN b.puts \ {n} : b.puts[k] = NoMsg /\ (k \in Stored => msgs[k].value = v)
    PROVE  /\ n[1] \in Queues
           /\ Stage' = [Stage EXCEPT ![v] = "pending"]
           /\ Place' = [Place EXCEPT ![v] = n[1]]
  <1>1. n[1] \in Queues
    BY KeyIs
  <1>2. n \in Stored' /\ msgs'[n].value = v /\ msgs'[n].state = "pending"
    BY NoMsgAssumption DEF Commits, Stores, Stored, Pending
  <1>3. StageOf(v)' = "pending" /\ PlaceOf(v)' = n[1]
    <2>1. StageOf(msgs[n].value)' = msgs'[n].state /\ PlaceOf(msgs[n].value)' = n[1]
      BY <1>2, CommitStages DEF SerialInv
    <2> QED
      BY <1>2, <2>1
  <1>4. ASSUME NEW w \in MsgIds, w # v PROVE StageOf(w)' = StageOf(w) /\ PlaceOf(w)' = PlaceOf(w)
    <2>1. n \notin Stored /\ b.puts[n].value = v /\ b.settles = {}
      BY DEF Stores, Unused
    <2>2. \A k \in DOMAIN b.puts : (k \in Stored => msgs[k].value # w)
                                /\ (b.puts[k] # NoMsg => b.puts[k].value # w)
      BY <1>4, <2>1
    <2>3. w \in settled' <=> w \in settled
      BY <2>1 DEF Commits
    <2> QED
      BY <2>2, <2>3, OthersStay DEF SerialInv, Commits
  <1> QED
    BY <1>1, <1>3, <1>4 DEF Stage, Place

\* The commit that moves a message to its dead-letter queue.
LEMMA DeadLetterRefines ==
    ASSUME TypeOK, ValueInv, SerialInv, OneCopy', NEW b, Commits(b), Moves(b)
    PROVE  \E v \in MsgIds, q \in Queues : Lifecycle!DeadLetter(v, q)
  <1>1. PICK k \in Stored, n \in MessageKeys :
           DOMAIN b.puts = {k, n} /\ b.puts[k] = NoMsg /\ Stores(b, n, msgs[k].value)
    BY DEF Moves
  <1>2. PICK v : v = msgs[k].value
    OBVIOUS
  <1>3. v \in MsgIds /\ msgs[k].state \in {"pending", "inflight"}
    BY <1>2, StoredIs DEF SerialInv, Messages, Pending, InFlight
  <1>4. StageOf(v) \in {"pending", "inflight"}
    BY <1>2, <1>3, CommitStages DEF SerialInv
  <1>5. /\ n[1] \in Queues
        /\ Stage' = [Stage EXCEPT ![v] = "pending"]
        /\ Place' = [Place EXCEPT ![v] = n[1]]
    BY <1>1, <1>2, <1>3, StoreStages
  <1>6. Lifecycle!DeadLetter(v, n[1])
    BY <1>3, <1>4, <1>5 DEF Lifecycle!DeadLetter, Lifecycle!Held, Stage, Place
  <1> QED
    BY <1>3, <1>5, <1>6

\* PushMessage's commit: its id was never stored and never settled.
LEMMA PushRefines ==
    ASSUME TypeOK, ValueInv, SerialInv, OneCopy', NEW b, Commits(b), Adds(b)
    PROVE  \E v \in MsgIds, q \in Queues : Lifecycle!Push(v, q)
  <1>1. PICK n \in MessageKeys :
           /\ DOMAIN b.puts = {n} /\ Stores(b, n, n[2])
           /\ n[2] \notin settled /\ \A k \in Stored : msgs[k].value # n[2]
    BY DEF Adds
  <1>2. PICK v : v = n[2]
    OBVIOUS
  <1>3. v \in MsgIds
    BY <1>2, KeyIs
  <1>4. StageOf(v) = "absent"
    BY <1>1, <1>2, <1>3, CommitStages DEF SerialInv
  <1>5. /\ n[1] \in Queues
        /\ Stage' = [Stage EXCEPT ![v] = "pending"]
        /\ Place' = [Place EXCEPT ![v] = n[1]]
    BY <1>1, <1>2, <1>3, StoreStages
  <1>6. Lifecycle!Push(v, n[1])
    BY <1>3, <1>4, <1>5 DEF Lifecycle!Push, Stage, Place
  <1> QED
    BY <1>3, <1>5, <1>6

\* Every step is a step of the life cycle or leaves it alone.
LEMMA StepRefines ==
    TypeOK /\ ValueInv /\ SerialInv /\ SerialInv' /\ [Next]_vars
        => [Lifecycle!Next]_(Lifecycle!lifecycleVars)
  <1> SUFFICES ASSUME TypeOK, ValueInv, SerialInv, SerialInv', [Next]_vars
               PROVE  Lifecycle!Next \/ UNCHANGED Lifecycle!lifecycleVars
    OBVIOUS
  <1>1. ASSUME NEW p \in Procs, Commit(p) PROVE Lifecycle!Next
    <2>1. PICK b : b = txn[p]
      OBVIOUS
    <2>2. FreshBatch(b) /\ OneCopy'
      BY <1>1, <2>1 DEF Commit, SerialInv, Fresh
    <2>3. Commits(b)
      <3>1. DOMAIN b.puts \subseteq MessageKeys
        BY <1>1, <2>1, ApplyType DEF Commit, TypeOK
      <3> QED
        BY <1>1, <2>1, <3>1 DEF Commit, Commits, Apply
    <2>4. CASE Delivers(b)
      BY <2>2, <2>3, <2>4, DeliverRefines DEF Lifecycle!Next
    <2>5. CASE PutsBack(b)
      BY <2>2, <2>3, <2>5, RequeueRefines DEF Lifecycle!Next
    <2>6. CASE Removes(b)
      BY <2>2, <2>3, <2>6, SettleRefines DEF Lifecycle!Next
    <2>7. CASE Moves(b)
      BY <2>2, <2>3, <2>7, DeadLetterRefines DEF Lifecycle!Next
    <2>8. CASE Adds(b)
      BY <2>2, <2>3, <2>8, PushRefines DEF Lifecycle!Next
    <2> QED
      BY <2>2, <2>4, <2>5, <2>6, <2>7, <2>8 DEF FreshBatch
  <1>2. CASE \A p \in Procs : ~Commit(p)
    <2>1. UNCHANGED <<msgs, settled>>
      BY <1>2, OnlyCommitWrites
    <2>2. Stage' = Stage /\ Place' = Place
      BY <2>1 DEF Stage, Place, StageOf, PlaceOf, Copies, Stored
    <2> QED
      BY <2>2 DEF Lifecycle!lifecycleVars, Stage, Place
  <1> QED
    BY <1>1, <1>2

\* While calls do not overlap, the store implements the life cycle of a message: a value
\* is in one queue and one state at a time, it is delivered only from pending, moved to
\* a dead-letter queue in one step, and gone for good once AckMessage or NackMessage
\* settled it.
THEOREM SerialQueueIsLifecycle == Spec /\ []Serial => ImplementsLifecycle
  <1>1. Init => Lifecycle!Init
    <2> SUFFICES ASSUME Init PROVE Lifecycle!Init
      OBVIOUS
    <2>1. Stored = {} /\ settled = {}
      BY DEF Init, Stored
    <2>2. \A v \in MsgIds : StageOf(v) = "absent" /\ PlaceOf(v) = NoQueue
      BY <2>1, StageNone DEF OtherStages
    <2> QED
      BY <2>2 DEF Lifecycle!Init
  <1> QED
    BY <1>1, SerialHolds, StepRefines, PTL DEF Spec, ImplementsLifecycle, Lifecycle!Spec
-----------------------------------------------------------------------------
(***************************************************************************)
(* The calls of the head/tail queue, which share the database and the      *)
(* goroutines, change nothing of this.                                     *)
(***************************************************************************)
\* A step of the facade is a step of the acknowledged queue or leaves it alone.
LEMMA FacadeImplementsStorage == FacadeSpec => Spec
  <1>1. FacadeInit => Init
    BY DEF FacadeInit
  <1>2. [FacadeNext]_facadeVars => [Next]_vars
    <2> SUFFICES ASSUME [FacadeNext]_facadeVars PROVE Next \/ UNCHANGED vars
      OBVIOUS
    <2>1. ASSUME NEW p \in Procs, AckedCall(p) PROVE Next
      BY <2>1 DEF AckedCall, Next
    <2>2. ASSUME NEW p \in Procs, Transaction(p) PROVE Next \/ UNCHANGED vars
      BY <2>2 DEF Transaction, Next
    <2>3. ASSUME NEW p \in Procs, NEW q \in Queues, LegacyCall(p, q) PROVE UNCHANGED vars
      BY <2>3 DEF LegacyCall
    <2>4. CASE UNCHANGED facadeVars
      BY <2>4 DEF facadeVars
    <2> QED
      BY <2>1, <2>2, <2>3, <2>4 DEF FacadeNext, Next
  <1> QED
    BY <1>1, <1>2, PTL DEF FacadeSpec, Spec

\* One goroutine makes one call at a time.
LEMMA OneGoroutineIsSerial ==
    ASSUME NEW c, Procs = {c}
    PROVE  Serial
  BY DEF Serial

\* The whole facade used by one goroutine, with the head/tail queue in the same
\* database: the index is exact, redelivery needs a requeue, and messages follow their
\* life cycle, for any number of queues and messages.
THEOREM OneGoroutineFacade ==
    ASSUME NEW c, Procs = {c}
    PROVE  FacadeSpec => []IndexIsExact /\ []RedeliveryNeedsRequeue /\ ImplementsLifecycle
  <1>1. Serial
    BY OneGoroutineIsSerial
  <1> QED
    BY <1>1, FacadeImplementsStorage, IndexExactInSeries, RedeliveryOnlyAfterRequeue,
       SerialQueueIsLifecycle, PTL

=============================================================================
