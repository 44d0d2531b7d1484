----------------------------- MODULE StreamLogProofs -----------------------------
(***************************************************************************)
(* Proofs about StreamLog for any number of publishers, flush goroutines   *)
(* and consumers: offsets are unique and no acknowledged message is        *)
(* dropped.                                                                *)
(***************************************************************************)
EXTENDS StreamLog, TLAPS

ConStates ==
    [pc : {"idle", "fill", "flush", "commit", "read", "got", "persist"},
     offset : Nat, got : SUBSET Messages]

\* The types, with what TypeOK leaves open: the states of consumers are records, and a
\* publisher with an offset has a message to append at it.
Types ==
    /\ TypeOK
    /\ flight \in [Flushers -> SUBSET Messages]
    /\ con \in [Consumers -> ConStates]
    /\ \A p \in Publishers : pub[p].offset # None => pub[p].left >= 1

\* The counter is past every offset of this life of the process, and an offset that a
\* publisher has taken is its own.
OffsetsFresh ==
    /\ \A m \in acked : m.epoch <= epoch /\ (m.epoch = epoch => m.offset < nextOffset)
    /\ \A p \in Publishers : pub[p].offset # None =>
          /\ pub[p].offset < nextOffset
          /\ \A m \in acked : m.epoch = epoch => m.offset # pub[p].offset
          /\ \A q \in Publishers : pub[q].offset = pub[p].offset => q = p

\* What is in memory was published in this life of the process, what is stored or lost
\* in this one or an earlier one.
Epochs ==
    /\ \A m \in InMemory : m \in acked /\ m.epoch = epoch
    /\ \A m \in stored \cup gone : m.epoch <= epoch

\* A goroutine that is about to swap the buffer has nothing of its own to lose.
FlightsEmpty ==
    /\ \A s \in spawn : flight[s] = {}
    /\ \A c \in Consumers : con[c].pc # "commit" => flight[c] = {}

\* The inductive invariant of the log.
LogInv ==
    /\ Types
    /\ OffsetsFresh
    /\ OffsetsUnique
    /\ Epochs
    /\ FlightsEmpty
    /\ AckedIsKept

-----------------------------------------------------------------------------
\* What memory holds, spelled out.
LEMMA InMemoryIs ==
    \A m : m \in InMemory <=> m \in buffer \/ \E f \in Flushers : m \in flight[f]
  BY DEF InMemory

\* The empty log satisfies the invariant.
LEMMA LogInit == Init => LogInv
  <1> SUFFICES ASSUME Init
               PROVE  LogInv
    OBVIOUS
  <1>1. Types
    BY DEF Init, Types, TypeOK, ConStates, NotConsuming, NotPublishing
  <1>2. InMemory = {}
    BY DEF Init, InMemory
  <1>3. OffsetsFresh /\ OffsetsUnique /\ Epochs /\ FlightsEmpty /\ AckedIsKept
    BY <1>2 DEF Init, OffsetsFresh, OffsetsUnique, Epochs, FlightsEmpty, AckedIsKept, NotPublishing,
                Flushers
  <1> QED
    BY <1>1, <1>3 DEF LogInv

\* A publisher takes the counter's value: nobody has it, and nobody gets it again.
LEMMA TakeOffsetKeepsInv ==
    ASSUME LogInv, NEW p \in Publishers, NEW n \in Nat \ {0}, NEW b \in BOOLEAN,
           TakeOffset(p, n, b)
    PROVE  LogInv'
  <1> USE DEF LogInv, TakeOffset, groupVars, history
  <1>1. nextOffset \in Nat /\ nextOffset' = nextOffset + 1 /\ nextOffset # None
    BY StreamAssumption DEF Types, TypeOK
  <1>2. pub \in [Publishers -> [left : Nat, offset : Nat \cup {None}, batch : BOOLEAN]]
    BY DEF Types, TypeOK
  <1>3. /\ pub'[p] = [left |-> n, offset |-> nextOffset, batch |-> b]
        /\ \A q \in Publishers : q # p => pub'[q] = pub[q]
    BY <1>2
  <1>4. pub' \in [Publishers -> [left : Nat, offset : Nat \cup {None}, batch : BOOLEAN]]
    BY <1>1, <1>2
  <1>5. Types'
    BY <1>1, <1>3, <1>4 DEF Types, TypeOK
  <1>6. InMemory' = InMemory
    BY DEF InMemory
  <1>7. OffsetsUnique' /\ Epochs' /\ FlightsEmpty' /\ AckedIsKept'
    BY <1>6 DEF OffsetsUnique, Epochs, FlightsEmpty, AckedIsKept
  <1>8. OffsetsFresh'
    <2>1. \A m \in acked : m.epoch = epoch => m.offset \in Nat /\ m.offset < nextOffset
      BY DEF OffsetsFresh, Types, TypeOK, Messages
    <2>2. \A q \in Publishers : pub[q].offset # None =>
             pub[q].offset \in Nat /\ pub[q].offset < nextOffset
      BY <1>2 DEF OffsetsFresh
    <2>3. \A m \in acked : m.epoch <= epoch /\ (m.epoch = epoch => m.offset < nextOffset')
      BY <1>1, <2>1 DEF OffsetsFresh
    <2>4. ASSUME NEW q \in Publishers, pub'[q].offset # None
          PROVE  /\ pub'[q].offset < nextOffset'
                 /\ \A m \in acked : m.epoch = epoch => m.offset # pub'[q].offset
                 /\ \A r \in Publishers : pub'[r].offset = pub'[q].offset => r = q
      <3>1. CASE q = p
        BY <1>1, <1>3, <2>1, <2>2, <3>1
      <3>2. CASE q # p
        <4>1. pub'[q] = pub[q]
          BY <1>3, <3>2
        <4>2. pub[q].offset \in Nat /\ pub[q].offset < nextOffset
          BY <2>2, <2>4, <4>1
        <4>3. \A m \in acked : m.epoch = epoch => m.offset # pub[q].offset
          BY <2>4, <4>1 DEF OffsetsFresh
        <4>4. \A r \in Publishers : pub'[r].offset = pub[q].offset => r = q
          BY <1>1, <1>3, <2>4, <4>1, <4>2 DEF OffsetsFresh
        <4> QED
          BY <1>1, <4>1, <4>2, <4>3, <4>4
      <3> QED
        BY <3>1, <3>2
    <2> QED
      BY <2>3, <2>4 DEF OffsetsFresh
  <1> QED
    BY <1>5, <1>7, <1>8

\* The append of a message at a publisher's offset.
LEMMA AppendKeepsInv ==
    ASSUME LogInv, NEW p \in Publishers, Append(p)
    PROVE  LogInv'
  <1> USE DEF LogInv
  <1> DEFINE o == pub[p].offset
             m == [offset |-> o, by |-> p, epoch |-> epoch, ts |-> now]
             States == [left : Nat, offset : Nat \cup {None}, batch : BOOLEAN]
  <1>1. /\ o # None /\ o \in Nat /\ pub[p].left \in Nat /\ pub[p].left >= 1
        /\ pub[p].batch \in BOOLEAN /\ epoch \in Nat /\ now \in Nat /\ pub \in [Publishers -> States]
    BY DEF Append, Types, TypeOK
  <1>2. m \in Messages /\ m.offset = o /\ m.epoch = epoch
    BY <1>1 DEF Messages
  <1>3. /\ buffer' = buffer \cup {m} /\ acked' = acked \cup {m}
        /\ spawn' = spawn \/ \E s \in Spawned : flight[s] = {} /\ spawn' = spawn \cup {s}
        /\ UNCHANGED <<epoch, now, nextOffset, flight, stored, cache, saved, con, stray, gone, delivered>>
    BY DEF Append, groupVars
  <1>4. /\ pub' = [pub EXCEPT ![p] = pub'[p]] /\ pub'[p] \in States
        /\ pub'[p].offset = None
        /\ \A q \in Publishers : q # p => pub'[q] = pub[q]
    BY <1>1 DEF Append, NotPublishing
  <1> HIDE DEF m
  <1>5. Types'
    BY <1>1, <1>2, <1>3, <1>4 DEF Types, TypeOK
  <1>6. \A n : n \in InMemory' <=> n \in InMemory \/ n = m
    BY <1>3 DEF InMemory
  <1>7. \A n \in acked : n.epoch = epoch => n.offset # o
    BY <1>1 DEF OffsetsFresh
  <1>8. OffsetsFresh'
    <2>1. \A n \in acked' : n.epoch <= epoch /\ (n.epoch = epoch => n.offset < nextOffset)
      BY <1>1, <1>2, <1>3 DEF OffsetsFresh
    <2>2. ASSUME NEW q \in Publishers, pub'[q].offset # None
          PROVE  /\ pub'[q].offset < nextOffset
                 /\ \A n \in acked' : n.epoch = epoch => n.offset # pub'[q].offset
                 /\ \A r \in Publishers : pub'[r].offset = pub'[q].offset => r = q
      <3>1. q # p /\ pub'[q] = pub[q]
        BY <1>4, <2>2
      <3>2. o # pub[q].offset
        BY <1>1, <3>1 DEF OffsetsFresh
      <3> QED
        BY <1>2, <1>3, <1>4, <2>2, <3>1, <3>2 DEF OffsetsFresh
    <2> QED
      BY <1>3, <2>1, <2>2 DEF OffsetsFresh
  <1>9. OffsetsUnique'
    BY <1>2, <1>3, <1>7 DEF OffsetsUnique
  <1>10. Epochs'
    BY <1>2, <1>3, <1>6 DEF Epochs
  <1>11. FlightsEmpty'
    BY <1>3 DEF FlightsEmpty
  <1>12. AckedIsKept'
    BY <1>3, <1>6 DEF AckedIsKept
  <1> QED
    BY <1>5, <1>8, <1>9, <1>10, <1>11, <1>12

\* A swap by a goroutine that holds nothing keeps every message in memory.
LEMMA SwapKeepsMemory ==
    ASSUME Types, NEW f \in Flushers, flight[f] = {}, Swap(f)
    PROVE  /\ InMemory' = InMemory
           /\ buffer' = {} /\ flight' \in [Flushers -> SUBSET Messages]
           /\ flight'[f] = buffer /\ \A g \in Flushers : g # f => flight'[g] = flight[g]
  <1>1. /\ flight \in [Flushers -> SUBSET Messages] /\ buffer \subseteq Messages
        /\ flight' = [flight EXCEPT ![f] = buffer] /\ buffer' = {}
    BY DEF Types, TypeOK, Swap
  <1>2. flight'[f] = buffer /\ \A g \in Flushers : g # f => flight'[g] = flight[g]
    BY <1>1
  <1>3. flight' \in [Flushers -> SUBSET Messages]
    BY <1>1
  <1>4. \A m : m \in InMemory' <=> m \in InMemory
    BY <1>1, <1>2 DEF InMemory
  <1>5. InMemory' = InMemory
    BY <1>4
  <1> QED
    BY <1>1, <1>2, <1>3, <1>5

\* The first half of a flush, by the worker, a goroutine of its own or a fetch.
LEMMA FlushKeepsInv ==
    ASSUME LogInv,
           \/ WorkerFlush
           \/ \E s \in Spawned : SpawnedFlush(s)
           \/ \E c \in Consumers : FetchFlush(c)
    PROVE  LogInv'
  <1> USE DEF LogInv
  <1>1. /\ UNCHANGED <<epoch, now, nextOffset, pub, stored, cache, saved, stray, acked, gone, delivered>>
        /\ spawn' \subseteq spawn
    BY DEF WorkerFlush, SpawnedFlush, FetchFlush, groupVars, history
  <1>2. ASSUME NEW f \in Flushers, flight[f] = {}, Swap(f), con' \in [Consumers -> ConStates],
               \A s \in spawn' : s # f,
               \A c \in Consumers : con'[c].pc # "commit" =>
                   con[c].pc # "commit" /\ (c # f \/ buffer = {})
        PROVE  LogInv'
    <2>1. /\ InMemory' = InMemory
          /\ buffer' = {} /\ flight' \in [Flushers -> SUBSET Messages]
          /\ flight'[f] = buffer /\ \A g \in Flushers : g # f => flight'[g] = flight[g]
      BY <1>2, SwapKeepsMemory
    <2>2. Types'
      BY <1>1, <1>2, <2>1 DEF Types, TypeOK, ConStates
    <2>3. OffsetsFresh' /\ OffsetsUnique' /\ Epochs' /\ AckedIsKept'
      BY <1>1, <2>1 DEF OffsetsFresh, OffsetsUnique, Epochs, AckedIsKept
    <2>4. FlightsEmpty'
      BY <1>1, <1>2, <2>1 DEF FlightsEmpty, Flushers, Types, TypeOK
    <2> QED
      BY <2>2, <2>3, <2>4
  <1>3. con \in [Consumers -> ConStates] /\ spawn \subseteq Spawned
    BY DEF Types, TypeOK
  <1>4. CASE WorkerFlush
    BY <1>2, <1>3, <1>4, StreamAssumption DEF WorkerFlush, groupVars, Flushers
  <1>5. ASSUME NEW s \in Spawned, SpawnedFlush(s)
        PROVE  LogInv'
    <2>1. con' = con /\ flight[s] = {} /\ s \in Flushers /\ Swap(s) /\ s \notin spawn'
      BY <1>5 DEF SpawnedFlush, groupVars, FlightsEmpty, Flushers
    <2>2. s \notin Consumers
      BY StreamAssumption
    <2> QED
      BY <1>2, <1>3, <2>1, <2>2
  <1>6. ASSUME NEW c \in Consumers, FetchFlush(c)
        PROVE  LogInv'
    <2>1. con[c].pc = "flush" /\ Swap(c) /\ spawn' = spawn
          /\ con' = [con EXCEPT ![c].pc = IF buffer = {} THEN "read" ELSE "commit"]
      BY <1>6 DEF FetchFlush, At
    <2>2. c \in Flushers /\ flight[c] = {} /\ c \notin Spawned
      BY <2>1, StreamAssumption DEF Flushers, FlightsEmpty
    <2>3. con' \in [Consumers -> ConStates]
      BY <1>3, <2>1 DEF ConStates
    <2>4. /\ con'[c].pc = IF buffer = {} THEN "read" ELSE "commit"
          /\ \A d \in Consumers : d # c => con'[d] = con[d]
      BY <1>3, <2>1 DEF ConStates
    <2> QED
      BY <1>2, <1>3, <2>1, <2>2, <2>3, <2>4
  <1> QED
    BY <1>4, <1>5, <1>6

\* The second half of a flush.  A stored message that it overwrites is the same message or
\* one of an earlier life of the process; an oversized flush loses what it took.
LEMMA WriteOutKeepsInv ==
    ASSUME LogInv, NEW f \in Flushers, WriteOut(f),
           UNCHANGED <<epoch, now, nextOffset, pub, buffer, spawn, cache, saved, stray, acked, delivered>>,
           con' \in [Consumers -> ConStates],
           \A c \in Consumers : con'[c].pc # "commit" => con[c].pc # "commit" \/ c = f
    PROVE  LogInv'
  <1> USE DEF LogInv
  <1> DEFINE S == flight[f]
  <1>1. /\ flight \in [Flushers -> SUBSET Messages]
        /\ flight' = [flight EXCEPT ![f] = {}]
        /\ S \subseteq Messages /\ epoch \in Nat
    BY DEF Types, TypeOK, WriteOut
  <1>2. flight'[f] = {} /\ \A g \in Flushers : g # f => flight'[g] = flight[g]
    BY <1>1
  <1>3. /\ \A m : m \in InMemory' => m \in InMemory
        /\ \A m : m \in InMemory => m \in InMemory' \/ m \in S
        /\ \A m \in S : m \in InMemory
    BY <1>1, <1>2 DEF InMemory
  <1>4. \A m \in S : m \in acked /\ m.epoch = epoch
    BY <1>3 DEF Epochs
  <1>5. CASE stored' = Overwrite(S) /\ gone' = gone
    <2>1. /\ S \subseteq stored'
          /\ \A m \in stored' : m \in stored \/ m \in S
          /\ \A m \in stored : m \in stored' \/ \E n \in S : n.offset = m.offset
      BY <1>5 DEF Overwrite, OffsetsOf
    <2>2. Types'
      BY <1>1, <1>5, <2>1 DEF Types, TypeOK, ConStates
    <2>3. OffsetsFresh' /\ OffsetsUnique' /\ FlightsEmpty'
      BY <1>2 DEF OffsetsFresh, OffsetsUnique, FlightsEmpty, Flushers, Types, TypeOK
    <2>4. Epochs'
      BY <1>1, <1>3, <1>4, <1>5, <2>1 DEF Epochs
    <2>5. ASSUME NEW m \in acked, NEW n \in stored, n.offset = m.offset,
                 n = m \/ n.epoch > m.epoch
          PROVE  \/ m \in stored'
                 \/ \E k \in stored' : k.offset = m.offset /\ k.epoch > m.epoch
      <3>1. m.epoch \in Nat /\ m.epoch <= epoch /\ n.epoch \in Nat /\ n.epoch <= epoch
        BY DEF OffsetsFresh, Epochs, Types, TypeOK, Messages
      <3>2. CASE n \in stored'
        BY <2>5, <3>2
      <3>3. CASE n \notin stored'
        <4>1. PICK k \in S : k.offset = m.offset
          BY <2>1, <2>5, <3>3
        <4>2. k \in acked /\ k.epoch = epoch /\ k \in stored'
          BY <1>4, <2>1
        <4>3. CASE m.epoch = epoch
          BY <4>1, <4>2, <4>3 DEF OffsetsUnique
        <4>4. CASE m.epoch # epoch
          BY <1>1, <3>1, <4>1, <4>2, <4>4
        <4> QED
          BY <4>3, <4>4
      <3> QED
        BY <3>2, <3>3
    <2>6. AckedIsKept'
      <3> SUFFICES ASSUME NEW m \in acked
                   PROVE  \/ m \in InMemory' \/ m \in stored' \/ m \in gone'
                          \/ \E n \in stored' \cup gone' : n.offset = m.offset /\ n.epoch > m.epoch
        BY DEF AckedIsKept
      <3>1. CASE m \in InMemory
        BY <1>3, <2>1, <3>1
      <3>2. CASE m \in stored
        BY <2>5, <3>2
      <3>3. CASE m \in gone
        BY <1>5, <3>3
      <3>4. ASSUME NEW n \in stored \cup gone, n.offset = m.offset, n.epoch > m.epoch
            PROVE  \/ m \in stored'
                   \/ \E k \in stored' \cup gone' : k.offset = m.offset /\ k.epoch > m.epoch
        <4>1. CASE n \in stored
          BY <2>5, <3>4, <4>1
        <4>2. CASE n \in gone
          BY <1>5, <3>4, <4>2
        <4> QED
          BY <4>1, <4>2
      <3> QED
        BY <3>1, <3>2, <3>3, <3>4 DEF AckedIsKept
    <2> QED
      BY <2>2, <2>3, <2>4, <2>6
  <1>6. CASE gone' = gone \cup S /\ stored' = stored
    <2>1. Types'
      BY <1>1, <1>6 DEF Types, TypeOK, ConStates
    <2>2. OffsetsFresh' /\ OffsetsUnique' /\ FlightsEmpty'
      BY <1>2 DEF OffsetsFresh, OffsetsUnique, FlightsEmpty, Flushers, Types, TypeOK
    <2>3. Epochs'
      BY <1>1, <1>3, <1>4, <1>6 DEF Epochs
    <2>4. AckedIsKept'
      BY <1>3, <1>6 DEF AckedIsKept
    <2> QED
      BY <2>1, <2>2, <2>3, <2>4
  <1> QED
    BY <1>5, <1>6 DEF WriteOut

\* The goroutines that write out: the worker, the spawned ones and the fetches.
LEMMA CommitKeepsInv ==
    ASSUME LogInv,
           \/ \E f \in Spawned \cup {Worker} : FlushCommit(f)
           \/ \E c \in Consumers : FetchCommit(c)
    PROVE  LogInv'
  <1>1. con \in [Consumers -> ConStates]
    BY DEF LogInv, Types
  <1>2. ASSUME NEW f \in Spawned \cup {Worker}, FlushCommit(f)
        PROVE  LogInv'
    BY <1>1, <1>2, WriteOutKeepsInv DEF FlushCommit, Flushers, groupVars
  <1>3. ASSUME NEW c \in Consumers, FetchCommit(c)
        PROVE  LogInv'
    <2>1. con' = [con EXCEPT ![c].pc = "read"]
      BY <1>3 DEF FetchCommit
    <2>2. con' \in [Consumers -> ConStates] /\ \A d \in Consumers : d # c => con'[d] = con[d]
      BY <1>1, <2>1 DEF ConStates
    <2> QED
      BY <1>3, <2>2, WriteOutKeepsInv DEF FetchCommit, Flushers
  <1> QED
    BY <1>2, <1>3

\* Retention moves old messages to those that are gone.
LEMMA RetentionKeepsInv ==
    ASSUME LogInv, Retention
    PROVE  LogInv'
  <1> USE DEF LogInv
  <1>1. PICK old \in SUBSET stored : stored' = stored \ old /\ gone' = gone \cup old
    BY DEF Retention
  <1>2. UNCHANGED <<epoch, now, nextOffset, pub, buffer, flight, spawn, cache, saved, con, stray, acked,
                    delivered>>
    BY DEF Retention, groupVars
  <1>3. InMemory' = InMemory
    BY <1>2 DEF InMemory
  <1>4. Types'
    BY <1>1, <1>2 DEF Types, TypeOK
  <1>5. OffsetsFresh' /\ OffsetsUnique' /\ FlightsEmpty'
    BY <1>2 DEF OffsetsFresh, OffsetsUnique, FlightsEmpty
  <1>6. Epochs' /\ AckedIsKept'
    BY <1>1, <1>2, <1>3 DEF Epochs, AckedIsKept
  <1> QED
    BY <1>4, <1>5, <1>6

\* A restart: only what is stored is still promised, and it is all from earlier lives.
LEMMA CrashKeepsInv ==
    ASSUME LogInv, Crash
    PROVE  LogInv'
  <1> USE DEF LogInv
  <1>1. /\ epoch \in Nat /\ epoch' = epoch + 1 /\ nextOffset' = 0
        /\ \A m \in stored \cup acked : m.epoch \in Nat /\ m.epoch <= epoch
    BY DEF Crash, Types, TypeOK, Messages, Epochs, OffsetsFresh
  <1>2. InMemory' = {}
    BY DEF Crash, InMemory
  <1>3. Types'
    BY <1>1 DEF Crash, Types, TypeOK, ConStates, NotConsuming, NotPublishing
  <1>4. \A p \in Publishers : pub'[p].offset = None
    BY DEF Crash, NotPublishing
  <1>5. \A m \in acked' : m.epoch <= epoch' /\ m.epoch # epoch'
    BY <1>1 DEF Crash
  <1>6. OffsetsFresh'
    BY <1>4, <1>5 DEF OffsetsFresh
  <1>7. OffsetsUnique' /\ FlightsEmpty'
    BY DEF Crash, OffsetsUnique, FlightsEmpty, Flushers
  <1>8. Epochs'
    BY <1>1, <1>2 DEF Crash, Epochs
  <1>9. AckedIsKept'
    BY DEF Crash, AckedIsKept
  <1> QED
    BY <1>3, <1>6, <1>7, <1>8, <1>9

\* The steps of a consumer that leave the log alone, and the clock.
LEMMA ConsumerKeepsInv ==
    ASSUME LogInv,
           \/ Tick \/ StrayFill
           \/ \E c \in Consumers :
                 \/ ReadOffset(c) \/ FillCache(c) \/ LeaveBehind(c) \/ FetchRead(c)
                 \/ CommitCache(c) \/ CommitStore(c) \/ GiveUp(c)
    PROVE  LogInv'
  <1> USE DEF LogInv
  <1>1. /\ con \in [Consumers -> ConStates] /\ cache \in Nat \cup {None} /\ saved \in Nat
        /\ stray \subseteq Nat /\ stored \subseteq Messages /\ delivered \subseteq Messages /\ now \in Nat
    BY DEF Types, TypeOK
  <1>2. ASSUME UNCHANGED <<epoch, logVars, acked, gone>>, con' \in [Consumers -> ConStates],
               cache' \in Nat \cup {None}, saved' \in Nat, delivered' \subseteq Messages,
               now' \in Nat, stray' \subseteq Nat,
               \A c \in Consumers : con'[c].pc # "commit" => con[c].pc # "commit"
        PROVE  LogInv'
    <2> USE DEF logVars
    <2>1. InMemory' = InMemory
      BY <1>2 DEF InMemory
    <2>2. Types'
      BY <1>2 DEF Types, TypeOK, ConStates
    <2>3. OffsetsFresh' /\ OffsetsUnique' /\ Epochs' /\ AckedIsKept'
      BY <1>2, <2>1 DEF OffsetsFresh, OffsetsUnique, Epochs, AckedIsKept
    <2>4. FlightsEmpty'
      BY <1>2 DEF FlightsEmpty
    <2> QED
      BY <2>2, <2>3, <2>4
  <1>3. CASE Tick
    BY <1>1, <1>2, <1>3 DEF Tick, groupVars, history
  <1>4. ASSUME NEW c \in Consumers, ReadOffset(c)
        PROVE  LogInv'
    <2>1. con' \in [Consumers -> ConStates] /\ con[c].pc # "commit"
      BY <1>1, <1>4 DEF ReadOffset, At, ConStates
    <2>2. \A d \in Consumers : d # c => con'[d] = con[d]
      BY <1>1, <1>4 DEF ReadOffset
    <2> QED
      BY <1>1, <1>2, <1>4, <2>1, <2>2 DEF ReadOffset, history
  <1>5. ASSUME NEW c \in Consumers, FillCache(c)
        PROVE  LogInv'
    <2>1. con' \in [Consumers -> ConStates] /\ con[c].pc # "commit" /\ con[c].offset \in Nat
      BY <1>1, <1>5 DEF FillCache, At, ConStates
    <2>2. \A d \in Consumers : d # c => con'[d] = con[d]
      BY <1>1, <1>5 DEF FillCache
    <2> QED
      BY <1>1, <1>2, <1>5, <2>1, <2>2 DEF FillCache, history
  <1>6. ASSUME NEW c \in Consumers, FetchRead(c)
        PROVE  LogInv'
    <2>1. PICK got \in SUBSET stored :
             /\ delivered' = delivered \cup got
             /\ con' = [con EXCEPT ![c] = IF got = {} THEN NotConsuming
                                          ELSE [con[c] EXCEPT !.pc = "got", !.got = got]]
      BY <1>6 DEF FetchRead, Fetched
    <2>2. con' \in [Consumers -> ConStates] /\ con[c].pc # "commit"
      <3>1. got \in SUBSET Messages
        BY <1>1
      <3>2. [con[c] EXCEPT !.pc = "got", !.got = got] \in ConStates
        BY <1>1, <3>1 DEF ConStates
      <3>3. NotConsuming \in ConStates
        BY DEF ConStates, NotConsuming
      <3> QED
        BY <1>1, <1>6, <2>1, <3>2, <3>3 DEF FetchRead, At
    <2>3. \A d \in Consumers : d # c => con'[d] = con[d]
      BY <1>1, <2>1
    <2> QED
      BY <1>1, <1>2, <1>6, <2>1, <2>2, <2>3 DEF FetchRead
  <1>7. ASSUME NEW c \in Consumers, CommitCache(c)
        PROVE  LogInv'
    <2>1. con[c].got \subseteq Messages /\ con[c].pc # "commit"
      BY <1>1, <1>7 DEF ConStates, CommitCache, At
    <2>2. PICK m \in con[c].got :
             /\ cache' = m.offset + 1
             /\ con' = [con EXCEPT ![c] = [pc |-> "persist", offset |-> m.offset + 1, got |-> {}]]
      BY <1>7 DEF CommitCache
    <2>3. m.offset + 1 \in Nat
      BY <2>1 DEF Messages
    <2>4. con' \in [Consumers -> ConStates] /\ \A d \in Consumers : d # c => con'[d] = con[d]
      BY <1>1, <2>2, <2>3 DEF ConStates
    <2> QED
      BY <1>1, <1>2, <1>7, <2>1, <2>2, <2>3, <2>4 DEF CommitCache, history
  <1>8. ASSUME NEW c \in Consumers, CommitStore(c) \/ GiveUp(c)
        PROVE  LogInv'
    <2>1. con' = [con EXCEPT ![c] = NotConsuming] /\ con[c].pc # "commit"
      BY <1>8 DEF CommitStore, GiveUp, At
    <2>2. con' \in [Consumers -> ConStates] /\ con[c].offset \in Nat
      BY <1>1, <2>1 DEF ConStates, NotConsuming
    <2>3. \A d \in Consumers : d # c => con'[d] = con[d]
      BY <1>1, <2>1
    <2> QED
      BY <1>1, <1>2, <1>8, <2>1, <2>2, <2>3 DEF CommitStore, GiveUp, history
  <1>9. ASSUME NEW c \in Consumers, LeaveBehind(c)
        PROVE  LogInv'
    <2>1. con' = [con EXCEPT ![c] = NotConsuming] /\ con[c].pc # "commit"
      BY <1>9 DEF LeaveBehind, At
    <2>2. con' \in [Consumers -> ConStates] /\ con[c].offset \in Nat
      BY <1>1, <2>1 DEF ConStates, NotConsuming
    <2>3. \A d \in Consumers : d # c => con'[d] = con[d]
      BY <1>1, <2>1
    <2> QED
      BY <1>1, <1>2, <1>9, <2>1, <2>2, <2>3 DEF LeaveBehind, history
  <1>10. CASE StrayFill
    BY <1>1, <1>2, <1>10 DEF StrayFill, history
  <1> QED
    BY <1>3, <1>4, <1>5, <1>6, <1>7, <1>8, <1>9, <1>10

\* Every step preserves the invariant of the log.
LEMMA LogStep == LogInv /\ [Next]_vars => LogInv'
  <1> SUFFICES ASSUME LogInv, [Next]_vars
               PROVE  LogInv'
    OBVIOUS
  <1>1. ASSUME NEW p \in Publishers, PublisherStep(p)
        PROVE  LogInv'
    <2>1. ASSUME NEW n \in BatchSizes, Publish(p, n)
          PROVE  LogInv'
      <3>1. n \in Nat \ {0} /\ (n > 1) \in BOOLEAN
        BY StreamAssumption
      <3> QED
        BY <2>1, <3>1, TakeOffsetKeepsInv DEF Publish
    <2>2. CASE NextOfBatch(p)
      <3>1. pub[p].left \in Nat \ {0} /\ pub[p].batch \in BOOLEAN
        BY <2>2 DEF NextOfBatch, LogInv, Types, TypeOK
      <3> QED
        BY <2>2, <3>1, TakeOffsetKeepsInv DEF NextOfBatch
    <2> QED
      BY <1>1, <2>1, <2>2, AppendKeepsInv DEF PublisherStep
  <1>2. CASE UNCHANGED vars
    BY <1>2 DEF vars, LogInv, Types, TypeOK, OffsetsFresh, OffsetsUnique, Epochs, FlightsEmpty,
                AckedIsKept, InMemory
  <1>3. ASSUME NEW c \in Consumers, ConsumerStep(c)
        PROVE  LogInv'
    BY <1>3, ConsumerKeepsInv, FlushKeepsInv, CommitKeepsInv DEF ConsumerStep
  <1> QED
    BY <1>1, <1>2, <1>3, ConsumerKeepsInv, FlushKeepsInv, CommitKeepsInv, RetentionKeepsInv,
       CrashKeepsInv DEF Next

\* The invariant of the log holds for ever.
LEMMA LogInvariant == Spec => []LogInv
  <1> QED
    BY LogInit, LogStep, PTL DEF Spec

\* The state has its types.
THEOREM LogTypeCorrect == Spec => []TypeOK
  <1>1. LogInv => TypeOK
    BY DEF LogInv, Types
  <1> QED
    BY <1>1, LogInvariant, PTL

\* However publishers interleave, and across restarts, no two messages that were published
\* in the same life of the process have the same offset.
THEOREM OffsetsNeverShared == Spec => []OffsetsUnique
  <1>1. LogInv => OffsetsUnique
    BY DEF LogInv
  <1> QED
    BY <1>1, LogInvariant, PTL

\* No interleaving of appends, swaps, commits and fetches drops a message whose Publish has
\* returned: only an oversized flush, retention, a restart or a reused offset does.
THEOREM NoAppendLost == Spec => []AckedIsKept
  <1>1. LogInv => AckedIsKept
    BY DEF LogInv
  <1> QED
    BY <1>1, LogInvariant, PTL

=============================================================================
