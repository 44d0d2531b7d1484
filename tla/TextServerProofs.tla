---------------------------- MODULE TextServerProofs ----------------------------
(***************************************************************************)
(* The text server for any number of connections, workers, keys and        *)
(* commands, any queue capacities and any amount of pipelining: types, the *)
(* conservation of commands, and the integrity of stored values.           *)
(***************************************************************************)
EXTENDS TextServer, FiniteSetTheorems, TLAPS

(***************************************************************************)
(* The inductive invariant.  CommandsConserved says that places do not     *)
(* overlap; to stay true it needs that none of them holds a command twice. *)
(* ValuesIntact needs that a job's buffer is its own, which rests on the   *)
(* buffers that connections in service hold and on how far a client that   *)
(* waits for its answers can get.                                          *)
(***************************************************************************)
\* Connections in service have buffers of their own, and a new connection sent nothing.
Buffers ==
    /\ \A c, d \in Conns : Serving(c) /\ Serving(d) /\ buffer[c] = buffer[d] => c = d
    /\ \A c \in Conns : reader[c] = "new" => ~writer[c]

\* An open Incr or Decr still finds its command in the buffer.
Reading == \A c \in Conns : reader[c] = "incr" => Held(c) \in Job

\* No place holds a command twice.
OnceInInbox ==
    \A c \in Conns : \A i, j \in 1..Len(inbox[c]) : inbox[c][i].serial = inbox[c][j].serial => i = j

OnceInJobQueue ==
    \A i, j \in 1..Len(jobQueue) :
        jobQueue[i].conn = jobQueue[j].conn /\ jobQueue[i].serial = jobQueue[j].serial => i = j

OnceInWorker ==
    \A w, v \in Workers :
        worker[w] # NoJob /\ worker[w].conn = worker[v].conn /\ worker[w].serial = worker[v].serial => w = v

OnceInOutQueue ==
    \A c \in Conns : \A i, j \in 1..Len(outQueue[c]) : outQueue[c][i] = outQueue[c][j] => i = j

Once == OnceInInbox /\ OnceInJobQueue /\ OnceInWorker /\ OnceInOutQueue

Owned == \A c \in Conns : \A i \in 1..Len(inbox[c]) : inbox[c][i].conn = c

\* The numbers of s commands that were sent and of t pieces that are no command.
Known(s, t) == {n \in Int : (1 <= n /\ n <= s) \/ (-t <= n /\ n <= -1)}

\* No two places hold the same command, and what they hold was sent.
Apart ==
    \A c \in Conns, n \in Int :
        /\ \A i, j \in 1..6 : Places(c, n)[i] /\ Places(c, n)[j] => i = j
        /\ \A i \in 1..6 : Places(c, n)[i] => n \in Known(sent[c], scraps[c])

Complete ==
    \A c \in Conns : ~panicked /\ ~cancelled[c] /\ ~dropped[c] /\ scraps[c] = 0 =>
        \A n \in 1..sent[c] : \E i \in 1..6 : Places(c, n)[i]

\* Command n of connection c is under way.
UnderWay(c, n) == \E i \in 1..5 : Places(c, n)[i]

Jobs == {jobQueue[i] : i \in 1..Len(jobQueue)} \cup ({worker[w] : w \in Workers} \ {NoJob})

\* While every client waits for its answers: no answer is dropped, a connection has one
\* command under way at most, the buffer that a job points into is left alone, and a
\* connection whose context is done has no further command to read.
NoneDropped == \A c \in Conns : ~dropped[c] /\ Len(got[c]) <= sent[c]

OneUnderWay == \A c \in Conns, n \in Int : UnderWay(c, n) => n = sent[c] /\ Waiting(c)

JobsHeld ==
    \A j \in Jobs :
        /\ Held(j.conn) = j
        /\ \A d \in Conns : Serving(d) /\ buffer[d] = buffer[j.conn] => d = j.conn
        /\ stop = "no" => reader[j.conn] = "read"

DoneIsQuiet ==
    \A c \in Conns : stop = "no" /\ cancelled[c] =>
        /\ inbox[c] = <<>> /\ reader[c] \in {"read", "exited"}
        /\ reader[c] = "read" => Waiting(c) /\ ~writer[c]

Calm == NoneDropped /\ OneUnderWay /\ JobsHeld /\ DoneIsQuiet

Whole == \A c \in Conns : scraps[c] = 0

Patient == ~ahead /\ Whole => Calm

TextInv ==
    /\ TypeOK
    /\ Buffers
    /\ Reading
    /\ Once
    /\ Owned
    /\ Apart
    /\ Complete
    /\ Patient
    /\ ValuesIntact
-----------------------------------------------------------------------------
(***************************************************************************)
(* Sequences and jobs.                                                     *)
(***************************************************************************)
\* What is left of a queue when its head is taken.
LEMMA TailIs ==
    ASSUME NEW S, NEW s \in Seq(S), s # <<>>
    PROVE  /\ Len(s) \in Nat /\ 1 <= Len(s) /\ Head(s) = s[1] /\ Head(s) \in S
           /\ Tail(s) \in Seq(S) /\ Len(Tail(s)) = Len(s) - 1
           /\ \A i \in 1..Len(Tail(s)) : Tail(s)[i] = s[i + 1] /\ i + 1 \in 1..Len(s)
  <1>1. Len(s) \in Nat /\ 1 <= Len(s)
    OBVIOUS
  <1> QED
    BY <1>1

\* A queue with one more element at its end.
LEMMA AppendIs ==
    ASSUME NEW S, NEW s \in Seq(S), NEW x \in S
    PROVE  /\ Len(s) \in Nat /\ Append(s, x) \in Seq(S) /\ Len(Append(s, x)) = Len(s) + 1
           /\ \A i \in 1..Len(s) : Append(s, x)[i] = s[i]
           /\ Append(s, x)[Len(s) + 1] = x
  OBVIOUS

\* The elements of a queue have its type.
LEMMA ElementIs ==
    ASSUME NEW S, NEW s \in Seq(S), NEW i \in 1..Len(s)
    PROVE  s[i] \in S
  OBVIOUS

\* A job comes from a command and carries its values.
LEMMA JobIs ==
    ASSUME NEW j \in Job
    PROVE  /\ j.conn \in Conns /\ j.serial \in Int /\ j # NoJob
           /\ DOMAIN j.puts \subseteq Keys /\ j.puts \in [DOMAIN j.puts -> Values \cup {Absent}]
           /\ j.serial > 0 => \A k \in DOMAIN j.puts : j.puts[k] \in Written(k)
  <1>1. j.conn \in Conns /\ j.serial \in Int /\ j # NoJob
    BY ServerAssumption DEF Job, NoJob
  <1>2. PICK command \in Commands \cup Fragments : j.puts = command.puts /\ (j.serial > 0 => command \in Commands)
    BY DEF Job
  <1>3. DOMAIN j.puts \subseteq Keys /\ j.puts \in [DOMAIN j.puts -> Values \cup {Absent}]
    BY <1>2, ServerAssumption
  <1>4. j.serial > 0 => \A k \in DOMAIN j.puts : j.puts[k] \in Written(k)
    BY <1>2 DEF Written
  <1> QED
    BY <1>1, <1>3, <1>4

\* A counter command names a key.
LEMMA CounterKeyIs ==
    ASSUME NEW j \in Job, j.cmd \in CounterCommands
    PROVE  CounterKey(j) \in Keys
  <1>1. PICK command \in Commands \cup Fragments : j.cmd = command.cmd /\ j.puts = command.puts
    BY DEF Job
  <1>2. PICK k \in Keys : DOMAIN j.puts = {k}
    BY <1>1, CounterAssumption
  <1>3. CounterKey(j) = k
    BY <1>2 DEF CounterKey
  <1> QED
    BY <1>3

\* A command changes a key to what it gives the key, or not at all.
LEMMA ExecuteIs ==
    ASSUME TypeOK, NEW j
    PROVE  /\ DOMAIN Execute(j) = Keys
           /\ \A k \in Keys : \/ Execute(j)[k] = store[k]
                              \/ k \in DOMAIN j.puts /\ Execute(j)[k] = j.puts[k]
  BY DEF Execute, TypeOK

\* What the reading goroutine executes is typed, and written by some command.
LEMMA ExecuteJob ==
    ASSUME TypeOK, NEW j \in Job
    PROVE  /\ DOMAIN Execute(j) = Keys
           /\ \A k \in Keys : Execute(j)[k] \in Values \cup {Absent} \cup Int
           /\ j.serial > 0 => \A k \in Keys : Execute(j)[k] = store[k] \/ Execute(j)[k] \in Written(k)
  <1>1. \A k \in DOMAIN j.puts : j.puts[k] \in Values \cup {Absent} /\ (j.serial > 0 => j.puts[k] \in Written(k))
    BY JobIs
  <1> QED
    BY <1>1, ExecuteIs DEF TypeOK

\* What a worker executes is typed; it is what the job carries if the buffer still is.
LEMMA ExecuteContents ==
    ASSUME TypeOK, NEW j \in Job, NEW puts \in Contents(j)
    PROVE  /\ DOMAIN Execute([j EXCEPT !.puts = puts]) = Keys
           /\ \A k \in Keys : Execute([j EXCEPT !.puts = puts])[k] \in Values \cup {Absent} \cup Int
           /\ Held(j.conn) = j /\ j.serial > 0 => \A k \in Keys :
                 \/ Execute([j EXCEPT !.puts = puts])[k] = store[k]
                 \/ Execute([j EXCEPT !.puts = puts])[k] \in Written(k)
  <1>1. PICK x : x = [j EXCEPT !.puts = puts]
    OBVIOUS
  <1>2. x.puts = puts
    BY <1>1 DEF Job
  <1>3. \A k \in DOMAIN puts : puts[k] \in Values \cup {Absent}
    <2>1. CASE puts = j.puts
      BY <2>1, JobIs
    <2>2. CASE puts \in [DOMAIN j.puts -> Values]
      BY <2>2
    <2> QED
      BY <2>1, <2>2 DEF Contents
  <1>4. Held(j.conn) = j => puts = j.puts
    BY DEF Contents
  <1>5. DOMAIN Execute(x) = Keys
    BY ExecuteIs
  <1>6. \A k \in Keys : Execute(x)[k] = store[k] \/ (k \in DOMAIN puts /\ Execute(x)[k] = puts[k])
    <2>1. \A k \in Keys : Execute(x)[k] = store[k] \/ (k \in DOMAIN x.puts /\ Execute(x)[k] = x.puts[k])
      BY DEF Execute, TypeOK
    <2> QED
      BY <1>2, <2>1
  <1>7. j.serial > 0 => \A k \in DOMAIN j.puts : j.puts[k] \in Written(k)
    BY JobIs
  <1>8. \A k \in Keys : Execute(x)[k] \in Values \cup {Absent} \cup Int
    BY <1>3, <1>6 DEF TypeOK
  <1>9. Held(j.conn) = j /\ j.serial > 0 => \A k \in Keys : Execute(x)[k] = store[k] \/ Execute(x)[k] \in Written(k)
    BY <1>4, <1>6, <1>7
  <1> QED
    BY <1>1, <1>5, <1>8, <1>9

-----------------------------------------------------------------------------
(***************************************************************************)
(* Types, buffers and open counter transactions.                           *)
(***************************************************************************)
Sane == TypeOK /\ Buffers /\ Reading

\* The answers after a Respond.
LEMMA RespondType ==
    ASSUME TypeOK, NEW c \in Conns, NEW n \in Int, Respond(c, n)
    PROVE  /\ outQueue' \in [Conns -> Seq(Int)]
           /\ \A d \in Conns : Len(outQueue'[d]) <= OutCap
           /\ dropped' \in [Conns -> BOOLEAN]
  <1>1. CASE /\ Len(outQueue[c]) < OutCap
             /\ outQueue' = [outQueue EXCEPT ![c] = Append(@, n)]
             /\ UNCHANGED dropped
    <2>1. outQueue[c] \in Seq(Int)
      BY DEF TypeOK
    <2>2. /\ Append(outQueue[c], n) \in Seq(Int)
          /\ Len(outQueue[c]) \in Nat /\ Len(Append(outQueue[c], n)) = Len(outQueue[c]) + 1
      BY <2>1, AppendIs
    <2>3. OutCap \in Nat
      BY ServerAssumption
    <2>4. Len(Append(outQueue[c], n)) <= OutCap
      BY <1>1, <2>2, <2>3
    <2>5. outQueue' \in [Conns -> Seq(Int)] /\ outQueue'[c] = Append(outQueue[c], n)
          /\ \A d \in Conns \ {c} : outQueue'[d] = outQueue[d]
      BY <1>1, <2>2 DEF TypeOK
    <2> QED
      BY <1>1, <2>4, <2>5 DEF TypeOK
  <1>2. CASE dropped' = [dropped EXCEPT ![c] = TRUE] /\ UNCHANGED outQueue
    BY <1>2 DEF TypeOK
  <1>3. CASE UNCHANGED <<outQueue, dropped>>
    BY <1>3 DEF TypeOK
  <1> QED
    BY <1>1, <1>2, <1>3 DEF Respond

\* The initial state.
LEMMA InitSane == Init => Sane
  <1> SUFFICES ASSUME Init PROVE Sane
    OBVIOUS
  <1>1. \A S : <<>> \in Seq(S) /\ Len(<<>>) = 0
    OBVIOUS
  <1>2. TypeOK
    <2>1. OutCap >= 0 /\ JobCap >= 0
      BY ServerAssumption
    <2>2. DOMAIN store = Keys /\ \A k \in Keys : store[k] \in Values \cup {Absent} \cup Int
      BY DEF Init
    <2>3. /\ inbox \in [Conns -> Seq(Job)] /\ got \in [Conns -> Seq(Int)]
          /\ outQueue \in [Conns -> Seq(Int)] /\ \A c \in Conns : Len(outQueue[c]) <= OutCap
          /\ jobQueue \in Seq(Job) /\ Len(jobQueue) <= JobCap
      BY <1>1, <2>1 DEF Init
    <2>4. /\ sent \in [Conns -> Nat] /\ scraps \in [Conns -> Nat] /\ txn \in [Conns -> Int] /\ buffer \in [Conns -> Conns]
          /\ readBuf \in [Conns -> Job \cup {NoJob}] /\ worker \in [Workers -> Job \cup {NoJob}]
      BY DEF Init
    <2>5. /\ writer \in [Conns -> BOOLEAN] /\ cancelled \in [Conns -> BOOLEAN]
          /\ dropped \in [Conns -> BOOLEAN] /\ panicked \in BOOLEAN /\ ahead \in BOOLEAN
      BY DEF Init
    <2>6. reader \in [Conns -> {"new", "read", "incr", "exited"}]
          /\ stop \in {"no", "cancelled", "closed", "returned"}
      BY DEF Init
    <2> QED
      BY <2>2, <2>3, <2>4, <2>5, <2>6 DEF TypeOK
  <1>3. Buffers /\ Reading
    BY DEF Init, Buffers, Reading, Serving
  <1> QED
    BY <1>2, <1>3 DEF Sane
\* A connection that holds its buffer gives it up only when both its loops have ended.
LEMMA ServingKept ==
    ASSUME Sane, \A c \in Conns : Serving(c)' => Serving(c), UNCHANGED buffer,
           \A c \in Conns : reader'[c] = "new" => reader[c] = "new" /\ (writer'[c] => writer[c])
    PROVE  Buffers'
  BY DEF Sane, Buffers

\* Reading a command overwrites the buffer of this connection only.
LEMMA ReadNextIs ==
    ASSUME Sane, NEW c \in Conns, ReadNext(c)
    PROVE  /\ Head(inbox[c]) \in Job /\ Head(inbox[c]) = inbox[c][1]
           /\ inbox' \in [Conns -> Seq(Job)] /\ inbox'[c] = Tail(inbox[c])
           /\ \A d \in Conns \ {c} : inbox'[d] = inbox[d]
           /\ readBuf' \in [Conns -> Job \cup {NoJob}]
           /\ readBuf'[buffer[c]] = Head(inbox[c])
           /\ \A d \in Conns : Serving(d) /\ d # c => readBuf'[buffer[d]] = readBuf[buffer[d]]
           /\ \A b \in Conns \ {buffer[c]} : readBuf'[b] = readBuf[b]
           /\ Serving(c)
  <1>1. inbox[c] \in Seq(Job) /\ inbox[c] # <<>> /\ reader[c] = "read"
    BY DEF Sane, TypeOK, ReadNext
  <1>2. Head(inbox[c]) \in Job /\ Head(inbox[c]) = inbox[c][1] /\ Tail(inbox[c]) \in Seq(Job)
    BY <1>1, TailIs
  <1>3. /\ inbox' \in [Conns -> Seq(Job)] /\ inbox'[c] = Tail(inbox[c])
        /\ \A d \in Conns \ {c} : inbox'[d] = inbox[d]
    BY <1>2 DEF Sane, TypeOK, ReadNext
  <1>4. Serving(c)
    BY <1>1 DEF Serving
  <1>5. /\ readBuf' \in [Conns -> Job \cup {NoJob}]
        /\ readBuf'[buffer[c]] = Head(inbox[c])
        /\ \A b \in Conns \ {buffer[c]} : readBuf'[b] = readBuf[b]
    BY <1>2 DEF Sane, TypeOK, ReadNext
  <1>6. \A d \in Conns : Serving(d) /\ d # c => buffer[d] \in Conns \ {buffer[c]}
    BY <1>4 DEF Sane, TypeOK, Buffers
  <1> QED
    BY <1>2, <1>3, <1>4, <1>5, <1>6

\* Accepting a connection gives it a buffer that nobody in service has.
LEMMA AcceptSane ==
    ASSUME Sane, NEW c \in Conns, Accept(c)
    PROVE  Sane'
  <1>1. PICK b \in FreeBuffers(c) : buffer' = [buffer EXCEPT ![c] = b]
    BY DEF Accept
  <1>2. b \in Conns /\ \A d \in Conns : Serving(d) => buffer[d] # b
    BY <1>1 DEF FreeBuffers, Sane, TypeOK
  <1>3. /\ reader[c] = "new" /\ reader' = [reader EXCEPT ![c] = "read"]
        /\ writer' = [writer EXCEPT ![c] = TRUE]
        /\ UNCHANGED <<store, inbox, scraps, sent, got, ahead, readBuf, txn, cancelled, outQueue,
                       jobQueue, worker, stop, panicked, dropped>>
    BY DEF Accept, pool
  <1>4. /\ buffer' \in [Conns -> Conns] /\ buffer'[c] = b
        /\ \A d \in Conns \ {c} : buffer'[d] = buffer[d]
    BY <1>1, <1>2 DEF Sane, TypeOK
  <1>5. /\ reader' \in [Conns -> {"new", "read", "incr", "exited"}] /\ reader'[c] = "read"
        /\ \A d \in Conns \ {c} : reader'[d] = reader[d]
    BY <1>3 DEF Sane, TypeOK
  <1>6. /\ writer' \in [Conns -> BOOLEAN]
        /\ \A d \in Conns \ {c} : writer'[d] = writer[d]
    BY <1>3 DEF Sane, TypeOK
  <1>7. TypeOK'
    BY <1>3, <1>4, <1>5, <1>6 DEF Sane, TypeOK
  <1>8. \A d \in Conns \ {c} : Serving(d)' => Serving(d)
    BY <1>5, <1>6 DEF Serving
  <1>9. Buffers'
    BY <1>2, <1>4, <1>5, <1>6, <1>8 DEF Sane, Buffers
  <1>10. Reading'
    BY <1>3, <1>4, <1>5 DEF Sane, Reading, Held
  <1> QED
    BY <1>7, <1>9, <1>10 DEF Sane

\* A client's command is a job for its connection.
LEMMA SendIs ==
    ASSUME Sane, NEW c \in Conns, NEW command \in Commands, Send(c, command)
    PROVE  \E j \in Job :
              /\ j.conn = c /\ j.serial = sent[c] + 1
              /\ inbox' = [inbox EXCEPT ![c] = Append(inbox[c], j)]
              /\ sent' = [sent EXCEPT ![c] = sent[c] + 1]
              /\ ahead' = (ahead \/ Waiting(c))
              /\ reader[c] \in {"read", "incr"} /\ ~panicked
              /\ UNCHANGED <<store, scraps, got, buffer, readBuf, reader, txn, writer, cancelled, outQueue,
                             jobQueue, worker, stop, panicked, dropped>>
  <1>1. PICK j : j = [conn |-> c, serial |-> sent[c] + 1, cmd |-> command.cmd, puts |-> command.puts]
    OBVIOUS
  <1>2. sent[c] + 1 \in Int /\ sent[c] + 1 > 0
    BY DEF Sane, TypeOK
  <1>3. j \in Job /\ j.conn = c /\ j.serial = sent[c] + 1
    BY <1>1, <1>2 DEF Job
  <1>4. /\ inbox' = [inbox EXCEPT ![c] = Append(inbox[c], j)]
        /\ sent' = [sent EXCEPT ![c] = sent[c] + 1]
        /\ ahead' = (ahead \/ Waiting(c))
        /\ reader[c] \in {"read", "incr"} /\ ~panicked
        /\ UNCHANGED <<store, scraps, got, buffer, readBuf, reader, txn, writer, cancelled, outQueue,
                       jobQueue, worker, stop, panicked, dropped>>
    BY <1>1 DEF Send, pool
  <1> QED
    BY <1>3, <1>4

\* Sending keeps the types.
LEMMA SendSane ==
    ASSUME Sane, NEW c \in Conns, NEW command \in Commands, Send(c, command)
    PROVE  Sane'
  <1>1. PICK j \in Job :
              /\ inbox' = [inbox EXCEPT ![c] = Append(inbox[c], j)]
              /\ sent' = [sent EXCEPT ![c] = sent[c] + 1]
              /\ ahead' = (ahead \/ Waiting(c))
              /\ UNCHANGED <<store, scraps, got, buffer, readBuf, reader, txn, writer, cancelled, outQueue,
                             jobQueue, worker, stop, panicked, dropped>>
    BY SendIs
  <1>2. Append(inbox[c], j) \in Seq(Job)
    BY AppendIs DEF Sane, TypeOK
  <1>3. inbox' \in [Conns -> Seq(Job)] /\ sent' \in [Conns -> Nat] /\ ahead' \in BOOLEAN
    BY <1>1, <1>2 DEF Sane, TypeOK, Waiting
  <1>4. TypeOK'
    BY <1>1, <1>3 DEF Sane, TypeOK
  <1>5. Buffers' /\ Reading'
    BY <1>1 DEF Sane, Buffers, Reading, Serving, Held
  <1> QED
    BY <1>4, <1>5 DEF Sane
\* The reading goroutine goes on or, if the context is done, ends.
LEMMA LoopIs ==
    ASSUME Sane, NEW c \in Conns, Loop(c)
    PROVE  /\ reader' \in [Conns -> {"new", "read", "incr", "exited"}]
           /\ reader'[c] = IF cancelled[c] THEN "exited" ELSE "read"
           /\ \A d \in Conns \ {c} : reader'[d] = reader[d]
  BY DEF Sane, TypeOK, Loop

\* A command that the reading goroutine executes.
LEMMA FastSane ==
    ASSUME Sane, NEW c \in Conns, processFastPath(c)
    PROVE  Sane'
  <1>1. ReadNext(c) /\ Loop(c) /\ Respond(c, Head(inbox[c]).serial) /\ store' = Execute(Head(inbox[c]))
        /\ UNCHANGED <<txn, jobQueue, worker, panicked, scraps, sent, got, ahead, buffer, writer, cancelled, stop>>
    BY DEF processFastPath, ReadNext
  <1>2. /\ Head(inbox[c]) \in Job
        /\ inbox' \in [Conns -> Seq(Job)]
        /\ readBuf' \in [Conns -> Job \cup {NoJob}]
        /\ \A d \in Conns : Serving(d) /\ d # c => readBuf'[buffer[d]] = readBuf[buffer[d]]
        /\ Serving(c)
    BY <1>1, ReadNextIs
  <1>3. /\ reader' \in [Conns -> {"new", "read", "incr", "exited"}]
        /\ reader'[c] = IF cancelled[c] THEN "exited" ELSE "read"
        /\ \A d \in Conns \ {c} : reader'[d] = reader[d]
    BY <1>1, LoopIs
  <1>4. /\ outQueue' \in [Conns -> Seq(Int)]
        /\ \A d \in Conns : Len(outQueue'[d]) <= OutCap
        /\ dropped' \in [Conns -> BOOLEAN]
    BY <1>1, <1>2, RespondType, JobIs DEF Sane
  <1>5. DOMAIN store' = Keys /\ \A k \in Keys : store'[k] \in Values \cup {Absent} \cup Int
    BY <1>1, <1>2, ExecuteJob DEF Sane
  <1>6. TypeOK'
    BY <1>1, <1>2, <1>3, <1>4, <1>5 DEF Sane, TypeOK
  <1>7. \A d \in Conns : Serving(d)' => Serving(d)
    BY <1>1, <1>2, <1>3 DEF Serving
  <1>8. \A d \in Conns : reader'[d] = "new" => reader[d] = "new"
    BY <1>3
  <1>9. Buffers'
    BY <1>1, <1>7, <1>8, ServingKept
  <1>10. \A d \in Conns : reader'[d] = "incr" => reader[d] = "incr" /\ Serving(d) /\ d # c
    BY <1>3 DEF Serving
  <1>11. Reading'
    BY <1>1, <1>2, <1>10 DEF Sane, Reading, Held
  <1> QED
    BY <1>6, <1>9, <1>11 DEF Sane

\* The read of a counter: the command stays in the buffer until the commit.
LEMMA CounterReadSane ==
    ASSUME Sane, NEW c \in Conns, CounterRead(c)
    PROVE  Sane'
  <1>1. /\ ReadNext(c) /\ reader[c] = "read" /\ reader' = [reader EXCEPT ![c] = "incr"]
        /\ txn' = [txn EXCEPT ![c] = Current(CounterKey(Head(inbox[c])))]
        /\ UNCHANGED <<store, outQueue, jobQueue, worker, panicked, dropped,
                       scraps, sent, got, ahead, buffer, writer, cancelled, stop>>
    BY DEF CounterRead, ReadNext
  <1>2. /\ Head(inbox[c]) \in Job
        /\ inbox' \in [Conns -> Seq(Job)]
        /\ readBuf' \in [Conns -> Job \cup {NoJob}]
        /\ readBuf'[buffer[c]] = Head(inbox[c])
        /\ \A d \in Conns : Serving(d) /\ d # c => readBuf'[buffer[d]] = readBuf[buffer[d]]
    BY <1>1, ReadNextIs
  <1>3. Head(inbox[c]).cmd \in CounterCommands
    BY DEF CounterRead
  <1>4. Current(CounterKey(Head(inbox[c]))) \in Int
    <2>1. CounterKey(Head(inbox[c])) \in Keys
      BY <1>2, <1>3, CounterKeyIs
    <2> QED
      BY <2>1 DEF Current, Sane, TypeOK
  <1>5. txn' \in [Conns -> Int]
    BY <1>1, <1>4 DEF Sane, TypeOK
  <1>6. /\ reader' \in [Conns -> {"new", "read", "incr", "exited"}] /\ reader'[c] = "incr"
        /\ \A d \in Conns \ {c} : reader'[d] = reader[d]
    BY <1>1 DEF Sane, TypeOK
  <1>7. TypeOK'
    BY <1>1, <1>2, <1>5, <1>6 DEF Sane, TypeOK
  <1>8. \A d \in Conns : (Serving(d)' => Serving(d)) /\ (reader'[d] = "new" => reader[d] = "new")
    BY <1>1, <1>6 DEF Serving
  <1>9. Buffers'
    BY <1>1, <1>8, ServingKept
  <1>10. \A d \in Conns \ {c} : reader'[d] = "incr" => reader[d] = "incr" /\ Serving(d)
    BY <1>6 DEF Serving
  <1>11. Reading'
    BY <1>1, <1>2, <1>10 DEF Sane, Reading, Held
  <1> QED
    BY <1>7, <1>9, <1>11 DEF Sane

\* The commit of a counter.
LEMMA CounterCommitSane ==
    ASSUME Sane, NEW c \in Conns, CounterCommit(c)
    PROVE  Sane'
  <1>1. /\ reader[c] = "incr" /\ txn' = [txn EXCEPT ![c] = 0] /\ Loop(c) /\ Respond(c, Held(c).serial)
        /\ store' = [store EXCEPT ![CounterKey(Held(c))] = txn[c] + Step(Held(c))]
        /\ UNCHANGED <<inbox, scraps, sent, got, ahead, buffer, readBuf, writer, cancelled,
                       jobQueue, worker, stop, panicked>>
    BY DEF CounterCommit, conns, pool
  <1>2. Held(c) \in Job
    BY <1>1 DEF Sane, Reading
  <1>3. /\ reader' \in [Conns -> {"new", "read", "incr", "exited"}]
        /\ reader'[c] = IF cancelled[c] THEN "exited" ELSE "read"
        /\ \A d \in Conns \ {c} : reader'[d] = reader[d]
    BY <1>1, LoopIs
  <1>4. /\ outQueue' \in [Conns -> Seq(Int)]
        /\ \A d \in Conns : Len(outQueue'[d]) <= OutCap
        /\ dropped' \in [Conns -> BOOLEAN]
    BY <1>1, <1>2, RespondType, JobIs DEF Sane
  <1>5. txn[c] + Step(Held(c)) \in Int
    BY DEF Sane, TypeOK, Step
  <1>6. DOMAIN store' = Keys /\ \A k \in Keys : store'[k] \in Values \cup {Absent} \cup Int
    BY <1>1, <1>5 DEF Sane, TypeOK
  <1>7. txn' \in [Conns -> Int]
    BY <1>1 DEF Sane, TypeOK
  <1>8. TypeOK'
    BY <1>1, <1>3, <1>4, <1>6, <1>7 DEF Sane, TypeOK
  <1>9. \A d \in Conns : (Serving(d)' => Serving(d)) /\ (reader'[d] = "new" => reader[d] = "new")
    BY <1>1, <1>3 DEF Serving
  <1>10. Buffers'
    BY <1>1, <1>9, ServingKept
  <1>11. Reading'
    BY <1>1, <1>3 DEF Sane, Reading, Held
  <1> QED
    BY <1>8, <1>10, <1>11 DEF Sane
\* What processSlowPath does with a job: it panics, queues it, answers that the server is
\* busy, or notices that the context is done.
LEMMA DispatchType ==
    ASSUME Sane, NEW c \in Conns, NEW j \in Job, Dispatch(c, j)
    PROVE  /\ jobQueue' \in Seq(Job) /\ Len(jobQueue') <= JobCap /\ panicked' \in BOOLEAN
           /\ outQueue' \in [Conns -> Seq(Int)]
           /\ \A d \in Conns : Len(outQueue'[d]) <= OutCap
           /\ dropped' \in [Conns -> BOOLEAN]
  <1>1. CASE panicked' = TRUE /\ UNCHANGED <<outQueue, dropped, jobQueue>>
    BY <1>1 DEF Sane, TypeOK
  <1>2. CASE /\ Len(jobQueue) < JobCap /\ jobQueue' = Append(jobQueue, j)
             /\ UNCHANGED <<outQueue, dropped, panicked>>
    <2>1. jobQueue \in Seq(Job) /\ JobCap \in Nat
      BY ServerAssumption DEF Sane, TypeOK
    <2>2. /\ Append(jobQueue, j) \in Seq(Job) /\ Len(jobQueue) \in Nat
          /\ Len(Append(jobQueue, j)) = Len(jobQueue) + 1
      BY <2>1, AppendIs
    <2>3. Len(jobQueue') <= JobCap
      BY <1>2, <2>1, <2>2
    <2> QED
      BY <1>2, <2>2, <2>3 DEF Sane, TypeOK
  <1>3. CASE Respond(c, j.serial) /\ UNCHANGED <<jobQueue, panicked>>
    BY <1>3, RespondType, JobIs DEF Sane, TypeOK
  <1>4. CASE UNCHANGED <<outQueue, dropped, jobQueue, panicked>>
    BY <1>4 DEF Sane, TypeOK
  <1> QED
    BY <1>1, <1>2, <1>3, <1>4 DEF Dispatch

\* A command that goes to the worker pool.
LEMMA SlowSane ==
    ASSUME Sane, NEW c \in Conns, processSlowPath(c)
    PROVE  Sane'
  <1>1. ReadNext(c) /\ Loop(c) /\ Dispatch(c, Head(inbox[c]))
        /\ UNCHANGED <<store, txn, worker, scraps, sent, got, ahead, buffer, writer, cancelled, stop>>
    BY DEF processSlowPath, ReadNext
  <1>2. /\ Head(inbox[c]) \in Job
        /\ inbox' \in [Conns -> Seq(Job)]
        /\ readBuf' \in [Conns -> Job \cup {NoJob}]
        /\ \A d \in Conns : Serving(d) /\ d # c => readBuf'[buffer[d]] = readBuf[buffer[d]]
        /\ Serving(c)
    BY <1>1, ReadNextIs
  <1>3. /\ reader' \in [Conns -> {"new", "read", "incr", "exited"}]
        /\ reader'[c] = IF cancelled[c] THEN "exited" ELSE "read"
        /\ \A d \in Conns \ {c} : reader'[d] = reader[d]
    BY <1>1, LoopIs
  <1>4. /\ jobQueue' \in Seq(Job) /\ Len(jobQueue') <= JobCap /\ panicked' \in BOOLEAN
        /\ outQueue' \in [Conns -> Seq(Int)]
        /\ \A d \in Conns : Len(outQueue'[d]) <= OutCap
        /\ dropped' \in [Conns -> BOOLEAN]
    BY <1>1, <1>2, DispatchType
  <1>5. TypeOK'
    BY <1>1, <1>2, <1>3, <1>4 DEF Sane, TypeOK
  <1>6. \A d \in Conns : (Serving(d)' => Serving(d)) /\ (reader'[d] = "new" => reader[d] = "new")
    BY <1>1, <1>2, <1>3 DEF Serving
  <1>7. Buffers'
    BY <1>1, <1>6, ServingKept
  <1>8. \A d \in Conns : reader'[d] = "incr" => reader[d] = "incr" /\ Serving(d) /\ d # c
    BY <1>3 DEF Serving
  <1>9. Reading'
    BY <1>1, <1>2, <1>8 DEF Sane, Reading, Held
  <1> QED
    BY <1>5, <1>7, <1>9 DEF Sane

\* An answer that is written, or lost with its connection.
LEMMA WriteSane ==
    ASSUME Sane, NEW c \in Conns, WriteLoop(c) \/ WriteFails(c)
    PROVE  Sane'
  <1>1. outQueue[c] \in Seq(Int) /\ outQueue[c] # <<>> /\ Len(outQueue[c]) <= OutCap /\ OutCap \in Nat
    BY ServerAssumption DEF Sane, TypeOK, WriteLoop, WriteFails
  <1>2. /\ Head(outQueue[c]) \in Int /\ Tail(outQueue[c]) \in Seq(Int)
        /\ Len(Tail(outQueue[c])) = Len(outQueue[c]) - 1 /\ Len(outQueue[c]) \in Nat
    BY <1>1, TailIs
  <1>3. outQueue' = [outQueue EXCEPT ![c] = Tail(outQueue[c])]
    BY DEF WriteLoop, WriteFails
  <1>4. outQueue' \in [Conns -> Seq(Int)] /\ \A d \in Conns : Len(outQueue'[d]) <= OutCap
    <2>1. Len(Tail(outQueue[c])) <= OutCap
      BY <1>1, <1>2
    <2>2. /\ outQueue' \in [Conns -> Seq(Int)] /\ outQueue'[c] = Tail(outQueue[c])
          /\ \A d \in Conns \ {c} : outQueue'[d] = outQueue[d]
      BY <1>2, <1>3 DEF Sane, TypeOK
    <2> QED
      BY <2>1, <2>2 DEF Sane, TypeOK
  <1>5. UNCHANGED <<store, inbox, scraps, sent, readBuf, reader, txn, jobQueue, worker, stop, panicked, ahead, buffer, dropped>>
    BY DEF WriteLoop, WriteFails, conns, pool
  <1>6. got' \in [Conns -> Seq(Int)]
    <2>1. got[c] \in Seq(Int)
      BY DEF Sane, TypeOK
    <2>2. Append(got[c], Head(outQueue[c])) \in Seq(Int)
      BY <1>2, <2>1, AppendIs
    <2> QED
      BY <2>2 DEF Sane, TypeOK, WriteLoop, WriteFails, conns
  <1>7. /\ writer' \in [Conns -> BOOLEAN] /\ cancelled' \in [Conns -> BOOLEAN]
        /\ \A d \in Conns : writer'[d] => writer[d]
    BY DEF Sane, TypeOK, WriteLoop, WriteFails
  <1>8. TypeOK'
    BY <1>4, <1>5, <1>6, <1>7 DEF Sane, TypeOK
  <1>9. \A d \in Conns : Serving(d)' => Serving(d)
    BY <1>5, <1>7 DEF Serving
  <1>10. Buffers' /\ Reading'
    BY <1>5, <1>7, <1>9, ServingKept DEF Sane, Reading, Held
  <1> QED
    BY <1>8, <1>10 DEF Sane

\* Loops that end.
LEMMA ExitSane ==
    ASSUME Sane, NEW c \in Conns, WriterExit(c) \/ ReaderExit(c)
    PROVE  Sane'
  <1>1. UNCHANGED <<store, inbox, scraps, sent, got, buffer, readBuf, txn, outQueue, jobQueue, worker,
                    stop, panicked, dropped>>
    BY DEF WriterExit, ReaderExit, conns, pool
  <1>2. /\ writer' \in [Conns -> BOOLEAN] /\ cancelled' \in [Conns -> BOOLEAN] /\ ahead' \in BOOLEAN
        /\ \A d \in Conns : writer'[d] => writer[d]
    BY DEF Sane, TypeOK, WriterExit, ReaderExit, conns, Waiting
  <1>3. /\ reader' \in [Conns -> {"new", "read", "incr", "exited"}]
        /\ \A d \in Conns : reader'[d] \in {"new", "read", "incr"} => reader'[d] = reader[d]
    BY DEF Sane, TypeOK, WriterExit, ReaderExit
  <1>4. TypeOK'
    BY <1>1, <1>2, <1>3 DEF Sane, TypeOK
  <1>5. \A d \in Conns : Serving(d)' => Serving(d)
    BY <1>2, <1>3 DEF Serving
  <1>6. Buffers' /\ Reading'
    BY <1>1, <1>2, <1>3, <1>5, ServingKept DEF Sane, Reading, Held
  <1> QED
    BY <1>4, <1>6 DEF Sane

\* The workers.
LEMMA WorkerSane ==
    ASSUME Sane, NEW w \in Workers, WorkerStep(w)
    PROVE  Sane'
  <1>1. UNCHANGED <<inbox, scraps, sent, got, ahead, buffer, readBuf, reader, txn, writer, cancelled, stop, panicked>>
    BY DEF WorkerStep, Take, processJob, conns
  <1>2. Buffers' /\ Reading'
    BY <1>1 DEF Sane, Buffers, Reading, Serving, Held
  <1>3. CASE Take(w)
    <2>1. jobQueue \in Seq(Job) /\ jobQueue # <<>> /\ Len(jobQueue) <= JobCap /\ JobCap \in Nat
      BY <1>3, ServerAssumption DEF Sane, TypeOK, Take
    <2>2. /\ Head(jobQueue) \in Job /\ Tail(jobQueue) \in Seq(Job)
          /\ Len(Tail(jobQueue)) = Len(jobQueue) - 1 /\ Len(jobQueue) \in Nat
      BY <2>1, TailIs
    <2>3. jobQueue' \in Seq(Job) /\ Len(jobQueue') <= JobCap /\ worker' \in [Workers -> Job \cup {NoJob}]
      BY <1>3, <2>1, <2>2 DEF Sane, TypeOK, Take
    <2>4. UNCHANGED <<store, outQueue, dropped>>
      BY <1>3 DEF Take
    <2>5. TypeOK'
      BY <1>1, <2>3, <2>4 DEF Sane, TypeOK
    <2> QED
      BY <1>2, <2>5 DEF Sane
  <1>4. CASE processJob(w)
    <2>1. worker[w] \in Job
      BY <1>4 DEF Sane, TypeOK, processJob
    <2>2. PICK puts \in Contents(worker[w]) : store' = Execute([worker[w] EXCEPT !.puts = puts])
      BY <1>4 DEF processJob
    <2>3. DOMAIN store' = Keys /\ \A k \in Keys : store'[k] \in Values \cup {Absent} \cup Int
      BY <2>1, <2>2, ExecuteContents DEF Sane
    <2>4. worker[w].conn \in Conns /\ worker[w].serial \in Int
      BY <2>1, JobIs
    <2>5. Respond(worker[w].conn, worker[w].serial)
          /\ worker' = [worker EXCEPT ![w] = NoJob] /\ UNCHANGED jobQueue
      BY <1>4 DEF processJob
    <2>6. /\ outQueue' \in [Conns -> Seq(Int)]
          /\ \A d \in Conns : Len(outQueue'[d]) <= OutCap
          /\ dropped' \in [Conns -> BOOLEAN]
      BY <2>4, <2>5, RespondType DEF Sane
    <2>7. worker' \in [Workers -> Job \cup {NoJob}]
      BY <2>5 DEF Sane, TypeOK
    <2>8. TypeOK'
      BY <1>1, <2>3, <2>5, <2>6, <2>7 DEF Sane, TypeOK
    <2> QED
      BY <1>2, <2>8 DEF Sane
  <1> QED
    BY <1>3, <1>4 DEF WorkerStep

\* Two queues, one behind the other.
LEMMA ConcatIs ==
    ASSUME NEW S, NEW s \in Seq(S), NEW t \in Seq(S)
    PROVE  /\ s \o t \in Seq(S) /\ Len(s) \in Nat /\ Len(t) \in Nat /\ Len(s \o t) = Len(s) + Len(t)
           /\ \A i \in 1..Len(s \o t) : (s \o t)[i] = IF i <= Len(s) THEN s[i] ELSE t[i - Len(s)]
  OBVIOUS

\* A piece of the stream that is no command has the next number below zero.
LEMMA ScrapIs ==
    ASSUME Sane, NEW c \in Conns, NEW i \in {1, 2},
           NEW f \in Commands \cup Fragments \cup Job
    PROVE  Scrap(c, i, f) \in Job /\ Scrap(c, i, f).conn = c /\ Scrap(c, i, f).serial = -(scraps[c] + i)
  <1>1. -(scraps[c] + i) \in Int /\ ~(-(scraps[c] + i) > 0)
    BY DEF Sane, TypeOK
  <1>2. PICK command \in Commands \cup Fragments : f.cmd = command.cmd /\ f.puts = command.puts
    BY DEF Job
  <1> QED
    BY <1>1, <1>2 DEF Scrap, Job

\* What the network makes of the next pieces: one or two that are no command, and the rest.
LEMMA NetworkIs ==
    ASSUME Sane, NEW c \in Conns, Network(c)
    PROVE  \E s \in Seq(Job), t \in {1, 2}, d \in {-1, 1} :
              /\ inbox' = [inbox EXCEPT ![c] = s]
              /\ scraps' = [scraps EXCEPT ![c] = scraps[c] + t]
              /\ \A i \in 1..Len(s) :
                    \/ i <= t /\ s[i].conn = c /\ s[i].serial = -(scraps[c] + i)
                    \/ i > t /\ i + d \in 1..Len(inbox[c]) /\ s[i] = inbox[c][i + d]
  <1>1. inbox[c] \in Seq(Job) /\ inbox[c] # <<>>
    BY DEF Sane, TypeOK, Network
  <1>2. /\ Head(inbox[c]) \in Job /\ Len(inbox[c]) \in Nat
        /\ Tail(inbox[c]) \in Seq(Job) /\ Len(Tail(inbox[c])) = Len(inbox[c]) - 1
        /\ \A i \in 1..Len(Tail(inbox[c])) :
              Tail(inbox[c])[i] = inbox[c][i + 1] /\ i + 1 \in 1..Len(inbox[c])
    BY <1>1, TailIs
  <1>3. CASE \E f \in {Head(inbox[c])} \cup Fragments : Coalesce(c, f)
    <2>1. PICK f \in Commands \cup Fragments \cup Job : Coalesce(c, f)
      BY <1>2, <1>3
    <2>2. PICK r, u : r = Tail(inbox[c]) /\ u = Tail(r)
      OBVIOUS
    <2>3. r \in Seq(Job) /\ r # <<>>
      <3>1. r \in Seq(Job) /\ Len(r) > 0
        BY <1>2, <2>1, <2>2 DEF Coalesce
      <3> QED
        BY <3>1
    <2>4. /\ u \in Seq(Job) /\ Len(u) = Len(r) - 1
          /\ \A i \in 1..Len(u) : u[i] = r[i + 1] /\ i + 1 \in 1..Len(r)
      BY <2>2, <2>3, TailIs
    <2>5. PICK x : x = Scrap(c, 1, f)
      OBVIOUS
    <2>6. x \in Job /\ x.conn = c /\ x.serial = -(scraps[c] + 1)
      BY <2>5, ScrapIs
    <2>7. <<x>> \in Seq(Job) /\ Len(<<x>>) = 1 /\ <<x>>[1] = x
      BY <2>6
    <2>8. PICK s : s = <<x>> \o u
      OBVIOUS
    <2>9. /\ s \in Seq(Job) /\ Len(u) \in Nat /\ Len(s) = 1 + Len(u)
          /\ \A i \in 1..Len(s) : s[i] = IF i <= 1 THEN <<x>>[i] ELSE u[i - 1]
      BY <2>4, <2>7, <2>8, ConcatIs
    <2>10. ASSUME NEW i \in 1..Len(s)
           PROVE  \/ i <= 1 /\ s[i].conn = c /\ s[i].serial = -(scraps[c] + i)
                  \/ i > 1 /\ i + 1 \in 1..Len(inbox[c]) /\ s[i] = inbox[c][i + 1]
      <3>1. CASE i = 1
        BY <2>6, <2>7, <2>9, <3>1
      <3>2. CASE i > 1
        <4>1. i - 1 \in 1..Len(u) /\ s[i] = u[i - 1]
          BY <2>9, <3>2
        <4>2. u[i - 1] = r[i] /\ i \in 1..Len(r)
          BY <2>4, <4>1
        <4>3. r[i] = inbox[c][i + 1] /\ i + 1 \in 1..Len(inbox[c])
          BY <1>2, <2>2, <4>2
        <4> QED
          BY <3>2, <4>1, <4>2, <4>3
      <3> QED
        BY <2>9, <3>1, <3>2
    <2>11. /\ inbox' = [inbox EXCEPT ![c] = s]
           /\ scraps' = [scraps EXCEPT ![c] = scraps[c] + 1]
      BY <2>1, <2>2, <2>5, <2>8 DEF Coalesce
    <2> QED
      BY <2>9, <2>10, <2>11
  <1>4. CASE \E f, g \in Fragments : Cut(c, f, g)
    <2>1. PICK f \in Fragments, g \in Fragments : Cut(c, f, g)
      BY <1>4
    <2>2. PICK r : r = Tail(inbox[c])
      OBVIOUS
    <2>3. PICK x, y : x = Scrap(c, 1, f) /\ y = Scrap(c, 2, g)
      OBVIOUS
    <2>4. /\ x \in Job /\ x.conn = c /\ x.serial = -(scraps[c] + 1)
          /\ y \in Job /\ y.conn = c /\ y.serial = -(scraps[c] + 2)
      BY <2>3, ScrapIs
    <2>5. <<x, y>> \in Seq(Job) /\ Len(<<x, y>>) = 2 /\ <<x, y>>[1] = x /\ <<x, y>>[2] = y
      BY <2>4
    <2>6. PICK s : s = <<x, y>> \o r
      OBVIOUS
    <2>7. /\ s \in Seq(Job) /\ Len(r) \in Nat /\ Len(s) = 2 + Len(r)
          /\ \A i \in 1..Len(s) : s[i] = IF i <= 2 THEN <<x, y>>[i] ELSE r[i - 2]
      BY <1>2, <2>2, <2>5, <2>6, ConcatIs
    <2>8. ASSUME NEW i \in 1..Len(s)
          PROVE  \/ i <= 2 /\ s[i].conn = c /\ s[i].serial = -(scraps[c] + i)
                 \/ i > 2 /\ i + (-1) \in 1..Len(inbox[c]) /\ s[i] = inbox[c][i + (-1)]
      <3>1. CASE i = 1 \/ i = 2
        BY <2>4, <2>5, <2>7, <3>1
      <3>2. CASE i > 2
        <4>1. i - 2 \in 1..Len(r) /\ s[i] = r[i - 2]
          BY <2>7, <3>2
        <4>2. r[i - 2] = inbox[c][(i - 2) + 1] /\ (i - 2) + 1 \in 1..Len(inbox[c])
          BY <1>2, <2>2, <4>1
        <4>3. (i - 2) + 1 = i + (-1)
          OBVIOUS
        <4> QED
          BY <3>2, <4>1, <4>2, <4>3
      <3> QED
        BY <2>7, <3>1, <3>2
    <2>9. /\ inbox' = [inbox EXCEPT ![c] = s]
          /\ scraps' = [scraps EXCEPT ![c] = scraps[c] + 2]
      BY <2>1, <2>2, <2>3, <2>6 DEF Cut
    <2> QED
      BY <2>7, <2>8, <2>9
  <1> QED
    BY <1>3, <1>4 DEF Network

\* The network keeps the types.
LEMMA NetworkSane ==
    ASSUME Sane, NEW c \in Conns, Network(c)
    PROVE  Sane'
  <1>1. PICK s \in Seq(Job), t \in {1, 2} :
              inbox' = [inbox EXCEPT ![c] = s] /\ scraps' = [scraps EXCEPT ![c] = scraps[c] + t]
    BY NetworkIs
  <1>2. inbox' \in [Conns -> Seq(Job)] /\ scraps' \in [Conns -> Nat]
    BY <1>1 DEF Sane, TypeOK
  <1>3. UNCHANGED <<store, sent, got, ahead, buffer, readBuf, reader, txn, writer, cancelled, outQueue,
                    jobQueue, worker, stop, panicked, dropped>>
    BY DEF Network, Coalesce, Cut, pool
  <1>4. TypeOK'
    BY <1>2, <1>3 DEF Sane, TypeOK
  <1>5. Buffers' /\ Reading'
    BY <1>3 DEF Sane, Buffers, Reading, Serving, Held
  <1> QED
    BY <1>4, <1>5 DEF Sane

\* Every step keeps the types, the buffers apart and open counters in their buffers.
LEMMA StepSane == Sane /\ [Next]_vars => Sane'
  <1> SUFFICES ASSUME Sane, [Next]_vars PROVE Sane'
    OBVIOUS
  <1>1. CASE StopCancel \/ StopClose \/ StopWait
    <2>1. UNCHANGED <<store, inbox, scraps, sent, got, ahead, buffer, readBuf, reader, txn, writer, outQueue,
                      jobQueue, worker, panicked, dropped>>
      BY <1>1 DEF StopCancel, StopClose, StopWait, conns
    <2>2. stop' \in {"no", "cancelled", "closed", "returned"}
      BY <1>1 DEF StopCancel, StopClose, StopWait
    <2>3. cancelled' \in [Conns -> BOOLEAN]
      BY <1>1 DEF StopCancel, StopClose, StopWait, Sane, TypeOK
    <2>4. TypeOK'
      BY <2>1, <2>2, <2>3 DEF Sane, TypeOK
    <2>5. Buffers' /\ Reading'
      BY <2>1 DEF Sane, Buffers, Reading, Serving, Held
    <2> QED
      BY <2>4, <2>5 DEF Sane
  <1>2. CASE UNCHANGED vars
    BY <1>2 DEF vars, conns, pool, Sane, TypeOK, Buffers, Reading, Serving, Held
  <1> QED
    BY <1>1, <1>2, AcceptSane, SendSane, NetworkSane, FastSane, CounterReadSane, CounterCommitSane, SlowSane,
       WriteSane, ExitSane, WorkerSane DEF Next, ReaderStep

\* Type correctness for any number of connections and workers: the job queue and the
\* queues of answers keep to their capacities, everything queued is a command that a
\* client sent or a piece of the stream, and stored values are counters or what these
\* may store.
THEOREM ServerTypeCorrect == Spec => []TypeOK
  <1>1. Sane => TypeOK
    BY DEF Sane
  <1> QED
    BY <1>1, InitSane, StepSane, PTL DEF Spec
-----------------------------------------------------------------------------
(***************************************************************************)
(* Commands move from place to place.                                      *)
(***************************************************************************)
\* The six places by number.
LEMMA PlacesAre ==
    ASSUME NEW c, NEW n
    PROVE  /\ Places(c, n)[1] = InInbox(c, n) /\ Places(c, n)[2] = InReader(c, n)
           /\ Places(c, n)[3] = InJobQueue(c, n) /\ Places(c, n)[4] = InWorker(c, n)
           /\ Places(c, n)[5] = InOutQueue(c, n) /\ Places(c, n)[6] = Received(c, n)
  BY DEF Places

\* Taking a command from the inbox.
LEMMA InboxTail ==
    ASSUME Sane, OnceInInbox, Owned, NEW c \in Conns, ReadNext(c)
    PROVE  /\ OnceInInbox' /\ Owned'
           /\ InInbox(c, Head(inbox[c]).serial) /\ Head(inbox[c]).conn = c
           /\ \A d \in Conns, n \in Int :
                 InInbox(d, n)' <=> InInbox(d, n) /\ ~(d = c /\ n = Head(inbox[c]).serial)
  <1>1. PICK s : s = inbox[c]
    OBVIOUS
  <1>2. s \in Seq(Job) /\ s # <<>>
    BY <1>1 DEF Sane, TypeOK, ReadNext
  <1>3. /\ Len(s) \in Nat /\ 1 <= Len(s) /\ Head(s) = s[1]
        /\ Len(Tail(s)) = Len(s) - 1
        /\ \A i \in 1..Len(Tail(s)) : Tail(s)[i] = s[i + 1] /\ i + 1 \in 1..Len(s)
    BY <1>2, TailIs
  <1>4. inbox'[c] = Tail(s) /\ \A d \in Conns \ {c} : inbox'[d] = inbox[d]
    BY <1>1, ReadNextIs
  <1>5. \A i, j \in 1..Len(s) : s[i].serial = s[j].serial => i = j
    BY <1>1 DEF OnceInInbox
  <1>6. \A i \in 1..Len(s) : s[i].conn = c
    BY <1>1 DEF Owned
  <1>7. \A i, j \in 1..Len(Tail(s)) : Tail(s)[i].serial = Tail(s)[j].serial => i = j
    BY <1>3, <1>5
  <1>8. OnceInInbox'
    BY <1>4, <1>7 DEF OnceInInbox
  <1>9. Owned'
    <2> SUFFICES ASSUME NEW d \in Conns, NEW i \in 1..Len(inbox'[d])
                 PROVE  inbox'[d][i].conn = d
      BY DEF Owned
    <2>1. CASE d = c
      <3>1. Tail(s)[i] = s[i + 1] /\ i + 1 \in 1..Len(s)
        BY <1>3, <1>4, <2>1
      <3> QED
        BY <1>4, <1>6, <2>1, <3>1
    <2>2. CASE d # c
      BY <1>4, <2>2 DEF Owned
    <2> QED
      BY <2>1, <2>2
  <1>10. Head(s).conn = c /\ InInbox(c, Head(s).serial)
    BY <1>1, <1>3, <1>6 DEF InInbox
  <1>11. ASSUME NEW n \in Int PROVE InInbox(c, n)' <=> InInbox(c, n) /\ n # Head(s).serial
    <2>1. ASSUME NEW i \in 1..Len(Tail(s)), Tail(s)[i].serial = n
          PROVE  InInbox(c, n) /\ n # Head(s).serial
      <3>1. s[i + 1].serial = n /\ i + 1 \in 1..Len(s) /\ i + 1 # 1 /\ 1 \in 1..Len(s)
        BY <1>3, <2>1
      <3>2. s[1].serial # n
        BY <1>5, <3>1
      <3> QED
        BY <1>1, <1>3, <3>1, <3>2 DEF InInbox
    <2>2. ASSUME NEW i \in 1..Len(s), s[i].serial = n, n # Head(s).serial
          PROVE  \E k \in 1..Len(Tail(s)) : Tail(s)[k].serial = n
      <3>1. i # 1 /\ i - 1 \in 1..Len(Tail(s))
        BY <1>3, <2>2
      <3>2. Tail(s)[i - 1] = s[i]
        BY <1>3, <3>1
      <3> QED
        BY <2>2, <3>1, <3>2
    <2> QED
      BY <1>1, <1>4, <2>1, <2>2 DEF InInbox
  <1>12. ASSUME NEW d \in Conns \ {c}, NEW n \in Int PROVE InInbox(d, n)' <=> InInbox(d, n)
    BY <1>4 DEF InInbox
  <1>13. \A d \in Conns, n \in Int : InInbox(d, n)' <=> InInbox(d, n) /\ ~(d = c /\ n = Head(s).serial)
    BY <1>11, <1>12
  <1> QED
    BY <1>1, <1>8, <1>9, <1>10, <1>13

\* Putting a command into the inbox.
LEMMA InboxAppend ==
    ASSUME Sane, OnceInInbox, Owned, NEW c \in Conns, NEW x \in Job, x.conn = c,
           inbox' = [inbox EXCEPT ![c] = Append(inbox[c], x)], ~InInbox(c, x.serial)
    PROVE  /\ OnceInInbox' /\ Owned'
           /\ \A d \in Conns, n \in Int : InInbox(d, n)' <=> InInbox(d, n) \/ (d = c /\ n = x.serial)
  <1>1. PICK s : s = inbox[c]
    OBVIOUS
  <1>2. s \in Seq(Job)
    BY <1>1 DEF Sane, TypeOK
  <1>3. PICK t : t = Append(s, x)
    OBVIOUS
  <1>4. /\ Len(s) \in Nat /\ Len(t) = Len(s) + 1
        /\ \A i \in 1..Len(s) : t[i] = s[i]
        /\ t[Len(s) + 1] = x
    BY <1>2, <1>3, AppendIs
  <1>5. inbox'[c] = t /\ \A d \in Conns \ {c} : inbox'[d] = inbox[d]
    BY <1>1, <1>3 DEF Sane, TypeOK
  <1>6. /\ \A i, j \in 1..Len(s) : s[i].serial = s[j].serial => i = j
        /\ \A i \in 1..Len(s) : s[i].conn = c /\ s[i].serial # x.serial
    BY <1>1 DEF OnceInInbox, Owned, InInbox
  <1>7. \A i \in 1..Len(t) : i \in 1..Len(s) \/ i = Len(s) + 1
    BY <1>4
  <1>8. \A i, j \in 1..Len(t) : t[i].serial = t[j].serial => i = j
    BY <1>4, <1>6, <1>7
  <1>9. \A i \in 1..Len(t) : t[i].conn = c
    BY <1>4, <1>6, <1>7
  <1>10. OnceInInbox' /\ Owned'
    BY <1>5, <1>8, <1>9 DEF OnceInInbox, Owned
  <1>11. \A n \in Int : (\E i \in 1..Len(t) : t[i].serial = n) <=> (\E i \in 1..Len(s) : s[i].serial = n) \/ n = x.serial
    <2>1. Len(s) + 1 \in 1..Len(t) /\ \A i \in 1..Len(s) : i \in 1..Len(t)
      BY <1>4
    <2> QED
      BY <1>4, <1>7, <2>1
  <1>12. \A n \in Int : InInbox(c, n)' <=> InInbox(c, n) \/ n = x.serial
    BY <1>1, <1>5, <1>11 DEF InInbox
  <1>13. \A d \in Conns \ {c}, n \in Int : InInbox(d, n)' <=> InInbox(d, n)
    BY <1>5 DEF InInbox
  <1> QED
    BY <1>10, <1>12, <1>13

\* Taking an answer from a queue of answers.
LEMMA OutTail ==
    ASSUME Sane, OnceInOutQueue, NEW c \in Conns, outQueue[c] # <<>>,
           outQueue' = [outQueue EXCEPT ![c] = Tail(outQueue[c])]
    PROVE  /\ OnceInOutQueue' /\ InOutQueue(c, Head(outQueue[c])) /\ Head(outQueue[c]) \in Int
           /\ \A d \in Conns, n \in Int :
                 InOutQueue(d, n)' <=> InOutQueue(d, n) /\ ~(d = c /\ n = Head(outQueue[c]))
  <1>1. PICK s : s = outQueue[c]
    OBVIOUS
  <1>2. s \in Seq(Int) /\ s # <<>>
    BY <1>1 DEF Sane, TypeOK
  <1>3. /\ Len(s) \in Nat /\ 1 <= Len(s) /\ Head(s) = s[1] /\ Head(s) \in Int
        /\ Len(Tail(s)) = Len(s) - 1
        /\ \A i \in 1..Len(Tail(s)) : Tail(s)[i] = s[i + 1] /\ i + 1 \in 1..Len(s)
    BY <1>2, TailIs
  <1>4. outQueue'[c] = Tail(s) /\ \A d \in Conns \ {c} : outQueue'[d] = outQueue[d]
    BY <1>1 DEF Sane, TypeOK
  <1>5. \A i, j \in 1..Len(s) : s[i] = s[j] => i = j
    BY <1>1 DEF OnceInOutQueue
  <1>6. \A i, j \in 1..Len(Tail(s)) : Tail(s)[i] = Tail(s)[j] => i = j
    BY <1>3, <1>5
  <1>7. OnceInOutQueue'
    BY <1>4, <1>6 DEF OnceInOutQueue
  <1>8. InOutQueue(c, Head(s))
    BY <1>1, <1>3 DEF InOutQueue
  <1>9. ASSUME NEW n \in Int PROVE InOutQueue(c, n)' <=> InOutQueue(c, n) /\ n # Head(s)
    <2>1. ASSUME NEW i \in 1..Len(Tail(s)), Tail(s)[i] = n
          PROVE  InOutQueue(c, n) /\ n # Head(s)
      <3>1. s[i + 1] = n /\ i + 1 \in 1..Len(s) /\ i + 1 # 1 /\ 1 \in 1..Len(s)
        BY <1>3, <2>1
      <3> QED
        BY <1>1, <1>3, <1>5, <3>1 DEF InOutQueue
    <2>2. ASSUME NEW i \in 1..Len(s), s[i] = n, n # Head(s)
          PROVE  \E k \in 1..Len(Tail(s)) : Tail(s)[k] = n
      <3>1. i # 1 /\ i - 1 \in 1..Len(Tail(s))
        BY <1>3, <2>2
      <3>2. Tail(s)[i - 1] = s[i]
        BY <1>3, <3>1
      <3> QED
        BY <2>2, <3>1, <3>2
    <2> QED
      BY <1>1, <1>4, <2>1, <2>2 DEF InOutQueue
  <1>10. \A d \in Conns \ {c}, n \in Int : InOutQueue(d, n)' <=> InOutQueue(d, n)
    BY <1>4 DEF InOutQueue
  <1>11. \A d \in Conns, n \in Int : InOutQueue(d, n)' <=> InOutQueue(d, n) /\ ~(d = c /\ n = Head(s))
    BY <1>9, <1>10
  <1> QED
    BY <1>1, <1>3, <1>7, <1>8, <1>11
\* An answer joins the queue, or is dropped because the queue is full or the context done.
LEMMA RespondMoves ==
    ASSUME Sane, OnceInOutQueue, NEW c \in Conns, NEW n0 \in Int, Respond(c, n0), ~InOutQueue(c, n0)
    PROVE  /\ OnceInOutQueue'
           /\ \A d \in Conns : dropped[d] => dropped'[d]
           /\ (\E d \in Conns : dropped'[d] /\ ~dropped[d]) => Len(outQueue[c]) >= OutCap
           /\ \/ \A d \in Conns, n \in Int : InOutQueue(d, n)' <=> InOutQueue(d, n) \/ (d = c /\ n = n0)
              \/ /\ \A d \in Conns, n \in Int : InOutQueue(d, n)' <=> InOutQueue(d, n)
                 /\ dropped'[c] \/ cancelled[c]
  <1>1. CASE /\ outQueue' = [outQueue EXCEPT ![c] = Append(outQueue[c], n0)]
             /\ UNCHANGED dropped
    <2>1. PICK s : s = outQueue[c]
      OBVIOUS
    <2>2. s \in Seq(Int)
      BY <2>1 DEF Sane, TypeOK
    <2>3. PICK t : t = Append(s, n0)
      OBVIOUS
    <2>4. /\ Len(s) \in Nat /\ Len(t) = Len(s) + 1
          /\ \A i \in 1..Len(s) : t[i] = s[i]
          /\ t[Len(s) + 1] = n0
      BY <2>2, <2>3, AppendIs
    <2>5. outQueue'[c] = t /\ \A d \in Conns \ {c} : outQueue'[d] = outQueue[d]
      BY <1>1, <2>1, <2>3 DEF Sane, TypeOK
    <2>6. /\ \A i, j \in 1..Len(s) : s[i] = s[j] => i = j
          /\ \A i \in 1..Len(s) : s[i] # n0
      BY <2>1 DEF OnceInOutQueue, InOutQueue
    <2>7. \A i \in 1..Len(t) : i \in 1..Len(s) \/ i = Len(s) + 1
      BY <2>4
    <2>8. \A i, j \in 1..Len(t) : t[i] = t[j] => i = j
      BY <2>4, <2>6, <2>7
    <2>9. OnceInOutQueue'
      BY <2>5, <2>8 DEF OnceInOutQueue
    <2>10. \A n \in Int : (\E i \in 1..Len(t) : t[i] = n) <=> (\E i \in 1..Len(s) : s[i] = n) \/ n = n0
      <3>1. Len(s) + 1 \in 1..Len(t) /\ \A i \in 1..Len(s) : i \in 1..Len(t)
        BY <2>4
      <3> QED
        BY <2>4, <2>7, <3>1
    <2>11. \A n \in Int : InOutQueue(c, n)' <=> InOutQueue(c, n) \/ n = n0
      BY <2>1, <2>5, <2>10 DEF InOutQueue
    <2>12. \A d \in Conns \ {c}, n \in Int : InOutQueue(d, n)' <=> InOutQueue(d, n)
      BY <2>5 DEF InOutQueue
    <2> QED
      BY <1>1, <2>9, <2>11, <2>12
  <1>2. CASE /\ Len(outQueue[c]) >= OutCap /\ dropped' = [dropped EXCEPT ![c] = TRUE]
             /\ UNCHANGED outQueue
    <2>1. OnceInOutQueue' /\ \A d \in Conns, n \in Int : InOutQueue(d, n)' <=> InOutQueue(d, n)
      BY <1>2 DEF OnceInOutQueue, InOutQueue
    <2>2. dropped'[c] /\ \A d \in Conns : dropped[d] => dropped'[d]
      BY <1>2 DEF Sane, TypeOK
    <2> QED
      BY <1>2, <2>1, <2>2
  <1>3. CASE cancelled[c] /\ UNCHANGED <<outQueue, dropped>>
    <2>1. OnceInOutQueue' /\ \A d \in Conns, n \in Int : InOutQueue(d, n)' <=> InOutQueue(d, n)
      BY <1>3 DEF OnceInOutQueue, InOutQueue
    <2> QED
      BY <1>3, <2>1
  <1> QED
    BY <1>1, <1>2, <1>3 DEF Respond

\* A job joins the queue.
LEMMA JobAppend ==
    ASSUME Sane, OnceInJobQueue, NEW x \in Job, jobQueue' = Append(jobQueue, x),
           ~InJobQueue(x.conn, x.serial)
    PROVE  /\ OnceInJobQueue'
           /\ \A d \in Conns, n \in Int :
                 InJobQueue(d, n)' <=> InJobQueue(d, n) \/ (d = x.conn /\ n = x.serial)
  <1>1. /\ Len(jobQueue) \in Nat /\ Len(jobQueue') = Len(jobQueue) + 1
        /\ \A i \in 1..Len(jobQueue) : jobQueue'[i] = jobQueue[i]
        /\ jobQueue'[Len(jobQueue) + 1] = x
    BY AppendIs DEF Sane, TypeOK
  <1>2. \A i \in 1..Len(jobQueue) : ~(jobQueue[i].conn = x.conn /\ jobQueue[i].serial = x.serial)
    BY DEF InJobQueue
  <1>3. /\ \A i \in 1..Len(jobQueue') : i \in 1..Len(jobQueue) \/ i = Len(jobQueue) + 1
        /\ Len(jobQueue) + 1 \in 1..Len(jobQueue')
        /\ \A i \in 1..Len(jobQueue) : i \in 1..Len(jobQueue')
    BY <1>1
  <1>4. OnceInJobQueue'
    BY <1>1, <1>2, <1>3 DEF OnceInJobQueue
  <1>5. \A d \in Conns, n \in Int :
           InJobQueue(d, n)' <=> InJobQueue(d, n) \/ (d = x.conn /\ n = x.serial)
    BY <1>1, <1>3 DEF InJobQueue
  <1> QED
    BY <1>4, <1>5

\* A worker takes the first job.
LEMMA JobTake ==
    ASSUME Sane, OnceInJobQueue, OnceInWorker, NEW w \in Workers, Take(w),
           NEW x, x = Head(jobQueue), ~InWorker(x.conn, x.serial)
    PROVE  /\ x \in Job /\ OnceInJobQueue' /\ OnceInWorker' /\ InJobQueue(x.conn, x.serial)
           /\ \A d \in Conns, n \in Int :
                 /\ InJobQueue(d, n)' <=> InJobQueue(d, n) /\ ~(d = x.conn /\ n = x.serial)
                 /\ InWorker(d, n)' <=> InWorker(d, n) \/ (d = x.conn /\ n = x.serial)
  <1>1. PICK s : s = jobQueue
    OBVIOUS
  <1>2. s \in Seq(Job) /\ s # <<>> /\ worker[w] = NoJob
    BY <1>1 DEF Sane, TypeOK, Take
  <1>3. /\ Len(s) \in Nat /\ 1 <= Len(s) /\ x = s[1] /\ x \in Job
        /\ Len(Tail(s)) = Len(s) - 1
        /\ \A i \in 1..Len(Tail(s)) : Tail(s)[i] = s[i + 1] /\ i + 1 \in 1..Len(s)
    BY <1>1, <1>2, TailIs
  <1>4. jobQueue' = Tail(s)
    BY <1>1 DEF Take
  <1>5. \A i, j \in 1..Len(s) : s[i].conn = s[j].conn /\ s[i].serial = s[j].serial => i = j
    BY <1>1 DEF OnceInJobQueue
  <1>6. \A i, j \in 1..Len(Tail(s)) :
           Tail(s)[i].conn = Tail(s)[j].conn /\ Tail(s)[i].serial = Tail(s)[j].serial => i = j
    BY <1>3, <1>5
  <1>7. OnceInJobQueue' /\ InJobQueue(x.conn, x.serial)
    <2>1. 1 \in 1..Len(s)
      BY <1>3
    <2> QED
      BY <1>1, <1>3, <1>4, <1>6, <2>1 DEF OnceInJobQueue, InJobQueue
  <1>8. ASSUME NEW d \in Conns, NEW n \in Int
        PROVE  InJobQueue(d, n)' <=> InJobQueue(d, n) /\ ~(d = x.conn /\ n = x.serial)
    <2>1. ASSUME NEW i \in 1..Len(Tail(s)), Tail(s)[i].conn = d, Tail(s)[i].serial = n
          PROVE  InJobQueue(d, n) /\ ~(d = x.conn /\ n = x.serial)
      <3>1. /\ s[i + 1].conn = d /\ s[i + 1].serial = n
            /\ i + 1 \in 1..Len(s) /\ i + 1 # 1 /\ 1 \in 1..Len(s)
        BY <1>3, <2>1
      <3> QED
        BY <1>1, <1>3, <1>5, <3>1 DEF InJobQueue
    <2>2. ASSUME NEW i \in 1..Len(s), s[i].conn = d, s[i].serial = n, ~(d = x.conn /\ n = x.serial)
          PROVE  \E k \in 1..Len(Tail(s)) : Tail(s)[k].conn = d /\ Tail(s)[k].serial = n
      <3>1. i # 1 /\ i - 1 \in 1..Len(Tail(s))
        BY <1>3, <2>2
      <3>2. Tail(s)[i - 1] = s[i]
        BY <1>3, <3>1
      <3> QED
        BY <2>2, <3>1, <3>2
    <2> QED
      BY <1>1, <1>4, <2>1, <2>2 DEF InJobQueue
  <1>9. worker'[w] = x /\ \A v \in Workers \ {w} : worker'[v] = worker[v]
    BY DEF Take, Sane, TypeOK
  <1>10. NoJob.conn \notin Conns
    BY ServerAssumption DEF NoJob
  <1>11. \A v \in Workers : ~(worker[v].conn = x.conn /\ worker[v].serial = x.serial)
    BY DEF InWorker
  <1>12. OnceInWorker'
    BY <1>9, <1>11 DEF OnceInWorker
  <1>13. \A d \in Conns, n \in Int : InWorker(d, n)' <=> InWorker(d, n) \/ (d = x.conn /\ n = x.serial)
    BY <1>2, <1>9, <1>10 DEF InWorker
  <1> QED
    BY <1>3, <1>7, <1>8, <1>12, <1>13

\* A worker that has finished.
LEMMA WorkerClear ==
    ASSUME Sane, OnceInWorker, NEW w \in Workers, worker[w] # NoJob, worker' = [worker EXCEPT ![w] = NoJob]
    PROVE  /\ worker[w] \in Job /\ OnceInWorker' /\ InWorker(worker[w].conn, worker[w].serial)
           /\ \A d \in Conns, n \in Int :
                 InWorker(d, n)' <=> InWorker(d, n) /\ ~(d = worker[w].conn /\ n = worker[w].serial)
  <1>1. worker[w] \in Job
    BY DEF Sane, TypeOK
  <1>2. worker'[w] = NoJob /\ \A v \in Workers \ {w} : worker'[v] = worker[v]
    BY DEF Sane, TypeOK
  <1>3. NoJob.conn \notin Conns
    BY ServerAssumption DEF NoJob
  <1>4. \A v \in Workers : worker[v] = NoJob \/ worker[v].conn \in Conns
    BY JobIs DEF Sane, TypeOK
  <1>5. OnceInWorker'
    <2> SUFFICES ASSUME NEW u \in Workers, NEW v \in Workers, worker'[u] # NoJob,
                        worker'[u].conn = worker'[v].conn, worker'[u].serial = worker'[v].serial
                 PROVE  u = v
      BY DEF OnceInWorker
    <2>1. u # w /\ worker'[u] = worker[u] /\ worker[u].conn \in Conns
      BY <1>2, <1>4
    <2>2. v # w
      BY <1>2, <1>3, <2>1
    <2> QED
      BY <1>2, <2>1, <2>2 DEF OnceInWorker
  <1>6. InWorker(worker[w].conn, worker[w].serial)
    BY DEF InWorker
  <1>7. ASSUME NEW d \in Conns, NEW n \in Int
        PROVE  InWorker(d, n)' <=> InWorker(d, n) /\ ~(d = worker[w].conn /\ n = worker[w].serial)
    <2>1. ASSUME NEW v \in Workers, worker'[v].conn = d, worker'[v].serial = n
          PROVE  InWorker(d, n) /\ ~(d = worker[w].conn /\ n = worker[w].serial)
      <3>1. v # w /\ worker[v].conn = d /\ worker[v].serial = n
        BY <1>2, <1>3, <2>1
      <3> QED
        BY <3>1 DEF InWorker, OnceInWorker
    <2>2. ASSUME NEW v \in Workers, worker[v].conn = d, worker[v].serial = n,
                 ~(d = worker[w].conn /\ n = worker[w].serial)
          PROVE  worker'[v].conn = d /\ worker'[v].serial = n
      <3>1. v # w
        BY <2>2
      <3> QED
        BY <1>2, <2>2, <3>1
    <2> QED
      BY <2>1, <2>2 DEF InWorker
  <1> QED
    BY <1>1, <1>5, <1>6, <1>7

\* A client reads an answer.
LEMMA GotAppend ==
    ASSUME Sane, NEW c \in Conns, NEW n0 \in Int, got' = [got EXCEPT ![c] = Append(got[c], n0)]
    PROVE  /\ Len(got[c]) \in Nat /\ Len(got'[c]) = Len(got[c]) + 1
           /\ \A d \in Conns \ {c} : got'[d] = got[d]
           /\ \A d \in Conns, n \in Int : Received(d, n)' <=> Received(d, n) \/ (d = c /\ n = n0)
  <1>1. PICK s, t : s = got[c] /\ t = Append(s, n0)
    OBVIOUS
  <1>2. s \in Seq(Int)
    BY <1>1 DEF Sane, TypeOK
  <1>3. /\ Len(s) \in Nat /\ Len(t) = Len(s) + 1
        /\ \A i \in 1..Len(s) : t[i] = s[i]
        /\ t[Len(s) + 1] = n0
    BY <1>1, <1>2, AppendIs
  <1>4. got'[c] = t /\ \A d \in Conns \ {c} : got'[d] = got[d]
    BY <1>1 DEF Sane, TypeOK
  <1>5. /\ \A i \in 1..Len(t) : i \in 1..Len(s) \/ i = Len(s) + 1
        /\ Len(s) + 1 \in 1..Len(t)
        /\ \A i \in 1..Len(s) : i \in 1..Len(t)
    BY <1>3
  <1>6. \A n \in Int : (\E i \in 1..Len(t) : t[i] = n) <=> (\E i \in 1..Len(s) : s[i] = n) \/ n = n0
    BY <1>3, <1>5
  <1>7. \A n \in Int : Received(c, n)' <=> Received(c, n) \/ n = n0
    BY <1>1, <1>4, <1>6 DEF Received
  <1>8. \A d \in Conns \ {c}, n \in Int : Received(d, n)' <=> Received(d, n)
    BY <1>4 DEF Received
  <1> QED
    BY <1>1, <1>3, <1>4, <1>7, <1>8
\* One command's move to place i of the six, or out of sight when i is 0.
Moved(c0, n0, i) ==
    \A c \in Conns, n \in Int :
        /\ InInbox(c, n)' <=> IF c = c0 /\ n = n0 THEN i = 1 ELSE InInbox(c, n)
        /\ InReader(c, n)' <=> IF c = c0 /\ n = n0 THEN i = 2 ELSE InReader(c, n)
        /\ InJobQueue(c, n)' <=> IF c = c0 /\ n = n0 THEN i = 3 ELSE InJobQueue(c, n)
        /\ InWorker(c, n)' <=> IF c = c0 /\ n = n0 THEN i = 4 ELSE InWorker(c, n)
        /\ InOutQueue(c, n)' <=> IF c = c0 /\ n = n0 THEN i = 5 ELSE InOutQueue(c, n)
        /\ Received(c, n)' <=> IF c = c0 /\ n = n0 THEN i = 6 ELSE Received(c, n)

\* Nothing moves.
Unmoved ==
    \A c \in Conns, n \in Int :
        /\ InInbox(c, n)' <=> InInbox(c, n)
        /\ InReader(c, n)' <=> InReader(c, n)
        /\ InJobQueue(c, n)' <=> InJobQueue(c, n)
        /\ InWorker(c, n)' <=> InWorker(c, n)
        /\ InOutQueue(c, n)' <=> InOutQueue(c, n)
        /\ Received(c, n)' <=> Received(c, n)

\* What excuses a missing command is never taken back.
Excuses ==
    /\ panicked => panicked'
    /\ \A c \in Conns : (cancelled[c] => cancelled'[c]) /\ (dropped[c] => dropped'[c])
    /\ UNCHANGED scraps

Conserved == Once /\ Owned /\ Apart /\ Complete

\* A command in one place is in no other, and was sent.
LEMMA ApartIs ==
    ASSUME Apart, NEW c \in Conns, NEW n \in Int
    PROVE  /\ InInbox(c, n) => ~InReader(c, n) /\ ~InJobQueue(c, n) /\ ~InWorker(c, n)
                               /\ ~InOutQueue(c, n) /\ ~Received(c, n) /\ n \in Known(sent[c], scraps[c])
           /\ InReader(c, n) => ~InInbox(c, n) /\ ~InJobQueue(c, n) /\ ~InWorker(c, n)
                               /\ ~InOutQueue(c, n) /\ ~Received(c, n) /\ n \in Known(sent[c], scraps[c])
           /\ InJobQueue(c, n) => ~InInbox(c, n) /\ ~InReader(c, n) /\ ~InWorker(c, n)
                               /\ ~InOutQueue(c, n) /\ ~Received(c, n) /\ n \in Known(sent[c], scraps[c])
           /\ InWorker(c, n) => ~InInbox(c, n) /\ ~InReader(c, n) /\ ~InJobQueue(c, n)
                               /\ ~InOutQueue(c, n) /\ ~Received(c, n) /\ n \in Known(sent[c], scraps[c])
           /\ InOutQueue(c, n) => ~InInbox(c, n) /\ ~InReader(c, n) /\ ~InJobQueue(c, n)
                               /\ ~InWorker(c, n) /\ ~Received(c, n) /\ n \in Known(sent[c], scraps[c])
           /\ Received(c, n) => n \in Known(sent[c], scraps[c])
  <1>1. /\ \A i, j \in 1..6 : Places(c, n)[i] /\ Places(c, n)[j] => i = j
        /\ \A i \in 1..6 : Places(c, n)[i] => n \in Known(sent[c], scraps[c])
    BY DEF Apart
  <1> QED
    BY <1>1, PlacesAre

\* The places after a move, by number.
LEMMA MovedIs ==
    ASSUME NEW c0 \in Conns, NEW n0 \in Int, NEW i \in 0..6, Moved(c0, n0, i),
           NEW c \in Conns, NEW n \in Int, NEW k \in 1..6
    PROVE  Places(c, n)'[k] <=> IF c = c0 /\ n = n0 THEN i = k ELSE Places(c, n)[k]
  <1>1. /\ Places(c, n)[1] = InInbox(c, n) /\ Places(c, n)[2] = InReader(c, n)
        /\ Places(c, n)[3] = InJobQueue(c, n) /\ Places(c, n)[4] = InWorker(c, n)
        /\ Places(c, n)[5] = InOutQueue(c, n) /\ Places(c, n)[6] = Received(c, n)
    BY PlacesAre
  <1>2. /\ Places(c, n)'[1] = InInbox(c, n)' /\ Places(c, n)'[2] = InReader(c, n)'
        /\ Places(c, n)'[3] = InJobQueue(c, n)' /\ Places(c, n)'[4] = InWorker(c, n)'
        /\ Places(c, n)'[5] = InOutQueue(c, n)' /\ Places(c, n)'[6] = Received(c, n)'
    BY DEF Places
  <1>3. k = 1 \/ k = 2 \/ k = 3 \/ k = 4 \/ k = 5 \/ k = 6
    OBVIOUS
  <1> QED
    BY <1>1, <1>2, <1>3 DEF Moved

\* A move keeps commands apart and complete, if what it loses is excused.
LEMMA MoveKeeps ==
    ASSUME Sane, Sane', Apart, Complete, NEW c0 \in Conns, NEW n0 \in Int, NEW i \in 0..6,
           Moved(c0, n0, i), Excuses, n0 \in Known(sent'[c0], scraps'[c0]),
           \A c \in Conns : sent[c] <= sent'[c],
           \A c \in Conns, n \in Int : n \in 1..sent'[c] /\ n \notin 1..sent[c] => c = c0 /\ n = n0,
           i = 0 => panicked' \/ cancelled'[c0] \/ dropped'[c0]
    PROVE  Apart' /\ Complete'
  <1>1. \A c \in Conns, n \in Int, k \in 1..6 :
           Places(c, n)'[k] <=> IF c = c0 /\ n = n0 THEN i = k ELSE Places(c, n)[k]
    BY MovedIs
  <1>2. \A c \in Conns : sent[c] \in Nat /\ sent'[c] \in Nat
    BY DEF Sane, TypeOK
  <1>3. ASSUME NEW c \in Conns, NEW n \in Int, NEW k \in 1..6, Places(c, n)'[k]
        PROVE  n \in Known(sent'[c], scraps'[c]) /\ \A j \in 1..6 : Places(c, n)'[j] => j = k
    <2>1. CASE c = c0 /\ n = n0
      BY <1>1, <1>3, <2>1
    <2>2. CASE ~(c = c0 /\ n = n0)
      <3>1. Places(c, n)[k] /\ \A j \in 1..6 : Places(c, n)'[j] => Places(c, n)[j]
        BY <1>1, <1>3, <2>2
      <3>2. n \in Known(sent[c], scraps[c]) /\ \A j \in 1..6 : Places(c, n)[j] => j = k
        BY <3>1 DEF Apart
      <3>3. n \in Known(sent'[c], scraps'[c])
        BY <1>2, <3>2 DEF Known, Excuses
      <3> QED
        BY <3>1, <3>2, <3>3
    <2> QED
      BY <2>1, <2>2
  <1>4. Apart'
    BY <1>3 DEF Apart
  <1>5. ASSUME NEW c \in Conns, ~panicked', ~cancelled'[c], ~dropped'[c], scraps'[c] = 0, NEW n \in 1..sent'[c]
        PROVE  \E k \in 1..6 : Places(c, n)'[k]
    <2>1. n \in Int
      BY <1>2
    <2>2. CASE c = c0 /\ n = n0
      <3>1. i \in 1..6
        BY <1>5, <2>2
      <3> QED
        BY <1>1, <2>1, <2>2, <3>1
    <2>3. CASE ~(c = c0 /\ n = n0)
      <3>1. n \in 1..sent[c]
        BY <2>1, <2>3
      <3>2. \E k \in 1..6 : Places(c, n)[k]
        BY <1>5, <3>1 DEF Complete, Excuses
      <3> QED
        BY <1>1, <2>1, <2>3, <3>2
    <2> QED
      BY <2>2, <2>3
  <1>6. Complete'
    BY <1>5 DEF Complete
  <1> QED
    BY <1>4, <1>6

\* So does a step that moves nothing.
LEMMA UnmovedKeeps ==
    ASSUME Apart, Complete, Unmoved, Excuses, UNCHANGED <<scraps, sent>>, sent \in [Conns -> Nat]
    PROVE  Apart' /\ Complete'
  <1>1. ASSUME NEW c \in Conns, NEW n \in Int, NEW k \in 1..6
        PROVE  Places(c, n)'[k] <=> Places(c, n)[k]
    <2>1. /\ Places(c, n)[1] = InInbox(c, n) /\ Places(c, n)[2] = InReader(c, n)
          /\ Places(c, n)[3] = InJobQueue(c, n) /\ Places(c, n)[4] = InWorker(c, n)
          /\ Places(c, n)[5] = InOutQueue(c, n) /\ Places(c, n)[6] = Received(c, n)
      BY PlacesAre
    <2>2. /\ Places(c, n)'[1] = InInbox(c, n)' /\ Places(c, n)'[2] = InReader(c, n)'
          /\ Places(c, n)'[3] = InJobQueue(c, n)' /\ Places(c, n)'[4] = InWorker(c, n)'
          /\ Places(c, n)'[5] = InOutQueue(c, n)' /\ Places(c, n)'[6] = Received(c, n)'
      BY DEF Places
    <2>3. k = 1 \/ k = 2 \/ k = 3 \/ k = 4 \/ k = 5 \/ k = 6
      OBVIOUS
    <2> QED
      BY <2>1, <2>2, <2>3 DEF Unmoved
  <1>2. Apart'
    BY <1>1 DEF Apart
  <1>3. \A c \in Conns : \A n \in 1..sent[c] : n \in Int
    OBVIOUS
  <1>4. Complete'
    BY <1>1, <1>3 DEF Complete, Excuses
  <1> QED
    BY <1>2, <1>4

\* What a step leaves alone stays where it is.
LEMMA Frame ==
    ASSUME NEW c, NEW n
    PROVE  /\ inbox' = inbox => (InInbox(c, n)' <=> InInbox(c, n))
           /\ jobQueue' = jobQueue => (InJobQueue(c, n)' <=> InJobQueue(c, n))
           /\ worker' = worker => (InWorker(c, n)' <=> InWorker(c, n))
           /\ outQueue' = outQueue => (InOutQueue(c, n)' <=> InOutQueue(c, n))
           /\ got' = got => (Received(c, n)' <=> Received(c, n))
           /\ (reader'[c] = reader[c] /\ (reader[c] = "incr" => Held(c)' = Held(c)))
                 => (InReader(c, n)' <=> InReader(c, n))
           /\ reader[c] # "incr" => ~InReader(c, n)
           /\ reader'[c] # "incr" => ~InReader(c, n)'
  BY DEF InInbox, InJobQueue, InWorker, InOutQueue, Received, InReader

\* A queue that is left alone holds no command twice.
LEMMA OnceFrame ==
    /\ inbox' = inbox /\ OnceInInbox /\ Owned => OnceInInbox' /\ Owned'
    /\ jobQueue' = jobQueue /\ OnceInJobQueue => OnceInJobQueue'
    /\ worker' = worker /\ OnceInWorker => OnceInWorker'
    /\ outQueue' = outQueue /\ OnceInOutQueue => OnceInOutQueue'
  BY DEF OnceInInbox, Owned, OnceInJobQueue, OnceInWorker, OnceInOutQueue

\* A client sends: the new command is in the inbox.
LEMMA SendMoves ==
    ASSUME Sane, Conserved, NEW c \in Conns, NEW command \in Commands, Send(c, command)
    PROVE  Conserved' /\ Moved(c, sent[c] + 1, 1)
  <1>1. PICK j \in Job :
              /\ j.conn = c /\ j.serial = sent[c] + 1
              /\ inbox' = [inbox EXCEPT ![c] = Append(inbox[c], j)]
              /\ sent' = [sent EXCEPT ![c] = sent[c] + 1]
              /\ UNCHANGED <<scraps, got, buffer, readBuf, reader, cancelled, outQueue, jobQueue, worker, panicked, dropped>>
    BY SendIs
  <1>2. sent[c] \in Nat /\ sent[c] + 1 \in Int /\ sent[c] + 1 \notin Known(sent[c], scraps[c])
    BY DEF Sane, TypeOK, Known
  <1>3. /\ ~InInbox(c, sent[c] + 1) /\ ~InReader(c, sent[c] + 1) /\ ~InJobQueue(c, sent[c] + 1)
        /\ ~InWorker(c, sent[c] + 1) /\ ~InOutQueue(c, sent[c] + 1) /\ ~Received(c, sent[c] + 1)
    BY <1>2, ApartIs DEF Conserved
  <1>4. OnceInInbox' /\ Owned'
        /\ \A d \in Conns, n \in Int : InInbox(d, n)' <=> InInbox(d, n) \/ (d = c /\ n = sent[c] + 1)
    <2>1. OnceInInbox /\ Owned /\ ~InInbox(c, j.serial)
      BY <1>1, <1>3 DEF Conserved, Once
    <2>2. OnceInInbox' /\ Owned'
          /\ \A d \in Conns, n \in Int : InInbox(d, n)' <=> InInbox(d, n) \/ (d = c /\ n = j.serial)
      BY <1>1, <2>1, InboxAppend
    <2> QED
      BY <1>1, <2>2
  <1>5. Once'
    BY <1>1, <1>4, OnceFrame DEF Conserved, Once
  <1>6. \A d \in Conns, n \in Int :
           /\ InReader(d, n)' <=> InReader(d, n)
           /\ InJobQueue(d, n)' <=> InJobQueue(d, n)
           /\ InWorker(d, n)' <=> InWorker(d, n)
           /\ InOutQueue(d, n)' <=> InOutQueue(d, n)
           /\ Received(d, n)' <=> Received(d, n)
    BY <1>1, Frame DEF Held
  <1>7. Moved(c, sent[c] + 1, 1)
    BY <1>3, <1>4, <1>6 DEF Moved
  <1>8. /\ sent'[c] = sent[c] + 1 /\ \A d \in Conns \ {c} : sent'[d] = sent[d]
        /\ \A d \in Conns : sent[d] \in Nat
    BY <1>1 DEF Sane, TypeOK
  <1>9. /\ \A d \in Conns : sent[d] <= sent'[d]
        /\ \A d \in Conns, n \in Int : n \in 1..sent'[d] /\ n \notin 1..sent[d] => d = c /\ n = sent[c] + 1
        /\ sent[c] + 1 \in Known(sent'[c], scraps'[c])
    BY <1>8 DEF Known
  <1>10. Excuses
    BY <1>1 DEF Excuses
  <1>11. Sane'
    BY SendSane
  <1>12. Apart' /\ Complete'
    BY <1>2, <1>7, <1>9, <1>10, <1>11, MoveKeeps DEF Conserved, Excuses
  <1> QED
    BY <1>4, <1>5, <1>7, <1>12 DEF Conserved

\* The network loses commands in pieces that are none, and makes no command.
LEMMA NetworkMoves ==
    ASSUME Sane, Conserved, NEW c \in Conns, Network(c)
    PROVE  Conserved' /\ scraps'[c] # 0
  <1>1. PICK s \in Seq(Job), t \in {1, 2}, d \in {-1, 1} :
              /\ inbox' = [inbox EXCEPT ![c] = s]
              /\ scraps' = [scraps EXCEPT ![c] = scraps[c] + t]
              /\ \A i \in 1..Len(s) :
                    \/ i <= t /\ s[i].conn = c /\ s[i].serial = -(scraps[c] + i)
                    \/ i > t /\ i + d \in 1..Len(inbox[c]) /\ s[i] = inbox[c][i + d]
    BY NetworkIs
  <1>2. /\ inbox'[c] = s /\ \A e \in Conns \ {c} : inbox'[e] = inbox[e]
        /\ scraps'[c] = scraps[c] + t /\ \A e \in Conns \ {c} : scraps'[e] = scraps[e]
        /\ \A e \in Conns : scraps[e] \in Nat /\ sent[e] \in Nat
        /\ inbox[c] \in Seq(Job) /\ Len(inbox[c]) \in Nat /\ Len(s) \in Nat
    BY <1>1 DEF Sane, TypeOK
  <1>3. UNCHANGED <<sent, got, buffer, readBuf, reader, cancelled, outQueue, jobQueue, worker, panicked, dropped>>
    BY DEF Network, Coalesce, Cut, pool
  <1>4. ASSUME NEW k \in 1..Len(inbox[c])
        PROVE  /\ inbox[c][k].serial \in Known(sent[c], scraps[c]) /\ inbox[c][k].conn = c
               /\ inbox[c][k].serial \in Int
    <2>1. inbox[c][k] \in Job
      BY <1>2, ElementIs
    <2>2. inbox[c][k].serial \in Int /\ InInbox(c, inbox[c][k].serial)
      BY <2>1, JobIs DEF InInbox
    <2> QED
      BY <2>2, ApartIs DEF Conserved, Owned
  <1>5. \A i \in 1..Len(s) : i <= t => s[i].serial \notin Known(sent[c], scraps[c])
    BY <1>1, <1>2 DEF Known
  <1>6. ASSUME NEW i \in 1..Len(s), NEW j \in 1..Len(s), s[i].serial = s[j].serial PROVE i = j
    <2>1. CASE i <= t /\ j <= t
      BY <1>1, <1>2, <1>6, <2>1
    <2>2. CASE i > t /\ j > t
      <3>1. /\ i + d \in 1..Len(inbox[c]) /\ j + d \in 1..Len(inbox[c])
            /\ inbox[c][i + d].serial = inbox[c][j + d].serial
        BY <1>1, <1>6, <2>2
      <3>2. i + d = j + d
        BY <3>1 DEF Conserved, Once, OnceInInbox
      <3> QED
        BY <1>2, <3>2
    <2>3. CASE i <= t /\ j > t
      BY <1>1, <1>4, <1>5, <1>6, <2>3
    <2>4. CASE i > t /\ j <= t
      BY <1>1, <1>4, <1>5, <1>6, <2>4
    <2> QED
      BY <1>2, <2>1, <2>2, <2>3, <2>4
  <1>7. \A i \in 1..Len(s) : s[i].conn = c
    BY <1>1, <1>4
  <1>8. OnceInInbox' /\ Owned'
    <2>1. \A e \in Conns \ {c} : /\ \A i, j \in 1..Len(inbox[e]) : inbox[e][i].serial = inbox[e][j].serial => i = j
                                 /\ \A i \in 1..Len(inbox[e]) : inbox[e][i].conn = e
      BY DEF Conserved, Once, OnceInInbox, Owned
    <2>2. OnceInInbox'
      BY <1>2, <1>6, <2>1 DEF OnceInInbox
    <2>3. Owned'
      BY <1>2, <1>7, <2>1 DEF Owned
    <2> QED
      BY <2>2, <2>3
  <1>9. Once'
    BY <1>3, <1>8, OnceFrame DEF Conserved, Once
  <1>10. \A e \in Conns, n \in Int :
           /\ InReader(e, n)' <=> InReader(e, n)
           /\ InJobQueue(e, n)' <=> InJobQueue(e, n)
           /\ InWorker(e, n)' <=> InWorker(e, n)
           /\ InOutQueue(e, n)' <=> InOutQueue(e, n)
           /\ Received(e, n)' <=> Received(e, n)
    BY <1>3, Frame DEF Held
  <1>11. \A e \in Conns \ {c}, n \in Int : InInbox(e, n)' <=> InInbox(e, n)
    BY <1>2 DEF InInbox
  <1>12. ASSUME NEW n \in Int, InInbox(c, n)'
         PROVE  InInbox(c, n) \/ (n \notin Known(sent[c], scraps[c]) /\ n \in Known(sent[c], scraps'[c]))
    <2>1. PICK i \in 1..Len(s) : s[i].serial = n
      BY <1>2, <1>12 DEF InInbox
    <2>2. CASE i <= t
      <3>1. n = -(scraps[c] + i)
        BY <1>1, <2>1, <2>2
      <3> QED
        BY <1>2, <1>5, <2>1, <2>2, <3>1 DEF Known
    <2>3. CASE i > t
      BY <1>1, <2>1, <2>3 DEF InInbox
    <2> QED
      BY <1>2, <2>2, <2>3
  <1>13. \A e \in Conns, n \in Int : n \in Known(sent[e], scraps[e]) => n \in Known(sent'[e], scraps'[e])
    BY <1>2, <1>3 DEF Known
  <1>14. ASSUME NEW e \in Conns, NEW n \in Int, NEW k \in 1..6, Places(e, n)'[k]
         PROVE  n \in Known(sent'[e], scraps'[e]) /\ \A j \in 1..6 : Places(e, n)'[j] => j = k
    <2>1. /\ Places(e, n)'[1] = InInbox(e, n)' /\ Places(e, n)'[2] = InReader(e, n)'
          /\ Places(e, n)'[3] = InJobQueue(e, n)' /\ Places(e, n)'[4] = InWorker(e, n)'
          /\ Places(e, n)'[5] = InOutQueue(e, n)' /\ Places(e, n)'[6] = Received(e, n)'
      BY DEF Places
    <2>2. k = 1 \/ k = 2 \/ k = 3 \/ k = 4 \/ k = 5 \/ k = 6
      OBVIOUS
    <2>3. \A j \in 1..6 : j = 1 \/ j = 2 \/ j = 3 \/ j = 4 \/ j = 5 \/ j = 6
      OBVIOUS
    <2>4. CASE InInbox(e, n)' => InInbox(e, n)
      <3>1. \A j \in 1..6 : Places(e, n)'[j] => Places(e, n)[j]
        BY <1>10, <2>1, <2>3, <2>4, PlacesAre
      <3>2. n \in Known(sent[e], scraps[e]) /\ \A j \in 1..6 : Places(e, n)[j] => j = k
        BY <1>14, <3>1 DEF Conserved, Apart
      <3> QED
        BY <1>13, <3>1, <3>2
    <2>5. CASE ~(InInbox(e, n)' => InInbox(e, n))
      <3>1. e = c /\ n \notin Known(sent[c], scraps[c]) /\ n \in Known(sent[c], scraps'[c])
        BY <1>11, <1>12, <2>5
      <3>2. /\ ~InReader(c, n) /\ ~InJobQueue(c, n) /\ ~InWorker(c, n)
            /\ ~InOutQueue(c, n) /\ ~Received(c, n)
        BY <3>1, ApartIs DEF Conserved
      <3>3. \A j \in 1..6 : Places(e, n)'[j] => j = 1
        BY <1>10, <2>1, <2>3, <3>1, <3>2
      <3> QED
        BY <1>3, <1>14, <3>1, <3>3
    <2> QED
      BY <2>4, <2>5
  <1>15. Apart'
    BY <1>14 DEF Apart
  <1>16. scraps'[c] # 0
    BY <1>1, <1>2
  <1>17. ASSUME NEW e \in Conns, ~panicked', ~cancelled'[e], ~dropped'[e], scraps'[e] = 0, NEW n \in 1..sent'[e]
         PROVE  \E k \in 1..6 : Places(e, n)'[k]
    <2>1. e \in Conns \ {c} /\ n \in 1..sent[e] /\ n \in Int
      BY <1>2, <1>3, <1>16, <1>17
    <2>2. PICK k \in 1..6 : Places(e, n)[k]
      BY <1>2, <1>3, <1>17, <2>1 DEF Conserved, Complete
    <2>3. k = 1 \/ k = 2 \/ k = 3 \/ k = 4 \/ k = 5 \/ k = 6
      OBVIOUS
    <2>4. /\ Places(e, n)'[1] = InInbox(e, n)' /\ Places(e, n)'[2] = InReader(e, n)'
          /\ Places(e, n)'[3] = InJobQueue(e, n)' /\ Places(e, n)'[4] = InWorker(e, n)'
          /\ Places(e, n)'[5] = InOutQueue(e, n)' /\ Places(e, n)'[6] = Received(e, n)'
      BY DEF Places
    <2>5. Places(e, n)'[k]
      BY <1>10, <1>11, <2>1, <2>2, <2>3, <2>4, PlacesAre
    <2> QED
      BY <2>5
  <1>18. Complete'
    BY <1>17 DEF Complete
  <1> QED
    BY <1>8, <1>9, <1>15, <1>16, <1>18 DEF Conserved

\* A client reads an answer, or the answer is lost with its connection.
LEMMA WriteMoves ==
    ASSUME Sane, Conserved, NEW c \in Conns, WriteLoop(c) \/ WriteFails(c)
    PROVE  /\ Conserved' /\ InOutQueue(c, Head(outQueue[c])) /\ Head(outQueue[c]) \in Int
           /\ WriteLoop(c) => Moved(c, Head(outQueue[c]), 6)
           /\ WriteFails(c) => Moved(c, Head(outQueue[c]), 0)
  <1>1. PICK n0 : n0 = Head(outQueue[c])
    OBVIOUS
  <1>2. /\ outQueue[c] # <<>> /\ outQueue' = [outQueue EXCEPT ![c] = Tail(outQueue[c])]
        /\ UNCHANGED <<inbox, scraps, sent, readBuf, reader, jobQueue, worker, panicked, buffer, dropped>>
    BY DEF WriteLoop, WriteFails, conns, pool
  <1>3. /\ OnceInOutQueue' /\ InOutQueue(c, n0) /\ n0 \in Int
        /\ \A d \in Conns, n \in Int : InOutQueue(d, n)' <=> InOutQueue(d, n) /\ ~(d = c /\ n = n0)
    BY <1>1, <1>2, OutTail DEF Conserved, Once
  <1>4. /\ ~InInbox(c, n0) /\ ~InReader(c, n0) /\ ~InJobQueue(c, n0) /\ ~InWorker(c, n0)
        /\ ~Received(c, n0) /\ n0 \in Known(sent[c], scraps[c])
    BY <1>3, ApartIs DEF Conserved
  <1>5. Once' /\ Owned'
    BY <1>2, <1>3, OnceFrame DEF Conserved, Once
  <1>6. \A d \in Conns, n \in Int :
           /\ InReader(d, n)' <=> InReader(d, n)
           /\ InJobQueue(d, n)' <=> InJobQueue(d, n)
           /\ InWorker(d, n)' <=> InWorker(d, n)
           /\ InInbox(d, n)' <=> InInbox(d, n)
    BY <1>2, Frame DEF Held
  <1>7. CASE WriteLoop(c)
    <2>1. got' = [got EXCEPT ![c] = Append(got[c], n0)]
      BY <1>1, <1>7 DEF WriteLoop
    <2>2. \A d \in Conns, n \in Int : Received(d, n)' <=> Received(d, n) \/ (d = c /\ n = n0)
      BY <1>3, <2>1, GotAppend
    <2>3. Moved(c, n0, 6)
      BY <1>3, <1>4, <1>6, <2>2 DEF Moved
    <2>4. Excuses
      BY <1>2, <1>7 DEF Excuses, WriteLoop
    <2>5. Sane' /\ sent' = sent /\ \A d \in Conns : sent[d] \in Nat
      BY <1>2, WriteSane DEF Sane, TypeOK
    <2>6. Apart' /\ Complete'
      BY <1>3, <1>4, <2>3, <2>4, <2>5, MoveKeeps DEF Conserved, Excuses
    <2>7. ~WriteFails(c)
      BY <1>2, <1>7, <2>2, <1>3, <1>4, Frame DEF WriteFails, conns
    <2> QED
      BY <1>1, <1>3, <1>5, <2>3, <2>6, <2>7 DEF Conserved
  <1>8. CASE WriteFails(c)
    <2>1. \A d \in Conns, n \in Int : Received(d, n)' <=> Received(d, n)
      BY <1>8, Frame DEF WriteFails, conns
    <2>2. Moved(c, n0, 0)
      BY <1>3, <1>4, <1>6, <2>1 DEF Moved
    <2>3. Excuses /\ cancelled'[c]
      BY <1>2, <1>8 DEF Excuses, WriteFails, Sane, TypeOK
    <2>4. Sane' /\ sent' = sent /\ \A d \in Conns : sent[d] \in Nat
      BY <1>2, WriteSane DEF Sane, TypeOK
    <2>5. Apart' /\ Complete'
      BY <1>3, <1>4, <2>2, <2>3, <2>4, MoveKeeps DEF Conserved, Excuses
    <2>6. ~WriteLoop(c)
      <3>1. SUFFICES ASSUME WriteLoop(c) PROVE FALSE
        OBVIOUS
      <3>2. got' = [got EXCEPT ![c] = Append(got[c], n0)]
        BY <1>1, <3>1 DEF WriteLoop
      <3>3. Received(c, n0)'
        BY <1>3, <3>2, GotAppend
      <3> QED
        BY <1>3, <1>4, <2>1, <3>3
    <2> QED
      BY <1>1, <1>3, <1>5, <2>2, <2>5, <2>6 DEF Conserved
  <1> QED
    BY <1>7, <1>8

\* An answer that the reading goroutine or a worker gives moves the command to the
\* queue of answers, or loses it with an excuse.
LEMMA AnswerMoves ==
    ASSUME Sane, Conserved, NEW c \in Conns, NEW n0 \in Int, Respond(c, n0),
           InInbox(c, n0) \/ InReader(c, n0) \/ InWorker(c, n0), cancelled' = cancelled,
           \A d \in Conns, n \in Int :
              /\ InInbox(d, n)' <=> InInbox(d, n) /\ ~(d = c /\ n = n0)
              /\ InReader(d, n)' <=> InReader(d, n) /\ ~(d = c /\ n = n0)
              /\ InJobQueue(d, n)' <=> InJobQueue(d, n)
              /\ InWorker(d, n)' <=> InWorker(d, n) /\ ~(d = c /\ n = n0)
              /\ Received(d, n)' <=> Received(d, n),
           Sane', OnceInInbox', OnceInJobQueue', OnceInWorker', Owned', UNCHANGED <<scraps, sent, panicked>>
    PROVE  /\ Conserved' /\ \E i \in {0, 5} : Moved(c, n0, i)
           /\ (\E d \in Conns : dropped'[d] /\ ~dropped[d]) => Len(outQueue[c]) >= OutCap
  <1>1. ~InOutQueue(c, n0) /\ ~InJobQueue(c, n0) /\ ~Received(c, n0) /\ n0 \in Known(sent[c], scraps[c])
    BY ApartIs DEF Conserved
  <1>2. /\ OnceInOutQueue'
        /\ \A d \in Conns : dropped[d] => dropped'[d]
        /\ (\E d \in Conns : dropped'[d] /\ ~dropped[d]) => Len(outQueue[c]) >= OutCap
        /\ \/ \A d \in Conns, n \in Int : InOutQueue(d, n)' <=> InOutQueue(d, n) \/ (d = c /\ n = n0)
           \/ /\ \A d \in Conns, n \in Int : InOutQueue(d, n)' <=> InOutQueue(d, n)
              /\ dropped'[c] \/ cancelled[c]
    BY <1>1, RespondMoves DEF Conserved, Once
  <1>3. Excuses /\ \A d \in Conns : sent'[d] = sent[d] /\ sent[d] \in Nat
    BY <1>2 DEF Excuses, Sane, TypeOK
  <1>4. CASE \A d \in Conns, n \in Int : InOutQueue(d, n)' <=> InOutQueue(d, n) \/ (d = c /\ n = n0)
    <2>1. Moved(c, n0, 5)
      BY <1>1, <1>4 DEF Moved
    <2>2. Apart' /\ Complete'
      BY <1>1, <1>3, <2>1, MoveKeeps DEF Conserved, Excuses
    <2> QED
      BY <1>2, <2>1, <2>2 DEF Conserved, Once
  <1>5. CASE /\ \A d \in Conns, n \in Int : InOutQueue(d, n)' <=> InOutQueue(d, n)
             /\ dropped'[c] \/ cancelled[c]
    <2>1. Moved(c, n0, 0)
      BY <1>1, <1>5 DEF Moved
    <2>2. Apart' /\ Complete'
      BY <1>1, <1>3, <1>5, <2>1, MoveKeeps DEF Conserved, Excuses
    <2> QED
      BY <1>2, <2>1, <2>2 DEF Conserved, Once
  <1> QED
    BY <1>2, <1>4, <1>5

\* Reading a command takes it out of the inbox, and touches no open counter.
LEMMA ReadMoves ==
    ASSUME Sane, Conserved, NEW c \in Conns, ReadNext(c),
           \A d \in Conns \ {c} : reader'[d] = reader[d],
           NEW n0, n0 = Head(inbox[c]).serial
    PROVE  /\ OnceInInbox' /\ Owned' /\ InInbox(c, n0) /\ n0 \in Int
           /\ Head(inbox[c]) \in Job /\ Head(inbox[c]).conn = c
           /\ ~InReader(c, n0) /\ ~InJobQueue(c, n0) /\ ~InWorker(c, n0) /\ ~InOutQueue(c, n0)
           /\ ~Received(c, n0) /\ n0 \in Known(sent[c], scraps[c])
           /\ \A n \in Int : ~InReader(c, n)
           /\ \A d \in Conns, n \in Int :
                 /\ InInbox(d, n)' <=> InInbox(d, n) /\ ~(d = c /\ n = n0)
                 /\ d # c => (InReader(d, n)' <=> InReader(d, n))
                 /\ Received(d, n)' <=> Received(d, n)
  <1>1. /\ OnceInInbox' /\ Owned' /\ InInbox(c, n0) /\ Head(inbox[c]).conn = c
        /\ \A d \in Conns, n \in Int : InInbox(d, n)' <=> InInbox(d, n) /\ ~(d = c /\ n = n0)
    BY InboxTail DEF Conserved, Once
  <1>2. /\ Head(inbox[c]) \in Job
        /\ \A d \in Conns : Serving(d) /\ d # c => readBuf'[buffer[d]] = readBuf[buffer[d]]
    BY ReadNextIs
  <1>3. n0 \in Int
    BY <1>2, JobIs
  <1>4. /\ ~InReader(c, n0) /\ ~InJobQueue(c, n0) /\ ~InWorker(c, n0) /\ ~InOutQueue(c, n0)
        /\ ~Received(c, n0) /\ n0 \in Known(sent[c], scraps[c])
    BY <1>1, <1>3, ApartIs DEF Conserved
  <1>5. reader[c] = "read" /\ got' = got /\ buffer' = buffer
    BY DEF ReadNext
  <1>6. \A d \in Conns : d # c /\ reader[d] = "incr" => Held(d)' = Held(d)
    BY <1>2, <1>5 DEF Serving, Held
  <1>7. \A d \in Conns, n \in Int : d # c => (InReader(d, n)' <=> InReader(d, n))
    BY <1>6, Frame
  <1>8. \A d \in Conns, n \in Int : Received(d, n)' <=> Received(d, n)
    BY <1>5, Frame
  <1>9. \A n \in Int : ~InReader(c, n)
    BY <1>5, Frame
  <1> QED
    BY <1>1, <1>2, <1>3, <1>4, <1>7, <1>8, <1>9

\* The fast path: from the inbox to the answers.
LEMMA FastMoves ==
    ASSUME Sane, Conserved, NEW c \in Conns, processFastPath(c)
    PROVE  /\ Conserved' /\ InInbox(c, Head(inbox[c]).serial) /\ Head(inbox[c]).serial \in Int
           /\ \E i \in {0, 5} : Moved(c, Head(inbox[c]).serial, i)
           /\ (\E d \in Conns : dropped'[d] /\ ~dropped[d]) => Len(outQueue[c]) >= OutCap
  <1>1. PICK n0 : n0 = Head(inbox[c]).serial
    OBVIOUS
  <1>2. /\ ReadNext(c) /\ Loop(c) /\ Respond(c, n0)
        /\ UNCHANGED <<jobQueue, worker, panicked, scraps, sent, cancelled>>
    BY <1>1 DEF processFastPath, ReadNext
  <1>3. reader'[c] # "incr" /\ \A d \in Conns \ {c} : reader'[d] = reader[d]
    BY <1>2, LoopIs
  <1>4. /\ OnceInInbox' /\ Owned' /\ InInbox(c, n0) /\ n0 \in Int
        /\ \A n \in Int : ~InReader(c, n)
        /\ \A d \in Conns, n \in Int :
              /\ InInbox(d, n)' <=> InInbox(d, n) /\ ~(d = c /\ n = n0)
              /\ d # c => (InReader(d, n)' <=> InReader(d, n))
              /\ Received(d, n)' <=> Received(d, n)
        /\ ~InWorker(c, n0)
    BY <1>1, <1>2, <1>3, ReadMoves
  <1>5. \A d \in Conns, n \in Int :
           /\ InReader(d, n)' <=> InReader(d, n) /\ ~(d = c /\ n = n0)
           /\ InJobQueue(d, n)' <=> InJobQueue(d, n)
           /\ InWorker(d, n)' <=> InWorker(d, n) /\ ~(d = c /\ n = n0)
    BY <1>2, <1>3, <1>4, Frame
  <1>6. OnceInJobQueue' /\ OnceInWorker' /\ Sane'
    BY <1>2, OnceFrame, FastSane DEF Conserved, Once
  <1> QED
    BY <1>1, <1>2, <1>4, <1>5, <1>6, AnswerMoves

\* A counter's read: from the inbox to the reading goroutine.
LEMMA CounterReadMoves ==
    ASSUME Sane, Conserved, NEW c \in Conns, CounterRead(c)
    PROVE  /\ Conserved' /\ InInbox(c, Head(inbox[c]).serial) /\ Head(inbox[c]).serial \in Int
           /\ Moved(c, Head(inbox[c]).serial, 2)
  <1>1. PICK n0 : n0 = Head(inbox[c]).serial
    OBVIOUS
  <1>2. /\ ReadNext(c) /\ reader' = [reader EXCEPT ![c] = "incr"]
        /\ UNCHANGED <<outQueue, jobQueue, worker, panicked, dropped, scraps, sent, cancelled, buffer>>
    BY DEF CounterRead, ReadNext
  <1>3. reader'[c] = "incr" /\ \A d \in Conns \ {c} : reader'[d] = reader[d]
    BY <1>2 DEF Sane, TypeOK
  <1>4. /\ OnceInInbox' /\ Owned' /\ InInbox(c, n0) /\ n0 \in Int
        /\ ~InJobQueue(c, n0) /\ ~InWorker(c, n0) /\ ~InOutQueue(c, n0)
        /\ ~Received(c, n0) /\ n0 \in Known(sent[c], scraps[c])
        /\ \A n \in Int : ~InReader(c, n)
        /\ \A d \in Conns, n \in Int :
              /\ InInbox(d, n)' <=> InInbox(d, n) /\ ~(d = c /\ n = n0)
              /\ d # c => (InReader(d, n)' <=> InReader(d, n))
              /\ Received(d, n)' <=> Received(d, n)
    BY <1>1, <1>2, <1>3, ReadMoves
  <1>5. Held(c)' = Head(inbox[c])
    BY <1>2, ReadNextIs DEF Held
  <1>6. \A n \in Int : InReader(c, n)' <=> n = n0
    BY <1>1, <1>3, <1>5 DEF InReader
  <1>7. \A d \in Conns, n \in Int :
           /\ InJobQueue(d, n)' <=> InJobQueue(d, n)
           /\ InWorker(d, n)' <=> InWorker(d, n)
           /\ InOutQueue(d, n)' <=> InOutQueue(d, n)
    BY <1>2, Frame
  <1>8. Moved(c, n0, 2)
    BY <1>4, <1>6, <1>7 DEF Moved
  <1>9. Excuses /\ Sane' /\ \A d \in Conns : sent'[d] = sent[d] /\ sent[d] \in Nat
    BY <1>2, CounterReadSane DEF Excuses, Sane, TypeOK
  <1>10. Apart' /\ Complete'
    BY <1>4, <1>8, <1>9, MoveKeeps DEF Conserved, Excuses
  <1>11. Once'
    BY <1>2, <1>4, OnceFrame DEF Conserved, Once
  <1> QED
    BY <1>1, <1>4, <1>8, <1>10, <1>11 DEF Conserved

\* Its commit: from the reading goroutine to the answers.
LEMMA CounterCommitMoves ==
    ASSUME Sane, Conserved, NEW c \in Conns, CounterCommit(c)
    PROVE  /\ Conserved' /\ InReader(c, Held(c).serial) /\ Held(c).serial \in Int
           /\ \E i \in {0, 5} : Moved(c, Held(c).serial, i)
           /\ (\E d \in Conns : dropped'[d] /\ ~dropped[d]) => Len(outQueue[c]) >= OutCap
  <1>1. PICK n0 : n0 = Held(c).serial
    OBVIOUS
  <1>2. /\ reader[c] = "incr" /\ Loop(c) /\ Respond(c, n0)
        /\ UNCHANGED <<inbox, scraps, sent, got, buffer, readBuf, cancelled, jobQueue, worker, panicked>>
    BY <1>1 DEF CounterCommit, conns, pool
  <1>3. n0 \in Int /\ InReader(c, n0)
    <2>1. Held(c) \in Job
      BY <1>2 DEF Sane, Reading
    <2> QED
      BY <1>1, <1>2, <2>1, JobIs DEF InReader
  <1>4. reader'[c] # "incr" /\ \A d \in Conns \ {c} : reader'[d] = reader[d]
    BY <1>2, LoopIs
  <1>5. ~InInbox(c, n0) /\ ~InWorker(c, n0)
    BY <1>3, ApartIs DEF Conserved
  <1>6. \A n \in Int : InReader(c, n) => n = n0
    BY <1>1 DEF InReader
  <1>7. \A d \in Conns \ {c}, n \in Int : InReader(d, n)' <=> InReader(d, n)
    BY <1>2, <1>4, Frame DEF Held
  <1>8. \A d \in Conns, n \in Int :
           /\ InInbox(d, n)' <=> InInbox(d, n) /\ ~(d = c /\ n = n0)
           /\ InReader(d, n)' <=> InReader(d, n) /\ ~(d = c /\ n = n0)
           /\ InJobQueue(d, n)' <=> InJobQueue(d, n)
           /\ InWorker(d, n)' <=> InWorker(d, n) /\ ~(d = c /\ n = n0)
           /\ Received(d, n)' <=> Received(d, n)
    BY <1>2, <1>4, <1>5, <1>6, <1>7, Frame
  <1>9. OnceInInbox' /\ OnceInJobQueue' /\ OnceInWorker' /\ Owned' /\ Sane'
    BY <1>2, OnceFrame, CounterCommitSane DEF Conserved, Once
  <1> QED
    BY <1>1, <1>2, <1>3, <1>8, <1>9, AnswerMoves

\* The slow path: from the inbox to the job queue or, if that is full, the answers; a
\* panic and a context that is done lose it.
LEMMA SlowMoves ==
    ASSUME Sane, Conserved, NEW c \in Conns, processSlowPath(c)
    PROVE  /\ Conserved' /\ InInbox(c, Head(inbox[c]).serial) /\ Head(inbox[c]).serial \in Int
           /\ \E i \in {0, 3, 5} : Moved(c, Head(inbox[c]).serial, i)
           /\ (\E d \in Conns : dropped'[d] /\ ~dropped[d]) => Len(outQueue[c]) >= OutCap
  <1>1. PICK j : j = Head(inbox[c])
    OBVIOUS
  <1>2. PICK n0 : n0 = j.serial
    OBVIOUS
  <1>3. /\ ReadNext(c) /\ Loop(c) /\ Dispatch(c, j)
        /\ UNCHANGED <<worker, scraps, sent, cancelled>>
    BY <1>1 DEF processSlowPath, ReadNext
  <1>4. reader'[c] # "incr" /\ \A d \in Conns \ {c} : reader'[d] = reader[d]
    BY <1>3, LoopIs
  <1>5. /\ OnceInInbox' /\ Owned' /\ InInbox(c, n0) /\ n0 \in Int /\ j \in Job /\ j.conn = c
        /\ ~InReader(c, n0) /\ ~InJobQueue(c, n0) /\ ~InWorker(c, n0) /\ ~InOutQueue(c, n0)
        /\ ~Received(c, n0) /\ n0 \in Known(sent[c], scraps[c])
        /\ \A n \in Int : ~InReader(c, n)
        /\ \A d \in Conns, n \in Int :
              /\ InInbox(d, n)' <=> InInbox(d, n) /\ ~(d = c /\ n = n0)
              /\ d # c => (InReader(d, n)' <=> InReader(d, n))
              /\ Received(d, n)' <=> Received(d, n)
    BY <1>1, <1>2, <1>3, <1>4, ReadMoves
  <1>6. \A d \in Conns, n \in Int :
           /\ InReader(d, n)' <=> InReader(d, n) /\ ~(d = c /\ n = n0)
           /\ InWorker(d, n)' <=> InWorker(d, n) /\ ~(d = c /\ n = n0)
    BY <1>3, <1>4, <1>5, Frame
  <1>7. OnceInWorker' /\ Sane' /\ \A d \in Conns : sent'[d] = sent[d] /\ sent[d] \in Nat
    BY <1>3, OnceFrame, SlowSane DEF Conserved, Once, Sane, TypeOK
  <1>8. CASE Len(jobQueue) < JobCap /\ jobQueue' = Append(jobQueue, j) /\ UNCHANGED <<outQueue, dropped, panicked>>
    <2>1. /\ OnceInJobQueue'
          /\ \A d \in Conns, n \in Int : InJobQueue(d, n)' <=> InJobQueue(d, n) \/ (d = c /\ n = n0)
      <3>1. OnceInJobQueue /\ ~InJobQueue(j.conn, j.serial)
        BY <1>2, <1>5 DEF Conserved, Once
      <3> QED
        BY <1>2, <1>5, <1>8, <3>1, JobAppend
    <2>2. \A d \in Conns, n \in Int : InOutQueue(d, n)' <=> InOutQueue(d, n)
      BY <1>8, Frame
    <2>3. Moved(c, n0, 3)
      BY <1>5, <1>6, <2>1, <2>2 DEF Moved
    <2>4. Excuses /\ OnceInOutQueue'
      BY <1>3, <1>8, OnceFrame DEF Excuses, Conserved, Once
    <2>5. Apart' /\ Complete'
      BY <1>5, <1>7, <2>3, <2>4, MoveKeeps DEF Conserved, Excuses
    <2> QED
      BY <1>1, <1>2, <1>5, <1>7, <1>8, <2>1, <2>3, <2>4, <2>5 DEF Conserved, Once
  <1>9. CASE Respond(c, n0) /\ UNCHANGED <<jobQueue, panicked>>
    <2>1. OnceInJobQueue' /\ \A d \in Conns, n \in Int : InJobQueue(d, n)' <=> InJobQueue(d, n)
      BY <1>9, Frame, OnceFrame DEF Conserved, Once
    <2>2. /\ Conserved' /\ \E i \in {0, 5} : Moved(c, n0, i)
          /\ (\E d \in Conns : dropped'[d] /\ ~dropped[d]) => Len(outQueue[c]) >= OutCap
      BY <1>3, <1>5, <1>6, <1>7, <1>9, <2>1, AnswerMoves
    <2> QED
      BY <1>1, <1>2, <1>5, <2>2
  <1>10. CASE /\ UNCHANGED <<outQueue, dropped, jobQueue>>
              /\ panicked' = TRUE \/ (cancelled[c] /\ panicked' = panicked)
    <2>1. /\ OnceInJobQueue' /\ OnceInOutQueue'
          /\ \A d \in Conns, n \in Int :
                /\ InJobQueue(d, n)' <=> InJobQueue(d, n)
                /\ InOutQueue(d, n)' <=> InOutQueue(d, n)
      BY <1>10, Frame, OnceFrame DEF Conserved, Once
    <2>2. Moved(c, n0, 0)
      BY <1>5, <1>6, <2>1 DEF Moved
    <2>3. Excuses /\ (panicked' \/ cancelled'[c])
      BY <1>3, <1>10 DEF Excuses
    <2>4. Apart' /\ Complete'
      BY <1>5, <1>7, <2>2, <2>3, MoveKeeps DEF Conserved, Excuses
    <2> QED
      BY <1>1, <1>2, <1>5, <1>7, <1>10, <2>1, <2>2, <2>4 DEF Conserved, Once
  <1> QED
    BY <1>2, <1>3, <1>8, <1>9, <1>10 DEF Dispatch

\* A worker takes a job.
LEMMA TakeMoves ==
    ASSUME Sane, Conserved, NEW w \in Workers, Take(w)
    PROVE  /\ Conserved' /\ Head(jobQueue) \in Job
           /\ InJobQueue(Head(jobQueue).conn, Head(jobQueue).serial)
           /\ Moved(Head(jobQueue).conn, Head(jobQueue).serial, 4)
  <1>1. PICK x : x = Head(jobQueue)
    OBVIOUS
  <1>2. UNCHANGED <<inbox, scraps, sent, got, buffer, readBuf, reader, cancelled, outQueue, panicked, dropped>>
    BY DEF Take, conns
  <1>3. x \in Job /\ InJobQueue(x.conn, x.serial)
    <2>1. jobQueue \in Seq(Job) /\ jobQueue # <<>>
      BY DEF Sane, TypeOK, Take
    <2>2. x \in Job /\ x = jobQueue[1] /\ 1 \in 1..Len(jobQueue)
      BY <1>1, <2>1, TailIs
    <2> QED
      BY <2>2 DEF InJobQueue
  <1>4. x.conn \in Conns /\ x.serial \in Int
    BY <1>3, JobIs
  <1>5. /\ ~InInbox(x.conn, x.serial) /\ ~InReader(x.conn, x.serial) /\ ~InWorker(x.conn, x.serial)
        /\ ~InOutQueue(x.conn, x.serial) /\ ~Received(x.conn, x.serial) /\ x.serial \in Known(sent[x.conn], scraps[x.conn])
    BY <1>3, <1>4, ApartIs DEF Conserved
  <1>6. /\ OnceInJobQueue' /\ OnceInWorker'
        /\ \A d \in Conns, n \in Int :
              /\ InJobQueue(d, n)' <=> InJobQueue(d, n) /\ ~(d = x.conn /\ n = x.serial)
              /\ InWorker(d, n)' <=> InWorker(d, n) \/ (d = x.conn /\ n = x.serial)
    BY <1>1, <1>5, JobTake DEF Conserved, Once
  <1>7. \A d \in Conns, n \in Int :
           /\ InInbox(d, n)' <=> InInbox(d, n)
           /\ InReader(d, n)' <=> InReader(d, n)
           /\ InOutQueue(d, n)' <=> InOutQueue(d, n)
           /\ Received(d, n)' <=> Received(d, n)
    BY <1>2, Frame DEF Held
  <1>8. Moved(x.conn, x.serial, 4)
    BY <1>5, <1>6, <1>7 DEF Moved
  <1>9. Excuses /\ Sane' /\ \A d \in Conns : sent'[d] = sent[d] /\ sent[d] \in Nat
    BY <1>2, WorkerSane DEF WorkerStep, Excuses, Sane, TypeOK
  <1>10. Apart' /\ Complete'
    BY <1>4, <1>5, <1>8, <1>9, MoveKeeps DEF Conserved, Excuses
  <1>11. Once' /\ Owned'
    BY <1>2, <1>6, OnceFrame DEF Conserved, Once
  <1> QED
    BY <1>1, <1>3, <1>8, <1>10, <1>11 DEF Conserved

\* A worker finishes a job and answers it.
LEMMA JobMoves ==
    ASSUME Sane, Conserved, NEW w \in Workers, processJob(w)
    PROVE  /\ Conserved' /\ worker[w] \in Job
           /\ InWorker(worker[w].conn, worker[w].serial)
           /\ \E i \in {0, 5} : Moved(worker[w].conn, worker[w].serial, i)
           /\ (\E d \in Conns : dropped'[d] /\ ~dropped[d]) => Len(outQueue[worker[w].conn]) >= OutCap
  <1>1. PICK c, n0 : c = worker[w].conn /\ n0 = worker[w].serial
    OBVIOUS
  <1>2. /\ worker[w] # NoJob /\ worker' = [worker EXCEPT ![w] = NoJob] /\ Respond(c, n0)
        /\ UNCHANGED <<inbox, scraps, sent, got, buffer, readBuf, reader, cancelled, jobQueue, panicked>>
    BY <1>1 DEF processJob, conns
  <1>3. /\ worker[w] \in Job /\ OnceInWorker' /\ InWorker(c, n0)
        /\ \A d \in Conns, n \in Int : InWorker(d, n)' <=> InWorker(d, n) /\ ~(d = c /\ n = n0)
    BY <1>1, <1>2, WorkerClear DEF Conserved, Once
  <1>4. c \in Conns /\ n0 \in Int
    BY <1>1, <1>3, JobIs
  <1>5. ~InInbox(c, n0) /\ ~InReader(c, n0)
    BY <1>3, <1>4, ApartIs DEF Conserved
  <1>6. \A d \in Conns, n \in Int :
           /\ InInbox(d, n)' <=> InInbox(d, n) /\ ~(d = c /\ n = n0)
           /\ InReader(d, n)' <=> InReader(d, n) /\ ~(d = c /\ n = n0)
           /\ InJobQueue(d, n)' <=> InJobQueue(d, n)
           /\ Received(d, n)' <=> Received(d, n)
    BY <1>2, <1>5, Frame DEF Held
  <1>7. OnceInInbox' /\ OnceInJobQueue' /\ Owned' /\ Sane'
    BY <1>2, OnceFrame, WorkerSane DEF WorkerStep, Conserved, Once
  <1> QED
    BY <1>1, <1>2, <1>3, <1>4, <1>6, <1>7, AnswerMoves

\* A connection that is accepted has no command under way in its reading goroutine.
LEMMA AcceptMoves ==
    ASSUME Sane, Conserved, NEW c \in Conns, Accept(c)
    PROVE  Conserved' /\ Unmoved
  <1>1. /\ reader[c] = "new" /\ reader' = [reader EXCEPT ![c] = "read"]
        /\ UNCHANGED <<inbox, scraps, sent, got, readBuf, cancelled, outQueue, jobQueue, worker, panicked, dropped>>
    BY DEF Accept, pool
  <1>2. PICK b : buffer' = [buffer EXCEPT ![c] = b]
    BY DEF Accept
  <1>3. \A d \in Conns \ {c} : reader'[d] = reader[d] /\ buffer'[d] = buffer[d]
    BY <1>1, <1>2 DEF Sane, TypeOK
  <1>4. reader'[c] = "read"
    BY <1>1 DEF Sane, TypeOK
  <1>5. \A d \in Conns, n \in Int : InReader(d, n)' <=> InReader(d, n)
    BY <1>1, <1>3, <1>4 DEF InReader, Held
  <1>6. Unmoved
    BY <1>1, <1>5, Frame DEF Unmoved
  <1>7. Excuses /\ Once' /\ Owned' /\ sent \in [Conns -> Nat]
    BY <1>1, OnceFrame DEF Excuses, Conserved, Once, Sane, TypeOK
  <1> QED
    BY <1>1, <1>6, <1>7, UnmovedKeeps DEF Conserved

\* Nor do loops that end, or Stop.
LEMMA QuietMoves ==
    ASSUME Sane, Conserved,
           \/ \E c \in Conns : ReaderExit(c) \/ WriterExit(c)
           \/ StopCancel \/ StopClose \/ StopWait
           \/ UNCHANGED vars
    PROVE  Conserved' /\ Unmoved
  <1>1. UNCHANGED <<inbox, scraps, sent, got, buffer, readBuf, outQueue, jobQueue, worker, panicked, dropped>>
    BY DEF ReaderExit, WriterExit, StopCancel, StopClose, StopWait, vars, conns, pool
  <1>2. \A d \in Conns : reader[d] = "incr" <=> reader'[d] = "incr"
    BY DEF ReaderExit, WriterExit, StopCancel, StopClose, StopWait, vars, Sane, TypeOK
  <1>3. \A d \in Conns : cancelled[d] => cancelled'[d]
    BY DEF ReaderExit, WriterExit, StopCancel, StopClose, StopWait, vars, Sane, TypeOK
  <1>4. \A d \in Conns, n \in Int : InReader(d, n)' <=> InReader(d, n)
    BY <1>1, <1>2 DEF InReader, Held
  <1>5. Unmoved
    BY <1>1, <1>4, Frame DEF Unmoved
  <1>6. Excuses /\ Once' /\ Owned' /\ sent \in [Conns -> Nat]
    BY <1>1, <1>3, OnceFrame DEF Excuses, Conserved, Once, Sane, TypeOK
  <1> QED
    BY <1>1, <1>5, <1>6, UnmovedKeeps DEF Conserved

\* Every step conserves the commands, up to what is excused.
LEMMA StepConserved == Sane /\ Conserved /\ [Next]_vars => Conserved'
  BY SendMoves, NetworkMoves, WriteMoves, FastMoves, CounterReadMoves, CounterCommitMoves, SlowMoves, TakeMoves,
     JobMoves, AcceptMoves, QuietMoves DEF Next, ReaderStep, WorkerStep
-----------------------------------------------------------------------------
(***************************************************************************)
(* Clients that wait for their answers.                                    *)
(***************************************************************************)
\* The places in which a command is under way.
LEMMA UnderWayIs ==
    ASSUME NEW c, NEW n
    PROVE  UnderWay(c, n) <=> InInbox(c, n) \/ InReader(c, n) \/ InJobQueue(c, n)
                              \/ InWorker(c, n) \/ InOutQueue(c, n)
  <1>1. \A i \in 1..5 : i = 1 \/ i = 2 \/ i = 3 \/ i = 4 \/ i = 5
    OBVIOUS
  <1> QED
    BY <1>1, PlacesAre DEF UnderWay

\* The same after a step.
LEMMA UnderWayNext ==
    ASSUME NEW c, NEW n
    PROVE  UnderWay(c, n)' <=> InInbox(c, n)' \/ InReader(c, n)' \/ InJobQueue(c, n)'
                               \/ InWorker(c, n)' \/ InOutQueue(c, n)'
  <1>1. \A i \in 1..5 : i = 1 \/ i = 2 \/ i = 3 \/ i = 4 \/ i = 5
    OBVIOUS
  <1>2. /\ Places(c, n)'[1] = InInbox(c, n)' /\ Places(c, n)'[2] = InReader(c, n)'
        /\ Places(c, n)'[3] = InJobQueue(c, n)' /\ Places(c, n)'[4] = InWorker(c, n)'
        /\ Places(c, n)'[5] = InOutQueue(c, n)'
    BY DEF Places
  <1> QED
    BY <1>1, <1>2 DEF UnderWay

\* A move of a command under way puts no other under way; an answer that is read, or
\* lost, is under way no longer.
LEMMA MovedUnderWay ==
    ASSUME NEW c0 \in Conns, NEW n0 \in Int, NEW i \in 0..6, Moved(c0, n0, i), UnderWay(c0, n0),
           NEW c \in Conns, NEW n \in Int, UnderWay(c, n)'
    PROVE  UnderWay(c, n) /\ (i \in {0, 6} => ~(c = c0 /\ n = n0))
  <1>1. InInbox(c, n)' \/ InReader(c, n)' \/ InJobQueue(c, n)' \/ InWorker(c, n)' \/ InOutQueue(c, n)'
    BY UnderWayNext
  <1>2. CASE c = c0 /\ n = n0
    BY <1>1, <1>2 DEF Moved
  <1>3. CASE ~(c = c0 /\ n = n0)
    BY <1>1, <1>3, UnderWayIs DEF Moved
  <1> QED
    BY <1>2, <1>3

\* Nor does a step that moves nothing put a command under way.
LEMMA UnmovedUnderWay ==
    ASSUME Unmoved, NEW c \in Conns, NEW n \in Int, UnderWay(c, n)'
    PROVE  UnderWay(c, n)
  BY UnderWayIs, UnderWayNext DEF Unmoved

\* A job is a command in the job queue or with a worker.
LEMMA JobsAre ==
    ASSUME Sane, NEW j \in Jobs
    PROVE  /\ j \in Job /\ j.conn \in Conns /\ j.serial \in Int
           /\ InJobQueue(j.conn, j.serial) \/ InWorker(j.conn, j.serial)
           /\ UnderWay(j.conn, j.serial)
  <1>1. CASE \E i \in 1..Len(jobQueue) : j = jobQueue[i]
    <2>1. PICK i \in 1..Len(jobQueue) : j = jobQueue[i]
      BY <1>1
    <2>2. jobQueue \in Seq(Job)
      BY DEF Sane, TypeOK
    <2>3. j \in Job
      BY <2>1, <2>2, ElementIs
    <2>4. InJobQueue(j.conn, j.serial)
      BY <2>1 DEF InJobQueue
    <2> QED
      BY <2>3, <2>4, JobIs, UnderWayIs
  <1>2. CASE \E w \in Workers : j = worker[w] /\ j # NoJob
    <2>1. PICK w \in Workers : j = worker[w] /\ j # NoJob
      BY <1>2
    <2>2. j \in Job
      BY <2>1 DEF Sane, TypeOK
    <2>3. InWorker(j.conn, j.serial)
      BY <2>1 DEF InWorker
    <2> QED
      BY <2>2, <2>3, JobIs, UnderWayIs
  <1> QED
    BY <1>1, <1>2 DEF Jobs

\* A connection with a command in its inbox or its reading goroutine has no job.
LEMMA ReadAlone ==
    ASSUME Sane, Conserved, OneUnderWay, NEW c \in Conns, NEW n0 \in Int, InInbox(c, n0) \/ InReader(c, n0),
           NEW j \in Jobs
    PROVE  j.conn # c
  <1>1. SUFFICES ASSUME j.conn = c PROVE FALSE
    OBVIOUS
  <1>2. /\ InJobQueue(c, j.serial) \/ InWorker(c, j.serial)
        /\ UnderWay(c, j.serial) /\ j.serial \in Int
    BY <1>1, JobsAre
  <1>3. UnderWay(c, n0)
    BY UnderWayIs
  <1>4. j.serial = n0
    BY <1>2, <1>3, JobsAre DEF OneUnderWay
  <1> QED
    BY <1>2, <1>4, ApartIs DEF Conserved

\* A command that is about to be answered finds room in the queue of answers.
LEMMA AnswerFits ==
    ASSUME Sane, Conserved, OneUnderWay, NEW c \in Conns, NEW n0 \in Int,
           InInbox(c, n0) \/ InReader(c, n0) \/ InWorker(c, n0)
    PROVE  ~(Len(outQueue[c]) >= OutCap)
  <1>1. SUFFICES ASSUME Len(outQueue[c]) >= OutCap PROVE FALSE
    OBVIOUS
  <1>2. outQueue[c] \in Seq(Int) /\ OutCap \in Nat \ {0}
    BY ServerAssumption DEF Sane, TypeOK
  <1>3. 1 \in 1..Len(outQueue[c])
    BY <1>1, <1>2
  <1>4. PICK n : n = outQueue[c][1]
    OBVIOUS
  <1>5. n \in Int
    BY <1>2, <1>3, <1>4, ElementIs
  <1>6. InOutQueue(c, n)
    BY <1>3, <1>4 DEF InOutQueue
  <1>7. UnderWay(c, n) /\ UnderWay(c, n0)
    BY <1>6, UnderWayIs
  <1>8. n = n0
    BY <1>5, <1>7 DEF OneUnderWay
  <1> QED
    BY <1>5, <1>6, <1>8, ApartIs DEF Conserved

\* A step that puts no command under way and drops no answer.
LEMMA StillWaiting ==
    ASSUME NoneDropped, OneUnderWay, UNCHANGED <<scraps, sent, got>>,
           \A c \in Conns : dropped'[c] => dropped[c],
           \A c \in Conns, n \in Int : UnderWay(c, n)' => UnderWay(c, n)
    PROVE  NoneDropped' /\ OneUnderWay'
  BY DEF NoneDropped, OneUnderWay, Waiting

\* A step that neither reads into a job's buffer nor ends its connection.
LEMMA StillHeld ==
    ASSUME JobsHeld, Jobs' \subseteq Jobs, UNCHANGED buffer,
           \A j \in Jobs : readBuf'[buffer[j.conn]] = readBuf[buffer[j.conn]],
           \A d \in Conns : Serving(d)' => Serving(d),
           stop' = "no" => stop = "no",
           \A j \in Jobs : stop' = "no" /\ reader[j.conn] = "read" => reader'[j.conn] = "read"
    PROVE  JobsHeld'
  <1> SUFFICES ASSUME NEW j \in Jobs'
               PROVE  /\ Held(j.conn)' = j
                      /\ \A d \in Conns : Serving(d)' /\ buffer'[d] = buffer'[j.conn] => d = j.conn
                      /\ stop' = "no" => reader'[j.conn] = "read"
    BY DEF JobsHeld
  <1>1. j \in Jobs
    OBVIOUS
  <1>2. /\ Held(j.conn) = j
        /\ \A d \in Conns : Serving(d) /\ buffer[d] = buffer[j.conn] => d = j.conn
        /\ stop = "no" => reader[j.conn] = "read"
    BY <1>1 DEF JobsHeld
  <1>3. Held(j.conn)' = Held(j.conn)
    BY <1>1 DEF Held
  <1> QED
    BY <1>1, <1>2, <1>3

\* A step that ends no context and gives a connection that has ended nothing to do.
LEMMA StillQuiet ==
    ASSUME DoneIsQuiet, stop' = "no" => stop = "no", UNCHANGED <<scraps, sent>>,
           \A c \in Conns : stop' = "no" /\ cancelled'[c] =>
              /\ cancelled[c] /\ inbox'[c] = inbox[c] /\ reader'[c] = reader[c]
              /\ got'[c] = got[c] /\ (writer'[c] => writer[c])
    PROVE  DoneIsQuiet'
  BY DEF DoneIsQuiet, Waiting

\* A new connection gets a buffer that no job points into.
LEMMA AcceptCalm ==
    ASSUME Sane, Conserved, Calm, NEW c \in Conns, Accept(c)
    PROVE  Calm'
  <1>1. /\ reader[c] = "new" /\ stop = "no" /\ reader' = [reader EXCEPT ![c] = "read"]
        /\ writer' = [writer EXCEPT ![c] = TRUE]
        /\ UNCHANGED <<inbox, scraps, sent, got, readBuf, cancelled, outQueue, jobQueue, worker, stop, dropped>>
    BY DEF Accept, pool
  <1>2. PICK b \in FreeBuffers(c) : buffer' = [buffer EXCEPT ![c] = b]
    BY DEF Accept
  <1>3. \A d \in Conns : Serving(d) => buffer[d] # b
    BY <1>2 DEF FreeBuffers
  <1>4. /\ buffer'[c] = b /\ reader'[c] = "read"
        /\ \A d \in Conns \ {c} : buffer'[d] = buffer[d] /\ reader'[d] = reader[d] /\ writer'[d] = writer[d]
    BY <1>1, <1>2 DEF Sane, TypeOK
  <1>5. NoneDropped' /\ OneUnderWay'
    BY <1>1, AcceptMoves, UnmovedUnderWay, StillWaiting DEF Calm
  <1>6. JobsHeld'
    <2> SUFFICES ASSUME NEW j \in Jobs'
                 PROVE  /\ Held(j.conn)' = j
                        /\ \A d \in Conns : Serving(d)' /\ buffer'[d] = buffer'[j.conn] => d = j.conn
                        /\ stop' = "no" => reader'[j.conn] = "read"
      BY DEF JobsHeld
    <2>1. j \in Jobs
      BY <1>1 DEF Jobs
    <2>2. /\ Held(j.conn) = j /\ reader[j.conn] = "read"
          /\ \A d \in Conns : Serving(d) /\ buffer[d] = buffer[j.conn] => d = j.conn
      BY <1>1, <2>1 DEF Calm, JobsHeld
    <2>3. j.conn \in Conns \ {c} /\ buffer'[j.conn] = buffer[j.conn] /\ reader'[j.conn] = "read"
      BY <1>1, <1>4, <2>1, <2>2, JobsAre
    <2>4. buffer[j.conn] # b
      BY <1>3, <2>2, <2>3 DEF Serving
    <2>5. ASSUME NEW d \in Conns, Serving(d)', buffer'[d] = buffer'[j.conn] PROVE d = j.conn
      <3>1. d # c
        BY <1>4, <2>3, <2>4, <2>5
      <3>2. Serving(d) /\ buffer[d] = buffer[j.conn]
        BY <1>4, <2>3, <2>5, <3>1 DEF Serving
      <3> QED
        BY <2>2, <3>2
    <2> QED
      BY <1>1, <2>2, <2>3, <2>5 DEF Held
  <1>7. ~cancelled[c]
    BY <1>1 DEF Calm, DoneIsQuiet
  <1>8. DoneIsQuiet'
    BY <1>1, <1>4, <1>7, StillQuiet DEF Calm
  <1> QED
    BY <1>5, <1>6, <1>8 DEF Calm

\* A client that waits sends when all its commands are answered.
LEMMA SendCalm ==
    ASSUME Sane, Conserved, Calm, NEW c \in Conns, NEW command \in Commands, Send(c, command), ~ahead'
    PROVE  Calm'
  <1>1. PICK j \in Job :
              /\ inbox' = [inbox EXCEPT ![c] = Append(inbox[c], j)]
              /\ sent' = [sent EXCEPT ![c] = sent[c] + 1]
              /\ ahead' = (ahead \/ Waiting(c))
              /\ reader[c] \in {"read", "incr"}
              /\ UNCHANGED <<scraps, got, buffer, readBuf, reader, writer, cancelled, jobQueue, worker, stop, dropped>>
    BY SendIs
  <1>2. ~Waiting(c)
    BY <1>1
  <1>3. /\ sent'[c] = sent[c] + 1 /\ sent[c] \in Nat /\ \A d \in Conns \ {c} : sent'[d] = sent[d]
        /\ \A d \in Conns \ {c} : inbox'[d] = inbox[d]
        /\ \A d \in Conns : Len(got[d]) \in Nat /\ sent[d] \in Nat
    BY <1>1 DEF Sane, TypeOK
  <1>4. NoneDropped'
    BY <1>1, <1>3 DEF Calm, NoneDropped
  <1>5. OneUnderWay'
    <2> SUFFICES ASSUME NEW d \in Conns, NEW n \in Int, UnderWay(d, n)'
                 PROVE  n = sent'[d] /\ Waiting(d)'
      BY DEF OneUnderWay
    <2>1. InInbox(d, n)' \/ InReader(d, n)' \/ InJobQueue(d, n)' \/ InWorker(d, n)' \/ InOutQueue(d, n)'
      BY UnderWayNext
    <2>2. CASE d = c /\ n = sent[c] + 1
      BY <1>1, <1>3, <2>2 DEF Waiting, Calm, NoneDropped
    <2>3. CASE ~(d = c /\ n = sent[c] + 1)
      <3>1. Moved(c, sent[c] + 1, 1)
        BY SendMoves
      <3>2. UnderWay(d, n)
        BY <2>1, <2>3, <3>1, UnderWayIs DEF Moved
      <3>3. n = sent[d] /\ Waiting(d)
        BY <3>2 DEF Calm, OneUnderWay
      <3>4. d # c
        BY <1>2, <3>3
      <3> QED
        BY <1>1, <1>3, <3>3, <3>4 DEF Waiting
    <2> QED
      BY <2>2, <2>3
  <1>6. JobsHeld'
    BY <1>1, StillHeld DEF Calm, Jobs, Serving
  <1>7. stop = "no" => ~cancelled[c]
    BY <1>1, <1>2 DEF Calm, DoneIsQuiet
  <1>8. DoneIsQuiet'
    BY <1>1, <1>3, <1>7 DEF Calm, DoneIsQuiet, Waiting
  <1> QED
    BY <1>4, <1>5, <1>6, <1>8 DEF Calm

\* A client that reads the answer it waited for has nothing under way.
LEMMA WriteLoopCalm ==
    ASSUME Sane, Conserved, Calm, NEW c \in Conns, WriteLoop(c)
    PROVE  Calm'
  <1>1. PICK n0 : n0 = Head(outQueue[c])
    OBVIOUS
  <1>2. /\ writer[c] /\ got' = [got EXCEPT ![c] = Append(got[c], n0)]
        /\ UNCHANGED <<inbox, scraps, sent, readBuf, reader, writer, cancelled, jobQueue, worker, stop, buffer, dropped>>
    BY <1>1 DEF WriteLoop, pool
  <1>3. InOutQueue(c, n0) /\ n0 \in Int /\ Moved(c, n0, 6)
    BY <1>1, WriteMoves
  <1>4. UnderWay(c, n0)
    BY <1>3, UnderWayIs
  <1>5. n0 = sent[c] /\ Waiting(c)
    BY <1>3, <1>4 DEF Calm, OneUnderWay
  <1>6. n0 \in Int
    BY <1>3, ApartIs DEF Conserved
  <1>7. /\ Len(got[c]) \in Nat /\ Len(got'[c]) = Len(got[c]) + 1
        /\ \A d \in Conns \ {c} : got'[d] = got[d]
    BY <1>2, <1>6, GotAppend
  <1>8. NoneDropped'
    <2>1. Len(got'[c]) <= sent[c]
      BY <1>5, <1>7 DEF Waiting, Sane, TypeOK
    <2> QED
      BY <1>2, <1>7, <2>1 DEF Calm, NoneDropped
  <1>9. OneUnderWay'
    <2> SUFFICES ASSUME NEW d \in Conns, NEW n \in Int, UnderWay(d, n)'
                 PROVE  n = sent'[d] /\ Waiting(d)'
      BY DEF OneUnderWay
    <2>1. UnderWay(d, n) /\ ~(d = c /\ n = n0)
      BY <1>3, <1>4, MovedUnderWay
    <2>2. n = sent[d] /\ Waiting(d)
      BY <2>1 DEF Calm, OneUnderWay
    <2>3. d # c
      BY <1>5, <2>1, <2>2
    <2> QED
      BY <1>2, <1>7, <2>2, <2>3 DEF Waiting
  <1>10. JobsHeld'
    BY <1>2, StillHeld DEF Calm, Jobs, Serving
  <1>11. stop = "no" /\ cancelled[c] => reader[c] = "exited"
    BY <1>2 DEF Calm, DoneIsQuiet
  <1>12. DoneIsQuiet'
    BY <1>2, <1>7, <1>11 DEF Calm, DoneIsQuiet, Waiting
  <1> QED
    BY <1>8, <1>9, <1>10, <1>12 DEF Calm

\* A connection whose answer is lost keeps waiting for it.
LEMMA WriteFailsCalm ==
    ASSUME Sane, Conserved, Calm, NEW c \in Conns, WriteFails(c)
    PROVE  Calm'
  <1>1. PICK n0 : n0 = Head(outQueue[c])
    OBVIOUS
  <1>2. /\ writer' = [writer EXCEPT ![c] = FALSE] /\ cancelled' = [cancelled EXCEPT ![c] = TRUE]
        /\ UNCHANGED <<inbox, scraps, sent, got, readBuf, reader, jobQueue, worker, stop, buffer, dropped>>
    BY DEF WriteFails, conns, pool
  <1>3. InOutQueue(c, n0) /\ n0 \in Int /\ Moved(c, n0, 0)
    BY <1>1, WriteMoves
  <1>4. UnderWay(c, n0)
    BY <1>3, UnderWayIs
  <1>5. n0 = sent[c] /\ Waiting(c)
    BY <1>3, <1>4 DEF Calm, OneUnderWay
  <1>6. \A d \in Conns, n \in Int : UnderWay(d, n)' => UnderWay(d, n)
    BY <1>3, <1>4, MovedUnderWay
  <1>7. NoneDropped' /\ OneUnderWay'
    BY <1>2, <1>6, StillWaiting DEF Calm
  <1>8. ~writer'[c] /\ \A d \in Conns \ {c} : writer'[d] = writer[d] /\ cancelled'[d] = cancelled[d]
    BY <1>2 DEF Sane, TypeOK
  <1>9. JobsHeld'
    BY <1>2, <1>8, StillHeld DEF Calm, Jobs, Serving
  <1>10. inbox[c] = <<>>
    <2> SUFFICES ASSUME inbox[c] # <<>> PROVE FALSE
      OBVIOUS
    <2>1. inbox[c] \in Seq(Job)
      BY DEF Sane, TypeOK
    <2>2. 1 \in 1..Len(inbox[c]) /\ inbox[c][1] \in Job
      BY <2>1, TailIs
    <2>3. inbox[c][1].serial \in Int /\ InInbox(c, inbox[c][1].serial)
      BY <2>2, JobIs DEF InInbox
    <2>4. inbox[c][1].serial = n0
      BY <1>5, <2>3, UnderWayIs DEF Calm, OneUnderWay
    <2> QED
      BY <1>3, <2>3, <2>4, ApartIs DEF Conserved
  <1>11. reader[c] # "incr"
    <2> SUFFICES ASSUME reader[c] = "incr" PROVE FALSE
      OBVIOUS
    <2>1. Held(c).serial \in Int /\ InReader(c, Held(c).serial)
      BY JobIs DEF Sane, Reading, InReader
    <2>2. Held(c).serial = n0
      BY <1>5, <2>1, UnderWayIs DEF Calm, OneUnderWay
    <2> QED
      BY <1>3, <2>1, <2>2, ApartIs DEF Conserved
  <1>12. reader[c] \in {"read", "exited"}
    <2>1. writer[c]
      BY DEF WriteFails
    <2> QED
      BY <1>11, <2>1 DEF Sane, TypeOK, Buffers
  <1>13. DoneIsQuiet'
    BY <1>2, <1>5, <1>8, <1>10, <1>12 DEF Calm, DoneIsQuiet, Waiting
  <1> QED
    BY <1>7, <1>9, <1>13 DEF Calm

\* A Read leaves the buffers of all jobs alone: its connection has none, and its
\* connection alone has the buffer.
LEMMA ReadCalm ==
    ASSUME Sane, Conserved, Calm, NEW c \in Conns, ReadNext(c), InInbox(c, Head(inbox[c]).serial),
           Head(inbox[c]).serial \in Int
    PROVE  /\ \A j \in Jobs : j.conn # c /\ readBuf'[buffer[j.conn]] = readBuf[buffer[j.conn]]
           /\ \A d \in Conns \ {c} : inbox'[d] = inbox[d]
           /\ stop = "no" => ~cancelled[c]
           /\ Serving(c) /\ stop' = stop /\ UNCHANGED <<scraps, sent, got, buffer, writer, cancelled>>
  <1>1. \A j \in Jobs : j.conn # c
    BY ReadAlone DEF Calm
  <1>2. Serving(c) /\ \A b \in Conns \ {buffer[c]} : readBuf'[b] = readBuf[b]
    BY ReadNextIs
  <1>3. \A j \in Jobs : buffer[j.conn] # buffer[c] /\ buffer[j.conn] \in Conns
    BY <1>1, <1>2, JobsAre DEF Calm, JobsHeld, Sane, TypeOK
  <1>4. \A d \in Conns \ {c} : inbox'[d] = inbox[d]
    BY ReadNextIs
  <1>5. inbox[c] # <<>> /\ stop' = stop /\ UNCHANGED <<scraps, sent, got, buffer, writer, cancelled>>
    BY DEF ReadNext
  <1>6. stop = "no" => ~cancelled[c]
    BY <1>5 DEF Calm, DoneIsQuiet
  <1> QED
    BY <1>1, <1>2, <1>3, <1>4, <1>5, <1>6

\* The fast path.
LEMMA FastCalm ==
    ASSUME Sane, Conserved, Calm, NEW c \in Conns, processFastPath(c)
    PROVE  Calm'
  <1>1. PICK n0 : n0 = Head(inbox[c]).serial
    OBVIOUS
  <1>2. ReadNext(c) /\ Loop(c) /\ UNCHANGED <<jobQueue, worker>>
    BY DEF processFastPath
  <1>3. /\ InInbox(c, n0) /\ n0 \in Int /\ \E i \in {0, 5} : Moved(c, n0, i)
        /\ (\E d \in Conns : dropped'[d] /\ ~dropped[d]) => Len(outQueue[c]) >= OutCap
    BY <1>1, FastMoves
  <1>4. \A d \in Conns : dropped'[d] => dropped[d]
    BY <1>3, AnswerFits DEF Calm
  <1>5. UnderWay(c, n0)
    BY <1>3, UnderWayIs
  <1>6. \A d \in Conns, n \in Int : UnderWay(d, n)' => UnderWay(d, n)
    BY <1>3, <1>5, MovedUnderWay
  <1>7. /\ \A j \in Jobs : j.conn # c /\ readBuf'[buffer[j.conn]] = readBuf[buffer[j.conn]]
        /\ \A d \in Conns \ {c} : inbox'[d] = inbox[d]
        /\ stop = "no" => ~cancelled[c]
        /\ Serving(c) /\ stop' = stop /\ UNCHANGED <<scraps, sent, got, buffer, writer, cancelled>>
    BY <1>1, <1>2, <1>3, ReadCalm
  <1>8. \A d \in Conns \ {c} : reader'[d] = reader[d]
    BY <1>2, LoopIs
  <1>9. NoneDropped' /\ OneUnderWay'
    BY <1>4, <1>6, <1>7, StillWaiting DEF Calm
  <1>10. \A d \in Conns : Serving(d)' => Serving(d)
    BY <1>7, <1>8 DEF Serving
  <1>11. \A j \in Jobs : reader'[j.conn] = reader[j.conn]
    BY <1>7, <1>8, JobsAre
  <1>12. JobsHeld'
    BY <1>2, <1>7, <1>10, <1>11, StillHeld DEF Calm, Jobs
  <1>13. DoneIsQuiet'
    BY <1>7, <1>8, StillQuiet DEF Calm
  <1> QED
    BY <1>9, <1>12, <1>13 DEF Calm

\* The read of a counter.
LEMMA CounterReadCalm ==
    ASSUME Sane, Conserved, Calm, NEW c \in Conns, CounterRead(c)
    PROVE  Calm'
  <1>1. PICK n0 : n0 = Head(inbox[c]).serial
    OBVIOUS
  <1>2. ReadNext(c) /\ reader' = [reader EXCEPT ![c] = "incr"] /\ UNCHANGED <<jobQueue, worker, dropped>>
    BY DEF CounterRead
  <1>3. InInbox(c, n0) /\ n0 \in Int /\ Moved(c, n0, 2)
    BY <1>1, CounterReadMoves
  <1>4. UnderWay(c, n0)
    BY <1>3, UnderWayIs
  <1>5. \A d \in Conns, n \in Int : UnderWay(d, n)' => UnderWay(d, n)
    BY <1>3, <1>4, MovedUnderWay
  <1>6. /\ \A j \in Jobs : j.conn # c /\ readBuf'[buffer[j.conn]] = readBuf[buffer[j.conn]]
        /\ \A d \in Conns \ {c} : inbox'[d] = inbox[d]
        /\ stop = "no" => ~cancelled[c]
        /\ Serving(c) /\ stop' = stop /\ UNCHANGED <<scraps, sent, got, buffer, writer, cancelled>>
    BY <1>1, <1>2, <1>3, ReadCalm
  <1>7. \A d \in Conns \ {c} : reader'[d] = reader[d]
    BY <1>2 DEF Sane, TypeOK
  <1>8. NoneDropped' /\ OneUnderWay'
    BY <1>2, <1>5, <1>6, StillWaiting DEF Calm
  <1>9. \A d \in Conns : Serving(d)' => Serving(d)
    BY <1>6, <1>7 DEF Serving
  <1>10. \A j \in Jobs : reader'[j.conn] = reader[j.conn]
    BY <1>6, <1>7, JobsAre
  <1>11. JobsHeld'
    BY <1>2, <1>6, <1>9, <1>10, StillHeld DEF Calm, Jobs
  <1>12. DoneIsQuiet'
    BY <1>6, <1>7, StillQuiet DEF Calm
  <1> QED
    BY <1>8, <1>11, <1>12 DEF Calm

\* The commit of a counter.
LEMMA CounterCommitCalm ==
    ASSUME Sane, Conserved, Calm, NEW c \in Conns, CounterCommit(c)
    PROVE  Calm'
  <1>1. PICK n0 : n0 = Held(c).serial
    OBVIOUS
  <1>2. /\ Loop(c) /\ reader[c] = "incr"
        /\ UNCHANGED <<inbox, scraps, sent, got, buffer, readBuf, writer, cancelled, jobQueue, worker, stop>>
    BY DEF CounterCommit, conns, pool
  <1>3. /\ InReader(c, n0) /\ n0 \in Int /\ \E i \in {0, 5} : Moved(c, n0, i)
        /\ (\E d \in Conns : dropped'[d] /\ ~dropped[d]) => Len(outQueue[c]) >= OutCap
    BY <1>1, CounterCommitMoves
  <1>4. \A d \in Conns : dropped'[d] => dropped[d]
    BY <1>3, AnswerFits DEF Calm
  <1>5. UnderWay(c, n0)
    BY <1>3, UnderWayIs
  <1>6. \A d \in Conns, n \in Int : UnderWay(d, n)' => UnderWay(d, n)
    BY <1>3, <1>5, MovedUnderWay
  <1>7. \A d \in Conns \ {c} : reader'[d] = reader[d]
    BY <1>2, LoopIs
  <1>8. NoneDropped' /\ OneUnderWay'
    BY <1>2, <1>4, <1>6, StillWaiting DEF Calm
  <1>9. \A d \in Conns : Serving(d)' => Serving(d)
    BY <1>2, <1>7 DEF Serving
  <1>10. \A j \in Jobs : reader'[j.conn] = reader[j.conn]
    <2>1. \A j \in Jobs : j.conn \in Conns \ {c}
      BY <1>3, JobsAre, ReadAlone DEF Calm
    <2> QED
      BY <1>7, <2>1
  <1>11. JobsHeld'
    BY <1>2, <1>9, <1>10, StillHeld DEF Calm, Jobs
  <1>12. stop = "no" => ~cancelled[c]
    BY <1>2 DEF Calm, DoneIsQuiet
  <1>13. DoneIsQuiet'
    BY <1>2, <1>7, <1>12, StillQuiet DEF Calm
  <1> QED
    BY <1>8, <1>11, <1>13 DEF Calm

\* The jobs after a dispatch.
LEMMA DispatchJobs ==
    ASSUME Sane, NEW c \in Conns, NEW x \in Job, Dispatch(c, x), UNCHANGED worker, NEW j \in Jobs'
    PROVE  j \in Jobs \/ j = x
  <1>1. CASE jobQueue' = jobQueue
    BY <1>1 DEF Jobs
  <1>2. CASE jobQueue' = Append(jobQueue, x)
    <2>1. /\ Len(jobQueue) \in Nat /\ Len(jobQueue') = Len(jobQueue) + 1
          /\ \A i \in 1..Len(jobQueue) : jobQueue'[i] = jobQueue[i]
          /\ jobQueue'[Len(jobQueue) + 1] = x
      BY <1>2, AppendIs DEF Sane, TypeOK
    <2>2. \A i \in 1..Len(jobQueue') : i \in 1..Len(jobQueue) \/ i = Len(jobQueue) + 1
      BY <2>1
    <2> QED
      BY <2>1, <2>2 DEF Jobs
  <1> QED
    BY <1>1, <1>2 DEF Dispatch

\* The slow path: the new job's buffer is its connection's own.
LEMMA SlowCalm ==
    ASSUME Sane, Conserved, Calm, NEW c \in Conns, processSlowPath(c)
    PROVE  Calm'
  <1>1. PICK x : x = Head(inbox[c])
    OBVIOUS
  <1>2. ReadNext(c) /\ Loop(c) /\ Dispatch(c, x) /\ UNCHANGED worker
    BY <1>1 DEF processSlowPath
  <1>3. /\ InInbox(c, x.serial) /\ x.serial \in Int /\ \E i \in {0, 3, 5} : Moved(c, x.serial, i)
        /\ (\E d \in Conns : dropped'[d] /\ ~dropped[d]) => Len(outQueue[c]) >= OutCap
    BY <1>1, SlowMoves
  <1>4. \A d \in Conns : dropped'[d] => dropped[d]
    BY <1>3, AnswerFits DEF Calm
  <1>5. UnderWay(c, x.serial)
    BY <1>3, UnderWayIs
  <1>6. \A d \in Conns, n \in Int : UnderWay(d, n)' => UnderWay(d, n)
    BY <1>3, <1>5, MovedUnderWay
  <1>7. /\ \A j \in Jobs : j.conn # c /\ readBuf'[buffer[j.conn]] = readBuf[buffer[j.conn]]
        /\ \A d \in Conns \ {c} : inbox'[d] = inbox[d]
        /\ stop = "no" => ~cancelled[c]
        /\ Serving(c) /\ stop' = stop /\ UNCHANGED <<scraps, sent, got, buffer, writer, cancelled>>
    BY <1>1, <1>2, <1>3, ReadCalm
  <1>8. /\ reader'[c] = IF cancelled[c] THEN "exited" ELSE "read"
        /\ \A d \in Conns \ {c} : reader'[d] = reader[d]
    BY <1>2, LoopIs
  <1>9. NoneDropped' /\ OneUnderWay'
    BY <1>4, <1>6, <1>7, StillWaiting DEF Calm
  <1>10. \A d \in Conns : Serving(d)' => Serving(d)
    BY <1>7, <1>8 DEF Serving
  <1>11. x \in Job /\ x.conn = c /\ readBuf'[buffer[c]] = x
    BY <1>1, <1>2, ReadNextIs, InboxTail DEF Conserved, Once
  <1>12. JobsHeld'
    <2> SUFFICES ASSUME NEW j \in Jobs'
                 PROVE  /\ Held(j.conn)' = j
                        /\ \A d \in Conns : Serving(d)' /\ buffer'[d] = buffer'[j.conn] => d = j.conn
                        /\ stop' = "no" => reader'[j.conn] = "read"
      BY DEF JobsHeld
    <2>1. CASE j \in Jobs
      <3>1. /\ Held(j.conn) = j
            /\ \A d \in Conns : Serving(d) /\ buffer[d] = buffer[j.conn] => d = j.conn
            /\ stop = "no" => reader[j.conn] = "read"
        BY <2>1 DEF Calm, JobsHeld
      <3>2. reader'[j.conn] = reader[j.conn] /\ Held(j.conn)' = Held(j.conn)
        BY <1>7, <1>8, <2>1, JobsAre DEF Held
      <3> QED
        BY <1>7, <1>10, <3>1, <3>2
    <2>2. CASE j = x
      <3>1. Held(c)' = x
        BY <1>7, <1>11 DEF Held
      <3>2. \A d \in Conns : Serving(d)' /\ buffer'[d] = buffer'[c] => d = c
        BY <1>7, <1>10 DEF Sane, Buffers
      <3> QED
        BY <1>7, <1>8, <1>11, <2>2, <3>1, <3>2
    <2> QED
      BY <1>2, <1>11, <2>1, <2>2, DispatchJobs
  <1>13. DoneIsQuiet'
    BY <1>7, <1>8, StillQuiet DEF Calm
  <1> QED
    BY <1>9, <1>12, <1>13 DEF Calm

\* The workers make no new jobs.
LEMMA WorkerCalm ==
    ASSUME Sane, Conserved, Calm, NEW w \in Workers, WorkerStep(w)
    PROVE  Calm'
  <1>1. UNCHANGED <<inbox, scraps, sent, got, ahead, buffer, readBuf, reader, txn, writer, cancelled, stop, panicked>>
    BY DEF WorkerStep, Take, processJob, conns
  <1>2. DoneIsQuiet'
    BY <1>1, StillQuiet DEF Calm
  <1>3. CASE Take(w)
    <2>1. PICK x : x = Head(jobQueue)
      OBVIOUS
    <2>2. x \in Job /\ InJobQueue(x.conn, x.serial) /\ Moved(x.conn, x.serial, 4)
      BY <1>3, <2>1, TakeMoves
    <2>3. x.conn \in Conns /\ x.serial \in Int
      BY <2>2, JobIs
    <2>4. \A d \in Conns, n \in Int : UnderWay(d, n)' => UnderWay(d, n)
      BY <2>2, <2>3, UnderWayIs, MovedUnderWay
    <2>5. NoneDropped' /\ OneUnderWay'
      BY <1>1, <1>3, <2>4, StillWaiting DEF Calm, Take
    <2>6. Jobs' \subseteq Jobs
      <3>1. jobQueue \in Seq(Job) /\ jobQueue # <<>> /\ jobQueue' = Tail(jobQueue)
        BY <1>3 DEF Sane, TypeOK, Take
      <3>2. x = jobQueue[1] /\ 1 \in 1..Len(jobQueue)
            /\ \A i \in 1..Len(jobQueue') : jobQueue'[i] = jobQueue[i + 1] /\ i + 1 \in 1..Len(jobQueue)
        BY <2>1, <3>1, TailIs
      <3>3. worker'[w] = x /\ \A v \in Workers \ {w} : worker'[v] = worker[v]
        BY <1>3, <2>1 DEF Sane, TypeOK, Take
      <3>4. ASSUME NEW i \in 1..Len(jobQueue') PROVE jobQueue'[i] \in Jobs
        BY <3>2 DEF Jobs
      <3>5. ASSUME NEW v \in Workers, worker'[v] # NoJob PROVE worker'[v] \in Jobs
        <4>1. CASE v = w
          BY <3>2, <3>3, <4>1 DEF Jobs
        <4>2. CASE v # w
          BY <3>3, <3>5, <4>2 DEF Jobs
        <4> QED
          BY <4>1, <4>2
      <3> QED
        BY <3>4, <3>5 DEF Jobs
    <2>7. JobsHeld'
      BY <1>1, <2>6, StillHeld DEF Calm, Serving
    <2> QED
      BY <1>2, <2>5, <2>7 DEF Calm
  <1>4. CASE processJob(w)
    <2>1. PICK x : x = worker[w]
      OBVIOUS
    <2>2. /\ x \in Job /\ InWorker(x.conn, x.serial)
          /\ \E i \in {0, 5} : Moved(x.conn, x.serial, i)
          /\ (\E d \in Conns : dropped'[d] /\ ~dropped[d]) => Len(outQueue[x.conn]) >= OutCap
      BY <1>4, <2>1, JobMoves
    <2>3. x.conn \in Conns /\ x.serial \in Int
      BY <2>2, JobIs
    <2>4. \A d \in Conns : dropped'[d] => dropped[d]
      BY <2>2, <2>3, AnswerFits DEF Calm
    <2>5. \A d \in Conns, n \in Int : UnderWay(d, n)' => UnderWay(d, n)
      BY <2>2, <2>3, UnderWayIs, MovedUnderWay
    <2>6. NoneDropped' /\ OneUnderWay'
      BY <1>1, <2>4, <2>5, StillWaiting DEF Calm
    <2>7. Jobs' \subseteq Jobs
      <3>1. jobQueue' = jobQueue /\ \A v \in Workers : worker'[v] = NoJob \/ worker'[v] = worker[v]
        BY <1>4 DEF Sane, TypeOK, processJob
      <3> QED
        BY <3>1 DEF Jobs
    <2>8. JobsHeld'
      BY <1>1, <2>7, StillHeld DEF Calm, Serving
    <2> QED
      BY <1>2, <2>6, <2>8 DEF Calm
  <1> QED
    BY <1>3, <1>4 DEF WorkerStep

\* A client that waits leaves only when it has its answers.
LEMMA ReaderExitCalm ==
    ASSUME Sane, Conserved, Calm, NEW c \in Conns, ReaderExit(c), ~ahead'
    PROVE  Calm'
  <1>1. /\ reader' = [reader EXCEPT ![c] = "exited"] /\ cancelled' = [cancelled EXCEPT ![c] = TRUE]
        /\ ~Waiting(c)
        /\ UNCHANGED <<inbox, scraps, sent, got, buffer, readBuf, writer, jobQueue, worker, stop, dropped>>
    BY DEF ReaderExit, pool
  <1>2. NoneDropped' /\ OneUnderWay'
    BY <1>1, QuietMoves, UnmovedUnderWay, StillWaiting DEF Calm
  <1>3. \A n \in Int : ~UnderWay(c, n)
    BY <1>1 DEF Calm, OneUnderWay
  <1>4. /\ reader'[c] = "exited"
        /\ \A d \in Conns \ {c} : reader'[d] = reader[d] /\ cancelled'[d] = cancelled[d]
    BY <1>1 DEF Sane, TypeOK
  <1>5. \A j \in Jobs : reader'[j.conn] = reader[j.conn]
    BY <1>3, <1>4, JobsAre
  <1>6. JobsHeld'
    BY <1>1, <1>4, <1>5, StillHeld DEF Calm, Jobs, Serving
  <1>7. inbox[c] = <<>>
    <2> SUFFICES ASSUME inbox[c] # <<>> PROVE FALSE
      OBVIOUS
    <2>1. inbox[c] \in Seq(Job)
      BY DEF Sane, TypeOK
    <2>2. 1 \in 1..Len(inbox[c]) /\ inbox[c][1] \in Job
      BY <2>1, TailIs
    <2>3. inbox[c][1].serial \in Int /\ InInbox(c, inbox[c][1].serial)
      BY <2>2, JobIs DEF InInbox
    <2> QED
      BY <1>3, <2>3, UnderWayIs
  <1>8. DoneIsQuiet'
    BY <1>1, <1>4, <1>7 DEF Calm, DoneIsQuiet, Waiting
  <1> QED
    BY <1>2, <1>6, <1>8 DEF Calm

\* A writing loop that ends, and Stop.
LEMMA QuietCalm ==
    ASSUME Sane, Conserved, Calm,
           (\E c \in Conns : WriterExit(c)) \/ StopCancel \/ StopClose \/ StopWait \/ UNCHANGED vars
    PROVE  Calm'
  <1>1. UNCHANGED <<inbox, scraps, sent, got, buffer, readBuf, reader, jobQueue, worker, dropped>>
    BY DEF WriterExit, StopCancel, StopClose, StopWait, vars, conns, pool
  <1>2. NoneDropped' /\ OneUnderWay'
    BY <1>1, QuietMoves, UnmovedUnderWay, StillWaiting DEF Calm
  <1>3. \A d \in Conns : writer'[d] => writer[d]
    BY DEF WriterExit, StopCancel, StopClose, StopWait, vars, Sane, TypeOK
  <1>4. stop' = "no" => stop = "no" /\ cancelled' = cancelled
    BY DEF WriterExit, StopCancel, StopClose, StopWait, vars, pool
  <1>5. JobsHeld'
    BY <1>1, <1>3, <1>4, StillHeld DEF Calm, Jobs, Serving
  <1>6. DoneIsQuiet'
    BY <1>1, <1>3, <1>4, StillQuiet DEF Calm
  <1> QED
    BY <1>2, <1>5, <1>6 DEF Calm

\* Clients that still wait have always waited, and a stream that is whole was whole.
LEMMA StillWhole ==
    ASSUME Sane, Conserved, [Next]_vars, ~ahead', Whole'
    PROVE  ~ahead /\ Whole /\ \A c \in Conns : ~Network(c)
  <1>1. \A c \in Conns : ~Network(c)
    BY NetworkMoves DEF Whole
  <1>2. (ahead => ahead') /\ scraps' = scraps
    <2>1. CASE \E c \in Conns : Accept(c) \/ (\E command \in Commands : Send(c, command)) \/ ReaderExit(c)
                                \/ WriteLoop(c) \/ WriteFails(c) \/ WriterExit(c)
      <3>1. CASE \E c \in Conns : ReaderExit(c) \/ \E command \in Commands : Send(c, command)
        BY <3>1, Zenon DEF Send, ReaderExit
      <3>2. CASE \E c \in Conns : Accept(c) \/ WriteLoop(c) \/ WriteFails(c) \/ WriterExit(c)
        BY <3>2 DEF Accept, WriteLoop, WriteFails, WriterExit, conns
      <3> QED
        BY <2>1, <3>1, <3>2
    <2>2. CASE \E c \in Conns : ReaderStep(c)
      BY <2>2 DEF ReaderStep, processFastPath, CounterRead, CounterCommit, processSlowPath, ReadNext, conns
    <2>3. CASE (\E w \in Workers : WorkerStep(w)) \/ StopCancel \/ StopClose \/ StopWait \/ UNCHANGED vars
      BY <2>3 DEF WorkerStep, Take, processJob, StopCancel, StopClose, StopWait, vars, conns
    <2> QED
      BY <1>1, <2>1, <2>2, <2>3 DEF Next
  <1> QED
    BY <1>1, <1>2 DEF Whole

\* Every step keeps waiting clients to one command under way.
LEMMA StepPatient == Sane /\ Conserved /\ Patient /\ [Next]_vars => Patient'
  <1> SUFFICES ASSUME Sane, Conserved, Patient, [Next]_vars, ~ahead', Whole' PROVE Calm'
    BY DEF Patient
  <1>1. ~ahead /\ Whole /\ \A c \in Conns : ~Network(c)
    BY StillWhole
  <1>2. Calm
    BY <1>1 DEF Patient
  <1> QED
    BY <1>1, <1>2, AcceptCalm, SendCalm, WriteLoopCalm, WriteFailsCalm, FastCalm, CounterReadCalm,
       CounterCommitCalm, SlowCalm, WorkerCalm, ReaderExitCalm, QuietCalm DEF Next, ReaderStep

\* Every step gives keys only values that some command gave them, or counters.
LEMMA StepIntact == Sane /\ Conserved /\ Patient /\ ValuesIntact /\ [Next]_vars => ValuesIntact'
  <1> SUFFICES ASSUME Sane, Conserved, Patient, ValuesIntact, [Next]_vars, ~ahead', Whole', NEW k \in Keys
               PROVE  store'[k] \in Written(k) \cup {Absent} \cup Int
    BY DEF ValuesIntact, Written, Whole
  <1>1. ~ahead /\ Whole /\ \A c \in Conns : ~Network(c)
    BY StillWhole
  <1>2. store[k] \in Written(k) \cup {Absent} \cup Int /\ Calm
    BY <1>1 DEF ValuesIntact, Patient, Whole
  <1>3. ASSUME NEW c \in Conns, NEW n \in Int, UnderWay(c, n) PROVE n > 0
    <2>1. n = sent[c] /\ sent[c] > Len(got[c])
      BY <1>3, <1>2 DEF Calm, OneUnderWay, Waiting
    <2> QED
      BY <2>1 DEF Sane, TypeOK
  <1>4. CASE \E c \in Conns : processFastPath(c)
    <2>1. PICK c \in Conns : processFastPath(c)
      BY <1>4
    <2>2. Head(inbox[c]) \in Job /\ store' = Execute(Head(inbox[c]))
      BY <2>1, ReadNextIs DEF processFastPath
    <2>3. Head(inbox[c]).serial > 0
      <3>1. Head(inbox[c]).serial \in Int /\ InInbox(c, Head(inbox[c]).serial)
        BY <2>1, FastMoves
      <3> QED
        BY <1>3, <3>1, UnderWayIs
    <2>4. store'[k] = store[k] \/ store'[k] \in Written(k)
      BY <2>2, <2>3, ExecuteJob DEF Sane
    <2> QED
      BY <1>2, <2>4
  <1>5. CASE \E c \in Conns : CounterCommit(c)
    <2>1. PICK c \in Conns : CounterCommit(c)
      BY <1>5
    <2>2. store' = [store EXCEPT ![CounterKey(Held(c))] = txn[c] + Step(Held(c))]
      BY <2>1 DEF CounterCommit
    <2>3. txn[c] + Step(Held(c)) \in Int
      BY DEF Sane, TypeOK, Step
    <2>4. store'[k] = store[k] \/ store'[k] \in Int
      BY <2>2, <2>3 DEF Sane, TypeOK
    <2> QED
      BY <1>2, <2>4
  <1>6. CASE \E w \in Workers : processJob(w)
    <2>1. PICK w \in Workers : processJob(w)
      BY <1>6
    <2>2. PICK puts \in Contents(worker[w]) : store' = Execute([worker[w] EXCEPT !.puts = puts])
      BY <2>1 DEF processJob
    <2>3. worker[w] \in Job /\ worker[w] \in Jobs
      BY <2>1 DEF Sane, TypeOK, processJob, Jobs
    <2>4. Held(worker[w].conn) = worker[w]
      BY <1>2, <2>3 DEF Calm, JobsHeld
    <2>5. worker[w].serial > 0
      BY <1>3, <2>3, JobsAre
    <2>6. store'[k] = store[k] \/ store'[k] \in Written(k)
      BY <2>2, <2>3, <2>4, <2>5, ExecuteContents DEF Sane
    <2> QED
      BY <1>2, <2>6
  <1>7. CASE UNCHANGED store
    BY <1>2, <1>7
  <1> QED
    BY <1>1, <1>4, <1>5, <1>6, <1>7
    DEF Next, Accept, Send, ReaderStep, CounterRead, processSlowPath, ReaderExit, WriteLoop, WriteFails,
        WriterExit, WorkerStep, Take, StopCancel, StopClose, StopWait, vars

\* The initial state.
LEMMA InitText == Init => TextInv
  <1> SUFFICES ASSUME Init PROVE TextInv
    OBVIOUS
  <1>1. Sane
    BY InitSane
  <1>2. Len(<<>>) = 0 /\ 1..0 = {}
    OBVIOUS
  <1>3. /\ \A c \in Conns : inbox[c] = <<>> /\ outQueue[c] = <<>> /\ got[c] = <<>> /\ sent[c] = 0 /\ scraps[c] = 0
        /\ \A c \in Conns : reader[c] = "new" /\ ~dropped[c] /\ ~cancelled[c]
        /\ jobQueue = <<>> /\ \A w \in Workers : worker[w] = NoJob
    BY DEF Init
  <1>4. Once /\ Owned
    BY <1>2, <1>3 DEF Once, Owned, OnceInInbox, OnceInJobQueue, OnceInWorker, OnceInOutQueue
  <1>5. \A c \in Conns, n \in Int :
           /\ ~InInbox(c, n) /\ ~InReader(c, n) /\ ~InJobQueue(c, n) /\ ~InWorker(c, n)
           /\ ~InOutQueue(c, n) /\ ~Received(c, n)
    <2>1. NoJob.conn \notin Conns
      BY ServerAssumption DEF NoJob
    <2> QED
      BY <1>2, <1>3, <2>1 DEF InInbox, InReader, InJobQueue, InWorker, InOutQueue, Received
  <1>6. \A c \in Conns, n \in Int : \A i \in 1..6 : ~Places(c, n)[i]
    <2>1. \A i \in 1..6 : i = 1 \/ i = 2 \/ i = 3 \/ i = 4 \/ i = 5 \/ i = 6
      OBVIOUS
    <2> QED
      BY <1>5, <2>1, PlacesAre
  <1>7. Apart /\ Complete
    BY <1>2, <1>3, <1>6 DEF Apart, Complete
  <1>8. Patient
    <2>1. NoneDropped /\ DoneIsQuiet
      BY <1>2, <1>3 DEF NoneDropped, DoneIsQuiet
    <2>2. OneUnderWay
      BY <1>5, UnderWayIs DEF OneUnderWay
    <2>3. Jobs = {}
      BY <1>2, <1>3 DEF Jobs
    <2> QED
      BY <2>1, <2>2, <2>3 DEF Patient, Calm, JobsHeld
  <1>9. ValuesIntact
    BY DEF Init, ValuesIntact
  <1> QED
    BY <1>1, <1>4, <1>7, <1>8, <1>9 DEF TextInv, Sane

\* The invariant is inductive.
LEMMA StepText == TextInv /\ [Next]_vars => TextInv'
  <1> SUFFICES ASSUME TextInv, [Next]_vars PROVE TextInv'
    OBVIOUS
  <1>1. Sane /\ Conserved /\ Patient /\ ValuesIntact
    BY DEF TextInv, Sane, Conserved
  <1>2. Sane' /\ Conserved' /\ Patient' /\ ValuesIntact'
    BY <1>1, StepSane, StepConserved, StepPatient, StepIntact
  <1> QED
    BY <1>2 DEF TextInv, Sane, Conserved

\* So it always holds.
LEMMA TextInvHolds == Spec => []TextInv
  BY InitText, StepText, PTL DEF Spec

\* Places that hold a command once, and hold each command somewhere, hold it in exactly one.
LEMMA ExactlyOnePlace == TextInv => CommandsConserved
  <1> SUFFICES ASSUME TextInv, NEW c \in Conns, NEW n \in 1..sent[c]
               PROVE  /\ Cardinality(PlacesOf(c, n)) <= 1
                      /\ ~panicked /\ ~cancelled[c] /\ scraps[c] = 0
                            /\ (dropped[c] => ~ahead /\ \A d \in Conns : scraps[d] = 0)
                            => PlacesOf(c, n) # {}
    BY DEF CommandsConserved
  <1>1. n \in Int
    BY DEF TextInv, TypeOK
  <1>2. \A i, j \in 1..6 : Places(c, n)[i] /\ Places(c, n)[j] => i = j
    BY <1>1 DEF TextInv, Apart
  <1>3. PlacesOf(c, n) = {} \/ \E i \in 1..6 : PlacesOf(c, n) = {i}
    BY <1>2 DEF PlacesOf
  <1>4. Cardinality(PlacesOf(c, n)) <= 1
    <2>1. CASE PlacesOf(c, n) = {}
      BY <2>1, FS_EmptySet
    <2>2. CASE \E i \in 1..6 : PlacesOf(c, n) = {i}
      <3>1. PICK i \in 1..6 : PlacesOf(c, n) = {i}
        BY <2>2
      <3>2. Cardinality({i}) = 1
        BY FS_Singleton
      <3> QED
        BY <3>1, <3>2
    <2> QED
      BY <1>3, <2>1, <2>2
  <1>5. ASSUME ~panicked, ~cancelled[c], scraps[c] = 0,
               dropped[c] => ~ahead /\ \A d \in Conns : scraps[d] = 0
        PROVE  PlacesOf(c, n) # {}
    <2>1. ~dropped[c]
      BY <1>5 DEF TextInv, Patient, Calm, NoneDropped, Whole
    <2>2. PICK i \in 1..6 : Places(c, n)[i]
      BY <1>5, <2>1 DEF TextInv, Complete
    <2> QED
      BY <2>2 DEF PlacesOf
  <1> QED
    BY <1>4, <1>5

\* No command is worked on or answered twice, however many connections and workers there
\* are, however long the queues, however far clients send ahead and however the network
\* cuts and joins; none vanishes from a connection in service unless it was torn, or its
\* answer dropped after some client sent ahead or some command was torn.
THEOREM NoCommandVanishes == Spec => []CommandsConserved
  BY TextInvHolds, ExactlyOnePlace, PTL

\* While every client waits for its answers and every Read returns one whole command, a
\* worker stores what its command carried: no Read, by this connection or one that got
\* the buffer from the pool, overwrites it.
THEOREM ValuesStayIntact == Spec => []ValuesIntact
  <1>1. TextInv => ValuesIntact
    BY DEF TextInv
  <1> QED
    BY <1>1, TextInvHolds, PTL

================================================================================
