----------------------------- MODULE ConnectionPool -----------------------------
(***************************************************************************)
(* The client connection pool of internal/net/pool.go, shared by the       *)
(* goroutines that use one client.  A goroutine's place in Get,            *)
(* createNewOrWait and Put is its pc; every critical section of p.mu and   *)
(* every channel operation is one step.  The buffered channel conns is the *)
(* set of idle connections: which of them a receive returns is left open.  *)
(***************************************************************************)
EXTENDS Naturals, FiniteSets

CONSTANTS
    Callers,    \* goroutines that call Get and Put
    Conns,      \* identities of connections
    NoConn,
    MinSize,
    MaxSize

ASSUME PoolAssumption ==
    /\ IsFiniteSet(Callers)
    /\ IsFiniteSet(Conns)
    /\ MinSize \in Nat
    /\ MaxSize \in Nat
    /\ MinSize <= MaxSize           \* NewConnectionPool refuses other sizes
    /\ MinSize <= Cardinality(Conns)
    /\ NoConn \notin Conns

VARIABLES
    idle,         \* connections in the channel
    open,         \* connections whose Close was not called
    activeCount,
    closed,       \* the pool's closed flag
    chanClosed,   \* close(p.conns) was executed
    pc,           \* where each goroutine is
    held,         \* the connection each goroutine has
    panicked,     \* the process died of a panic
    lapsed        \* history: for each waiting goroutine, how many places were given
                  \* up since it began to wait (MaxSize stands for that many or more)

vars == <<idle, open, activeCount, closed, chanClosed, pc, held, panicked, lapsed>>

Init ==
    /\ idle \in SUBSET Conns
    /\ Cardinality(idle) = MinSize
    /\ open = idle
    /\ activeCount = MinSize
    /\ closed = FALSE
    /\ chanClosed = FALSE
    /\ pc = [g \in Callers |-> "idle"]
    /\ held = [g \in Callers |-> NoConn]
    /\ panicked = FALSE
    /\ lapsed = [g \in Callers |-> 0]

Goto(g, where) == pc' = [pc EXCEPT ![g] = where]

\* An unrecovered panic ends every goroutine of the process.
Panic == panicked' = TRUE /\ pc' = [g \in Callers |-> "dead"]

\* Fault: the received connection stays available.
ReceiveShares(g) ==
    /\ \E c \in idle : held' = [held EXCEPT ![g] = c]
    /\ Goto(g, "holding")
    /\ UNCHANGED <<idle, activeCount, panicked>>

\* A goroutine receives from the channel: a live connection is its own, a dead one
\* is dropped from the count, and a closed channel yields nil, which IsConnected
\* dereferences.
Receive(g) ==
    \/ \E c \in idle :
          /\ idle' = idle \ {c}
          /\ IF c \in open
             THEN /\ held' = [held EXCEPT ![g] = c]
                  /\ Goto(g, "holding")
                  /\ UNCHANGED activeCount
             ELSE /\ activeCount' = activeCount - 1
                  /\ Goto(g, "create")
                  /\ UNCHANGED held
          /\ UNCHANGED panicked
    \/ /\ idle = {} /\ chanClosed
       /\ Panic
       /\ UNCHANGED <<idle, activeCount, held>>

Get(g) ==
    /\ pc[g] = "idle"
    /\ \/ Receive(g)
       \/ /\ idle = {} /\ ~chanClosed
          /\ Goto(g, "create")
          /\ UNCHANGED <<idle, activeCount, held, panicked>>
    /\ UNCHANGED <<open, closed, chanClosed, lapsed>>

\* Fault: the place is not reserved before dialling.
CreateUncounted(g) ==
    /\ pc[g] = "create"
    /\ Goto(g, IF closed THEN "idle" ELSE IF activeCount < MaxSize THEN "dial" ELSE "wait")
    /\ UNCHANGED <<idle, open, activeCount, closed, chanClosed, held, panicked, lapsed>>

\* Fault: the last place is never filled.
CreateBelowMax(g) ==
    /\ pc[g] = "create"
    /\ IF closed
       THEN Goto(g, "idle") /\ UNCHANGED activeCount
       ELSE IF activeCount + 1 < MaxSize
            THEN Goto(g, "dial") /\ activeCount' = activeCount + 1
            ELSE Goto(g, "wait") /\ UNCHANGED activeCount
    /\ UNCHANGED <<idle, open, closed, chanClosed, held, panicked, lapsed>>

createNewOrWait(g) ==
    /\ pc[g] = "create"
    /\ IF closed
       THEN Goto(g, "idle") /\ UNCHANGED activeCount
       ELSE IF activeCount < MaxSize
            THEN Goto(g, "dial") /\ activeCount' = activeCount + 1
            ELSE Goto(g, "wait") /\ UNCHANGED activeCount
    /\ UNCHANGED <<idle, open, closed, chanClosed, held, panicked, lapsed>>

\* NewConnection, outside the lock.
Dial(g) ==
    /\ pc[g] = "dial"
    /\ \/ \E c \in Conns \ (open \cup {held[h] : h \in Callers}) :
             /\ open' = open \cup {c}
             /\ held' = [held EXCEPT ![g] = c]
             /\ Goto(g, "holding")
       \/ Goto(g, "drop") /\ UNCHANGED <<open, held>>
    /\ UNCHANGED <<idle, activeCount, closed, chanClosed, panicked, lapsed>>

\* Fault: the place is not given up.
DropUncounted(g) ==
    /\ pc[g] = "drop"
    /\ Goto(g, "idle")
    /\ UNCHANGED <<idle, open, activeCount, closed, chanClosed, held, panicked, lapsed>>

\* The critical section that gives up a connection's place in the pool, after a
\* failed dial or the Put of a connection that is not returned.  Nobody is woken.
Drop(g) ==
    /\ pc[g] = "drop"
    /\ activeCount' = activeCount - 1
    /\ Goto(g, "idle")
    /\ lapsed' = [h \in Callers |-> IF pc[h] = "wait" /\ lapsed[h] < MaxSize
                                   THEN lapsed[h] + 1 ELSE lapsed[h]]
    /\ UNCHANGED <<idle, open, closed, chanClosed, held, panicked>>

Wait(g) ==
    /\ pc[g] = "wait"
    /\ Receive(g)
    /\ lapsed' = [lapsed EXCEPT ![g] = 0]
    /\ UNCHANGED <<open, closed, chanClosed>>

\* The caller closes the connection it holds (Connection.Close is exported; the Go
\* client never does it).
Discard(g) ==
    /\ pc[g] = "holding"
    /\ held[g] \in open
    /\ open' = open \ {held[g]}
    /\ UNCHANGED <<idle, activeCount, closed, chanClosed, pc, held, panicked, lapsed>>

\* A dead connection is not returned; a send on the closed channel panics; a full
\* channel closes the connection.
Put(g) ==
    /\ pc[g] = "holding"
    /\ LET c == held[g]
           live == c \in open
           room == Cardinality(idle) < MaxSize
       IN  IF live /\ chanClosed
           THEN Panic /\ UNCHANGED <<idle, open, held>>
           ELSE /\ idle' = IF live /\ room THEN idle \cup {c} ELSE idle
                /\ open' = IF live /\ ~room THEN open \ {c} ELSE open
                /\ Goto(g, IF live /\ room THEN "idle" ELSE "drop")
                /\ held' = [held EXCEPT ![g] = NoConn]
                /\ UNCHANGED panicked
    /\ UNCHANGED <<activeCount, closed, chanClosed, lapsed>>

\* Close: the flag under the lock, the channel, then the idle connections.
Close ==
    /\ ~closed /\ ~panicked
    /\ closed' = TRUE
    /\ UNCHANGED <<idle, open, activeCount, chanClosed, pc, held, panicked, lapsed>>

CloseChannel ==
    /\ closed /\ ~chanClosed /\ ~panicked
    /\ chanClosed' = TRUE
    /\ UNCHANGED <<idle, open, activeCount, closed, pc, held, panicked, lapsed>>

Drain ==
    /\ chanClosed /\ ~panicked
    /\ \E c \in idle :
          /\ idle' = idle \ {c}
          /\ open' = open \ {c}
    /\ UNCHANGED <<activeCount, closed, chanClosed, pc, held, panicked, lapsed>>

Step(g) ==
    Get(g) \/ createNewOrWait(g) \/ Dial(g) \/ Drop(g) \/ Wait(g) \/ Discard(g) \/ Put(g)

Next == (\E g \in Callers : Step(g)) \/ Close \/ CloseChannel \/ Drain

\* Goroutines run and callers return what they hold.  Go serves the receivers of a
\* channel in the order of their arrival, so one that waits while connections keep
\* coming back is served.
Fairness ==
    \A g \in Callers :
        /\ WF_vars(createNewOrWait(g) \/ Dial(g) \/ Drop(g) \/ Put(g))
        /\ SF_vars(Wait(g))

Spec == Init /\ [][Next]_vars
FairSpec == Spec /\ Fairness

-----------------------------------------------------------------------------
\* Type invariant.
TypeOK ==
    /\ idle \in SUBSET Conns
    /\ open \in SUBSET Conns
    /\ activeCount \in Nat
    /\ closed \in BOOLEAN
    /\ chanClosed \in BOOLEAN
    /\ pc \in [Callers -> {"idle", "create", "dial", "drop", "wait", "holding",
                          "dead"}]
    /\ held \in [Callers -> Conns \cup {NoConn}]
    /\ panicked \in BOOLEAN
    /\ lapsed \in [Callers -> 0..MaxSize]

\* Goroutines that own one of the activeCount places.
Owners == {g \in Callers : pc[g] \in {"dial", "drop", "holding"}}

\* activeCount is the number of connections in the channel, held, being dialled or
\* being dropped: no path through Get, createNewOrWait or Put loses or doubles a
\* place, so the pool never shrinks for ever, and at most MaxSize connections are open,
\* before and after Close.
Accounting ==
    /\ ~chanClosed => activeCount = Cardinality(idle) + Cardinality(Owners)
    /\ Cardinality(open) <= MaxSize

\* No connection is used by two goroutines, or used while it is in the channel.
Exclusive ==
    \A g \in Callers :
        held[g] # NoConn =>
            /\ held[g] \notin idle
            /\ \A h \in Callers : held[h] = held[g] => h = g

\* A goroutine that waits for a connection gets one, unless the pool is closed or at
\* least MaxSize places were given up while it waits.  Failed dials and the Put of a
\* dead connection free a place without waking anyone, so a waiter depends on the
\* connections that do come back: one that is left is enough.  (With MaxSize 0, which
\* NewConnectionPool accepts, nothing ever comes back.)
WaiterServed ==
    \A g \in Callers :
        (pc[g] = "wait") ~> (pc[g] # "wait" \/ closed \/ lapsed[g] = MaxSize)

=============================================================================
