------------------------------ MODULE QueueFacade ------------------------------
(***************************************************************************)
(* The Queue type of internal/queue/queue.go as the server's handlers use  *)
(* it: Push and the calls with acknowledgement work on the messages of     *)
(* QueueStorage, while Pop, Peek, Len and Clear work on the head/tail      *)
(* queue of LegacyQueue, in the same database.                             *)
(***************************************************************************)
EXTENDS QueueStorage, Sequences

CONSTANTS Values, NoItem, MaxSeq

VARIABLES meta, data, legacyTxn, reply

Legacy == INSTANCE LegacyQueue WITH txn <- legacyTxn

legacyVars == <<meta, data, legacyTxn, reply>>
facadeVars == <<vars, legacyVars>>

FacadeInit == Init /\ Legacy!Init

\* One goroutine runs one call at a time.
AckedCall(p) ==
    /\ legacyTxn[p] = Legacy!Idle
    /\ Call(p)
    /\ UNCHANGED legacyVars

LegacyCall(p, q) ==
    /\ txn[p] = Idle
    /\ Legacy!Pop(p, q) \/ Legacy!Peek(p, q) \/ Legacy!Length(p, q) \/ Legacy!Clear(p, q)
    /\ UNCHANGED vars

Transaction(p) ==
    \/ TxnStep(p) /\ UNCHANGED legacyVars
    \/ Legacy!Commit(p) /\ UNCHANGED vars

FacadeNext ==
    \/ \E p \in Procs :
          \/ AckedCall(p) \/ Transaction(p)
          \/ \E q \in Queues : LegacyCall(p, q)
    \/ \E c \in DlqCalls : SetDeadLetterQueue(c[1], c[2], c[3]) /\ UNCHANGED legacyVars
    \/ Tick /\ UNCHANGED legacyVars
    \/ Crash /\ Legacy!Crash

FacadeSpec == FacadeInit /\ [][FacadeNext]_facadeVars

=============================================================================
