--------------------------- MODULE MessageLifecycle ---------------------------
(***************************************************************************)
(* What the acknowledged queue promises about one message: it is in one    *)
(* place at a time, it is handed out only while it is pending, it becomes  *)
(* deliverable again only by being put back, and once it is acknowledged   *)
(* or rejected it is gone.                                                 *)
(***************************************************************************)
CONSTANTS Values, Queues, NoQueue

VARIABLES
    stage,   \* "absent", "pending", "inflight" or "gone"
    place    \* the queue that holds the message, NoQueue if none does

lifecycleVars == <<stage, place>>

Init ==
    /\ stage = [v \in Values |-> "absent"]
    /\ place = [v \in Values |-> NoQueue]

Held(v) == stage[v] \in {"pending", "inflight"}

Push(v, q) ==
    /\ stage[v] = "absent"
    /\ stage' = [stage EXCEPT ![v] = "pending"]
    /\ place' = [place EXCEPT ![v] = q]

Deliver(v) ==
    /\ stage[v] = "pending"
    /\ stage' = [stage EXCEPT ![v] = "inflight"]
    /\ UNCHANGED place

\* Some of the messages of one queue become deliverable again.
Requeue(S, q) ==
    /\ \A v \in S : Held(v) /\ place[v] = q
    /\ stage' = [v \in Values |-> IF v \in S THEN "pending" ELSE stage[v]]
    /\ UNCHANGED place

Settle(v) ==
    /\ Held(v)
    /\ stage' = [stage EXCEPT ![v] = "gone"]
    /\ place' = [place EXCEPT ![v] = NoQueue]

DeadLetter(v, q) ==
    /\ Held(v)
    /\ stage' = [stage EXCEPT ![v] = "pending"]
    /\ place' = [place EXCEPT ![v] = q]

Next ==
    \/ \E v \in Values, q \in Queues : Push(v, q) \/ DeadLetter(v, q)
    \/ \E v \in Values : Deliver(v) \/ Settle(v)
    \/ \E S \in SUBSET Values, q \in Queues : Requeue(S, q)

Spec == Init /\ [][Next]_lifecycleVars

=============================================================================
