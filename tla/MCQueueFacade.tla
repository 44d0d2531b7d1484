----------------------------- MODULE MCQueueFacade -----------------------------
(***************************************************************************)
(* QueueFacade for TLC: a queue q, and a queue d that may become its       *)
(* dead-letter queue.                                                      *)
(***************************************************************************)
EXTENDS QueueFacade

CONSTANTS c1, q, d

\* The limit of one delivery is set with or without the dead-letter queue.
MCAllDlqCalls == {<<q, d, 1>>, <<q, NoQueue, 1>>}

=============================================================================
