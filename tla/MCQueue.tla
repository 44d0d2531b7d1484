-------------------------------- MODULE MCQueue --------------------------------
(***************************************************************************)
(* Instances of QueueStorage for TLC: a queue q, and a queue d that may    *)
(* become its dead-letter queue.                                           *)
(***************************************************************************)
EXTENDS QueueStorage, TLC

CONSTANTS c1, c2, q, d

\* The dead-letter queue is configured with a limit of one delivery.
MCDlqCalls == {<<q, d, 1>>}

\* The consumers are interchangeable (used with safety properties only).
ConsumerSymmetry == Permutations({c1, c2})

=============================================================================
