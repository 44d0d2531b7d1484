----------------------------- MODULE MCQueueWorker -----------------------------
(***************************************************************************)
(* An instance of VisibilityWorker for TLC: one consumer and the worker.   *)
(***************************************************************************)
EXTENDS VisibilityWorker

CONSTANTS q, r

\* r may become the dead-letter queue of q, with a limit of one delivery.
MCDlqCalls == {<<q, r, 1>>}

=============================================================================
