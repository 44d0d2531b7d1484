------------------------------ MODULE MCTextServer ------------------------------
(***************************************************************************)
(* A counter k1 and a key k2 that is only ever given v2; v1 stands for     *)
(* bytes that nobody meant to store, as in part of a SET.  SET takes both  *)
(* paths.                                                                  *)
(***************************************************************************)
EXTENDS TextServer

CONSTANTS k1, k2, v1, v2

MCKeys == {k1, k2}

On(k, v) == [x \in {k} |-> v]

MCCommands == {[cmd |-> "INCR", puts |-> On(k1, Absent)], [cmd |-> "SET", puts |-> On(k2, v2)]}

MCFragments == {[cmd |-> "SET", puts |-> On(k2, v1)]}

================================================================================
