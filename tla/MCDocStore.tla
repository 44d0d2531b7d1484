------------------------------- MODULE MCDocStore -------------------------------
(***************************************************************************)
(* Two documents with two fields besides "_id".  The int 1, which JSON     *)
(* makes the number 1, and the string "1" have the same text.              *)
(***************************************************************************)
EXTENDS DocStore, TLC

CONSTANTS number1, int1, string1, nameA, nameB, f1, f2

MCText == (number1 :> "1") @@ (int1 :> "1") @@ (string1 :> "1") @@ (nameA :> "A") @@ (nameB :> "B")
MCNumber == (number1 :> 1) @@ (int1 :> 1) @@ (string1 :> 0) @@ (nameA :> 0) @@ (nameB :> 0)
MCJson == [v \in Values |-> IF v = int1 THEN number1 ELSE v]
MCName == (1 :> nameA) @@ (2 :> nameB)

Doc(a, b) == (f1 :> a) @@ (f2 :> b) @@ (IdField :> Absent)

MCDocuments == {Doc(number1, Absent), Doc(string1, Absent), Doc(int1, Absent)}

Options(set, unset, merge) == [set |-> set, unset |-> unset, merge |-> merge]

MCUpdates ==
    {Options(f1 :> string1, {}, TRUE), Options(f2 :> number1, {f1}, FALSE),
     Options(f2 :> int1, {}, TRUE), Options(IdField :> nameB, {}, TRUE)}

Where(filters, skip, limit) == [filters |-> filters, skip |-> skip, limit |-> limit]
Is(f, oper, v) == [field |-> f, op |-> oper, value |-> v]

MCFinds ==
    {Where(<<Is(f1, "eq", number1)>>, 0, -1),
     Where(<<Is(f2, "ne", number1), Is(f1, "eq", string1)>>, 0, -1)}

\* The client's builders send no limit; a caller in the process may ask for all.
MCSelections ==
    {[find |-> Where(<<Is(f1, "eq", number1)>>, 0, 0), act |-> Options(f1 :> string1, {}, TRUE)],
     [find |-> Where(<<Is(f1, "eq", number1)>>, 0, -1), act |-> Delete]}

\* Goroutines are interchangeable.
Goroutines == Permutations(Procs)

=============================================================================
