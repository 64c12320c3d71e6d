---------------------------- MODULE MCFileTasks ----------------------------
(* FileTasks on a small instance: the rows of one transaction share a time. *)
EXTENDS FileTasks

Rows == 1 .. 4
CreatedAt == [r \in Rows |-> IF r \in {2, 3} THEN 2 ELSE r]
=============================================================================
