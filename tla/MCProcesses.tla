------------------------------ MODULE MCProcesses ------------------------------
(***************************************************************************)
(* Processes on a small table.  The programs are the sizes that make the   *)
(* cases of the loader happen.                                             *)
(***************************************************************************)
EXTENDS Processes

MCPages == [n \in Exists |-> CASE n = "small" -> 1 [] n = "big" -> 2 [] n = "huge" -> 4]
=============================================================================
