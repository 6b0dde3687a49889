------------------------------- MODULE MCTask -------------------------------
(* Task with the calls that each kind of client of the framework makes. *)
EXTENDS Task, TLC

Symmetry == Permutations(Task)
=============================================================================
