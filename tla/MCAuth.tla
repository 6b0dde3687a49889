------------------------------- MODULE MCAuth -------------------------------
(* Auth with what may be exchanged: transfers, passwords and addresses. *)
EXTENDS Auth

Symmetry == Permutations(Transfer) \cup Permutations(Secret) \cup Permutations(Node)
=============================================================================
