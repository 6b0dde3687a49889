------------------------------- MODULE MCHttp -------------------------------
(* Http for TLC. *)
EXTENDS Http, TLC
Symmetry == Permutations(Task) \cup Permutations(Conn)
=============================================================================
