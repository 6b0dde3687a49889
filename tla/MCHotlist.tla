----------------------------- MODULE MCHotlist -----------------------------
(* Hotlist for TLC. *)
EXTENDS Hotlist
=============================================================================
