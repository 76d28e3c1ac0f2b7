----------------------------- MODULE MCElevation -----------------------------
(* Small instances of Elevation for TLC. *)
EXTENDS Elevation, TLC

Symmetry == Permutations(Request) \cup Permutations(User)
=============================================================================
