--------------------------- MODULE MCResourceData ---------------------------
(* Small instances of ResourceData for TLC. *)
EXTENDS ResourceData, TLC

MCSymmetry == Permutations(Requests)
=============================================================================
