--------------------------- MODULE MCRequestQueue ---------------------------
(* Small instances of RequestQueue for TLC. *)
EXTENDS RequestQueue

MCCalls == Permutations(Calls)
MCKeys == Permutations(Keys)
MCSymmetry == MCCalls \cup MCKeys
=============================================================================
