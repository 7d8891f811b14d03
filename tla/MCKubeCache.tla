---------------------------- MODULE MCKubeCache ----------------------------
(* Small instances of KubeCache for TLC. *)
EXTENDS KubeCache, TLC

CONSTANTS w1, w2, w3

\* Three entries, one of them shorter than the others.
MCSize == [e \in Entries |-> IF e = w3 THEN 1 ELSE 2]
MCSymmetry == Permutations({w1, w2}) \cup Permutations(Gets)
=============================================================================
