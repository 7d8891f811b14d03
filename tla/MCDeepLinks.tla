---------------------------- MODULE MCDeepLinks ----------------------------
(* Small instances of DeepLinks for TLC. *)
EXTENDS DeepLinks

MCObjectsOf == [t \in {"pod", "node"} |-> IF t = "pod" THEN {"p"} ELSE {"n"}]
=============================================================================
