------------------------------ MODULE MCWebPage ------------------------------
(* Small instances of WebPage for TLC. *)
EXTENDS WebPage

CONSTANTS p1, p2, n1

MCListings == [t \in {"pod", "node"} |-> IF t = "pod" THEN {{p2}, {p1, p2}} ELSE {{n1}}]
MCEverything == {p1, p2, n1}
MCNamespaces == {MCEverything, {p1}}
MCKeywords == {MCEverything, {p2, n1}}
MCPasses == [a \in {"plain", "restarts"} |-> IF a = "plain" THEN MCEverything ELSE {p2}]
MCFirstStored == {[t \in {"pod", "node"} |-> IF t = "pod" THEN "restarts" ELSE "unset"]}
=============================================================================
