----------------------------- MODULE MCApiRoutes -----------------------------
(* Small instances of ApiRoutes for TLC. *)
EXTENDS ApiRoutes

CONSTANTS alice, bob

MCGrants == [c \in {alice, bob} |->
  IF c = alice THEN {"k8s:read", "k8s:write", "admin"} ELSE {"k8s:read", "k8s:write"}]

\* The file of a release that had another built-in, and knew "job" as a CRD.
MCOldFile == { [id |-> "pod", crd |-> FALSE], [id |-> "podpreset", crd |-> FALSE],
               [id |-> "job", crd |-> TRUE] }

Command(op, type) == [op |-> op, type |-> type, valid |-> TRUE]
Fields(ids, prefs) == [op |-> "save", ids |-> ids, prefs |-> prefs]

MCRequests ==
  { Command("list", "widget"), Command("delete", "pod"), Command("create", "job"),
    [op |-> "logs", valid |-> FALSE], [op |-> "load"], [op |-> "refresh"],
    Fields({"pod", "widget"}, Absent), Fields(Absent, "sorted"), Fields({"pod"}, Broken) }
=============================================================================
