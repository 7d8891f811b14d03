------------------------------ MODULE TypeCatalog ------------------------------
(***************************************************************************)
(* The resource types the server accepts: the built-ins of its release and *)
(* the custom resource definitions found in the cluster                    *)
(* (server/src/crds/CrdScanner.ts).  A resource is its id and whether it   *)
(* is a CRD.                                                               *)
(***************************************************************************)
EXTENDS Integers, FiniteSets

CONSTANTS
  None, Torn,  \* no value; a file that cannot be parsed
  BuiltIns,    \* ids built into this release
  Crds,        \* plural names CRDs of the cluster can have
  OldFile      \* available-resources.json left by an earlier release, or None

ASSUME ScanAssumption == None \notin {"kubectl", "open", "write"}
ASSUME FileAssumption ==
  OldFile \in {None, Torn} \/ OldFile \subseteq [id : {r.id : r \in OldFile}, crd : BOOLEAN]

VARIABLES
  cluster,     \* CRDs in the cluster
  available,   \* availableResources
  catalogFile, \* available-resources.json
  scan,        \* what the scan in flight awaits, or None
  listed       \* what kubectl read for it

catalogVars == <<cluster, available, catalogFile, scan, listed>>

BuiltInResources == {[id |-> b, crd |-> FALSE] : b \in BuiltIns}
Ids(resources) == {r.id : r \in resources}

\* CrdScannerReconcileAvailableResources()
Reconcile(resources) ==
  BuiltInResources \cup {r \in resources : r.crd /\ r.id \notin BuiltIns}

\* CrdScannerInit(): the file, if it holds a list that is not empty, is
\* reconciled with the built-ins.
Loaded(f) == Reconcile(IF f \in {None, Torn, {}} THEN BuiltInResources ELSE f)

CatalogInit ==
  /\ cluster \in SUBSET Crds
  /\ catalogFile = OldFile
  /\ available = Loaded(catalogFile)
  /\ scan = "kubectl" /\ listed = cluster

CatalogRestart ==
  /\ available' = Loaded(catalogFile)
  /\ scan' = "kubectl" /\ listed' = cluster
  /\ UNCHANGED <<cluster, catalogFile>>

\* startScan(): shared by the start-up, the daily schedule and refreshes.
StartScan == scan = None /\ scan' = "kubectl" /\ listed' = cluster

Daily == StartScan /\ UNCHANGED <<cluster, available, catalogFile>>

ClusterChanges ==
  /\ \E c \in SUBSET Crds : c # cluster /\ cluster' = c
  /\ UNCHANGED <<available, catalogFile, scan, listed>>

\* What scanCrds() makes of a listing.
Found(c) == Reconcile({[id |-> x, crd |-> TRUE] : x \in c \ BuiltIns})

\* kubectl reads the cluster at some moment of its run.
Read ==
  /\ scan = "kubectl" /\ listed # cluster /\ listed' = cluster
  /\ UNCHANGED <<cluster, available, catalogFile, scan>>

Scanned ==
  /\ scan = "kubectl" /\ scan' = "open"
  /\ available' = Found(listed)
  /\ UNCHANGED <<cluster, catalogFile, listed>>

\* Mutant: only a scan that succeeds is released.
FinallyNot(s) == s

\* The end of a scan that failed releases scanPromise like any other.
Finally(s) == None

\* kubectl fails, or its answer does not parse: the list stays.
ScanFailed ==
  /\ scan = "kubectl" /\ scan' = Finally("failed")
  /\ UNCHANGED <<cluster, available, catalogFile, listed>>

\* saveToDisk(): truncated, then written; a failure is logged.
FileOpened ==
  /\ scan = "open" /\ scan' = "write"
  /\ catalogFile' = Torn
  /\ UNCHANGED <<cluster, available, listed>>

FileWritten ==
  /\ scan = "write" /\ scan' = None
  /\ catalogFile' = available
  /\ UNCHANGED <<cluster, available, listed>>

FileFailed ==
  /\ scan \in {"open", "write"} /\ scan' = None
  /\ UNCHANGED <<cluster, available, catalogFile, listed>>

ScanStep == Scanned \/ ScanFailed \/ FileOpened \/ FileWritten \/ FileFailed
=============================================================================
