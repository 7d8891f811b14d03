------------------------------- MODULE ApiRoutes -------------------------------
(***************************************************************************)
(* The routes that act on what callers send: kubectl commands and logs     *)
(* (server/src/kubectl), the resource types and the user's selections      *)
(* (server/src/crds), with the checks they make on the way                 *)
(* (auth/Authorization.ts, kubectl/KubeCtlValidation.ts,                   *)
(* kubectl/DeletePolicy.ts) and the audit trail of mutations               *)
(* (audit/ResourceAuditLogger.ts).                                         *)
(*                                                                         *)
(* A call moves through the awaits of its handler; what happens between    *)
(* two awaits is one action.  Of arguments and namespaces only their       *)
(* validity is kept, and the queue of RequestQueue is seen from outside:   *)
(* it refuses an execution, joins one with the same key, or runs a new     *)
(* one.                                                                    *)
(***************************************************************************)
EXTENDS TypeCatalog, Selections, Sequences

CONSTANTS
  Callers,
  Grants,      \* scopes of each caller, None if not authenticated
  Requests,    \* what callers ask
  Policies,    \* sets of types ALLOWED_DELETABLE_OBJECTS can name
  MaxCalls,    \* bound: calls
  MaxRestarts  \* bound

ASSUME CallersAssumption == None \notin Callers

\* What can be stored for the user, of which nothing is taken for no row.
Given(field) == {r[field] : r \in {q \in Requests : q.op = "save"}}
StorableIds == {Defaults, Legacy, Broken} \cup Given("ids")
StorablePrefs == {Absent} \cup Given("prefs")
ASSUME RowAssumption == Absent \notin [ids : StorableIds, prefs : StorablePrefs]

VARIABLES
  call,        \* the last call of each caller
  deletable,   \* the DeletePolicy the configuration gives now
  calls, restarts

vars == <<catalogVars, selectionVars, call, deletable, calls, restarts>>

Idle == [at |-> "idle"]

Init ==
  /\ CatalogInit /\ SelectionsInit
  /\ call = [c \in Callers |-> Idle]
  /\ deletable \in Policies
  /\ calls = 0 /\ restarts = 0

\* Where call c goes on, and what it is answered at its end.
Await(c, at) == call' = [call EXCEPT ![c].at = at]
Done(c, status) == call' = [call EXCEPT ![c].at = "done", ![c].status = status]

\* A request arrives.  AuthGetLiveUser() and RequireScope() are awaited, so
\* each check sees the state of its own moment.  Kept for the properties:
\* audits, the audit events; ran, whose execution answered; may, contents of
\* the cluster since a refresh began.
Arrive(c) ==
  /\ call[c].at \in {"idle", "done"} /\ calls < MaxCalls /\ calls' = calls + 1
  /\ \E r \in Requests :
       call' = [call EXCEPT ![c] =
         [req |-> r, at |-> IF Grants[c] = None THEN "done" ELSE "check",
          status |-> IF Grants[c] = None THEN 401 ELSE 0,
          audits |-> <<>>, ran |-> None, may |-> {}, found |-> None]]
  /\ UNCHANGED <<catalogVars, selectionVars, deletable, restarts>>

-----------------------------------------------------------------------------
(* POST /api/kubectl/command and /api/kubectl/logs *)

Reads == {"get", "list", "describe"}
Writes == {"rollout restart", "scale", "create"}
Mutations == Writes \cup {"delete"}

\* ScopeForKubectlCommand(), and what the other routes require.
ScopeFor(r) ==
  CASE r.op \in Reads \cup {"logs", "load", "save"} -> "k8s:read"
    [] r.op \in Writes -> "k8s:write"
    [] OTHER -> "admin"

IsAllowedResourceType(t) == t \in Ids(available)

\* BuildCommandArgs() and BuildLogsArgs() accept the payload.  Reading the
\* logs names no type.
ValidArgs(r) ==
  /\ r.valid
  /\ r.op # "logs" => IsAllowedResourceType(r.type)
  /\ r.op = "create" => r.type = "job"

\* AuditActionFor(): events are kept for mutations only.
Event(r, e) == IF r.op \in Mutations THEN <<e>> ELSE <<>>

\* Mutant: whatever is the same shares one execution.
DedupKeyForAll(r) == r

\* DedupKeyFor(): listings of a type over all namespaces, and log requests,
\* share executions.
DedupKeyFor(r) == IF r.op \in {"list", "logs"} THEN r ELSE None

IsCommand(c) == call[c].at # "idle" /\ call[c].req.op \in Reads \cup Mutations \cup {"logs"}

Validate(c) ==
  /\ call[c].at = "check" /\ IsCommand(c)
  /\ IF ValidArgs(call[c].req) THEN Await(c, "scope") ELSE Done(c, 400)
  /\ UNCHANGED <<catalogVars, selectionVars, deletable, calls, restarts>>

\* RequireScope(), then the policy: what is not refused goes to the queue.
Refusal(c) ==
  LET r == call[c].req IN
  IF \/ ScopeFor(r) \notin Grants[c]
     \/ r.op = "delete" /\ r.type \notin deletable
  THEN 403 ELSE 0

Authorise(c) ==
  /\ call[c].at = "scope" /\ IsCommand(c)
  /\ IF Refusal(c) # 0 THEN Done(c, Refusal(c))
     ELSE LET key == DedupKeyFor(call[c].req)
              same == {d \in Callers : /\ call[d].at = "run" /\ call[d].ran = d
                                       /\ key # None /\ DedupKeyFor(call[d].req) = key}
          IN \E d \in IF same = {} THEN {c} ELSE same :
               call' = [call EXCEPT ![c].at = "run", ![c].ran = d]
  /\ UNCHANGED <<catalogVars, selectionVars, deletable, calls, restarts>>

\* What a call is answered and what its event says, by how the queue and
\* kubectl ended.
Status(outcome) ==
  CASE outcome = "success" -> 201 [] outcome = "queue_full" -> 429
    [] outcome = "not_found" -> 404 [] OTHER -> 502

\* The events of a handler that ends with an outcome.
Audit(c, outcome) == Event(call[c].req, outcome)

Answered(c, outcome) ==
  [call[c] EXCEPT !.at = "done", !.status = Status(outcome),
                  !.audits = @ \o Audit(c, outcome)]

QueueFull(c) ==
  /\ call[c].at = "run" /\ call[c].ran = c
  /\ \A d \in Callers \ {c} : call[d].at = "run" => call[d].ran # c
  /\ call' = [call EXCEPT ![c] = Answered(c, "queue_full")]
  /\ UNCHANGED <<catalogVars, selectionVars, deletable, calls, restarts>>

\* An execution ends for all who share it; a timeout counts as an error.
Executed(c) ==
  /\ call[c].at = "run" /\ call[c].ran = c
  /\ \E outcome \in {"success", "not_found", "error"} :
       call' = [d \in Callers |->
         IF call[d].at = "run" /\ call[d].ran = c
         THEN Answered(d, outcome) ELSE call[d]]
  /\ UNCHANGED <<catalogVars, selectionVars, deletable, calls, restarts>>

-----------------------------------------------------------------------------
(* /api/resources/selections and /api/resources/refresh *)

CheckScope(c) ==
  /\ call[c].at = "check" /\ ~IsCommand(c)
  /\ IF ScopeFor(call[c].req) \in Grants[c] THEN Await(c, "work") ELSE Done(c, 403)
  /\ UNCHANGED <<catalogVars, selectionVars, deletable, calls, restarts>>

At(c, op) == call[c].at = "work" /\ call[c].req.op = op

\* GET: the query; without a usable row the defaults are stored.
Load(c) ==
  /\ At(c, "load")
  /\ IF Stored = Absent THEN Await(c, "insert") ELSE Done(c, 200)
  /\ UNCHANGED <<catalogVars, selectionVars, deletable, calls, restarts>>

LoadDefaults(c) ==
  /\ call[c].at = "insert" /\ StoreDefaults /\ Done(c, 200)
  /\ UNCHANGED <<catalogVars, deletable, calls, restarts>>

\* PUT and POST: at least one field, known types, well-formed preferences.
ValidSave(r) ==
  /\ r.ids # Absent \/ r.prefs # Absent
  /\ r.ids # Absent => \A t \in r.ids : IsAllowedResourceType(t)
  /\ r.prefs # Broken

SaveFields(c) ==
  LET r == call[c].req IN
  /\ At(c, "save")
  /\ IF ValidSave(r)
     THEN Save(r.ids, r.prefs) /\ Done(c, 200)
     ELSE UNCHANGED selectionVars /\ Done(c, 400)
  /\ UNCHANGED <<catalogVars, deletable, calls, restarts>>

\* The database fails: the error handler answers.
DatabaseFails(c) ==
  /\ At(c, "load") \/ At(c, "save") \/ call[c].at = "insert"
  /\ Done(c, 500)
  /\ UNCHANGED <<catalogVars, selectionVars, deletable, calls, restarts>>

\* Mutant: a refresh joins the scan that runs.
RefreshJoins(c) ==
  /\ At(c, "refresh")
  /\ IF scan # None THEN UNCHANGED <<scan, listed>> ELSE StartScan
  /\ call' = [call EXCEPT ![c].at = "scan", ![c].may = {cluster}]
  /\ UNCHANGED <<cluster, available, catalogFile, selectionVars, deletable, calls, restarts>>

\* CrdScannerRefresh(): refused while a scan runs, else one is started.
Refresh(c) ==
  /\ At(c, "refresh")
  /\ IF scan # None
     THEN Done(c, 429) /\ UNCHANGED <<scan, listed>>
     ELSE /\ StartScan
          /\ call' = [call EXCEPT ![c].at = "scan", ![c].may = {cluster}]
  /\ UNCHANGED <<cluster, available, catalogFile, selectionVars, deletable, calls, restarts>>

Refreshing(c) == call[c].at = "scan"

\* The scan takes a step; when it ends, refreshes that await it are answered
\* with the list as it is.
Scan ==
  /\ ScanStep
  /\ call' = [c \in Callers |->
       IF Refreshing(c) /\ scan' = None
       THEN [call[c] EXCEPT !.at = "done", !.status = 200,
               !.found = IF scan = "kubectl" THEN None ELSE available]
       ELSE call[c]]
  /\ UNCHANGED <<selectionVars, deletable, calls, restarts>>

-----------------------------------------------------------------------------
(* The surroundings. *)

Cluster ==
  /\ Daily \/ Read \/ ClusterChanges
  /\ call' = [c \in Callers |->
       IF Refreshing(c) THEN [call[c] EXCEPT !.may = @ \cup {cluster'}] ELSE call[c]]
  /\ UNCHANGED <<selectionVars, deletable, calls, restarts>>

\* A reload changes the configuration object the routes hold.
Reload ==
  /\ \E p \in Policies \ {deletable} : deletable' = p
  /\ UNCHANGED <<catalogVars, selectionVars, call, calls, restarts>>

\* The process ends with its calls; the next one imports, loads and scans.
Restart ==
  /\ restarts < MaxRestarts /\ restarts' = restarts + 1
  /\ CatalogRestart /\ SelectionsRestart
  /\ call' = [c \in Callers |-> Idle]
  /\ UNCHANGED <<deletable, calls>>

Next ==
  \/ \E c \in Callers :
       \/ Arrive(c) \/ Validate(c) \/ Authorise(c) \/ QueueFull(c) \/ Executed(c)
       \/ CheckScope(c) \/ Load(c) \/ LoadDefaults(c) \/ SaveFields(c)
       \/ DatabaseFails(c) \/ Refresh(c)
  \/ Scan \/ Cluster \/ Reload \/ Restart

Spec == Init /\ [][Next]_vars

\* A scan's kubectl and file operations end (RequestQueue answers each call).
FairSpec == Spec /\ WF_vars(Scan)

-----------------------------------------------------------------------------
(* Properties. *)

\* Every call that reached the queue with a mutation is audited once, with
\* the outcome its caller was told, and for a run of kubectl of its own;
\* nothing else is audited (KubeCtlCommandRoutes.ts:146-199,
\* KubeCtlExecutor.ts:64-88).
MutationsAnswerForThemselves ==
  \A c \in Callers :
    IsCommand(c) /\ call[c].at = "done" =>
      IF call[c].req.op \in Mutations /\ call[c].ran # None
      THEN /\ call[c].ran = c
           /\ Len(call[c].audits) = 1
           /\ call[c].status = Status(call[c].audits[1])
      ELSE call[c].audits = <<>>

\* What a user saved stays until the user saves again: neither the defaults
\* of a load that found no row yet, nor the import of a legacy file, nor a
\* save of the other field replaces it (UserResourceSelections.ts:145-282).
SavedIsKept ==
  /\ savedIds # Absent => row.ids = savedIds
  /\ savedPrefs # Absent => row.prefs = savedPrefs

\* The types a refresh answers with were in the cluster after it was asked,
\* unless its scan failed (CrdScanner.ts:245-255).
RefreshIsRecent ==
  \A c \in Callers :
    call[c].at = "done" /\ call[c].found # None =>
      \E k \in call[c].may : call[c].found = Found(k)

\* Every scan ends, so that refreshes are not refused for ever
\* (CrdScanner.ts:257-268).
ScansEnd == []<>(scan = None)
=============================================================================
