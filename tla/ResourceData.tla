---------------------------- MODULE ResourceData ----------------------------
(***************************************************************************)
(* GET /api/resources/data/:type (server/src/cache/KubeResourceRoutes.ts)  *)
(* for one resource type: stale-while-revalidate over the file cache and   *)
(* the request queue.                                                      *)
(*                                                                         *)
(* The handler runs between awaits; requests interleave at each of them.   *)
(* It is composed with the queue and the cache by their abstract           *)
(* specifications, Dispatcher and CacheCell, which RequestQueue and        *)
(* KubeCache are shown to implement: what holds here does not rest on how  *)
(* they work.  The calls of other users of the queue appear as the number  *)
(* of slots they leave, which may be none; the listing is represented by   *)
(* the version of the cluster it was read at.  A restart loses the         *)
(* requests and the queue and keeps the cell: it is an initial state.      *)
(* A blend of entries that the cache may hold is sent like an entry.  Time *)
(* is not modelled: whatever is found may be stale or fresh.               *)
(***************************************************************************)
EXTENDS Naturals, FiniteSets

CONSTANTS
  Requests,     \* requests for the type; each calls execute() at most once
  Old,          \* what the cache holds at the start: an entry, or a blend of some
  Miss, Blend, Pending, NoItem, NoKey, None,
  TypeKey,      \* "get:<type>"
  Places,       \* slots the other users of the queue may leave to the type
  MaxVersion    \* bound: how often the cluster changes

Entries == Requests \cup {Old}
ASSUME EntryAssumption ==
  /\ Old \notin Requests
  /\ {Miss, Blend, Pending, None, "busy", "failed"} \cap Entries = {}
ASSUME NamesAssumption ==
  NoItem \notin Requests /\ NoKey # TypeKey /\ Miss # Blend
  /\ None \notin Nat \cup {"busy", "failed", Blend}
ASSUME BoundAssumption == Places \subseteq Nat /\ MaxVersion \in Nat

VARIABLES
  version,                                \* of the cluster
  seen,                                   \* seen[i]: version execution i read
  data,                                   \* data[e]: version entry e holds
  step, force, reply,                     \* of each request
  arrived, inFlight,                      \* history, see Arrive
  before, uncleared,                      \* history, see Clear
  limit, keyOf, item, stage, result,      \* of the queue
  cell, setting, crowd, cleared, got, up  \* of the cache

Queue == INSTANCE Dispatcher WITH
  Calls <- Requests, Keys <- {TypeKey}, Limits <- Places, answer <- result
Cache == INSTANCE CacheCell WITH
  Sets <- Requests, Gets <- Requests, Clears <- Requests, answer <- got

queueVars == <<limit, keyOf, item, stage, result>>
cacheVars == <<cell, setting, crowd, cleared, got, up>>
routeVars == <<step, force, reply>>
history   == <<arrived, inFlight, before, uncleared>>
world     == <<version, seen, data>>
vars == <<world, routeVars, history, queueVars, cacheVars>>

Init ==
  /\ Queue!Init
  /\ cell \in {Old, Miss} /\ up = TRUE
  /\ setting = {} /\ crowd = {} /\ cleared = {}
  /\ got = [r \in Requests |-> Pending]
  /\ version = 0
  /\ seen = [i \in Requests |-> None]
  /\ data = [e \in Entries |-> IF e = Old THEN 0 ELSE None]
  /\ step = [r \in Requests |-> "new"]
  /\ force = [r \in Requests |-> FALSE]
  /\ reply = [r \in Requests |-> None]
  /\ arrived = [r \in Requests |-> 0]
  /\ inFlight = [r \in Requests |-> {}]
  /\ before = [r \in Requests |-> {}]
  /\ uncleared = {}

Goto(r, s) == step' = [step EXCEPT ![r] = s]
Send(r, e) == reply' = [reply EXCEPT ![r] = e]

-----------------------------------------------------------------------------
(* The handler.                                                            *)

\* Remembered: the version of the cluster, and the listings under way.
Arrive(r, f) ==
  /\ step[r] = "new"
  /\ Goto(r, IF f THEN "clearing" ELSE "looking")
  /\ force' = [force EXCEPT ![r] = f]
  /\ arrived' = [arrived EXCEPT ![r] = version]
  /\ inFlight' = [inFlight EXCEPT ![r] = Queue!Running]
  /\ UNCHANGED <<world, reply, before, uncleared, queueVars, cacheVars>>

\* Mutant of Clear: a forced request leaves the cache alone.
SkipClear(r) ==
  /\ step[r] = "clearing" /\ Goto(r, "looking")
  /\ before' = [before EXCEPT ![r] =
                  {e \in Entries \ setting : data[e] # None}]
  /\ UNCHANGED <<world, force, reply, arrived, inFlight, uncleared,
                 queueVars, cacheVars>>

\* The handler goes on whether or not the file could be removed.  Remembered:
\* the entries whose set() was over, and the requests whose removal failed.
Clear(r) ==
  /\ step[r] = "clearing" /\ Goto(r, "looking")
  /\ Cache!Clear(r)
  /\ before' = [before EXCEPT ![r] =
                  {e \in Entries \ setting : data[e] # None}]
  /\ uncleared' = IF cell' = Miss THEN uncleared ELSE uncleared \cup {r}
  /\ UNCHANGED <<world, force, reply, arrived, inFlight, queueVars>>

Look(r) ==
  /\ step[r] = "looking"
  /\ Cache!Get(r)
  /\ Goto(r, IF got'[r] = Miss THEN "missed" ELSE "hit")
  /\ UNCHANGED <<world, force, reply, history, queueVars>>

\* Mutants of Execute: the call is made without a key; an answer that was
\* given before is used again.
ExecuteUnshared(c, k) == Queue!Refuse(c, NoKey) \/ Queue!Accept(c, NoKey)
ExecuteMemoised(c, k) ==
  \/ \E i \in Requests : Queue!Share(c, k, i)
  \/ \E i \in Requests :
       /\ stage[c] = "new" /\ keyOf[i] = k /\ result[i] = "resolved"
       /\ item' = [item EXCEPT ![c] = i]
       /\ stage' = [stage EXCEPT ![c] = "joined"]
       /\ keyOf' = [keyOf EXCEPT ![c] = k]
       /\ UNCHANGED <<limit, result>>
  \/ Queue!Refuse(c, k)
  \/ Queue!Accept(c, k)

Execute(c, k) ==
  \/ \E i \in Requests : Queue!Share(c, k, i)
  \/ Queue!Refuse(c, k)
  \/ Queue!Accept(c, k)

HitFresh(r) ==
  /\ step[r] = "hit"
  /\ Goto(r, "over") /\ Send(r, got[r])
  /\ UNCHANGED <<world, force, history, queueVars, cacheVars>>

\* The old entry is sent at once; the refresh goes on without the request,
\* and a full queue only costs the refresh.
HitStale(r) ==
  /\ step[r] = "hit"
  /\ Send(r, got[r])
  /\ Execute(r, TypeKey)
  /\ Goto(r, IF stage'[r] = "refused" THEN "over" ELSE "refreshing")
  /\ UNCHANGED <<world, force, history, cacheVars>>

Fetch(r) ==
  /\ step[r] = "missed"
  /\ Execute(r, TypeKey)
  /\ IF stage'[r] = "refused"
     THEN Goto(r, "over") /\ Send(r, "busy")
     ELSE Goto(r, "fetching") /\ UNCHANGED reply
  /\ UNCHANGED <<world, force, history, cacheVars>>

\* The execution was answered; the output is compressed and set() begins.
Save(r) ==
  /\ step[r] \in {"fetching", "refreshing"}
  /\ result[item[r]] = "resolved"
  /\ data' = [data EXCEPT ![r] = seen[item[r]]]
  /\ Goto(r, IF step[r] = "fetching" THEN "saving" ELSE "storing")
  /\ Cache!Begin(r)
  /\ UNCHANGED <<version, seen, force, reply, history, queueVars>>

\* Mutant of FetchFails: an error of the execution is logged only.
FetchFailsSilently(r) ==
  /\ step[r] \in {"fetching", "refreshing"}
  /\ result[item[r]] # "pending"
  /\ Goto(r, "over") /\ UNCHANGED reply
  /\ UNCHANGED <<world, force, history, queueVars, cacheVars>>

\* The execution failed or timed out, or its output could not be redacted or
\* compressed: 503, or a line in the log for a refresh.
FetchFails(r) ==
  /\ step[r] \in {"fetching", "refreshing"}
  /\ result[item[r]] # "pending"
  /\ Goto(r, "over")
  /\ IF step[r] = "fetching" THEN Send(r, "failed") ELSE UNCHANGED reply
  /\ UNCHANGED <<world, force, history, queueVars, cacheVars>>

\* set() returns, whether or not it could store the entry.
Saved(r) ==
  /\ step[r] \in {"saving", "storing"}
  /\ setting' = setting \ {r}
  /\ Cache!Put \/ Cache!Lose \/ Cache!Finish(r)
  /\ Goto(r, "over")
  /\ IF step[r] = "saving" THEN Send(r, r) ELSE UNCHANGED reply
  /\ UNCHANGED <<world, force, history, queueVars>>

-----------------------------------------------------------------------------
(* The queue, the cache and the cluster.                                   *)

\* set() has stored the entry, or lost the one that was there, and goes on.
StoreStep ==
  /\ UNCHANGED setting
  /\ Cache!Put \/ Cache!Lose
  /\ UNCHANGED <<world, routeVars, history, queueVars>>

\* Other users of the queue take slots and give them back.
OthersCome(n) ==
  /\ n # limit
  /\ Queue!SetLimit(n)
  /\ UNCHANGED <<world, routeVars, history, cacheVars>>

\* kubectl reads the listing from the API server.
ReadCluster(i) ==
  /\ stage[i] = "running" /\ seen[i] = None
  /\ seen' = [seen EXCEPT ![i] = version]
  /\ UNCHANGED <<version, data, routeVars, history, queueVars, cacheVars>>

Answer(i, o) ==
  /\ o = "resolved" => seen[i] # None
  /\ Queue!Answer(i, o)
  /\ UNCHANGED <<world, routeVars, history, cacheVars>>

Dispatch ==
  /\ Queue!GiveUp \/ \E i \in Requests : Queue!Leave(i)
  /\ UNCHANGED <<world, routeVars, history, cacheVars>>

ClusterChanges ==
  /\ version < MaxVersion
  /\ version' = version + 1
  /\ UNCHANGED <<seen, data, routeVars, history, queueVars, cacheVars>>

Handler(r) ==
  \/ Clear(r) \/ Look(r) \/ HitFresh(r) \/ HitStale(r) \/ Fetch(r) \/ Save(r)
  \/ FetchFails(r) \/ Saved(r)

Next ==
  \/ \E r \in Requests : (\E f \in BOOLEAN : Arrive(r, f)) \/ Handler(r)
  \/ StoreStep
  \/ \E n \in Places : OthersCome(n)
  \/ \E i \in Requests : \/ ReadCluster(i)
                      \/ \E o \in {"resolved", "failed", "timedOut"} : Answer(i, o)
  \/ Dispatch
  \/ ClusterChanges

(***************************************************************************)
(* The server as a whole does not stop: the event loop runs a handler that *)
(* can go on, a file operation ends, or the queue answers what it accepted *)
(* (EveryCallAnswered of RequestQueue).  A request takes finitely many of  *)
(* these steps, so it need not be said which of them comes next.  Nothing  *)
(* is assumed of the cluster, the clients and the other users.             *)
(***************************************************************************)
Progress ==
  \/ \E r \in Requests : Handler(r)
  \/ \E i \in Requests, o \in {"resolved", "failed", "timedOut"} : Answer(i, o)
  \/ Dispatch

Spec == Init /\ [][Next]_vars
FairSpec == Spec /\ WF_vars(Progress)

-----------------------------------------------------------------------------
(* Correctness.                                                            *)

\* A forced request, made after a mutation, is never answered with an entry
\* that was stored before it cleared the cache (lines 51-57), provided clear()
\* could remove the file; an entry that was being stored meanwhile may still
\* answer it, and so may a blend that overlapping calls of set() leave.
ForcedSeesNoOldEntry ==
  \A r \in Requests : force[r] /\ r \notin uncleared /\ reply[r] \in Entries =>
    reply[r] \notin before[r]

\* A request that misses the cache gets the cluster as it was when it arrived
\* or later, unless it shared a kubectl that was already running then: a
\* listing is at most one execution behind (lines 94-107, single flight).
MissLagsOneExecution ==
  \A r \in Requests :
    reply[r] = r /\ data[r] < arrived[r] => item[r] \in inFlight[r]

\* One kubectl at a time lists the type, however many requests find the cache
\* empty or stale together (lines 69, 98).
OneListing ==
  Cardinality({r \in Requests : stage[r] \in {"waiting", "running"}}) <= 1

\* Every request is answered, also when the queue is full, kubectl fails or
\* hangs and the cache cannot be written (lines 76-124).
EveryRequestReplied ==
  \A r \in Requests : step[r] # "new" ~> reply[r] # None

\* A forced request "bypasses the server cache" on the fetch that follows a
\* mutation (web/stores/KubernetesObjectStore.ts:10): what it gets from the
\* cache, if anything, is no older than the request (lines 51-54), at least
\* when clear() removed what was there.
ForcedBypassesCache ==
  \A r \in Requests : force[r] /\ r \notin uncleared /\ reply[r] \in Entries =>
    reply[r] = r \/ data[reply[r]] >= arrived[r]
=============================================================================
