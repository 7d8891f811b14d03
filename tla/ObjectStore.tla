------------------------------ MODULE ObjectStore ------------------------------
(***************************************************************************)
(* The store of the object pages (web/stores/KubernetesObjectStore.ts):    *)
(* one listing per type, fetched from the resource data route, filtered by *)
(* namespace and keyword, fetched again while the server answers "stale".  *)
(*                                                                         *)
(* A filter is the set of items it lets through.  Every list asks for all  *)
(* objects of its type, so the other branch of getObject() is never taken. *)
(***************************************************************************)
EXTENDS Integers, FiniteSets, FiniteSetsExt

CONSTANTS
  Types,
  Listings,    \* what listings of each type can hold, sets of items
  STALE_RETRY_MAX_ATTEMPTS,
  MaxTimers    \* bound: retries of one type armed at once

ASSUME ListingsAssumption ==
  \A t \in Types : \A items \in Listings[t] : IsFiniteSet(items)
ASSUME RetryAssumption == STALE_RETRY_MAX_ATTEMPTS \in Nat

AllItems == UNION UNION {Listings[t] : t \in Types}

VARIABLES
  dataFull, data,           \* listings, as fetched and as filtered
  namespace, keyword,       \* filter
  lastCall,                 \* lastCall.type
  loading,
  _forceRefreshTypes,
  _pendingCacheRequests,    \* "no", or how the request in flight was sent
  _staleRetryCounts,
  retries,                  \* armed setTimeout()s of each type
  failed                    \* history: types whose last request failed

listVars == <<dataFull, data, namespace, keyword, failed>>
fetchVars == <<lastCall, loading, _forceRefreshTypes, _pendingCacheRequests,
               _staleRetryCounts, retries>>
storeVars == <<listVars, fetchVars>>

\* The store once the list of t has been created.
StoreInit(t) ==
  /\ dataFull = [u \in Types |-> {}] /\ data = dataFull /\ failed = {}
  /\ namespace = AllItems /\ keyword = AllItems
  /\ lastCall = t /\ loading = TRUE /\ _forceRefreshTypes = {}
  /\ _pendingCacheRequests = [u \in Types |-> IF u = t THEN "plain" ELSE "no"]
  /\ _staleRetryCounts = [u \in Types |-> 0]
  /\ retries = [u \in Types |-> 0]

Pending(t) == _pendingCacheRequests[t] # "no"

\* Mutant: the flag goes although no request is sent.
FetchForgets(t, forced) ==
  /\ _forceRefreshTypes' = forced \ {t}
  /\ _pendingCacheRequests' =
       [_pendingCacheRequests EXCEPT ![t] = IF Pending(t) THEN @
                                           ELSE IF t \in forced THEN "forced" ELSE "plain"]

\* getObjectCached() when the types in forced are to bypass the server's
\* cache: the flag of t is taken by the request that is sent.
Fetch(t, forced) ==
  IF Pending(t)
  THEN _forceRefreshTypes' = forced /\ UNCHANGED _pendingCacheRequests
  ELSE /\ _forceRefreshTypes' = forced \ {t}
       /\ _pendingCacheRequests' =
            [_pendingCacheRequests EXCEPT ![t] = IF t \in forced THEN "forced" ELSE "plain"]

\* getPods() and its siblings, refreshLast().
GetObject(t) ==
  /\ lastCall' = t
  /\ Fetch(t, _forceRefreshTypes)
  /\ loading' = (loading \/ ~Pending(t))
  /\ UNCHANGED <<_staleRetryCounts, retries>>

InvalidateAndRefresh(t) ==
  /\ lastCall' = t
  /\ Fetch(t, _forceRefreshTypes \cup {t})
  /\ loading' = TRUE
  /\ _staleRetryCounts' = [_staleRetryCounts EXCEPT ![t] = 0]
  /\ UNCHANGED retries

\* FilterKubernetesItems()
Filtered(items, ns, kw) == items \cap ns \cap kw

\* Mutant: the next answer will be filtered.
SetFilterLater(ns, kw) ==
  /\ namespace' = ns /\ keyword' = kw
  /\ UNCHANGED <<dataFull, data, failed>>

\* setFilterNamespace(), setFilterKeyword(): the list asked for last is
\* filtered again.
SetFilter(ns, kw) ==
  /\ namespace' = ns /\ keyword' = kw
  /\ data' = [data EXCEPT ![lastCall] = Filtered(dataFull[lastCall], ns, kw)]
  /\ UNCHANGED <<dataFull, failed>>

\* Mutant: a stale answer is always asked for again.
TryAlways(t) == TRUE

TryAgain(t) == _staleRetryCounts[t] < STALE_RETRY_MAX_ATTEMPTS

\* The answer of the data route.
Answered(t, items, status) ==
  /\ Pending(t)
  /\ _pendingCacheRequests' = [_pendingCacheRequests EXCEPT ![t] = "no"]
  /\ dataFull' = [dataFull EXCEPT ![t] = items]
  /\ data' = [data EXCEPT ![t] = Filtered(items, namespace, keyword)]
  /\ failed' = failed \ {t}
  /\ LET again == status = "stale" /\ TryAgain(t) IN
       /\ again => retries[t] < MaxTimers
       /\ loading' = (loading /\ again)
       /\ retries' = [retries EXCEPT ![t] = IF again THEN @ + 1 ELSE @]
       /\ _staleRetryCounts' =
            [_staleRetryCounts EXCEPT ![t] = IF status = "fresh" THEN 0
                                             ELSE Min({@ + 1, STALE_RETRY_MAX_ATTEMPTS})]
  /\ UNCHANGED <<namespace, keyword, lastCall, _forceRefreshTypes>>

RequestFails(t) ==
  /\ Pending(t)
  /\ _pendingCacheRequests' = [_pendingCacheRequests EXCEPT ![t] = "no"]
  /\ loading' = FALSE /\ failed' = failed \cup {t}
  /\ UNCHANGED <<dataFull, data, namespace, keyword, lastCall, _forceRefreshTypes,
                 _staleRetryCounts, retries>>

\* The timer of a stale answer; nothing if another type was asked for since.
RetryDue(t) ==
  /\ retries[t] > 0
  /\ retries' = [retries EXCEPT ![t] = @ - 1]
  /\ IF lastCall = t THEN Fetch(t, _forceRefreshTypes) /\ loading' = (loading \/ ~Pending(t))
     ELSE UNCHANGED <<_forceRefreshTypes, _pendingCacheRequests, loading>>
  /\ UNCHANGED <<listVars, lastCall, _staleRetryCounts>>
=============================================================================
