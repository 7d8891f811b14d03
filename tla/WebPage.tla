-------------------------------- MODULE WebPage --------------------------------
(***************************************************************************)
(* The object page (web/pages/kubernetes/index.vue) with the list it       *)
(* shows, the store behind it, the dialog with logs and the commands the   *)
(* lists send (web/components/Kubernetes*List.vue): one browser tab whose  *)
(* requests are answered in any order.                                     *)
(*                                                                         *)
(* An action is what runs between two awaits, with the watchers it         *)
(* triggers.  The server is external: a listing is any set of items, fresh *)
(* or stale; once stuck it has none that is fresh.                         *)
(***************************************************************************)
EXTENDS ListTriage, LogDialog

CONSTANTS
  PodType,     \* the type whose list opens the logs
  Namespaced,  \* the types that have a namespace
  Namespaces, Keywords, \* what the user may filter by
  MaxActs      \* bound: what the user does, refreshes aside

ASSUME WebPageAssumption == PodType \in Types /\ Namespaced \subseteq Types

VARIABLES
  objectType,  \* the type of the list shown
  commands,    \* types of the commands in flight
  stuck,       \* the server cannot reach the cluster any more
  acts,
  news         \* history: changed types no listing asked for since has shown

pageVars == <<objectType, commands, stuck, acts, news>>
vars == <<storeVars, triageVars, logVars, pageVars>>

Init ==
  /\ objectType = PodType /\ StoreInit(PodType) /\ TriageInit /\ LogInit
  /\ commands = {} /\ stuck = FALSE /\ acts = 0 /\ news = {}

Acts == acts < MaxActs /\ acts' = acts + 1

-----------------------------------------------------------------------------
(* The list shown *)

\* The items of the list of objectType, on all its pages.
Shown == Triaged(data[objectType], arranged)

\* A list that is not named keeps its arrangement and preferences.
KeepList(page) ==
  /\ UNCHANGED <<arranged, userInteracted, preferenceVars>>
  /\ Turn(objectType, page)

KeepPage == KeepList(pageOf[objectType])

\* onObjectTypeChange() and the watcher of objectType: the filter loses a
\* namespace the type does not have, the listing is forced, the list of the
\* type is mounted on its first page and its dialogs are gone.
SwitchType(t) ==
  /\ Acts /\ t # objectType /\ objectType' = t
  /\ SetFilter(IF t \in Namespaced THEN namespace ELSE AllItems, keyword)
  /\ InvalidateAndRefresh(t)
  /\ Mount(t) /\ Turn(t, 1)
  /\ Unmount
  /\ UNCHANGED <<commands, stuck, news>>

\* onNamespaceChange(), onKeywordChanged(); the list turns to its first page.
FilterChanges ==
  /\ Acts
  /\ \/ \E n \in Namespaces \ {namespace} : objectType \in Namespaced /\ SetFilter(n, keyword)
     \/ \E k \in Keywords \ {keyword} : SetFilter(namespace, k)
  /\ KeepList(1)
  /\ UNCHANGED <<fetchVars, logVars, objectType, commands, stuck, news>>

\* The refresh button and the interval: refreshLast().
Refresh ==
  /\ GetObject(lastCall)
  /\ UNCHANGED <<listVars, triageVars, logVars, pageVars>>

UserArranges ==
  /\ Acts /\ UNCHANGED storeVars /\ Arrange(objectType)
  /\ UNCHANGED <<logVars, objectType, commands, stuck, news>>

\* The buttons of ListPager.
GoTo ==
  /\ Acts /\ UNCHANGED storeVars
  /\ \E step \in {-1, 1} : KeepList(pageOf[objectType] + step)
  /\ pageOf' # pageOf
  /\ UNCHANGED <<logVars, objectType, commands, stuck, news>>

PreferencesAnswered ==
  /\ UNCHANGED <<storeVars, logVars, pageVars>> /\ PreferencesLoaded(objectType)

PreferencesSaved ==
  /\ SaveSent \/ SaveEnds
  /\ UNCHANGED <<storeVars, logVars, pageVars>>

-----------------------------------------------------------------------------
(* Listings *)

\* News of t is what a listing is still to show: that of a forced request
\* sent after the last change.
Told(t) ==
  news' = IF _pendingCacheRequests[t] = "forced" /\ t \notin _forceRefreshTypes
          THEN news \ {t} ELSE news

ListingAnswered(t) ==
  /\ \E items \in Listings[t], status \in {"fresh", "stale"} :
       /\ stuck => status = "stale"
       /\ Answered(t, items, status)
  /\ KeepPage /\ Told(t)
  /\ UNCHANGED <<logVars, objectType, commands, stuck, acts>>

\* The flag of a forced request goes with it.
ListingFails(t) ==
  /\ RequestFails(t) /\ Told(t)
  /\ UNCHANGED <<triageVars, logVars, objectType, commands, stuck, acts>>

Listing(t) == ListingAnswered(t) \/ ListingFails(t)

Retry(t) == RetryDue(t) /\ UNCHANGED <<triageVars, logVars, pageVars>>

ServerStuck ==
  /\ ~stuck /\ stuck' = TRUE
  /\ UNCHANGED <<storeVars, triageVars, logVars, objectType, commands, acts, news>>

-----------------------------------------------------------------------------
(* Commands and logs *)

\* A confirmed delete, scale or restart.
SendCommand ==
  /\ Acts /\ commands' = commands \cup {objectType}
  /\ UNCHANGED <<storeVars, triageVars, logVars, objectType, stuck, news>>

\* The object has changed (OBJECT_CHANGED), is gone (404, handled by
\* handleStaleObjectError()), or the command failed.
CommandAnswered(t) ==
  /\ t \in commands /\ commands' = commands \ {t}
  /\ \/ InvalidateAndRefresh(t) /\ news' = news \cup {t}
     \/ UNCHANGED <<fetchVars, news>>
  /\ UNCHANGED <<listVars, triageVars, logVars, objectType, stuck, acts>>

OpenLogs ==
  /\ Acts /\ objectType = PodType /\ ShowLogs
  /\ UNCHANGED <<storeVars, triageVars, objectType, commands, stuck, news>>

LogOptions ==
  /\ \/ Acts /\ (AutoRefreshChange \/ FollowChange)
     \/ (LogsAsked \/ Unmount) /\ UNCHANGED acts
  /\ UNCHANGED <<storeVars, triageVars, objectType, commands, stuck, news>>

\* What the dialog asked for is answered; 404 says that the pod is gone.
LogDialogAnswered ==
  /\ PodAnswered \/ LogsAnswered
  /\ \/ InvalidateAndRefresh(PodType) /\ news' = news \cup {PodType}
     \/ UNCHANGED <<fetchVars, news>>
  /\ UNCHANGED <<listVars, triageVars, objectType, commands, stuck, acts>>

-----------------------------------------------------------------------------
Next ==
  \/ \E t \in Types : SwitchType(t) \/ Listing(t) \/ Retry(t) \/ CommandAnswered(t)
  \/ FilterChanges \/ Refresh \/ UserArranges \/ GoTo
  \/ PreferencesAnswered \/ PreferencesSaved \/ ServerStuck
  \/ SendCommand \/ OpenLogs \/ LogOptions \/ LogDialogAnswered

Spec == Init /\ [][Next]_vars

\* Requests are answered or fail, and timers fire.
FairSpec ==
  /\ Spec
  /\ \A t \in Types : WF_vars(Listing(t)) /\ WF_vars(Retry(t))
  /\ WF_vars(LogDialogAnswered)

-----------------------------------------------------------------------------
(* Properties *)

\* Once the last request for the type on the page has been answered, the
\* list is what was fetched, filtered by what the search field and the
\* namespace selector say, in whatever order answers and filters came
\* (KubernetesObjectStore.ts:228-235 filters one type only, the type asked
\* for last).
ListMatchesFilter ==
  (lastCall = objectType /\ ~Pending(objectType) /\ objectType \notin failed)
    => data[objectType] = Filtered(dataFull[objectType], namespace, keyword)

\* A change the user made is not forgotten while an older request for the
\* type is in flight: the next one, or the one in flight, bypasses the
\* server's cache (KubernetesObjectStore.ts:294-304).
InvalidationKept ==
  \A t \in news : t \in _forceRefreshTypes \/ _pendingCacheRequests[t] = "forced"

\* Whatever refreshes, filters and preferences do to a list, the page the
\* user is on has items if the list has any (ListPagination.ts:30-43).
PageShowsItems ==
  Shown # {} => /\ pageOf[objectType] >= 1
                /\ (pageOf[objectType] - 1) * LIST_PAGE_SIZE < Cardinality(Shown)

\* "The active column sort and quick-filters of each list follow the user"
\* (README.md:7): once nothing is due or in flight, and the last save arrived
\* last, the server holds what the session shows, unless something was
\* changed before the preferences were loaded.
PreferencesFollow ==
  (~saveTimeout /\ saving = <<>> /\ newest = "kept" /\ ~early) =>
    /\ stored = preferences
    /\ userInteracted => stored[objectType] = arranged

\* A page left alone in front of a server that stays stale comes to rest but
\* for its interval: the retries end ("cannot spin forever",
\* KubernetesObjectStore.ts:44-46), and so do the requests of a dialog that
\* was closed (DialogLogs.vue:193-196).
PollingEnds ==
  <>[](stuck /\ ~dialog) =>
    <>[](/\ \A t \in Types : retries[t] = 0
         /\ ~fetchingPod /\ ~fetchInFlight)
=============================================================================
