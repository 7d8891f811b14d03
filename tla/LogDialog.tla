------------------------------- MODULE LogDialog -------------------------------
(***************************************************************************)
(* The dialog with the logs of a pod (web/components/DialogLogs.vue): a    *)
(* request at a time, repeated by one of two intervals.  The text and the  *)
(* options that choose it are left out.                                    *)
(***************************************************************************)
VARIABLES
  dialog,        \* the dialog is mounted
  fetchingPod,   \* fetchPodDetails() is awaited
  fetchInFlight,
  autoRefreshTimer, followTimer

logVars == <<dialog, fetchingPod, fetchInFlight, autoRefreshTimer, followTimer>>

LogInit ==
  /\ dialog = FALSE /\ fetchingPod = FALSE /\ fetchInFlight = FALSE
  /\ autoRefreshTimer = FALSE /\ followTimer = FALSE

\* fetchLogs(): skipped when a request is in flight.
FetchLogs == fetchInFlight' = TRUE

\* showLogs(), created().  Bound: not before the requests of the dialog that
\* was open are over.
ShowLogs ==
  /\ ~dialog /\ ~fetchingPod /\ ~fetchInFlight
  /\ dialog' = TRUE /\ fetchingPod' = TRUE
  /\ UNCHANGED <<fetchInFlight, autoRefreshTimer, followTimer>>

\* The pod is there, or not, and its logs are asked for all the same.
PodAnswered ==
  /\ fetchingPod /\ fetchingPod' = FALSE
  /\ FetchLogs
  /\ UNCHANGED <<dialog, autoRefreshTimer, followTimer>>

LogsAnswered ==
  /\ fetchInFlight /\ fetchInFlight' = FALSE
  /\ UNCHANGED <<dialog, fetchingPod, autoRefreshTimer, followTimer>>

\* onAutoRefreshChange(), onFollowChange(): each switches the other off.
AutoRefreshChange ==
  /\ dialog /\ autoRefreshTimer' = ~autoRefreshTimer
  /\ IF autoRefreshTimer THEN UNCHANGED <<followTimer, fetchInFlight>>
     ELSE followTimer' = FALSE /\ FetchLogs
  /\ UNCHANGED <<dialog, fetchingPod>>

FollowChange ==
  /\ dialog /\ followTimer' = ~followTimer
  /\ IF followTimer THEN UNCHANGED <<autoRefreshTimer, fetchInFlight>>
     ELSE autoRefreshTimer' = FALSE /\ FetchLogs
  /\ UNCHANGED <<dialog, fetchingPod>>

\* An interval, the refresh button, another container or period.
LogsAsked ==
  /\ dialog \/ autoRefreshTimer \/ followTimer
  /\ FetchLogs
  /\ UNCHANGED <<dialog, fetchingPod, autoRefreshTimer, followTimer>>

\* beforeUnmount(): the intervals stop, the requests go on.
Unmount ==
  /\ dialog' = FALSE /\ autoRefreshTimer' = FALSE /\ followTimer' = FALSE
  /\ UNCHANGED <<fetchingPod, fetchInFlight>>
=============================================================================
