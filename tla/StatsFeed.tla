------------------------------ MODULE StatsFeed ------------------------------
(***************************************************************************)
(* The statistics of the server and the page that polls them:              *)
(* server/src/stats/StatsDataMetrics.ts, StatsDataPodUsage.ts,             *)
(* StatsDataUtils.ts, StatsEtag.ts, StatsRoutes.ts and the polling of      *)
(* web/pages/kubernetes/stats.vue over web/services/StatsApi.ts.           *)
(*                                                                         *)
(* Two capture loops share one pods listing.  A loop is named after what   *)
(* it feeds, a listing after the loop that started it: a loop waits for    *)
(* the listing it starts, so it has one in flight at most.  A payload is   *)
(* named by the process and the capture that produced it.  Of the usage    *)
(* table one pod is followed, by the range of its samples.                 *)
(***************************************************************************)
EXTENDS Integers, Sequences, FiniteSets, FiniteSetsExt, SequencesExt

CONSTANTS
  None, Torn,  \* no value; a file that cannot be parsed
  Samples,     \* what "kubectl top pods" can say of the pod followed
  Polled,      \* the feeds the page polls, each with its own etag and payload
  MaxVersion,  \* bound: captures per process and feed
  MaxRestarts, \* bound
  MaxPolls     \* bound: polls the page sends

Feeds == {"nodes", "pods"}

ASSUME SamplesAssumption == Samples \subseteq Nat
ASSUME PolledAssumption == Polled \subseteq Feeds
ASSUME NoneAssumption == \A x \in {None, Torn} : x \notin Feeds /\ x \notin Nat \X Nat

VARIABLES
  boot,     \* the process; instanceId differs in each
  step,     \* where each loop awaits; "idle" is running = false
  asks,     \* the listing a loop waits for
  listing,  \* listings in flight
  snap,     \* podsSnapshot: the listing shared, or None
  aged,     \* the snapshot is older than podsSnapshotTtlMs
  data,     \* the payload of each feed
  version,  \* statsVersion and captureVersion
  range,    \* podUsageStats of the pod followed: <<min, max>> or None
  file,     \* pod-usage-stats.json: a range, None, or Torn
  page,     \* etag and payload held by the page, per feed
  polls,    \* polls in flight; two that agree in all are one
  sent,     \* number of polls sent
  \* History:
  overtaken, \* the page took an answer older than the one it held
  seen,      \* samples since the pod was last missing that this process knows
  kept       \* those of them that are in the file

captureVars == <<step, asks, listing, snap, aged>>
feedVars == <<data, version, range, file, seen, kept>>
pageVars == <<page, polls, sent, overtaken>>
vars == <<boot, captureVars, feedVars, pageVars>>

\* StatsDataGetEtag() and the two others: the nonce of the process and the
\* version of the payload.
Etag(f) == <<boot, version[f]>>

Init ==
  /\ boot = 0
  /\ step = [f \in Feeds |-> "idle"]
  /\ asks = [f \in Feeds |-> None]
  /\ listing = {} /\ snap = None /\ aged = FALSE
  /\ data = [f \in Feeds |-> <<0, 0>>]
  /\ version = [f \in Feeds |-> 0]
  /\ range = None /\ file = None
  /\ page = [f \in Feeds |-> [etag |-> None, data |-> None]]
  /\ polls = {} /\ sent = 0
  /\ overtaken = FALSE /\ seen = {} /\ kept = {}

-----------------------------------------------------------------------------
(* The pods listing shared by the loops. *)

\* kubernetesCommand(): a loop that needs the pods joins the snapshot while
\* it is young, whether it has been answered or not, and starts a listing
\* otherwise.  An answered snapshot takes it straight to the next command.
AskPods(f) ==
  IF snap # None /\ ~aged
  THEN /\ step' = [step EXCEPT ![f] = IF snap \in listing THEN "pods" ELSE "top"]
       /\ asks' = [asks EXCEPT ![f] = IF snap \in listing THEN snap ELSE None]
       /\ UNCHANGED <<listing, snap, aged>>
  ELSE /\ step' = [step EXCEPT ![f] = "pods"]
       /\ asks' = [asks EXCEPT ![f] = f]
       /\ listing' = listing \cup {f}
       /\ snap' = f /\ aged' = FALSE

\* Mutant: a failed listing stays shared.
KeepFailed(p) == snap' = snap

\* The handler of a failed listing: it drops the snapshot it belongs to.
DropFailed(p) == snap' = (IF snap = p THEN None ELSE snap)

Waiting(p) == {f \in Feeds : asks[f] = p}

-----------------------------------------------------------------------------
(* The capture loops. *)

\* Mutant: running is released on success only.
ReleaseNot(s) == s

\* The end of a capture that threw: caught, and running is released.
Release(s) == "idle"

\* An interval or the initial capture fires.  A capture still running is
\* the guard's "skipped": nothing happens.
Tick(f) ==
  /\ step[f] = "idle" /\ version[f] < MaxVersion
  /\ IF f = "nodes"
     THEN /\ step' = [step EXCEPT ![f] = "nodes"]
          /\ UNCHANGED <<asks, listing, snap, aged>>
     ELSE AskPods(f)
  /\ UNCHANGED <<boot, feedVars, pageVars>>

\* Mutant: the version is not raised when nobody needs it.
PublishNothing(f) == version' = version

\* The capture of f ends and raises the version of its payload.
Publish(f) == version' = [version EXCEPT ![f] = @ + 1]

Fresh(f) == [data EXCEPT ![f] = <<boot, data[f][2] + 1>>]

\* "kubectl get nodes" is answered: with nodes, without the items, or not.
NodesListed ==
  /\ step["nodes"] = "nodes" /\ AskPods("nodes")
  /\ UNCHANGED <<boot, feedVars, pageVars>>

NodesMissing ==
  /\ step["nodes"] = "nodes"
  /\ step' = [step EXCEPT !["nodes"] = "idle"]
  /\ Publish("nodes")
  /\ UNCHANGED <<boot, asks, listing, snap, aged, data, range, file, seen, kept, pageVars>>

NodesFailed ==
  /\ step["nodes"] = "nodes"
  /\ step' = [step EXCEPT !["nodes"] = Release(@)]
  /\ UNCHANGED <<boot, asks, listing, snap, aged, feedVars, pageVars>>

\* A pods listing is answered: its waiters run "kubectl top" next.
PodsListed(p) ==
  /\ p \in listing /\ listing' = listing \ {p}
  /\ step' = [f \in Feeds |-> IF f \in Waiting(p) THEN "top" ELSE step[f]]
  /\ asks' = [f \in Feeds |-> IF f \in Waiting(p) THEN None ELSE asks[f]]
  /\ UNCHANGED <<boot, snap, aged, feedVars, pageVars>>

PodsFailed(p) ==
  /\ p \in listing /\ listing' = listing \ {p}
  /\ DropFailed(p)
  /\ step' = [f \in Feeds |-> IF f \in Waiting(p) THEN Release(step[f]) ELSE step[f]]
  /\ asks' = [f \in Feeds |-> IF f \in Waiting(p) THEN None ELSE asks[f]]
  /\ UNCHANGED <<boot, aged, feedVars, pageVars>>

\* "kubectl top nodes" is answered or fails, which is caught: the
\* measurements are appended, old ones filtered, and the version raised
\* without an await in between.
NodesCaptured ==
  /\ step["nodes"] = "top"
  /\ step' = [step EXCEPT !["nodes"] = "idle"]
  /\ data' = Fresh("nodes")
  /\ Publish("nodes")
  /\ UNCHANGED <<boot, asks, listing, snap, aged, range, file, seen, kept, pageVars>>

\* Mutant: the range starts again with every sample.
WidenAfresh(r, s) == <<s, s>>

Widen(r, s) == IF r = None THEN <<s, s>> ELSE <<Min({r[1], s}), Max({r[2], s})>>

\* "kubectl top pods" is answered or fails, which is caught: the payload is
\* replaced, and the range follows the pod if it has a sample, or is deleted
\* if the listing no longer has the pod.
PodsCaptured ==
  /\ step["pods"] = "top"
  /\ step' = [step EXCEPT !["pods"] = "persist"]
  /\ data' = Fresh("pods")
  /\ \/ \E s \in Samples : range' = Widen(range, s) /\ seen' = seen \cup {s}
     \/ UNCHANGED <<range, seen>>
     \/ range' = None /\ seen' = {}
  /\ UNCHANGED <<boot, asks, listing, snap, aged, version, file, kept, pageVars>>

\* The listing had no items: the capture ends before "kubectl top", and its
\* version is raised all the same.
PodsMissing ==
  /\ step["pods"] = "top"
  /\ step' = [step EXCEPT !["pods"] = "idle"]
  /\ Publish("pods")
  /\ UNCHANGED <<boot, asks, listing, snap, aged, data, range, file, seen, kept, pageVars>>

\* persistPodUsageStats(): the file is truncated, then written.
OpenFile ==
  /\ step["pods"] = "persist"
  /\ step' = [step EXCEPT !["pods"] = "writing"]
  /\ file' = Torn /\ kept' = {}
  /\ UNCHANGED <<boot, asks, listing, snap, aged, data, version, range, seen, pageVars>>

FileWritten ==
  /\ step["pods"] = "writing"
  /\ step' = [step EXCEPT !["pods"] = "idle"]
  /\ file' = range /\ kept' = seen
  /\ Publish("pods")
  /\ UNCHANGED <<boot, asks, listing, snap, aged, data, range, seen, pageVars>>

\* Opening or writing fails: logged, and the capture counts all the same.
PersistFailed ==
  /\ step["pods"] \in {"persist", "writing"}
  /\ step' = [step EXCEPT !["pods"] = "idle"]
  /\ Publish("pods")
  /\ UNCHANGED <<boot, asks, listing, snap, aged, data, range, file, seen, kept, pageVars>>

-----------------------------------------------------------------------------
(* The clock, configuration reloads, and the end of the process. *)

Age == snap # None /\ ~aged /\ aged' = TRUE
       /\ UNCHANGED <<boot, step, asks, listing, snap, feedVars, pageVars>>

\* StatsDataReconfigure(): the intervals are armed anew, the snapshot dropped.
Reload ==
  /\ snap # None /\ snap' = None /\ aged' = FALSE
  /\ UNCHANGED <<boot, step, asks, listing, feedVars, pageVars>>

\* loadPodUsageStats(): a file that cannot be parsed counts for nothing.
Load == IF file = Torn THEN None ELSE file

\* The process ends and the next one sets itself up.  Polls it had not
\* answered fail.
Restart ==
  /\ boot < MaxRestarts /\ boot' = boot + 1
  /\ step' = [f \in Feeds |-> "idle"]
  /\ asks' = [f \in Feeds |-> None]
  /\ listing' = {} /\ snap' = None /\ aged' = FALSE
  /\ data' = [f \in Feeds |-> <<boot', 0>>]
  /\ version' = [f \in Feeds |-> 0]
  /\ range' = Load /\ seen' = kept
  /\ polls' = {q \in polls : q.reply # None}
  /\ UNCHANGED <<file, page, sent, overtaken, kept>>

-----------------------------------------------------------------------------
(* The page and the routes. *)

\* refreshStats(), refreshPodResources(), refreshPodUsageStats(): the etag
\* held goes with the request.
Poll(f) ==
  /\ sent < MaxPolls /\ sent' = sent + 1
  /\ polls' = polls \cup {[feed |-> f, match |-> page[f].etag, reply |-> None]}
  /\ UNCHANGED <<boot, captureVars, feedVars, page, overtaken>>

\* SendConditionalJson() of the route of the feed.
Reply(q) ==
  [etag |-> Etag(q.feed),
   data |-> IF q.match = Etag(q.feed) THEN None ELSE data[q.feed]]

Older(e, held) ==
  held # None /\ \/ e[1] < held[1]
                 \/ e[1] = held[1] /\ e[2] < held[2]

Serve(q) ==
  /\ q.reply = None
  /\ polls' = (polls \ {q}) \cup {[q EXCEPT !.reply = Reply(q)]}
  /\ UNCHANGED <<boot, captureVars, feedVars, page, sent, overtaken>>

\* The answer reaches the page: its etag is kept, and its payload unless it
\* is a 304.
Receive(q) ==
  /\ q.reply # None
  /\ page' = [page EXCEPT ![q.feed] =
       [etag |-> q.reply.etag,
        data |-> IF q.reply.data = None THEN @.data ELSE q.reply.data]]
  /\ polls' = polls \ {q}
  /\ overtaken' = (overtaken \/ Older(q.reply.etag, page[q.feed].etag))
  /\ UNCHANGED <<boot, captureVars, feedVars, sent>>

\* The poll fails: handleError(), nothing kept.
PollFails(q) ==
  /\ polls' = polls \ {q}
  /\ UNCHANGED <<boot, captureVars, feedVars, page, sent, overtaken>>

-----------------------------------------------------------------------------
Capture ==
  \/ NodesListed \/ NodesMissing \/ NodesFailed \/ NodesCaptured
  \/ \E p \in Feeds : PodsListed(p) \/ PodsFailed(p)
  \/ PodsCaptured \/ PodsMissing \/ OpenFile \/ FileWritten \/ PersistFailed

Next ==
  \/ Capture \/ Age \/ Reload \/ Restart
  \/ \E f \in Feeds : Tick(f)
  \/ \E f \in Polled : Poll(f)
  \/ \E q \in polls : Serve(q) \/ Receive(q) \/ PollFails(q)

Spec == Init /\ [][Next]_vars

\* The queue answers each call (EveryCallAnswered of RequestQueue) and the
\* disk each operation; nothing is owed by the page or by the clock.
Progress(f) ==
  IF f = "nodes"
  THEN NodesListed \/ NodesFailed \/ NodesMissing \/ NodesCaptured
       \/ \E p \in Feeds : p = asks[f] /\ (PodsListed(p) \/ PodsFailed(p))
  ELSE PodsCaptured \/ PodsMissing \/ OpenFile \/ FileWritten \/ PersistFailed
       \/ \E p \in Feeds : p = asks[f] /\ (PodsListed(p) \/ PodsFailed(p))

FairSpec == Spec /\ \A f \in Feeds : WF_vars(Progress(f))

-----------------------------------------------------------------------------
(* Properties. *)

\* As long as no answer is overtaken by a newer one, a page that holds the
\* server's current tag shows the server's current payload, across restarts
\* too: a 304 never confirms anything else (StatsEtag.ts:42-55).  The usage
\* capture is the exception while it writes its file: the payload is new
\* already and the tag still old (StatsDataPodUsage.ts:256-259).
NotModifiedIsCurrent ==
  \A f \in Feeds :
    /\ ~overtaken /\ page[f].etag = Etag(f)
    /\ step[f] \notin {"persist", "writing"}
    => page[f].data = data[f]

\* The range kept for a pod is exactly that of all its samples since it was
\* last missing, across restarts too, except for the samples whose capture
\* was not in the file when a process ended (StatsDataPodUsage.ts:204-260).
RangeIsOfAllSamples ==
  range = IF seen = {} THEN None ELSE <<Min(seen), Max(seen)>>

\* A listing that failed is given to nobody who asks later, and only its own
\* failure, its age or a reload takes a shared listing away
\* (StatsDataUtils.ts:35-50).
SharedListingIsUsable ==
  [][/\ \A p \in listing \ listing' : snap' = p => step'[p] = "top"
     /\ snap' = None /\ snap \in listing \cap listing' => Reload]_vars

\* Every capture ends, however kubectl and the disk fail, and releases the
\* guard that would skip all later ones (StatsDataMetrics.ts:117-133).
CapturesEnd == \A f \in Feeds : []<>(step[f] = "idle")
=============================================================================
