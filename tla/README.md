# A TLA+ model of kubernetes-web-lightclient

The repository is a web client for Kubernetes clusters: a Fastify server that runs `kubectl` on behalf of its
users, keeps listings in a file cache, collects statistics, and serves a Nuxt single-page application. This
directory holds TLA+ modules translated from its source, TLC configurations that model-check them, and TLAPS
proofs. Paths below are relative to the repository; `server/` stands for `kubernetes-web-lightclient-server/src/`
and `web/` for `kubernetes-web-lightclient-web/`.

## 1. The system

| Component | State | Operations | Talks to |
|---|---|---|---|
| Request queue, `server/queue/RequestQueue.ts` | waiting items, map of active keys, slot counter, limit, a timer per item | `execute`, drain, child exit (`then`/`catch`, then `finally`), timeout, `setMaxConcurrency` | runs the command generators of the executor; every route and every background task waits on it |
| kubectl executor, `server/kubectl/KubeCtlExecutor.ts` | none (one singleton) | get / command / raw command, abort of the child, redaction, compression | request queue, child processes |
| Resource cache, `server/cache/KubeCache.ts` | one file and one temporary file per resource type | `get`, `set`, `clear`, purge at start-up | the persistent volume |
| Resource data route, `server/cache/KubeResourceRoutes.ts` | none of its own | `GET /data/:type`, background refresh | cache, executor |
| Command and log routes, `server/kubectl/*Routes.ts`, `DeletePolicy.ts`, `KubeCtlValidation.ts`, `server/audit/` | none | validate, authorize, execute, audit | executor, audit log |
| Statistics, `server/stats/StatsData*.ts`, `StatsEtag.ts`, `StatsRoutes.ts` | node measurements, pod usage (also on disk), versions, one pods snapshot, readiness | captures on intervals, initial capture with a deadline, conditional GETs | executor, disk |
| LLM recommendation, `server/stats/StatsDataRecommendation.ts` | cached recommendation (also on disk), generation in flight, cron task, client | generate, reconfigure, initial generation | statistics, executor, LLM and notification services |
| Start-up and configuration, `server/App.ts`, `Config.ts` | the configuration object, a file watcher | initialise, reload | everything |
| CRD scanner, `server/crds/CrdScanner.ts`, `CrdRoutes.ts` | available resource types (also on disk), scan in flight | scan, refresh, reconcile | executor, disk |
| User selections, `server/crds/UserResourceSelections.ts` | one database row per user | load, save, legacy import | SQLite |
| Authentication and authorization, `server/auth/` | in the external `common-utils` package | scope checks | every route |
| Web object store, `web/stores/KubernetesObjectStore.ts` | listings, pending flags, retry counters, forced types | fetch, forced refresh, retry of a stale answer | resource data route |
| Web list preferences, statistics page, log dialog, deep links, session | per-session state, timers | load, debounced save, polling, follow | the routes above |

Everything on the server runs on one event loop. What makes it hard is that handlers interleave at every `await`,
that a promise and the bookkeeping that follows it run in separate microtasks, that children outlive the requests
that asked for them, that deadlines race answers, and that files outlive the process that was writing them.
`PROJECT.json` lists these hazards at their lines, with the properties that cover them or the module that will.

For each component, what makes it correct:

- queue: one execution per key, slots counted exactly, no lost wake-up, one answer per promise, nothing late is
  started, bounded and first-come-first-served waiting, every caller answered;
- cache: a reader gets a whole entry or a miss unless calls of `set()` overlapped, the entry survives crashes, a legacy
  Secret listing is never served;
- resource data route: a bound on how old an answer can be, one kubectl for many readers, every request answered;
- statistics: a payload belongs to its ETag, captures end whatever fails, readiness does not depend on the cluster;
- recommendation: one generation at a time, a failure keeps what was there, a reload applies the new settings;
- command and log routes: a mutation runs on its own, and is audited once with the outcome its caller was told;
- CRD scanner: scans end, a refresh answers with what the cluster had after it was asked;
- selections and preferences: a partial save keeps the other field, a default never replaces a saved value, and the
  server holds in the end what the session shows;
- web store and lists: the list is the listing under the filters, a change is asked for past the cache, the page shown
  has items, retries end;
- deep links and session: the URL says what is shown, and the link survives an expired session.

## 2. The modules

    RequestQueue --implements--> Dispatcher <--uses-- ResourceData --uses--> CacheCell <--implements-- KubeCache

    StatsFeed      ServerStart      DeepLinks      Downsample

    TypeCatalog, Selections <--extends-- ApiRoutes
    ObjectStore <--extends-- ListTriage <--extends-- WebPage --extends--> LogDialog

`Dispatcher` and `CacheCell` say what the queue and the cache promise. `RequestQueue` and `KubeCache` are the
code, and are proved to implement those promises. `ResourceData` is the route over the promises only, so
that its state space does not contain the inside of its two partners. The other modules take from the queue only that
each call is answered. `ApiRoutes` and `WebPage` compose components that share variables; each `MC` module is an
instance of the module whose name it carries. Eight modules have proofs in a module of their own: `RequestQueueProofs`,
`KubeCacheProofs`, `ResourceDataProofs`, `StatsFeedProofs`, `ServerStartProofs`, `ApiRoutesProofs`, `WebPageProofs` and
`DeepLinksProofs`.

### RequestQueue

One call of `execute()` is one element of `Calls`. A call that becomes a `QueueItem` is named after itself, and its
life is `phase`: `queued`, `running`, `aborted` (the deadline passed while the child ran), `exited` (`.then`/`.catch`
has run, `.finally` has not), `done`. `promise[c]` is the item whose promise the call was given, so deduplication is
visible. The other variables are the fields of the class.

An action is one run of JavaScript to completion. `Enqueue`, `Finally`, `TimeoutQueued` and `SetMaxConcurrency` all
contain the `processQueue()` they end with: `IsDrain` says which prefix of the queue the loop shifts (the shortest one
with as many runnable items as free slots, or all of it) and `Shift` what happens to it. `executeItem()` starts or
drops; an item whose deadline passed is dropped without taking a slot. `ChildExit` and `Finally` are separate actions,
and `Execute` may come between them, because a caller woken by the settled promise can call again before `.finally()`
has run. Timers and exits are macrotasks and wait for pending microtasks (`MicrotasksDrained`). Time is the set `due` of
items whose deadline has passed: an item enters it at any moment, its timer fires at any later one.

Left out: logging, error texts, the singleton accessors. The code never calls `setMaxConcurrency()` outside its tests;
it is modelled because the class offers it.

### KubeCache

The module models one type's two paths as a file system has them: a path names an inode, an open file keeps its inode
across renames, and a rename moves whatever stands at the temporary path. An inode is named after the call that created
it and a file is a sequence of blocks, each marked with the entry it belongs to. The last block of an entry is the end of
its base64 data with `cachedAt` and the redaction marker, so `get()` accepts a file when its last block, and no other, is
the end of an entry (`Parses`): the blocks of one entry, or those of an entry cut inside its data over the tail of a
longer one. The second is JSON with `data` and `cachedAt` too, and the code serves it; what it decodes to is `Blend`, a
value that is no entry. One action is the work between two awaits of `set()`, `get()` or `clear()`. One call of
`write(2)` is one action, as file systems serialise writes to one file; a crash or a full disk cuts it at any block. A
read is one action. `crowd` and `cut` are history: which calls overlapped another, and which were cut short.

What the code catches may fail: the directory or the temporary file cannot be made (`OpenFails`), a write is cut
(`WriteFails`), the temporary file is gone at the rename (`RenameFails`), the cleanup cannot remove it (`Cleanup`), the path
cannot be looked up or read, which `get()` answers with a miss (`NoPath`, `ReadJson`), and the removal in `clear()` fails,
which is logged while `clear()` returns as if it had worked (`Clear`). `Start` is the startup purge: it removes
`secret.json` whatever it holds, or fails; it does nothing for another type.

`CacheCell` is what is left of this for the routes: a cell with an entry or nothing, which a `clear()` or the purge empties
or leaves alone, and whose reader gets what it holds or a miss. Calls of `set()` that overlap may in addition lose what is
stored or leave a `Blend`.

### ResourceData

A request goes through the awaits of the handler: clear (if forced), read, then either the answer from the cache
(with a background refresh when the entry is older than the TTL) or the queue, compression, `set()` and the answer. A
request calls `execute()` at most once, so the execution it starts or joins is named after it. A listing is represented
by the version of the cluster kubectl read. Other users of the queue appear as changes of the number of slots they
leave (`OthersCome`), down to none. Time is not modelled: an entry that is found may be fresh (`HitFresh`) or older than
the TTL (`HitStale`). The handler goes on after a `clear()` that could not remove the file, and sends a blend like an
entry. `arrived`, `inFlight`, `before` and `uncleared` are history, the last one the requests whose `clear()` left the cell
as it was. A restart is an initial state: the queue and the requests are gone, and the cell holds nothing or `Old`, an
entry or a blend that an earlier process left.

### StatsFeed

The two capture loops, the pods listing they share, the versions, the usage file and the page that polls. A loop is
named after the feed it fills, and `step` says where it awaits. Between "the payload is replaced" and "the version is
raised" the nodes loop has no await and the usage loop has the write of its file; the module keeps exactly that
difference. A poll reads page, then server, then page again, so answers overtake each other (`overtaken` is history: a
page that takes the older answer last keeps it until the next change of version, as `stats.vue` does not compare).
A crash falls between the truncation and the write of the file; the next process starts without the ranges.
How many points of the history a poll is sent is in `Downsample`, by the number of measurements alone; section 4 says why
it has no run.

### ServerStart

The steps of `App.ts` up to the listener, the file watcher that is armed after the first of them, and the
recommendation, whose generations are triggered by readiness, cron, a reload and a route. A generation is a record with
the step it awaits. `Reload` is the whole handler of the watcher: the new clients, the old cron task destroyed, the new
one scheduled, a generation started if there is no recommendation. `read` is the content that `readJson()` saw when it
was called: a generation that ends meanwhile is overwritten by it, which is why `ServedIsOnDisk` excludes the processes
where a reload came that early (`early`); without the exclusion TLC shows the overwriting.

### ApiRoutes, TypeCatalog, Selections

A call moves through the awaits of its handler: the payload, the scope, the policy, the queue. The state it reads at
each of them (`available`, `deletable`, the row) may have changed since the one before. An execution is named after the
caller who started it, and `DedupKeyFor` says who joins whom. `TypeCatalog` is the scanner and `Selections` the table of
one user; both keep what is on disk across `Restart`. The database runs a statement as a whole.

### WebPage, ObjectStore, ListTriage, LogDialog

One browser tab on the object page. A filter and an arrangement are the sets of items they let through; a request of a
type is how it was sent (`plain` or `forced`). An action is what runs between two awaits with the watchers it triggers:
`SwitchType` changes the filter, forces the listing, mounts the new list on its first page and removes the old one's
dialogs, and every step that changes the items of the list on the page ends with `Turn`, the `watchEffect` that clamps
the page. `news` is history: the types changed by the user for which no forced answer has come since.

### DeepLinks

The URL and the page, with the session that can end under them. `router.replace()` takes effect after the code that
called it and what that renders have run, so an action computes everything from the route at its start. `ShowType` is
the watcher of the type followed by the creation of the new list, which reads that route: whoever navigates last wins.
`requests` is the set of tokens that requests in flight carry, `left` the link the user was taken from.

## 3. The runs

| Run | Instance | What it shows |
|---|---|---|
| `request_queue` | 5 calls, one key and the null key, cap 2, limit 1 or 2 | type correctness, eight safety properties, refinement of `Dispatcher` |
| `request_queue_live` | 3 calls, one slot, cap 2 | callers are answered without any assumption on the children; slots return if children exit |
| `kube_cache` | 3 overlapping `set()` (entries of two lengths), one `get()`, one `clear()`, any number of crashes, types `pod` and `secret` | whole entries, recovery, refinement of `CacheCell` |
| `resource_data` | 2 requests, 0 or 1 slots, 2 cluster versions | freshness bounds, one listing at a time, every request answered |
| `stats` | 2 loops, 1 capture of each per process, 2 processes, 3 polls, 2 sample values | ETags across captures and restarts, ranges, the shared listing, captures end |
| `server_start` | 2 processes, 3 configurations, 2 recommendations | schedule, recommendation in memory and on disk, readiness |
| `api` | 2 callers with different scopes, 2 calls of any kind, 1 CRD, 1 restart | audit, saves, refreshes, scans end |
| `web_page` | 2 types, 2 pods and 1 node, pages of 1 item, 2 acts of the user | lists, filters, forced refreshes, pages, preferences, retries end |
| `deep_links` | 2 types with an object each, every selection, 3 logins, 4 acts | the URL follows the page, the link survives the login |
| `kube_cache_crash`, `resource_data_forced`, `server_start_queue` | see below | each violates one statement of a comment or of the documentation |

Bounds. Five calls are one more than the two slots and the two waiting places hold, so the queue fills, refuses, and
drains past an expired item into a runnable one. One key is enough for sharing, as items under different keys do
not meet in the map, and the null key gives the items that never share. Three calls of `set()` are what it takes for
the cleanup of one to remove the file of another; entries of two lengths let a short one be written over a long one.
Two requests let one refresh the cache while the other clears it, and two versions tell data from before a mutation
from data after it. Symmetry is used where calls are interchangeable and no liveness is checked.

In `stats` one capture per process and feed is enough for an old and a new payload, a restart gives the second process
whose versions start again, and three polls are one to hold a tag, one to confirm it and one to overtake. In
`server_start` two recommendations are the one on disk and the one that replaces it, and two processes put a crash
between them. In `api` two calls meet in every pair of steps: a delete and a delete, a refresh and a scan, a load that
inserts and a save. In `web_page` two types are the one shown and the one whose answer is late; two attempts (three in
the code) and one armed timer per type are enough for a retry to be refused, restarted and dropped; pages hold one
item (100 in the code), so that two pods fill two pages. In `deep_links` three logins let a request of the first session
fail during the third. `MaxActs` bounds what the user does, never what answers and timers do.

Deadlock checking is off in `request_queue_live`, `resource_data`, `api` and `deep_links`, where finitely many calls,
restarts or acts are made and the run may end when all are over, and in `web_page`, where a page whose acts are used up
may rest; in the other passing runs something can always happen.

Fairness. The queue's liveness rests on the clock (`Expire`), the timers and the microtask queue, each weakly fair; the
event loop guarantees no more and no less. No fairness is assumed of `ChildExit`, as kubectl may hang and ignore SIGTERM;
`SlotsReturned` states its need of it as an antecedent. `resource_data` assumes only that the server as a whole goes
on: some handler, file operation or answer of the queue happens if any can. Clients, the cluster and the other users of
the queue owe nothing.

`stats` assumes that a loop goes on where it awaits: the queue answers each call (`EveryCallAnswered`) and the disk each
operation, with success or failure; nothing is assumed of the intervals or of the page. `server_start` assumes it of the
steps of start-up, of a generation, whose calls all have deadlines, and of the deadline of the initial captures; the
captures themselves may never end. `api` assumes it of the scan in flight. `web_page` assumes that requests are answered or
fail and that armed timers fire; the user and the server's state owe nothing.

### What the properties say

`RequestQueue`: `TypeOK`, `SingleFlight` (one execution per key), `SlotAccounting` (counter and map agree with the slots),
`QueueIsTheWaiting`, `WorkConserving` (no lost wake-up), `SettleOnce`, `LateNeverStarts`, `StartsWithinLimit`,
`FirstComeFirstServed`, `JoinsLiveItem`, `EveryCallAnswered`, `SlotsReturned`,
`ImplementsDispatcher`.

`KubeCache`: `InPlaceIsWhole` (without overlap, the file in place is whole at every moment), `QuiescentIsWhole` (with
overlap, it is whole again when all calls have returned, provided the entries have one length and none was cut short),
`HealedByNextSet` (a `set()` that runs alone repairs whatever was left), `LegacyNeverServed` (a Secret listing from before
redaction is not served, nor a part of it in a blend), `ImplementsCell`.

`ResourceData`: `ForcedSeesNoOldEntry` (a forced request whose `clear()` worked never gets an entry stored before it),
`MissLagsOneExecution` (data older than the request only from a kubectl already running when it came), `OneListing`,
`EveryRequestReplied`.

`StatsFeed`: `NotModifiedIsCurrent` (a page that holds the current tag shows the current payload, unless an older answer
overtook), `RangeIsOfAllSamples` (a pod's range is that of all its samples but those lost with a process),
`SharedListingIsUsable` (a failed listing is given to nobody else, and nobody else takes a good one away), `CapturesEnd`.

`ServerStart`: `ScheduleFollowsConfig` (client and cron task are those of the configuration, through every reload),
`ServedIsOnDisk` (memory and file hold the same recommendation between generations), `ReadyInTheEnd`.

`ApiRoutes`: `MutationsAnswerForThemselves` (a mutation that ran is audited once, with the outcome its caller was told, and
shares no execution), `SavedIsKept` (no default, import or save of another field replaces what was saved),
`RefreshIsRecent` (a refresh answers with what the cluster had after it was asked), `ScansEnd`.

`WebPage`: `ListMatchesFilter` (once the last request of the type on the page succeeded, its list is the listing under the
filter, as long as that type is the one asked for last), `InvalidationKept` (a change is remembered until a request that
bypasses the cache is sent), `PageShowsItems`, `PreferencesFollow` (in the end the server holds what the session shows),
`PollingEnds`.

`DeepLinks`: `LinkIsShown` (URL, type and dialog agree, and the dialog is of an object of the type), `ExpiryKeepsLink`.

Some of them are conditional because the code does less without the condition, and the model shows how. A `clear()` that
cannot remove the file returns as if it had, and the forced request is answered with the old entry, as fresh if the TTL
says so (`server/cache/KubeCache.ts:114-116`): `ForcedSeesNoOldEntry` leaves such requests out. A late answer
for another type makes that type the last one asked for (`web/stores/KubernetesObjectStore.ts:261`): from then on the
interval, the filters and the retries serve a list that is not on the page, until the user switches. A change made before the
preferences are loaded is overwritten by the load (`web/services/ListPreferencesService.ts:41`), and saves that overlap can
arrive in the wrong order. A poll overtaken by a newer one can leave the older payload on the statistics page under the
newer tag until the next capture. A reload so early in start-up that it begins a generation before the saved
recommendation is read has its result overwritten (`ServedIsOnDisk`, `~early`). A 401 that arrives after the next login
drops the new token; `ExpiryKeepsLink` is about the link only. The hazards in `PROJECT.json` carry a note where no
property covers the bad case.

### Findings

1. `kube_cache_crash`. `server/cache/KubeCache.ts:80-81` says that a crash mid-write "can never leave a truncated
   entry in place". The temporary path is one per type and all the requests that share an execution call `set()`: a
   second call truncates the file a first one is about to rename. A crash then leaves an empty entry, which `get()` takes
   for a miss, or, if the second call was cut inside its data over a longer entry, a blend of the two, which it serves.
   What the browser makes of a blend is not modelled. `HealedByNextSet` shows that neither lasts beyond the next `set()`
   that runs alone.
2. `resource_data_forced`. `web/stores/KubernetesObjectStore.ts:10` says that a forced type "should bypass the server
   cache on next fetch". The route clears the file and then reads it like any other request, and a background refresh
   that read the cluster before the mutation can store its listing between the two. The run is about requests whose
   `clear()` removed the file; one whose removal failed needs no race to be answered with the old entry.
3. `server_start_queue`. `README.md:112` says that the request queue settings are re-armed when the configuration file is
   reloaded. `server/App.ts:57-68` never touches the queue, which keeps the values it was built with.

Met while modelling, without a run of their own:

- `server/stats/StatsDataRecommendation.ts:55-57` says that the initial generation waits for the captures so that the LLM
  gets no empty snapshot; the deadline of `StatsData.ts:77-96` and a reload during start-up both let it begin before.
- `web/services/SessionExpiry.ts:27` says that a 401 drops the dead token. The handler (line 40) drops whatever token the tab
  holds: `Unauthorized(s)` with `s` from before the login drops the new one.
- `web/pages/kubernetes/index.vue:320` says that dialogs do not survive type switches. The selector takes care of it,
  `created()` does not when it falls back to a selected type (line 272): `NamespacesLoaded` under a link with a dialog.
- `README.md:13` says that a dialog in the URL survives a refresh. `writeDialogRoute()` (`web/services/DialogDeepLink.ts:71`)
  does not add the type, and the navigation link removes it from the URL: the states `LinkIsShown` calls `bare`.
- `README.md:133` promises at most 360 measurements per node. `server/stats/StatsDataDownsample.ts:40` uses the size of a
  bucket as the number of buckets: the promise fails beyond 360 x 360 measurements, and below that the chart gets far
  fewer points than it could (1440 measurements become 4). `CapHeldUpToSquare` proves it for every cap and history.

## 4. The proofs

`RequestQueueProofs` proves, for every set of calls and keys (infinite sets included), every positive cap and every set
of positive limits, that `RequestQueue!Spec` satisfies `TypeOK`, `SingleFlight`, `SlotAccounting`, `QueueIsTheWaiting`,
`WorkConserving`, `SettleOnce`, `LateNeverStarts`, `StartsWithinLimit`, `JoinsLiveItem` and `FirstComeFirstServed`, and that
it implements `Dispatcher`. The assumptions are the four named ones of `RequestQueue`.

The inductive invariant `IInv` is a predicate `Good` on the values of the queue, the map, the counter, the phases, the
outcomes and the keys, conjoined with `WorkConserving`. None of the properties is inductive alone: single flight needs
the map to name every holder of a slot and the queue to hold every waiting call, which needs the two to be disjoint,
which needs the phases to be those of the positions; the counter needs the holders to be finite. `Good` takes values
and not variables because the drain starts from intermediate values that are never a state: `DrainKeepsIInv` says
that it is enough that what a handler passes to `processQueue()` is `Good`, and `ShiftKeepsGood` does the work once for
the four handlers that end with it. `NextKeepsIInv` has one step per action, and also yields what a step may never do
(`StepGood`), from which `SettleOnce`, `LateNeverStarts` and `StartsWithinLimit` follow.

The drain is where the last two results are hard. A handler does its own work and then calls `processQueue()`, all in
one step, and the drain may throw expired items away between those it starts. It takes a prefix of the
queue and leaves the rest as it was, so the order is preserved (`DrainOrder`), which gives `FirstComeFirstServed`; of the
prefix some items start and the others are answered (`DrainSplits`), within the limit, which together with what the
handler did before is one `Dispatch` of `Dispatcher` (`DrainDispatches`). There is one lemma for each handler that says
which action of `Dispatcher` it is.

Two more follow. `LivesGoForward`: an execution goes through its phases in one direction, so no timeout, late exit or
change of the limit runs a command twice. `DrainDetermined`: the loop of `processQueue()` ends, and at one place only.
`DrainDetermined` is the one result here that rests on an induction: that a set of numbers has a least one comes from the
well-foundedness of the naturals (`LeastNumber`), which the library proves without an operator parameter.

The other proofs go the same way: an inductive invariant of named groups, one lemma per action or group of actions, and
the theorems from it. They hold for every value of the constants that the named assumptions of each module allow; most
of these only tell special values (`None`, `Torn`, `Miss`, `Blend`, `Absent`) from ordinary ones; `FileAssumption` says that a
catalogue an earlier release left is a list of resources, `RetryAssumption` that the number of attempts is a number.

| Module | Theorems, by the property they state | Why the invariant says more |
|---|---|---|
| `ResourceDataProofs` | `OneListing`, `MissLagsOneExecution`, `ForcedSeesNoOldEntry` | An answer is as fresh as the execution it came from, so `ReadsGood` follows every execution a request can still be given: one that was not already running when the request came reads the cluster after it. Everything stored, read or sent has been fetched (`DataGood`), so what a request is still to fetch is in nobody's `before`, and storing it brings nothing old back (`ClearGood`, about requests outside `uncleared`). Also `RepliesGivenOnce` and `RepliesWereRead`: one reply per request, and every entry sent is a listing that a kubectl read. |
| `KubeCacheProofs` | `InPlaceIsWhole`, `LegacyNeverServed`, `HealedByNextSet`, `QuiescentIsWhole`, `ImplementsCell` | A call that overlapped no other is alone and owns the temporary file (`LoneOwns`), which is never the inode in place (`PathsApart`). For the refinement, no file holds a block of a call that has not written, and an entry that stands at the temporary path while it is in use is that of a call under way (`Authors`), so that a rename stores an entry of a call under way, or, where calls overlapped, something that is no entry; a write that is cut leaves its entry whole nowhere (`CutNotWhole`). For legacy listings, the blocks of `Old` are in no file of a call of `set()` (`OldApart`), so no blend holds one. With overlaps, a file in use is whole, or empty and about to be written (`Overlaps`). |
| `StatsFeedProofs` | `NotModifiedIsCurrent`, `RangeIsOfAllSamples`, `SharedListingIsUsable` | Tags are ordered by process, then by capture. No answer in flight carries a tag of a later capture than the server's, and one with the server's tag has its payload (`PollGood`); a step of the server keeps that for every answer at once (`Moves`). `TagsMoveForward` is the reason on the server's side: tags only grow, and between two of them only the usage capture changes a payload, on its way to write the file. |
| `ServerStartProofs` | `ServedIsOnDisk`, `ScheduleFollowsConfig`, and that there is at most one generation | While a generation writes, memory is ahead of the file by its result; before the file is loaded nothing is generated. Results are numbered as they are made, and one generation at a time makes them, so `AdviceInOrder` (no older recommendation comes back) and `NotificationTrue` (a notification tells of what is served and stored). |
| `DeepLinksProofs` | `LinkIsShown`, `ExpiryKeepsLink` | The dialog of every link the page can be opened with, the one kept for the login included, is one the list of its type opens (`Sound`). |
| `WebPageProofs` | `ListMatchesFilter`, `InvalidationKept`, `PageShowsItems`, `PreferencesFollow` | The first two need only the types of the store. The third needs that lists are finite, and is an argument on division: the first item of the last page exists, whatever the size of a page (`LastPageStarts`). For the last, nothing is to be saved before the load, and the save sent last carries the preferences of the moment (`PreferencesGood`). |
| `ApiRoutesProofs` | `MutationsAnswerForThemselves`, `SavedIsKept`, `RefreshIsRecent` | A command has no audit event before it ends, and only a mutation's own execution ends it (`CommandGood`). A row, once there, stays. The listing a scan holds is one the cluster had since the refresh was asked for (`RefreshGood`). Without a run of their own: `CatalogueIsSound` (every built-in, no id twice, no CRD for a built-in, from whatever file) and `ExecutionsSharedFairly` (whoever joins an execution asked for the same and holds the scope itself, and the execution is still to end). |

`ResourceDataProofs` reasons from the definitions of `Dispatcher` and `CacheCell`, whatever their implementations do:
`DispatchFacts` and `ExecuteFacts` are what the route needs to know of the queue.

What liveness rests on. A liveness property says that something owed comes. That it comes needs fairness and stays with
TLC; that it is owed, in every state and for every size, is an invariant and is proved:

| Liveness, by TLC | Its safety half, proved |
|---|---|
| `EveryCallAnswered` | `CallersAreOwed`: a caller without an answer waits for an item that is queued or runs; with `LivesGoForward` and `DrainDetermined`, such an item can only go on |
| `EveryRequestReplied` | `NoRequestForgotten`: a request without a reply has a step of its handler before it, or an execution that has ended or is still in the queue's care, or a `set()` that returns |
| `CapturesEnd` | `CapturesNeverOrphaned`: a loop waits for a pods listing only while it is in flight, also when the snapshot it belonged to was dropped |
| `ReadyInTheEnd` | `ReadinessOwed`: a process that listens and is not ready has its deadline before it |
| `ScansEnd` | `RefreshersAreOwed`: a refresh without an answer has the scan in flight to itself |
| `PollingEnds` | `RetriesRunOut`: in front of a server that stays stale every retry lowers the budget of its type, which no step but a forced listing raises; `SpinnerAwaits`: while the page says that it loads, a listing is in flight or a retry armed |

`Downsample` is a module of operators that no run needs: the thinning of the statistics is a function of two numbers, and
`StatsFeedProofs` proves about it for all of them what a run could do for a few. `HistoryCovered`: every measurement is in
exactly one bucket, no bucket is empty, none has more measurements than the cap. `CapHeldUpToSquare`: the cap on the
number of points holds if and only if the history is no longer than the square of the cap.

Only model-checked, on the instances of section 3: liveness (`EveryCallAnswered`, `SlotsReturned`,
`EveryRequestReplied`, `CapturesEnd`, `ReadyInTheEnd`, `ScansEnd`, `PollingEnds`), as fairness and ENABLED are out of
the prover's reach. Every other property of the passing runs is proved. No module declares a RECURSIVE operator, and
nothing is proved by induction over data but the least number above.

## 5. What is not modelled

Texts, formats and layouts throughout: errors, logs, prompts, the argument vectors of kubectl, redaction, compression,
charts and templates. `clearAll()` of the cache, called by its test only. A crash means the end of the process, not a power
failure: what was written stays written. A rename fails only because its file is gone; permissions that are missing
appear as the failed opens, reads and removals of `KubeCache`. Types whose names become one file name after sanitising are
taken to be distinct.

`StatsFeed` leaves out output of kubectl that is not JSON although kubectl succeeded, and follows one pod of the usage
table. `ServerStart` takes the database and the authentication as one step. `ApiRoutes` has one user in `Selections`, as
users share nothing. `ObjectStore` leaves out the branch of `getObject()` that posts a command and the status `loading`:
no list reaches the first, no route answers the second. `LogDialog` leaves out the text and its options (an option
changed while a request is in flight takes effect at the next one). `DeepLinks` leaves out the filters in the URL, the
browser's history, and a `created()` that goes on after its page was left.

Sessions, tokens, keys and CORS belong to `@devopsplaybook.io/common-utils`, which is not in the repository. The image and the
process supervision have no program logic; that a process is started again is in the models.

## 6. Plan

1. `ObjectStore` over the promise of `ResourceData`, so that a forced refresh is followed from the click to kubectl.
2. Abstract specifications: a conditional GET as a register read, for `StatsFeed`; a table of preferences, for `ListTriage`.
