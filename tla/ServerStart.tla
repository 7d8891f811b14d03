------------------------------ MODULE ServerStart ------------------------------
(***************************************************************************)
(* The life of the server process: the order in which server/src/App.ts    *)
(* starts its parts, the configuration file it watches (Config.ts), the    *)
(* readiness it reports (stats/StatsData.ts) and the LLM recommendation,   *)
(* which crosses all three (stats/StatsDataRecommendation.ts).             *)
(*                                                                         *)
(* A configuration is a record of what the parts take from it: whether     *)
(* recommendations are enabled and their client complete (llm), the cron   *)
(* expression (cron) and the queue's concurrency (queue).  A               *)
(* recommendation is named by the order in which it was generated.         *)
(***************************************************************************)
EXTENDS Integers, FiniteSets

CONSTANTS
  None, Torn,     \* no value; a file that cannot be parsed
  Configs,        \* contents the configuration file can have
  ValidCrons,     \* what cron.validate() accepts
  DefaultQueue,   \* concurrency of a queue built before RequestQueueInit()
  MaxBoots,       \* bound: processes
  MaxAdvice       \* bound: recommendations generated, over all processes

ASSUME ConfigsAssumption ==
  \A c \in Configs : c.llm \in BOOLEAN /\ c.cron # None
ASSUME TornAssumption == Torn \notin Nat

VARIABLES
  boots,    \* processes started
  pc,       \* what start-up awaits; "up" once the listener is
  disk,     \* content of the configuration file
  noticed,  \* the file changed since this process last read it
  config,   \* the configuration object, None before the first read
  queue,    \* concurrency of the queue that commands go to, or None
  initial,  \* initial captures: "none", "racing" the deadline, "late", "over"
  ready,
  cached,   \* cachedRecommendation
  read,     \* what readJson() of the file will answer, while it is awaited
  file,     \* llm-recommendation.json
  client,   \* whether llmClient is complete, None before it is built
  cronTask, \* the expression scheduled, or None
  gens,     \* generations in flight, each by the step it awaits
  advice,   \* recommendations generated
  \* History:
  early,    \* a generation of this process began before the file was read
  writeErr  \* the last write of the file failed

bootVars == <<boots, pc, queue>>
configVars == <<disk, noticed, config>>
readyVars == <<initial, ready>>
scheduleVars == <<client, cronTask>>
adviceVars == <<cached, read, file, gens, advice, early, writeErr>>
vars == <<bootVars, configVars, readyVars, scheduleVars, adviceVars>>

\* The variables a process starts with.
NewProcess ==
  /\ pc' = "config" /\ queue' = None /\ config' = None /\ noticed' = FALSE
  /\ initial' = "none" /\ ready' = FALSE
  /\ cached' = None /\ read' = None /\ gens' = {}
  /\ client' = None /\ cronTask' = None /\ early' = FALSE /\ writeErr' = FALSE

Init ==
  /\ boots = 1 /\ pc = "config" /\ queue = None
  /\ disk \in Configs /\ noticed = FALSE /\ config = None
  /\ initial = "none" /\ ready = FALSE
  /\ cached = None /\ read = None /\ file = None
  /\ client = None /\ cronTask = None
  /\ gens = {} /\ advice = 0 /\ early = FALSE /\ writeErr = FALSE

-----------------------------------------------------------------------------
(* The recommendation: triggers. *)

\* RecommendationIsEnabled() under configuration c and client k.
Enabled(c, k) == c # None /\ c.llm /\ k = TRUE

\* Mutant: a trigger does not look for a generation in flight.
GenerateAlways(c, k) ==
  /\ gens' = IF Enabled(c, k) /\ advice < MaxAdvice
             THEN gens \cup {[id |-> advice, at |-> "pods"]} ELSE gens
  /\ advice' = IF gens' = gens THEN advice ELSE advice + 1
  /\ early' = (early \/ (gens' # gens /\ pc \notin {"scanner", "up"}))

\* RecommendationGenerate(): one generation at a time, the others join it.
\* A generation that finds recommendations disabled returns at once; one
\* that goes on begins with a pods listing.
Generate(c, k) ==
  /\ gens' = IF gens = {} /\ Enabled(c, k) /\ advice < MaxAdvice
             THEN {[id |-> advice, at |-> "pods"]} ELSE gens
  /\ advice' = IF gens' = gens THEN advice ELSE advice + 1
  /\ early' = (early \/ (gens' # gens /\ pc \notin {"scanner", "up"}))

GenerateNothing == UNCHANGED <<gens, advice, early>>

\* StatsDataRecommendationStartInitialGeneration()
StartInitialGeneration(c, k) ==
  IF cached = None THEN Generate(c, k) ELSE GenerateNothing

\* Mutant: the return for disabled recommendations comes before the old
\* task is destroyed.
ScheduleOnly(c) ==
  /\ client' = c.llm
  /\ cronTask' = IF ~c.llm THEN cronTask
                 ELSE IF c.cron \in ValidCrons THEN c.cron ELSE None

\* ApplyRecommendationConfig(): new clients, the old cron task destroyed, a
\* new one scheduled if recommendations are on and its expression is valid.
Schedule(c) ==
  /\ client' = c.llm
  /\ cronTask' = IF c.llm /\ c.cron \in ValidCrons THEN c.cron ELSE None

CronFires ==
  /\ cronTask # None /\ Generate(config, client)
  /\ UNCHANGED <<bootVars, configVars, readyVars, scheduleVars, cached, read, file, writeErr>>

\* POST /recommendation/regenerate: refused while disabled or generating.
Regenerate ==
  /\ pc = "up" /\ Enabled(config, client) /\ gens = {}
  /\ Generate(config, client)
  /\ UNCHANGED <<bootVars, configVars, readyVars, scheduleVars, cached, read, file, writeErr>>

-----------------------------------------------------------------------------
(* The recommendation: ExecuteRecommendationGeneration(). *)

To(g, at) == gens' = (gens \ {g}) \cup {[g EXCEPT !.at = at]}
Over(g) == gens' = gens \ {g}

\* GetPodStatuses() is answered or fails, which is caught.  The executor
\* builds a queue of its own if there is none yet.
PodsAnswered(g) ==
  /\ g.at = "pods" /\ To(g, "llm")
  /\ queue' = IF queue = None THEN DefaultQueue ELSE queue
  /\ UNCHANGED <<boots, pc, configVars, readyVars, scheduleVars, cached, read, file, advice, early, writeErr>>

\* The LLM fails or its answer is too short: the cached one stays.
AnswerRejected(g) ==
  /\ g.at = "llm" /\ Over(g)
  /\ UNCHANGED <<bootVars, configVars, readyVars, scheduleVars, cached, read, file, advice, early, writeErr>>

AnswerTaken(g) ==
  /\ g.at = "llm" /\ To(g, "open")
  /\ cached' = g.id
  /\ UNCHANGED <<bootVars, configVars, readyVars, scheduleVars, read, file, advice, early, writeErr>>

\* ensureDir() and writeJson(): truncated, then written.
FileOpened(g) ==
  /\ g.at = "open" /\ To(g, "write")
  /\ file' = Torn
  /\ UNCHANGED <<bootVars, configVars, readyVars, scheduleVars, cached, read, advice, early, writeErr>>

FileWritten(g) ==
  /\ g.at = "write" /\ To(g, "notify")
  /\ file' = g.id /\ writeErr' = FALSE
  /\ UNCHANGED <<bootVars, configVars, readyVars, scheduleVars, cached, read, advice, early>>

FileFailed(g) ==
  /\ g.at \in {"open", "write"} /\ Over(g)
  /\ writeErr' = TRUE
  /\ UNCHANGED <<bootVars, configVars, readyVars, scheduleVars, cached, read, file, advice, early>>

\* NotificationSendRecommendation() is done, or fails, which is caught.
Notified(g) ==
  /\ g.at = "notify" /\ Over(g)
  /\ UNCHANGED <<bootVars, configVars, readyVars, scheduleVars, cached, read, file, advice, early, writeErr>>

-----------------------------------------------------------------------------
(* Start-up, in the order of App.ts. *)

\* config.reload(), after which the file is watched.
ConfigRead ==
  /\ pc = "config" /\ pc' = "database"
  /\ config' = disk /\ noticed' = FALSE
  /\ UNCHANGED <<boots, disk, queue, readyVars, scheduleVars, adviceVars>>

\* The database and the authentication are there: the queue is built with
\* what the configuration says now.
QueueBuilt ==
  /\ pc = "database" /\ pc' = "stats"
  /\ queue' = config.queue
  /\ UNCHANGED <<boots, configVars, readyVars, scheduleVars, adviceVars>>

\* UserSelectionsDataInit() and StatsDataInit() end: pathExists() and
\* readJson() of the recommendation are next.
StatsPrepared ==
  /\ pc = "stats" /\ pc' = "loading"
  /\ initial' = "none" /\ ready' = FALSE
  /\ read' = file
  /\ UNCHANGED <<boots, queue, configVars, scheduleVars, cached, file, gens, advice, early, writeErr>>

\* The recommendation is loaded, unless there is none or it does not parse.
AdviceLoaded ==
  /\ pc = "loading" /\ pc' = "scanner"
  /\ cached' = IF read \in {None, Torn} THEN cached ELSE read
  /\ read' = None
  /\ Schedule(config)
  /\ UNCHANGED <<boots, queue, configVars, readyVars, file, gens, advice, early, writeErr>>

\* CrdScannerInit(), the cache's purge, the routes and listen(): the
\* initial captures race their deadline.
Listening ==
  /\ pc = "scanner" /\ pc' = "up"
  /\ initial' = "racing"
  /\ UNCHANGED <<boots, queue, configVars, ready, scheduleVars, adviceVars>>

\* The end of ExecuteInitialCapture() and what App.ts chains to it.
Release ==
  /\ ready' = TRUE
  /\ StartInitialGeneration(config, client)
  /\ UNCHANGED <<bootVars, configVars, scheduleVars, cached, read, file, writeErr>>

CapturesSettle ==
  \/ initial = "racing" /\ initial' = "over" /\ Release
  \/ /\ initial = "late" /\ initial' = "over"
     /\ UNCHANGED <<bootVars, configVars, ready, scheduleVars, adviceVars>>

\* Mutant: the race has no deadline.
NoDeadline == FALSE

DeadlineExpires == initial = "racing" /\ initial' = "late" /\ Release

-----------------------------------------------------------------------------
(* Configuration reloads, and the end of the process. *)

Edit ==
  /\ \E c \in Configs \ {disk} : disk' = c
  /\ noticed' = (pc # "config")
  /\ UNCHANGED <<bootVars, config, readyVars, scheduleVars, adviceVars>>

\* The watcher's reload: the statistics are re-armed, the recommendation
\* reconfigured, which may start a generation.  The queue is left alone.
Reload ==
  /\ noticed /\ noticed' = FALSE
  /\ config' = disk
  /\ Schedule(disk)
  /\ StartInitialGeneration(disk, client')
  /\ UNCHANGED <<bootVars, disk, readyVars, cached, read, file, writeErr>>

\* The file cannot be read: logged, and the configuration stays.
ReloadFails ==
  /\ noticed /\ noticed' = FALSE
  /\ UNCHANGED <<bootVars, disk, config, readyVars, scheduleVars, adviceVars>>

\* The process ends, by itself because start-up failed or otherwise, and is
\* started again.
Restart ==
  /\ boots < MaxBoots /\ boots' = boots + 1
  /\ NewProcess
  /\ UNCHANGED <<disk, file, advice>>

-----------------------------------------------------------------------------
Boot == ConfigRead \/ QueueBuilt \/ StatsPrepared \/ AdviceLoaded \/ Listening

Generation(g) ==
  \/ PodsAnswered(g) \/ AnswerRejected(g) \/ AnswerTaken(g)
  \/ FileOpened(g) \/ FileWritten(g) \/ FileFailed(g) \/ Notified(g)

Next ==
  \/ Boot \/ CapturesSettle \/ DeadlineExpires
  \/ CronFires \/ Regenerate \/ \E g \in gens : Generation(g)
  \/ Edit \/ Reload \/ ReloadFails \/ Restart

Spec == Init /\ [][Next]_vars

\* What start-up awaits is answered, timers fire, and a generation's calls
\* end (each has a timeout).  Nothing is assumed of the captures.
FairSpec ==
  /\ Spec /\ WF_vars(Boot) /\ WF_vars(DeadlineExpires)
  /\ WF_vars(\E g \in gens : Generation(g))

-----------------------------------------------------------------------------
(* Properties. *)

\* What the client schedules and what the configuration says agree from the
\* moment the recommendation is initialised, through every reload
\* (StatsDataRecommendation.ts:62-122).
ScheduleFollowsConfig ==
  pc \in {"scanner", "up"} =>
    /\ client = config.llm
    /\ cronTask = IF config.llm /\ config.cron \in ValidCrons
                  THEN config.cron ELSE None

\* Start-up, cron, reloads and the route share one generation: once it is
\* over, memory and file hold the same recommendation, over failures, crashes
\* and restarts; a torn file counts for none.  Not so after a write that
\* failed, nor if a reload started a generation before the file was read
\* (StatsDataRecommendation.ts:44-53, 150-168, 222-239).
ServedIsOnDisk ==
  pc \in {"scanner", "up"} /\ gens = {} /\ ~writeErr /\ ~early =>
    cached = IF file = Torn THEN None ELSE file

\* A process that lives reports itself ready, even if no capture ever ends
\* (StatsData.ts:77-96).
ReadyInTheEnd == <>[]ready

\* README.md:112 says that the request queue settings are re-armed when the
\* file is reloaded: once no change is left to be noticed, the queue of a
\* started server has the limits of the configuration in use.
QueueFollowsConfig ==
  pc = "up" /\ ~noticed => queue = config.queue
=============================================================================
