-------------------------- MODULE ServerStartProofs --------------------------
(* Proofs about ServerStart, for any configurations, crons and bounds. *)
EXTENDS ServerStart, TLAPS

\* The loading of the saved recommendation has been awaited.
Loaded == pc \in {"scanner", "up"}

\* Memory and file hold the same recommendation.
Agree == cached = IF file = Torn THEN None ELSE file

Awaits == {"pods", "llm", "open", "write", "notify"}

\* There is one generation at most.
OneGeneration ==
  /\ advice \in Nat /\ early \in BOOLEAN
  /\ \A g \in gens : g \in [id : Nat, at : Awaits] /\ gens = {g}

\* Until then nothing is generated or cached, and the file stays as it is read.
BeforeLoaded ==
  ~Loaded /\ ~early =>
    /\ gens = {} /\ cached = None
    /\ pc = "loading" => read = file

\* A generation that has taken its answer has it cached until the file is
\* written; at any other time memory and file agree, unless a write failed.
AfterLoaded ==
  Loaded /\ ~early =>
    IF \E g \in gens : g.at \in {"open", "write"}
    THEN \A g \in gens : cached = g.id
    ELSE writeErr \/ Agree

IInv == OneGeneration /\ BeforeLoaded /\ AfterLoaded

-----------------------------------------------------------------------------
LEMMA InitIInv == Init => IInv
<1>. SUFFICES ASSUME Init
     PROVE  IInv
  OBVIOUS
<1>1. OneGeneration
  BY DEF Init, OneGeneration
<1>2. ~Loaded /\ gens = {} /\ cached = None /\ pc # "loading"
  BY DEF Init, Loaded
<1>. QED
  BY <1>1, <1>2 DEF IInv, BeforeLoaded, AfterLoaded

\* A trigger joins the generation in flight or starts the only one, and is
\* early if the saved recommendation is not loaded (lines 150-168).
LEMMA GenerateKeepsIInv ==
  ASSUME IInv, NEW c, NEW k, Generate(c, k) \/ GenerateNothing,
         UNCHANGED <<pc, cached, read, file, writeErr>>
  PROVE  IInv'
<1>1. CASE UNCHANGED <<gens, advice>>
  <2>0. early \in BOOLEAN
    BY DEF IInv, OneGeneration
  <2>1. UNCHANGED early
    BY <1>1, <2>0, Zenon DEF Generate, GenerateNothing
  <2>. QED
    BY <1>1, <2>1 DEF IInv, OneGeneration, BeforeLoaded, AfterLoaded, Loaded, Agree
<1>2. CASE ~UNCHANGED <<gens, advice>>
  <2>1. /\ gens = {} /\ gens' = {[id |-> advice, at |-> "pods"]}
        /\ advice' = advice + 1
        /\ early' = (early \/ ~Loaded)
    BY <1>2 DEF Generate, GenerateNothing, Loaded
  <2>2. OneGeneration'
    BY <2>1 DEF IInv, OneGeneration, Awaits
  <2>3. BeforeLoaded'
    BY <2>1 DEF BeforeLoaded, Loaded
  <2>4. AfterLoaded'
    <3>. SUFFICES ASSUME Loaded', ~early'
         PROVE  writeErr' \/ Agree'
      BY <2>1 DEF AfterLoaded
    <3>1. Loaded /\ ~early
      BY <2>1, Zenon DEF Loaded
    <3>2. writeErr \/ Agree
      BY <2>1, <3>1 DEF IInv, AfterLoaded
    <3>. QED
      BY <3>2 DEF Agree
  <2>. QED
    BY <2>2, <2>3, <2>4 DEF IInv
<1>. QED
  BY <1>1, <1>2

\* The steps of a generation (lines 205-260).
LEMMA GenerationKeepsIInv ==
  ASSUME IInv, NEW g \in gens, Generation(g)
  PROVE  IInv'
<1>0. /\ g \in [id : Nat, at : Awaits] /\ gens = {g}
      /\ advice \in Nat /\ early \in BOOLEAN
      /\ UNCHANGED <<pc, read, advice, early>>
  BY DEF IInv, OneGeneration, Generation, PodsAnswered, AnswerRejected, AnswerTaken,
     FileOpened, FileWritten, FileFailed, Notified, bootVars
<1>1. ASSUME NEW at \in Awaits, To(g, at)
      PROVE  /\ gens' = {[g EXCEPT !.at = at]} /\ OneGeneration'
             /\ \A h \in gens' : h.at = at /\ h.id = g.id
  BY <1>0, <1>1 DEF To, OneGeneration, Awaits
<1>2. ASSUME Over(g)
      PROVE  gens' = {} /\ OneGeneration'
  BY <1>0, <1>2 DEF Over, OneGeneration
<1>3. BeforeLoaded' \/ early
  BY <1>0 DEF IInv, BeforeLoaded, Loaded
<1>. SUFFICES ASSUME ~early
     PROVE  IInv'
  <2>1. OneGeneration'
    BY <1>1, <1>2 DEF Generation, PodsAnswered, AnswerRejected, AnswerTaken,
       FileOpened, FileWritten, FileFailed, Notified, Awaits
  <2>. QED
    BY <1>0, <2>1 DEF IInv, BeforeLoaded, AfterLoaded
<1>4. Loaded /\ BeforeLoaded' /\ Loaded'
  BY <1>0 DEF IInv, BeforeLoaded, Loaded
<1>5. CASE PodsAnswered(g)
  BY <1>0, <1>1, <1>4, <1>5 DEF PodsAnswered, IInv, AfterLoaded, Agree, Awaits
<1>6. CASE AnswerRejected(g)
  BY <1>0, <1>2, <1>4, <1>6 DEF AnswerRejected, IInv, AfterLoaded, Agree, Awaits
<1>7. CASE AnswerTaken(g)
  BY <1>0, <1>1, <1>4, <1>7 DEF AnswerTaken, IInv, AfterLoaded, Awaits
<1>8. CASE FileOpened(g)
  BY <1>0, <1>1, <1>4, <1>8 DEF FileOpened, IInv, AfterLoaded, Awaits
<1>9. CASE FileWritten(g)
  <2>1. cached' = g.id /\ file' = g.id /\ g.id # Torn
    BY <1>0, <1>4, <1>9, TornAssumption DEF FileWritten, IInv, AfterLoaded
  <2>. QED
    BY <1>0, <1>1, <1>4, <1>9, <2>1 DEF FileWritten, IInv, AfterLoaded, Agree, Awaits
<1>10. CASE FileFailed(g)
  BY <1>0, <1>2, <1>4, <1>10 DEF FileFailed, IInv, AfterLoaded
<1>11. CASE Notified(g)
  BY <1>0, <1>2, <1>4, <1>11 DEF Notified, IInv, AfterLoaded, Agree, Awaits
<1>. QED
  BY <1>5, <1>6, <1>7, <1>8, <1>9, <1>10, <1>11 DEF Generation

LEMMA NextIInv == IInv /\ [Next]_vars => IInv'
<1>. SUFFICES ASSUME IInv, [Next]_vars
     PROVE  IInv'
  OBVIOUS
<1>1. CASE UNCHANGED vars
  BY <1>1 DEF vars, bootVars, adviceVars, IInv, OneGeneration, BeforeLoaded,
     AfterLoaded, Loaded, Agree
<1>2. CASE ConfigRead \/ QueueBuilt
  BY <1>2 DEF ConfigRead, QueueBuilt, adviceVars, IInv, OneGeneration, BeforeLoaded,
     AfterLoaded, Loaded
<1>3. CASE StatsPrepared
  BY <1>3 DEF StatsPrepared, IInv, OneGeneration, BeforeLoaded, AfterLoaded, Loaded
<1>4. CASE AdviceLoaded
  BY <1>4 DEF AdviceLoaded, IInv, OneGeneration, BeforeLoaded, AfterLoaded, Loaded, Agree
<1>5. CASE Listening
  BY <1>5 DEF Listening, adviceVars, IInv, OneGeneration, BeforeLoaded, AfterLoaded,
     Loaded, Agree
<1>6. CASE CapturesSettle \/ DeadlineExpires
  <2>1. CASE Release
    BY <2>1, GenerateKeepsIInv DEF Release, StartInitialGeneration, bootVars
  <2>2. CASE UNCHANGED <<bootVars, adviceVars>>
    BY <2>2 DEF bootVars, adviceVars, IInv, OneGeneration, BeforeLoaded, AfterLoaded,
       Loaded, Agree
  <2>. QED
    BY <1>6, <2>1, <2>2 DEF CapturesSettle, DeadlineExpires
<1>7. CASE CronFires
  BY <1>7, GenerateKeepsIInv DEF CronFires, bootVars
<1>8. CASE Regenerate
  BY <1>8, GenerateKeepsIInv DEF Regenerate, bootVars
<1>9. CASE \E g \in gens : Generation(g)
  BY <1>9, GenerationKeepsIInv
<1>10. CASE Edit \/ ReloadFails
  BY <1>10 DEF Edit, ReloadFails, bootVars, adviceVars, IInv, OneGeneration,
     BeforeLoaded, AfterLoaded, Loaded, Agree
<1>11. CASE Reload
  BY <1>11, GenerateKeepsIInv DEF Reload, StartInitialGeneration, bootVars
<1>12. CASE Restart
  BY <1>12 DEF Restart, NewProcess, IInv, OneGeneration, BeforeLoaded, AfterLoaded, Loaded
<1>. QED
  BY <1>1, <1>2, <1>3, <1>4, <1>5, <1>6, <1>7, <1>8, <1>9, <1>10, <1>11, <1>12
     DEF Next, Boot

\* Between generations memory and file hold the same recommendation, over
\* failed generations, crashes and restarts, unless a write failed or a reload
\* began a generation before the file was read
\* (StatsDataRecommendation.ts:44-53, 222-239).
THEOREM RecommendationOnDisk == Spec => []ServedIsOnDisk
<1>1. IInv => ServedIsOnDisk
  BY DEF IInv, AfterLoaded, Loaded, Agree, ServedIsOnDisk
<1>. QED
  BY InitIInv, NextIInv, <1>1, PTL DEF Spec

\* One generation at a time, whoever asks for it: start-up, a schedule, a
\* reload or the route (StatsDataRecommendation.ts:150-168).
THEOREM GenerationsShared == Spec => [](\A g, h \in gens : g = h)
<1>1. IInv => \A g, h \in gens : g = h
  BY DEF IInv, OneGeneration
<1>. QED
  BY InitIInv, NextIInv, <1>1, PTL DEF Spec

-----------------------------------------------------------------------------
\* From the moment the recommendation is initialised, the client and the
\* schedule are those of the configuration in use
\* (StatsDataRecommendation.ts:62-122).
THEOREM ScheduleCorrect == Spec => []ScheduleFollowsConfig
<1>1. Init => ScheduleFollowsConfig
  BY DEF Init, ScheduleFollowsConfig
<1>2. ScheduleFollowsConfig /\ [Next]_vars => ScheduleFollowsConfig'
  <2>. SUFFICES ASSUME ScheduleFollowsConfig, [Next]_vars
       PROVE  ScheduleFollowsConfig'
    OBVIOUS
  <2>. USE DEF ScheduleFollowsConfig
  <2>1. CASE UNCHANGED <<pc, config, scheduleVars>>
    BY <2>1 DEF scheduleVars
  <2>2. CASE ConfigRead \/ QueueBuilt \/ StatsPrepared \/ Restart
    BY <2>2 DEF ConfigRead, QueueBuilt, StatsPrepared, Restart, NewProcess
  <2>3. CASE AdviceLoaded
    BY <2>3 DEF AdviceLoaded, Schedule, configVars
  <2>4. CASE Listening
    BY <2>4 DEF Listening, configVars, scheduleVars
  <2>5. CASE Reload
    BY <2>5 DEF Reload, Schedule
  <2>6. CASE CapturesSettle \/ DeadlineExpires
    BY <2>1, <2>6 DEF CapturesSettle, DeadlineExpires, Release, bootVars, configVars
  <2>7. CASE CronFires \/ Regenerate
    BY <2>1, <2>7 DEF CronFires, Regenerate, bootVars, configVars
  <2>8. CASE \E g \in gens : Generation(g)
    BY <2>1, <2>8 DEF Generation, PodsAnswered, AnswerRejected, AnswerTaken, FileOpened,
       FileWritten, FileFailed, Notified, bootVars, configVars
  <2>9. CASE Edit \/ ReloadFails
    BY <2>1, <2>9 DEF Edit, ReloadFails, bootVars
  <2>. QED
    BY <2>1, <2>2, <2>3, <2>4, <2>5, <2>6, <2>7, <2>8, <2>9
       DEF Next, Boot, vars, bootVars, configVars
<1>. QED
  BY <1>1, <1>2, PTL DEF Spec

-----------------------------------------------------------------------------
(* Recommendations come in order. *)

\* Whatever is cached, read or stored was generated, and before anything that
\* still waits for its answer.
OrderGood ==
  /\ \A g \in gens : g.id < advice
  /\ cached # None => cached \in Nat /\ cached < advice
  /\ \A a \in {read, file} \ {None, Torn} : a \in Nat /\ a < advice
  /\ ~early /\ cached # None =>
       \A g \in gens : g.at \in {"pods", "llm"} => cached < g.id

\* A notification is sent of what is served and stored.
NotifyGood ==
  ~early => \A g \in gens : g.at = "notify" => cached = g.id /\ file = g.id

LEMMA GenerateKeepsOrder ==
  ASSUME IInv, OrderGood, NotifyGood, NEW c, NEW k, Generate(c, k) \/ GenerateNothing,
         UNCHANGED <<cached, read, file>>
  PROVE  OrderGood' /\ NotifyGood'
<1>1. CASE gens' = gens /\ advice' = advice
  <2>0. early \in BOOLEAN
    BY DEF IInv, OneGeneration
  <2>1. early' = early
    BY <1>1, <2>0, Zenon DEF Generate, GenerateNothing
  <2>. QED
    BY <1>1, <2>1 DEF OrderGood, NotifyGood
<1>2. CASE ~(gens' = gens /\ advice' = advice)
  <2>1. /\ gens' = {[id |-> advice, at |-> "pods"]}
        /\ advice' = advice + 1
        /\ early' \/ ~early
    BY <1>2 DEF Generate, GenerateNothing
  <2>. QED
    BY <2>1 DEF IInv, OneGeneration, OrderGood, NotifyGood
<1>. QED
  BY <1>1, <1>2

LEMMA GenerationKeepsOrder ==
  ASSUME IInv, OrderGood, NotifyGood, NEW g \in gens, Generation(g)
  PROVE  OrderGood' /\ NotifyGood'
<1>1. /\ g \in [id : Nat, at : Awaits] /\ gens = {g} /\ g.id < advice
      /\ UNCHANGED <<read, advice, early>>
  BY DEF IInv, OneGeneration, OrderGood, Generation, PodsAnswered, AnswerRejected,
     AnswerTaken, FileOpened, FileWritten, FileFailed, Notified
<1>2. \A at \in Awaits : To(g, at) =>
        /\ gens' = {[g EXCEPT !.at = at]}
        /\ \A h \in gens' : h.at = at /\ h.id = g.id
  BY <1>1 DEF To, Awaits
<1>3. Over(g) => gens' = {}
  BY <1>1 DEF Over
<1>. USE <1>1 DEF IInv, OneGeneration, Awaits
<1>4. CASE PodsAnswered(g)
  BY <1>2, <1>4 DEF PodsAnswered, OrderGood, NotifyGood
<1>5. CASE AnswerRejected(g) \/ FileFailed(g) \/ Notified(g)
  BY <1>3, <1>5 DEF AnswerRejected, FileFailed, Notified, OrderGood, NotifyGood
<1>6. CASE AnswerTaken(g)
  BY <1>2, <1>6 DEF AnswerTaken, OrderGood, NotifyGood
<1>7. CASE FileOpened(g)
  BY <1>2, <1>7 DEF FileOpened, OrderGood, NotifyGood
<1>8. CASE FileWritten(g)
  <2>1. ~early => cached = g.id
    <3>. SUFFICES ASSUME ~early
         PROVE  cached = g.id
      OBVIOUS
    <3>1. Loaded
      BY DEF BeforeLoaded
    <3>. QED
      BY <1>8, <3>1 DEF FileWritten, AfterLoaded
  <2>. QED
    BY <1>2, <1>8, <2>1 DEF FileWritten, OrderGood, NotifyGood
<1>. QED
  BY <1>4, <1>5, <1>6, <1>7, <1>8 DEF Generation

\* What is served is only ever replaced by something newer.
Newer == cached # None /\ cached' # None /\ ~early' => cached' = cached \/ cached < cached'

LEMMA NextOrder ==
  ASSUME IInv, OrderGood, NotifyGood, [Next]_vars
  PROVE  OrderGood' /\ NotifyGood' /\ Newer
<1>. USE DEF bootVars, configVars, readyVars, scheduleVars, adviceVars
<1>1. CASE UNCHANGED adviceVars
  BY <1>1 DEF OrderGood, NotifyGood, Newer
<1>2. ASSUME NEW c, NEW k, Generate(c, k) \/ GenerateNothing,
             UNCHANGED <<cached, read, file>>
      PROVE  OrderGood' /\ NotifyGood' /\ Newer
  BY <1>2, GenerateKeepsOrder DEF Newer
<1>3. CASE StatsPrepared
  BY <1>3 DEF StatsPrepared, OrderGood, NotifyGood, Newer
<1>4. CASE AdviceLoaded
  <2>1. ~early => gens = {} /\ cached = None
    BY <1>4 DEF AdviceLoaded, IInv, BeforeLoaded, Loaded
  <2>. QED
    BY <1>4, <2>1 DEF AdviceLoaded, OrderGood, NotifyGood, Newer
<1>5. CASE CapturesSettle \/ DeadlineExpires
  <2>1. CASE Release
    BY <1>2, <2>1 DEF Release, StartInitialGeneration
  <2>. QED
    BY <1>1, <1>5, <2>1 DEF CapturesSettle, DeadlineExpires
<1>6. CASE CronFires \/ Regenerate
  BY <1>2, <1>6 DEF CronFires, Regenerate
<1>7. CASE Reload
  BY <1>2, <1>7 DEF Reload, StartInitialGeneration
<1>8. ASSUME NEW g \in gens, Generation(g)
      PROVE  OrderGood' /\ NotifyGood' /\ Newer
  <2>1. cached' = cached \/ AnswerTaken(g)
    BY <1>8 DEF Generation, PodsAnswered, AnswerRejected, FileOpened, FileWritten,
       FileFailed, Notified
  <2>2. Newer
    BY <2>1 DEF AnswerTaken, OrderGood, Newer
  <2>. QED
    BY <1>8, <2>2, GenerationKeepsOrder
<1>9. CASE Restart
  BY <1>9 DEF Restart, NewProcess, OrderGood, NotifyGood, Newer
<1>10. CASE ConfigRead \/ QueueBuilt \/ Listening \/ Edit \/ ReloadFails \/ UNCHANGED vars
  BY <1>1, <1>10 DEF ConfigRead, QueueBuilt, Listening, Edit, ReloadFails, vars
<1>. QED
  BY <1>3, <1>4, <1>5, <1>6, <1>7, <1>8, <1>9, <1>10 DEF Next, Boot

LEMMA OrderInvariance == Spec => [](IInv /\ OrderGood /\ NotifyGood)
<1>1. Init => OrderGood /\ NotifyGood
  BY DEF Init, OrderGood, NotifyGood
<1>. QED
  BY <1>1, InitIInv, NextIInv, NextOrder, PTL DEF Spec

\* A process that serves a recommendation replaces it by a newer one only: no
\* late answer, reload, schedule or load of the file puts an older one in its
\* place, unless a generation had begun before the file was read
\* (StatsDataRecommendation.ts:44-53, 150-168, 222-239).
AdviceNeverGoesBack == [][Newer]_vars

\* No step of a running process brings an older recommendation back
\* (StatsDataRecommendation.ts:150-168, 222-239).
THEOREM AdviceInOrder == Spec => AdviceNeverGoesBack
<1>1. IInv /\ OrderGood /\ NotifyGood /\ [Next]_vars => [Newer]_vars
  BY NextOrder
<1>. QED
  BY <1>1, OrderInvariance, PTL DEF Spec, AdviceNeverGoesBack

\* A notification tells of the recommendation that is served and stored when
\* it is sent (StatsDataRecommendation.ts:232-250).
NotifiedIsServed ==
  ~early => \A g \in gens : g.at = "notify" => cached = g.id /\ file = g.id

\* No notification runs ahead of memory or file, nor behind them
\* (StatsDataRecommendation.ts:232-250).
THEOREM NotificationTrue == Spec => []NotifiedIsServed
<1>1. NotifyGood => NotifiedIsServed
  BY DEF NotifyGood, NotifiedIsServed
<1>. QED
  BY <1>1, OrderInvariance, PTL

-----------------------------------------------------------------------------
(* What readiness rests on. *)

\* A process that listens and is not ready yet has its deadline before it, and
\* none is ready before it listens (App.ts, StatsData.ts:77-96): the safety half
\* of ReadyInTheEnd.
ReadyOwed ==
  /\ pc = "up" /\ ~ready => initial = "racing"
  /\ ready => pc = "up"

\* Readiness is never lost on the way from the listener to the deadline of the
\* initial captures (StatsData.ts:77-96).
THEOREM ReadinessOwed == Spec => []ReadyOwed
<1>. DEFINE Captures == /\ pc = "up" => initial \in {"racing", "late", "over"}
                        /\ initial \in {"late", "over"} => ready
                        /\ ready => pc = "up"
                        /\ initial # "none" => pc = "up"
<1>1. Init => Captures
  BY DEF Init
<1>2. Captures /\ [Next]_vars => Captures'
  <2>. SUFFICES ASSUME Captures, [Next]_vars
       PROVE  Captures'
    OBVIOUS
  <2>. USE DEF bootVars, configVars, readyVars, scheduleVars, adviceVars
  <2>1. CASE UNCHANGED <<pc, initial, ready>>
    BY <2>1
  <2>2. CASE Boot
    BY <2>2 DEF Boot, ConfigRead, QueueBuilt, StatsPrepared, AdviceLoaded, Listening
  <2>3. CASE CapturesSettle \/ DeadlineExpires
    BY <2>3 DEF CapturesSettle, DeadlineExpires, Release
  <2>4. CASE Restart
    BY <2>4 DEF Restart, NewProcess
  <2>. QED
    BY <2>1, <2>2, <2>3, <2>4 DEF Next, CronFires, Regenerate, Generation, PodsAnswered,
       AnswerRejected, AnswerTaken, FileOpened, FileWritten, FileFailed, Notified,
       Edit, Reload, ReloadFails, vars
<1>3. Captures => ReadyOwed
  BY DEF ReadyOwed
<1>. QED
  BY <1>1, <1>2, <1>3, PTL DEF Spec
=============================================================================
