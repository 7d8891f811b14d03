------------------------- MODULE ResourceDataProofs -------------------------
(* Proofs about ResourceData, for any requests, places and bound. *)
EXTENDS ResourceData, FiniteSetTheorems, TLAPS

Steps == {"new", "clearing", "looking", "hit", "missed", "fetching", "refreshing",
          "saving", "storing", "over"}
Stages == {"new", "refused", "joined", "waiting", "running", "over"}
Live == {i \in Requests : stage[i] \in {"waiting", "running"}}

TypesGood ==
  /\ version \in Nat
  /\ seen \in [Requests -> Nat \cup {None}]
  /\ data \in [Entries -> Nat \cup {None}] /\ data[Old] # None
  /\ step \in [Requests -> Steps] /\ force \in [Requests -> BOOLEAN]
  /\ DOMAIN reply = Requests
  /\ arrived \in [Requests -> Nat]
  /\ inFlight \in [Requests -> SUBSET Requests]
  /\ before \in [Requests -> SUBSET Entries]
  /\ stage \in [Requests -> Stages]
  /\ DOMAIN keyOf = Requests /\ DOMAIN item = Requests /\ DOMAIN result = Requests
  /\ cell \in Entries \cup {Miss, Blend} /\ setting \subseteq Requests
  /\ got \in [Requests -> Entries \cup {Miss, Blend, Pending}]

\* The type has one execution at most, under its key.
QueueGood ==
  /\ \A i \in Live : keyOf[i] = TypeKey
  /\ \A i, j \in Live : i = j

\* An execution reads the cluster while it runs; a request waits for one that
\* reads it after the request came, unless it was running then.
ReadsGood ==
  /\ \A r \in Requests : arrived[r] <= version
  /\ \A i \in Requests : stage[i] \notin {"running", "over"} => seen[i] = None
  /\ \A i \in Requests : result[i] = "resolved" => seen[i] # None
  /\ \A r, i \in Requests :
       step[r] # "new" /\ i \notin inFlight[r] /\ (i \in Live \/ item[r] = i)
         => seen[i] = None \/ arrived[r] <= seen[i]

\* How far a request is, and what it holds by then.
RequestsGood ==
  \A r \in Requests :
    /\ step[r] \in {"new", "clearing", "looking", "hit", "missed"} => item[r] = NoItem
    /\ step[r] \in {"fetching", "refreshing"} => item[r] \in Requests
    /\ step[r] \notin {"saving", "storing", "over"} => data[r] = None
    /\ step[r] \in {"saving", "storing"} => data[r] # None
    /\ data[r] # None => item[r] \in inFlight[r] \/ arrived[r] <= data[r]
    /\ step[r] \in {"new", "clearing"} => reply[r] = None /\ got[r] = Pending

\* Whatever is stored, read or sent has been fetched.
Held == setting \cup ({cell} \cap Entries)
DataGood ==
  /\ \A e \in Held : data[e] # None
  /\ \A r \in Requests :
       /\ got[r] \in Entries => data[got[r]] # None
       /\ reply[r] \in Entries => data[reply[r]] # None
       /\ \A e \in before[r] : data[e] # None

\* After a forced request has cleared the cache, and the file could be removed,
\* no entry that was stored before comes back.
ClearGood ==
  \A r \in Requests :
    force[r] /\ step[r] \notin {"new", "clearing"} /\ r \notin uncleared =>
      /\ Held \cap before[r] = {}
      /\ {got[r], reply[r], r} \cap before[r] = {}

IInv ==
  TypesGood /\ QueueGood /\ ReadsGood /\ RequestsGood /\ DataGood /\ ClearGood

-----------------------------------------------------------------------------
LEMMA InitIInv == Init => IInv
<1>. SUFFICES ASSUME Init
     PROVE  IInv
  OBVIOUS
<1>. USE DEF Init, Queue!Init
<1>1. TypesGood
  <2>1. data \in [Entries -> Nat \cup {None}] /\ data[Old] # None
    BY NamesAssumption DEF Entries
  <2>2. step \in [Requests -> Steps] /\ stage \in [Requests -> Stages]
    BY DEF Steps, Stages
  <2>3. inFlight \in [Requests -> SUBSET Requests] /\ before \in [Requests -> SUBSET Entries]
    OBVIOUS
  <2>4. /\ got \in [Requests -> Entries \cup {Miss, Blend, Pending}]
        /\ cell \in Entries \cup {Miss, Blend}
    BY DEF Entries
  <2>. QED
    BY <2>1, <2>2, <2>3, <2>4 DEF TypesGood
<1>2. QueueGood
  BY DEF QueueGood, Live
<1>3. ReadsGood
  BY NamesAssumption DEF ReadsGood, Live
<1>4. RequestsGood
  BY EntryAssumption, NamesAssumption DEF RequestsGood, Entries
<1>5. DataGood
  BY EntryAssumption, NamesAssumption DEF DataGood, Held, Entries
<1>6. ClearGood
  BY DEF ClearGood
<1>. QED
  BY <1>1, <1>2, <1>3, <1>4, <1>5, <1>6 DEF IInv

-----------------------------------------------------------------------------
(* The queue *)

\* What a step of the queue may do to the executions it knows.
Moves(came) ==
  /\ stage' \in [Requests -> Stages] /\ DOMAIN result' = Requests
  /\ Live' \subseteq Live \cup came
  /\ \A i \in Requests : stage'[i] \notin {"running", "over"} => stage[i] \notin {"running", "over"}
  /\ \A i \in Requests : result'[i] = "resolved" => result[i] = "resolved"

LEMMA DispatchFacts ==
  ASSUME TypesGood, NEW gone \in SUBSET Requests, NEW came \in SUBSET Requests,
         \A c \in came : stage[c] = "new",
         Queue!Dispatch(gone, came)
  PROVE  Moves(came) /\ \A c \in came : stage'[c] # "refused"
<1>1. PICK begin \in SUBSET (Queue!Waiting \cup came) :
        \E late \in SUBSET ((Queue!Waiting \cup came) \ begin) :
          /\ stage' = [c \in Requests |->
                IF c \in begin THEN "running"
                ELSE IF c \in late \cup gone THEN "over"
                ELSE IF c \in came THEN "waiting"
                ELSE stage[c]]
          /\ result' = [c \in Requests |-> IF c \in late THEN "timedOut" ELSE result[c]]
  BY DEF Queue!Dispatch
<1>2. PICK late \in SUBSET ((Queue!Waiting \cup came) \ begin) :
          /\ stage' = [c \in Requests |->
                IF c \in begin THEN "running"
                ELSE IF c \in late \cup gone THEN "over"
                ELSE IF c \in came THEN "waiting"
                ELSE stage[c]]
          /\ result' = [c \in Requests |-> IF c \in late THEN "timedOut" ELSE result[c]]
  BY <1>1
<1>3. ASSUME NEW c \in Requests
      PROVE  /\ stage'[c] \in Stages
             /\ stage'[c] \in {"waiting", "running"} => c \in Live \cup came
             /\ stage'[c] \notin {"running", "over"} => stage[c] \notin {"running", "over"}
             /\ c \in came => stage'[c] # "refused"
  BY <1>2 DEF TypesGood, Stages, Live, Queue!Waiting
<1>4. \A c \in Requests : result'[c] = "resolved" => result[c] = "resolved"
  BY <1>2
<1>. QED
  BY <1>2, <1>3, <1>4 DEF Moves, Live

\* A step of the queue without a call keeps what concerns the queue.
LEMMA DispatchKeeps ==
  ASSUME TypesGood, QueueGood, ReadsGood, Moves({}),
         UNCHANGED <<keyOf, item, version, seen, arrived, inFlight, step>>
  PROVE  QueueGood' /\ ReadsGood'
<1>1. QueueGood'
  BY DEF QueueGood, Moves
<1>2. ReadsGood'
  BY DEF ReadsGood, Moves
<1>. QED
  BY <1>1, <1>2

\* A call of execute() for the type: what it waits for is live, or itself.
Queued(r) ==
  /\ stage[r] = "new"
  /\ stage' \in [Requests -> Stages]
  /\ DOMAIN keyOf' = Requests /\ DOMAIN item' = Requests /\ DOMAIN result' = Requests
  /\ QueueGood'
  /\ Live' \subseteq Live \cup {r}
  /\ \A i \in Requests : stage'[i] \notin {"running", "over"} => stage[i] \notin {"running", "over"}
  /\ \A i \in Requests : result'[i] = "resolved" => result[i] = "resolved"
  /\ \A q \in Requests \ {r} : item'[q] = item[q]
  /\ item'[r] \in Live \cup {r} \/ (stage'[r] = "refused" /\ item'[r] = item[r])

LEMMA ExecuteFacts ==
  ASSUME TypesGood, QueueGood, NEW r \in Requests, Execute(r, TypeKey)
  PROVE  Queued(r)
<1>1. CASE \E i \in Requests : Queue!Share(r, TypeKey, i)
  BY <1>1 DEF Queue!Share, Queued, TypesGood, QueueGood, Live, Stages, Queue!Running, Queue!Waiting
<1>2. CASE Queue!Refuse(r, TypeKey)
  BY <1>2 DEF Queue!Refuse, Queued, TypesGood, QueueGood, Live, Stages
<1>3. CASE Queue!Accept(r, TypeKey)
  <2>1. /\ stage[r] = "new" /\ Live = {}
        /\ keyOf' = [keyOf EXCEPT ![r] = TypeKey]
        /\ item' = [item EXCEPT ![r] = r]
        /\ Queue!Dispatch({}, {r})
    BY <1>3, NamesAssumption DEF Queue!Accept, QueueGood, Live, Queue!Running, Queue!Waiting
  <2>2. Moves({r}) /\ stage'[r] # "refused"
    BY <2>1, DispatchFacts
  <2>3. QueueGood'
    BY <2>1, <2>2 DEF Moves, QueueGood, TypesGood
  <2>. QED
    BY <2>1, <2>2, <2>3 DEF Queued, Moves, TypesGood
<1>. QED
  BY <1>1, <1>2, <1>3 DEF Execute

LEMMA QueuedKeepsReads ==
  ASSUME TypesGood, ReadsGood, NEW r \in Requests, Queued(r),
         UNCHANGED <<version, seen, arrived, inFlight>>,
         \A q \in Requests : step'[q] # "new" => step[q] # "new"
  PROVE  ReadsGood'
<1>1. seen[r] = None
  BY DEF ReadsGood, Queued
<1>2. ASSUME NEW q \in Requests, NEW i \in Requests,
             step'[q] # "new", i \notin inFlight[q], i \in Live' \/ item'[q] = i
      PROVE  seen[i] = None \/ arrived[q] <= seen[i]
  <2>1. i = r \/ i \in Live \/ item[q] = i
    BY <1>2 DEF Queued
  <2>. QED
    BY <1>1, <1>2, <2>1 DEF ReadsGood
<1>. QED
  BY <1>2 DEF ReadsGood, Queued

-----------------------------------------------------------------------------
(* The handler *)

\* Cells of the queue and what is read stay as they are.
QueueSame == UNCHANGED <<keyOf, item, stage, result, version, seen>>

LEMMA SameQueue ==
  ASSUME TypesGood, QueueGood, ReadsGood, QueueSame, UNCHANGED <<arrived, inFlight>>,
         \A q \in Requests : step'[q] # "new" => step[q] # "new"
  PROVE  QueueGood' /\ ReadsGood'
BY DEF QueueSame, QueueGood, ReadsGood, Live

LEMMA ArriveKeeps ==
  ASSUME IInv, NEW r \in Requests, NEW f \in BOOLEAN, Arrive(r, f)
  PROVE  IInv'
<1>. USE DEF IInv, Arrive, Goto, world, queueVars, cacheVars
<1>1. TypesGood'
  BY DEF TypesGood, Steps, Queue!Running
<1>2. QueueGood'
  BY DEF QueueGood, Live
<1>3. ReadsGood'
  <2>1. ASSUME NEW i \in Requests, i \notin Queue!Running, i \in Live \/ item[r] = i
        PROVE  seen[i] = None
    BY <2>1, NamesAssumption DEF ReadsGood, RequestsGood, Live, Queue!Running
  <2>2. ASSUME NEW q \in Requests, NEW i \in Requests,
               step'[q] # "new", i \notin inFlight'[q], i \in Live \/ item[q] = i
        PROVE  seen[i] = None \/ arrived'[q] <= seen[i]
    BY <2>1, <2>2 DEF ReadsGood, TypesGood
  <2>3. \A q \in Requests : arrived'[q] <= version
    BY DEF ReadsGood, TypesGood
  <2>. QED
    BY <2>2, <2>3 DEF ReadsGood, Live
<1>4. RequestsGood'
  BY DEF RequestsGood, TypesGood
<1>5. DataGood'
  BY DEF DataGood, Held
<1>6. ClearGood'
  BY DEF ClearGood, Held, TypesGood
<1>. QED
  BY <1>1, <1>2, <1>3, <1>4, <1>5, <1>6

LEMMA ClearKeeps ==
  ASSUME IInv, NEW r \in Requests, Clear(r)
  PROVE  IInv'
<1>. USE DEF IInv, Clear, Cache!Clear, Goto, world, queueVars
<1>1. TypesGood'
  BY DEF TypesGood, Steps
<1>2. QueueGood' /\ ReadsGood'
  BY SameQueue DEF QueueSame, TypesGood
<1>3. RequestsGood'
  BY DEF RequestsGood, TypesGood
<1>4. DataGood'
  BY EntryAssumption DEF DataGood, Held, TypesGood
<1>5. ClearGood'
  BY EntryAssumption DEF ClearGood, Held, TypesGood, RequestsGood
<1>. QED
  BY <1>1, <1>2, <1>3, <1>4, <1>5

LEMMA LookKeeps ==
  ASSUME IInv, NEW r \in Requests, Look(r)
  PROVE  IInv'
<1>. USE DEF IInv, Look, Goto, world, queueVars, history
<1>0. /\ got' \in [Requests -> Entries \cup {Miss, Blend, Pending}]
      /\ got'[r] \in {cell, Miss}
      /\ \A q \in Requests : q # r => got'[q] = got[q]
      /\ UNCHANGED <<cell, setting, crowd, cleared, up>>
  <2>1. PICK e \in {cell, Miss} : got' = [got EXCEPT ![r] = e]
    BY DEF Cache!Get
  <2>. QED
    BY <2>1 DEF Cache!Get, TypesGood
<1>1. TypesGood'
  BY <1>0 DEF TypesGood, Steps
<1>2. QueueGood' /\ ReadsGood'
  BY SameQueue DEF QueueSame, TypesGood
<1>3. RequestsGood'
  BY <1>0 DEF RequestsGood, TypesGood
<1>4. DataGood'
  BY <1>0, EntryAssumption DEF DataGood, Held, TypesGood
<1>5. ClearGood'
  BY <1>0, EntryAssumption DEF ClearGood, Held, TypesGood
<1>. QED
  BY <1>1, <1>2, <1>3, <1>4, <1>5

LEMMA HitFreshKeeps ==
  ASSUME IInv, NEW r \in Requests, HitFresh(r)
  PROVE  IInv'
<1>. USE DEF IInv, HitFresh, Goto, Send, world, queueVars, cacheVars, history
<1>1. TypesGood'
  BY DEF TypesGood, Steps
<1>2. QueueGood' /\ ReadsGood'
  BY SameQueue DEF QueueSame, TypesGood
<1>3. RequestsGood'
  BY DEF RequestsGood, TypesGood
<1>4. DataGood'
  BY DEF DataGood, Held, TypesGood
<1>5. ClearGood'
  BY DEF ClearGood, Held, TypesGood
<1>. QED
  BY <1>1, <1>2, <1>3, <1>4, <1>5

LEMMA HitStaleKeeps ==
  ASSUME IInv, NEW r \in Requests, HitStale(r)
  PROVE  IInv'
<1>. USE DEF IInv, HitStale, Goto, Send, world, cacheVars, history
<1>1. Queued(r)
  BY ExecuteFacts
<1>2. TypesGood'
  BY <1>1 DEF Queued, TypesGood, Steps
<1>3. QueueGood' /\ ReadsGood'
  BY <1>1, QueuedKeepsReads DEF Queued, TypesGood
<1>4. RequestsGood'
  BY <1>1 DEF Queued, RequestsGood, TypesGood, Live
<1>5. DataGood'
  BY DEF DataGood, Held, TypesGood
<1>6. ClearGood'
  BY DEF ClearGood, Held, TypesGood
<1>. QED
  BY <1>2, <1>3, <1>4, <1>5, <1>6

LEMMA FetchKeeps ==
  ASSUME IInv, NEW r \in Requests, Fetch(r)
  PROVE  IInv'
<1>. USE DEF IInv, Fetch, Goto, Send, world, cacheVars, history
<1>1. Queued(r)
  BY ExecuteFacts
<1>2. TypesGood'
  BY <1>1 DEF Queued, TypesGood, Steps
<1>3. QueueGood' /\ ReadsGood'
  BY <1>1, QueuedKeepsReads DEF Queued, TypesGood
<1>4. RequestsGood'
  BY <1>1 DEF Queued, RequestsGood, TypesGood, Live
<1>5. DataGood'
  BY EntryAssumption DEF DataGood, Held, TypesGood
<1>6. ClearGood'
  BY EntryAssumption DEF ClearGood, Held, TypesGood
<1>. QED
  BY <1>2, <1>3, <1>4, <1>5, <1>6

LEMMA SaveKeeps ==
  ASSUME IInv, NEW r \in Requests, Save(r)
  PROVE  IInv'
<1>. USE DEF IInv, Save, Goto, Cache!Begin, queueVars, history
<1>1. /\ item[r] \in Requests
      /\ seen[item[r]] \in Nat /\ seen[item[r]] # None
      /\ data[r] = None
  BY NamesAssumption DEF TypesGood, ReadsGood, RequestsGood
<1>2. \A e \in Entries : data[e] # None => data'[e] = data[e]
  BY <1>1 DEF TypesGood
<1>3. TypesGood'
  BY <1>1, EntryAssumption DEF TypesGood, Steps, Entries
<1>4. QueueGood' /\ ReadsGood'
  BY SameQueue DEF QueueSame, TypesGood
<1>5. RequestsGood'
  BY <1>1 DEF RequestsGood, ReadsGood, TypesGood, Entries
<1>6. DataGood'
  BY <1>1 DEF DataGood, Held, TypesGood, Entries
<1>7. ClearGood'
  BY <1>1 DEF ClearGood, DataGood, Held, TypesGood
<1>. QED
  BY <1>3, <1>4, <1>5, <1>6, <1>7

LEMMA FetchFailsKeeps ==
  ASSUME IInv, NEW r \in Requests, FetchFails(r)
  PROVE  IInv'
<1>. USE DEF IInv, FetchFails, Goto, Send, world, queueVars, cacheVars, history
<1>1. TypesGood'
  BY DEF TypesGood, Steps
<1>2. QueueGood' /\ ReadsGood'
  BY SameQueue DEF QueueSame, TypesGood
<1>3. RequestsGood'
  BY DEF RequestsGood, TypesGood
<1>4. DataGood'
  BY EntryAssumption DEF DataGood, Held, TypesGood
<1>5. ClearGood'
  BY EntryAssumption DEF ClearGood, Held, TypesGood
<1>. QED
  BY <1>1, <1>2, <1>3, <1>4, <1>5

LEMMA SavedKeeps ==
  ASSUME IInv, NEW r \in Requests, Saved(r)
  PROVE  IInv'
<1>. USE DEF IInv, Saved, Goto, Send, world, queueVars, history
<1>1. /\ Held' \subseteq Held
      /\ cell' \in Entries \cup {Miss, Blend} /\ setting' \subseteq Requests
      /\ got' = got
  BY EntryAssumption DEF Cache!Put, Cache!Lose, Cache!Finish, Held, TypesGood, Entries
<1>2. TypesGood'
  BY <1>1 DEF TypesGood, Steps
<1>3. QueueGood' /\ ReadsGood'
  BY SameQueue DEF QueueSame, TypesGood
<1>4. RequestsGood'
  BY <1>1 DEF RequestsGood, TypesGood
<1>5. DataGood'
  BY <1>1 DEF DataGood, RequestsGood, TypesGood
<1>6. ClearGood'
  BY <1>1 DEF ClearGood, TypesGood
<1>. QED
  BY <1>2, <1>3, <1>4, <1>5, <1>6

-----------------------------------------------------------------------------
(* The queue, the cache and the cluster *)

LEMMA StoreStepKeeps ==
  ASSUME IInv, StoreStep
  PROVE  IInv'
<1>. USE DEF IInv, StoreStep, world, routeVars, queueVars, history
<1>1. /\ Held' \subseteq Held
      /\ cell' \in Entries \cup {Miss, Blend} /\ got' = got
  BY EntryAssumption DEF Cache!Put, Cache!Lose, Held, TypesGood, Entries
<1>2. TypesGood'
  BY <1>1 DEF TypesGood
<1>3. QueueGood' /\ ReadsGood'
  BY SameQueue DEF QueueSame
<1>4. RequestsGood' /\ DataGood' /\ ClearGood'
  BY <1>1 DEF RequestsGood, DataGood, ClearGood
<1>. QED
  BY <1>2, <1>3, <1>4

\* The slots of the queue change hands: answers given, items left or given up.
LEMMA DispatchStepKeeps ==
  ASSUME IInv, NEW gone \in SUBSET Requests, Queue!Dispatch(gone, {}),
         UNCHANGED <<keyOf, item, world, routeVars, history, cacheVars>>
  PROVE  IInv'
<1>. USE DEF IInv, world, routeVars, history, cacheVars
<1>1. Moves({})
  BY DispatchFacts
<1>2. QueueGood' /\ ReadsGood'
  BY <1>1, DispatchKeeps
<1>3. TypesGood'
  BY <1>1 DEF Moves, TypesGood
<1>4. RequestsGood' /\ DataGood' /\ ClearGood'
  BY DEF RequestsGood, DataGood, ClearGood, Held
<1>. QED
  BY <1>2, <1>3, <1>4

LEMMA ReadClusterKeeps ==
  ASSUME IInv, NEW i \in Requests, ReadCluster(i)
  PROVE  IInv'
<1>. USE DEF IInv, ReadCluster, routeVars, history, queueVars, cacheVars
<1>1. TypesGood'
  BY DEF TypesGood
<1>2. ReadsGood'
  <2>1. version # None
    BY NamesAssumption DEF TypesGood
  <2>. QED
    BY <2>1 DEF ReadsGood, TypesGood, Live
<1>3. QueueGood' /\ RequestsGood' /\ DataGood' /\ ClearGood'
  BY DEF QueueGood, Live, RequestsGood, DataGood, ClearGood, Held
<1>. QED
  BY <1>1, <1>2, <1>3

LEMMA AnswerKeeps ==
  ASSUME IInv, NEW i \in Requests, NEW o, Answer(i, o)
  PROVE  IInv'
<1>. USE DEF IInv, Answer, Queue!Answer, world, routeVars, history, cacheVars
<1>1. TypesGood'
  BY DEF TypesGood
<1>2. ReadsGood'
  BY DEF ReadsGood, TypesGood, Live
<1>3. QueueGood' /\ RequestsGood' /\ DataGood' /\ ClearGood'
  BY DEF QueueGood, Live, RequestsGood, DataGood, ClearGood, Held
<1>. QED
  BY <1>1, <1>2, <1>3

LEMMA ClusterChangesKeeps ==
  ASSUME IInv, ClusterChanges
  PROVE  IInv'
<1>. USE DEF IInv, ClusterChanges, routeVars, history, queueVars, cacheVars
<1>1. TypesGood'
  BY DEF TypesGood
<1>2. ReadsGood'
  BY DEF ReadsGood, TypesGood, Live
<1>3. QueueGood' /\ RequestsGood' /\ DataGood' /\ ClearGood'
  BY DEF QueueGood, Live, RequestsGood, DataGood, ClearGood, Held
<1>. QED
  BY <1>1, <1>2, <1>3

LEMMA NextIInv == IInv /\ [Next]_vars => IInv'
<1>. SUFFICES ASSUME IInv, [Next]_vars
     PROVE  IInv'
  OBVIOUS
<1>1. ASSUME NEW r \in Requests, NEW f \in BOOLEAN, Arrive(r, f)
      PROVE  IInv'
  BY <1>1, ArriveKeeps
<1>2. ASSUME NEW r \in Requests, Handler(r)
      PROVE  IInv'
  BY <1>2, ClearKeeps, LookKeeps, HitFreshKeeps, HitStaleKeeps, FetchKeeps,
     SaveKeeps, FetchFailsKeeps, SavedKeeps DEF Handler
<1>3. CASE StoreStep
  BY <1>3, StoreStepKeeps
<1>4. ASSUME NEW n \in Places, OthersCome(n)
      PROVE  IInv'
  BY <1>4, DispatchStepKeeps DEF OthersCome, Queue!SetLimit
<1>5. ASSUME NEW i \in Requests, ReadCluster(i)
      PROVE  IInv'
  BY <1>5, ReadClusterKeeps
<1>6. ASSUME NEW i \in Requests, NEW o \in {"resolved", "failed", "timedOut"}, Answer(i, o)
      PROVE  IInv'
  BY <1>6, AnswerKeeps
<1>7. CASE Dispatch
  <2>1. PICK gone \in SUBSET Requests : Queue!Dispatch(gone, {})
    BY <1>7 DEF Dispatch, Queue!GiveUp, Queue!Leave
  <2>. QED
    BY <1>7, <2>1, DispatchStepKeeps DEF Dispatch, Queue!GiveUp, Queue!Leave
<1>8. CASE ClusterChanges
  BY <1>8, ClusterChangesKeeps
<1>9. CASE UNCHANGED vars
  BY <1>9, SameQueue DEF IInv, vars, QueueSame, world, routeVars, history, queueVars,
     cacheVars, TypesGood, RequestsGood, DataGood, ClearGood, Held
<1>. QED
  BY <1>1, <1>2, <1>3, <1>4, <1>5, <1>6, <1>7, <1>8, <1>9 DEF Next

LEMMA Invariance == Spec => []IInv
<1>. QED
  BY InitIInv, NextIInv, PTL DEF Spec

-----------------------------------------------------------------------------
(* What a reader should know of *)

\* One kubectl at a time lists the type, however many requests find the cache
\* empty or stale together.
THEOREM OneListingHolds == Spec => []OneListing
<1>1. IInv => OneListing
  <2>. SUFFICES ASSUME IInv
       PROVE  Cardinality(Live) <= 1
    BY DEF OneListing, Live
  <2>1. CASE Live = {}
    BY <2>1, FS_EmptySet
  <2>2. CASE Live # {}
    <3>1. PICK i \in Live : TRUE
      BY <2>2
    <3>2. Live = {i}
      BY <3>1 DEF IInv, QueueGood
    <3>. QED
      BY <3>2, FS_Singleton
  <2>. QED
    BY <2>1, <2>2
<1>. QED
  BY <1>1, Invariance, PTL

\* A miss is answered with the cluster as it was when the request arrived or
\* later, or by the one kubectl that was running then.
THEOREM MissBounded == Spec => []MissLagsOneExecution
<1>1. IInv => MissLagsOneExecution
  BY DEF IInv, TypesGood, RequestsGood, DataGood, MissLagsOneExecution, Entries
<1>. QED
  BY <1>1, Invariance, PTL

\* A forced request never gets an entry that was stored before it cleared the
\* cache, if clear() could remove the file.
THEOREM ForcedHolds == Spec => []ForcedSeesNoOldEntry
<1>1. IInv => ForcedSeesNoOldEntry
  BY EntryAssumption DEF IInv, TypesGood, RequestsGood, ClearGood, ForcedSeesNoOldEntry
<1>. QED
  BY <1>1, Invariance, PTL

-----------------------------------------------------------------------------
(***************************************************************************)
(* What the answer to a request rests on.                                  *)
(*                                                                         *)
(* EveryRequestReplied says that a request is answered if the server as a  *)
(* whole goes on.  Its safety half is proved here: a request without an    *)
(* answer is always at a step its handler can take, or waits for an        *)
(* execution that can still be answered.                                   *)
(***************************************************************************)
Unanswered == {"new", "clearing", "looking", "hit", "missed", "fetching", "saving"}

\* An execution is answered before it is over.  A request has no answer until
\* its handler gives one, and calls execute() and set() once.
AnswersGood ==
  /\ \A i \in Requests : stage[i] = "over" => result[i] # "pending"
  /\ \A r \in Requests :
       /\ step[r] \in {"new", "clearing", "looking", "hit", "missed"} => stage[r] = "new"
       /\ step[r] = "hit" => got[r] \in Entries \cup {Blend}
       /\ step[r] \in {"fetching", "refreshing"} =>
            stage[item[r]] \in {"waiting", "running", "over"}
       /\ step[r] \in {"saving", "storing"} => r \in setting
       /\ reply[r] = None <=> step[r] \in Unanswered

\* Nothing is read or stored that the cluster did not have by then.
VersionsGood ==
  /\ \A i \in Requests : seen[i] # None => seen[i] <= version
  /\ \A e \in Entries : data[e] # None => data[e] <= version

Accepted == {"waiting", "running", "over"}

\* What a step of the queue does to an execution: it is answered before it is
\* over and keeps its answer; one that was accepted is never forgotten.
Serves(i) ==
  /\ stage'[i] = "over" => stage[i] = "over" \/ result'[i] # "pending"
  /\ result[i] # "pending" => result'[i] # "pending"
  /\ stage[i] \in Accepted => stage'[i] \in Accepted
  /\ stage[i] = "new" => stage'[i] = "new"

LEMMA DispatchServes ==
  ASSUME TypesGood, NEW gone \in SUBSET Requests, NEW came \in SUBSET Requests,
         \A i \in gone : stage[i] = "running" /\ result[i] # "pending",
         Queue!Dispatch(gone, came)
  PROVE  /\ \A i \in Requests \ came : Serves(i)
         /\ \A i \in came \ gone :
              /\ stage'[i] \in Accepted
              /\ stage'[i] = "over" => result'[i] # "pending"
<1>1. PICK begin \in SUBSET (Queue!Waiting \cup came) :
        \E late \in SUBSET ((Queue!Waiting \cup came) \ begin) :
          /\ stage' = [c \in Requests |->
                IF c \in begin THEN "running"
                ELSE IF c \in late \cup gone THEN "over"
                ELSE IF c \in came THEN "waiting"
                ELSE stage[c]]
          /\ result' = [c \in Requests |-> IF c \in late THEN "timedOut" ELSE result[c]]
  BY DEF Queue!Dispatch
<1>2. PICK late \in SUBSET ((Queue!Waiting \cup came) \ begin) :
          /\ stage' = [c \in Requests |->
                IF c \in begin THEN "running"
                ELSE IF c \in late \cup gone THEN "over"
                ELSE IF c \in came THEN "waiting"
                ELSE stage[c]]
          /\ result' = [c \in Requests |-> IF c \in late THEN "timedOut" ELSE result[c]]
  BY <1>1
<1>3. \A i \in begin \cup late : stage[i] = "waiting" \/ i \in came
  BY DEF Queue!Waiting
<1>. QED
  BY <1>2, <1>3 DEF Serves, Accepted, TypesGood

\* A call of execute() is refused, or given an execution that was accepted.
LEMMA ExecuteServes ==
  ASSUME TypesGood, NEW r \in Requests, Execute(r, TypeKey)
  PROVE  /\ \A i \in Requests \ {r} : Serves(i) /\ item'[i] = item[i]
         /\ stage[r] = "new"
         /\ stage'[r] = "over" => result'[r] # "pending"
         /\ stage'[r] # "refused" =>
              item'[r] \in Requests /\ stage'[item'[r]] \in Accepted
<1>1. CASE \E i \in Requests : Queue!Share(r, TypeKey, i)
  <2>1. PICK i \in Requests : Queue!Share(r, TypeKey, i)
    BY <1>1
  <2>2. /\ stage[r] = "new" /\ stage[i] \in {"waiting", "running"}
        /\ item' = [item EXCEPT ![r] = i]
        /\ stage' = [stage EXCEPT ![r] = "joined"] /\ result' = result
    BY <2>1 DEF Queue!Share, Queue!Running, Queue!Waiting
  <2>. QED
    BY <2>2 DEF TypesGood, Serves, Accepted
<1>2. CASE Queue!Refuse(r, TypeKey)
  BY <1>2 DEF Queue!Refuse, TypesGood, Serves, Accepted
<1>3. CASE Queue!Accept(r, TypeKey)
  <2>1. /\ stage[r] = "new"
        /\ item' = [item EXCEPT ![r] = r]
        /\ Queue!Dispatch({}, {r})
    BY <1>3 DEF Queue!Accept
  <2>2. /\ \A i \in Requests \ {r} : Serves(i)
        /\ stage'[r] \in Accepted /\ (stage'[r] = "over" => result'[r] # "pending")
    BY <2>1, DispatchServes
  <2>. QED
    BY <2>1, <2>2 DEF TypesGood, Accepted
<1>. QED
  BY <1>1, <1>2, <1>3 DEF Execute

\* A step of the queue without a call.
LEMMA ServesKeeps ==
  ASSUME IInv, AnswersGood, \A i \in Requests : Serves(i),
         UNCHANGED <<item, step, reply, got, setting>>
  PROVE  AnswersGood'
BY DEF IInv, TypesGood, RequestsGood, AnswersGood, Serves, Accepted

\* A step of the handler of r without a call.
LEMMA StepKeeps ==
  ASSUME IInv, AnswersGood, NEW r \in Requests,
         \A q \in Requests \ {r} :
           /\ step'[q] = step[q] /\ reply'[q] = reply[q] /\ got'[q] = got[q]
           /\ q \in setting => q \in setting',
         UNCHANGED <<item, stage, result>>,
         step'[r] \notin {"fetching", "refreshing"},
         step'[r] \in {"new", "clearing", "looking", "hit", "missed"} => stage[r] = "new",
         step'[r] = "hit" => got'[r] \in Entries \cup {Blend},
         step'[r] \in {"saving", "storing"} => r \in setting',
         reply'[r] = None <=> step'[r] \in Unanswered
  PROVE  AnswersGood'
BY DEF AnswersGood

\* A step of the handler of r with a call that was not refused.
LEMMA CallKeeps ==
  ASSUME IInv, AnswersGood, NEW r \in Requests, Execute(r, TypeKey),
         \A q \in Requests \ {r} : step'[q] = step[q] /\ reply'[q] = reply[q],
         UNCHANGED <<got, setting>>,
         step'[r] \in {"over", "fetching", "refreshing"},
         step'[r] # "over" => stage'[r] # "refused",
         reply'[r] = None <=> step'[r] \in Unanswered
  PROVE  AnswersGood'
<1>1. /\ \A i \in Requests \ {r} : Serves(i) /\ item'[i] = item[i]
      /\ stage[r] = "new"
      /\ stage'[r] = "over" => result'[r] # "pending"
      /\ stage'[r] # "refused" =>
           item'[r] \in Requests /\ stage'[item'[r]] \in Accepted
  BY ExecuteServes DEF IInv
<1>2. ASSUME NEW q \in Requests \ {r}, step[q] \in {"fetching", "refreshing"}
      PROVE  stage'[item'[q]] \in Accepted
  <2>1. item[q] \in Requests /\ stage[item[q]] \in Accepted
    BY <1>2 DEF IInv, RequestsGood, AnswersGood, Accepted
  <2>2. item[q] # r
    BY <1>1, <2>1 DEF Accepted
  <2>. QED
    BY <1>1, <2>1, <2>2 DEF Serves
<1>. QED
  BY <1>1, <1>2 DEF AnswersGood, Serves, Accepted

LEMMA HandlerAnswers ==
  ASSUME IInv, AnswersGood, NEW r \in Requests, Handler(r)
  PROVE  /\ AnswersGood'
         /\ \A q \in Requests : reply[q] # None => reply'[q] = reply[q]
<1>. USE DEF Goto, Send, world, history, queueVars, cacheVars, Unanswered
<1>0. /\ DOMAIN reply = Requests /\ step \in [Requests -> Steps]
      /\ \A e \in Entries \cup {Blend} : e # None
  BY EntryAssumption, NamesAssumption DEF IInv, TypesGood
<1>1. CASE Clear(r)
  BY <1>0, <1>1, StepKeeps DEF Clear, Cache!Clear, AnswersGood
<1>2. CASE Look(r)
  BY <1>0, <1>2, StepKeeps DEF Look, Cache!Get, AnswersGood, IInv, TypesGood
<1>3. CASE HitFresh(r)
  BY <1>0, <1>3, StepKeeps DEF HitFresh, AnswersGood
<1>4. CASE HitStale(r)
  BY <1>0, <1>4, CallKeeps DEF HitStale, AnswersGood
<1>5. CASE Fetch(r)
  BY <1>0, <1>5, CallKeeps, NamesAssumption DEF Fetch, AnswersGood
<1>6. CASE Save(r)
  BY <1>0, <1>6, StepKeeps DEF Save, Cache!Begin, AnswersGood
<1>7. CASE FetchFails(r)
  BY <1>0, <1>7, StepKeeps, NamesAssumption DEF FetchFails, AnswersGood
<1>8. CASE Saved(r)
  BY <1>0, <1>8, StepKeeps DEF Saved, Cache!Put, Cache!Lose, Cache!Finish, AnswersGood,
     Entries
<1>. QED
  BY <1>1, <1>2, <1>3, <1>4, <1>5, <1>6, <1>7, <1>8 DEF Handler


LEMMA NextAnswers ==
  ASSUME IInv, AnswersGood, [Next]_vars
  PROVE  /\ AnswersGood'
         /\ \A q \in Requests : reply[q] # None => reply'[q] = reply[q]
<1>. USE DEF world, routeVars, history, queueVars, cacheVars
<1>1. ASSUME NEW r \in Requests, NEW f \in BOOLEAN, Arrive(r, f)
      PROVE  AnswersGood' /\ reply' = reply
  <2>1. stage' = stage /\ result' = result /\ item' = item /\ stage[r] = "new"
        /\ reply[r] = None
    BY <1>1 DEF Arrive, AnswersGood, Unanswered
  <2>. QED
    BY <1>1, <2>1, StepKeeps DEF Arrive, Goto, Unanswered, IInv, TypesGood
<1>2. ASSUME NEW r \in Requests, Handler(r)
      PROVE  /\ AnswersGood'
             /\ \A q \in Requests : reply[q] # None => reply'[q] = reply[q]
  BY <1>2, HandlerAnswers
<1>3. CASE StoreStep
  BY <1>3 DEF StoreStep, Cache!Put, Cache!Lose, AnswersGood
<1>4. ASSUME NEW gone \in SUBSET Requests, Queue!Dispatch(gone, {}),
             \A i \in gone : stage[i] = "running" /\ result[i] # "pending",
             UNCHANGED <<item, routeVars, cacheVars>>
      PROVE  AnswersGood' /\ reply' = reply
  BY <1>4, DispatchServes, ServesKeeps DEF IInv
<1>5. ASSUME NEW n \in Places, OthersCome(n)
      PROVE  AnswersGood' /\ reply' = reply
  BY <1>4, <1>5 DEF OthersCome, Queue!SetLimit
<1>6. CASE Dispatch
  <2>1. CASE Queue!GiveUp
    BY <1>4, <1>6, <2>1 DEF Dispatch, Queue!GiveUp
  <2>2. ASSUME NEW i \in Requests, Queue!Leave(i)
        PROVE  AnswersGood' /\ reply' = reply
    BY <1>4, <1>6, <2>2 DEF Dispatch, Queue!Leave
  <2>. QED
    BY <1>6, <2>1, <2>2 DEF Dispatch
<1>7. ASSUME NEW i \in Requests, NEW o \in {"resolved", "failed", "timedOut"}, Answer(i, o)
      PROVE  AnswersGood' /\ reply' = reply
  <2>1. \A j \in Requests : Serves(j)
    BY <1>7 DEF Answer, Queue!Answer, Serves, Accepted, IInv, TypesGood
  <2>. QED
    BY <1>7, <2>1, ServesKeeps DEF Answer, Queue!Answer
<1>8. CASE \/ \E i \in Requests : ReadCluster(i)
           \/ ClusterChanges
           \/ UNCHANGED vars
  BY <1>8 DEF ReadCluster, ClusterChanges, vars, AnswersGood
<1>. QED
  BY <1>1, <1>2, <1>3, <1>5, <1>6, <1>7, <1>8 DEF Next, StoreStep

LEMMA InitAnswers == Init => AnswersGood
BY DEF Init, Queue!Init, AnswersGood, Unanswered

LEMMA NextVersions ==
  ASSUME IInv, VersionsGood, [Next]_vars
  PROVE  VersionsGood'
<1>. USE NamesAssumption DEF IInv, TypesGood, VersionsGood, world, routeVars, history,
       queueVars, cacheVars
<1>1. ASSUME NEW r \in Requests, Save(r)
      PROVE  VersionsGood'
  <2>1. item[r] \in Requests
    BY <1>1, NamesAssumption DEF Save, RequestsGood
  <2>. QED
    BY <1>1, <2>1 DEF Save, Goto
<1>2. ASSUME NEW i \in Requests, ReadCluster(i)
      PROVE  VersionsGood'
  BY <1>2 DEF ReadCluster
<1>3. CASE ClusterChanges
  BY <1>3 DEF ClusterChanges
<1>4. CASE UNCHANGED <<version, seen, data>>
  BY <1>4
<1>5. \/ \E r \in Requests : Save(r)
      \/ \E i \in Requests : ReadCluster(i)
      \/ ClusterChanges
      \/ UNCHANGED <<version, seen, data>>
  BY DEF Next, Arrive, Handler, Clear, Look, HitFresh, HitStale, Fetch, FetchFails,
     Saved, StoreStep, OthersCome, Answer, Dispatch, vars
<1>. QED
  BY <1>1, <1>2, <1>3, <1>4, <1>5

LEMMA AnswersInvariance == Spec => [](IInv /\ AnswersGood /\ VersionsGood)
<1>1. Init => VersionsGood
  BY DEF Init, VersionsGood, Queue!Init
<1>2. IInv /\ AnswersGood /\ VersionsGood /\ [Next]_vars
        => IInv' /\ AnswersGood' /\ VersionsGood'
  BY NextIInv, NextAnswers, NextVersions
<1>. QED
  BY <1>1, <1>2, InitIInv, InitAnswers, PTL DEF Spec

\* A request that has no answer yet is never forgotten: its handler has its
\* next step before it, waits for an execution that has its answer or can
\* still be given one, or is inside a set() that returns (lines 50-124).
CanGoOn(r) ==
  \/ step[r] \in {"clearing", "looking"}
  \/ step[r] = "hit" /\ got[r] \in Entries \cup {Blend} /\ stage[r] = "new"
  \/ step[r] = "missed" /\ stage[r] = "new"
  \/ /\ step[r] = "fetching" /\ item[r] \in Requests
     /\ result[item[r]] # "pending" \/ item[r] \in Live
  \/ step[r] = "saving" /\ r \in setting
RequestsOwed ==
  \A r \in Requests : step[r] # "new" /\ reply[r] = None => CanGoOn(r)

\* Every handler without an answer has a step to take or an execution to wait
\* for (KubeResourceRoutes.ts:50-124).
THEOREM NoRequestForgotten == Spec => []RequestsOwed
<1>1. IInv /\ AnswersGood => RequestsOwed
  <2>. SUFFICES ASSUME IInv, AnswersGood, NEW r \in Requests,
                       step[r] # "new", reply[r] = None
       PROVE  CanGoOn(r)
    BY DEF RequestsOwed
  <2>1. step[r] \in Unanswered \ {"new"}
    BY DEF AnswersGood
  <2>2. ASSUME step[r] = "fetching"
        PROVE  /\ item[r] \in Requests
               /\ result[item[r]] # "pending" \/ item[r] \in Live
    BY <2>2 DEF IInv, RequestsGood, AnswersGood, Live
  <2>. QED
    BY <2>1, <2>2 DEF AnswersGood, Unanswered, CanGoOn
<1>. QED
  BY <1>1, AnswersInvariance, PTL

\* A request is answered once: the refresh that goes on behind a stale entry
\* (lines 64-88) never sends a second reply, whatever becomes of it.
RepliesOnce ==
  [][\A r \in Requests : reply[r] # None => reply'[r] = reply[r]]_vars

\* No handler replies twice (KubeResourceRoutes.ts:50-124).
THEOREM RepliesGivenOnce == Spec => RepliesOnce
<1>1. IInv /\ AnswersGood /\ [Next]_vars
        => [\A r \in Requests : reply[r] # None => reply'[r] = reply[r]]_vars
  BY NextAnswers
<1>. QED
  BY <1>1, AnswersInvariance, PTL DEF Spec, RepliesOnce

\* A reply that carries a listing carries one that kubectl has read, of a
\* version the cluster had by then: an entry is never sent, nor stored, before
\* its content is there (lines 59-82, 96-107).
RepliesAreListings ==
  \A r \in Requests : reply[r] \in Entries => data[reply[r]] \in 0..version

\* Every listing sent was read from the cluster (KubeResourceRoutes.ts:59-107).
THEOREM RepliesWereRead == Spec => []RepliesAreListings
<1>1. IInv /\ VersionsGood => RepliesAreListings
  BY DEF IInv, TypesGood, DataGood, VersionsGood, RepliesAreListings
<1>. QED
  BY <1>1, AnswersInvariance, PTL
=============================================================================
