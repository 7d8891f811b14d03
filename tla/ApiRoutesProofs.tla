--------------------------- MODULE ApiRoutesProofs ---------------------------
(* Proofs about ApiRoutes, for any callers, grants, requests and bounds. *)
EXTENDS ApiRoutes, TLAPS

Fields == {"req", "at", "status", "audits", "ran", "may", "found"}

\* A call that was made is a record of its own for each caller.
CallsGood ==
  /\ DOMAIN call = Callers
  /\ \A c \in Callers :
       /\ call[c].at # "idle" => DOMAIN call[c] = Fields /\ call[c].req \in Requests
       /\ call[c].at \in {"work", "insert", "scan"} => ~IsCommand(c)

-----------------------------------------------------------------------------
(* Mutations and their audit trail *)

\* Until a command ends, it has no event; it goes to the queue before it runs.
CommandGood(c) ==
  /\ call[c].at \in {"check", "scope"} => call[c].audits = <<>> /\ call[c].ran = None
  /\ call[c].at = "run" =>
       /\ call[c].audits = <<>> /\ call[c].ran # None
       /\ call[c].req.op \in Mutations => call[c].ran = c
  /\ IsCommand(c) /\ call[c].at = "done" =>
       IF call[c].req.op \in Mutations /\ call[c].ran # None
       THEN /\ call[c].ran = c
            /\ Len(call[c].audits) = 1
            /\ call[c].status = Status(call[c].audits[1])
       ELSE call[c].audits = <<>>

CommandInv == CallsGood /\ \A c \in Callers : CommandGood(c)

\* One caller's call goes on, or several calls do.
LEMMA AnsweredGood ==
  ASSUME CommandInv, NEW d \in Callers, call[d].at = "run", NEW outcome,
         call'[d] = Answered(d, outcome)
  PROVE  /\ DOMAIN call'[d] = Fields /\ call'[d].req = call[d].req /\ call'[d].at = "done"
         /\ CommandGood(d)'
<1>1. /\ call'[d].at = "done" /\ call'[d].status = Status(outcome)
      /\ call'[d].audits = call[d].audits \o Audit(d, outcome)
      /\ call'[d].req = call[d].req /\ call'[d].ran = call[d].ran
      /\ DOMAIN call'[d] = Fields
  BY DEF CommandInv, CallsGood, Answered, Fields
<1>2. call[d].audits = <<>>
  BY DEF CommandInv, CommandGood
<1>3. CASE call[d].req.op \in Mutations
  <2>1. call'[d].audits = <<outcome>>
    BY <1>1, <1>2, <1>3 DEF Audit, Event
  <2>. QED
    BY <1>1, <1>3, <2>1 DEF CommandInv, CommandGood
<1>4. CASE call[d].req.op \notin Mutations
  <2>1. call'[d].audits = <<>>
    BY <1>1, <1>2, <1>4 DEF Audit, Event
  <2>. QED
    BY <1>1, <1>4, <2>1 DEF CommandInv, CommandGood
<1>. QED
  BY <1>3, <1>4, <1>1

\* A call that goes on, or ends, without reaching the queue.
LEMMA MoveGood ==
  ASSUME CommandInv, NEW c \in Callers, NEW at, NEW status,
         call[c].at \in {"check", "scope", "work", "insert"},
         at \in {"scope", "work", "insert", "done"},
         Await(c, at) \/ (at = "done" /\ Done(c, status)),
         at \in {"work", "insert"} => ~IsCommand(c),
         at = "scope" => call[c].at = "check"
  PROVE  CommandInv'
<1>1. /\ DOMAIN call[c] = Fields /\ call[c].req \in Requests
      /\ IsCommand(c) => call[c].at \in {"check", "scope"}
  BY DEF CommandInv, CallsGood
<1>2. /\ DOMAIN call' = Callers
      /\ \A d \in Callers \ {c} : call'[d] = call[d]
      /\ DOMAIN call'[c] = Fields /\ call'[c].at = at
      /\ call'[c].req = call[c].req /\ call'[c].ran = call[c].ran
      /\ call'[c].audits = call[c].audits
  BY <1>1 DEF CommandInv, CallsGood, Await, Done, Fields
<1>3. CallsGood'
  BY <1>1, <1>2 DEF CommandInv, CallsGood, IsCommand
<1>4. CommandGood(c)'
  BY <1>1, <1>2 DEF CommandInv, CommandGood, IsCommand
<1>5. \A d \in Callers \ {c} : CommandGood(d)'
  BY <1>2 DEF CommandInv, CommandGood, IsCommand
<1>. QED
  BY <1>3, <1>4, <1>5 DEF CommandInv

\* Calls whose steps change neither request nor end.
LEMMA ScansKeepCommands ==
  ASSUME CommandInv, DOMAIN call' = Callers,
         \A d \in Callers :
           \/ call'[d] = call[d]
           \/ /\ call[d].at \in {"scan", "work"} /\ DOMAIN call'[d] = Fields
              /\ call'[d].at \in {"scan", "done"} /\ call'[d].req = call[d].req
  PROVE  CommandInv'
<1>1. \A d \in Callers : call[d].at \in {"scan", "work"} => ~IsCommand(d)
  BY DEF CommandInv, CallsGood
<1>2. CallsGood'
  BY <1>1 DEF CommandInv, CallsGood, IsCommand
<1>3. \A d \in Callers : CommandGood(d)'
  BY <1>1 DEF CommandInv, CommandGood, CallsGood, IsCommand
<1>. QED
  BY <1>2, <1>3 DEF CommandInv

LEMMA ArriveKeepsCommands ==
  ASSUME CommandInv, NEW c \in Callers, Arrive(c)
  PROVE  CommandInv'
<1>1. PICK r \in Requests :
        call' = [call EXCEPT ![c] =
         [req |-> r, at |-> IF Grants[c] = None THEN "done" ELSE "check",
          status |-> IF Grants[c] = None THEN 401 ELSE 0,
          audits |-> <<>>, ran |-> None, may |-> {}, found |-> None]]
  BY DEF Arrive
<1>2. CallsGood'
  BY <1>1 DEF CommandInv, CallsGood, IsCommand, Fields
<1>3. CommandGood(c)'
  BY <1>1 DEF CommandInv, CallsGood, CommandGood
<1>4. \A d \in Callers \ {c} : CommandGood(d)'
  BY <1>1 DEF CommandInv, CallsGood, CommandGood, IsCommand
<1>. QED
  BY <1>2, <1>3, <1>4 DEF CommandInv

\* A mutation has no key, so it shares no execution.
LEMMA AuthoriseKeepsCommands ==
  ASSUME CommandInv, NEW c \in Callers, Authorise(c)
  PROVE  CommandInv'
<1>1. CASE Refusal(c) # 0
  <2>1. call[c].at = "scope" /\ Done(c, Refusal(c))
    BY <1>1 DEF Authorise
  <2>. QED
    BY <2>1, MoveGood
<1>2. CASE Refusal(c) = 0
  <2>1. /\ call[c].at = "scope" /\ IsCommand(c) /\ DOMAIN call[c] = Fields
        /\ call[c].audits = <<>>
    BY DEF Authorise, CommandInv, CallsGood, CommandGood
  <2>. DEFINE same == {d \in Callers :
                /\ call[d].at = "run" /\ call[d].ran = d
                /\ DedupKeyFor(call[c].req) # None
                /\ DedupKeyFor(call[d].req) = DedupKeyFor(call[c].req)}
  <2>2. call[c].req.op \in Mutations => same = {}
    BY DEF DedupKeyFor, Mutations, Writes
  <2>3. \E d \in IF same = {} THEN {c} ELSE same :
          call' = [call EXCEPT ![c].at = "run", ![c].ran = d]
    BY <1>2, Zenon DEF Authorise
  <2>4. PICK d \in Callers :
          /\ call' = [call EXCEPT ![c].at = "run", ![c].ran = d]
          /\ call[c].req.op \in Mutations => d = c
    BY <2>2, <2>3
  <2>5. /\ DOMAIN call' = Callers /\ \A e \in Callers \ {c} : call'[e] = call[e]
        /\ DOMAIN call'[c] = Fields /\ call'[c].at = "run" /\ call'[c].ran = d
        /\ call'[c].req = call[c].req /\ call'[c].audits = <<>>
    BY <2>1, <2>4 DEF CommandInv, CallsGood, Fields
  <2>6. CallsGood'
    BY <2>1, <2>5 DEF CommandInv, CallsGood, IsCommand
  <2>7. CommandGood(c)'
    BY <2>4, <2>5, CallersAssumption DEF CommandGood
  <2>8. \A e \in Callers \ {c} : CommandGood(e)'
    BY <2>5 DEF CommandInv, CommandGood, IsCommand
  <2>. QED
    BY <2>6, <2>7, <2>8 DEF CommandInv
<1>. QED
  BY <1>1, <1>2

\* An execution ends for those who share it.
LEMMA EndKeepsCommands ==
  ASSUME CommandInv, NEW outcome, NEW D \in SUBSET Callers,
         \A d \in D : call[d].at = "run",
         call' = [d \in Callers |-> IF d \in D THEN Answered(d, outcome) ELSE call[d]]
  PROVE  CommandInv'
<1>1. \A d \in D : /\ DOMAIN call'[d] = Fields /\ call'[d].req = call[d].req
                   /\ call'[d].at = "done" /\ CommandGood(d)'
  BY AnsweredGood
<1>2. \A d \in Callers \ D : call'[d] = call[d]
  OBVIOUS
<1>3. CallsGood'
  BY <1>1, <1>2 DEF CommandInv, CallsGood, IsCommand
<1>4. \A d \in Callers \ D : CommandGood(d)'
  BY <1>2 DEF CommandInv, CommandGood, IsCommand
<1>. QED
  BY <1>1, <1>3, <1>4 DEF CommandInv

LEMMA NextCommands == CommandInv /\ [Next]_vars => CommandInv'
<1>. SUFFICES ASSUME CommandInv, [Next]_vars
     PROVE  CommandInv'
  OBVIOUS
<1>1. ASSUME NEW c \in Callers, Arrive(c)
      PROVE  CommandInv'
  BY <1>1, ArriveKeepsCommands
<1>2. ASSUME NEW c \in Callers, Validate(c) \/ CheckScope(c)
      PROVE  CommandInv'
  BY <1>2, MoveGood DEF Validate, CheckScope
<1>3. ASSUME NEW c \in Callers, Authorise(c)
      PROVE  CommandInv'
  BY <1>3, AuthoriseKeepsCommands
<1>4. ASSUME NEW c \in Callers, QueueFull(c)
      PROVE  CommandInv'
  <2>1. /\ call[c].at = "run"
        /\ call' = [d \in Callers |-> IF d \in {c} THEN Answered(d, "queue_full") ELSE call[d]]
    BY <1>4 DEF QueueFull, CommandInv, CallsGood
  <2>. QED
    BY <2>1, EndKeepsCommands
<1>5. ASSUME NEW c \in Callers, Executed(c)
      PROVE  CommandInv'
  <2>. DEFINE D == {d \in Callers : call[d].at = "run" /\ call[d].ran = c}
  <2>1. PICK outcome \in {"success", "not_found", "error"} :
          call' = [d \in Callers |-> IF d \in D THEN Answered(d, outcome) ELSE call[d]]
    BY <1>5 DEF Executed
  <2>. QED
    BY <2>1, EndKeepsCommands
<1>6. ASSUME NEW c \in Callers, Load(c) \/ LoadDefaults(c) \/ SaveFields(c) \/ DatabaseFails(c)
      PROVE  CommandInv'
  <2>1. call[c].at \in {"work", "insert"} /\ ~IsCommand(c)
    BY <1>6 DEF Load, LoadDefaults, SaveFields, DatabaseFails, At, CommandInv, CallsGood
  <2>2. Await(c, "insert") \/ \E status : Done(c, status)
    BY <1>6 DEF Load, LoadDefaults, SaveFields, DatabaseFails
  <2>. QED
    BY <2>1, <2>2, MoveGood
<1>7. ASSUME NEW c \in Callers, Refresh(c)
      PROVE  CommandInv'
  <2>1. call[c].at = "work" /\ DOMAIN call = Callers /\ DOMAIN call[c] = Fields
    BY <1>7 DEF Refresh, At, CommandInv, CallsGood
  <2>2. CASE scan # None
    BY <1>7, <2>1, <2>2, MoveGood DEF Refresh
  <2>3. CASE scan = None
    <3>1. call' = [call EXCEPT ![c].at = "scan", ![c].may = {cluster}]
      BY <1>7, <2>3 DEF Refresh
    <3>. QED
      BY <2>1, <3>1, ScansKeepCommands DEF Fields
  <2>. QED
    BY <2>2, <2>3
<1>8. CASE Scan
  BY <1>8, ScansKeepCommands, ZenonT(40) DEF Scan, Refreshing, CommandInv, CallsGood, Fields
<1>9. CASE Cluster
  BY <1>9, ScansKeepCommands DEF Cluster, Refreshing, CommandInv, CallsGood, Fields
<1>10. CASE Restart
  BY <1>10 DEF Restart, Idle, CommandInv, CallsGood, CommandGood, IsCommand
<1>11. CASE Reload \/ UNCHANGED vars
  <2>1. call' = call
    BY <1>11 DEF Reload, vars
  <2>. QED
    BY <2>1 DEF CommandInv, CallsGood, CommandGood, IsCommand
<1>. QED
  BY <1>1, <1>2, <1>3, <1>4, <1>5, <1>6, <1>7, <1>8, <1>9, <1>10, <1>11 DEF Next

LEMMA CommandsGood == Spec => []CommandInv
<1>1. Init => CommandInv
  BY DEF Init, Idle, CommandInv, CallsGood, CommandGood, IsCommand
<1>. QED
  BY <1>1, NextCommands, PTL DEF Spec

\* A mutation that reached the queue ran for its caller alone and left one
\* audit event, with the outcome its caller was told
\* (KubeCtlCommandRoutes.ts:146-199, KubeCtlExecutor.ts:64-88).
THEOREM MutationsAudited == Spec => []MutationsAnswerForThemselves
<1>1. CommandInv => MutationsAnswerForThemselves
  BY DEF CommandInv, CommandGood, MutationsAnswerForThemselves
<1>. QED
  BY <1>1, CommandsGood, PTL

-----------------------------------------------------------------------------
(* What the user saved *)

SavedInv ==
  /\ row \in {Absent} \cup [ids : StorableIds, prefs : StorablePrefs]
  /\ row = Absent => savedIds = Absent /\ savedPrefs = Absent
  /\ SavedIsKept

\* A save, of one field or of both, keeps the other.
LEMMA SaveKeeps ==
  ASSUME SavedInv, NEW r \in Requests, r.op = "save", Save(r.ids, r.prefs)
  PROVE  SavedInv'
<1>1. r.ids \in StorableIds /\ r.prefs \in StorablePrefs
  BY DEF StorableIds, StorablePrefs, Given
<1>2. /\ Defaults \in StorableIds
      /\ \A q \in [ids : StorableIds, prefs : StorablePrefs] : q # Absent
  BY RowAssumption DEF StorableIds
<1>3. PICK ids \in StorableIds, prefs \in StorablePrefs :
        /\ row' = [ids |-> ids, prefs |-> prefs]
        /\ ids = Coalesce(r.ids, IF row = Absent THEN Defaults ELSE row.ids)
        /\ prefs = Coalesce(r.prefs, IF row = Absent THEN Absent ELSE row.prefs)
  BY <1>1, <1>2 DEF Save, Upsert, Coalesce, SavedInv
<1>4. row' \in [ids : StorableIds, prefs : StorablePrefs] /\ row' # Absent
  BY <1>2, <1>3
<1>. QED
  BY <1>3, <1>4 DEF Save, Coalesce, SavedInv, SavedIsKept

\* Defaults and the legacy file are stored only where there is no row.
LEMMA InsertKeeps ==
  ASSUME SavedInv, NEW ids \in StorableIds, row' = InsertNew(ids),
         UNCHANGED <<savedIds, savedPrefs>>
  PROVE  SavedInv'
<1>1. CASE row = Absent
  <2>1. /\ row' = [ids |-> ids, prefs |-> Absent]
        /\ row' \in [ids : StorableIds, prefs : StorablePrefs]
    BY <1>1 DEF InsertNew, StorablePrefs
  <2>. QED
    BY <1>1, <2>1 DEF SavedInv, SavedIsKept
<1>2. CASE row # Absent
  BY <1>2 DEF InsertNew, SavedInv, SavedIsKept
<1>. QED
  BY <1>1, <1>2

LEMMA NextSaved == CommandInv /\ SavedInv /\ [Next]_vars => SavedInv'
<1>. SUFFICES ASSUME CommandInv, SavedInv, [Next]_vars
     PROVE  SavedInv'
  OBVIOUS
<1>1. ASSUME NEW c \in Callers, SaveFields(c)
      PROVE  SavedInv'
  <2>1. call[c].req \in Requests /\ call[c].req.op = "save"
    BY <1>1 DEF SaveFields, At, CommandInv, CallsGood
  <2>2. Save(call[c].req.ids, call[c].req.prefs) \/ UNCHANGED selectionVars
    BY <1>1 DEF SaveFields
  <2>. QED
    BY <2>1, <2>2, SaveKeeps DEF selectionVars, SavedInv, SavedIsKept
<1>2. ASSUME NEW c \in Callers, LoadDefaults(c)
      PROVE  SavedInv'
  BY <1>2, InsertKeeps DEF LoadDefaults, StoreDefaults, StorableIds
<1>3. CASE Restart
  <2>1. CASE Legacy \in {Absent, Broken}
    BY <1>3, <2>1 DEF Restart, SelectionsRestart, Imported, SavedInv, SavedIsKept
  <2>2. CASE Legacy \notin {Absent, Broken}
    BY <1>3, <2>2, InsertKeeps DEF Restart, SelectionsRestart, Imported, StorableIds
  <2>. QED
    BY <2>1, <2>2
<1>4. CASE UNCHANGED selectionVars
  BY <1>4 DEF selectionVars, SavedInv, SavedIsKept
<1>. QED
  BY <1>1, <1>2, <1>3, <1>4 DEF Next, Arrive, Validate, Authorise, QueueFull, Executed,
     CheckScope, Load, DatabaseFails, Refresh, Scan, Cluster, Reload, vars

\* What a user saved stays until the user saves again, whatever defaults,
\* legacy files, restarts and saves of the other field there are
\* (UserResourceSelections.ts:145-282).
THEOREM SavesKept == Spec => []SavedIsKept
<1>1. Init => SavedInv
  BY DEF Init, SelectionsInit, SavedInv, SavedIsKept, StorableIds, StorablePrefs
<1>2. SavedInv => SavedIsKept
  BY DEF SavedInv
<1>. QED
  BY <1>1, <1>2, CommandsGood, NextSaved, PTL DEF Spec

-----------------------------------------------------------------------------
(* Refreshes *)

\* What the scan holds was in the cluster since the refresh was asked for.
RefreshGood(c) ==
  /\ call[c].at = "scan" =>
       /\ cluster \in call[c].may
       /\ scan = "kubectl" => listed \in call[c].may
       /\ scan \in {"open", "write"} => \E k \in call[c].may : available = Found(k)
  /\ call[c].at \notin {"idle", "done"} => call[c].found = None
  /\ call[c].at = "done" /\ call[c].found # None =>
       \E k \in call[c].may : call[c].found = Found(k)

RefreshInv == \A c \in Callers : RefreshGood(c)

LEMMA NextRefresh == CommandInv /\ RefreshInv /\ [Next]_vars => RefreshInv'
<1>. SUFFICES ASSUME CommandInv, RefreshInv, [Next]_vars, NEW c \in Callers
     PROVE  RefreshGood(c)'
  BY DEF RefreshInv
<1>. USE DEF RefreshInv
<1>1. /\ DOMAIN call = Callers
      /\ \A d \in Callers : call[d].at # "idle" => DOMAIN call[d] = Fields
  BY DEF CommandInv, CallsGood
<1>2. CASE Scan
  <2>1. /\ call'[c] = IF call[c].at = "scan" /\ scan' = None
                      THEN [call[c] EXCEPT !.at = "done", !.status = 200,
                              !.found = IF scan = "kubectl" THEN None ELSE available]
                      ELSE call[c]
        /\ ScanStep
    BY <1>2 DEF Scan, Refreshing
  <2>2. CASE call[c].at = "scan" /\ scan' = None
    BY <1>1, <2>1, <2>2 DEF RefreshGood, Fields, ScanStep, Scanned, ScanFailed, FileOpened,
       FileWritten, FileFailed
  <2>3. CASE ~(call[c].at = "scan" /\ scan' = None)
    BY <2>1, <2>3 DEF RefreshGood, ScanStep, Scanned, ScanFailed, Finally, FileOpened,
       FileWritten, FileFailed
  <2>. QED
    BY <2>2, <2>3
<1>3. CASE Cluster
  BY <1>1, <1>3 DEF Cluster, Refreshing, Daily, StartScan, Read, ClusterChanges,
     RefreshGood, Fields
<1>4. CASE Restart
  BY <1>4 DEF Restart, Idle, RefreshGood
<1>5. ASSUME NEW d \in Callers, Refresh(d)
      PROVE  RefreshGood(c)'
  BY <1>1, <1>5 DEF Refresh, At, Done, StartScan, RefreshGood, Fields
\* The others neither scan nor end a refresh.
<1>6. ASSUME UNCHANGED catalogVars,
             \/ call'[c] = call[c]
             \/ /\ call'[c].at # "scan"
                /\ call'[c].found = None
      PROVE  RefreshGood(c)'
  BY <1>6 DEF RefreshGood, catalogVars
<1>7. ASSUME NEW d \in Callers, Arrive(d)
      PROVE  RefreshGood(c)'
  BY <1>1, <1>6, <1>7 DEF Arrive
<1>8. ASSUME NEW d \in Callers,
             \/ Validate(d) \/ CheckScope(d) \/ Load(d) \/ LoadDefaults(d)
             \/ SaveFields(d) \/ DatabaseFails(d)
      PROVE  RefreshGood(c)'
  <2>1. /\ call[d].at \in {"check", "work", "insert"} /\ UNCHANGED catalogVars
        /\ \/ \E at \in {"scope", "work", "insert"} : Await(d, at)
           \/ \E status : Done(d, status)
    BY <1>8 DEF Validate, CheckScope, Load, LoadDefaults, SaveFields, DatabaseFails, At
  <2>. QED
    BY <1>1, <1>6, <2>1 DEF Await, Done, Fields, RefreshGood
<1>9. ASSUME NEW d \in Callers, Authorise(d) \/ QueueFull(d) \/ Executed(d)
      PROVE  RefreshGood(c)'
  <2>1. CASE Authorise(d)
    <3>1. /\ call[d].at = "scope" /\ UNCHANGED catalogVars
          /\ \/ Done(d, Refusal(d))
             \/ \E e : call' = [call EXCEPT ![d].at = "run", ![d].ran = e]
      BY <2>1, Zenon DEF Authorise
    <3>2. CASE c # d
      BY <1>1, <1>6, <3>1, <3>2 DEF Done
    <3>3. CASE c = d /\ Done(d, Refusal(d))
      BY <1>1, <1>6, <3>1, <3>3 DEF Done, Fields, RefreshGood
    <3>4. ASSUME c = d, NEW e, call' = [call EXCEPT ![d].at = "run", ![d].ran = e]
          PROVE  RefreshGood(c)'
      BY <1>1, <1>6, <3>1, <3>4 DEF Fields, RefreshGood
    <3>. QED
      BY <3>1, <3>2, <3>3, <3>4
  <2>2. CASE QueueFull(d) \/ Executed(d)
    <3>1. /\ UNCHANGED catalogVars
          /\ \/ call'[c] = call[c]
             \/ call[c].at = "run" /\ \E outcome : call'[c] = Answered(c, outcome)
      BY <1>1, <2>2 DEF QueueFull, Executed
    <3>2. ASSUME call[c].at = "run", NEW outcome, call'[c] = Answered(c, outcome)
          PROVE  call'[c].at = "done" /\ call'[c].found = None
      BY <1>1, <3>2 DEF Answered, Fields, RefreshGood
    <3>. QED
      BY <1>6, <3>1, <3>2
  <2>. QED
    BY <1>9, <2>1, <2>2
<1>10. CASE Reload \/ UNCHANGED vars
  BY <1>6, <1>10 DEF Reload, vars
<1>. QED
  BY <1>2, <1>3, <1>4, <1>5, <1>7, <1>8, <1>9, <1>10 DEF Next

\* The types a refresh answers with were in the cluster at some moment after
\* it was asked, unless its scan failed (CrdScanner.ts:245-255).
THEOREM RefreshesRecent == Spec => []RefreshIsRecent
<1>1. Init => RefreshInv
  BY DEF Init, Idle, RefreshInv, RefreshGood
<1>2. RefreshInv => RefreshIsRecent
  BY DEF RefreshInv, RefreshGood, RefreshIsRecent
<1>. QED
  BY <1>1, <1>2, CommandsGood, NextRefresh, PTL DEF Spec

\* A refresh that is not answered has a scan in flight, and it is the only one
\* that waits for it: no scan ends without answering the refresh, and none is
\* asked for while another runs (CrdScanner.ts:245-268).
RefreshersOwed ==
  \A c \in Callers : Refreshing(c) =>
    /\ scan # None
    /\ \A d \in Callers : Refreshing(d) => d = c

\* A refresh without an answer has the scan in flight to itself
\* (CrdScanner.ts:245-268).
THEOREM RefreshersAreOwed == Spec => []RefreshersOwed
<1>1. Init => RefreshersOwed
  BY DEF Init, Idle, RefreshersOwed, Refreshing
<1>2. CommandInv /\ RefreshersOwed /\ [Next]_vars => RefreshersOwed'
  <2>. SUFFICES ASSUME CommandInv, RefreshersOwed, [Next]_vars
       PROVE  RefreshersOwed'
    OBVIOUS
  <2>. USE DEF RefreshersOwed, Refreshing
  <2>1. /\ DOMAIN call = Callers
        /\ \A d \in Callers : call[d].at # "idle" => DOMAIN call[d] = Fields
    BY DEF CommandInv, CallsGood
  <2>2. CASE Scan
    <3>1. ASSUME NEW c \in Callers, call'[c].at = "scan"
          PROVE  call[c].at = "scan" /\ scan' # None
      <4>1. call[c].at # "idle" => [call[c] EXCEPT !.at = "done", !.status = 200,
                 !.found = IF scan = "kubectl" THEN None ELSE available].at = "done"
        BY <2>1 DEF Fields
      <4>. QED
        BY <2>2, <3>1, <4>1 DEF Scan
    <3>. QED
      BY <3>1
  <2>3. CASE Cluster
    <3>1. \A c \in Callers : call'[c].at = call[c].at
      BY <2>1, <2>3 DEF Cluster, Fields
    <3>2. scan # None => scan' # None
      BY <2>3 DEF Cluster, Daily, StartScan, Read, ClusterChanges
    <3>. QED
      BY <3>1, <3>2
  <2>4. CASE Restart
    BY <2>4 DEF Restart, Idle
  <2>5. ASSUME NEW c \in Callers, Refresh(c)
        PROVE  RefreshersOwed'
    BY <2>1, <2>5, ScanAssumption DEF Refresh, At, Done, StartScan, Fields
  <2>6. CASE ~(Scan \/ Cluster \/ Restart \/ \E c \in Callers : Refresh(c))
    <3>1. scan' = scan
      BY <2>6 DEF Next, Arrive, Validate, Authorise, QueueFull, Executed, CheckScope, Load,
         LoadDefaults, SaveFields, DatabaseFails, Reload, vars, catalogVars
    <3>2. \A c \in Callers : call'[c].at = "scan" => call[c].at = "scan"
      <4>1. ASSUME NEW d \in Callers, Executed(d) \/ QueueFull(d)
            PROVE  \A c \in Callers : call'[c].at = "scan" => call[c].at = "scan"
        <5>1. \A c \in Callers : \A outcome :
                call[c].at = "run" => Answered(c, outcome).at = "done"
          BY <2>1 DEF Answered, Fields
        <5>. QED
          BY <2>1, <4>1, <5>1 DEF Executed, QueueFull
      <4>2. ASSUME NEW d \in Callers, Authorise(d)
            PROVE  \A c \in Callers : call'[c].at = "scan" => call[c].at = "scan"
        <5>1. \/ Done(d, Refusal(d))
              \/ \E e : call' = [call EXCEPT ![d].at = "run", ![d].ran = e]
          BY <4>2, Zenon DEF Authorise
        <5>2. call[d].at = "scope"
          BY <4>2 DEF Authorise
        <5>. QED
          BY <2>1, <5>1, <5>2 DEF Done, Fields
      <4>3. ASSUME NEW d \in Callers, Arrive(d)
            PROVE  \A c \in Callers : call'[c].at = "scan" => call[c].at = "scan"
        BY <2>1, <4>3 DEF Arrive
      <4>4. ASSUME NEW d \in Callers,
                   \/ Validate(d) \/ CheckScope(d) \/ Load(d) \/ LoadDefaults(d)
                   \/ SaveFields(d) \/ DatabaseFails(d)
            PROVE  \A c \in Callers : call'[c].at = "scan" => call[c].at = "scan"
        <5>1. /\ call[d].at \in {"check", "work", "insert"}
              /\ \/ \E at \in {"scope", "work", "insert"} : Await(d, at)
                 \/ \E status : Done(d, status)
          BY <4>4 DEF Validate, CheckScope, Load, LoadDefaults, SaveFields, DatabaseFails, At
        <5>. QED
          BY <2>1, <5>1 DEF Await, Done, Fields
      <4>5. CASE Reload \/ UNCHANGED vars
        BY <4>5 DEF Reload, vars
      <4>. QED
        BY <2>6, <4>1, <4>2, <4>3, <4>4, <4>5 DEF Next
    <3>. QED
      BY <3>1, <3>2
  <2>. QED
    BY <2>2, <2>3, <2>4, <2>5, <2>6
<1>. QED
  BY <1>1, <1>2, CommandsGood, PTL DEF Spec

-----------------------------------------------------------------------------
(* The catalogue *)

\* A list of resources, as an earlier release left it or this one made it.
Listing(S) == \A r \in S : \E i : \E b \in BOOLEAN : r = [id |-> i, crd |-> b]

\* Every type of this release is there, and a CRD is no built-in.
CatalogueGood(S) ==
  /\ BuiltInResources \subseteq S
  /\ \A r \in S : \/ r \in BuiltInResources
                  \/ \E i : i \notin BuiltIns /\ r = [id |-> i, crd |-> TRUE]

CatalogueInv ==
  /\ CatalogueGood(available)
  /\ catalogFile \in {None, Torn} \/ Listing(catalogFile)

LEMMA ReconcileFacts ==
  ASSUME NEW S, Listing(S)
  PROVE  CatalogueGood(Reconcile(S))
<1>1. ASSUME NEW r \in S, r.crd, r.id \notin BuiltIns
      PROVE  \E i : i \notin BuiltIns /\ r = [id |-> i, crd |-> TRUE]
  <2>1. PICK i : \E b \in BOOLEAN : r = [id |-> i, crd |-> b]
    BY <1>1 DEF Listing
  <2>2. PICK b \in BOOLEAN : r = [id |-> i, crd |-> b]
    BY <2>1
  <2>3. i = r.id /\ b = r.crd
    BY <2>2
  <2>. QED
    BY <1>1, <2>2, <2>3
<1>. QED
  BY <1>1 DEF Reconcile, CatalogueGood

LEMMA BuiltInsListed == Listing(BuiltInResources)
<1>. SUFFICES ASSUME NEW r \in BuiltInResources
     PROVE  \E i : \E b \in BOOLEAN : r = [id |-> i, crd |-> b]
  BY DEF Listing
<1>. QED
  BY DEF BuiltInResources

LEMMA LoadedFacts ==
  ASSUME NEW f, f \in {None, Torn} \/ Listing(f)
  PROVE  CatalogueGood(Loaded(f))
<1>1. CASE f \in {None, Torn, {}}
  BY <1>1, BuiltInsListed, ReconcileFacts DEF Loaded
<1>2. CASE f \notin {None, Torn, {}}
  BY <1>2, ReconcileFacts DEF Loaded
<1>. QED
  BY <1>1, <1>2

\* In every state, whatever file an earlier release left, whatever CRDs the
\* cluster has and however scans, writes and restarts end, the catalogue holds
\* each type of the release and no id twice: a CRD never stands in for a
\* built-in (CrdScanner.ts:198-220).
CatalogueSound ==
  /\ BuiltIns \subseteq Ids(available)
  /\ \A r, q \in available : r.id = q.id => r = q
  /\ \A r \in available : r.id \in BuiltIns => ~r.crd

\* The list of types is sound after every scan, failure and restart
\* (CrdScanner.ts:198-220).
THEOREM CatalogueIsSound == Spec => []CatalogueSound
<1>1. OldFile \in {None, Torn} \/ Listing(OldFile)
  BY FileAssumption DEF Listing
<1>2. Init => CatalogueInv
  BY <1>1, LoadedFacts DEF Init, CatalogInit, CatalogueInv
<1>3. CatalogueInv /\ [Next]_vars => CatalogueInv'
  <2>. SUFFICES ASSUME CatalogueInv, [Next]_vars
       PROVE  CatalogueInv'
    OBVIOUS
  <2>1. CASE Restart
    BY <2>1, LoadedFacts DEF Restart, CatalogRestart, CatalogueInv
  <2>2. CASE Scanned
    <3>1. Listing({[id |-> x, crd |-> TRUE] : x \in listed \ BuiltIns})
      BY DEF Listing
    <3>. QED
      BY <2>2, <3>1, ReconcileFacts DEF Scanned, Found, CatalogueInv
  <2>3. CASE FileOpened
    BY <2>3 DEF FileOpened, CatalogueInv
  <2>4. CASE FileWritten
    <3>1. Listing(available)
      <4>. SUFFICES ASSUME NEW r \in available
           PROVE  \E i : \E b \in BOOLEAN : r = [id |-> i, crd |-> b]
        BY DEF Listing
      <4>1. CASE r \in BuiltInResources
        BY <4>1, BuiltInsListed DEF Listing
      <4>2. CASE \E i : i \notin BuiltIns /\ r = [id |-> i, crd |-> TRUE]
        BY <4>2
      <4>. QED
        BY <4>1, <4>2 DEF CatalogueInv, CatalogueGood
    <3>. QED
      BY <2>4, <3>1 DEF FileWritten, CatalogueInv
  <2>5. CASE UNCHANGED <<available, catalogFile>>
    BY <2>5 DEF CatalogueInv
  <2>. QED
    BY <2>1, <2>2, <2>3, <2>4, <2>5 DEF Next, Arrive, Validate, Authorise, QueueFull,
       Executed, CheckScope, Load, LoadDefaults, SaveFields, DatabaseFails, Refresh, Scan,
       ScanStep, ScanFailed, FileFailed, Cluster, Daily, Read, ClusterChanges, Reload, vars,
       catalogVars
<1>4. CatalogueInv => CatalogueSound
  <2>. SUFFICES ASSUME CatalogueGood(available)
       PROVE  CatalogueSound
    BY DEF CatalogueInv
  <2>1. \A b \in BuiltIns : [id |-> b, crd |-> FALSE] \in available
    BY DEF CatalogueGood, BuiltInResources
  <2>2. BuiltIns \subseteq Ids(available)
    <3>1. \A b \in BuiltIns : [id |-> b, crd |-> FALSE].id = b
      OBVIOUS
    <3>. QED
      BY <2>1, <3>1 DEF Ids
  <2>3. ASSUME NEW r \in available
        PROVE  r = [id |-> r.id, crd |-> r.id \notin BuiltIns]
    <3>1. CASE r \in BuiltInResources
      <4>1. PICK b \in BuiltIns : r = [id |-> b, crd |-> FALSE]
        BY <3>1 DEF BuiltInResources
      <4>2. r.id = b /\ (r.id \notin BuiltIns) = FALSE
        BY <4>1
      <4>. QED
        BY <4>1, <4>2
    <3>2. CASE \E i : i \notin BuiltIns /\ r = [id |-> i, crd |-> TRUE]
      <4>1. PICK i : i \notin BuiltIns /\ r = [id |-> i, crd |-> TRUE]
        BY <3>2
      <4>2. r.id = i /\ (r.id \notin BuiltIns) = TRUE
        BY <4>1
      <4>. QED
        BY <4>1, <4>2
    <3>. QED
      BY <3>1, <3>2 DEF CatalogueGood
  <2>4. \A r, q \in available : r.id = q.id => r = q
    BY <2>3
  <2>5. ASSUME NEW r \in available, r.id \in BuiltIns
        PROVE  ~r.crd
    <3>1. r.crd = (r.id \notin BuiltIns)
      BY <2>3
    <3>. QED
      BY <2>5, <3>1
  <2>. QED
    BY <2>2, <2>4, <2>5 DEF CatalogueSound
<1>. QED
  BY <1>2, <1>3, <1>4, PTL DEF Spec

-----------------------------------------------------------------------------
(* Executions that are shared *)

\* A command goes to the queue, and is answered by an execution, only if its
\* own arguments were accepted and its own caller has the scope.
Permitted(c) ==
  /\ call[c].at = "scope" => call[c].req.valid
  /\ \/ call[c].at = "run"
     \/ IsCommand(c) /\ call[c].at = "done" /\ call[c].ran # None
     => call[c].req.valid /\ ScopeFor(call[c].req) \in Grants[c]

\* Whoever waits for the execution of another waits for one that was asked
\* for the same, and that is still to end.
WaitsForOwn(c) ==
  LET d == call[c].ran IN
  call[c].at = "run" =>
    /\ d \in Callers /\ call[d].at = "run" /\ call[d].ran = d
    /\ call[d].req = call[c].req

SharedFairly == \A c \in Callers : Permitted(c) /\ WaitsForOwn(c)

\* Calls that are not at the queue go on elsewhere.
LEMMA WaitsStay ==
  ASSUME SharedFairly,
         \A c \in Callers :
           \/ call'[c] = call[c]
           \/ call[c].at # "run" /\ call'[c].at # "run"
  PROVE  \A c \in Callers : WaitsForOwn(c)'
BY DEF SharedFairly, WaitsForOwn

LEMMA PermitStays ==
  ASSUME NEW c \in Callers, Permitted(c), call'[c] = call[c]
  PROVE  Permitted(c)'
BY DEF Permitted, IsCommand

\* A call that is checked, or that never was a command, goes on or ends.
LEMMA MoveShares ==
  ASSUME CommandInv, SharedFairly, NEW c \in Callers, NEW at, NEW status,
         call[c].at \in {"check", "scope", "work", "insert"},
         at \in {"scope", "work", "insert", "done"},
         Await(c, at) \/ (at = "done" /\ Done(c, status)),
         at = "scope" => call[c].req.valid
  PROVE  SharedFairly'
<1>1. /\ DOMAIN call' = Callers
      /\ \A d \in Callers \ {c} : call'[d] = call[d]
      /\ DOMAIN call[c] = Fields
      /\ call'[c].at = at /\ call'[c].req = call[c].req /\ call'[c].ran = call[c].ran
  BY DEF CommandInv, CallsGood, Await, Done, Fields
<1>2. IsCommand(c) => call[c].ran = None
  BY DEF CommandInv, CallsGood, CommandGood
<1>3. Permitted(c)'
  BY <1>1, <1>2 DEF Permitted, IsCommand
<1>4. \A d \in Callers \ {c} : Permitted(d)'
  BY <1>1, PermitStays DEF SharedFairly
<1>5. \A d \in Callers : WaitsForOwn(d)'
  BY <1>1, WaitsStay
<1>. QED
  BY <1>3, <1>4, <1>5 DEF SharedFairly

\* What has a key is its own key, so whoever shares asked for the same.
LEMMA AuthoriseShares ==
  ASSUME CommandInv, SharedFairly, NEW c \in Callers, Authorise(c)
  PROVE  SharedFairly'
<1>. DEFINE r == call[c].req
            same == {d \in Callers : /\ call[d].at = "run" /\ call[d].ran = d
                                     /\ DedupKeyFor(r) # None
                                     /\ DedupKeyFor(call[d].req) = DedupKeyFor(r)}
<1>1. call[c].at = "scope" /\ IsCommand(c) /\ DOMAIN call[c] = Fields /\ DOMAIN call = Callers
  BY DEF Authorise, CommandInv, CallsGood
<1>2. CASE Refusal(c) # 0
  <2>1. Done(c, Refusal(c))
    BY <1>2 DEF Authorise
  <2>. QED
    BY <1>1, <2>1, MoveShares
<1>3. CASE Refusal(c) = 0
  <2>1. r.valid
    BY <1>1 DEF SharedFairly, Permitted
  <2>2. ScopeFor(r) \in Grants[c]
    BY <1>3 DEF Refusal
  <2>3. \E d \in IF same = {} THEN {c} ELSE same :
          call' = [call EXCEPT ![c].at = "run", ![c].ran = d]
    BY <1>3, Zenon DEF Authorise
  <2>4. PICK d \in Callers :
          /\ call' = [call EXCEPT ![c].at = "run", ![c].ran = d]
          /\ d = c \/ d \in same
    BY <2>3
  <2>5. /\ \A e \in Callers \ {c} : call'[e] = call[e]
        /\ call'[c].at = "run" /\ call'[c].ran = d /\ call'[c].req = r
    BY <1>1, <2>4 DEF Fields
  <2>6. Permitted(c)'
    BY <2>1, <2>2, <2>5 DEF Permitted
  <2>7. \A e \in Callers \ {c} : Permitted(e)'
    BY <2>5, PermitStays DEF SharedFairly
  <2>8. WaitsForOwn(c)'
    <3>1. CASE d = c
      BY <2>5, <3>1 DEF WaitsForOwn
    <3>2. CASE d \in same /\ d # c
      <4>1. call[d].req = r
        BY <3>2 DEF DedupKeyFor
      <4>. QED
        BY <2>5, <3>2, <4>1 DEF WaitsForOwn
    <3>. QED
      BY <2>4, <3>1, <3>2
  <2>9. \A e \in Callers \ {c} : WaitsForOwn(e)'
    BY <1>1, <2>5 DEF SharedFairly, WaitsForOwn
  <2>. QED
    BY <2>6, <2>7, <2>8, <2>9 DEF SharedFairly
<1>. QED
  BY <1>2, <1>3

\* An execution that ends answers all who wait for it.
LEMMA EndShares ==
  ASSUME CommandInv, SharedFairly, NEW outcome, NEW c \in Callers,
         call[c].at = "run", call[c].ran = c,
         call' = [d \in Callers |->
                    IF call[d].at = "run" /\ call[d].ran = c
                    THEN Answered(d, outcome) ELSE call[d]]
  PROVE  SharedFairly'
<1>. DEFINE D == {d \in Callers : call[d].at = "run" /\ call[d].ran = c}
<1>1. \A d \in D : /\ call'[d].at = "done" /\ call'[d].req = call[d].req
                   /\ call'[d].ran = call[d].ran
  BY DEF CommandInv, CallsGood, Answered, Fields
<1>2. \A d \in Callers \ D : call'[d] = call[d]
  OBVIOUS
<1>3. \A d \in D : call[d].req.valid /\ ScopeFor(call[d].req) \in Grants[d]
  BY DEF SharedFairly, Permitted
<1>4. \A d \in D : Permitted(d)'
  BY <1>1, <1>3 DEF Permitted
<1>5. \A d \in Callers \ D : Permitted(d)'
  BY <1>2, PermitStays DEF SharedFairly
<1>6. \A d \in Callers : WaitsForOwn(d)'
  BY <1>1, <1>2 DEF SharedFairly, WaitsForOwn
<1>. QED
  BY <1>4, <1>5, <1>6 DEF SharedFairly

LEMMA NextShares == CommandInv /\ SharedFairly /\ [Next]_vars => SharedFairly'
<1>. SUFFICES ASSUME CommandInv, SharedFairly, [Next]_vars
     PROVE  SharedFairly'
  OBVIOUS
<1>1. ASSUME NEW c \in Callers, Arrive(c)
      PROVE  SharedFairly'
  <2>1. /\ \A d \in Callers \ {c} : call'[d] = call[d]
        /\ call[c].at # "run" /\ call'[c].at \in {"check", "done"} /\ call'[c].ran = None
    BY <1>1 DEF Arrive, CommandInv, CallsGood
  <2>2. Permitted(c)'
    BY <2>1 DEF Permitted
  <2>3. \A d \in Callers \ {c} : Permitted(d)'
    BY <2>1, PermitStays DEF SharedFairly
  <2>4. \A d \in Callers : WaitsForOwn(d)'
    BY <2>1, WaitsStay
  <2>. QED
    BY <2>2, <2>3, <2>4 DEF SharedFairly
<1>2. ASSUME NEW c \in Callers, Validate(c) \/ CheckScope(c)
      PROVE  SharedFairly'
  <2>1. /\ call[c].at = "check"
        /\ \/ Await(c, "scope") /\ call[c].req.valid
           \/ Await(c, "work")
           \/ \E status : Done(c, status)
    BY <1>2 DEF Validate, CheckScope, ValidArgs
  <2>. QED
    BY <2>1, MoveShares
<1>3. ASSUME NEW c \in Callers, Authorise(c)
      PROVE  SharedFairly'
  BY <1>3, AuthoriseShares
<1>4. ASSUME NEW c \in Callers, QueueFull(c)
      PROVE  SharedFairly'
  <2>1. /\ call[c].at = "run" /\ call[c].ran = c
        /\ \A d \in Callers : call[d].at = "run" /\ call[d].ran = c <=> d = c
        /\ call' = [call EXCEPT ![c] = Answered(c, "queue_full")]
    BY <1>4 DEF QueueFull
  <2>2. \E outcome :
          call' = [d \in Callers |->
                     IF call[d].at = "run" /\ call[d].ran = c
                     THEN Answered(d, outcome) ELSE call[d]]
    <3>1. call' = [d \in Callers |->
                     IF call[d].at = "run" /\ call[d].ran = c
                     THEN Answered(d, "queue_full") ELSE call[d]]
      BY <2>1 DEF CommandInv, CallsGood
    <3>. QED
      BY <3>1
  <2>. QED
    BY <2>1, <2>2, EndShares, ZenonT(40)
<1>5. ASSUME NEW c \in Callers, Executed(c)
      PROVE  SharedFairly'
  BY <1>5, EndShares, SMTT(30) DEF Executed
<1>6. ASSUME NEW c \in Callers, Load(c) \/ LoadDefaults(c) \/ SaveFields(c) \/ DatabaseFails(c)
      PROVE  SharedFairly'
  <2>1. /\ call[c].at \in {"work", "insert"}
        /\ Await(c, "insert") \/ \E status : Done(c, status)
    BY <1>6 DEF Load, LoadDefaults, SaveFields, DatabaseFails, At
  <2>. QED
    BY <2>1, MoveShares
<1>7. CASE Scan \/ Cluster \/ \E c \in Callers : Refresh(c)
  <2>1. \A c \in Callers :
          \/ call'[c] = call[c]
          \/ /\ call[c].at \in {"work", "scan"}
             /\ call'[c].at \in {"scan", "done"} /\ call'[c].req = call[c].req
    <3>. USE DEF CommandInv, CallsGood, Fields
    <3>1. CASE Scan
      BY <3>1, ZenonT(40) DEF Scan, Refreshing
    <3>2. CASE Cluster
      BY <3>2 DEF Cluster, Refreshing
    <3>3. ASSUME NEW d \in Callers, Refresh(d)
          PROVE  \A c \in Callers :
                   \/ call'[c] = call[c]
                   \/ /\ call[c].at \in {"work", "scan"}
                      /\ call'[c].at \in {"scan", "done"} /\ call'[c].req = call[c].req
      BY <3>3 DEF Refresh, Done, At
    <3>. QED
      BY <1>7, <3>1, <3>2, <3>3
  <2>2. \A c \in Callers : WaitsForOwn(c)'
    BY <2>1, WaitsStay
  <2>3. ASSUME NEW c \in Callers
        PROVE  Permitted(c)'
    <3>1. CASE call'[c] = call[c]
      BY <3>1, PermitStays DEF SharedFairly
    <3>2. CASE /\ call[c].at \in {"work", "scan"}
               /\ call'[c].at \in {"scan", "done"} /\ call'[c].req = call[c].req
      BY <3>2 DEF Permitted, IsCommand, CommandInv, CallsGood
    <3>. QED
      BY <2>1, <3>1, <3>2
  <2>. QED
    BY <2>2, <2>3 DEF SharedFairly
<1>8. CASE Restart
  BY <1>8 DEF Restart, Idle, SharedFairly, Permitted, WaitsForOwn, IsCommand
<1>9. CASE Reload \/ UNCHANGED vars
  <2>1. call' = call
    BY <1>9 DEF Reload, vars
  <2>. QED
    BY <2>1, PermitStays, WaitsStay DEF SharedFairly
<1>. QED
  BY <1>1, <1>2, <1>3, <1>4, <1>5, <1>6, <1>7, <1>8, <1>9 DEF Next

\* Sharing answers nobody with what they did not ask, or were not allowed, to
\* know, and leaves nobody without an execution that will answer
\* (KubeCtlCommandRoutes.ts:126-166, RequestQueue.ts:81-94).
THEOREM ExecutionsSharedFairly == Spec => []SharedFairly
<1>1. Init => SharedFairly
  BY DEF Init, Idle, SharedFairly, Permitted, WaitsForOwn, IsCommand
<1>. QED
  BY <1>1, NextShares, CommandsGood, PTL DEF Spec
=============================================================================
