---------------------------- MODULE RequestQueue ----------------------------
(***************************************************************************)
(* The bounded, deduplicating request queue in front of kubectl            *)
(* (server/src/queue/RequestQueue.ts).                                     *)
(*                                                                         *)
(* A call of execute() is refused (429), joins the promise of a call with  *)
(* the same key, or becomes a queue item named after the call.  An item    *)
(* waits, runs in one of maxConcurrency slots and leaves.  Its promise is  *)
(* settled by the child's exit or by its deadline, whichever comes first;  *)
(* its slot and its key are given back by the .finally() callback alone,   *)
(* so an item whose deadline passed while it ran keeps both until its      *)
(* child exits.                                                            *)
(*                                                                         *)
(* One action is one run of JavaScript to completion: the handlers below   *)
(* are never interleaved inside, but the .then()/.catch() callback of an   *)
(* item and its .finally() callback are separate microtasks, and a caller  *)
(* woken by the first may call execute() before the second has run.        *)
(***************************************************************************)
EXTENDS Naturals, Integers, Sequences, FiniteSets, SequencesExt

CONSTANTS
  Calls,             \* the calls of execute()
  Keys,              \* the deduplication keys ("get:pods", "logs:<hash>")
  NoKey,             \* the null key of commands that are never shared
  NoCall,            \* "no entry" in the map of active requests
  MaxQueueLength,    \* cap on the waiting items
  ConcurrencyLevels  \* values maxConcurrency can take

ASSUME CallsAssumption == NoCall \notin Calls
ASSUME KeysAssumption  == NoKey \notin Keys
\* A cap of 0 makes execute() refuse every call, also when nothing runs.
ASSUME CapAssumption   == MaxQueueLength \in Nat \ {0}
ASSUME LevelAssumption == ConcurrencyLevels \subseteq Nat \ {0}

VARIABLES
  maxConcurrency,
  queue,        \* items waiting for a slot, oldest first
  active,       \* active[k]: the item that runs under key k, or NoCall
  activeCount,  \* number of slots taken
  key,          \* key[c]: the key call c was made with
  phase,        \* phase[c]: where call c is in its life
  promise,      \* promise[c]: the item whose promise call c was given
  outcome,      \* outcome[c]: how item c's promise was settled
  due           \* items with deadlineAt <= Date.now()

vars == <<maxConcurrency, queue, active, activeCount, key, phase, promise,
          outcome, due>>

(***************************************************************************)
(* "running": the child is alive; "aborted": it was told to stop but has   *)
(* not exited; "exited": .then()/.catch() ran and .finally() has not.      *)
(***************************************************************************)
Phases == {"idle", "refused", "joined", "queued", "running", "aborted",
           "exited", "done"}
SlotPhases == {"running", "aborted", "exited"}
Outcomes == {"pending", "resolved", "failed", "timedOut"}

Holders == {c \in Calls : phase[c] \in SlotPhases}
Settled(c) == outcome[c] # "pending"

(***************************************************************************)
(* Timers and the exit of a child are macrotasks: they run only once the   *)
(* microtasks of the previous one, every pending .finally() included, have *)
(* been drained.                                                           *)
(***************************************************************************)
MicrotasksDrained == \A c \in Calls : phase[c] # "exited"

TypeOK ==
  /\ maxConcurrency \in ConcurrencyLevels
  /\ queue \in Seq(Calls)
  /\ active \in [Keys -> Calls \cup {NoCall}]
  /\ activeCount \in Nat
  /\ key \in [Calls -> Keys \cup {NoKey}]
  /\ phase \in [Calls -> Phases]
  /\ promise \in [Calls -> Calls \cup {NoCall}]
  /\ outcome \in [Calls -> Outcomes]
  /\ due \in SUBSET Calls

Init ==
  /\ maxConcurrency \in ConcurrencyLevels
  /\ queue = <<>>
  /\ active = [k \in Keys |-> NoCall]
  /\ activeCount = 0
  /\ key = [c \in Calls |-> NoKey]
  /\ phase = [c \in Calls |-> "idle"]
  /\ promise = [c \in Calls |-> NoCall]
  /\ outcome = [c \in Calls |-> "pending"]
  /\ due = {}

-----------------------------------------------------------------------------
(***************************************************************************)
(* processQueue() and executeItem().                                       *)
(*                                                                         *)
(* The loop shifts items while a slot is free.  An item whose deadline has *)
(* passed is settled on the spot and takes no slot, so the items shifted   *)
(* are the shortest prefix q[1..p] with as many runnable items as there    *)
(* are free slots, or all of q.  The arguments are the values the caller   *)
(* has already changed; keys and limit are those the step ends with.       *)
(***************************************************************************)
\* Mutant of Runnable: the deadline is not looked at.
RunnableIfUnsettled(c, out) == out[c] = "pending"
Runnable(c, out) == out[c] = "pending" /\ c \notin due

StartsAt(q, p, out) == {x \in 1..p : Runnable(q[x], out)}

\* Mutants of IsDrain: one item too many, and a dropped item costing a slot.
DrainOneTooMany(q, p, free, out) ==
  /\ p \in 0..Len(q)
  /\ \A r \in 0..(p-1) : Cardinality(StartsAt(q, r, out)) <= free
  /\ p = Len(q) \/ Cardinality(StartsAt(q, p, out)) > free
DrainCountsDropped(q, p, free, out) ==
  p = IF free <= 0 THEN 0 ELSE IF free < Len(q) THEN free ELSE Len(q)

IsDrain(q, p, free, out) ==
  /\ p \in 0..Len(q)
  /\ \A r \in 0..(p-1) : Cardinality(StartsAt(q, r, out)) < free
  /\ p = Len(q) \/ Cardinality(StartsAt(q, p, out)) >= free

\* The first p items leave the queue: the runnable ones start, in their order
\* (of two with one key the later entry of the map stays), the rest are dropped.
Shift(q, p, map, n, ph, out) ==
  LET starts   == StartsAt(q, p, out)
      started  == {q[x] : x \in starts}
      dropped  == {q[x] : x \in (1..p) \ starts}
      under(k) == {x \in starts : key'[q[x]] = k}
  IN /\ queue' = SubSeq(q, p + 1, Len(q))
     /\ activeCount' = n + Cardinality(starts)
     /\ active' = [k \in Keys |->
           IF under(k) = {} THEN map[k]
           ELSE q[CHOOSE x \in under(k) : \A y \in under(k) : y <= x]]
     /\ phase' = [c \in Calls |->
           IF c \in started THEN "running"
           ELSE IF c \in dropped THEN "done" ELSE ph[c]]
     /\ outcome' = [c \in Calls |->
           IF c \in dropped /\ out[c] = "pending" THEN "timedOut" ELSE out[c]]

ProcessQueue(q, map, n, ph, out) ==
  \E p \in 0..Len(q) :
    /\ IsDrain(q, p, maxConcurrency' - n, out)
    /\ Shift(q, p, map, n, ph, out)

-----------------------------------------------------------------------------
(* execute(): one action per way out of it.                                *)

\* Mutants: a timed-out execution is not shared, a waiting one is not shared.
ActiveUnsettledWith(k) ==
  k \in Keys /\ active[k] # NoCall /\ ~Settled(active[k])
NoneQueuedWith(k) == {x \in {} : key[queue[x]] = k}

\* The item a call with key k shares: the active one, otherwise the first that
\* waits.
ActiveWith(k) == k \in Keys /\ active[k] # NoCall
QueuedWith(k) == {x \in DOMAIN queue : k \in Keys /\ key[queue[x]] = k}

Join(c, k, i) ==
  /\ key' = [key EXCEPT ![c] = k]
  /\ phase' = [phase EXCEPT ![c] = "joined"]
  /\ promise' = [promise EXCEPT ![c] = i]
  /\ UNCHANGED <<maxConcurrency, queue, active, activeCount, outcome, due>>

JoinActive(c, k) ==
  /\ phase[c] = "idle"
  /\ ActiveWith(k)
  /\ Join(c, k, active[k])

JoinQueued(c, k) ==
  /\ phase[c] = "idle"
  /\ ~ActiveWith(k)
  /\ \E x \in QueuedWith(k) :
        /\ \A y \in QueuedWith(k) : x <= y
        /\ Join(c, k, queue[x])

\* Mutant of QueueFull: one too many let in.
FullOneLate == Len(queue) > MaxQueueLength

QueueFull == Len(queue) >= MaxQueueLength

Refuse(c, k) ==
  /\ phase[c] = "idle"
  /\ ~ActiveWith(k) /\ QueuedWith(k) = {}
  /\ QueueFull
  /\ key' = [key EXCEPT ![c] = k]
  /\ phase' = [phase EXCEPT ![c] = "refused"]
  /\ UNCHANGED <<maxConcurrency, queue, active, activeCount, promise, outcome,
                 due>>

\* Mutant of Push: the newest first.
Unshift(q, c) == <<c>> \o q
Push(q, c) == Append(q, c)

\* The item is pushed and the queue is processed in the same call.
Enqueue(c, k) ==
  /\ phase[c] = "idle"
  /\ ~ActiveWith(k) /\ QueuedWith(k) = {}
  /\ ~QueueFull
  /\ key' = [key EXCEPT ![c] = k]
  /\ promise' = [promise EXCEPT ![c] = c]
  /\ UNCHANGED <<maxConcurrency, due>>
  /\ ProcessQueue(Push(queue, c), active, activeCount,
                  [phase EXCEPT ![c] = "queued"], outcome)

Execute(c, k) ==
  JoinActive(c, k) \/ JoinQueued(c, k) \/ Refuse(c, k) \/ Enqueue(c, k)

-----------------------------------------------------------------------------
(* The child, the clock and the timers.                                    *)

\* Mutant of Settle: the late answer of the child wins.
SettleAgain(c, o) == [outcome EXCEPT ![c] = o]
Settle(c, o) == IF Settled(c) THEN outcome ELSE [outcome EXCEPT ![c] = o]

\* Mutant of ChildExit: the exit of an aborted child goes unnoticed.
ChildExitUnlessAborted(c, o) ==
  /\ phase[c] = "running"
  /\ MicrotasksDrained
  /\ phase' = [phase EXCEPT ![c] = "exited"]
  /\ outcome' = Settle(c, o)
  /\ UNCHANGED <<maxConcurrency, queue, active, activeCount, key, promise, due>>

\* .then()/.catch(): the child has exited; its result settles the promise
\* unless the deadline already did.
ChildExit(c, o) ==
  /\ phase[c] \in {"running", "aborted"}
  /\ MicrotasksDrained
  /\ phase' = [phase EXCEPT ![c] = "exited"]
  /\ outcome' = Settle(c, o)
  /\ UNCHANGED <<maxConcurrency, queue, active, activeCount, key, promise, due>>

\* Mutant of ReleaseKey: the key stays in the map.
KeepKey(c) == active
ReleaseKey(c) == [k \in Keys |-> IF k = key[c] THEN NoCall ELSE active[k]]

\* .finally(): the slot and the key are free again.
Finally(c) ==
  /\ phase[c] = "exited"
  /\ UNCHANGED <<maxConcurrency, key, promise, due>>
  /\ ProcessQueue(queue, ReleaseKey(c), activeCount - 1,
                  [phase EXCEPT ![c] = "done"], outcome)

\* Mutant of Expire: the deadline is counted from the start of the child.
ExpireRunning(c) ==
  /\ phase[c] = "running"
  /\ c \notin due
  /\ due' = due \cup {c}
  /\ UNCHANGED <<maxConcurrency, queue, active, activeCount, key, phase,
                 promise, outcome>>

\* The clock reaches an item's deadline; its timer fires later.
Expire(c) ==
  /\ phase[c] \in {"queued", "running"}
  /\ c \notin due
  /\ due' = due \cup {c}
  /\ UNCHANGED <<maxConcurrency, queue, active, activeCount, key, phase,
                 promise, outcome>>

\* handleItemTimeout() of an item that still waits: dropped without running.
TimeoutQueued(c) ==
  /\ c \in due /\ ~Settled(c)
  /\ MicrotasksDrained
  /\ UNCHANGED <<maxConcurrency, key, promise, due>>
  /\ \E x \in DOMAIN queue :
        /\ queue[x] = c
        /\ ProcessQueue(RemoveAt(queue, x), active, activeCount,
                        [phase EXCEPT ![c] = "done"],
                        [outcome EXCEPT ![c] = "timedOut"])

\* Mutant of TimeoutRunning: the timeout already gives the slot back.
TimeoutRunningFrees(c) ==
  /\ c \in due /\ ~Settled(c)
  /\ MicrotasksDrained
  /\ phase[c] = "running"
  /\ phase' = [phase EXCEPT ![c] = "aborted"]
  /\ outcome' = [outcome EXCEPT ![c] = "timedOut"]
  /\ activeCount' = activeCount - 1
  /\ UNCHANGED <<maxConcurrency, queue, active, key, promise, due>>

\* handleItemTimeout() of an item that runs: its child is told to stop and
\* its promise is rejected now; the slot and the key stay taken.
TimeoutRunning(c) ==
  /\ c \in due /\ ~Settled(c)
  /\ MicrotasksDrained
  /\ phase[c] = "running"
  /\ phase' = [phase EXCEPT ![c] = "aborted"]
  /\ outcome' = [outcome EXCEPT ![c] = "timedOut"]
  /\ UNCHANGED <<maxConcurrency, queue, active, activeCount, key, promise, due>>

\* Lowering the limit stops nothing that runs.
SetMaxConcurrency(n) ==
  /\ n # maxConcurrency
  /\ maxConcurrency' = n
  /\ UNCHANGED <<key, promise, due>>
  /\ ProcessQueue(queue, active, activeCount, phase, outcome)

-----------------------------------------------------------------------------
Next ==
  \/ \E c \in Calls, k \in Keys \cup {NoKey} : Execute(c, k)
  \/ \E c \in Calls, o \in {"resolved", "failed"} : ChildExit(c, o)
  \/ \E c \in Calls : Finally(c)
  \/ \E c \in Calls : Expire(c)
  \/ \E c \in Calls : TimeoutQueued(c)
  \/ \E c \in Calls : TimeoutRunning(c)
  \/ \E n \in ConcurrencyLevels : SetMaxConcurrency(n)

(***************************************************************************)
(* The clock moves, timers fire and microtasks run.  Nothing is assumed of *)
(* the children: kubectl may hang, and may ignore SIGTERM.                 *)
(***************************************************************************)
Fairness ==
  \A c \in Calls :
    /\ WF_vars(Expire(c))
    /\ WF_vars(TimeoutQueued(c))
    /\ WF_vars(TimeoutRunning(c))
    /\ WF_vars(Finally(c))

Spec == Init /\ [][Next]_vars
FairSpec == Spec /\ Fairness

-----------------------------------------------------------------------------
(* Correctness.                                                            *)

Waiting(c) == phase[c] = "queued"
Alive(c)   == Waiting(c) \/ c \in Holders
Started(c) == c \notin Holders /\ c \in Holders'

\* A key has at most one execution: waiting, running, or timed out with a
\* child that has not exited.  Deduplication looks at `active` and `queue`
\* (lines 82-93) at one moment, the item moves between them at another.
SingleFlight ==
  \A c, d \in Calls :
    Alive(c) /\ Alive(d) /\ key[c] = key[d] /\ key[c] # NoKey => c = d

\* The counter and the map kept by executeItem() and .finally() (lines 164-174,
\* 193-197) say exactly who holds a slot: no slot leaks on a timeout, an error
\* or a call made between the two microtasks, and none is given back twice.
SlotAccounting ==
  /\ activeCount = Cardinality(Holders)
  /\ \A k \in Keys, c \in Calls :
        active[k] = c <=> c \in Holders /\ key[c] = k

\* The queue holds each waiting call once, none that has been answered, and
\* never more than its cap: a timeout removes its item (lines 210-216).
QueueIsTheWaiting ==
  /\ Len(queue) <= MaxQueueLength
  /\ {queue[x] : x \in DOMAIN queue} = {c \in Calls : Waiting(c)}
  /\ \A x, y \in DOMAIN queue : queue[x] = queue[y] => x = y
  /\ \A c \in Calls : Waiting(c) => ~Settled(c)

\* No slot is left free while something waits: every step that frees a slot
\* or drops an item runs processQueue() (lines 140, 198, 215, 254).
WorkConserving == queue # <<>> => activeCount >= maxConcurrency

\* A settled promise keeps its outcome: the deadline and the late answer of the
\* child race for it (lines 179, 186, 203) and the loser changes nothing.
SettleOnce ==
  [][\A c \in Calls : Settled(c) => outcome'[c] = outcome[c]]_vars

\* A command whose deadline has passed, or whose caller has been answered, is
\* never run, even when the event loop reaches it before its timer does
\* (lines 153-160): a delete nobody waits for any more must not execute.
LateNeverStarts ==
  [][\A c \in Calls : Started(c) => c \notin due' /\ outcome'[c] = "pending"]_vars

\* A step that starts something ends within the concurrency limit, also when
\* the limit has just been lowered below the number that runs (line 146).
StartsWithinLimit ==
  [][(\E c \in Calls : Started(c)) => activeCount' <= maxConcurrency']_vars

\* First come, first served: nothing overtakes a call that waits and goes on
\* waiting.  What stands behind it, and what is called later, neither starts
\* nor gets ahead of it (lines 139, 147, 212).
Ahead(a, b) ==
  \E x, y \in DOMAIN queue : x < y /\ queue[x] = a /\ queue[y] = b
FirstComeFirstServed ==
  [][\A a, b \in Calls :
       /\ Ahead(a, b) \/ (Waiting(a) /\ phase[b] = "idle")
       /\ Waiting(a)'
       => ~Started(b) /\ (Waiting(b)' => Ahead(a, b)')]_vars

\* A call that is deduplicated gets the promise of an execution that still
\* holds its place, never of one that is over: its answer cannot predate the
\* previous answer for the key.
JoinsLiveItem ==
  [][\A c \in Calls : phase[c] = "idle" /\ phase'[c] = "joined" =>
       /\ promise[promise'[c]] = promise'[c]
       /\ Alive(promise'[c])]_vars

\* Every caller is answered, whatever the children do: the deadline is counted
\* from the moment the call is made (lines 132-137).
Answered(c) ==
  phase[c] = "refused" \/ (promise[c] # NoCall /\ Settled(promise[c]))
EveryCallAnswered ==
  \A c \in Calls : phase[c] # "idle" ~> Answered(c)

\* If children exit in the end, every slot comes back and nothing waits
\* forever, timed-out items included.
ChildrenExit ==
  \A c \in Calls : WF_vars(\E o \in {"resolved", "failed"} : ChildExit(c, o))
SlotsReturned ==
  ChildrenExit => \A c \in Calls : Alive(c) ~> phase[c] = "done"

-----------------------------------------------------------------------------
\* The queue, the map, the counter and the timers together behave as the
\* single-flight dispatcher its callers rely on (lines 71-234).
stage == [c \in Calls |->
  IF phase[c] = "idle" THEN "new"
  ELSE IF phase[c] = "queued" THEN "waiting"
  ELSE IF phase[c] \in SlotPhases THEN "running"
  ELSE IF phase[c] = "done" THEN "over"
  ELSE phase[c]]

Abstract == INSTANCE Dispatcher WITH
  NoItem <- NoCall, Limits <- ConcurrencyLevels, limit <- maxConcurrency,
  keyOf <- key, item <- promise, answer <- outcome

ImplementsDispatcher == Abstract!Spec
=============================================================================
