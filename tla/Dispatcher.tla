----------------------------- MODULE Dispatcher -----------------------------
(***************************************************************************)
(* What the request queue promises the parts of the server that run        *)
(* kubectl through it, without its queue, map, counter and timers:         *)
(*   - commands with the same key share one execution, from the moment the *)
(*     first of them is accepted until its process is gone;                *)
(*   - nothing is started above the limit;                                 *)
(*   - each execution is answered once, and one that was answered before   *)
(*     it started never starts;                                            *)
(*   - an execution gives its place back only once it has been answered.   *)
(* In which order the waiting executions start, when one is given up and   *)
(* when a command is turned away is left open.                             *)
(***************************************************************************)
EXTENDS Naturals, FiniteSets

CONSTANTS Calls, Keys, NoKey, NoItem, Limits

VARIABLES
  limit,   \* how many executions may be started
  keyOf,   \* keyOf[c]: the key of command c
  item,    \* item[c]: the execution whose answer command c gets
  stage,   \* stage[c]: "new", "refused", "joined", "waiting", "running", "over"
  answer   \* answer[c]: "pending" until execution c is answered

vars == <<limit, keyOf, item, stage, answer>>

Running == {c \in Calls : stage[c] = "running"}
Waiting == {c \in Calls : stage[c] = "waiting"}

Init ==
  /\ limit \in Limits
  /\ keyOf = [c \in Calls |-> NoKey]
  /\ item = [c \in Calls |-> NoItem]
  /\ stage = [c \in Calls |-> "new"]
  /\ answer = [c \in Calls |-> "pending"]

\* Whatever changes the places taken also starts some of the waiting
\* executions and gives up others.
Dispatch(gone, came) ==
  \E begin \in SUBSET (Waiting \cup came) :
  \E late \in SUBSET ((Waiting \cup came) \ begin) :
    /\ begin # {} => Cardinality((Running \ gone) \cup begin) <= limit'
    /\ stage' = [c \in Calls |->
          IF c \in begin THEN "running"
          ELSE IF c \in late \cup gone THEN "over"
          ELSE IF c \in came THEN "waiting"
          ELSE stage[c]]
    /\ answer' = [c \in Calls |-> IF c \in late THEN "timedOut" ELSE answer[c]]

Share(c, k, i) ==
  /\ stage[c] = "new"
  /\ k # NoKey /\ keyOf[i] = k /\ i \in Running \cup Waiting
  /\ keyOf' = [keyOf EXCEPT ![c] = k]
  /\ item' = [item EXCEPT ![c] = i]
  /\ stage' = [stage EXCEPT ![c] = "joined"]
  /\ UNCHANGED <<limit, answer>>

Refuse(c, k) ==
  /\ stage[c] = "new"
  /\ Cardinality(Running) >= limit
  /\ keyOf' = [keyOf EXCEPT ![c] = k]
  /\ stage' = [stage EXCEPT ![c] = "refused"]
  /\ UNCHANGED <<limit, item, answer>>

Accept(c, k) ==
  /\ stage[c] = "new"
  /\ k = NoKey \/ \A i \in Running \cup Waiting : keyOf[i] # k
  /\ keyOf' = [keyOf EXCEPT ![c] = k]
  /\ item' = [item EXCEPT ![c] = c]
  /\ UNCHANGED limit
  /\ Dispatch({}, {c})

Answer(c, o) ==
  /\ stage[c] = "running"
  /\ answer[c] = "pending"
  /\ answer' = [answer EXCEPT ![c] = o]
  /\ UNCHANGED <<limit, keyOf, item, stage>>

Leave(c) ==
  /\ stage[c] = "running"
  /\ answer[c] # "pending"
  /\ UNCHANGED <<limit, keyOf, item>>
  /\ Dispatch({c}, {})

GiveUp ==
  /\ UNCHANGED <<limit, keyOf, item>>
  /\ Dispatch({}, {})

SetLimit(n) ==
  /\ limit' = n
  /\ UNCHANGED <<keyOf, item>>
  /\ Dispatch({}, {})

Next ==
  \/ \E c \in Calls, k \in Keys \cup {NoKey} :
        \/ \E i \in Calls : Share(c, k, i)
        \/ Refuse(c, k)
        \/ Accept(c, k)
  \/ \E c \in Calls, o \in {"resolved", "failed", "timedOut"} : Answer(c, o)
  \/ \E c \in Calls : Leave(c)
  \/ GiveUp
  \/ \E n \in Limits : SetLimit(n)

Spec == Init /\ [][Next]_vars
=============================================================================
