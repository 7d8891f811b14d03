----------------------------- MODULE CacheCell -----------------------------
(***************************************************************************)
(* What the file cache promises the routes for one resource type, without  *)
(* its files: a cell that holds the entry of one set() call, or nothing.   *)
(* The cell outlives the process.  Only a set() that is under way changes  *)
(* its entry, clear() and the startup purge empty it or leave it alone,    *)
(* and get() answers with what it holds or with a miss.  Calls of set()    *)
(* that overlap may in addition lose the entry, or leave a blend of        *)
(* several that none of them wrote, which get() takes for an entry.  As    *)
(* long as none overlap the routes see an entry or a miss, nothing else.   *)
(***************************************************************************)
CONSTANTS Sets, Gets, Clears, Old, Miss, Blend, Pending

VARIABLES
  cell,      \* the entry that is stored, Miss or Blend
  setting,   \* calls of set() under way
  crowd,     \* calls of set() that overlapped another
  cleared,   \* calls of clear() that are over
  answer,    \* answer[g]: what get() call g returned
  up         \* the process serves requests

vars == <<cell, setting, crowd, cleared, answer, up>>

Init ==
  /\ cell \in {Old, Miss}
  /\ setting = {} /\ crowd = {} /\ cleared = {}
  /\ answer = [g \in Gets |-> Pending]
  /\ up = FALSE

Begin(w) ==
  /\ up
  /\ setting' = setting \cup {w}
  /\ crowd' = IF setting = {} THEN crowd ELSE crowd \cup setting'
  /\ UNCHANGED <<cell, cleared, answer, up>>

\* The entry of a call under way is stored; the step may end a call.
Put ==
  /\ cell' \in setting
  /\ \E w \in setting : setting' \in {setting, setting \ {w}}
  /\ UNCHANGED <<crowd, cleared, answer, up>>

Lose ==
  /\ crowd # {} /\ setting # {}
  /\ cell' \in {Miss, Blend}
  /\ \E w \in setting : setting' \in {setting, setting \ {w}}
  /\ UNCHANGED <<crowd, cleared, answer, up>>

Finish(w) ==
  /\ setting' = setting \ {w}
  /\ UNCHANGED <<cell, crowd, cleared, answer, up>>

\* Returns in any case, also if the entry could not be removed.
Clear(d) ==
  /\ up
  /\ cell' \in {Miss, cell}
  /\ cleared' = cleared \cup {d}
  /\ UNCHANGED <<setting, crowd, answer, up>>

Get(g) ==
  /\ \E e \in {cell, Miss} : answer' = [answer EXCEPT ![g] = e]
  /\ UNCHANGED <<cell, setting, crowd, cleared, up>>

\* A crash spoils the cell only where overlapping calls have written to it.
Crash ==
  /\ up /\ up' = FALSE
  /\ cell' = cell \/ (crowd # {} /\ cell' \in {Miss, Blend})
  /\ setting' = {}
  /\ UNCHANGED <<crowd, cleared, answer>>

Start ==
  /\ ~up /\ up' = TRUE
  /\ cell' \in {cell, Miss}
  /\ UNCHANGED <<setting, crowd, cleared, answer>>

Next ==
  \/ \E w \in Sets \ setting : Begin(w)
  \/ Put
  \/ Lose
  \/ \E w \in setting : Finish(w)
  \/ \E d \in Clears \ cleared : Clear(d)
  \/ \E g \in Gets : Get(g)
  \/ Crash
  \/ Start

Spec == Init /\ [][Next]_vars
=============================================================================
