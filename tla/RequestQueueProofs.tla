------------------------- MODULE RequestQueueProofs -------------------------
(* Proofs about RequestQueue, for any calls, keys, cap and limits. *)
EXTENDS RequestQueue, FiniteSetTheorems, SequenceTheorems, WellFoundedInduction,
        TLAPS

Hold(ph) == {c \in Calls : ph[c] \in SlotPhases}
Live(ph) == {c \in Calls : ph[c] \in SlotPhases \cup {"queued"}}

\* What processQueue() is handed and what it leaves are consistent in the same
\* sense: the values of the six variables it reads or writes are the arguments.
TypesGood(q, map, ph, out, ky) ==
  /\ q \in Seq(Calls)
  /\ map \in [Keys -> Calls \cup {NoCall}]
  /\ ph \in [Calls -> Phases]
  /\ out \in [Calls -> Outcomes]
  /\ ky \in [Calls -> Keys \cup {NoKey}]

QueueGood(q, ph) ==
  /\ \A x, y \in 1..Len(q) : q[x] = q[y] => x = y
  /\ \A c \in Calls : ph[c] = "queued" <=> \E x \in 1..Len(q) : q[x] = c

PendingGood(ph, out) ==
  \A c \in Calls : ph[c] \in {"idle", "queued", "running"} => out[c] = "pending"

SlotsGood(n, ph) == IsFiniteSet(Hold(ph)) /\ n = Cardinality(Hold(ph))

MapGood(map, ph, ky) ==
  \A k \in Keys, c \in Calls : map[k] = c <=> c \in Hold(ph) /\ ky[c] = k

KeysGood(ph, ky) ==
  \A c, d \in Live(ph) : ky[c] = ky[d] /\ ky[c] # NoKey => c = d

Good(q, map, n, ph, out, ky) ==
  /\ TypesGood(q, map, ph, out, ky)
  /\ QueueGood(q, ph)
  /\ PendingGood(ph, out)
  /\ SlotsGood(n, ph)
  /\ MapGood(map, ph, ky)
  /\ KeysGood(ph, ky)

\* Dropping the item at one position keeps the others in their order, as
\* handleItemTimeout() does with splice() (line 212).
LEMMA RemoveAtFacts ==
  ASSUME NEW S, NEW s \in Seq(S), NEW i \in 1..Len(s)
  PROVE  /\ RemoveAt(s, i) \in Seq(S)
         /\ Len(RemoveAt(s, i)) = Len(s) - 1
         /\ \A x \in 1..(Len(s) - 1) :
               RemoveAt(s, i)[x] = IF x < i THEN s[x] ELSE s[x + 1]
<1>1. /\ SubSeq(s, 1, i-1) \in Seq(S)
      /\ Len(SubSeq(s, 1, i-1)) = i - 1
      /\ \A x \in 1..(i-1) : SubSeq(s, 1, i-1)[x] = s[x]
  OBVIOUS
<1>2. /\ SubSeq(s, i+1, Len(s)) \in Seq(S)
      /\ Len(SubSeq(s, i+1, Len(s))) = Len(s) - i
      /\ \A x \in 1..(Len(s) - i) : SubSeq(s, i+1, Len(s))[x] = s[x + i]
  OBVIOUS
<1>. DEFINE a == SubSeq(s, 1, i-1)
            b == SubSeq(s, i+1, Len(s))
<1>3. RemoveAt(s, i) = a \o b
  BY DEF RemoveAt
<1>. HIDE DEF a, b
<1>4. /\ a \o b \in Seq(S)
      /\ Len(a \o b) = Len(s) - 1
      /\ \A x \in 1..(Len(s) - 1) :
            (a \o b)[x] = IF x < i THEN s[x] ELSE s[x + 1]
  <2>1. /\ a \in Seq(S) /\ Len(a) = i - 1
        /\ b \in Seq(S) /\ Len(b) = Len(s) - i
    BY <1>1, <1>2 DEF a, b
  <2>2. /\ a \o b \in Seq(S)
        /\ Len(a \o b) = Len(a) + Len(b)
        /\ \A x \in 1..(Len(a) + Len(b)) :
              (a \o b)[x] = IF x <= Len(a) THEN a[x] ELSE b[x - Len(a)]
    BY <2>1, ConcatProperties
  <2>3. ASSUME NEW x \in 1..(Len(s) - 1)
        PROVE  (a \o b)[x] = IF x < i THEN s[x] ELSE s[x + 1]
    <3>1. CASE x < i
      BY <2>1, <2>2, <1>1, <3>1 DEF a
    <3>2. CASE ~(x < i)
      <4>1. (a \o b)[x] = b[x - (i - 1)]
        BY <2>1, <2>2, <3>2
      <4>2. x - (i - 1) \in 1..(Len(s) - i) /\ (x - (i - 1)) + i = x + 1
        BY <3>2
      <4>3. b[x - (i - 1)] = s[(x - (i - 1)) + i]
        BY <4>2, <1>2 DEF b
      <4>. QED
        BY <4>1, <4>2, <4>3, <3>2
    <3>. QED
      BY <3>1, <3>2
  <2>. QED
    BY <2>1, <2>2, <2>3
<1>. QED
  BY <1>3, <1>4

\* Shifting a prefix of a consistent queue leaves a consistent state: what
\* started holds a slot and its key, what was dropped is answered (lines 145-174).
LEMMA ShiftKeepsGood ==
  ASSUME NEW q, NEW map, NEW n, NEW ph, NEW out, NEW p \in 0..Len(q),
         Good(q, map, n, ph, out, key'),
         Shift(q, p, map, n, ph, out)
  PROVE  Good(queue', active', activeCount', phase', outcome', key')
<1>. DEFINE starts   == StartsAt(q, p, out)
            started  == {q[x] : x \in starts}
            dropped  == {q[x] : x \in (1..p) \ starts}
            under(k) == {x \in starts : key'[q[x]] = k}
<1>0. /\ q \in Seq(Calls) /\ Len(q) \in Nat
      /\ starts \subseteq 1..p /\ (1..p) \subseteq 1..Len(q)
      /\ \A x \in 1..Len(q) : q[x] \in Calls /\ ph[q[x]] = "queued"
      /\ \A x, y \in 1..Len(q) : q[x] = q[y] => x = y
  BY DEF Good,
     TypesGood, QueueGood, PendingGood, SlotsGood, MapGood, KeysGood, StartsAt
<1>s. /\ queue' = SubSeq(q, p + 1, Len(q))
      /\ activeCount' = n + Cardinality(starts)
      /\ active' = [k \in Keys |->
            IF under(k) = {} THEN map[k]
            ELSE q[CHOOSE x \in under(k) : \A y \in under(k) : y <= x]]
      /\ phase' = [c \in Calls |->
            IF c \in started THEN "running"
            ELSE IF c \in dropped THEN "done" ELSE ph[c]]
      /\ outcome' = [c \in Calls |->
            IF c \in dropped /\ out[c] = "pending" THEN "timedOut" ELSE out[c]]
  BY DEF Shift
<1>1. /\ queue' \in Seq(Calls)
      /\ Len(queue') = Len(q) - p
      /\ \A x \in 1..(Len(q) - p) : queue'[x] = q[x + p]
  BY <1>0, <1>s
<1>2. /\ started \subseteq Calls /\ started \cap dropped = {}
      /\ \A c \in started \cup dropped : ph[c] = "queued"
  BY <1>0
<1>3. \A c \in started : out[c] = "pending"
  BY <1>0 DEF StartsAt, Runnable
<1>4. /\ phase' \in [Calls -> Phases]
      /\ outcome' \in [Calls -> Outcomes]
  BY <1>s DEF Good,
     TypesGood, QueueGood, PendingGood, SlotsGood, MapGood, KeysGood, Phases, Outcomes
<1>. HIDE DEF starts, started, dropped, under
<1>5. /\ Hold(phase') = Hold(ph) \cup started
      /\ Hold(ph) \cap started = {}
  BY <1>2, <1>s DEF Hold, SlotPhases
<1>6. IsFiniteSet(starts) /\ IsFiniteSet(started) /\ Cardinality(started) = Cardinality(starts)
  <2>1. IsFiniteSet(starts)
    <3>1. IsFiniteSet(1..p)
      BY FS_Interval, <1>0
    <3>. QED
      BY <3>1, <1>0, FS_Subset
  <2>2. [x \in starts |-> q[x]] \in Bijection(starts, started)
    BY <1>0, ZenonT(40) DEF started, Bijection, Injection, Surjection, IsInjective
  <2>. QED
    BY <2>1, <2>2, FS_Bijection DEF ExistsBijection
<1>7. IsFiniteSet(Hold(phase')) /\ activeCount' = Cardinality(Hold(phase'))
  <2>1. IsFiniteSet(Hold(ph)) /\ n = Cardinality(Hold(ph))
    BY DEF Good,
     TypesGood, QueueGood, PendingGood, SlotsGood, MapGood, KeysGood
  <2>2. /\ IsFiniteSet(Hold(ph) \cup started)
        /\ Cardinality(Hold(ph) \cup started) = n + Cardinality(started) - 0
    BY <2>1, <1>5, <1>6, FS_Union, FS_EmptySet, ZenonT(40)
  <2>3. Cardinality(started) \in Nat /\ n \in Nat
    BY <2>1, <1>6, FS_CardinalityType
  <2>. QED
    BY <2>2, <2>3, <1>5, <1>6, <1>s
<1>8. \A x, y \in 1..Len(queue') : queue'[x] = queue'[y] => x = y
  <2>. SUFFICES ASSUME NEW x \in 1..Len(queue'), NEW y \in 1..Len(queue'),
                       queue'[x] = queue'[y]
                PROVE  x = y
    OBVIOUS
  <2>1. q[x + p] = q[y + p] /\ x + p \in 1..Len(q) /\ y + p \in 1..Len(q)
    BY <1>0, <1>1
  <2>. QED
    BY <2>1, <1>0, <1>1
<1>9. ASSUME NEW c \in Calls
      PROVE  phase'[c] = "queued" <=> \E x \in 1..Len(queue') : queue'[x] = c
  <2>1. ph[c] = "queued" <=> \E x \in 1..Len(q) : q[x] = c
    BY DEF Good,
     TypesGood, QueueGood, PendingGood, SlotsGood, MapGood, KeysGood
  <2>2. c \in started \cup dropped <=> \E x \in 1..p : q[x] = c
    BY <1>0 DEF started, dropped
  <2>3. phase'[c] = "queued" <=> ph[c] = "queued" /\ c \notin started \cup dropped
    BY <1>s
  <2>4. ASSUME NEW x \in 1..Len(q), q[x] = c, c \notin started \cup dropped
        PROVE  \E y \in 1..Len(queue') : queue'[y] = c
    <3>1. x - p \in 1..(Len(q) - p) /\ (x - p) + p = x
      BY <2>2, <2>4, <1>0
    <3>. QED
      BY <3>1, <2>4, <1>1
  <2>5. ASSUME NEW y \in 1..Len(queue'), queue'[y] = c
        PROVE  ph[c] = "queued" /\ c \notin started \cup dropped
    <3>1. y + p \in 1..Len(q) /\ q[y + p] = c /\ y + p \notin 1..p
      BY <2>5, <1>0, <1>1
    <3>. QED
      BY <3>1, <2>1, <2>2, <1>0
  <2>. QED
    BY <2>1, <2>3, <2>4, <2>5
<1>10. \A c \in Calls :
         phase'[c] \in {"idle", "queued", "running"} => outcome'[c] = "pending"
  BY <1>2, <1>3, <1>s DEF Good,
     TypesGood, QueueGood, PendingGood, SlotsGood, MapGood, KeysGood
<1>11. ASSUME NEW c \in Live(phase')
       PROVE  c \in Live(ph) /\ c \notin dropped
  BY <1>2, <1>s, <1>11 DEF Live, SlotPhases
<1>12. \A c, d \in Live(phase') : key'[c] = key'[d] /\ key'[c] # NoKey => c = d
  BY <1>11 DEF Good,
     TypesGood, QueueGood, PendingGood, SlotsGood, MapGood, KeysGood
<1>13. ASSUME NEW k \in Keys
       PROVE  active'[k] \in Calls \cup {NoCall}
              /\ \A c \in Calls :
                    active'[k] = c <=> c \in Hold(phase') /\ key'[c] = k
  <2>1. /\ map[k] \in Calls \cup {NoCall}
        /\ \A c \in Calls : map[k] = c <=> c \in Hold(ph) /\ key'[c] = k
    BY DEF Good,
     TypesGood, QueueGood, PendingGood, SlotsGood, MapGood, KeysGood
  <2>2. \A c, d \in Hold(ph) \cup started : key'[c] = k /\ key'[d] = k => c = d
    <3>1. Hold(ph) \cup started \subseteq Live(ph)
      BY <1>2 DEF Hold, Live
    <3>. QED
      BY <3>1, KeysAssumption DEF Good,
     TypesGood, QueueGood, PendingGood, SlotsGood, MapGood, KeysGood
  <2>3. CASE under(k) = {}
    <3>1. active'[k] = map[k]
      BY <2>3, <1>s
    <3>2. \A c \in started : key'[c] # k
      BY <2>3 DEF under, started
    <3>. QED
      BY <3>1, <3>2, <2>1, <1>5
  <2>4. CASE under(k) # {}
    <3>1. PICK x \in under(k) : TRUE
      BY <2>4
    <3>2. x \in starts /\ q[x] \in started /\ key'[q[x]] = k /\ x \in 1..Len(q)
      BY <3>1, <1>0 DEF under, started
    <3>3. under(k) = {x}
      BY <3>2, <2>2, <1>0, <3>1 DEF under, started
    <3>4. (CHOOSE y \in under(k) : \A z \in under(k) : z <= y) = x
      BY <3>3, <3>2
    <3>5. active'[k] = q[x]
      BY <3>4, <2>4, <1>s
    <3>. QED
      BY <3>2, <3>5, <2>2, <1>0, <1>5
  <2>. QED
    BY <2>3, <2>4
<1>14. active' \in [Keys -> Calls \cup {NoCall}]
  BY <1>13, <1>s
<1>15. key' \in [Calls -> Keys \cup {NoKey}]
  BY DEF Good,
     TypesGood, QueueGood, PendingGood, SlotsGood, MapGood, KeysGood
<1>. QED
  BY <1>1, <1>4, <1>7, <1>8, <1>9, <1>10, <1>12, <1>13, <1>14, <1>15 DEF Good,
     TypesGood, QueueGood, PendingGood, SlotsGood, MapGood, KeysGood

\* The prefix that processQueue() shifts starts no more than the free slots, and
\* stops early only at a queue that is empty or slots that are full (line 146).
LEMMA DrainFacts ==
  ASSUME NEW q, NEW map, NEW n, NEW ph, NEW out,
         maxConcurrency' \in Nat,
         Good(q, map, n, ph, out, key'),
         ProcessQueue(q, map, n, ph, out)
  PROVE  /\ Good(queue', active', activeCount', phase', outcome', key')
         /\ Len(queue') <= Len(q)
         /\ queue' # <<>> => activeCount' >= maxConcurrency'
         /\ Live(phase') \subseteq Live(ph)
         /\ \A c \in Hold(phase') \ Hold(ph) :
               /\ c \notin due /\ outcome'[c] = "pending"
               /\ activeCount' <= maxConcurrency'
         /\ \A c \in Calls : out[c] # "pending" => outcome'[c] = out[c]
<1>1. PICK p \in 0..Len(q) : /\ IsDrain(q, p, maxConcurrency' - n, out)
                            /\ Shift(q, p, map, n, ph, out)
  BY DEF ProcessQueue
<1>2. Good(queue', active', activeCount', phase', outcome', key')
  BY <1>1, ShiftKeepsGood
<1>3. /\ q \in Seq(Calls) /\ Len(q) \in Nat
      /\ \A x \in 1..Len(q) : q[x] \in Calls /\ ph[q[x]] = "queued"
      /\ IsFiniteSet(Hold(ph)) /\ n = Cardinality(Hold(ph)) /\ n \in Nat
  BY FS_CardinalityType DEF Good,
     TypesGood, QueueGood, PendingGood, SlotsGood, MapGood, KeysGood
<1>4. queue' = SubSeq(q, p + 1, Len(q)) /\ Len(queue') = Len(q) - p
  BY <1>1, <1>3 DEF Shift
<1>5. ASSUME NEW r \in 0..Len(q)
      PROVE  /\ IsFiniteSet(StartsAt(q, r, out))
             /\ Cardinality(StartsAt(q, r, out)) \in Nat
  <2>1. IsFiniteSet(1..r)
    BY FS_Interval
  <2>2. StartsAt(q, r, out) \in SUBSET (1..r)
    BY DEF StartsAt
  <2>3. IsFiniteSet(StartsAt(q, r, out))
    BY <2>1, <2>2, FS_Subset
  <2>. QED
    BY <2>3, FS_CardinalityType
<1>6. activeCount' = n + Cardinality(StartsAt(q, p, out))
  BY <1>1 DEF Shift
<1>7. queue' # <<>> => activeCount' >= maxConcurrency'
  <2>. SUFFICES ASSUME queue' # <<>>
                PROVE  activeCount' >= maxConcurrency'
    OBVIOUS
  <2>1. p # Len(q)
    BY <1>3, <1>4
  <2>2. Cardinality(StartsAt(q, p, out)) >= maxConcurrency' - n
    BY <2>1, <1>1 DEF IsDrain
  <2>. QED
    BY <2>2, <1>3, <1>5, <1>6
<1>8. Live(phase') \subseteq Live(ph)
  BY <1>1, <1>3 DEF Shift, StartsAt, Live, SlotPhases
<1>9. ASSUME NEW c \in Hold(phase') \ Hold(ph)
      PROVE  /\ c \notin due /\ outcome'[c] = "pending"
             /\ activeCount' <= maxConcurrency'
  <2>1. PICK x \in StartsAt(q, p, out) : q[x] = c
    BY <1>1, <1>9 DEF Shift, Hold, SlotPhases
  <2>2. x \in 1..p /\ c \in Calls /\ c \notin due /\ out[c] = "pending"
    BY <2>1, <1>3 DEF StartsAt, Runnable
  <2>3. phase'[c] = "running"
    BY <2>1, <2>2, <1>1 DEF Shift
  <2>4. outcome'[c] = "pending"
    BY <2>3, <2>2, <1>2 DEF Good,
     TypesGood, QueueGood, PendingGood, SlotsGood, MapGood, KeysGood
  <2>5. Cardinality(StartsAt(q, p - 1, out)) < maxConcurrency' - n
    BY <2>2, <1>1 DEF IsDrain
  <2>6. StartsAt(q, p, out) \subseteq StartsAt(q, p - 1, out) \cup {p}
    BY <2>2 DEF StartsAt
  <2>7. Cardinality(StartsAt(q, p, out)) <= Cardinality(StartsAt(q, p - 1, out)) + 1
    <3>1. /\ IsFiniteSet(StartsAt(q, p - 1, out))
          /\ Cardinality(StartsAt(q, p - 1, out)) \in Nat
      BY <2>2, <1>5
    <3>2. /\ IsFiniteSet(StartsAt(q, p - 1, out) \cup {p})
          /\ Cardinality(StartsAt(q, p - 1, out) \cup {p})
               <= Cardinality(StartsAt(q, p - 1, out)) + 1
      <4>1. /\ IsFiniteSet(StartsAt(q, p - 1, out) \cup {p})
            /\ Cardinality(StartsAt(q, p - 1, out) \cup {p}) =
                 IF p \in StartsAt(q, p - 1, out)
                 THEN Cardinality(StartsAt(q, p - 1, out))
                 ELSE Cardinality(StartsAt(q, p - 1, out)) + 1
        BY <3>1, FS_AddElement
      <4>. QED
        BY <3>1, <4>1
    <3>3. Cardinality(StartsAt(q, p, out)) <= Cardinality(StartsAt(q, p - 1, out) \cup {p})
      BY <3>2, <2>6, FS_Subset
    <3>4. Cardinality(StartsAt(q, p - 1, out) \cup {p}) \in Nat
      BY <3>2, FS_CardinalityType
    <3>. QED
      BY <3>1, <3>2, <3>3, <3>4, <1>5
  <2>8. p - 1 \in 0..Len(q)
    BY <2>2
  <2>. QED
    BY <2>2, <2>4, <2>5, <2>7, <2>8, <1>3, <1>5, <1>6, SMTT(30)
<1>10. \A c \in Calls : out[c] # "pending" => outcome'[c] = out[c]
  BY <1>1 DEF Shift
<1>. QED
  BY <1>2, <1>3, <1>4, <1>7, <1>8, <1>9, <1>10

IInv ==
  /\ TypeOK
  /\ Good(queue, active, activeCount, phase, outcome, key)
  /\ \A c \in Live(phase) : promise[c] = c
  /\ Len(queue) <= MaxQueueLength
  /\ WorkConserving

\* What a step does to items that start and to promises that are settled.
StepGood ==
  \A c \in Calls :
    /\ Started(c) => /\ c \notin due' /\ outcome'[c] = "pending"
                     /\ activeCount' <= maxConcurrency'
    /\ Settled(c) => outcome'[c] = outcome[c]

\* The constructor establishes the inductive invariant (lines 58-69).
LEMMA InitIInv == Init => IInv
<1>. SUFFICES ASSUME Init PROVE IInv
  OBVIOUS
<1>1. TypeOK
  BY LevelAssumption DEF Init, TypeOK, Phases, Outcomes
<1>2. Hold(phase) = {} /\ Live(phase) = {}
  BY DEF Init, Hold, Live, SlotPhases
<1>3. IsFiniteSet({}) /\ Cardinality({}) = 0
  BY FS_EmptySet
<1>4. Good(queue, active, activeCount, phase, outcome, key)
  <2>1. TypesGood(queue, active, phase, outcome, key)
    BY <1>1 DEF TypeOK, TypesGood
  <2>2. QueueGood(queue, phase) /\ PendingGood(phase, outcome)
    BY DEF Init, QueueGood, PendingGood
  <2>3. SlotsGood(activeCount, phase)
    BY <1>2, <1>3 DEF Init, SlotsGood
  <2>4. MapGood(active, phase, key) /\ KeysGood(phase, key)
    BY <1>2, CallsAssumption DEF Init, MapGood, KeysGood
  <2>. QED
    BY <2>1, <2>2, <2>3, <2>4 DEF Good
<1>. QED
  BY <1>1, <1>2, <1>4, CapAssumption DEF Init, IInv, WorkConserving

\* The calls that only read: they are given a key and a promise, or a refusal.
LEMMA IdleCallKeepsIInv ==
  ASSUME IInv, NEW c \in Calls, NEW k \in Keys \cup {NoKey}, NEW ph \in Phases,
         phase[c] = "idle", ph \in {"joined", "refused"},
         key' = [key EXCEPT ![c] = k],
         phase' = [phase EXCEPT ![c] = ph],
         \/ UNCHANGED promise
         \/ \E i \in Calls : promise' = [promise EXCEPT ![c] = i],
         UNCHANGED <<maxConcurrency, queue, active, activeCount, outcome, due>>
  PROVE  IInv' /\ StepGood
<1>1. TypeOK'
  BY DEF IInv, TypeOK
<1>2. Hold(phase') = Hold(phase) /\ Live(phase') = Live(phase) /\ c \notin Live(phase)
  BY DEF IInv, TypeOK, Hold, Live, SlotPhases
<1>3. \A d \in Live(phase) : key'[d] = key[d] /\ promise'[d] = promise[d]
  BY <1>2 DEF IInv, TypeOK, Live
<1>4. Hold(phase) \subseteq Live(phase)
  BY DEF Hold, Live
<1>5. Good(queue', active', activeCount', phase', outcome', key')
  <2>1. TypesGood(queue', active', phase', outcome', key')
    BY <1>1 DEF TypeOK, TypesGood
  <2>2. QueueGood(queue', phase') /\ PendingGood(phase', outcome')
    BY DEF IInv, TypeOK, Good, QueueGood, PendingGood
  <2>3. SlotsGood(activeCount', phase')
    BY <1>2 DEF IInv, Good, SlotsGood
  <2>4. MapGood(active', phase', key')
    BY <1>2, <1>3, <1>4 DEF IInv, TypeOK, Good, MapGood
  <2>5. KeysGood(phase', key')
    BY <1>2, <1>3 DEF IInv, Good, KeysGood
  <2>. QED
    BY <2>1, <2>2, <2>3, <2>4, <2>5 DEF Good
<1>6. StepGood
  BY <1>2 DEF StepGood, Started, Holders, Hold
<1>. QED
  BY <1>1, <1>2, <1>3, <1>5, <1>6 DEF IInv, WorkConserving

\* The steps that move one running item to a later phase of its slot.
LEMMA SlotStepKeepsIInv ==
  ASSUME IInv, NEW c \in Calls, NEW ph \in {"aborted", "exited"},
         phase[c] \in SlotPhases,
         phase' = [phase EXCEPT ![c] = ph],
         outcome' \in [Calls -> Outcomes],
         \A d \in Calls : (d = c /\ ~Settled(d)) \/ outcome'[d] = outcome[d],
         UNCHANGED <<maxConcurrency, queue, active, activeCount, key, promise, due>>
  PROVE  IInv' /\ StepGood
<1>1. TypeOK'
  BY DEF IInv, TypeOK, Phases
<1>2. Hold(phase') = Hold(phase) /\ Live(phase') = Live(phase)
  BY DEF IInv, TypeOK, Hold, Live, SlotPhases
<1>3. Good(queue', active', activeCount', phase', outcome', key')
  <2>1. TypesGood(queue', active', phase', outcome', key')
    BY <1>1 DEF TypeOK, TypesGood
  <2>2. QueueGood(queue', phase') /\ PendingGood(phase', outcome')
    BY DEF IInv, TypeOK, Good, QueueGood, PendingGood, SlotPhases
  <2>3. SlotsGood(activeCount', phase')
    BY <1>2 DEF IInv, Good, SlotsGood
  <2>4. MapGood(active', phase', key') /\ KeysGood(phase', key')
    BY <1>2 DEF IInv, Good, MapGood, KeysGood
  <2>. QED
    BY <2>1, <2>2, <2>3, <2>4 DEF Good
<1>4. StepGood
  BY <1>2 DEF StepGood, Started, Holders, Hold
<1>. QED
  BY <1>1, <1>2, <1>3, <1>4 DEF IInv, WorkConserving

\* The steps that end with processQueue(): it is enough that what they hand
\* to it is consistent.
LEMMA DrainKeepsIInv ==
  ASSUME IInv, NEW q, NEW map, NEW n, NEW ph, NEW out,
         Good(q, map, n, ph, out, key'),
         Len(q) <= MaxQueueLength,
         ProcessQueue(q, map, n, ph, out),
         maxConcurrency' \in ConcurrencyLevels,
         promise' \in [Calls -> Calls \cup {NoCall}],
         \A c \in Live(ph) : promise'[c] = c,
         Hold(ph) \subseteq Holders,
         \A c \in Calls : Settled(c) => out[c] = outcome[c],
         UNCHANGED due
  PROVE  IInv' /\ StepGood
<1>1. maxConcurrency' \in Nat
  BY LevelAssumption
<1>2. /\ Good(queue', active', activeCount', phase', outcome', key')
      /\ Len(queue') <= Len(q)
      /\ queue' # <<>> => activeCount' >= maxConcurrency'
      /\ Live(phase') \subseteq Live(ph)
      /\ \A c \in Hold(phase') \ Hold(ph) :
            /\ c \notin due /\ outcome'[c] = "pending"
            /\ activeCount' <= maxConcurrency'
      /\ \A c \in Calls : out[c] # "pending" => outcome'[c] = out[c]
  BY <1>1, DrainFacts
<1>3. TypeOK'
  BY <1>2, FS_CardinalityType DEF IInv, TypeOK, Good,
     TypesGood, QueueGood, PendingGood, SlotsGood, MapGood, KeysGood
<1>4. Len(queue') <= MaxQueueLength
  <2>1. Len(q) \in Nat /\ Len(queue') \in Nat
    BY <1>2 DEF Good,
     TypesGood, QueueGood, PendingGood, SlotsGood, MapGood, KeysGood
  <2>. QED
    BY <2>1, <1>2, CapAssumption
<1>5. StepGood
  BY <1>2 DEF StepGood, Started, Holders, Hold, Settled
<1>. QED
  BY <1>2, <1>3, <1>4, <1>5 DEF IInv, WorkConserving

\* execute() of a call that is neither shared nor refused (lines 109-143).
LEMMA EnqueueKeepsIInv ==
  ASSUME IInv, NEW c \in Calls, NEW k \in Keys \cup {NoKey}, Enqueue(c, k)
  PROVE  /\ IInv' /\ StepGood
         /\ Good(Push(queue, c), active, activeCount,
                 [phase EXCEPT ![c] = "queued"], outcome, key')
<1>. DEFINE q  == Push(queue, c)
            ph == [phase EXCEPT ![c] = "queued"]
<1>1. /\ q \in Seq(Calls) /\ Len(q) = Len(queue) + 1
      /\ \A x \in 1..Len(queue) : q[x] = queue[x]
      /\ q[Len(queue) + 1] = c
      /\ Len(queue) \in Nat
  BY DEF Push, IInv, TypeOK
<1>2. /\ \A x \in 1..Len(queue) : queue[x] # c
      /\ \A x, y \in 1..Len(queue) : queue[x] = queue[y] => x = y
      /\ phase[c] = "idle"
  BY DEF Enqueue, IInv, Good, QueueGood
<1>3. Len(q) <= MaxQueueLength
  BY <1>1, CapAssumption DEF Enqueue, QueueFull
<1>4. /\ Hold(ph) = Hold(phase)
      /\ Live(ph) = Live(phase) \cup {c} /\ c \notin Live(phase)
      /\ Hold(phase) \subseteq Live(phase)
  BY <1>2 DEF IInv, TypeOK, Hold, Live, SlotPhases
<1>5. key' = [key EXCEPT ![c] = k]
  BY DEF Enqueue
<1>6. \A d \in Live(phase) : key[d] = k => k = NoKey
  <2>. SUFFICES ASSUME NEW d \in Live(phase), key[d] = k, k # NoKey
                PROVE  FALSE
    OBVIOUS
  <2>1. active[k] = NoCall /\ \A x \in 1..Len(queue) : key[queue[x]] # k
    BY DEF Enqueue, ActiveWith, QueuedWith, IInv, TypeOK
  <2>2. d \notin Hold(phase)
    BY <2>1, CallsAssumption DEF IInv, Good, MapGood, Live
  <2>3. phase[d] = "queued" /\ d \in Calls
    BY <2>2 DEF Live, Hold
  <2>. QED
    BY <2>1, <2>3 DEF IInv, Good, QueueGood
<1>. HIDE DEF q, ph
<1>7. Good(q, active, activeCount, ph, outcome, key')
  <2>1. TypesGood(q, active, ph, outcome, key')
    BY <1>1, <1>5 DEF IInv, TypeOK, TypesGood, ph, Phases
  <2>2. \A x, y \in 1..Len(q) : q[x] = q[y] => x = y
    BY <1>1, <1>2
  <2>3. ASSUME NEW d \in Calls
        PROVE  ph[d] = "queued" <=> \E x \in 1..Len(q) : q[x] = d
    <3>1. phase[d] = "queued" <=> \E x \in 1..Len(queue) : queue[x] = d
      BY DEF IInv, Good, QueueGood
    <3>2. CASE d = c
      BY <1>1, <3>2 DEF ph, IInv, TypeOK
    <3>3. CASE d # c
      BY <1>1, <3>1, <3>3 DEF ph, IInv, TypeOK
    <3>. QED
      BY <3>2, <3>3
  <2>4. PendingGood(ph, outcome)
    <3>1. outcome[c] = "pending"
      BY <1>2 DEF IInv, Good, PendingGood
    <3>. QED
      BY <3>1 DEF IInv, TypeOK, Good, PendingGood, ph
  <2>5. SlotsGood(activeCount, ph) 
    BY <1>4 DEF IInv, Good, SlotsGood
  <2>6. MapGood(active, ph, key')
    BY <1>4, <1>5 DEF IInv, TypeOK, Good, MapGood
  <2>7. KeysGood(ph, key')
    BY <1>4, <1>5, <1>6 DEF IInv, TypeOK, Good, KeysGood, Live
  <2>. QED
    BY <2>1, <2>2, <2>3, <2>4, <2>5, <2>6, <2>7 DEF Good, QueueGood
<1>8. ProcessQueue(q, active, activeCount, ph, outcome)
  BY DEF Enqueue, q, ph
<1>9. \A d \in Live(ph) : promise'[d] = d
  BY <1>4 DEF IInv, TypeOK, Enqueue
<1>10. /\ maxConcurrency' \in ConcurrencyLevels
       /\ promise' \in [Calls -> Calls \cup {NoCall}]
       /\ UNCHANGED due
  BY DEF Enqueue, IInv, TypeOK
<1>11. Hold(ph) \subseteq Holders
  BY <1>4 DEF Hold, Holders
<1>12. IInv' /\ StepGood
  BY <1>3, <1>7, <1>8, <1>9, <1>10, <1>11, DrainKeepsIInv
<1>. QED
  BY <1>7, <1>12 DEF q, ph

\* .finally(): the slot and the key given back are those of one holder, so the
\* counter and the map go on agreeing with the slots (lines 192-199).
LEMMA FinallyKeepsIInv ==
  ASSUME IInv, NEW c \in Calls, Finally(c)
  PROVE  /\ IInv' /\ StepGood
         /\ Good(queue, ReleaseKey(c), activeCount - 1,
                 [phase EXCEPT ![c] = "done"], outcome, key')
<1>. DEFINE map == ReleaseKey(c)
            n   == activeCount - 1
            ph  == [phase EXCEPT ![c] = "done"]
<1>1. /\ phase[c] = "exited" /\ key' = key
      /\ c \in Hold(phase)
  BY DEF Finally, Hold, SlotPhases
<1>2. /\ Hold(ph) = Hold(phase) \ {c}
      /\ Live(ph) = Live(phase) \ {c}
      /\ Hold(phase) \subseteq Live(phase)
  BY DEF IInv, TypeOK, Hold, Live, SlotPhases
<1>3. Good(queue, map, n, ph, outcome, key')
  <2>1. TypesGood(queue, map, ph, outcome, key')
    BY <1>1 DEF IInv, TypeOK, TypesGood, ReleaseKey, Phases
  <2>2. QueueGood(queue, ph) /\ PendingGood(ph, outcome)
    BY <1>1 DEF IInv, TypeOK, Good, QueueGood, PendingGood
  <2>3. SlotsGood(n, ph)
    <3>1. IsFiniteSet(Hold(phase)) /\ activeCount = Cardinality(Hold(phase))
      BY DEF IInv, Good, SlotsGood
    <3>. QED
      BY <3>1, <1>1, <1>2, FS_RemoveElement DEF SlotsGood
  <2>4. MapGood(map, ph, key')
    BY <1>1, <1>2, CallsAssumption
    DEF IInv, TypeOK, Good, MapGood, KeysGood, ReleaseKey, Hold
  <2>5. KeysGood(ph, key')
    BY <1>1, <1>2 DEF IInv, Good, KeysGood
  <2>. QED
    BY <2>1, <2>2, <2>3, <2>4, <2>5 DEF Good
<1>4. ProcessQueue(queue, map, n, ph, outcome)
  BY DEF Finally
<1>5. \A d \in Live(ph) : promise'[d] = d
  BY <1>2 DEF IInv, Finally
<1>6. /\ maxConcurrency' \in ConcurrencyLevels
      /\ promise' \in [Calls -> Calls \cup {NoCall}]
      /\ UNCHANGED due
      /\ Len(queue) <= MaxQueueLength
  BY DEF Finally, IInv, TypeOK
<1>7. Hold(ph) \subseteq Holders
  BY <1>2 DEF Hold, Holders
<1>. HIDE DEF map, n, ph
<1>8. IInv' /\ StepGood
  BY <1>3, <1>4, <1>5, <1>6, <1>7, DrainKeepsIInv
<1>. QED
  BY <1>3, <1>8 DEF map, n, ph

\* handleItemTimeout() of a waiting item (lines 210-216).
LEMMA TimeoutQueuedKeepsIInv ==
  ASSUME IInv, NEW c \in Calls, TimeoutQueued(c)
  PROVE  /\ IInv' /\ StepGood
         /\ phase[c] = "queued"
         /\ \E i \in DOMAIN queue :
              /\ queue[i] = c
              /\ Good(RemoveAt(queue, i), active, activeCount,
                      [phase EXCEPT ![c] = "done"],
                      [outcome EXCEPT ![c] = "timedOut"], key')
              /\ ProcessQueue(RemoveAt(queue, i), active, activeCount,
                              [phase EXCEPT ![c] = "done"],
                              [outcome EXCEPT ![c] = "timedOut"])
<1>1. PICK i \in DOMAIN queue :
        /\ queue[i] = c
        /\ ProcessQueue(RemoveAt(queue, i), active, activeCount,
                        [phase EXCEPT ![c] = "done"],
                        [outcome EXCEPT ![c] = "timedOut"])
  BY DEF TimeoutQueued
<1>. DEFINE q   == RemoveAt(queue, i)
            ph  == [phase EXCEPT ![c] = "done"]
            out == [outcome EXCEPT ![c] = "timedOut"]
<1>2. queue \in Seq(Calls) /\ Len(queue) \in Nat /\ i \in 1..Len(queue)
  BY DEF IInv, TypeOK
<1>3. /\ q \in Seq(Calls)
      /\ Len(q) = Len(queue) - 1
      /\ \A x \in 1..(Len(queue) - 1) : q[x] = IF x < i THEN queue[x] ELSE queue[x + 1]
  BY <1>2, RemoveAtFacts
<1>4. /\ \A x, y \in 1..Len(queue) : queue[x] = queue[y] => x = y
      /\ phase[c] = "queued" /\ key' = key
  BY <1>1, <1>2 DEF IInv, Good, QueueGood, TimeoutQueued
<1>5. /\ Hold(ph) = Hold(phase)
      /\ Live(ph) = Live(phase) \ {c}
  BY <1>4 DEF IInv, TypeOK, Hold, Live, SlotPhases
<1>. HIDE DEF q
<1>6. Good(q, active, activeCount, ph, out, key')
  <2>1. TypesGood(q, active, ph, out, key')
    BY <1>3, <1>4 DEF IInv, TypeOK, TypesGood, Phases, Outcomes
  <2>2. \A x, y \in 1..Len(q) : q[x] = q[y] => x = y
    BY <1>2, <1>3, <1>4
  <2>3. ASSUME NEW d \in Calls
        PROVE  ph[d] = "queued" <=> \E x \in 1..Len(q) : q[x] = d
    <3>1. phase[d] = "queued" <=> \E x \in 1..Len(queue) : queue[x] = d
      BY DEF IInv, Good, QueueGood
    <3>2. CASE d = c
      <4>1. \A x \in 1..Len(q) : q[x] # c
        BY <1>1, <1>2, <1>3, <1>4
      <4>. QED
        BY <4>1, <3>2 DEF IInv, TypeOK
    <3>3. CASE d # c
      <4>1. ASSUME NEW x \in 1..Len(queue), queue[x] = d
            PROVE  \E y \in 1..Len(q) : q[y] = d
        <5>1. CASE x < i
          <6>1. x \in 1..Len(q) /\ q[x] = d
            BY <5>1, <4>1, <1>2, <1>3
          <6>. QED
            BY <6>1
        <5>2. CASE x > i
          <6>1. x - 1 \in 1..Len(q) /\ ~(x - 1 < i) /\ (x - 1) + 1 = x
            BY <5>2, <1>2, <1>3
          <6>. QED
            BY <6>1, <4>1, <1>2, <1>3
        <5>. QED
          BY <5>1, <5>2, <4>1, <1>1, <1>2, <3>3
      <4>2. ASSUME NEW y \in 1..Len(q), q[y] = d
            PROVE  \E x \in 1..Len(queue) : queue[x] = d
        BY <4>2, <1>2, <1>3
      <4>. QED
        BY <3>1, <3>3, <4>1, <4>2 DEF IInv, TypeOK
    <3>. QED
      BY <3>2, <3>3
  <2>4. PendingGood(ph, out)
    BY <1>4 DEF IInv, TypeOK, Good, PendingGood
  <2>5. SlotsGood(activeCount, ph) /\ MapGood(active, ph, key')
    BY <1>4, <1>5 DEF IInv, Good, SlotsGood, MapGood
  <2>6. KeysGood(ph, key')
    BY <1>4, <1>5 DEF IInv, Good, KeysGood
  <2>. QED
    BY <2>1, <2>2, <2>3, <2>4, <2>5, <2>6 DEF Good, QueueGood
<1>7. Len(q) <= MaxQueueLength
  BY <1>2, <1>3, CapAssumption DEF IInv
<1>8. \A d \in Live(ph) : promise'[d] = d
  BY <1>5 DEF IInv, TimeoutQueued
<1>9. /\ maxConcurrency' \in ConcurrencyLevels
      /\ promise' \in [Calls -> Calls \cup {NoCall}]
      /\ UNCHANGED due
  BY DEF TimeoutQueued, IInv, TypeOK
<1>10. ProcessQueue(q, active, activeCount, ph, out)
  BY <1>1 DEF q
<1>11. Hold(ph) \subseteq Holders
  BY <1>5 DEF Hold, Holders
<1>12. \A d \in Calls : Settled(d) => out[d] = outcome[d]
  BY DEF TimeoutQueued, IInv, TypeOK, Settled
<1>. HIDE DEF ph, out
<1>13. IInv' /\ StepGood
  BY <1>6, <1>7, <1>8, <1>9, <1>10, <1>11, <1>12, DrainKeepsIInv
<1>. QED
  BY <1>1, <1>4, <1>6, <1>10, <1>13 DEF q, ph, out

\* setMaxConcurrency() drains under the new limit (lines 252-255).
LEMMA SetMaxConcurrencyKeepsIInv ==
  ASSUME IInv, NEW n \in ConcurrencyLevels, SetMaxConcurrency(n)
  PROVE  IInv' /\ StepGood
<1>1. Good(queue, active, activeCount, phase, outcome, key')
  BY DEF IInv, SetMaxConcurrency
<1>2. Hold(phase) \subseteq Holders
  BY DEF Hold, Holders
<1>. QED
  BY <1>1, <1>2, DrainKeepsIInv DEF IInv, TypeOK, SetMaxConcurrency

\* IInv is inductive.
LEMMA NextKeepsIInv == IInv /\ [Next]_vars => IInv' /\ StepGood
<1>. SUFFICES ASSUME IInv, [Next]_vars PROVE IInv' /\ StepGood
  OBVIOUS
<1>1. ASSUME NEW c \in Calls, NEW k \in Keys \cup {NoKey}, Execute(c, k)
      PROVE  IInv' /\ StepGood
  <2>1. CASE JoinActive(c, k)
    <3>1. active[k] \in Calls
      BY <2>1 DEF JoinActive, ActiveWith, IInv, TypeOK
    <3>. QED
      BY <2>1, <3>1, IdleCallKeepsIInv DEF JoinActive, Join, Phases
  <2>2. CASE JoinQueued(c, k)
    <3>1. PICK x \in QueuedWith(k) : Join(c, k, queue[x])
      BY <2>2 DEF JoinQueued
    <3>2. queue[x] \in Calls
      BY <3>1 DEF QueuedWith, IInv, TypeOK
    <3>. QED
      BY <2>2, <3>1, <3>2, IdleCallKeepsIInv DEF JoinQueued, Join, Phases
  <2>3. CASE Refuse(c, k)
    BY <2>3, IdleCallKeepsIInv DEF Refuse, Phases
  <2>4. CASE Enqueue(c, k)
    BY <2>4, EnqueueKeepsIInv
  <2>. QED
    BY <1>1, <2>1, <2>2, <2>3, <2>4 DEF Execute
<1>2. ASSUME NEW c \in Calls, NEW o \in {"resolved", "failed"}, ChildExit(c, o)
      PROVE  IInv' /\ StepGood
  <2>1. /\ outcome' \in [Calls -> Outcomes]
        /\ \A d \in Calls : (d = c /\ ~Settled(d)) \/ outcome'[d] = outcome[d]
    BY <1>2 DEF ChildExit, Settle, IInv, TypeOK, Outcomes
  <2>. QED
    BY <1>2, <2>1, SlotStepKeepsIInv DEF ChildExit, SlotPhases
<1>3. ASSUME NEW c \in Calls, Finally(c)
      PROVE  IInv' /\ StepGood
  BY <1>3, FinallyKeepsIInv
<1>4. ASSUME NEW c \in Calls, Expire(c)
      PROVE  IInv' /\ StepGood
  BY <1>4 DEF Expire, IInv, TypeOK, WorkConserving, StepGood, Started, Holders
<1>5. ASSUME NEW c \in Calls, TimeoutQueued(c)
      PROVE  IInv' /\ StepGood
  BY <1>5, TimeoutQueuedKeepsIInv
<1>6. ASSUME NEW c \in Calls, TimeoutRunning(c)
      PROVE  IInv' /\ StepGood
  <2>1. /\ outcome' \in [Calls -> Outcomes]
        /\ \A d \in Calls : (d = c /\ ~Settled(d)) \/ outcome'[d] = outcome[d]
    BY <1>6 DEF TimeoutRunning, IInv, TypeOK, Outcomes
  <2>. QED
    BY <1>6, <2>1, SlotStepKeepsIInv DEF TimeoutRunning, SlotPhases
<1>7. ASSUME NEW n \in ConcurrencyLevels, SetMaxConcurrency(n)
      PROVE  IInv' /\ StepGood
  BY <1>7, SetMaxConcurrencyKeepsIInv
<1>8. CASE UNCHANGED vars
  BY <1>8 DEF vars, IInv, TypeOK, WorkConserving, StepGood, Started, Holders
<1>. QED
  BY <1>1, <1>2, <1>3, <1>4, <1>5, <1>6, <1>7, <1>8 DEF Next

\* Everything reachable is consistent: types, queue, slots, map and keys
\* together, and no slot idle while something waits.
THEOREM InductiveInvariant == Spec => []IInv
<1>. QED
  BY InitIInv, NextKeepsIInv, PTL DEF Spec

-----------------------------------------------------------------------------
\* Every variable keeps its type (RequestQueue.TypeOK).
THEOREM TypeCorrect == Spec => []TypeOK
<1>1. IInv => TypeOK
  BY DEF IInv
<1>. QED
  BY <1>1, InductiveInvariant, PTL

\* Two executions with one key never coexist.
THEOREM SingleFlightHolds == Spec => []SingleFlight
<1>1. IInv => SingleFlight
  BY DEF IInv, Good, KeysGood, Live, SingleFlight, Alive, Waiting, Holders,
         SlotPhases
<1>. QED
  BY <1>1, InductiveInvariant, PTL

\* The counter and the map of active requests agree with the slots taken.
THEOREM SlotAccountingHolds == Spec => []SlotAccounting
<1>1. IInv => SlotAccounting
  BY DEF IInv, Good, SlotsGood, MapGood, Hold, SlotAccounting, Holders
<1>. QED
  BY <1>1, InductiveInvariant, PTL

\* The queue holds exactly the waiting calls, and no more than its cap.
THEOREM QueueIsTheWaitingHolds == Spec => []QueueIsTheWaiting
<1>1. IInv => QueueIsTheWaiting
  <2>. SUFFICES ASSUME IInv PROVE QueueIsTheWaiting
    OBVIOUS
  <2>1. queue \in Seq(Calls) /\ DOMAIN queue = 1..Len(queue)
    BY DEF IInv, TypeOK
  <2>. QED
    BY <2>1 DEF IInv, Good, QueueGood, PendingGood, QueueIsTheWaiting, Waiting,
                Settled
<1>. QED
  BY <1>1, InductiveInvariant, PTL

\* Nothing waits while a slot is free.
THEOREM WorkConservingHolds == Spec => []WorkConserving
<1>1. IInv => WorkConserving
  BY DEF IInv
<1>. QED
  BY <1>1, InductiveInvariant, PTL

\* A settled promise keeps its outcome.
THEOREM SettleOnceHolds == Spec => SettleOnce
<1>1. IInv /\ [Next]_vars =>
        [\A c \in Calls : Settled(c) => outcome'[c] = outcome[c]]_vars
  BY NextKeepsIInv DEF StepGood
<1>. QED
  BY <1>1, InductiveInvariant, PTL DEF Spec, SettleOnce

\* Nothing starts after its deadline or after its caller was answered.
THEOREM LateNeverStartsHolds == Spec => LateNeverStarts
<1>1. IInv /\ [Next]_vars =>
        [\A c \in Calls :
            Started(c) => c \notin due' /\ outcome'[c] = "pending"]_vars
  BY NextKeepsIInv DEF StepGood
<1>. QED
  BY <1>1, InductiveInvariant, PTL DEF Spec, LateNeverStarts

\* A step that starts an item leaves no more running than the limit allows.
THEOREM StartsWithinLimitHolds == Spec => StartsWithinLimit
<1>1. IInv /\ [Next]_vars =>
        [(\E c \in Calls : Started(c)) => activeCount' <= maxConcurrency']_vars
  BY NextKeepsIInv DEF StepGood
<1>. QED
  BY <1>1, InductiveInvariant, PTL DEF Spec, StartsWithinLimit

\* A drain changes the phase of what it starts or drops only.
LEMMA DrainPhases ==
  ASSUME NEW q, NEW map, NEW n, NEW ph, NEW out,
         ProcessQueue(q, map, n, ph, out)
  PROVE  \A c \in Calls : phase'[c] \in {"running", "done", ph[c]}
BY DEF ProcessQueue, Shift

\* Whoever is deduplicated is given an item that is its own and is alive.
THEOREM JoinsLiveItemHolds == Spec => JoinsLiveItem
<1>1. IInv /\ [Next]_vars =>
        [\A c \in Calls : phase[c] = "idle" /\ phase'[c] = "joined" =>
           /\ promise[promise'[c]] = promise'[c]
           /\ Alive(promise'[c])]_vars
  <2>. SUFFICES ASSUME IInv, Next, NEW c \in Calls, phase[c] = "idle", phase'[c] = "joined"
       PROVE  promise'[c] \in Live(phase)
    BY DEF IInv, Live, Alive, Waiting, Holders
  <2>1. ASSUME NEW d \in Calls, NEW k \in Keys \cup {NoKey}, NEW i \in Live(phase), Join(d, k, i)
        PROVE  promise'[c] \in Live(phase)
    BY <2>1 DEF Join, IInv, TypeOK
  <2>2. ASSUME NEW d \in Calls, NEW k \in Keys \cup {NoKey}, JoinActive(d, k)
        PROVE  promise'[c] \in Live(phase)
    <3>1. active[k] \in Live(phase)
      BY <2>2 DEF JoinActive, ActiveWith, IInv, TypeOK, Good, MapGood, Hold, Live
    <3>. QED
      BY <2>1, <2>2, <3>1 DEF JoinActive
  <2>3. ASSUME NEW d \in Calls, NEW k \in Keys \cup {NoKey}, JoinQueued(d, k)
        PROVE  promise'[c] \in Live(phase)
    <3>1. PICK x \in DOMAIN queue : Join(d, k, queue[x])
      BY <2>3 DEF JoinQueued, QueuedWith
    <3>2. queue[x] \in Live(phase)
      BY <3>1 DEF IInv, TypeOK, Good, QueueGood, Live
    <3>. QED
      BY <2>1, <3>1, <3>2
  <2>4. phase \in [Calls -> Phases]
    BY DEF IInv, TypeOK
  <2>5. ASSUME NEW d \in Calls
        PROVE  ~Finally(d) /\ ~TimeoutQueued(d)
    <3>1. ASSUME Finally(d) \/ TimeoutQueued(d)
          PROVE  phase'[c] \in {"running", "done", [phase EXCEPT ![d] = "done"][c]}
      BY <3>1, DrainPhases DEF Finally, TimeoutQueued
    <3>. QED
      BY <2>4, <3>1
  <2>6. ASSUME NEW d \in Calls, NEW k \in Keys \cup {NoKey}
        PROVE  ~Enqueue(d, k)
    <3>1. ASSUME Enqueue(d, k)
          PROVE  phase'[c] \in {"running", "done", [phase EXCEPT ![d] = "queued"][c]}
      BY <3>1, DrainPhases DEF Enqueue
    <3>. QED
      BY <2>4, <3>1
  <2>7. \A m \in ConcurrencyLevels : ~SetMaxConcurrency(m)
    BY DrainPhases DEF SetMaxConcurrency
  <2>8. /\ \A d \in Calls, k \in Keys \cup {NoKey} : ~Refuse(d, k)
        /\ \A d \in Calls, o \in {"resolved", "failed"} : ~ChildExit(d, o)
        /\ \A d \in Calls : ~Expire(d) /\ ~TimeoutRunning(d)
    BY <2>4 DEF Refuse, ChildExit, Expire, TimeoutRunning
  <2>. QED
    BY <2>2, <2>3, <2>5, <2>6, <2>7, <2>8 DEF Next, Execute
<1>. QED
  BY <1>1, InductiveInvariant, PTL DEF Spec, JoinsLiveItem

-----------------------------------------------------------------------------
(* The queue implements Dispatcher *)

\* Some of the items that wait start and others are answered.
Splits(ph, out) ==
  \E started, dropped \in SUBSET {c \in Calls : ph[c] = "queued"} :
     /\ started \cap dropped = {}
     /\ phase' = [c \in Calls |->
           IF c \in started THEN "running"
           ELSE IF c \in dropped THEN "done" ELSE ph[c]]
     /\ outcome' = [c \in Calls |-> IF c \in dropped THEN "timedOut" ELSE out[c]]

\* A drain takes items that wait: some start, the others are answered.
LEMMA DrainSplits ==
  ASSUME NEW q, NEW map, NEW n, NEW ph, NEW out,
         Good(q, map, n, ph, out, key'),
         ProcessQueue(q, map, n, ph, out)
  PROVE  Splits(ph, out)
<1>1. PICK p \in 0..Len(q) : Shift(q, p, map, n, ph, out)
  BY DEF ProcessQueue
<1>2. /\ q \in Seq(Calls) /\ Len(q) \in Nat
      /\ \A x \in 1..Len(q) : q[x] \in Calls /\ ph[q[x]] = "queued" /\ out[q[x]] = "pending"
      /\ \A x, y \in 1..Len(q) : q[x] = q[y] => x = y
  BY DEF Good, TypesGood, QueueGood, PendingGood
<1>. DEFINE starts  == StartsAt(q, p, out)
            started == {q[x] : x \in starts}
            dropped == {q[x] : x \in (1..p) \ starts}
<1>3. /\ phase' = [c \in Calls |->
            IF c \in started THEN "running"
            ELSE IF c \in dropped THEN "done" ELSE ph[c]]
      /\ outcome' = [c \in Calls |->
            IF c \in dropped /\ out[c] = "pending" THEN "timedOut" ELSE out[c]]
  BY <1>1 DEF Shift
<1>4. starts \subseteq 1..p /\ (1..p) \subseteq 1..Len(q)
  BY <1>2 DEF StartsAt
<1>5. /\ started \in SUBSET {c \in Calls : ph[c] = "queued"}
      /\ dropped \in SUBSET {c \in Calls : ph[c] = "queued"}
      /\ started \cap dropped = {}
      /\ \A c \in dropped : out[c] = "pending"
  BY <1>2, <1>4
<1>. HIDE DEF started, dropped
<1>6. outcome' = [c \in Calls |-> IF c \in dropped THEN "timedOut" ELSE out[c]]
  BY <1>3, <1>5
<1>. QED
  BY <1>3, <1>5, <1>6 DEF Splits

\* Whatever a drain is handed maps to Dispatch: `gone` gave its place back,
\* `came` was just pushed, `extra` was removed by its deadline.
LEMMA DrainDispatches ==
  ASSUME IInv, maxConcurrency' \in Nat,
         NEW q, NEW map, NEW n, NEW ph, NEW out,
         NEW gone \in SUBSET Hold(phase),
         NEW came \in SUBSET {c \in Calls : phase[c] = "idle"},
         NEW extra \in SUBSET {c \in Calls : phase[c] = "queued"},
         ph = [c \in Calls |-> IF c \in gone \cup extra THEN "done"
                               ELSE IF c \in came THEN "queued" ELSE phase[c]],
         out = [c \in Calls |-> IF c \in extra THEN "timedOut" ELSE outcome[c]],
         Good(q, map, n, ph, out, key'),
         ProcessQueue(q, map, n, ph, out)
  PROVE  Abstract!Dispatch(gone, came)
<1>0. \A S : Abstract!Cardinality(S) = Cardinality(S)
  BY DEF Abstract!Cardinality, Cardinality
<1>d. Splits(ph, out)
  BY DrainSplits
<1>1. PICK started \in SUBSET {c \in Calls : ph[c] = "queued"},
           dropped \in SUBSET {c \in Calls : ph[c] = "queued"} :
           /\ started \cap dropped = {}
           /\ phase' = [c \in Calls |->
                 IF c \in started THEN "running"
                 ELSE IF c \in dropped THEN "done" ELSE ph[c]]
           /\ outcome' = [c \in Calls |-> IF c \in dropped THEN "timedOut" ELSE out[c]]
  BY <1>d DEF Splits
<1>. DEFINE late == dropped \cup extra
<1>2. /\ Abstract!Waiting = {c \in Calls : phase[c] = "queued"}
      /\ Abstract!Running = Hold(phase)
  BY DEF Abstract!Waiting, Abstract!Running, stage, Hold, SlotPhases, Phases,
         IInv, TypeOK
<1>3. /\ gone \subseteq Calls /\ came \subseteq Calls /\ extra \subseteq Calls
      /\ \A c \in gone : phase[c] \in SlotPhases
      /\ \A c \in came : phase[c] = "idle"
      /\ \A c \in extra : phase[c] = "queued"
  BY DEF Hold
<1>4. \A c \in Calls : ph[c] = "queued" =>
        c \notin gone \cup extra /\ (c \in came \/ phase[c] = "queued")
  BY <1>3
<1>5. started \in SUBSET (Abstract!Waiting \cup came)
  BY <1>2, <1>4
<1>6. late \in SUBSET ((Abstract!Waiting \cup came) \ started)
  BY <1>1, <1>2, <1>3, <1>4
<1>7. Hold(phase') = (Abstract!Running \ gone) \cup started
  <2>1. Hold(phase') = Hold(ph) \cup started
    BY <1>1 DEF Hold, SlotPhases
  <2>2. Hold(ph) = Hold(phase) \ gone
    BY <1>3 DEF Hold, SlotPhases
  <2>. QED
    BY <2>1, <2>2, <1>2
<1>8. started # {} => Cardinality((Abstract!Running \ gone) \cup started) <= maxConcurrency'
  <2>1. Good(queue', active', activeCount', phase', outcome', key')
        /\ \A c \in Hold(phase') \ Hold(ph) : activeCount' <= maxConcurrency'
    BY DrainFacts
  <2>2. activeCount' = Cardinality(Hold(phase'))
    BY <2>1 DEF Good, SlotsGood
  <2>3. started \subseteq Hold(phase') \ Hold(ph)
    BY <1>7 DEF Hold, SlotPhases
  <2>. QED
    BY <2>1, <2>2, <2>3, <1>7
<1>9. stage' = [c \in Calls |->
          IF c \in started THEN "running"
          ELSE IF c \in late \cup gone THEN "over"
          ELSE IF c \in came THEN "waiting"
          ELSE stage[c]]
  <2>. SUFFICES ASSUME NEW c \in Calls
                PROVE  stage'[c] = IF c \in started THEN "running"
                                   ELSE IF c \in late \cup gone THEN "over"
                                   ELSE IF c \in came THEN "waiting"
                                   ELSE stage[c]
    BY DEF stage
  <2>1. CASE c \in started
    BY <2>1, <1>1, <1>3, <1>4 DEF stage, SlotPhases
  <2>2. CASE c \in late \cup gone
    <3>1. phase'[c] = "done" /\ c \notin started
      BY <2>2, <1>1, <1>3, <1>4, <1>6
    <3>. QED
      BY <2>2, <3>1 DEF stage, SlotPhases
  <2>3. CASE c \in came \ (started \cup late)
    <3>1. phase'[c] = "queued" /\ c \notin gone
      BY <2>3, <1>1, <1>3 DEF SlotPhases
    <3>. QED
      BY <2>3, <3>1 DEF stage, SlotPhases
  <2>4. CASE c \notin started \cup late \cup gone \cup came
    <3>1. phase'[c] = phase[c]
      BY <2>4, <1>1
    <3>. QED
      BY <2>4, <3>1 DEF stage
  <2>. QED
    BY <2>1, <2>2, <2>3, <2>4
<1>10. outcome' = [c \in Calls |-> IF c \in late THEN "timedOut" ELSE outcome[c]]
  BY <1>1
<1>. HIDE DEF late
<1>. QED
  BY <1>0, <1>5, <1>6, <1>8, <1>9, <1>10 DEF Abstract!Dispatch

\* .finally() runs only once its item's promise is settled (lines 177-199).
ExitedIsSettled == \A c \in Calls : phase[c] = "exited" => Settled(c)

\* Only an exit leads there, and it settles the promise.
LEMMA NextKeepsExitedIsSettled ==
  IInv /\ ExitedIsSettled /\ [Next]_vars => ExitedIsSettled'
<1>. SUFFICES ASSUME IInv, ExitedIsSettled, [Next]_vars,
                     NEW c \in Calls, phase'[c] = "exited"
              PROVE  Settled(c)'
  BY DEF ExitedIsSettled
<1>1. TypeOK /\ StepGood /\ TypeOK'
  BY NextKeepsIInv DEF IInv
<1>2. CASE phase[c] = "exited"
  BY <1>1, <1>2 DEF ExitedIsSettled, StepGood, Settled
<1>3. CASE phase[c] # "exited"
  <2>1. ASSUME NEW o \in {"resolved", "failed"}, ChildExit(c, o)
        PROVE  Settled(c)'
    BY <1>1, <2>1 DEF ChildExit, Settle, Settled, TypeOK
  <2>2. ASSUME NEW d \in Calls, NEW o \in {"resolved", "failed"}, ChildExit(d, o)
        PROVE  d = c
    BY <1>1, <1>3, <2>2 DEF ChildExit, TypeOK
  <2>3. ASSUME NEW d \in Calls
        PROVE  ~Finally(d) /\ ~TimeoutQueued(d)
    <3>1. ASSUME Finally(d) \/ TimeoutQueued(d)
          PROVE  phase'[c] \in {"running", "done", [phase EXCEPT ![d] = "done"][c]}
      BY <3>1, DrainPhases DEF Finally, TimeoutQueued
    <3>. QED
      BY <1>1, <1>3, <3>1 DEF TypeOK
  <2>4. ASSUME NEW d \in Calls, NEW k \in Keys \cup {NoKey}
        PROVE  ~Enqueue(d, k)
    <3>1. ASSUME Enqueue(d, k)
          PROVE  phase'[c] \in {"running", "done", [phase EXCEPT ![d] = "queued"][c]}
      BY <3>1, DrainPhases DEF Enqueue
    <3>. QED
      BY <1>1, <1>3, <3>1 DEF TypeOK
  <2>5. \A m \in ConcurrencyLevels : ~SetMaxConcurrency(m)
    BY <1>3, DrainPhases DEF SetMaxConcurrency
  <2>6. /\ \A d \in Calls, k \in Keys \cup {NoKey} :
             ~JoinActive(d, k) /\ ~JoinQueued(d, k) /\ ~Refuse(d, k)
        /\ \A d \in Calls : ~Expire(d) /\ ~TimeoutRunning(d)
        /\ ~UNCHANGED vars
    BY <1>1, <1>3
    DEF JoinActive, JoinQueued, Join, Refuse, Expire, TimeoutRunning, TypeOK, vars
  <2>. QED
    BY <2>1, <2>2, <2>3, <2>4, <2>5, <2>6 DEF Next, Execute
<1>. QED
  BY <1>2, <1>3

\* Who waits, who runs and who is new for the dispatcher.
LEMMA AbstractActors ==
  ASSUME IInv
  PROVE  /\ Abstract!Waiting = {c \in Calls : phase[c] = "queued"}
         /\ Abstract!Running = Hold(phase)
         /\ \A c \in Calls : phase[c] = "idle" => stage[c] = "new"
  BY DEF Abstract!Waiting, Abstract!Running, stage, Hold, SlotPhases, Phases,
         IInv, TypeOK

\* execute() shares, refuses or accepts (lines 71-141).
LEMMA ExecuteImplements ==
  ASSUME IInv, IInv', NEW c \in Calls, NEW k \in Keys \cup {NoKey}, Execute(c, k)
  PROVE  Abstract!Next
<1>0. /\ phase \in [Calls -> Phases]
      /\ queue \in Seq(Calls)
      /\ active \in [Keys -> Calls \cup {NoCall}]
      /\ \A x \in DOMAIN queue : phase[queue[x]] = "queued"
  BY DEF IInv, TypeOK, Good, QueueGood
<1>1. ASSUME NEW i \in Live(phase), key[i] = k, k # NoKey, phase[c] = "idle", Join(c, k, i)
      PROVE  Abstract!Share(c, k, i)
  <2>1. i \in Abstract!Running \cup Abstract!Waiting /\ stage[c] = "new"
    BY <1>1, AbstractActors DEF Live, Hold
  <2>2. stage' = [stage EXCEPT ![c] = "joined"]
    BY <1>0, <1>1 DEF Join, stage, SlotPhases
  <2>. QED
    BY <1>1, <2>1, <2>2 DEF Abstract!Share, Join
<1>2. CASE JoinActive(c, k)
  <2>1. active[k] \in Live(phase) /\ key[active[k]] = k
    BY <1>0, <1>2 DEF JoinActive, ActiveWith, IInv, Good, MapGood, Hold, Live
  <2>2. k # NoKey /\ active[k] \in Calls
    BY <2>1, <1>2, KeysAssumption DEF JoinActive, ActiveWith, Live
  <2>3. Abstract!Share(c, k, active[k])
    BY <1>1, <1>2, <2>1, <2>2 DEF JoinActive
  <2>. QED
    BY <2>2, <2>3 DEF Abstract!Next
<1>3. CASE JoinQueued(c, k)
  <2>1. PICK x \in QueuedWith(k) : Join(c, k, queue[x])
    BY <1>3 DEF JoinQueued
  <2>2. /\ queue[x] \in Live(phase) /\ key[queue[x]] = k /\ queue[x] \in Calls
        /\ k # NoKey
    BY <1>0, <2>1, KeysAssumption DEF QueuedWith, Live
  <2>3. Abstract!Share(c, k, queue[x])
    BY <1>1, <1>3, <2>1, <2>2 DEF JoinQueued
  <2>. QED
    BY <2>2, <2>3 DEF Abstract!Next
<1>4. CASE Refuse(c, k)
  <2>1. Len(queue) >= MaxQueueLength
    BY <1>4 DEF Refuse, QueueFull
  <2>2. queue # <<>>
    BY <1>0, <2>1, CapAssumption
  <2>3. activeCount = Cardinality(Abstract!Running) /\ activeCount >= maxConcurrency
    BY <2>2, AbstractActors DEF IInv, WorkConserving, Good, SlotsGood
  <2>4. Abstract!Cardinality(Abstract!Running) >= maxConcurrency
    <3>1. Abstract!Cardinality(Abstract!Running) = Cardinality(Abstract!Running)
      BY DEF Abstract!Cardinality, Cardinality
    <3>. QED
      BY <2>3, <3>1
  <2>5. stage' = [stage EXCEPT ![c] = "refused"] /\ stage[c] = "new"
    BY <1>0, <1>4, AbstractActors DEF Refuse, stage, SlotPhases
  <2>6. Abstract!Refuse(c, k)
    BY <1>4, <2>4, <2>5 DEF Abstract!Refuse, Refuse
  <2>. QED
    BY <2>6 DEF Abstract!Next
<1>5. CASE Enqueue(c, k)
  <2>. DEFINE ph == [phase EXCEPT ![c] = "queued"]
              q  == Push(queue, c)
  <2>1. Good(q, active, activeCount, ph, outcome, key')
    BY <1>5, EnqueueKeepsIInv
  <2>2. ph = [d \in Calls |-> IF d \in {} \cup {} THEN "done"
                              ELSE IF d \in {c} THEN "queued" ELSE phase[d]]
    BY <1>0
  <2>3. outcome = [d \in Calls |-> IF d \in {} THEN "timedOut" ELSE outcome[d]]
    BY DEF IInv, TypeOK
  <2>4. /\ {c} \in SUBSET {d \in Calls : phase[d] = "idle"}
        /\ {} \in SUBSET Hold(phase) /\ {} \in SUBSET {d \in Calls : phase[d] = "queued"}
        /\ maxConcurrency' \in Nat
        /\ ProcessQueue(q, active, activeCount, ph, outcome)
    BY <1>5, LevelAssumption DEF Enqueue, IInv, TypeOK
  <2>. HIDE DEF ph, q
  <2>5. Abstract!Dispatch({}, {c})
    BY <2>1, <2>2, <2>3, <2>4, DrainDispatches
  <2>6. k = NoKey \/ \A i \in Abstract!Running \cup Abstract!Waiting : key[i] # k
    <3>. SUFFICES ASSUME k # NoKey, NEW i \in Live(phase), key[i] = k
                  PROVE  FALSE
      BY AbstractActors DEF Live, Hold
    <3>1. CASE i \in Hold(phase)
      <4>1. active[k] = i
        BY <3>1 DEF IInv, Good, MapGood, Hold
      <4>. QED
        BY <4>1, <1>5, CallsAssumption DEF Enqueue, ActiveWith, Live
    <3>2. CASE phase[i] = "queued"
      <4>1. PICK x \in 1..Len(queue) : queue[x] = i
        BY <3>2 DEF IInv, Good, QueueGood, Live
      <4>. QED
        BY <4>1, <1>0, <1>5 DEF Enqueue, QueuedWith
    <3>. QED
      BY <3>1, <3>2 DEF Live, Hold
  <2>7. stage[c] = "new"
    BY <1>5, AbstractActors DEF Enqueue
  <2>8. Abstract!Accept(c, k)
    BY <1>5, <2>5, <2>6, <2>7 DEF Abstract!Accept, Enqueue
  <2>. QED
    BY <2>8 DEF Abstract!Next
<1>. QED
  BY <1>2, <1>3, <1>4, <1>5 DEF Execute

\* .finally() gives the place back and dispatches (lines 192-199).
LEMMA FinallyImplements ==
  ASSUME IInv, ExitedIsSettled, NEW c \in Calls, Finally(c)
  PROVE  Abstract!Next
<1>. DEFINE map == ReleaseKey(c)
            n   == activeCount - 1
            ph  == [phase EXCEPT ![c] = "done"]
<1>1. Good(queue, map, n, ph, outcome, key') /\ ProcessQueue(queue, map, n, ph, outcome)
  BY FinallyKeepsIInv DEF Finally
<1>2. phase \in [Calls -> Phases] /\ outcome \in [Calls -> Outcomes]
      /\ phase[c] = "exited" /\ outcome[c] # "pending" /\ maxConcurrency' \in Nat
  BY LevelAssumption DEF IInv, TypeOK, Finally, ExitedIsSettled, Settled
<1>3. ph = [d \in Calls |-> IF d \in {c} \cup {} THEN "done"
                            ELSE IF d \in {} THEN "queued" ELSE phase[d]]
  BY <1>2
<1>4. outcome = [d \in Calls |-> IF d \in {} THEN "timedOut" ELSE outcome[d]]
  BY <1>2
<1>5. /\ {c} \in SUBSET Hold(phase)
      /\ {} \in SUBSET {d \in Calls : phase[d] = "idle"}
      /\ {} \in SUBSET {d \in Calls : phase[d] = "queued"}
  BY <1>2 DEF Hold, SlotPhases
<1>. HIDE DEF map, n, ph
<1>6. Abstract!Dispatch({c}, {})
  BY <1>1, <1>2, <1>3, <1>4, <1>5, DrainDispatches
<1>7. stage[c] = "running"
  BY <1>2 DEF stage, SlotPhases
<1>8. Abstract!Leave(c)
  BY <1>2, <1>6, <1>7 DEF Abstract!Leave, Finally
<1>. QED
  BY <1>8 DEF Abstract!Next

\* The deadline of an item that waits gives it up (lines 210-216).
LEMMA TimeoutQueuedImplements ==
  ASSUME IInv, NEW c \in Calls, TimeoutQueued(c)
  PROVE  Abstract!Next
<1>. DEFINE ph  == [phase EXCEPT ![c] = "done"]
            out == [outcome EXCEPT ![c] = "timedOut"]
<1>1. /\ phase[c] = "queued"
      /\ \E i \in DOMAIN queue :
            /\ Good(RemoveAt(queue, i), active, activeCount, ph, out, key')
            /\ ProcessQueue(RemoveAt(queue, i), active, activeCount, ph, out)
  BY TimeoutQueuedKeepsIInv
<1>2. phase \in [Calls -> Phases] /\ outcome \in [Calls -> Outcomes]
      /\ maxConcurrency' \in Nat
  BY LevelAssumption DEF IInv, TypeOK, TimeoutQueued
<1>3. ph = [d \in Calls |-> IF d \in {} \cup {c} THEN "done"
                            ELSE IF d \in {} THEN "queued" ELSE phase[d]]
  BY <1>2
<1>4. out = [d \in Calls |-> IF d \in {c} THEN "timedOut" ELSE outcome[d]]
  BY <1>2
<1>5. /\ {} \in SUBSET Hold(phase)
      /\ {} \in SUBSET {d \in Calls : phase[d] = "idle"}
      /\ {c} \in SUBSET {d \in Calls : phase[d] = "queued"}
  BY <1>1
<1>. HIDE DEF ph, out
<1>6. PICK q : Good(q, active, activeCount, ph, out, key')
               /\ ProcessQueue(q, active, activeCount, ph, out)
  BY <1>1
<1>7. Abstract!Dispatch({}, {})
  BY <1>2, <1>3, <1>4, <1>5, <1>6, DrainDispatches
<1>8. Abstract!GiveUp
  BY <1>7 DEF Abstract!GiveUp, TimeoutQueued
<1>. QED
  BY <1>8 DEF Abstract!Next

\* setMaxConcurrency() sets the limit and dispatches (lines 252-255).
LEMMA SetMaxConcurrencyImplements ==
  ASSUME IInv, NEW n \in ConcurrencyLevels, SetMaxConcurrency(n)
  PROVE  Abstract!Next
<1>1. /\ Good(queue, active, activeCount, phase, outcome, key')
      /\ ProcessQueue(queue, active, activeCount, phase, outcome)
      /\ maxConcurrency' \in Nat
  BY LevelAssumption DEF IInv, SetMaxConcurrency
<1>2. phase = [d \in Calls |-> IF d \in {} \cup {} THEN "done"
                               ELSE IF d \in {} THEN "queued" ELSE phase[d]]
  BY DEF IInv, TypeOK
<1>3. outcome = [d \in Calls |-> IF d \in {} THEN "timedOut" ELSE outcome[d]]
  BY DEF IInv, TypeOK
<1>4. /\ {} \in SUBSET Hold(phase)
      /\ {} \in SUBSET {d \in Calls : phase[d] = "idle"}
      /\ {} \in SUBSET {d \in Calls : phase[d] = "queued"}
  OBVIOUS
<1>5. Abstract!Dispatch({}, {})
  BY <1>1, <1>2, <1>3, <1>4, DrainDispatches
<1>6. Abstract!SetLimit(n)
  BY <1>5 DEF Abstract!SetLimit, SetMaxConcurrency
<1>. QED
  BY <1>6 DEF Abstract!Next

\* An exit answers its item, or changes nothing that the callers see.
LEMMA ExitImplements ==
  ASSUME IInv, NEW c \in Calls, NEW o \in {"resolved", "failed"}, ChildExit(c, o)
  PROVE  [Abstract!Next]_(Abstract!vars)
<1>1. phase \in [Calls -> Phases] /\ stage[c] = "running"
  BY DEF IInv, TypeOK, ChildExit, stage, SlotPhases
<1>2. stage' = stage
  BY <1>1 DEF ChildExit, stage, SlotPhases
<1>3. CASE Settled(c)
  BY <1>2, <1>3 DEF ChildExit, Settle, Abstract!vars
<1>4. CASE ~Settled(c)
  <2>1. Abstract!Answer(c, o)
    BY <1>1, <1>2, <1>4 DEF ChildExit, Settle, Settled, Abstract!Answer
  <2>. QED
    BY <2>1 DEF Abstract!Next
<1>. QED
  BY <1>3, <1>4

\* The deadline of an item that runs answers it (lines 219-226).
LEMMA DeadlineImplements ==
  ASSUME IInv, NEW c \in Calls, TimeoutRunning(c)
  PROVE  Abstract!Next
<1>1. phase \in [Calls -> Phases] /\ stage[c] = "running"
  BY DEF IInv, TypeOK, TimeoutRunning, stage, SlotPhases
<1>2. stage' = stage
  BY <1>1 DEF TimeoutRunning, stage, SlotPhases
<1>3. Abstract!Answer(c, "timedOut")
  BY <1>1, <1>2 DEF TimeoutRunning, Settled, Abstract!Answer
<1>. QED
  BY <1>3 DEF Abstract!Next

\* The clock is no concern of the dispatcher.
LEMMA ClockImplements ==
  ASSUME NEW c \in Calls, Expire(c)
  PROVE  UNCHANGED Abstract!vars
BY DEF Expire, Abstract!vars, stage

\* The queue, the map, the counter and the timers implement the single-flight
\* dispatcher (lines 71-255).
THEOREM ImplementsDispatcherHolds == Spec => ImplementsDispatcher
<1>1. Init => Abstract!Init
  BY DEF Init, Abstract!Init, stage
<1>2. Init => ExitedIsSettled
  BY DEF Init, ExitedIsSettled
<1>3. IInv /\ ExitedIsSettled /\ [Next]_vars => [Abstract!Next]_(Abstract!vars)
  <2>. SUFFICES ASSUME IInv, ExitedIsSettled, [Next]_vars
                PROVE  [Abstract!Next]_(Abstract!vars)
    OBVIOUS
  <2>1. IInv'
    BY NextKeepsIInv
  <2>2. CASE Next
    BY <2>1, <2>2, ExecuteImplements, ExitImplements, FinallyImplements,
       ClockImplements, TimeoutQueuedImplements, DeadlineImplements,
       SetMaxConcurrencyImplements DEF Next
  <2>3. CASE UNCHANGED vars
    BY <2>3 DEF vars, Abstract!vars, stage
  <2>. QED
    BY <2>2, <2>3
<1>. QED
  BY <1>1, <1>2, <1>3, NextKeepsExitedIsSettled, InductiveInvariant, PTL
  DEF Spec, ImplementsDispatcher, Abstract!Spec

-----------------------------------------------------------------------------
(* First come, first served *)

InTurn ==
  \A a, b \in Calls :
    /\ Ahead(a, b) \/ (Waiting(a) /\ phase[b] = "idle")
    /\ Waiting(a)'
    => ~Started(b) /\ (Waiting(b)' => Ahead(a, b)')

\* A prefix leaves the queue: who goes on waiting keeps everybody behind it.
LEMMA DrainOrder ==
  ASSUME NEW q, NEW map, NEW n, NEW ph, NEW out,
         Good(q, map, n, ph, out, key'),
         ProcessQueue(q, map, n, ph, out),
         NEW x \in 1..Len(q), NEW y \in 1..Len(q), x < y,
         phase'[q[x]] = "queued"
  PROVE  ~Started(q[y]) /\ Ahead(q[x], q[y])'
<1>1. PICK p \in 0..Len(q) : Shift(q, p, map, n, ph, out)
  BY DEF ProcessQueue
<1>2. /\ q \in Seq(Calls) /\ Len(q) \in Nat
      /\ q[x] \in Calls /\ q[y] \in Calls /\ ph[q[y]] = "queued"
      /\ \A z, v \in 1..Len(q) : q[z] = q[v] => z = v
  BY DEF Good, TypesGood, QueueGood
<1>3. ~(x \in 1..p)
  BY <1>1, <1>2 DEF Shift
<1>4. /\ queue' \in Seq(Calls) /\ Len(queue') = Len(q) - p
      /\ \A z \in 1..(Len(q) - p) : queue'[z] = q[z + p]
  BY <1>1, <1>2 DEF Shift
<1>5. /\ x - p \in DOMAIN queue' /\ y - p \in DOMAIN queue' /\ x - p < y - p
      /\ queue'[x - p] = q[x] /\ queue'[y - p] = q[y]
  <2>1. x - p \in 1..(Len(q) - p) /\ y - p \in 1..(Len(q) - p)
    BY <1>2, <1>3
  <2>2. (x - p) + p = x /\ (y - p) + p = y /\ x - p < y - p
    BY <1>2
  <2>. QED
    BY <1>4, <2>1, <2>2
<1>6. phase'[q[y]] = "queued"
  <2>1. ~(y \in 1..p)
    BY <1>2, <1>3
  <2>2. \A z \in 1..p : q[z] # q[y]
    BY <1>2, <2>1
  <2>. QED
    BY <1>1, <1>2, <2>2 DEF Shift, StartsAt
<1>. QED
  BY <1>5, <1>6 DEF Ahead, Started, Holders, SlotPhases

\* The queue that is drained holds the items in the order they came.
LEMMA DrainInTurn ==
  ASSUME NEW q, NEW map, NEW n, NEW ph, NEW out,
         Good(q, map, n, ph, out, key'),
         ProcessQueue(q, map, n, ph, out),
         \A a, b \in Calls :
           /\ Ahead(a, b) \/ (Waiting(a) /\ phase[b] = "idle")
           /\ ph[a] = "queued"
           => \/ ph[b] \in {"idle", "done"}
              \/ \E x, y \in 1..Len(q) : x < y /\ q[x] = a /\ q[y] = b
  PROVE  InTurn
<1>. SUFFICES ASSUME NEW a \in Calls, NEW b \in Calls,
                     Ahead(a, b) \/ (Waiting(a) /\ phase[b] = "idle"),
                     Waiting(a)'
              PROVE  ~Started(b) /\ (Waiting(b)' => Ahead(a, b)')
  BY DEF InTurn
<1>1. ph[a] = "queued"
  BY DrainPhases DEF Waiting
<1>2. CASE ph[b] \in {"idle", "done"}
  <2>1. Splits(ph, out)
    BY DrainSplits
  <2>2. phase'[b] = ph[b]
    BY <1>2, <2>1 DEF Splits
  <2>. QED
    BY <1>2, <2>2 DEF Started, Holders, SlotPhases, Waiting
<1>3. CASE \E x, y \in 1..Len(q) : x < y /\ q[x] = a /\ q[y] = b
  BY <1>3, DrainOrder DEF Waiting
<1>. QED
  BY <1>1, <1>2, <1>3

\* A step that leaves the queue alone overtakes nobody.
LEMMA QuietInTurn ==
  ASSUME IInv, queue' = queue,
         \A c \in Calls : /\ phase[c] = "queued" => phase'[c] = "queued"
                          /\ phase[c] = "idle" => phase'[c] \in {"idle", "joined", "refused"}
  PROVE  InTurn
<1>1. \A x \in DOMAIN queue : phase[queue[x]] = "queued"
  BY DEF IInv, TypeOK, Good, QueueGood
<1>. QED
  BY <1>1 DEF InTurn, Ahead, Waiting, Started, Holders, SlotPhases

LEMMA NextInTurn == IInv /\ [Next]_vars => InTurn
<1>. SUFFICES ASSUME IInv, [Next]_vars PROVE InTurn
  OBVIOUS
<1>0. /\ queue \in Seq(Calls) /\ Len(queue) \in Nat /\ DOMAIN queue = 1..Len(queue)
      /\ phase \in [Calls -> Phases]
      /\ \A x, y \in 1..Len(queue) : queue[x] = queue[y] => x = y
      /\ \A c \in Calls : phase[c] = "queued" <=> \E x \in 1..Len(queue) : queue[x] = c
  BY DEF IInv, TypeOK, Good, QueueGood
<1>1. ASSUME NEW c \in Calls, NEW k \in Keys \cup {NoKey},
             JoinActive(c, k) \/ JoinQueued(c, k) \/ Refuse(c, k)
      PROVE  InTurn
  BY <1>0, <1>1, QuietInTurn DEF JoinActive, JoinQueued, Join, Refuse
<1>2. ASSUME NEW c \in Calls, NEW k \in Keys \cup {NoKey}, Enqueue(c, k)
      PROVE  InTurn
  <2>. DEFINE q  == Push(queue, c)
              ph == [phase EXCEPT ![c] = "queued"]
  <2>1. /\ Good(q, active, activeCount, ph, outcome, key')
        /\ ProcessQueue(q, active, activeCount, ph, outcome)
    BY <1>2, EnqueueKeepsIInv DEF Enqueue
  <2>2. /\ Len(q) = Len(queue) + 1 /\ q[Len(queue) + 1] = c
        /\ \A x \in 1..Len(queue) : q[x] = queue[x]
    BY <1>0 DEF Push
  <2>3. ASSUME NEW a \in Calls, NEW b \in Calls,
               Ahead(a, b) \/ (Waiting(a) /\ phase[b] = "idle")
        PROVE  \/ ph[b] \in {"idle", "done"}
               \/ \E x, y \in 1..Len(q) : x < y /\ q[x] = a /\ q[y] = b
    <3>1. CASE Ahead(a, b)
      <4>1. PICK x \in 1..Len(queue), y \in 1..Len(queue) :
              x < y /\ queue[x] = a /\ queue[y] = b
        BY <1>0, <3>1 DEF Ahead
      <4>. QED
        BY <1>0, <2>2, <4>1
    <3>2. CASE Waiting(a) /\ phase[b] = "idle" /\ b = c
      <4>1. PICK x \in 1..Len(queue) : queue[x] = a
        BY <1>0, <3>2 DEF Waiting
      <4>. QED
        BY <1>0, <2>2, <3>2, <4>1
    <3>3. CASE phase[b] = "idle" /\ b # c
      BY <1>0, <3>3
    <3>. QED
      BY <2>3, <3>1, <3>2, <3>3
  <2>. HIDE DEF q, ph
  <2>. QED
    BY <2>1, <2>3, DrainInTurn
<1>3. ASSUME NEW c \in Calls, Finally(c)
      PROVE  InTurn
  <2>. DEFINE ph == [phase EXCEPT ![c] = "done"]
  <2>1. /\ Good(queue, ReleaseKey(c), activeCount - 1, ph, outcome, key')
        /\ ProcessQueue(queue, ReleaseKey(c), activeCount - 1, ph, outcome)
    BY <1>3, FinallyKeepsIInv DEF Finally
  <2>2. ASSUME NEW a \in Calls, NEW b \in Calls,
               Ahead(a, b) \/ (Waiting(a) /\ phase[b] = "idle")
        PROVE  \/ ph[b] \in {"idle", "done"}
               \/ \E x, y \in 1..Len(queue) : x < y /\ queue[x] = a /\ queue[y] = b
    BY <1>0, <2>2 DEF Ahead
  <2>. HIDE DEF ph
  <2>. QED
    BY <2>1, <2>2, DrainInTurn
<1>4. ASSUME NEW c \in Calls, TimeoutQueued(c)
      PROVE  InTurn
  <2>. DEFINE ph  == [phase EXCEPT ![c] = "done"]
              out == [outcome EXCEPT ![c] = "timedOut"]
  <2>1. PICK i \in DOMAIN queue :
          /\ queue[i] = c
          /\ Good(RemoveAt(queue, i), active, activeCount, ph, out, key')
          /\ ProcessQueue(RemoveAt(queue, i), active, activeCount, ph, out)
    BY <1>4, TimeoutQueuedKeepsIInv
  <2>. DEFINE q == RemoveAt(queue, i)
  <2>2. /\ Len(q) = Len(queue) - 1
        /\ \A x \in 1..(Len(queue) - 1) : q[x] = IF x < i THEN queue[x] ELSE queue[x + 1]
    <3>1. queue \in Seq(Calls) /\ i \in 1..Len(queue)
      BY <1>0
    <3>. QED
      BY <3>1, RemoveAtFacts
  <2>3. ASSUME NEW a \in Calls, NEW b \in Calls,
               Ahead(a, b) \/ (Waiting(a) /\ phase[b] = "idle"), ph[a] = "queued"
        PROVE  \/ ph[b] \in {"idle", "done"}
               \/ \E x, y \in 1..Len(q) : x < y /\ q[x] = a /\ q[y] = b
    <3>1. CASE phase[b] = "idle" \/ b = c
      BY <1>0, <3>1
    <3>2. CASE Ahead(a, b) /\ b # c
      <4>1. PICK x \in 1..Len(queue), y \in 1..Len(queue) :
              x < y /\ queue[x] = a /\ queue[y] = b
        BY <1>0, <3>2 DEF Ahead
      <4>2. x # i /\ y # i /\ i \in 1..Len(queue)
        BY <1>0, <2>1, <2>3, <3>2, <4>1
      <4>. DEFINE u == IF x < i THEN x ELSE x - 1
                  v == IF y < i THEN y ELSE y - 1
      <4>3. u \in 1..(Len(queue) - 1) /\ v \in 1..(Len(queue) - 1) /\ u < v
        BY <1>0, <4>1, <4>2
      <4>4. q[u] = a
        <5>1. CASE x < i
          BY <2>2, <4>1, <4>3, <5>1
        <5>2. CASE x > i
          <6>1. u = x - 1 /\ ~(u < i) /\ u + 1 = x
            BY <4>2, <5>2
          <6>. QED
            BY <2>2, <4>1, <4>3, <6>1
        <5>. QED
          BY <4>2, <5>1, <5>2
      <4>5. q[v] = b
        <5>1. CASE y < i
          BY <2>2, <4>1, <4>3, <5>1
        <5>2. CASE y > i
          <6>1. v = y - 1 /\ ~(v < i) /\ v + 1 = y
            BY <4>2, <5>2
          <6>. QED
            BY <2>2, <4>1, <4>3, <6>1
        <5>. QED
          BY <4>2, <5>1, <5>2
      <4>. QED
        BY <2>2, <4>3, <4>4, <4>5
    <3>. QED
      BY <2>3, <3>1, <3>2
  <2>. HIDE DEF q, ph, out
  <2>4. Good(q, active, activeCount, ph, out, key')
        /\ ProcessQueue(q, active, activeCount, ph, out)
    BY <2>1 DEF q
  <2>. QED
    BY <2>3, <2>4, DrainInTurn
<1>5. ASSUME NEW m \in ConcurrencyLevels, SetMaxConcurrency(m)
      PROVE  InTurn
  <2>1. /\ Good(queue, active, activeCount, phase, outcome, key')
        /\ ProcessQueue(queue, active, activeCount, phase, outcome)
    BY <1>5 DEF IInv, SetMaxConcurrency
  <2>2. \A a, b \in Calls :
          Ahead(a, b) \/ (Waiting(a) /\ phase[b] = "idle") =>
            \/ phase[b] \in {"idle", "done"}
            \/ \E x, y \in 1..Len(queue) : x < y /\ queue[x] = a /\ queue[y] = b
    BY <1>0 DEF Ahead
  <2>. QED
    BY <2>1, <2>2, DrainInTurn
<1>6. ASSUME NEW c \in Calls,
             \/ \E o \in {"resolved", "failed"} : ChildExit(c, o)
             \/ Expire(c) \/ TimeoutRunning(c)
      PROVE  InTurn
  BY <1>0, <1>6, QuietInTurn DEF ChildExit, Expire, TimeoutRunning
<1>7. CASE UNCHANGED vars
  BY <1>7, QuietInTurn DEF vars
<1>. QED
  BY <1>1, <1>2, <1>3, <1>4, <1>5, <1>6, <1>7 DEF Next, Execute

\* Nothing overtakes an item that goes on waiting (lines 139, 147, 212).
THEOREM FirstComeFirstServedHolds == Spec => FirstComeFirstServed
<1>1. IInv /\ [Next]_vars =>
        [\A a, b \in Calls :
           /\ Ahead(a, b) \/ (Waiting(a) /\ phase[b] = "idle")
           /\ Waiting(a)'
           => ~Started(b) /\ (Waiting(b)' => Ahead(a, b)')]_vars
  BY NextInTurn DEF InTurn
<1>. QED
  BY <1>1, InductiveInvariant, PTL DEF Spec, FirstComeFirstServed

-----------------------------------------------------------------------------
(* What liveness rests on *)

\* Naturals are well ordered.
LEMMA LeastNumber ==
  ASSUME NEW S \in SUBSET Nat, S # {}
  PROVE  \E m \in S : \A n \in S : m <= n
<1>1. PICK m \in S : \A n \in S : ~ (<<n, m>> \in OpToRel(<, Nat))
  BY NatLessThanWellFounded, WFMin
<1>2. \A n \in S : ~(n < m)
  BY <1>1 DEF OpToRel
<1>. QED
  BY <1>2

\* The loop of processQueue() ends, and where it ends is determined by the
\* queue, the deadlines and the free slots: no handler that calls it can be
\* held up by it, and none has a choice (lines 145-174).
THEOREM DrainDetermined ==
  ASSUME NEW q \in Seq(Calls), NEW free \in Int, NEW out
  PROVE  \E p \in 0..Len(q) :
            /\ IsDrain(q, p, free, out)
            /\ \A r \in 0..Len(q) : IsDrain(q, r, free, out) => r = p
<1>. DEFINE Ends(p) == p = Len(q) \/ Cardinality(StartsAt(q, p, out)) >= free
            S == {p \in 0..Len(q) : Ends(p)}
<1>0. Len(q) \in Nat
  OBVIOUS
<1>1. ASSUME NEW p \in 0..Len(q)
      PROVE  Cardinality(StartsAt(q, p, out)) \in Nat
  <2>1. IsFiniteSet(1..p)
    BY <1>0, FS_Interval
  <2>2. IsFiniteSet(StartsAt(q, p, out))
    BY <2>1, FS_Subset DEF StartsAt
  <2>. QED
    BY <2>2, FS_CardinalityType
<1>2. PICK p \in S : \A r \in S : p <= r
  <2>1. S \in SUBSET Nat /\ Len(q) \in S
    BY <1>0
  <2>. HIDE DEF S
  <2>. QED
    BY <2>1, LeastNumber
<1>3. IsDrain(q, p, free, out)
  <2>1. ASSUME NEW r \in 0..(p - 1)
        PROVE  Cardinality(StartsAt(q, r, out)) < free
    <3>1. r \in 0..Len(q) /\ r \notin S
      BY <1>0, <1>2
    <3>. QED
      BY <1>0, <1>1, <3>1
  <2>. QED
    BY <1>0, <1>2, <2>1 DEF IsDrain
<1>4. ASSUME NEW r \in 0..Len(q), IsDrain(q, r, free, out)
      PROVE  r = p
  <2>1. r \in S
    BY <1>4 DEF IsDrain
  <2>2. p <= r
    BY <1>2, <2>1
  <2>3. ASSUME p < r
        PROVE  FALSE
    <3>1. p \in 0..(r - 1)
      BY <1>0, <1>2, <2>3
    <3>2. Cardinality(StartsAt(q, p, out)) < free
      BY <1>4, <3>1 DEF IsDrain
    <3>3. p # Len(q)
      BY <1>0, <2>3
    <3>. QED
      BY <1>0, <1>1, <1>2, <3>2, <3>3
  <2>. QED
    BY <1>0, <1>2, <2>2, <2>3
<1>. HIDE DEF S
<1>. QED
  BY <1>2, <1>3, <1>4 DEF S

\* What a step may do to a call: its life in the queue, one way only.
Moves(c) ==
  \/ phase'[c] = phase[c]
  \/ phase[c] = "idle" /\ phase'[c] \in {"joined", "refused", "queued"}
  \/ phase[c] \in {"idle", "queued"} /\ phase'[c] = "running"
  \/ phase[c] \in {"idle", "queued"} /\ phase'[c] = "done" /\ Settled(c)'
  \/ phase[c] = "running" /\ phase'[c] \in {"aborted", "exited"} /\ Settled(c)'
  \/ phase[c] = "aborted" /\ phase'[c] = "exited"
  \/ phase[c] = "exited" /\ phase'[c] = "done"

\* An item is its own promise, a call that was deduplicated was given an item.
Promised(c) ==
  /\ phase[c] \notin {"idle", "refused"} => promise'[c] = promise[c]
  /\ phase[c] = "idle" /\ phase'[c] \in {"queued", "running", "done"} => promise'[c] = c
  /\ phase[c] = "idle" /\ phase'[c] = "joined" => promise'[c] \in Live(phase)

LEMMA DrainMoves ==
  ASSUME NEW q, NEW map, NEW n, NEW ph, NEW out,
         Good(q, map, n, ph, out, key'),
         ProcessQueue(q, map, n, ph, out),
         NEW c \in Calls
  PROVE  \/ phase'[c] = ph[c]
         \/ ph[c] = "queued" /\ phase'[c] = "running"
         \/ ph[c] = "queued" /\ phase'[c] = "done" /\ Settled(c)'
<1>1. Splits(ph, out)
  BY DrainSplits
<1>. QED
  BY <1>1 DEF Splits, Settled

LEMMA NextMoves ==
  IInv /\ [Next]_vars => \A c \in Calls : Moves(c) /\ Promised(c)
<1>. SUFFICES ASSUME IInv, [Next]_vars, NEW c \in Calls PROVE Moves(c) /\ Promised(c)
  OBVIOUS
<1>0. /\ phase \in [Calls -> Phases] /\ promise \in [Calls -> Calls \cup {NoCall}]
      /\ outcome \in [Calls -> Outcomes]
      /\ \A x \in DOMAIN queue : queue[x] \in Live(phase)
      /\ \A k \in Keys : active[k] # NoCall => active[k] \in Live(phase)
  BY DEF IInv, TypeOK, Good, QueueGood, MapGood, Live, Hold
<1>1. ASSUME NEW d \in Calls, NEW k \in Keys \cup {NoKey},
             JoinActive(d, k) \/ JoinQueued(d, k)
      PROVE  Moves(c) /\ Promised(c)
  <2>1. PICK i \in Live(phase) : Join(d, k, i)
    BY <1>0, <1>1 DEF JoinActive, ActiveWith, JoinQueued, QueuedWith
  <2>. QED
    BY <1>0, <1>1, <2>1 DEF JoinActive, JoinQueued, Join, Moves, Promised
<1>2. ASSUME NEW d \in Calls, NEW k \in Keys \cup {NoKey}, Refuse(d, k)
      PROVE  Moves(c) /\ Promised(c)
  BY <1>0, <1>2 DEF Refuse, Moves, Promised
<1>3. ASSUME NEW d \in Calls, NEW k \in Keys \cup {NoKey}, Enqueue(d, k)
      PROVE  Moves(c) /\ Promised(c)
  <2>. DEFINE ph == [phase EXCEPT ![d] = "queued"]
  <2>1. /\ Good(Push(queue, d), active, activeCount, ph, outcome, key')
        /\ ProcessQueue(Push(queue, d), active, activeCount, ph, outcome)
    BY <1>3, EnqueueKeepsIInv DEF Enqueue
  <2>2. phase[d] = "idle" /\ promise' = [promise EXCEPT ![d] = d]
    BY <1>3 DEF Enqueue
  <2>3. \/ phase'[c] = ph[c]
        \/ ph[c] = "queued" /\ phase'[c] = "running"
        \/ ph[c] = "queued" /\ phase'[c] = "done" /\ Settled(c)'
    <3>. HIDE DEF ph
    <3>. QED
      BY <2>1, DrainMoves
  <2>. QED
    BY <1>0, <2>2, <2>3 DEF Moves, Promised
<1>4. ASSUME NEW d \in Calls, Finally(d)
      PROVE  Moves(c) /\ Promised(c)
  <2>. DEFINE ph == [phase EXCEPT ![d] = "done"]
  <2>1. /\ Good(queue, ReleaseKey(d), activeCount - 1, ph, outcome, key')
        /\ ProcessQueue(queue, ReleaseKey(d), activeCount - 1, ph, outcome)
    BY <1>4, FinallyKeepsIInv DEF Finally
  <2>2. phase[d] = "exited" /\ promise' = promise
    BY <1>4 DEF Finally
  <2>3. \/ phase'[c] = ph[c]
        \/ ph[c] = "queued" /\ phase'[c] = "running"
        \/ ph[c] = "queued" /\ phase'[c] = "done" /\ Settled(c)'
    <3>. HIDE DEF ph
    <3>. QED
      BY <2>1, DrainMoves
  <2>. QED
    BY <1>0, <2>2, <2>3 DEF Moves, Promised
<1>5. ASSUME NEW d \in Calls, TimeoutQueued(d)
      PROVE  Moves(c) /\ Promised(c)
  <2>. DEFINE ph  == [phase EXCEPT ![d] = "done"]
              out == [outcome EXCEPT ![d] = "timedOut"]
  <2>1. PICK i \in DOMAIN queue :
          /\ Good(RemoveAt(queue, i), active, activeCount, ph, out, key')
          /\ ProcessQueue(RemoveAt(queue, i), active, activeCount, ph, out)
    BY <1>5, TimeoutQueuedKeepsIInv
  <2>2. phase[d] = "queued" /\ promise' = promise
    BY <1>5, TimeoutQueuedKeepsIInv DEF TimeoutQueued
  <2>3. /\ \/ phase'[c] = ph[c]
           \/ ph[c] = "queued" /\ phase'[c] = "running"
           \/ ph[c] = "queued" /\ phase'[c] = "done" /\ Settled(c)'
        /\ Splits(ph, out)
    <3>. HIDE DEF ph, out
    <3>. QED
      BY <2>1, DrainMoves, DrainSplits
  <2>4. Settled(d)'
    BY <1>0, <2>3 DEF Splits, Settled
  <2>. QED
    BY <1>0, <2>2, <2>3, <2>4 DEF Moves, Promised
<1>6. ASSUME NEW m \in ConcurrencyLevels, SetMaxConcurrency(m)
      PROVE  Moves(c) /\ Promised(c)
  <2>1. /\ Good(queue, active, activeCount, phase, outcome, key')
        /\ ProcessQueue(queue, active, activeCount, phase, outcome)
        /\ promise' = promise
    BY <1>6 DEF IInv, SetMaxConcurrency
  <2>. QED
    BY <1>0, <2>1, DrainMoves DEF Moves, Promised
<1>7. ASSUME NEW d \in Calls, NEW o \in {"resolved", "failed"}, ChildExit(d, o)
      PROVE  Moves(c) /\ Promised(c)
  BY <1>0, <1>7 DEF ChildExit, Settle, Settled, Moves, Promised
<1>8. ASSUME NEW d \in Calls, Expire(d) \/ TimeoutRunning(d)
      PROVE  Moves(c) /\ Promised(c)
  BY <1>0, <1>8 DEF Expire, TimeoutRunning, Settled, Moves, Promised
<1>9. CASE UNCHANGED vars
  BY <1>9 DEF vars, Moves, Promised
<1>. QED
  BY <1>1, <1>2, <1>3, <1>4, <1>5, <1>6, <1>7, <1>8, <1>9 DEF Next, Execute

\* An execution never comes back: once it runs it never waits again, once it
\* is over it never runs again.  A delete is executed once at most.
Age(c) ==
  CASE phase[c] = "idle" -> 0
    [] phase[c] = "queued" -> 1
    [] phase[c] = "running" -> 2
    [] phase[c] = "aborted" -> 3
    [] phase[c] = "exited" -> 4
    [] phase[c] \in {"done", "joined", "refused"} -> 5

LivesForward == [][\A c \in Calls : phase'[c] = phase[c] \/ Age(c) < Age(c)']_vars

\* An item passes through its phases once, in one direction, whatever
\* timeouts, exits and changes of the limit come (RequestQueue.ts:139-206).
THEOREM LivesGoForward == Spec => LivesForward
<1>1. IInv /\ [Next]_vars =>
        [\A c \in Calls : phase'[c] = phase[c] \/ Age(c) < Age(c)']_vars
  <2>. SUFFICES ASSUME IInv, [Next]_vars, NEW c \in Calls, phase'[c] # phase[c]
       PROVE  Age(c) < Age(c)'
    OBVIOUS
  <2>1. Moves(c)
    BY NextMoves
  <2>. QED
    BY <2>1 DEF Moves, Age
<1>. QED
  BY <1>1, InductiveInvariant, PTL DEF Spec, LivesForward

\* A caller that was not answered yet waits for an item that waits or runs, so
\* that its deadline is still to come or its timer is still to fire: no item
\* leaves the queue, by whatever way, with its callers unanswered.
CallersOwed ==
  \A c \in Calls : phase[c] # "idle" /\ ~Answered(c) =>
    /\ promise[c] \in Calls
    /\ phase[promise[c]] \in {"queued", "running"}

ItemPhases == SlotPhases \cup {"queued", "done"}

PromisesGood ==
  /\ \A c \in Calls : phase[c] \in ItemPhases => promise[c] = c
  /\ \A c \in Calls : phase[c] = "joined" =>
       promise[c] \in Calls /\ phase[promise[c]] \in ItemPhases
  /\ \A c \in Calls : phase[c] \in {"aborted", "exited", "done"} => Settled(c)

LEMMA NextPromises == IInv /\ PromisesGood /\ [Next]_vars => PromisesGood'
<1>. SUFFICES ASSUME IInv, PromisesGood, [Next]_vars PROVE PromisesGood'
  OBVIOUS
<1>1. \A c \in Calls : Moves(c) /\ Promised(c)
  BY NextMoves
<1>2. \A c \in Calls : Settled(c) => Settled(c)'
  BY NextKeepsIInv DEF StepGood, Settled
<1>3. phase \in [Calls -> Phases] /\ phase' \in [Calls -> Phases]
  BY NextKeepsIInv DEF IInv, TypeOK
<1>4. \A c \in Calls : phase[c] \in ItemPhases => phase'[c] \in ItemPhases
  BY <1>1, <1>3 DEF Moves, ItemPhases, SlotPhases
<1>5. ASSUME NEW c \in Calls, phase'[c] \in ItemPhases
      PROVE  promise'[c] = c
  BY <1>1, <1>3, <1>5 DEF Moves, Promised, PromisesGood, ItemPhases, SlotPhases
<1>6. ASSUME NEW c \in Calls, phase'[c] = "joined"
      PROVE  promise'[c] \in Calls /\ phase'[promise'[c]] \in ItemPhases
  <2>1. phase[c] \in {"idle", "joined"}
    BY <1>1, <1>3, <1>6 DEF Moves
  <2>2. promise'[c] \in Calls /\ phase[promise'[c]] \in ItemPhases
    BY <1>1, <1>6, <2>1 DEF Promised, PromisesGood, Live, ItemPhases, SlotPhases
  <2>. QED
    BY <1>4, <2>2
<1>7. ASSUME NEW c \in Calls, phase'[c] \in {"aborted", "exited", "done"}
      PROVE  Settled(c)'
  BY <1>1, <1>2, <1>3, <1>7 DEF Moves, PromisesGood
<1>. QED
  BY <1>5, <1>6, <1>7 DEF PromisesGood

\* Every caller without an answer waits for an item that is queued or runs
\* (RequestQueue.ts:72-137, 155-206).
THEOREM CallersAreOwed == Spec => []CallersOwed
<1>1. Init => PromisesGood
  BY DEF Init, PromisesGood, ItemPhases, SlotPhases
<1>2. IInv /\ PromisesGood => CallersOwed
  <2>. SUFFICES ASSUME IInv, PromisesGood, NEW c \in Calls,
                       phase[c] # "idle", ~Answered(c)
       PROVE  promise[c] \in Calls /\ phase[promise[c]] \in {"queued", "running"}
    BY DEF CallersOwed
  <2>1. phase \in [Calls -> Phases] /\ NoCall \notin Calls
    BY CallsAssumption DEF IInv, TypeOK
  <2>2. promise[c] \in Calls /\ phase[promise[c]] \in ItemPhases
    BY <2>1 DEF PromisesGood, Answered, ItemPhases, SlotPhases, Phases
  <2>3. ~Settled(promise[c])
    BY <2>1, <2>2 DEF Answered
  <2>. QED
    BY <2>2, <2>3 DEF PromisesGood, ItemPhases, SlotPhases
<1>. QED
  BY <1>1, <1>2, NextPromises, InductiveInvariant, PTL DEF Spec
=============================================================================
