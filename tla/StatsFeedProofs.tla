--------------------------- MODULE StatsFeedProofs ---------------------------
(* Proofs about StatsFeed, for any samples and bounds, and about Downsample. *)
EXTENDS StatsFeed, Downsample, FiniteSetTheorems, TLAPS

Tags == Nat \X Nat
Steps == {"idle", "nodes", "pods", "top", "persist", "writing"}
Storing == {"persist", "writing"}

\* Tags are ordered by process, then by capture.
Before(d, e) == d[1] < e[1] \/ (d[1] = e[1] /\ d[2] < e[2])
UpTo(d, e) == d = e \/ Before(d, e)

TypesGood ==
  /\ boot \in Nat /\ version \in [Feeds -> Nat] /\ data \in [Feeds -> Tags]
  /\ step \in [Feeds -> Steps] /\ DOMAIN asks = Feeds
  /\ page \in [Feeds -> [etag : Tags \cup {None}, data : Tags \cup {None}]]
  /\ overtaken \in BOOLEAN

\* A loop waits for a listing while it is at "pods" only, and the loop that
\* started a listing waits for it.
LoopsGood ==
  /\ listing \subseteq Feeds
  /\ \A f \in Feeds : asks[f] \in Feeds => step[f] = "pods"
  /\ \A p \in listing : asks[p] = p

\* What an answer of tag e and payload d tells of the server: the tag is none
\* of a later capture, and if it is the server's the payload is too, but for
\* the time in which the usage capture stores its file.
Current(f, e, d) == e = Etag(f) /\ step[f] \notin Storing => d = data[f]

PageGood ==
  \A f \in Feeds :
    page[f].etag # None =>
      /\ UpTo(page[f].etag, Etag(f))
      /\ ~overtaken => Current(f, page[f].etag, page[f].data)

\* A poll carries a tag the page held; a 304 repeats that tag.
PollGood(q) ==
  /\ q = [feed |-> q.feed, match |-> q.match, reply |-> q.reply]
  /\ q.feed \in Feeds /\ q.match \in Tags \cup {None}
  /\ q.match # None /\ ~overtaken =>
       page[q.feed].etag # None /\ UpTo(q.match, page[q.feed].etag)
  /\ q.reply # None =>
       /\ q.reply.etag \in Tags /\ q.reply.data \in Tags \cup {None}
       /\ UpTo(q.reply.etag, Etag(q.feed))
       /\ IF q.reply.data = None THEN q.match = q.reply.etag
          ELSE Current(q.feed, q.reply.etag, q.reply.data)

PollsGood == \A q \in polls : PollGood(q)

IInv == TypesGood /\ LoopsGood /\ PageGood /\ PollsGood

-----------------------------------------------------------------------------
LEMMA OrderFacts ==
  ASSUME NEW c \in Tags, NEW d \in Tags, NEW e \in Tags
  PROVE  /\ UpTo(c, d) /\ UpTo(d, e) => UpTo(c, e)
         /\ UpTo(c, d) /\ Before(d, e) => Before(c, e) /\ c # e
         /\ UpTo(c, d) /\ UpTo(d, c) => c = d
         /\ UpTo(c, d) \/ Before(d, c)
BY DEF Tags, UpTo, Before

\* What the server may do to a feed while a page looks away: raise its tag, or
\* leave the tag and either be storing or leave the payload as well.
Moves(f) ==
  \/ Before(Etag(f), Etag(f)')
  \/ /\ Etag(f)' = Etag(f)
     /\ step'[f] \in Storing \/ (step[f] \notin Storing /\ data'[f] = data[f])

\* Such a move takes no answer back.
LEMMA MovesKeepCurrent ==
  ASSUME TypesGood, TypesGood', NEW f \in Feeds, Moves(f), NEW e \in Tags, NEW d,
         UpTo(e, Etag(f))
  PROVE  UpTo(e, Etag(f)') /\ (Current(f, e, d) => Current(f, e, d)')
<1>1. Etag(f) \in Tags /\ Etag(f)' \in Tags
  BY DEF TypesGood, Etag, Tags
<1>2. CASE Before(Etag(f), Etag(f)')
  <2>1. Before(e, Etag(f)') /\ e # Etag(f)'
    BY <1>1, <1>2, OrderFacts
  <2>. QED
    BY <2>1 DEF UpTo, Current
<1>3. CASE /\ Etag(f)' = Etag(f)
           /\ step'[f] \in Storing \/ (step[f] \notin Storing /\ data'[f] = data[f])
  BY <1>3 DEF Current
<1>. QED
  BY <1>2, <1>3 DEF Moves

LEMMA MovesKeepPages ==
  ASSUME IInv, TypesGood', \A f \in Feeds : Moves(f), UNCHANGED <<page, overtaken>>,
         polls' \subseteq polls
  PROVE  PageGood' /\ PollsGood'
<1>. USE DEF IInv
<1>1. PageGood'
  <2>. SUFFICES ASSUME NEW f \in Feeds, page[f].etag # None
       PROVE  /\ UpTo(page[f].etag, Etag(f)')
              /\ ~overtaken => Current(f, page[f].etag, page[f].data)'
    BY DEF PageGood
  <2>1. page[f].etag \in Tags
    BY DEF TypesGood
  <2>2. UpTo(page[f].etag, Etag(f)) /\ (~overtaken => Current(f, page[f].etag, page[f].data))
    BY DEF PageGood
  <2>. QED
    BY <2>1, <2>2, MovesKeepCurrent
<1>2. PollsGood'
  <2>. SUFFICES ASSUME NEW q \in polls
       PROVE  PollGood(q)'
    BY DEF PollsGood
  <2>1. PollGood(q)
    BY DEF PollsGood
  <2>2. ASSUME q.reply # None
        PROVE  /\ UpTo(q.reply.etag, Etag(q.feed)')
               /\ Current(q.feed, q.reply.etag, q.reply.data)
                    => Current(q.feed, q.reply.etag, q.reply.data)'
    <3>1. q.feed \in Feeds /\ q.reply.etag \in Tags /\ UpTo(q.reply.etag, Etag(q.feed))
      BY <2>1, <2>2 DEF PollGood
    <3>. QED
      BY <3>1, MovesKeepCurrent
  <2>. QED
    BY <2>1, <2>2 DEF PollGood
<1>. QED
  BY <1>1, <1>2

-----------------------------------------------------------------------------
LEMMA InitIInv == Init => IInv
<1>. SUFFICES ASSUME Init
     PROVE  IInv
  OBVIOUS
<1>1. TypesGood
  BY DEF Init, TypesGood, Tags, Steps, Feeds
<1>2. LoopsGood
  BY NoneAssumption DEF Init, LoopsGood
<1>3. PageGood /\ PollsGood
  BY DEF Init, PageGood, PollsGood
<1>. QED
  BY <1>1, <1>2, <1>3 DEF IInv

\* Asking for the pods (kubernetesCommand(), lines 35-50).
LEMMA AskFacts ==
  ASSUME TypesGood, LoopsGood, NEW f \in Feeds, step[f] \in {"idle", "nodes"}, AskPods(f)
  PROVE  /\ step' \in [Feeds -> Steps] /\ DOMAIN asks' = Feeds /\ LoopsGood'
         /\ step'[f] \in {"pods", "top"}
         /\ \A g \in Feeds \ {f} : step'[g] = step[g]
<1>1. f \notin listing
  BY DEF LoopsGood
<1>2. None \notin Feeds
  BY NoneAssumption
<1>3. CASE snap # None /\ ~aged /\ snap \in listing
  BY <1>1, <1>2, <1>3 DEF AskPods, TypesGood, LoopsGood, Steps
<1>4. CASE snap # None /\ ~aged /\ snap \notin listing
  BY <1>1, <1>2, <1>4 DEF AskPods, TypesGood, LoopsGood, Steps
<1>5. CASE ~(snap # None /\ ~aged)
  BY <1>1, <1>2, <1>5 DEF AskPods, TypesGood, LoopsGood, Steps
<1>. QED
  BY <1>3, <1>4, <1>5

\* A listing ends, and its waiters go on to s (lines 44-50).
LEMMA AnswerFacts ==
  ASSUME TypesGood, LoopsGood, NEW p \in listing, NEW s \in {"top", "idle"},
         listing' = listing \ {p},
         step' = [f \in Feeds |-> IF f \in Waiting(p) THEN s ELSE step[f]],
         asks' = [f \in Feeds |-> IF f \in Waiting(p) THEN None ELSE asks[f]]
  PROVE  /\ step' \in [Feeds -> Steps] /\ DOMAIN asks' = Feeds /\ LoopsGood'
         /\ step'[p] = s /\ p \in Feeds
         /\ \A f \in Feeds : step'[f] \in Storing <=> step[f] \in Storing
<1>1. p \in Feeds /\ p \in Waiting(p)
  BY DEF LoopsGood, Waiting
<1>2. \A f \in Waiting(p) : f \in Feeds /\ step[f] = "pods"
  BY <1>1 DEF LoopsGood, Waiting
<1>3. LoopsGood'
  BY <1>1, <1>2, NoneAssumption DEF LoopsGood, Waiting
<1>. QED
  BY <1>1, <1>2, <1>3 DEF TypesGood, Steps, Storing

\* The loop of f goes from one command to the next, its listing done.
LEMMA LoopFacts ==
  ASSUME TypesGood, LoopsGood, NEW f \in Feeds, step[f] # "pods", NEW s \in Steps,
         step' = [step EXCEPT ![f] = s], UNCHANGED <<asks, listing>>
  PROVE  /\ step' \in [Feeds -> Steps] /\ DOMAIN asks' = Feeds /\ LoopsGood'
         /\ step'[f] = s
         /\ \A g \in Feeds \ {f} : step'[g] = step[g]
BY DEF TypesGood, LoopsGood

\* A capture that is published has a new tag.
LEMMA PublishFacts ==
  ASSUME TypesGood, NEW f \in Feeds, Publish(f), UNCHANGED boot
  PROVE  /\ version' \in [Feeds -> Nat]
         /\ Before(Etag(f), Etag(f)')
         /\ \A g \in Feeds \ {f} : Etag(g)' = Etag(g)
BY DEF TypesGood, Publish, Before, Etag

LEMMA FreshFacts ==
  ASSUME TypesGood, NEW f \in Feeds, data' = Fresh(f)
  PROVE  data' \in [Feeds -> Tags] /\ \A g \in Feeds \ {f} : data'[g] = data[g]
BY DEF TypesGood, Fresh, Tags

\* What every step of the server does to the pages: nothing, or it answers.
ServerStep ==
  \/ Capture \/ Age \/ Reload \/ Restart \/ \E f \in Feeds : Tick(f)

LEMMA ServerMoves ==
  ASSUME TypesGood, LoopsGood, ServerStep
  PROVE  /\ TypesGood' /\ LoopsGood' /\ \A f \in Feeds : Moves(f)
         /\ UNCHANGED <<page, overtaken>> /\ polls' \subseteq polls
<1>0. /\ "nodes" \in Feeds /\ "pods" \in Feeds /\ {"idle", "nodes"} \subseteq Steps
      /\ {"persist", "writing", "top"} \subseteq Steps
  BY DEF Feeds, Steps
<1>1. ASSUME NEW f \in Feeds, step[f] \in {"idle", "nodes"}, AskPods(f),
             UNCHANGED <<boot, feedVars, pageVars>>
      PROVE  /\ TypesGood' /\ LoopsGood' /\ \A g \in Feeds : Moves(g)
             /\ UNCHANGED <<page, overtaken>> /\ polls' \subseteq polls
  <2>1. UNCHANGED <<boot, data, version, page, overtaken, polls>>
    BY <1>1 DEF feedVars, pageVars
  <2>2. TypesGood' /\ LoopsGood'
    BY <1>1, <2>1, AskFacts DEF TypesGood
  <2>3. \A g \in Feeds : Moves(g)
    BY <1>1, <2>1, AskFacts DEF Moves, Etag, Storing
  <2>. QED
    BY <2>1, <2>2, <2>3
<1>2. ASSUME NEW p \in listing, PodsListed(p) \/ PodsFailed(p)
      PROVE  /\ TypesGood' /\ LoopsGood' /\ \A f \in Feeds : Moves(f)
             /\ UNCHANGED <<page, overtaken>> /\ polls' \subseteq polls
  <2>1. UNCHANGED <<boot, data, version, page, overtaken, polls>>
    BY <1>2 DEF PodsListed, PodsFailed, feedVars, pageVars
  <2>2. PICK s \in {"top", "idle"} :
          step' = [f \in Feeds |-> IF f \in Waiting(p) THEN s ELSE step[f]]
    BY <1>2 DEF PodsListed, PodsFailed, Release
  <2>3. /\ listing' = listing \ {p}
        /\ asks' = [f \in Feeds |-> IF f \in Waiting(p) THEN None ELSE asks[f]]
    BY <1>2 DEF PodsListed, PodsFailed
  <2>4. /\ step' \in [Feeds -> Steps] /\ DOMAIN asks' = Feeds /\ LoopsGood'
        /\ \A f \in Feeds : step'[f] \in Storing <=> step[f] \in Storing
    BY <2>2, <2>3, AnswerFacts
  <2>. QED
    BY <2>1, <2>4 DEF TypesGood, Moves, Etag
\* A step of the loop of f that publishes.
<1>3. ASSUME NEW f \in Feeds, step[f] # "pods", step' = [step EXCEPT ![f] = "idle"],
             Publish(f), data' = data \/ data' = Fresh(f),
             UNCHANGED <<boot, asks, listing, pageVars>>
      PROVE  /\ TypesGood' /\ LoopsGood' /\ \A g \in Feeds : Moves(g)
             /\ UNCHANGED <<page, overtaken>> /\ polls' \subseteq polls
  <2>1. UNCHANGED <<page, overtaken, polls>>
    BY <1>3 DEF pageVars
  <2>2. data' \in [Feeds -> Tags] /\ \A g \in Feeds \ {f} : data'[g] = data[g]
    BY <1>3, FreshFacts DEF TypesGood
  <2>3. TypesGood' /\ LoopsGood'
    BY <1>0, <1>3, <2>1, <2>2, LoopFacts, PublishFacts DEF TypesGood
  <2>4. \A g \in Feeds : Moves(g)
    BY <1>0, <1>3, <2>2, LoopFacts, PublishFacts DEF Moves
  <2>. QED
    BY <2>1, <2>3, <2>4
\* A step of the loop of f that does not.
<1>4. ASSUME NEW f \in Feeds, step[f] # "pods", NEW s \in Steps,
             step' = [step EXCEPT ![f] = s],
             \/ s \in Storing /\ data' = Fresh(f)
             \/ s \in Storing /\ data' = data
             \/ step[f] \notin Storing /\ data' = data,
             UNCHANGED <<boot, version, asks, listing, pageVars>>
      PROVE  /\ TypesGood' /\ LoopsGood' /\ \A g \in Feeds : Moves(g)
             /\ UNCHANGED <<page, overtaken>> /\ polls' \subseteq polls
  <2>1. UNCHANGED <<page, overtaken, polls>>
    BY <1>4 DEF pageVars
  <2>2. data' \in [Feeds -> Tags] /\ \A g \in Feeds \ {f} : data'[g] = data[g]
    BY <1>4, FreshFacts DEF TypesGood
  <2>3. TypesGood' /\ LoopsGood'
    BY <1>4, <2>1, <2>2, LoopFacts DEF TypesGood
  <2>4. \A g \in Feeds : Moves(g)
    BY <1>4, <2>2, LoopFacts DEF Moves, Etag
  <2>. QED
    BY <2>1, <2>3, <2>4
<1>5. CASE NodesListed \/ \E f \in Feeds : Tick(f) /\ f # "nodes"
  BY <1>0, <1>1, <1>5 DEF NodesListed, Tick
<1>6. CASE NodesMissing
  BY <1>0, <1>3, <1>6 DEF NodesMissing
<1>7. CASE NodesCaptured
  BY <1>0, <1>3, <1>7 DEF NodesCaptured
<1>8. CASE PodsMissing
  BY <1>0, <1>3, <1>8 DEF PodsMissing
<1>9. CASE FileWritten \/ PersistFailed
  BY <1>0, <1>3, <1>9 DEF FileWritten, PersistFailed
<1>10. CASE NodesFailed \/ \E f \in Feeds : Tick(f) /\ f = "nodes"
  <2>1. PICK s \in {"idle", "nodes"} : step' = [step EXCEPT !["nodes"] = s]
    BY <1>10 DEF NodesFailed, Tick, Release, TypesGood
  <2>2. step["nodes"] \in {"idle", "nodes"} /\ data' = data
    BY <1>10 DEF NodesFailed, Tick, feedVars
  <2>3. UNCHANGED <<boot, version, asks, listing, pageVars>>
    BY <1>10 DEF NodesFailed, Tick, feedVars
  <2>. QED
    BY <1>0, <1>4, <2>1, <2>2, <2>3 DEF Storing
<1>11. CASE PodsCaptured
  BY <1>0, <1>4, <1>11 DEF PodsCaptured, Storing
<1>12. CASE OpenFile
  BY <1>0, <1>4, <1>12 DEF OpenFile, Storing
<1>13. CASE Age \/ Reload
  BY <1>13 DEF Age, Reload, feedVars, pageVars, TypesGood, LoopsGood, Moves, Etag
<1>14. CASE Restart
  <2>1. TypesGood' /\ LoopsGood'
    BY <1>14, NoneAssumption DEF Restart, TypesGood, LoopsGood, Tags, Steps
  <2>2. \A f \in Feeds : Moves(f)
    BY <1>14 DEF Restart, TypesGood, Moves, Before, Etag
  <2>. QED
    BY <1>14, <2>1, <2>2 DEF Restart
<1>. QED
  BY <1>2, <1>5, <1>6, <1>7, <1>8, <1>9, <1>10, <1>11, <1>12, <1>13, <1>14
     DEF ServerStep, Capture, PodsListed, PodsFailed

-----------------------------------------------------------------------------
\* What the page and the routes leave alone.
PageStep == UNCHANGED <<boot, captureVars, feedVars>>

LEMMA PageStepFacts ==
  ASSUME PageStep
  PROVE  /\ \A f \in Feeds : Etag(f)' = Etag(f)
         /\ UNCHANGED <<boot, version, data, step, asks, listing>>
         /\ \A f \in Feeds : \A e, d : Current(f, e, d)' <=> Current(f, e, d)
BY DEF PageStep, captureVars, feedVars, Etag, Current

LEMMA PageStepKeepsPoll ==
  ASSUME PageStep, UNCHANGED <<page, overtaken>>, NEW q, PollGood(q)
  PROVE  PollGood(q)'
BY PageStepFacts DEF PollGood

LEMMA PollKeepsIInv ==
  ASSUME IInv, NEW f \in Polled, Poll(f)
  PROVE  IInv'
<1>. USE DEF IInv
<1>1. PageStep /\ UNCHANGED <<page, overtaken>>
  BY DEF Poll, PageStep
<1>2. TypesGood' /\ LoopsGood' /\ PageGood'
  BY <1>1, PageStepFacts DEF TypesGood, LoopsGood, PageGood, Current
<1>3. PICK q : q = [feed |-> f, match |-> page[f].etag, reply |-> None]
  OBVIOUS
<1>4. PollGood(q)
  <2>1. f \in Feeds /\ page[f].etag \in Tags \cup {None}
    BY PolledAssumption DEF TypesGood
  <2>. QED
    BY <1>3, <2>1 DEF PollGood, UpTo
<1>5. polls' = polls \cup {q}
  BY <1>3 DEF Poll
<1>6. PollsGood'
  BY <1>1, <1>4, <1>5, PageStepKeepsPoll DEF PollsGood
<1>. QED
  BY <1>2, <1>6

\* The route answers with the payload and its tag (StatsEtag.ts:42-55).
LEMMA ServeKeepsIInv ==
  ASSUME IInv, NEW q \in polls, Serve(q)
  PROVE  IInv'
<1>. USE DEF IInv
<1>1. PageStep /\ UNCHANGED <<page, overtaken>>
  BY DEF Serve, PageStep
<1>2. TypesGood' /\ LoopsGood' /\ PageGood'
  BY <1>1, PageStepFacts DEF TypesGood, LoopsGood, PageGood, Current
<1>3. PICK r : r = [q EXCEPT !.reply = Reply(q)]
  OBVIOUS
<1>4. PollGood(r)
  <2>1. PollGood(q) /\ q.feed \in Feeds
    BY DEF PollsGood, PollGood
  <2>2. r = [feed |-> q.feed, match |-> q.match, reply |-> Reply(q)]
    BY <1>3, <2>1 DEF PollGood
  <2>3. r.feed = q.feed /\ r.match = q.match /\ r.reply = Reply(q)
    BY <2>2
  <2>4. /\ r.reply.etag = Etag(q.feed)
        /\ r.reply.data = IF q.match = Etag(q.feed) THEN None ELSE data[q.feed]
    BY <2>3 DEF Reply
  <2>5. Etag(q.feed) \in Tags /\ data[q.feed] \in Tags /\ None \notin Tags
    BY <2>1, NoneAssumption DEF TypesGood, Etag, Tags
  <2>. QED
    BY <2>1, <2>2, <2>3, <2>4, <2>5 DEF PollGood, UpTo, Current
<1>5. polls' = (polls \ {q}) \cup {r}
  BY <1>3 DEF Serve
<1>6. PollsGood'
  BY <1>1, <1>4, <1>5, PageStepKeepsPoll DEF PollsGood
<1>. QED
  BY <1>2, <1>6

\* The page takes an answer: one that is older than what it holds is counted
\* as overtaken, and any other brings its tag and, unless it is a 304 of the
\* very tag the page holds, its payload.
LEMMA ReceiveKeepsIInv ==
  ASSUME IInv, NEW q \in polls, Receive(q)
  PROVE  IInv'
<1>. USE DEF IInv
<1>1. PageStep /\ polls' = polls \ {q}
  BY DEF Receive, PageStep
<1>2. PICK f \in Feeds, e \in Tags, d \in Tags \cup {None} :
        /\ f = q.feed /\ e = q.reply.etag /\ d = q.reply.data
  BY DEF Receive, PollsGood, PollGood
<1>3. /\ UpTo(e, Etag(f))
      /\ IF d = None THEN q.match = e ELSE Current(f, e, d)
      /\ q.match # None /\ ~overtaken => page[f].etag # None /\ UpTo(q.match, page[f].etag)
  BY <1>2 DEF Receive, PollsGood, PollGood
<1>4. /\ page' = [page EXCEPT ![f] = [etag |-> e, data |-> IF d = None THEN @.data ELSE d]]
      /\ overtaken' = (overtaken \/ Older(e, page[f].etag))
  BY <1>2 DEF Receive
<1>5. /\ page'[f].etag = e
      /\ page'[f].data = IF d = None THEN page[f].data ELSE d
      /\ \A g \in Feeds \ {f} : page'[g] = page[g]
  BY <1>4 DEF TypesGood
<1>6. None \notin Tags
  BY NoneAssumption DEF Tags
<1>7. ASSUME ~overtaken'
      PROVE  ~overtaken /\ (page[f].etag # None => UpTo(page[f].etag, e))
  <2>1. ~overtaken /\ ~Older(e, page[f].etag)
    BY <1>4, <1>7 DEF TypesGood
  <2>2. page[f].etag # None => ~Before(e, page[f].etag) /\ page[f].etag \in Tags
    BY <2>1 DEF Older, Before, TypesGood
  <2>. QED
    BY <2>1, <2>2, OrderFacts
<1>8. TypesGood' /\ LoopsGood'
  <2>1. overtaken' \in BOOLEAN
    BY <1>4 DEF TypesGood, Older
  <2>2. page' \in [Feeds -> [etag : Tags \cup {None}, data : Tags \cup {None}]]
    BY <1>4 DEF TypesGood
  <2>. QED
    BY <1>1, <2>1, <2>2, PageStepFacts DEF TypesGood, LoopsGood
<1>9. PageGood'
  <2>1. ASSUME NEW g \in Feeds \ {f}, page'[g].etag # None
        PROVE  /\ UpTo(page'[g].etag, Etag(g))
               /\ ~overtaken' => Current(g, page'[g].etag, page'[g].data)
    BY <1>5, <1>7, <2>1 DEF PageGood
  <2>2. ASSUME ~overtaken'
        PROVE  Current(f, e, page'[f].data)
    <3>1. CASE d = None
      <4>1. page[f].etag # None /\ UpTo(e, page[f].etag) /\ UpTo(page[f].etag, e)
        BY <1>3, <1>6, <1>7, <2>2, <3>1
      <4>2. page[f].etag = e
        BY <4>1, OrderFacts DEF TypesGood
      <4>. QED
        BY <1>5, <1>7, <2>2, <3>1, <4>1, <4>2 DEF PageGood
    <3>2. CASE d # None
      BY <1>3, <1>5, <3>2
    <3>. QED
      BY <3>1, <3>2
  <2>. QED
    BY <1>1, <1>3, <1>5, <2>1, <2>2, PageStepFacts DEF PageGood, Current
<1>10. PollsGood'
  <2>. SUFFICES ASSUME NEW r \in polls
       PROVE  PollGood(r)'
    BY <1>1 DEF PollsGood
  <2>1. PollGood(r)
    BY DEF PollsGood
  <2>2. ASSUME r.match # None, ~overtaken'
        PROVE  page'[r.feed].etag # None /\ UpTo(r.match, page'[r.feed].etag)
    <3>1. /\ r.feed \in Feeds /\ r.match \in Tags
          /\ page[r.feed].etag # None /\ UpTo(r.match, page[r.feed].etag)
          /\ page[r.feed].etag \in Tags
      BY <1>7, <2>1, <2>2 DEF PollGood, TypesGood
    <3>2. CASE r.feed = f
      BY <1>5, <1>6, <1>7, <2>2, <3>1, <3>2, OrderFacts
    <3>3. CASE r.feed # f
      BY <1>5, <3>1, <3>3
    <3>. QED
      BY <3>2, <3>3
  <2>. QED
    BY <1>1, <2>1, <2>2, PageStepFacts DEF PollGood
<1>. QED
  BY <1>8, <1>9, <1>10

LEMMA NextIInv == IInv /\ [Next]_vars => IInv'
<1>. SUFFICES ASSUME IInv, [Next]_vars
     PROVE  IInv'
  OBVIOUS
<1>1. CASE ServerStep
  BY <1>1, ServerMoves, MovesKeepPages DEF IInv
<1>2. CASE \E f \in Polled : Poll(f)
  BY <1>2, PollKeepsIInv
<1>3. CASE \E q \in polls : Serve(q) \/ Receive(q)
  BY <1>3, ServeKeepsIInv, ReceiveKeepsIInv
<1>4. CASE \/ \E q \in polls : PollFails(q)
           \/ UNCHANGED vars
  <2>1. PageStep /\ UNCHANGED <<page, overtaken>> /\ polls' \subseteq polls
    BY <1>4 DEF PollFails, PageStep, vars, pageVars
  <2>2. TypesGood' /\ LoopsGood' /\ PageGood'
    BY <2>1, PageStepFacts DEF IInv, TypesGood, LoopsGood, PageGood, Current
  <2>3. PollsGood'
    BY <2>1, PageStepKeepsPoll DEF IInv, PollsGood
  <2>. QED
    BY <2>2, <2>3 DEF IInv
<1>. QED
  BY <1>1, <1>2, <1>3, <1>4 DEF Next, ServerStep

\* A page that holds the server's tag shows the server's payload, across
\* captures and restarts: a 304 never confirms anything else, unless an older
\* answer overtook a newer one or the usage file is being written
\* (StatsEtag.ts:42-55, StatsDataPodUsage.ts:256-259).
THEOREM EtagConfirms == Spec => []NotModifiedIsCurrent
<1>1. IInv => NotModifiedIsCurrent
  <2>. SUFFICES ASSUME IInv, NEW f \in Feeds, ~overtaken, page[f].etag = Etag(f),
                       step[f] \notin Storing
       PROVE  page[f].data = data[f]
    BY DEF NotModifiedIsCurrent, Storing
  <2>1. page[f].etag # None
    BY NoneAssumption DEF IInv, TypesGood, Etag
  <2>. QED
    BY <2>1 DEF IInv, PageGood, Current
<1>. QED
  BY InitIInv, NextIInv, <1>1, PTL DEF Spec

-----------------------------------------------------------------------------
\* A failed listing is given to nobody who asks later, and only its own
\* failure, its age or a reload takes a shared listing away
\* (StatsDataUtils.ts:35-50).
THEOREM ListingShared == Spec => SharedListingIsUsable
<1>. DEFINE Usable ==
       /\ \A p \in listing \ listing' : snap' = p => step'[p] = "top"
       /\ snap' = None /\ snap \in listing \cap listing' => Reload
<1>1. IInv /\ [Next]_vars => [Usable]_vars
  <2>. SUFFICES ASSUME IInv, Next
       PROVE  Usable
    BY DEF vars
  <2>0. None \notin Feeds /\ listing \subseteq Feeds
    BY NoneAssumption DEF IInv, LoopsGood
  <2>1. ASSUME NEW f \in Feeds, AskPods(f)
        PROVE  Usable
    BY <2>0, <2>1 DEF AskPods
  <2>2. ASSUME NEW p \in listing, PodsListed(p)
        PROVE  Usable
    BY <2>0, <2>2, AnswerFacts DEF IInv, PodsListed
  <2>3. ASSUME NEW p \in listing, PodsFailed(p)
        PROVE  Usable
    BY <2>0, <2>3 DEF PodsFailed, DropFailed
  <2>4. CASE UNCHANGED <<listing, snap>>
    BY <2>0, <2>4
  <2>5. CASE Reload
    BY <2>5 DEF Reload
  <2>6. CASE Restart
    BY <2>0, <2>6 DEF Restart
  <2>7. CASE \E f \in Feeds : Tick(f)
    BY <2>1, <2>4, <2>7 DEF Tick
  <2>8. CASE Capture
    BY <2>1, <2>2, <2>3, <2>4, <2>8 DEF Capture, NodesListed, NodesMissing, NodesFailed,
       NodesCaptured, PodsCaptured, PodsMissing, OpenFile, FileWritten, PersistFailed,
       PodsListed, PodsFailed, Feeds
  <2>9. CASE Age \/ (\E f \in Polled : Poll(f))
             \/ (\E q \in polls : Serve(q) \/ Receive(q) \/ PollFails(q))
    BY <2>4, <2>9 DEF Age, Poll, Serve, Receive, PollFails, captureVars
  <2>. QED
    BY <2>5, <2>6, <2>7, <2>8, <2>9 DEF Next
<1>2. SharedListingIsUsable <=> [][Usable]_vars
  BY DEF SharedListingIsUsable
<1>. QED
  BY InitIInv, NextIInv, <1>1, <1>2, PTL DEF Spec

-----------------------------------------------------------------------------
(* The range of the samples of a pod *)

\* r holds the smallest and the largest of the samples S.
Covers(r, S) ==
  IF S = {} THEN r = None
  ELSE /\ r \in Tags /\ r[1] \in S /\ r[2] \in S
       /\ \A s \in S : r[1] <= s /\ s <= r[2]

RangeInv ==
  /\ seen \subseteq Nat /\ kept \subseteq Nat
  /\ Covers(range, seen)
  /\ (file = Torn /\ kept = {}) \/ Covers(file, kept)

LEMMA MinMaxFacts ==
  ASSUME NEW S \in SUBSET Nat, NEW a \in S, NEW b \in S,
         \A s \in S : a <= s /\ s <= b
  PROVE  Min(S) = a /\ Max(S) = b
<1>1. Min(S) \in S /\ \A s \in S : Min(S) <= s
  BY DEF Min
<1>2. Max(S) \in S /\ \A s \in S : Max(S) >= s
  BY DEF Max
<1>0. \A x, y \in Nat : x <= y /\ y <= x => x = y
  OBVIOUS
<1>3. Min(S) = a
  <2>1. Min(S) \in Nat /\ a \in Nat /\ Min(S) <= a /\ a <= Min(S)
    BY <1>1
  <2>. QED
    BY <1>0, <2>1, Zenon
<1>4. Max(S) = b
  <2>1. Max(S) \in Nat /\ b \in Nat /\ b <= Max(S) /\ Max(S) <= b
    BY <1>2
  <2>. QED
    BY <1>0, <2>1, Zenon
<1>. QED
  BY <1>3, <1>4

\* What a sample does to the range of its pod (lines 203-225).
LEMMA WidenFacts ==
  ASSUME NEW S \in SUBSET Nat, NEW r, Covers(r, S), NEW s \in Nat
  PROVE  Covers(Widen(r, s), S \cup {s})
<1>1. CASE S = {}
  <2>1. Widen(r, s) = <<s, s>>
    BY <1>1 DEF Covers, Widen
  <2>. QED
    BY <1>1, <2>1 DEF Covers, Tags
<1>2. CASE S # {}
  <2>0. /\ r[1] \in S /\ r[2] \in S /\ r = <<r[1], r[2]>>
        /\ \A t \in S : r[1] <= t /\ t <= r[2]
    BY <1>2 DEF Covers, Tags
  <2>1. PICK a \in S, b \in S : r = <<a, b>> /\ \A t \in S : a <= t /\ t <= b
    BY <2>0
  <2>2. r # None
    BY <2>1, NoneAssumption
  <2>3. Min({a, s}) = IF a <= s THEN a ELSE s
    <3>1. CASE a <= s
      BY <3>1, MinMaxFacts
    <3>2. CASE ~(a <= s)
      BY <3>2, MinMaxFacts
    <3>. QED
      BY <3>1, <3>2
  <2>4. Max({b, s}) = IF s <= b THEN b ELSE s
    <3>1. CASE s <= b
      BY <3>1, MinMaxFacts
    <3>2. CASE ~(s <= b)
      BY <3>2, MinMaxFacts
    <3>. QED
      BY <3>1, <3>2
  <2>5. Widen(r, s) = <<Min({a, s}), Max({b, s})>>
    BY <2>1, <2>2 DEF Widen
  <2>. QED
    BY <2>1, <2>3, <2>4, <2>5 DEF Covers, Tags
<1>. QED
  BY <1>1, <1>2

\* The range of a pod is that of all its samples, except those that were not
\* in the file when a process ended (StatsDataPodUsage.ts:204-260).
THEOREM RangeComplete == Spec => []RangeIsOfAllSamples
<1>1. Init => RangeInv
  BY DEF Init, RangeInv, Covers
<1>2. RangeInv /\ [Next]_vars => RangeInv'
  <2>. SUFFICES ASSUME RangeInv, [Next]_vars
       PROVE  RangeInv'
    OBVIOUS
  <2>. USE DEF RangeInv
  <2>1. CASE UNCHANGED <<range, file, seen, kept>>
    BY <2>1 DEF Covers
  <2>2. CASE PodsCaptured
    <3>1. UNCHANGED <<file, kept>>
      BY <2>2 DEF PodsCaptured
    <3>2. CASE \E s \in Samples : range' = Widen(range, s) /\ seen' = seen \cup {s}
      <4>1. PICK s \in Samples : range' = Widen(range, s) /\ seen' = seen \cup {s}
        BY <3>2
      <4>2. s \in Nat /\ Covers(Widen(range, s), seen \cup {s})
        BY SamplesAssumption, WidenFacts
      <4>3. Covers(range', seen') /\ Covers(range, seen)' /\ (Covers(file, kept) => Covers(file, kept)')
        BY <3>1, <4>1, <4>2 DEF Covers
      <4>. QED
        BY <3>1, <4>1, <4>2, <4>3
    <3>3. CASE UNCHANGED <<range, seen>> \/ (range' = None /\ seen' = {})
      BY <3>1, <3>3 DEF Covers
    <3>. QED
      BY <2>2, <3>2, <3>3 DEF PodsCaptured
  <2>3. CASE OpenFile
    BY <2>3 DEF OpenFile, Covers
  <2>4. CASE FileWritten
    BY <2>4 DEF FileWritten, Covers
  <2>5. CASE Restart
    <3>1. UNCHANGED <<file, kept>> /\ range' = Load /\ seen' = kept
      BY <2>5 DEF Restart
    <3>2. Covers(Load, kept)
      BY NoneAssumption DEF Load, Covers, Tags
    <3>. QED
      BY <3>1, <3>2 DEF Covers
  <2>. QED
    BY <2>1, <2>2, <2>3, <2>4, <2>5 DEF Next, vars, feedVars, Capture, Tick, Age, Reload,
       Poll, Serve, Receive, PollFails, NodesListed, NodesMissing, NodesFailed,
       NodesCaptured, PodsListed, PodsFailed, PodsMissing, PersistFailed
<1>3. RangeInv => RangeIsOfAllSamples
  <2>. SUFFICES ASSUME RangeInv, seen # {}
       PROVE  range = <<Min(seen), Max(seen)>>
    BY DEF RangeInv, RangeIsOfAllSamples, Covers
  <2>1. range \in Tags /\ Min(seen) = range[1] /\ Max(seen) = range[2]
    BY MinMaxFacts DEF RangeInv, Covers
  <2>. QED
    BY <2>1 DEF Tags
<1>. QED
  BY <1>1, <1>2, <1>3, PTL DEF Spec

-----------------------------------------------------------------------------
(* What the end of a capture rests on *)

\* Tags only move forward, over captures, configuration reloads and restarts,
\* and between two tags the payload of a feed is replaced by the usage capture
\* alone, which then stores its file: no tag a page has ever held is given to
\* a second payload (StatsDataMetrics.ts:17-19, 110-112, StatsDataPodUsage.ts:88-94).
TagsNameOnePayload ==
  [][\A f \in Feeds :
       \/ Before(Etag(f), Etag(f)')
       \/ /\ Etag(f)' = Etag(f)
          /\ data'[f] = data[f] \/ (f = "pods" /\ step'[f] = "persist")]_vars

\* No tag names two payloads, over captures and restarts
\* (StatsDataMetrics.ts:110-112, StatsEtag.ts:42-55).
THEOREM TagsMoveForward == Spec => TagsNameOnePayload
<1>. DEFINE Forward ==
       \A f \in Feeds :
         \/ Before(Etag(f), Etag(f)')
         \/ /\ Etag(f)' = Etag(f)
            /\ data'[f] = data[f] \/ (f = "pods" /\ step'[f] = "persist")
<1>1. IInv /\ [Next]_vars => [Forward]_vars
  <2>. SUFFICES ASSUME IInv, Next
       PROVE  Forward
    OBVIOUS
  <2>1. \A f \in Feeds : Etag(f)' = Etag(f) \/ Before(Etag(f), Etag(f)')
    <3>1. CASE ServerStep
      BY <3>1, ServerMoves DEF IInv, Moves
    <3>2. CASE ~ServerStep
      BY <3>2 DEF Next, ServerStep, Poll, Serve, Receive, PollFails, feedVars, Etag
    <3>. QED
      BY <3>1, <3>2
  <2>2. \/ data' = data
        \/ NodesCaptured \/ PodsCaptured \/ Restart
    BY DEF Next, Capture, NodesListed, NodesMissing, NodesFailed, PodsListed, PodsFailed,
       PodsMissing, OpenFile, FileWritten, PersistFailed, Age, Reload, Tick, Poll, Serve,
       Receive, PollFails, feedVars
  <2>3. CASE NodesCaptured
    BY <2>1, <2>3, FreshFacts, PublishFacts DEF NodesCaptured, IInv, Feeds
  <2>4. CASE PodsCaptured
    BY <2>1, <2>4, FreshFacts DEF PodsCaptured, IInv, TypesGood, Feeds
  <2>5. CASE Restart
    BY <2>5 DEF Restart, IInv, TypesGood, Before, Etag
  <2>. QED
    BY <2>1, <2>2, <2>3, <2>4, <2>5
<1>2. TagsNameOnePayload <=> [][Forward]_vars
  BY DEF TagsNameOnePayload
<1>. QED
  BY InitIInv, NextIInv, <1>1, <1>2, PTL DEF Spec

\* A capture that is not over has its next step before it: a command of its
\* own, the file, or a listing that is still in flight.  No loop waits for a
\* listing that has been answered, that has failed, or that went with the
\* snapshot when it was dropped (StatsDataUtils.ts:35-50): the safety half of
\* CapturesEnd.
CapturesOwed ==
  /\ \A f \in Feeds : step[f] = "pods" => asks[f] \in listing
  /\ step["nodes"] \in {"idle", "nodes", "pods", "top"}
  /\ step["pods"] \in {"idle", "pods", "top", "persist", "writing"}

LEMMA AskOwes ==
  ASSUME TypesGood, LoopsGood, CapturesOwed, NEW f \in Feeds, step[f] \in {"idle", "nodes"},
         AskPods(f)
  PROVE  CapturesOwed'
<1>1. "nodes" \in Feeds /\ "pods" \in Feeds
  BY DEF Feeds
<1>2. CASE snap # None /\ ~aged
  BY <1>1, <1>2 DEF AskPods, TypesGood, CapturesOwed
<1>3. CASE ~(snap # None /\ ~aged)
  BY <1>1, <1>3 DEF AskPods, TypesGood, CapturesOwed
<1>. QED
  BY <1>2, <1>3

\* No capture waits for a listing that will not come (StatsDataUtils.ts:35-50).
THEOREM CapturesNeverOrphaned == Spec => []CapturesOwed
<1>1. Init => CapturesOwed
  BY DEF Init, CapturesOwed, Feeds
<1>2. IInv /\ CapturesOwed /\ [Next]_vars => CapturesOwed'
  <2>. SUFFICES ASSUME IInv, CapturesOwed, [Next]_vars
       PROVE  CapturesOwed'
    OBVIOUS
  <2>0. /\ "nodes" \in Feeds /\ "pods" \in Feeds
        /\ DOMAIN step = Feeds /\ DOMAIN asks = Feeds
    BY DEF IInv, TypesGood, Feeds
  <2>1. ASSUME NEW p \in listing, PodsListed(p) \/ PodsFailed(p)
        PROVE  CapturesOwed'
    <3>1. /\ listing' = listing \ {p}
          /\ \A f \in Feeds : asks[f] # p => step'[f] = step[f] /\ asks'[f] = asks[f]
          /\ \A f \in Feeds : asks[f] = p => step'[f] \in {"top", "idle"}
      BY <2>1 DEF PodsListed, PodsFailed, Waiting, Release
    <3>. QED
      BY <2>0, <3>1 DEF CapturesOwed
  <2>2. CASE NodesListed
    BY <2>0, <2>2, AskOwes DEF NodesListed, IInv
  <2>3. ASSUME NEW f \in Feeds, Tick(f)
        PROVE  CapturesOwed'
    BY <2>0, <2>3, AskOwes DEF Tick, IInv, CapturesOwed
  <2>4. CASE \/ NodesMissing \/ NodesFailed \/ NodesCaptured \/ PodsCaptured
             \/ PodsMissing \/ OpenFile \/ FileWritten \/ PersistFailed
    BY <2>0, <2>4 DEF CapturesOwed, NodesMissing, NodesFailed, NodesCaptured, Release,
       PodsCaptured, PodsMissing, OpenFile, FileWritten, PersistFailed
  <2>5. CASE Restart
    BY <2>0, <2>5 DEF CapturesOwed, Restart
  <2>6. CASE UNCHANGED <<step, asks, listing>>
    BY <2>6 DEF CapturesOwed
  <2>. QED
    BY <2>1, <2>2, <2>3, <2>4, <2>5, <2>6 DEF Next, Capture, PodsListed, PodsFailed, Age,
       Reload, Poll, Serve, Receive, PollFails, captureVars, vars
<1>. QED
  BY InitIInv, NextIInv, <1>1, <1>2, PTL DEF Spec

-----------------------------------------------------------------------------
(* The history that is sent *)

\* What \div is: the only q with c * q <= a < c * q + c.
LEMMA DivFacts ==
  ASSUME NEW a \in Int, NEW c \in Nat \ {0}
  PROVE  /\ a \div c \in Int
         /\ c * (a \div c) <= a /\ a < c * (a \div c) + c
BY Z3

LEMMA MulMonotone ==
  ASSUME NEW a \in Int, NEW b \in Int, NEW c \in Nat, a <= b
  PROVE  c * a <= c * b
<1>1. PICK d \in Nat : b = a + d
  <2>1. b - a \in Nat /\ b = a + (b - a)
    OBVIOUS
  <2>. QED
    BY <2>1
<1>2. c * b = c * a + c * d /\ c * d \in Nat
  BY <1>1, Z3
<1>. QED
  BY <1>1, <1>2

LEMMA DivLeast ==
  ASSUME NEW a \in Int, NEW c \in Nat \ {0}, NEW q \in Int
  PROVE  /\ c * q <= a => q <= a \div c
         /\ a < c * q => a \div c < q
<1>. DEFINE d == a \div c
<1>0. d \in Int /\ c * d <= a /\ a < c * d + c
  BY DivFacts
<1>. HIDE DEF d
<1>1. ASSUME c * q <= a, d + 1 <= q
      PROVE  FALSE
  <2>1. c * (d + 1) <= c * q
    BY <1>0, <1>1, MulMonotone
  <2>2. c * (d + 1) = c * d + c
    BY <1>0, Z3
  <2>. QED
    BY <1>0, <1>1, <2>1, <2>2, Z3
<1>2. ASSUME a < c * q, q <= d
      PROVE  FALSE
  <2>1. c * q <= c * d
    BY <1>0, <1>2, MulMonotone
  <2>. QED
    BY <1>0, <1>2, <2>1, Z3
<1>3. /\ c * q <= a => q <= d
      /\ a < c * q => d < q
  BY <1>0, <1>1, <1>2
<1>. QED
  BY <1>3 DEF d

\* n / cap rounded up, between one and the number of measurements.
LEMMA CountFacts ==
  ASSUME NEW n \in Nat, NEW cap \in Nat \ {0}, n > cap
  PROVE  /\ BucketCount(n, cap) \in Nat \ {0} /\ BucketCount(n, cap) <= n
         /\ n <= cap * BucketCount(n, cap) /\ cap * BucketCount(n, cap) < n + cap
<1>. DEFINE k == BucketCount(n, cap)
<1>1. k \in Int /\ cap * k <= n + cap - 1 /\ n + cap - 1 < cap * k + cap
  BY DivFacts DEF BucketCount
<1>. HIDE DEF k
<1>2. cap * 1 = cap /\ cap * 0 = 0
  BY Z3
<1>3. 1 <= k
  BY <1>2, DivLeast DEF k, BucketCount
<1>4. k <= n
  <2>1. 1 * n <= cap * n /\ 1 * (n - 1) <= cap * (n - 1)
    BY MulMonotone, Z3
  <2>2. n + cap - 1 < cap * (n + 1)
    BY <2>1, Z3
  <2>3. k < n + 1
    BY <2>2, DivLeast DEF k, BucketCount
  <2>. QED
    BY <1>1, <2>3
<1>5. k \in Nat \ {0} /\ k <= n /\ n <= cap * k /\ cap * k < n + cap
  BY <1>1, <1>3, <1>4, Z3
<1>. QED
  BY <1>5 DEF k

LEMMA StartFacts ==
  ASSUME NEW n \in Nat, NEW cap \in Nat \ {0}, n > cap
  PROVE  /\ Start(0, n, cap) = 0 /\ Start(BucketCount(n, cap), n, cap) = n
         /\ \A b \in Nat :
              /\ Start(b, n, cap) \in Int
              /\ Start(b, n, cap) < Start(b + 1, n, cap)
              /\ Start(b + 1, n, cap) <= Start(b, n, cap) + cap
         /\ \A b, c \in Nat : b <= c => Start(b, n, cap) <= Start(c, n, cap)
<1>. DEFINE k == BucketCount(n, cap)
            s(b) == Start(b, n, cap)
<1>0. k \in Nat \ {0} /\ k <= n /\ n <= cap * k
  BY CountFacts
<1>. HIDE DEF k
<1>1. \A b \in Nat : s(b) \in Int /\ k * s(b) <= b * n /\ b * n < k * s(b) + k
  <2>. TAKE b \in Nat
  <2>1. b * n \in Int
    BY Z3
  <2>. QED
    BY <1>0, <2>1, DivFacts DEF Start, k
<1>2. \A b \in Nat, q \in Int : /\ k * q <= b * n => q <= s(b)
                                /\ b * n < k * q => s(b) < q
  <2>. TAKE b \in Nat, q \in Int
  <2>1. b * n \in Int
    BY Z3
  <2>. QED
    BY <1>0, <2>1, DivLeast DEF Start, k
<1>. HIDE DEF s
<1>3. s(0) = 0
  <2>1. 0 * n = 0 /\ k * 0 = 0 /\ k * 1 = k
    BY <1>0, Z3
  <2>2. 0 <= s(0) /\ s(0) < 1
    BY <1>0, <1>2, <2>1
  <2>. QED
    BY <1>1, <2>2
<1>4. s(k) = n
  <2>1. k * (n + 1) = k * n + k
    BY <1>0, Z3
  <2>2. n <= s(k) /\ s(k) < n + 1
    BY <1>0, <1>2, <2>1, Z3
  <2>3. s(k) \in Int
    BY <1>0, <1>1
  <2>. QED
    BY <2>2, <2>3
<1>5. ASSUME NEW b \in Nat
      PROVE  s(b) < s(b + 1) /\ s(b + 1) <= s(b) + cap
  <2>1. (b + 1) * n = b * n + n
    BY Z3
  <2>2. k * (s(b) + 1) = k * s(b) + k
    BY <1>0, <1>1, Z3
  <2>3. s(b) + 1 <= s(b + 1)
    BY <1>0, <1>1, <1>2, <2>1, <2>2
  <2>4. k * (s(b) + 1 + cap) = k * s(b) + k + cap * k
    BY <1>0, <1>1, Z3
  <2>5. (b + 1) * n < k * (s(b) + 1 + cap)
    BY <1>0, <1>1, <2>1, <2>4, Z3
  <2>6. s(b + 1) < s(b) + 1 + cap
    BY <1>1, <1>2, <2>5
  <2>. QED
    BY <1>1, <2>3, <2>6
<1>6. ASSUME NEW b \in Nat, NEW c \in Nat, b <= c
      PROVE  s(b) <= s(c)
  <2>1. b * n <= c * n
    BY <1>6, MulMonotone, Z3
  <2>2. s(b) \in Int /\ k * s(b) <= b * n
    BY <1>1
  <2>3. k * s(b) <= c * n
    <3>1. k * s(b) \in Int /\ b * n \in Int /\ c * n \in Int
      BY <1>0, <2>2, Z3
    <3>. QED
      BY <2>1, <2>2, <3>1
  <2>. QED
    BY <1>2, <2>2, <2>3
<1>. QED
  BY <1>1, <1>3, <1>4, <1>5, <1>6 DEF s, k

\* Thinning loses no measurement and counts none twice, whatever the length of
\* the history and the cap: of a history above the cap every bucket holds one
\* measurement at least and the cap at most, and every measurement is in
\* exactly one of them (StatsDataDownsample.ts:35-48).
THEOREM HistoryCovered ==
  ASSUME NEW n \in Nat, NEW cap \in Nat \ {0}, n > cap
  PROVE  /\ Points(n, cap) = 0 .. BucketCount(n, cap) - 1
         /\ \A b \in Points(n, cap) :
              /\ Bucket(b, n, cap) # {} /\ Bucket(b, n, cap) \subseteq 0 .. n - 1
              /\ Cardinality(Bucket(b, n, cap)) \in 1 .. cap
         /\ \A i \in 0 .. n - 1 : \E b \in Points(n, cap) : i \in Bucket(b, n, cap)
         /\ \A b, c \in Points(n, cap) :
              b # c => Bucket(b, n, cap) \cap Bucket(c, n, cap) = {}
<1>. DEFINE k == BucketCount(n, cap)
            s(b) == Start(b, n, cap)
<1>0. k \in Nat \ {0} /\ k <= n
  BY CountFacts
<1>1. /\ s(0) = 0 /\ s(k) = n
      /\ \A b \in Nat : s(b) \in Int /\ s(b) < s(b + 1) /\ s(b + 1) <= s(b) + cap
      /\ \A b, c \in Nat : b <= c => s(b) <= s(c)
  BY StartFacts
<1>2. \A b : Bucket(b, n, cap) = s(b) .. s(b + 1) - 1
  BY DEF Bucket
<1>3. \A b \in Nat, i \in Int :
        /\ b * n < k * (i + 1) => s(b) <= i
        /\ k * (i + 1) <= b * n => i < s(b)
  <2>. TAKE b \in Nat, i \in Int
  <2>. HIDE DEF k
  <2>1. b * n \in Int /\ i + 1 \in Int
    BY Z3
  <2>2. /\ b * n < k * (i + 1) => (b * n) \div k < i + 1
        /\ k * (i + 1) <= b * n => i + 1 <= (b * n) \div k
    BY <1>0, <2>1, DivLeast
  <2>3. (b * n) \div k \in Int
    BY <1>0, <2>1, DivFacts
  <2>. DEFINE d == (b * n) \div k
  <2>4. s(b) = d
    BY DEF Start, k
  <2>. HIDE DEF d, s
  <2>. QED
    BY <2>2, <2>3, <2>4 DEF d
<1>. HIDE DEF k, s
<1>4. ASSUME NEW i \in 0 .. n - 1
      PROVE  \E b \in 0 .. k - 1 : s(b) <= i /\ i < s(b + 1)
  <2>. DEFINE a == (i + 1) * k - 1
              b == a \div n
  <2>0. i \in Nat /\ i + 1 <= n /\ n \in Nat \ {0}
    OBVIOUS
  <2>1. a \in Int /\ n * 0 <= a
    BY <1>0, <2>0, Z3
  <2>2. a < n * k
    <3>1. k * (i + 1) <= k * n
      BY <1>0, <2>0, MulMonotone
    <3>. QED
      BY <1>0, <2>0, <3>1, Z3
  <2>3. a + 1 = k * (i + 1)
    BY <1>0, <2>0, Z3
  <2>. HIDE DEF a
  <2>4. b \in Int /\ n * b <= a /\ a < n * b + n
    BY <2>0, <2>1, DivFacts
  <2>5. b \in 0 .. k - 1
    <3>1. 0 <= b /\ b < k
      BY <1>0, <2>0, <2>1, <2>2, DivLeast
    <3>. QED
      BY <1>0, <2>4, <3>1
  <2>. HIDE DEF b
  <2>6. b * n = n * b /\ (b + 1) * n = n * b + n /\ n * b \in Int
    BY <2>0, <2>4, Z3
  <2>7. b * n < a + 1 /\ a + 1 <= (b + 1) * n
    BY <2>1, <2>0, <2>4, <2>6
  <2>8. b \in Nat /\ b + 1 \in Nat /\ i \in Int
    BY <1>0, <2>0, <2>5
  <2>. QED
    BY <1>3, <2>3, <2>5, <2>7, <2>8
<1>5. ASSUME NEW b \in 0 .. k - 1
      PROVE  /\ Bucket(b, n, cap) # {} /\ Bucket(b, n, cap) \subseteq 0 .. n - 1
             /\ Cardinality(Bucket(b, n, cap)) \in 1 .. cap
  <2>1. b \in Nat /\ b + 1 \in Nat /\ 0 <= b /\ b + 1 <= k
    BY <1>0
  <2>2. /\ s(b) \in Int /\ s(b + 1) \in Int /\ s(b) < s(b + 1) /\ s(b + 1) <= s(b) + cap
        /\ s(0) <= s(b) /\ s(b + 1) <= s(k)
    BY <1>0, <1>1, <2>1
  <2>3. PICK lo \in Int, hi \in Int : lo = s(b) /\ hi = s(b + 1)
    BY <2>2
  <2>4. lo < hi /\ hi <= lo + cap /\ 0 <= lo /\ hi <= n
    BY <1>1, <2>2, <2>3
  <2>5. Cardinality(lo .. hi - 1) = hi - lo
    <3>1. hi - 1 \in Int
      OBVIOUS
    <3>. QED
      BY <2>4, <3>1, FS_Interval
  <2>6. lo \in lo .. hi - 1 /\ lo .. hi - 1 \subseteq 0 .. n - 1
    BY <2>4
  <2>7. hi - lo \in 1 .. cap
    BY <2>4
  <2>. QED
    BY <1>2, <2>3, <2>5, <2>6, <2>7
<1>6. Points(n, cap) = 0 .. k - 1
  <2>1. \A b \in 0 .. k - 1 : Bucket(b, n, cap) # {}
    BY <1>5
  <2>2. Points(n, cap) = {b \in 0 .. k - 1 : Bucket(b, n, cap) # {}}
    <3>1. ~(n <= cap)
      OBVIOUS
    <3>. QED
      BY <3>1, Zenon DEF Points, k
  <2>. QED
    BY <2>1, <2>2, Zenon
<1>7. ASSUME NEW b \in 0 .. k - 1, NEW c \in 0 .. k - 1, b # c
      PROVE  Bucket(b, n, cap) \cap Bucket(c, n, cap) = {}
  <2>0. b \in Nat /\ c \in Nat
    BY <1>0
  <2>1. b + 1 <= c \/ c + 1 <= b
    BY <1>7, <2>0
  <2>2. s(b) \in Int /\ s(b + 1) \in Int /\ s(c) \in Int /\ s(c + 1) \in Int
    BY <1>1, <2>0
  <2>3. s(b + 1) <= s(c) \/ s(c + 1) <= s(b)
    BY <1>1, <2>0, <2>1
  <2>. QED
    BY <1>2, <2>2, <2>3
<1>8. \A i \in 0 .. n - 1 : \E b \in 0 .. k - 1 : i \in Bucket(b, n, cap)
  <2>. TAKE i \in 0 .. n - 1
  <2>1. PICK b \in 0 .. k - 1 : s(b) <= i /\ i < s(b + 1)
    BY <1>4
  <2>2. b \in Nat /\ b + 1 \in Nat /\ i \in Int
    BY <1>0
  <2>3. PICK lo \in Int, hi \in Int : lo = s(b) /\ hi = s(b + 1)
    BY <1>1, <2>2
  <2>4. i \in lo .. hi - 1
    BY <2>1, <2>2, <2>3
  <2>. QED
    BY <1>2, <2>3, <2>4
<1>. QED
  BY <1>5, <1>6, <1>7, <1>8 DEF k

\* The cap holds exactly as long as the history is no longer than its square,
\* so the payload does grow with the history beyond (README.md:133 and
\* StatsDataDownsample.ts:3 say that it does not; line 40).
THEOREM CapHeldUpToSquare ==
  ASSUME NEW n \in Nat, NEW cap \in Nat \ {0}
  PROVE  Cardinality(Points(n, cap)) <= cap <=> n <= cap * cap
<1>0. cap <= cap * cap
  BY MulMonotone, Z3
<1>1. CASE n <= cap
  <2>1. Cardinality(Points(n, cap)) = n
    BY <1>1, FS_Interval DEF Points
  <2>. QED
    BY <1>0, <1>1, <2>1, Z3
<1>2. CASE n > cap
  <2>. DEFINE k == BucketCount(n, cap)
  <2>1. k \in Nat \ {0} /\ n <= cap * k /\ cap * k < n + cap
    BY <1>2, CountFacts
  <2>2. Points(n, cap) = 0 .. k - 1
    BY <1>2, HistoryCovered
  <2>. HIDE DEF k
  <2>3. Cardinality(Points(n, cap)) = k
    <3>1. k - 1 \in Int /\ ~(0 > k - 1) /\ k - 1 - 0 + 1 = k
      BY <2>1
    <3>. QED
      BY <2>2, <3>1, FS_Interval
  <2>4. ASSUME k <= cap
        PROVE  n <= cap * cap
    <3>1. cap * k <= cap * cap
      BY <2>1, <2>4, MulMonotone
    <3>. QED
      BY <2>1, <3>1, Z3
  <2>5. ASSUME n <= cap * cap, cap + 1 <= k
        PROVE  FALSE
    <3>1. cap * (cap + 1) <= cap * k /\ cap * (cap + 1) = cap * cap + cap
      BY <2>1, <2>5, MulMonotone, Z3
    <3>. QED
      BY <2>1, <2>5, <3>1, Z3
  <2>. QED
    BY <2>1, <2>3, <2>4, <2>5
<1>. QED
  BY <1>1, <1>2
=============================================================================
