---------------------------- MODULE WebPageProofs ----------------------------
(* Proofs about WebPage, for any types, listings, filters and bounds. *)
EXTENDS WebPage, FiniteSetTheorems, SequenceTheorems, TLAPS

\* What is known of the store whatever happens.
StoreGood ==
  /\ objectType \in Types /\ lastCall \in Types
  /\ DOMAIN _pendingCacheRequests = Types
  /\ data \in [Types -> SUBSET AllItems]
  /\ dataFull \in [Types -> SUBSET AllItems]
  /\ commands \subseteq Types

IInv == StoreGood /\ ListMatchesFilter /\ InvalidationKept

-----------------------------------------------------------------------------
(* A request for a type *)

\* Whoever asks for t, with or without a change to show, forgets no change.
LEMMA FetchKeeps ==
  ASSUME StoreGood, NEW t \in Types, NEW forced, _forceRefreshTypes \subseteq forced,
         \A u \in news' : u \in news \/ u \in forced,
         InvalidationKept, Fetch(t, forced)
  PROVE  /\ InvalidationKept'
         /\ DOMAIN _pendingCacheRequests' = Types
         /\ Pending(t)'
<1>1. CASE Pending(t)
  BY <1>1 DEF Fetch, InvalidationKept, Pending, StoreGood
<1>2. CASE ~Pending(t)
  <2>1. /\ _forceRefreshTypes' = forced \ {t}
        /\ _pendingCacheRequests' =
             [_pendingCacheRequests EXCEPT ![t] = IF t \in forced THEN "forced" ELSE "plain"]
    BY <1>2 DEF Fetch
  <2>2. ASSUME NEW u \in news'
        PROVE  u \in _forceRefreshTypes' \/ _pendingCacheRequests'[u] = "forced"
    BY <1>2, <2>1, <2>2 DEF InvalidationKept, StoreGood, Pending
  <2>. QED
    BY <2>1, <2>2 DEF InvalidationKept, StoreGood, Pending
<1>. QED
  BY <1>1, <1>2

\* The list of the type asked for last is compared once it is answered.
LEMMA AskedMatches ==
  ASSUME NEW t, lastCall' = t, Pending(t)'
  PROVE  ListMatchesFilter'
BY DEF ListMatchesFilter, Pending

\* A listing that is answered is filtered.
LEMMA FilteredGood ==
  ASSUME NEW t \in Types, NEW items \in Listings[t], NEW ns, NEW kw
  PROVE  items \in SUBSET AllItems /\ Filtered(items, ns, kw) \in SUBSET AllItems
BY DEF AllItems, Filtered

-----------------------------------------------------------------------------
(* The steps *)

LEMMA InitIInv == Init => IInv
BY WebPageAssumption DEF Init, StoreInit, IInv, StoreGood, ListMatchesFilter,
   InvalidationKept, Pending

LEMMA SwitchTypeKeeps ==
  ASSUME IInv, NEW t \in Types, SwitchType(t)
  PROVE  IInv'
<1>. USE DEF IInv
<1>1. /\ lastCall' = t /\ objectType' = t
      /\ Fetch(t, _forceRefreshTypes \cup {t})
      /\ \E ns : SetFilter(ns, keyword)
      /\ UNCHANGED <<commands, news>>
  BY DEF SwitchType, InvalidateAndRefresh
<1>2. /\ InvalidationKept' /\ Pending(t)'
      /\ DOMAIN _pendingCacheRequests' = Types
  BY <1>1, FetchKeeps
<1>3. StoreGood'
  BY <1>1, <1>2 DEF StoreGood, SetFilter, Filtered
<1>. QED
  BY <1>1, <1>2, <1>3, AskedMatches

LEMMA FilterKeeps ==
  ASSUME IInv, NEW ns, NEW kw, SetFilter(ns, kw), UNCHANGED <<fetchVars, objectType, commands, news>>
  PROVE  IInv'
<1>. USE DEF IInv, SetFilter, fetchVars
<1>1. StoreGood'
  BY DEF StoreGood, Filtered
<1>2. ListMatchesFilter'
  BY DEF StoreGood, ListMatchesFilter, Pending
<1>3. InvalidationKept'
  BY DEF InvalidationKept
<1>. QED
  BY <1>1, <1>2, <1>3

LEMMA RefreshKeeps ==
  ASSUME IInv, Refresh
  PROVE  IInv'
<1>. USE DEF IInv
<1>1. /\ lastCall' = lastCall /\ Fetch(lastCall, _forceRefreshTypes)
      /\ UNCHANGED <<dataFull, data, objectType, commands, news>>
  BY DEF Refresh, GetObject, listVars, pageVars
<1>2. /\ InvalidationKept' /\ Pending(lastCall)'
      /\ DOMAIN _pendingCacheRequests' = Types
  BY <1>1, FetchKeeps DEF StoreGood
<1>3. StoreGood'
  BY <1>1, <1>2 DEF StoreGood
<1>4. ListMatchesFilter'
  BY <1>1, <1>2 DEF ListMatchesFilter, Pending
<1>. QED
  BY <1>2, <1>3, <1>4

\* An object changed, or was found to be gone.
LEMMA ChangeKeeps ==
  ASSUME IInv, NEW t \in Types, InvalidateAndRefresh(t), news' = news \cup {t},
         commands' \subseteq commands, UNCHANGED <<listVars, objectType>>
  PROVE  IInv'
<1>. USE DEF IInv, InvalidateAndRefresh, listVars
<1>1. /\ InvalidationKept' /\ Pending(t)'
      /\ DOMAIN _pendingCacheRequests' = Types
  BY FetchKeeps
<1>2. StoreGood'
  BY <1>1 DEF StoreGood
<1>. QED
  BY <1>1, <1>2, AskedMatches

LEMMA ListingAnsweredKeeps ==
  ASSUME IInv, NEW t \in Types, ListingAnswered(t)
  PROVE  IInv'
<1>. USE DEF IInv
<1>1. PICK items \in Listings[t] : \E status \in {"fresh", "stale"} : Answered(t, items, status)
  BY DEF ListingAnswered
<1>2. /\ Pending(t)
      /\ _pendingCacheRequests' = [_pendingCacheRequests EXCEPT ![t] = "no"]
      /\ dataFull' = [dataFull EXCEPT ![t] = items]
      /\ data' = [data EXCEPT ![t] = Filtered(items, namespace, keyword)]
      /\ failed' = failed \ {t}
      /\ UNCHANGED <<namespace, keyword, lastCall, _forceRefreshTypes, objectType, commands>>
      /\ Told(t)
  BY <1>1 DEF Answered, ListingAnswered
<1>3. StoreGood'
  BY <1>2, FilteredGood DEF StoreGood
<1>4. ListMatchesFilter'
  BY <1>2 DEF StoreGood, ListMatchesFilter, Pending
<1>5. InvalidationKept'
  BY <1>2 DEF StoreGood, InvalidationKept, Told
<1>. QED
  BY <1>3, <1>4, <1>5

LEMMA ListingFailsKeeps ==
  ASSUME IInv, NEW t \in Types, ListingFails(t)
  PROVE  IInv'
<1>. USE DEF IInv, ListingFails, RequestFails
<1>1. StoreGood'
  BY DEF StoreGood
<1>2. ListMatchesFilter'
  BY DEF StoreGood, ListMatchesFilter, Pending
<1>3. InvalidationKept'
  BY DEF StoreGood, InvalidationKept, Told
<1>. QED
  BY <1>1, <1>2, <1>3

LEMMA RetryKeeps ==
  ASSUME IInv, NEW t \in Types, Retry(t)
  PROVE  IInv'
<1>. USE DEF IInv, Retry, RetryDue, listVars, pageVars
<1>1. CASE lastCall = t
  <2>1. /\ InvalidationKept' /\ Pending(t)'
        /\ DOMAIN _pendingCacheRequests' = Types
    BY <1>1, FetchKeeps
  <2>2. StoreGood'
    BY <2>1 DEF StoreGood
  <2>. QED
    BY <1>1, <2>1, <2>2, AskedMatches
<1>2. CASE lastCall # t
  BY <1>2 DEF StoreGood, ListMatchesFilter, InvalidationKept, Pending
<1>. QED
  BY <1>1, <1>2

\* Steps that leave the store alone, and what it is told.
LEMMA StoreKeeps ==
  ASSUME IInv, UNCHANGED <<storeVars, objectType, news>>,
         commands' \subseteq commands \cup {objectType}
  PROVE  IInv'
BY DEF IInv, StoreGood, ListMatchesFilter, InvalidationKept, Pending,
   storeVars, listVars, fetchVars

LEMMA NextIInv == IInv /\ [Next]_vars => IInv'
<1>. SUFFICES ASSUME IInv, [Next]_vars
     PROVE  IInv'
  OBVIOUS
<1>1. ASSUME NEW t \in Types, SwitchType(t) \/ Listing(t) \/ Retry(t)
      PROVE  IInv'
  BY <1>1, SwitchTypeKeeps, ListingAnsweredKeeps, ListingFailsKeeps, RetryKeeps DEF Listing
<1>2. ASSUME NEW t \in Types, CommandAnswered(t)
      PROVE  IInv'
  BY <1>2, ChangeKeeps, StoreKeeps DEF CommandAnswered, storeVars
<1>3. CASE FilterChanges
  BY <1>3, FilterKeeps DEF FilterChanges
<1>4. CASE Refresh
  BY <1>4, RefreshKeeps
<1>5. CASE UserArranges \/ GoTo \/ PreferencesAnswered \/ PreferencesSaved
  BY <1>5, StoreKeeps DEF UserArranges, GoTo, PreferencesAnswered, PreferencesSaved, pageVars
<1>6. CASE ServerStuck \/ SendCommand \/ OpenLogs \/ LogOptions
  BY <1>6, StoreKeeps DEF ServerStuck, SendCommand, OpenLogs, LogOptions
<1>7. CASE LogDialogAnswered
  BY <1>7, ChangeKeeps, StoreKeeps, WebPageAssumption DEF LogDialogAnswered, storeVars
<1>8. CASE UNCHANGED vars
  BY <1>8, StoreKeeps DEF vars, pageVars
<1>. QED
  BY <1>1, <1>2, <1>3, <1>4, <1>5, <1>6, <1>7, <1>8 DEF Next

LEMMA Invariance == Spec => []IInv
BY InitIInv, NextIInv, PTL DEF Spec

\* In whatever order listings are answered and filters change, the list of the
\* type on the page is what was fetched, filtered by what the page says, if
\* that type is the one asked for last, nothing is under way for it and its
\* last request did not fail (KubernetesObjectStore.ts:228-235).
THEOREM ListMatches == Spec => []ListMatchesFilter
BY Invariance, PTL DEF IInv

\* A change is asked for past the server's cache, or still to be asked for so,
\* until one such request has ended, in success or not
\* (KubernetesObjectStore.ts:294-304).
THEOREM ChangesNotForgotten == Spec => []InvalidationKept
BY Invariance, PTL DEF IInv

-----------------------------------------------------------------------------
(* Pages *)

ListsFinite == \A t \in Types : IsFiniteSet(data[t]) /\ IsFiniteSet(dataFull[t])

PageInv == pageOf \in [Types -> Int] /\ ListsFinite /\ PageShowsItems

LEMMA MinMaxFacts ==
  ASSUME NEW a \in Int, NEW b \in Int
  PROVE  /\ Max({a, b}) \in {a, b} /\ Max({a, b}) >= a /\ Max({a, b}) >= b
         /\ Min({a, b}) \in {a, b} /\ Min({a, b}) <= a /\ Min({a, b}) <= b
<1>1. \E x \in {a, b} : \A y \in {a, b} : x >= y
  <2>1. CASE a >= b
    BY <2>1
  <2>2. CASE b >= a
    BY <2>2
  <2>. QED
    BY <2>1, <2>2
<1>2. \E x \in {a, b} : \A y \in {a, b} : x <= y
  <2>1. CASE a >= b
    BY <2>1
  <2>2. CASE b >= a
    BY <2>2
  <2>. QED
    BY <2>1, <2>2
<1>3. Max({a, b}) \in {a, b} /\ \A y \in {a, b} : Max({a, b}) >= y
  BY <1>1 DEF Max
<1>4. Min({a, b}) \in {a, b} /\ \A y \in {a, b} : Min({a, b}) <= y
  BY <1>2 DEF Min
<1>. QED
  BY <1>3, <1>4

\* The first item of the last page is there.
LEMMA LastPageStarts ==
  ASSUME NEW n \in Nat, n > 0, NEW q \in Int,
         q = (n + LIST_PAGE_SIZE - 1) \div LIST_PAGE_SIZE
  PROVE  q >= 1 /\ \A p \in Int : p <= q => (p - 1) * LIST_PAGE_SIZE < n
<1>. DEFINE L == LIST_PAGE_SIZE
<1>1. L \in Nat /\ L >= 1
  BY PageSizeAssumption
<1>2. q * L <= n + L - 1 /\ n + L - 1 < (q + 1) * L
  BY <1>1
<1>3. q >= 1
  BY <1>1, <1>2
<1>4. ASSUME NEW p \in Int, p <= q
      PROVE  (p - 1) * L < n
  <2>1. (p - 1) * L <= (q - 1) * L
    BY <1>1, <1>4
  <2>2. (q - 1) * L = q * L - L
    BY <1>1
  <2>3. (p - 1) * L \in Int /\ q * L \in Int
    BY <1>1
  <2>. QED
    BY <1>1, <1>2, <2>1, <2>2, <2>3
<1>. QED
  BY <1>3, <1>4

LEMMA ClampedFacts ==
  ASSUME NEW n \in Nat, NEW page \in Int
  PROVE  /\ Clamped(page, n) \in Int
         /\ n > 0 => /\ Clamped(page, n) >= 1
                     /\ (Clamped(page, n) - 1) * LIST_PAGE_SIZE < n
<1>. DEFINE q == (n + LIST_PAGE_SIZE - 1) \div LIST_PAGE_SIZE
<1>1. q \in Int
  BY PageSizeAssumption
<1>2. PageCount(n) \in Int /\ PageCount(n) >= 1 /\ PageCount(n) \in {1, q}
  BY <1>1, MinMaxFacts DEF PageCount
<1>3. Max({1, page}) \in Int /\ Max({1, page}) >= 1
  BY MinMaxFacts
<1>4. /\ Clamped(page, n) \in Int
      /\ Clamped(page, n) >= 1 /\ Clamped(page, n) <= PageCount(n)
  <2>. DEFINE m == Max({1, page})
  <2>. HIDE DEF m
  <2>1. m \in Int /\ m >= 1 /\ Clamped(page, n) = Min({m, PageCount(n)})
    BY <1>3 DEF Clamped, m
  <2>. QED
    BY <1>2, <2>1, MinMaxFacts
<1>5. ASSUME n > 0
      PROVE  (Clamped(page, n) - 1) * LIST_PAGE_SIZE < n
  <2>1. q >= 1 /\ \A p \in Int : p <= q => (p - 1) * LIST_PAGE_SIZE < n
    BY <1>1, <1>5, LastPageStarts
  <2>. HIDE DEF q
  <2>2. PageCount(n) <= q
    BY <1>1, <1>2, <2>1
  <2>3. Clamped(page, n) <= q
    BY <1>1, <1>2, <1>4, <2>2
  <2>. QED
    BY <1>4, <2>1, <2>3
<1>. QED
  BY <1>4, <1>5

\* A list that turns ends on a page with items.
LEMMA TurnShows ==
  ASSUME pageOf \in [Types -> Int], NEW t \in Types, NEW page \in Int,
         objectType' = t, ListsFinite', Turn(t, page)
  PROVE  PageInv'
<1>. DEFINE n == Cardinality(Triaged(data'[t], arranged'))
<1>1. IsFiniteSet(Triaged(data'[t], arranged'))
  BY FS_Subset DEF Triaged, ListsFinite
<1>2. n \in Nat /\ (Triaged(data'[t], arranged') # {} => n > 0)
  BY <1>1, FS_CardinalityType, FS_EmptySet
<1>3. pageOf' = [pageOf EXCEPT ![t] = Clamped(page, n)]
  BY DEF Turn
<1>4. Shown' = Triaged(data'[t], arranged')
  BY DEF Shown, Triaged
<1>. HIDE DEF n
<1>5. pageOf' \in [Types -> Int] /\ pageOf'[t] = Clamped(page, n)
  BY <1>2, <1>3, ClampedFacts
<1>6. Cardinality(Shown') = n
  BY <1>4 DEF n
<1>7. PageShowsItems'
  <2>. SUFFICES ASSUME Shown' # {}
       PROVE  pageOf'[t] >= 1 /\ (pageOf'[t] - 1) * LIST_PAGE_SIZE < n
    BY <1>6 DEF PageShowsItems
  <2>1. n > 0
    BY <1>2, <1>4
  <2>. QED
    BY <1>2, <1>5, <2>1, ClampedFacts
<1>. QED
  BY <1>5, <1>7 DEF PageInv

LEMMA PagesStay ==
  ASSUME PageInv, UNCHANGED <<dataFull, data, arranged, pageOf, objectType>>
  PROVE  PageInv'
BY DEF PageInv, ListsFinite, PageShowsItems, Shown

LEMMA FilterFinite ==
  ASSUME IInv, ListsFinite, NEW ns, NEW kw, SetFilter(ns, kw)
  PROVE  ListsFinite'
<1>1. lastCall \in Types /\ IsFiniteSet(Filtered(dataFull[lastCall], ns, kw))
  BY FS_Subset DEF IInv, StoreGood, ListsFinite, Filtered
<1>. QED
  BY <1>1 DEF IInv, StoreGood, ListsFinite, SetFilter

LEMMA NextPages == IInv /\ PageInv /\ [Next]_vars => PageInv'
<1>. SUFFICES ASSUME IInv, PageInv, [Next]_vars
     PROVE  PageInv'
  OBVIOUS
<1>. USE DEF pageVars, storeVars, listVars, triageVars
<1>0. /\ objectType \in Types /\ pageOf \in [Types -> Int] /\ pageOf[objectType] \in Int
      /\ ListsFinite
  BY DEF IInv, StoreGood, PageInv
<1>1. ASSUME NEW t \in Types, SwitchType(t)
      PROVE  PageInv'
  <2>1. ListsFinite'
    BY <1>0, <1>1, FilterFinite DEF SwitchType
  <2>. QED
    BY <1>0, <1>1, <2>1, TurnShows DEF SwitchType
<1>2. CASE FilterChanges
  <2>1. ListsFinite'
    BY <1>0, <1>2, FilterFinite DEF FilterChanges
  <2>. QED
    BY <1>0, <1>2, <2>1, TurnShows DEF FilterChanges, KeepList
<1>3. ASSUME NEW t \in Types, ListingAnswered(t)
      PROVE  PageInv'
  <2>1. PICK items \in Listings[t] : \E status \in {"fresh", "stale"} : Answered(t, items, status)
    BY <1>3 DEF ListingAnswered
  <2>2. IsFiniteSet(items) /\ IsFiniteSet(Filtered(items, namespace, keyword))
    BY FS_Subset, ListingsAssumption DEF Filtered
  <2>3. ListsFinite'
    BY <1>0, <2>1, <2>2 DEF Answered, ListsFinite, IInv, StoreGood
  <2>. QED
    BY <1>0, <1>3, <2>3, TurnShows DEF ListingAnswered, KeepPage, KeepList
<1>4. CASE UserArranges
  <2>1. ListsFinite'
    BY <1>0, <1>4 DEF UserArranges, ListsFinite
  <2>. QED
    BY <1>0, <1>4, <2>1, TurnShows DEF UserArranges, Arrange
<1>5. CASE GoTo
  <2>1. PICK step \in {-1, 1} : KeepList(pageOf[objectType] + step)
    BY <1>5 DEF GoTo
  <2>2. pageOf[objectType] + step \in Int
    BY <1>0
  <2>3. ListsFinite' /\ objectType' = objectType
    BY <1>0, <1>5 DEF GoTo, ListsFinite
  <2>. QED
    BY <1>0, <2>1, <2>2, <2>3, TurnShows DEF KeepList
<1>6. CASE PreferencesAnswered
  <2>1. ListsFinite' /\ objectType' = objectType
    BY <1>0, <1>6 DEF PreferencesAnswered, ListsFinite
  <2>2. PICK page \in {1, pageOf[objectType]} : Turn(objectType, page)
    BY <1>6 DEF PreferencesAnswered, PreferencesLoaded, Loaded
  <2>. QED
    BY <1>0, <2>1, <2>2, TurnShows
<1>7. ASSUME NEW t \in Types, Retry(t) \/ CommandAnswered(t) \/ ListingFails(t)
      PROVE  PageInv'
  BY <1>7, PagesStay DEF Retry, RetryDue, CommandAnswered, ListingFails, RequestFails
<1>8. CASE Refresh \/ PreferencesSaved
  BY <1>8, PagesStay DEF Refresh, GetObject, PreferencesSaved, SaveSent, SaveEnds
<1>9. CASE ServerStuck \/ SendCommand \/ OpenLogs \/ LogOptions \/ LogDialogAnswered
  BY <1>9, PagesStay DEF ServerStuck, SendCommand, OpenLogs, LogOptions, LogDialogAnswered
<1>10. CASE UNCHANGED vars
  BY <1>10, PagesStay DEF vars
<1>. QED
  BY <1>1, <1>2, <1>3, <1>4, <1>5, <1>6, <1>7, <1>8, <1>9, <1>10 DEF Next, Listing

\* Whatever refreshes, filters, arrangements and preferences do to a list,
\* the page shown has items if the list has any (ListPagination.ts:30-43).
THEOREM PagesShowItems == Spec => []PageShowsItems
<1>1. Init => PageInv
  <2>. SUFFICES ASSUME Init
       PROVE  PageInv
    OBVIOUS
  <2>1. /\ \A t \in Types : data[t] = {} /\ dataFull[t] = {}
        /\ objectType \in Types /\ pageOf = [t \in Types |-> 1]
    BY WebPageAssumption DEF Init, StoreInit, TriageInit
  <2>2. Shown = {}
    BY <2>1 DEF Shown, Triaged
  <2>. QED
    BY <2>1, <2>2, FS_EmptySet DEF PageInv, ListsFinite, PageShowsItems
<1>2. PageInv => PageShowsItems
  BY DEF PageInv
<1>. QED
  BY Invariance, NextPages, <1>1, <1>2, PTL DEF Spec

-----------------------------------------------------------------------------
(* Preferences *)

Maps == [Types -> Arrangements \cup {Unset}]

PreferenceTypes ==
  /\ objectType \in Types
  /\ preferences \in Maps /\ stored \in Maps
  /\ saving \in Seq(Maps)

\* Unless something was arranged before the preferences were loaded: nothing is
\* to be saved before the load, what the user arranged is a preference, and the
\* save sent last carries the preferences of the moment it was due.
PreferencesGood ==
  ~early =>
    /\ ~loaded => ~saveTimeout /\ ~userInteracted /\ saving = <<>> /\ newest = "none"
    /\ userInteracted => preferences[objectType] = arranged
    /\ ~saveTimeout /\ newest = "sent" =>
         saving # <<>> /\ saving[Len(saving)] = preferences
    /\ ~saveTimeout /\ newest = "kept" => stored = preferences

PreferenceInv == PreferenceTypes /\ PreferencesGood

\* A save that ends before the last one leaves the last one last.
LEMMA RemoveKeepsLast ==
  ASSUME NEW S, NEW s \in Seq(S), NEW i \in 1..Len(s)
  PROVE  /\ RemoveAt(s, i) \in Seq(S)
         /\ i # Len(s) => /\ RemoveAt(s, i) # <<>>
                          /\ RemoveAt(s, i)[Len(RemoveAt(s, i))] = s[Len(s)]
<1>. DEFINE a == SubSeq(s, 1, i - 1)
            b == SubSeq(s, i + 1, Len(s))
<1>1. a \in Seq(S) /\ b \in Seq(S) /\ Len(b) = Len(s) - i
      /\ \A x \in 1..(Len(s) - i) : b[x] = s[x + i]
  OBVIOUS
<1>2. RemoveAt(s, i) = a \o b
  BY DEF RemoveAt
<1>. HIDE DEF a, b
<1>3. i # Len(s) => b[Len(b)] = s[Len(s)] /\ Len(b) > 0
  <2>. SUFFICES ASSUME i # Len(s) PROVE b[Len(b)] = s[Len(s)] /\ Len(b) > 0
    OBVIOUS
  <2>1. Len(b) \in 1..(Len(s) - i) /\ Len(b) + i = Len(s)
    BY <1>1
  <2>. QED
    BY <1>1, <2>1
<1>4. /\ a \o b \in Seq(S)
      /\ Len(b) > 0 => a \o b # <<>> /\ (a \o b)[Len(a \o b)] = b[Len(b)]
  <2>1. a \in Seq(S) /\ b \in Seq(S)
    BY <1>1
  <2>2. /\ a \o b \in Seq(S) /\ Len(a \o b) = Len(a) + Len(b)
        /\ \A x \in 1..(Len(a) + Len(b)) :
             (a \o b)[x] = IF x <= Len(a) THEN a[x] ELSE b[x - Len(a)]
    BY <2>1, ConcatProperties
  <2>3. Len(a) \in Nat /\ Len(b) \in Nat
    BY <2>1
  <2>. QED
    BY <2>2, <2>3
<1>. QED
  BY <1>2, <1>3, <1>4

LEMMA InitPreferences == Init => PreferenceInv
<1>. SUFFICES ASSUME Init
     PROVE  PreferenceInv
  OBVIOUS
<1>1. <<>> \in Seq(Maps)
  OBVIOUS
<1>. QED
  BY <1>1, WebPageAssumption, StoredAssumption
  DEF Init, TriageInit, PreferenceInv, PreferenceTypes, PreferencesGood, Maps

LEMMA PreferencesStay ==
  ASSUME PreferenceInv, UNCHANGED <<objectType, arranged, userInteracted, preferenceVars>>
  PROVE  PreferenceInv'
BY DEF PreferenceInv, PreferenceTypes, PreferencesGood, preferenceVars

LEMMA SwitchKeepsPreferences ==
  ASSUME PreferenceInv, NEW t \in Types, SwitchType(t)
  PROVE  PreferenceInv'
BY DEF SwitchType, Mount, PreferenceInv, PreferenceTypes, PreferencesGood, preferenceVars

LEMMA ArrangeKeepsPreferences ==
  ASSUME PreferenceInv, UserArranges
  PROVE  PreferenceInv'
<1>. USE DEF PreferenceInv, PreferenceTypes
<1>1. PICK a \in Arrangements :
        arranged' = a /\ preferences' = [preferences EXCEPT ![objectType] = a]
  BY DEF UserArranges, Arrange
<1>2. /\ userInteracted' = TRUE /\ saveTimeout' = TRUE
      /\ early' = (early \/ ~loaded)
      /\ UNCHANGED <<objectType, loaded, saving, stored, newest>>
  BY DEF UserArranges, Arrange, ScheduleSave
<1>3. preferences' \in Maps /\ preferences'[objectType] = a
  BY <1>1 DEF Maps
<1>. QED
  BY <1>1, <1>2, <1>3 DEF PreferencesGood

LEMMA LoadKeepsPreferences ==
  ASSUME PreferenceInv, PreferencesAnswered
  PROVE  PreferenceInv'
<1>. USE DEF PreferenceInv, PreferenceTypes
<1>1. PICK answer \in {stored, NoPreferences} : Loaded(objectType, answer)
  BY DEF PreferencesAnswered, PreferencesLoaded
<1>2. answer \in Maps
  BY DEF Maps, NoPreferences
<1>3. /\ ~loaded /\ loaded' = TRUE
      /\ preferences' = [u \in Types |-> OrElse(answer[u], preferences[u])]
      /\ UNCHANGED <<userInteracted, saveTimeout, saving, stored, early, newest>>
  BY <1>1 DEF Loaded
<1>4. preferences' \in Maps
  BY <1>2, <1>3 DEF Maps, OrElse
<1>5. UNCHANGED objectType
  BY DEF PreferencesAnswered, pageVars
<1>. QED
  BY <1>3, <1>4, <1>5 DEF PreferencesGood

LEMMA SaveKeepsPreferences ==
  ASSUME PreferenceInv, PreferencesSaved
  PROVE  PreferenceInv'
<1>. USE DEF PreferenceInv, PreferenceTypes
<1>1. UNCHANGED <<objectType, arranged, userInteracted, preferences, loaded, early>>
  BY DEF PreferencesSaved, SaveSent, SaveEnds, pageVars
<1>2. CASE SaveSent
  <2>1. /\ saveTimeout /\ ~saveTimeout' /\ newest' = "sent" /\ UNCHANGED stored
        /\ saving' = Append(saving, preferences)
    BY <1>2 DEF SaveSent
  <2>2. saving' \in Seq(Maps) /\ saving' # <<>> /\ saving'[Len(saving')] = preferences
    BY <2>1
  <2>. QED
    BY <1>1, <2>1, <2>2 DEF PreferencesGood
<1>3. CASE SaveEnds
  <2>1. PICK i \in 1..Len(saving) :
          /\ saving' = RemoveAt(saving, i)
          /\ \/ /\ stored' = saving[i]
                /\ newest' = IF newest # "sent" THEN "lost"
                             ELSE IF i = Len(saving) THEN "kept" ELSE "sent"
             \/ /\ UNCHANGED stored
                /\ newest' = IF newest = "sent" /\ i = Len(saving) THEN "lost" ELSE newest
    BY <1>3 DEF SaveEnds
  <2>2. UNCHANGED saveTimeout
    BY <1>3 DEF SaveEnds
  <2>3. /\ saving' \in Seq(Maps)
        /\ i # Len(saving) => saving' # <<>> /\ saving'[Len(saving')] = saving[Len(saving)]
    BY <2>1, RemoveKeepsLast
  <2>4. stored' \in Maps
    BY <2>1
  <2>5. PreferenceTypes'
    BY <1>1, <2>3, <2>4
  \* Before the load nothing is in flight.
  <2>6. PreferencesGood'
    <3>. SUFFICES ASSUME ~early
                  PROVE  PreferencesGood'
      BY <1>1 DEF PreferencesGood
    <3>1. CASE ~loaded
      BY <1>1, <2>1, <2>2, <3>1 DEF PreferencesGood
    <3>2. CASE loaded
      BY <1>1, <2>1, <2>2, <2>3, <3>2 DEF PreferencesGood
    <3>. QED
      BY <3>1, <3>2
  <2>. QED
    BY <2>5, <2>6
<1>. QED
  BY <1>2, <1>3 DEF PreferencesSaved

LEMMA NextPreferences == PreferenceInv /\ [Next]_vars => PreferenceInv'
<1>. SUFFICES ASSUME PreferenceInv, [Next]_vars
     PROVE  PreferenceInv'
  OBVIOUS
<1>1. ASSUME NEW t \in Types, Listing(t) \/ Retry(t) \/ CommandAnswered(t)
      PROVE  PreferenceInv'
  BY <1>1, PreferencesStay
  DEF Listing, ListingAnswered, ListingFails, Retry, CommandAnswered, KeepPage,
      KeepList, triageVars, pageVars
<1>2. CASE FilterChanges \/ Refresh \/ GoTo
  BY <1>2, PreferencesStay DEF FilterChanges, Refresh, GoTo, KeepList, triageVars, pageVars
<1>3. CASE ServerStuck \/ SendCommand \/ OpenLogs \/ LogOptions \/ LogDialogAnswered
  BY <1>3, PreferencesStay
  DEF ServerStuck, SendCommand, OpenLogs, LogOptions, LogDialogAnswered, triageVars
<1>4. CASE UNCHANGED vars
  BY <1>4, PreferencesStay DEF vars, triageVars, pageVars
<1>. QED
  BY <1>1, <1>2, <1>3, <1>4, SwitchKeepsPreferences, ArrangeKeepsPreferences,
     LoadKeepsPreferences, SaveKeepsPreferences DEF Next

\* Once nothing is to be saved and the last save arrived last, the server has
\* what the session shows (ListPreferencesService.ts, useListTriage.ts).
THEOREM ArrangementFollows == Spec => []PreferencesFollow
<1>1. PreferenceInv => PreferencesFollow
  BY DEF PreferenceInv, PreferencesGood, PreferencesFollow
<1>. QED
  BY InitPreferences, NextPreferences, <1>1, PTL DEF Spec

-----------------------------------------------------------------------------
(* Retries of stale listings *)

\* Whoever sees the spinner waits for something: the type asked for last is
\* being listed, or a retry of it is armed.
LoadingAwaits == loading => Pending(lastCall) \/ retries[lastCall] > 0

RetryInv ==
  /\ _staleRetryCounts \in [Types -> 0..STALE_RETRY_MAX_ATTEMPTS]
  /\ retries \in [Types -> Nat]
  /\ LoadingAwaits

\* How often the retries of t can still fire unless the user has it listed
\* anew: those that are armed and those stale answers may arm.
Budget(t) == retries[t] + STALE_RETRY_MAX_ATTEMPTS - _staleRetryCounts[t]

\* What a step does to the retries of t in front of a server that is stuck.
RetriesDescend ==
  stuck => \A t \in Types :
    /\ Budget(t)' <= Budget(t) \/ InvalidateAndRefresh(t)
    /\ Retry(t) => Budget(t)' < Budget(t)

LEMMA FetchAsks ==
  ASSUME StoreGood, NEW t \in Types, NEW forced, Fetch(t, forced)
  PROVE  Pending(t)'
BY DEF StoreGood, Fetch, Pending

LEMMA BudgetFacts ==
  ASSUME RetryInv, NEW t \in Types
  PROVE  /\ retries[t] \in Nat /\ _staleRetryCounts[t] \in Nat
         /\ _staleRetryCounts[t] <= STALE_RETRY_MAX_ATTEMPTS
         /\ Budget(t) \in Nat
BY RetryAssumption DEF RetryInv, Budget

\* A step that leaves timers and counts alone.
LEMMA BudgetStays ==
  ASSUME RetryInv, UNCHANGED <<retries, _staleRetryCounts>>
  PROVE  \A t \in Types : Budget(t)' <= Budget(t)
BY BudgetFacts DEF Budget

\* The user, or an answer, has t listed anew.
LEMMA InvalidateRetries ==
  ASSUME StoreGood, RetryInv, NEW t \in Types, InvalidateAndRefresh(t)
  PROVE  /\ RetryInv'
         /\ \A u \in Types \ {t} : Budget(u)' <= Budget(u)
<1>. USE DEF InvalidateAndRefresh
<1>1. Pending(t)' /\ lastCall' = t
  BY FetchAsks
<1>2. _staleRetryCounts' \in [Types -> 0..STALE_RETRY_MAX_ATTEMPTS]
  BY RetryAssumption DEF RetryInv
<1>3. RetryInv'
  BY <1>1, <1>2 DEF RetryInv, LoadingAwaits
<1>4. \A u \in Types \ {t} : retries'[u] = retries[u] /\ _staleRetryCounts'[u] = _staleRetryCounts[u]
  BY DEF RetryInv
<1>. QED
  BY <1>3, <1>4, BudgetFacts DEF Budget

\* A stale answer turns one attempt into one timer.
LEMMA AnsweredRetries ==
  ASSUME StoreGood, RetryInv, NEW t \in Types, NEW items, NEW status \in {"fresh", "stale"},
         Answered(t, items, status)
  PROVE  /\ RetryInv'
         /\ status = "stale" => \A u \in Types : Budget(u)' <= Budget(u)
<1>. DEFINE M == STALE_RETRY_MAX_ATTEMPTS
            n == _staleRetryCounts[t]
            again == status = "stale" /\ TryAgain(t)
<1>1. M \in Nat /\ n \in Nat /\ n <= M /\ retries[t] \in Nat
  BY BudgetFacts, RetryAssumption
<1>2. /\ loading' = (loading /\ again)
      /\ retries' = [retries EXCEPT ![t] = IF again THEN @ + 1 ELSE @]
      /\ _staleRetryCounts' =
           [_staleRetryCounts EXCEPT ![t] = IF status = "fresh" THEN 0 ELSE Min({n + 1, M})]
      /\ _pendingCacheRequests' = [_pendingCacheRequests EXCEPT ![t] = "no"]
      /\ UNCHANGED lastCall
  BY DEF Answered
<1>3. /\ Min({n + 1, M}) \in 0..M
      /\ n < M => Min({n + 1, M}) = n + 1
      /\ ~(n < M) => Min({n + 1, M}) = n
  <2>. DEFINE m == Min({n + 1, M})
  <2>1. m \in {n + 1, M} /\ m <= n + 1 /\ m <= M
    <3>. HIDE DEF n, M
    <3>1. n + 1 \in Int /\ M \in Int
      BY <1>1
    <3>. QED
      BY <3>1, MinMaxFacts DEF m
  <2>. HIDE DEF m
  <2>2. m \in 0..M /\ (n < M => m = n + 1) /\ (~(n < M) => m = n)
    BY <1>1, <2>1
  <2>. QED
    BY <2>2 DEF m
<1>4. again <=> status = "stale" /\ n < M
  BY DEF TryAgain
<1>5. /\ _staleRetryCounts' \in [Types -> 0..M] /\ retries' \in [Types -> Nat]
      /\ retries'[t] = IF again THEN retries[t] + 1 ELSE retries[t]
      /\ status = "stale" => _staleRetryCounts'[t] = Min({n + 1, M})
      /\ \A u \in Types \ {t} : retries'[u] = retries[u] /\ _staleRetryCounts'[u] = _staleRetryCounts[u]
  BY <1>1, <1>2, <1>3 DEF RetryInv
<1>6. LoadingAwaits'
  <2>. SUFFICES ASSUME loading'
       PROVE  Pending(lastCall)' \/ retries'[lastCall'] > 0
    BY DEF LoadingAwaits
  <2>1. loading /\ again
    BY <1>2
  <2>2. CASE lastCall = t
    BY <1>1, <1>2, <1>5, <2>1, <2>2
  <2>3. CASE lastCall # t
    BY <1>2, <1>5, <2>1, <2>3 DEF StoreGood, RetryInv, LoadingAwaits, Pending
  <2>. QED
    BY <2>2, <2>3
<1>7. RetryInv'
  BY <1>5, <1>6 DEF RetryInv
<1>8. ASSUME status = "stale", NEW u \in Types
      PROVE  Budget(u)' <= Budget(u)
  <2>1. CASE u = t
    <3>1. CASE n < M
      BY <1>1, <1>3, <1>4, <1>5, <1>8, <2>1, <3>1 DEF Budget
    <3>2. CASE ~(n < M)
      BY <1>1, <1>3, <1>4, <1>5, <1>8, <2>1, <3>2 DEF Budget
    <3>. QED
      BY <3>1, <3>2
  <2>2. CASE u # t
    BY <1>5, <2>2, BudgetFacts DEF Budget
  <2>. QED
    BY <2>1, <2>2
<1>. QED
  BY <1>7, <1>8

\* A timer that fires is gone, whether or not it asks.
LEMMA RetryRetries ==
  ASSUME StoreGood, RetryInv, NEW t \in Types, Retry(t)
  PROVE  /\ RetryInv' /\ Budget(t)' < Budget(t)
         /\ \A u \in Types : Budget(u)' <= Budget(u)
<1>1. /\ retries[t] > 0 /\ retries' = [retries EXCEPT ![t] = @ - 1]
      /\ UNCHANGED <<lastCall, _staleRetryCounts>>
  BY DEF Retry, RetryDue
<1>2. /\ retries' \in [Types -> Nat] /\ retries'[t] = retries[t] - 1
      /\ \A u \in Types \ {t} : retries'[u] = retries[u]
  BY <1>1, BudgetFacts DEF RetryInv
<1>3. LoadingAwaits'
  <2>1. CASE lastCall = t
    BY <1>1, <2>1, FetchAsks DEF Retry, RetryDue, LoadingAwaits
  <2>2. CASE lastCall # t
    <3>1. UNCHANGED <<_pendingCacheRequests, loading>>
      BY <2>2 DEF Retry, RetryDue
    <3>. QED
      BY <1>1, <1>2, <2>2, <3>1 DEF StoreGood, RetryInv, LoadingAwaits, Pending
  <2>. QED
    BY <2>1, <2>2
<1>4. RetryInv'
  BY <1>1, <1>2, <1>3 DEF RetryInv
<1>5. Budget(t)' < Budget(t)
  BY <1>1, <1>2, BudgetFacts, RetryAssumption DEF Budget
<1>6. \A u \in Types \ {t} : Budget(u)' <= Budget(u)
  BY <1>1, <1>2, BudgetFacts DEF Budget
<1>7. Budget(t)' \in Int
  BY <1>1, <1>2, BudgetFacts, RetryAssumption DEF Budget
<1>. QED
  BY <1>4, <1>5, <1>6, <1>7, BudgetFacts

LEMMA NextRetries ==
  ASSUME IInv, RetryInv, [Next]_vars
  PROVE  RetryInv' /\ RetriesDescend
<1>. USE DEF IInv
<1>1. StoreGood /\ \A t \in Types : Budget(t) \in Nat
  BY BudgetFacts
<1>2. ASSUME NEW t \in Types, Retry(t)
      PROVE  RetryInv' /\ RetriesDescend
  <2>1. RetryInv' /\ \A u \in Types : Budget(u)' <= Budget(u)
    BY <1>1, <1>2, RetryRetries
  <2>2. \A u \in Types : Retry(u) => Budget(u)' < Budget(u)
    BY <1>1, RetryRetries
  <2>. QED
    BY <2>1, <2>2 DEF RetriesDescend
<1>3. ASSUME NEW t \in Types, InvalidateAndRefresh(t)
      PROVE  RetryInv' /\ RetriesDescend
  <2>1. RetryInv' /\ \A u \in Types \ {t} : Budget(u)' <= Budget(u)
    BY <1>1, <1>3, InvalidateRetries
  <2>2. \A u \in Types : Retry(u) => Budget(u)' < Budget(u)
    BY <1>1, RetryRetries
  <2>. QED
    BY <1>3, <2>1, <2>2 DEF RetriesDescend
<1>4. ASSUME RetryInv', stuck => \A u \in Types : Budget(u)' <= Budget(u)
      PROVE  RetryInv' /\ RetriesDescend
  <2>1. \A u \in Types : Retry(u) => Budget(u)' < Budget(u)
    BY <1>1, RetryRetries
  <2>. QED
    BY <1>4, <2>1 DEF RetriesDescend
<1>5. ASSUME UNCHANGED fetchVars
      PROVE  RetryInv' /\ RetriesDescend
  <2>1. RetryInv'
    BY <1>5 DEF fetchVars, RetryInv, LoadingAwaits, Pending
  <2>. QED
    BY <1>4, <1>5, <2>1, BudgetStays DEF fetchVars
<1>6. ASSUME NEW t \in Types, ListingAnswered(t)
      PROVE  RetryInv' /\ RetriesDescend
  <2>1. PICK items \in Listings[t], status \in {"fresh", "stale"} :
          Answered(t, items, status) /\ (stuck => status = "stale")
    BY <1>6 DEF ListingAnswered
  <2>2. /\ RetryInv'
        /\ status = "stale" => \A u \in Types : Budget(u)' <= Budget(u)
    BY <1>1, <2>1, AnsweredRetries
  <2>. QED
    BY <1>4, <2>1, <2>2
<1>7. ASSUME NEW t \in Types, ListingFails(t)
      PROVE  RetryInv' /\ RetriesDescend
  <2>1. UNCHANGED <<retries, _staleRetryCounts>> /\ ~loading'
    BY <1>7 DEF ListingFails, RequestFails
  <2>2. RetryInv'
    BY <2>1 DEF RetryInv, LoadingAwaits
  <2>. QED
    BY <1>4, <2>1, <2>2, BudgetStays
<1>8. CASE Refresh
  <2>1. UNCHANGED <<retries, _staleRetryCounts, lastCall>> /\ Fetch(lastCall, _forceRefreshTypes)
    BY <1>8 DEF Refresh, GetObject
  <2>2. RetryInv'
    BY <1>1, <2>1, FetchAsks DEF StoreGood, RetryInv, LoadingAwaits
  <2>. QED
    BY <1>4, <2>1, <2>2, BudgetStays
<1>9. ASSUME NEW t \in Types, SwitchType(t) \/ CommandAnswered(t)
      PROVE  RetryInv' /\ RetriesDescend
  BY <1>3, <1>5, <1>9 DEF SwitchType, CommandAnswered
<1>10. CASE LogDialogAnswered
  BY <1>3, <1>5, <1>10, WebPageAssumption DEF LogDialogAnswered
<1>11. CASE FilterChanges \/ UserArranges \/ GoTo \/ PreferencesAnswered \/ PreferencesSaved
            \/ ServerStuck \/ SendCommand \/ OpenLogs \/ LogOptions \/ UNCHANGED vars
  BY <1>5, <1>11 DEF FilterChanges, UserArranges, GoTo, PreferencesAnswered,
     PreferencesSaved, ServerStuck, SendCommand, OpenLogs, LogOptions, vars, storeVars
<1>. QED
  BY <1>2, <1>6, <1>7, <1>8, <1>9, <1>10, <1>11 DEF Next, Listing

LEMMA RetriesGood == Spec => []RetryInv
<1>1. Init => RetryInv
  BY WebPageAssumption, RetryAssumption DEF Init, StoreInit, RetryInv, LoadingAwaits, Pending
<1>. QED
  BY Invariance, <1>1, NextRetries, PTL DEF Spec

\* While the page says that it loads, a listing of the type it asked for last
\* is in flight or a retry of it is armed, whatever was asked for in between
\* (KubernetesObjectStore.ts:214-277).
THEOREM SpinnerAwaits == Spec => []LoadingAwaits
<1>1. RetryInv => LoadingAwaits
  BY DEF RetryInv
<1>. QED
  BY <1>1, RetriesGood, PTL

\* In front of a server that stays stale, every retry that fires brings the
\* retries of its type closer to their end, and only a listing that the user
\* or a change asks for gives them back (KubernetesObjectStore.ts:44-46).
THEOREM RetriesRunOut == Spec => [][RetriesDescend]_vars
<1>1. IInv /\ RetryInv /\ [Next]_vars => [RetriesDescend]_vars
  BY NextRetries
<1>. QED
  BY Invariance, RetriesGood, <1>1, PTL DEF Spec
=============================================================================
