------------------------------ MODULE ListTriage ------------------------------
(***************************************************************************)
(* How the user arranges a list: quick filters and sort                    *)
(* (web/composables/useListTriage.ts, web/services/ListTriage.ts), the     *)
(* page shown (web/services/ListPagination.ts), and the preferences that   *)
(* keep the arrangement (web/services/ListPreferencesService.ts).          *)
(*                                                                         *)
(* An arrangement is a value; what matters of it is the set of items it    *)
(* lets through, as an order changes no page count.                        *)
(***************************************************************************)
EXTENDS ObjectStore, Sequences, SequencesExt

CONSTANTS
  Plain,       \* no quick filter, no sort
  Passes,      \* items each arrangement lets through
  Unset,       \* no preference
  FirstStored, \* maps of preferences the server may hold at first
  LIST_PAGE_SIZE

ASSUME PageSizeAssumption == LIST_PAGE_SIZE \in Nat \ {0}

Arrangements == DOMAIN Passes

\* A map of preferences has a place for every list.
ASSUME StoredAssumption == FirstStored \subseteq [Types -> Arrangements \cup {Unset}]

VARIABLES
  arranged, userInteracted, \* the mounted list
  pageOf,                   \* the page of each list
  preferences, loaded,      \* the state of ListPreferencesService
  saveTimeout,              \* a save is due
  saving,                   \* saves in flight, in the order they were sent
  stored,                   \* the preferences the server holds
  early,                    \* history: a change was made before the load ended
  newest                    \* history: the last save, "none", "sent", "kept" or "lost"

preferenceVars == <<preferences, loaded, saveTimeout, saving, stored, early, newest>>
triageVars == <<arranged, userInteracted, pageOf, preferenceVars>>

TriageInit ==
  /\ arranged = Plain /\ userInteracted = FALSE
  /\ pageOf = [t \in Types |-> 1]
  /\ preferences = [t \in Types |-> Unset] /\ loaded = FALSE
  /\ saveTimeout = FALSE /\ saving = <<>> /\ stored \in FirstStored
  /\ early = FALSE /\ newest = "none"

-----------------------------------------------------------------------------
(* Pages *)

PageCount(total) == Max({1, (total + LIST_PAGE_SIZE - 1) \div LIST_PAGE_SIZE})

\* applyListFilters() of what the store shows.
Triaged(items, arrangement) == items \cap Passes[arrangement]

\* Mutant: only what the user asks for is checked.
NotClamped(page, total) == page

\* setTotal(), setPage(): a page that does not exist becomes the last one.
Clamped(page, total) == Min({Max({1, page}), PageCount(total)})

\* What every step ends with: the total of the mounted list of t follows its
\* items, and the list turns to the page given.
Turn(t, page) ==
  pageOf' = [pageOf EXCEPT ![t] = Clamped(page, Cardinality(Triaged(data'[t], arranged')))]

-----------------------------------------------------------------------------
(* Preferences *)

OrElse(preference, default) == IF preference = Unset THEN default ELSE preference

\* A list of t is created: the stored preference, if there is one.
Mount(t) ==
  /\ arranged' = OrElse(preferences[t], Plain) /\ userInteracted' = FALSE
  /\ UNCHANGED preferenceVars

\* Mutant: nothing is scheduled while a save is in flight.
ScheduleSaveOnce == saveTimeout' = (saveTimeout \/ saving = <<>>)

\* scheduleSave(): debounced.
ScheduleSave == saveTimeout' = TRUE

\* onSortToggle(), toggleFilter(), clearAll().
Arrange(t) ==
  /\ \E a \in Arrangements \ {arranged} :
       arranged' = a /\ preferences' = [preferences EXCEPT ![t] = a]
  /\ userInteracted' = TRUE /\ ScheduleSave
  /\ early' = (early \/ ~loaded)
  /\ Turn(t, 1)
  /\ UNCHANGED <<loaded, saving, stored, newest>>

\* ensureLoaded() is answered: what is stored replaces what was set
\* meanwhile, and the list takes it unless the user has arranged it.
Loaded(t, answer) ==
  /\ ~loaded /\ loaded' = TRUE
  /\ preferences' = [u \in Types |-> OrElse(answer[u], preferences[u])]
  /\ LET applied == ~userInteracted /\ preferences'[t] # Unset IN
       /\ arranged' = IF applied THEN preferences'[t] ELSE arranged
       /\ Turn(t, IF applied THEN 1 ELSE pageOf[t])
  /\ UNCHANGED <<userInteracted, saveTimeout, saving, stored, early, newest>>

NoPreferences == [t \in Types |-> Unset]

\* The answer, or a failure: the defaults stay.
PreferencesLoaded(t) == Loaded(t, stored) \/ Loaded(t, NoPreferences)

\* The debounce ends: the whole map is sent.
SaveSent ==
  /\ saveTimeout /\ saveTimeout' = FALSE
  /\ saving' = Append(saving, preferences) /\ newest' = "sent"
  /\ UNCHANGED <<arranged, userInteracted, pageOf, preferences, loaded, stored, early>>

\* A save reaches the server or fails; two in flight may overtake each other.
SaveEnds ==
  /\ \E i \in DOMAIN saving :
       /\ saving' = RemoveAt(saving, i)
       /\ \/ /\ stored' = saving[i]
             /\ newest' = IF newest # "sent" THEN "lost"
                          ELSE IF i = Len(saving) THEN "kept" ELSE "sent"
          \/ /\ UNCHANGED stored
             /\ newest' = IF newest = "sent" /\ i = Len(saving) THEN "lost" ELSE newest
  /\ UNCHANGED <<arranged, userInteracted, pageOf, preferences, loaded, saveTimeout, early>>
=============================================================================
