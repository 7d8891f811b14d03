------------------------------- MODULE Selections -------------------------------
(***************************************************************************)
(* What the server stores for a user: the resource types selected and the  *)
(* preferences of the lists (server/src/crds/UserResourceSelections.ts).   *)
(* One user is enough, users share nothing.  The database runs each        *)
(* statement as a whole.                                                   *)
(***************************************************************************)
CONSTANTS
  Absent,     \* a row, column, field or file that is not there; NULL
  Broken,     \* a value that does not parse or is not what it should be
  Defaults,   \* the ids of the built-in types
  Legacy      \* user-selections-<userId>.json: Absent, Broken or ids

VARIABLES
  row,        \* Absent or the row of users_resource_selections
  \* History:
  savedIds,   \* what the user last saved
  savedPrefs

selectionVars == <<row, savedIds, savedPrefs>>

Coalesce(x, y) == IF x = Absent THEN y ELSE x

\* INSERT ... ON CONFLICT(userId) DO NOTHING, of a row without preferences.
InsertNew(ids) == IF row = Absent THEN [ids |-> ids, prefs |-> Absent] ELSE row

\* UserSelectionsDataInit(): a legacy file with a list of ids is imported.
Imported ==
  IF Legacy \in {Absent, Broken} THEN row ELSE InsertNew(Legacy)

\* UserSelectionLoad(): the answer of the query, or Absent for "store and
\* answer the defaults".
Stored ==
  IF row = Absent \/ row.ids = Broken THEN Absent
  ELSE [ids |-> row.ids, prefs |-> IF row.prefs = Broken THEN Absent ELSE row.prefs]

\* Mutant: the update writes what the insert would.
UpsertAll(ids, prefs) == [ids |-> Coalesce(ids, Defaults), prefs |-> prefs]

\* UserSelectionSave(): a field that is not given keeps its value.
Upsert(ids, prefs) ==
  IF row = Absent THEN [ids |-> Coalesce(ids, Defaults), prefs |-> prefs]
  ELSE [ids |-> Coalesce(ids, row.ids), prefs |-> Coalesce(prefs, row.prefs)]

SelectionsInit ==
  /\ row \in {Absent, [ids |-> Broken, prefs |-> Absent]}
  /\ savedIds = Absent /\ savedPrefs = Absent

SelectionsRestart == row' = Imported /\ UNCHANGED <<savedIds, savedPrefs>>

StoreDefaults == row' = InsertNew(Defaults) /\ UNCHANGED <<savedIds, savedPrefs>>

Save(ids, prefs) ==
  /\ row' = Upsert(ids, prefs)
  /\ savedIds' = Coalesce(ids, savedIds)
  /\ savedPrefs' = Coalesce(prefs, savedPrefs)
=============================================================================
