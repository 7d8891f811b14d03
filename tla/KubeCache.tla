----------------------------- MODULE KubeCache -----------------------------
(***************************************************************************)
(* The file cache of resource listings (server/src/cache/KubeCache.ts),    *)
(* for one resource type: its file <type>.json, and the file               *)
(* <type>.json.tmp that every call of set() for the type writes before it  *)
(* renames it.                                                             *)
(*                                                                         *)
(* Files are the operating system's: a path names an inode, an open file   *)
(* keeps its inode when the path is renamed or removed, and writing to it  *)
(* goes on wherever the inode is now.  An inode is named after the call    *)
(* that created it.  The content of a file is the sequence of blocks that  *)
(* were written to it; entry w is Size[w] blocks <<w, ..., w>>: its JSON   *)
(* text, whose last block holds the end of the base64 data, cachedAt and   *)
(* the redaction marker.  One action is the work between two awaits; an    *)
(* operation on a file may fail where the code catches that, and the       *)
(* process can be killed between any two actions and in the middle of a    *)
(* write.                                                                  *)
(***************************************************************************)
EXTENDS Naturals, Sequences, FiniteSets

CONSTANTS
  Sets, Gets, Clears,  \* the calls of set(), get() and clear()
  Old,                 \* the entry left by a version that predates redaction
  Size,                \* Size[w]: length of entry w, in blocks
  Types,               \* the resource types the modelled file may be of
  NoFile,              \* no inode: the path does not exist
  Miss,                \* get() found no entry it may return
  Blend,               \* JSON that parses and that no call of set() wrote
  Pending              \* get() has not returned

Entries == Sets \cup {Old}
ASSUME NamesAssumption == Old \notin Sets /\ {NoFile, Miss, Blend, Pending} \cap Entries = {}
ASSUME AnswersAssumption == Miss # Blend
ASSUME CallsAssumption == Sets \cap (Gets \cup Clears) = {} /\ Gets \cap Clears = {}
ASSUME SizeAssumption == Size \in [Entries -> Nat \ {0}]

VARIABLES
  type,     \* the resource type of the file
  up,       \* the process has started and serves requests
  main,     \* inode of <type>.json, or NoFile
  tmp,      \* inode of <type>.json.tmp, or NoFile
  file,     \* file[i]: content of inode i
  fd,       \* fd[w]: inode that call w has open for writing
  step,     \* step[c]: how far call c is
  answer,   \* answer[g]: what get() call g returned
  crowd,    \* history: calls of set() that overlapped another
  cut       \* history: calls of set() whose work was cut short

vars == <<type, up, main, tmp, file, fd, step, answer, crowd, cut>>

IsSecretType(t) == t \in {"secret", "secrets"}

InSet == {w \in Sets : step[w] \notin {"idle", "over"}}

Entry(w) == [x \in 1..Size[w] |-> w]

\* The process is starting; an older one may have left an entry.
Init ==
  /\ type \in Types /\ up = FALSE
  /\ main \in {Old, NoFile} /\ tmp = NoFile
  /\ file = [i \in Entries |-> IF i = main THEN Entry(Old) ELSE <<>>]
  /\ fd = [w \in Sets |-> NoFile]
  /\ step = [c \in Sets \cup Gets \cup Clears |-> "idle"]
  /\ answer = [g \in Gets |-> Pending]
  /\ crowd = {} /\ cut = {}

-----------------------------------------------------------------------------
(* set()                                                                   *)

\* The entry and its cachedAt are made, the directory is ensured.
Begin(w) ==
  /\ up /\ step[w] = "idle"
  /\ step' = [step EXCEPT ![w] = "opening"]
  /\ crowd' = IF InSet = {} THEN crowd ELSE crowd \cup InSet \cup {w}
  /\ UNCHANGED <<type, up, main, tmp, file, fd, answer, cut>>

\* The directory or the temporary file cannot be made.
OpenFails(w) ==
  /\ step[w] = "opening"
  /\ step' = [step EXCEPT ![w] = "failed"]
  /\ cut' = cut \cup {w}
  /\ UNCHANGED <<type, up, main, tmp, file, fd, answer, crowd>>

\* Mutants of Open: the entry is written in place, the file is not truncated.
OpenInPlace(w) ==
  /\ step[w] = "opening"
  /\ LET i == IF main = NoFile THEN w ELSE main IN
       /\ main' = i
       /\ fd' = [fd EXCEPT ![w] = i]
       /\ file' = [file EXCEPT ![i] = <<>>]
  /\ step' = [step EXCEPT ![w] = "writing"]
  /\ UNCHANGED <<type, up, tmp, answer, crowd, cut>>
OpenUntruncated(w) ==
  /\ step[w] = "opening"
  /\ tmp' = IF tmp = NoFile THEN w ELSE tmp
  /\ fd' = [fd EXCEPT ![w] = tmp']
  /\ step' = [step EXCEPT ![w] = "writing"]
  /\ UNCHANGED <<type, up, main, file, answer, crowd, cut>>

\* writeJson() creates the temporary file, or truncates the one that is there.
Open(w) ==
  /\ step[w] = "opening"
  /\ tmp' = IF tmp = NoFile THEN w ELSE tmp
  /\ fd' = [fd EXCEPT ![w] = tmp']
  /\ file' = [file EXCEPT ![tmp'] = <<>>]
  /\ step' = [step EXCEPT ![w] = "writing"]
  /\ UNCHANGED <<type, up, main, answer, crowd, cut>>

\* Mutant of Overwrite: the data goes to the end of the file.
AppendTo(f, e) == f \o e
\* The blocks of e take the place of the first Len(e) blocks of f.
Overwrite(f, e) == e \o SubSeq(f, Len(e) + 1, Len(f))

\* n of the blocks of entry w reach its file.
PutBlocks(w, n) ==
  file' = [file EXCEPT ![fd[w]] = Overwrite(@, SubSeq(Entry(w), 1, n))]

Write(w) ==
  /\ step[w] = "writing"
  /\ PutBlocks(w, Size[w])
  /\ step' = [step EXCEPT ![w] = "renaming"]
  /\ UNCHANGED <<type, up, main, tmp, fd, answer, crowd, cut>>

\* The disk is full.
WriteFails(w) ==
  /\ step[w] = "writing"
  /\ \E n \in 0..(Size[w] - 1) : PutBlocks(w, n)
  /\ step' = [step EXCEPT ![w] = "failed"]
  /\ cut' = cut \cup {w}
  /\ UNCHANGED <<type, up, main, tmp, fd, answer, crowd>>

\* What stands at the temporary path moves into place, whoever wrote it.
Rename(w) ==
  /\ step[w] = "renaming" /\ tmp # NoFile
  /\ main' = tmp /\ tmp' = NoFile
  /\ step' = [step EXCEPT ![w] = "over"]
  /\ UNCHANGED <<type, up, file, fd, answer, crowd, cut>>

\* ENOENT: another call has already renamed or removed the temporary file.
RenameFails(w) ==
  /\ step[w] = "renaming" /\ tmp = NoFile
  /\ step' = [step EXCEPT ![w] = "failed"]
  /\ UNCHANGED <<type, up, main, tmp, file, fd, answer, crowd, cut>>

\* Mutant of Discard: the cleanup hits the entry in place as well.
DiscardAll == main' = NoFile /\ tmp' = NoFile
Discard == tmp' = NoFile /\ UNCHANGED main

\* The catch clause removes the temporary file, or fails to, which is ignored;
\* set() returns in any case.
Cleanup(w) ==
  /\ step[w] = "failed"
  /\ Discard \/ UNCHANGED <<main, tmp>>
  /\ step' = [step EXCEPT ![w] = "over"]
  /\ UNCHANGED <<type, up, file, fd, answer, crowd, cut>>

-----------------------------------------------------------------------------
(* get() and clear()                                                       *)

\* The blocks are JSON with data and cachedAt: only the last one is the end of an
\* entry.  A write cut inside the base64 data of a longer file leaves that too.
Parses(f) ==
  /\ f # <<>>
  /\ \A x \in 1..Len(f) : x = Size[f[x]] <=> x = Len(f)

\* Whose data and marker a file that parses is read as.
Content(f) == IF f = Entry(f[1]) THEN f[1] ELSE Blend
Unmarked(f) == f[Len(f)] = Old

\* Mutant of Served: an entry without the redaction marker is returned.
ServedUnmarked(i) ==
  IF i # NoFile /\ Parses(file[i]) THEN Content(file[i]) ELSE Miss

\* What get() makes of file i: whatever parses, and for a type of Secrets
\* carries the marker.
Served(i) ==
  IF i # NoFile /\ Parses(file[i]) /\ ~(IsSecretType(type) /\ Unmarked(file[i]))
  THEN Content(file[i]) ELSE Miss

Return(g, e) ==
  /\ step' = [step EXCEPT ![g] = "over"]
  /\ answer' = [answer EXCEPT ![g] = e]
  /\ UNCHANGED <<type, up, main, tmp, file, fd, crowd, cut>>

PathExists(g) ==
  /\ up /\ step[g] = "idle" /\ main # NoFile
  /\ step' = [step EXCEPT ![g] = "reading"]
  /\ UNCHANGED <<type, up, main, tmp, file, fd, answer, crowd, cut>>

\* There is no file, or pathExists() could not tell.
NoPath(g) == up /\ step[g] = "idle" /\ Return(g, Miss)

\* readJson() opens the path again: a file that is gone, does not parse or
\* cannot be read is an error that get() turns into a miss.
ReadJson(g) ==
  /\ step[g] = "reading"
  /\ \E e \in {Served(main), Miss} : Return(g, e)

\* A removal that fails is logged, and clear() returns as if it had worked.
Clear(d) ==
  /\ up /\ step[d] = "idle"
  /\ main' \in {NoFile, main}
  /\ step' = [step EXCEPT ![d] = "over"]
  /\ UNCHANGED <<type, up, tmp, file, fd, answer, crowd, cut>>

-----------------------------------------------------------------------------
(* The process ends, at any point of any call, and starts again.           *)

Stopped ==
  step' = [c \in DOMAIN step |-> IF step[c] = "idle" THEN "idle" ELSE "over"]

Crash ==
  /\ up /\ up' = FALSE
  /\ Stopped
  /\ cut' = cut \cup InSet
  /\ \/ UNCHANGED file
     \/ \E w \in Sets : /\ step[w] = "writing"
                        /\ \E n \in 0..(Size[w] - 1) : PutBlocks(w, n)
  /\ UNCHANGED <<type, main, tmp, fd, answer, crowd>>

\* purgeLegacySecretCache() removes secret.json, or fails and is ignored; it
\* knows no other type.
Start ==
  /\ ~up /\ up' = TRUE
  /\ main' \in IF type = "secret" THEN {NoFile, main} ELSE {main}
  /\ UNCHANGED <<type, tmp, file, fd, step, answer, crowd, cut>>

Next ==
  \/ \E w \in Sets : \/ Begin(w) \/ Open(w) \/ OpenFails(w)
                     \/ Write(w) \/ WriteFails(w)
                     \/ Rename(w) \/ RenameFails(w) \/ Cleanup(w)
  \/ \E g \in Gets : PathExists(g) \/ NoPath(g) \/ ReadJson(g)
  \/ \E d \in Clears : Clear(d)
  \/ Crash
  \/ Start

Spec == Init /\ [][Next]_vars

-----------------------------------------------------------------------------
(* Correctness.                                                            *)

Whole(i) == i = NoFile \/ \E e \in Entries : file[i] = Entry(e)

\* As long as no two calls of set() for the type have overlapped, the file in
\* place is a whole entry at every moment, after a crash or a full disk too
\* (lines 80-83): the temporary file a crash leaves is truncated, not reused.
InPlaceIsWhole == crowd = {} => Whole(main)

\* The same said of every schedule: "a crash mid-write can never leave a
\* truncated entry in place" (lines 80-81).  Overlapping calls break it.
CrashLeavesWholeEntry == ~up => Whole(main)

\* Calls that overlap spoil each other's files on the way, but once they have
\* all returned a whole entry is in place, provided their entries are of one
\* length and none was cut short: the callers that share one kubectl execution
\* (lines 66-92, called from each of them) end with a readable cache.
QuiescentIsWhole ==
  /\ InSet = {} /\ cut = {}
  /\ \A v, w \in Sets : step[v] = "over" /\ step[w] = "over" => Size[v] = Size[w]
  => Whole(main)

\* A listing of Secrets that was stored before redaction existed is never
\* returned, nor is a part of it in a blend, also when the startup purge failed
\* or does not know the type (lines 53-56, 132-142).
LegacyNeverServed ==
  IsSecretType(type) =>
    /\ \A g \in Gets : answer[g] # Old
    /\ Served(main) = Blend => \A x \in 1..Len(file[main]) : file[main][x] # Old

\* Whatever crashes, full disks and overlapping calls have left behind, a call
\* of set() that runs alone puts its entry in place (lines 82-83).
HealedByNextSet ==
  [][\A w \in Sets \ crowd : step[w] = "renaming" /\ up' /\ step'[w] # "renaming"
       => main' # NoFile /\ file'[main'] = Entry(w)]_vars

\* The file cache behaves as one cell per type that survives crashes.
Cell == INSTANCE CacheCell WITH
  cell <- Served(main), setting <- InSet,
  cleared <- {d \in Clears : step[d] = "over"}

ImplementsCell == Cell!Spec
=============================================================================
