--------------------------- MODULE KubeCacheProofs ---------------------------
(* Proofs about KubeCache, for any calls, entries, types and sizes. *)
EXTENDS KubeCache, SequenceTheorems, TLAPS

Steps == {"idle", "opening", "writing", "renaming", "failed", "reading", "over"}

TypesGood ==
  /\ main \in Entries \cup {NoFile}
  /\ tmp \in Sets \cup {NoFile}
  /\ file \in [Entries -> Seq(Entries)]
  /\ fd \in [Sets -> Sets \cup {NoFile}]
  /\ step \in [Sets \cup Gets \cup Clears -> Steps]
  /\ crowd \subseteq Sets

\* The two paths never name one inode, and a call that has not opened its file
\* has made none.
PathsApart ==
  /\ tmp # NoFile => tmp # main
  /\ \A w \in Sets : step[w] \in {"idle", "opening"} => main # w /\ tmp # w

\* A call that has overlapped no other is the only one under way, and the
\* temporary file is its own.
LoneOwns ==
  \A w \in InSet \ crowd :
    /\ InSet = {w}
    /\ step[w] = "writing" =>
         tmp # NoFile /\ fd[w] = tmp /\ file[tmp] = <<>>
    /\ step[w] = "renaming" =>
         tmp # NoFile /\ file[tmp] = Entry(w)

IInv == TypesGood /\ PathsApart /\ LoneOwns /\ InPlaceIsWhole

-----------------------------------------------------------------------------
(* Entries and what a write leaves *)

LEMMA EntryFacts ==
  ASSUME NEW w \in Entries
  PROVE  /\ Entry(w) \in Seq(Entries) /\ Len(Entry(w)) = Size[w]
         /\ Size[w] \in Nat \ {0} /\ Entry(w)[1] = w
BY SizeAssumption DEF Entry

\* No two entries are the same file.
LEMMA EntryInjective ==
  ASSUME NEW v \in Entries, NEW w \in Entries, Entry(v) = Entry(w)
  PROVE  v = w
BY EntryFacts

\* Writing blocks over a file of blocks leaves a file of blocks.
LEMMA OverwriteType ==
  ASSUME NEW f \in Seq(Entries), NEW e \in Seq(Entries)
  PROVE  Overwrite(f, e) \in Seq(Entries)
<1>1. Len(f) \in Nat /\ Len(e) \in Nat
  OBVIOUS
<1>2. \A x \in (Len(e) + 1)..Len(f) : f[x] \in Entries
  OBVIOUS
<1>3. SubSeq(f, Len(e) + 1, Len(f)) \in Seq(Entries)
  BY <1>1, <1>2, SubSeqProperties
<1>. QED
  BY <1>3, ConcatProperties DEF Overwrite

LEMMA BlocksType ==
  ASSUME NEW w \in Entries, NEW n \in 0..Size[w]
  PROVE  SubSeq(Entry(w), 1, n) \in Seq(Entries)
<1>1. \A x \in 1..n : Entry(w)[x] \in Entries
  BY EntryFacts DEF Entry
<1>. QED
  BY <1>1, EntryFacts, SubSeqProperties

\* A whole entry written to an empty file is that entry (writeJson()).
LEMMA WholeWrite ==
  ASSUME NEW w \in Entries
  PROVE  Overwrite(<<>>, SubSeq(Entry(w), 1, Size[w])) = Entry(w)
<1>1. SubSeq(Entry(w), 1, Size[w]) = Entry(w)
  BY EntryFacts
<1>2. SubSeq(<<>>, Size[w] + 1, 0) = <<>>
  BY EntryFacts
<1>. QED
  BY <1>1, <1>2, EntryFacts DEF Overwrite

LEMMA OverwriteFacts ==
  ASSUME NEW f \in Seq(Entries), NEW e \in Seq(Entries)
  PROVE  /\ Len(Overwrite(f, e)) \in Nat /\ Len(Overwrite(f, e)) >= Len(e)
         /\ \A x \in 1..Len(Overwrite(f, e)) :
              IF x <= Len(e) THEN Overwrite(f, e)[x] = e[x]
              ELSE x \in 1..Len(f) /\ Overwrite(f, e)[x] = f[x]
         /\ e = <<>> => Overwrite(f, e) = f
<1>. DEFINE g == SubSeq(f, Len(e) + 1, Len(f))
<1>1. Len(f) \in Nat /\ Len(e) \in Nat
  OBVIOUS
<1>2. \A x \in (Len(e) + 1)..Len(f) : f[x] \in Entries
  OBVIOUS
<1>3. /\ g \in Seq(Entries)
      /\ Len(g) = IF Len(e) + 1 <= Len(f) THEN Len(f) - Len(e) ELSE 0
      /\ \A x \in 1..Len(g) : g[x] = f[x + Len(e)]
  BY <1>1, <1>2, SubSeqProperties
<1>4. e = <<>> => g = f
  BY <1>1
<1>. HIDE DEF g
<1>5. Overwrite(f, e) = e \o g
  BY DEF Overwrite, g
<1>6. /\ Len(e \o g) = Len(e) + Len(g)
      /\ \A x \in 1..(Len(e) + Len(g)) :
           (e \o g)[x] = IF x <= Len(e) THEN e[x] ELSE g[x - Len(e)]
  <2>1. g \in Seq(Entries)
    BY <1>3
  <2>. QED
    BY <2>1, ConcatProperties
<1>7. Len(g) \in Nat
  BY <1>3
<1>8. ASSUME NEW x \in 1..(Len(e) + Len(g)), x > Len(e)
      PROVE  x \in 1..Len(f) /\ (e \o g)[x] = f[x]
  <2>1. x - Len(e) \in 1..Len(g) /\ (x - Len(e)) + Len(e) = x
    BY <1>1, <1>7, <1>8
  <2>2. g[x - Len(e)] = f[x]
    BY <1>3, <2>1
  <2>3. x \in 1..Len(f)
    BY <1>1, <1>3, <2>1
  <2>. QED
    BY <1>1, <1>6, <1>8, <2>2, <2>3
<1>9. e = <<>> => e \o g = f
  BY <1>4
<1>. QED
  BY <1>1, <1>5, <1>6, <1>7, <1>8, <1>9

\* n blocks of entry w in its file: they come first, what follows was there.
LEMMA PutBlocksFacts ==
  ASSUME TypesGood, NEW w \in Sets, NEW n \in 0..Size[w], PutBlocks(w, n)
  PROVE  /\ \A i \in Entries : i # fd[w] => file'[i] = file[i]
         /\ n = 0 => file' = file
         /\ fd[w] \in Entries =>
              /\ Len(file'[fd[w]]) \in Nat /\ Len(file'[fd[w]]) >= n
              /\ \A x \in 1..Len(file'[fd[w]]) :
                   IF x <= n THEN file'[fd[w]][x] = w
                   ELSE x \in 1..Len(file[fd[w]]) /\ file'[fd[w]][x] = file[fd[w]][x]
<1>1. w \in Entries /\ file \in [Entries -> Seq(Entries)] /\ Size[w] \in Nat /\ n \in Nat
  BY EntryFacts DEF TypesGood, Entries
<1>. DEFINE e == SubSeq(Entry(w), 1, n)
<1>2. /\ e \in Seq(Entries) /\ Len(e) = n
      /\ \A x \in 1..n : e[x] = w
  <2>1. \A x \in 1..n : Entry(w)[x] = w /\ w \in Entries
    BY <1>1 DEF Entry
  <2>2. 1 \in Int /\ n \in Int
    BY <1>1
  <2>3. /\ e \in Seq(Entries)
        /\ Len(e) = IF 1 <= n THEN n - 1 + 1 ELSE 0
        /\ \A x \in 1..(n - 1 + 1) : e[x] = Entry(w)[1 + x - 1]
    BY <1>1, <2>1, <2>2, SubSeqProperties
  <2>. QED
    BY <1>1, <2>1, <2>3
<1>. HIDE DEF e
<1>3. file' = [file EXCEPT ![fd[w]] = Overwrite(@, e)]
  BY DEF PutBlocks, e
<1>4. fd[w] \in Entries => file'[fd[w]] = Overwrite(file[fd[w]], e)
  BY <1>1, <1>3
<1>5. n = 0 => e = <<>>
  BY <1>2
<1>6. n = 0 => file' = file
  <2>. SUFFICES ASSUME n = 0 PROVE file' = file
    OBVIOUS
  <2>1. fd[w] \in Entries => Overwrite(file[fd[w]], e) = file[fd[w]]
    <3>. SUFFICES ASSUME fd[w] \in Entries
                  PROVE  Overwrite(file[fd[w]], e) = file[fd[w]]
      OBVIOUS
    <3>1. file[fd[w]] \in Seq(Entries) /\ e \in Seq(Entries) /\ e = <<>>
      BY <1>1, <1>2, <1>5
    <3>. QED
      BY <3>1, OverwriteFacts
  <2>. QED
    BY <1>1, <1>3, <2>1
<1>7. \A i \in Entries : i # fd[w] => file'[i] = file[i]
  BY <1>1, <1>3
<1>8. ASSUME fd[w] \in Entries
      PROVE  /\ Len(file'[fd[w]]) \in Nat /\ Len(file'[fd[w]]) >= n
             /\ \A x \in 1..Len(file'[fd[w]]) :
                  IF x <= n THEN file'[fd[w]][x] = w
                  ELSE x \in 1..Len(file[fd[w]]) /\ file'[fd[w]][x] = file[fd[w]][x]
  <2>. DEFINE f == file[fd[w]]
  <2>1. f \in Seq(Entries) /\ e \in Seq(Entries)
    BY <1>1, <1>2, <1>8
  <2>. HIDE DEF f
  <2>2. /\ Len(Overwrite(f, e)) \in Nat /\ Len(Overwrite(f, e)) >= Len(e)
        /\ \A x \in 1..Len(Overwrite(f, e)) :
             IF x <= Len(e) THEN Overwrite(f, e)[x] = e[x]
             ELSE x \in 1..Len(f) /\ Overwrite(f, e)[x] = f[x]
    BY <2>1, OverwriteFacts
  <2>3. file'[fd[w]] = Overwrite(f, e) /\ Len(e) = n /\ \A x \in 1..n : e[x] = w
    BY <1>2, <1>4, <1>8 DEF f
  <2>4. \A x \in 1..Len(Overwrite(f, e)) : x <= n => x \in 1..n
    BY <1>1, <2>2
  <2>. QED
    BY <2>2, <2>3, <2>4 DEF f
<1>. QED
  BY <1>6, <1>7, <1>8

-----------------------------------------------------------------------------
LEMMA InitIInv == Init => IInv
<1>. SUFFICES ASSUME Init
     PROVE  IInv
  OBVIOUS
<1>1. TypesGood
  <2>1. <<>> \in Seq(Entries) /\ Entry(Old) \in Seq(Entries)
    BY EntryFacts DEF Entries
  <2>. QED
    BY <2>1 DEF Init, TypesGood, Entries, Steps
<1>2. PathsApart
  BY NamesAssumption DEF Init, PathsApart, Entries
<1>3. LoneOwns
  BY DEF Init, LoneOwns, InSet
<1>4. InPlaceIsWhole
  BY DEF Init, InPlaceIsWhole, Whole, Entries
<1>. QED
  BY <1>1, <1>2, <1>3, <1>4 DEF IInv

\* A step of a call of set() that reaches s is a step of that call only.
LEMMA StepFacts ==
  ASSUME TypesGood, NEW w \in Sets, NEW s \in Steps, step' = [step EXCEPT ![w] = s]
  PROVE  /\ step' \in [Sets \cup Gets \cup Clears -> Steps]
         /\ step'[w] = s
         /\ \A v \in Sets : v # w => step'[v] = step[v]
         /\ InSet' = IF s \in {"idle", "over"} THEN InSet \ {w} ELSE InSet \cup {w}
BY DEF TypesGood, InSet

\* A step of get() or clear() is none of set().
LEMMA OtherStepFacts ==
  ASSUME TypesGood, NEW c \in Gets \cup Clears, NEW s \in Steps,
         step' = [step EXCEPT ![c] = s]
  PROVE  /\ step' \in [Sets \cup Gets \cup Clears -> Steps]
         /\ \A v \in Sets : step'[v] = step[v]
         /\ InSet' = InSet
BY CallsAssumption DEF TypesGood, InSet

\* What reaches the file of a call keeps files files, and the file in place
\* whole if no calls overlap.
LEMMA PutFacts ==
  ASSUME IInv, NEW w \in Sets, NEW n \in 0..Size[w], step[w] = "writing",
         PutBlocks(w, n)
  PROVE  /\ file' \in [Entries -> Seq(Entries)]
         /\ \A i \in Entries : i # fd[w] => file'[i] = file[i]
         /\ w \notin crowd => main # fd[w]
<1>1. w \in Entries /\ file \in [Entries -> Seq(Entries)]
  BY DEF IInv, TypesGood, Entries
<1>2. ASSUME fd[w] \in Entries
      PROVE  Overwrite(file[fd[w]], SubSeq(Entry(w), 1, n)) \in Seq(Entries)
  BY <1>1, <1>2, OverwriteType, BlocksType
<1>3. w \notin crowd => main # fd[w]
  BY DEF IInv, LoneOwns, PathsApart, InSet
<1>. QED
  BY <1>1, <1>2, <1>3 DEF PutBlocks

LEMMA NextIInv == IInv /\ [Next]_vars => IInv'
<1>. SUFFICES ASSUME IInv, [Next]_vars
     PROVE  IInv'
  OBVIOUS
<1>. USE DEF IInv
<1>0. /\ \A w \in Sets : w \in Entries /\ w # NoFile
      /\ \A w \in Sets : step[w] \notin {"idle", "over"} <=> w \in InSet
  BY NamesAssumption DEF Entries, InSet
<1>1. CASE UNCHANGED vars
  BY <1>1 DEF vars, TypesGood, PathsApart, LoneOwns, InPlaceIsWhole, InSet, Whole
<1>2. ASSUME NEW w \in Sets, Begin(w)
      PROVE  IInv'
  <2>1. /\ step' = [step EXCEPT ![w] = "opening"] /\ "opening" \in Steps
        /\ step[w] = "idle" /\ UNCHANGED <<main, tmp, file, fd>>
    BY <1>2 DEF Begin, Steps
  <2>2. TypesGood'
    BY <1>2, <2>1, StepFacts DEF Begin, TypesGood, InSet
  <2>3. PathsApart'
    BY <2>1, StepFacts DEF PathsApart
  <2>4. LoneOwns'
    <3>1. CASE InSet = {}
      <4>1. InSet' = {w} /\ step'[w] = "opening"
        BY <2>1, <3>1, StepFacts
      <4>. QED
        BY <4>1 DEF LoneOwns
    <3>2. CASE InSet # {}
      <4>1. InSet' = InSet \cup {w} /\ crowd' = crowd \cup InSet \cup {w}
        BY <1>2, <2>1, <3>2, StepFacts DEF Begin
      <4>. QED
        BY <4>1 DEF LoneOwns
    <3>. QED
      BY <3>1, <3>2
  <2>5. InPlaceIsWhole'
    BY <1>2, <2>1 DEF Begin, InPlaceIsWhole, Whole
  <2>. QED
    BY <2>2, <2>3, <2>4, <2>5
<1>3. ASSUME NEW w \in Sets, Open(w)
      PROVE  IInv'
  <2>1. /\ step' = [step EXCEPT ![w] = "writing"] /\ "writing" \in Steps
        /\ step[w] = "opening" /\ UNCHANGED <<main, crowd>>
        /\ tmp' \in Sets /\ tmp' # NoFile /\ tmp' # main
        /\ tmp' = w \/ tmp' = tmp
        /\ fd' = [fd EXCEPT ![w] = tmp'] /\ file' = [file EXCEPT ![tmp'] = <<>>]
    BY <1>0, <1>3 DEF Open, Steps, PathsApart, TypesGood
  <2>2. TypesGood'
    <3>1. <<>> \in Seq(Entries)
      OBVIOUS
    <3>. QED
      BY <2>1, <3>1, StepFacts DEF TypesGood
  <2>3. PathsApart'
    BY <2>1, StepFacts DEF PathsApart
  <2>4. LoneOwns'
    <3>1. /\ InSet' = InSet /\ step'[w] = "writing"
          /\ fd'[w] = tmp' /\ file'[tmp'] = <<>>
      <4>1. InSet' = InSet \cup {w} /\ w \in InSet /\ step'[w] = "writing"
        BY <1>0, <2>1, StepFacts
      <4>2. tmp' \in Entries
        BY <2>1 DEF Entries
      <4>3. fd'[w] = tmp' /\ file'[tmp'] = <<>>
        BY <2>1, <4>2 DEF TypesGood
      <4>. QED
        BY <4>1, <4>3
    <3>. QED
      BY <1>0, <2>1, <3>1 DEF LoneOwns
  <2>5. InPlaceIsWhole'
    BY <2>1 DEF InPlaceIsWhole, Whole, TypesGood
  <2>. QED
    BY <2>2, <2>3, <2>4, <2>5
<1>12. ASSUME NEW w \in Sets, OpenFails(w)
      PROVE  IInv'
  <2>1. /\ step' = [step EXCEPT ![w] = "failed"] /\ "failed" \in Steps
        /\ step[w] = "opening" /\ UNCHANGED <<main, tmp, file, fd, crowd>>
    BY <1>12 DEF OpenFails, Steps
  <2>2. TypesGood' /\ PathsApart' /\ InPlaceIsWhole'
    BY <2>1, StepFacts DEF TypesGood, PathsApart, InPlaceIsWhole, Whole
  <2>3. LoneOwns'
    <3>1. InSet' = InSet /\ step'[w] = "failed"
      BY <1>0, <2>1, StepFacts
    <3>. QED
      BY <1>0, <2>1, <3>1 DEF LoneOwns
  <2>. QED
    BY <2>2, <2>3
<1>4. ASSUME NEW w \in Sets, Write(w)
      PROVE  IInv'
  <2>1. /\ step' = [step EXCEPT ![w] = "renaming"] /\ "renaming" \in Steps
        /\ step[w] = "writing" /\ UNCHANGED <<main, tmp, fd, crowd>>
        /\ PutBlocks(w, Size[w]) /\ Size[w] \in 0..Size[w]
    BY <1>0, <1>4, EntryFacts DEF Write, Steps
  <2>2. TypesGood'
    BY <2>1, StepFacts, PutFacts DEF TypesGood
  <2>3. PathsApart'
    BY <2>1, StepFacts DEF PathsApart
  <2>4. LoneOwns'
    <3>1. InSet' = InSet /\ step'[w] = "renaming"
      BY <1>0, <2>1, StepFacts
    <3>. SUFFICES ASSUME NEW v \in InSet \ crowd
         PROVE  InSet = {v} /\ tmp # NoFile /\ file'[tmp] = Entry(v) /\ v = w
      BY <2>1, <3>1 DEF LoneOwns
    <3>2. InSet = {v} /\ v = w
      BY <1>0, <2>1 DEF LoneOwns
    <3>3. tmp # NoFile /\ fd[w] = tmp /\ file[tmp] = <<>> /\ tmp \in Entries
      BY <1>0, <2>1, <3>2 DEF LoneOwns, TypesGood
    <3>4. file'[tmp] = Overwrite(<<>>, SubSeq(Entry(w), 1, Size[w]))
      BY <2>1, <3>3 DEF PutBlocks, TypesGood
    <3>. QED
      BY <1>0, <3>2, <3>3, <3>4, WholeWrite
  <2>5. InPlaceIsWhole'
    BY <2>1, PutFacts DEF InPlaceIsWhole, Whole, TypesGood
  <2>. QED
    BY <2>2, <2>3, <2>4, <2>5
<1>5. ASSUME NEW w \in Sets, WriteFails(w)
      PROVE  IInv'
  <2>1. PICK n \in 0..(Size[w] - 1) : PutBlocks(w, n)
    BY <1>5 DEF WriteFails
  <2>2. /\ step' = [step EXCEPT ![w] = "failed"] /\ "failed" \in Steps
        /\ step[w] = "writing" /\ UNCHANGED <<main, tmp, fd, crowd>>
        /\ n \in 0..Size[w]
    BY <1>0, <1>5, EntryFacts DEF WriteFails, Steps
  <2>3. TypesGood'
    BY <2>1, <2>2, StepFacts, PutFacts DEF TypesGood
  <2>4. PathsApart'
    BY <2>2, StepFacts DEF PathsApart
  <2>5. LoneOwns'
    <3>1. InSet' = InSet /\ step'[w] = "failed"
      BY <1>0, <2>2, StepFacts
    <3>. QED
      BY <1>0, <2>2, <3>1 DEF LoneOwns
  <2>6. InPlaceIsWhole'
    BY <2>1, <2>2, PutFacts DEF InPlaceIsWhole, Whole, TypesGood
  <2>. QED
    BY <2>3, <2>4, <2>5, <2>6
<1>6. ASSUME NEW w \in Sets, Rename(w)
      PROVE  IInv'
  <2>1. /\ step' = [step EXCEPT ![w] = "over"] /\ "over" \in Steps
        /\ step[w] = "renaming" /\ tmp # NoFile /\ main' = tmp /\ tmp' = NoFile
        /\ UNCHANGED <<file, fd, crowd>>
    BY <1>6 DEF Rename, Steps
  <2>2. TypesGood'
    BY <2>1, StepFacts DEF TypesGood, Entries
  <2>3. PathsApart'
    BY <1>0, <2>1, StepFacts DEF PathsApart
  <2>4. LoneOwns'
    <3>1. InSet' = InSet \ {w} /\ w \in InSet
      BY <1>0, <2>1, StepFacts
    <3>. QED
      BY <2>1, <3>1 DEF LoneOwns
  <2>5. InPlaceIsWhole'
    BY <1>0, <2>1 DEF InPlaceIsWhole, Whole, LoneOwns
  <2>. QED
    BY <2>2, <2>3, <2>4, <2>5
<1>7. ASSUME NEW w \in Sets, RenameFails(w)
      PROVE  IInv'
  <2>1. /\ step' = [step EXCEPT ![w] = "failed"] /\ "failed" \in Steps
        /\ step[w] = "renaming" /\ UNCHANGED <<main, tmp, file, fd, crowd>>
    BY <1>7 DEF RenameFails, Steps
  <2>2. TypesGood' /\ PathsApart' /\ InPlaceIsWhole'
    BY <2>1, StepFacts DEF TypesGood, PathsApart, InPlaceIsWhole, Whole
  <2>3. LoneOwns'
    <3>1. InSet' = InSet /\ step'[w] = "failed"
      BY <1>0, <2>1, StepFacts
    <3>. QED
      BY <1>0, <2>1, <3>1 DEF LoneOwns
  <2>. QED
    BY <2>2, <2>3
<1>8. ASSUME NEW w \in Sets, Cleanup(w)
      PROVE  IInv'
  <2>1. /\ step' = [step EXCEPT ![w] = "over"] /\ "over" \in Steps
        /\ step[w] = "failed" /\ tmp' \in {NoFile, tmp}
        /\ UNCHANGED <<main, file, fd, crowd>>
    BY <1>8 DEF Cleanup, Discard, Steps
  <2>2. TypesGood' /\ PathsApart' /\ InPlaceIsWhole'
    BY <1>0, <2>1, StepFacts DEF TypesGood, PathsApart, InPlaceIsWhole, Whole
  <2>3. LoneOwns'
    <3>1. InSet' = InSet \ {w} /\ w \in InSet
      BY <1>0, <2>1, StepFacts
    <3>. QED
      BY <2>1, <3>1 DEF LoneOwns
  <2>. QED
    BY <2>2, <2>3
<1>9. ASSUME NEW c \in Gets \cup Clears,
             PathExists(c) \/ NoPath(c) \/ ReadJson(c) \/ Clear(c)
      PROVE  IInv'
  <2>1. PICK s \in Steps : step' = [step EXCEPT ![c] = s]
    BY <1>9 DEF PathExists, NoPath, ReadJson, Clear, Return, Steps
  <2>2. UNCHANGED <<tmp, file, fd, crowd>> /\ main' \in {main, NoFile}
    BY <1>9 DEF PathExists, NoPath, ReadJson, Clear, Return
  <2>3. TypesGood'
    BY <2>1, <2>2, OtherStepFacts DEF TypesGood
  <2>4. PathsApart'
    BY <1>0, <2>1, <2>2, OtherStepFacts DEF PathsApart
  <2>5. LoneOwns'
    BY <1>0, <2>1, <2>2, OtherStepFacts DEF LoneOwns, InSet
  <2>6. InPlaceIsWhole'
    BY <2>2 DEF InPlaceIsWhole, Whole
  <2>. QED
    BY <2>3, <2>4, <2>5, <2>6
<1>10. CASE Crash
  <2>1. /\ UNCHANGED <<main, tmp, fd, crowd>>
        /\ step' \in [Sets \cup Gets \cup Clears -> Steps]
        /\ \A w \in Sets : step'[w] = IF step[w] = "idle" THEN "idle" ELSE "over"
    BY <1>10 DEF Crash, Stopped, TypesGood, Steps
  <2>2. /\ file' \in [Entries -> Seq(Entries)]
        /\ crowd = {} /\ main \in Entries => file'[main] = file[main]
    <3>1. CASE UNCHANGED file
      BY <3>1 DEF TypesGood
    <3>2. CASE ~UNCHANGED file
      <4>1. PICK w \in Sets : step[w] = "writing" /\ \E n \in 0..(Size[w] - 1) : PutBlocks(w, n)
        BY <1>10, <3>2 DEF Crash
      <4>2. PICK n \in 0..(Size[w] - 1) : PutBlocks(w, n)
        BY <4>1
      <4>3. n \in 0..Size[w]
        BY <1>0, EntryFacts
      <4>. QED
        BY <4>1, <4>2, <4>3, PutFacts
    <3>. QED
      BY <3>1, <3>2
  <2>3. TypesGood' /\ PathsApart'
    BY <2>1, <2>2 DEF TypesGood, PathsApart
  <2>4. LoneOwns'
    BY <2>1 DEF LoneOwns, InSet
  <2>5. InPlaceIsWhole'
    BY <2>1, <2>2 DEF InPlaceIsWhole, Whole, TypesGood
  <2>. QED
    BY <2>3, <2>4, <2>5
<1>11. CASE Start
  <2>1. UNCHANGED <<tmp, file, fd, step, crowd>> /\ main' \in {main, NoFile}
    BY <1>11 DEF Start
  <2>. QED
    BY <1>0, <2>1 DEF TypesGood, PathsApart, LoneOwns, InSet, InPlaceIsWhole, Whole
<1>. QED
  BY <1>1, <1>2, <1>3, <1>4, <1>5, <1>6, <1>7, <1>8, <1>9, <1>10, <1>11, <1>12 DEF Next

-----------------------------------------------------------------------------
\* As long as no calls of set() overlap, the file in place is whole at every
\* moment, over crashes and full disks (KubeCache.ts:80-83).
THEOREM WholeInPlace == Spec => []InPlaceIsWhole
<1>1. IInv => InPlaceIsWhole
  BY DEF IInv
<1>. QED
  BY InitIInv, NextIInv, <1>1, PTL DEF Spec

\* A call of set() that runs alone puts its entry in place, whatever was left
\* there by others (KubeCache.ts:82-83).
THEOREM LoneSetHeals == Spec => HealedByNextSet
<1>. DEFINE Heals == \A w \in Sets \ crowd :
                       step[w] = "renaming" /\ up' /\ step'[w] # "renaming"
                         => main' # NoFile /\ file'[main'] = Entry(w)
<1>1. IInv /\ [Next]_vars => [Heals]_vars
  <2>. SUFFICES ASSUME IInv, Next, NEW w \in Sets \ crowd, step[w] = "renaming",
                       up', step'[w] # "renaming"
       PROVE  main' # NoFile /\ file'[main'] = Entry(w)
    BY DEF vars
  <2>. USE DEF IInv
  <2>1. w \in InSet \ crowd /\ InSet = {w} /\ tmp # NoFile /\ file[tmp] = Entry(w)
    BY DEF LoneOwns, InSet
  <2>2. CASE Rename(w)
    BY <2>1, <2>2 DEF Rename
  <2>3. ASSUME NEW v \in Sets, Begin(v) \/ Open(v) \/ OpenFails(v) \/ Write(v) \/ WriteFails(v) \/ Cleanup(v)
                               \/ RenameFails(v) \/ (v # w /\ Rename(v))
        PROVE  FALSE
    <3>1. v # w
      BY <2>1, <2>3 DEF Begin, Open, OpenFails, Write, WriteFails, Cleanup, RenameFails
    <3>2. step'[w] = step[w]
      BY <2>3, <3>1 DEF Begin, Open, OpenFails, Write, WriteFails, Cleanup, RenameFails, Rename,
         TypesGood
    <3>. QED
      BY <3>2
  <2>4. ASSUME NEW c \in Gets \cup Clears,
               PathExists(c) \/ NoPath(c) \/ ReadJson(c) \/ Clear(c)
        PROVE  FALSE
    BY <2>4, CallsAssumption DEF PathExists, NoPath, ReadJson, Clear, Return, TypesGood
  <2>5. ~Crash /\ ~Start
    BY DEF Crash, Start
  <2>. QED
    BY <2>2, <2>3, <2>4, <2>5 DEF Next
<1>2. HealedByNextSet <=> [][Heals]_vars
  BY DEF HealedByNextSet
<1>. QED
  BY InitIInv, NextIInv, <1>1, <1>2, PTL DEF Spec

-----------------------------------------------------------------------------
(* What get() makes of a file *)

ServedFrom(f, i, t) ==
  IF i # NoFile /\ Parses(f[i]) /\ ~(IsSecretType(t) /\ Unmarked(f[i]))
  THEN Content(f[i]) ELSE Miss

\* An entry parses, as itself; only the oldest carries no marker.
LEMMA EntryParses ==
  ASSUME NEW e \in Entries
  PROVE  /\ Parses(Entry(e)) /\ Content(Entry(e)) = e
         /\ Unmarked(Entry(e)) <=> e = Old
<1>1. /\ Len(Entry(e)) = Size[e] /\ Size[e] \in Nat \ {0} /\ Entry(e)[1] = e
      /\ \A x \in 1..Size[e] : Entry(e)[x] = e
  BY EntryFacts DEF Entry
<1>2. Parses(Entry(e))
  <2>1. Entry(e) # <<>>
    BY <1>1
  <2>. QED
    BY <1>1, <2>1 DEF Parses
<1>3. Content(Entry(e)) = e
  BY <1>1 DEF Content
<1>4. Entry(e)[Len(Entry(e))] = e
  BY <1>1
<1>. QED
  BY <1>2, <1>3, <1>4 DEF Unmarked

\* An entry is served from its own file only.
LEMMA ServedFacts ==
  ASSUME NEW f, NEW i, NEW t, i # NoFile => f[i] \in Seq(Entries)
  PROVE  /\ ServedFrom(f, i, t) \in Entries \cup {Miss, Blend}
         /\ i = NoFile => ServedFrom(f, i, t) = Miss
         /\ \A e \in Entries : ServedFrom(f, i, t) = e <=>
              i # NoFile /\ f[i] = Entry(e) /\ (IsSecretType(t) => e # Old)
<1>0. Miss \notin Entries /\ Blend \notin Entries
  BY NamesAssumption
<1>1. CASE i # NoFile /\ Parses(f[i]) /\ ~(IsSecretType(t) /\ Unmarked(f[i]))
  <2>1. ServedFrom(f, i, t) = Content(f[i])
    BY <1>1 DEF ServedFrom
  <2>2. f[i] \in Seq(Entries) /\ f[i] # <<>>
    BY <1>1 DEF Parses
  <2>3. f[i][1] \in Entries
    BY <2>2
  <2>4. CASE f[i] = Entry(f[i][1])
    <3>1. ServedFrom(f, i, t) = f[i][1]
      BY <2>1, <2>4 DEF Content
    <3>2. IsSecretType(t) => f[i][1] # Old
      BY <1>1, <2>3, <2>4, EntryParses
    <3>3. \A e \in Entries : f[i] = Entry(e) => e = f[i][1]
      BY <2>3, <2>4, EntryInjective
    <3>. QED
      BY <1>1, <2>3, <2>4, <3>1, <3>2, <3>3
  <2>5. CASE f[i] # Entry(f[i][1])
    <3>1. ServedFrom(f, i, t) = Blend
      BY <2>1, <2>5 DEF Content
    <3>2. \A e \in Entries : f[i] # Entry(e)
      BY <2>5, EntryFacts
    <3>. QED
      BY <1>0, <1>1, <3>1, <3>2
  <2>. QED
    BY <2>4, <2>5
<1>2. CASE ~(i # NoFile /\ Parses(f[i]) /\ ~(IsSecretType(t) /\ Unmarked(f[i])))
  <2>1. ServedFrom(f, i, t) = Miss
    BY <1>2 DEF ServedFrom
  <2>2. \A e \in Entries : i # NoFile /\ f[i] = Entry(e) => IsSecretType(t) /\ e = Old
    BY <1>2, EntryParses
  <2>. QED
    BY <1>0, <2>1, <2>2
<1>. QED
  BY <1>1, <1>2

\* The cell's variables, with what get() would serve written out.
LEMMA CellVars ==
  /\ \A i : Served(i) = ServedFrom(file, i, type)
  /\ Served(main)' = ServedFrom(file', main', type')
BY DEF Served, ServedFrom, IsSecretType

\* No file of a call of set() holds a block from before redaction, and the file
\* from before is never written to.
OldApart ==
  /\ \A i \in Sets : \A x \in 1..Len(file[i]) : file[i][x] # Old
  /\ main = Old => file[Old] = Entry(Old)

LEMMA OldStaysApart ==
  ASSUME IInv, OldApart, [Next]_vars
  PROVE  OldApart'
<1>. USE DEF IInv
<1>0. /\ file \in [Entries -> Seq(Entries)] /\ Old \in Entries /\ Sets \subseteq Entries
      /\ Old \notin Sets /\ Old # NoFile /\ NoFile \notin Sets
  BY NamesAssumption DEF TypesGood, Entries
<1>1. CASE UNCHANGED file /\ main' \in {main, NoFile, tmp}
  BY <1>0, <1>1 DEF OldApart, TypesGood
<1>2. ASSUME NEW w \in Sets, Open(w)
      PROVE  OldApart'
  <2>1. tmp' \in Sets /\ file' = [file EXCEPT ![tmp'] = <<>>] /\ main' = main
    BY <1>0, <1>2 DEF Open, TypesGood
  <2>2. \A i \in Entries : file'[i] = file[i] \/ (i # Old /\ file'[i] = <<>>)
    BY <1>0, <2>1
  <2>. QED
    BY <1>0, <2>1, <2>2 DEF OldApart
<1>3. ASSUME NEW w \in Sets, NEW n \in 0..Size[w], PutBlocks(w, n), main' = main
      PROVE  OldApart'
  <2>1. fd[w] # Old
    BY <1>0 DEF TypesGood
  <2>2. file'[Old] = file[Old]
    BY <1>0, <1>3, <2>1, PutBlocksFacts
  <2>3. ASSUME NEW i \in Sets, NEW x \in 1..Len(file'[i])
        PROVE  file'[i][x] # Old
    <3>1. CASE i # fd[w]
      BY <1>0, <1>3, <3>1, PutBlocksFacts DEF OldApart
    <3>2. CASE i = fd[w]
      <4>1. \/ file'[i][x] = w
            \/ x \in 1..Len(file[i]) /\ file'[i][x] = file[i][x]
        BY <1>0, <1>3, <2>3, <3>2, PutBlocksFacts
      <4>. QED
        BY <1>0, <4>1 DEF OldApart
    <3>. QED
      BY <3>1, <3>2
  <2>. QED
    BY <1>3, <2>2, <2>3 DEF OldApart
<1>4. ASSUME NEW w \in Sets, Write(w) \/ WriteFails(w)
      PROVE  OldApart'
  <2>1. Size[w] \in Nat \ {0}
    BY <1>0, EntryFacts
  <2>. QED
    BY <1>3, <1>4, <2>1 DEF Write, WriteFails
<1>5. CASE Crash
  <2>1. CASE UNCHANGED file
    BY <1>1, <1>5, <2>1 DEF Crash
  <2>2. CASE ~UNCHANGED file
    <3>1. PICK w \in Sets : \E n \in 0..(Size[w] - 1) : PutBlocks(w, n)
      BY <1>5, <2>2 DEF Crash
    <3>2. PICK n \in 0..(Size[w] - 1) : PutBlocks(w, n)
      BY <3>1
    <3>3. n \in 0..Size[w]
      BY <1>0, EntryFacts
    <3>. QED
      BY <1>3, <1>5, <3>2, <3>3 DEF Crash
  <2>. QED
    BY <2>1, <2>2
<1>6. ASSUME NEW w \in Sets,
             Begin(w) \/ OpenFails(w) \/ Rename(w) \/ RenameFails(w) \/ Cleanup(w)
      PROVE  OldApart'
  BY <1>1, <1>6 DEF Begin, OpenFails, Rename, RenameFails, Cleanup, Discard
<1>7. ASSUME NEW c \in Gets \cup Clears,
             PathExists(c) \/ NoPath(c) \/ ReadJson(c) \/ Clear(c)
      PROVE  OldApart'
  BY <1>1, <1>7 DEF PathExists, NoPath, ReadJson, Clear, Return
<1>8. CASE Start \/ UNCHANGED vars
  BY <1>1, <1>8 DEF Start, vars
<1>. QED
  BY <1>2, <1>4, <1>5, <1>6, <1>7, <1>8 DEF Next

\* A listing of Secrets from before redaction is never returned, whole or in a
\* blend (KubeCache.ts:53-56, 132-142).
THEOREM LegacyRefused == Spec => []LegacyNeverServed
<1>. DEFINE Refused == /\ answer \in [Gets -> Entries \cup {Miss, Blend, Pending}]
                       /\ IsSecretType(type) => \A g \in Gets : answer[g] # Old
                       /\ OldApart
<1>1. Init => Refused
  <2>. SUFFICES ASSUME Init PROVE Refused
    OBVIOUS
  <2>1. OldApart
    <3>1. \A i \in Sets : i # main
      BY NamesAssumption DEF Init, Entries
    <3>2. \A i \in Sets : file[i] = <<>>
      BY <3>1 DEF Init, Entries
    <3>. QED
      BY <3>2 DEF Init, OldApart, Entries
  <2>. QED
    BY <2>1, NamesAssumption DEF Init, Entries
<1>2. ASSUME IInv
      PROVE  /\ Served(main) \in Entries \cup {Miss, Blend}
             /\ IsSecretType(type) => Served(main) # Old
             /\ Served(main) = Blend /\ OldApart =>
                  \A x \in 1..Len(file[main]) : file[main][x] # Old
  <2>1. /\ main # NoFile => file[main] \in Seq(Entries)
        /\ Old \in Entries /\ main \in Entries \cup {NoFile}
    BY <1>2 DEF IInv, TypesGood, Entries
  <2>2. /\ Served(main) \in Entries \cup {Miss, Blend}
        /\ main = NoFile => Served(main) = Miss
        /\ \A e \in Entries : Served(main) = e <=>
              main # NoFile /\ file[main] = Entry(e) /\ (IsSecretType(type) => e # Old)
    BY <2>1, ServedFacts, CellVars
  <2>3. ASSUME Served(main) = Blend, OldApart
        PROVE  main \in Sets
    <3>1. main # NoFile
      BY <2>2, <2>3, AnswersAssumption
    <3>2. CASE main = Old
      <4>1. file[main] = Entry(Old)
        BY <2>3, <3>2 DEF OldApart
      <4>2. IsSecretType(type) /\ Unmarked(file[main])
        BY <2>1, <2>2, <2>3, <3>1, <4>1, EntryParses, NamesAssumption
      <4>3. Served(main) = Miss
        BY <4>2 DEF Served
      <4>. QED
        BY <2>3, <4>3, AnswersAssumption
    <3>. QED
      BY <2>1, <3>1, <3>2 DEF Entries
  <2>. QED
    BY <2>1, <2>2, <2>3 DEF OldApart
<1>3. IInv /\ Refused /\ [Next]_vars => Refused'
  <2>. SUFFICES ASSUME IInv, Refused, [Next]_vars
       PROVE  Refused'
    OBVIOUS
  <2>0. UNCHANGED type
    BY DEF Next, vars, Begin, Open, OpenFails, Write, WriteFails, Rename, RenameFails, Cleanup,
       PathExists, NoPath, ReadJson, Return, Clear, Crash, Start
  <2>1. CASE UNCHANGED answer
    BY <2>0, <2>1, OldStaysApart DEF IsSecretType
  <2>2. ASSUME NEW g \in Gets, NoPath(g) \/ ReadJson(g)
        PROVE  Refused'
    <3>1. PICK e \in {Miss, Served(main)} : answer' = [answer EXCEPT ![g] = e]
      BY <2>2 DEF NoPath, ReadJson, Return
    <3>2. e \in Entries \cup {Miss, Blend} /\ (IsSecretType(type) => e # Old)
      BY <1>2, NamesAssumption DEF Entries
    <3>. QED
      BY <2>0, <3>1, <3>2, OldStaysApart DEF IsSecretType
  <2>. QED
    BY <2>1, <2>2 DEF Next, vars, Begin, Open, OpenFails, Write, WriteFails, Rename,
       RenameFails, Cleanup, PathExists, Clear, Crash, Start
<1>4. IInv /\ Refused => LegacyNeverServed
  BY <1>2 DEF LegacyNeverServed
<1>. QED
  BY <1>1, <1>3, <1>4, InitIInv, NextIInv, PTL DEF Spec

-----------------------------------------------------------------------------
(* The file implements CacheCell *)

Opened == {w \in Sets : step[w] \in {"writing", "renaming"}}

\* A call leaves no block anywhere before it writes; an entry that stands at the
\* temporary path while calls use it is of one of those under way, and of none
\* that has failed: its own write was cut short, or its file is gone from there.
Authors ==
  /\ \A w \in Sets : step[w] \in {"idle", "opening", "writing"} =>
       \A i \in Entries : \A x \in 1..Len(file[i]) : file[i][x] # w
  /\ Opened # {} /\ tmp # NoFile => \A e \in Entries : file[tmp] = Entry(e) => e \in InSet
  /\ tmp # NoFile => \A w \in Sets : step[w] = "failed" => file[tmp] # Entry(w)
  /\ \A d \in Clears : step[d] \in {"idle", "over"}

\* A write that is cut short leaves its entry whole nowhere.
LEMMA CutNotWhole ==
  ASSUME IInv, Authors, NEW w \in Sets, NEW n \in 0..Size[w], step[w] = "writing",
         PutBlocks(w, n), n < Size[w], NEW i \in Entries
  PROVE  file'[i] # Entry(w)
<1>. SUFFICES ASSUME file'[i] = Entry(w)
     PROVE  FALSE
  OBVIOUS
<1>0. w \in Entries /\ TypesGood
  BY DEF IInv, Entries
<1>1. /\ Size[w] \in Nat \ {0} /\ n \in Nat
      /\ Len(Entry(w)) = Size[w] /\ Entry(w)[Size[w]] = w
  <2>1. /\ Size[w] \in Nat \ {0}
        /\ Len(Entry(w)) = Size[w]
    BY <1>0, EntryFacts
  <2>. QED
    BY <2>1 DEF Entry
<1>2. Size[w] \in 1..Len(file'[i]) /\ file'[i][Size[w]] = w /\ ~(Size[w] <= n)
  BY <1>1
<1>3. Size[w] \in 1..Len(file[i]) /\ file[i][Size[w]] = w
  <2>1. CASE i # fd[w]
    BY <1>0, <1>2, <2>1, PutBlocksFacts
  <2>2. CASE i = fd[w]
    BY <1>0, <1>2, <2>2, PutBlocksFacts
  <2>. QED
    BY <2>1, <2>2
<1>. QED
  BY <1>3 DEF Authors

\* A write that touches a file makes it no other entry.
LEMMA WriteLeaves ==
  ASSUME IInv, NEW w \in Sets, NEW n \in 0..Size[w], PutBlocks(w, n),
         NEW i \in Entries, NEW e \in Entries, file'[i] = Entry(e)
  PROVE  e = w \/ file'[i] = file[i]
<1>1. /\ TypesGood /\ n \in Nat /\ w \in Entries
      /\ Len(Entry(e)) = Size[e] /\ Size[e] \in Nat \ {0} /\ Entry(e)[1] = e
  BY EntryFacts DEF IInv, Entries
<1>2. CASE i # fd[w] \/ n = 0
  BY <1>1, <1>2, PutBlocksFacts
<1>3. CASE i = fd[w] /\ n # 0
  <2>1. 1 \in 1..Len(file'[i]) /\ 1 <= n
    BY <1>1, <1>3
  <2>2. file'[i][1] = w
    BY <1>1, <1>3, <2>1, PutBlocksFacts
  <2>. QED
    BY <1>1, <2>2
<1>. QED
  BY <1>2, <1>3

LEMMA PutAuthors ==
  ASSUME IInv, Authors, NEW w \in Sets, NEW n \in 0..Size[w], step[w] = "writing",
         PutBlocks(w, n)
  PROVE  /\ \A v \in Sets : v # w /\ step[v] \in {"idle", "opening", "writing"} =>
              \A i \in Entries : \A x \in 1..Len(file'[i]) : file'[i][x] # v
         /\ tmp # NoFile => \A e \in Entries : file'[tmp] = Entry(e) => e \in InSet
         /\ tmp # NoFile => \A v \in Sets : step[v] = "failed" => file'[tmp] # Entry(v)
<1>. USE DEF IInv
<1>1. w \in InSet /\ Opened # {} /\ (tmp # NoFile => tmp \in Entries) /\ Sets \subseteq Entries
  BY DEF InSet, Opened, TypesGood, Entries
<1>2. ASSUME NEW v \in Sets, v # w, step[v] \in {"idle", "opening", "writing"},
             NEW i \in Entries, NEW x \in 1..Len(file'[i])
      PROVE  file'[i][x] # v
  <2>1. CASE i # fd[w]
    BY <1>2, <2>1, PutBlocksFacts DEF Authors
  <2>2. CASE i = fd[w]
    BY <1>2, <2>2, PutBlocksFacts DEF Authors
  <2>. QED
    BY <2>1, <2>2
<1>3. ASSUME tmp # NoFile, NEW e \in Entries, file'[tmp] = Entry(e)
      PROVE  e \in InSet
  <2>1. e = w \/ file'[tmp] = file[tmp]
    BY <1>1, <1>3, WriteLeaves
  <2>. QED
    BY <1>1, <1>3, <2>1 DEF Authors
<1>4. ASSUME tmp # NoFile, NEW v \in Sets, step[v] = "failed", file'[tmp] = Entry(v)
      PROVE  FALSE
  <2>1. v # w /\ v \in Entries
    BY <1>1, <1>4
  <2>2. file'[tmp] = file[tmp]
    BY <1>1, <1>4, <2>1, WriteLeaves
  <2>. QED
    BY <1>4, <2>2 DEF Authors
<1>. QED
  BY <1>2, <1>3, <1>4

LEMMA InitAuthors == Init => Authors
<1>. SUFFICES ASSUME Init
     PROVE  Authors
  OBVIOUS
<1>1. ASSUME NEW w \in Sets, NEW i \in Entries, NEW x \in 1..Len(file[i])
      PROVE  file[i][x] # w
  <2>1. file[i] = <<>> \/ file[i] = Entry(Old)
    BY DEF Init
  <2>2. file[i] # <<>>
    OBVIOUS
  <2>3. Old \in Entries /\ file[i] = Entry(Old)
    BY <2>1, <2>2 DEF Entries
  <2>4. x \in 1..Size[Old]
    BY <2>3, EntryFacts
  <2>5. file[i][x] = Old
    BY <2>3, <2>4 DEF Entry
  <2>. QED
    BY <2>5, NamesAssumption
<1>2. Opened = {} /\ \A d \in Clears : step[d] = "idle"
  BY DEF Init, Opened
<1>. QED
  BY <1>1, <1>2 DEF Init, Authors

LEMMA NextAuthors == IInv /\ Authors /\ [Next]_vars => Authors'
<1>. SUFFICES ASSUME IInv, Authors, [Next]_vars
     PROVE  Authors'
  OBVIOUS
<1>. USE DEF IInv
<1>0. /\ \A w \in Sets : w \in Entries /\ w # NoFile
      /\ \A w \in Sets : step[w] \notin {"idle", "over"} <=> w \in InSet
      /\ file \in [Entries -> Seq(Entries)]
  BY NamesAssumption DEF Entries, InSet, TypesGood
<1>c. ASSUME NEW w \in Sets, NEW s \in Steps, step' = [step EXCEPT ![w] = s]
      PROVE  \A d \in Clears : step'[d] \in {"idle", "over"}
  BY <1>c, CallsAssumption DEF TypesGood, Authors
<1>1. CASE UNCHANGED vars
  BY <1>1 DEF vars, Authors, Opened, InSet
<1>2. ASSUME NEW w \in Sets, Begin(w)
      PROVE  Authors'
  <2>1. /\ step' = [step EXCEPT ![w] = "opening"] /\ "opening" \in Steps
        /\ step[w] = "idle" /\ UNCHANGED <<main, tmp, file, fd>>
    BY <1>2 DEF Begin, Steps
  <2>2. /\ InSet' = InSet \cup {w} /\ Opened' = Opened
        /\ \A v \in Sets : step'[v] = step[v] \/ (v = w /\ step[v] = "idle")
    BY <2>1, StepFacts DEF Opened
  <2>3. \A v \in Sets : step'[v] \in {"idle", "opening", "writing"} =>
          \A i \in Entries : \A x \in 1..Len(file'[i]) : file'[i][x] # v
    BY <2>1, <2>2 DEF Authors
  <2>4. \A d \in Clears : step'[d] \in {"idle", "over"}
    BY <1>c, <2>1
  <2>5. /\ Opened' # {} /\ tmp' # NoFile =>
             \A e \in Entries : file'[tmp'] = Entry(e) => e \in InSet'
        /\ tmp' # NoFile => \A v \in Sets : step'[v] = "failed" => file'[tmp'] # Entry(v)
    BY <2>1, <2>2, StepFacts DEF Authors
  <2>. QED
    BY <2>3, <2>4, <2>5 DEF Authors
<1>3. ASSUME NEW w \in Sets, Open(w)
      PROVE  Authors'
  <2>1. /\ step' = [step EXCEPT ![w] = "writing"] /\ "writing" \in Steps
        /\ step[w] = "opening" /\ tmp' \in Entries
        /\ file' = [file EXCEPT ![tmp'] = <<>>]
    BY <1>0, <1>3 DEF Open, Steps, TypesGood, Entries
  <2>2. /\ file'[tmp'] = <<>>
        /\ \A i \in Entries : file'[i] = file[i] \/ file'[i] = <<>>
    BY <1>0, <2>1
  <2>3. \A v \in Sets : step'[v] = step[v] \/ (v = w /\ step[v] = "opening")
    BY <2>1, StepFacts
  <2>4. ASSUME NEW v \in Sets, step'[v] \in {"idle", "opening", "writing"},
               NEW i \in Entries, NEW x \in 1..Len(file'[i])
        PROVE  file'[i][x] # v
    <3>1. file'[i] = file[i]
      BY <2>2, <2>4
    <3>. QED
      BY <2>3, <2>4, <3>1 DEF Authors
  <2>5. \A e \in Entries : file'[tmp'] # Entry(e)
    BY <2>2, EntryFacts
  <2>. QED
    BY <1>0, <1>c, <2>1, <2>4, <2>5 DEF Authors
<1>10. ASSUME NEW w \in Sets, OpenFails(w)
      PROVE  Authors'
  <2>1. /\ step' = [step EXCEPT ![w] = "failed"] /\ "failed" \in Steps
        /\ step[w] = "opening" /\ UNCHANGED <<tmp, file>>
    BY <1>10 DEF OpenFails, Steps
  <2>2. /\ InSet' = InSet /\ Opened' = Opened
        /\ \A v \in Sets : v # w => step'[v] = step[v]
        /\ step'[w] = "failed"
    BY <1>0, <2>1, StepFacts DEF Opened
  <2>3. tmp # NoFile => file[tmp] # Entry(w)
    <3>. SUFFICES ASSUME tmp # NoFile, file[tmp] = Entry(w)
         PROVE  FALSE
      OBVIOUS
    <3>1. tmp \in Entries /\ w \in Entries
      BY DEF TypesGood, Entries
    <3>2. 1 \in 1..Len(file[tmp]) /\ file[tmp][1] = w
      BY <3>1, EntryFacts
    <3>. QED
      BY <2>1, <3>1, <3>2 DEF Authors
  <2>. QED
    BY <1>c, <2>1, <2>2, <2>3 DEF Authors
<1>4. ASSUME NEW w \in Sets, NEW n \in 0..Size[w], NEW s \in {"renaming", "failed"},
             step[w] = "writing", PutBlocks(w, n), step' = [step EXCEPT ![w] = s],
             tmp' = tmp, s = "failed" => n < Size[w]
      PROVE  Authors'
  <2>0. s \in Steps /\ (tmp # NoFile => tmp \in Entries)
    BY DEF Steps, TypesGood, Entries
  <2>1. /\ InSet' = InSet
        /\ \A v \in Sets : v # w => step'[v] = step[v]
        /\ step'[w] = s
    <3>1. TypesGood /\ w \in InSet /\ s \notin {"idle", "over"}
      BY <1>0, <1>4
    <3>2. /\ InSet' = IF s \in {"idle", "over"} THEN InSet \ {w} ELSE InSet \cup {w}
          /\ \A v \in Sets : v # w => step'[v] = step[v]
          /\ step'[w] = s
      BY <1>4, <2>0, StepFacts
    <3>. QED
      BY <3>1, <3>2
  <2>2. /\ \A v \in Sets : v # w /\ step[v] \in {"idle", "opening", "writing"} =>
              \A i \in Entries : \A x \in 1..Len(file'[i]) : file'[i][x] # v
        /\ tmp # NoFile => \A e \in Entries : file'[tmp] = Entry(e) => e \in InSet
        /\ tmp # NoFile => \A v \in Sets : step[v] = "failed" => file'[tmp] # Entry(v)
    BY <1>4, PutAuthors
  <2>3. s = "failed" /\ tmp # NoFile => file'[tmp] # Entry(w)
    BY <1>4, <2>0, CutNotWhole
  <2>4. \A d \in Clears : step'[d] \in {"idle", "over"}
    BY <1>4, <1>c, <2>0
  <2>5. \A v \in Sets : step'[v] \in {"idle", "opening", "writing"} =>
              \A i \in Entries : \A x \in 1..Len(file'[i]) : file'[i][x] # v
    BY <2>1, <2>2
  <2>6. tmp' # NoFile => /\ \A e \in Entries : file'[tmp'] = Entry(e) => e \in InSet'
                         /\ \A v \in Sets : step'[v] = "failed" => file'[tmp'] # Entry(v)
    <3>. SUFFICES ASSUME tmp # NoFile
         PROVE  /\ \A e \in Entries : file'[tmp] = Entry(e) => e \in InSet
                /\ \A v \in Sets : step'[v] = "failed" => file'[tmp] # Entry(v)
      BY <1>4, <2>1
    <3>1. ASSUME NEW v \in Sets, step'[v] = "failed"
          PROVE  file'[tmp] # Entry(v)
      <4>1. CASE v = w
        BY <2>1, <2>3, <3>1, <4>1
      <4>2. CASE v # w
        BY <2>1, <2>2, <3>1, <4>2
      <4>. QED
        BY <4>1, <4>2
    <3>. QED
      BY <2>2, <3>1
  <2>. QED
    BY <2>4, <2>5, <2>6 DEF Authors
<1>5. ASSUME NEW w \in Sets, Write(w) \/ WriteFails(w)
      PROVE  Authors'
  <2>1. Size[w] \in Nat \ {0}
    BY <1>0, EntryFacts
  <2>2. CASE Write(w)
    <3>1. /\ Size[w] \in 0..Size[w] /\ PutBlocks(w, Size[w])
          /\ step[w] = "writing" /\ step' = [step EXCEPT ![w] = "renaming"] /\ tmp' = tmp
      BY <2>1, <2>2 DEF Write
    <3>2. "renaming" # "failed"
      OBVIOUS
    <3>. QED
      BY <1>4, <3>1, <3>2
  <2>3. CASE WriteFails(w)
    <3>1. PICK n \in 0..(Size[w] - 1) : PutBlocks(w, n)
      BY <2>3 DEF WriteFails
    <3>2. n \in 0..Size[w] /\ n < Size[w]
      BY <2>1
    <3>. QED
      BY <1>4, <2>3, <3>1, <3>2 DEF WriteFails
  <2>. QED
    BY <1>5, <2>2, <2>3
<1>6. ASSUME NEW w \in Sets, Rename(w) \/ RenameFails(w) \/ Cleanup(w)
      PROVE  Authors'
  <2>1. PICK s \in {"over", "failed"} : step' = [step EXCEPT ![w] = s]
    BY <1>6 DEF Rename, RenameFails, Cleanup
  <2>2. /\ step[w] \in {"renaming", "failed"} /\ file' = file
        /\ tmp' # NoFile => tmp' = tmp /\ step[w] = "failed" /\ s = "over"
    <3>1. CASE Rename(w) \/ RenameFails(w)
      BY <3>1 DEF Rename, RenameFails
    <3>2. CASE Cleanup(w)
      <4>1. s = "over"
        BY <2>1, <3>2 DEF Cleanup, TypesGood
      <4>. QED
        BY <3>2, <4>1 DEF Cleanup, Discard
    <3>. QED
      BY <1>6, <3>1, <3>2
  <2>3. s \in Steps
    BY DEF Steps
  <2>4. /\ \A v \in Sets : step'[v] \in {"idle", "opening", "writing"} => step'[v] = step[v]
        /\ s = "over" => InSet' = InSet \ {w}
        /\ \A v \in Sets : v # w => step'[v] = step[v]
        /\ step'[w] = s
    BY <2>1, <2>3, StepFacts
  <2>5. ASSUME tmp' # NoFile
        PROVE  /\ Opened' # {} => \A e \in Entries : file'[tmp'] = Entry(e) => e \in InSet'
               /\ \A v \in Sets : step'[v] = "failed" => file'[tmp'] # Entry(v)
    <3>1. /\ tmp' = tmp /\ tmp # NoFile /\ file' = file /\ step[w] = "failed"
          /\ InSet' = InSet \ {w}
      BY <2>2, <2>4, <2>5
    <3>2. Opened' \subseteq Opened /\ \A v \in Sets : step'[v] = "failed" => step[v] = "failed"
      BY <2>2, <2>4, <2>5 DEF Opened
    <3>. QED
      BY <3>1, <3>2 DEF Authors
  <2>. QED
    BY <1>c, <2>1, <2>2, <2>3, <2>4, <2>5 DEF Authors
<1>7. ASSUME NEW c \in Gets \cup Clears,
             \/ c \in Gets /\ (PathExists(c) \/ NoPath(c) \/ ReadJson(c))
             \/ Clear(c)
      PROVE  Authors'
  <2>1. PICK s \in Steps : /\ step' = [step EXCEPT ![c] = s]
                           /\ s # "over" => c \in Gets /\ PathExists(c)
    BY <1>7 DEF PathExists, NoPath, ReadJson, Clear, Return, Steps
  <2>2. UNCHANGED <<tmp, file>>
    BY <1>7 DEF PathExists, NoPath, ReadJson, Clear, Return
  <2>3. InSet' = InSet /\ Opened' = Opened /\ \A v \in Sets : step'[v] = step[v]
    BY <2>1, OtherStepFacts DEF Opened
  <2>4. \A d \in Clears : step'[d] \in {"idle", "over"}
    BY <2>1, CallsAssumption DEF TypesGood, Authors
  <2>. QED
    BY <2>2, <2>3, <2>4 DEF Authors
<1>8. CASE Crash
  <2>1. /\ tmp' = tmp
        /\ \A c \in Sets \cup Gets \cup Clears :
              step'[c] = IF step[c] = "idle" THEN "idle" ELSE "over"
    BY <1>8 DEF Crash, Stopped, TypesGood
  <2>2. Opened' = {} /\ \A v \in Sets : step'[v] # "failed"
    BY <2>1 DEF Opened
  <2>3. ASSUME NEW v \in Sets, step[v] = "idle",
               NEW i \in Entries, NEW x \in 1..Len(file'[i])
        PROVE  file'[i][x] # v
    <3>1. CASE UNCHANGED file
      BY <2>3, <3>1 DEF Authors
    <3>2. CASE ~UNCHANGED file
      <4>1. PICK w \in Sets : step[w] = "writing" /\ \E n \in 0..(Size[w] - 1) : PutBlocks(w, n)
        BY <1>8, <3>2 DEF Crash
      <4>2. PICK n \in 0..(Size[w] - 1) : PutBlocks(w, n)
        BY <4>1
      <4>3. n \in 0..Size[w]
        BY <1>0, EntryFacts
      <4>. QED
        BY <2>1, <2>3, <4>1, <4>2, <4>3, PutAuthors
    <3>. QED
      BY <3>1, <3>2
  <2>. QED
    BY <2>1, <2>2, <2>3 DEF Authors
<1>9. CASE Start
  BY <1>9 DEF Start, Authors, Opened, InSet
<1>. QED
  BY <1>1, <1>2, <1>3, <1>5, <1>6, <1>7, <1>8, <1>9, <1>10 DEF Next

Cleared == {d \in Clears : step[d] = "over"}

\* Nothing that a call of set() does to its file shows unless the file is in
\* place, which takes two calls that overlap; then its entry shows, a blend or
\* nothing.
LEMMA PutServed ==
  ASSUME IInv, Authors, NEW w \in Sets, NEW n \in 0..Size[w], step[w] = "writing",
         PutBlocks(w, n), UNCHANGED <<main, type>>
  PROVE  /\ Served(main)' \in {Served(main), w, Miss, Blend}
         /\ Served(main)' # Served(main) => w \in crowd
         /\ n < Size[w] => Served(main)' \in {Served(main), Miss, Blend}
<1>0. /\ w \in Entries /\ Size[w] \in Nat /\ n \in Nat
      /\ main \in Entries \cup {NoFile} /\ TypesGood
      /\ file' \in [Entries -> Seq(Entries)]
  <2>1. w \in Entries /\ TypesGood /\ main \in Entries \cup {NoFile}
    BY DEF IInv, TypesGood, Entries
  <2>2. Size[w] \in Nat
    BY <2>1, EntryFacts
  <2>. QED
    BY <2>1, <2>2, PutFacts
<1>1. CASE main = NoFile \/ file'[main] = file[main]
  <2>1. Served(main)' = Served(main)
    BY <1>1 DEF Served, IsSecretType
  <2>. QED
    BY <2>1
<1>2. CASE main \in Entries /\ file'[main] # file[main]
  <2>1. w \in crowd
    <3>1. main = fd[w]
      BY <1>0, <1>2, PutBlocksFacts
    <3>. QED
      BY <3>1, PutFacts
  <2>2. /\ Served(main)' \in Entries \cup {Miss, Blend}
        /\ \A e \in Entries : Served(main)' = e => file'[main] = Entry(e)
    <3>1. main' # NoFile => file'[main'] \in Seq(Entries)
      BY <1>0
    <3>. QED
      BY <3>1, CellVars, ServedFacts
  <2>3. ASSUME NEW e \in Entries, Served(main)' = e
        PROVE  e = w /\ ~(n < Size[w])
    <3>1. file'[main] = Entry(e)
      BY <2>2, <2>3
    <3>2. e = w
      BY <1>2, <3>1, WriteLeaves
    <3>. QED
      BY <1>2, <3>1, <3>2, CutNotWhole
  <2>. QED
    BY <2>1, <2>2, <2>3
<1>. QED
  BY <1>0, <1>1, <1>2

\* A file that did not change is served as before.
LEMMA SameServed ==
  ASSUME file'[main] = file[main], main' = main, type' = type
  PROVE  Served(main)' = Served(main)
BY DEF Served, IsSecretType

\* What set() does to the cell (KubeCache.ts:66-100).
LEMMA SetImplements ==
  ASSUME IInv, Authors, NEW w \in Sets,
         \/ Begin(w) \/ Open(w) \/ OpenFails(w) \/ Write(w) \/ WriteFails(w)
         \/ Rename(w) \/ RenameFails(w) \/ Cleanup(w)
  PROVE  [Cell!Next]_(Cell!vars)
<1>. USE DEF IInv
<1>0. /\ w \in Entries /\ w # NoFile /\ file \in [Entries -> Seq(Entries)]
      /\ main \in Entries \cup {NoFile} /\ Size[w] \in Nat \ {0}
      /\ NoFile \notin Entries /\ {Miss, Blend} \cap Entries = {}
  BY EntryFacts, NamesAssumption DEF TypesGood, Entries
<1>1. PICK s \in Steps : step' = [step EXCEPT ![w] = s]
  BY DEF Begin, Open, OpenFails, Write, WriteFails, Rename, RenameFails, Cleanup, Steps
<1>2. /\ UNCHANGED <<answer, up, type, Cleared>>
      /\ InSet' = IF s \in {"idle", "over"} THEN InSet \ {w} ELSE InSet \cup {w}
      /\ step'[w] = s
  <2>1. UNCHANGED <<answer, up, type>>
    BY DEF Begin, Open, OpenFails, Write, WriteFails, Rename, RenameFails, Cleanup
  <2>2. \A d \in Clears : step'[d] = step[d]
    BY <1>1, CallsAssumption DEF TypesGood
  <2>3. Cleared' = Cleared
    BY <2>2 DEF Cleared
  <2>. QED
    BY <1>1, <2>1, <2>3, StepFacts
<1>3. CASE Begin(w)
  <2>1. UNCHANGED <<main, file, type>> /\ up /\ step'[w] = "opening" /\ w \notin InSet
    BY <1>1, <1>3 DEF Begin, TypesGood, InSet
  <2>2. InSet' = InSet \cup {w} /\ w \in Sets \ InSet
    BY <1>2, <2>1
  <2>3. Served(main)' = Served(main)
    BY <2>1 DEF Served, IsSecretType
  <2>4. crowd' = IF InSet = {} THEN crowd ELSE crowd \cup InSet'
    BY <1>3, <2>2 DEF Begin
  <2>5. Cell!Begin(w)
    BY <1>2, <2>1, <2>2, <2>3, <2>4 DEF Cell!Begin, Cleared
  <2>. QED
    BY <2>2, <2>5 DEF Cell!Next
<1>4. CASE Open(w)
  <2>1. /\ step'[w] = "writing" /\ w \in InSet /\ UNCHANGED <<main, crowd>>
        /\ tmp' # main /\ file' = [file EXCEPT ![tmp'] = <<>>]
    BY <1>0, <1>1, <1>4 DEF Open, TypesGood, InSet, PathsApart
  <2>2. InSet' = InSet
    BY <1>2, <2>1
  <2>3. main \in Entries => file'[main] = file[main]
    BY <1>0, <2>1
  <2>4. Served(main)' = Served(main)
    <3>1. CASE main \in Entries
      <4>1. file'[main] = file[main] /\ main' = main /\ type' = type
        BY <1>2, <2>1, <2>3, <3>1
      <4>. QED
        BY <4>1, SameServed
    <3>2. CASE main = NoFile
      BY <2>1, <3>2 DEF Served
    <3>. QED
      BY <1>0, <3>1, <3>2
  <2>. QED
    BY <1>2, <2>1, <2>2, <2>4 DEF Cell!vars, Cleared
<1>5. CASE Write(w) \/ WriteFails(w)
  <2>1. /\ step[w] = "writing" /\ step'[w] \in {"renaming", "failed"} /\ w \in InSet
        /\ UNCHANGED <<main, type, crowd>>
    BY <1>1, <1>5 DEF Write, WriteFails, TypesGood, InSet
  <2>2. InSet' = InSet
    BY <1>2, <2>1
  <2>3. PICK k \in 0..Size[w] : PutBlocks(w, k)
    BY <1>0, <1>5 DEF Write, WriteFails
  <2>4. /\ Served(main)' \in {Served(main), w, Miss, Blend}
        /\ Served(main)' # Served(main) => w \in crowd
    BY <2>1, <2>3, PutServed
  <2>5. CASE Served(main)' = Served(main)
    BY <1>2, <2>1, <2>2, <2>5 DEF Cell!vars, Cleared
  <2>6. CASE Served(main)' = w
    <3>1. Cell!Put
      BY <1>2, <2>1, <2>2, <2>6 DEF Cell!Put, Cleared
    <3>. QED
      BY <3>1 DEF Cell!Next
  <2>7. CASE Served(main)' \in {Miss, Blend} /\ Served(main)' # Served(main)
    <3>1. Cell!Lose
      BY <1>2, <2>1, <2>2, <2>4, <2>7 DEF Cell!Lose, Cleared
    <3>. QED
      BY <3>1 DEF Cell!Next
  <2>. QED
    BY <2>4, <2>5, <2>6, <2>7
<1>6. CASE Rename(w)
  <2>1. /\ step[w] = "renaming" /\ step'[w] = "over" /\ w \in InSet /\ w \in Opened
        /\ tmp \in Entries /\ tmp # NoFile /\ main' = tmp /\ UNCHANGED <<file, crowd>>
    BY <1>1, <1>6 DEF Rename, TypesGood, InSet, Opened, Entries
  <2>2. InSet' = InSet \ {w}
    BY <1>2, <2>1
  <2>3. Served(main)' = ServedFrom(file, tmp, type)
    BY <1>2, <2>1, CellVars
  <2>4. /\ ServedFrom(file, tmp, type) \in Entries \cup {Miss, Blend}
        /\ \A e \in Entries : ServedFrom(file, tmp, type) = e <=>
             tmp # NoFile /\ file[tmp] = Entry(e) /\ (IsSecretType(type) => e # Old)
    BY <1>0, <2>1, ServedFacts
  <2>5. CASE Served(main)' \in Entries
    <3>1. file[tmp] = Entry(Served(main)')
      BY <2>3, <2>4, <2>5
    <3>2. Served(main)' \in InSet
      BY <2>1, <2>5, <3>1 DEF Authors
    <3>3. Cell!Put
      BY <1>2, <2>1, <2>2, <3>2 DEF Cell!Put, Cleared
    <3>. QED
      BY <3>3 DEF Cell!Next
  <2>6. CASE Served(main)' \in {Miss, Blend}
    <3>1. w \in crowd
      <4>. SUFFICES ASSUME w \notin crowd PROVE FALSE
        OBVIOUS
      <4>1. file[tmp] = Entry(w)
        BY <2>1 DEF LoneOwns
      <4>2. ServedFrom(file, tmp, type) = w
        BY <1>0, <2>1, <2>4, <4>1, NamesAssumption
      <4>. QED
        BY <1>0, <2>3, <2>6, <4>2
    <3>2. Cell!Lose
      BY <1>2, <2>1, <2>2, <2>6, <3>1 DEF Cell!Lose, Cleared
    <3>. QED
      BY <3>2 DEF Cell!Next
  <2>. QED
    BY <2>3, <2>4, <2>5, <2>6
<1>7. CASE OpenFails(w) \/ RenameFails(w) \/ Cleanup(w)
  <2>1. UNCHANGED <<main, file, crowd>> /\ w \in InSet
    BY <1>7 DEF OpenFails, RenameFails, Cleanup, Discard, InSet
  <2>2. Served(main)' = Served(main)
    BY <1>2, <2>1 DEF Served, IsSecretType
  <2>3. CASE InSet' = InSet
    BY <1>2, <2>1, <2>2, <2>3 DEF Cell!vars, Cleared
  <2>4. CASE InSet' = InSet \ {w}
    <3>1. Cell!Finish(w)
      BY <1>2, <2>1, <2>2, <2>4 DEF Cell!Finish, Cleared
    <3>. QED
      BY <2>1, <3>1 DEF Cell!Next
  <2>5. InSet' \in {InSet, InSet \ {w}}
    BY <1>2, <2>1
  <2>. QED
    BY <2>3, <2>4, <2>5
<1>. QED
  BY <1>3, <1>4, <1>5, <1>6, <1>7

\* get() answers with what the cell holds or with a miss, clear() empties the
\* cell or leaves it alone (KubeCache.ts:47-64, 109-117).
LEMMA OthersImplement ==
  ASSUME IInv, Authors,
         \/ \E g \in Gets : PathExists(g) \/ NoPath(g) \/ ReadJson(g)
         \/ \E d \in Clears : Clear(d)
  PROVE  [Cell!Next]_(Cell!vars)
<1>. USE DEF IInv
<1>1. ASSUME NEW g \in Gets, PathExists(g) \/ NoPath(g) \/ ReadJson(g)
      PROVE  [Cell!Next]_(Cell!vars)
  <2>1. PICK s \in Steps : step' = [step EXCEPT ![g] = s]
    BY <1>1 DEF PathExists, NoPath, ReadJson, Return, Steps
  <2>2. InSet' = InSet
    BY <2>1, OtherStepFacts
  <2>3. Cleared' = Cleared
    <3>1. \A d \in Clears : step'[d] = step[d]
      BY <2>1, CallsAssumption DEF TypesGood
    <3>. QED
      BY <3>1 DEF Cleared
  <2>4. UNCHANGED <<main, file, type, crowd, up>>
    BY <1>1 DEF PathExists, NoPath, ReadJson, Return
  <2>5. Served(main)' = Served(main)
    BY <2>4 DEF Served, IsSecretType
  <2>6. CASE PathExists(g)
    BY <2>2, <2>3, <2>4, <2>5, <2>6 DEF PathExists, Cell!vars, Cleared
  <2>7. CASE NoPath(g) \/ ReadJson(g)
    <3>1. \E e \in {Served(main), Miss} : answer' = [answer EXCEPT ![g] = e]
      BY <2>7 DEF NoPath, ReadJson, Return
    <3>2. Cell!Get(g)
      BY <2>2, <2>3, <2>4, <2>5, <3>1 DEF Cell!Get, Cleared
    <3>. QED
      BY <3>2 DEF Cell!Next
  <2>. QED
    BY <1>1, <2>6, <2>7
<1>2. ASSUME NEW d \in Clears, Clear(d)
      PROVE  [Cell!Next]_(Cell!vars)
  <2>1. /\ step' = [step EXCEPT ![d] = "over"] /\ "over" \in Steps /\ step[d] = "idle"
        /\ up /\ main' \in {NoFile, main} /\ UNCHANGED <<answer, crowd, up, file, type>>
    BY <1>2 DEF Clear, Steps
  <2>2. InSet' = InSet
    BY <2>1, OtherStepFacts
  <2>3. Cleared' = Cleared \cup {d} /\ d \in Clears \ Cleared
    BY <2>1 DEF TypesGood, Cleared
  <2>4. Served(main)' \in {Miss, Served(main)}
    <3>1. CASE main' = main
      BY <2>1, <3>1 DEF Served, IsSecretType
    <3>2. CASE main' = NoFile
      BY <3>2 DEF Served
    <3>. QED
      BY <2>1, <3>1, <3>2
  <2>5. Cell!Clear(d)
    BY <2>1, <2>2, <2>3, <2>4 DEF Cell!Clear, Cleared
  <2>. QED
    BY <2>3, <2>5 DEF Cell!Next, Cleared
<1>. QED
  BY <1>1, <1>2

\* A crash leaves the cell as it is unless overlapping calls have written to it;
\* the next start may purge it (KubeCache.ts:132-142).
LEMMA ProcessImplements ==
  ASSUME IInv, Authors, Crash \/ Start
  PROVE  Cell!Next
<1>. USE DEF IInv
<1>1. CASE Crash
  <2>1. /\ up /\ up' = FALSE /\ UNCHANGED <<main, type, crowd, answer>>
        /\ \A c \in Sets \cup Gets \cup Clears :
              step'[c] = IF step[c] = "idle" THEN "idle" ELSE "over"
    BY <1>1 DEF Crash, Stopped, TypesGood
  <2>2. InSet' = {} /\ Cleared' = Cleared
    BY <2>1 DEF InSet, Cleared, Authors
  <2>3. Served(main)' = Served(main) \/ (crowd # {} /\ Served(main)' \in {Miss, Blend})
    <3>1. CASE UNCHANGED file
      BY <2>1, <3>1 DEF Served, IsSecretType
    <3>2. CASE ~UNCHANGED file
      <4>1. PICK w \in Sets : step[w] = "writing" /\ \E n \in 0..(Size[w] - 1) : PutBlocks(w, n)
        BY <1>1, <3>2 DEF Crash
      <4>2. PICK n \in 0..(Size[w] - 1) : PutBlocks(w, n)
        BY <4>1
      <4>3. n \in 0..Size[w] /\ n < Size[w]
        BY EntryFacts DEF Entries
      <4>. QED
        BY <2>1, <4>1, <4>2, <4>3, PutServed
    <3>. QED
      BY <3>1, <3>2
  <2>4. Cell!Crash
    BY <2>1, <2>2, <2>3 DEF Cell!Crash, Cleared
  <2>. QED
    BY <2>4 DEF Cell!Next
<1>2. CASE Start
  <2>1. /\ ~up /\ up' = TRUE /\ main' \in {main, NoFile}
        /\ UNCHANGED <<type, file, step, answer, crowd>>
    BY <1>2 DEF Start
  <2>2. Served(main)' \in {Served(main), Miss}
    <3>1. CASE main' = main
      BY <2>1, <3>1 DEF Served, IsSecretType
    <3>2. CASE main' = NoFile
      BY <3>2 DEF Served
    <3>. QED
      BY <2>1, <3>1, <3>2
  <2>3. Cell!Start
    BY <2>1, <2>2 DEF Cell!Start, InSet
  <2>. QED
    BY <2>3 DEF Cell!Next
<1>. QED
  BY <1>1, <1>2

\* Files, temporary names and renames implement one cell per type, over
\* crashes, full disks and calls that overlap (KubeCache.ts:26-142).
THEOREM CellImplemented == Spec => ImplementsCell
<1>1. Init => Cell!Init
  <2>. SUFFICES ASSUME Init PROVE Cell!Init
    OBVIOUS
  <2>1. InSet = {} /\ Cleared = {}
    BY DEF Init, InSet, Cleared
  <2>2. Served(main) \in {Old, Miss}
    <3>1. CASE main = NoFile
      BY <3>1 DEF Served
    <3>2. CASE main = Old
      <4>1. file[main] = Entry(Old) /\ Old \in Entries
        BY <3>2 DEF Init, Entries
      <4>2. Content(file[main]) = Old
        BY <4>1, EntryParses
      <4>. QED
        BY <4>2 DEF Served
    <3>. QED
      BY <3>1, <3>2 DEF Init
  <2>. QED
    BY <2>1, <2>2 DEF Init, Cell!Init, Cleared
<1>2. IInv /\ Authors /\ [Next]_vars => [Cell!Next]_(Cell!vars)
  <2>. SUFFICES ASSUME IInv, Authors, [Next]_vars
                PROVE  [Cell!Next]_(Cell!vars)
    OBVIOUS
  <2>1. CASE Next
    BY <2>1, SetImplements, OthersImplement, ProcessImplements DEF Next
  <2>2. CASE UNCHANGED vars
    BY <2>2 DEF vars, Cell!vars, Served, IsSecretType, InSet
  <2>. QED
    BY <2>1, <2>2
<1>. QED
  BY <1>1, <1>2, InitIInv, NextIInv, InitAuthors, NextAuthors, PTL
  DEF Spec, ImplementsCell, Cell!Spec

-----------------------------------------------------------------------------
(* Calls that overlap *)

Begun == {w \in Sets : step[w] # "idle"}

Plainly == cut = {} /\ \A v, w \in Begun : Size[v] = Size[w]

\* A file that is in use is whole, or empty and about to be written.
Settling(i) ==
  /\ i = Old => file[i] = Entry(Old)
  /\ i \in Sets =>
       \/ \E w \in Begun : file[i] = Entry(w)
       \/ file[i] = <<>> /\ \E w \in Sets : step[w] = "writing" /\ fd[w] = i

\* Entries of one length, none cut short, leave nothing of one another.
Overlaps ==
  Plainly => /\ Settling(main) /\ Settling(tmp)
             /\ \A w \in Sets : step[w] = "writing" =>
                  fd[w] \in Sets /\ \/ file[fd[w]] = <<>>
                                    \/ \E v \in Begun : file[fd[w]] = Entry(v)

\* An entry written over one of its length is that entry.
LEMMA SameSizeWrite ==
  ASSUME NEW v \in Entries, NEW w \in Entries, Size[v] = Size[w]
  PROVE  Overwrite(Entry(v), SubSeq(Entry(w), 1, Size[w])) = Entry(w)
<1>1. SubSeq(Entry(w), 1, Size[w]) = Entry(w)
  BY EntryFacts
<1>2. /\ Entry(v) \in Seq(Entries) /\ Len(Entry(v)) = Size[w]
      /\ Entry(w) \in Seq(Entries) /\ Len(Entry(w)) = Size[w] /\ Size[w] \in Nat
  BY EntryFacts
<1>3. SubSeq(Entry(v), Len(Entry(w)) + 1, Len(Entry(v))) = <<>>
  <2>1. ASSUME NEW e \in Seq(Entries), NEW n \in Nat
        PROVE  SubSeq(e, n + 1, n) = <<>>
    OBVIOUS
  <2>. QED
    BY <1>2, <2>1
<1>4. Entry(w) \o <<>> = Entry(w)
  <2>1. \A e \in Seq(Entries) : e \o <<>> = e
    OBVIOUS
  <2>. QED
    BY <1>2, <2>1
<1>. QED
  BY <1>1, <1>3, <1>4 DEF Overwrite

LEMMA InitOverlaps == Init => Overlaps
<1>. SUFFICES ASSUME Init
     PROVE  Overlaps
  OBVIOUS
<1>1. main = Old => file[main] = Entry(Old)
  BY DEF Init, Entries
<1>2. Old \notin Sets /\ NoFile \notin Sets /\ NoFile # Old
  BY NamesAssumption DEF Entries
<1>. QED
  BY <1>1, <1>2 DEF Init, Overlaps, Settling

\* Whoever begins, fails, clears or purges leaves the files to the others.
LEMMA OverlapsStay ==
  ASSUME Overlaps, TypesGood, UNCHANGED <<file, fd>>,
         main' \in {main, NoFile}, tmp' \in {tmp, NoFile},
         \A w \in Sets : /\ step[w] = "writing" <=> step'[w] = "writing"
                         /\ step[w] # "idle" => step'[w] # "idle",
         cut \subseteq cut'
  PROVE  Overlaps'
<1>1. Begun \subseteq Begun' /\ (Plainly' => Plainly)
  BY DEF Begun, Plainly
<1>2. NoFile \notin Sets /\ NoFile # Old
  BY NamesAssumption DEF Entries
<1>. QED
  BY <1>1, <1>2 DEF Overlaps, Settling

LEMMA OpenOverlaps ==
  ASSUME IInv, Overlaps, NEW w \in Sets, Open(w)
  PROVE  Overlaps'
<1>. USE DEF IInv
<1>1. /\ step' = [step EXCEPT ![w] = "writing"] /\ "writing" \in Steps
      /\ step[w] = "opening" /\ UNCHANGED <<main, cut>>
      /\ tmp' \in Sets /\ tmp' # main
      /\ fd' = [fd EXCEPT ![w] = tmp'] /\ file' = [file EXCEPT ![tmp'] = <<>>]
  BY NamesAssumption DEF Open, Steps, PathsApart, TypesGood, Entries
<1>2. /\ step'[w] = "writing" /\ \A v \in Sets : v # w => step'[v] = step[v]
      /\ Begun' = Begun
  BY <1>1, StepFacts DEF Begun
<1>3. /\ tmp' \in Entries /\ file'[tmp'] = <<>>
      /\ \A i \in Entries : i # tmp' => file'[i] = file[i]
      /\ fd'[w] = tmp' /\ \A v \in Sets : v # w => fd'[v] = fd[v]
  BY <1>1 DEF TypesGood, Entries
<1>4. Old \notin Sets /\ NoFile \notin Sets /\ NoFile # Old /\ Sets \subseteq Entries
  BY NamesAssumption DEF Entries
<1>. SUFFICES ASSUME Plainly' PROVE Overlaps'
  BY DEF Overlaps
<1>5. Plainly
  BY <1>1, <1>2 DEF Plainly
<1>6. Settling(main)'
  <2>1. main \in Entries => file'[main] = file[main]
    BY <1>1, <1>3
  <2>2. Settling(main)
    BY <1>5 DEF Overlaps
  <2>. QED
    BY <1>1, <1>2, <1>3, <2>1, <2>2 DEF Settling, Entries
<1>7. Settling(tmp)'
  BY <1>1, <1>2, <1>3, <1>4 DEF Settling
<1>8. ASSUME NEW v \in Sets, step'[v] = "writing"
      PROVE  fd'[v] \in Sets /\ \/ file'[fd'[v]] = <<>>
                                \/ \E u \in Begun' : file'[fd'[v]] = Entry(u)
  <2>1. CASE v = w
    BY <1>1, <1>3, <2>1
  <2>2. CASE v # w
    BY <1>2, <1>3, <1>4, <1>5, <1>8, <2>2 DEF Overlaps
  <2>. QED
    BY <2>1, <2>2
<1>. QED
  BY <1>6, <1>7, <1>8 DEF Overlaps

LEMMA WriteOverlaps ==
  ASSUME IInv, Overlaps, NEW w \in Sets, Write(w)
  PROVE  Overlaps'
<1>. USE DEF IInv
<1>1. /\ step' = [step EXCEPT ![w] = "renaming"] /\ "renaming" \in Steps
      /\ step[w] = "writing" /\ UNCHANGED <<main, tmp, fd, cut>>
      /\ PutBlocks(w, Size[w])
  BY DEF Write, Steps
<1>2. /\ step'[w] = "renaming" /\ \A v \in Sets : v # w => step'[v] = step[v]
      /\ Begun' = Begun /\ w \in Begun
  BY <1>1, StepFacts DEF Begun
<1>3. Old \notin Sets /\ NoFile \notin Sets /\ NoFile # Old /\ Sets \subseteq Entries
  BY NamesAssumption DEF Entries
<1>. SUFFICES ASSUME Plainly' PROVE Overlaps'
  BY DEF Overlaps
<1>4. Plainly
  BY <1>1, <1>2 DEF Plainly
<1>5. /\ fd[w] \in Sets
      /\ \/ file[fd[w]] = <<>>
         \/ \E v \in Begun : file[fd[w]] = Entry(v)
  BY <1>1, <1>4 DEF Overlaps
<1>6. file'[fd[w]] = Entry(w) /\ \A i \in Entries : i # fd[w] => file'[i] = file[i]
  <2>1. file' = [file EXCEPT ![fd[w]] = Overwrite(file[fd[w]], SubSeq(Entry(w), 1, Size[w]))]
    BY <1>1, <1>3, <1>5 DEF PutBlocks, TypesGood
  <2>2. Overwrite(file[fd[w]], SubSeq(Entry(w), 1, Size[w])) = Entry(w)
    <3>1. CASE file[fd[w]] = <<>>
      BY <1>3, <3>1, WholeWrite
    <3>2. ASSUME NEW v \in Begun, file[fd[w]] = Entry(v)
          PROVE  Overwrite(file[fd[w]], SubSeq(Entry(w), 1, Size[w])) = Entry(w)
      <4>1. Size[v] = Size[w] /\ v \in Entries /\ w \in Entries
        BY <1>2, <1>3, <1>4 DEF Plainly, Begun
      <4>. QED
        BY <3>2, <4>1, SameSizeWrite
    <3>. QED
      BY <1>5, <3>1, <3>2
  <2>. QED
    BY <1>3, <1>5, <2>1, <2>2 DEF TypesGood
<1>7. ASSUME NEW i, Settling(i)
      PROVE  Settling(i)'
  BY <1>2, <1>3, <1>5, <1>6, <1>7, <1>1 DEF Settling, Entries
<1>8. Settling(main)' /\ Settling(tmp)'
  <2>1. Settling(main) /\ Settling(tmp)
    BY <1>4 DEF Overlaps
  <2>. QED
    BY <1>1, <1>7, <2>1 DEF Settling
<1>9. ASSUME NEW v \in Sets, step'[v] = "writing"
      PROVE  fd'[v] \in Sets /\ \/ file'[fd'[v]] = <<>>
                                \/ \E u \in Begun' : file'[fd'[v]] = Entry(u)
  BY <1>1, <1>2, <1>3, <1>4, <1>6, <1>9 DEF Overlaps
<1>. QED
  BY <1>8, <1>9 DEF Overlaps

LEMMA NextOverlaps == IInv /\ Overlaps /\ [Next]_vars => Overlaps'
<1>. SUFFICES ASSUME IInv, Overlaps, [Next]_vars
     PROVE  Overlaps'
  OBVIOUS
<1>. USE DEF IInv
<1>1. ASSUME NEW w \in Sets, Begin(w) \/ RenameFails(w) \/ Cleanup(w)
      PROVE  Overlaps'
  <2>1. PICK s \in Steps \ {"idle", "writing"} :
          step' = [step EXCEPT ![w] = s] /\ step[w] # "writing"
    BY <1>1 DEF Begin, RenameFails, Cleanup, Steps
  <2>2. \A v \in Sets : /\ step[v] = "writing" <=> step'[v] = "writing"
                        /\ step[v] # "idle" => step'[v] # "idle"
    BY <2>1, StepFacts
  <2>. QED
    BY <1>1, <2>2, OverlapsStay DEF Begin, RenameFails, Cleanup, Discard
<1>2. ASSUME NEW w \in Sets, Rename(w)
      PROVE  Overlaps'
  <2>1. /\ step' = [step EXCEPT ![w] = "over"] /\ "over" \in Steps
        /\ step[w] = "renaming" /\ main' = tmp /\ tmp' = NoFile /\ UNCHANGED <<file, fd, cut>>
    BY <1>2 DEF Rename, Steps
  <2>2. /\ \A v \in Sets : step'[v] = "writing" <=> step[v] = "writing"
        /\ Begun' = Begun
    BY <2>1, StepFacts DEF Begun
  <2>3. NoFile \notin Sets /\ NoFile # Old
    BY NamesAssumption DEF Entries
  <2>4. Plainly' => Plainly
    BY <2>1, <2>2 DEF Plainly
  <2>. QED
    BY <2>1, <2>2, <2>3, <2>4 DEF Overlaps, Settling
<1>3. ASSUME NEW w \in Sets, WriteFails(w) \/ OpenFails(w)
      PROVE  Overlaps'
  BY <1>3 DEF WriteFails, OpenFails, Overlaps, Plainly
<1>4. ASSUME NEW c \in Gets \cup Clears,
             PathExists(c) \/ NoPath(c) \/ ReadJson(c) \/ Clear(c)
      PROVE  Overlaps'
  <2>1. PICK s \in Steps : step' = [step EXCEPT ![c] = s]
    BY <1>4 DEF PathExists, NoPath, ReadJson, Clear, Return, Steps
  <2>2. \A v \in Sets : step'[v] = step[v]
    BY <2>1, OtherStepFacts
  <2>. QED
    BY <1>4, <2>2, OverlapsStay DEF PathExists, NoPath, ReadJson, Clear, Return
<1>5. CASE Crash
  <2>1. CASE InSet = {}
    <3>1. \A w \in Sets : step[w] \in {"idle", "over"} /\ step'[w] = step[w]
      BY <1>5, <2>1 DEF Crash, Stopped, TypesGood, InSet
    <3>2. UNCHANGED <<main, tmp, fd, file>> /\ cut \subseteq cut'
      BY <1>5, <3>1 DEF Crash
    <3>. QED
      BY <3>1, <3>2, OverlapsStay
  <2>2. CASE InSet # {}
    BY <1>5, <2>2 DEF Crash, Overlaps, Plainly
  <2>. QED
    BY <2>1, <2>2
<1>6. CASE Start
  BY <1>6, OverlapsStay DEF Start
<1>7. CASE UNCHANGED vars
  BY <1>7, OverlapsStay DEF vars
<1>. QED
  BY <1>1, <1>2, <1>3, <1>4, <1>5, <1>6, <1>7, OpenOverlaps, WriteOverlaps DEF Next

\* Calls that share one execution end with a readable cache, however they
\* overlapped on the way (KubeCache.ts:66-92).
THEOREM WholeInTheEnd == Spec => []QuiescentIsWhole
<1>1. IInv /\ Overlaps => QuiescentIsWhole
  <2>. SUFFICES ASSUME IInv, Overlaps, InSet = {}, cut = {},
                       \A v, w \in Sets : step[v] = "over" /\ step[w] = "over"
                                            => Size[v] = Size[w]
                PROVE  Whole(main)
    BY DEF QuiescentIsWhole
  <2>1. \A w \in Sets : step[w] \in {"idle", "over"}
    BY DEF InSet
  <2>2. Plainly
    BY <2>1 DEF Plainly, Begun
  <2>3. Settling(main)
    BY <2>2 DEF Overlaps
  <2>. QED
    BY <2>1, <2>3 DEF IInv, TypesGood, Settling, Whole, Entries, Begun
<1>. QED
  BY <1>1, InitIInv, NextIInv, InitOverlaps, NextOverlaps, PTL DEF Spec
=============================================================================
