---------------------------- MODULE ReloadProofs ----------------------------
(***************************************************************************)
(* Proofs about Reload, for any files, secrets, number of edits and number *)
(* of reloads in flight at once.                                           *)
(***************************************************************************)
EXTENDS Reload, SequenceTheorems, TLAPS

-----------------------------------------------------------------------------
(* Reading the files. *)

\* g has read the first i - 1 files, and they are what is left out of todo.
ReadTo(g, i) ==
    /\ todo[g] \in Seq(Files)
    /\ Len(todo[g]) = 7 - i
    /\ \A k \in 1..(7 - i) : todo[g][k] = ReadOrder[i + k - 1]
    /\ \A j \in 1..6 : j < i <=> got[g][ReadOrder[j]] # Unread
    /\ \A j \in 1..6 : j < i => AcceptsRead(ReadOrder[j], got[g])

\* What a goroutine has read, by its step.
StepInv(g) ==
    /\ at[g] = "idle" => got[g] = NothingRead
    /\ at[g] = "read" => \E i \in 1..6 : ReadTo(g, i)
    /\ at[g] \in {"resolve", "sync", "call", "publish"} =>
          Acceptable(got[g]) /\ \A f \in Files : got[g][f] # Unread

\* What the steps of reload rely on.
ReadInv ==
    /\ disk \in [Files -> ContentIds] /\ seen \in [Files -> ContentIds]
    /\ at \in [Goroutines -> Steps]
    /\ todo = [g \in Goroutines |-> todo[g]]
    /\ got \in [Goroutines -> FileMaps]
    /\ events \subseteq Files \union Paths
    /\ timer \in BOOLEAN
    /\ boot \in {"connecting", "wiring", "registered", "serving", "dead"}
    /\ boot = "connecting" => \A g \in Goroutines : at[g] = "idle"
    /\ \A g \in Goroutines : StepInv(g)

\* The positions of the read order.
LEMMA ReadOrderIs ==
    /\ ReadOrder[1] = "pools" /\ ReadOrder[2] = "policy" /\ ReadOrder[3] = "pricing"
    /\ ReadOrder[4] = "users" /\ ReadOrder[5] = "teams" /\ ReadOrder[6] = "repos"
    /\ ReadOrder \in Seq(Files) /\ Len(ReadOrder) = 6
    /\ \A f \in Files : \E j \in 1..6 : ReadOrder[j] = f
    /\ \A j \in 1..6 : ReadOrder[j] \in Files
    /\ \A j, k \in 1..6 : ReadOrder[j] = ReadOrder[k] => j = k
<1>1. /\ ReadOrder[1] = "pools" /\ ReadOrder[2] = "policy" /\ ReadOrder[3] = "pricing"
      /\ ReadOrder[4] = "users" /\ ReadOrder[5] = "teams" /\ ReadOrder[6] = "repos"
      /\ ReadOrder \in Seq(Files) /\ Len(ReadOrder) = 6
  BY DEF ReadOrder, Files
<1>2. \A f \in Files : \E j \in 1..6 : ReadOrder[j] = f
  <2>1. 1 \in 1..6 /\ 2 \in 1..6 /\ 3 \in 1..6 /\ 4 \in 1..6 /\ 5 \in 1..6 /\ 6 \in 1..6
    OBVIOUS
  <2> QED BY <1>1, <2>1 DEF Files
<1>3. \A j \in 1..6 : j = 1 \/ j = 2 \/ j = 3 \/ j = 4 \/ j = 5 \/ j = 6
  OBVIOUS
<1>4. \A j \in 1..6 : ReadOrder[j] \in Files
  BY <1>1, <1>3 DEF Files
<1>5. \A j, k \in 1..6 : ReadOrder[j] = ReadOrder[k] => j = k
  BY <1>1, <1>3, Zenon
<1> QED BY <1>1, <1>2, <1>4, <1>5

\* The check after a read depends on the file read, and the last one on all files.
LEMMA AcceptsReadLocal ==
    ASSUME NEW f \in Files, NEW a, NEW b, a[f] = b[f],
           f = "repos" => \A h \in Files : a[h] = b[h]
    PROVE  AcceptsRead(f, a) <=> AcceptsRead(f, b)
<1>1. CASE f # "repos"
  BY <1>1 DEF AcceptsRead, Files
<1>2. CASE f = "repos"
  <2>1. /\ a["pools"] = b["pools"] /\ a["policy"] = b["policy"] /\ a["pricing"] = b["pricing"]
        /\ a["users"] = b["users"] /\ a["teams"] = b["teams"] /\ a["repos"] = b["repos"]
    BY <1>2 DEF Files
  <2> QED BY <1>2, <2>1 DEF AcceptsRead
<1> QED BY <1>1, <1>2

\* A configuration is acceptable when the check after each read passes.
LEMMA AcceptableIs ==
    ASSUME NEW a
    PROVE  Acceptable(a) <=> \A f \in Files : AcceptsRead(f, a)
BY DEF Acceptable, Files

\* What is on disk is a content, and "not read yet" is none.
LEMMA DiskTypes ==
    /\ \A f \in Files : Contents[f] \subseteq ContentIds
    /\ Unread \notin ContentIds
BY ContentsAssumption DEF ContentIds

\* The reading invariant holds initially.
LEMMA ReadInvInit == Init => ReadInv
<1> SUFFICES ASSUME Init PROVE ReadInv
  OBVIOUS
<1>1. PICK i \in Initial : disk = i.files /\ secret = i.secrets
  BY DEF Init
<1>2. disk \in [Files -> ContentIds]
  BY <1>1, InitialAssumption DEF ContentIds
<1>3. got \in [Goroutines -> FileMaps]
  BY Zenon DEF Init, FileMaps, NothingRead
<1> QED BY <1>2, <1>3, Zenon DEF Init, ReadInv, StepInv, Steps

\* A goroutine that a step leaves alone keeps its part of the invariant.
LEMMA StepInvKept ==
    ASSUME NEW g, StepInv(g), at'[g] = at[g], todo'[g] = todo[g], got'[g] = got[g]
    PROVE  StepInv(g)'
BY DEF StepInv, ReadTo

\* A step of one goroutine: the others keep their part.
LEMMA OneStep ==
    ASSUME ReadInv, NEW g \in Goroutines, NEW a \in Steps, NEW t, NEW m \in FileMaps,
           at' = [at EXCEPT ![g] = a], todo' = [todo EXCEPT ![g] = t],
           got' = [got EXCEPT ![g] = m],
           StepInv(g)',
           boot' = boot, boot # "connecting",
           disk' = disk, seen' \in [Files -> ContentIds],
           events' = events, timer' \in BOOLEAN
    PROVE  ReadInv'
<1>1. ASSUME NEW h \in Goroutines PROVE StepInv(h)'
  <2>1. CASE h = g
    BY <2>1
  <2>2. CASE h # g
    <3>1. at'[h] = at[h] /\ todo'[h] = todo[h] /\ got'[h] = got[h]
      BY <2>2 DEF ReadInv
    <3>2. StepInv(h)
      BY DEF ReadInv
    <3> QED BY <3>1, <3>2, StepInvKept
  <2> QED BY <2>1, <2>2
<1>2. /\ at' \in [Goroutines -> Steps] /\ todo' = [k \in Goroutines |-> todo'[k]]
      /\ got' \in [Goroutines -> FileMaps]
  BY Zenon DEF ReadInv
<1> QED BY <1>1, <1>2 DEF ReadInv

\* A reload that gives up or is done keeps the reading invariant.
LEMMA FinishStep ==
    ASSUME ReadInv, NEW g \in Goroutines, Finish(g), boot' = boot, boot # "connecting",
           disk' = disk, seen' \in [Files -> ContentIds],
           events' = events, timer' \in BOOLEAN
    PROVE  ReadInv'
<1>1. NothingRead \in FileMaps /\ "idle" \in Steps
  BY DEF NothingRead, FileMaps, Steps
<1>2. at'[g] = "idle" /\ got'[g] = NothingRead
  BY DEF Finish, ReadInv
<1>3. StepInv(g)'
  BY <1>2 DEF StepInv
<1> QED BY <1>1, <1>3, OneStep, Zenon DEF Finish

\* A running reload is past the start of the process.
LEMMA RunningStarted ==
    ASSUME ReadInv, NEW g \in Goroutines, Running(g)
    PROVE  boot # "connecting"
BY DEF ReadInv, Running

\* Reading file f in goroutine g, either way.
\* The head and the rest of a sequence.
LEMMA SplitSeq ==
    ASSUME NEW S, NEW s \in Seq(S), NEW n \in Nat \ {0}, Len(s) = n
    PROVE  /\ s # <<>> /\ Head(s) = s[1] /\ s[1] \in S
           /\ Tail(s) \in Seq(S) /\ Len(Tail(s)) = n - 1
           /\ \A k \in 1..(n - 1) : Tail(s)[k] = s[k + 1]
OBVIOUS

\* So does one that reads its next file.
LEMMA ReadInvRead ==
    ASSUME ReadInv, NEW g \in Goroutines, ReadFile(g)
    PROVE  ReadInv'
<1> DEFINE f == Head(todo[g])
           files == [got[g] EXCEPT ![f] = disk[f]]
<1>1. PICK i \in 1..6 : ReadTo(g, i)
  BY DEF ReadInv, StepInv, ReadFile
<1>2. /\ f = ReadOrder[i] /\ f \in Files
      /\ todo[g] # <<>> /\ Len(Tail(todo[g])) = 7 - (i + 1)
      /\ Tail(todo[g]) \in Seq(Files)
      /\ \A k \in 1..(7 - (i + 1)) : Tail(todo[g])[k] = ReadOrder[(i + 1) + k - 1]
  <2> DEFINE n == 7 - i
  <2>1. /\ todo[g] \in Seq(Files) /\ Len(todo[g]) = n
        /\ \A k \in 1..n : todo[g][k] = ReadOrder[i + k - 1]
    BY <1>1 DEF ReadTo
  <2>2. /\ n \in Nat \ {0} /\ 1 \in 1..n /\ i + 1 - 1 = i /\ n - 1 = 7 - (i + 1)
        /\ \A k \in 1..(n - 1) : k + 1 \in 1..n /\ i + (k + 1) - 1 = (i + 1) + k - 1
    OBVIOUS
  <2> HIDE DEF n
  <2>3. /\ todo[g] # <<>> /\ f = todo[g][1] /\ todo[g][1] \in Files
        /\ Tail(todo[g]) \in Seq(Files) /\ Len(Tail(todo[g])) = n - 1
        /\ \A k \in 1..(n - 1) : Tail(todo[g])[k] = todo[g][k + 1]
    BY <2>1, <2>2, SplitSeq
  <2>4. todo[g][1] = ReadOrder[i]
    BY <2>1, <2>2, Zenon
  <2>5. \A k \in 1..(n - 1) : Tail(todo[g])[k] = ReadOrder[(i + 1) + k - 1]
    BY <2>1, <2>2, <2>3
  <2> QED BY <2>2, <2>3, <2>4, <2>5, Zenon
<1>3. /\ disk[f] \in ContentIds /\ got[g] \in FileMaps
      /\ files \in FileMaps /\ disk[f] # Unread
  BY <1>2, DiskTypes DEF ReadInv, FileMaps
<1>4. /\ files[f] = disk[f]
      /\ \A h \in Files : h # f => files[h] = got[g][h]
  BY <1>2, <1>3 DEF FileMaps
<1>5. \A j \in 1..6 : j < i => AcceptsRead(ReadOrder[j], files)
  <2> SUFFICES ASSUME NEW j \in 1..6, j < i PROVE AcceptsRead(ReadOrder[j], files)
    OBVIOUS
  <2>1. ReadOrder[j] \in Files /\ ReadOrder[j] # f /\ ReadOrder[j] # "repos"
    BY <1>2, ReadOrderIs
  <2>2. AcceptsRead(ReadOrder[j], got[g])
    BY <1>1 DEF ReadTo
  <2>3. files[ReadOrder[j]] = got[g][ReadOrder[j]]
    BY <1>4, <2>1
  <2> HIDE DEF files
  <2> QED BY <2>1, <2>2, <2>3, AcceptsReadLocal
<1>6. \A j \in 1..6 : j < i + 1 <=> files[ReadOrder[j]] # Unread
  <2> SUFFICES ASSUME NEW j \in 1..6
               PROVE  j < i + 1 <=> files[ReadOrder[j]] # Unread
    OBVIOUS
  <2> HIDE DEF f, files
  <2>1. CASE j = i
    <3>1. files[ReadOrder[j]] # Unread
      BY <1>2, <1>3, <1>4, <2>1, Zenon
    <3> QED BY <2>1, <3>1
  <2>2. CASE j # i
    <3>1. ReadOrder[j] # f /\ ReadOrder[j] \in Files
      BY <1>2, <2>2, ReadOrderIs, Zenon
    <3>2. files[ReadOrder[j]] = got[g][ReadOrder[j]]
      BY <1>4, <3>1
    <3>3. j < i <=> got[g][ReadOrder[j]] # Unread
      BY <1>1, Zenon DEF ReadTo
    <3>4. j < i + 1 <=> j < i
      BY <2>2
    <3> QED BY <3>2, <3>3, <3>4
  <2> QED BY <2>1, <2>2, Zenon
<1>9. /\ boot' = boot /\ boot # "connecting" /\ disk' = disk /\ events' = events
      /\ timer' \in BOOLEAN /\ seen' \in [Files -> ContentIds]
  BY <1>2, <1>3, RunningStarted DEF ReadFile, ReadInv, watcherVars
<1>7. CASE AcceptsRead(f, files)
  <2>1. /\ got' = [got EXCEPT ![g] = files]
        /\ todo' = [todo EXCEPT ![g] = Tail(todo[g])]
        /\ at' = [at EXCEPT ![g] = IF Len(todo[g]) = 1 THEN "resolve" ELSE "read"]
    BY <1>7 DEF ReadFile
  <2> HIDE DEF files
  <2>2. got'[g] = files /\ todo'[g] = Tail(todo[g])
    BY <2>1 DEF ReadInv
  <2>3. \A j \in 1..6 : j < i + 1 => AcceptsRead(ReadOrder[j], files)
    BY <1>2, <1>5, <1>7
  <2>4. CASE i < 6
    <3>1. at' = [at EXCEPT ![g] = "read"] /\ at'[g] = "read"
      <4>1. Len(todo[g]) # 1
        BY <1>1, <2>4 DEF ReadTo
      <4>2. at' = [at EXCEPT ![g] = "read"]
        BY <2>1, <4>1
      <4> QED BY <4>2 DEF ReadInv
    <3>2. ReadTo(g, i + 1)'
      BY <1>2, <1>6, <2>2, <2>3, Zenon DEF ReadTo
    <3>4. i + 1 \in 1..6
      BY <2>4
    <3>3. StepInv(g)'
      BY <3>1, <3>2, <3>4 DEF StepInv
    <3> QED BY <1>3, <1>9, <2>1, <3>1, <3>3, OneStep, Zenon DEF Steps
  <2>5. CASE i = 6
    <3>1. at' = [at EXCEPT ![g] = "resolve"] /\ at'[g] = "resolve"
      <4>1. Len(todo[g]) = 1
        BY <1>1, <2>5 DEF ReadTo
      <4>2. at' = [at EXCEPT ![g] = "resolve"]
        BY <2>1, <4>1
      <4> QED BY <4>2 DEF ReadInv
    <3>2. \A h \in Files : AcceptsRead(h, files) /\ files[h] # Unread
      BY <1>6, <2>3, <2>5, ReadOrderIs
    <3>3. Acceptable(files)
      BY <3>2, AcceptableIs
    <3>4. StepInv(g)'
      BY <2>2, <3>1, <3>2, <3>3 DEF StepInv
    <3> QED BY <1>3, <1>9, <2>1, <3>1, <3>4, OneStep, Zenon DEF Steps
  <2> QED BY <2>4, <2>5
<1>8. CASE ~AcceptsRead(f, files)
  BY <1>8, <1>9, FinishStep DEF ReadFile
<1> QED BY <1>7, <1>8, Zenon

\* So does every step.
LEMMA ReadInvNext == ReadInv /\ [Next]_vars => ReadInv'
<1> SUFFICES ASSUME ReadInv, [Next]_vars PROVE ReadInv'
  OBVIOUS
<1> USE StepInvKept
<1>1. ASSUME NEW f \in Files, NEW c \in Contents[f], EditFile(f, c) PROVE ReadInv'
  BY <1>1, DiskTypes DEF EditFile, ReadInv, reloadVars
<1>2. ASSUME NEW p \in Paths, NEW k \in Keys, WriteSecret(p, k) PROVE ReadInv'
  BY <1>2 DEF WriteSecret, ReadInv, reloadVars
<1>3. ASSUME NEW p \in Paths, NEW k \in Keys \union {Unreadable}, ReplaceSecret(p, k)
      PROVE  ReadInv'
  BY <1>3 DEF ReplaceSecret, ReadInv, reloadVars
<1>4. CASE TriggerReload
  BY <1>4 DEF TriggerReload, ReadInv, reloadVars
<1>5. CASE Start
  BY <1>5 DEF Start, ReadInv, reloadVars
<1>6. CASE OnReload
  BY <1>6 DEF OnReload, ReadInv, reloadVars, watcherVars
<1>18. CASE rebuildTeamRegistry
  BY <1>18, Zenon DEF rebuildTeamRegistry, ReadInv, reloadVars, watcherVars
<1>7. CASE HandleTrigger
  BY <1>7 DEF HandleTrigger, ReadInv, reloadVars
<1>8. ASSUME NEW n \in Files \union Paths, HandleEvent(n) PROVE ReadInv'
  BY <1>8 DEF HandleEvent, ReadInv, reloadVars
<1>9. ASSUME NEW g \in Goroutines, Expire(g) PROVE ReadInv'
  <2>1. todo'[g] = ReadOrder /\ got'[g] = NothingRead /\ at'[g] = "read"
    BY <1>9 DEF Expire, ReadInv, StepInv
  <2>2. ReadTo(g, 1)'
    BY <2>1, ReadOrderIs DEF ReadTo, NothingRead
  <2>3. StepInv(g)' /\ got[g] \in FileMaps /\ got' = [got EXCEPT ![g] = got[g]]
    BY <1>9, <2>1, <2>2 DEF StepInv, Expire, ReadInv
  <2> QED BY <1>9, <2>3, OneStep, Zenon DEF Expire, ReadInv, Steps, Watching
<1>10. ASSUME NEW g \in Goroutines, ReadFile(g) PROVE ReadInv'
  BY <1>10, ReadInvRead
<1>11. ASSUME NEW g \in Goroutines, NEW e \in Endpoints, ResolveKey(g, e) PROVE ReadInv'
  <2>1. /\ boot' = boot /\ boot # "connecting" /\ disk' = disk /\ events' = events
        /\ timer' \in BOOLEAN /\ seen' \in [Files -> ContentIds]
    BY <1>11, RunningStarted, Zenon DEF ResolveKey, ReadInv, watcherVars
  <2>2. CASE Finish(g)
    BY <2>1, <2>2, FinishStep
  <2>3. CASE UNCHANGED <<at, todo, got>>
    BY <2>1, <2>3, Zenon DEF ReadInv
  <2> QED BY <1>11, <2>2, <2>3, Zenon DEF ResolveKey
<1>12. ASSUME NEW g \in Goroutines, Swap(g) PROVE ReadInv'
  <2>1. StepInv(g)' /\ "sync" \in Steps
    BY <1>12, Zenon DEF Swap, ReadInv, StepInv, Steps
  <2> QED BY <1>12, <2>1, OneStep, RunningStarted, Zenon DEF Swap, ReadInv, watcherVars
<1>13. ASSUME NEW g \in Goroutines, syncSecretWatches(g) PROVE ReadInv'
  <2>1. StepInv(g)' /\ "call" \in Steps
    BY <1>13 DEF syncSecretWatches, ReadInv, StepInv, Steps
  <2> QED BY <1>13, <2>1, OneStep, RunningStarted, Zenon DEF syncSecretWatches, ReadInv
<1>14. ASSUME NEW g \in Goroutines, CallOnReload(g) PROVE ReadInv'
  <2>1. StepInv(g)' /\ "publish" \in Steps
    BY <1>14, Zenon DEF CallOnReload, ReadInv, StepInv, Steps
  <2> QED BY <1>14, <2>1, OneStep, RunningStarted, Zenon DEF CallOnReload, ReadInv, watcherVars
<1>15. ASSUME NEW g \in Goroutines, Publish(g) PROVE ReadInv'
  <2>1. /\ boot' = boot /\ boot # "connecting" /\ disk' = disk /\ events' = events
        /\ timer' \in BOOLEAN /\ seen' \in [Files -> ContentIds]
    BY <1>15, RunningStarted DEF Publish, ReadInv, watcherVars
  <2>2. CASE Finish(g)
    BY <2>1, <2>2, FinishStep
  <2>3. CASE todo' = [todo EXCEPT ![g] = Tail(todo[g])] /\ UNCHANGED <<at, got>>
    <3>1. StepInv(g)'
      BY <1>15, <2>3 DEF Publish, ReadInv, StepInv
    <3> QED BY <2>1, <2>3, <3>1, OneStep, Zenon DEF ReadInv
  <2> QED BY <1>15, <2>2, <2>3, Zenon DEF Publish
<1>16. ASSUME NEW g \in Goroutines, MapRace(g) PROVE ReadInv'
  BY <1>16 DEF MapRace, ReadInv, watcherVars, reloadVars
<1>17. CASE UNCHANGED vars
  BY <1>17 DEF vars, ReadInv, watcherVars, reloadVars
<1> QED
  BY <1>1, <1>2, <1>3, <1>4, <1>5, <1>6, <1>7, <1>8, <1>9, <1>10, <1>11, <1>12, <1>13,
     <1>14, <1>15, <1>16, <1>17, <1>18, Zenon DEF Next, loop, reload

-----------------------------------------------------------------------------
(* No edit is lost. *)

\* What goroutine g has read is still on disk.
Fresh(g) == \A f \in Files : got[g][f] \in {Unread, disk[f]}

\* Something will read file f: a reload that is still to start, or one that has not
\* come to f and that no edit has overtaken.
Awaited(f) ==
    \/ events \intersect Files # {}
    \/ timer
    \/ \E g \in Goroutines : at[g] = "read" /\ got[g][f] = Unread /\ Fresh(g)

\* A file whose content was not seen is awaited, unless the files on disk cannot be
\* loaded as they are.
EditInv ==
    /\ Acceptable(disk) => \A f \in Files \ missed : seen[f] = disk[f] \/ Awaited(f)
    /\ boot = "connecting" => \A f \in Files \ missed : seen[f] = disk[f]

\* Initially every file has been read as it is.
LEMMA EditInvInit == Init => EditInv
BY Zenon DEF Init, EditInv

\* The next file to read.
LEMMA HeadIs ==
    ASSUME NEW g, NEW i \in 1..6, ReadTo(g, i)
    PROVE  Head(todo[g]) = ReadOrder[i] /\ Head(todo[g]) \in Files
BY ReadOrderIs DEF ReadTo

\* A reload gives up only when it was overtaken or the disk is not acceptable.
LEMMA FailedRead ==
    ASSUME ReadInv, NEW g \in Goroutines, ReadFile(g), Fresh(g),
           ~AcceptsRead(Head(todo[g]), [got[g] EXCEPT ![Head(todo[g])] = disk[Head(todo[g])]])
    PROVE  ~Acceptable(disk)
<1> DEFINE f == Head(todo[g])
           files == [got[g] EXCEPT ![f] = disk[f]]
<1>1. PICK i \in 1..6 : ReadTo(g, i)
  BY DEF ReadInv, StepInv, ReadFile
<1>2. f = ReadOrder[i] /\ f \in Files
  BY <1>1, HeadIs
<1>3. files[f] = disk[f] /\ \A h \in Files : h # f => files[h] = got[g][h]
  <2>1. got[g] \in FileMaps
    BY Zenon DEF ReadInv
  <2> HIDE DEF f
  <2> QED BY <1>2, <2>1 DEF FileMaps
<1>4. f = "repos" => \A h \in Files : files[h] = disk[h]
  <2> SUFFICES ASSUME f = "repos", NEW h \in Files, h # f PROVE files[h] = disk[h]
    BY <1>3, Zenon
  <2>1. i = 6
    BY <1>2, ReadOrderIs
  <2>2. PICK j \in 1..6 : ReadOrder[j] = h
    BY ReadOrderIs
  <2>3. j < i
    BY <1>2, <2>1, <2>2
  <2>4. got[g][h] # Unread
    BY <1>1, <2>2, <2>3, ZenonT(30) DEF ReadTo
  <2>5. got[g][h] = disk[h]
    BY <2>4, Zenon DEF Fresh
  <2>6. files[h] = got[g][h]
    BY <1>3
  <2> QED BY <2>5, <2>6, Zenon
<1>5. ~AcceptsRead(f, files)
  OBVIOUS
<1> HIDE DEF f, files
<1>6. ~AcceptsRead(f, disk)
  BY <1>2, <1>3, <1>4, <1>5, AcceptsReadLocal, Zenon
<1> QED BY <1>2, <1>6, AcceptableIs

\* A read, refused or not, leaves no outdated file unawaited.
LEMMA EditInvRead ==
    ASSUME ReadInv, EditInv, NEW g \in Goroutines, ReadFile(g)
    PROVE  EditInv'
<1>0. boot' # "connecting"
  BY RunningStarted, Zenon DEF ReadFile
<1> DEFINE f == Head(todo[g])
           files == [got[g] EXCEPT ![f] = disk[f]]
<1> SUFFICES ASSUME Acceptable(disk), NEW h \in Files \ missed', seen'[h] # disk[h]
             PROVE  Awaited(h)'
  BY <1>0, Zenon DEF EditInv, ReadFile
<1>1. PICK i \in 1..6 : ReadTo(g, i)
  BY Zenon DEF ReadInv, StepInv, ReadFile
<1>2. f = ReadOrder[i] /\ f \in Files
  BY <1>1, ReadOrderIs DEF ReadTo
<1>3. seen' = [seen EXCEPT ![f] = disk[f]] /\ missed' = missed \ {f}
  BY DEF ReadFile
<1>4. h # f /\ seen'[h] = seen[h] /\ h \notin missed
  BY <1>2, <1>3 DEF ReadInv
<1>5. Awaited(h)
  BY <1>4 DEF EditInv
<1>6. events' = events /\ timer' = timer /\ disk' = disk
  BY DEF ReadFile, watcherVars
<1>7. CASE events \intersect Files # {} \/ timer
  BY <1>6, <1>7 DEF Awaited
<1>8. ASSUME NEW k \in Goroutines, at[k] = "read", got[k][h] = Unread, Fresh(k)
      PROVE  Awaited(h)'
  <2>1. CASE k # g
    <3>1. at'[k] = at[k] /\ got'[k] = got[k]
      BY <2>1, Zenon DEF ReadFile, Finish, ReadInv
    <3> QED BY <1>6, <1>8, <3>1, Zenon DEF Awaited, Fresh
  <2>2. CASE k = g
    <3>1. AcceptsRead(f, files)
      BY <1>8, <2>2, FailedRead, Zenon
    <3>2. /\ got' = [got EXCEPT ![g] = files]
          /\ at' = [at EXCEPT ![g] = IF Len(todo[g]) = 1 THEN "resolve" ELSE "read"]
      BY <3>1 DEF ReadFile
    <3>3. got[g] \in FileMaps
      BY Zenon DEF ReadInv
    <3>4. files[f] = disk[f] /\ \A x \in Files : x # f => files[x] = got[g][x]
      <4> HIDE DEF f
      <4> QED BY <1>2, <3>3, Zenon DEF FileMaps
    <3>5. i # 6
      <4>1. PICK j \in 1..6 : ReadOrder[j] = h
        BY ReadOrderIs, Zenon
      <4>2. ~(j < i)
        BY <1>1, <1>8, <2>2, <4>1, Zenon DEF ReadTo
      <4>3. j # i
        BY <1>2, <1>4, <4>1, Zenon
      <4> QED BY <4>2, <4>3
    <3>6. Len(todo[g]) # 1
      BY <1>1, <3>5 DEF ReadTo
    <3> HIDE DEF files
    <3>7. at'[g] = "read" /\ got'[g] = files
      BY <3>2, <3>6 DEF ReadInv
    <3>8. got'[g][h] = Unread
      BY <1>4, <1>8, <2>2, <3>4, <3>7, Zenon
    <3>9. \A x \in Files : got'[g][x] \in {Unread, disk'[x]}
      BY <1>6, <1>8, <2>2, <3>4, <3>7, Zenon DEF Fresh
    <3> QED BY <3>7, <3>8, <3>9, Zenon DEF Awaited, Fresh
  <2> QED BY <2>1, <2>2, Zenon
<1> QED BY <1>5, <1>7, <1>8 DEF Awaited

\* A step that leaves the files, the queue and the reading alone.
LEMMA EditInvKept ==
    ASSUME EditInv, boot' = "connecting" => boot = "connecting", disk' = disk, seen' = seen, missed \intersect Files \subseteq missed',
           events \intersect Files \subseteq events', timer => timer',
           \A g \in Goroutines : at[g] = "read" => at'[g] = "read" /\ got'[g] = got[g]
    PROVE  EditInv'
<1> SUFFICES ASSUME Acceptable(disk), NEW f \in Files \ missed', seen[f] # disk[f]
             PROVE  Awaited(f)'
  BY DEF EditInv
<1>1. Awaited(f)
  BY DEF EditInv
<1>2. CASE events \intersect Files # {} \/ timer
  BY <1>2 DEF Awaited
<1>3. ASSUME NEW g \in Goroutines, at[g] = "read", got[g][f] = Unread, Fresh(g)
      PROVE  Awaited(f)'
  BY <1>3 DEF Awaited, Fresh
<1> QED BY <1>1, <1>2, <1>3, Zenon DEF Awaited

\* No step leaves an outdated file unawaited.
LEMMA EditInvNext == ReadInv /\ EditInv /\ [Next]_vars => EditInv'
<1> SUFFICES ASSUME ReadInv, EditInv, [Next]_vars PROVE EditInv'
  OBVIOUS
<1>1. ASSUME NEW f \in Files, NEW c \in Contents[f], EditFile(f, c) PROVE EditInv'
  <2>1. CASE Watching
    BY <1>1, <2>1, Zenon DEF EditFile, EditInv, Awaited, Watching
  <2>2. CASE ~Watching
    <3> SUFFICES ASSUME NEW h \in Files \ missed' PROVE seen'[h] = disk'[h]
      BY Zenon DEF EditInv
    <3>1. h # f /\ h \notin missed /\ disk'[h] = disk[h] /\ seen' = seen
      BY <1>1, <2>2, Zenon DEF EditFile, ReadInv
    <3>2. boot = "connecting"
      BY <1>1, <2>2, Zenon DEF EditFile, ReadInv, Watching
    <3> QED BY <3>1, <3>2, Zenon DEF EditInv
  <2> QED BY <2>1, <2>2
<1>2. ASSUME NEW p \in Paths, NEW k \in Keys, WriteSecret(p, k) PROVE EditInv'
  BY <1>2, EditInvKept DEF WriteSecret, reloadVars
<1>3. ASSUME NEW p \in Paths, NEW k \in Keys \union {Unreadable}, ReplaceSecret(p, k)
      PROVE  EditInv'
  BY <1>3, EditInvKept DEF ReplaceSecret, reloadVars
<1>4. CASE TriggerReload
  BY <1>4, EditInvKept, Zenon DEF TriggerReload, reloadVars
<1>5. CASE Start
  BY <1>5, EditInvKept, Zenon DEF Start, reloadVars
<1>6. CASE OnReload
  BY <1>6, EditInvKept DEF OnReload, reloadVars, watcherVars
<1>18. CASE rebuildTeamRegistry
  BY <1>18, EditInvKept, Zenon DEF rebuildTeamRegistry, reloadVars, watcherVars
<1>7. CASE HandleTrigger
  BY <1>7, EditInvKept DEF HandleTrigger, reloadVars
<1>8. ASSUME NEW n \in Files \union Paths, HandleEvent(n) PROVE EditInv'
  <2>1. CASE n \in Files
    BY <1>8, <2>1, Zenon DEF HandleEvent, EditInv, Awaited, Watching
  <2>2. CASE n \notin Files
    BY <1>8, <2>2, EditInvKept, Zenon DEF HandleEvent, reloadVars
  <2> QED BY <2>1, <2>2
<1>9. ASSUME NEW g \in Goroutines, Expire(g) PROVE EditInv'
  <2>1. at'[g] = "read" /\ got'[g] = NothingRead
    BY <1>9 DEF Expire, ReadInv, StepInv
  <2>2. \A f \in Files : got'[g][f] = Unread
    BY <2>1 DEF NothingRead
  <2> QED BY <1>9, <2>1, <2>2 DEF Expire, Watching, EditInv, Awaited, Fresh
<1>10. ASSUME NEW g \in Goroutines, ReadFile(g) PROVE EditInv'
  BY <1>10, EditInvRead
<1>11. ASSUME NEW g \in Goroutines, NEW e \in Endpoints, ResolveKey(g, e) PROVE EditInv'
  <2>1. \A k \in Goroutines : at[k] = "read" => at'[k] = "read" /\ got'[k] = got[k]
    BY <1>11, Zenon DEF ResolveKey, Finish, ReadInv
  <2> QED BY <1>11, <2>1, EditInvKept, PathsAssumption, Zenon DEF ResolveKey, watcherVars
<1>12. ASSUME NEW g \in Goroutines, Swap(g) PROVE EditInv'
  BY <1>12, EditInvKept, Zenon DEF Swap, watcherVars, ReadInv
<1>13. ASSUME NEW g \in Goroutines, syncSecretWatches(g) PROVE EditInv'
  BY <1>13, EditInvKept DEF syncSecretWatches, ReadInv
<1>14. ASSUME NEW g \in Goroutines, CallOnReload(g) PROVE EditInv'
  BY <1>14, EditInvKept, Zenon DEF CallOnReload, watcherVars, ReadInv
<1>15. ASSUME NEW g \in Goroutines, Publish(g) PROVE EditInv'
  <2>1. \A k \in Goroutines : at[k] = "read" => at'[k] = "read" /\ got'[k] = got[k]
    BY <1>15, Zenon DEF Publish, Finish, ReadInv
  <2> QED BY <1>15, <2>1, EditInvKept, Zenon DEF Publish, watcherVars
<1>16. ASSUME NEW g \in Goroutines, MapRace(g) PROVE EditInv'
  BY <1>16, EditInvKept, SMTT(30) DEF MapRace, watcherVars, reloadVars
<1>17. CASE UNCHANGED vars
  BY <1>17, EditInvKept DEF vars, watcherVars, reloadVars
<1> QED
  BY <1>1, <1>2, <1>3, <1>4, <1>5, <1>6, <1>7, <1>8, <1>9, <1>10, <1>11, <1>12, <1>13,
     <1>14, <1>15, <1>16, <1>17, <1>18, Zenon DEF Next, loop, reload

\* No edit of a configuration file is lost between the kernel queue, the debounce
\* timer and reloads that have already read past it, however many reloads overlap
\* (loader.go, loop and reload).
THEOREM EditsAreNotLost == Spec => []NoLostEdit
<1>1. Init => ReadInv /\ EditInv
  BY ReadInvInit, EditInvInit
<1>2. ReadInv /\ EditInv /\ [Next]_vars => (ReadInv /\ EditInv)'
  BY ReadInvNext, EditInvNext
<1>3. EditInv => NoLostEdit
  BY DEF EditInv, NoLostEdit, Awaited, Idle
<1> QED BY <1>1, <1>2, <1>3, PTL DEF Spec

-----------------------------------------------------------------------------
(* Last known good. *)

\* A configuration that passed every check, with its keys.
Good(cfg) ==
    /\ Acceptable(cfg.files)
    /\ \A e \in DOMAIN PoolsOf(cfg.files).endpoints :
          cfg.keys[e] \in Keys \union {PoolsOf(cfg.files).endpoints[e].ref}

\* What the holders other than the snapshot have.
GoodHolders ==
    /\ ValidPools(Body[live.selPools])
    /\ ValidPolicy(Body[live.policy])
    /\ ValidPricing(Body[live.selPricing]) /\ ValidPricing(Body[live.costPricing])

GoodInv ==
    /\ secret \in [Paths -> Keys \union {Unreadable}]
    /\ keys \in [Goroutines -> KeyMaps]
    /\ \A f \in Files : disk[f] \in Contents[f]
    /\ \A g \in Goroutines, f \in Files : got[g][f] \in Contents[f] \union {Unread}
    /\ DOMAIN live = Holders
    /\ \A g \in Goroutines :
          /\ at[g] \in {"sync", "call", "publish"} => Good(Loaded(g))
          /\ at[g] = "publish" => todo[g] \in Seq(Holders) /\ todo[g] # <<>>
    /\ Good(current) /\ Good(live.config)
    /\ GoodHolders

\* The seven holders by name, and the two orders they are updated in.
LEMMA HoldersAre ==
    /\ Holders = {"selPricing", "selPools", "costPricing", "policy", "caps", "registry", "config"}
    /\ HolderOrder \in Seq(Holders) /\ HolderOrder # <<>>
    /\ <<"selPricing">> \in Seq(Holders) /\ <<"selPricing">> # <<>>
<1>1. Len(HolderOrder) = 7 /\ DOMAIN HolderOrder = 1..7
  BY DEF HolderOrder
<1>2. /\ HolderOrder[1] = "selPricing" /\ HolderOrder[2] = "selPools"
      /\ HolderOrder[3] = "costPricing" /\ HolderOrder[4] = "policy"
      /\ HolderOrder[5] = "caps" /\ HolderOrder[6] = "registry" /\ HolderOrder[7] = "config"
  BY DEF HolderOrder
<1>3. \A i \in 1..7 : i = 1 \/ i = 2 \/ i = 3 \/ i = 4 \/ i = 5 \/ i = 6 \/ i = 7
  OBVIOUS
<1>4. Holders = {"selPricing", "selPools", "costPricing", "policy", "caps", "registry", "config"}
  <2>1. 1 \in 1..7 /\ 2 \in 1..7 /\ 3 \in 1..7 /\ 4 \in 1..7 /\ 5 \in 1..7 /\ 6 \in 1..7 /\ 7 \in 1..7
    OBVIOUS
  <2> QED BY <1>1, <1>2, <1>3, <2>1 DEF Holders
<1>5. HolderOrder \in Seq(Holders) /\ HolderOrder # <<>>
  BY <1>4 DEF HolderOrder
<1> QED BY <1>4, <1>5

\* An acceptable set of files is acceptable file by file.
LEMMA AcceptableParts ==
    ASSUME NEW a, Acceptable(a)
    PROVE  /\ ValidPools(Body[a["pools"]]) /\ ValidPolicy(Body[a["policy"]])
           /\ ValidPricing(Body[a["pricing"]])
           /\ Body[a["pools"]] # Unreadable
BY Zenon DEF Acceptable, AcceptsRead

\* Resolved keys are keys.
LEMMA ResolveIsKey ==
    ASSUME NEW a, NEW sec \in [Paths -> Keys \union {Unreadable}],
           a["pools"] \in Contents["pools"], PoolsOf(a) # Unreadable,
           NEW e \in DOMAIN PoolsOf(a).endpoints
    PROVE  e \in Endpoints /\ Resolve(a, sec, e) \in Keys \union {Unreadable}
BY PoolsAssumption, SMTT(30) DEF Resolve, PoolsOf

\* The configuration main starts with has been accepted.
LEMMA GoodInvInit == Init => GoodInv
<1> SUFFICES ASSUME Init PROVE GoodInv
  OBVIOUS
<1>1. PICK i \in Initial : disk = i.files /\ secret = i.secrets
  BY DEF Init
<1>2. secret \in [Paths -> Keys \union {Unreadable}] /\ \A f \in Files : disk[f] \in Contents[f]
  <2>1. i.secrets \in [Paths -> Keys] /\ \A f \in Files : i.files[f] \in Contents[f]
    BY InitialAssumption, Zenon DEF Files
  <2> QED BY <1>1, <2>1
<1>3. /\ keys \in [Goroutines -> KeyMaps]
      /\ \A g \in Goroutines, f \in Files : got[g][f] \in Contents[f] \union {Unread}
  BY DEF Init, KeyMaps, NoKeys, NothingRead
<1>4. Acceptable(disk) /\ \A e \in DOMAIN PoolsOf(disk).endpoints : Resolve(disk, secret, e) # Unreadable
  BY DEF Init, Loads
<1>5. current = [files |-> disk, keys |-> KeysOf(disk, secret)] /\ live = Wired(current)
  BY Zenon DEF Init
<1>6. Good(current)
  <2>1. current.files = disk /\ current.keys = KeysOf(disk, secret)
    BY <1>5, Zenon
  <2>2. PoolsOf(disk) # Unreadable /\ disk["pools"] \in Contents["pools"]
    BY <1>2, <1>4, AcceptableParts, Zenon DEF PoolsOf, Files
  <2>3. ASSUME NEW e \in DOMAIN PoolsOf(disk).endpoints PROVE current.keys[e] \in Keys
    <3>1. e \in Endpoints /\ Resolve(disk, secret, e) \in Keys \union {Unreadable}
      BY <1>2, <2>2, ResolveIsKey
    <3>2. KeysOf(disk, secret)[e] = Resolve(disk, secret, e)
      BY <3>1, Zenon DEF KeysOf
    <3> QED BY <1>4, <2>1, <3>1, <3>2, Zenon
  <2> QED BY <1>4, <2>1, <2>3 DEF Good
<1>7. /\ DOMAIN live = Holders /\ live.config = current
      /\ live.selPools = disk["pools"] /\ live.policy = disk["policy"]
      /\ live.selPricing = disk["pricing"] /\ live.costPricing = disk["pricing"]
  BY <1>5, HoldersAre, Zenon DEF Wired
<1>8. GoodHolders
  BY <1>4, <1>7, AcceptableParts DEF GoodHolders
<1> QED BY <1>2, <1>3, <1>6, <1>7, <1>8, ZenonT(30) DEF GoodInv, Init

\* A holder that is given a good configuration is good.
LEMMA PublishIsGood ==
    ASSUME GoodInv, NEW h \in Holders, NEW cfg, Good(cfg),
           live' = [live EXCEPT ![h] = Updated(h, cfg)]
    PROVE  DOMAIN live' = Holders /\ Good(live.config)' /\ GoodHolders'
<1>1. DOMAIN live = Holders /\ Good(live.config) /\ GoodHolders
  BY Zenon DEF GoodInv
<1>2. /\ ValidPools(Body[cfg.files["pools"]]) /\ ValidPolicy(Body[cfg.files["policy"]])
      /\ ValidPricing(Body[cfg.files["pricing"]])
  BY AcceptableParts DEF Good
<1>3. DOMAIN live' = Holders
  BY <1>1
<1>4. \A x \in Holders : live'[x] = IF x = h THEN Updated(h, cfg) ELSE live[x]
  BY <1>1, Zenon
<1>5. live'["config"] = live["config"] \/ live'["config"] = cfg
  BY <1>4, HoldersAre, Zenon DEF Updated
<1>6. live'["selPools"] = live["selPools"] \/ live'["selPools"] = cfg.files["pools"]
  BY <1>4, HoldersAre, Zenon DEF Updated
<1>7. live'["policy"] = live["policy"] \/ live'["policy"] = cfg.files["policy"]
  BY <1>4, HoldersAre, Zenon DEF Updated
<1>8. live'["selPricing"] = live["selPricing"] \/ live'["selPricing"] = cfg.files["pricing"]
  BY <1>4, HoldersAre, SMTT(30) DEF Updated
<1>9. live'["costPricing"] = live["costPricing"] \/ live'["costPricing"] = cfg.files["pricing"]
  BY <1>4, HoldersAre DEF Updated
<1>10. Good(live.config)'
  <2>1. Good(live'["config"])
    BY <1>1, <1>5, Zenon
  <2> QED BY <2>1, Zenon DEF Good, PoolsOf
<1>11. GoodHolders'
  BY <1>1, <1>2, <1>6, <1>7, <1>8, <1>9 DEF GoodHolders
<1> QED BY <1>3, <1>10, <1>11, Zenon

\* A step that changes neither a configuration nor what a reload has.
LEMMA GoodInvKept ==
    ASSUME GoodInv, secret' \in [Paths -> Keys \union {Unreadable}],
           \A f \in Files : disk'[f] \in Contents[f],
           keys' = keys, got' = got, live' = live, current' = current, todo' = todo, at' = at
    PROVE  GoodInv'
BY ZenonT(30) DEF GoodInv, GoodHolders, Good, Loaded

\* reload returns in goroutine g.
LEMMA GoodInvFinish ==
    ASSUME ReadInv, GoodInv, NEW g \in Goroutines, Finish(g), secret' = secret, disk' = disk,
           current' = current, DOMAIN live' = Holders, Good(live.config)', GoodHolders'
    PROVE  GoodInv'
<1>1. /\ at'[g] = "idle" /\ keys' \in [Goroutines -> KeyMaps]
      /\ \A f \in Files : got'[g][f] = Unread
  BY DEF Finish, ReadInv, GoodInv, NoKeys, KeyMaps, NothingRead
<1>2. ASSUME NEW k \in Goroutines, k # g
      PROVE  at'[k] = at[k] /\ got'[k] = got[k] /\ keys'[k] = keys[k] /\ todo'[k] = todo[k]
  BY <1>2 DEF Finish, ReadInv, GoodInv
<1>3. ASSUME NEW k \in Goroutines, at'[k] \in {"sync", "call", "publish"} PROVE Good(Loaded(k))'
  <2>1. k # g
    BY <1>1, <1>3
  <2>2. Good(Loaded(k))
    BY <1>2, <1>3, <2>1, ZenonT(30) DEF GoodInv
  <2> QED BY <1>2, <2>1, <2>2, Zenon DEF Good, Loaded
<1>4. ASSUME NEW k \in Goroutines, at'[k] = "publish"
      PROVE  todo'[k] \in Seq(Holders) /\ todo'[k] # <<>>
  BY <1>1, <1>2, <1>4, SMTT(30) DEF GoodInv
<1>5. \A k \in Goroutines, f \in Files : got'[k][f] \in Contents[f] \union {Unread}
  BY <1>1, <1>2, ZenonT(30) DEF GoodInv
<1>6. Good(current)'
  BY Zenon DEF GoodInv, Good
<1> QED BY <1>1, <1>3, <1>4, <1>5, <1>6, Zenon DEF GoodInv

\* A step of goroutine g within reload that leaves the holders alone.
LEMMA GoodInvStep ==
    ASSUME ReadInv, GoodInv, NEW g \in Goroutines, secret' = secret, disk' = disk,
           DOMAIN live' = Holders, Good(live.config)', GoodHolders', Good(current)',
           NEW a, NEW t, NEW m, NEW ks \in KeyMaps,
           at' = [at EXCEPT ![g] = a], todo' = [todo EXCEPT ![g] = t],
           got' = [got EXCEPT ![g] = m], keys' = [keys EXCEPT ![g] = ks],
           \A f \in Files : m[f] \in Contents[f] \union {Unread},
           a \in {"sync", "call", "publish"} => Good([files |-> m, keys |-> ks]),
           a = "publish" => t \in Seq(Holders) /\ t # <<>>
    PROVE  GoodInv'
<1>1. at'[g] = a /\ todo'[g] = t /\ got'[g] = m /\ keys'[g] = ks
  BY Zenon DEF ReadInv, GoodInv
<1>2. ASSUME NEW k \in Goroutines, k # g
      PROVE  at'[k] = at[k] /\ got'[k] = got[k] /\ keys'[k] = keys[k] /\ todo'[k] = todo[k]
  BY <1>2, Zenon DEF ReadInv, GoodInv
<1>3. ASSUME NEW k \in Goroutines, at'[k] \in {"sync", "call", "publish"} PROVE Good(Loaded(k))'
  <2>1. CASE k = g
    <3>1. Loaded(k)' = [files |-> m, keys |-> ks]
      BY <1>1, <2>1, Zenon DEF Loaded
    <3>2. Good([files |-> m, keys |-> ks])
      BY <1>1, <1>3, <2>1
    <3> QED BY <3>1, <3>2, Zenon DEF Good
  <2>2. CASE k # g
    <3>1. Good(Loaded(k))
      BY <1>2, <1>3, <2>2 DEF GoodInv
    <3> QED BY <1>2, <2>2, <3>1, ZenonT(30) DEF Good, Loaded
  <2> QED BY <2>1, <2>2
<1>4. ASSUME NEW k \in Goroutines, at'[k] = "publish"
      PROVE  todo'[k] \in Seq(Holders) /\ todo'[k] # <<>>
  BY <1>1, <1>2, <1>4, Zenon DEF GoodInv
<1>5. \A k \in Goroutines, f \in Files : got'[k][f] \in Contents[f] \union {Unread}
  BY <1>1, <1>2, SMTT(30) DEF GoodInv
<1>6. keys' \in [Goroutines -> KeyMaps]
  BY DEF GoodInv
<1> QED BY <1>3, <1>4, <1>5, <1>6, ZenonT(30) DEF GoodInv

\* The holders are as good as before.
LEMMA HoldersKept ==
    ASSUME GoodInv, live' = live
    PROVE  DOMAIN live' = Holders /\ Good(live.config)' /\ GoodHolders'
BY Zenon DEF GoodInv, GoodHolders, Good

\* The tail of a sequence of two or more is not empty.
LEMMA LongTail ==
    ASSUME NEW S, NEW q \in Seq(S), Len(q) > 1
    PROVE  Tail(q) # <<>>
<1>1. q # <<>>
  OBVIOUS
<1> DEFINE n == Len(q)
           l == Len(Tail(q))
<1>2. l = n - 1 /\ n \in Nat /\ n > 1
  BY <1>1, HeadTailProperties
<1> HIDE DEF n, l
<1>3. l # 0
  BY <1>2
<1>4. Len(<<>>) = 0
  OBVIOUS
<1>5. Tail(q) = <<>> => l = 0
  BY <1>4, Zenon DEF l
<1> QED BY <1>3, <1>5

\* Writing back what a goroutine has changes nothing.
LEMMA SelfUpdate ==
    ASSUME ReadInv, GoodInv, NEW g \in Goroutines
    PROVE  /\ todo = [todo EXCEPT ![g] = todo[g]] /\ got = [got EXCEPT ![g] = got[g]]
           /\ keys = [keys EXCEPT ![g] = keys[g]] /\ at = [at EXCEPT ![g] = at[g]]
BY DEF ReadInv, GoodInv

\* What the registry has does not touch the other holders.
LEMMA RegistryApart ==
    ASSUME GoodInv, NEW teams, live' = [live EXCEPT !["registry"] = teams]
    PROVE  DOMAIN live' = Holders /\ Good(live.config)' /\ GoodHolders'
<1>1. DOMAIN live = Holders /\ Good(live.config) /\ GoodHolders
  BY DEF GoodInv
<1>2. DOMAIN live' = Holders /\ \A x \in Holders : x # "registry" => live'[x] = live[x]
  BY <1>1
<1>3. /\ live'["config"] = live["config"] /\ live'["selPools"] = live["selPools"]
      /\ live'["policy"] = live["policy"] /\ live'["selPricing"] = live["selPricing"]
      /\ live'["costPricing"] = live["costPricing"]
  BY <1>2, HoldersAre
<1>4. Good(live.config)'
  <2>1. Good(live'["config"])
    BY <1>1, <1>3
  <2> QED BY <2>1, Zenon DEF Good, PoolsOf
<1>5. GoodHolders'
  BY <1>1, <1>3, Zenon DEF GoodHolders
<1> QED BY <1>2, <1>4, <1>5, Zenon

\* Only accepted contents go from one place to the next.
LEMMA GoodInvNext == ReadInv /\ GoodInv /\ [Next]_vars => GoodInv'
<1> SUFFICES ASSUME ReadInv, GoodInv, [Next]_vars PROVE GoodInv'
  OBVIOUS
<1>0. /\ secret \in [Paths -> Keys \union {Unreadable}]
      /\ \A f \in Files : disk[f] \in Contents[f]
      /\ Good(current)
      /\ \A g \in Goroutines : keys[g] \in KeyMaps
      /\ \A g \in Goroutines, f \in Files : got[g][f] \in Contents[f] \union {Unread}
  BY Zenon DEF GoodInv
<1>1. ASSUME NEW f \in Files, NEW c \in Contents[f], EditFile(f, c) PROVE GoodInv'
  BY <1>0, <1>1, GoodInvKept, SMTT(30) DEF EditFile, ReadInv, reloadVars
<1>2. ASSUME NEW p \in Paths, NEW k \in Keys, WriteSecret(p, k) PROVE GoodInv'
  BY <1>0, <1>2, GoodInvKept, ZenonT(30) DEF WriteSecret, reloadVars
<1>3. ASSUME NEW p \in Paths, NEW k \in Keys \union {Unreadable}, ReplaceSecret(p, k)
      PROVE  GoodInv'
  BY <1>0, <1>3, GoodInvKept, Zenon DEF ReplaceSecret, reloadVars
<1>4. CASE TriggerReload
  BY <1>0, <1>4, GoodInvKept, Zenon DEF TriggerReload, reloadVars
<1>5. CASE Start
  BY <1>0, <1>5, GoodInvKept DEF Start, reloadVars
<1>6. CASE OnReload
  BY <1>0, <1>6, GoodInvKept, Zenon DEF OnReload, reloadVars
<1>18. CASE rebuildTeamRegistry
  <2>1. /\ live' = [live EXCEPT !["registry"] = startup.files["teams"]]
        /\ secret' = secret /\ disk' = disk /\ current' = current
        /\ keys' = keys /\ got' = got /\ todo' = todo /\ at' = at
    BY <1>18, Zenon DEF rebuildTeamRegistry, reloadVars
  <2>2. DOMAIN live' = Holders /\ Good(live.config)' /\ GoodHolders'
    BY <2>1, RegistryApart, Zenon
  <2> QED BY <1>0, <2>1, <2>2, ZenonT(30) DEF GoodInv, Good, Loaded
<1>7. CASE HandleTrigger
  BY <1>0, <1>7, GoodInvKept, ZenonT(30) DEF HandleTrigger, reloadVars
<1>8. ASSUME NEW n \in Files \union Paths, HandleEvent(n) PROVE GoodInv'
  BY <1>0, <1>8, GoodInvKept DEF HandleEvent, reloadVars
<1>9. ASSUME NEW g \in Goroutines, Expire(g) PROVE GoodInv'
  <2>1. Good(current)'
    BY <1>0, <1>9, Zenon DEF Expire, Good
  <2>2. got' = [got EXCEPT ![g] = got[g]] /\ keys' = [keys EXCEPT ![g] = keys[g]]
    BY <1>9, Zenon DEF Expire, ReadInv, GoodInv
  <2> QED BY <1>0, <1>9, <2>1, <2>2, GoodInvStep, HoldersKept, ZenonT(30) DEF Expire
<1>10. ASSUME NEW g \in Goroutines, ReadFile(g) PROVE GoodInv'
  <2> DEFINE f == Head(todo[g])
             files == [got[g] EXCEPT ![f] = disk[f]]
  <2>1. PICK i \in 1..6 : ReadTo(g, i)
    BY <1>10 DEF ReadInv, StepInv, ReadFile
  <2>2. f \in Files /\ got[g] \in FileMaps
    BY <2>1, HeadIs, Zenon DEF ReadInv
  <2>3. \A h \in Files : files[h] \in Contents[h] \union {Unread}
    <3> HIDE DEF f
    <3> QED BY <1>0, <2>2 DEF FileMaps
  <2>4. /\ Good(current)' /\ Good(live.config)' /\ GoodHolders' /\ DOMAIN live' = Holders
        /\ live' = live /\ current' = current /\ disk' = disk /\ secret' = secret
    BY <1>10, Zenon DEF ReadFile, GoodInv, Good, GoodHolders
  <2>5. CASE AcceptsRead(f, files)
    <3>1. /\ got' = [got EXCEPT ![g] = files]
          /\ todo' = [todo EXCEPT ![g] = Tail(todo[g])]
          /\ at' = [at EXCEPT ![g] = IF Len(todo[g]) = 1 THEN "resolve" ELSE "read"]
          /\ keys' = keys
      BY <1>10, <2>5, Zenon DEF ReadFile
    <3>2. keys' = [keys EXCEPT ![g] = keys[g]] /\ keys[g] \in KeyMaps
      BY <1>0, <3>1 DEF GoodInv
    <3> DEFINE a == IF Len(todo[g]) = 1 THEN "resolve" ELSE "read"
           t == Tail(todo[g])
    <3>3. /\ a \notin {"sync", "call", "publish"} /\ a # "publish"
          /\ at' = [at EXCEPT ![g] = a] /\ todo' = [todo EXCEPT ![g] = t]
      BY <3>1
    <3>4. got' = [got EXCEPT ![g] = files]
      BY <3>1
    <3>5. /\ secret' = secret /\ disk' = disk /\ DOMAIN live' = Holders
          /\ Good(live.config)' /\ GoodHolders' /\ Good(current)'
      BY <2>4
    <3> HIDE DEF f, files, a, t
    <3> QED BY <2>3, <3>2, <3>3, <3>4, <3>5, GoodInvStep, Zenon
  <2>6. CASE ~AcceptsRead(f, files)
    <3>1. Finish(g)
      BY <1>10, <2>6 DEF ReadFile
    <3> QED BY <2>4, <3>1, GoodInvFinish, Zenon
  <2> QED BY <2>5, <2>6, Zenon
<1>11. ASSUME NEW g \in Goroutines, NEW e \in Endpoints, ResolveKey(g, e) PROVE GoodInv'
  <2> DEFINE key == Resolve(got[g], secret, e)
  <2>1. /\ Good(current)' /\ Good(live.config)' /\ GoodHolders' /\ DOMAIN live' = Holders
        /\ live' = live /\ current' = current /\ disk' = disk /\ secret' = secret
    BY <1>11, Zenon DEF ResolveKey, GoodInv, Good, GoodHolders
  <2>2. CASE key = Unreadable
    BY <1>11, <2>1, <2>2, GoodInvFinish, Zenon DEF ResolveKey
  <2>3. CASE key # Unreadable
    <3>1. keys' = [keys EXCEPT ![g][e] = key] /\ at' = at /\ todo' = todo /\ got' = got
      BY <1>11, <2>3 DEF ResolveKey
    <3>2. Acceptable(got[g]) /\ got[g]["pools"] \in Contents["pools"]
      BY <1>0, <1>11, Zenon DEF ResolveKey, ReadInv, StepInv, Files
    <3>3. PoolsOf(got[g]) # Unreadable
      BY <3>2, AcceptableParts, Zenon DEF PoolsOf
    <3>4. key \in Keys
      BY <1>0, <1>11, <2>3, <3>2, <3>3, ResolveIsKey, Zenon DEF ResolveKey, Unresolved
    <3>5. [keys[g] EXCEPT ![e] = key] \in KeyMaps
      BY <1>0, <3>4, ZenonT(30) DEF KeyMaps
    <3>6. /\ keys' = [keys EXCEPT ![g] = [keys[g] EXCEPT ![e] = key]]
          /\ at' = [at EXCEPT ![g] = at[g]] /\ todo' = [todo EXCEPT ![g] = todo[g]]
          /\ got' = [got EXCEPT ![g] = got[g]]
      BY <3>1, SelfUpdate DEF GoodInv
    <3>7. at[g] = "resolve"
      BY <1>11, Zenon DEF ResolveKey
    <3> HIDE DEF key
    <3> QED BY <1>0, <2>1, <3>5, <3>6, <3>7, GoodInvStep, HoldersKept, Zenon
  <2> QED BY <2>2, <2>3
<1>12. ASSUME NEW g \in Goroutines, Swap(g) PROVE GoodInv'
  <2>1. Acceptable(got[g]) /\ got[g]["pools"] \in Contents["pools"]
    BY <1>0, <1>12, Zenon DEF Swap, ReadInv, StepInv, Files
  <2>2. PoolsOf(got[g]) # Unreadable
    BY <2>1, AcceptableParts, SMTT(30) DEF PoolsOf
  <2>3. ASSUME NEW e \in DOMAIN PoolsOf(got[g]).endpoints PROVE keys[g][e] \in Keys
    <3>1. e \in Endpoints
      BY <1>0, <2>1, <2>2, ResolveIsKey, Zenon
    <3>2. keys[g][e] # Unread
      BY <1>12, Zenon DEF Swap, Unresolved
    <3> QED BY <1>0, <3>1, <3>2, ZenonT(30) DEF KeyMaps
  <2>4. Good([files |-> got[g], keys |-> keys[g]])
    BY <2>1, <2>3, Zenon DEF Good
  <2>5. current' = [files |-> got[g], keys |-> keys[g]]
    BY <1>12, Zenon DEF Swap, Loaded
  <2>6. Good(current)'
    BY <2>4, <2>5, Zenon DEF Good
  <2>7. /\ todo' = [todo EXCEPT ![g] = todo[g]] /\ got' = [got EXCEPT ![g] = got[g]]
        /\ keys' = [keys EXCEPT ![g] = keys[g]] /\ at' = [at EXCEPT ![g] = "sync"]
        /\ secret' = secret /\ disk' = disk /\ live' = live
    BY <1>12, SelfUpdate DEF Swap
  <2> QED BY <1>0, <2>4, <2>6, <2>7, GoodInvStep, HoldersKept, Zenon
<1>13. ASSUME NEW g \in Goroutines, syncSecretWatches(g) PROVE GoodInv'
  <2>1. Good([files |-> got[g], keys |-> keys[g]]) /\ Good(current)'
    BY <1>0, <1>13, Zenon DEF syncSecretWatches, GoodInv, Loaded, Good
  <2>2. /\ todo' = [todo EXCEPT ![g] = todo[g]] /\ got' = [got EXCEPT ![g] = got[g]]
        /\ keys' = [keys EXCEPT ![g] = keys[g]] /\ at' = [at EXCEPT ![g] = "call"]
        /\ secret' = secret /\ disk' = disk /\ live' = live
    BY <1>13, SelfUpdate DEF syncSecretWatches
  <2> QED BY <1>0, <2>1, <2>2, GoodInvStep, HoldersKept, Zenon
<1>14. ASSUME NEW g \in Goroutines, CallOnReload(g) PROVE GoodInv'
  <2> DEFINE t == IF Registered THEN HolderOrder ELSE <<"selPricing">>
  <2>1. Good([files |-> got[g], keys |-> keys[g]]) /\ Good(current)'
    BY <1>0, <1>14, Zenon DEF CallOnReload, GoodInv, Loaded, Good
  <2>2. /\ todo' = [todo EXCEPT ![g] = t] /\ got' = [got EXCEPT ![g] = got[g]]
        /\ keys' = [keys EXCEPT ![g] = keys[g]] /\ at' = [at EXCEPT ![g] = "publish"]
        /\ secret' = secret /\ disk' = disk /\ live' = live
    BY <1>14, SelfUpdate, Zenon DEF CallOnReload
  <2>3. t \in Seq(Holders) /\ t # <<>>
    BY HoldersAre, Zenon
  <2> HIDE DEF t
  <2> QED BY <1>0, <2>1, <2>2, <2>3, GoodInvStep, HoldersKept, Zenon
<1>15. ASSUME NEW g \in Goroutines, Publish(g) PROVE GoodInv'
  <2>1. Good(Loaded(g)) /\ todo[g] \in Seq(Holders) /\ todo[g] # <<>>
    BY <1>15, ZenonT(30) DEF Publish, GoodInv
  <2>2. Head(todo[g]) \in Holders /\ Tail(todo[g]) \in Seq(Holders)
    BY <2>1
  <2>3. live' = [live EXCEPT ![Head(todo[g])] = Updated(Head(todo[g]), Loaded(g))]
    BY <1>15 DEF Publish
  <2>4. DOMAIN live' = Holders /\ Good(live.config)' /\ GoodHolders'
    BY <2>1, <2>2, <2>3, PublishIsGood, Zenon
  <2>5. current' = current /\ disk' = disk /\ secret' = secret /\ Good(current)'
    BY <1>0, <1>15, Zenon DEF Publish, Good
  <2>6. CASE Len(todo[g]) > 1
    <3>1. /\ todo' = [todo EXCEPT ![g] = Tail(todo[g])] /\ got' = [got EXCEPT ![g] = got[g]]
          /\ keys' = [keys EXCEPT ![g] = keys[g]] /\ at' = [at EXCEPT ![g] = at[g]]
      <4>1. todo' = [todo EXCEPT ![g] = Tail(todo[g])] /\ at' = at /\ got' = got /\ keys' = keys
        BY <1>15, <2>6 DEF Publish
      <4> QED BY <4>1, SelfUpdate, Zenon
    <3>2. Tail(todo[g]) # <<>>
      BY <2>1, <2>6, LongTail, Zenon
    <3>3. Good([files |-> got[g], keys |-> keys[g]])
      BY <2>1 DEF Loaded
    <3> QED BY <1>0, <2>2, <2>4, <2>5, <3>1, <3>2, <3>3, GoodInvStep, Zenon
  <2>7. CASE ~(Len(todo[g]) > 1)
    <3>1. Finish(g)
      BY <1>15, <2>7, Zenon DEF Publish
    <3> QED BY <2>4, <2>5, <3>1, GoodInvFinish, Zenon
  <2> QED BY <2>6, <2>7, SMTT(30)
<1>16. ASSUME NEW g \in Goroutines, MapRace(g) PROVE GoodInv'
  BY <1>0, <1>16, GoodInvKept, Zenon DEF MapRace, reloadVars
<1>17. CASE UNCHANGED vars
  BY <1>0, <1>17, GoodInvKept, Zenon DEF vars, reloadVars
<1> QED
  BY <1>1, <1>2, <1>3, <1>4, <1>5, <1>6, <1>7, <1>8, <1>9, <1>10, <1>11, <1>12, <1>13,
     <1>14, <1>15, <1>16, <1>17, <1>18, Zenon DEF Next, loop, reload

\* Whatever is edited and however reloads interleave, the gateway only ever runs on
\* configurations that passed every check (loader.go, reload: a failure keeps the old
\* configuration).
THEOREM ConfigurationsAreGood == Spec => []LastKnownGood
<1>1. Init => ReadInv /\ GoodInv
  BY ReadInvInit, GoodInvInit
<1>2. ReadInv /\ GoodInv /\ [Next]_vars => (ReadInv /\ GoodInv)'
  BY ReadInvNext, GoodInvNext
<1>3. GoodInv => LastKnownGood
  BY Zenon DEF GoodInv, LastKnownGood, Good, GoodHolders
<1> QED BY <1>1, <1>2, <1>3, PTL DEF Spec

-----------------------------------------------------------------------------
(* One configuration. *)

\* Holder h has its part of cfg.
Has(h, cfg) == live[h] = Updated(h, cfg)

Late == {"sync", "call", "publish"}

\* g still has the holders from the i-th on to update.
PublishFrom(g, i) ==
    /\ todo[g] \in Seq(Holders) /\ Len(todo[g]) = 8 - i
    /\ \A k \in 1..(8 - i) : todo[g][k] = HolderOrder[i + k - 1]
    /\ \A j \in 1..7 : j < i => Has(HolderOrder[j], current)

\* While no two reloads overlap, none runs before the full callback is registered, and
\* main does not put back the teams of one.
Undisturbed == disturbed \subseteq {"missing secret"}

UniInv ==
    Undisturbed =>
        /\ \A g, k \in Goroutines : g # k => at[g] = "idle" \/ at[k] = "idle"
        /\ \A g \in Goroutines : at[g] \in Late => Loaded(g) = current
        /\ \A g \in Goroutines : at[g] = "publish" => \E i \in 1..7 : PublishFrom(g, i)
        /\ (\A g \in Goroutines : at[g] \notin Late) => \A h \in Holders : Has(h, current)

\* The publication goes through all holders.
LEMMA HolderOrderIs ==
    /\ Len(HolderOrder) = 7
    /\ \A h \in Holders : \E j \in 1..7 : HolderOrder[j] = h
    /\ \A j \in 1..7 : HolderOrder[j] \in Holders
<1>1. Len(HolderOrder) = 7 /\ DOMAIN HolderOrder = 1..7
  BY DEF HolderOrder
<1> HIDE DEF HolderOrder
<1> QED BY <1>1 DEF Holders

\* Every holder has its part exactly when the configuration is uniform.
LEMMA UniformIs ==
    ASSUME NEW cfg
    PROVE  (\A h \in Holders : Has(h, cfg)) <=> Uniform(cfg)
BY HoldersAre, Zenon DEF Has, Updated, Uniform

\* Setting the caps of the same teams twice changes nothing more.
LEMMA CapsAgain ==
    ASSUME NEW caps, NEW teams
    PROVE  SetTeamCaps(SetTeamCaps(caps, teams), teams) = SetTeamCaps(caps, teams)
BY DEF SetTeamCaps

\* Initially all holders have the current configuration.
LEMMA UniInvInit == Init => UniInv
<1> SUFFICES ASSUME Init PROVE UniInv
  OBVIOUS
<1>1. live = Wired(current)
  BY Zenon DEF Init
<1>2. /\ live["selPricing"] = current.files["pricing"] /\ live["selPools"] = current.files["pools"]
      /\ live["costPricing"] = current.files["pricing"] /\ live["policy"] = current.files["policy"]
      /\ live["caps"] = SetTeamCaps([t \in Teams |-> Nil], Body[current.files["teams"]])
      /\ live["registry"] = current.files["teams"] /\ live["config"] = current
  BY <1>1 DEF Wired
<1>3. SetTeamCaps(live["caps"], Body[current.files["teams"]]) = live["caps"]
  <2> DEFINE none == [t \in Teams |-> Nil]
             now == Body[current.files["teams"]]
  <2>1. live["caps"] = SetTeamCaps(none, now)
    BY <1>2, Zenon
  <2> HIDE DEF none, now
  <2>2. SetTeamCaps(live["caps"], now) = live["caps"]
    BY <2>1, CapsAgain, ZenonT(30)
  <2> QED BY <2>2, Zenon DEF now
<1>4. Uniform(current)
  BY <1>2, <1>3, ZenonT(30) DEF Uniform
<1> QED BY <1>4, UniformIs DEF Init, UniInv, Late

\* A holder that has been given its part has it, and the others keep theirs.
LEMMA PublishGives ==
    ASSUME GoodInv, NEW h \in Holders, NEW cfg,
           live' = [live EXCEPT ![h] = Updated(h, cfg)]
    PROVE  /\ live'[h] = Updated(h, cfg)'
           /\ \A x \in Holders : x # h /\ live[x] = Updated(x, cfg) => live'[x] = Updated(x, cfg)'
BY CapsAgain, HoldersAre, SMTT(30) DEF GoodInv, Updated

\* A step that leaves what is published alone.
LEMMA UniInvKept ==
    ASSUME UniInv, disturbed \subseteq disturbed', at' = at, todo' = todo, got' = got, keys' = keys,
           \A x \in Holders : live'[x] = live[x], current' = current
    PROVE  UniInv'
<1> SUFFICES ASSUME Undisturbed' PROVE UniInv'
  BY ZenonT(30) DEF UniInv
<1>1. Undisturbed
  BY Zenon DEF Undisturbed
<1>2. \A h \in Holders : Has(h, current) => Has(h, current)'
  BY HoldersAre, Zenon DEF Has, Updated
<1>3. \A g : Loaded(g)' = Loaded(g)
  BY Zenon DEF Loaded
<1>4. \A g, i : PublishFrom(g, i) => PublishFrom(g, i)'
  BY <1>2, HolderOrderIs DEF PublishFrom
<1>5. /\ \A g, k \in Goroutines : g # k => at'[g] = "idle" \/ at'[k] = "idle"
      /\ \A g \in Goroutines : at'[g] \in Late => Loaded(g)' = current'
  BY <1>1, <1>3, Zenon DEF UniInv
<1>6. \A g \in Goroutines : at'[g] = "publish" => \E i \in 1..7 : PublishFrom(g, i)'
  BY <1>1, <1>4, Zenon DEF UniInv
<1>7. (\A g \in Goroutines : at'[g] \notin Late) => \A h \in Holders : Has(h, current)'
  BY <1>1, <1>2, Zenon DEF UniInv
<1> QED BY <1>5, <1>6, <1>7, ZenonT(30) DEF UniInv, Late

\* A step of goroutine g to a step before the swap, or to its end before it.
LEMMA UniInvEarly ==
    ASSUME ReadInv, UniInv, NEW g \in Goroutines, NEW a \in {"idle", "read", "resolve"},
           disturbed \subseteq disturbed', at[g] \notin Late,
           at' = [at EXCEPT ![g] = a],
           Undisturbed' => \A k \in Goroutines \ {g} : at[k] = "idle",
           live' = live, current' = current
    PROVE  UniInv'
<1> SUFFICES ASSUME Undisturbed' PROVE UniInv'
  BY DEF UniInv
<1>1. Undisturbed
  BY Zenon DEF Undisturbed
<1>2. at'[g] = a /\ \A k \in Goroutines \ {g} : at'[k] = "idle" /\ at[k] = "idle"
  BY DEF ReadInv
<1>3. \A k \in Goroutines : at'[k] \notin Late /\ at[k] \notin Late
  BY <1>2, Zenon DEF Late
<1>4. \A h \in Holders : Has(h, current)
  BY <1>1, <1>3 DEF UniInv
<1>5. \A h \in Holders : Has(h, current)'
  BY <1>4, Zenon DEF Has, Updated
<1>6. \A x, y \in Goroutines : x # y => at'[x] = "idle" \/ at'[y] = "idle"
  BY <1>2
<1>7. \A k \in Goroutines : at'[k] # "publish"
  BY <1>3 DEF Late
<1> QED BY <1>3, <1>5, <1>6, <1>7, Zenon DEF UniInv

\* The others are idle while g runs.
LEMMA Alone ==
    ASSUME UniInv, Undisturbed, NEW g \in Goroutines, at[g] # "idle"
    PROVE  \A k \in Goroutines \ {g} : at[k] = "idle"
BY Zenon DEF UniInv

\* A step of goroutine g between the swap and the end of the callback.
LEMMA UniInvLate ==
    ASSUME ReadInv, UniInv, NEW g \in Goroutines, NEW a \in Late, at[g] # "idle",
           disturbed \subseteq disturbed',
           at' = [at EXCEPT ![g] = a],
           Undisturbed' => Loaded(g)' = current',
           Undisturbed' /\ a = "publish" => \E i \in 1..7 : PublishFrom(g, i)'
    PROVE  UniInv'
<1> SUFFICES ASSUME Undisturbed' PROVE UniInv'
  BY DEF UniInv
<1>1. Undisturbed
  BY Zenon DEF Undisturbed
<1>2. \A k \in Goroutines \ {g} : at[k] = "idle"
  BY <1>1, Alone, Zenon
<1>3. at'[g] = a /\ \A k \in Goroutines \ {g} : at'[k] = "idle"
  BY <1>2, Zenon DEF ReadInv
<1>4. \A k \in Goroutines : at'[k] \in Late => k = g
  BY <1>3 DEF Late
<1>5. \A x, y \in Goroutines : x # y => at'[x] = "idle" \/ at'[y] = "idle"
  BY <1>3, Zenon
<1>6. \A k \in Goroutines : at'[k] = "publish" => k = g /\ a = "publish"
  BY <1>3
<1>7. ~(\A k \in Goroutines : at'[k] \notin Late)
  BY <1>3
<1>8. \A k \in Goroutines : at'[k] \in Late => Loaded(k)' = current'
  BY <1>4
<1>9. \A k \in Goroutines : at'[k] = "publish" => \E i \in 1..7 : PublishFrom(k, i)'
  BY <1>6
<1> QED BY <1>5, <1>7, <1>8, <1>9, Zenon DEF UniInv

\* A publication that nothing disturbs brings one more holder in line.
LEMMA UniInvPublish ==
    ASSUME ReadInv, GoodInv, UniInv, NEW g \in Goroutines, Publish(g)
    PROVE  UniInv'
<1> SUFFICES ASSUME Undisturbed' PROVE UniInv'
  BY Zenon DEF UniInv
<1>1. /\ Undisturbed /\ at[g] = "publish" /\ at[g] \in Late /\ at[g] # "idle"
      /\ disturbed' = disturbed /\ current' = current
  BY Zenon DEF Undisturbed, Publish, Late
<1>2. Loaded(g) = current
  BY <1>1, Zenon DEF UniInv
<1>3. PICK i \in 1..7 : PublishFrom(g, i)
  BY <1>1 DEF UniInv
<1>4. PICK c : c = current
  OBVIOUS
<1>5. todo[g] # <<>> /\ Head(todo[g]) = HolderOrder[i] /\ Head(todo[g]) \in Holders
  BY <1>3, HolderOrderIs DEF PublishFrom
<1>6. live' = [live EXCEPT ![HolderOrder[i]] = Updated(HolderOrder[i], c)]
  BY <1>2, <1>4, <1>5, Zenon DEF Publish
<1>7. HolderOrder[i] \in Holders
  BY HolderOrderIs
<1>8. /\ live'[HolderOrder[i]] = Updated(HolderOrder[i], c)'
      /\ \A x \in Holders : x # HolderOrder[i] /\ live[x] = Updated(x, c) =>
                             live'[x] = Updated(x, c)'
  BY <1>6, <1>7, PublishGives, Zenon
<1>9. ASSUME NEW j \in 1..7, j < i + 1 PROVE Has(HolderOrder[j], current)'
  <2>1. CASE j = i
    BY <1>1, <1>4, <1>8, <2>1, Zenon DEF Has
  <2>2. CASE j # i
    <3>1. live[HolderOrder[j]] = Updated(HolderOrder[j], c)
      <4>1. j < i
        BY <1>9, <2>2
      <4>2. Has(HolderOrder[j], current)
        BY <1>3, <4>1 DEF PublishFrom
      <4> QED BY <1>4, <4>2 DEF Has
    <3>2. HolderOrder[j] \in Holders
      BY HolderOrderIs, Zenon
    <3>3. live'[HolderOrder[j]] = Updated(HolderOrder[j], c)'
      <4>1. CASE HolderOrder[j] = HolderOrder[i]
        BY <1>8, <4>1, Zenon
      <4>2. CASE HolderOrder[j] # HolderOrder[i]
        BY <1>8, <3>1, <3>2, <4>2, Zenon
      <4> QED BY <4>1, <4>2
    <3> QED BY <1>1, <1>4, <3>3, Zenon DEF Has
  <2> QED BY <2>1, <2>2, Zenon
<1>10. CASE Len(todo[g]) > 1
  <2>1. /\ todo' = [todo EXCEPT ![g] = Tail(todo[g])] /\ at' = at /\ got' = got /\ keys' = keys
    BY <1>10, Zenon DEF Publish
  <2>2. at' = [at EXCEPT ![g] = "publish"] /\ Loaded(g)' = current'
    BY <1>1, <1>2, <2>1, Zenon DEF ReadInv, Loaded
  <2>3. todo'[g] = Tail(todo[g])
    BY <2>1, Zenon DEF ReadInv
  <2>4. i < 7
    BY <1>3, <1>10 DEF PublishFrom
  <2>5. /\ Tail(todo[g]) \in Seq(Holders) /\ Len(Tail(todo[g])) = 8 - (i + 1)
        /\ \A k \in 1..(8 - (i + 1)) : Tail(todo[g])[k] = HolderOrder[(i + 1) + k - 1]
    <3> DEFINE q == todo[g]
    <3>1. /\ q \in Seq(Holders) /\ q # <<>> /\ Len(q) = 8 - i
          /\ \A k \in 1..(8 - i) : q[k] = HolderOrder[i + k - 1]
      BY <1>3, <1>5, Zenon DEF PublishFrom
    <3> HIDE DEF q, Holders, HolderOrder
    <3>2. /\ Tail(q) \in Seq(Holders) /\ Len(Tail(q)) = Len(q) - 1
          /\ \A k \in 1..Len(Tail(q)) : Tail(q)[k] = q[k + 1]
      BY <3>1, HeadTailProperties, Zenon
    <3>3. \A k \in 1..(8 - (i + 1)) : Tail(q)[k] = HolderOrder[(i + 1) + k - 1]
      BY <3>1, <3>2
    <3>4. Len(Tail(q)) = 8 - (i + 1)
      BY <3>1, <3>2, SMTT(30)
    <3> QED BY <3>2, <3>3, <3>4, Zenon DEF q
  <2>6. PublishFrom(g, i + 1)'
    BY <1>9, <2>3, <2>5 DEF PublishFrom
  <2>7. i + 1 \in 1..7
    BY <2>4
  <2>8. \E n \in 1..7 : PublishFrom(g, n)'
    BY <2>6, <2>7
  <2>9. "publish" \in Late
    BY DEF Late
  <2> QED BY <1>1, <2>2, <2>8, <2>9, UniInvLate, Zenon
<1>11. CASE ~(Len(todo[g]) > 1)
  <2>1. at' = [at EXCEPT ![g] = "idle"]
    BY <1>11, Zenon DEF Publish, Finish
  <2>2. i = 7
    BY <1>3, <1>11 DEF PublishFrom
  <2>3. \A h \in Holders : Has(h, current)'
    <3> SUFFICES ASSUME NEW h \in Holders PROVE Has(h, current)'
      OBVIOUS
    <3>1. PICK j \in 1..7 : HolderOrder[j] = h
      BY HolderOrderIs, Zenon
    <3> QED BY <1>9, <2>2, <3>1
  <2>4. \A k \in Goroutines : at'[k] = "idle"
    BY <1>1, <2>1, Alone DEF ReadInv
  <2> QED BY <2>3, <2>4, Zenon DEF UniInv, Late
<1> QED BY <1>10, <1>11

\* Undisturbed, no step takes a holder out of line.
LEMMA UniInvNext == ReadInv /\ GoodInv /\ UniInv /\ [Next]_vars => UniInv'
<1> SUFFICES ASSUME ReadInv, GoodInv, UniInv, [Next]_vars PROVE UniInv'
  OBVIOUS
<1>1. ASSUME NEW f \in Files, NEW c \in Contents[f], EditFile(f, c) PROVE UniInv'
  BY <1>1, UniInvKept, Zenon DEF EditFile, reloadVars
<1>2. ASSUME NEW p \in Paths, NEW k \in Keys, WriteSecret(p, k) PROVE UniInv'
  BY <1>2, UniInvKept, Zenon DEF WriteSecret, reloadVars
<1>3. ASSUME NEW p \in Paths, NEW k \in Keys \union {Unreadable}, ReplaceSecret(p, k)
      PROVE  UniInv'
  BY <1>3, UniInvKept, Zenon DEF ReplaceSecret, reloadVars
<1>4. CASE TriggerReload
  BY <1>4, UniInvKept, Zenon DEF TriggerReload, reloadVars
<1>5. CASE Start
  BY <1>5, UniInvKept, Zenon DEF Start, reloadVars
<1>6. CASE OnReload
  BY <1>6, UniInvKept, Zenon DEF OnReload, reloadVars
<1>18. CASE rebuildTeamRegistry
  <2>1. /\ live' = [live EXCEPT !["registry"] = startup.files["teams"]]
        /\ live["registry"] # startup.files["teams"] => "registry reset" \in disturbed'
        /\ disturbed \subseteq disturbed' /\ current' = current
        /\ keys' = keys /\ got' = got /\ todo' = todo /\ at' = at
    BY <1>18, Zenon DEF rebuildTeamRegistry, reloadVars
  <2>2. CASE live["registry"] = startup.files["teams"]
    <3>1. \A x \in Holders : live'[x] = live[x]
      BY <2>1, <2>2, ZenonT(30) DEF GoodInv
    <3> QED BY <2>1, <3>1, UniInvKept, ZenonT(30)
  <2>3. CASE live["registry"] # startup.files["teams"]
    BY <2>1, <2>3, Zenon DEF UniInv, Undisturbed
  <2> QED BY <2>2, <2>3
<1>7. CASE HandleTrigger
  BY <1>7, UniInvKept, Zenon DEF HandleTrigger, reloadVars
<1>8. ASSUME NEW n \in Files \union Paths, HandleEvent(n) PROVE UniInv'
  BY <1>8, UniInvKept DEF HandleEvent, reloadVars
<1>9. ASSUME NEW g \in Goroutines, Expire(g) PROVE UniInv'
  <2>1. /\ at[g] = "idle" /\ at[g] \notin Late /\ at' = [at EXCEPT ![g] = "read"]
        /\ disturbed \subseteq disturbed' /\ live' = live /\ current' = current
    BY <1>9 DEF Expire, Late
  <2>2. Undisturbed' => \A k \in Goroutines \ {g} : at[k] = "idle"
    BY <1>9, Zenon DEF Expire, Undisturbed
  <2> QED BY <2>1, <2>2, UniInvEarly, Zenon
<1>10. ASSUME NEW g \in Goroutines, ReadFile(g) PROVE UniInv'
  <2>1. /\ at[g] = "read" /\ at[g] \notin Late /\ at[g] # "idle"
        /\ disturbed' = disturbed /\ live' = live /\ current' = current
    BY <1>10, Zenon DEF ReadFile, Late
  <2>2. \E a \in {"idle", "read", "resolve"} : at' = [at EXCEPT ![g] = a]
    BY <1>10 DEF ReadFile, Finish
  <2>3. Undisturbed' => \A k \in Goroutines \ {g} : at[k] = "idle"
    BY <2>1, Alone, Zenon DEF Undisturbed
  <2> QED BY <2>1, <2>2, <2>3, UniInvEarly, Zenon
<1>11. ASSUME NEW g \in Goroutines, NEW e \in Endpoints, ResolveKey(g, e) PROVE UniInv'
  <2>1. /\ at[g] = "resolve" /\ at[g] \notin Late /\ at[g] # "idle"
        /\ disturbed \subseteq disturbed' /\ live' = live /\ current' = current
    BY <1>11, Zenon DEF ResolveKey, Late
  <2>2. \E a \in {"idle", "read", "resolve"} : at' = [at EXCEPT ![g] = a]
    BY <1>11, <2>1, Zenon DEF ResolveKey, Finish, ReadInv
  <2>3. Undisturbed' => \A k \in Goroutines \ {g} : at[k] = "idle"
    BY <2>1, Alone, Zenon DEF Undisturbed
  <2> QED BY <2>1, <2>2, <2>3, UniInvEarly, Zenon
<1>12. ASSUME NEW g \in Goroutines, Swap(g) PROVE UniInv'
  <2>1. /\ at[g] # "idle" /\ at' = [at EXCEPT ![g] = "sync"] /\ disturbed' = disturbed
        /\ "sync" \in Late /\ Loaded(g)' = current'
    BY <1>12, Zenon DEF Swap, Late, Loaded
  <2> QED BY <2>1, UniInvLate, Zenon
<1>13. ASSUME NEW g \in Goroutines, syncSecretWatches(g) PROVE UniInv'
  <2>1. /\ at[g] = "sync" /\ at[g] # "idle" /\ at[g] \in Late /\ "call" \in Late
        /\ at' = [at EXCEPT ![g] = "call"] /\ disturbed' = disturbed /\ current' = current
        /\ Loaded(g)' = Loaded(g)
    BY <1>13, Zenon DEF syncSecretWatches, Late, Loaded
  <2>2. Undisturbed' => Loaded(g)' = current'
    BY <2>1, Zenon DEF UniInv, Undisturbed
  <2> QED BY <2>1, <2>2, UniInvLate, Zenon
<1>14. ASSUME NEW g \in Goroutines, CallOnReload(g) PROVE UniInv'
  <2>1. /\ at[g] = "call" /\ at[g] # "idle" /\ at[g] \in Late /\ "publish" \in Late
        /\ at' = [at EXCEPT ![g] = "publish"] /\ disturbed \subseteq disturbed'
        /\ current' = current /\ Loaded(g)' = Loaded(g)
    BY <1>14, Zenon DEF CallOnReload, Late, Loaded
  <2>2. Undisturbed' => Loaded(g)' = current'
    BY <2>1, Zenon DEF UniInv, Undisturbed
  <2>3. ASSUME Undisturbed' PROVE PublishFrom(g, 1)'
    <3>1. Registered
      BY <1>14, <2>3, Zenon DEF CallOnReload, Undisturbed
    <3>2. todo'[g] = HolderOrder
      BY <1>14, <3>1, Zenon DEF CallOnReload, ReadInv
    <3>3. HolderOrder \in Seq(Holders) /\ Len(HolderOrder) = 8 - 1
      BY HoldersAre, HolderOrderIs
    <3>4. /\ \A k \in 1..(8 - 1) : HolderOrder[k] = HolderOrder[1 + k - 1]
          /\ \A j \in 1..7 : ~(j < 1)
      OBVIOUS
    <3> QED BY <3>2, <3>3, <3>4, Zenon DEF PublishFrom
  <2>4. Undisturbed' => \E i \in 1..7 : PublishFrom(g, i)'
    BY <2>3
  <2> QED BY <2>1, <2>2, <2>4, UniInvLate, Zenon
<1>15. ASSUME NEW g \in Goroutines, Publish(g) PROVE UniInv'
  BY <1>15, UniInvPublish, Zenon
<1>16. ASSUME NEW g \in Goroutines, MapRace(g) PROVE UniInv'
  BY <1>16, UniInvKept, Zenon DEF MapRace, reloadVars
<1>17. CASE UNCHANGED vars
  BY <1>17, UniInvKept DEF vars, reloadVars
<1> QED
  BY <1>1, <1>2, <1>3, <1>4, <1>5, <1>6, <1>7, <1>8, <1>9, <1>10, <1>11, <1>12, <1>13,
     <1>14, <1>15, <1>16, <1>17, <1>18, Zenon DEF Next, loop, reload

\* Between reloads the request path runs on the one configuration that Current returns,
\* unless reloads overlapped, one ran before the full callback was registered, or main
\* put back the teams of one when it built the registry (main.go:106, 202 and 278).
THEOREM OneConfigurationIsLive == Spec => []OneConfiguration
<1>1. Init => ReadInv /\ GoodInv /\ UniInv
  BY ReadInvInit, GoodInvInit, UniInvInit
<1>2. ReadInv /\ GoodInv /\ UniInv /\ [Next]_vars => (ReadInv /\ GoodInv /\ UniInv)'
  BY ReadInvNext, GoodInvNext, UniInvNext, Zenon
<1>3. UniInv => OneConfiguration
  <2> SUFFICES ASSUME UniInv, \A g \in Goroutines : at[g] = "idle", Undisturbed
               PROVE  Uniform(current)
    BY Zenon DEF OneConfiguration, Undisturbed
  <2>1. \A h \in Holders : Has(h, current)
    BY DEF UniInv, Late
  <2> QED BY <2>1, UniformIs
<1> QED BY <1>1, <1>2, <1>3, PTL DEF Spec

-----------------------------------------------------------------------------
(* Types. *)

\* The types that the invariants above do not mention.
RestInv ==
    /\ \A f \in Files : seen[f] \in Contents[f]
    /\ watched \subseteq Paths /\ secretPaths \subseteq Paths
    /\ trigger \in BOOLEAN
    /\ current \in [files : FileMaps, keys : KeyMaps]
    /\ edits \in 0..MaxEdits
    /\ missed \subseteq Files \union Paths
    /\ disturbed \subseteq {"overlap", "early callback", "registry reset", "missing secret"}
    /\ startup \in [files : FileMaps, keys : KeyMaps]

\* The remaining types hold initially.
LEMMA RestInvInit == Init => RestInv
<1> SUFFICES ASSUME Init PROVE RestInv
  OBVIOUS
<1>1. PICK i \in Initial : disk = i.files /\ secret = i.secrets
  BY DEF Init
<1>2. disk \in FileMaps /\ \A f \in Files : disk[f] \in Contents[f]
  BY <1>1, InitialAssumption, Zenon DEF FileMaps, ContentIds
<1>3. secret \in [Paths -> Keys \union {Unreadable}]
  <2>1. i.secrets \in [Paths -> Keys]
    BY InitialAssumption DEF Files
  <2> QED BY <1>1, <2>1, Zenon
<1>4. /\ disk["pools"] \in Contents["pools"] /\ PoolsOf(disk) # Unreadable
      /\ \A e \in DOMAIN PoolsOf(disk).endpoints : Resolve(disk, secret, e) # Unreadable
  BY <1>2, AcceptableParts, Zenon DEF Init, Loads, PoolsOf, Files
<1>5. KeysOf(disk, secret) \in KeyMaps
  BY <1>3, <1>4, ResolveIsKey, ZenonT(30) DEF KeysOf, KeyMaps
<1>6. current \in [files : FileMaps, keys : KeyMaps] /\ startup = current
  <2>1. current = [files |-> disk, keys |-> KeysOf(disk, secret)] /\ startup = current
    BY Zenon DEF Init
  <2> QED BY <1>2, <1>5, <2>1, ZenonT(30)
<1>7. edits \in 0..MaxEdits
  BY EditsAssumption DEF Init
<1> QED BY <1>2, <1>6, <1>7, Zenon DEF Init, RestInv

\* Every step keeps them.
LEMMA RestInvNext == ReadInv /\ GoodInv /\ RestInv /\ [Next]_vars => RestInv'
<1> SUFFICES ASSUME ReadInv, GoodInv, RestInv, [Next]_vars PROVE RestInv'
  OBVIOUS
<1>edit. edits < MaxEdits => edits + 1 \in 0..MaxEdits
  <2>1. edits \in 0..MaxEdits
    BY Zenon DEF RestInv
  <2> QED BY <2>1, EditsAssumption
<1>1. ASSUME NEW f \in Files, NEW c \in Contents[f], EditFile(f, c) PROVE RestInv'
  BY <1>1, <1>edit, Zenon DEF EditFile, RestInv
<1>2. ASSUME NEW p \in Paths, NEW k, WriteSecret(p, k) PROVE RestInv'
  BY <1>2, <1>edit, Zenon DEF WriteSecret, RestInv
<1>3. ASSUME NEW p \in Paths, NEW k, ReplaceSecret(p, k) PROVE RestInv'
  BY <1>3, <1>edit, Zenon DEF ReplaceSecret, RestInv
<1>4. CASE TriggerReload
  BY <1>4, <1>edit, Zenon DEF TriggerReload, RestInv
<1>5. CASE Start
  BY <1>5, Zenon DEF Start, RestInv, reloadVars, fileRefPaths
<1>6. CASE OnReload
  BY <1>6, Zenon DEF OnReload, RestInv, reloadVars, watcherVars
<1>18. CASE rebuildTeamRegistry
  BY <1>18, Zenon DEF rebuildTeamRegistry, RestInv, reloadVars, watcherVars
<1>7. ASSUME NEW n, HandleEvent(n) PROVE RestInv'
  BY <1>7, Zenon DEF HandleEvent, RestInv, reloadVars
<1>8. CASE HandleTrigger
  BY <1>8, Zenon DEF HandleTrigger, RestInv, reloadVars
<1>9. ASSUME NEW g \in Goroutines, Expire(g) PROVE RestInv'
  BY <1>9, Zenon DEF Expire, RestInv
<1>10. ASSUME NEW g \in Goroutines, ReadFile(g) PROVE RestInv'
  <2>1. PICK f : seen' = [seen EXCEPT ![f] = disk[f]] /\ missed' = missed \ {f}
    BY <1>10, Zenon DEF ReadFile
  <2>2. DOMAIN seen = Files /\ \A h \in Files : disk[h] \in Contents[h]
    BY DEF ReadInv, GoodInv
  <2>3. \A h \in Files : seen'[h] \in Contents[h]
    BY <2>1, <2>2, Zenon DEF RestInv
  <2> QED BY <1>10, <2>1, <2>3, Zenon DEF ReadFile, RestInv, watcherVars
<1>11. ASSUME NEW g \in Goroutines, NEW e \in Endpoints, ResolveKey(g, e) PROVE RestInv'
  <2>1. disturbed' \subseteq {"overlap", "early callback", "registry reset", "missing secret"}
    BY <1>11, Zenon DEF ResolveKey, RestInv
  <2>2. missed' \subseteq missed
    BY <1>11, Zenon DEF ResolveKey
  <2> QED BY <1>11, <2>1, <2>2, Zenon DEF ResolveKey, RestInv, watcherVars
<1>12. ASSUME NEW g \in Goroutines, Swap(g) PROVE RestInv'
  <2>1. Loaded(g) \in [files : FileMaps, keys : KeyMaps]
    BY DEF ReadInv, GoodInv, Loaded
  <2> QED BY <1>12, <2>1, Zenon DEF Swap, RestInv, watcherVars
<1>13. ASSUME NEW g \in Goroutines, syncSecretWatches(g) PROVE RestInv'
  BY <1>13, Zenon DEF syncSecretWatches, RestInv, NewPaths, SyncedPaths, Referenced, fileRefPaths
<1>14. ASSUME NEW g \in Goroutines, MapRace(g) PROVE RestInv'
  BY <1>14, Zenon DEF MapRace, RestInv, watcherVars
<1>15. ASSUME NEW g \in Goroutines, CallOnReload(g) PROVE RestInv'
  BY <1>15, Zenon DEF CallOnReload, RestInv, watcherVars
<1>16. ASSUME NEW g \in Goroutines, Publish(g) PROVE RestInv'
  BY <1>16, Zenon DEF Publish, RestInv, watcherVars
<1>17. CASE UNCHANGED vars
  BY <1>17, Zenon DEF vars, watcherVars, RestInv
<1> QED
  BY <1>1, <1>2, <1>3, <1>4, <1>5, <1>6, <1>7, <1>8, <1>9, <1>10, <1>11, <1>12, <1>13,
     <1>14, <1>15, <1>16, <1>17, <1>18, Zenon DEF Next, loop, reload

\* What is left to read is the rest of the read order.
LEMMA TodoIs ==
    ASSUME NEW g, NEW i \in 1..6, ReadTo(g, i)
    PROVE  todo[g] = SubSeq(ReadOrder, i, 6)
<1>1. /\ ReadOrder \in Seq(Files) /\ Len(ReadOrder) = 6
  BY ReadOrderIs, Zenon
<1> HIDE DEF ReadOrder
<1>2. /\ SubSeq(ReadOrder, i, 6) \in Seq(Files)
      /\ Len(SubSeq(ReadOrder, i, 6)) = 7 - i
      /\ \A k \in 1..(7 - i) : SubSeq(ReadOrder, i, 6)[k] = ReadOrder[i + k - 1]
  <2>1. i \in Int /\ 6 \in Int /\ i <= 6 /\ 6 - i + 1 = 7 - i
    OBVIOUS
  <2>2. \A j \in i..6 : ReadOrder[j] \in Files
    BY ReadOrderIs
  <2>3. /\ SubSeq(ReadOrder, i, 6) \in Seq(Files)
        /\ Len(SubSeq(ReadOrder, i, 6)) = IF i <= 6 THEN 6 - i + 1 ELSE 0
        /\ \A k \in 1..(6 - i + 1) : SubSeq(ReadOrder, i, 6)[k] = ReadOrder[i + k - 1]
    <3> HIDE DEF Files
    <3> QED BY <2>1, <2>2, SubSeqProperties, SMTT(30)
  <2> QED BY <2>1, <2>3
<1> DEFINE rest == SubSeq(ReadOrder, i, 6)
<1> HIDE DEF rest
<1>3. todo[g] \in Seq(Files) /\ rest \in Seq(Files) /\ Len(todo[g]) = Len(rest)
  BY <1>2, Zenon DEF ReadTo, rest
<1>4. \A k \in 1..Len(todo[g]) : todo[g][k] = rest[k]
  BY <1>2, Zenon DEF ReadTo, rest
<1>5. todo[g] = rest
  BY <1>3, <1>4, SeqEqual
<1> QED BY <1>5, Zenon DEF rest

\* The reloader's state keeps its types, and a reload always has something left to do
\* in the steps that take the head of what is left (loader.go, reload).
THEOREM TypeCorrect == Spec => []TypeOK
<1>1. Init => ReadInv /\ GoodInv /\ RestInv
  BY ReadInvInit, GoodInvInit, RestInvInit
<1>2. ReadInv /\ GoodInv /\ RestInv /\ [Next]_vars => (ReadInv /\ GoodInv /\ RestInv)'
  BY ReadInvNext, GoodInvNext, RestInvNext
<1>3. ReadInv /\ GoodInv /\ RestInv => TypeOK
  <2> SUFFICES ASSUME ReadInv, GoodInv, RestInv PROVE TypeOK
    OBVIOUS
  <2>1. \A g \in Goroutines : at[g] = "read" => \E i \in 1..6 : todo[g] = SubSeq(ReadOrder, i, 6)
    BY TodoIs, Zenon DEF ReadInv, StepInv
  <2> HIDE DEF ReadOrder
  <2>2. \A g \in Goroutines : at[g] = "publish" => todo[g] # <<>>
    BY Zenon DEF GoodInv
  <2>3. \A f \in Files : disk[f] \in Contents[f] /\ seen[f] \in Contents[f]
    BY Zenon DEF GoodInv, RestInv
  <2> QED BY <2>1, <2>2, <2>3, Zenon DEF ReadInv, GoodInv, RestInv, TypeOK
<1> QED BY <1>1, <1>2, <1>3, PTL DEF Spec

=============================================================================
