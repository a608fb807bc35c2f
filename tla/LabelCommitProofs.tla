------------------------- MODULE LabelCommitProofs -------------------------
(***************************************************************************)
(* Theorems about LabelCommit, for every set of names, colours, workspaces *)
(* and faults: its types, that the daemon serves what its files say, that  *)
(* the files stand for a state that changes by whole requests, that labels *)
(* in use are defined, and that no commit undoes another mutation.         *)
(***************************************************************************)
EXTENDS LabelCommit, TLAPS

(***************************************************************************)
(* The planners.                                                           *)
(***************************************************************************)
\* A plan turns a catalog into a catalog and a registry into a registry.
LEMMA PlanTypes ==
  ASSUME NEW q \in Requests, NEW cat \in Catalogs, NEW recs \in Registries
  PROVE  /\ CatalogAfter(q, cat) \in Catalogs
         /\ \A w \in Workspaces : recs[w] # None => HeldAfter(q, cat, recs, w) \in SUBSET Names
         /\ RecordsAfter(q, cat, recs) \in Registries
<1>1. CatalogAfter(q, cat) \in Catalogs
  BY DEF CatalogAfter, Catalogs, Requests
<1>2. ASSUME NEW w \in Workspaces, recs[w] # None
      PROVE  HeldAfter(q, cat, recs, w) \in SUBSET Names
  <2>1. recs[w].labels \in SUBSET Names
    BY <1>2 DEF Registries, Records
  <2>2. q.kind = "set" => updateAssignmentLabels(q, recs[w].labels) \in SUBSET Names
    BY <2>1 DEF updateAssignmentLabels, Requests
  <2>3. rewriteAssignments(q, cat, recs[w].labels) \in SUBSET Names
    BY <2>1 DEF rewriteAssignments, Requests
  <2> QED BY <2>1, <2>2, <2>3 DEF HeldAfter
<1>3. RecordsAfter(q, cat, recs) \in Registries
  <2>1. ASSUME NEW w \in Workspaces
        PROVE  RecordsAfter(q, cat, recs)[w] \in {None} \cup Records
    <3>1. CASE w \in Reassigned(q, cat, recs)
      <4>1. recs[w] # None /\ recs[w] \in Records
        BY <3>1 DEF Reassigned, Registries
      <4>2. HeldAfter(q, cat, recs, w) \in SUBSET Names
        BY <1>2, <4>1
      <4> QED BY <3>1, <4>1, <4>2 DEF RecordsAfter, Records
    <3>2. CASE w \notin Reassigned(q, cat, recs)
      BY <3>2 DEF RecordsAfter, Registries
    <3> QED BY <3>1, <3>2
  <2> QED BY <2>1 DEF RecordsAfter, Registries
<1> QED BY <1>1, <1>2, <1>3

\* The plans of AtomicLabels are those of LabelCommit.
LEMMA SamePlans ==
  ASSUME NEW q, NEW cat, NEW recs
  PROVE  /\ Atomic!Refused(q, cat, recs) = Refused(q, cat, recs)
         /\ Atomic!CatalogAfter(q, cat) = CatalogAfter(q, cat)
         /\ Atomic!RecordsAfter(q, cat, recs) = RecordsAfter(q, cat, recs)
<1>1. Atomic!Refused(q, cat, recs) = Refused(q, cat, recs)
  BY DEF Atomic!Refused, Refused, Atomic!Active, Active
<1>2. Atomic!CatalogAfter(q, cat) = CatalogAfter(q, cat)
  BY DEF Atomic!CatalogAfter, CatalogAfter
<1>3. \A w : Atomic!HeldAfter(q, cat, recs, w) = HeldAfter(q, cat, recs, w)
  BY DEF Atomic!HeldAfter, HeldAfter, Atomic!rewriteAssignments, rewriteAssignments,
         Atomic!updateAssignmentLabels, updateAssignmentLabels
<1>4. Atomic!RecordsAfter(q, cat, recs) = RecordsAfter(q, cat, recs)
  BY <1>3 DEF Atomic!RecordsAfter, RecordsAfter, Atomic!Reassigned, Reassigned
<1> QED BY <1>1, <1>2, <1>4

(***************************************************************************)
(* The before-images.                                                      *)
(***************************************************************************)
\* Putting before-images back turns a registry into a registry.
LEMMA RestoredType ==
  ASSUME NEW recs \in Registries, NEW j \in Journals
  PROVE  Restored(recs, j) \in Registries
<1>1. ASSUME NEW w \in Workspaces
      PROVE  Restored(recs, j)[w] \in {None} \cup Records
  <2>1. recs[w] \in {None} \cup Records /\ j.holds[w] \in {None} \cup SUBSET Names
    BY DEF Registries, Journals, Holdings
  <2> QED BY <2>1 DEF Restored, Records
<1> QED BY <1>1 DEF Restored, Registries

\* Putting before-images back commutes with the registry's other mutations.
LEMMA RestoredRemove ==
  ASSUME NEW recs \in Registries, NEW j \in Journals, NEW w \in Workspaces
  PROVE  Restored([recs EXCEPT ![w] = None], j) = [Restored(recs, j) EXCEPT ![w] = None]
BY DEF Restored, Registries

\* The records with workspace w archived.
ArchivedIn(recs, w) == [recs EXCEPT ![w].archived = TRUE]

LEMMA RestoredArchive ==
  ASSUME NEW recs \in Registries, NEW j \in Journals, NEW w \in Workspaces, recs[w] # None
  PROVE  Restored(ArchivedIn(recs, w), j) = ArchivedIn(Restored(recs, j), w)
<1> DEFINE edited == [recs EXCEPT ![w].archived = TRUE]
<1>1. recs[w] \in Records
  BY DEF Registries
<1>2. edited \in Registries /\ edited[w] \in Records /\ edited[w] # None
  BY <1>1, NoneAssumption DEF Registries, Records
<1>3. \A v \in Workspaces \ {w} : edited[v] = recs[v]
  BY DEF Registries
<1>4. edited[w] = [recs[w] EXCEPT !.archived = TRUE]
  BY DEF Registries
<1>5. Restored(edited, j)[w] = [Restored(recs, j)[w] EXCEPT !.archived = TRUE]
  <2>1. CASE j.holds[w] = None
    BY <2>1, <1>4 DEF Restored
  <2>2. CASE j.holds[w] # None
    <3>1. Restored(edited, j)[w] = [edited[w] EXCEPT !.labels = j.holds[w]]
      BY <2>2, <1>2 DEF Restored
    <3>2. Restored(recs, j)[w] = [recs[w] EXCEPT !.labels = j.holds[w]]
      BY <2>2 DEF Restored
    <3> QED BY <3>1, <3>2, <1>1, <1>4 DEF Records
  <2> QED BY <2>1, <2>2
<1>6. \A v \in Workspaces \ {w} : Restored(edited, j)[v] = Restored(recs, j)[v]
  BY <1>3 DEF Restored
<1> DEFINE old == Restored(recs, j)
           new == Restored(edited, j)
<1>7. old = [v \in Workspaces |-> old[v]] /\ new = [v \in Workspaces |-> new[v]]
  BY DEF Restored
<1>8. new[w] = [old[w] EXCEPT !.archived = TRUE]
      /\ \A v \in Workspaces \ {w} : new[v] = old[v]
  BY <1>5, <1>6
<1> HIDE DEF old, new
<1>9. new = [old EXCEPT ![w].archived = TRUE]
  BY <1>7, <1>8
<1> QED BY <1>9 DEF old, new, ArchivedIn

\* A request's before-images are a journal, and put back what it changes.
LEMMA TransactionImages ==
  ASSUME NEW q \in Requests, labels \in Catalogs, cache \in Registries
  PROVE  /\ transactionFor(q) \in Journals
         /\ Restored(cache, transactionFor(q)) = cache
         /\ Restored(RecordsAfter(q, labels, cache), transactionFor(q)) = cache
<1> DEFINE j == transactionFor(q)
           R == Reassigned(q, labels, cache)
           after == RecordsAfter(q, labels, cache)
<1>1. \A w \in R : cache[w] # None /\ cache[w] \in Records
  BY DEF Reassigned, Registries
<1>2. \A w \in Workspaces : j.holds[w] = IF w \in R THEN cache[w].labels ELSE None
  BY DEF transactionFor
<1>3. \A w \in R : cache[w].labels \in SUBSET Names /\ j.holds[w] # None
  BY <1>1, <1>2, NoneAssumption DEF Records, Reassigned
<1>4. j \in Journals
  <2>1. j.holds \in Holdings
    BY <1>2, <1>3 DEF transactionFor, Holdings
  <2> QED BY <2>1 DEF transactionFor, Journals, Phases
<1>5. ASSUME NEW w \in Workspaces
      PROVE  Restored(cache, j)[w] = cache[w] /\ Restored(after, j)[w] = cache[w]
  <2>1. CASE w \in R
    <3>1. j.holds[w] = cache[w].labels /\ j.holds[w] # None
      BY <1>2, <1>3, <2>1
    <3>2. Restored(cache, j)[w] = cache[w]
      BY <3>1, <1>1, <2>1 DEF Restored, Records
    <3>3. after[w] = [cache[w] EXCEPT !.labels = HeldAfter(q, labels, cache, w)]
      BY <2>1 DEF RecordsAfter
    <3>4. after[w] \in Records /\ after[w] # None
      <4>1. HeldAfter(q, labels, cache, w) \in SUBSET Names
        BY <1>1, <2>1, PlanTypes DEF R, Reassigned
      <4> QED BY <3>3, <4>1, <1>1, <2>1, NoneAssumption DEF Records
    <3>5. Restored(after, j)[w] = [after[w] EXCEPT !.labels = cache[w].labels]
      BY <3>1, <3>4 DEF Restored
    <3>6. [after[w] EXCEPT !.labels = cache[w].labels] = cache[w]
      BY <3>3, <1>1, <2>1 DEF Records
    <3> QED BY <3>2, <3>5, <3>6
  <2>2. CASE w \notin R
    BY <2>2, <1>2 DEF Restored, RecordsAfter
  <2> QED BY <2>1, <2>2
<1>6. cache = [w \in Workspaces |-> cache[w]]
  BY DEF Registries
<1>7. Restored(cache, j) = cache /\ Restored(after, j) = cache
  <2> HIDE DEF j, after
  <2> QED BY <1>5, <1>6 DEF Restored
<1> QED BY <1>4, <1>7

(***************************************************************************)
(* Types.                                                                  *)
(***************************************************************************)
\* A commit has a request, and from its second write on a journal.
TypeInv ==
  /\ TypeOK
  /\ pc \in CommitWrites => request \in Requests
  /\ pc \in {"catalog", "workspaces", "committed"} \cup UndoWrites => disk.journal \in Journals

\* The outstanding write leaves files of their types.
LEMMA WrittenType ==
  ASSUME TypeInv
  PROVE  /\ Written \in Disks
         /\ pc = "journal" => Written.journal \in Journals
         /\ pc \in {"catalog", "workspaces", "undoCatalog", "undoWorkspaces"} =>
              Written.journal = disk.journal
<1> USE DEF TypeInv
<1>1. disk \in Disks /\ labels \in Catalogs /\ cache \in Registries
  BY DEF TypeOK
<1>2. CASE pc = "journal"
  <2>1. transactionFor(request) \in Journals
    BY <1>1, <1>2, TransactionImages DEF CommitWrites
  <2>2. Written = [disk EXCEPT !.journal = transactionFor(request)]
    BY <1>2 DEF Written
  <2> QED BY <2>1, <2>2, <1>1, <1>2 DEF Disks
<1>3. CASE pc = "catalog"
  <2>1. CatalogAfter(request, labels) \in Catalogs
    BY <1>1, <1>3, PlanTypes DEF CommitWrites
  <2>2. Written = [disk EXCEPT !.catalog = CatalogAfter(request, labels)]
    BY <1>3 DEF Written
  <2> QED BY <2>1, <2>2, <1>1, <1>3 DEF Disks
<1>4. CASE pc = "workspaces"
  <2>1. RecordsAfter(request, labels, cache) \in Registries
    BY <1>1, <1>4, PlanTypes DEF CommitWrites
  <2>2. Written = [disk EXCEPT !.workspaces = RecordsAfter(request, labels, cache)]
    BY <1>4 DEF Written
  <2> QED BY <2>1, <2>2, <1>1, <1>4 DEF Disks
<1>5. CASE pc = "committed"
  <2>1. Written = [disk EXCEPT !.journal.phase = "committed"]
    BY <1>5 DEF Written
  <2>2. disk.journal \in Journals
    BY <1>5
  <2> QED BY <2>1, <2>2, <1>1, <1>5 DEF Disks, Journals, Phases
<1>6. CASE pc = "undoCatalog"
  <2>1. Written = [disk EXCEPT !.catalog = disk.journal.labels]
    BY <1>6 DEF Written
  <2>2. disk.journal.labels \in Catalogs
    BY <1>6 DEF UndoWrites, Journals
  <2> QED BY <2>1, <2>2, <1>1, <1>6 DEF Disks
<1>7. CASE pc = "undoWorkspaces"
  <2>1. Written = [disk EXCEPT !.workspaces = Restored(cache, disk.journal)]
    BY <1>7 DEF Written
  <2>2. Restored(cache, disk.journal) \in Registries
    BY <1>7, <1>1, RestoredType DEF UndoWrites
  <2> QED BY <2>1, <2>2, <1>1, <1>7 DEF Disks
<1>8. CASE pc \in {"undoJournal", "cleanup"}
  <2>1. Written = [disk EXCEPT !.journal = None]
    BY <1>8 DEF Written
  <2> QED BY <2>1, <1>1, <1>8 DEF Disks
<1>9. CASE pc \notin CommitWrites \cup UndoWrites \cup {"cleanup"}
  <2>1. Written = disk
    BY <1>9 DEF Written, CommitWrites, UndoWrites
  <2> QED BY <2>1, <1>1, <1>9 DEF CommitWrites, UndoWrites
<1> QED BY <1>2, <1>3, <1>4, <1>5, <1>6, <1>7, <1>8, <1>9 DEF CommitWrites, UndoWrites

\* Every step keeps the types.
LEMMA TypeStep ==
  ASSUME TypeInv, [Next]_vars
  PROVE  TypeInv'
<1> USE DEF Places, CommitWrites, UndoWrites
<1>1. /\ disk \in Disks /\ labels \in Catalogs /\ cache \in Registries
      /\ blocked \in BOOLEAN /\ serving \in BOOLEAN
      /\ request \in {None} \cup Requests /\ pc \in Places
      /\ disk.journal \in {None} \cup Journals
  BY DEF TypeInv, TypeOK, Disks
<1>2. NoLabels \in Catalogs /\ NoRecords \in Registries
  BY DEF NoLabels, NoRecords, Catalogs, Registries
<1>3. ASSUME NEW q \in Requests, Refuse(q) \/ Stage(q)
      PROVE  TypeInv'
  BY <1>1, <1>3 DEF TypeInv, TypeOK, Refuse, Stage, memory
<1>4. CASE WriteBefore
  <2>1. Written \in Disks
    BY WrittenType
  <2>2. TypeOK'
    BY <1>1, <1>4, <2>1 DEF TypeOK, WriteBefore, memory
  <2>3. disk'.journal \in Journals
    BY <1>4, WrittenType DEF WriteBefore, TypeInv
  <2>4. pc \in CommitWrites /\ request' = request
    BY <1>4 DEF WriteBefore
  <2> QED BY <2>2, <2>3, <2>4 DEF TypeInv
<1>5. CASE WriteCommitted
  <2>1. Written \in Disks
    BY WrittenType
  <2>2. CatalogAfter(request, labels) \in Catalogs
        /\ RecordsAfter(request, labels, cache) \in Registries
    BY <1>1, <1>5, PlanTypes DEF WriteCommitted, TypeInv
  <2> QED BY <1>1, <1>5, <2>1, <2>2 DEF TypeInv, TypeOK, WriteCommitted
<1>6. CASE WriteFails
  <2>1. disk' \in Disks
    BY <1>1, <1>6, WrittenType DEF WriteFails, FailedWrite
  <2> QED BY <1>1, <1>6, <2>1 DEF TypeInv, TypeOK, WriteFails, memory
<1>7. CASE Cleanup
  <2>1. disk' \in Disks
    BY <1>1, <1>7 DEF Cleanup, removeTransaction, Disks
  <2> QED BY <1>1, <1>7, <2>1 DEF TypeInv, TypeOK, Cleanup, memory
<1>8. CASE resolveFailedCommit
  BY <1>1, <1>8 DEF TypeInv, TypeOK, resolveFailedCommit, blockUntilRestart, memory
<1>9. CASE RestoreFiles
  <2>1. Written \in Disks
    BY WrittenType
  <2>2. disk'.journal \in Journals
    BY <1>9, WrittenType DEF RestoreFiles, TypeInv
  <2> QED BY <1>1, <1>9, <2>1, <2>2 DEF TypeInv, TypeOK, RestoreFiles, memory
<1>10. CASE RemovePrepared
  <2>1. Written \in Disks
    BY WrittenType
  <2>2. disk.journal \in Journals
    BY <1>10 DEF RemovePrepared, TypeInv
  <2>3. disk.journal.labels \in Catalogs /\ Restored(cache, disk.journal) \in Registries
    BY <1>1, <2>2, RestoredType DEF Journals
  <2> QED BY <1>1, <1>10, <2>1, <2>3 DEF TypeInv, TypeOK, RemovePrepared
<1>11. CASE RestoreFails
  <2>1. disk' \in Disks
    BY <1>1, <1>11, WrittenType DEF RestoreFails, FailedWrite
  <2> QED BY <1>1, <1>2, <1>11, <2>1 DEF TypeInv, TypeOK, RestoreFails
<1>12. CASE Crash
  <2>1. disk' \in Disks
    BY <1>1, <1>12, WrittenType DEF Crash
  <2> QED BY <1>1, <1>2, <1>12, <2>1 DEF TypeInv, TypeOK, Crash
<1>13. CASE Boot
  BY <1>1, <1>13 DEF TypeInv, TypeOK, Boot, Disks
<1>14. CASE loadAndRecover
  <2>1. disk' \in Disks
    BY <1>1, <1>14 DEF loadAndRecover, removeTransaction, Disks
  <2>2. pc' = "undoCatalog" => disk'.journal \in Journals
    BY <1>1, <1>14 DEF loadAndRecover
  <2> QED BY <1>1, <1>14, <2>1, <2>2 DEF TypeInv, TypeOK, loadAndRecover, Disks
<1>15. ASSUME NEW w \in Workspaces, archive(w) \/ remove(w)
       PROVE  TypeInv'
  <2>1. cache' \in Registries
    BY <1>1, <1>15 DEF archive, remove, mutateCache, Registries, Records
  <2>2. disk' = [disk EXCEPT !.workspaces = cache']
    BY <1>15 DEF archive, remove, mutateCache
  <2>3. disk' \in Disks /\ disk'.journal = disk.journal
    BY <1>1, <2>1, <2>2 DEF Disks
  <2> QED BY <1>1, <1>15, <2>1, <2>3 DEF TypeInv, TypeOK, archive, remove, mutateCache
<1>16. CASE UNCHANGED vars
  BY <1>16 DEF TypeInv, TypeOK, vars
<1> QED BY <1>3, <1>4, <1>5, <1>6, <1>7, <1>8, <1>9, <1>10, <1>11, <1>12, <1>13, <1>14,
           <1>15, <1>16 DEF Next, Step

LEMMA TypeInit ==
  ASSUME Init
  PROVE  TypeInv
<1>1. NoLabels \in Catalogs /\ NoRecords \in Registries
  BY DEF NoLabels, NoRecords, Catalogs, Registries
<1>2. disk \in Disks
  <2> DEFINE r == [labels |-> {}, archived |-> FALSE]
  <2>3. r \in Records
    BY DEF Records
  <2>4. disk.workspaces \in [Workspaces -> {None, r}]
    BY DEF Init
  <2>1. disk.workspaces \in Registries
    <3> HIDE DEF r
    <3> QED BY <2>3, <2>4 DEF Registries
  <2>2. disk = [catalog |-> NoLabels, workspaces |-> disk.workspaces, journal |-> None]
    BY DEF Init
  <2> QED BY <1>1, <2>1, <2>2 DEF Disks
<1> QED BY <1>1, <1>2 DEF Init, TypeInv, TypeOK, Places, CommitWrites, UndoWrites

\* The files, the caches and the request always have their types: no fault and
\* no crash makes the store keep anything that is not a catalog, a registry or
\* a journal.
THEOREM LabelTypes == Spec => []TypeOK
<1>1. Spec => []TypeInv
  BY TypeInit, TypeStep, PTL DEF Spec
<1>2. TypeInv => TypeOK
  BY DEF TypeInv
<1> QED BY <1>1, <1>2, PTL

(***************************************************************************)
(* What each place of a commit says of the files and the caches.           *)
(***************************************************************************)
\* The files are what the daemon serves.
Settled == ~Prepared /\ labels = disk.catalog /\ cache = disk.workspaces

\* The records on file differ from the cache in labels only, and only where
\* the journal has an image.
Covers(files, j) ==
  \A w \in Workspaces :
    /\ cache[w] = None <=> files[w] = None
    /\ cache[w] # None => files[w].archived = cache[w].archived
    /\ j.holds[w] = None => files[w] = cache[w]

\* The journal's images are what the daemon serves.
Images(j) ==
  /\ labels = j.labels
  /\ \A w \in Workspaces : cache[w] # None /\ j.holds[w] # None => cache[w].labels = j.holds[w]

DaemonInv ==
  /\ pc \in {"down", "load"} => ~serving /\ ~blocked
  /\ pc \notin {"down", "load"} \cup UndoWrites => serving
  /\ blocked => pc = "idle"
  /\ pc = "load" => cache = disk.workspaces
  /\ pc \in CommitWrites => ~Refused(request, labels, cache)

CommittingInv ==
  /\ pc \in {"idle", "cleanup", "journal"} /\ ~blocked => Settled
  /\ pc \in {"catalog", "workspaces", "committed"} => disk.journal = transactionFor(request)
  /\ pc = "catalog" => disk.catalog = labels
  /\ pc \in {"workspaces", "committed"} => disk.catalog = CatalogAfter(request, labels)
  /\ pc \in {"catalog", "workspaces"} => disk.workspaces = cache
  /\ pc = "committed" => disk.workspaces = RecordsAfter(request, labels, cache)

UndoingInv ==
  /\ pc = "resolve" /\ Prepared => Covers(disk.workspaces, disk.journal) /\ Images(disk.journal)
  /\ pc = "resolve" /\ (disk.journal = None \/ ("marker" \notin Faults /\ ~Prepared)) => Settled
  /\ pc \in UndoWrites => Prepared /\ Covers(disk.workspaces, disk.journal)
  /\ pc \in UndoWrites /\ serving => Images(disk.journal)
  /\ pc \in {"undoWorkspaces", "undoJournal"} => disk.catalog = disk.journal.labels
  /\ pc = "undoJournal" => disk.workspaces = Restored(cache, disk.journal)

CommitInv == TypeInv /\ DaemonInv /\ CommittingInv /\ UndoingInv

\* The before-images of a request cover the records before and after it.
LEMMA TransactionCovers ==
  ASSUME NEW q \in Requests, labels \in Catalogs, cache \in Registries
  PROVE  /\ Covers(cache, transactionFor(q))
         /\ Covers(RecordsAfter(q, labels, cache), transactionFor(q))
         /\ Images(transactionFor(q))
<1> DEFINE j == transactionFor(q)
           R == Reassigned(q, labels, cache)
           after == RecordsAfter(q, labels, cache)
<1>1. \A w \in Workspaces : j.holds[w] = IF w \in R THEN cache[w].labels ELSE None
  BY DEF transactionFor
<1>2. \A w \in R : w \in Workspaces /\ cache[w] # None /\ cache[w] \in Records
  BY DEF Reassigned, Registries
<1>3. ASSUME NEW w \in R
      PROVE  j.holds[w] # None /\ after[w] # None /\ after[w].archived = cache[w].archived
  <2>1. cache[w].labels \in SUBSET Names
    BY <1>2 DEF Records
  <2>2. after[w] = [cache[w] EXCEPT !.labels = HeldAfter(q, labels, cache, w)]
    BY <1>2 DEF RecordsAfter
  <2>3. HeldAfter(q, labels, cache, w) \in SUBSET Names
    BY <1>2, PlanTypes
  <2> QED BY <1>1, <1>2, <2>1, <2>2, <2>3, NoneAssumption DEF Records
<1>4. \A w \in Workspaces \ R : after[w] = cache[w]
  BY DEF RecordsAfter
<1>5. Covers(cache, j) /\ Images(j)
  <2>1. labels = j.labels
    BY DEF transactionFor
  <2> HIDE DEF j, R
  <2> QED BY <1>1, <2>1 DEF Covers, Images
<1>6. Covers(after, j)
  <2> HIDE DEF j, R, after
  <2> QED BY <1>1, <1>2, <1>3, <1>4 DEF Covers
<1> QED BY <1>5, <1>6

\* What covers a registry restores to what the registry itself restores to.
LEMMA CoversRestored ==
  ASSUME NEW files \in Registries, NEW j \in Journals, cache \in Registries, Covers(files, j)
  PROVE  /\ Restored(files, j) = Restored(cache, j)
         /\ Covers(Restored(cache, j), j)
         /\ ~RestoreWrites(cache, j) => files = Restored(cache, j)
<1>1. ASSUME NEW w \in Workspaces
      PROVE  /\ Restored(files, j)[w] = Restored(cache, j)[w]
             /\ cache[w] = None <=> Restored(cache, j)[w] = None
             /\ cache[w] # None => Restored(cache, j)[w].archived = cache[w].archived
             /\ j.holds[w] = None => Restored(cache, j)[w] = cache[w]
  <2>1. CASE cache[w] # None /\ j.holds[w] # None
    <3>1. /\ cache[w] \in Records /\ files[w] \in Records /\ files[w] # None
          /\ files[w].archived = cache[w].archived
          /\ j.holds[w] \in SUBSET Names
      BY <2>1 DEF Covers, Registries, Journals, Holdings
    <3>2. /\ Restored(cache, j)[w] = [cache[w] EXCEPT !.labels = j.holds[w]]
          /\ Restored(files, j)[w] = [files[w] EXCEPT !.labels = j.holds[w]]
      BY <2>1, <3>1 DEF Restored
    <3> QED BY <2>1, <3>1, <3>2, NoneAssumption DEF Records
  <2>2. CASE cache[w] = None \/ j.holds[w] = None
    BY <2>2 DEF Covers, Restored
  <2> QED BY <2>1, <2>2
<1>2. Restored(files, j) = Restored(cache, j)
  BY <1>1 DEF Restored
<1>3. Covers(Restored(cache, j), j)
  BY <1>1 DEF Covers
<1>4. ASSUME ~RestoreWrites(cache, j)
      PROVE  files = Restored(cache, j)
  <2>1. \A w \in Workspaces : Restored(cache, j)[w] = files[w]
    BY <1>4 DEF RestoreWrites, Restored, Covers
  <2> QED BY <2>1 DEF Restored, Registries
<1> QED BY <1>2, <1>3, <1>4

\* Every step keeps the places' facts, one step of the proof per action.
LEMMA CommitStep ==
  ASSUME CommitInv, [Next]_vars
  PROVE  CommitInv'
<1> USE DEF CommitWrites, UndoWrites
<1>1. TypeInv' /\ TypeInv
  BY TypeStep DEF CommitInv
<1>2. /\ disk \in Disks /\ labels \in Catalogs /\ cache \in Registries
      /\ disk.journal \in {None} \cup Journals /\ disk.workspaces \in Registries
      /\ pc \in Places
  BY <1>1 DEF TypeInv, TypeOK, Disks
<1>3. DaemonInv /\ CommittingInv /\ UndoingInv
  BY DEF CommitInv
<1>4. \A j \in Journals : j # None
  BY JournalAssumption
<1>5. SUFFICES DaemonInv' /\ CommittingInv' /\ UndoingInv'
  BY <1>1 DEF CommitInv
<1>6. ASSUME NEW q \in Requests, Refuse(q)
      PROVE  DaemonInv' /\ CommittingInv' /\ UndoingInv'
  BY <1>3, <1>6 DEF Refuse, memory, DaemonInv, CommittingInv, UndoingInv, Settled, Prepared
<1>7. ASSUME NEW q \in Requests, Stage(q)
      PROVE  DaemonInv' /\ CommittingInv' /\ UndoingInv'
  BY <1>3, <1>7 DEF Stage, memory, DaemonInv, CommittingInv, UndoingInv, Settled, Prepared
<1>8. CASE WriteBefore
  <2>1. request \in Requests /\ UNCHANGED <<labels, cache, blocked, serving, request>>
    BY <1>1, <1>8 DEF WriteBefore, TypeInv, memory
  <2>2. CASE pc = "journal"
    <3>1. disk' = [disk EXCEPT !.journal = transactionFor(request)] /\ pc' = "catalog"
      BY <1>8, <2>2 DEF WriteBefore, Written
    <3>2. disk'.journal = transactionFor(request) /\ disk'.catalog = disk.catalog
          /\ disk'.workspaces = disk.workspaces
      BY <1>2, <3>1 DEF Disks
    <3>3. transactionFor(request)' = transactionFor(request)
      BY <2>1 DEF transactionFor
    <3> QED BY <1>3, <2>1, <2>2, <3>1, <3>2, <3>3
            DEF DaemonInv, CommittingInv, UndoingInv, Settled
  <2>3. CASE pc = "catalog"
    <3>1. disk' = [disk EXCEPT !.catalog = CatalogAfter(request, labels)]
          /\ pc' = IF Reassigned(request, labels, cache) # {} THEN "workspaces" ELSE "committed"
      BY <1>8, <2>3 DEF WriteBefore, Written
    <3>2. disk'.journal = disk.journal /\ disk'.catalog = CatalogAfter(request, labels)
          /\ disk'.workspaces = disk.workspaces
      BY <1>2, <3>1 DEF Disks
    <3>3. transactionFor(request)' = transactionFor(request)
      BY <2>1 DEF transactionFor
    <3>4. Reassigned(request, labels, cache) = {} => RecordsAfter(request, labels, cache) = cache
      BY <1>2 DEF RecordsAfter, Registries
    <3> QED BY <1>3, <2>1, <2>3, <3>1, <3>2, <3>3, <3>4
            DEF DaemonInv, CommittingInv, UndoingInv, Settled
  <2>4. CASE pc = "workspaces"
    <3>1. disk' = [disk EXCEPT !.workspaces = RecordsAfter(request, labels, cache)]
          /\ pc' = "committed"
      BY <1>8, <2>4 DEF WriteBefore, Written
    <3>2. disk'.journal = disk.journal /\ disk'.catalog = disk.catalog
          /\ disk'.workspaces = RecordsAfter(request, labels, cache)
      BY <1>2, <3>1 DEF Disks
    <3>3. transactionFor(request)' = transactionFor(request)
      BY <2>1 DEF transactionFor
    <3> QED BY <1>3, <2>1, <2>4, <3>1, <3>2, <3>3
            DEF DaemonInv, CommittingInv, UndoingInv, Settled
  <2> QED BY <1>8, <2>2, <2>3, <2>4 DEF WriteBefore
<1>9. CASE WriteCommitted
  <2>1. disk' = [disk EXCEPT !.journal.phase = "committed"]
    BY <1>9 DEF WriteCommitted, Written
  <2>2. disk'.catalog = disk.catalog /\ disk'.workspaces = disk.workspaces
        /\ disk'.journal.phase = "committed"
    BY <1>1, <1>2, <1>9, <2>1 DEF Disks, Journals, WriteCommitted, TypeInv
  <2> QED BY <1>3, <1>9, <2>2
          DEF WriteCommitted, DaemonInv, CommittingInv, UndoingInv, Settled, Prepared
<1>10. CASE WriteFails
  <2>1. request \in Requests /\ UNCHANGED <<labels, cache, blocked, serving, request>>
        /\ pc' = "resolve" /\ serving /\ ~blocked
    BY <1>1, <1>3, <1>10 DEF WriteFails, TypeInv, memory, DaemonInv
  <2> DEFINE j == transactionFor(request)
             after == RecordsAfter(request, labels, cache)
  <2>2. Covers(cache, j) /\ Covers(after, j) /\ Images(j) /\ j \in Journals
    BY <1>2, <2>1, TransactionCovers, TransactionImages
  <2>3. \/ disk' = disk
        \/ pc # "committed" /\ disk' = Written
        \/ pc = "committed" /\ disk' = Written /\ "marker" \in Faults
    BY <1>10 DEF WriteFails, FailedWrite
  <2>4. DaemonInv' /\ CommittingInv'
    BY <2>1 DEF DaemonInv, CommittingInv
  <2>5. CASE /\ disk'.journal = j
             /\ disk'.workspaces = cache \/ disk'.workspaces = after
    <3>1. Covers(disk.workspaces, disk.journal)' /\ Images(disk.journal)'
      <4> HIDE DEF j, after
      <4> QED BY <2>1, <2>2, <2>5 DEF Covers, Images
    <3>2. Prepared'
      BY <1>4, <2>2, <2>5 DEF Prepared, transactionFor
    <3>3. disk'.journal # None
      BY <1>4, <2>2, <2>5
    <3> HIDE DEF j, after
    <3> QED BY <2>1, <2>4, <3>1, <3>2, <3>3 DEF UndoingInv
  <2>6. CASE Settled'
    BY <2>1, <2>4, <2>6 DEF UndoingInv, Settled
  <2>7. CASE pc = "journal"
    <3>1. Settled
      BY <1>3, <2>1, <2>7 DEF CommittingInv
    <3>2. disk' = disk => Settled'
      BY <2>1, <3>1 DEF Settled, Prepared
    <3>3. disk' = Written => disk'.journal = j /\ disk'.workspaces = cache
      BY <1>2, <2>7, <3>1 DEF Written, Disks, Settled
    <3> QED BY <2>3, <2>5, <2>6, <2>7, <3>2, <3>3
  <2>8. CASE pc \in {"catalog", "workspaces"}
    <3>1. disk.journal = j /\ disk.workspaces = cache
      BY <1>3, <2>8 DEF CommittingInv
    <3>2. disk' = Written => disk'.journal = j /\ disk'.workspaces \in {cache, after}
      BY <1>2, <2>8, <3>1 DEF Written, Disks
    <3> QED BY <2>3, <2>5, <2>8, <3>1, <3>2
  <2>9. CASE pc = "committed"
    <3>1. disk.journal = j /\ disk.workspaces = after
      BY <1>3, <2>9 DEF CommittingInv
    <3>2. ASSUME disk' = Written, "marker" \in Faults
          PROVE  UndoingInv'
      <4>1. disk' = [disk EXCEPT !.journal.phase = "committed"]
        BY <2>9, <3>2 DEF Written
      <4>2. disk.journal \in Journals
        BY <1>1, <2>9 DEF TypeInv
      <4>3. disk'.journal.phase = "committed" /\ disk'.journal \in Journals
        BY <1>2, <4>1, <4>2 DEF Disks, Journals, Phases
      <4> QED BY <1>4, <2>1, <3>2, <4>3 DEF UndoingInv, Prepared
    <3> QED BY <2>3, <2>4, <2>5, <2>9, <3>1, <3>2
  <2> QED BY <1>10, <2>7, <2>8, <2>9 DEF WriteFails
<1>11. CASE Cleanup
  <2>1. disk'.catalog = disk.catalog /\ disk'.workspaces = disk.workspaces
        /\ disk'.journal \in {None, disk.journal}
    BY <1>2, <1>11 DEF Cleanup, removeTransaction, Disks
  <2> QED BY <1>3, <1>11, <2>1
          DEF Cleanup, memory, DaemonInv, CommittingInv, UndoingInv, Settled, Prepared
<1>12. CASE resolveFailedCommit
  <2>1. CASE blockUntilRestart
    BY <1>3, <1>12, <2>1
       DEF resolveFailedCommit, blockUntilRestart, DaemonInv, CommittingInv, UndoingInv
  <2>2. CASE /\ disk.journal = None /\ pc' = "idle" /\ UNCHANGED <<disk, memory>>
    BY <1>3, <1>12, <2>2
       DEF resolveFailedCommit, memory, DaemonInv, CommittingInv, UndoingInv, Settled, Prepared
  <2>3. CASE /\ disk.journal # None /\ disk.journal.phase = "prepared"
             /\ pc' = "undoCatalog" /\ UNCHANGED <<disk, memory>>
    <3>1. Covers(disk.workspaces, disk.journal) /\ Images(disk.journal)
      BY <1>3, <1>12, <2>3 DEF resolveFailedCommit, UndoingInv, Prepared
    <3>2. Covers(disk.workspaces, disk.journal)' /\ Images(disk.journal)' /\ Prepared'
      BY <2>3, <3>1 DEF Covers, Images, Prepared, memory
    <3> QED BY <1>3, <1>12, <2>3, <3>2
            DEF resolveFailedCommit, memory, DaemonInv, CommittingInv, UndoingInv
  <2> QED BY <1>12, <2>1, <2>2, <2>3 DEF resolveFailedCommit
<1>13. CASE RestoreFiles
  <2> DEFINE j == disk.journal
             back == Restored(cache, j)
  <2>1. UNCHANGED <<labels, cache, blocked, serving, request>> /\ pc \in UndoWrites
        /\ disk' = Written
    BY <1>13 DEF RestoreFiles, memory
  <2>2. j \in Journals /\ Prepared /\ Covers(disk.workspaces, j) /\ (serving => Images(j))
    BY <1>1, <1>3, <2>1 DEF TypeInv, UndoingInv
  <2>3. /\ Covers(back, j)
        /\ ~RestoreWrites(cache, j) => disk.workspaces = back
    BY <1>2, <2>2, CoversRestored
  <2>4. CASE pc = "undoCatalog"
    <3>1. disk'.catalog = j.labels /\ disk'.journal = j /\ disk'.workspaces = disk.workspaces
      BY <1>2, <2>1, <2>4 DEF Written, Disks
    <3>2. pc' = IF RestoreWrites(cache, j) THEN "undoWorkspaces" ELSE "undoJournal"
      BY <1>13, <2>4 DEF RestoreFiles
    <3>3. Covers(disk.workspaces, j)' /\ Prepared' /\ (serving' => Images(j)')
      BY <2>1, <2>2, <3>1 DEF Covers, Images, Prepared
    <3>4. back' = back
      BY <2>1, <3>1 DEF Restored
    <3> HIDE DEF back
    <3>5. DaemonInv' /\ CommittingInv'
      BY <1>3, <2>1, <2>4, <3>2 DEF DaemonInv, CommittingInv
    <3>6. pc' = "undoJournal" => disk'.workspaces = back'
      BY <2>3, <3>1, <3>2, <3>4
    <3> QED BY <3>1, <3>2, <3>3, <3>5, <3>6 DEF UndoingInv, back
  <2>5. CASE pc = "undoWorkspaces"
    <3>1. disk'.catalog = disk.catalog /\ disk'.journal = j /\ disk'.workspaces = back
      BY <1>2, <2>1, <2>5 DEF Written, Disks
    <3>2. pc' = "undoJournal" /\ disk.catalog = j.labels
      BY <1>3, <1>13, <2>5 DEF RestoreFiles, UndoingInv
    <3>3. back' = back
      BY <2>1, <3>1 DEF Restored
    <3>4. Covers(disk.workspaces, j)' /\ Prepared' /\ (serving' => Images(j)')
      <4> HIDE DEF back
      <4> QED BY <2>1, <2>2, <2>3, <3>1 DEF Covers, Images, Prepared
    <3>5. DaemonInv' /\ CommittingInv'
      BY <1>3, <2>1, <2>5, <3>2 DEF DaemonInv, CommittingInv
    <3> HIDE DEF back
    <3> QED BY <3>1, <3>2, <3>3, <3>4, <3>5 DEF UndoingInv, back
  <2> QED BY <1>13, <2>4, <2>5 DEF RestoreFiles
<1>14. CASE RemovePrepared
  <2>1. disk'.journal = None /\ disk'.catalog = disk.catalog /\ disk'.workspaces = disk.workspaces
    BY <1>2, <1>14 DEF RemovePrepared, Written, Disks
  <2>2. disk.catalog = disk.journal.labels /\ disk.workspaces = Restored(cache, disk.journal)
    BY <1>3, <1>14 DEF RemovePrepared, UndoingInv
  <2>3. Settled'
    BY <1>14, <2>1, <2>2 DEF RemovePrepared, Settled, Prepared
  <2> QED BY <1>14, <2>3 DEF RemovePrepared, DaemonInv, CommittingInv, UndoingInv
<1>15. CASE RestoreFails
  BY <1>3, <1>15 DEF RestoreFails, DaemonInv, CommittingInv, UndoingInv
<1>16. CASE Crash
  BY <1>16 DEF Crash, DaemonInv, CommittingInv, UndoingInv
<1>17. CASE Boot
  BY <1>3, <1>17 DEF Boot, DaemonInv, CommittingInv, UndoingInv
<1>18. CASE loadAndRecover
  <2>1. CASE Prepared
    <3>1. pc' = "undoCatalog" /\ cache = disk.workspaces /\ ~serving
          /\ UNCHANGED <<disk, labels, cache, blocked, serving>>
      BY <1>3, <1>18, <2>1 DEF loadAndRecover, Prepared, DaemonInv
    <3>2. Covers(disk.workspaces, disk.journal)' /\ Prepared'
      BY <2>1, <3>1 DEF Covers, Prepared
    <3> QED BY <1>3, <1>18, <3>1, <3>2
            DEF loadAndRecover, DaemonInv, CommittingInv, UndoingInv
  <2>2. CASE ~Prepared
    <3>1. pc' = "idle" /\ labels' = disk.catalog /\ serving' /\ cache' = disk.workspaces
          /\ removeTransaction
      BY <1>3, <1>18, <2>2 DEF loadAndRecover, Prepared, DaemonInv
    <3>2. Settled'
      BY <1>2, <2>2, <3>1 DEF removeTransaction, Settled, Prepared, Disks
    <3> QED BY <3>1, <3>2 DEF DaemonInv, CommittingInv, UndoingInv
  <2> QED BY <2>1, <2>2
<1>19. ASSUME NEW w \in Workspaces, archive(w) \/ remove(w)
       PROVE  DaemonInv' /\ CommittingInv' /\ UndoingInv'
  <2>1. /\ MutationQueueFree /\ ~blocked /\ UNCHANGED <<labels, blocked, serving, request, pc>>
        /\ disk' = [disk EXCEPT !.workspaces = cache']
    BY <1>19 DEF archive, remove, mutateCache
  <2>2. disk'.journal = disk.journal /\ disk'.catalog = disk.catalog /\ disk'.workspaces = cache'
    BY <1>2, <2>1 DEF Disks
  <2>3. ASSUME NEW v \in Workspaces, cache'[v] # None
        PROVE  cache[v] # None /\ cache'[v].labels = cache[v].labels
    <3>1. CASE v = w
      <4>1. cache[v] # None /\ cache[v] \in Records
        BY <1>2, <1>19, <3>1 DEF archive, remove, mutateCache, Registries
      <4>2. cache'[v] = [cache[v] EXCEPT !.archived = TRUE]
        BY <1>2, <1>19, <2>3, <3>1 DEF archive, remove, mutateCache, Registries
      <4> QED BY <4>1, <4>2 DEF Records
    <3>2. CASE v # w
      BY <1>2, <1>19, <2>3, <3>2 DEF archive, remove, mutateCache, Registries
    <3> QED BY <3>1, <3>2
  <2>4. Covers(disk.workspaces, disk.journal)'
    BY <2>2 DEF Covers
  <2>5. Images(disk.journal) => Images(disk.journal)'
    BY <2>1, <2>2, <2>3 DEF Images
  <2>6. Prepared' = Prepared
    BY <2>2 DEF Prepared
  <2>7. Settled => Settled'
    BY <2>1, <2>2, <2>6 DEF Settled
  <2> QED BY <1>3, <2>1, <2>2, <2>4, <2>5, <2>6, <2>7
          DEF MutationQueueFree, DaemonInv, CommittingInv, UndoingInv
<1>20. CASE UNCHANGED vars
  <2>1. Settled' = Settled /\ Prepared' = Prepared
    BY <1>20 DEF vars, Settled, Prepared
  <2>2. Covers(disk.workspaces, disk.journal)' = Covers(disk.workspaces, disk.journal)
        /\ Images(disk.journal)' = Images(disk.journal)
    BY <1>20 DEF vars, Covers, Images
  <2>3. transactionFor(request)' = transactionFor(request)
    BY <1>20 DEF vars, transactionFor
  <2> QED BY <1>3, <1>20, <2>1, <2>2, <2>3
          DEF vars, DaemonInv, CommittingInv, UndoingInv
<1> QED BY <1>6, <1>7, <1>8, <1>9, <1>10, <1>11, <1>12, <1>13, <1>14, <1>15, <1>16, <1>17,
           <1>18, <1>19, <1>20 DEF Next, Step

LEMMA CommitInit ==
  ASSUME Init
  PROVE  CommitInv
BY TypeInit DEF Init, CommitInv, DaemonInv, CommittingInv, UndoingInv, CommitWrites, UndoWrites

LEMMA CommitInvariance == Spec => []CommitInv
BY CommitInit, CommitStep, PTL DEF Spec

\* Between requests the daemon serves what its files say: an acknowledged
\* request is durable and a rejected one has left nothing behind, whatever
\* writes failed and whenever the daemon crashed.
THEOREM ServedDurably == Spec => []ServedIsDurable
<1>1. CommitInv => ServedIsDurable
  BY DEF CommitInv, CommittingInv, Settled, ServedIsDurable
<1> QED BY <1>1, CommitInvariance, PTL

(***************************************************************************)
(* The files implement AtomicLabels.                                       *)
(***************************************************************************)
SameView == DurableCatalog' = DurableCatalog /\ DurableRecords' = DurableRecords

\* While a commit is under way the files stand for what the daemon serves.
LEMMA CommittingView ==
  ASSUME CommitInv, pc \in {"catalog", "workspaces", "committed"}
  PROVE  Prepared /\ DurableCatalog = labels /\ DurableRecords = cache
<1> DEFINE j == transactionFor(request)
<1>1. request \in Requests /\ labels \in Catalogs /\ cache \in Registries
  BY DEF CommitInv, TypeInv, TypeOK, CommitWrites
<1>2. disk.journal = j
  BY DEF CommitInv, CommittingInv
<1>3. disk.workspaces \in {cache, RecordsAfter(request, labels, cache)}
  BY DEF CommitInv, CommittingInv
<1>4. j \in Journals /\ Restored(disk.workspaces, j) = cache
  BY <1>1, <1>3, TransactionImages
<1>5. Prepared /\ j.labels = labels
  BY <1>2, <1>4, JournalAssumption DEF Prepared, transactionFor
<1> HIDE DEF j
<1> QED BY <1>2, <1>4, <1>5 DEF DurableCatalog, DurableRecords

\* A prepared journal that covers the files stands for the cache with the
\* before-images put back.
LEMMA CoveredView ==
  ASSUME CommitInv, Prepared, Covers(disk.workspaces, disk.journal)
  PROVE  /\ disk.journal \in Journals
         /\ DurableCatalog = disk.journal.labels
         /\ DurableRecords = Restored(cache, disk.journal)
<1>1. disk.journal \in Journals /\ disk.workspaces \in Registries /\ cache \in Registries
  BY DEF CommitInv, TypeInv, TypeOK, Disks, Prepared
<1> QED BY <1>1, CoversRestored DEF DurableCatalog, DurableRecords

\* No write but the committed marker's changes what the files stand for.
LEMMA WrittenView ==
  ASSUME CommitInv, CommitInv', pc # "committed", disk' = Written
  PROVE  SameView
<1>1. /\ disk \in Disks /\ labels \in Catalogs /\ cache \in Registries
      /\ disk.workspaces \in Registries /\ pc \in Places
  BY DEF CommitInv, TypeInv, TypeOK, Disks
<1>2. CASE pc = "journal"
  <2> DEFINE j == transactionFor(request)
  <2>1. Settled /\ request \in Requests
    BY <1>2 DEF CommitInv, CommittingInv, DaemonInv, TypeInv, CommitWrites
  <2>2. disk'.journal = j /\ disk'.workspaces = cache
    BY <1>1, <1>2, <2>1 DEF Written, Disks, Settled
  <2>3. j \in Journals /\ Restored(cache, j) = cache
    BY <1>1, <2>1, TransactionImages
  <2>4. Prepared' /\ j.labels = labels
    BY <2>2, <2>3, JournalAssumption DEF Prepared, transactionFor
  <2> HIDE DEF j
  <2>5. DurableCatalog' = labels /\ DurableRecords' = cache
    BY <2>2, <2>3, <2>4 DEF DurableCatalog, DurableRecords, Restored
  <2> QED BY <2>1, <2>5 DEF SameView, Settled, DurableCatalog, DurableRecords
<1>3. CASE pc \in {"catalog", "undoCatalog"}
  <2>1. disk'.journal = disk.journal /\ disk'.workspaces = disk.workspaces
    BY <1>1, <1>3 DEF Written, Disks
  <2>2. Prepared
    BY <1>3, CommittingView DEF CommitInv, UndoingInv, UndoWrites
  <2> QED BY <2>1, <2>2 DEF SameView, DurableCatalog, DurableRecords, Prepared, Restored
<1>4. CASE pc = "workspaces"
  <2> DEFINE j == transactionFor(request)
             after == RecordsAfter(request, labels, cache)
  <2>1. disk.journal = j /\ request \in Requests
    BY <1>4 DEF CommitInv, CommittingInv, TypeInv, CommitWrites
  <2>2. disk'.journal = j /\ disk'.workspaces = after
    BY <1>1, <1>4, <2>1 DEF Written, Disks
  <2>3. Restored(after, j) = cache /\ j.labels = labels
    BY <1>1, <2>1, TransactionImages DEF transactionFor
  <2>4. Prepared /\ DurableCatalog = labels /\ DurableRecords = cache
    BY <1>4, CommittingView
  <2> HIDE DEF j, after
  <2> QED BY <2>1, <2>2, <2>3, <2>4
          DEF SameView, DurableCatalog, DurableRecords, Prepared, Restored
<1>5. CASE pc = "undoWorkspaces"
  <2> DEFINE j == disk.journal
             back == Restored(cache, j)
  <2>1. Prepared /\ Covers(disk.workspaces, j)
    BY <1>5 DEF CommitInv, UndoingInv, UndoWrites
  <2>2. j \in Journals /\ DurableCatalog = j.labels /\ DurableRecords = back
    BY <2>1, CoveredView
  <2>3. disk'.journal = j /\ disk'.workspaces = back
    BY <1>1, <1>5 DEF Written, Disks
  <2>4. back \in Registries /\ Covers(back, j)
    BY <1>1, <2>1, <2>2, RestoredType, CoversRestored
  <2>5. Restored(back, j) = back
    BY <1>1, <2>2, <2>4, CoversRestored
  <2> HIDE DEF back
  <2> QED BY <2>1, <2>2, <2>3, <2>5
          DEF SameView, DurableCatalog, DurableRecords, Prepared, Restored
<1>6. CASE pc = "undoJournal"
  <2>1. Prepared /\ Covers(disk.workspaces, disk.journal)
        /\ disk.catalog = disk.journal.labels /\ disk.workspaces = Restored(cache, disk.journal)
    BY <1>6 DEF CommitInv, UndoingInv, UndoWrites
  <2>2. DurableCatalog = disk.catalog /\ DurableRecords = disk.workspaces
    BY <2>1, CoveredView
  <2>3. disk'.journal = None /\ disk'.catalog = disk.catalog /\ disk'.workspaces = disk.workspaces
    BY <1>1, <1>6 DEF Written, Disks
  <2> QED BY <2>2, <2>3 DEF SameView, DurableCatalog, DurableRecords, Prepared
<1>7. CASE pc = "cleanup"
  <2>1. ~Prepared
    BY <1>7 DEF CommitInv, CommittingInv, DaemonInv, Settled
  <2>2. disk'.journal = None /\ disk'.catalog = disk.catalog /\ disk'.workspaces = disk.workspaces
    BY <1>1, <1>7 DEF Written, Disks
  <2> QED BY <2>1, <2>2 DEF SameView, DurableCatalog, DurableRecords, Prepared
<1>8. CASE pc \in {"down", "load", "idle", "resolve"}
  <2>1. disk' = disk
    BY <1>8 DEF Written
  <2> QED BY <2>1 DEF SameView, DurableCatalog, DurableRecords, Prepared, Restored
<1> QED BY <1>1, <1>2, <1>3, <1>4, <1>5, <1>6, <1>7, <1>8 DEF Places, CommitWrites, UndoWrites

\* The committed marker applies the request to what the files stand for.
LEMMA MarkerApplies ==
  ASSUME CommitInv, pc = "committed", disk' = Written
  PROVE  request \in Requests /\ Atomic!Apply(request)
<1>1. disk \in Disks /\ request \in Requests /\ disk.journal \in Journals
  BY DEF CommitInv, TypeInv, TypeOK, CommitWrites
<1>2. DurableCatalog = labels /\ DurableRecords = cache
  BY CommittingView
<1>3. disk.catalog = CatalogAfter(request, labels)
      /\ disk.workspaces = RecordsAfter(request, labels, cache)
      /\ ~Refused(request, labels, cache)
  BY DEF CommitInv, CommittingInv, DaemonInv, CommitWrites
<1>4. disk' = [disk EXCEPT !.journal.phase = "committed"]
  BY DEF Written
<1>5. disk'.catalog = disk.catalog /\ disk'.workspaces = disk.workspaces
      /\ disk'.journal.phase = "committed"
  BY <1>1, <1>4 DEF Disks, Journals
<1>6. DurableCatalog' = CatalogAfter(request, labels)
      /\ DurableRecords' = RecordsAfter(request, labels, cache)
  BY <1>3, <1>5 DEF DurableCatalog, DurableRecords, Prepared
<1> QED BY <1>1, <1>2, <1>3, <1>6, SamePlans DEF Atomic!Apply

\* The registry's other mutations are mutations of what the files stand for.
LEMMA EditsView ==
  ASSUME CommitInv, "marker" \notin Faults, NEW w \in Workspaces
  PROVE  /\ archive(w) => Atomic!Archive(w)
         /\ remove(w) => Atomic!Remove(w)
<1>1. /\ disk \in Disks /\ cache \in Registries /\ disk.workspaces \in Registries
  BY DEF CommitInv, TypeInv, TypeOK, Disks
<1>2. ASSUME archive(w) \/ remove(w)
      PROVE  /\ disk' = [disk EXCEPT !.workspaces = cache']
             /\ pc \in {"load", "idle", "cleanup", "resolve"} /\ ~blocked
  BY <1>2 DEF archive, remove, mutateCache, MutationQueueFree
<1>3. ASSUME archive(w) \/ remove(w)
      PROVE  disk'.workspaces = cache' /\ disk'.journal = disk.journal
             /\ disk'.catalog = disk.catalog
  BY <1>1, <1>2, <1>3 DEF Disks
<1>4. ASSUME archive(w) \/ remove(w), Prepared
      PROVE  /\ disk.journal \in Journals /\ Covers(disk.workspaces, disk.journal)
             /\ DurableRecords = Restored(cache, disk.journal)
             /\ DurableRecords' = Restored(cache', disk.journal)
             /\ DurableCatalog' = DurableCatalog
             /\ cache[w] # None => DurableRecords[w] # None
  <2>1. Covers(disk.workspaces, disk.journal)
    <3>1. CASE pc = "load"
      <4>1. cache = disk.workspaces
        BY <3>1 DEF CommitInv, DaemonInv
      <4> QED BY <4>1 DEF Covers
    <3>2. CASE pc = "resolve"
      BY <1>4, <3>2 DEF CommitInv, UndoingInv
    <3>3. CASE pc \in {"idle", "cleanup"}
      BY <1>2, <1>4, <3>3 DEF CommitInv, CommittingInv, Settled
    <3> QED BY <1>2, <1>4, <3>1, <3>2, <3>3
  <2>2. /\ disk.journal \in Journals
        /\ DurableCatalog = disk.journal.labels
        /\ DurableRecords = Restored(cache, disk.journal)
    BY <1>4, <2>1, CoveredView
  <2>3. DurableRecords' = Restored(cache', disk.journal)
        /\ DurableCatalog' = disk.journal.labels
    BY <1>3, <1>4 DEF DurableRecords, DurableCatalog, Prepared, Restored
  <2>4. Covers(Restored(cache, disk.journal), disk.journal)
    BY <1>1, <2>1, <2>2, CoversRestored
  <2>5. cache[w] # None => DurableRecords[w] # None
    BY <2>2, <2>4 DEF Covers
  <2> QED BY <2>1, <2>2, <2>3, <2>5
<1>5. ASSUME archive(w) \/ remove(w), ~Prepared
      PROVE  DurableRecords = cache /\ DurableRecords' = cache' /\ DurableCatalog' = DurableCatalog
  <2>1. cache = disk.workspaces
    BY <1>2, <1>5 DEF CommitInv, DaemonInv, CommittingInv, UndoingInv, Settled
  <2> QED BY <1>3, <1>5, <2>1 DEF DurableRecords, DurableCatalog, Prepared
<1>6. ASSUME archive(w)
      PROVE  Atomic!Archive(w)
  <2>1. cache[w] # None /\ cache' = [cache EXCEPT ![w].archived = TRUE]
    BY <1>6 DEF archive, mutateCache
  <2>2. CASE Prepared
    <3> DEFINE j == disk.journal
    <3>2. /\ j \in Journals
          /\ DurableRecords = Restored(cache, j) /\ DurableRecords' = Restored(cache', j)
      BY <1>4, <1>6, <2>2
    <3> HIDE DEF j
    <3>3. Restored(ArchivedIn(cache, w), j) = ArchivedIn(Restored(cache, j), w)
      BY <1>1, <2>1, <3>2, RestoredArchive
    <3>4. cache' = ArchivedIn(cache, w)
      BY <2>1 DEF ArchivedIn
    <3>5. DurableRecords' = ArchivedIn(DurableRecords, w)
      BY <3>2, <3>3, <3>4
    <3>6. DurableRecords' = [DurableRecords EXCEPT ![w].archived = TRUE]
      BY <3>5 DEF ArchivedIn
    <3> QED BY <1>4, <1>6, <2>1, <2>2, <3>6 DEF Atomic!Archive
  <2>3. CASE ~Prepared
    BY <1>5, <1>6, <2>1, <2>3 DEF Atomic!Archive
  <2> QED BY <2>2, <2>3
<1>7. ASSUME remove(w)
      PROVE  Atomic!Remove(w)
  <2>1. cache' = [cache EXCEPT ![w] = None]
    BY <1>7 DEF remove, mutateCache
  <2>2. CASE Prepared
    <3> DEFINE j == disk.journal
    <3>2. /\ j \in Journals
          /\ DurableRecords = Restored(cache, j) /\ DurableRecords' = Restored(cache', j)
      BY <1>4, <1>7, <2>2
    <3> HIDE DEF j
    <3>3. Restored([cache EXCEPT ![w] = None], j) = [Restored(cache, j) EXCEPT ![w] = None]
      BY <1>1, <3>2, RestoredRemove
    <3>1. DurableRecords' = [DurableRecords EXCEPT ![w] = None]
      BY <2>1, <3>2, <3>3
    <3> QED BY <1>4, <1>7, <2>2, <3>1 DEF Atomic!Remove
  <2>3. CASE ~Prepared
    BY <1>5, <1>7, <2>1, <2>3 DEF Atomic!Remove
  <2> QED BY <2>2, <2>3
<1> QED BY <1>6, <1>7

\* Every step leaves what the files stand for alone, or commits the request, or
\* is a mutation of the registry.
LEMMA ViewStep ==
  ASSUME CommitInv, CommitInv', [Next]_vars, "marker" \notin Faults
  PROVE  \/ SameView
         \/ pc = "committed" /\ request \in Requests /\ Atomic!Apply(request)
         \/ \E w \in Workspaces : Atomic!Archive(w) \/ Atomic!Remove(w)
<1>1. disk \in Disks
  BY DEF CommitInv, TypeInv, TypeOK
<1>2. CASE disk' = disk
  BY <1>2 DEF SameView, DurableCatalog, DurableRecords, Prepared, Restored
<1>3. CASE disk' = Written /\ pc # "committed"
  BY <1>3, WrittenView
<1>4. CASE disk' = Written /\ pc = "committed"
  BY <1>4, MarkerApplies
<1>5. CASE ~Prepared /\ disk' = [disk EXCEPT !.journal = None]
  <2>1. disk'.journal = None /\ disk'.catalog = disk.catalog /\ disk'.workspaces = disk.workspaces
    BY <1>1, <1>5 DEF Disks
  <2> QED BY <1>5, <2>1 DEF SameView, DurableCatalog, DurableRecords, Prepared
<1>6. ASSUME NEW q \in Requests, Refuse(q) \/ Stage(q)
      PROVE  disk' = disk
  BY <1>6 DEF Refuse, Stage
<1>7. ASSUME Step \/ Crash
      PROVE  disk' = disk \/ disk' = Written \/ (~Prepared /\ disk' = [disk EXCEPT !.journal = None])
  <2>1. CASE Cleanup
    <3>1. ~Prepared
      BY <2>1 DEF Cleanup, CommitInv, CommittingInv, DaemonInv, Settled
    <3> QED BY <2>1, <3>1 DEF Cleanup, removeTransaction
  <2>2. CASE WriteBefore \/ WriteCommitted \/ WriteFails \/ RestoreFiles \/ RemovePrepared
              \/ RestoreFails \/ Crash
    BY <2>2 DEF WriteBefore, WriteCommitted, WriteFails, FailedWrite, RestoreFiles,
                RemovePrepared, RestoreFails, Crash
  <2>3. CASE resolveFailedCommit
    BY <2>3 DEF resolveFailedCommit, blockUntilRestart
  <2> QED BY <1>7, <2>1, <2>2, <2>3 DEF Step
<1>8. ASSUME Boot \/ loadAndRecover
      PROVE  disk' = disk \/ (~Prepared /\ disk' = [disk EXCEPT !.journal = None])
  BY <1>8 DEF Boot, loadAndRecover, removeTransaction, Prepared
<1>9. ASSUME NEW w \in Workspaces, archive(w) \/ remove(w)
      PROVE  Atomic!Archive(w) \/ Atomic!Remove(w)
  BY <1>9, EditsView
<1>10. CASE UNCHANGED vars
  BY <1>2, <1>10 DEF vars
<1> QED BY <1>2, <1>3, <1>4, <1>5, <1>6, <1>7, <1>8, <1>9, <1>10 DEF Next

\* Unless the committed marker takes effect and is reported as failed, what the
\* files stand for changes by whole requests and by the registry's own
\* mutations alone: no write that fails and no crash leaves a request in halves.
THEOREM CommitsAreAtomic ==
  ASSUME "marker" \notin Faults
  PROVE  Spec => ImplementsAtomicLabels
<1>1. ASSUME Init
      PROVE  Atomic!Init
  <2>1. disk.journal = None /\ disk.catalog = NoLabels
        /\ disk.workspaces \in [Workspaces -> {None, [labels |-> {}, archived |-> FALSE]}]
    BY <1>1 DEF Init
  <2>2. DurableCatalog = disk.catalog /\ DurableRecords = disk.workspaces
    BY <2>1 DEF DurableCatalog, DurableRecords, Prepared
  <2> QED BY <2>1, <2>2 DEF Atomic!Init, NoLabels
<1>2. ASSUME CommitInv, CommitInv', [Next]_vars
      PROVE  [Atomic!Next]_(Atomic!vars)
  <2>1. Atomic!Requests = Requests
    BY DEF Atomic!Requests, Requests
  <2>2. SameView => UNCHANGED Atomic!vars
    BY DEF SameView, Atomic!vars
  <2> QED BY <1>2, <2>1, <2>2, ViewStep DEF Atomic!Next
<1>3. Spec => Atomic!Spec
  BY <1>1, <1>2, CommitInvariance, PTL DEF Spec, Atomic!Spec
<1> QED BY <1>3 DEF ImplementsAtomicLabels

\* Unless that marker is lost, a request that failed, or that a crash cut off,
\* has no effect later: the roll back, the freeze and the next start leave
\* every label as it was.
THEOREM FailuresStayAborted ==
  ASSUME "marker" \notin Faults
  PROVE  Spec => NoLateEffect
<1> DEFINE Kept == /\ DurableCatalog' = DurableCatalog
                   /\ \A w \in Workspaces :
                        Held(w) # None /\ Held(w)' # None => Held(w)' = Held(w)
<1>1. ASSUME CommitInv, CommitInv', [Next]_vars, Undecided
      PROVE  Kept
  <2>1. pc # "committed"
    BY <1>1 DEF Undecided, UndoWrites
  <2>2. CASE SameView
    BY <2>2 DEF SameView, Held
  <2>3. ASSUME NEW w \in Workspaces, Atomic!Archive(w) \/ Atomic!Remove(w)
        PROVE  Kept
    <3>1. DurableCatalog' = DurableCatalog
      BY <2>3 DEF Atomic!Archive, Atomic!Remove
    <3>2. ASSUME NEW v \in Workspaces, Held(v) # None, Held(v)' # None
          PROVE  Held(v)' = Held(v)
      <4>1. DurableRecords[v] # None /\ DurableRecords'[v] # None
        BY <3>2 DEF Held
      <4>2. DurableRecords \in Registries
        <5>1. disk.workspaces \in Registries /\ disk.journal \in {None} \cup Journals
          BY <1>1 DEF CommitInv, TypeInv, TypeOK, Disks
        <5> QED BY <5>1, RestoredType DEF DurableRecords, Prepared
      <4>3. DurableRecords'[v].labels = DurableRecords[v].labels
        <5> DEFINE r == DurableRecords
                   s == DurableRecords'
        <5>1. s = [r EXCEPT ![w].archived = TRUE] \/ s = [r EXCEPT ![w] = None]
          BY <2>3 DEF Atomic!Archive, Atomic!Remove
        <5>2. r[v] \in Records /\ s[v] # None
          BY <4>1, <4>2 DEF Registries
        <5>3. r \in Registries
          BY <4>2
        <5> HIDE DEF r, s
        <5>4. s[v].labels = r[v].labels
          BY <5>1, <5>2, <5>3 DEF Registries, Records
        <5> QED BY <5>4 DEF r, s
      <4> QED BY <4>1, <4>3 DEF Held
    <3> QED BY <3>1, <3>2
  <2> QED BY <1>1, <2>1, <2>2, <2>3, ViewStep
<1> HIDE DEF Kept
<1>2. ASSUME CommitInv, CommitInv', [Next]_vars
      PROVE  [Undecided => Kept]_vars
  BY <1>1, <1>2
<1>3. Spec => [][Undecided => Kept]_vars
  BY <1>2, CommitInvariance, PTL DEF Spec
<1> QED BY <1>3 DEF NoLateEffect, Kept

(***************************************************************************)
(* The registry's own mutations survive.                                   *)
(***************************************************************************)
\* Two registries that differ in labels only.
SameRows(a, b) ==
  \A w \in Workspaces :
    /\ a[w] = None <=> b[w] = None
    /\ a[w] # None => a[w].archived = b[w].archived

\* While the daemon runs, file and cache never differ in more than labels.
RowsInv == pc # "down" => SameRows(cache, disk.workspaces)

\* Neither a plan nor a roll back adds, removes, archives or revives a record.
LEMMA LabelsOnly ==
  ASSUME NEW recs \in Registries, NEW cat \in Catalogs
  PROVE  /\ \A q \in Requests : SameRows(recs, RecordsAfter(q, cat, recs))
         /\ \A j \in Journals : SameRows(recs, Restored(recs, j))
<1>1. ASSUME NEW q \in Requests, NEW w \in Workspaces
      PROVE  /\ recs[w] = None <=> RecordsAfter(q, cat, recs)[w] = None
             /\ recs[w] # None => recs[w].archived = RecordsAfter(q, cat, recs)[w].archived
  <2>1. CASE w \in Reassigned(q, cat, recs)
    <3>1. recs[w] # None /\ recs[w] \in Records
      BY <2>1 DEF Reassigned, Registries
    <3>2. RecordsAfter(q, cat, recs)[w] = [recs[w] EXCEPT !.labels = HeldAfter(q, cat, recs, w)]
      BY <2>1 DEF RecordsAfter
    <3>3. RecordsAfter(q, cat, recs)[w] \in Records
      BY <3>1, <3>2, PlanTypes DEF Records
    <3> QED BY <3>1, <3>2, <3>3, NoneAssumption DEF Records
  <2>2. CASE w \notin Reassigned(q, cat, recs)
    BY <2>2 DEF RecordsAfter
  <2> QED BY <2>1, <2>2
<1>2. ASSUME NEW j \in Journals, NEW w \in Workspaces
      PROVE  /\ recs[w] = None <=> Restored(recs, j)[w] = None
             /\ recs[w] # None => recs[w].archived = Restored(recs, j)[w].archived
  <2>1. CASE recs[w] # None /\ j.holds[w] # None
    <3>1. recs[w] \in Records /\ j.holds[w] \in SUBSET Names
      BY <2>1 DEF Registries, Journals, Holdings
    <3>2. Restored(recs, j)[w] = [recs[w] EXCEPT !.labels = j.holds[w]]
      BY <2>1 DEF Restored
    <3> QED BY <2>1, <3>1, <3>2, NoneAssumption DEF Records
  <2>2. CASE ~(recs[w] # None /\ j.holds[w] # None)
    BY <2>2 DEF Restored
  <2> QED BY <2>1, <2>2
<1> QED BY <1>1, <1>2 DEF SameRows

\* An outstanding write leaves the workspaces file, or writes the cache with
\* other labels.
LEMMA WrittenRows ==
  ASSUME CommitInv, RowsInv
  PROVE  /\ pc # "down" => SameRows(cache, Written.workspaces)
         /\ SameRows(disk.workspaces, Written.workspaces)
<1>1. disk \in Disks /\ labels \in Catalogs /\ cache \in Registries
  BY DEF CommitInv, TypeInv, TypeOK
<1>2. CASE pc = "workspaces"
  <2>1. Written.workspaces = RecordsAfter(request, labels, cache) /\ request \in Requests
    BY <1>1, <1>2 DEF Written, Disks, CommitInv, TypeInv, CommitWrites
  <2> QED BY <1>1, <1>2, <2>1, LabelsOnly DEF RowsInv, SameRows
<1>3. CASE pc = "undoWorkspaces"
  <2>1. Written.workspaces = Restored(cache, disk.journal) /\ disk.journal \in Journals
    BY <1>1, <1>3 DEF Written, Disks, CommitInv, TypeInv, UndoWrites
  <2> QED BY <1>1, <1>3, <2>1, LabelsOnly DEF RowsInv, SameRows
<1>4. CASE pc \notin {"workspaces", "undoWorkspaces"}
  <2>1. Written.workspaces = disk.workspaces
    BY <1>1, <1>4 DEF Written, Disks
  <2> QED BY <2>1 DEF RowsInv, SameRows
<1> QED BY <1>2, <1>3, <1>4

\* A step leaves the workspaces file's rows, or is a mutation of the registry.
LEMMA RowsStep ==
  ASSUME CommitInv, RowsInv, [Next]_vars
  PROVE  /\ RowsInv'
         /\ \/ SameRows(disk.workspaces, disk'.workspaces)
            \/ \E w \in Workspaces : /\ archive(w) \/ remove(w)
                                     /\ pc # "down" /\ disk'.workspaces = cache'
<1>1. /\ disk \in Disks /\ labels \in Catalogs /\ cache \in Registries
      /\ disk.workspaces \in Registries
  BY DEF CommitInv, TypeInv, TypeOK, Disks
<1>2. \A recs : SameRows(recs, recs)
  BY DEF SameRows
<1>3. ASSUME disk' \in {disk, Written, [disk EXCEPT !.journal = None]},
             pc # "down" => cache' = cache \/ pc' = "down",
             pc = "down" => cache' = disk.workspaces /\ disk' = disk
      PROVE  RowsInv' /\ SameRows(disk.workspaces, disk'.workspaces)
  <2>1. CASE disk' = Written
    BY <1>2, <1>3, <2>1, WrittenRows DEF RowsInv
  <2>2. CASE disk' = disk \/ disk' = [disk EXCEPT !.journal = None]
    <3>1. disk'.workspaces = disk.workspaces
      BY <1>1, <2>2 DEF Disks
    <3> QED BY <1>2, <1>3, <3>1 DEF RowsInv
  <2> QED BY <1>3, <2>1, <2>2
<1>4. CASE \E q \in Requests : Refuse(q) \/ Stage(q)
  BY <1>3, <1>4 DEF Refuse, Stage, memory
<1>5. CASE WriteBefore \/ WriteFails \/ Cleanup \/ RestoreFiles
  BY <1>3, <1>5 DEF WriteBefore, WriteFails, FailedWrite, Cleanup, removeTransaction,
     RestoreFiles, memory, CommitWrites
<1>6. CASE resolveFailedCommit
  BY <1>3, <1>6 DEF resolveFailedCommit, blockUntilRestart, memory
<1>7. CASE WriteCommitted \/ RemovePrepared
  <2>1. disk'.workspaces = disk.workspaces /\ SameRows(cache, disk.workspaces)
    BY <1>1, <1>7 DEF WriteCommitted, RemovePrepared, Written, Disks, RowsInv
  <2>2. SameRows(cache, cache')
    <3>1. CASE WriteCommitted
      BY <1>1, <3>1, LabelsOnly DEF WriteCommitted, CommitInv, TypeInv, CommitWrites
    <3>2. CASE RemovePrepared
      BY <1>1, <3>2, LabelsOnly DEF RemovePrepared, CommitInv, TypeInv, UndoWrites
    <3> QED BY <1>7, <3>1, <3>2
  <2> QED BY <1>2, <2>1, <2>2 DEF RowsInv, SameRows
<1>8. CASE RestoreFails
  <2>1. disk' = disk \/ disk' = Written
    BY <1>8 DEF RestoreFails, FailedWrite
  <2>2. pc # "down" /\ (cache' = cache \/ pc' = "down")
    BY <1>8 DEF RestoreFails, UndoWrites
  <2> QED BY <1>3, <2>1, <2>2
<1>9. CASE Crash \/ Boot
  BY <1>3, <1>9 DEF Crash, Boot
<1>10. CASE loadAndRecover
  BY <1>3, <1>10 DEF loadAndRecover, removeTransaction
<1>11. ASSUME NEW w \in Workspaces, archive(w) \/ remove(w)
       PROVE  RowsInv' /\ pc # "down" /\ disk'.workspaces = cache'
  <2>1. disk' = [disk EXCEPT !.workspaces = cache'] /\ pc # "down" /\ pc' = pc
    BY <1>11 DEF archive, remove, mutateCache, MutationQueueFree
  <2>2. disk'.workspaces = cache'
    BY <1>1, <2>1 DEF Disks
  <2> QED BY <1>2, <2>1, <2>2 DEF RowsInv
<1>12. CASE UNCHANGED vars
  BY <1>2, <1>12 DEF vars, RowsInv, SameRows
<1> QED
  BY <1>4, <1>5, <1>6, <1>7, <1>8, <1>9, <1>10, <1>11, <1>12 DEF Next, Step

LEMMA RowsInvariance == Spec => [](CommitInv /\ RowsInv)
<1>1. Init => RowsInv
  BY DEF Init, RowsInv
<1>2. CommitInv /\ RowsInv /\ [Next]_vars => RowsInv'
  BY RowsStep
<1> QED BY <1>1, <1>2, CommitInvariance, PTL DEF Spec

\* No commit, roll back or recovery brings a removed workspace back or revives
\* an archived one, whatever fails (the marker's write included).
THEOREM CommitsKeepEdits == Spec => EditsSurvive
<1> DEFINE Survive ==
      \A w \in Workspaces :
        /\ disk.workspaces[w] = None => disk'.workspaces[w] = None
        /\ disk.workspaces[w] # None /\ disk.workspaces[w].archived
             => disk'.workspaces[w] = None \/ disk'.workspaces[w].archived
<1>1. ASSUME CommitInv, RowsInv, [Next]_vars
      PROVE  Survive
  <2>1. CASE SameRows(disk.workspaces, disk'.workspaces)
    BY <2>1 DEF SameRows
  <2>2. ASSUME NEW v \in Workspaces, archive(v) \/ remove(v), pc # "down",
               disk'.workspaces = cache'
        PROVE  Survive
    <3>1. cache \in Registries /\ SameRows(cache, disk.workspaces) /\ cache[v] # None
      BY <1>1, <2>2 DEF CommitInv, TypeInv, TypeOK, RowsInv, archive, remove
    <3>2. cache[v] \in Records
      BY <3>1 DEF Registries
    <3>3. /\ \A w \in Workspaces \ {v} : cache'[w] = cache[w]
          /\ cache'[v] = None \/ cache'[v].archived
      BY <2>2, <3>1, <3>2 DEF archive, remove, mutateCache, Registries, Records
    <3> QED BY <2>2, <3>1, <3>3 DEF SameRows
  <2> QED BY <1>1, <2>1, <2>2, RowsStep
<1> HIDE DEF Survive
<1>2. CommitInv /\ RowsInv /\ [Next]_vars => [Survive]_vars
  BY <1>1
<1>3. Spec => [][Survive]_vars
  BY <1>2, RowsInvariance, PTL DEF Spec
<1> QED BY <1>3 DEF EditsSurvive, Survive

(***************************************************************************)
(* The labels that are held are defined.                                   *)
(***************************************************************************)
Defined(cat, recs) ==
  \A w \in Workspaces : recs[w] # None => \A n \in recs[w].labels : cat[n] # None

DefinedInv ==
  /\ Defined(DurableCatalog, DurableRecords)
  /\ serving => Defined(labels, cache)

\* A request that is not refused leaves no workspace with a label that is gone.
LEMMA PlansDefine ==
  ASSUME NEW q \in Requests, NEW cat \in Catalogs, NEW recs \in Registries,
         ~Refused(q, cat, recs), Defined(cat, recs)
  PROVE  Defined(CatalogAfter(q, cat), RecordsAfter(q, cat, recs))
<1> DEFINE after == RecordsAfter(q, cat, recs)
<1> SUFFICES ASSUME NEW w \in Workspaces, after[w] # None, NEW n \in after[w].labels
             PROVE  CatalogAfter(q, cat)[n] # None
  BY DEF Defined
<1>1. recs[w] # None /\ recs[w] \in Records
  BY LabelsOnly DEF SameRows, Registries
<1>2. after[w].labels = HeldAfter(q, cat, recs, w)
  BY <1>1 DEF RecordsAfter, Reassigned, Records
<1>3. HeldAfter(q, cat, recs, w) \in SUBSET Names
  BY <1>1, PlanTypes
<1>4. n \in HeldAfter(q, cat, recs, w) /\ n \in Names
  BY <1>2, <1>3
<1>5. \A m \in recs[w].labels : cat[m] # None
  BY <1>1 DEF Defined
<1> HIDE DEF after
<1>6. CASE q.kind = "set"
  <2>1. /\ q.name \in Names /\ q.color \in Colors /\ q.color # None
        /\ n \in recs[w].labels \/ (q.assigned /\ n = q.name)
    BY <1>4, <1>6, NoneAssumption DEF Requests, HeldAfter, updateAssignmentLabels
  <2> QED BY <1>4, <1>5, <1>6, <2>1 DEF CatalogAfter, Catalogs
<1>7. CASE q.kind = "update"
  <2>1. /\ q.name \in Names /\ q.newName \in Names /\ q.color \in Colors \cup {None}
        /\ cat[q.name] # None /\ (q.newName = q.name \/ cat[q.newName] = None)
    BY <1>7 DEF Requests, Refused
  <2>2. n = q.newName \/ (n \in recs[w].labels /\ n # q.name)
    BY <1>4, <1>7, <2>1 DEF HeldAfter, rewriteAssignments
  <2>3. CatalogAfter(q, cat)[q.newName] # None
    BY <1>7, <2>1 DEF CatalogAfter, Catalogs
  <2>4. n # q.newName /\ n # q.name => CatalogAfter(q, cat)[n] = cat[n]
    BY <1>4, <1>7, <2>1 DEF CatalogAfter, Catalogs
  <2> QED BY <1>5, <2>2, <2>3, <2>4
<1>8. CASE q.kind = "delete"
  <2>1. q.name \in Names
    BY <1>8 DEF Requests
  <2>2. n \in recs[w].labels /\ n # q.name
    BY <1>4, <1>5, <1>8 DEF HeldAfter, rewriteAssignments
  <2> QED BY <1>4, <1>5, <1>8, <2>1, <2>2 DEF CatalogAfter, Catalogs
<1>9. CASE q.kind = "count"
  BY <1>4, <1>5, <1>9 DEF HeldAfter, rewriteAssignments, CatalogAfter
<1> QED BY <1>6, <1>7, <1>8, <1>9 DEF Requests

\* The registry's own mutations keep labels defined.
LEMMA EditsDefine ==
  ASSUME NEW cat, NEW recs \in Registries, NEW after, NEW w \in Workspaces, Defined(cat, recs),
         \/ recs[w] # None /\ after = [recs EXCEPT ![w].archived = TRUE]
         \/ after = [recs EXCEPT ![w] = None]
  PROVE  Defined(cat, after)
<1>1. \A v \in Workspaces \ {w} : after[v] = recs[v]
  BY DEF Registries
<1>2. CASE after = [recs EXCEPT ![w] = None]
  BY <1>1, <1>2 DEF Defined, Registries
<1>3. CASE recs[w] # None /\ after = [recs EXCEPT ![w].archived = TRUE]
  <2>1. recs[w] \in Records
    BY <1>3 DEF Registries
  <2>2. after[w].labels = recs[w].labels
    BY <1>3, <2>1 DEF Registries, Records
  <2> QED BY <1>1, <1>3, <2>2 DEF Defined
<1> QED BY <1>2, <1>3

\* What the files stand for has its types.
LEMMA DurableTypes ==
  ASSUME CommitInv
  PROVE  DurableCatalog \in Catalogs /\ DurableRecords \in Registries
<1>1. /\ disk.workspaces \in Registries /\ disk.catalog \in Catalogs
      /\ disk.journal \in {None} \cup Journals
  BY DEF CommitInv, TypeInv, TypeOK, Disks
<1> QED BY <1>1, RestoredType DEF DurableRecords, DurableCatalog, Prepared, Journals

\* Every step keeps labels defined.
LEMMA DefinedStep ==
  ASSUME CommitInv, CommitInv', DefinedInv, [Next]_vars, "marker" \notin Faults
  PROVE  DefinedInv'
<1>1. /\ DurableCatalog \in Catalogs /\ DurableRecords \in Registries
      /\ labels \in Catalogs /\ cache \in Registries
  BY DurableTypes DEF CommitInv, TypeInv, TypeOK
<1>2. Defined(DurableCatalog, DurableRecords)'
  <2>1. CASE SameView
    BY <2>1 DEF SameView, DefinedInv, Defined
  <2>2. CASE request \in Requests /\ Atomic!Apply(request)
    BY <1>1, <2>2, PlansDefine, SamePlans DEF Atomic!Apply, DefinedInv, Defined
  <2>3. ASSUME NEW w \in Workspaces, Atomic!Archive(w) \/ Atomic!Remove(w)
        PROVE  Defined(DurableCatalog, DurableRecords)'
    <3>1. Defined(DurableCatalog, DurableRecords')
      BY <1>1, <2>3, EditsDefine DEF Atomic!Archive, Atomic!Remove, DefinedInv
    <3> QED BY <2>3, <3>1 DEF Atomic!Archive, Atomic!Remove, Defined
  <2> QED BY <2>1, <2>2, <2>3, ViewStep
<1>3. ASSUME serving' PROVE Defined(labels, cache)'
  <2>1. CASE labels' = labels /\ cache' = cache /\ serving
    BY <2>1 DEF DefinedInv, Defined
  <2>2. CASE WriteCommitted
    <3>1. request \in Requests /\ ~Refused(request, labels, cache) /\ serving
      BY <2>2 DEF WriteCommitted, CommitInv, TypeInv, DaemonInv, CommitWrites, UndoWrites
    <3>2. Defined(CatalogAfter(request, labels), RecordsAfter(request, labels, cache))
      BY <1>1, <3>1, PlansDefine DEF DefinedInv
    <3> QED BY <2>2, <3>2 DEF WriteCommitted, Defined
  <2>3. CASE RemovePrepared
    <3>1. Prepared /\ Covers(disk.workspaces, disk.journal)
      BY <2>3 DEF RemovePrepared, CommitInv, UndoingInv, UndoWrites
    <3>2. DurableCatalog = labels' /\ DurableRecords = cache'
      BY <2>3, <3>1, CoveredView DEF RemovePrepared
    <3> QED BY <3>2 DEF DefinedInv, Defined
  <2>4. CASE loadAndRecover /\ ~Prepared
    <3>1. labels' = disk.catalog /\ cache' = disk.workspaces
      BY <2>4 DEF loadAndRecover, Prepared, CommitInv, DaemonInv
    <3> QED BY <2>4, <3>1 DEF DefinedInv, Defined, DurableCatalog, DurableRecords
  <2>5. ASSUME NEW w \in Workspaces, archive(w) \/ remove(w) PROVE Defined(labels, cache)'
    <3>1. Defined(labels, cache')
      BY <1>1, <1>3, <2>5, EditsDefine DEF archive, remove, mutateCache, DefinedInv
    <3> QED BY <2>5, <3>1 DEF archive, remove, mutateCache, Defined
  <2>6. CASE \E q \in Requests : Refuse(q) \/ Stage(q)
    BY <1>3, <2>1, <2>6 DEF Refuse, Stage, memory
  <2>7. CASE WriteBefore \/ WriteFails \/ Cleanup \/ resolveFailedCommit \/ RestoreFiles
    BY <1>3, <2>1, <2>7 DEF WriteBefore, WriteFails, Cleanup, resolveFailedCommit, blockUntilRestart,
       RestoreFiles, memory
  <2>8. CASE RestoreFails \/ Crash \/ Boot \/ (loadAndRecover /\ Prepared)
    BY <1>3, <2>1, <2>8 DEF RestoreFails, Crash, Boot, loadAndRecover, Prepared, CommitInv, DaemonInv
  <2>9. CASE UNCHANGED vars
    BY <1>3, <2>1, <2>9 DEF vars
  <2> QED BY <2>2, <2>3, <2>4, <2>5, <2>6, <2>7, <2>8, <2>9 DEF Next, Step
<1> QED BY <1>2, <1>3 DEF DefinedInv

\* Unless the marker is lost, a label that a workspace holds is in the catalog:
\* in what the files stand for, whatever else fails, and in what the daemon serves.
THEOREM HeldLabelsAreDefined ==
  ASSUME "marker" \notin Faults
  PROVE  Spec => []LabelsDefined
<1>1. ASSUME Init PROVE DefinedInv
  <2>1. disk.journal = None /\ ~serving
        /\ disk.workspaces \in [Workspaces -> {None, [labels |-> {}, archived |-> FALSE]}]
    BY <1>1 DEF Init
  <2> QED BY <2>1 DEF DefinedInv, Defined, DurableRecords, Prepared
<1>2. CommitInv /\ CommitInv' /\ DefinedInv /\ [Next]_vars => DefinedInv'
  BY DefinedStep
<1>3. DefinedInv => LabelsDefined
  BY DEF DefinedInv, Defined, LabelsDefined
<1> QED BY <1>1, <1>2, <1>3, CommitInvariance, PTL DEF Spec
=============================================================================
