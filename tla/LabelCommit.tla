---------------------------- MODULE LabelCommit ----------------------------
(***************************************************************************)
(* The compound commit of WorkspaceLabelCatalogStore over the workspace    *)
(* registry: a journal, the catalog file and the workspaces file, written  *)
(* one after the other, with the roll back of a commit that failed, the    *)
(* freeze when its outcome is in doubt, and the recovery at startup.       *)
(*                                                                         *)
(* A write is atomic (a rename), but it may be refused, it may take effect *)
(* and still be reported as failed, and the daemon may crash before or     *)
(* after it took effect. Between two writes of a commit the registry's     *)
(* mutation queue keeps its other mutations out; before the roll back of a *)
(* failed commit it lets them in.                                          *)
(***************************************************************************)
EXTENDS LabelPlans

\* What may go wrong beside a crash: a write is "refused"; a write other than
\* the committed marker's takes effect and is reported as failed ("unacked");
\* the committed "marker" is; the journal's "cleanup" fails; the journal cannot
\* be "read" after a failed commit.
CONSTANT Faults

VARIABLES
  disk,      \* the files: catalog, workspaces and journal (None when absent)
  labels,    \* the catalog store's labels
  cache,     \* the registry's cache
  blocked,   \* label commits and registry mutations are refused until restart
  serving,   \* the daemon got through startup
  request,   \* the request being committed
  pc         \* the write that is outstanding, or what the store waits for

vars == <<disk, labels, cache, blocked, serving, request, pc>>
memory == <<labels, cache, blocked, serving>>

Phases == {"prepared", "committed"}
Holdings == [Workspaces -> {None} \cup SUBSET Names]
Journals == [phase : Phases, labels : Catalogs, holds : Holdings]
Disks == [catalog : Catalogs, workspaces : Registries, journal : {None} \cup Journals]

ASSUME JournalAssumption == \A j \in Journals : None # j

CommitWrites == {"journal", "catalog", "workspaces", "committed"}
UndoWrites == {"undoCatalog", "undoWorkspaces", "undoJournal"}
Places == CommitWrites \cup UndoWrites \cup {"down", "load", "idle", "cleanup", "resolve"}

NoLabels == [n \in Names |-> None]
NoRecords == [w \in Workspaces |-> None]

(***************************************************************************)
(* What the outstanding write leaves on disk.                              *)
(***************************************************************************)
\* Mutant: the before-images of the catalog alone.
TransactionForCatalog(q) ==
  [phase |-> "prepared", labels |-> labels, holds |-> [w \in Workspaces |-> None]]

\* The before-images of the request.
transactionFor(q) ==
  [phase |-> "prepared",
   labels |-> labels,
   holds |-> [w \in Workspaces |->
                IF w \in Reassigned(q, labels, cache) THEN cache[w].labels ELSE None]]

\* Mutant: the record is put back as it was when the label was planned.
RestoreRecords(recs, journal) ==
  [w \in Workspaces |->
     IF recs[w] # None /\ journal.holds[w] # None
       THEN [labels |-> journal.holds[w], archived |-> FALSE]
       ELSE recs[w]]

\* The records with the labels of the before-images put back.
Restored(recs, journal) ==
  [w \in Workspaces |->
     IF recs[w] # None /\ journal.holds[w] # None
       THEN [recs[w] EXCEPT !.labels = journal.holds[w]]
       ELSE recs[w]]
RestoreWrites(recs, journal) ==
  \E w \in Workspaces : recs[w] # None /\ journal.holds[w] # None

Written ==
  CASE pc = "journal"        -> [disk EXCEPT !.journal = transactionFor(request)]
    [] pc = "catalog"        -> [disk EXCEPT !.catalog = CatalogAfter(request, labels)]
    [] pc = "workspaces"     -> [disk EXCEPT !.workspaces = RecordsAfter(request, labels, cache)]
    [] pc = "committed"      -> [disk EXCEPT !.journal.phase = "committed"]
    [] pc = "undoCatalog"    -> [disk EXCEPT !.catalog = disk.journal.labels]
    [] pc = "undoWorkspaces" -> [disk EXCEPT !.workspaces = Restored(cache, disk.journal)]
    [] pc \in {"undoJournal", "cleanup"} -> [disk EXCEPT !.journal = None]
    [] OTHER                 -> disk

\* A write that is reported as failed.
FailedWrite ==
  \/ "refused" \in Faults /\ disk' = disk
  \/ "unacked" \in Faults /\ pc # "committed" /\ disk' = Written
  \/ "marker" \in Faults /\ pc = "committed" /\ disk' = Written

Init ==
  /\ disk \in [catalog : {NoLabels},
               workspaces : [Workspaces -> {None, [labels |-> {}, archived |-> FALSE]}],
               journal : {None}]
  /\ labels = NoLabels /\ cache = NoRecords
  /\ blocked = FALSE /\ serving = FALSE
  /\ request = None /\ pc = "down"

(***************************************************************************)
(* A label request.                                                        *)
(***************************************************************************)
\* The planner refuses: the error path runs although nothing was written.
Refuse(q) ==
  /\ pc = "idle" /\ ~blocked
  /\ Refused(q, labels, cache)
  /\ request' = q /\ pc' = "resolve"
  /\ UNCHANGED <<disk, memory>>

\* The planner's result is staged; without a change only the journal's
\* removal is left to do.
Stage(q) ==
  /\ pc = "idle" /\ ~blocked
  /\ ~Refused(q, labels, cache)
  /\ request' = q
  /\ pc' = IF forcePersist(q, labels, cache) THEN "journal" ELSE "cleanup"
  /\ UNCHANGED <<disk, memory>>

\* beforeWorkspaceWrite: the prepared journal, then the catalog; then the
\* records, if they change.
WriteBefore ==
  /\ disk' = Written
  /\ \/ pc = "journal" /\ pc' = "catalog"
     \/ /\ pc = "catalog"
        /\ pc' = IF Reassigned(request, labels, cache) # {} THEN "workspaces" ELSE "committed"
     \/ pc = "workspaces" /\ pc' = "committed"
  /\ UNCHANGED <<memory, request>>

\* afterWorkspaceWrite and afterCommit: the journal's phase is the commit
\* point, and only then the caches follow.
WriteCommitted ==
  /\ pc = "committed"
  /\ disk' = Written
  /\ labels' = CatalogAfter(request, labels)
  /\ cache' = RecordsAfter(request, labels, cache)
  /\ pc' = "cleanup"
  /\ UNCHANGED <<blocked, serving, request>>

\* A write of the commit is reported as failed, whether it took effect or not.
WriteFails ==
  /\ pc \in CommitWrites
  /\ FailedWrite
  /\ pc' = "resolve"
  /\ UNCHANGED <<memory, request>>

\* The journal's removal is best effort.
removeTransaction ==
  disk' \in {[disk EXCEPT !.journal = None]} \cup IF "cleanup" \in Faults THEN {disk} ELSE {}

\* The request is answered.
Cleanup ==
  /\ pc = "cleanup"
  /\ removeTransaction
  /\ request' = None /\ pc' = "idle"
  /\ UNCHANGED memory

(***************************************************************************)
(* A failed request.                                                       *)
(***************************************************************************)
blockUntilRestart ==
  /\ blocked' = TRUE
  /\ request' = None /\ pc' = "idle"
  /\ UNCHANGED <<disk, labels, cache, serving>>

resolveFailedCommit ==
  /\ pc = "resolve"
  /\ \/ "read" \in Faults /\ blockUntilRestart
     \/ /\ disk.journal = None
        /\ request' = None /\ pc' = "idle"
        /\ UNCHANGED <<disk, memory>>
     \/ /\ disk.journal # None /\ disk.journal.phase = "committed"
        /\ blockUntilRestart
     \/ /\ disk.journal # None /\ disk.journal.phase = "prepared"
        /\ pc' = "undoCatalog"
        /\ UNCHANGED <<disk, memory, request>>

(***************************************************************************)
(* The roll back of a prepared commit, alive or at startup.                *)
(***************************************************************************)
RestoreFiles ==
  /\ disk' = Written
  /\ \/ /\ pc = "undoCatalog"
        /\ pc' = IF RestoreWrites(cache, disk.journal) THEN "undoWorkspaces" ELSE "undoJournal"
     \/ pc = "undoWorkspaces" /\ pc' = "undoJournal"
  /\ UNCHANGED <<memory, request>>

\* Mutant: the roll back leaves the caches alone.
RemovePreparedOnly ==
  /\ pc = "undoJournal"
  /\ disk' = Written
  /\ serving' = TRUE /\ request' = None /\ pc' = "idle"
  /\ UNCHANGED <<labels, cache, blocked>>

RemovePrepared ==
  /\ pc = "undoJournal"
  /\ disk' = Written
  /\ labels' = disk.journal.labels
  /\ cache' = Restored(cache, disk.journal)
  /\ serving' = TRUE /\ request' = None /\ pc' = "idle"
  /\ UNCHANGED blocked

\* Mutant: a roll back that fails is tried again.
RestoreRetries ==
  /\ pc \in UndoWrites
  /\ FailedWrite
  /\ pc' = IF serving THEN "resolve" ELSE "load"
  /\ UNCHANGED <<memory, request>>

\* Alive, a roll back that fails freezes the registry; at startup it fails the
\* daemon's start.
RestoreFails ==
  /\ pc \in UndoWrites
  /\ FailedWrite
  /\ IF serving
       THEN blocked' = TRUE /\ pc' = "idle" /\ UNCHANGED <<labels, cache, serving>>
       ELSE /\ labels' = NoLabels /\ cache' = NoRecords /\ pc' = "down"
            /\ UNCHANGED <<blocked, serving>>
  /\ request' = None

(***************************************************************************)
(* The daemon's crash and start.                                           *)
(***************************************************************************)
Crash ==
  /\ pc # "down"
  /\ disk' \in {disk, Written}
  /\ labels' = NoLabels /\ cache' = NoRecords
  /\ blocked' = FALSE /\ serving' = FALSE
  /\ request' = None /\ pc' = "down"

\* The registry is loaded before the catalog store is initialized.
Boot ==
  /\ pc = "down"
  /\ cache' = disk.workspaces
  /\ pc' = "load"
  /\ UNCHANGED <<disk, labels, blocked, serving, request>>

\* Mutant: the daemon serves what a prepared commit has written so far.
LoadAsWritten ==
  /\ pc = "load"
  /\ labels' = disk.catalog
  /\ removeTransaction
  /\ serving' = TRUE /\ pc' = "idle"
  /\ UNCHANGED <<cache, blocked, request>>

loadAndRecover ==
  /\ pc = "load"
  /\ IF disk.journal # None /\ disk.journal.phase = "prepared"
       THEN pc' = "undoCatalog" /\ UNCHANGED <<disk, labels, serving>>
       ELSE /\ labels' = disk.catalog
            /\ removeTransaction
            /\ serving' = TRUE /\ pc' = "idle"
  /\ UNCHANGED <<cache, blocked, request>>

(***************************************************************************)
(* The registry's other mutations.                                         *)
(***************************************************************************)
MutationQueueFree == pc \in {"load", "idle", "cleanup", "resolve"}

mutateCache(recs) ==
  /\ MutationQueueFree /\ ~blocked
  /\ cache' = recs
  /\ disk' = [disk EXCEPT !.workspaces = recs]
  /\ UNCHANGED <<labels, blocked, serving, request, pc>>

archive(w) ==
  /\ cache[w] # None
  /\ mutateCache([cache EXCEPT ![w].archived = TRUE])

remove(w) ==
  /\ cache[w] # None
  /\ mutateCache([cache EXCEPT ![w] = None])

Step ==
  \/ WriteBefore \/ WriteCommitted \/ WriteFails \/ Cleanup \/ resolveFailedCommit
  \/ RestoreFiles \/ RemovePrepared \/ RestoreFails

Next ==
  \/ \E q \in Requests : Refuse(q) \/ Stage(q)
  \/ Step
  \/ Crash \/ Boot \/ loadAndRecover
  \/ \E w \in Workspaces : archive(w) \/ remove(w)

Spec == Init /\ [][Next]_vars

\* Every file operation the store waits for ends. Nothing makes the daemon
\* start, or a request come.
LiveSpec == Spec /\ WF_vars(Step)

(***************************************************************************)
(* What the files stand for: a prepared journal takes back what it covers. *)
(***************************************************************************)
Prepared == disk.journal # None /\ disk.journal.phase = "prepared"
DurableCatalog == IF Prepared THEN disk.journal.labels ELSE disk.catalog
DurableRecords ==
  IF Prepared THEN Restored(disk.workspaces, disk.journal) ELSE disk.workspaces

\* The labels a workspace holds on file.
Held(w) == IF DurableRecords[w] = None THEN None ELSE DurableRecords[w].labels

Atomic == INSTANCE AtomicLabels WITH catalog <- DurableCatalog, records <- DurableRecords

(***************************************************************************)
(* Properties.                                                             *)
(***************************************************************************)
\* The variables have their types (the files, the caches and the request).
TypeOK ==
  /\ disk \in Disks
  /\ labels \in Catalogs /\ cache \in Registries
  /\ blocked \in BOOLEAN /\ serving \in BOOLEAN
  /\ request \in {None} \cup Requests
  /\ pc \in Places

\* Whichever write is refused or fails after taking effect, the committed
\* marker's own write excepted (see "marker" in Faults), and whenever the daemon
\* crashes, the files stand for a catalog and assignments that change by one
\* whole request at a time:
\* a rename reaches the catalog and every workspace, or neither
\* (docs/data-model.md, "Workspace label catalog").
ImplementsAtomicLabels == Atomic!Spec

\* Between requests what the daemon serves from memory is what the files say:
\* an acknowledged request is durable, a rejected one has left nothing behind.
ServedIsDurable ==
  serving /\ ~blocked /\ pc \in {"idle", "cleanup"} =>
    ~Prepared /\ labels = disk.catalog /\ cache = disk.workspaces

\* The commit has failed or the daemon has crashed.
Undecided == pc \in UndoWrites \cup {"resolve", "down", "load"}

\* Once a commit has failed, or the daemon has crashed, nothing more takes
\* effect: neither the roll back, nor a freeze, nor the next start changes a
\* label ("a request rejected before the commit point cannot take effect
\* after restart").
NoLateEffect ==
  [][Undecided =>
       /\ DurableCatalog' = DurableCatalog
       /\ \A w \in Workspaces :
            Held(w) # None /\ Held(w)' # None => Held(w)' = Held(w)]_vars

\* A label that a workspace holds, archived or not, is in the catalog, in what
\* the files stand for and in what the daemon serves.
LabelsDefined ==
  /\ \A w \in Workspaces : DurableRecords[w] # None =>
       \A n \in DurableRecords[w].labels : DurableCatalog[n] # None
  /\ serving => \A w \in Workspaces : cache[w] # None =>
                  \A n \in cache[w].labels : labels[n] # None

\* No commit, roll back or recovery undoes another mutation of the registry: a
\* workspace on file stays archived, or removed.
EditsSurvive ==
  [][\A w \in Workspaces :
       /\ disk.workspaces[w] = None => disk'.workspaces[w] = None
       /\ disk.workspaces[w] # None /\ disk.workspaces[w].archived
            => disk'.workspaces[w] = None \/ disk'.workspaces[w].archived]_vars

\* A request ends, however often its writes fail: answered, or with the
\* daemon's end.
RequestsEnd == request # None ~> request = None

\* The registry freezes only when the files are in doubt: when a prepared
\* journal is left, or they say something else than the caches. (Stated where
\* nothing but the journal's cleanup fails: an unreadable journal would be a
\* doubt that the files do not show.)
FreezeInDoubt ==
  [][blocked' /\ ~blocked =>
       Prepared' \/ labels # disk'.catalog \/ cache # disk'.workspaces]_vars
=============================================================================
