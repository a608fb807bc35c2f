# Formal model of Otto's daemon

TLA+ models of the coordination inside Otto (`packages/server` and the client
parts that follow it), checked with TLC on small instances, with theorems about
them proved by TLAPS.

## The system

Otto is a daemon that runs coding agents (Claude Code, Codex, ACP agents, ...)
on a host, and clients (app, desktop, CLI) that watch and command them over a
websocket or an end-to-end encrypted relay. The daemon is one single-threaded
Node.js process; what makes it hard is not parallel threads but *awaits*: every
handler may be interrupted at each of its awaits by requests, provider events,
timers and other handlers.

| Component | State it keeps | Operations | Talks to | Hard part | Correct when |
|---|---|---|---|---|---|
| Foreground turns (`agent/agent-manager.ts`, `agent-run-state.ts`) | lifecycle, the run slot, active turn ids, the flags `pendingReplacement`, `pendingSteerDrain`, `steerQueueHeld`, per-agent event tail and mutation chain | run, interrupt (replace), queue, steer, stop, rewind, out-of-band commands, provider events | provider session, steer queue, clients' state stream | handlers overlap at awaits; events arrive before, during and after the call they belong to; interrupts time out | one run owns the slot; nobody acts on a turn that is not its own; an agent reported busy has a cause and comes to rest |
| Steer queue (`agent/steer-queue-state.ts`) | FIFO of entries | enqueue, batch, move, remove, clear, hold | foreground turns | batches are claimed in one step and delivered in a later one | no message lost, duplicated or overtaken; Stop and errors hold the queue |
| Prompt dispatch (`agent/agent-prompt.ts`, `lifecycle-command.ts`) | none | choose the delivery of a prompt, cancel | foreground turns | decisions are taken before awaits | every call gets its answer |
| Provider sessions (`agent/providers/*`) | the external program | startTurn, interrupt, steerActiveTurn, events | external programs | they decide when turns begin and end | the contract of `docs/agent-lifecycle.md`, "Cancellation" |
| Agent storage and timeline (`agent-storage.ts`, `agent-timeline-store.ts`, `agent-stream-coalescer.ts`) | rows with sequence numbers per epoch | append, coalesce, replace, page | clients | clients catch up while rows arrive | a client that caught up holds the daemon's rows |
| Workspace labels (`workspace-labels/`) | catalog file, journal file, memory copy; sequence of changes | assign, update, delete, recover, list, subscribe | workspace registry, clients | two files and a journal written one after the other; clients catch up from a cursor | an operation is atomic across crashes; a replica that caught up equals the catalog |
| Workspace registry (`workspace-registry.ts`) | records, mutation queue | serialised mutations | labels, archive, reconciliation | a label commit spans two files | reads see committed records only |
| Request receipts (`agent/requests/`) | one receipt file per key, a chain of calls per key | create_agent and send_agent_message under a key | foreground turns, agent storage, clients that retry | the daemon may end between the receipt and the operation it stands for | an operation is not run twice; a retry is refused only where the outcome is in doubt |
| Directory sync (`directory-sync/`, `session/agent-updates/`, the app's `runtime/directory-sync/`) | versions, tombstones; per session a subscription and its buffer; in the app rows, cursor, disk cache | replace, remove, replaceAll, read after a cursor; subscribe, list, update; refresh, reconnect, restart | agents, sessions, the app's replica | listings are collected over awaits; every session numbers what it emits; tombstones expire; refreshes supersede each other | a replica that caught up shows the directory |
| Hub relationship (`hub/`) | persisted record of the pairing | connect, enrol, retry, update permissions, disconnect | hub service | dormant in the shipped daemon | no call acts on a relationship that ended |
| Schedules (`schedule/`) | a file per schedule with its run records, the set of schedules that run, hidden workspaces | tick, run, pause, resume, edit, delete, complete, recover, sweep | foreground turns, workspaces | ticks await their runs and overlap; files are read before an await and written after it; a restart in the middle of a run | one run at a time, once for each time, every hidden workspace found again, every due schedule served |
| PID lock (`pid-lock.ts`, the supervisor and its worker) | one file | acquire, take over, refresh, update, release | other processes | processes run in parallel, a lock outlives its process, a worker its supervisor, unlink goes by path | at most one daemon per home |
| Workflow engine (`workflow/`) | graph state | run, pause, cancel nodes | foreground turns | nodes end in any order | each node runs once its inputs are there |
| Language servers, plugins, processes, terminals, files, browser, speech | child processes | | | process supervision | not modelled |
| Session and websocket server, client, app | request routing, replicas | | everything | reconnects | the sync protocols above |
| Relay | encrypted channel | | | handshake | not modelled |

`PROJECT.json` lists the same components with their status, and under `hazards`
what is hard to test in this code, each at its line.

## Plan

| Order | Modules | Question | Abstract specification | Theorems |
|---|---|---|---|---|
| 1, done | `SteerQueue`, `AgentTurns` | how calls and events interleave on one agent | | types; hand-offs complete; messages in one place and in order; one run in the slot; replacements stay busy; a cancellation ends its own turn; a steer keeps its turn |
| 2, done | `LabelPlans`, `LabelCommit` | journaled commit of catalog and workspaces, with crashes and failing writes at every step | `AtomicLabels` | types; served state is durable; the commit implements `AtomicLabels`; failures stay aborted; edits survive; held labels are defined |
| 3, done | `LabelFeed` | catch-up from a cursor against live updates, reconnects and restarts | | types; the feed has no gap; the replica's cursor only advances; a replica at the head misses nothing |
| 4, done | `AgentRequests` | retries of a keyed request against crashes, failing files and deletions | | no two effects of a key beside each other; completed receipts stay; answers agree; stuck keys are accounted for |
| 5, done | `VersionedCollection`, `CollectionReader` | a bounded memory of changes that a cursor reads from | a reader that equals the collection | answers are exact |
| 6, done | `DirectorySync` | the agent directory from the daemon to the app's rows and disk | | types; rows never go back (open) |
| 7, done | `PidLock` | parallel processes and a dead lock's owner | mutual exclusion | one daemon, unless an unlink went blind or a live lock was taken over |
| 8 | `AgentTurns` continued | autonomous turns against out-of-band commands, reload and close | a slot with one owner at a time | one run at a time |
| 9, done | `ScheduleService` | snapshots of overlapping ticks against claims, edits and restarts | | one run at a time; once for each time, slow reads excepted; hidden workspaces have owners |
| 10 | timeline sync | epochs, pages and live rows at a client | | |

Every module takes its sets and bounds as CONSTANTS with a named assumption,
has one action per operation, states its invariants as named conjuncts, and
avoids RECURSIVE operators so that it can be proved about.

## Modules

- `SteerQueue.tla`: the pure queue functions of `steer-queue-state.ts`. A batch
  is the head alone if it is a system entry, else the longest run of user
  entries at the head.
- `AgentTurns.tla`: one agent of the manager and its provider.
- `AgentTurnProperties.tla`: the properties, each with the statement of the code
  or docs it formalises.
- `MCAgentTurns.tla` and the `.cfg` files: instances for TLC.
- `AgentTurnProofs.tla`: lemmas about the operators, and type correctness.
- `HandoffProofs.tla`: completeness and order of hand-offs, one run in the slot,
  replacements, cancellations, steers and the ends of turns.
- `LabelPlans.tla`: what one label request makes of the catalog and of the
  labels that workspaces hold (`service.ts`); used by all label modules.
- `AtomicLabels.tla`: the abstract specification of the label store: requests
  take effect whole, one at a time.
- `LabelCommit.tla`: the compound commit of `catalog-store.ts` on the mutation
  queue of `workspace-registry.ts`, with its roll back, freeze and recovery.
- `LabelCommitProofs.tla`: its theorems.
- `LabelFeed.tla`: `sequence.ts`, the session's list handler, and the app's
  replica of one host; `LabelFeedProofs.tla`: its theorems.
- `AgentRequests.tla`: the receipts of keyed requests; `AgentRequestsProofs.tla`: its
  theorems.
- `VersionedCollection.tla`: the numbered collection of the directory service, as
  operators; used by the two modules that follow.
- `CollectionReader.tla`: one reader of one collection that anybody may publish to;
  `CollectionReaderProofs.tla`: its theorem.
- `DirectorySync.tla`: the agent directory through sessions and connections to apps.
- `PidLock.tla`: the lock file between processes; `PidLockProofs.tla`: its theorems.
- `ScheduleService.tla`: scheduled runs; `ScheduleProofs.tla`: its theorems.
- `MCLabelCommit.tla`, `MCLabelFeed.tla`, `MCAgentRequests.tla`,
  `MCCollectionReader.tla`, `MCDirectorySync.tla`, `MCPidLock.tla`,
  `MCScheduleService.tla`: instances for TLC.

### How `AgentTurns` corresponds to the code

`agent` is the record the manager keeps: the fields of `ManagedAgentBase` by
their names, the agent's `PendingForegroundRun` (`run`, with the tokens that
were settled, the events staged under each, and the stage of each run's
generator), the batches that wait for a run to settle (`waiting`), the event
tail and the steer barrier. `mutations` is the chain of `runForegroundMutation`;
its head is the cancellation or steer admission in progress. `call[p]` is how
far a caller's request has come and what it captured before its last await
(`turn`, `run`). `live`, `begun`, `late` and `stopped` describe the provider.

A prompt, the queue entry it is parked as, the run its batch starts and the
provider turn of that run share one name. That is sound because each prompt
starts at most one run, and each run at most one turn.

Handlers are operators from an agent record to the next one (`streamAgent`,
`finalizeForegroundTurn`, `enqueueSessionEvent`, ...), so an action that calls
several of them composes them in the code's order.

| Code | Actions |
|---|---|
| `startAgentRun`, `runAgent`, `cancelAgentRunCommand`, `rewind`, `tryRunOutOfBand` up to the first await | `MakeCall` (`SendPrompt`, `RunAgent`, `StopRun`, `Rewind`, `TryRunOutOfBand`) |
| `cancelAgentRunNow` | `CancelBegins`, `InterruptAcknowledged`, `InterruptFailed`, `CancelSettles`, `CancelDrained` |
| `replaceRunForwarder`, `replaceAdmittedForegroundTurn` after the cancellation | `ReplacementStarts` |
| `rewind` after the cancellation | `RewindLocks`, `RewindEnds` |
| `steerOrReplaceActiveTurn`, `runSteerAdmission` | `SteerBegins`, `SteerAnswered`, `SteerReturns` |
| the generator of `streamAgent` | `StartResolves`, `StartFails`, `GeneratorEnds` |
| `dispatchSessionEvent`, `handleStreamEvent` | `DeliverEvent` |
| queue edits | `RemoveSteerQueueEntry`, `ReorderSteerQueueEntry`, `ClearSteerQueue` |
| `finalizeOutOfBandRun` | `FinalizeOutOfBandRun` |
| the provider, external | `ProviderBegins`, `ProviderEnds`, `ProviderReportsLate` |

Granularity. What runs between two awaits is one action. Two places need the
order in which resolved promises continue:

- The settle of a run and the continuation of the dispatcher that waits for it
  are one step: nothing that could observe the slot runs between them. The
  generators' consumers are loops that do nothing with the events.
- A cancellation whose promise has resolved goes on before anything comes in
  from outside (`Quiet`), but after the mutation behind it has begun
  (`CancelBegins` may come before `ReplacementStarts`).

A request may land between finalize's state emission and the generator's settle:
subscribers are called synchronously, and a test of the repository
(`steer-queue.test.ts`) does exactly that.

What is abstracted: the text of prompts and merged prompts, attachments, run
options, usage, attention, persistence handles and all logging; the awaited
timeline append of a failed turn is one step with the failure.

What is left out of the component: permissions, the reload after a stale
session, closing and archiving an agent, and `assertDirectoryAvailable`.

The provider is modelled from the contract the manager relies on
(`docs/agent-lifecycle.md`, "Cancellation"): it runs one turn at a time; an
acknowledged interrupt means that neither its turn nor one it was about to start
can run any more, and the turn's terminal event may come at once, later, or
never; a rejected or timed-out interrupt says nothing.

### How `LabelCommit` corresponds to the code

`disk` holds the three files; `labels` and `cache` are the catalog store's and the
registry's memory. `pc` names the write that is outstanding: `journal`, `catalog`,
`workspaces`, `committed` for a commit; `undoCatalog`, `undoWorkspaces`,
`undoJournal` for a roll back, which is itself a registry mutation; `cleanup` for
the journal's removal; `resolve` while the store reads the journal after a failure.
`Written` is what the outstanding write leaves on disk. Every write may be done,
refused, or done and reported as failed, and `Crash` may fall before or after it;
`Faults` chooses which of these occur.

| Code | Actions |
|---|---|
| `commit`: staging in `mutateCache` | `Refuse`, `Stage` |
| `beforeWorkspaceWrite`, the registry's own write | `WriteBefore` |
| `afterWorkspaceWrite`, `afterCommit` and the cache of `mutateCache` | `WriteCommitted` |
| a rejected write, `resolveFailedCommit`, `blockUntilRestart` | `WriteFails`, `resolveFailedCommit` |
| `recover` on a prepared journal | `RestoreFiles`, `RemovePrepared`, `RestoreFails` |
| `removeTransaction(...).catch(...)` | `Cleanup` |
| `load`, `loadAndRecover` | `Boot`, `loadAndRecover` |
| the registry's archive and remove | `archive`, `remove`, when the mutation queue is free |

Abstracted: a name stands for its key (case-only renames are left out), lists are
functions, a record is its labels and whether it is archived, so `updatedAt`, which a
roll back puts back too, is not there. A write of the registry's own mutations always
succeeds, and the files can be read at startup.

### How `LabelFeed` corresponds to the code

A commit and its publication are one step, `publish`: both run in the service's
exclusive section, as `subscribe` does, so that nobody sees the state between.
`session` is the list handlers that wait for that section, the one that answers (with
the changes its listener holds back), and whether the newest one's subscription is
live. `requests` and `channel` are the two directions of the connection; a list
request that the app no longer waits for is marked (`live` is FALSE) wherever it is,
which stands for the identity of the connection object the controller compares. The
loop of `synchronize` over the journal (`netChange`) and the one that releases what was
held back (`later`) are recursive functions of the index, one entry a round.

| Code | Actions |
|---|---|
| `setAssignment`, `update`, `delete` with `sequence.publish` | `publish`, with `onChange` for the listener |
| `handleWorkspaceLabelList` up to its await | `Receive` |
| `service.subscribe`, `synchronize` | `subscribe` |
| `handleWorkspaceLabelList` after its await | `Respond` |
| `WorkspaceLabelsController.connect`, `disconnect`, `mutate` with a failure | `connect`, `disconnect`, `refresh` |
| `applyList`, `applyUpdate` and the listener that calls them | `Deliver` |
| the websocket; a session is kept for a grace period or ended | `SocketCloses`, `SocketOpens` |
| a new process | `DaemonRestarts` |

Left out: request timeouts, and the error path of a list request (the catalog is in
memory once the daemon serves, so a list does not fail).

### How `AgentRequests` corresponds to the code

`receipt[k]` is the file of a key; `executing[k]` and `waiting[k]` are the chain that
the `active` map makes of the calls under it. `call[c]` is how far a request has come;
its stage names the await it is in. A creation's call mints the agent id that its
receipt carries, so call and agent share a name. `live`, `stored`, `onDisk` and
`deleting` are the manager's map, the records that the storage has in memory, their files
and the delete fence; `submitted`, `created` and `undeleted` remember what took effect,
and whose file a delete could not remove. `AgentStorage.remove` logs such a failure and
forgets the record: the file is loaded again by the next daemon (`Crash`).

| Code | Actions |
|---|---|
| `execute` | `Execute`, `StartOnce` |
| `executeOnce`: the receipt that is read, or cannot be | `ReadFindsNone`, `ReadFindsConflict`, `ReadFindsReceipt`, `ReadFails` |
| `recover` and the write that confirms it | `Recover`, `Confirm` |
| `prepare`, the pending receipt | `Prepare`, `WritePending` |
| `run` of a message (`handleSendAgentMessageRequest`) | `Submit`, `SubmitReturns`, `RunFails` |
| `run` of a creation (`registerSession` and what calls it) | `Register`, `PersistAgent`, `FinishCreate`, `RunFails` |
| `retrySafe`, removal of the receipt | `RunFailed`, `RemoveReceipt` |
| the completed receipt, `send`'s second read of it, the session's answer | `WriteCompleted`, `RereadFails`, `Answer` |
| `deleteAgentRecord` | `CloseForDelete`, `RemoveRecord` |

A receipt is written atomically (`writeFileAtomic`), so a write is done or not. Reads,
writes and removals fail within one bound, `MaxDiskErrors`; that a receipt is invalid is a
read that fails. What a
message does once the provider has it is `AgentTurns`. A message key is scoped to its
agent, so a member of `SendKeys` stands for an agent and a message id.

### How `VersionedCollection` and `CollectionReader` correspond to the code

A collection is a record: the present value and number of every id, the newest number
whose tombstone was dropped (`expired`), and the newest number given (`head`).
`replaceAll` numbers all that differs, upserts before removals and each in an order that
the listing decides; the model takes every such order. `replace` and `remove` are the
cases with one id. `Read` is the choice between `readSnapshot` and `readAfter`.
`CollectionReader` adds a reader with a cursor, publishers who may publish any listing,
however stale, and restarts.

### How `DirectorySync` corresponds to the code

An agent's payload is its version, which stands for `updatedAt`; version 0 is an agent
that is not there. A session keeps, per agent, the queue of captured changes
(`enqueueAgentUpdate`); a change is numbered in the daemon's one collection when its turn
in that queue comes, so several sessions number the same change, in different orders. A
request is listed in one step, after its subscription has begun, and published, answered
and flushed in another.

The app's refresh is `txn`: `loading` while the cache is read, `asked` once the request
is out. Updates that arrive meanwhile are recorded in it and replayed over the answer.
`disk` is what the cache holds; rows and cursor are committed in one SQLite transaction.

| Code | Actions |
|---|---|
| a change of an agent, `forwardLiveAgent` | `Change`, the first half of `CloseForDelete` |
| `deleteAgentRecord`, `removeAgent`, `agent_deleted` | `CloseForDelete`, `RemoveRecord`, `EmitChange` |
| `emitLiveAgentUpdate`, `sequence`, `bufferOrEmit` | `EmitChange` |
| `handleFetchAgents`, `readAgentDirectorySync`, `flushBootstrapped` | `Handle`, `Respond` |
| the grace period of a session; a new process | `Expire`, `DaemonRestart` |
| `setDemand`, `setAgentRouteDemand`, `requestDemandRefresh` | `Open` |
| `loadCachedDirectory` | `LoadCache` |
| `refreshAgents` | `Refresh` |
| `connectionChanged` | `Connect`, `Disconnect` |
| a request's timeout; the end of the app's process | `TimeOut`, `Quit` |
| `agent_update`, the answer, `agent_deleted` | `Receive` (`ReceiveUpdate`, `ReceiveAnswer`, `ReceiveDeleted`) |

`quiet` and `spoiled` are history variables for the properties. Left out: archiving (an
`agent_archived` message and a row that stays), filters and provider visibility, the
release of a demand, the batching of cache writes, the legacy daemons without sequence
numbers, and a change whose session looked up its project placement while its
subscription was replaced (`sub` captured before an await in `emitLiveAgentUpdate`).

### How `PidLock` corresponds to the code

Every file operation is a step, because the actors are processes. The path names one
file (`file`); a file that was unlinked lives on for those that have it open, and
`content` holds one lock, or none, per file ever created. A process id may be used by
several starts, one after the other (`start` tells them apart, for `startedAt`). `stage`
is how far a supervisor's start or shutdown has come; its heartbeat and its
`updatePidLock` run beside it (`beat`, `update`). The daemon proper is the supervisor's
worker: it serves from the moment the lock is held until it has shut down, which is before
the lock is released. If the supervisor is killed, its worker may go with it or stay
(`orphans`) until it notices the closed channel. `stale` is that the file was not touched
for five minutes, which may happen at any time: the host sleeps, or the owner is gone.

`blind` and `ousted` are histories of two different things. `blind` is an accident: an
unlink by path hit another lock than the one that was judged, or the lock of a dead
process that a new process of the same id has found its own since. `ousted` are daemons
whose live lock a desktop start has found stale twice and unlinks on purpose: they run on
until their next heartbeat.

| Code | Actions |
|---|---|
| `acquirePidLock`, `clearExistingPidLock`, `canReclaimLiveLock` | `Read`, `AlreadyOwned`, `Judge`, `Confirm`, `Recheck`, `Takeover`, `Unlink` |
| `writeNewPidLock` | `Open`, `Write`, `ReRead` |
| `acquirePidLockWithConflictGuard`, `waitForDaemonToQuit` | `Conflict` within these, `Poll`, `GiveUp` |
| `refreshPidLock`, the heartbeat timer | `BeatOpen`, `BeatRead` |
| `updatePidLock` | `WorkerReady`, `Truncate`, `Rewrite` |
| shutdown, the worker's exit, `releasePidLock` | `Stop`, `WorkerExits`, `ReleaseRead`, `ReleaseUnlink` |
| a process that is killed, alone or with its worker; time | `Crash`, `Age` |
| `installSupervisorLivenessGuard` | `OrphanExits` |

A read that finds an empty file is repeated for half a second (`BeingWritten`): the model
takes that to be enough for a writer that is alive. Left out: an unrelated process that
the system gives a dead daemon's id, restarts of the worker, and its second readiness after
one.

### How `ScheduleService` corresponds to the code

`disk[s]` is a schedule's file: status, `nextRunAt` (0 for null), target, and its runs
with how far each has come in the file (`running`, then with a workspace, then with an
agent, then ended). `store.update` is serialized per schedule and awaits nothing but the
file, so it is one step; what is read outside of it is a step before its use. `places` is
what became of each run's workspace: none, hidden, visible. `running` is
`runningScheduleIds`, and `call[c]` one call of `tick` or `runOnce`: the snapshot a tick
still has to go through (split into the schedules that are due and those whose time is
over), the schedule it is at, and the run. A tick goes on with its snapshot after each
run, so that calls overlap as ticks do.

| Code | Actions |
|---|---|
| `create`, `createOrReplace`, `pause`, `resume`, `update`, `delete` | actions of these names |
| an agent is archived; the callback of `bootstrap.ts` | `Archive`, `completeForAgent` |
| `runOnce` up to its read | `runOnce` |
| `tick`: the listing; the loop; the second read | `tick`, `Proceed`, `Read`; `completeScheduleIfDue` |
| `runSchedule` up to its first await; `appendRunningRun` | `Claim`, `appendRunningRun` |
| `executeExistingAgentSchedule`, the workflow runner | `Execute` |
| `executeSchedule` with a new agent | `CreateWorkspace`, `recordRunWorkspace`, `disposeScheduleRunWorkspace` |
| `finishRun` and the release of the claim | `finishRun`, with `AfterRun` and `Pruned` |
| `start`: recovery, its workspaces, the sweep | `start`, `recoverInterruptedSchedule`, `Mend`, `Recovered`, `sweepOrphanedSchedule`, `Started` |
| the process ends; time | `Crash`, `Pass` |

Abstracted: a cadence is a rolling interval, which always has a next time; a prompt, a
personality and a run's output are not there; a file or a workspace is never refused.
Several ticks may list at one time, which in the code are calls of different seconds
whose reads took long. Replacing a schedule at the very instant for which it has just
been run is left out: an instant of the model is many of the code. A deleted schedule's
number is not used again, as ids are random.

The end of a run waits for no one. A tick whose second read of the file is still out then
finds the schedule unclaimed, and what it has read still says due. `outrun` are the ticks
whose read a whole scheduled run has outlived, `late` the runs that were started on such a
read: `FiresOnce` excepts them, and the configuration `schedules_refire` shows the case.

## Runs

| Run | Instance | Shows |
|---|---|---|
| `agent_turns` | 3 calls; run, interrupt, queue, steer, stop (no rewind, no out-of-band command) | one run at a time (`TurnOwnsSlot`), no current turn that nobody ends (`CurrentTurnEnds`), steers and cancellations touch only their own turn (`SteerHoldsTurn`, `CancelEndsItsTurn`), replacements keep the agent busy (`ReplacementBusy`) and hand their flag on until it is lowered (`ReplacementHandedOn`), hand-offs wait for the slot's owner (`HandoffWaits`) |
| `agent_messages` | 2 calls of all seven kinds, one reconcile entry, one autonomous turn | types, each message in one place (`MessageOnce`), first in first out across hand-offs (`NoOvertaking`) |
| `agent_liveness` | 3 calls and a reconcile entry; interrupt, queue, steer, stop; fair | every call returns (`CallsReturn`); a hand-off, and a replacement while it has an owner, ends as long as terminal events keep coming (`HandoffsEnd`); an undisturbed agent comes to rest (`ComesToRest`) |
| `label_commit` | 2 names, 2 colours, 2 workspaces; every request, archive and remove; all faults but the marker's; fair | the files implement `AtomicLabels`; memory is durable (`ServedIsDurable`); no late effect of what failed (`NoLateEffect`); workspaces hold labels of the catalog (`LabelsDefined`); roll backs spare other mutations (`EditsSurvive`); `RequestsEnd` |
| `label_feed` | 2 names, 1 colour, journal of 2, generation and changes up to 3, one restart, 2 list requests under way; fair | a replica at the daemon's head misses nothing (`NothingMissing`), updates follow without a gap (`FeedContiguous`), `CursorAdvances`, `StaysCurrent` |
| `requests` | 3 calls, one creation key, one message key, 2 fingerprints, one crash and one failing read, write or removal; fair | no two effects of a key stand beside each other (`OncePerKey`) and its answers agree (`AnswersAgree`); a pending receipt blocks its key only where its writer was cut off or refused, and a creation's only if it left an agent (`StuckForAReason`); `CompletedStays`; `CallsReturn` |
| `collection` | 3 ids, 2 values, 1 tombstone, numbers up to 5, 2 generations | `AnswerIsExact` |
| `directory` | 2 agents of 2 versions, one app, 1 tombstone, 3 events among changes, refreshes, drops, time-outs and a restart; fair | an undisturbed refresh misses no agent (`RefreshIsCurrent`), rows do not go back (`NeverGoesBack`), `BecomesCurrent` |
| `pid_lock` | 2 process ids, 3 starts in all, one process patient and one from the desktop; fair | two daemons only after a blind unlink or beside an ousted one (`OneDaemonUnlessBlind`), and not for ever, killed supervisors' workers included (`TwoBecomeOne`); a start alone succeeds (`LoneStartSucceeds`); `StartsSettle` |
| `schedules` | 2 schedules (one with `maxRuns` 1 that makes a workspace it keeps or runs a workflow, one of an agent that expires), 2 ticks, a run by hand, 2 instants, a cap of 1; one edit, run by hand or crash; fair | a schedule is run by one call at a time (`OneRunAtATime`) and once for each of its times, slow reads excepted (`FiresOnce`); hidden workspaces are revealed or archived (`HiddenHasOwner`); `DueIsServed` |
| `agent_queue_loss`, `directory_delete` | small instances of the same modules | the findings below |

Further configurations are kept beside the runs. Each shows a known deviation by a
counterexample and names the property in its last lines: `agent_stop_queue`,
`agent_stop_start`, `agent_split_brain`, `agent_lost_end`, `agent_stuck_flag`,
`agent_oob_idle` and `agent_rewind` (with `MCAgentTurns`), `label_freeze`
(`MCLabelCommit`), `label_feed_gap` (`MCLabelFeed`), `requests_key_reuse`
(`MCAgentRequests`), `directory_cache` (`MCDirectorySync`), `pid_lock_race` (`MCPidLock`),
and `schedules_refire`, `schedules_cap`, `schedules_leak`, `schedules_completed` and
`schedules_visible` (`MCScheduleService`).

Bounds. Three calls are what the interesting cases need: one run to be busy
with, one call that waits for it (queued, steering, replacing), and one that
comes in between (stop, a second replacement, a second batch). Each call is made
at most once, so every instance is finite without a depth limit. Two calls are
enough where reconcile entries and autonomous turns add actors of their own.
`FinalizedLimit` is 1 for the code's 50, so that the second turn that ends evicts the
first: a terminal event that comes later than that finds its turn forgotten. Calls are
symmetric in the safety runs. `agent_liveness` has three calls as well, because its
hazards need them: a stopped steer that replaced a busy run, or a Stop that finds a
`startTurn` outstanding. TLC's symmetry is unsound for liveness; as the calls are alike,
`InOrder` has them made in the order of their names instead. The run leaves out the verb
`run`; with all five verbs it was checked once, over 630,186 states.

`label_commit` needs no bound: its state is finite, and with two names, two colours
and two workspaces a rename changes both files, one workspace can be archived or
removed while the other is rewritten, and a label can be created for one workspace
while the other holds it. `label_feed` counts: three changes with a journal of two let
a cursor fall behind the journal, be caught up over two changes, or be current; two
list requests under way are what overlapping refreshes need. One colour keeps it small;
`label_feed_gap` has two.

`requests`: a first call, a retry and a call with other arguments share a key, or a
creation and a message run beside each other; one crash and one failing operation can
each fall anywhere, in a read, a write, a removal of a receipt or of an agent's record.
`collection`: three ids with one tombstone let two removals expire
one, under a cursor from before, between and after them. `directory`: three events are
what a stale listing needs (a change, a refresh and a second change or a broken
connection); with four, the safety properties were checked once over 1.9 million states.
Two versions are enough to tell old from new. `pid_lock`: three
starts are a holder, one that takes over, and one that comes in between; one process id is
used twice. With both processes from the desktop, two takeovers of one lock beside each
other included, all but `StartsSettle` was checked once over 355,401 states.
`schedules`: two ticks are a run and one that meets it with an older snapshot; with the
run by hand there are three calls for one schedule. Two instants let a schedule be due
again after its run, and a restart be late; the cap of 1 lets one schedule hold back the
other.

`CHECK_DEADLOCK FALSE`: when every call was made and answered the system may
really stop.

Fairness (`Fairness` in `AgentTurns`). The event loop runs every continuation
that is ready; the two-second timers of a cancellation fire; the provider
answers `startTurn`, ends its turns and answers a steer. Callers need not call,
and a terminal event that an interrupt suppressed need not come. `ComesToRest`
therefore assumes that late terminal events arrive, and excludes Stop, refused calls and
ends that were staged under a run that was given up (`EndLost`), whose lifecycle problems
are findings of their own (`agent_stop_start`, `agent_lost_end`). `HandoffsEnd` assumes
that the provider is, again and again, not behind with a suppressed end: a Stop that comes
during `startTurn` captures no turn, and if the interrupt is acknowledged the turn stays
current until its late end arrives. Of `pendingReplacement` it says that it is lowered
while it has an owner; where it loses its owner is `agent_stuck_flag`, and that this is the
only place `ReplacementHandedOn`.

In `LabelCommit` every file operation the store waits for ends (`WF_vars(Step)`);
nothing makes the daemon start or a request come. In `LabelFeed` the daemon handles and
answers list requests, an open connection delivers, and the app connects its labels once
it is online; nothing makes a broken connection come back, so `StaysCurrent` speaks of
connections that stay. In `AgentRequests` every call that was started goes on until it is
answered; no client must call, and nothing must crash. In `DirectorySync` promises settle,
handlers end, messages arrive on an open connection and a cache read returns; the
environment need not change anything, reconnect or open the app. `BecomesCurrent` speaks
of an app that stays connected, and excludes an app whose cursor moved before its cached
directory was accepted or whose request timed out (`spoiled`; see the findings). In
`PidLock` a process that is alive goes on with what it is doing (`Onward`), its heartbeat
and its update of the lock go on beside that, a wait ends, and an orphaned worker notices;
nobody must start, stop or crash. In `ScheduleService` the timer ticks, a call that was made goes on,
a run ends (an agent's or workflow's run is external; that it ends is `ComesToRest` of
the agents), the archived callback comes, and a daemon that ended starts again; nobody
must ask for anything.

## Findings

Two runs must end with a counterexample; `PROJECT.json` quotes the line the property
states.

1. `agent_queue_loss`. A message queued while a run's `startTurn` is outstanding
   is claimed at once, because the lifecycle is still idle. If the turn then ends
   with another message queued, finalize claims that as a second batch; the first
   dispatcher's `streamAgent` clears `pendingSteerDrain`, and the second
   dispatcher returns without delivering its message or putting it back.
2. `directory_delete`. The removal of an agent is published by the session that deleted
   it and by no other, although `agent-updates-service.ts:40-43` promises a subscriber
   every later delete. Another client keeps the row; and as its cursor moves on with the
   next live update, no later reconnect brings the removal.

The further configurations show these deviations:

- `agent_stop_queue` (`StopHoldsQueue`). The early claim of the first finding ignores
  `steerQueueHeld`: Stop settles the run the batch waits for, and thereby starts the
  batch ("Stop means stop", `agent-manager.ts:5278`). It ignores a failed turn in the
  same way (`docs/chat-lifecycle.md:133`).
- `agent_stop_start` (`BusyHasCause`). Stop during the `startTurn` of a drained batch
  leaves the agent running: finalize had set the lifecycle, and nothing resets it
  (`agent-manager.ts:5308`).
- `agent_split_brain` (`LiveTurnOwned`). Stop during `startTurn` on an idle agent whose
  interrupt fails is reported as a success, and the turn goes live afterwards
  (`docs/agent-lifecycle.md:49`).
- `agent_lost_end` (`NoGhostTurn`). A turn that began after its run was stopped is active
  without being current. If its end arrives while the next run starts, it is staged under
  that run, and lost when that start fails (`agent-manager.ts:7300`, `4456`): the turn
  stays active although the provider ended it. So does a turn the provider began by itself.
- `agent_stuck_flag` (`ReplacementHasOwner`). A steer that the provider would not take
  replaces the turn; if that replacement is stopped while its `startTurn` is outstanding,
  its error reaches nobody that lowers `pendingReplacement` (`agent-manager.ts:4326`,
  `4906`), as `replaceRunForwarder` does for an interrupting prompt: the agent stays busy
  until another run starts.
- `agent_oob_idle` (`ReplacementBusy`). An out-of-band command that ends between a
  replacement's cancellation and its start puts the agent to rest without looking at
  `pendingReplacement` (`agent-manager.ts:4214`): the agent is reported idle in the middle
  of a replacement.
- `agent_rewind` (`RewindAlone`). A rewind's lock looks like a run that has not started,
  so an interrupting prompt settles it and starts its turn beside the rewind
  (`agent-manager.ts:5523`).
- `label_freeze` (`FreezeInDoubt`). The removal of a journal that is marked committed
  fails, which is tolerated; the next request that fails for any reason, before it wrote
  anything, reads that journal as its own outcome and freezes the workspace registry
  until the daemon restarts, although files and memory agree (`docs/data-model.md:530`).
- `label_feed_gap` (`ReplicaExact`). `synchronize` holds a label that was upserted in the
  gap for one that was created in it. If the client already had it and it is removed or
  renamed later in the gap, no removal is sent, and the replica keeps a label that is gone
  (`sequence.ts:82`, against the test of `workspace-labels/index.test.ts:154`).
- `requests_key_reuse` (`KeyNotReused`). A creation whose agent was deleted after it was
  stored and before the creation returned fails, finds no agent, and removes its receipt:
  the key makes a second agent (`requests/index.ts:117`, against `docs/hub.md:65`:
  "Deleting that agent does not make its old creation key reusable"). `OncePerKey` speaks
  of the agents that exist.
- `directory_cache` (`CacheStaysBelow`). An app opened by a route commits a snapshot and
  its cursor without clearing the cached rows of agents it does not name. A later full
  demand loads those rows under the present ones, where they stay: ghosts of agents that
  are gone (`app/src/runtime/directory-sync/index.ts:405`, against
  `docs/architecture.md`, "Late cache reads cannot replace state already advanced by live
  or authoritative network data").
- `pid_lock_race` (`OneDaemon`). Two starts find the same dead lock. One replaces it; the
  other's unlink, by path, removes the new lock and makes a third, and both run until the
  next heartbeat (`pid-lock.ts:142`, against `docs/data-model.md:613`).
- `schedules_refire` (`ClaimIsFresh`). The claim is looked at again after a tick's second
  read, which is "sound because runSchedule claims synchronously" (`service.ts:813-814`).
  If a whole run of the schedule fits between what that read saw and its continuation, the
  claim is free again and the schedule is run twice for one time.
- `schedules_cap` (`CapHolds`). A tick compares the number of runs with the cap before it
  awaits the second read, and `runOnce` does not compare it: more schedules run than
  `MAX_CONCURRENT_SCHEDULE_RUNS` (`service.ts:808`, against the comment at 49).
- `schedules_leak` (`NoLeak`). A schedule deleted between the second read and
  `appendRunningRun` makes that throw before the `try` whose `finally` releases the claim
  (`service.ts:996`). Five such claims reach the cap, and no schedule runs until the
  daemon restarts. `DueIsServed` excepts this.
- `schedules_completed` (`CompletedIsFinal`). A schedule that was completed while it ran
  is paused by a run that asks for a repair, as `finishRun` looks at `targetRepair` first
  (`service.ts:1082`, against "leave the schedule terminal" at 1089); it may be resumed.
- `schedules_visible` (`VisibleStays`). The daemon ends after it revealed the workspace
  of a failed run and before the run's end is in the file: recovery finds the run open
  and archives what the user was shown (`service.ts:872`, against "REVEAL and never
  archive" at 1401).

Met while modelling, without a configuration of its own:

- The file of a deleted agent's record that cannot be removed is logged and forgotten
  (`agent-storage.ts:465-480`). If the agent's creation then fails, its key is free and may
  make a second agent, and the first is back after a restart. `OncePerKey` excepts agents
  whose delete failed in this way (`undeleted`).
- The worker of a supervisor that was killed serves on until it notices, for about a
  second, while a new start finds the lock's process dead. `OneDaemonUnlessBlind` counts
  supervised daemons; `TwoBecomeOne` counts the others too.
- A process that ends between creating `otto.pid` and writing it, or in the middle of
  `updatePidLock`, leaves an empty file. Every later start then fails with a race
  condition (`pid-lock.ts:163`), while `isLocked` reports no lock. `LoneStartSucceeds`
  states this exception.
- A stale listing that `replaceAll` publishes may turn a live agent into a tombstone. If
  the agent is deleted before its next change, the removal finds nothing to number, and a
  client that still shows the agent is not told (`directory-sync/index.ts:87`,
  `versioned-collection.ts:80`). `RefreshIsCurrent` speaks of agents there are.
- A live update that arrives before the app's first refresh, before its cached directory
  was accepted, or after a refresh timed out moves the cursor past changes that the app
  has not seen, and no later refresh asks for them (`noteLiveCursor`, `index.ts:893`).
  The properties except these cases by `spoiled`.
- When the committed marker of a label commit reaches the disk and its write is still
  reported as failed (the case of `workspace-labels/index.test.ts:811`), the freeze comes
  only after `mutateCache` released its queue. An archive that waited there writes the
  workspaces file from the cache of before the commit, and the committed labels of the
  workspaces are lost while the catalog's change stays. The fault is in the model
  (`"marker"` in `Faults`) and breaks `ImplementsAtomicLabels`; the runs and theorems
  exclude it.

## Theorems

| Theorem | States | Argument |
|---|---|---|
| `TypeCorrect` (`AgentTurnProofs`) | `Spec => []TypeOK` for all values of the constants | one lemma per operator (an agent record in, an agent record out), one per action |
| `HandoffComplete` (`HandoffProofs`) | `HandoffWaits` always holds if callers do not rewind | see below |
| `MessagesOnce` (`AgentTurnProofs`) | `Spec => []MessageOnce` for all values of the constants | the inductive invariant `PlacesInv` below |
| `CurrentTurnOwnsSlot` (`HandoffProofs`) | `Spec => []TurnOwnsSlot` if callers do not rewind | `Slotted` below |
| `ReplacedStaysBusy` | `Spec => []ReplacementBusy` if there are no out-of-band commands | `Stays` below |
| `FirstInFirstOut` | `Spec => NoOvertaking` if callers do not rewind | see below |
| `CancellationEndsItsTurn` | `Spec => CancelEndsItsTurn` if callers do not rewind | `Over` below |
| `AdmissionKeepsTurn` | `Spec => SteerHoldsTurn` if callers do not rewind | `Admitted` below |
| `CurrentTurnWillEnd` | `Spec => []CurrentTurnEnds` if callers do not rewind | `EndInv` below |
| `ReplacementIsHandedOn` | `Spec => ReplacementHandedOn` if callers do not rewind | `FlagInv` below |
| `LabelTypes` (`LabelCommitProofs`) | `Spec => []TypeOK` | one lemma per planner, then one step per action |
| `ServedDurably` | `Spec => []ServedIsDurable` | the inductive invariant `CommitInv` below |
| `CommitsAreAtomic` | `LabelCommit` implements `AtomicLabels` if the marker's write does not fail after taking effect | every step leaves what the files stand for, applies the request, or is an archive or removal (`ViewStep`) |
| `FailuresStayAborted` | `Spec => NoLateEffect` under the same assumption | the same case split |
| `CommitsKeepEdits` | `Spec => EditsSurvive` with every fault | `RowsInv` below |
| `HeldLabelsAreDefined` | `Spec => []LabelsDefined` under the assumption of `CommitsAreAtomic` | `DefinedInv` below |
| `RequestTypes` (`AgentRequestsProofs`) | `Spec => []TypeOK` | with `RequestInvariant` below |
| `RequestsOnce` | `Spec => []OncePerKey` for any calls, keys, crashes and disk errors: effects of one key never stand beside each other; not that a key is never used again (`requests_key_reuse`) | the inductive invariant below |
| `CompletedReceiptsStay` | `Spec => CompletedStays` | the same invariant: whoever writes or removes a receipt found it absent or pending |
| `AnswersOfAKeyAgree` | `Spec => []AnswersAgree` | `AnswerInv` below |
| `StuckKeysAreAccounted` | `Spec => []StuckForAReason` | the same |
| `AnswersAreExact` (`CollectionReaderProofs`) | `Spec => []AnswerIsExact` for any ids, values and tombstone limit | see below |
| `OneDaemonHolds` (`PidLockProofs`) | `Spec => []OneDaemonUnlessBlind` for any processes and starts: two daemons only after a blind unlink, or beside one whose lock was taken over | see below |
| `ScheduleTypes` (`ScheduleProofs`) | `Spec => []TypeOK` | one step per action |
| `ScheduleRunsOnce` | `Spec => []OneRunAtATime` for any schedules, calls, edits and restarts | the inductive invariant `ClaimInv` below |
| `HiddenWorkspacesHaveOwners` | `Spec => []HiddenHasOwner` for the same | `PlaceInv` below |
| `ScheduleFiresOnce` (`ScheduleProofs`) | `Spec => []FiresOnce` for the same; the exception for reads that a whole run outlived is in the property | the inductive invariant `SlotInv` below |
| `FeedTyped` (`LabelFeedProofs`) | `Spec => []TypeOK` for any catalog, journal limit, requests, losses and restarts | with `Order` below |
| `FeedHasNoGap` | `Spec => []FeedContiguous` for the same | `Order` below |
| `ReplicaNeverFallsBack` | `Spec => CursorAdvances` for the same | the same invariant |
| `ReplicaMissesNothing` | `Spec => []NothingMissing` for the same | `Feed` below |

`CommitInv` is four parts: the types; what the daemon's memory says by its phase
(`DaemonInv`: down, loading, serving); during a commit, that the journal holds the
before-images of the staged request and which files have been written
(`CommittingInv`); and during a roll back, that the journal is prepared and covers what
the caches hold (`UndoingInv`). The last part is what makes the invariant inductive:
archives and removals may change the cache between a failure and its roll back, and the
lemmas `RestoredArchive` and `RestoredRemove` show that putting labels back commutes with
them. `ServedIsDurable` holds with every fault; that the commit is atomic needs the
assumption on the marker.

`EditsSurvive` compares the file before and after a step, while the steps write what the
cache holds. `RowsInv` says that, as long as the daemon is not down, file and cache differ
in nothing but labels, and `LabelsOnly` that neither a plan nor a roll back changes
anything else. `DefinedInv` says of both, the files and what is served, that held labels
are in the catalog; the step of a commit is the step of the abstract request
(`ViewStep`), which is why it shares the assumption on the marker.

`HandoffWaits` says that a waiting batch waits for the owner of the slot, and
that `pendingSteerDrain` is only up while such a batch waits. It is inductive
together with `TypeOK` and `NoRewind` (no call ever reaches a rewinding stage).
`WaitersOwned` and `Handoff` restate it for one record, so that each operator has
a lemma that it preserves `Handoff`; `SameHandoff` collects the operators that
touch none of its fields. The assumption about rewinds is needed: `RewindLocks`
overwrites the slot without looking at it, and TLC finds the stranded batch.

`MessageOnce` does not say that a message is in a queue or a batch only once, nor in only
one of the batches; `Lone` does, and without it a claim would leave a copy. A call's own
message is put into a place by that call alone, so `Known` says that it is in none before
the call got that far. A reconcile prompt belongs to no call; `Lone`
says that those in a place are marked in `reconciled`. The argument needs that callers'
messages and reconcile prompts are different entries, which is a part of
`AgentTurnsAssumption`: in the code both get an id of their own when they are made.

`TurnOwnsSlot` looks at runs that may have ended, so `Slotted` adds that the run of the
current turn is still streaming and that each run which goes on and is not settled is
the slot's. It is inductive because no handler takes the slot without having looked at it
in the same step, and none settles a run that streams the current turn without ending
that turn. A rewind does the first, so it is excluded here as well.

`ReplacementBusy` is inductive with the types (`Stays`): all handlers that put the agent
to rest look at `pendingReplacement` first, except `finalizeOutOfBandRun`
(`agent-manager.ts:4214`). The theorem and the run therefore exclude out-of-band commands.
With them the property is false (`agent_oob_idle`).

`NoOvertaking` is an action property: a step that delivers n has delivered each m that was
ahead of it. `FirstInFirstOut` rests on four facts, all kept by every handler (`Ordered`).
Batches wait for the slot's run only (`Handoff`), so that one line holds all of them,
and what is queued comes behind it. A claim takes a prefix of the queue and appends it as the last batch (`ClaimOrder`),
and put-backs return what did not get the slot to the front (`RestOrDrainOrder`). Settling
a run hands out the batch that waited longest, whose prompt names the run it becomes
(`HeadsOwn`), so that no earlier prompt is overwritten. And a message is in one place
(`Lone`), so that a copy cannot overtake. Handlers are chains of these operators;
`InLine` and `Obeys` are what composes: `InOrder` says what may become of n behind m, and
`Behind` that it stays so until m is delivered.

`CancelEndsItsTurn` could fail because events of a turn in `finalized` are dropped: if the
captured turn was finalized and is current still, or again, the synthetic `turn_canceled`
does nothing. `Over` excludes that: a turn that was finalized had its prompt, and its
generator is past streaming, while that of the current turn streams (`Slotted`). It is
inductive because a run gets a prompt only when its message leaves the queue or the
waiting batches (`HeadsOwn`, `Lone`), so a run never starts again (`Begins`), and because
`finalizeForegroundTurn` is given a turn only by the terminal event of the current one,
which tells its generator in the same step. That a cancellation touches nobody else's
turn is in its own guards; that nothing but `CancelSettles` ends its wait is
`SettlingEnds`. A rewind takes the slot from a run that streams, so it is excluded.

`SteerHoldsTurn` is argued with `Admitted`: a call that asks the provider is the head of
the mutations, the barrier is up and the tail is empty. So no event is handled and no
cancellation settles until the answer, and what the provider reports meanwhile waits
behind the barrier (`Shut`). Only the start of a run still moves the active turn, and it
finds none of the manager's: a current turn is that of the slot's run, which streams
already (`Slotted`, `Opens`). The property therefore speaks of the manager's own turns. A
turn that begins after its run was stopped, when the interrupt failed while `startTurn`
was outstanding, is active without being the manager's, and a steer for it can be
overtaken by the start of another run: a first version of the property, over all active
turns, held for three calls, and TLC refuted it with four (run, stop, run, steer). The
code looks at the turn again after the answer (`assertSteerAdmissionOwnsTurn`).

`CurrentTurnEnds` says nothing of a turn that is about to become current, so its
strengthening does: `StartEnds` says of a run whose `startTurn` is outstanding that, once
the provider has begun its turn, the end is owed or kept, under the run (`staged`) or
behind the barrier. `EndComes` is the property for any set of turns whose end is owed.
`EnqueueLands` says where an event lands, and `LandedEnds` that this is where it will be
found: the current turn's run streams, so its events are not staged, and the run that
starts is the one in the slot (`Slotted`). The answer of `startTurn` hands on what was
staged less the report of the beginning, which is no end (`EndInWithout`), and an end that
is delivered leaves its turn no longer current (`DeliverStarts`). All other steps neither
report nor move an event (`Rests`, `StepKinds`). A run that was settled in its start is
outside `StartEnds`: that is where the deviation of `NoGhostTurn` lies.

`ReplacementHandedOn` is about a step, and follows case by case from `FlagInv`: only
`CancelToReplace` raises the flag (`Raises`, `StepGoes`), a call that replaces stays at it
until it starts its run or lowers the flag (`ReplacingMoves`), and a run that starts is
answered once, which lowers the flag unless the run was settled and nobody waits for it
(`StartingMoves`). `Ran` (a run that had the slot had its prompt) is the strengthening: the
run of a replacement, whose prompt is in no place yet, cannot have been settled before it
starts.

`OncePerKey` speaks of effects only (`TookEffect`), so its strengthening ties them to the
files: `EffectsOnRecord` says that the receipt of a key names the call that took effect
under it, and `DiskKnown` that the storage knows every record file but those it failed to
remove, so that a crash brings back no other agent. To keep that through every step, `Exclusive` says that a call in the middle of
`executeOnce` is the executing one of its key, `Chained` that a key's queue holds its own
calls, and `StageFits` what the receipt must look like at each stage: absent before the
pending one is written, the call's own and pending until it ends, and, before a removal,
that no agent of the call is left. `CompletedStays` follows, because the four steps that
touch a receipt find it absent or pending.

`AnswersAgree` compares answers that were given at different times. `AnswerInv` ties each
answer to the completed receipt of its key (`AnswerBacked`), which is never rewritten, and
says what a pending receipt's writer is doing or how it ended (`PendingOwned`), for which
it must know which calls wait in the queues (`QueueInv`) and whose agents have been made
(`AgentsCreated`). `StuckForAReason` is the case `Accounted` of `PendingOwned`, which is
the one left when nobody executes: the writer was cut off by a crash, could not remove its
receipt, or failed, a creation only after it had made its agent.

`AnswerIsExact` says nothing of the numbers a later step compares. `Heard` does: while a
cursor has not expired, its reader holds the present value of every id whose number the
cursor covers. A trimmed tombstone gets number 0, which every cursor covers, so `Heard`
survives the trimming only because `expired` moves past the dropped number.

`OneDaemonUnlessBlind` is strengthened to `Held`: while no unlink was blind, every
process that runs, stops or is about to write its lock (`Holder`) has the file that the
path names, by what is in it or by being its writer (`Holds`), but for those in `ousted`.
A confirmed takeover is the one step that takes the file from a holder, which is ousted
in that step and stays so until it opens a lock of its own again. `OneWriter` makes that exclusive: a file that
somebody is about to write is empty and has one writer; `Handles` says which files and
which process ids the open handles are of. Two holders then have one file, and one id.

`ClaimInv` ties three things together: the claims (`HeldIsRunning`: who runs a schedule
has it claimed; `HeldOnce`), the open runs of the files (`OpenOnce`: one at most;
`OpenHeld`: it is the run of the call that holds the schedule, or recovery has still to
come to it), and the daemon's phase (`HeldUp`: no call outlives its daemon). Recovery
closes the first open run only; that there is no second one is `OpenOnce`.

`PlaceInv` follows a hidden workspace from its making to its end. `HiddenKept` says who
will find it: the call that made it, the open run of the file, recovery, or nobody, when
the daemon ended before a file told of it (`astray`). That a call still knows its
workspace when its file is edited, completed or deleted meanwhile is `WorksWell` and
`PlacedNew`: only schedules that make new agents have placed runs, and an edit cannot
change that.

`FiresOnce` speaks of the past, so `SlotInv` says how the next time and what a tick
carries relate to it: the next time of a schedule is after all times it was run for,
except while a run of it is under way or recovery has still to come to it (`NextLater`,
`Firing`); and what a tick is about to run for is not beyond the next time and after all
times run for, unless another tick is running the schedule, whose claim it will find
(`ClaimsLater`). The end of a run breaks the last part for a tick that is between its read
and its claim. That step puts the tick in `outrun`, which `ClaimsLater` excepts, and the
run such a tick starts is in `late`, which `FiresOnce` excepts: nothing keeps it from
happening (`schedules_refire`).

`Order` says where everything stands that is on its way to the app. Heads in the channel
never decrease, and one update follows the message before it by exactly one (`Chain`);
what the answering handler holds back follows its answer without a gap, up to the head
while that handler owns the subscription (`PendingInv`); and the app, the channel and the
answer are in this order: nothing that was sent is behind the app's position (`At`) or
past the answer being prepared (`Answered`, `ChannelInv`). The last is what a
second list request could break: it stops the updates of the first, whose handler then
sends its answer only, without what it held back, so that the answer to the second is
behind nothing that was sent.

`NothingMissing` looks at the replica and the catalog only when their positions agree.
`Feed` says what a replica is in between: there is a history of this generation, a catalog
for each position, such that the journal, the held back updates and the channel tell it
(`Told`), and the replica covers the catalog of its cursor's position. An answer
that is no snapshot patches every catalog from some position up to its head, and that
position is not beyond the app's (`Truthful`), because a request asks from where the app is
or has been (`Asked`). That the folded journal is such a patch (`GapPatches`) is by
induction over the rounds of the loop: a label that is later than `since` has its last
value in `labels`, or has not changed. The history is a variable of the proof alone:
`PublishFeed` extends it, and `RestartFeed` begins a new one.

`GapPatches`, `LaterAll`, `NetType` and `RunExists` are inductions over a loop of any
length. The library's induction theorems take an operator, which the provers cannot
instantiate; `Induction` states the same for a set, and is proved from the library's
`NatLessThanWellFounded` and `WFMin`, which take relations and sets.

The proofs rest on the named assumptions only (`AgentTurnsAssumption`,
`SystemEntriesAssumption`, `NoneAssumption`, `JournalAssumption`, `DistinctKeys`,
`NoCallIsNone`, `BoundsAssumption`, `FeedNoneAssumption`, `CollectionAssumption`, `PidLockAssumption`, `ScheduleAssumption`), which TLC evaluates in the
runs.

Only model-checked so far:

- With rewinds: `NoOvertaking` in the run `agent_messages`. `SteerHoldsTurn`,
  `CancelEndsItsTurn` and `ReplacementHandedOn` were checked once with rewinds and three
  calls (274,761 states), in no run. `TurnOwnsSlot`, `CurrentTurnEnds` and `HandoffWaits`
  are false with rewinds (`agent_rewind`), and `ReplacementBusy` is false with
  out-of-band commands (`agent_oob_idle`): the theorems and runs exclude them.
- `RefreshIsCurrent` and `NeverGoesBack` of `DirectorySync`: they need an invariant that
  ties each answer, update, recorded change and cached row to the collection's numbers
  through every connection, and an induction over the fold that replays the changes
  recorded under a refresh.
- `ImplementsAtomicLabels` and `LabelsDefined` with the fault `"marker"` are false, see
  above.
- Everything temporal beyond `[]` and action properties: liveness under fairness rests on
  ENABLED, which is out of the prover's reach.

## Not modelled

- Provider sessions, browser tools, speech, file mutations and the relay: their state is
  that of external programs, or bytes. `AgentTurns` takes a provider by its contract.
- The timeline store and the client's transcript (`agent-timeline-store.ts`,
  `session-stream-reducers.ts`), the workflow engine, language-server leases, terminals'
  size claims, project registry and archive: state machines that could be modelled next,
  in this order.
- The hub: `docs/hub.md` says that the shipped daemon has none.
- `session.ts`, `websocket-server.ts`, `daemon-client.ts`: routing for every feature. The
  handlers with a protocol of their own are in the modules of these protocols.
- Screens, CLI, desktop shell, website and generated code: presentation, without
  coordination of their own.
- Of the components that are modelled partly, what "Left out" says above and in
  `PROJECT.json`.
