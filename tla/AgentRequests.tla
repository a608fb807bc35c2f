--------------------------- MODULE AgentRequests ---------------------------
(* The request journal that makes keyed requests safe to retry: one daemon   *)
(* object shared by every socket session, and one receipt file per key       *)
(* (server/src/server/agent/requests/index.ts). A creation key names the     *)
(* creation of one agent, a message key one submission to a provider. The    *)
(* calls of one key run one after the other; the daemon may die between any  *)
(* two steps, a file write may fail, and another client may delete an agent  *)
(* as soon as the directory shows it.                                        *)
EXTENDS Naturals, Sequences

CONSTANTS
    Calls,          \* one member per create or send request a client sends
    CreateKeys,     \* idempotency keys of creations
    SendKeys,       \* message ids, each scoped to its agent
    Requests,       \* fingerprints of the arguments
    NoCall,
    MaxCrashes,     \* bound: daemon deaths
    MaxDiskErrors   \* bound: failed file operations

ASSUME DistinctKeys == CreateKeys \cap SendKeys = {}
ASSUME NoCallIsNone == NoCall \notin Calls

Keys == CreateKeys \cup SendKeys

VARIABLES
    receipt,      \* receipt[k]: the receipt file of key k
    call,         \* call[c]: the progress of a request
    executing,    \* executing[k]: the call whose executeOnce runs, if any
    waiting,      \* waiting[k]: the calls chained behind it
    live,         \* calls whose agent is in the manager's map
    stored,       \* calls whose agent has a record the storage knows
    onDisk,       \* calls whose agent has a record file
    deleting,     \* agents under the delete fence of the agent storage
    submitted,    \* calls whose prompt reached the provider
    created,      \* calls whose agent was ever stored
    undeleted,    \* calls whose agent's delete could not remove the file
    crashes, diskErrors

vars == <<receipt, call, executing, waiting, live, stored, onDisk, deleting,
          submitted, created, undeleted, crashes, diskErrors>>

(* `by` is the call that wrote the receipt. A creation's call mints the agent *)
(* id the receipt carries (randomUUID), so it also stands for that agent.     *)
Receipt == [request : Requests, by : Calls, state : {"pending", "completed"}]
NoReceipt == [state |-> "none"]

Running == {"reading", "recovering", "confirming", "preparing", "assigning",
            "running", "registering", "persisted", "submitted", "failed",
            "removing", "completing"}
\* "unfreed": refused with the error of the removal of its own receipt.
Ended == {"ok", "error", "unfreed", "conflict", "unknown", "gone", "lost"}
Stage == {"new", "waiting", "answering"} \cup Running \cup Ended

(* `agent` is that of the receipt the call read, or the one it answers with.  *)
CallRecord == [stage : Stage, key : Keys, request : Requests,
               agent : Calls \cup {NoCall}]

TypeOK ==
    /\ receipt \in [Keys -> Receipt \cup {NoReceipt}]
    /\ call \in [Calls -> CallRecord]
    /\ executing \in [Keys -> Calls \cup {NoCall}]
    /\ waiting \in [Keys -> Seq(Calls)]
    /\ live \subseteq Calls
    /\ stored \subseteq Calls
    /\ onDisk \subseteq Calls
    /\ deleting \subseteq Calls
    /\ submitted \subseteq Calls
    /\ created \subseteq Calls
    /\ undeleted \subseteq Calls
    /\ crashes \in Nat
    /\ diskErrors \in Nat

Init ==
    /\ receipt = [k \in Keys |-> NoReceipt]
    /\ call \in [Calls -> [stage : {"new"}, key : Keys, request : Requests,
                           agent : {NoCall}]]
    /\ executing = [k \in Keys |-> NoCall]
    /\ waiting = [k \in Keys |-> <<>>]
    /\ live = {} /\ stored = {} /\ onDisk = {} /\ deleting = {}
    /\ submitted = {} /\ created = {} /\ undeleted = {}
    /\ crashes = 0 /\ diskErrors = 0

-----------------------------------------------------------------------------
KeyOf(c) == call[c].key
At(c, stage) == call[c].stage = stage
Moves(c, stage) == call' = [call EXCEPT ![c].stage = stage]
IsCreate(c) == KeyOf(c) \in CreateKeys
Exists(a) == a \in live \cup stored     \* findAgent

records == <<stored, onDisk, undeleted>>
agents == <<live, records, deleting, submitted, created>>
faults == <<crashes, diskErrors>>

(* The promise of executeOnce settles; the next call of the key may start.    *)
Settles(c, stage) ==
    /\ Moves(c, stage)
    /\ executing' = [executing EXCEPT ![KeyOf(c)] = NoCall]
    /\ UNCHANGED waiting

(* It settles with the agent id of a receipt, which the session answers.      *)
Returns(c, a) ==
    /\ call' = [call EXCEPT ![c].stage = "answering", ![c].agent = a]
    /\ executing' = [executing EXCEPT ![KeyOf(c)] = NoCall]
    /\ UNCHANGED waiting

Finds(c, a) ==
    /\ call' = [call EXCEPT ![c].stage = "recovering", ![c].agent = a]
    /\ UNCHANGED <<executing, waiting>>

(* writeJsonFileAtomic of a receipt with the call's own fingerprint.          *)
Writes(c, a, state) ==
    receipt' = [receipt EXCEPT ![KeyOf(c)] =
                  [request |-> call[c].request, by |-> a, state |-> state]]

DiskFails ==
    /\ diskErrors < MaxDiskErrors
    /\ diskErrors' = diskErrors + 1
    /\ UNCHANGED crashes

(* execute: chain behind the calls of the same key.                           *)
Execute(c) ==
    /\ At(c, "new")
    /\ Moves(c, "waiting")
    /\ waiting' = [waiting EXCEPT ![KeyOf(c)] = Append(@, c)]
    /\ UNCHANGED <<receipt, executing, agents, faults>>

\* Mutant: the calls of a key run side by side.
UnserializedStartOnce(k) ==
    /\ waiting[k] # <<>>
    /\ executing' = [executing EXCEPT ![k] = Head(waiting[k])]
    /\ waiting' = [waiting EXCEPT ![k] = Tail(@)]
    /\ Moves(Head(waiting[k]), "reading")
    /\ UNCHANGED <<receipt, agents, faults>>

StartOnce(k) ==
    /\ executing[k] = NoCall
    /\ waiting[k] # <<>>
    /\ executing' = [executing EXCEPT ![k] = Head(waiting[k])]
    /\ waiting' = [waiting EXCEPT ![k] = Tail(@)]
    /\ Moves(Head(waiting[k]), "reading")
    /\ UNCHANGED <<receipt, agents, faults>>

(* executeOnce: what the receipt on disk says decides. Any failure to read it *)
(* but its absence, an invalid receipt included, ends the call.               *)
ReadFails(c) ==
    /\ At(c, "reading")
    /\ DiskFails
    /\ Settles(c, "error")
    /\ UNCHANGED <<receipt, agents>>

ReadFindsNone(c) ==
    /\ At(c, "reading")
    /\ receipt[KeyOf(c)] = NoReceipt
    /\ Moves(c, IF IsCreate(c) THEN "assigning" ELSE "preparing")
    /\ UNCHANGED <<receipt, executing, waiting, agents, faults>>

ReadFindsConflict(c) ==
    /\ At(c, "reading")
    /\ receipt[KeyOf(c)] # NoReceipt
    /\ receipt[KeyOf(c)].request # call[c].request
    /\ Settles(c, "conflict")
    /\ UNCHANGED <<receipt, agents, faults>>

ReadFindsReceipt(c) ==
    LET r == receipt[KeyOf(c)] IN
    /\ At(c, "reading")
    /\ r # NoReceipt
    /\ r.request = call[c].request
    /\ IF r.state = "completed" THEN Returns(c, r.by) ELSE Finds(c, r.by)
    /\ UNCHANGED <<receipt, agents, faults>>

(* recover: findAgent for a creation; a send is never recovered.              *)
Recover(c) ==
    /\ At(c, "recovering")
    /\ IF IsCreate(c) /\ Exists(call[c].agent)
       THEN Moves(c, "confirming") /\ UNCHANGED <<executing, waiting>>
       ELSE Settles(c, "unknown")
    /\ UNCHANGED <<receipt, agents, faults>>

Confirm(c) ==
    /\ At(c, "confirming")
    /\ \/ /\ Writes(c, call[c].agent, "completed")
          /\ Returns(c, call[c].agent)
          /\ UNCHANGED faults
       \/ DiskFails /\ Settles(c, "error") /\ UNCHANGED receipt
    /\ UNCHANGED agents

(* prepare: load the agent before anything ambiguous is written.              *)
Prepare(c) ==
    /\ At(c, "preparing")
    /\ \/ Moves(c, "assigning") /\ UNCHANGED <<executing, waiting>>
       \/ Settles(c, "error")
    /\ UNCHANGED <<receipt, agents, faults>>

WritePending(c) ==
    /\ At(c, "assigning")
    /\ \/ /\ Writes(c, c, "pending")
          /\ Moves(c, "running")
          /\ UNCHANGED <<executing, waiting, faults>>
       \/ DiskFails /\ Settles(c, "error") /\ UNCHANGED receipt
    /\ UNCHANGED agents

-----------------------------------------------------------------------------
(* operation.run throws before it had an effect.                              *)
RunFails(c) ==
    /\ At(c, "running")
    /\ Moves(c, "failed")
    /\ UNCHANGED <<receipt, executing, waiting, agents, faults>>

(* A send: the provider accepts the prompt, then sendPromptToAgent or the wait *)
(* for the run to start may still throw.                                       *)
Submit(c) ==
    /\ At(c, "running") /\ ~IsCreate(c)
    /\ submitted' = submitted \cup {c}
    /\ Moves(c, "submitted")
    /\ UNCHANGED <<receipt, executing, waiting, live, records, deleting, created, faults>>

SubmitReturns(c) ==
    /\ At(c, "submitted")
    /\ Moves(c, "completing") \/ Moves(c, "failed")
    /\ UNCHANGED <<receipt, executing, waiting, agents, faults>>

(* A creation: registerSession enters the manager's map, persists a snapshot,  *)
(* publishes, and checks before returning that it is still registered.         *)
Register(c) ==
    /\ At(c, "running") /\ IsCreate(c)
    /\ live' = live \cup {c}
    /\ Moves(c, "registering")
    /\ UNCHANGED <<receipt, executing, waiting, records, deleting, submitted, created, faults>>

(* writeRecord: the file, then the cache.                                      *)
Stores(c) ==
    /\ stored' = stored \cup {c}
    /\ onDisk' = onDisk \cup {c}
    /\ created' = created \cup {c}
    /\ UNCHANGED undeleted

(* A failed persist closes the partial agent, whose closed snapshot may be     *)
(* written by the cleanup.                                                     *)
PersistAgent(c) ==
    /\ At(c, "registering")
    /\ \/ Stores(c) /\ Moves(c, "persisted") /\ UNCHANGED <<live, faults>>
       \/ /\ DiskFails
          /\ live' = live \ {c}
          /\ Stores(c) \/ UNCHANGED <<records, created>>
          /\ Moves(c, "failed")
    /\ UNCHANGED <<receipt, executing, waiting, deleting, submitted>>

(* The rest of the creation: it fails if a delete closed the agent meanwhile,  *)
(* it may fail and close its own agent (whose record stays), or fail after     *)
(* registration (the agent stays live).                                        *)
FinishCreate(c) ==
    /\ At(c, "persisted")
    /\ \/ c \in live /\ Moves(c, "completing") /\ UNCHANGED live
       \/ Moves(c, "failed") /\ live' = live \ {c}
       \/ c \in live /\ Moves(c, "failed") /\ UNCHANGED live
    /\ UNCHANGED <<receipt, executing, waiting, records, deleting, submitted, created, faults>>

(* retrySafe: a creation that left no agent frees its key.                     *)
\* Mutant: the receipt goes although the agent exists.
RetryAlwaysSafe(c) ==
    /\ At(c, "failed")
    /\ Moves(c, "removing")
    /\ UNCHANGED <<receipt, executing, waiting, agents, faults>>

\* Mutant: a failed creation keeps its key.
RetryNeverSafe(c) ==
    /\ At(c, "failed")
    /\ Settles(c, "error")
    /\ UNCHANGED <<receipt, agents, faults>>

\* Mutant: a rejected call blocks those behind it.
FailureKeepsChain(c) ==
    /\ At(c, "failed")
    /\ Moves(c, "error")
    /\ UNCHANGED <<receipt, executing, waiting, agents, faults>>

RunFailed(c) ==
    /\ At(c, "failed")
    /\ IF IsCreate(c) /\ ~Exists(c)
       THEN Moves(c, "removing") /\ UNCHANGED <<executing, waiting>>
       ELSE Settles(c, "error")
    /\ UNCHANGED <<receipt, agents, faults>>

RemoveReceipt(c) ==
    /\ At(c, "removing")
    /\ \/ /\ receipt' = [receipt EXCEPT ![KeyOf(c)] = NoReceipt]
          /\ Settles(c, "error")
          /\ UNCHANGED faults
       \/ DiskFails /\ Settles(c, "unfreed") /\ UNCHANGED receipt
    /\ UNCHANGED agents

WriteCompleted(c) ==
    /\ At(c, "completing")
    /\ \/ /\ Writes(c, c, "completed")
          /\ Returns(c, c)
          /\ UNCHANGED faults
       \/ DiskFails /\ Settles(c, "error") /\ UNCHANGED receipt
    /\ UNCHANGED agents

(* send reads its receipt again for the result to answer with.                 *)
RereadFails(c) ==
    /\ At(c, "answering") /\ ~IsCreate(c)
    /\ DiskFails
    /\ Moves(c, "error")
    /\ UNCHANGED <<receipt, executing, waiting, agents>>

(* The session answers: a creation only with a record that still exists.       *)
Answer(c) ==
    /\ At(c, "answering")
    /\ Moves(c, IF IsCreate(c) /\ call[c].agent \notin stored THEN "gone" ELSE "ok")
    /\ UNCHANGED <<receipt, executing, waiting, agents, faults>>

-----------------------------------------------------------------------------
(* delete_agent_request of an agent the directory shows: fence the storage and *)
(* close the runtime, then drop the record.                                    *)
CloseForDelete(a) ==
    /\ a \in stored \ deleting
    /\ deleting' = deleting \cup {a}
    /\ live' = live \ {a}
    /\ UNCHANGED <<receipt, call, executing, waiting, records, submitted, created, faults>>

(* AgentStorage.remove forgets the record even where the file cannot be        *)
(* removed: the error is logged, and the file is back after a restart.         *)
RemoveRecord(a) ==
    /\ a \in deleting \cap stored
    /\ stored' = stored \ {a}
    /\ \/ onDisk' = onDisk \ {a} /\ UNCHANGED <<undeleted, faults>>
       \/ DiskFails /\ undeleted' = undeleted \cup {a} /\ UNCHANGED onDisk
    /\ UNCHANGED <<receipt, call, executing, waiting, live, deleting, submitted, created>>

(* The daemon dies: memory is gone, files stay and are loaded by the next one, *)
(* nobody answers open requests.                                               *)
Crash ==
    /\ crashes < MaxCrashes
    /\ crashes' = crashes + 1
    /\ call' = [c \in Calls |->
                  IF call[c].stage \in {"new"} \cup Ended THEN call[c]
                  ELSE [call[c] EXCEPT !.stage = "lost"]]
    /\ executing' = [k \in Keys |-> NoCall]
    /\ waiting' = [k \in Keys |-> <<>>]
    /\ live' = {} /\ deleting' = {} /\ stored' = onDisk
    /\ UNCHANGED <<receipt, onDisk, submitted, created, undeleted, diskErrors>>

CallStep(c) ==
    \/ ReadFails(c) \/ ReadFindsNone(c) \/ ReadFindsConflict(c) \/ ReadFindsReceipt(c)
    \/ Recover(c) \/ Confirm(c) \/ Prepare(c) \/ WritePending(c)
    \/ RunFails(c) \/ Submit(c) \/ SubmitReturns(c)
    \/ Register(c) \/ PersistAgent(c) \/ FinishCreate(c)
    \/ RunFailed(c) \/ RemoveReceipt(c) \/ WriteCompleted(c)
    \/ RereadFails(c) \/ Answer(c)

Next ==
    \/ \E c \in Calls : Execute(c) \/ CallStep(c) \/ CloseForDelete(c) \/ RemoveRecord(c)
    \/ \E k \in Keys : StartOnce(k)
    \/ Crash

Spec == Init /\ [][Next]_vars

(* The event loop and the providers get every started call to its end; no      *)
(* client has to send, no user to delete, nothing has to crash.                *)
Fairness ==
    /\ \A c \in Calls : WF_vars(CallStep(c))
    /\ \A k \in Keys : WF_vars(StartOnce(k))

FairSpec == Spec /\ Fairness

-----------------------------------------------------------------------------
TookEffect == submitted \cup ((live \cup stored \cup onDisk) \ undeleted)

(* A key takes effect once: whatever is retried, fails or crashes, one prompt  *)
(* of a message id reaches the provider (hub.md: "retrying its message ID does *)
(* not submit it again"), and two agents of one creation key never exist at    *)
(* the same time, in memory or on disk. Left out are agents whose delete could *)
(* not remove the record file: agent-storage.ts:465-480 forgets the record all *)
(* the same, so that the key may be free while the file waits for a restart.   *)
(* That a deleted agent's key is not used again is KeyNotReused.               *)
OncePerKey ==
    \A c, d \in TookEffect : KeyOf(c) = KeyOf(d) => c = d

(* All creations of a key that were accepted were answered with the same agent. *)
AnswersAgree ==
    \A c, d \in Calls :
        (At(c, "ok") /\ At(d, "ok") /\ KeyOf(c) = KeyOf(d) /\ IsCreate(c))
            => call[c].agent = call[d].agent

(* A key at rest is stuck with a pending receipt only where the call that      *)
(* wrote it was cut off by a crash, could not remove it, or was itself refused *)
(* with an error, and for a creation only if an agent was stored by then. No   *)
(* call that succeeded, and no creation that left nothing, blocks its key.     *)
StuckForAReason ==
    \A k \in Keys :
        (executing[k] = NoCall /\ receipt[k].state = "pending")
            => LET c == receipt[k].by IN
               \/ At(c, "lost") \/ At(c, "unfreed")
               \/ At(c, "error") /\ (IsCreate(c) => c \in created)

(* A completed receipt is final: no retry, failure or crash reopens its key.   *)
CompletedStays ==
    [][\A k \in Keys : receipt[k].state = "completed" => receipt'[k] = receipt[k]]_vars

(* Every request is answered, or cut off by a crash.                           *)
CallsReturn ==
    \A c \in Calls : (call[c].stage = "waiting") ~> (call[c].stage \in Ended)

(* hub.md: "Deleting that agent does not make its old creation key reusable."  *)
KeyNotReused ==
    \A c, d \in created : KeyOf(c) = KeyOf(d) => c = d
=============================================================================
