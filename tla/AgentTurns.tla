----------------------------- MODULE AgentTurns -----------------------------
(***************************************************************************)
(* How the daemon's AgentManager coordinates the turns of one agent        *)
(* (packages/server/src/server/agent/agent-manager.ts, agent-run-state.ts).*)
(* At most one foreground run owns the agent's run slot; prompts reach a   *)
(* busy agent by queueing, by steering its turn or by cancelling it; the   *)
(* provider reports turns through a stream of events.                      *)
(*                                                                         *)
(* The code is single-threaded: what runs between two awaits is one action *)
(* here.  The state the manager keeps about the agent is the record        *)
(* `agent`, the handlers are operators from such a record to the next one. *)
(* A prompt names everything it causes: the queue entry it is parked as,   *)
(* the run its batch starts (the run's token is the batch's head), and the *)
(* provider turn of that run.                                              *)
(***************************************************************************)
EXTENDS SteerQueue

CONSTANTS Prompts,        \* calls callers make; each is made at most once
          TodoEntries,    \* reconcile prompts Otto parks by itself
          Autonomous,     \* turns a provider may start on its own
          Verbs,          \* what callers may ask for in this instance
          FinalizedLimit, \* the finalized turns remembered (50 in the code)
          None

AllVerbs == {"run", "interrupt", "queue", "steer", "stop", "rewind", "oob"}
EndKinds == {"completed", "failed", "canceled"}

ASSUME AgentTurnsAssumption ==
  /\ Entries = Prompts \cup TodoEntries /\ Prompts \cap TodoEntries = {}
  /\ TodoEntries \subseteq SystemEntries
  /\ Verbs \subseteq AllVerbs /\ FinalizedLimit \in Nat \ {0}
  /\ Entries \cap Autonomous = {} /\ None \notin Entries \cup Autonomous

Tokens == Entries
Turns  == Tokens \cup Autonomous
Event  == [type : {"started"} \cup EndKinds, turn : Turns]

VARIABLES
  agent,      \* what the manager keeps about the agent
  call,       \* call[p]: how far the call made for prompt p has come
  mutations,  \* foregroundMutationTails: serialised cancels and admissions
  live,       \* the turn the provider is running, as a set
  begun,      \* the turns the provider ever began
  late,       \* interrupted turns whose terminal event is still to come
  stopped     \* turns an interrupt reached before they could begin

vars == <<agent, call, mutations, live, begun, late, stopped>>

NoCall == [verb |-> "none", pc |-> "new", turn |-> None, run |-> None]

\* A queued batch waits for a run to settle; several may wait for one run.
AgentState ==
  [lifecycle : {"idle", "running", "error"},
   activeForegroundTurnId : Tokens \cup {None},
   activeTurnId : Turns \cup {None},
   pendingReplacement : BOOLEAN, pendingSteerDrain : BOOLEAN,
   steerQueueHeld : BOOLEAN, lastError : BOOLEAN,
   steerQueue : Seq(Entries), outOfBandRunCount : Nat,
   finalized : Seq(Turns), reconciled : SUBSET TodoEntries,
   run : Tokens \cup {None}, settled : SUBSET Tokens,
   generator : [Tokens -> {"unused", "starting", "streaming", "ending", "done", "lock"}],
   staged : [Tokens -> Seq(Event)], waiting : [Tokens -> Seq(Seq(Entries) \ {<<>>})],
   prompt : [Tokens -> Seq(Entries)],
   tail : Seq(Event), barrier : BOOLEAN, barred : Seq(Event)]

Stages ==
  {"new", "parked", "steering", "asked", "accepted", "unavailable", "failed",
   "cancelling", "interrupting", "settling", "draining", "replacing", "locking",
   "rewinding", "oob", "streamed", "forwarded", "steered", "removed", "rejected", "done"}

CallState ==
  [verb : AllVerbs \cup {"none"}, pc : Stages,
   turn : Turns \cup {None}, run : Tokens \cup {None}]

TypeOK ==
  /\ agent \in AgentState
  /\ call \in [Prompts -> CallState]
  /\ mutations \in Seq(Prompts)
  /\ live \in SUBSET Turns /\ begun \in SUBSET Turns /\ late \in SUBSET Turns
  /\ stopped \in SUBSET Tokens

Init ==
  /\ agent = [lifecycle |-> "idle", activeForegroundTurnId |-> None,
              activeTurnId |-> None, pendingReplacement |-> FALSE,
              pendingSteerDrain |-> FALSE, steerQueueHeld |-> FALSE,
              lastError |-> FALSE, steerQueue |-> <<>>, outOfBandRunCount |-> 0,
              finalized |-> <<>>, reconciled |-> {}, run |-> None, settled |-> {},
              generator |-> [t \in Tokens |-> "unused"],
              staged |-> [t \in Tokens |-> <<>>],
              waiting |-> [t \in Tokens |-> <<>>],
              prompt |-> [t \in Tokens |-> <<>>],
              tail |-> <<>>, barrier |-> FALSE, barred |-> <<>>]
  /\ call = [p \in Prompts |-> NoCall]
  /\ mutations = <<>> /\ live = {} /\ begun = {} /\ late = {} /\ stopped = {}

RangeOf(seq) == {seq[i] : i \in DOMAIN seq}

(***************************************************************************)
(* The run slot.                                                           *)
(***************************************************************************)
hasPendingRun(a) == a.run # None

hasInFlightRun(a) ==
  a.lifecycle = "running" \/ a.activeForegroundTurnId # None \/ hasPendingRun(a)

isBusyOnlyWithOutOfBandRun(a) ==
  a.outOfBandRunCount > 0 /\ a.activeForegroundTurnId = None /\ ~hasPendingRun(a)

SlotTaken(a) == a.activeForegroundTurnId # None \/ hasPendingRun(a)

\* Mutant: the flag of the hand-off is not reset.
StreamKeepsDrain(a, token, batch) ==
  [a EXCEPT !.steerQueueHeld = FALSE, !.lastError = FALSE, !.run = token,
            !.generator[token] = "starting", !.prompt[token] = batch]

\* streamAgent up to its first await: the caller owns the slot and the
\* provider has been asked to start the turn.  Callers check SlotTaken first.
streamAgent(a, token, batch) ==
  [a EXCEPT !.pendingSteerDrain = FALSE, !.steerQueueHeld = FALSE,
            !.lastError = FALSE, !.run = token,
            !.generator[token] = "starting", !.prompt[token] = batch]

\* dispatchSteerQueueBatch from the point where the slot's owner has settled.
DeliverBatch(a, batch) ==
  IF ~a.pendingSteerDrain THEN a
  ELSE IF SlotTaken(a)
       THEN [a EXCEPT !.pendingSteerDrain = FALSE,
                      !.steerQueue = batch \o a.steerQueue]
       ELSE streamAgent(a, Head(batch), batch)

dispatchSteerQueueBatch(a, batch) ==
  IF hasPendingRun(a)
  THEN [a EXCEPT !.waiting[a.run] = Append(@, batch)]
  ELSE DeliverBatch(a, batch)

\* Mutant: the slot is emptied and the batches that wait for it stay asleep.
SettleWithoutResuming(a, token) ==
  IF a.run # token THEN a
  ELSE [a EXCEPT !.run = None, !.settled = @ \cup {token}]

\* Mutant: the batch that came last resumes.
SettleResumingNewest(a, token) ==
  LET cleared == [a EXCEPT !.run = None, !.settled = @ \cup {token},
                           !.waiting[token] = <<>>]
      batches == a.waiting[token]
  IN  IF a.run # token THEN a
      ELSE IF batches = <<>> THEN cleared ELSE DeliverBatch(cleared, batches[Len(batches)])

\* settleForegroundRun: only the token that still owns the slot clears it.
\* Promise callbacks run before anything else can, so the batch that waited
\* longest resumes here; it leaves pendingSteerDrain cleared whatever it
\* does, so any batch behind it finds nothing to deliver and returns.
settleForegroundRun(a, token) ==
  IF a.run # token THEN a
  ELSE LET cleared == [a EXCEPT !.run = None, !.settled = @ \cup {token},
                                !.waiting[token] = <<>>]
       IN  IF a.waiting[token] = <<>> THEN cleared
           ELSE DeliverBatch(cleared, Head(a.waiting[token]))

(***************************************************************************)
(* Turn events.                                                            *)
(***************************************************************************)
\* Mutant: events pass the steer barrier.
EnqueuePastBarrier(a, event) ==
  IF a.run # None /\ a.generator[a.run] \in {"starting", "lock"}
  THEN [a EXCEPT !.staged[a.run] = Append(@, event)]
  ELSE [a EXCEPT !.tail = Append(@, event)]

\* enqueueSessionEvent: held at the steer barrier, staged under a run whose
\* turn has not started, or appended to the agent's event tail.
enqueueSessionEvent(a, event) ==
  IF a.barrier THEN [a EXCEPT !.barred = Append(@, event)]
  ELSE IF a.run # None /\ a.generator[a.run] \in {"starting", "lock"}
       THEN [a EXCEPT !.staged[a.run] = Append(@, event)]
       ELSE [a EXCEPT !.tail = Append(@, event)]

\* Mutant: the events that were held back are lost.
DropHeldEvents(a, events) == a

\* Every event that was held back, enqueued again in order.
EnqueueAll(a, events) ==
  IF a.barrier THEN [a EXCEPT !.barred = @ \o events]
  ELSE IF a.run # None /\ a.generator[a.run] \in {"starting", "lock"}
       THEN [a EXCEPT !.staged[a.run] = @ \o events]
       ELSE [a EXCEPT !.tail = @ \o events]

TerminalDisposition(a, turn) ==
  IF a.activeTurnId = None THEN "untracked"
  ELSE IF turn # None /\ a.activeTurnId # turn THEN "stale" ELSE "closed_current"

applyActiveTurnTerminal(a, turn) ==
  IF TerminalDisposition(a, turn) = "closed_current"
  THEN [a EXCEPT !.activeTurnId = None] ELSE a

rememberFinalizedTurn(a, turn) ==
  LET added == Append(a.finalized, turn)
  IN  IF turn = None \/ turn \in RangeOf(a.finalized) THEN a
      ELSE [a EXCEPT !.finalized =
              IF Len(added) > FinalizedLimit THEN Tail(added) ELSE added]

\* Mutant: queued even when there is nothing to reconcile.
QueueAnyTodo(a, todo) ==
  IF a.lastError \/ a.pendingReplacement \/ a.steerQueueHeld \/ a.steerQueue # <<>> THEN a
  ELSE [a EXCEPT !.steerQueue = <<todo>>, !.reconciled = @ \cup {todo}]

\* maybeEnqueueTodoReconcile with todo the entry for the current todo list,
\* None when the list is clean or was already reconciled.
maybeEnqueueTodoReconcile(a, todo) ==
  IF todo = None \/ a.lastError \/ a.pendingReplacement \/ a.steerQueueHeld
     \/ a.steerQueue # <<>>
  THEN a
  ELSE [a EXCEPT !.steerQueue = <<todo>>, !.reconciled = @ \cup {todo}]

\* Mutant: an agent with nothing to start is not put to rest.
DrainOrStay(a, held) ==
  LET batch == takeNextSteerQueueBatch(a.steerQueue)
  IN  IF held \/ a.lastError \/ a.steerQueueHeld \/ a.steerQueue = <<>> THEN a
      ELSE dispatchSteerQueueBatch(
             [a EXCEPT !.steerQueue = batch.rest, !.pendingSteerDrain = TRUE,
                       !.lifecycle = "running"], batch.entries)

\* The end both kinds of run share: rest, or claim the next queued batch.
RestOrDrain(a, held) ==
  LET batch == takeNextSteerQueueBatch(a.steerQueue)
      rest  == IF a.lastError THEN "error" ELSE "idle"
  IN  IF held THEN [a EXCEPT !.lifecycle = "running"]
      ELSE IF a.lastError \/ a.steerQueueHeld \/ a.steerQueue = <<>>
           THEN [a EXCEPT !.lifecycle = rest]
           ELSE dispatchSteerQueueBatch(
                  [a EXCEPT !.steerQueue = batch.rest, !.pendingSteerDrain = TRUE,
                            !.lifecycle = "running"], batch.entries)

finalizeForegroundTurn(a, turn, todo) ==
  LET noTurn == [rememberFinalizedTurn(a, turn) EXCEPT !.activeForegroundTurnId = None]
      parked == maybeEnqueueTodoReconcile(applyActiveTurnTerminal(noTurn, turn), todo)
  IN  RestOrDrain(parked, a.pendingReplacement /\ ~a.lastError)

\* Mutant: a stale end idles an agent whose replacement is on its way.
TurnEndedIgnoringReplacement(a, kind, isForeground) ==
  [a EXCEPT !.lastError = (kind = "failed"),
            !.lifecycle = IF isForeground THEN @
                          ELSE IF kind = "failed" THEN "error" ELSE "idle"]

\* onStreamTurnCompleted, onStreamTurnFailed and onStreamTurnCanceled.
TurnEnded(a, kind, isForeground) ==
  LET keepsBusy == isForeground \/ a.pendingReplacement \/ a.pendingSteerDrain
  IN  [a EXCEPT !.lastError = (kind = "failed"),
                !.lifecycle = IF kind = "failed"
                              THEN IF isForeground THEN @ ELSE "error"
                              ELSE IF keepsBusy THEN @ ELSE "idle"]

\* attachManagedTurnIdentity: an event without a turn is the current turn's.
ManagedTurn(a, eventTurn) ==
  IF eventTurn # None THEN eventTurn
  ELSE IF a.activeForegroundTurnId # None THEN a.activeForegroundTurnId ELSE a.activeTurnId

\* handleStreamEvent for a terminal event, and the notification of the
\* generator waiting for that turn.
TerminalEvent(a, kind, eventTurn, todo) ==
  LET turn == ManagedTurn(a, eventTurn)
      isForeground == turn # None /\ a.activeForegroundTurnId = turn
      closed == applyActiveTurnTerminal(a, turn)
      ended  == IF TerminalDisposition(a, turn) = "stale" THEN closed
                ELSE TurnEnded(closed, kind, isForeground)
      final  == IF isForeground THEN finalizeForegroundTurn(ended, turn, todo) ELSE ended
  IN  IF turn \in RangeOf(a.finalized) THEN a
      ELSE IF eventTurn \in Tokens /\ a.generator[eventTurn] = "streaming"
           THEN [final EXCEPT !.generator[eventTurn] = "ending"]
           ELSE final

\* onStreamTurnStarted: an echo of the foreground turn changes nothing.
TurnStarted(a, turn) ==
  IF a.activeForegroundTurnId = turn THEN a
  ELSE [a EXCEPT !.activeTurnId = turn, !.lifecycle = "running"]

\* The reconcile prompt a finalizing turn may find in the agent's todo list.
TodoChoices == {None} \cup (TodoEntries \ agent.reconciled)

(***************************************************************************)
(* Calls.  Each handler runs up to its first await.                        *)
(***************************************************************************)
Called(p, verb, pc, turn) ==
  call' = [call EXCEPT ![p] = [verb |-> verb, pc |-> pc, turn |-> turn, run |-> None]]

NoTurnChange == UNCHANGED <<live, begun, late, stopped>>

\* Mutant: a second run starts beside the first.
StartAnyway(p, verb) ==
  Called(p, verb, "streamed", None) /\ agent' = streamAgent(agent, p, <<p>>)

\* A fresh streamAgent, or the error it throws while the slot is taken.
StartOrReject(p, verb) ==
  IF SlotTaken(agent)
  THEN Called(p, verb, "rejected", None) /\ UNCHANGED agent
  ELSE Called(p, verb, "streamed", None) /\ agent' = streamAgent(agent, p, <<p>>)

\* Busy from now on, and a cancellation joins the mutations already queued.
CancelToReplace(p, verb, queued) ==
  /\ agent' = [agent EXCEPT !.pendingReplacement = TRUE, !.lifecycle = "running"]
  /\ Called(p, verb, "cancelling", None)
  /\ mutations' = Append(queued, p)

\* startOrReplaceRun with replaceRunning: streamAgent or replaceAgentRun.
StartOrReplace(p, queued) ==
  IF hasInFlightRun(agent) THEN CancelToReplace(p, "interrupt", queued)
  ELSE StartOrReject(p, "interrupt") /\ mutations' = queued

\* runAgent: the schedule's and the orchestrator's blocking run.
RunAgent(p) ==
  StartOrReject(p, "run") /\ UNCHANGED mutations /\ NoTurnChange

\* tryQueuePrompt and enqueueSteerMessage.  A message that finds the agent idle
\* beside a taken slot claims the next batch itself.
EnqueueSteerMessage(p, verb) ==
  LET parked == [agent EXCEPT !.steerQueue = Append(@, p)]
      batch  == takeNextSteerQueueBatch(parked.steerQueue)
  IN  /\ hasInFlightRun(agent) \/ agent.pendingSteerDrain
      /\ Called(p, verb, "parked", None)
      /\ agent' =
           IF /\ agent.lifecycle = "idle" /\ agent.activeForegroundTurnId = None
              /\ ~agent.pendingSteerDrain /\ hasPendingRun(agent)
           THEN dispatchSteerQueueBatch(
                  [parked EXCEPT !.steerQueue = batch.rest, !.pendingSteerDrain = TRUE,
                                 !.lifecycle = "running"], batch.entries)
           ELSE parked
      /\ UNCHANGED mutations

\* The provider would not take the prompt into the turn: replace that turn, if
\* it is still current and Otto started it.
SteerUnavailable(p, expected, queued) ==
  IF agent.activeForegroundTurnId = None /\ agent.activeTurnId = expected
  THEN StartOrReplace(p, queued)
  ELSE IF agent.activeTurnId # expected
  THEN Called(p, "steer", "rejected", None) /\ UNCHANGED agent /\ mutations' = queued
  ELSE CancelToReplace(p, "steer", queued)

\* steerOrReplaceActiveTurn: the admission joins the mutations.
SteerTurn(p, expected) ==
  IF expected = None THEN StartOrReplace(p, mutations)
  ELSE /\ Called(p, "steer", "steering", expected)
       /\ mutations' = Append(mutations, p) /\ UNCHANGED agent

\* startAgentRun for a prompt no out-of-band handler takes.
SendPrompt(p, verb) ==
  LET mustQueue == verb = "queue" \/ isBusyOnlyWithOutOfBandRun(agent)
      expected  == IF agent.activeForegroundTurnId # None
                   THEN agent.activeForegroundTurnId ELSE agent.activeTurnId
  IN  /\ IF mustQueue /\ (hasInFlightRun(agent) \/ agent.pendingSteerDrain)
         THEN EnqueueSteerMessage(p, verb)
         ELSE IF verb = "steer" THEN SteerTurn(p, expected)
              ELSE StartOrReplace(p, mutations)
      /\ NoTurnChange

\* tryRunOutOfBand, and finalizeOutOfBandRun when its handler settles.
TryRunOutOfBand(p) ==
  /\ agent' = [agent EXCEPT !.outOfBandRunCount = @ + 1, !.lifecycle = "running"]
  /\ Called(p, "oob", "oob", None)
  /\ UNCHANGED mutations /\ NoTurnChange

FinalizeOutOfBandRun(p) ==
  LET fewer == [agent EXCEPT !.outOfBandRunCount = IF @ > 0 THEN @ - 1 ELSE 0]
  IN  /\ call[p].pc = "oob"
      /\ agent' = IF fewer.outOfBandRunCount > 0 \/ SlotTaken(agent)
                     \/ agent.pendingSteerDrain
                  THEN fewer ELSE RestOrDrain(fewer, FALSE)
      /\ call' = [call EXCEPT ![p].pc = "done"]
      /\ UNCHANGED mutations /\ NoTurnChange

\* cancelAgentRunCommand: nothing to do unless a run is in flight.
StopRun(p) ==
  /\ IF hasInFlightRun(agent)
     THEN Called(p, "stop", "cancelling", None) /\ mutations' = Append(mutations, p)
     ELSE Called(p, "stop", "done", None) /\ UNCHANGED mutations
  /\ UNCHANGED agent /\ NoTurnChange

\* The rewind's lock: createPendingRun puts it in the slot whoever is there.
LockSlot(p) == agent' = [agent EXCEPT !.run = p, !.generator[p] = "lock"]

\* rewind: cancel an active run first, then hold the slot as a lock.
Rewind(p) ==
  /\ IF SlotTaken(agent)
     THEN /\ Called(p, "rewind", "cancelling", None)
          /\ mutations' = Append(mutations, p) /\ UNCHANGED agent
     ELSE Called(p, "rewind", "rewinding", None) /\ LockSlot(p) /\ UNCHANGED mutations
  /\ NoTurnChange

\* A cancellation whose promise has resolved goes on before anything can come
\* in from outside the process.
AtHead(p, pc) == mutations # <<>> /\ Head(mutations) = p /\ call[p].pc = pc

ResumesAtOnce(p) ==
  \/ call[p].pc \in {"replacing", "locking"} \/ AtHead(p, "cancelling")
  \/ call[p].pc \in {"settling", "draining"} /\ call[p].run \in agent.settled

Quiet == \A p \in Prompts : ~ResumesAtOnce(p)

MakeCall(p) ==
  /\ call[p] = NoCall /\ Quiet
  /\ \/ "run" \in Verbs /\ RunAgent(p)
     \/ \E verb \in Verbs \cap {"queue", "interrupt", "steer"} : SendPrompt(p, verb)
     \/ "oob" \in Verbs /\ TryRunOutOfBand(p)
     \/ "stop" \in Verbs /\ StopRun(p)
     \/ "rewind" \in Verbs /\ Rewind(p)

(***************************************************************************)
(* Edits of the queue.                                                     *)
(***************************************************************************)
RemoveSteerQueueEntry(e) ==
  /\ e \in RangeOf(agent.steerQueue)
  /\ agent' = [agent EXCEPT !.steerQueue = Without(@, e)]
  /\ call' = IF e \in Prompts THEN [call EXCEPT ![e].pc = "removed"] ELSE call
  /\ UNCHANGED mutations /\ NoTurnChange

ReorderSteerQueueEntry(e, toIndex) ==
  /\ e \in RangeOf(agent.steerQueue)
  /\ agent' = [agent EXCEPT !.steerQueue = moveSteerQueueEntry(@, e, toIndex)]
  /\ agent' # agent
  /\ UNCHANGED <<call, mutations>> /\ NoTurnChange

ClearSteerQueue ==
  /\ agent.steerQueue # <<>>
  /\ agent' = [agent EXCEPT !.steerQueue = <<>>]
  /\ call' = [p \in Prompts |-> IF p \in RangeOf(agent.steerQueue)
                                THEN [call[p] EXCEPT !.pc = "removed"] ELSE call[p]]
  /\ UNCHANGED mutations /\ NoTurnChange

(***************************************************************************)
(* cancelAgentRunNow, the head of the mutations.                           *)
(***************************************************************************)
\* Mutant: the failed replacement leaves its flag up.
ForwarderKeepsFlag(a) ==
  [a EXCEPT !.lifecycle = IF a.activeForegroundTurnId = None /\ @ = "running"
                          THEN "idle" ELSE @]

\* The catch of replaceRunForwarder.
ForwarderFailed(a) ==
  [a EXCEPT !.pendingReplacement = FALSE,
            !.lifecycle = IF a.activeForegroundTurnId = None /\ @ = "running"
                          THEN "idle" ELSE @]

\* The cancellation answers the call it was made for.
Cancelled(p, refused) ==
  LET next == CASE call[p].verb = "stop" -> IF refused THEN "rejected" ELSE "done"
                [] call[p].verb = "rewind" -> IF refused THEN "rejected" ELSE "locking"
                [] OTHER -> IF refused THEN "rejected" ELSE "replacing"
  IN  /\ mutations' = Tail(mutations)
      /\ call' = [call EXCEPT ![p].pc = next]

CancelBegins(p) ==
  LET idle == ~hasInFlightRun(agent)
  IN  /\ AtHead(p, "cancelling")
      /\ IF idle THEN Cancelled(p, FALSE) /\ UNCHANGED agent
         ELSE /\ agent' = [agent EXCEPT !.steerQueueHeld = TRUE]
              /\ call' = [call EXCEPT ![p].pc = "interrupting",
                                     ![p].turn = agent.activeForegroundTurnId,
                                     ![p].run = agent.run]
              /\ UNCHANGED mutations
      /\ NoTurnChange

isRunStillActive(turn) ==
  IF turn # None THEN agent.activeForegroundTurnId = turn
  ELSE agent.lifecycle = "running"

Starting == {t \in Tokens : agent.generator[t] = "starting"}

\* interruptSession acknowledged: neither the provider's turn nor a turn it was
\* about to start can run any more; a turn it ran ends at once, later or never.
InterruptAcknowledged(p) ==
  /\ AtHead(p, "interrupting")
  /\ call' = [call EXCEPT ![p].pc = "settling"]
  /\ live' = {} /\ stopped' = stopped \cup (Starting \ begun)
  /\ \/ /\ agent' = IF live = {} THEN agent
                     ELSE enqueueSessionEvent(agent,
                            [type |-> "canceled", turn |-> CHOOSE t \in live : TRUE])
        /\ UNCHANGED late
     \/ live # {} /\ late' = late \cup live /\ UNCHANGED agent
  /\ UNCHANGED <<mutations, begun>>

\* The interrupt was rejected or timed out.
InterruptFailed(p) ==
  /\ AtHead(p, "interrupting")
  /\ IF isRunStillActive(call[p].turn)
     THEN /\ Cancelled(p, TRUE)
          /\ agent' = IF call[p].verb \in {"interrupt", "steer"}
                      THEN [agent EXCEPT !.pendingReplacement = FALSE] ELSE agent
     ELSE call' = [call EXCEPT ![p].pc = "settling"] /\ UNCHANGED <<agent, mutations>>
  /\ NoTurnChange

\* Mutant: no timer bounds the wait.
CancelWaitsForever(c) ==
  \/ c.run # None /\ c.run \in agent.settled
  \/ c.turn # None /\ c.run = None /\ agent.activeForegroundTurnId # c.turn
  \/ c.turn = None /\ c.run = None /\ agent.lifecycle # "running"

\* What the cancellation waits for, at most two seconds.  The timer fires only
\* between events, when no generator is about to finish.
CancelWaitOver(c) ==
  \/ c.run # None /\ c.run \in agent.settled
  \/ c.turn # None /\ c.run = None /\ agent.activeForegroundTurnId # c.turn
  \/ c.turn = None /\ c.run = None /\ agent.lifecycle # "running"
  \/ \A t \in Tokens : agent.generator[t] # "ending"

\* Mutant: the run that is there now, not the one captured before the interrupt.
CurrentRun(p) == agent.run

\* The run the cancellation captured before its first await.
CapturedRun(p) == call[p].run

\* The wait is over: settle a run whose turn never started, and end a turn
\* that is still current with a synthetic turn_canceled.
CancelSettles(p) ==
  LET c == call[p]
      run == CapturedRun(p)
      unstarted == /\ c.turn = None /\ run # None /\ run \notin agent.settled
                   /\ agent.generator[run] \in {"starting", "lock"}
      forced == c.turn # None /\ agent.activeForegroundTurnId = c.turn
  IN  /\ AtHead(p, "settling") /\ CancelWaitOver(c)
      /\ IF forced
         THEN /\ \E todo \in TodoChoices :
                   agent' = TerminalEvent(agent, "canceled", c.turn, todo)
              /\ IF agent'.run = None THEN Cancelled(p, FALSE)
                 ELSE /\ call' = [call EXCEPT ![p].pc = "draining", ![p].run = agent'.run]
                      /\ UNCHANGED mutations
         ELSE /\ agent' = IF unstarted THEN settleForegroundRun(agent, run) ELSE agent
              /\ Cancelled(p, FALSE)
      /\ NoTurnChange

CancelDrained(p) ==
  /\ AtHead(p, "draining") /\ call[p].run \in agent.settled
  /\ Cancelled(p, FALSE) /\ UNCHANGED agent /\ NoTurnChange

\* After the cancellation: the replacement starts, or finds the slot taken.
ReplacementStarts(p) ==
  LET failed == IF call[p].verb = "interrupt" THEN ForwarderFailed(agent)
                ELSE [agent EXCEPT !.pendingReplacement = FALSE]
      started == IF call[p].verb = "interrupt" THEN "forwarded" ELSE "streamed"
  IN  /\ call[p].pc = "replacing"
      /\ IF SlotTaken(agent)
         THEN agent' = failed /\ call' = [call EXCEPT ![p].pc = "rejected"]
         ELSE /\ agent' = streamAgent(agent, p, <<p>>)
              /\ call' = [call EXCEPT ![p].pc = started]
      /\ UNCHANGED mutations /\ NoTurnChange

\* The cancelled rewind takes its lock without looking at the slot again.
RewindLocks(p) ==
  /\ call[p].pc = "locking" /\ LockSlot(p)
  /\ call' = [call EXCEPT ![p].pc = "rewinding"]
  /\ UNCHANGED mutations /\ NoTurnChange

\* The provider has rewritten its history, or failed to.
RewindEnds(p) ==
  /\ call[p].pc = "rewinding"
  /\ agent' = [settleForegroundRun(agent, p) EXCEPT !.generator[p] = "done"]
  /\ call' = [call EXCEPT ![p].pc = "done"]
  /\ UNCHANGED mutations /\ NoTurnChange

(***************************************************************************)
(* runSteerAdmission, also a mutation: the events that arrive while the    *)
(* provider decides stay behind a barrier.                                 *)
(***************************************************************************)
SteerBegins(p) ==
  /\ AtHead(p, "steering") /\ agent.tail = <<>>
  /\ IF agent.activeTurnId # call[p].turn
     THEN /\ call' = [call EXCEPT ![p].pc = "rejected"]
          /\ mutations' = Tail(mutations) /\ UNCHANGED agent
     ELSE /\ call' = [call EXCEPT ![p].pc = "asked"]
          /\ agent' = [agent EXCEPT !.barrier = TRUE] /\ UNCHANGED mutations
  /\ NoTurnChange

\* The provider accepts only into the turn it is running.
SteerAnswered(p) ==
  /\ AtHead(p, "asked")
  /\ agent' = EnqueueAll([agent EXCEPT !.barrier = FALSE, !.barred = <<>>], agent.barred)
  /\ \E answer \in {"accepted", "unavailable", "failed"} :
       /\ answer = "accepted" => call[p].turn \in live
       /\ call' = [call EXCEPT ![p].pc = answer]
  /\ UNCHANGED mutations /\ NoTurnChange

SteerReturns(p) ==
  /\ agent.tail = <<>>
  /\ \/ /\ AtHead(p, "accepted") /\ call' = [call EXCEPT ![p].pc = "steered"]
        /\ mutations' = Tail(mutations) /\ UNCHANGED agent
     \/ /\ AtHead(p, "failed") /\ call' = [call EXCEPT ![p].pc = "rejected"]
        /\ mutations' = Tail(mutations) /\ UNCHANGED agent
     \/ AtHead(p, "unavailable") /\ SteerUnavailable(p, call[p].turn, Tail(mutations))
  /\ NoTurnChange

(***************************************************************************)
(* The generator of a run and the event tail.                              *)
(***************************************************************************)
\* startTurn resolved.  A run cancelled meanwhile gives up.
StartResolves(t) ==
  LET events == agent.staged[t]
      accepted == [type |-> "started", turn |-> t]
      kept == IF accepted \in RangeOf(events) THEN Without(events, accepted) ELSE events
      current == [agent EXCEPT !.activeForegroundTurnId = t, !.activeTurnId = t,
                    !.pendingReplacement = FALSE, !.lifecycle = "running",
                    !.generator[t] = "streaming", !.staged[t] = <<>>]
      gaveUp == [agent EXCEPT !.generator[t] = "done"]
  IN  /\ agent.generator[t] = "starting" /\ t \in begun
      /\ agent' = IF t \notin agent.settled
                  THEN EnqueueAll(current, kept)
                  ELSE IF t \in Prompts /\ call[t].pc = "forwarded"
                       THEN ForwarderFailed(gaveUp) ELSE gaveUp
      /\ UNCHANGED <<call, mutations>> /\ NoTurnChange

\* startTurn failed: a stale session leaves the agent idle, anything else is
\* a failed turn.
StartFails(t, stale, todo) ==
  LET gaveUp  == [agent EXCEPT !.generator[t] = "done"]
      started == [gaveUp EXCEPT !.pendingReplacement = FALSE]
      rested  == IF agent.activeForegroundTurnId = None
                 THEN [started EXCEPT !.lifecycle = "idle"] ELSE started
      failed  == finalizeForegroundTurn(TerminalEvent(started, "failed", None, None),
                                        None, todo)
      ended   == IF t \in agent.settled THEN gaveUp
                 ELSE settleForegroundRun(IF stale THEN rested ELSE failed, t)
  IN  /\ agent.generator[t] = "starting" /\ t \notin begun
      /\ agent' = IF t \in Prompts /\ call[t].pc = "forwarded"
                  THEN ForwarderFailed(ended) ELSE ended
      /\ UNCHANGED <<call, mutations>> /\ NoTurnChange

\* The generator has yielded the terminal event: its finally block.
GeneratorEnds(t) ==
  /\ agent.generator[t] = "ending"
  /\ agent' = settleForegroundRun([agent EXCEPT !.generator[t] = "done"], t)
  /\ UNCHANGED <<call, mutations>> /\ NoTurnChange

\* dispatchSessionEvent for the head of the tail.
DeliverEvent ==
  LET event == Head(agent.tail)
      rest  == [agent EXCEPT !.tail = Tail(@)]
  IN  /\ agent.tail # <<>>
      /\ IF event.type = "started" THEN agent' = TurnStarted(rest, event.turn)
         ELSE \E todo \in TodoChoices :
                agent' = TerminalEvent(rest, event.type, event.turn, todo)
      /\ UNCHANGED <<call, mutations>> /\ NoTurnChange

(***************************************************************************)
(* The provider session, known from its interface: it runs one turn at a   *)
(* time and reports what it does through events.                           *)
(***************************************************************************)
Emit(type, turn) == agent' = enqueueSessionEvent(agent, [type |-> type, turn |-> turn])

ProviderBegins(t) ==
  /\ live = {} /\ t \notin begun
  /\ t \in Autonomous \cup (Starting \ stopped)
  /\ live' = {t} /\ begun' = begun \cup {t} /\ Emit("started", t)
  /\ UNCHANGED <<call, mutations, late, stopped>>

ProviderEnds(t, kind) ==
  /\ t \in live /\ live' = {} /\ Emit(kind, t)
  /\ UNCHANGED <<call, mutations, begun, late, stopped>>

ProviderReportsLate(t) ==
  /\ t \in late /\ late' = late \ {t} /\ Emit("canceled", t)
  /\ UNCHANGED <<call, mutations, live, begun, stopped>>

(***************************************************************************)
(* The whole system.                                                       *)
(***************************************************************************)
Mutation(p) ==
  \/ CancelBegins(p) \/ InterruptAcknowledged(p) \/ InterruptFailed(p)
  \/ CancelSettles(p) \/ CancelDrained(p)
  \/ SteerBegins(p) \/ SteerAnswered(p) \/ SteerReturns(p)

Continuation(p) ==
  ReplacementStarts(p) \/ RewindLocks(p) \/ RewindEnds(p) \/ FinalizeOutOfBandRun(p)

StartTurn(t) ==
  \/ StartResolves(t)
  \/ \E stale \in BOOLEAN, todo \in TodoChoices : StartFails(t, stale, todo)

EditQueue ==
  \/ ClearSteerQueue
  \/ \E e \in Entries : \/ RemoveSteerQueueEntry(e)
                       \/ \E i \in 1 .. Cardinality(Entries) : ReorderSteerQueueEntry(e, i)

Provider ==
  \/ \E t \in Turns : ProviderBegins(t) \/ ProviderReportsLate(t)
  \/ \E t \in Turns, kind \in EndKinds : ProviderEnds(t, kind)

Next ==
  \/ \E p \in Prompts : MakeCall(p) \/ Mutation(p) \/ Continuation(p)
  \/ \E t \in Tokens : StartTurn(t) \/ GeneratorEnds(t)
  \/ DeliverEvent
  \/ Quiet /\ (EditQueue \/ Provider)

Spec == Init /\ [][Next]_vars

\* The event loop runs every continuation; cancel timers fire; the provider
\* answers startTurn, ends its turns and answers a steer.  Callers need not
\* call, and a terminal event an interrupt suppressed need never arrive.
Fairness ==
  /\ \A p \in Prompts : WF_vars(Mutation(p)) /\ WF_vars(Continuation(p))
  /\ \A t \in Tokens : WF_vars(StartTurn(t)) /\ WF_vars(GeneratorEnds(t))
  /\ \A t \in Tokens : WF_vars(Quiet /\ ProviderBegins(t))
  /\ \A t \in Turns : WF_vars(Quiet /\ \E kind \in EndKinds : ProviderEnds(t, kind))
  /\ WF_vars(DeliverEvent)

FairSpec == Spec /\ Fairness
=============================================================================
