------------------------ MODULE AgentTurnProperties ------------------------
(***************************************************************************)
(* What AgentTurns should guarantee, for the module's runs and theorems.   *)
(***************************************************************************)
EXTENDS AgentTurns

(***************************************************************************)
(* The run slot and the turn that is current.                              *)
(***************************************************************************)
Running(t) ==
  agent.generator[t] \in {"starting", "streaming", "ending"} /\ t \notin agent.settled

\* The current turn belongs to the run that owns the slot, and no second run is
\* going on beside it: two turns are never live against one session
\* (streamAgent's "already has an active run").
TurnOwnsSlot ==
  /\ agent.activeForegroundTurnId # None => agent.run = agent.activeForegroundTurnId
  /\ \A t, u \in Tokens : Running(t) /\ Running(u) => t = u

IsTerminal(event, t) == event.turn = t /\ event.type # "started"

\* The turn's end is in a list of events.
EndIn(t, events) == \E i \in DOMAIN events : IsTerminal(events[i], t)

\* The end of a current turn is still to come or to be handled: while one of the
\* manager's turns is current, the provider runs it, owes its terminal event, or
\* that event waits in the tail or behind the barrier.  Neither staging, nor the
\* steer barrier, nor a cancellation leaves a current turn that nothing will end.
CurrentTurnEnds ==
  \A t \in Tokens : agent.activeForegroundTurnId = t =>
    t \in live \cup late \/ EndIn(t, agent.tail) \/ EndIn(t, agent.barred)

\* What was staged under a run is handed on when that run's turn becomes current,
\* and is lost with a run that was given up (startPendingForegroundTurn).
EventsInFlight ==
  \/ agent.tail # <<>> \/ agent.barred # <<>>
  \/ \E t \in Tokens : Running(t) /\ agent.staged[t] # <<>>

\* When the provider runs nothing, owes no terminal event, and every event was
\* handled, no turn is active.  Does not hold: a turn that is active without being
\* current stays so if its end was staged under a run that was given up.
NoGhostTurn ==
  live = {} /\ late = {} /\ mutations = <<>> /\ ~EventsInFlight => agent.activeTurnId = None

\* Until the provider has answered a steer, no step ends the turn the steer was
\* admitted for, or makes another one active beside it, if that turn is the
\* manager's own: the barrier keeps "an A admission" from meeting "a later B"
\* (runSteerAdmission, steerEventBarriers).
SteerHoldsTurn ==
  [][\A p \in Prompts :
       call[p].pc = "asked" /\ agent.activeForegroundTurnId = call[p].turn
         => /\ agent'.activeForegroundTurnId = call[p].turn
            /\ agent'.activeTurnId = call[p].turn]_vars

\* A cancellation that was not refused leaves the turn it captured no longer
\* current, and settles no run and ends no turn but the ones it captured
\* ("the captured run token prevents an older cancellation from settling a
\* newer turn", cancelAgentRunNow).
CancelEndsItsTurn ==
  [][\A p \in Prompts :
       call[p].pc = "settling" /\ call'[p].pc # "settling" =>
         /\ agent'.settled \ agent.settled \subseteq {call[p].run}
         /\ call[p].turn # None => agent'.activeForegroundTurnId # call[p].turn
         /\ agent'.activeForegroundTurnId # agent.activeForegroundTurnId
              => agent.activeForegroundTurnId = call[p].turn]_vars

(***************************************************************************)
(* Replacement: the flag that keeps an interrupted agent busy.             *)
(***************************************************************************)
Replacing(p) ==
  /\ call[p].verb \in {"interrupt", "steer"}
  /\ call[p].pc \in {"cancelling", "interrupting", "settling", "draining", "replacing"}

\* While a replacement is on its way the agent is never reported idle, whatever
\* stale terminal event arrives (the comment on pendingReplacement in
\* streamAgent).
ReplacementBusy == agent.pendingReplacement => agent.lifecycle # "idle"

\* Whoever will clear pendingReplacement: a call that is still replacing, or a
\* replacement whose startTurn is outstanding.  If the replacement was cancelled
\* in that moment, only the forwarder of "interrupt" still clears it.
WillClear(p) ==
  \/ Replacing(p)
  \/ /\ agent.generator[p] = "starting"
     /\ p \notin agent.settled \/ call[p].pc = "forwarded"

ReplacementOwned == \E p \in Prompts : WillClear(p)

\* A run without a forwarder, a steer's replacement say, is cancelled while its
\* startTurn is outstanding.
StoppedInStart(p) ==
  /\ agent.generator[p] = "starting" /\ call[p].pc # "forwarded"
  /\ p \in agent'.settled \ agent.settled

\* pendingReplacement is raised by a call that will clear it and handed on from one
\* owner to the next until it is lowered.  It loses its last owner in one case: a
\* run is stopped in its start and nobody catches the error it then throws
\* (replaceRunForwarder catches it, replaceAdmittedForegroundTurn does not).
ReplacementHandedOn ==
  [][agent'.pendingReplacement /\ ~ReplacementOwned' =>
       /\ agent.pendingReplacement
       /\ ReplacementOwned => \E p \in Prompts : StoppedInStart(p)]_vars

\* Whoever will clear pendingReplacement is there whenever it is up.  Does not hold:
\* see ReplacementHandedOn.
ReplacementHasOwner == agent.pendingReplacement => ReplacementOwned

(***************************************************************************)
(* The steer queue.                                                        *)
(***************************************************************************)
IsIn(m, batches) == \E i \in DOMAIN batches : m \in RangeOf(batches[i])
IsQueued(m)   == m \in RangeOf(agent.steerQueue)
IsHandedOff(m) == \E t \in Tokens : IsIn(m, agent.waiting[t])
IsDelivered(m) == \E t \in Tokens : m \in RangeOf(agent.prompt[t])

\* A message is in one place: queued once, in a batch being handed off, or in
\* the prompt of one run.  Batches that lose the slot go back to the queue and
\* must not be delivered a second time (dispatchSteerQueueBatch).
MessageOnce ==
  \A m \in Entries :
    /\ IsQueued(m) => ~IsHandedOff(m) /\ ~IsDelivered(m)
    /\ IsHandedOff(m) => ~IsDelivered(m)
    /\ \A t, u \in Tokens :
         m \in RangeOf(agent.prompt[t]) \cap RangeOf(agent.prompt[u]) => t = u
    /\ \A i, j \in DOMAIN agent.steerQueue :
         agent.steerQueue[i] = m /\ agent.steerQueue[j] = m => i = j

\* A batch taken off the queue waits for the run that owns the slot, and
\* pendingSteerDrain, which keeps the agent visibly busy, is only up while such
\* a batch waits: a hand-off is never left without the settle that completes it.
HandoffWaits ==
  /\ \A t \in Tokens : agent.waiting[t] # <<>> => agent.run = t
  /\ agent.pendingSteerDrain => agent.run # None /\ agent.waiting[agent.run] # <<>>

Ahead(m, n) ==
  \/ \E i, j \in DOMAIN agent.steerQueue :
       i < j /\ agent.steerQueue[i] = m /\ agent.steerQueue[j] = n
  \/ IsHandedOff(m) /\ IsQueued(n)
  \/ \E t \in Tokens : \E i, j \in DOMAIN agent.waiting[t] :
       i < j /\ m \in RangeOf(agent.waiting[t][i]) /\ n \in RangeOf(agent.waiting[t][j])

\* The queue is first in, first out across every hand-off, put-back and merge:
\* a message never reaches a turn before one that was ahead of it.
NoOvertaking ==
  [][\A m, n \in Entries : Ahead(m, n) /\ IsDelivered(n)' => IsDelivered(m)']_vars

\* A message that was accepted into the queue and not removed from it is still
\* queued, handed off, or delivered.  "Only `agent.queue.clear` (and closing
\* the agent, ...) empties it" (docs/chat-lifecycle.md).
MessageKept ==
  \A p \in Prompts :
    call[p].pc = "parked" => IsQueued(p) \/ IsHandedOff(p) \/ IsDelivered(p)

\* After a cancellation holds the queue, the only run that starts is one asked
\* for by a new prompt.  "Stop means stop" (cancelAgentRunNow); "Nothing new
\* starts by itself" (docs/chat-lifecycle.md).
StopHoldsQueue ==
  [][\A t \in Tokens :
       /\ agent.steerQueueHeld
       /\ agent.generator[t] = "unused" /\ agent'.generator[t] = "starting"
       => t \in Prompts /\ call[t].pc # "parked"]_vars

(***************************************************************************)
(* The manager's picture and the provider's.                               *)
(***************************************************************************)
\* An agent reported running has something that will end that: a run or a turn,
\* a hand-off or a replacement, an out-of-band command, a cancellation.
\* "Settle it here or the agent reports itself busy forever against a turn that
\* never began" (cancelAgentRunNow).
BusyHasCause ==
  agent.lifecycle = "running" =>
    \/ SlotTaken(agent) \/ agent.activeTurnId # None
    \/ agent.pendingReplacement \/ agent.pendingSteerDrain
    \/ agent.outOfBandRunCount > 0 \/ mutations # <<>> \/ ~Quiet

\* The provider never runs a turn whose run the manager has already given up.
\* "Accepting new work after an ambiguous interruption would create a
\* split-brain session" (docs/agent-lifecycle.md).
LiveTurnOwned == \A t \in live \cap Tokens : t \notin agent.settled

\* No run is going on while the provider rewrites its history.  "Rewinding
\* under a still-live turn would rewrite history the provider is actively
\* appending to" (rewind).
RewindAlone ==
  \A p \in Prompts, t \in Tokens : ~(call[p].pc = "rewinding" /\ Running(t))

(***************************************************************************)
(* Liveness.                                                               *)
(***************************************************************************)
Returned == {"new", "parked", "streamed", "forwarded", "steered",
             "removed", "rejected", "done"}

\* Every call gets its answer, whatever order cancellations, admissions and
\* events come in: the mutations never wait for one another in a circle.
CallsReturn == \A p \in Prompts : []<>(call[p].pc \in Returned)

\* A hand-off and a replacement end, as long as the provider reports the ends of the
\* turns it was asked to stop: pendingSteerDrain does not stay up for ever, and nor does
\* pendingReplacement while somebody has it to lower.  Where it loses its owner, and is
\* then stuck, is ReplacementHandedOn.
HandoffsEnd ==
  []<>(late = {}) =>
    /\ []<>~agent.pendingSteerDrain
    /\ []<>~(agent.pendingReplacement /\ ReplacementOwned)

\* The end of a turn was staged under another run that was given up: it is lost, and
\* the turn, if it is active, stays so (see NoGhostTurn).
EndLost ==
  \E t, u \in Turns \cap Tokens :
    u # t /\ agent.generator[t] = "done" /\ EndIn(u, agent.staged[t])

Undisturbed ==
  ~EndLost /\ \A p \in Prompts : call[p].verb # "stop" /\ call[p].pc # "rejected"

\* Without Stop, a refused call or a lost end, an agent whose provider delivers the
\* terminal events of the turns it was asked to interrupt comes to rest.
ComesToRest ==
  []Undisturbed /\ []<>(late = {}) => []<>(agent.lifecycle # "running")
=============================================================================
