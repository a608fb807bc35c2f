--------------------------- MODULE HandoffProofs ---------------------------
(***************************************************************************)
(* The hand-off of a queued batch is never forgotten, for every set of     *)
(* prompts and every mix of calls other than rewind.  The argument: the    *)
(* batches that wait are the slot's, pendingSteerDrain means that the slot *)
(* has one, and only settleForegroundRun empties the slot; it resumes the  *)
(* first batch, which clears the flag on each of its paths.                *)
(*                                                                         *)
(* Then what follows from it or is argued likewise: the current turn is    *)
(* the slot's, a replacement keeps the agent busy, messages are delivered  *)
(* in the order of the queue, a cancellation ends the turn it captured and *)
(* no other, the turn a steer was asked for stays until the answer, a      *)
(* current turn will end, and so will a replacement's flag.                *)
(***************************************************************************)
EXTENDS AgentTurnProofs

\* Batches wait only for the run in the slot.
WaitersOwned(a) == \A t \in Tokens : a.waiting[t] # <<>> => a.run = t

\* HandoffWaits, of any state of the manager's record.
Handoff(a) ==
  /\ WaitersOwned(a)
  /\ a.pendingSteerDrain => a.run # None /\ a.waiting[a.run] # <<>>

LEMMA HandoffIs == HandoffWaits <=> Handoff(agent)
BY DEF HandoffWaits, Handoff, WaitersOwned

\* No call is a rewind, so none takes the slot without looking or holds it as a lock.
NoRewind ==
  \A p \in Prompts : call[p].verb # "rewind" /\ call[p].pc \notin {"locking", "rewinding"}

(***************************************************************************)
(* The operators that touch the slot.                                      *)
(***************************************************************************)
\* A handler that leaves the slot, the waiting batches and the flag alone.
SameHandoff(a, b) ==
  b.run = a.run /\ b.waiting = a.waiting /\ b.pendingSteerDrain = a.pendingSteerDrain

LEMMA SameIsEnough ==
  ASSUME NEW a, NEW b, SameHandoff(a, b), Handoff(a) PROVE Handoff(b)
BY DEF SameHandoff, Handoff, WaitersOwned

LEMMA StreamHandoff ==
  ASSUME NEW a \in AgentState, WaitersOwned(a), a.run = None,
         NEW token \in Tokens, NEW batch \in Seq(Entries)
  PROVE  Handoff(streamAgent(a, token, batch))
<1>1. \A t \in Tokens : a.waiting[t] = <<>>
  BY EntriesType DEF WaitersOwned
<1>2. /\ streamAgent(a, token, batch).waiting = a.waiting
      /\ streamAgent(a, token, batch).pendingSteerDrain = FALSE
  BY DEF streamAgent, AgentState
<1> QED BY <1>1, <1>2 DEF Handoff, WaitersOwned

LEMMA DeliverHandoff ==
  ASSUME NEW a \in AgentState, WaitersOwned(a), a.run = None,
         NEW batch \in Seq(Entries) \ {<<>>}
  PROVE  Handoff(DeliverBatch(a, batch))
<1>1. \A t \in Tokens : a.waiting[t] = <<>>
  BY EntriesType DEF WaitersOwned
<1>2. CASE ~a.pendingSteerDrain
  BY <1>2 DEF DeliverBatch, Handoff
<1>3. CASE a.pendingSteerDrain /\ SlotTaken(a)
  <2> DEFINE b == [a EXCEPT !.pendingSteerDrain = FALSE,
                            !.steerQueue = batch \o a.steerQueue]
  <2>1. b.waiting = a.waiting /\ b.pendingSteerDrain = FALSE
    BY DEF AgentState
  <2>2. DeliverBatch(a, batch) = b
    BY <1>3 DEF DeliverBatch
  <2> HIDE DEF b
  <2> QED BY <1>1, <2>1, <2>2 DEF Handoff, WaitersOwned
<1>4. CASE a.pendingSteerDrain /\ ~SlotTaken(a)
  <2>1. Head(batch) \in Tokens
    BY EntriesType, HeadTailProperties
  <2> QED BY <1>4, <2>1, StreamHandoff DEF DeliverBatch
<1> QED BY <1>2, <1>3, <1>4 DEF AgentState

\* A claimed batch waits for the slot's run or is delivered at once, whatever
\* the flag was.
LEMMA DispatchHandoff ==
  ASSUME NEW a \in AgentState, WaitersOwned(a), NEW batch \in Seq(Entries) \ {<<>>}
  PROVE  Handoff(dispatchSteerQueueBatch(a, batch))
<1>1. CASE hasPendingRun(a)
  <2> DEFINE b == [a EXCEPT !.waiting[a.run] = Append(@, batch)]
  <2>1. a.run \in Tokens
    BY <1>1 DEF hasPendingRun, AgentState
  <2>2. /\ b.run = a.run /\ b.waiting[a.run] = Append(a.waiting[a.run], batch)
        /\ \A t \in Tokens \ {a.run} : b.waiting[t] = a.waiting[t]
    BY <2>1 DEF AgentState
  <2>3. Append(a.waiting[a.run], batch) # <<>>
    <3>1. a.waiting[a.run] \in Seq(Seq(Entries) \ {<<>>})
      BY <2>1 DEF AgentState
    <3>2. /\ Append(a.waiting[a.run], batch) \in Seq(Seq(Entries) \ {<<>>})
          /\ Len(Append(a.waiting[a.run], batch)) = Len(a.waiting[a.run]) + 1
          /\ Len(a.waiting[a.run]) \in Nat
      BY <3>1, AppendProperties, LenProperties
    <3> QED BY <3>2, EmptySeq
  <2>4. dispatchSteerQueueBatch(a, batch) = b
    BY <1>1 DEF dispatchSteerQueueBatch
  <2> HIDE DEF b
  <2> QED BY <2>1, <2>2, <2>3, <2>4, EntriesType DEF Handoff, WaitersOwned
<1>2. CASE ~hasPendingRun(a)
  BY <1>2, DeliverHandoff DEF dispatchSteerQueueBatch, hasPendingRun
<1> QED BY <1>1, <1>2

LEMMA SettleHandoff ==
  ASSUME NEW a \in AgentState, Handoff(a), NEW token \in Tokens
  PROVE  Handoff(settleForegroundRun(a, token))
<1> DEFINE cleared == [a EXCEPT !.run = None, !.settled = @ \cup {token},
                                !.waiting[token] = <<>>]
<1>1. CASE a.run # token
  BY <1>1 DEF settleForegroundRun
<1>2. CASE a.run = token
  <2>1. /\ cleared.run = None /\ cleared.pendingSteerDrain = a.pendingSteerDrain
        /\ cleared.waiting[token] = <<>>
        /\ \A t \in Tokens \ {token} : cleared.waiting[t] = a.waiting[t]
    BY DEF AgentState
  <2>2. cleared \in AgentState
    <3>1. <<>> \in Seq(Seq(Entries) \ {<<>>})
      BY EmptySeq
    <3> QED BY <3>1 DEF AgentState
  <2>3. settleForegroundRun(a, token)
          = IF a.waiting[token] = <<>> THEN cleared
            ELSE DeliverBatch(cleared, Head(a.waiting[token]))
    BY <1>2 DEF settleForegroundRun
  <2> HIDE DEF cleared
  <2>4. \A t \in Tokens : cleared.waiting[t] = <<>>
    BY <1>2, <2>1 DEF Handoff, WaitersOwned
  <2>5. WaitersOwned(cleared)
    BY <2>4 DEF WaitersOwned
  <2>6. CASE a.waiting[token] = <<>>
    <3>1. ~cleared.pendingSteerDrain
      BY <1>2, <2>1, <2>6 DEF Handoff
    <3> QED BY <2>3, <2>5, <2>6, <3>1 DEF Handoff
  <2>7. CASE a.waiting[token] # <<>>
    <3>1. Head(a.waiting[token]) \in Seq(Entries) \ {<<>>}
      BY <2>7, HeadTailProperties DEF AgentState
    <3> QED BY <2>1, <2>2, <2>3, <2>5, <2>7, <3>1, DeliverHandoff
  <2> QED BY <2>6, <2>7
<1> QED BY <1>1, <1>2

LEMMA ClaimHandoff ==
  ASSUME NEW a \in AgentState, WaitersOwned(a), a.steerQueue # <<>>
  PROVE  Handoff(dispatchSteerQueueBatch(
           [a EXCEPT !.steerQueue = takeNextSteerQueueBatch(a.steerQueue).rest,
                     !.pendingSteerDrain = TRUE, !.lifecycle = "running"],
           takeNextSteerQueueBatch(a.steerQueue).entries))
<1> DEFINE batch == takeNextSteerQueueBatch(a.steerQueue)
           taken == [a EXCEPT !.steerQueue = batch.rest,
                              !.pendingSteerDrain = TRUE, !.lifecycle = "running"]
<1>1. a.steerQueue \in Seq(Entries)
  BY DEF AgentState
<1>2. batch.entries \in Seq(Entries) \ {<<>>} /\ batch.rest \in Seq(Entries)
  BY <1>1, BatchSplits
<1> HIDE DEF batch
<1>3. taken \in AgentState
  BY <1>2 DEF AgentState
<1>4. WaitersOwned(taken)
  BY DEF WaitersOwned, AgentState
<1> HIDE DEF taken
<1>5. Handoff(dispatchSteerQueueBatch(taken, batch.entries))
  BY <1>2, <1>3, <1>4, DispatchHandoff
<1> QED BY <1>5 DEF taken, batch

LEMMA RestOrDrainHandoff ==
  ASSUME NEW a \in AgentState, Handoff(a), NEW held \in BOOLEAN
  PROVE  Handoff(RestOrDrain(a, held))
<1>1. CASE held \/ a.lastError \/ a.steerQueueHeld \/ a.steerQueue = <<>>
  <2>1. SameHandoff(a, RestOrDrain(a, held))
    BY <1>1, SMTT(40) DEF RestOrDrain, SameHandoff, AgentState
  <2> QED BY <2>1, SameIsEnough
<1>2. CASE ~(held \/ a.lastError \/ a.steerQueueHeld \/ a.steerQueue = <<>>)
  BY <1>2, ClaimHandoff DEF RestOrDrain, Handoff
<1> QED BY <1>1, <1>2

(***************************************************************************)
(* The handlers that end in one of them.                                   *)
(***************************************************************************)
LEMMA SameAfterClosing ==
  ASSUME NEW a \in AgentState, NEW turn
  PROVE  SameHandoff(a, applyActiveTurnTerminal(a, turn))
<1> DEFINE closed == [a EXCEPT !.activeTurnId = None]
<1>1. SameHandoff(a, closed) /\ SameHandoff(a, a)
  BY DEF SameHandoff, AgentState
<1>2. applyActiveTurnTerminal(a, turn) \in {a, closed}
  BY DEF applyActiveTurnTerminal
<1> HIDE DEF closed
<1> QED BY <1>1, <1>2

LEMMA SameAfterEnd ==
  ASSUME NEW a \in AgentState, NEW kind, NEW isForeground
  PROVE  SameHandoff(a, TurnEnded(a, kind, isForeground))
BY DEF TurnEnded, SameHandoff, AgentState

LEMMA SameTransitive ==
  ASSUME NEW a, NEW b, NEW c, SameHandoff(a, b), SameHandoff(b, c)
  PROVE  SameHandoff(a, c)
BY DEF SameHandoff

LEMMA FinalizeHandoff ==
  ASSUME NEW a \in AgentState, Handoff(a), NEW turn \in Turns \cup {None},
         NEW todo \in TodoEntries \cup {None}
  PROVE  Handoff(finalizeForegroundTurn(a, turn, todo))
<1> DEFINE remembered == rememberFinalizedTurn(a, turn)
           noTurn == [remembered EXCEPT !.activeForegroundTurnId = None]
           closed == applyActiveTurnTerminal(noTurn, turn)
           parked == maybeEnqueueTodoReconcile(closed, todo)
<1>1. remembered \in AgentState /\ SameHandoff(a, remembered)
  BY RememberType, ZenonT(60) DEF rememberFinalizedTurn, SameHandoff, AgentState
<1> HIDE DEF remembered
<1>2. noTurn \in AgentState /\ SameHandoff(a, noTurn)
  BY <1>1 DEF AgentState, SameHandoff
<1> HIDE DEF noTurn
<1>3. closed \in AgentState /\ SameHandoff(a, closed)
  BY <1>2, TerminalType, SameAfterClosing, SameTransitive
<1> HIDE DEF closed
<1>4. parked \in AgentState /\ SameHandoff(a, parked)
  BY <1>3, TodoType, ZenonT(60) DEF maybeEnqueueTodoReconcile, SameHandoff, AgentState
<1> HIDE DEF parked
<1>5. (a.pendingReplacement /\ ~a.lastError) \in BOOLEAN
  BY DEF AgentState
<1>6. Handoff(RestOrDrain(parked, a.pendingReplacement /\ ~a.lastError))
  BY <1>4, <1>5, SameIsEnough, RestOrDrainHandoff
<1> QED BY <1>6 DEF finalizeForegroundTurn, parked, closed, noTurn, remembered

LEMMA TerminalEventHandoff ==
  ASSUME NEW a \in AgentState, Handoff(a), NEW kind,
         NEW eventTurn \in Turns \cup {None}, NEW todo \in TodoEntries \cup {None}
  PROVE  Handoff(TerminalEvent(a, kind, eventTurn, todo))
<1> DEFINE turn == ManagedTurn(a, eventTurn)
           isForeground == turn # None /\ a.activeForegroundTurnId = turn
           closed == applyActiveTurnTerminal(a, turn)
           ended  == IF TerminalDisposition(a, turn) = "stale" THEN closed
                     ELSE TurnEnded(closed, kind, isForeground)
           final  == IF isForeground THEN finalizeForegroundTurn(ended, turn, todo)
                     ELSE ended
           marked == [final EXCEPT !.generator[eventTurn] = "ending"]
<1>1. turn \in Turns \cup {None} /\ isForeground \in BOOLEAN
  BY EntriesType DEF ManagedTurn, AgentState
<1> HIDE DEF turn, isForeground
<1>2. closed \in AgentState /\ SameHandoff(a, closed)
  BY TerminalType, SameAfterClosing
<1> HIDE DEF closed
<1>3. ended \in AgentState /\ SameHandoff(a, ended)
  BY <1>1, <1>2, TurnEndedType, SameAfterEnd, SameTransitive
<1> HIDE DEF ended
<1>4. final \in AgentState /\ Handoff(final)
  BY <1>1, <1>3, SameIsEnough, FinalizeType, FinalizeHandoff
<1> HIDE DEF final
<1>5. SameHandoff(final, marked)
  BY <1>4 DEF AgentState, SameHandoff
<1>6. Handoff(marked)
  BY <1>4, <1>5, SameIsEnough
<1> HIDE DEF marked
<1>7. TerminalEvent(a, kind, eventTurn, todo) \in {a, marked, final}
  BY DEF TerminalEvent, marked, final, ended, closed, isForeground, turn
<1> QED BY <1>4, <1>6, <1>7

\* What the other handlers do to the record leaves the hand-off alone.
LEMMA QuietOperators ==
  ASSUME NEW a \in AgentState
  PROVE  /\ \A event \in Event : SameHandoff(a, enqueueSessionEvent(a, event))
         /\ \A events \in Seq(Event) : SameHandoff(a, EnqueueAll(a, events))
         /\ \A turn \in Turns : SameHandoff(a, TurnStarted(a, turn))
         /\ SameHandoff(a, ForwarderFailed(a))
BY DEF AgentState, SameHandoff, enqueueSessionEvent, EnqueueAll, TurnStarted, ForwarderFailed

LEMMA StartOrRejectHandoff ==
  ASSUME TypeOK, Handoff(agent), NEW p \in Prompts, NEW verb, StartOrReject(p, verb)
  PROVE  Handoff(agent')
<1>1. CASE SlotTaken(agent)
  BY <1>1 DEF StartOrReject
<1>2. CASE ~SlotTaken(agent)
  <2>1. agent.run = None /\ agent' = streamAgent(agent, p, <<p>>)
    BY <1>2 DEF StartOrReject, SlotTaken, hasPendingRun
  <2> QED BY <2>1, AgentType, PromptBatch, StreamHandoff DEF Handoff
<1> QED BY <1>1, <1>2

LEMMA StartOrReplaceHandoff ==
  ASSUME TypeOK, Handoff(agent), NEW p \in Prompts, NEW queued,
         \/ StartOrReplace(p, queued)
         \/ \E verb \in AllVerbs : CancelToReplace(p, verb, queued)
  PROVE  Handoff(agent')
<1>1. CASE StartOrReject(p, "interrupt")
  BY <1>1, StartOrRejectHandoff
<1>2. ASSUME NEW verb, CancelToReplace(p, verb, queued) PROVE Handoff(agent')
  <2>1. SameHandoff(agent, agent')
    BY <1>2, AgentType DEF CancelToReplace, SameHandoff, AgentState
  <2> QED BY <2>1, SameIsEnough
<1> QED BY <1>1, <1>2 DEF StartOrReplace

LEMMA SendPromptHandoff ==
  ASSUME TypeOK, Handoff(agent), NEW p \in Prompts, NEW verb \in AllVerbs,
         SendPrompt(p, verb)
  PROVE  Handoff(agent')
<1>1. CASE EnqueueSteerMessage(p, verb)
  <2> DEFINE parked == [agent EXCEPT !.steerQueue = Append(@, p)]
             batch  == takeNextSteerQueueBatch(parked.steerQueue)
             claimed == dispatchSteerQueueBatch(
                    [parked EXCEPT !.steerQueue = batch.rest, !.pendingSteerDrain = TRUE,
                                   !.lifecycle = "running"], batch.entries)
  <2>1. /\ agent.steerQueue \in Seq(Entries) /\ p \in Entries
        /\ parked.steerQueue = Append(agent.steerQueue, p)
    BY AgentType, PromptIsToken DEF AgentState
  <2>2. /\ parked.steerQueue \in Seq(Entries) /\ Len(agent.steerQueue) \in Nat
        /\ Len(parked.steerQueue) = Len(agent.steerQueue) + 1
    BY <2>1, AppendProperties, LenProperties
  <2>3. parked.steerQueue # <<>>
    BY <2>2, EmptySeq
  <2>4. parked \in AgentState /\ SameHandoff(agent, parked)
    BY <2>1, <2>2, AgentType DEF AgentState, SameHandoff
  <2> HIDE DEF parked
  <2>5. Handoff(parked)
    BY <2>4, SameIsEnough
  <2>6. Handoff(claimed)
    BY <2>3, <2>4, <2>5, ClaimHandoff DEF Handoff
  <2>7. agent' = claimed \/ agent' = parked
    BY <1>1 DEF EnqueueSteerMessage, parked
  <2> QED BY <2>5, <2>6, <2>7
<1>2. CASE \E queued : StartOrReplace(p, queued)
  BY <1>2, StartOrReplaceHandoff
<1>3. \/ EnqueueSteerMessage(p, verb)
      \/ \E queued : StartOrReplace(p, queued)
      \/ UNCHANGED agent
  BY DEF SendPrompt, SteerTurn
<1> QED BY <1>1, <1>2, <1>3

(***************************************************************************)
(* No rewind.                                                              *)
(***************************************************************************)
LEMMA CalledNoRewind ==
  ASSUME TypeOK, NoRewind, NEW p \in Prompts, NEW verb, NEW pc, NEW turn,
         verb # "rewind", pc \notin {"locking", "rewinding"}, Called(p, verb, pc, turn)
  PROVE  NoRewind'
BY DEF TypeOK, NoRewind, Called

LEMMA StageNoRewind ==
  ASSUME TypeOK, NoRewind, NEW p \in Prompts, NEW stage \in Stages \ {"locking", "rewinding"},
         call' = [call EXCEPT ![p].pc = stage]
  PROVE  NoRewind'
<1>1. \A q \in Prompts : call[q] \in CallState
  BY DEF TypeOK
<1>2. /\ call'[p].pc = stage /\ call'[p].verb = call[p].verb
      /\ \A q \in Prompts \ {p} : call'[q] = call[q]
  BY <1>1 DEF TypeOK, CallState
<1> QED BY <1>2 DEF NoRewind

LEMMA CancelledNoRewind ==
  ASSUME TypeOK, NoRewind, NEW p \in Prompts, NEW refused, Cancelled(p, refused)
  PROVE  NoRewind'
<1>1. call[p].verb # "rewind"
  BY DEF NoRewind
<1>2. \E stage \in {"rejected", "done", "replacing"} : call' = [call EXCEPT ![p].pc = stage]
  BY <1>1 DEF Cancelled
<1> QED BY <1>2, StageNoRewind DEF Stages

LEMMA PromptNoRewind ==
  ASSUME TypeOK, NoRewind, NEW p \in Prompts, NEW queued,
         \/ StartOrReplace(p, queued)
         \/ \E expected : SteerUnavailable(p, expected, queued)
         \/ \E verb \in {"queue", "interrupt", "steer"} : SendPrompt(p, verb)
  PROVE  NoRewind'
<1>1. \/ \E verb \in {"interrupt", "steer", "queue"},
             pc \in {"rejected", "streamed", "cancelling", "parked"} : Called(p, verb, pc, None)
      \/ \E turn : Called(p, "steer", "steering", turn)
  BY DEF StartOrReplace, StartOrReject, CancelToReplace, SteerUnavailable, SendPrompt,
         SteerTurn, EnqueueSteerMessage
<1> QED BY <1>1, CalledNoRewind

LEMMA MutationNoRewind ==
  ASSUME TypeOK, NoRewind, NEW p \in Prompts, Mutation(p)
  PROVE  NoRewind'
<1>1. CASE CancelBegins(p)
  <2>1. CASE ~hasInFlightRun(agent)
    BY <1>1, <2>1, CancelledNoRewind DEF CancelBegins
  <2>2. CASE hasInFlightRun(agent)
    <3>1. \A q \in Prompts : call[q] \in CallState
      BY DEF TypeOK
    <3>2. /\ call'[p].pc = "interrupting" /\ call'[p].verb = call[p].verb
          /\ \A q \in Prompts \ {p} : call'[q] = call[q]
      BY <1>1, <2>2, <3>1 DEF CancelBegins, TypeOK, CallState
    <3> QED BY <3>2 DEF NoRewind
  <2> QED BY <2>1, <2>2
<1>2. CASE InterruptAcknowledged(p)
  BY <1>2, StageNoRewind DEF InterruptAcknowledged, Stages
<1>3. CASE InterruptFailed(p)
  BY <1>3, CancelledNoRewind, StageNoRewind DEF InterruptFailed, Stages
<1>4. CASE CancelSettles(p)
  <2>1. CASE Cancelled(p, FALSE)
    BY <2>1, CancelledNoRewind
  <2>2. CASE call' = [call EXCEPT ![p].pc = "draining", ![p].run = agent'.run]
    <3>1. \A q \in Prompts : call[q] \in CallState
      BY DEF TypeOK
    <3>2. /\ call'[p].pc = "draining" /\ call'[p].verb = call[p].verb
          /\ \A q \in Prompts \ {p} : call'[q] = call[q]
      BY <2>2, <3>1 DEF TypeOK, CallState
    <3> QED BY <3>2 DEF NoRewind
  <2> QED BY <1>4, <2>1, <2>2 DEF CancelSettles, CapturedRun
<1>5. CASE CancelDrained(p)
  BY <1>5, CancelledNoRewind DEF CancelDrained
<1>6. CASE SteerBegins(p)
  BY <1>6, StageNoRewind DEF SteerBegins, Stages
<1>7. CASE SteerAnswered(p)
  BY <1>7, StageNoRewind DEF SteerAnswered, Stages
<1>8. CASE SteerReturns(p)
  BY <1>8, StageNoRewind, PromptNoRewind DEF SteerReturns, Stages
<1> QED BY <1>1, <1>2, <1>3, <1>4, <1>5, <1>6, <1>7, <1>8 DEF Mutation

LEMMA StepNoRewind ==
  ASSUME "rewind" \notin Verbs, TypeOK, NoRewind, [Next]_vars
  PROVE  NoRewind'
<1>1. CASE UNCHANGED call
  BY <1>1 DEF NoRewind
<1>2. ASSUME NEW p \in Prompts, MakeCall(p) PROVE NoRewind'
  <2>1. CASE RunAgent(p) \/ TryRunOutOfBand(p) \/ StopRun(p)
    BY <2>1, CalledNoRewind DEF RunAgent, StartOrReject, TryRunOutOfBand, StopRun
  <2>2. CASE \E verb \in {"queue", "interrupt", "steer"} : SendPrompt(p, verb)
    BY <2>2, PromptNoRewind
  <2> QED BY <1>2, <2>1, <2>2 DEF MakeCall
<1>3. ASSUME NEW p \in Prompts, Mutation(p) PROVE NoRewind'
  BY <1>3, MutationNoRewind
<1>4. ASSUME NEW p \in Prompts, Continuation(p) PROVE NoRewind'
  <2>1. call[p].pc \notin {"locking", "rewinding"}
    BY DEF NoRewind
  <2>2. PICK stage \in {"rejected", "forwarded", "streamed", "done"} :
          call' = [call EXCEPT ![p].pc = stage]
    BY <1>4, <2>1 DEF Continuation, ReplacementStarts, RewindLocks, RewindEnds,
       FinalizeOutOfBandRun
  <2> QED BY <2>2, StageNoRewind DEF Stages
<1>5. CASE EditQueue
  <2>1. CASE ClearSteerQueue
    <3>1. \A p \in Prompts : /\ call'[p].verb = call[p].verb
                             /\ call'[p].pc \in {call[p].pc, "removed"}
      BY <2>1 DEF ClearSteerQueue, TypeOK, CallState
    <3> QED BY <3>1 DEF NoRewind
  <2>2. CASE \E e \in Entries : RemoveSteerQueueEntry(e)
    BY <2>2, <1>1, StageNoRewind DEF RemoveSteerQueueEntry, Stages
  <2>3. CASE \E e \in Entries, i \in 1 .. Cardinality(Entries) : ReorderSteerQueueEntry(e, i)
    BY <2>3, <1>1 DEF ReorderSteerQueueEntry
  <2> QED BY <1>5, <2>1, <2>2, <2>3 DEF EditQueue
<1>6. CASE \/ \E t \in Tokens : StartTurn(t) \/ GeneratorEnds(t)
           \/ DeliverEvent \/ Provider
  BY <1>1, <1>6 DEF StartTurn, StartResolves, StartFails, GeneratorEnds, DeliverEvent,
     Provider, ProviderBegins, ProviderReportsLate, ProviderEnds
<1>7. CASE UNCHANGED vars
  BY <1>1, <1>7 DEF vars
<1> QED BY <1>2, <1>3, <1>4, <1>5, <1>6, <1>7 DEF Next

(***************************************************************************)
(* Every step keeps the hand-off.                                          *)
(***************************************************************************)
LEMMA MutationHandoff ==
  ASSUME TypeOK, Handoff(agent), NEW p \in Prompts, Mutation(p)
  PROVE  Handoff(agent')
<1>0. agent \in AgentState
  BY AgentType
<1>1. CASE CancelBegins(p)
  <2>1. SameHandoff(agent, [agent EXCEPT !.steerQueueHeld = TRUE])
    BY <1>0 DEF SameHandoff, AgentState
  <2> QED BY <1>1, <2>1, SameIsEnough DEF CancelBegins
<1>2. CASE InterruptAcknowledged(p)
  <2> DEFINE event == [type |-> "canceled", turn |-> CHOOSE t \in live : TRUE]
  <2>1. live # {} => event \in Event
    <3>1. live # {} => (CHOOSE t \in live : TRUE) \in Turns
      BY DEF TypeOK
    <3> QED BY <3>1 DEF Event, EndKinds
  <2> HIDE DEF event
  <2>2. agent' = agent \/ (live # {} /\ agent' = enqueueSessionEvent(agent, event))
    BY <1>2 DEF InterruptAcknowledged, event
  <2> QED BY <1>0, <2>1, <2>2, QuietOperators, SameIsEnough
<1>3. CASE InterruptFailed(p)
  <2>1. SameHandoff(agent, [agent EXCEPT !.pendingReplacement = FALSE])
    BY <1>0 DEF SameHandoff, AgentState
  <2> QED BY <1>3, <2>1, SameIsEnough DEF InterruptFailed
<1>4. CASE CancelSettles(p)
  <2>1. call[p].turn \in Turns \cup {None} /\ call[p].run \in Tokens \cup {None}
    BY DEF TypeOK, CallState
  <2>2. ASSUME NEW todo \in TodoChoices,
               agent' = TerminalEvent(agent, "canceled", call[p].turn, todo)
        PROVE  Handoff(agent')
    BY <1>0, <2>1, <2>2, TerminalEventHandoff DEF TodoChoices
  <2>3. CASE call[p].run # None /\ agent' = settleForegroundRun(agent, call[p].run)
    BY <1>0, <2>1, <2>3, SettleHandoff
  <2> QED BY <1>4, <2>2, <2>3 DEF CancelSettles, CapturedRun
<1>5. CASE CancelDrained(p)
  BY <1>5 DEF CancelDrained
<1>6. CASE SteerBegins(p)
  <2>1. SameHandoff(agent, [agent EXCEPT !.barrier = TRUE])
    BY <1>0 DEF SameHandoff, AgentState
  <2> QED BY <1>6, <2>1, SameIsEnough DEF SteerBegins
<1>7. CASE SteerAnswered(p)
  <2> DEFINE opened == [agent EXCEPT !.barrier = FALSE, !.barred = <<>>]
  <2>1. <<>> \in Seq(Event) /\ agent.barred \in Seq(Event)
    BY <1>0, EmptySeq DEF AgentState
  <2>2. opened \in AgentState /\ SameHandoff(agent, opened)
    BY <1>0, <2>1 DEF AgentState, SameHandoff
  <2>3. agent' = EnqueueAll(opened, agent.barred)
    BY <1>7 DEF SteerAnswered
  <2> HIDE DEF opened
  <2> QED BY <2>1, <2>2, <2>3, QuietOperators, SameIsEnough
<1>8. CASE SteerReturns(p)
  <2>1. CASE SteerUnavailable(p, call[p].turn, Tail(mutations))
    <3>1. "steer" \in AllVerbs
      BY DEF AllVerbs
    <3> QED BY <2>1, <3>1, StartOrReplaceHandoff DEF SteerUnavailable
  <2> QED BY <1>8, <2>1 DEF SteerReturns
<1> QED BY <1>1, <1>2, <1>3, <1>4, <1>5, <1>6, <1>7, <1>8 DEF Mutation

LEMMA ContinuationHandoff ==
  ASSUME TypeOK, NoRewind, Handoff(agent), NEW p \in Prompts, Continuation(p)
  PROVE  Handoff(agent')
<1>0. agent \in AgentState
  BY AgentType
<1>1. CASE ReplacementStarts(p)
  <2>1. CASE SlotTaken(agent)
    <3>1. /\ SameHandoff(agent, [agent EXCEPT !.pendingReplacement = FALSE])
          /\ SameHandoff(agent, ForwarderFailed(agent))
      BY <1>0, QuietOperators DEF SameHandoff, AgentState
    <3> QED BY <1>1, <2>1, <3>1, SameIsEnough DEF ReplacementStarts
  <2>2. CASE ~SlotTaken(agent)
    <3>1. agent.run = None /\ agent' = streamAgent(agent, p, <<p>>)
      BY <1>1, <2>2 DEF ReplacementStarts, SlotTaken, hasPendingRun
    <3> QED BY <1>0, <3>1, PromptBatch, StreamHandoff DEF Handoff
  <2> QED BY <2>1, <2>2
<1>2. CASE RewindLocks(p)
  BY <1>2 DEF RewindLocks, NoRewind
<1>3. CASE RewindEnds(p)
  <2> DEFINE settled == settleForegroundRun(agent, p)
  <2>1. settled \in AgentState /\ Handoff(settled)
    BY <1>0, PromptIsToken, SettleType, SettleHandoff
  <2>2. agent' = [settled EXCEPT !.generator[p] = "done"]
    BY <1>3 DEF RewindEnds
  <2> HIDE DEF settled
  <2>3. SameHandoff(settled, agent')
    BY <2>1, <2>2 DEF AgentState, SameHandoff
  <2> QED BY <2>1, <2>3, SameIsEnough
<1>4. CASE FinalizeOutOfBandRun(p)
  <2> DEFINE left == IF agent.outOfBandRunCount > 0 THEN agent.outOfBandRunCount - 1 ELSE 0
             fewer == [agent EXCEPT !.outOfBandRunCount = left]
  <2>1. left \in Nat
    BY <1>0 DEF AgentState
  <2>2. agent' = fewer \/ agent' = RestOrDrain(fewer, FALSE)
    BY <1>4 DEF FinalizeOutOfBandRun
  <2> HIDE DEF left
  <2>3. fewer \in AgentState /\ SameHandoff(agent, fewer)
    BY <1>0, <2>1 DEF AgentState, SameHandoff
  <2> HIDE DEF fewer
  <2>4. Handoff(fewer)
    BY <2>3, SameIsEnough
  <2> QED BY <2>2, <2>3, <2>4, RestOrDrainHandoff
<1> QED BY <1>1, <1>2, <1>3, <1>4 DEF Continuation

LEMMA StartFailsHandoff ==
  ASSUME TypeOK, Handoff(agent), NEW t \in Tokens, NEW stale \in BOOLEAN,
         NEW todo \in TodoEntries \cup {None}, StartFails(t, stale, todo)
  PROVE  Handoff(agent')
<1> DEFINE gaveUp  == [agent EXCEPT !.generator[t] = "done"]
           started == [gaveUp EXCEPT !.pendingReplacement = FALSE]
           rested  == IF agent.activeForegroundTurnId = None
                      THEN [started EXCEPT !.lifecycle = "idle"] ELSE started
           event   == TerminalEvent(started, "failed", None, None)
           failed  == finalizeForegroundTurn(event, None, todo)
           before  == IF stale THEN rested ELSE failed
           settled == settleForegroundRun(before, t)
           ended   == IF t \in agent.settled THEN gaveUp ELSE settled
<1>1. gaveUp \in AgentState /\ SameHandoff(agent, gaveUp)
  BY AgentType, GeneratorDoneType, ZenonT(60) DEF SameHandoff, AgentState
<1> HIDE DEF gaveUp
<1>2. started \in AgentState /\ SameHandoff(agent, started)
  BY <1>1, ZenonT(60) DEF AgentState, SameHandoff
<1> HIDE DEF started
<1>3. rested \in AgentState /\ SameHandoff(agent, rested)
  BY <1>2, ZenonT(60) DEF AgentState, SameHandoff
<1> HIDE DEF rested
<1>4. event \in AgentState /\ Handoff(event)
  BY <1>2, SameIsEnough, TerminalEventType, TerminalEventHandoff
<1> HIDE DEF event
<1>5. failed \in AgentState /\ Handoff(failed)
  BY <1>4, FinalizeType, FinalizeHandoff
<1> HIDE DEF failed
<1>6. before \in AgentState /\ Handoff(before)
  BY <1>3, <1>5, SameIsEnough
<1> HIDE DEF before
<1>7. settled \in AgentState /\ Handoff(settled)
  BY <1>6, SettleType, SettleHandoff
<1> HIDE DEF settled
<1>8. ended \in AgentState /\ Handoff(ended)
  BY <1>1, <1>7, SameIsEnough
<1> HIDE DEF ended
<1>9. agent' = ended \/ agent' = ForwarderFailed(ended)
  BY DEF StartFails, ended, settled, before, failed, event, rested, started, gaveUp
<1> QED BY <1>8, <1>9, QuietOperators, SameIsEnough

LEMMA StartResolvesHandoff ==
  ASSUME TypeOK, Handoff(agent), NEW t \in Tokens, StartResolves(t)
  PROVE  Handoff(agent')
<1> DEFINE events == agent.staged[t]
           accepted == [type |-> "started", turn |-> t]
           kept == IF accepted \in RangeOf(events) THEN Without(events, accepted) ELSE events
           current == [agent EXCEPT !.activeForegroundTurnId = t, !.activeTurnId = t,
                         !.pendingReplacement = FALSE, !.lifecycle = "running",
                         !.generator[t] = "streaming", !.staged[t] = <<>>]
           gaveUp == [agent EXCEPT !.generator[t] = "done"]
<1>1. events \in Seq(Event)
  BY AgentType DEF AgentState
<1> HIDE DEF events
<1>2. kept \in Seq(Event)
  BY <1>1, WithoutType
<1>3. current \in AgentState /\ SameHandoff(agent, current)
  <2>1. <<>> \in Seq(Event) /\ t \in Turns
    BY EmptySeq, EntriesType
  <2> QED BY <2>1, AgentType DEF AgentState, SameHandoff
<1>4. gaveUp \in AgentState /\ SameHandoff(agent, gaveUp)
  BY AgentType, GeneratorDoneType, ZenonT(60) DEF AgentState, SameHandoff
<1> HIDE DEF kept, current, gaveUp
<1>5. \/ agent' = EnqueueAll(current, kept) \/ agent' = gaveUp
      \/ agent' = ForwarderFailed(gaveUp)
  BY DEF StartResolves, kept, current, gaveUp, events
<1>6. /\ SameHandoff(current, EnqueueAll(current, kept))
      /\ SameHandoff(gaveUp, ForwarderFailed(gaveUp))
  BY <1>2, <1>3, <1>4, QuietOperators
<1> QED BY <1>3, <1>4, <1>5, <1>6, SameIsEnough

LEMMA StepHandoff ==
  ASSUME TypeOK, NoRewind, Handoff(agent), [Next]_vars
  PROVE  Handoff(agent')
<1>0. agent \in AgentState
  BY AgentType
<1>1. CASE UNCHANGED agent
  BY <1>1
<1>2. ASSUME NEW p \in Prompts, MakeCall(p) PROVE Handoff(agent')
  <2>1. CASE RunAgent(p)
    BY <2>1, StartOrRejectHandoff DEF RunAgent
  <2>2. ASSUME NEW verb \in {"queue", "interrupt", "steer"}, SendPrompt(p, verb)
        PROVE  Handoff(agent')
    BY <2>2, SendPromptHandoff DEF AllVerbs
  <2>3. CASE TryRunOutOfBand(p)
    <3>1. SameHandoff(agent, agent')
      BY <1>0, <2>3 DEF TryRunOutOfBand, SameHandoff, AgentState
    <3> QED BY <3>1, SameIsEnough
  <2>4. CASE Rewind(p)
    <3>1. CASE UNCHANGED agent
      BY <3>1
    <3>2. CASE agent.run = None /\ agent' = [agent EXCEPT !.run = p, !.generator[p] = "lock"]
      <4>1. /\ agent'.waiting = agent.waiting
            /\ agent'.pendingSteerDrain = agent.pendingSteerDrain
        BY <1>0, <3>2 DEF AgentState
      <4> QED BY <3>2, <4>1, EntriesType DEF Handoff, WaitersOwned
    <3> QED BY <2>4, <3>1, <3>2 DEF Rewind, LockSlot, SlotTaken, hasPendingRun
  <2> QED BY <1>2, <2>1, <2>2, <2>3, <2>4 DEF MakeCall, StopRun
<1>3. ASSUME NEW p \in Prompts, Mutation(p) PROVE Handoff(agent')
  BY <1>3, MutationHandoff
<1>4. ASSUME NEW p \in Prompts, Continuation(p) PROVE Handoff(agent')
  BY <1>4, ContinuationHandoff
<1>5. ASSUME NEW t \in Tokens, StartTurn(t) PROVE Handoff(agent')
  BY <1>5, StartFailsHandoff, StartResolvesHandoff DEF StartTurn, TodoChoices
<1>6. ASSUME NEW t \in Tokens, GeneratorEnds(t) PROVE Handoff(agent')
  <2> DEFINE ended == [agent EXCEPT !.generator[t] = "done"]
  <2>1. ended \in AgentState /\ SameHandoff(agent, ended)
    BY <1>0, GeneratorDoneType, ZenonT(60) DEF AgentState, SameHandoff
  <2>2. agent' = settleForegroundRun(ended, t)
    BY <1>6 DEF GeneratorEnds
  <2> HIDE DEF ended
  <2> QED BY <2>1, <2>2, SameIsEnough, SettleHandoff
<1>7. CASE DeliverEvent
  <2> DEFINE event == Head(agent.tail)
             rest  == [agent EXCEPT !.tail = Tail(@)]
  <2>1. event \in Event /\ Tail(agent.tail) \in Seq(Event)
    BY <1>0, <1>7, HeadTailProperties DEF DeliverEvent, AgentState
  <2>2. rest \in AgentState /\ SameHandoff(agent, rest) /\ event.turn \in Turns
    BY <1>0, <2>1 DEF AgentState, SameHandoff, Event
  <2> HIDE DEF event, rest
  <2>3. \/ agent' = TurnStarted(rest, event.turn)
        \/ \E todo \in TodoChoices : agent' = TerminalEvent(rest, event.type, event.turn, todo)
    BY <1>7 DEF DeliverEvent, event, rest
  <2>4. Handoff(rest) /\ TodoChoices \subseteq TodoEntries \cup {None}
    BY <2>2, SameIsEnough DEF TodoChoices
  <2>5. SameHandoff(rest, TurnStarted(rest, event.turn))
    BY <2>2, QuietOperators
  <2> QED BY <2>2, <2>3, <2>4, <2>5, SameIsEnough, TerminalEventHandoff
<1>8. CASE EditQueue
  <2>1. SameHandoff(agent, agent')
    BY <1>0, <1>8 DEF EditQueue, ClearSteerQueue, RemoveSteerQueueEntry,
       ReorderSteerQueueEntry, SameHandoff, AgentState
  <2> QED BY <2>1, SameIsEnough
<1>9. CASE Provider
  <2>1. PICK type \in {"started"} \cup EndKinds, t \in Turns : Emit(type, t)
    BY <1>9 DEF Provider, ProviderBegins, ProviderReportsLate, ProviderEnds, EndKinds
  <2>2. [type |-> type, turn |-> t] \in Event
    BY DEF Event
  <2> QED BY <1>0, <2>1, <2>2, QuietOperators, SameIsEnough DEF Emit
<1> QED BY <1>1, <1>2, <1>3, <1>4, <1>5, <1>6, <1>7, <1>8, <1>9 DEF Next, vars

\* Where nobody rewinds, a queued batch taken off the queue always has a run
\* whose settling completes its hand-off, and pendingSteerDrain is never left up
\* without one: the agent cannot be kept busy by a hand-off nobody will finish.
THEOREM HandoffComplete ==
  ASSUME "rewind" \notin Verbs
  PROVE  Spec => []HandoffWaits
<1> DEFINE IInv == TypeOK /\ NoRewind /\ HandoffWaits
<1>1. Init => IInv
  <2> SUFFICES ASSUME Init PROVE IInv
    OBVIOUS
  <2>1. NoRewind
    BY DEF Init, NoRewind, NoCall
  <2>2. HandoffWaits
    BY DEF Init, HandoffWaits
  <2> QED BY <2>1, <2>2, InitType
<1>2. IInv /\ [Next]_vars => IInv'
  <2> SUFFICES ASSUME IInv, [Next]_vars PROVE IInv'
    OBVIOUS
  <2>1. TypeOK' /\ NoRewind'
    BY StepType, StepNoRewind
  <2>2. Handoff(agent')
    BY HandoffIs, StepHandoff
  <2>3. HandoffWaits'
    BY <2>2 DEF HandoffWaits, Handoff, WaitersOwned
  <2> QED BY <2>1, <2>3
<1>3. IInv => HandoffWaits
  OBVIOUS
<1> QED BY <1>1, <1>2, <1>3, PTL DEF Spec

(***************************************************************************)
(* The turn that is current belongs to the run in the slot.  The argument: *)
(* a foreground turn is named by its run, which streams; a run that is     *)
(* going on and not settled is the one in the slot; and nothing takes the  *)
(* slot without having looked at it, nor settles a run that still streams  *)
(* the current turn.                                                       *)
(***************************************************************************)
\* TurnOwnsSlot, of any state of the manager's record, and that the current
\* turn's run is still streaming.
Slotted(a) ==
  /\ a.activeForegroundTurnId # None =>
       /\ a.run = a.activeForegroundTurnId
       /\ a.generator[a.activeForegroundTurnId] = "streaming"
  /\ \A t \in Tokens :
       a.generator[t] \in {"starting", "streaming", "ending"} /\ t \notin a.settled
         => a.run = t

LEMMA SlottedIsEnough == TypeOK /\ Slotted(agent) => TurnOwnsSlot
BY AgentType, EntriesType DEF Slotted, TurnOwnsSlot, Running, AgentState

\* A handler that leaves the slot, the runs and the foreground turn alone.
SameSlot(a, b) ==
  /\ b.run = a.run /\ b.settled = a.settled /\ b.generator = a.generator
  /\ b.activeForegroundTurnId = a.activeForegroundTurnId

LEMMA SameSlotIsEnough ==
  ASSUME NEW a, NEW b, SameSlot(a, b), Slotted(a) PROVE Slotted(b)
BY DEF SameSlot, Slotted

LEMMA SameSlotTransitive ==
  ASSUME NEW a, NEW b, NEW c, SameSlot(a, b), SameSlot(b, c)
  PROVE  SameSlot(a, c)
BY DEF SameSlot

\* A handler that at most starts a run, and leaves the foreground turn alone.
AtMostStarts(a, b) ==
  /\ b.activeForegroundTurnId = a.activeForegroundTurnId
  /\ \A t \in Tokens : b.generator[t] \in {a.generator[t], "starting"}

\* A run may start only in an empty slot, and then it is the only one.
LEMMA StreamSlotted ==
  ASSUME NEW a \in AgentState, Slotted(a), ~SlotTaken(a),
         NEW token \in Tokens, NEW batch \in Seq(Entries)
  PROVE  /\ Slotted(streamAgent(a, token, batch))
         /\ AtMostStarts(a, streamAgent(a, token, batch))
<1> DEFINE b == streamAgent(a, token, batch)
<1>1. a.run = None /\ a.activeForegroundTurnId = None
  BY DEF SlotTaken, hasPendingRun
<1>2. /\ b.run = token /\ b.activeForegroundTurnId = None /\ b.settled = a.settled
      /\ b.generator[token] = "starting"
      /\ \A t \in Tokens \ {token} : b.generator[t] = a.generator[t]
  BY <1>1 DEF streamAgent, AgentState
<1>3. \A t \in Tokens : a.run # t
  BY <1>1, EntriesType
<1> HIDE DEF b
<1>4. Slotted(b)
  BY <1>2, <1>3 DEF Slotted
<1>5. AtMostStarts(a, b)
  BY <1>1, <1>2 DEF AtMostStarts
<1> QED BY <1>4, <1>5 DEF b

LEMMA DeliverSlotted ==
  ASSUME NEW a \in AgentState, Slotted(a), NEW batch \in Seq(Entries) \ {<<>>}
  PROVE  /\ Slotted(DeliverBatch(a, batch))
         /\ AtMostStarts(a, DeliverBatch(a, batch))
<1>1. CASE ~a.pendingSteerDrain
  BY <1>1 DEF DeliverBatch, AtMostStarts
<1>2. CASE a.pendingSteerDrain /\ SlotTaken(a)
  <2> DEFINE b == [a EXCEPT !.pendingSteerDrain = FALSE,
                            !.steerQueue = batch \o a.steerQueue]
  <2>1. SameSlot(a, b)
    BY DEF AgentState, SameSlot
  <2>2. DeliverBatch(a, batch) = b
    BY <1>2 DEF DeliverBatch
  <2> HIDE DEF b
  <2> QED BY <2>1, <2>2, SameSlotIsEnough DEF SameSlot, AtMostStarts
<1>3. CASE a.pendingSteerDrain /\ ~SlotTaken(a)
  <2>1. Head(batch) \in Tokens
    BY EntriesType, HeadTailProperties
  <2>2. DeliverBatch(a, batch) = streamAgent(a, Head(batch), batch)
    BY <1>3 DEF DeliverBatch
  <2> QED BY <1>3, <2>1, <2>2, StreamSlotted
<1> QED BY <1>1, <1>2, <1>3 DEF AgentState

LEMMA DispatchSlotted ==
  ASSUME NEW a \in AgentState, Slotted(a), NEW batch \in Seq(Entries) \ {<<>>}
  PROVE  /\ Slotted(dispatchSteerQueueBatch(a, batch))
         /\ AtMostStarts(a, dispatchSteerQueueBatch(a, batch))
<1>1. CASE hasPendingRun(a)
  <2> DEFINE b == [a EXCEPT !.waiting[a.run] = Append(@, batch)]
  <2>1. SameSlot(a, b)
    BY DEF AgentState, SameSlot
  <2>2. dispatchSteerQueueBatch(a, batch) = b
    BY <1>1 DEF dispatchSteerQueueBatch
  <2> HIDE DEF b
  <2> QED BY <2>1, <2>2, SameSlotIsEnough DEF SameSlot, AtMostStarts
<1>2. CASE ~hasPendingRun(a)
  BY <1>2, DeliverSlotted DEF dispatchSteerQueueBatch
<1> QED BY <1>1, <1>2

\* Settling a run whose turn is not the current one.
LEMMA SettleSlotted ==
  ASSUME NEW a \in AgentState, NEW token \in Tokens, Slotted(a),
         a.generator[token] # "streaming"
  PROVE  Slotted(settleForegroundRun(a, token))
<1> DEFINE cleared == [a EXCEPT !.run = None, !.settled = @ \cup {token},
                                !.waiting[token] = <<>>]
<1>1. CASE a.run # token
  BY <1>1 DEF settleForegroundRun
<1>2. CASE a.run = token
  <2>1. a.activeForegroundTurnId = None
    BY <1>2 DEF Slotted
  <2>2. /\ cleared.run = None /\ cleared.settled = a.settled \cup {token}
        /\ cleared.generator = a.generator /\ cleared.activeForegroundTurnId = None
    BY <2>1 DEF AgentState
  <2>3. cleared \in AgentState
    <3>1. <<>> \in Seq(Seq(Entries) \ {<<>>})
      BY EmptySeq
    <3> QED BY <3>1 DEF AgentState
  <2>4. settleForegroundRun(a, token)
          = IF a.waiting[token] = <<>> THEN cleared
            ELSE DeliverBatch(cleared, Head(a.waiting[token]))
    BY <1>2 DEF settleForegroundRun
  <2> HIDE DEF cleared
  <2>5. Slotted(cleared)
    BY <1>2, <2>2 DEF Slotted
  <2>6. CASE a.waiting[token] = <<>>
    BY <2>4, <2>5, <2>6
  <2>7. CASE a.waiting[token] # <<>>
    <3>1. Head(a.waiting[token]) \in Seq(Entries) \ {<<>>}
      BY <2>7, HeadTailProperties DEF AgentState
    <3> QED BY <2>3, <2>4, <2>5, <2>7, <3>1, DeliverSlotted
  <2> QED BY <2>6, <2>7
<1> QED BY <1>1, <1>2

LEMMA ClaimSlotted ==
  ASSUME NEW a \in AgentState, Slotted(a), a.steerQueue # <<>>,
         NEW b, b = dispatchSteerQueueBatch(
           [a EXCEPT !.steerQueue = takeNextSteerQueueBatch(a.steerQueue).rest,
                     !.pendingSteerDrain = TRUE, !.lifecycle = "running"],
           takeNextSteerQueueBatch(a.steerQueue).entries)
  PROVE  Slotted(b) /\ AtMostStarts(a, b)
<1> DEFINE batch == takeNextSteerQueueBatch(a.steerQueue)
           taken == [a EXCEPT !.steerQueue = batch.rest,
                              !.pendingSteerDrain = TRUE, !.lifecycle = "running"]
<1>1. a.steerQueue \in Seq(Entries)
  BY DEF AgentState
<1>2. batch.entries \in Seq(Entries) \ {<<>>} /\ batch.rest \in Seq(Entries)
  BY <1>1, BatchSplits
<1> HIDE DEF batch
<1>3. taken \in AgentState /\ SameSlot(a, taken)
  BY <1>2 DEF AgentState, SameSlot
<1> HIDE DEF taken
<1>4. Slotted(taken)
  BY <1>3, SameSlotIsEnough
<1>5. b = dispatchSteerQueueBatch(taken, batch.entries)
  BY DEF taken, batch
<1>6. Slotted(b) /\ AtMostStarts(taken, b)
  BY <1>2, <1>3, <1>4, <1>5, DispatchSlotted
<1> QED BY <1>3, <1>6 DEF AtMostStarts, SameSlot

LEMMA RestOrDrainSlotted ==
  ASSUME NEW a \in AgentState, Slotted(a), NEW held \in BOOLEAN
  PROVE  Slotted(RestOrDrain(a, held)) /\ AtMostStarts(a, RestOrDrain(a, held))
<1>1. CASE held \/ a.lastError \/ a.steerQueueHeld \/ a.steerQueue = <<>>
  <2>1. SameSlot(a, RestOrDrain(a, held))
    BY <1>1 DEF RestOrDrain, SameSlot, AgentState
  <2> QED BY <2>1, SameSlotIsEnough DEF SameSlot, AtMostStarts
<1>2. CASE ~(held \/ a.lastError \/ a.steerQueueHeld \/ a.steerQueue = <<>>)
  BY <1>2, ClaimSlotted DEF RestOrDrain
<1> QED BY <1>1, <1>2

\* The handlers that end in one of them, or that do not touch the slot.
LEMMA StillSlotted ==
  ASSUME NEW a \in AgentState
  PROVE  /\ \A turn : SameSlot(a, applyActiveTurnTerminal(a, turn))
         /\ \A kind, isForeground : SameSlot(a, TurnEnded(a, kind, isForeground))
         /\ \A turn : SameSlot(a, rememberFinalizedTurn(a, turn))
         /\ \A todo : SameSlot(a, maybeEnqueueTodoReconcile(a, todo))
         /\ \A event : SameSlot(a, TurnStarted(a, event))
         /\ SameSlot(a, ForwarderFailed(a))
         /\ \A event : SameSlot(a, enqueueSessionEvent(a, event))
         /\ \A events : SameSlot(a, EnqueueAll(a, events))
<1>1. \A turn : SameSlot(a, applyActiveTurnTerminal(a, turn))
  BY DEF applyActiveTurnTerminal, AgentState, SameSlot
<1>2. \A kind, isForeground : SameSlot(a, TurnEnded(a, kind, isForeground))
  BY DEF TurnEnded, AgentState, SameSlot
<1>3. \A turn : SameSlot(a, rememberFinalizedTurn(a, turn))
  BY DEF rememberFinalizedTurn, AgentState, SameSlot
<1>4. \A todo : SameSlot(a, maybeEnqueueTodoReconcile(a, todo))
  BY DEF maybeEnqueueTodoReconcile, AgentState, SameSlot
<1>5. \A event : SameSlot(a, TurnStarted(a, event))
  BY DEF TurnStarted, AgentState, SameSlot
<1>6. SameSlot(a, ForwarderFailed(a))
  BY DEF ForwarderFailed, AgentState, SameSlot
<1>7. \A event : SameSlot(a, enqueueSessionEvent(a, event))
  BY DEF enqueueSessionEvent, AgentState, SameSlot
<1>8. \A events : SameSlot(a, EnqueueAll(a, events))
  BY DEF EnqueueAll, AgentState, SameSlot
<1> QED BY <1>1, <1>2, <1>3, <1>4, <1>5, <1>6, <1>7, <1>8

LEMMA FinalizeSlotted ==
  ASSUME NEW a \in AgentState, Slotted(a), NEW turn \in Turns \cup {None},
         NEW todo \in TodoEntries \cup {None},
         NEW b, b = finalizeForegroundTurn(a, turn, todo)
  PROVE  /\ Slotted(b) /\ b.activeForegroundTurnId = None
         /\ \A t \in Tokens : b.generator[t] \in {a.generator[t], "starting"}
<1> DEFINE remembered == rememberFinalizedTurn(a, turn)
           noTurn == [remembered EXCEPT !.activeForegroundTurnId = None]
           closed == applyActiveTurnTerminal(noTurn, turn)
           parked == maybeEnqueueTodoReconcile(closed, todo)
           held   == a.pendingReplacement /\ ~a.lastError
<1>1. remembered \in AgentState /\ SameSlot(a, remembered)
  BY RememberType, StillSlotted
<1> HIDE DEF remembered
<1>2. /\ noTurn \in AgentState /\ noTurn.activeForegroundTurnId = None
      /\ noTurn.run = a.run /\ noTurn.settled = a.settled /\ noTurn.generator = a.generator
  BY <1>1 DEF AgentState, SameSlot
<1> HIDE DEF noTurn
<1>3. Slotted(noTurn)
  BY <1>2 DEF Slotted
<1>4. closed \in AgentState /\ SameSlot(noTurn, closed)
  BY <1>2, TerminalType, StillSlotted
<1> HIDE DEF closed
<1>5. parked \in AgentState /\ SameSlot(closed, parked)
  BY <1>4, TodoType, StillSlotted
<1> HIDE DEF parked
<1>6. Slotted(parked)
  BY <1>3, <1>4, <1>5, SameSlotIsEnough
<1>7. held \in BOOLEAN /\ b = RestOrDrain(parked, held)
  BY DEF finalizeForegroundTurn, parked, closed, noTurn, remembered, AgentState
<1> HIDE DEF held
<1>8. Slotted(b) /\ AtMostStarts(parked, b)
  BY <1>5, <1>6, <1>7, RestOrDrainSlotted
<1> QED BY <1>2, <1>4, <1>5, <1>8 DEF AtMostStarts, SameSlot

\* The generator of a turn is told of the turn's end only when that turn is no
\* longer current, or never was.
LEMMA TerminalEventSlotted ==
  ASSUME NEW a \in AgentState, Slotted(a), NEW kind,
         NEW eventTurn \in Turns \cup {None}, NEW todo \in TodoEntries \cup {None}
  PROVE  Slotted(TerminalEvent(a, kind, eventTurn, todo))
<1> DEFINE turn == ManagedTurn(a, eventTurn)
           isForeground == turn # None /\ a.activeForegroundTurnId = turn
           closed == applyActiveTurnTerminal(a, turn)
           ended  == IF TerminalDisposition(a, turn) = "stale" THEN closed
                     ELSE TurnEnded(closed, kind, isForeground)
           final  == IF isForeground THEN finalizeForegroundTurn(ended, turn, todo)
                     ELSE ended
           marked == [final EXCEPT !.generator[eventTurn] = "ending"]
<1>0. /\ TerminalEvent(a, kind, eventTurn, todo)
           \in {a, final} \cup
               {m \in {marked} : eventTurn \in Tokens /\ a.generator[eventTurn] = "streaming"}
  BY DEF TerminalEvent, marked, final, ended, closed, isForeground, turn
<1>1. turn \in Turns \cup {None} /\ isForeground \in BOOLEAN
  BY EntriesType DEF ManagedTurn, AgentState
<1>2. eventTurn \in Tokens /\ a.activeForegroundTurnId = eventTurn => isForeground
  BY EntriesType DEF ManagedTurn
<1> HIDE DEF turn, isForeground
<1>3. closed \in AgentState /\ SameSlot(a, closed)
  BY TerminalType, StillSlotted
<1> HIDE DEF closed
<1>4. ended \in AgentState /\ SameSlot(a, ended)
  BY <1>1, <1>3, TurnEndedType, StillSlotted, SameSlotTransitive
<1> HIDE DEF ended
<1>5. Slotted(ended)
  BY <1>4, SameSlotIsEnough
<1>6. /\ final \in AgentState /\ Slotted(final)
      /\ final.activeForegroundTurnId
           = IF isForeground THEN None ELSE a.activeForegroundTurnId
      /\ \A t \in Tokens : final.generator[t] \in {a.generator[t], "starting"}
  <2>1. CASE isForeground
    <3>1. final = finalizeForegroundTurn(ended, turn, todo)
      BY <2>1
    <3> HIDE DEF final
    <3> QED BY <1>1, <1>4, <1>5, <2>1, <3>1, FinalizeType, FinalizeSlotted, ZenonT(60) DEF SameSlot
  <2>2. CASE ~isForeground
    BY <1>4, <1>5, <2>2 DEF SameSlot
  <2> QED BY <1>1, <2>1, <2>2
<1> HIDE DEF final
<1>7. ASSUME eventTurn \in Tokens, a.generator[eventTurn] = "streaming"
      PROVE  Slotted(marked)
  <2>1. /\ marked.run = final.run /\ marked.settled = final.settled
        /\ marked.activeForegroundTurnId = final.activeForegroundTurnId
        /\ marked.generator[eventTurn] = "ending"
        /\ \A t \in Tokens \ {eventTurn} : marked.generator[t] = final.generator[t]
    BY <1>6, <1>7 DEF AgentState
  <2>2. final.activeForegroundTurnId # eventTurn
    BY <1>2, <1>6, <1>7, EntriesType
  <2>3. final.generator[eventTurn] \in {"starting", "streaming"}
    BY <1>6, <1>7
  <2>4. marked.activeForegroundTurnId \in Tokens \cup {None}
    BY <1>6, <2>1 DEF AgentState
  <2> HIDE DEF marked
  <2> QED BY <1>6, <2>1, <2>2, <2>3, <2>4 DEF Slotted
<1> HIDE DEF marked
<1> QED BY <1>0, <1>6, <1>7

LEMMA StartOrRejectSlotted ==
  ASSUME TypeOK, Slotted(agent), NEW p \in Prompts, NEW verb, StartOrReject(p, verb)
  PROVE  Slotted(agent')
<1>1. CASE SlotTaken(agent)
  BY <1>1 DEF StartOrReject
<1>2. CASE ~SlotTaken(agent)
  <2>1. agent' = streamAgent(agent, p, <<p>>)
    BY <1>2 DEF StartOrReject
  <2> QED BY <1>2, <2>1, AgentType, PromptBatch, StreamSlotted
<1> QED BY <1>1, <1>2

LEMMA StartOrReplaceSlotted ==
  ASSUME TypeOK, Slotted(agent), NEW p \in Prompts, NEW queued,
         \/ StartOrReplace(p, queued)
         \/ \E verb \in AllVerbs : CancelToReplace(p, verb, queued)
  PROVE  Slotted(agent')
<1>1. CASE StartOrReject(p, "interrupt")
  BY <1>1, StartOrRejectSlotted
<1>2. ASSUME NEW verb, CancelToReplace(p, verb, queued) PROVE Slotted(agent')
  <2>1. SameSlot(agent, agent')
    BY <1>2, AgentType DEF CancelToReplace, SameSlot, AgentState
  <2> QED BY <2>1, SameSlotIsEnough
<1> QED BY <1>1, <1>2 DEF StartOrReplace

LEMMA SendPromptSlotted ==
  ASSUME TypeOK, Slotted(agent), NEW p \in Prompts, NEW verb \in AllVerbs,
         SendPrompt(p, verb)
  PROVE  Slotted(agent')
<1>1. CASE EnqueueSteerMessage(p, verb)
  <2> DEFINE parked == [agent EXCEPT !.steerQueue = Append(@, p)]
             batch  == takeNextSteerQueueBatch(parked.steerQueue)
             claimed == dispatchSteerQueueBatch(
                    [parked EXCEPT !.steerQueue = batch.rest, !.pendingSteerDrain = TRUE,
                                   !.lifecycle = "running"], batch.entries)
  <2>1. /\ agent.steerQueue \in Seq(Entries) /\ p \in Entries
        /\ parked.steerQueue = Append(agent.steerQueue, p)
    BY AgentType, PromptIsToken DEF AgentState
  <2>2. /\ parked.steerQueue \in Seq(Entries) /\ Len(agent.steerQueue) \in Nat
        /\ Len(parked.steerQueue) = Len(agent.steerQueue) + 1
    BY <2>1, AppendProperties, LenProperties
  <2>3. parked.steerQueue # <<>>
    BY <2>2, EmptySeq
  <2>4. parked \in AgentState /\ SameSlot(agent, parked)
    BY <2>1, <2>2, AgentType DEF AgentState, SameSlot
  <2> HIDE DEF parked
  <2>5. Slotted(parked)
    BY <2>4, SameSlotIsEnough
  <2>6. Slotted(claimed)
    BY <2>3, <2>4, <2>5, ClaimSlotted
  <2>7. agent' = claimed \/ agent' = parked
    BY <1>1 DEF EnqueueSteerMessage, parked
  <2> QED BY <2>5, <2>6, <2>7
<1>2. CASE \E queued : StartOrReplace(p, queued)
  BY <1>2, StartOrReplaceSlotted
<1>3. \/ EnqueueSteerMessage(p, verb)
      \/ \E queued : StartOrReplace(p, queued)
      \/ UNCHANGED agent
  BY DEF SendPrompt, SteerTurn
<1> QED BY <1>1, <1>2, <1>3

LEMMA MutationSlotted ==
  ASSUME TypeOK, Slotted(agent), NEW p \in Prompts, Mutation(p)
  PROVE  Slotted(agent')
<1>0. agent \in AgentState
  BY AgentType
<1>1. CASE CancelBegins(p) \/ InterruptFailed(p) \/ CancelDrained(p) \/ SteerBegins(p)
  <2>1. SameSlot(agent, agent')
    BY <1>0, <1>1, ZenonT(60) DEF CancelBegins, InterruptFailed, CancelDrained, SteerBegins,
       SameSlot, AgentState
  <2> QED BY <2>1, SameSlotIsEnough
<1>2. CASE InterruptAcknowledged(p)
  <2>1. SameSlot(agent, agent')
    <3>1. agent' = agent \/ \E event : agent' = enqueueSessionEvent(agent, event)
      BY <1>2 DEF InterruptAcknowledged
    <3> QED BY <1>0, <3>1, StillSlotted DEF SameSlot
  <2> QED BY <2>1, SameSlotIsEnough
<1>3. CASE CancelSettles(p)
  <2>1. call[p].turn \in Turns \cup {None} /\ call[p].run \in Tokens \cup {None}
    BY DEF TypeOK, CallState
  <2>2. ASSUME NEW todo \in TodoChoices,
               agent' = TerminalEvent(agent, "canceled", call[p].turn, todo)
        PROVE  Slotted(agent')
    BY <1>0, <2>1, <2>2, TerminalEventSlotted DEF TodoChoices
  <2>3. CASE /\ call[p].run # None /\ agent.generator[call[p].run] \in {"starting", "lock"}
             /\ agent' = settleForegroundRun(agent, call[p].run)
    BY <1>0, <2>1, <2>3, SettleSlotted
  <2> QED BY <1>3, <2>2, <2>3 DEF CancelSettles, CapturedRun
<1>4. CASE SteerAnswered(p)
  <2> DEFINE opened == [agent EXCEPT !.barrier = FALSE, !.barred = <<>>]
  <2>1. <<>> \in Seq(Event)
    BY EmptySeq
  <2>2. opened \in AgentState /\ SameSlot(agent, opened)
    BY <1>0, <2>1 DEF AgentState, SameSlot
  <2>3. agent' = EnqueueAll(opened, agent.barred)
    BY <1>4 DEF SteerAnswered
  <2> HIDE DEF opened
  <2> QED BY <2>2, <2>3, StillSlotted, SameSlotIsEnough
<1>5. CASE SteerReturns(p)
  <2>1. CASE SteerUnavailable(p, call[p].turn, Tail(mutations))
    <3>1. "steer" \in AllVerbs
      BY DEF AllVerbs
    <3> QED BY <2>1, <3>1, StartOrReplaceSlotted DEF SteerUnavailable
  <2> QED BY <1>5, <2>1 DEF SteerReturns
<1> QED BY <1>1, <1>2, <1>3, <1>4, <1>5 DEF Mutation

LEMMA ContinuationSlotted ==
  ASSUME TypeOK, NoRewind, Slotted(agent), NEW p \in Prompts, Continuation(p)
  PROVE  Slotted(agent')
<1>0. agent \in AgentState
  BY AgentType
<1>1. CASE ReplacementStarts(p)
  <2>1. CASE SlotTaken(agent)
    <3>1. /\ SameSlot(agent, [agent EXCEPT !.pendingReplacement = FALSE])
          /\ SameSlot(agent, ForwarderFailed(agent))
      BY <1>0, StillSlotted DEF SameSlot, AgentState
    <3> QED BY <1>1, <2>1, <3>1, SameSlotIsEnough DEF ReplacementStarts
  <2>2. CASE ~SlotTaken(agent)
    BY <1>0, <1>1, <2>2, PromptBatch, StreamSlotted DEF ReplacementStarts
  <2> QED BY <2>1, <2>2
<1>2. CASE RewindLocks(p) \/ RewindEnds(p)
  BY <1>2 DEF RewindLocks, RewindEnds, NoRewind
<1>3. CASE FinalizeOutOfBandRun(p)
  <2> DEFINE left == IF agent.outOfBandRunCount > 0 THEN agent.outOfBandRunCount - 1 ELSE 0
             fewer == [agent EXCEPT !.outOfBandRunCount = left]
  <2>1. left \in Nat
    BY <1>0 DEF AgentState
  <2>2. agent' = fewer \/ agent' = RestOrDrain(fewer, FALSE)
    BY <1>3 DEF FinalizeOutOfBandRun
  <2> HIDE DEF left
  <2>3. fewer \in AgentState /\ SameSlot(agent, fewer)
    BY <1>0, <2>1 DEF AgentState, SameSlot
  <2> HIDE DEF fewer
  <2>4. Slotted(fewer)
    BY <2>3, SameSlotIsEnough
  <2> QED BY <2>2, <2>3, <2>4, RestOrDrainSlotted
<1> QED BY <1>1, <1>2, <1>3 DEF Continuation

\* A run whose start failed is settled only as long as it owns the slot.
LEMMA StartFailsSlotted ==
  ASSUME TypeOK, Slotted(agent), NEW t \in Tokens, NEW stale \in BOOLEAN,
         NEW todo \in TodoEntries \cup {None}, StartFails(t, stale, todo)
  PROVE  Slotted(agent')
<1> DEFINE gaveUp  == [agent EXCEPT !.generator[t] = "done"]
           started == [gaveUp EXCEPT !.pendingReplacement = FALSE]
           rested  == IF agent.activeForegroundTurnId = None
                      THEN [started EXCEPT !.lifecycle = "idle"] ELSE started
           event   == TerminalEvent(started, "failed", None, None)
           failed  == finalizeForegroundTurn(event, None, todo)
           before  == IF stale THEN rested ELSE failed
           settled == settleForegroundRun(before, t)
           ended   == IF t \in agent.settled THEN gaveUp ELSE settled
<1>0. agent \in AgentState /\ agent.generator[t] = "starting"
  BY AgentType DEF StartFails
<1>1. /\ gaveUp \in AgentState /\ Slotted(gaveUp)
      /\ gaveUp.generator[t] = "done"
  <2>1. /\ gaveUp.run = agent.run /\ gaveUp.settled = agent.settled
        /\ gaveUp.activeForegroundTurnId = agent.activeForegroundTurnId
        /\ gaveUp.generator[t] = "done"
        /\ \A u \in Tokens \ {t} : gaveUp.generator[u] = agent.generator[u]
    BY <1>0 DEF AgentState
  <2>2. agent.activeForegroundTurnId # t
    BY <1>0, EntriesType DEF Slotted
  <2>3. agent.activeForegroundTurnId \in Tokens \cup {None}
    BY <1>0 DEF AgentState
  <2>4. gaveUp \in AgentState
    BY <1>0, GeneratorDoneType
  <2> HIDE DEF gaveUp
  <2> QED BY <2>1, <2>2, <2>3, <2>4 DEF Slotted
<1> HIDE DEF gaveUp
<1>2. started \in AgentState /\ SameSlot(gaveUp, started)
  BY <1>1 DEF AgentState, SameSlot
<1> HIDE DEF started
<1>3. rested \in AgentState /\ SameSlot(started, rested)
  BY <1>2, ZenonT(60) DEF AgentState, SameSlot
<1> HIDE DEF rested
<1>4. started.generator[t] = "done" /\ rested.generator[t] = "done"
      /\ Slotted(started) /\ Slotted(rested)
  BY <1>1, <1>2, <1>3, SameSlotIsEnough DEF SameSlot
<1>5. ASSUME t \notin agent.settled
      PROVE  /\ before \in AgentState /\ Slotted(before)
             /\ before.generator[t] # "streaming"
  <2>1. started.activeForegroundTurnId = None
    <3>1. agent.run = t
      BY <1>0, <1>5 DEF Slotted
    <3>2. agent.activeForegroundTurnId = None
      BY <1>0, <3>1 DEF Slotted
    <3>3. gaveUp.activeForegroundTurnId = None
      BY <1>0, <3>2 DEF gaveUp, AgentState
    <3> QED BY <1>2, <3>3 DEF SameSlot
  <2>2. event \in AgentState /\ SameSlot(started, event)
    <3> DEFINE turn == ManagedTurn(started, None)
               closed == applyActiveTurnTerminal(started, turn)
               over == TurnEnded(closed, "failed", FALSE)
    <3>1. event \in AgentState
      BY <1>2, TerminalEventType
    <3>2. closed \in AgentState /\ SameSlot(started, closed)
      BY <1>2, TerminalType, StillSlotted
    <3>3. SameSlot(started, over)
      BY <3>2, StillSlotted, SameSlotTransitive
    <3>4. event \in {started, closed, over}
      <4>1. (turn # None /\ started.activeForegroundTurnId = turn) = FALSE
        BY <2>1
      <4>2. None \notin Tokens
        BY EntriesType
      <4> HIDE DEF turn
      <4> QED BY <4>1, <4>2 DEF TerminalEvent, event, closed, over, turn
    <3> HIDE DEF event, over, closed
    <3> QED BY <3>1, <3>2, <3>3, <3>4 DEF SameSlot
  <2> HIDE DEF event
  <2>3. Slotted(event) /\ event.generator[t] = "done"
    BY <1>4, <2>2, SameSlotIsEnough DEF SameSlot
  <2>4. /\ failed \in AgentState /\ Slotted(failed)
        /\ failed.generator[t] \in {"done", "starting"}
    BY <2>2, <2>3, FinalizeType, FinalizeSlotted
  <2> HIDE DEF failed
  <2> QED BY <1>3, <1>4, <2>4
<1>6. CASE t \in agent.settled
  <2>1. agent' = gaveUp \/ agent' = ForwarderFailed(gaveUp)
    BY <1>6 DEF StartFails, gaveUp
  <2> QED BY <1>1, <2>1, StillSlotted, SameSlotIsEnough
<1>7. CASE t \notin agent.settled
  <2>1. settled \in AgentState /\ Slotted(settled)
    <3> HIDE DEF before
    <3> QED BY <1>5, <1>7, SettleType, SettleSlotted
  <2>2. agent' = settled \/ agent' = ForwarderFailed(settled)
    BY <1>7 DEF StartFails, settled, before, failed, event, rested, started, gaveUp
  <2> HIDE DEF settled
  <2> QED BY <2>1, <2>2, StillSlotted, SameSlotIsEnough
<1> QED BY <1>6, <1>7

\* A turn becomes current only while its run owns the slot.
LEMMA StartResolvesSlotted ==
  ASSUME TypeOK, Slotted(agent), NEW t \in Tokens, StartResolves(t)
  PROVE  Slotted(agent')
<1> DEFINE events == agent.staged[t]
           accepted == [type |-> "started", turn |-> t]
           kept == IF accepted \in RangeOf(events) THEN Without(events, accepted) ELSE events
           current == [agent EXCEPT !.activeForegroundTurnId = t, !.activeTurnId = t,
                         !.pendingReplacement = FALSE, !.lifecycle = "running",
                         !.generator[t] = "streaming", !.staged[t] = <<>>]
           gaveUp == [agent EXCEPT !.generator[t] = "done"]
<1>0. agent \in AgentState /\ agent.generator[t] = "starting"
  BY AgentType DEF StartResolves
<1>1. CASE t \notin agent.settled
  <2>1. /\ current.run = agent.run /\ current.settled = agent.settled
        /\ current.activeForegroundTurnId = t /\ current.generator[t] = "streaming"
        /\ \A u \in Tokens \ {t} : current.generator[u] = agent.generator[u]
    BY <1>0 DEF AgentState
  <2>2. current \in AgentState
    <3>1. <<>> \in Seq(Event) /\ t \in Turns
      BY EmptySeq, EntriesType
    <3> QED BY <1>0, <3>1 DEF AgentState
  <2>3. agent' = EnqueueAll(current, kept)
    BY <1>1 DEF StartResolves
  <2> HIDE DEF current, kept
  <2>4. agent.run = t
    BY <1>0, <1>1 DEF Slotted
  <2>5. Slotted(current)
    BY <2>1, <2>4 DEF Slotted
  <2> QED BY <2>2, <2>3, <2>5, StillSlotted, SameSlotIsEnough
<1>2. CASE t \in agent.settled
  <2>1. /\ gaveUp.run = agent.run /\ gaveUp.settled = agent.settled
        /\ gaveUp.activeForegroundTurnId = agent.activeForegroundTurnId
        /\ gaveUp.generator[t] = "done"
        /\ \A u \in Tokens \ {t} : gaveUp.generator[u] = agent.generator[u]
    BY <1>0 DEF AgentState
  <2>2. gaveUp \in AgentState
    BY <1>0, GeneratorDoneType
  <2>3. agent' = gaveUp \/ agent' = ForwarderFailed(gaveUp)
    BY <1>2 DEF StartResolves
  <2> HIDE DEF gaveUp
  <2>4. agent.activeForegroundTurnId \in Tokens \cup {None}
    BY <1>0 DEF AgentState
  <2>5. agent.activeForegroundTurnId # t
    BY <1>0, EntriesType DEF Slotted
  <2>6. Slotted(gaveUp)
    BY <2>1, <2>4, <2>5 DEF Slotted
  <2> QED BY <2>2, <2>3, <2>6, StillSlotted, SameSlotIsEnough
<1> QED BY <1>1, <1>2

\* The run whose generator ends is settled in the same step, so that it is no
\* longer going on whether or not it still owned the slot.
LEMMA GeneratorEndsSlotted ==
  ASSUME TypeOK, Slotted(agent), NEW t \in Tokens, GeneratorEnds(t)
  PROVE  Slotted(agent')
<1> DEFINE ended == [agent EXCEPT !.generator[t] = "done"]
<1>0. agent \in AgentState /\ agent.generator[t] = "ending"
  BY AgentType DEF GeneratorEnds
<1>1. /\ ended.run = agent.run /\ ended.settled = agent.settled
      /\ ended.activeForegroundTurnId = agent.activeForegroundTurnId
      /\ ended.generator[t] = "done"
      /\ \A u \in Tokens \ {t} : ended.generator[u] = agent.generator[u]
  BY <1>0 DEF AgentState
<1>2. ended \in AgentState
  BY <1>0, GeneratorDoneType
<1>3. agent' = settleForegroundRun(ended, t)
  BY DEF GeneratorEnds
<1> HIDE DEF ended
<1>4. agent.activeForegroundTurnId \in Tokens \cup {None}
  BY <1>0 DEF AgentState
<1>5. agent.activeForegroundTurnId # t
  BY <1>0, EntriesType DEF Slotted
<1>6. Slotted(ended)
  BY <1>1, <1>4, <1>5 DEF Slotted
<1> QED BY <1>1, <1>2, <1>3, <1>6, SettleSlotted

LEMMA StepSlotted ==
  ASSUME TypeOK, NoRewind, "rewind" \notin Verbs, Slotted(agent), [Next]_vars
  PROVE  Slotted(agent')
<1>0. agent \in AgentState
  BY AgentType
<1>1. CASE UNCHANGED agent
  BY <1>1
<1>2. ASSUME NEW p \in Prompts, MakeCall(p) PROVE Slotted(agent')
  <2>1. CASE RunAgent(p)
    BY <2>1, StartOrRejectSlotted DEF RunAgent
  <2>2. ASSUME NEW verb \in {"queue", "interrupt", "steer"}, SendPrompt(p, verb)
        PROVE  Slotted(agent')
    BY <2>2, SendPromptSlotted DEF AllVerbs
  <2>3. CASE TryRunOutOfBand(p)
    <3>1. SameSlot(agent, agent')
      BY <1>0, <2>3 DEF TryRunOutOfBand, SameSlot, AgentState
    <3> QED BY <3>1, SameSlotIsEnough
  <2> QED BY <1>2, <2>1, <2>2, <2>3 DEF MakeCall, StopRun
<1>3. ASSUME NEW p \in Prompts, Mutation(p) PROVE Slotted(agent')
  BY <1>3, MutationSlotted
<1>4. ASSUME NEW p \in Prompts, Continuation(p) PROVE Slotted(agent')
  BY <1>4, ContinuationSlotted
<1>5. ASSUME NEW t \in Tokens, StartTurn(t) \/ GeneratorEnds(t) PROVE Slotted(agent')
  BY <1>5, StartFailsSlotted, StartResolvesSlotted, GeneratorEndsSlotted
     DEF StartTurn, TodoChoices
<1>6. CASE DeliverEvent
  <2> DEFINE event == Head(agent.tail)
             rest  == [agent EXCEPT !.tail = Tail(@)]
  <2>1. event \in Event /\ Tail(agent.tail) \in Seq(Event)
    BY <1>0, <1>6, HeadTailProperties DEF DeliverEvent, AgentState
  <2>2. rest \in AgentState /\ SameSlot(agent, rest) /\ event.turn \in Turns
    BY <1>0, <2>1 DEF AgentState, SameSlot, Event
  <2> HIDE DEF event, rest
  <2>3. \/ agent' = TurnStarted(rest, event.turn)
        \/ \E todo \in TodoChoices : agent' = TerminalEvent(rest, event.type, event.turn, todo)
    BY <1>6 DEF DeliverEvent, event, rest
  <2>4. Slotted(rest) /\ TodoChoices \subseteq TodoEntries \cup {None}
    BY <2>2, SameSlotIsEnough DEF TodoChoices
  <2>5. SameSlot(rest, TurnStarted(rest, event.turn))
    BY <2>2, StillSlotted
  <2> QED BY <2>2, <2>3, <2>4, <2>5, SameSlotIsEnough, TerminalEventSlotted
<1>7. CASE EditQueue
  <2>1. SameSlot(agent, agent')
    BY <1>0, <1>7 DEF EditQueue, ClearSteerQueue, RemoveSteerQueueEntry,
       ReorderSteerQueueEntry, SameSlot, AgentState
  <2> QED BY <2>1, SameSlotIsEnough
<1>8. CASE Provider
  <2>1. PICK type, t : Emit(type, t)
    BY <1>8 DEF Provider, ProviderBegins, ProviderReportsLate, ProviderEnds
  <2>2. SameSlot(agent, agent')
    BY <1>0, <2>1, StillSlotted DEF Emit
  <2> QED BY <2>2, SameSlotIsEnough
<1> QED BY <1>1, <1>2, <1>3, <1>4, <1>5, <1>6, <1>7, <1>8 DEF Next, vars

LEMMA SlotHolds ==
  ASSUME "rewind" \notin Verbs
  PROVE  Spec => [](TypeOK /\ NoRewind /\ Slotted(agent))
<1> DEFINE IInv == TypeOK /\ NoRewind /\ Slotted(agent)
<1>1. Init => IInv
  <2> SUFFICES ASSUME Init PROVE IInv
    OBVIOUS
  <2>1. NoRewind
    BY DEF Init, NoRewind, NoCall
  <2>2. Slotted(agent)
    BY DEF Init, Slotted
  <2> QED BY <2>1, <2>2, InitType
<1>2. IInv /\ [Next]_vars => IInv'
  <2> SUFFICES ASSUME IInv, [Next]_vars PROVE IInv'
    OBVIOUS
  <2>1. TypeOK' /\ NoRewind'
    BY StepType, StepNoRewind
  <2>2. PICK b : b = agent'
    OBVIOUS
  <2>3. Slotted(b)
    BY <2>2, StepSlotted
  <2>4. Slotted(agent)'
    BY <2>2, <2>3 DEF Slotted
  <2> QED BY <2>1, <2>4
<1> QED BY <1>1, <1>2, PTL DEF Spec

\* Where nobody rewinds, the turn that is current belongs to the run in the
\* slot, and no two runs are ever going on against one provider session: not
\* while batches, replacements and terminal events compete for the slot, and
\* not when a start resolves after its run was cancelled.
THEOREM CurrentTurnOwnsSlot ==
  ASSUME "rewind" \notin Verbs
  PROVE  Spec => []TurnOwnsSlot
BY SlotHolds, SlottedIsEnough, PTL

(***************************************************************************)
(* A replacement keeps the agent busy.  Each handler that puts the agent   *)
(* to rest looks at the flag first, except the end of an out-of-band run.  *)
(***************************************************************************)
Stays(a) == a.pendingReplacement => a.lifecycle # "idle"

SameBusy(a, b) == b.pendingReplacement = a.pendingReplacement /\ b.lifecycle = a.lifecycle

LEMMA SameBusyIsEnough ==
  ASSUME NEW a, NEW b, SameBusy(a, b), Stays(a) PROVE Stays(b)
BY DEF SameBusy, Stays

LEMMA SlotKeepsBusy ==
  ASSUME NEW a \in AgentState
  PROVE  /\ \A batch : SameBusy(a, DeliverBatch(a, batch))
         /\ \A batch : SameBusy(a, dispatchSteerQueueBatch(a, batch))
         /\ \A token \in Tokens : SameBusy(a, settleForegroundRun(a, token))
<1>1. \A b \in AgentState : \A batch : SameBusy(b, DeliverBatch(b, batch))
  BY DEF DeliverBatch, streamAgent, AgentState, SameBusy
<1>2. \A batch : SameBusy(a, dispatchSteerQueueBatch(a, batch))
  BY <1>1 DEF dispatchSteerQueueBatch, AgentState, SameBusy
<1>3. ASSUME NEW token \in Tokens PROVE SameBusy(a, settleForegroundRun(a, token))
  <2> DEFINE cleared == [a EXCEPT !.run = None, !.settled = @ \cup {token},
                                  !.waiting[token] = <<>>]
  <2>1. cleared \in AgentState /\ SameBusy(a, cleared)
    <3>1. <<>> \in Seq(Seq(Entries) \ {<<>>})
      BY EmptySeq
    <3> QED BY <3>1 DEF AgentState, SameBusy
  <2>2. \/ settleForegroundRun(a, token) = a \/ settleForegroundRun(a, token) = cleared
        \/ \E batch : settleForegroundRun(a, token) = DeliverBatch(cleared, batch)
    BY DEF settleForegroundRun
  <2> HIDE DEF cleared
  <2> QED BY <1>1, <2>1, <2>2 DEF SameBusy
<1> QED BY <1>1, <1>2, <1>3

LEMMA QuietKeepsBusy ==
  ASSUME NEW a \in AgentState
  PROVE  /\ \A turn : SameBusy(a, applyActiveTurnTerminal(a, turn))
         /\ \A turn : SameBusy(a, rememberFinalizedTurn(a, turn))
         /\ \A todo : SameBusy(a, maybeEnqueueTodoReconcile(a, todo))
         /\ \A event : SameBusy(a, enqueueSessionEvent(a, event))
         /\ \A events : SameBusy(a, EnqueueAll(a, events))
<1>1. \A turn : SameBusy(a, applyActiveTurnTerminal(a, turn))
  BY DEF applyActiveTurnTerminal, AgentState, SameBusy
<1>2. \A turn : SameBusy(a, rememberFinalizedTurn(a, turn))
  BY DEF rememberFinalizedTurn, AgentState, SameBusy
<1>3. \A todo : SameBusy(a, maybeEnqueueTodoReconcile(a, todo))
  BY DEF maybeEnqueueTodoReconcile, AgentState, SameBusy
<1>4. \A event : SameBusy(a, enqueueSessionEvent(a, event))
  BY DEF enqueueSessionEvent, AgentState, SameBusy
<1>5. \A events : SameBusy(a, EnqueueAll(a, events))
  BY DEF EnqueueAll, AgentState, SameBusy
<1> QED BY <1>1, <1>2, <1>3, <1>4, <1>5

\* An agent whose replacement is on its way rests only when it failed.
LEMMA RestOrDrainStays ==
  ASSUME NEW a \in AgentState, NEW held \in BOOLEAN,
         a.pendingReplacement => held \/ a.lastError
  PROVE  Stays(RestOrDrain(a, held))
<1>1. CASE held \/ a.lastError \/ a.steerQueueHeld \/ a.steerQueue = <<>>
  BY <1>1 DEF RestOrDrain, Stays, AgentState
<1>2. CASE ~(held \/ a.lastError \/ a.steerQueueHeld \/ a.steerQueue = <<>>)
  <2> DEFINE batch == takeNextSteerQueueBatch(a.steerQueue)
             taken == [a EXCEPT !.steerQueue = batch.rest,
                                !.pendingSteerDrain = TRUE, !.lifecycle = "running"]
  <2>1. batch.rest \in Seq(Entries)
    BY <1>2, BatchSplits DEF AgentState
  <2>2. RestOrDrain(a, held) = dispatchSteerQueueBatch(taken, batch.entries)
    BY <1>2 DEF RestOrDrain
  <2> HIDE DEF batch
  <2>3. taken \in AgentState /\ Stays(taken)
    BY <2>1 DEF AgentState, Stays
  <2> HIDE DEF taken
  <2> QED BY <2>2, <2>3, SlotKeepsBusy, SameBusyIsEnough
<1> QED BY <1>1, <1>2

\* Whatever the agent was before: finalizing a turn keeps a replaced agent busy.
LEMMA FinalizeStays ==
  ASSUME NEW a \in AgentState, NEW turn \in Turns \cup {None},
         NEW todo \in TodoEntries \cup {None}
  PROVE  Stays(finalizeForegroundTurn(a, turn, todo))
<1> DEFINE remembered == rememberFinalizedTurn(a, turn)
           noTurn == [remembered EXCEPT !.activeForegroundTurnId = None]
           closed == applyActiveTurnTerminal(noTurn, turn)
           parked == maybeEnqueueTodoReconcile(closed, todo)
           held   == a.pendingReplacement /\ ~a.lastError
           Flags(b) == /\ b.pendingReplacement = a.pendingReplacement
                       /\ b.lastError = a.lastError
<1>1. remembered \in AgentState /\ Flags(remembered)
  BY RememberType, ZenonT(60) DEF rememberFinalizedTurn, AgentState
<1> HIDE DEF remembered
<1>2. noTurn \in AgentState /\ Flags(noTurn)
  BY <1>1 DEF AgentState
<1> HIDE DEF noTurn
<1>3. closed \in AgentState /\ Flags(closed)
  <2> DEFINE cleared == [noTurn EXCEPT !.activeTurnId = None]
  <2>1. closed \in {noTurn, cleared}
    BY DEF applyActiveTurnTerminal
  <2>2. Flags(cleared)
    BY <1>2 DEF AgentState
  <2>3. closed \in AgentState
    BY <1>2, TerminalType
  <2> HIDE DEF cleared, closed
  <2> QED BY <1>2, <2>1, <2>2, <2>3
<1> HIDE DEF closed
<1>4. parked \in AgentState /\ Flags(parked)
  <2> DEFINE queued == [closed EXCEPT !.steerQueue = <<todo>>, !.reconciled = @ \cup {todo}]
  <2>1. parked \in {closed, queued}
    BY DEF maybeEnqueueTodoReconcile
  <2>2. Flags(queued)
    BY <1>3 DEF AgentState
  <2>3. parked \in AgentState
    BY <1>3, TodoType
  <2> HIDE DEF queued, parked
  <2> QED BY <1>3, <2>1, <2>2, <2>3
<1> HIDE DEF parked
<1>5. held \in BOOLEAN /\ (parked.pendingReplacement => held \/ parked.lastError)
  BY <1>4 DEF AgentState
<1>6. finalizeForegroundTurn(a, turn, todo) = RestOrDrain(parked, held)
  BY DEF finalizeForegroundTurn, parked, closed, noTurn, remembered
<1> HIDE DEF held
<1> QED BY <1>4, <1>5, <1>6, RestOrDrainStays

LEMMA TerminalEventStays ==
  ASSUME NEW a \in AgentState, Stays(a), NEW kind,
         NEW eventTurn \in Turns \cup {None}, NEW todo \in TodoEntries \cup {None}
  PROVE  Stays(TerminalEvent(a, kind, eventTurn, todo))
<1> DEFINE turn == ManagedTurn(a, eventTurn)
           isForeground == turn # None /\ a.activeForegroundTurnId = turn
           closed == applyActiveTurnTerminal(a, turn)
           ended  == IF TerminalDisposition(a, turn) = "stale" THEN closed
                     ELSE TurnEnded(closed, kind, isForeground)
           final  == IF isForeground THEN finalizeForegroundTurn(ended, turn, todo)
                     ELSE ended
           marked == [final EXCEPT !.generator[eventTurn] = "ending"]
<1>0. TerminalEvent(a, kind, eventTurn, todo) \in {a, final, marked}
  BY DEF TerminalEvent, marked, final, ended, closed, isForeground, turn
<1>1. turn \in Turns \cup {None} /\ isForeground \in BOOLEAN
  BY EntriesType DEF ManagedTurn, AgentState
<1> HIDE DEF turn, isForeground
<1>2. closed \in AgentState /\ SameBusy(a, closed)
  BY TerminalType, QuietKeepsBusy
<1> HIDE DEF closed
<1>3. ended \in AgentState /\ Stays(ended)
  <2>1. TurnEnded(closed, kind, isForeground) \in AgentState
    BY <1>1, <1>2, TurnEndedType
  <2>2. Stays(closed)
    BY <1>2, SameBusyIsEnough
  <2>3. Stays(TurnEnded(closed, kind, isForeground))
    BY <1>1, <1>2, <2>2 DEF TurnEnded, AgentState, Stays
  <2> QED BY <1>2, <2>1, <2>2, <2>3
<1> HIDE DEF ended
<1>4. final \in AgentState /\ Stays(final)
  BY <1>1, <1>3, FinalizeType, FinalizeStays
<1> HIDE DEF final
<1>5. Stays(marked)
  BY <1>4 DEF Stays, AgentState
<1> HIDE DEF marked
<1> QED BY <1>0, <1>4, <1>5

\* No call is an out-of-band command.
NoOutOfBand == \A p \in Prompts : call[p].pc # "oob"

LEMMA CalledNoOutOfBand ==
  ASSUME TypeOK, NoOutOfBand, NEW p \in Prompts, NEW verb, NEW pc, pc # "oob", NEW turn,
         Called(p, verb, pc, turn)
  PROVE  NoOutOfBand'
BY DEF Called, NoOutOfBand, TypeOK

LEMMA StageNoOutOfBand ==
  ASSUME TypeOK, NoOutOfBand, NEW p \in Prompts, NEW stage, stage # "oob",
         call' = [call EXCEPT ![p].pc = stage]
  PROVE  NoOutOfBand'
<1>1. \A q \in Prompts : call[q] \in CallState
  BY DEF TypeOK
<1>2. call'[p].pc = stage /\ \A q \in Prompts \ {p} : call'[q] = call[q]
  BY <1>1 DEF TypeOK, CallState
<1> QED BY <1>2 DEF NoOutOfBand

LEMMA StepNoOutOfBand ==
  ASSUME TypeOK, NoOutOfBand, "oob" \notin Verbs, [Next]_vars
  PROVE  NoOutOfBand'
<1>1. CASE UNCHANGED call
  BY <1>1 DEF NoOutOfBand
<1>2. ASSUME NEW p \in Prompts, MakeCall(p) PROVE NoOutOfBand'
  <2>1. \E verb, pc, turn : pc # "oob" /\ Called(p, verb, pc, turn)
    BY <1>2 DEF MakeCall, RunAgent, SendPrompt, StopRun, Rewind,
       EnqueueSteerMessage, SteerTurn, StartOrReplace, StartOrReject, CancelToReplace
  <2> QED BY <2>1, CalledNoOutOfBand
<1>3. ASSUME NEW p \in Prompts, Mutation(p) PROVE NoOutOfBand'
  <2>1. CASE \E refused : Cancelled(p, refused)
    BY <2>1, StageNoOutOfBand DEF Cancelled
  <2>2. CASE CancelBegins(p) /\ ~\E refused : Cancelled(p, refused)
    <3>1. call' = [call EXCEPT ![p].pc = "interrupting",
                               ![p].turn = agent.activeForegroundTurnId, ![p].run = agent.run]
      BY <2>2 DEF CancelBegins
    <3>2. call'[p].pc = "interrupting" /\ \A q \in Prompts \ {p} : call'[q] = call[q]
      BY <3>1 DEF TypeOK, CallState
    <3> QED BY <3>2 DEF NoOutOfBand
  <2>3. CASE CancelSettles(p) /\ ~\E refused : Cancelled(p, refused)
    <3>1. call' = [call EXCEPT ![p].pc = "draining", ![p].run = agent'.run]
      BY <2>3 DEF CancelSettles, CapturedRun
    <3>2. call'[p].pc = "draining" /\ \A q \in Prompts \ {p} : call'[q] = call[q]
      BY <3>1 DEF TypeOK, CallState
    <3> QED BY <3>2 DEF NoOutOfBand
  <2>4. CASE SteerReturns(p)
    <3>1. CASE SteerUnavailable(p, call[p].turn, Tail(mutations))
      <4>1. \E verb, pc, turn : pc # "oob" /\ Called(p, verb, pc, turn)
        BY <3>1 DEF SteerUnavailable, StartOrReplace, StartOrReject, CancelToReplace
      <4> QED BY <4>1, CalledNoOutOfBand
    <3>2. CASE ~SteerUnavailable(p, call[p].turn, Tail(mutations))
      BY <2>4, <3>2, StageNoOutOfBand DEF SteerReturns
    <3> QED BY <3>1, <3>2
  <2>5. CASE InterruptAcknowledged(p) \/ InterruptFailed(p) \/ SteerBegins(p) \/ SteerAnswered(p)
    <3>1. (\E refused : Cancelled(p, refused))
            \/ \E stage \in Stages \ {"oob"} : call' = [call EXCEPT ![p].pc = stage]
      BY <2>5 DEF InterruptAcknowledged, InterruptFailed, SteerBegins, SteerAnswered, Stages
    <3> QED BY <2>1, <3>1, StageNoOutOfBand
  <2> QED BY <1>3, <2>1, <2>2, <2>3, <2>4, <2>5 DEF Mutation, CancelDrained
<1>4. ASSUME NEW p \in Prompts, Continuation(p) PROVE NoOutOfBand'
  <2>1. \E stage \in Stages \ {"oob"} : call' = [call EXCEPT ![p].pc = stage]
    BY <1>4 DEF Continuation, ReplacementStarts, RewindLocks, RewindEnds,
       FinalizeOutOfBandRun, Stages
  <2> QED BY <2>1, StageNoOutOfBand
<1>5. CASE EditQueue
  <2>1. CASE ClearSteerQueue
    <3>1. \A p \in Prompts : call'[p].pc \in {call[p].pc, "removed"}
      BY <2>1 DEF ClearSteerQueue, TypeOK, CallState
    <3> QED BY <3>1 DEF NoOutOfBand
  <2>2. CASE \E e \in Entries : RemoveSteerQueueEntry(e)
    BY <2>2, <1>1, StageNoOutOfBand DEF RemoveSteerQueueEntry
  <2>3. CASE \E e \in Entries, i \in 1 .. Cardinality(Entries) : ReorderSteerQueueEntry(e, i)
    BY <2>3, <1>1 DEF ReorderSteerQueueEntry
  <2> QED BY <1>5, <2>1, <2>2, <2>3 DEF EditQueue
<1>6. CASE Provider
  BY <1>1, <1>6 DEF Provider, ProviderBegins, ProviderReportsLate, ProviderEnds
<1>7. ASSUME NEW t \in Tokens, StartTurn(t) \/ GeneratorEnds(t) PROVE NoOutOfBand'
  BY <1>1, <1>7 DEF StartTurn, StartResolves, StartFails, GeneratorEnds
<1> QED BY <1>1, <1>2, <1>3, <1>4, <1>5, <1>6, <1>7 DEF Next, DeliverEvent, vars

LEMMA StartOrReplaceStays ==
  ASSUME TypeOK, Stays(agent), NEW p \in Prompts, NEW queued,
         \/ StartOrReplace(p, queued)
         \/ \E verb : StartOrReject(p, verb)
         \/ \E verb : CancelToReplace(p, verb, queued)
  PROVE  Stays(agent')
<1>1. ASSUME NEW verb, StartOrReject(p, verb) PROVE Stays(agent')
  <2> DEFINE batch == <<p>>
             started == streamAgent(agent, p, batch)
  <2>1. agent' = agent \/ agent' = started
    BY <1>1 DEF StartOrReject
  <2> HIDE DEF batch
  <2>2. Stays(started)
    BY AgentType DEF streamAgent, Stays, AgentState
  <2> HIDE DEF started
  <2> QED BY <2>1, <2>2
<1>2. ASSUME NEW verb, CancelToReplace(p, verb, queued) PROVE Stays(agent')
  BY <1>2, AgentType DEF CancelToReplace, Stays, AgentState
<1> QED BY <1>1, <1>2 DEF StartOrReplace

LEMMA MakeCallStays ==
  ASSUME TypeOK, Stays(agent), NEW p \in Prompts, MakeCall(p)
  PROVE  Stays(agent')
<1>1. CASE RunAgent(p)
  BY <1>1, StartOrReplaceStays DEF RunAgent
<1>2. CASE TryRunOutOfBand(p) \/ StopRun(p) \/ Rewind(p)
  BY <1>2, AgentType, ZenonT(60) DEF TryRunOutOfBand, StopRun, Rewind, LockSlot, Stays, AgentState
<1>3. ASSUME NEW verb, EnqueueSteerMessage(p, verb) PROVE Stays(agent')
  <2> DEFINE parked == [agent EXCEPT !.steerQueue = Append(@, p)]
             batch  == takeNextSteerQueueBatch(parked.steerQueue)
             taken  == [parked EXCEPT !.steerQueue = batch.rest, !.pendingSteerDrain = TRUE,
                                      !.lifecycle = "running"]
  <2>1. /\ agent.steerQueue \in Seq(Entries) /\ p \in Entries
        /\ parked.steerQueue = Append(agent.steerQueue, p)
    BY AgentType, PromptIsToken DEF AgentState
  <2>2. /\ parked.steerQueue \in Seq(Entries) /\ Len(agent.steerQueue) \in Nat
        /\ Len(parked.steerQueue) = Len(agent.steerQueue) + 1
    BY <2>1, AppendProperties, LenProperties
  <2>3. parked.steerQueue # <<>>
    BY <2>2, EmptySeq
  <2>4. parked \in AgentState /\ SameBusy(agent, parked)
    BY <2>1, <2>2, AgentType DEF AgentState, SameBusy
  <2>5. agent' = dispatchSteerQueueBatch(taken, batch.entries) \/ agent' = parked
    BY <1>3 DEF EnqueueSteerMessage
  <2> HIDE DEF parked
  <2>6. batch.rest \in Seq(Entries)
    BY <2>2, <2>3, BatchSplits
  <2> HIDE DEF batch
  <2>7. taken \in AgentState /\ Stays(taken)
    BY <2>4, <2>6 DEF AgentState, Stays
  <2> HIDE DEF taken
  <2> QED BY <2>4, <2>5, <2>7, SlotKeepsBusy, SameBusyIsEnough
<1>4. ASSUME NEW verb, SendPrompt(p, verb) PROVE Stays(agent')
  BY <1>3, <1>4, StartOrReplaceStays DEF SendPrompt, SteerTurn
<1> QED BY <1>1, <1>2, <1>4 DEF MakeCall

LEMMA MutationStays ==
  ASSUME TypeOK, Stays(agent), NEW p \in Prompts, Mutation(p)
  PROVE  Stays(agent')
<1>0. agent \in AgentState
  BY AgentType
<1>1. CASE CancelBegins(p) \/ InterruptFailed(p) \/ CancelDrained(p) \/ SteerBegins(p)
  BY <1>0, <1>1, ZenonT(60) DEF CancelBegins, InterruptFailed, CancelDrained, SteerBegins,
     Stays, AgentState
<1>2. CASE InterruptAcknowledged(p)
  <2>1. agent' = agent \/ \E event : agent' = enqueueSessionEvent(agent, event)
    BY <1>2 DEF InterruptAcknowledged
  <2> QED BY <1>0, <2>1, QuietKeepsBusy, SameBusyIsEnough
<1>3. CASE CancelSettles(p)
  <2>1. call[p].turn \in Turns \cup {None} /\ call[p].run \in Tokens \cup {None}
    BY DEF TypeOK, CallState
  <2>2. ASSUME NEW todo \in TodoChoices,
               agent' = TerminalEvent(agent, "canceled", call[p].turn, todo)
        PROVE  Stays(agent')
    BY <1>0, <2>1, <2>2, TerminalEventStays DEF TodoChoices
  <2>3. CASE call[p].run # None /\ agent' = settleForegroundRun(agent, call[p].run)
    BY <1>0, <2>1, <2>3, SlotKeepsBusy, SameBusyIsEnough
  <2> QED BY <1>3, <2>2, <2>3 DEF CancelSettles, CapturedRun
<1>4. CASE SteerAnswered(p)
  <2> DEFINE opened == [agent EXCEPT !.barrier = FALSE, !.barred = <<>>]
  <2>1. <<>> \in Seq(Event)
    BY EmptySeq
  <2>2. opened \in AgentState /\ SameBusy(agent, opened)
    BY <1>0, <2>1 DEF AgentState, SameBusy
  <2>3. agent' = EnqueueAll(opened, agent.barred)
    BY <1>4 DEF SteerAnswered
  <2> HIDE DEF opened
  <2> QED BY <2>2, <2>3, QuietKeepsBusy, SameBusyIsEnough
<1>5. CASE SteerReturns(p)
  <2>1. CASE SteerUnavailable(p, call[p].turn, Tail(mutations))
    BY <2>1, StartOrReplaceStays DEF SteerUnavailable
  <2> QED BY <1>5, <2>1 DEF SteerReturns
<1> QED BY <1>1, <1>2, <1>3, <1>4, <1>5 DEF Mutation

LEMMA ContinuationStays ==
  ASSUME TypeOK, NoOutOfBand, Stays(agent), NEW p \in Prompts, Continuation(p)
  PROVE  Stays(agent')
<1>0. agent \in AgentState
  BY AgentType
<1>1. CASE ReplacementStarts(p)
  BY <1>0, <1>1, ZenonT(60) DEF ReplacementStarts, ForwarderFailed, streamAgent, Stays, AgentState
<1>2. CASE RewindLocks(p)
  BY <1>0, <1>2 DEF RewindLocks, LockSlot, Stays, AgentState
<1>3. CASE RewindEnds(p)
  <2> DEFINE settled == settleForegroundRun(agent, p)
  <2>1. settled \in AgentState /\ Stays(settled)
    BY <1>0, PromptIsToken, SettleType, SlotKeepsBusy, SameBusyIsEnough
  <2>2. agent' = [settled EXCEPT !.generator[p] = "done"]
    BY <1>3 DEF RewindEnds
  <2> HIDE DEF settled
  <2> QED BY <2>1, <2>2 DEF Stays, AgentState
<1>4. CASE FinalizeOutOfBandRun(p)
  BY <1>4 DEF FinalizeOutOfBandRun, NoOutOfBand
<1> QED BY <1>1, <1>2, <1>3, <1>4 DEF Continuation

LEMMA StartFailsStays ==
  ASSUME TypeOK, Stays(agent), NEW t \in Tokens, NEW stale \in BOOLEAN,
         NEW todo \in TodoEntries \cup {None}, StartFails(t, stale, todo)
  PROVE  Stays(agent')
<1> DEFINE gaveUp  == [agent EXCEPT !.generator[t] = "done"]
           started == [gaveUp EXCEPT !.pendingReplacement = FALSE]
           rested  == IF agent.activeForegroundTurnId = None
                      THEN [started EXCEPT !.lifecycle = "idle"] ELSE started
           event   == TerminalEvent(started, "failed", None, None)
           failed  == finalizeForegroundTurn(event, None, todo)
           before  == IF stale THEN rested ELSE failed
           settled == settleForegroundRun(before, t)
           ended   == IF t \in agent.settled THEN gaveUp ELSE settled
<1>1. gaveUp \in AgentState /\ Stays(gaveUp)
  BY AgentType, GeneratorDoneType, ZenonT(60) DEF Stays, AgentState
<1> HIDE DEF gaveUp
<1>2. started \in AgentState
  BY <1>1 DEF AgentState
<1>3. rested \in AgentState /\ Stays(rested)
  BY <1>1, ZenonT(60) DEF Stays, AgentState
<1> HIDE DEF rested, started
<1>4. event \in AgentState
  BY <1>2, TerminalEventType
<1> HIDE DEF event
<1>5. failed \in AgentState /\ Stays(failed)
  BY <1>4, FinalizeType, FinalizeStays
<1> HIDE DEF failed
<1>6. before \in AgentState /\ Stays(before)
  BY <1>3, <1>5
<1> HIDE DEF before
<1>7. settled \in AgentState /\ Stays(settled)
  BY <1>6, SettleType, SlotKeepsBusy, SameBusyIsEnough
<1> HIDE DEF settled
<1>8. ended \in AgentState /\ Stays(ended)
  BY <1>1, <1>7
<1> HIDE DEF ended
<1>9. agent' = ended \/ agent' = ForwarderFailed(ended)
  BY DEF StartFails, ended, settled, before, failed, event, rested, started, gaveUp
<1>10. Stays(ForwarderFailed(ended))
  BY <1>8 DEF ForwarderFailed, Stays, AgentState
<1> QED BY <1>8, <1>9, <1>10

LEMMA StartResolvesStays ==
  ASSUME TypeOK, Stays(agent), NEW t \in Tokens, StartResolves(t)
  PROVE  Stays(agent')
<1> DEFINE events == agent.staged[t]
           accepted == [type |-> "started", turn |-> t]
           kept == IF accepted \in RangeOf(events) THEN Without(events, accepted) ELSE events
           current == [agent EXCEPT !.activeForegroundTurnId = t, !.activeTurnId = t,
                         !.pendingReplacement = FALSE, !.lifecycle = "running",
                         !.generator[t] = "streaming", !.staged[t] = <<>>]
           gaveUp == [agent EXCEPT !.generator[t] = "done"]
<1>1. current \in AgentState /\ Stays(current)
  <2>1. <<>> \in Seq(Event) /\ t \in Turns
    BY EmptySeq, EntriesType
  <2> QED BY <2>1, AgentType DEF AgentState, Stays
<1>2. gaveUp \in AgentState /\ Stays(gaveUp)
  BY AgentType, GeneratorDoneType, ZenonT(60) DEF Stays, AgentState
<1> HIDE DEF kept, current, gaveUp
<1>3. \/ agent' = EnqueueAll(current, kept) \/ agent' = gaveUp
      \/ agent' = ForwarderFailed(gaveUp)
  BY DEF StartResolves, kept, current, gaveUp, events
<1>4. Stays(EnqueueAll(current, kept))
  BY <1>1, QuietKeepsBusy, SameBusyIsEnough
<1>5. Stays(ForwarderFailed(gaveUp))
  BY <1>2 DEF ForwarderFailed, Stays, AgentState
<1> QED BY <1>2, <1>3, <1>4, <1>5

LEMMA StepStays ==
  ASSUME TypeOK, NoOutOfBand, Stays(agent), [Next]_vars
  PROVE  Stays(agent')
<1>0. agent \in AgentState
  BY AgentType
<1>1. CASE UNCHANGED agent
  BY <1>1
<1>2. ASSUME NEW p \in Prompts, MakeCall(p) \/ Mutation(p) \/ Continuation(p)
      PROVE  Stays(agent')
  BY <1>2, MakeCallStays, MutationStays, ContinuationStays
<1>3. ASSUME NEW t \in Tokens, StartTurn(t) PROVE Stays(agent')
  BY <1>3, StartFailsStays, StartResolvesStays DEF StartTurn, TodoChoices
<1>4. ASSUME NEW t \in Tokens, GeneratorEnds(t) PROVE Stays(agent')
  <2> DEFINE ended == [agent EXCEPT !.generator[t] = "done"]
  <2>1. ended \in AgentState /\ Stays(ended)
    BY <1>0, GeneratorDoneType, ZenonT(60) DEF Stays, AgentState
  <2>2. agent' = settleForegroundRun(ended, t)
    BY <1>4 DEF GeneratorEnds
  <2> HIDE DEF ended
  <2> QED BY <2>1, <2>2, SlotKeepsBusy, SameBusyIsEnough
<1>5. CASE DeliverEvent
  <2> DEFINE event == Head(agent.tail)
             rest  == [agent EXCEPT !.tail = Tail(@)]
  <2>1. event \in Event /\ Tail(agent.tail) \in Seq(Event)
    BY <1>0, <1>5, HeadTailProperties DEF DeliverEvent, AgentState
  <2>2. rest \in AgentState /\ Stays(rest) /\ event.turn \in Turns
    BY <1>0, <2>1 DEF AgentState, Stays, Event
  <2> HIDE DEF event, rest
  <2>3. \/ agent' = TurnStarted(rest, event.turn)
        \/ \E todo \in TodoChoices : agent' = TerminalEvent(rest, event.type, event.turn, todo)
    BY <1>5 DEF DeliverEvent, event, rest
  <2>4. Stays(TurnStarted(rest, event.turn))
    BY <2>2 DEF TurnStarted, Stays, AgentState
  <2> QED BY <2>2, <2>3, <2>4, TerminalEventStays DEF TodoChoices
<1>6. CASE EditQueue
  <2>1. SameBusy(agent, agent')
    BY <1>0, <1>6 DEF EditQueue, ClearSteerQueue, RemoveSteerQueueEntry,
       ReorderSteerQueueEntry, SameBusy, AgentState
  <2> QED BY <2>1, SameBusyIsEnough
<1>7. CASE Provider
  <2>1. PICK type, t : Emit(type, t)
    BY <1>7 DEF Provider, ProviderBegins, ProviderReportsLate, ProviderEnds
  <2> QED BY <1>0, <2>1, QuietKeepsBusy, SameBusyIsEnough DEF Emit
<1> QED BY <1>1, <1>2, <1>3, <1>4, <1>5, <1>6, <1>7 DEF Next, vars

\* Unless out-of-band commands end beside it, a replacement that is on its way
\* keeps the agent from being reported idle, whatever ends, fails or drains
\* first, in any number of replacements.
THEOREM ReplacedStaysBusy ==
  ASSUME "oob" \notin Verbs
  PROVE  Spec => []ReplacementBusy
<1> DEFINE IInv == TypeOK /\ NoOutOfBand /\ Stays(agent)
<1>1. Init => IInv
  <2> SUFFICES ASSUME Init PROVE IInv
    OBVIOUS
  <2>1. NoOutOfBand /\ Stays(agent)
    BY DEF Init, NoOutOfBand, NoCall, Stays
  <2> QED BY <2>1, InitType
<1>2. IInv /\ [Next]_vars => IInv'
  <2> SUFFICES ASSUME IInv, [Next]_vars PROVE IInv'
    OBVIOUS
  <2>1. TypeOK' /\ NoOutOfBand'
    BY StepType, StepNoOutOfBand
  <2>2. Stays(agent')
    BY StepStays
  <2> QED BY <2>1, <2>2 DEF Stays
<1>3. IInv => ReplacementBusy
  BY DEF Stays, ReplacementBusy
<1> QED BY <1>1, <1>2, <1>3, PTL DEF Spec

(***************************************************************************)
(* First in, first out.  The argument: where nobody rewinds, batches wait  *)
(* for the run in the slot alone, so what is queued stays behind them; a   *)
(* claim takes a prefix of the queue; a settle hands out the batch that    *)
(* waited longest; and a run's prompt, once given, is not replaced.        *)
(***************************************************************************)
Delivered(a, m) == \E t \in Tokens : m \in Given(a, t)

\* Ahead, of any state of the manager's record.
AheadIn(a, m, n) ==
  \/ \E i, j \in DOMAIN a.steerQueue :
       i < j /\ a.steerQueue[i] = m /\ a.steerQueue[j] = n
  \/ n \in InQueue(a) /\ \E t \in Tokens : m \in Waits(a, t)
  \/ \E t \in Tokens : \E i, j \in DOMAIN a.waiting[t] :
       i < j /\ m \in RangeOf(a.waiting[t][i]) /\ n \in RangeOf(a.waiting[t][j])

Together(a, m, n) ==
  \E t \in Tokens : \E i \in DOMAIN a.waiting[t] :
    m \in RangeOf(a.waiting[t][i]) /\ n \in RangeOf(a.waiting[t][i])

\* The prompt of a run that has one names the run.
HeadsOwn(a) == \A t \in Tokens : a.prompt[t] # <<>> => t \in Given(a, t)

\* What becomes of n behind m in one step: it stays behind m or beside it,
\* m has its turn, or n is gone, and no reconcile prompt of that id comes back.
InOrder(a, m, n) ==
  \/ AheadIn(a, m, n) \/ Together(a, m, n) \/ Delivered(a, m)
  \/ ~Placed(a, n) /\ (n \in TodoEntries => n \in a.reconciled)

\* The two, of any state: what the step has to show about the state it reaches.
NotPast(a, m, n) == Delivered(a, n) => Delivered(a, m)

LEMMA AheadIs ==
  ASSUME NEW m \in Entries, NEW n \in Entries
  PROVE  (Ahead(m, n) <=> AheadIn(agent, m, n)) /\ (IsDelivered(m) <=> Delivered(agent, m))
<1>1. IsQueued(n) <=> n \in InQueue(agent)
  BY DEF IsQueued, InQueue
<1>2. IsHandedOff(m) <=> \E t \in Tokens : m \in Waits(agent, t)
  BY DEF IsHandedOff, IsIn, Waits, Members
<1>3. IsDelivered(m) <=> Delivered(agent, m)
  BY DEF IsDelivered, Delivered, Given
<1> QED BY <1>1, <1>2, <1>3 DEF Ahead, AheadIn

\* A batch that waits holds what waits.
LEMMA BatchWaits ==
  ASSUME NEW a \in AgentState, NEW t \in Tokens, NEW i \in DOMAIN a.waiting[t]
  PROVE  /\ RangeOf(a.waiting[t][i]) \subseteq Waits(a, t) /\ Waits(a, t) \subseteq Entries
         /\ DOMAIN a.waiting[t] = 1 .. Len(a.waiting[t]) /\ Len(a.waiting[t]) \in Nat
<1>1. a.waiting[t] \in Seq(Seq(Entries) \ {<<>>})
  BY DEF AgentState
<1>2. DOMAIN a.waiting[t] = 1 .. Len(a.waiting[t]) /\ Len(a.waiting[t]) \in Nat
  BY <1>1, LenProperties
<1>3. a.waiting[t][i] \in Seq(Entries)
  BY <1>1, <1>2, ElementOfSeq
<1> QED BY <1>2, <1>3, RangeType DEF Waits, Members

LEMMA InOrderNotPast ==
  ASSUME NEW a \in AgentState, Lone(a), NEW m \in Entries, NEW n \in Entries,
         InOrder(a, m, n)
  PROVE  NotPast(a, m, n)
<1> SUFFICES ASSUME Delivered(a, n), ~Delivered(a, m) PROVE FALSE
  BY DEF NotPast
<1>1. Placed(a, n)
  BY DEF Delivered, Placed
<1>2. n \notin InQueue(a) /\ \A t \in Tokens : n \notin Waits(a, t)
  BY DEF Delivered, Lone
<1>3. \A t \in Tokens : \A i \in DOMAIN a.waiting[t] : n \notin RangeOf(a.waiting[t][i])
  BY <1>2, BatchWaits
<1>4. ~AheadIn(a, m, n)
  BY <1>2, <1>3 DEF AheadIn, InQueue, RangeOf
<1>5. ~Together(a, m, n)
  BY <1>3 DEF Together
<1> QED BY <1>1, <1>4, <1>5 DEF InOrder

LEMMA SameKeepsOrder ==
  ASSUME NEW a, NEW b, SamePlaces(a, b)
  PROVE  /\ HeadsOwn(a) => HeadsOwn(b)
         /\ \A m, n : InOrder(a, m, n) => InOrder(b, m, n)
         /\ \A m, n : NotPast(a, m, n) => NotPast(b, m, n)
<1>1. /\ InQueue(b) = InQueue(a) /\ b.reconciled = a.reconciled /\ b.prompt = a.prompt
      /\ b.steerQueue = a.steerQueue /\ b.waiting = a.waiting
      /\ \A t : Waits(b, t) = Waits(a, t) /\ Given(b, t) = Given(a, t)
  BY DEF SamePlaces, InQueue, Waits, Given
<1>2. /\ \A m : Delivered(b, m) <=> Delivered(a, m)
      /\ \A m : Placed(b, m) <=> Placed(a, m)
  BY <1>1 DEF Delivered, Placed
<1>3. \A m, n : (AheadIn(b, m, n) <=> AheadIn(a, m, n)) /\ (Together(b, m, n) <=> Together(a, m, n))
  BY <1>1 DEF AheadIn, Together
<1> QED BY <1>1, <1>2, <1>3 DEF HeadsOwn, InOrder, NotPast

\* A batch that becomes a prompt: it names its run, and replaces no other.
LEMMA StreamGives ==
  ASSUME NEW a \in AgentState, HeadsOwn(a), NEW token \in Tokens,
         NEW batch \in Seq(Entries), token \in RangeOf(batch), ~Placed(a, token),
         NEW b, b = streamAgent(a, token, batch)
  PROVE  /\ HeadsOwn(b)
         /\ \A m : Delivered(b, m) <=> Delivered(a, m) \/ m \in RangeOf(batch)
<1>1. /\ b.prompt[token] = batch
      /\ \A t \in Tokens \ {token} : b.prompt[t] = a.prompt[t]
  BY DEF streamAgent, AgentState
<1>2. a.prompt[token] = <<>>
  BY DEF HeadsOwn, Placed
<1>3. /\ Given(a, token) = {} /\ Given(b, token) = RangeOf(batch)
      /\ \A t \in Tokens \ {token} : Given(b, t) = Given(a, t)
  BY <1>1, <1>2, OnceEmpty DEF Given
<1>4. HeadsOwn(b)
  BY <1>1, <1>3 DEF HeadsOwn
<1>5. \A m : Delivered(b, m) <=> Delivered(a, m) \/ m \in RangeOf(batch)
  BY <1>3 DEF Delivered
<1> QED BY <1>4, <1>5

LEMMA HeadInBatch ==
  ASSUME NEW batch \in Seq(Entries) \ {<<>>}
  PROVE  Head(batch) \in RangeOf(batch) /\ Head(batch) \in Tokens
<1>1. Head(batch) = batch[1] /\ 1 \in DOMAIN batch
  BY HeadTailProperties, LenProperties, EmptySeq
<1> QED BY <1>1, RangeType, EntriesType DEF RangeOf

\* Delivering a loose batch gives prompts to nobody but its own.
LEMMA DeliverGives ==
  ASSUME NEW a \in AgentState, HeadsOwn(a), NEW batch \in Seq(Entries) \ {<<>>},
         Loose(a, batch), NEW b, b = DeliverBatch(a, batch)
  PROVE  /\ HeadsOwn(b)
         /\ \/ \A m : Delivered(b, m) <=> Delivered(a, m)
            \/ \A m : Delivered(b, m) <=> Delivered(a, m) \/ m \in RangeOf(batch)
<1>1. CASE ~a.pendingSteerDrain
  BY <1>1 DEF DeliverBatch
<1>2. CASE a.pendingSteerDrain /\ SlotTaken(a)
  <2>1. b.prompt = a.prompt
    BY <1>2 DEF DeliverBatch, AgentState
  <2> QED BY <2>1 DEF HeadsOwn, Delivered, Given
<1>3. CASE a.pendingSteerDrain /\ ~SlotTaken(a)
  <2>1. b = streamAgent(a, Head(batch), batch)
    BY <1>3 DEF DeliverBatch
  <2>2. Head(batch) \in RangeOf(batch) /\ Head(batch) \in Tokens /\ ~Placed(a, Head(batch))
    BY HeadInBatch DEF Loose
  <2> QED BY <2>1, <2>2, StreamGives
<1> QED BY <1>1, <1>2, <1>3 DEF AgentState

\* The batch handed out when the slot is emptied is the one that waited longest.
LEMMA SettleOrder ==
  ASSUME NEW a \in AgentState, Lone(a), HeadsOwn(a), NEW token \in Tokens,
         NEW b, b = settleForegroundRun(a, token)
  PROVE  /\ HeadsOwn(b)
         /\ \A m, n \in Entries : InOrder(a, m, n) => NotPast(b, m, n)
<1> DEFINE cleared == [a EXCEPT !.run = None, !.settled = @ \cup {token},
                                !.waiting[token] = <<>>]
           batch == Head(a.waiting[token])
<1>1. /\ cleared.steerQueue = a.steerQueue /\ cleared.prompt = a.prompt
      /\ cleared.reconciled = a.reconciled /\ cleared.waiting[token] = <<>>
      /\ \A t \in Tokens \ {token} : cleared.waiting[t] = a.waiting[t]
  BY DEF AgentState
<1>2. cleared \in AgentState
  <2>1. <<>> \in Seq(Seq(Entries) \ {<<>>})
    BY EmptySeq
  <2> QED BY <2>1 DEF AgentState
<1>3. \/ b = a \/ b = cleared
      \/ a.waiting[token] # <<>> /\ b = DeliverBatch(cleared, batch)
  BY DEF settleForegroundRun
<1> HIDE DEF cleared
<1>4. HeadsOwn(cleared) /\ \A m : Delivered(cleared, m) <=> Delivered(a, m)
  BY <1>1 DEF HeadsOwn, Delivered, Given
<1>5. \A m, n \in Entries : InOrder(a, m, n) => NotPast(a, m, n)
  BY InOrderNotPast
<1>6. CASE b = a \/ b = cleared
  BY <1>4, <1>5, <1>6 DEF NotPast
<1>7. CASE a.waiting[token] # <<>> /\ b = DeliverBatch(cleared, batch)
  <2>1. a.waiting[token] \in Batches
    BY DEF AgentState, Batches
  <2>2. /\ batch \in Seq(Entries) \ {<<>>} /\ RangeOf(batch) \subseteq Waits(a, token)
        /\ Once(batch) /\ batch = a.waiting[token][1] /\ 1 \in DOMAIN a.waiting[token]
    BY <1>7, <2>1, BatchesHead, HeadTailProperties, LenProperties, EmptySeq
       DEF Waits, Lone, Batches
  <2> HIDE DEF batch
  <2>3. /\ InQueue(cleared) = InQueue(a) /\ Waits(cleared, token) = {}
        /\ \A t \in Tokens : Given(cleared, t) = Given(a, t)
        /\ \A t \in Tokens \ {token} : Waits(cleared, t) = Waits(a, t)
    BY <1>1, NoBatches DEF InQueue, Waits, Given
  <2>4. \A m \in RangeOf(batch) : m \in Entries /\ m \in Waits(a, token)
    BY <2>2, RangeType
  <2>5. \A m \in RangeOf(batch) : ~Placed(cleared, m) /\ Placed(a, m)
    BY <2>3, <2>4 DEF Placed, Lone
  <2>6. Loose(cleared, batch)
    BY <1>1, <2>2, <2>4, <2>5 DEF Loose, Lone
  <2>7. /\ HeadsOwn(b)
        /\ \/ \A m : Delivered(b, m) <=> Delivered(a, m)
           \/ \A m : Delivered(b, m) <=> Delivered(a, m) \/ m \in RangeOf(batch)
    BY <1>2, <1>4, <1>7, <2>2, <2>6, DeliverGives
  <2>8. ASSUME NEW m \in Entries, NEW n \in Entries, InOrder(a, m, n), n \in RangeOf(batch)
        PROVE  m \in RangeOf(batch) \/ Delivered(a, m)
    <3>1. /\ n \in Waits(a, token) /\ n \notin InQueue(a) /\ Placed(a, n)
          /\ \A t \in Tokens \ {token} : n \notin Waits(a, t)
      BY <2>4, <2>5, <2>8 DEF Lone
    <3>2. \A i \in DOMAIN a.waiting[token] : n \in RangeOf(a.waiting[token][i]) => i = 1
      BY <2>2, <2>8 DEF Lone, Apart
    <3>3. \A t \in Tokens : \A i \in DOMAIN a.waiting[t] :
            n \in RangeOf(a.waiting[t][i]) => t = token /\ i = 1
      BY <3>1, <3>2, BatchWaits
    <3>4. ~AheadIn(a, m, n)
      <4>1. ~\E t \in Tokens : \E i, j \in DOMAIN a.waiting[t] :
               i < j /\ m \in RangeOf(a.waiting[t][i]) /\ n \in RangeOf(a.waiting[t][j])
        BY <3>3, BatchWaits
      <4>2. ~\E i, j \in DOMAIN a.steerQueue :
               i < j /\ a.steerQueue[i] = m /\ a.steerQueue[j] = n
        BY <3>1 DEF InQueue, RangeOf
      <4> QED BY <3>1, <4>1, <4>2 DEF AheadIn
    <3>5. Together(a, m, n) => m \in RangeOf(batch)
      BY <2>2, <3>3 DEF Together
    <3> QED BY <2>8, <3>1, <3>4, <3>5 DEF InOrder
  <2>9. \A m, n \in Entries : InOrder(a, m, n) => NotPast(b, m, n)
    BY <1>5, <2>7, <2>8 DEF NotPast
  <2> QED BY <2>7, <2>9
<1> QED BY <1>3, <1>6, <1>7

LEMMA PartIs ==
  ASSUME NEW S, NEW s \in Seq(S), NEW m \in Int, NEW n \in Int, 1 <= m, n <= Len(s),
         NEW l \in Nat, l = IF m <= n THEN n - m + 1 ELSE 0
  PROVE  /\ DOMAIN SubSeq(s, m, n) = 1 .. l
         /\ \A i \in 1 .. l : SubSeq(s, m, n)[i] = s[m + i - 1]
<1>1. DOMAIN s = 1 .. Len(s) /\ Len(s) \in Nat
  BY LenProperties
<1> QED BY <1>1

\* Of two queued messages a claim leaves the later one queued: it then stays
\* behind the other one, or behind the batch.
KeepsOrder(q, b) ==
  \A i, j \in DOMAIN q :
    i < j /\ q[j] \notin RangeOf(b.entries) =>
      \/ q[i] \in RangeOf(b.entries) /\ q[j] \in RangeOf(b.rest)
      \/ \E k, l \in DOMAIN b.rest : k < l /\ b.rest[k] = q[i] /\ b.rest[l] = q[j]

\* A batch and the rest keep the order of the queue, and make it up again.
LEMMA BatchOrder ==
  ASSUME NEW q \in Seq(Entries), q # <<>>, Once(q),
         NEW b, b = takeNextSteerQueueBatch(q)
  PROVE  b.entries \o b.rest = q /\ KeepsOrder(q, b)
<1> DEFINE n == BatchSize(q)
           head == SubSeq(q, 1, n)
           rest == SubSeq(q, n + 1, Len(q))
<1>1. n \in 1 .. Len(q) /\ Len(q) \in Nat /\ DOMAIN q = 1 .. Len(q)
  BY BatchSizeBounds, LenProperties
<1> HIDE DEF n
<1>2. b.entries = head /\ b.rest = rest
  BY DEF takeNextSteerQueueBatch, n
<1>3. /\ head \in Seq(Entries) /\ Len(head) = n /\ DOMAIN head = 1 .. n
      /\ \A i \in 1 .. n : head[i] = q[i]
  BY <1>1, PartType, SubSeqProperties
<1>4. /\ rest \in Seq(Entries) /\ Len(rest) = Len(q) - n
      /\ DOMAIN rest = 1 .. Len(q) - n
      /\ \A i \in 1 .. Len(q) - n : rest[i] = q[n + i]
  <2> DEFINE first == n + 1
             l == Len(q) - n
  <2>1. /\ first \in Int /\ 1 <= first /\ l \in Nat
        /\ Len(q) \in Int /\ Len(q) <= Len(q)
    BY <1>1
  <2>6. \A i \in 1 .. l : first + i - 1 = n + i
    BY <1>1
  <2>7. l = IF first <= Len(q) THEN Len(q) - first + 1 ELSE 0
    <3>0. n \in Int /\ Len(q) \in Int /\ n <= Len(q)
      BY <1>1
    <3>1. CASE n = Len(q)
      <4>1. l = 0 /\ ~(first <= Len(q))
        BY <1>1, <3>1
      <4> QED BY <4>1
    <3>2. CASE n # Len(q)
      <4>1. l = Len(q) - first + 1
        BY <3>0
      <4>2. first <= Len(q)
        BY <3>0, <3>2
      <4> QED BY <4>1, <4>2
    <3> QED BY <3>1, <3>2
  <2>2. rest = SubSeq(q, first, Len(q))
    OBVIOUS
  <2> HIDE DEF first, l, rest
  <2>3. rest \in Seq(Entries) /\ Len(rest) = l
    BY <2>1, <2>2, <2>7, PartType
  <2>4. DOMAIN rest = 1 .. l /\ \A i \in 1 .. l : rest[i] = q[first + i - 1]
    BY <2>1, <2>2, <2>7, PartIs
  <2>5. \A i \in 1 .. l : rest[i] = q[n + i]
    BY <2>4, <2>6
  <2> QED BY <2>3, <2>4, <2>5 DEF l
<1> HIDE DEF head, rest
<1>5. head \o rest = q
  <2>0. /\ head \o rest \in Seq(Entries)
        /\ Len(head \o rest) = Len(head) + Len(rest)
        /\ \A i \in 1 .. Len(head) + Len(rest) :
             (head \o rest)[i] = IF i <= Len(head) THEN head[i] ELSE rest[i - Len(head)]
    BY <1>3, <1>4, ConcatProperties
  <2>1. /\ head \o rest \in Seq(Entries) /\ Len(head \o rest) = Len(q)
        /\ \A i \in 1 .. Len(q) : (head \o rest)[i] = IF i <= n THEN head[i] ELSE rest[i - n]
    BY <1>1, <1>3, <1>4, <2>0
  <2>2. \A i \in 1 .. Len(q) : (head \o rest)[i] = q[i]
    <3> TAKE i \in 1 .. Len(q)
    <3>1. CASE i <= n
      BY <1>3, <2>1, <3>1
    <3>2. CASE i > n
      <4> DEFINE k == i - n
      <4>1. k \in 1 .. Len(q) - n /\ n + k = i
        BY <1>1, <3>2
      <4>2. (head \o rest)[i] = rest[k]
        BY <1>1, <2>1, <3>2
      <4> HIDE DEF k
      <4>3. rest[k] = q[n + k]
        BY <1>4, <4>1
      <4> QED BY <4>1, <4>2, <4>3
    <3>3. i <= n \/ i > n
      BY <1>1
    <3> QED BY <3>1, <3>2, <3>3
  <2> QED BY <2>1, <2>2, SeqEqual
<1>6. ASSUME NEW i \in DOMAIN q, NEW j \in DOMAIN q, i < j, q[j] \notin RangeOf(head)
      PROVE  \/ q[i] \in RangeOf(head) /\ q[j] \in RangeOf(rest)
             \/ \E k, l \in DOMAIN rest : k < l /\ rest[k] = q[i] /\ rest[l] = q[j]
  <2>1. j \in n + 1 .. Len(q)
    BY <1>1, <1>3, <1>6 DEF RangeOf
  <2>2. j - n \in DOMAIN rest /\ rest[j - n] = q[j]
    BY <1>1, <1>4, <2>1
  <2>3. CASE i <= n
    <3>1. i \in DOMAIN head /\ head[i] = q[i]
      BY <1>1, <1>3, <2>3
    <3> QED BY <2>2, <3>1 DEF RangeOf
  <2>4. CASE i > n
    <3>1. i - n \in DOMAIN rest /\ rest[i - n] = q[i] /\ i - n < j - n
      BY <1>1, <1>4, <1>6, <2>1, <2>4, SMTT(30)
    <3> QED BY <2>2, <3>1
  <2> QED BY <1>1, <2>3, <2>4
<1>7. b.entries \o b.rest = q
  BY <1>2, <1>5
<1>8. KeepsOrder(q, b)
  BY <1>2, <1>6 DEF KeepsOrder
<1> QED BY <1>7, <1>8

\* A claimed batch that has to wait does so behind those that wait already, and
\* ahead of what stays queued.
LEMMA ClaimWaitsOrder ==
  ASSUME NEW a \in AgentState, Lone(a), WaitersOwned(a), hasPendingRun(a),
         a.steerQueue # <<>>, NEW batch, batch = takeNextSteerQueueBatch(a.steerQueue),
         NEW b, b.steerQueue = batch.rest, b.prompt = a.prompt,
         b.waiting = [a.waiting EXCEPT ![a.run] = Append(@, batch.entries)],
         NEW m \in Entries, NEW n \in Entries, AheadIn(a, m, n) \/ Together(a, m, n)
  PROVE  AheadIn(b, m, n) \/ Together(b, m, n)
<1>1. a.steerQueue \in Seq(Entries) /\ a.run \in Tokens /\ Once(a.steerQueue)
  BY DEF AgentState, hasPendingRun, Lone
<1>2. batch.entries \in Seq(Entries) \ {<<>>}
  BY <1>1, BatchSplits
<1>3. RangeOf(batch.entries) \cup RangeOf(batch.rest) = InQueue(a)
  BY <1>1, BatchOnce DEF InQueue
<1> DEFINE old == a.waiting[a.run]
           last == Len(old) + 1
<1>4. old \in Seq(Seq(Entries) \ {<<>>})
  BY <1>1 DEF AgentState
<1>5. /\ DOMAIN old = 1 .. Len(old) /\ Len(old) \in Nat
      /\ Append(old, batch.entries)[last] = batch.entries
      /\ DOMAIN Append(old, batch.entries) = 1 .. last
      /\ \A i \in 1 .. Len(old) : Append(old, batch.entries)[i] = old[i]
  BY <1>2, <1>4, AppendProperties, LenProperties
<1>6. /\ b.waiting[a.run] = Append(old, batch.entries)
      /\ \A t \in Tokens \ {a.run} : b.waiting[t] = a.waiting[t]
  BY <1>1 DEF AgentState
<1> HIDE DEF old
<1>7. /\ last \in DOMAIN b.waiting[a.run] /\ b.waiting[a.run][last] = batch.entries
      /\ \A i \in DOMAIN old : i \in DOMAIN b.waiting[a.run] /\ b.waiting[a.run][i] = old[i] /\ i < last
  BY <1>5, <1>6, SMTT(30)
<1>8. \A t \in Tokens : \A i \in DOMAIN a.waiting[t] :
        i \in DOMAIN b.waiting[t] /\ b.waiting[t][i] = a.waiting[t][i]
  BY <1>6, <1>7 DEF old
<1>9. RangeOf(batch.entries) \subseteq Entries
  BY <1>2, RangeType
<1>10. RangeOf(batch.entries) \subseteq Waits(b, a.run)
  BY <1>7, <1>9 DEF Waits, Members
<1>11. ASSUME NEW t \in Tokens, m \in Waits(a, t)
       PROVE  m \in Waits(b, t) /\ \E i \in DOMAIN old : m \in RangeOf(old[i])
  <2>1. PICK i \in DOMAIN a.waiting[t] : m \in RangeOf(a.waiting[t][i])
    BY <1>11 DEF Waits, Members
  <2>2. a.waiting[t] # <<>>
    BY <2>1, BatchWaits
  <2>3. t = a.run
    BY <2>2 DEF WaitersOwned
  <2> QED BY <1>8, <2>1, <2>3 DEF Waits, Members, old
<1>12. CASE \E i, j \in DOMAIN a.steerQueue :
              i < j /\ a.steerQueue[i] = m /\ a.steerQueue[j] = n
  <2>1. PICK i \in DOMAIN a.steerQueue, j \in DOMAIN a.steerQueue :
          i < j /\ a.steerQueue[i] = m /\ a.steerQueue[j] = n
    BY <1>12
  <2>2. CASE n \in RangeOf(batch.entries)
    <3>1. m \in RangeOf(batch.entries)
      BY <1>1, <2>1, <2>2, BatchOnce
    <3> QED BY <1>1, <1>7, <2>2, <3>1 DEF Together
  <2>3. CASE n \notin RangeOf(batch.entries)
    <3>1. \/ m \in RangeOf(batch.entries) /\ n \in RangeOf(batch.rest)
          \/ \E k, l \in DOMAIN batch.rest : k < l /\ batch.rest[k] = m /\ batch.rest[l] = n
      <4>1. \/ /\ a.steerQueue[i] \in RangeOf(batch.entries)
               /\ a.steerQueue[j] \in RangeOf(batch.rest)
            \/ \E k, l \in DOMAIN batch.rest :
                 k < l /\ batch.rest[k] = a.steerQueue[i] /\ batch.rest[l] = a.steerQueue[j]
        <5>1. KeepsOrder(a.steerQueue, batch)
          BY <1>1, BatchOrder
        <5>2. a.steerQueue[j] \notin RangeOf(batch.entries)
          BY <2>1, <2>3
        <5> QED BY <2>1, <5>1, <5>2 DEF KeepsOrder
      <4> QED BY <2>1, <4>1
    <3> QED BY <1>1, <1>10, <3>1 DEF AheadIn, InQueue
  <2> QED BY <2>2, <2>3
<1>13. CASE n \in InQueue(a) /\ \E t \in Tokens : m \in Waits(a, t)
  <2>1. PICK t \in Tokens : m \in Waits(a, t)
    BY <1>13
  <2>2. CASE n \in RangeOf(batch.rest)
    BY <1>11, <2>1, <2>2 DEF AheadIn, InQueue
  <2>3. CASE n \in RangeOf(batch.entries)
    <3>1. PICK i \in DOMAIN old : m \in RangeOf(old[i])
      BY <1>11, <2>1
    <3>2. /\ i \in DOMAIN b.waiting[a.run] /\ last \in DOMAIN b.waiting[a.run] /\ i < last
          /\ m \in RangeOf(b.waiting[a.run][i]) /\ n \in RangeOf(b.waiting[a.run][last])
      BY <1>7, <2>3, <3>1
    <3> HIDE DEF last
    <3> QED BY <1>1, <3>2 DEF AheadIn
  <2> QED BY <1>3, <1>13, <2>2, <2>3
<1>14. CASE \E t \in Tokens : \E i, j \in DOMAIN a.waiting[t] :
              i < j /\ m \in RangeOf(a.waiting[t][i]) /\ n \in RangeOf(a.waiting[t][j])
  BY <1>8, <1>14 DEF AheadIn
<1>15. CASE Together(a, m, n)
  BY <1>8, <1>15 DEF Together
<1> QED BY <1>12, <1>13, <1>14, <1>15 DEF AheadIn

\* A record in which messages are in one place and batches wait for the slot.
Ordered(a) == Lone(a) /\ Handoff(a) /\ HeadsOwn(a)

\* What a handler that delivers may do: of two messages the later stays behind.
InLine(a, b) ==
  Ordered(b) /\ \A m, n \in Entries : InOrder(a, m, n) => InOrder(b, m, n)

LEMMA InLineTransitive ==
  ASSUME NEW a, NEW b, NEW c, InLine(a, b), InLine(b, c) PROVE InLine(a, c)
BY DEF InLine

LEMMA SameInLine ==
  ASSUME NEW a, NEW b, SamePlaces(a, b), Handoff(b), Ordered(a)
  PROVE  InLine(a, b)
<1>1. Lone(b)
  BY SameKeepsPlaces DEF Ordered, NoneNew
<1> QED BY <1>1, SameKeepsOrder DEF InLine, Ordered

\* With the slot empty nothing waits.
LEMMA NobodyWaits ==
  ASSUME NEW a \in AgentState, WaitersOwned(a), ~hasPendingRun(a)
  PROVE  \A m, n : /\ ~Together(a, m, n)
                   /\ AheadIn(a, m, n) => \E i, j \in DOMAIN a.steerQueue :
                        i < j /\ a.steerQueue[i] = m /\ a.steerQueue[j] = n
<1>1. \A t \in Tokens : a.waiting[t] = <<>>
  BY EntriesType DEF WaitersOwned, hasPendingRun
<1>2. DOMAIN <<>> = {}
  BY EmptySeq
<1>3. \A t \in Tokens : DOMAIN a.waiting[t] = {}
  BY <1>1, <1>2
<1>4. \A t \in Tokens : Waits(a, t) = {}
  BY <1>3 DEF Waits, Members
<1> QED BY <1>3, <1>4 DEF Together, AheadIn

\* A claimed batch that starts the run at once: what it held is delivered.
LEMMA ClaimStreamsOrder ==
  ASSUME NEW a \in AgentState, Ordered(a), ~hasPendingRun(a), a.steerQueue # <<>>,
         NEW batch, batch = takeNextSteerQueueBatch(a.steerQueue),
         NEW b, b.steerQueue = batch.rest,
         \A m : Delivered(b, m) <=> Delivered(a, m) \/ m \in RangeOf(batch.entries),
         NEW m \in Entries, NEW n \in Entries, AheadIn(a, m, n) \/ Together(a, m, n)
  PROVE  AheadIn(b, m, n) \/ Delivered(b, m)
<1>1. a.steerQueue \in Seq(Entries) /\ Once(a.steerQueue)
  BY DEF AgentState, Ordered, Lone
<1>2. PICK i \in DOMAIN a.steerQueue, j \in DOMAIN a.steerQueue :
        i < j /\ a.steerQueue[i] = m /\ a.steerQueue[j] = n
  BY NobodyWaits DEF Ordered, Handoff
<1>3. CASE n \in RangeOf(batch.entries)
  <2>1. m \in RangeOf(batch.entries)
    BY <1>1, <1>2, <1>3, BatchOnce
  <2> QED BY <2>1
<1>4. CASE n \notin RangeOf(batch.entries)
  <2>1. KeepsOrder(a.steerQueue, batch)
    BY <1>1, BatchOrder
  <2>2. a.steerQueue[j] \notin RangeOf(batch.entries)
    BY <1>2, <1>4
  <2>3. \/ m \in RangeOf(batch.entries)
        \/ \E k, l \in DOMAIN batch.rest : k < l /\ batch.rest[k] = m /\ batch.rest[l] = n
    BY <1>2, <2>1, <2>2 DEF KeepsOrder
  <2> QED BY <2>3 DEF AheadIn
<1> QED BY <1>3, <1>4

LEMMA ClaimOrder ==
  ASSUME NEW a \in AgentState, Ordered(a), a.steerQueue # <<>>
  PROVE  InLine(a, dispatchSteerQueueBatch(
           [a EXCEPT !.steerQueue = takeNextSteerQueueBatch(a.steerQueue).rest,
                     !.pendingSteerDrain = TRUE, !.lifecycle = "running"],
           takeNextSteerQueueBatch(a.steerQueue).entries))
<1> DEFINE batch == takeNextSteerQueueBatch(a.steerQueue)
           taken == [a EXCEPT !.steerQueue = batch.rest,
                              !.pendingSteerDrain = TRUE, !.lifecycle = "running"]
           b == dispatchSteerQueueBatch(taken, batch.entries)
<1>1. a.steerQueue \in Seq(Entries) /\ Once(a.steerQueue)
  BY DEF AgentState, Ordered, Lone
<1>2. batch.entries \in Seq(Entries) \ {<<>>} /\ batch.rest \in Seq(Entries)
  BY <1>1, BatchSplits, SMTT(40)
<1>3. NoneNew(a, b) /\ Handoff(b)
  BY ClaimPlaces, ClaimHandoff DEF Ordered, Handoff
<1>4. batch.entries \o batch.rest = a.steerQueue
  BY <1>1, BatchOrder
<1>5. batch = takeNextSteerQueueBatch(a.steerQueue)
  OBVIOUS
<1>12. /\ RangeOf(batch.entries) \cap RangeOf(batch.rest) = {}
       /\ RangeOf(batch.entries) \cup RangeOf(batch.rest) = InQueue(a)
  BY <1>1, BatchOnce DEF InQueue
<1> HIDE DEF batch
<1>6. /\ taken \in AgentState /\ taken.steerQueue = batch.rest
      /\ taken.waiting = a.waiting /\ taken.prompt = a.prompt
      /\ taken.reconciled = a.reconciled /\ taken.run = a.run
      /\ taken.activeForegroundTurnId = a.activeForegroundTurnId
      /\ taken.pendingSteerDrain
  BY <1>2 DEF AgentState
<1>7. b = dispatchSteerQueueBatch(taken, batch.entries)
  OBVIOUS
<1> HIDE DEF taken, b
<1>8. ASSUME b.reconciled = a.reconciled, HeadsOwn(b),
             \A m : Delivered(a, m) => Delivered(b, m),
             \A m, n \in Entries : AheadIn(a, m, n) \/ Together(a, m, n) =>
               AheadIn(b, m, n) \/ Together(b, m, n) \/ Delivered(b, m)
      PROVE  InLine(a, b)
  <2>1. \A m, n \in Entries : InOrder(a, m, n) => InOrder(b, m, n)
    BY <1>3, <1>8 DEF InOrder, NoneNew
  <2> QED BY <1>3, <1>8, <2>1 DEF InLine, Ordered, NoneNew
<1>9. ASSUME hasPendingRun(a) PROVE InLine(a, b)
  <2>1. hasPendingRun(taken)
    BY <1>6, <1>9 DEF hasPendingRun
  <2>2. b = [taken EXCEPT !.waiting[taken.run] = Append(@, batch.entries)]
    BY <1>7, <2>1 DEF dispatchSteerQueueBatch
  <2>3. /\ b.steerQueue = batch.rest /\ b.prompt = a.prompt /\ b.reconciled = a.reconciled
        /\ b.waiting = [a.waiting EXCEPT ![a.run] = Append(@, batch.entries)]
    BY <1>6, <2>2 DEF AgentState
  <2>4. \A m, n \in Entries : AheadIn(a, m, n) \/ Together(a, m, n) =>
          AheadIn(b, m, n) \/ Together(b, m, n)
    BY <1>5, <1>9, <2>3, ClaimWaitsOrder DEF Ordered, Handoff
  <2>5. HeadsOwn(b) /\ \A m : Delivered(a, m) => Delivered(b, m)
    BY <2>3 DEF Ordered, HeadsOwn, Delivered, Given
  <2> QED BY <1>8, <2>3, <2>4, <2>5
<1>10. ASSUME ~hasPendingRun(a) PROVE InLine(a, b)
  <2>1. b = DeliverBatch(taken, batch.entries)
    BY <1>6, <1>7, <1>10 DEF dispatchSteerQueueBatch, hasPendingRun
  <2>2. CASE SlotTaken(taken)
    <3>1. b = [taken EXCEPT !.pendingSteerDrain = FALSE,
                            !.steerQueue = batch.entries \o taken.steerQueue]
      BY <1>6, <2>1, <2>2 DEF DeliverBatch
    <3>2. SamePlaces(a, b)
      BY <1>4, <1>6, <3>1 DEF SamePlaces, AgentState
    <3> QED BY <1>3, <3>2, SameInLine
  <2>3. CASE ~SlotTaken(taken)
    <3> DEFINE token == Head(batch.entries)
    <3>1. b = streamAgent(taken, token, batch.entries)
      BY <1>6, <2>1, <2>3 DEF DeliverBatch
    <3>2. b.steerQueue = batch.rest /\ b.reconciled = a.reconciled
      BY <1>6, <3>1 DEF streamAgent, AgentState
    <3>3. \A m : Delivered(taken, m) <=> Delivered(a, m)
      BY <1>6 DEF Delivered, Given
    <3>4. HeadsOwn(taken)
      BY <1>6 DEF Ordered, HeadsOwn, Given
    <3>5. token \in RangeOf(batch.entries) /\ token \in Tokens
      BY <1>2, HeadInBatch
    <3> HIDE DEF token
    <3>6. ~Placed(taken, token)
      <4>1. token \in InQueue(a) /\ token \notin RangeOf(batch.rest)
        BY <1>12, <3>5
      <4>2. \A t \in Tokens : token \notin Waits(a, t) /\ token \notin Given(a, t)
        BY <3>5, <4>1, EntriesType DEF Ordered, Lone
      <4>3. \A t : Waits(taken, t) = Waits(a, t) /\ Given(taken, t) = Given(a, t)
        BY <1>6 DEF Waits, Given
      <4> QED BY <1>6, <4>1, <4>2, <4>3 DEF Placed, InQueue
    <3>7. /\ HeadsOwn(b)
          /\ \A m : Delivered(b, m) <=> Delivered(taken, m) \/ m \in RangeOf(batch.entries)
      BY <1>2, <1>6, <3>1, <3>4, <3>5, <3>6, StreamGives
    <3>8. \A m : Delivered(b, m) <=> Delivered(a, m) \/ m \in RangeOf(batch.entries)
      BY <3>3, <3>7
    <3>9. \A m, n \in Entries : AheadIn(a, m, n) \/ Together(a, m, n) =>
            AheadIn(b, m, n) \/ Delivered(b, m)
      BY <1>5, <1>10, <3>2, <3>8, ClaimStreamsOrder
    <3> QED BY <1>8, <3>2, <3>7, <3>8, <3>9
  <2> QED BY <2>2, <2>3
<1>11. InLine(a, b)
  BY <1>9, <1>10
<1> QED BY <1>11 DEF b, taken, batch

LEMMA RestOrDrainOrder ==
  ASSUME NEW a \in AgentState, Ordered(a), NEW held \in BOOLEAN
  PROVE  InLine(a, RestOrDrain(a, held))
<1>1. CASE held \/ a.lastError \/ a.steerQueueHeld \/ a.steerQueue = <<>>
  <2>1. SamePlaces(a, RestOrDrain(a, held))
    BY <1>1 DEF RestOrDrain, SamePlaces, AgentState
  <2>2. Handoff(RestOrDrain(a, held))
    BY RestOrDrainHandoff DEF Ordered
  <2> QED BY <2>1, <2>2, SameInLine
<1>2. CASE ~(held \/ a.lastError \/ a.steerQueueHeld \/ a.steerQueue = <<>>)
  BY <1>2, ClaimOrder DEF RestOrDrain
<1> QED BY <1>1, <1>2

\* A reconcile prompt is queued only when nothing else is.
LEMMA TodoOrder ==
  ASSUME NEW a \in AgentState, Ordered(a), NEW todo \in {None} \cup (TodoEntries \ a.reconciled),
         NEW b, b = maybeEnqueueTodoReconcile(a, todo)
  PROVE  InLine(a, b)
<1>1. CASE b = a
  BY <1>1 DEF InLine
<1>2. CASE b # a
  <2>1. /\ todo \in TodoEntries \ a.reconciled /\ a.steerQueue = <<>>
        /\ b = [a EXCEPT !.steerQueue = <<todo>>, !.reconciled = @ \cup {todo}]
    BY <1>2 DEF maybeEnqueueTodoReconcile
  <2>2. /\ b.steerQueue = <<todo>> /\ b.waiting = a.waiting /\ b.prompt = a.prompt
        /\ b.reconciled = a.reconciled \cup {todo} /\ SameHandoff(a, b)
    BY <2>1 DEF AgentState, SameHandoff
  <2>3. InQueue(a) = {} /\ DOMAIN a.steerQueue = {} /\ InQueue(b) = {todo}
    BY <2>1, <2>2, OnceEmpty, OnceSingle, EmptySeq DEF InQueue
  <2>4. \A t : Waits(b, t) = Waits(a, t) /\ Given(b, t) = Given(a, t)
    BY <2>2 DEF Waits, Given
  <2>5. Lone(b) /\ Handoff(b)
    BY <2>2, SameIsEnough, TodoPlaces DEF Ordered, NothingAsked
  <2>6. HeadsOwn(b) /\ \A m : Delivered(b, m) <=> Delivered(a, m)
    BY <2>2, <2>4 DEF Ordered, HeadsOwn, Delivered
  <2>7. \A m, n : /\ AheadIn(a, m, n) => AheadIn(b, m, n)
                  /\ Together(a, m, n) => Together(b, m, n)
    BY <2>2, <2>3 DEF AheadIn, Together
  <2>8. \A n : Placed(b, n) => Placed(a, n) \/ n = todo
    BY <2>3, <2>4 DEF Placed
  <2>9. \A m, n \in Entries : InOrder(a, m, n) => InOrder(b, m, n)
    BY <2>1, <2>2, <2>6, <2>7, <2>8 DEF InOrder
  <2> QED BY <2>5, <2>6, <2>9 DEF InLine, Ordered
<1> QED BY <1>1, <1>2

\* The handlers that leave the messages where they are leave the slot's batches too.
LEMMA StillInLine ==
  ASSUME NEW a \in AgentState, Ordered(a), NEW b, SamePlaces(a, b), SameHandoff(a, b)
  PROVE  InLine(a, b)
<1>1. Handoff(b)
  BY SameIsEnough DEF Ordered
<1> QED BY <1>1, SameInLine

LEMMA FinalizeOrder ==
  ASSUME NEW a \in AgentState, Ordered(a), NEW turn \in Turns \cup {None},
         NEW todo \in {None} \cup (TodoEntries \ a.reconciled),
         NEW b, b = finalizeForegroundTurn(a, turn, todo)
  PROVE  InLine(a, b)
<1> DEFINE remembered == rememberFinalizedTurn(a, turn)
           noTurn == [remembered EXCEPT !.activeForegroundTurnId = None]
           closed == applyActiveTurnTerminal(noTurn, turn)
           parked == maybeEnqueueTodoReconcile(closed, todo)
           held   == a.pendingReplacement /\ ~a.lastError
<1>1. /\ remembered \in AgentState /\ SamePlaces(a, remembered)
      /\ SameHandoff(a, remembered)
  BY RememberType, StillPlaced, ZenonT(60) DEF rememberFinalizedTurn, SameHandoff, AgentState
<1> HIDE DEF remembered
<1>2. noTurn \in AgentState /\ SamePlaces(a, noTurn) /\ SameHandoff(a, noTurn)
  BY <1>1 DEF AgentState, SamePlaces, SameHandoff
<1> HIDE DEF noTurn
<1>3. closed \in AgentState /\ SamePlaces(noTurn, closed) /\ SameHandoff(noTurn, closed)
  BY <1>2, TerminalType, StillPlaced, SameAfterClosing
<1> HIDE DEF closed
<1>4. InLine(a, closed) /\ closed.reconciled = a.reconciled
  <2>1. SamePlaces(a, closed) /\ SameHandoff(a, closed)
    BY <1>2, <1>3 DEF SamePlaces, SameHandoff
  <2> QED BY <2>1, StillInLine DEF SamePlaces
<1>5. parked \in AgentState /\ InLine(closed, parked)
  <2>1. todo \in TodoEntries \cup {None}
    OBVIOUS
  <2>2. parked \in AgentState
    BY <1>3, <2>1, TodoType
  <2>3. InLine(closed, parked)
    BY <1>3, <1>4, TodoOrder DEF InLine
  <2> QED BY <2>2, <2>3
<1> HIDE DEF parked
<1>6. held \in BOOLEAN /\ b = RestOrDrain(parked, held)
  BY DEF finalizeForegroundTurn, parked, closed, noTurn, remembered, AgentState
<1> HIDE DEF held
<1>7. InLine(parked, b)
  BY <1>5, <1>6, RestOrDrainOrder DEF InLine
<1> QED BY <1>4, <1>5, <1>7, InLineTransitive

LEMMA TerminalEventOrder ==
  ASSUME NEW a \in AgentState, Ordered(a), NEW kind, NEW eventTurn \in Turns \cup {None},
         NEW todo \in {None} \cup (TodoEntries \ a.reconciled),
         NEW b, b = TerminalEvent(a, kind, eventTurn, todo)
  PROVE  InLine(a, b)
<1> DEFINE turn == ManagedTurn(a, eventTurn)
           isForeground == turn # None /\ a.activeForegroundTurnId = turn
           closed == applyActiveTurnTerminal(a, turn)
           ended  == IF TerminalDisposition(a, turn) = "stale" THEN closed
                     ELSE TurnEnded(closed, kind, isForeground)
           final  == IF isForeground THEN finalizeForegroundTurn(ended, turn, todo)
                     ELSE ended
           marked == [final EXCEPT !.generator[eventTurn] = "ending"]
<1>1. b \in {a, final, marked}
  BY DEF TerminalEvent, marked, final, ended, closed, isForeground, turn
<1>2. turn \in Turns \cup {None} /\ isForeground \in BOOLEAN
  BY EntriesType DEF ManagedTurn, AgentState
<1> HIDE DEF turn, isForeground
<1>3. closed \in AgentState /\ SamePlaces(a, closed) /\ SameHandoff(a, closed)
  BY TerminalType, StillPlaced, SameAfterClosing
<1> HIDE DEF closed
<1>4. ended \in AgentState /\ SamePlaces(a, ended) /\ SameHandoff(a, ended)
  <2>1. /\ TurnEnded(closed, kind, isForeground) \in AgentState
        /\ SamePlaces(closed, TurnEnded(closed, kind, isForeground))
        /\ SameHandoff(closed, TurnEnded(closed, kind, isForeground))
    BY <1>2, <1>3, TurnEndedType, StillPlaced, SameAfterEnd
  <2> QED BY <1>3, <2>1 DEF SamePlaces, SameHandoff
<1> HIDE DEF ended
<1>5. InLine(a, ended) /\ ended.reconciled = a.reconciled
  BY <1>4, StillInLine DEF SamePlaces
<1>6. final \in AgentState /\ InLine(a, final)
  <2>1. CASE isForeground
    <3>1. final = finalizeForegroundTurn(ended, turn, todo)
      BY <2>1
    <3>2. todo \in {None} \cup (TodoEntries \ ended.reconciled)
      BY <1>5
    <3> HIDE DEF final
    <3>3. final \in AgentState
      BY <1>2, <1>4, <3>1, FinalizeType
    <3>4. InLine(ended, final)
      BY <1>2, <1>4, <1>5, <3>1, <3>2, FinalizeOrder DEF InLine
    <3> QED BY <1>5, <3>3, <3>4, InLineTransitive
  <2>2. CASE ~isForeground
    BY <1>4, <1>5, <2>2
  <2> QED BY <1>2, <2>1, <2>2
<1> HIDE DEF final
<1>7. SamePlaces(final, marked) /\ SameHandoff(final, marked)
  BY <1>6 DEF AgentState, SamePlaces, SameHandoff
<1> HIDE DEF marked
<1>8. InLine(final, marked)
  BY <1>6, <1>7, StillInLine DEF InLine
<1>9. InLine(a, a)
  BY DEF InLine
<1> QED BY <1>1, <1>6, <1>8, <1>9, InLineTransitive

\* What a handler that may also start a batch at once does.
Obeys(a, b) ==
  HeadsOwn(b) /\ \A m, n \in Entries : InOrder(a, m, n) => NotPast(b, m, n)

\* What a step does: NoOvertaking.
Behind(a, b) ==
  HeadsOwn(b) /\ \A m, n \in Entries : AheadIn(a, m, n) => NotPast(b, m, n)

LEMMA ObeysIsBehind == ASSUME NEW a, NEW b, Obeys(a, b) PROVE Behind(a, b)
BY DEF Obeys, Behind, InOrder

LEMMA InLineObeys ==
  ASSUME NEW a, NEW b \in AgentState, InLine(a, b) PROVE Obeys(a, b)
BY InOrderNotPast DEF InLine, Ordered, Obeys

LEMMA InLineThenObeys ==
  ASSUME NEW a, NEW b, NEW c, InLine(a, b), Obeys(b, c) PROVE Obeys(a, c)
BY DEF InLine, Obeys

LEMMA ObeysThenSame ==
  ASSUME NEW a, NEW b, NEW c, Obeys(a, b), SamePlaces(b, c) PROVE Obeys(a, c)
<1>1. HeadsOwn(c) /\ \A m, n : NotPast(b, m, n) => NotPast(c, m, n)
  BY SameKeepsOrder DEF Obeys
<1> QED BY <1>1 DEF Obeys

LEMMA SettleObeys ==
  ASSUME NEW a \in AgentState, Ordered(a), NEW token \in Tokens
  PROVE  Obeys(a, settleForegroundRun(a, token))
BY SettleOrder DEF Ordered, Obeys

\* Who is behind another is not delivered.
LEMMA AheadWaits ==
  ASSUME NEW a \in AgentState, Lone(a), NEW m \in Entries, NEW n \in Entries,
         AheadIn(a, m, n)
  PROVE  ~Delivered(a, n) /\ Placed(a, n)
<1>1. CASE n \in InQueue(a)
  BY <1>1 DEF Lone, Delivered, Placed
<1>2. CASE \E t \in Tokens : n \in Waits(a, t)
  BY <1>2 DEF Lone, Delivered, Placed
<1>3. n \in InQueue(a) \/ \E t \in Tokens : n \in Waits(a, t)
  <2>1. ASSUME NEW t \in Tokens, NEW j \in DOMAIN a.waiting[t], n \in RangeOf(a.waiting[t][j])
        PROVE  n \in Waits(a, t)
    BY <2>1, BatchWaits
  <2>2. ASSUME NEW j \in DOMAIN a.steerQueue, a.steerQueue[j] = n PROVE n \in InQueue(a)
    BY <2>2 DEF InQueue, RangeOf
  <2> QED BY <2>1, <2>2 DEF AheadIn
<1> QED BY <1>1, <1>2, <1>3

\* A step that gives no prompt.
LEMMA PromptsStay ==
  ASSUME NEW a \in AgentState, Lone(a), HeadsOwn(a), NEW b, b.prompt = a.prompt
  PROVE  Behind(a, b)
<1>1. \A m : Delivered(b, m) <=> Delivered(a, m)
  BY DEF Delivered, Given
<1>2. \A m, n \in Entries : AheadIn(a, m, n) => NotPast(b, m, n)
  BY <1>1, AheadWaits DEF NotPast
<1>3. HeadsOwn(b)
  BY DEF HeadsOwn, Given
<1> QED BY <1>2, <1>3 DEF Behind

\* A handler that leaves the runs, their prompts and the foreground turn alone.
SameRuns(a, b) ==
  /\ b.generator = a.generator /\ b.prompt = a.prompt /\ b.settled = a.settled
  /\ b.finalized = a.finalized /\ b.activeForegroundTurnId = a.activeForegroundTurnId

LEMMA StillRuns ==
  ASSUME NEW a \in AgentState
  PROVE  /\ \A turn : SameRuns(a, applyActiveTurnTerminal(a, turn))
         /\ \A kind, isForeground : SameRuns(a, TurnEnded(a, kind, isForeground))
         /\ \A todo : SameRuns(a, maybeEnqueueTodoReconcile(a, todo))
         /\ \A event : SameRuns(a, TurnStarted(a, event))
         /\ SameRuns(a, ForwarderFailed(a))
         /\ \A event : SameRuns(a, enqueueSessionEvent(a, event))
         /\ \A events : SameRuns(a, EnqueueAll(a, events))
<1>1. \A turn : SameRuns(a, applyActiveTurnTerminal(a, turn))
  BY DEF applyActiveTurnTerminal, AgentState, SameRuns
<1>2. \A kind, isForeground : SameRuns(a, TurnEnded(a, kind, isForeground))
  BY DEF TurnEnded, AgentState, SameRuns
<1>3. \A todo : SameRuns(a, maybeEnqueueTodoReconcile(a, todo))
  BY DEF maybeEnqueueTodoReconcile, AgentState, SameRuns
<1>4. \A event : SameRuns(a, TurnStarted(a, event))
  BY DEF TurnStarted, AgentState, SameRuns
<1>5. SameRuns(a, ForwarderFailed(a))
  BY DEF ForwarderFailed, AgentState, SameRuns
<1>6. \A event : SameRuns(a, enqueueSessionEvent(a, event))
  BY DEF enqueueSessionEvent, AgentState, SameRuns
<1>7. \A events : SameRuns(a, EnqueueAll(a, events))
  BY DEF EnqueueAll, AgentState, SameRuns
<1> QED BY <1>1, <1>2, <1>3, <1>4, <1>5, <1>6, <1>7

\* A step that at most starts a run for a caller's own prompt.
OwnPrompt(p) ==
  SameRuns(agent, agent') \/ agent' = streamAgent(agent, p, <<p>>)

LEMMA OwnPromptOrder ==
  ASSUME TypeOK, Lone(agent), HeadsOwn(agent), NEW p \in Prompts, ~Placed(agent, p),
         OwnPrompt(p)
  PROVE  Behind(agent, agent')
<1>1. CASE SameRuns(agent, agent')
  BY <1>1, AgentType, PromptsStay DEF SameRuns
<1>2. CASE agent' = streamAgent(agent, p, <<p>>)
  <2>1. <<p>> \in Seq(Entries) /\ p \in Tokens
    BY PromptBatch
  <2>2. RangeOf(<<p>>) = {p}
    BY OnceSingle
  <2> DEFINE batch == <<p>>
  <2>3. batch \in Seq(Entries) /\ RangeOf(batch) = {p} /\ agent' = streamAgent(agent, p, batch)
    BY <1>2, <2>1, <2>2
  <2> HIDE DEF batch
  <2>4. PICK b : b = agent'
    OBVIOUS
  <2>5. /\ HeadsOwn(b)
        /\ \A m : Delivered(b, m) <=> Delivered(agent, m) \/ m = p
    BY <2>1, <2>3, <2>4, AgentType, StreamGives
  <2>6. \A m, n \in Entries : AheadIn(agent, m, n) => NotPast(b, m, n)
    BY <2>5, AgentType, AheadWaits DEF NotPast
  <2>7. Behind(agent, b)
    BY <2>5, <2>6 DEF Behind
  <2> QED BY <2>4, <2>7
<1> QED BY <1>1, <1>2 DEF OwnPrompt

(***************************************************************************)
(* No step lets a message past another.                                    *)
(***************************************************************************)
LEMMA StartOrReplaceOrder ==
  ASSUME TypeOK, NEW p \in Prompts, NEW verb, NEW queued,
         StartOrReject(p, verb) \/ StartOrReplace(p, queued) \/ CancelToReplace(p, verb, queued)
  PROVE  OwnPrompt(p)
<1>1. ASSUME NEW v, StartOrReject(p, v) PROVE OwnPrompt(p)
  BY <1>1 DEF StartOrReject, OwnPrompt, SameRuns
<1>2. ASSUME NEW v, CancelToReplace(p, v, queued) PROVE OwnPrompt(p)
  BY <1>2, AgentType DEF CancelToReplace, OwnPrompt, SameRuns, AgentState
<1> QED BY <1>1, <1>2 DEF StartOrReplace

\* Queueing claims a batch only beside a taken slot, so the batch waits.
LEMMA EnqueueOrder ==
  ASSUME TypeOK, NEW p \in Prompts, NEW verb, EnqueueSteerMessage(p, verb)
  PROVE  SameRuns(agent, agent')
<1> DEFINE parked == [agent EXCEPT !.steerQueue = Append(@, p)]
           batch  == takeNextSteerQueueBatch(parked.steerQueue)
           taken  == [parked EXCEPT !.steerQueue = batch.rest, !.pendingSteerDrain = TRUE,
                                    !.lifecycle = "running"]
           waits  == [taken EXCEPT !.waiting[taken.run] = Append(@, batch.entries)]
<1>1. /\ SameRuns(agent, parked) /\ taken.run = agent.run
      /\ SameRuns(agent, waits)
  BY AgentType DEF AgentState, SameRuns
<1>2. \/ agent' = parked
      \/ hasPendingRun(agent) /\ agent' = dispatchSteerQueueBatch(taken, batch.entries)
  BY DEF EnqueueSteerMessage
<1>3. hasPendingRun(agent) => dispatchSteerQueueBatch(taken, batch.entries) = waits
  BY <1>1 DEF dispatchSteerQueueBatch, hasPendingRun
<1> HIDE DEF parked, batch, taken, waits
<1> QED BY <1>1, <1>2, <1>3

LEMMA MakeCallOwn ==
  ASSUME PlacesInv, NEW p \in Prompts, MakeCall(p), ~Rewind(p)
  PROVE  ~Placed(agent, p) /\ OwnPrompt(p)
<1> USE DEF PlacesInv
<1>1. ~Placed(agent, p)
  BY DEF MakeCall, NoCall, Known, PlacedStages
<1>2. CASE RunAgent(p)
  BY <1>1, <1>2, StartOrReplaceOrder DEF RunAgent
<1>3. ASSUME NEW verb, SendPrompt(p, verb) PROVE OwnPrompt(p)
  <2>1. EnqueueSteerMessage(p, verb) \/ (\E queued : StartOrReplace(p, queued)) \/ UNCHANGED agent
    BY <1>3 DEF SendPrompt, SteerTurn
  <2> QED BY <2>1, EnqueueOrder, StartOrReplaceOrder DEF OwnPrompt, SameRuns
<1>4. CASE TryRunOutOfBand(p) \/ StopRun(p)
  BY <1>1, <1>4, AgentType DEF TryRunOutOfBand, StopRun, OwnPrompt, SameRuns, AgentState
<1> QED BY <1>1, <1>2, <1>3, <1>4 DEF MakeCall

LEMMA MakeCallOrder ==
  ASSUME PlacesInv, HeadsOwn(agent), NEW p \in Prompts, MakeCall(p)
  PROVE  Behind(agent, agent')
<1> USE DEF PlacesInv
<1>1. CASE Rewind(p)
  <2>1. agent'.prompt = agent.prompt
    BY <1>1, AgentType DEF Rewind, LockSlot, AgentState
  <2> QED BY <2>1, AgentType, PromptsStay
<1>2. CASE ~Rewind(p)
  BY <1>2, MakeCallOwn, OwnPromptOrder
<1> QED BY <1>1, <1>2

LEMMA MutationOwn ==
  ASSUME PlacesInv, NEW p \in Prompts, Mutation(p), ~CancelSettles(p)
  PROVE  ~Placed(agent, p) /\ OwnPrompt(p)
<1> USE DEF PlacesInv
<1>0. agent \in AgentState
  BY AgentType
<1>1. ~Placed(agent, p)
  <2>1. call[p].pc \notin PlacedStages
    BY DEF Mutation, CancelBegins, InterruptAcknowledged, InterruptFailed,
       CancelDrained, SteerBegins, SteerAnswered, SteerReturns, AtHead, PlacedStages
  <2> QED BY <2>1 DEF Known
<1>2. ASSUME CancelBegins(p) \/ InterruptFailed(p) \/ CancelDrained(p) \/ SteerBegins(p)
      PROVE  OwnPrompt(p)
  BY <1>0, <1>2, ZenonT(60) DEF CancelBegins, InterruptFailed, CancelDrained, SteerBegins, OwnPrompt,
     SameRuns, AgentState
<1>3. ASSUME InterruptAcknowledged(p) PROVE OwnPrompt(p)
  <2>1. agent' = agent \/ \E event : agent' = enqueueSessionEvent(agent, event)
    BY <1>3 DEF InterruptAcknowledged
  <2>2. SameRuns(agent, agent)
    BY DEF SameRuns
  <2> QED BY <1>0, <2>1, <2>2, StillRuns DEF OwnPrompt
<1>4. ASSUME SteerAnswered(p) PROVE OwnPrompt(p)
  <2> DEFINE opened == [agent EXCEPT !.barrier = FALSE, !.barred = <<>>]
  <2>1. <<>> \in Seq(Event)
    BY EmptySeq
  <2>2. opened \in AgentState /\ SameRuns(agent, opened)
    BY <1>0, <2>1 DEF AgentState, SameRuns
  <2>3. agent' = EnqueueAll(opened, agent.barred)
    BY <1>4 DEF SteerAnswered
  <2> HIDE DEF opened
  <2>4. SameRuns(opened, agent')
    BY <2>2, <2>3, StillRuns
  <2> QED BY <2>2, <2>4 DEF SameRuns, OwnPrompt
<1>5. ASSUME SteerReturns(p) PROVE OwnPrompt(p)
  <2>1. \/ UNCHANGED agent
        \/ \E queued : SteerUnavailable(p, call[p].turn, queued)
    BY <1>5 DEF SteerReturns
  <2>2. ASSUME NEW queued, SteerUnavailable(p, call[p].turn, queued) PROVE OwnPrompt(p)
    <3>1. \/ UNCHANGED agent \/ StartOrReplace(p, queued)
          \/ CancelToReplace(p, "steer", queued)
      BY <2>2 DEF SteerUnavailable
    <3> QED BY <3>1, StartOrReplaceOrder DEF OwnPrompt, SameRuns
  <2> QED BY <2>1, <2>2 DEF OwnPrompt, SameRuns
<1> QED BY <1>1, <1>2, <1>3, <1>4, <1>5 DEF Mutation

LEMMA MutationOrder ==
  ASSUME PlacesInv, Handoff(agent), HeadsOwn(agent), NEW p \in Prompts, Mutation(p)
  PROVE  Behind(agent, agent')
<1> USE DEF PlacesInv
<1>0. agent \in AgentState /\ Ordered(agent)
  BY AgentType DEF Ordered
<1>1. CASE CancelSettles(p)
  <2>1. call[p].turn \in Turns \cup {None} /\ call[p].run \in Tokens \cup {None}
    BY DEF TypeOK, CallState
  <2>2. ASSUME NEW todo \in TodoChoices,
               agent' = TerminalEvent(agent, "canceled", call[p].turn, todo)
        PROVE  Behind(agent, agent')
    <3>1. PICK b : b = agent'
      OBVIOUS
    <3>2. b \in AgentState
      BY <1>0, <2>1, <2>2, <3>1, TerminalEventType DEF TodoChoices
    <3>3. InLine(agent, b)
      BY <1>0, <2>1, <2>2, <3>1, TerminalEventOrder DEF TodoChoices
    <3>4. Behind(agent, b)
      BY <3>2, <3>3, InLineObeys, ObeysIsBehind
    <3> QED BY <3>1, <3>4
  <2>3. CASE call[p].run # None /\ agent' = settleForegroundRun(agent, call[p].run)
    <3>1. Obeys(agent, settleForegroundRun(agent, call[p].run))
      BY <1>0, <2>1, <2>3, SettleObeys
    <3>2. Behind(agent, settleForegroundRun(agent, call[p].run))
      BY <3>1, ObeysIsBehind
    <3> QED BY <2>3, <3>2
  <2>4. CASE UNCHANGED agent
    BY <1>0, <2>4, PromptsStay
  <2> QED BY <1>1, <2>2, <2>3, <2>4 DEF CancelSettles, CapturedRun
<1>2. CASE ~CancelSettles(p)
  BY <1>2, MutationOwn, OwnPromptOrder
<1> QED BY <1>1, <1>2

\* A replacement whose cancellation is through has its prompt in no place yet.
LEMMA ReplacementOwn ==
  ASSUME PlacesInv, NEW p \in Prompts, ReplacementStarts(p)
  PROVE  ~Placed(agent, p) /\ OwnPrompt(p)
<1> USE DEF PlacesInv
<1>1. ~Placed(agent, p)
  BY DEF ReplacementStarts, Known, PlacedStages
<1>2. SameRuns(agent, ForwarderFailed(agent))
  BY AgentType, StillRuns
<1>3. OwnPrompt(p)
  BY <1>2, AgentType DEF ReplacementStarts, OwnPrompt, SameRuns, AgentState
<1> QED BY <1>1, <1>3

LEMMA ContinuationOrder ==
  ASSUME PlacesInv, NoRewind, Handoff(agent), HeadsOwn(agent), NEW p \in Prompts,
         Continuation(p)
  PROVE  Behind(agent, agent')
<1> USE DEF PlacesInv
<1>0. agent \in AgentState /\ Ordered(agent)
  BY AgentType DEF Ordered
<1>1. CASE ReplacementStarts(p)
  BY <1>1, ReplacementOwn, OwnPromptOrder
<1>2. CASE RewindLocks(p) \/ RewindEnds(p)
  BY <1>2 DEF RewindLocks, RewindEnds, NoRewind
<1>3. CASE FinalizeOutOfBandRun(p)
  <2> DEFINE left == IF agent.outOfBandRunCount > 0 THEN agent.outOfBandRunCount - 1 ELSE 0
             fewer == [agent EXCEPT !.outOfBandRunCount = left]
             rested == RestOrDrain(fewer, FALSE)
  <2>1. left \in Nat
    BY <1>0 DEF AgentState
  <2>2. agent' = fewer \/ agent' = rested
    BY <1>3 DEF FinalizeOutOfBandRun
  <2> HIDE DEF left
  <2>3. fewer \in AgentState /\ SamePlaces(agent, fewer) /\ SameHandoff(agent, fewer)
    BY <1>0, <2>1 DEF AgentState, SamePlaces, SameHandoff
  <2>4. InLine(agent, fewer)
    BY <1>0, <2>3, StillInLine
  <2> HIDE DEF fewer
  <2>5. rested \in AgentState /\ InLine(fewer, rested)
    BY <2>3, <2>4, RestOrDrainType, RestOrDrainOrder DEF InLine
  <2> HIDE DEF rested
  <2>6. Behind(agent, fewer) /\ Behind(agent, rested)
    BY <2>3, <2>4, <2>5, InLineTransitive, InLineObeys, ObeysIsBehind
  <2> QED BY <2>2, <2>6
<1> QED BY <1>1, <1>2, <1>3 DEF Continuation

LEMMA StartFailsOrder ==
  ASSUME TypeOK, Ordered(agent), NEW t \in Tokens, NEW stale \in BOOLEAN,
         NEW todo \in TodoChoices, StartFails(t, stale, todo)
  PROVE  Behind(agent, agent')
<1> DEFINE gaveUp  == [agent EXCEPT !.generator[t] = "done"]
           started == [gaveUp EXCEPT !.pendingReplacement = FALSE]
           rested  == IF agent.activeForegroundTurnId = None
                      THEN [started EXCEPT !.lifecycle = "idle"] ELSE started
           event   == TerminalEvent(started, "failed", None, None)
           failed  == finalizeForegroundTurn(event, None, todo)
           chosen  == IF stale THEN rested ELSE failed
           settled == settleForegroundRun(chosen, t)
           ended   == IF t \in agent.settled THEN gaveUp ELSE settled
<1>1. gaveUp \in AgentState /\ SamePlaces(agent, gaveUp) /\ SameHandoff(agent, gaveUp)
  BY AgentType, GeneratorDoneType, ZenonT(60) DEF AgentState, SamePlaces, SameHandoff
<1> HIDE DEF gaveUp
<1>2. started \in AgentState /\ SamePlaces(agent, started) /\ SameHandoff(agent, started)
  BY <1>1 DEF AgentState, SamePlaces, SameHandoff
<1> HIDE DEF started
<1>3. rested \in AgentState /\ SamePlaces(agent, rested) /\ SameHandoff(agent, rested)
  <2> DEFINE idle == [started EXCEPT !.lifecycle = "idle"]
  <2>1. idle \in AgentState /\ SamePlaces(started, idle) /\ SameHandoff(started, idle)
    BY <1>2 DEF AgentState, SamePlaces, SameHandoff
  <2>2. rested \in {started, idle}
    OBVIOUS
  <2> HIDE DEF idle, rested
  <2> QED BY <1>2, <2>1, <2>2 DEF SamePlaces, SameHandoff
<1> HIDE DEF rested
<1>4. /\ InLine(agent, gaveUp) /\ InLine(agent, started) /\ InLine(agent, rested)
      /\ started.reconciled = agent.reconciled
  BY <1>1, <1>2, <1>3, AgentType, StillInLine DEF SamePlaces
<1>5. /\ event \in AgentState /\ InLine(started, event)
      /\ event.reconciled = agent.reconciled
  <2>1. event \in AgentState
    BY <1>2, TerminalEventType
  <2>2. InLine(started, event)
    BY <1>2, <1>4, TerminalEventOrder DEF InLine
  <2>3. event.reconciled = started.reconciled
    BY <1>2, <1>4, TerminalEventPlaces DEF InLine, Ordered
  <2> QED BY <1>4, <2>1, <2>2, <2>3
<1> HIDE DEF event
<1>6. failed \in AgentState /\ InLine(event, failed)
  <2>1. todo \in {None} \cup (TodoEntries \ event.reconciled)
    BY <1>5 DEF TodoChoices
  <2>2. failed \in AgentState
    BY <1>5, <2>1, FinalizeType
  <2>3. InLine(event, failed)
    BY <1>5, <2>1, FinalizeOrder DEF InLine
  <2> QED BY <2>2, <2>3
<1> HIDE DEF failed
<1>7. chosen \in AgentState /\ InLine(agent, chosen)
  <2>1. InLine(agent, failed)
    BY <1>4, <1>5, <1>6, InLineTransitive
  <2> QED BY <1>3, <1>4, <1>6, <2>1
<1> HIDE DEF chosen
<1>8. settled \in AgentState /\ Obeys(agent, settled)
  <2>1. Obeys(chosen, settled)
    BY <1>7, SettleObeys DEF InLine
  <2> QED BY <1>7, <2>1, SettleType, InLineThenObeys
<1> HIDE DEF settled
<1>9. ended \in AgentState /\ Obeys(agent, ended)
  <2>1. Obeys(agent, gaveUp)
    BY <1>1, <1>4, InLineObeys
  <2> QED BY <1>1, <1>8, <2>1
<1> HIDE DEF ended
<1>10. agent' = ended \/ agent' = ForwarderFailed(ended)
  BY DEF StartFails, ended, settled, chosen, failed, event, rested, started, gaveUp
<1>11. Obeys(agent, ForwarderFailed(ended))
  BY <1>9, StillPlaced, ObeysThenSame
<1>12. Behind(agent, ended) /\ Behind(agent, ForwarderFailed(ended))
  BY <1>9, <1>11, ObeysIsBehind
<1> QED BY <1>10, <1>12

LEMMA StartResolvesOrder ==
  ASSUME TypeOK, NEW t \in Tokens, StartResolves(t)
  PROVE  agent'.prompt = agent.prompt
<1> DEFINE events == agent.staged[t]
           accepted == [type |-> "started", turn |-> t]
           kept == IF accepted \in RangeOf(events) THEN Without(events, accepted) ELSE events
           current == [agent EXCEPT !.activeForegroundTurnId = t, !.activeTurnId = t,
                         !.pendingReplacement = FALSE, !.lifecycle = "running",
                         !.generator[t] = "streaming", !.staged[t] = <<>>]
           gaveUp == [agent EXCEPT !.generator[t] = "done"]
<1>1. current \in AgentState /\ current.prompt = agent.prompt
  <2>1. <<>> \in Seq(Event) /\ t \in Turns
    BY EmptySeq, EntriesType
  <2> QED BY <2>1, AgentType DEF AgentState
<1>2. gaveUp \in AgentState /\ gaveUp.prompt = agent.prompt
  BY AgentType, GeneratorDoneType DEF AgentState
<1> HIDE DEF kept, current, gaveUp
<1>3. \/ agent' = EnqueueAll(current, kept) \/ agent' = gaveUp
      \/ agent' = ForwarderFailed(gaveUp)
  BY DEF StartResolves, kept, current, gaveUp, events
<1>4. /\ SamePlaces(current, EnqueueAll(current, kept))
      /\ SamePlaces(gaveUp, ForwarderFailed(gaveUp))
  BY <1>1, <1>2, StillPlaced
<1> QED BY <1>1, <1>2, <1>3, <1>4 DEF SamePlaces

LEMMA EventOrder ==
  ASSUME TypeOK, Ordered(agent), DeliverEvent
  PROVE  Behind(agent, agent')
<1> DEFINE event == Head(agent.tail)
           rest  == [agent EXCEPT !.tail = Tail(@)]
<1>1. event \in Event /\ Tail(agent.tail) \in Seq(Event)
  BY AgentType, HeadTailProperties DEF DeliverEvent, AgentState
<1>2. rest \in AgentState /\ SamePlaces(agent, rest) /\ SameHandoff(agent, rest)
  BY <1>1, AgentType DEF AgentState, SamePlaces, SameHandoff
<1>3. event.turn \in Turns
  BY <1>1 DEF Event
<1> HIDE DEF event, rest
<1>4. \/ agent' = TurnStarted(rest, event.turn)
      \/ \E todo \in TodoChoices : agent' = TerminalEvent(rest, event.type, event.turn, todo)
  BY DEF DeliverEvent, event, rest
<1>5. InLine(agent, rest) /\ rest.reconciled = agent.reconciled
  BY <1>2, AgentType, StillInLine DEF SamePlaces
<1>6. CASE agent' = TurnStarted(rest, event.turn)
  <2>1. agent'.prompt = agent.prompt
    BY <1>2, <1>6, StillPlaced DEF SamePlaces
  <2> QED BY <2>1, AgentType, PromptsStay DEF Ordered
<1>7. ASSUME NEW todo \in TodoChoices,
             agent' = TerminalEvent(rest, event.type, event.turn, todo)
      PROVE  Behind(agent, agent')
  <2>1. PICK b : b = agent'
    OBVIOUS
  <2>2. /\ todo \in {None} \cup (TodoEntries \ rest.reconciled)
        /\ event.turn \in Turns \cup {None}
    BY <1>3, <1>5 DEF TodoChoices
  <2>3. b \in AgentState
    BY <1>2, <1>7, <2>1, <2>2, TerminalEventType
  <2>4. InLine(rest, b)
    BY <1>2, <1>5, <1>7, <2>1, <2>2, TerminalEventOrder DEF InLine
  <2>5. Behind(agent, b)
    BY <1>5, <2>3, <2>4, InLineTransitive, InLineObeys, ObeysIsBehind
  <2> QED BY <2>1, <2>5
<1> QED BY <1>4, <1>6, <1>7

LEMMA StepOrder ==
  ASSUME PlacesInv, NoRewind, Handoff(agent), HeadsOwn(agent), [Next]_vars
  PROVE  Behind(agent, agent')
<1> USE DEF PlacesInv
<1>0. agent \in AgentState /\ Ordered(agent)
  BY AgentType DEF Ordered
<1>1. ASSUME agent'.prompt = agent.prompt PROVE Behind(agent, agent')
  BY <1>0, <1>1, PromptsStay
<1>2. CASE UNCHANGED vars
  BY <1>1, <1>2 DEF vars
<1>3. ASSUME NEW p \in Prompts, MakeCall(p) \/ Mutation(p) \/ Continuation(p)
      PROVE  Behind(agent, agent')
  BY <1>3, MakeCallOrder, MutationOrder, ContinuationOrder
<1>4. ASSUME NEW t \in Tokens, StartTurn(t) PROVE Behind(agent, agent')
  BY <1>0, <1>1, <1>4, StartResolvesOrder, StartFailsOrder DEF StartTurn
<1>5. ASSUME NEW t \in Tokens, GeneratorEnds(t) PROVE Behind(agent, agent')
  <2> DEFINE finished == [agent EXCEPT !.generator[t] = "done"]
  <2>1. /\ finished \in AgentState /\ SamePlaces(agent, finished)
        /\ SameHandoff(agent, finished)
    BY <1>0, GeneratorDoneType, ZenonT(60) DEF AgentState, SamePlaces, SameHandoff
  <2>2. agent' = settleForegroundRun(finished, t)
    BY <1>5 DEF GeneratorEnds
  <2> HIDE DEF finished
  <2>3. InLine(agent, finished)
    BY <1>0, <2>1, StillInLine
  <2>4. Obeys(finished, settleForegroundRun(finished, t))
    BY <2>1, <2>3, SettleObeys DEF InLine
  <2>5. Behind(agent, settleForegroundRun(finished, t))
    BY <2>3, <2>4, InLineThenObeys, ObeysIsBehind
  <2> QED BY <2>2, <2>5
<1>6. CASE DeliverEvent
  BY <1>0, <1>6, EventOrder
<1>7. CASE EditQueue
  <2>1. agent'.prompt = agent.prompt
    BY <1>0, <1>7 DEF EditQueue, ClearSteerQueue, RemoveSteerQueueEntry,
       ReorderSteerQueueEntry, AgentState
  <2> QED BY <1>1, <2>1
<1>8. CASE Provider
  <2>1. \E event : agent' = enqueueSessionEvent(agent, event)
    BY <1>8 DEF Provider, ProviderBegins, ProviderReportsLate, ProviderEnds, Emit
  <2>2. agent'.prompt = agent.prompt
    BY <1>0, <2>1, StillPlaced DEF SamePlaces
  <2> QED BY <1>1, <2>2
<1> QED BY <1>2, <1>3, <1>4, <1>5, <1>6, <1>7, <1>8 DEF Next

\* What FirstInFirstOut rests on.
QueueInv == PlacesInv /\ NoRewind /\ Handoff(agent) /\ HeadsOwn(agent)

LEMMA QueueStep ==
  ASSUME "rewind" \notin Verbs, QueueInv, [Next]_vars
  PROVE  QueueInv' /\ Behind(agent, agent')
<1> USE DEF QueueInv
<1>1. PlacesInv' /\ NoRewind'
  BY StepPlaces, StepNoRewind DEF PlacesInv
<1>2. Handoff(agent') /\ Behind(agent, agent')
  BY StepHandoff, StepOrder DEF PlacesInv
<1>3. Handoff(agent)' /\ HeadsOwn(agent)'
  BY <1>2 DEF Handoff, WaitersOwned, Behind, HeadsOwn, Given
<1> QED BY <1>1, <1>2, <1>3

LEMMA QueueHolds ==
  ASSUME "rewind" \notin Verbs
  PROVE  Spec => []QueueInv
<1>1. Init => QueueInv
  <2> SUFFICES ASSUME Init PROVE QueueInv
    OBVIOUS
  <2>1. PlacesInv
    BY InitType, InitPlaces DEF PlacesInv
  <2>2. NoRewind
    BY DEF Init, NoRewind, NoCall
  <2>3. Handoff(agent)
    BY DEF Init, Handoff, WaitersOwned
  <2>4. HeadsOwn(agent)
    BY DEF Init, HeadsOwn
  <2> QED BY <2>1, <2>2, <2>3, <2>4 DEF QueueInv
<1>2. QueueInv /\ [Next]_vars => QueueInv'
  BY QueueStep
<1> QED BY <1>1, <1>2, PTL DEF Spec

\* Where nobody rewinds, no message is delivered before one that was ahead of
\* it: over every claim, put-back, merge and settle, for any number of messages
\* and turns and whatever else callers ask for.
THEOREM FirstInFirstOut ==
  ASSUME "rewind" \notin Verbs
  PROVE  Spec => NoOvertaking
<1>1. ASSUME QueueInv, [Next]_vars
      PROVE  \A m, n \in Entries : Ahead(m, n) /\ IsDelivered(n)' => IsDelivered(m)'
  <2>1. Behind(agent, agent')
    BY <1>1, QueueStep
  <2>2. \A m : IsDelivered(m)' <=> Delivered(agent', m)
    BY DEF IsDelivered, Delivered, Given
  <2>3. \A m, n \in Entries : Ahead(m, n) => AheadIn(agent, m, n)
    BY AheadIs
  <2> QED BY <2>1, <2>2, <2>3 DEF Behind, NotPast
<1>2. QueueInv /\ [Next]_vars =>
        [\A m, n \in Entries : Ahead(m, n) /\ IsDelivered(n)' => IsDelivered(m)']_vars
  BY <1>1
<1> QED BY <1>2, QueueHolds, PTL DEF Spec, NoOvertaking

(***************************************************************************)
(* What a cancellation ends.  Events of a turn that is in finalized are    *)
(* dropped, so the synthetic turn_canceled ends the current turn only if   *)
(* that turn was not finalized before: a run gets its prompt once, a turn  *)
(* is finalized only while it is current, and then its generator is told.  *)
(***************************************************************************)
\* A finalized turn has had its run.
Over(a) ==
  \A t \in Tokens :
    /\ a.generator[t] \in {"starting", "streaming"} => a.prompt[t] # <<>>
    /\ t \in RangeOf(a.finalized) =>
         a.prompt[t] # <<>> /\ a.generator[t] \notin {"starting", "streaming"}

\* The runs of b are those of a, except such as got their prompt just now.
Begins(a, b) ==
  \A t \in Tokens :
    \/ b.generator[t] = a.generator[t] /\ b.prompt[t] = a.prompt[t]
    \/ a.prompt[t] = <<>> /\ b.prompt[t] # <<>>

SameTurns(a, b) ==
  /\ b.settled = a.settled /\ b.finalized = a.finalized
  /\ b.activeForegroundTurnId = a.activeForegroundTurnId

Fresh(a, b) == Begins(a, b) /\ SameTurns(a, b)

\* A run that is starting has begun just now or was starting before, and goes on.
Starts(a, b) ==
  \A t \in Tokens :
    /\ b.generator[t] = "starting" => a.generator[t] = "starting" \/ a.prompt[t] = <<>>
    /\ a.generator[t] = "starting" /\ a.prompt[t] # <<>> => b.generator[t] = "starting"
    /\ a.prompt[t] # <<>> => b.prompt[t] # <<>>

LEMMA BeginsStarts == ASSUME NEW a, NEW b, Begins(a, b) PROVE Starts(a, b)
BY DEF Begins, Starts

LEMMA StartsTransitive ==
  ASSUME NEW a, NEW b, NEW c, Starts(a, b), Starts(b, c) PROVE Starts(a, c)
BY DEF Starts

LEMMA BeginsOver ==
  ASSUME NEW a, NEW b, Over(a), Begins(a, b), RangeOf(b.finalized) \subseteq RangeOf(a.finalized)
  PROVE  Over(b)
BY DEF Over, Begins

LEMMA SameRunsFresh ==
  ASSUME NEW a, NEW b, SameRuns(a, b) PROVE Fresh(a, b)
BY DEF SameRuns, Fresh, Begins, SameTurns

LEMMA FreshTransitive ==
  ASSUME NEW a, NEW b, NEW c, Fresh(a, b), Fresh(b, c) PROVE Fresh(a, c)
BY DEF Fresh, Begins, SameTurns

LEMMA FreshOver ==
  ASSUME NEW a, NEW b, Over(a), Fresh(a, b) PROVE Over(b)
BY BeginsOver DEF Fresh, SameTurns

\* A message that is not delivered has no run.
LEMMA Unprompted ==
  ASSUME NEW a, Lone(a), HeadsOwn(a), NEW m \in Tokens,
         m \in InQueue(a) \/ \E t \in Tokens : m \in Waits(a, t)
  PROVE  a.prompt[m] = <<>>
<1>1. m \in Entries
  BY EntriesType
<1> QED BY <1>1 DEF Lone, HeadsOwn

LEMMA StreamFresh ==
  ASSUME NEW a \in AgentState, NEW token \in Tokens, a.prompt[token] = <<>>,
         NEW batch \in Seq(Entries) \ {<<>>}
  PROVE  Fresh(a, streamAgent(a, token, batch))
<1> DEFINE b == streamAgent(a, token, batch)
<1>1. /\ b.prompt[token] = batch /\ SameTurns(a, b)
      /\ \A t \in Tokens \ {token} :
           b.prompt[t] = a.prompt[t] /\ b.generator[t] = a.generator[t]
  BY DEF streamAgent, AgentState, SameTurns
<1> HIDE DEF b
<1>2. Fresh(a, b)
  BY <1>1 DEF Fresh, Begins
<1> QED BY <1>2 DEF b

LEMMA DeliverFresh ==
  ASSUME NEW a \in AgentState, NEW batch \in Seq(Entries) \ {<<>>},
         a.prompt[Head(batch)] = <<>>
  PROVE  Fresh(a, DeliverBatch(a, batch))
<1>1. CASE ~a.pendingSteerDrain
  BY <1>1 DEF DeliverBatch, Fresh, Begins, SameTurns
<1>2. CASE a.pendingSteerDrain /\ SlotTaken(a)
  <2> DEFINE b == [a EXCEPT !.pendingSteerDrain = FALSE,
                            !.steerQueue = batch \o a.steerQueue]
  <2>1. SameRuns(a, b)
    BY DEF AgentState, SameRuns
  <2>2. DeliverBatch(a, batch) = b
    BY <1>2 DEF DeliverBatch
  <2> HIDE DEF b
  <2> QED BY <2>1, <2>2, SameRunsFresh
<1>3. CASE a.pendingSteerDrain /\ ~SlotTaken(a)
  <2>1. Head(batch) \in Tokens
    BY HeadInBatch
  <2>2. DeliverBatch(a, batch) = streamAgent(a, Head(batch), batch)
    BY <1>3 DEF DeliverBatch
  <2> QED BY <2>1, <2>2, StreamFresh
<1> QED BY <1>1, <1>2, <1>3 DEF AgentState

LEMMA DispatchFresh ==
  ASSUME NEW a \in AgentState, NEW batch \in Seq(Entries) \ {<<>>},
         a.prompt[Head(batch)] = <<>>
  PROVE  Fresh(a, dispatchSteerQueueBatch(a, batch))
<1>1. CASE hasPendingRun(a)
  <2> DEFINE b == [a EXCEPT !.waiting[a.run] = Append(@, batch)]
  <2>1. SameRuns(a, b)
    BY DEF AgentState, SameRuns
  <2>2. dispatchSteerQueueBatch(a, batch) = b
    BY <1>1 DEF dispatchSteerQueueBatch
  <2> HIDE DEF b
  <2> QED BY <2>1, <2>2, SameRunsFresh
<1>2. CASE ~hasPendingRun(a)
  BY <1>2, DeliverFresh DEF dispatchSteerQueueBatch
<1> QED BY <1>1, <1>2

LEMMA SettleBegins ==
  ASSUME NEW a \in AgentState, Lone(a), HeadsOwn(a), NEW token \in Tokens,
         NEW b, b = settleForegroundRun(a, token)
  PROVE  /\ Begins(a, b) /\ b.finalized = a.finalized
         /\ b.activeForegroundTurnId = a.activeForegroundTurnId
         /\ b.settled \subseteq a.settled \cup {token}
<1> DEFINE cleared == [a EXCEPT !.run = None, !.settled = @ \cup {token},
                                !.waiting[token] = <<>>]
           batch == Head(a.waiting[token])
<1>1. /\ cleared.generator = a.generator /\ cleared.prompt = a.prompt
      /\ cleared.finalized = a.finalized /\ cleared.settled = a.settled \cup {token}
      /\ cleared.activeForegroundTurnId = a.activeForegroundTurnId
  BY DEF AgentState
<1>2. cleared \in AgentState
  <2>1. <<>> \in Seq(Seq(Entries) \ {<<>>})
    BY EmptySeq
  <2> QED BY <2>1 DEF AgentState
<1>3. \/ b = a \/ b = cleared
      \/ a.waiting[token] # <<>> /\ b = DeliverBatch(cleared, batch)
  BY DEF settleForegroundRun
<1> HIDE DEF cleared
<1>4. CASE b = a \/ b = cleared
  BY <1>1, <1>4 DEF Begins
<1>5. CASE a.waiting[token] # <<>> /\ b = DeliverBatch(cleared, batch)
  <2>1. a.waiting[token] \in Batches
    BY DEF AgentState, Batches
  <2>2. batch \in Seq(Entries) \ {<<>>} /\ RangeOf(batch) \subseteq Waits(a, token)
    BY <1>5, <2>1, BatchesHead DEF Waits
  <2> HIDE DEF batch
  <2>3. Head(batch) \in Tokens /\ Head(batch) \in Waits(a, token)
    BY <2>2, HeadInBatch
  <2>4. cleared.prompt[Head(batch)] = <<>>
    BY <1>1, <2>3, Unprompted
  <2>5. Fresh(cleared, b)
    BY <1>2, <1>5, <2>2, <2>4, DeliverFresh
  <2> QED BY <1>1, <2>5 DEF Fresh, SameTurns, Begins
<1> QED BY <1>3, <1>4, <1>5

LEMMA ClaimFresh ==
  ASSUME NEW a \in AgentState, Lone(a), HeadsOwn(a), a.steerQueue # <<>>,
         NEW b, b = dispatchSteerQueueBatch(
           [a EXCEPT !.steerQueue = takeNextSteerQueueBatch(a.steerQueue).rest,
                     !.pendingSteerDrain = TRUE, !.lifecycle = "running"],
           takeNextSteerQueueBatch(a.steerQueue).entries)
  PROVE  Fresh(a, b)
<1> DEFINE batch == takeNextSteerQueueBatch(a.steerQueue)
           taken == [a EXCEPT !.steerQueue = batch.rest,
                              !.pendingSteerDrain = TRUE, !.lifecycle = "running"]
<1>1. a.steerQueue \in Seq(Entries) /\ Once(a.steerQueue)
  BY DEF AgentState, Lone
<1>2. batch.entries \in Seq(Entries) \ {<<>>} /\ batch.rest \in Seq(Entries)
  BY <1>1, BatchSplits, SMTT(40)
<1>3. RangeOf(batch.entries) \subseteq InQueue(a)
  BY <1>1, BatchOnce DEF InQueue
<1>4. b = dispatchSteerQueueBatch(taken, batch.entries)
  OBVIOUS
<1> HIDE DEF batch
<1>5. taken \in AgentState /\ SameRuns(a, taken)
  BY <1>2 DEF AgentState, SameRuns
<1> HIDE DEF taken
<1>6. Head(batch.entries) \in Tokens /\ Head(batch.entries) \in InQueue(a)
  BY <1>2, <1>3, HeadInBatch
<1>7. taken.prompt[Head(batch.entries)] = <<>>
  BY <1>5, <1>6, Unprompted DEF SameRuns
<1>8. Fresh(taken, b)
  BY <1>2, <1>4, <1>5, <1>7, DispatchFresh
<1> QED BY <1>5, <1>8, SameRunsFresh, FreshTransitive

LEMMA RestOrDrainFresh ==
  ASSUME NEW a \in AgentState, Lone(a), HeadsOwn(a), NEW held \in BOOLEAN
  PROVE  Fresh(a, RestOrDrain(a, held))
<1>1. CASE held \/ a.lastError \/ a.steerQueueHeld \/ a.steerQueue = <<>>
  <2>1. SameRuns(a, RestOrDrain(a, held))
    BY <1>1 DEF RestOrDrain, SameRuns, AgentState
  <2> QED BY <2>1, SameRunsFresh
<1>2. CASE ~(held \/ a.lastError \/ a.steerQueueHeld \/ a.steerQueue = <<>>)
  BY <1>2, ClaimFresh DEF RestOrDrain
<1> QED BY <1>1, <1>2

LEMMA RememberedRuns ==
  ASSUME NEW a \in AgentState, NEW turn \in Turns \cup {None},
         NEW b, b = rememberFinalizedTurn(a, turn)
  PROVE  /\ b.generator = a.generator /\ b.prompt = a.prompt /\ b.settled = a.settled
         /\ RangeOf(b.finalized) \subseteq RangeOf(a.finalized) \cup {turn}
         /\ turn = None => b = a
<1> DEFINE added == Append(a.finalized, turn)
<1>1. a.finalized \in Seq(Turns)
  BY DEF AgentState
<1>2. CASE turn = None \/ turn \in RangeOf(a.finalized)
  BY <1>2 DEF rememberFinalizedTurn
<1>3. CASE ~(turn = None \/ turn \in RangeOf(a.finalized))
  <2>1. turn \in Turns
    BY <1>3
  <2>2. /\ added \in Seq(Turns) /\ added # <<>> /\ Len(added) = Len(a.finalized) + 1
        /\ \A i \in 1 .. Len(added) : added[i] \in RangeOf(a.finalized) \cup {turn}
    BY <1>1, <2>1 DEF RangeOf
  <2>3. RangeOf(added) \subseteq RangeOf(a.finalized) \cup {turn}
    BY <2>2 DEF RangeOf
  <2>4. RangeOf(Tail(added)) \subseteq RangeOf(a.finalized) \cup {turn}
    <3>1. \A i \in DOMAIN Tail(added) : i + 1 \in 1 .. Len(added) /\ Tail(added)[i] = added[i + 1]
      BY <2>2
    <3> QED BY <2>2, <3>1 DEF RangeOf
  <2>5. b = [a EXCEPT !.finalized =
               IF Len(added) > FinalizedLimit THEN Tail(added) ELSE added]
    BY <1>3 DEF rememberFinalizedTurn
  <2> HIDE DEF added
  <2> QED BY <1>3, <2>3, <2>4, <2>5 DEF AgentState
<1> QED BY <1>2, <1>3

\* A turn that is finalized is remembered, and at most one run begins with it.
LEMMA FinalizeBegins ==
  ASSUME NEW a \in AgentState, Lone(a), HeadsOwn(a), NEW turn \in Turns \cup {None},
         NEW todo \in {None} \cup (TodoEntries \ a.reconciled),
         NEW b, b = finalizeForegroundTurn(a, turn, todo)
  PROVE  /\ Begins(a, b) /\ b.settled = a.settled /\ b.activeForegroundTurnId = None
         /\ RangeOf(b.finalized) \subseteq RangeOf(a.finalized) \cup {turn}
         /\ turn = None => b.finalized = a.finalized
<1> DEFINE remembered == rememberFinalizedTurn(a, turn)
           noTurn == [remembered EXCEPT !.activeForegroundTurnId = None]
           closed == applyActiveTurnTerminal(noTurn, turn)
           parked == maybeEnqueueTodoReconcile(closed, todo)
           held   == a.pendingReplacement /\ ~a.lastError
<1>1. /\ remembered \in AgentState /\ SamePlaces(a, remembered)
      /\ remembered.generator = a.generator /\ remembered.prompt = a.prompt
      /\ remembered.settled = a.settled
      /\ RangeOf(remembered.finalized) \subseteq RangeOf(a.finalized) \cup {turn}
      /\ turn = None => remembered = a
  BY RememberType, StillPlaced, RememberedRuns
<1> HIDE DEF remembered
<1>2. /\ noTurn \in AgentState /\ SamePlaces(remembered, noTurn)
      /\ noTurn.activeForegroundTurnId = None /\ noTurn.generator = remembered.generator
      /\ noTurn.prompt = remembered.prompt /\ noTurn.settled = remembered.settled
      /\ noTurn.finalized = remembered.finalized
  BY <1>1 DEF AgentState, SamePlaces
<1> HIDE DEF noTurn
<1>3. closed \in AgentState /\ SamePlaces(noTurn, closed) /\ SameRuns(noTurn, closed)
  BY <1>2, TerminalType, StillPlaced, StillRuns
<1> HIDE DEF closed
<1>4. Lone(closed) /\ closed.reconciled = a.reconciled /\ closed.prompt = a.prompt
  BY <1>1, <1>2, <1>3, SameKeepsPlaces DEF SamePlaces, NoneNew
<1>5. parked \in AgentState /\ Lone(parked) /\ SameRuns(closed, parked)
  <2>1. todo \in {None} \cup (TodoEntries \ closed.reconciled)
    BY <1>4
  <2> QED BY <1>3, <1>4, <2>1, TodoType, TodoPlaces, StillRuns DEF NothingAsked
<1> HIDE DEF parked
<1>6. HeadsOwn(parked)
  BY <1>4, <1>5 DEF SameRuns, HeadsOwn, Given
<1>7. held \in BOOLEAN /\ b = RestOrDrain(parked, held)
  BY DEF finalizeForegroundTurn, parked, closed, noTurn, remembered, AgentState
<1> HIDE DEF held
<1>8. Fresh(parked, b)
  BY <1>5, <1>6, <1>7, RestOrDrainFresh
<1>9. /\ parked.generator = a.generator /\ parked.prompt = a.prompt
      /\ parked.settled = a.settled /\ parked.activeForegroundTurnId = None
      /\ parked.finalized = remembered.finalized
  BY <1>1, <1>2, <1>3, <1>5 DEF SameRuns
<1> QED BY <1>1, <1>8, <1>9 DEF Fresh, Begins, SameTurns

\* A terminal event that names its turn ends that turn if it is current.
LEMMA TerminalEventOver ==
  ASSUME NEW a \in AgentState, Lone(a), HeadsOwn(a), Over(a), Slotted(a), NEW kind,
         NEW eventTurn \in Turns \cup {None},
         eventTurn # None \/ a.activeForegroundTurnId = None,
         NEW todo \in {None} \cup (TodoEntries \ a.reconciled),
         NEW b, b = TerminalEvent(a, kind, eventTurn, todo)
  PROVE  /\ Over(b) /\ Starts(a, b) /\ b.settled = a.settled
         /\ b.activeForegroundTurnId \in {a.activeForegroundTurnId, None}
         /\ b.activeForegroundTurnId # eventTurn \/ eventTurn = None
<1> DEFINE turn == ManagedTurn(a, eventTurn)
           isForeground == turn # None /\ a.activeForegroundTurnId = turn
           closed == applyActiveTurnTerminal(a, turn)
           ended  == IF TerminalDisposition(a, turn) = "stale" THEN closed
                     ELSE TurnEnded(closed, kind, isForeground)
           final  == IF isForeground THEN finalizeForegroundTurn(ended, turn, todo)
                     ELSE ended
           marked == [final EXCEPT !.generator[eventTurn] = "ending"]
<1>1. b = IF turn \in RangeOf(a.finalized) THEN a
          ELSE IF eventTurn \in Tokens /\ a.generator[eventTurn] = "streaming"
               THEN marked ELSE final
  BY DEF TerminalEvent, marked, final, ended, closed, isForeground, turn
<1>2. turn \in Turns \cup {None} /\ isForeground \in BOOLEAN
  BY EntriesType DEF ManagedTurn, AgentState
<1>3. eventTurn # None => turn = eventTurn
  BY DEF ManagedTurn
<1>4. isForeground => /\ turn = eventTurn /\ a.activeForegroundTurnId = eventTurn
                      /\ eventTurn \in Tokens /\ a.generator[eventTurn] = "streaming"
                      /\ eventTurn \notin RangeOf(a.finalized)
  <2>1. SUFFICES ASSUME isForeground
                 PROVE  /\ turn = eventTurn /\ a.activeForegroundTurnId = eventTurn
                        /\ eventTurn \in Tokens /\ a.generator[eventTurn] = "streaming"
                        /\ eventTurn \notin RangeOf(a.finalized)
    OBVIOUS
  <2>2. turn = eventTurn /\ a.activeForegroundTurnId = eventTurn /\ eventTurn # None
    BY <1>3, <2>1
  <2>3. eventTurn \in Tokens /\ a.generator[eventTurn] = "streaming"
    BY <2>2 DEF AgentState, Slotted
  <2> QED BY <2>2, <2>3 DEF Over
<1>5. eventTurn # None /\ a.activeForegroundTurnId = eventTurn => isForeground
  BY <1>3
<1> HIDE DEF turn, isForeground
<1>6. closed \in AgentState /\ SamePlaces(a, closed) /\ SameRuns(a, closed)
  BY TerminalType, StillPlaced, StillRuns
<1> HIDE DEF closed
<1>7. ended \in AgentState /\ SamePlaces(a, ended) /\ SameRuns(a, ended)
  <2>1. /\ TurnEnded(closed, kind, isForeground) \in AgentState
        /\ SamePlaces(closed, TurnEnded(closed, kind, isForeground))
        /\ SameRuns(closed, TurnEnded(closed, kind, isForeground))
    BY <1>2, <1>6, TurnEndedType, StillPlaced, StillRuns
  <2> QED BY <1>6, <2>1 DEF SamePlaces, SameRuns
<1> HIDE DEF ended
<1>8. /\ final \in AgentState /\ Begins(a, final) /\ final.settled = a.settled
      /\ final.activeForegroundTurnId
           = IF isForeground THEN None ELSE a.activeForegroundTurnId
      /\ RangeOf(final.finalized)
           \subseteq RangeOf(a.finalized) \cup (IF isForeground THEN {eventTurn} ELSE {})
  <2>1. CASE isForeground
    <3>1. final = finalizeForegroundTurn(ended, turn, todo)
      BY <2>1
    <3>2. /\ todo \in {None} \cup (TodoEntries \ ended.reconciled)
          /\ Lone(ended) /\ HeadsOwn(ended)
      BY <1>7, SameKeepsPlaces DEF SamePlaces, NoneNew, HeadsOwn, Given
    <3> HIDE DEF final
    <3>3. final \in AgentState
      BY <1>2, <1>7, <3>1, FinalizeType
    <3>4. /\ Begins(ended, final) /\ final.settled = ended.settled
          /\ final.activeForegroundTurnId = None
          /\ RangeOf(final.finalized) \subseteq RangeOf(ended.finalized) \cup {turn}
      <4>1. turn \in Turns \cup {None}
        BY <1>2
      <4>2. ended \in AgentState
        BY <1>7
      <4> QED BY <3>1, <3>2, <4>1, <4>2, FinalizeBegins
    <3> QED BY <1>4, <1>7, <2>1, <3>3, <3>4 DEF SameRuns, Begins
  <2>2. CASE ~isForeground
    BY <1>7, <2>2 DEF SameRuns, Begins
  <2> QED BY <1>2, <2>1, <2>2
<1> HIDE DEF final
<1>9. CASE turn \in RangeOf(a.finalized)
  <2>1. Starts(a, a)
    BY DEF Starts
  <2> QED BY <1>1, <1>4, <1>5, <1>9, <2>1
<1>10. CASE turn \notin RangeOf(a.finalized) /\ b = marked /\ eventTurn \in Tokens
            /\ a.generator[eventTurn] = "streaming"
  <2>1. /\ b.generator[eventTurn] = "ending" /\ b.prompt = final.prompt
        /\ \A t \in Tokens \ {eventTurn} : b.generator[t] = final.generator[t]
        /\ b.finalized = final.finalized /\ b.settled = final.settled
        /\ b.activeForegroundTurnId = final.activeForegroundTurnId
    BY <1>8, <1>10 DEF AgentState
  <2>2. b.prompt[eventTurn] # <<>>
    BY <1>8, <1>10, <2>1 DEF Over, Begins
  <2>3. RangeOf(b.finalized) \subseteq RangeOf(a.finalized) \cup {eventTurn}
    BY <1>8, <2>1
  <2> HIDE DEF marked
  <2>4. ASSUME NEW t \in Tokens \ {eventTurn}
        PROVE  /\ b.generator[t] \in {"starting", "streaming"} => b.prompt[t] # <<>>
               /\ t \in RangeOf(b.finalized) =>
                    b.prompt[t] # <<>> /\ b.generator[t] \notin {"starting", "streaming"}
    BY <1>8, <2>1, <2>3 DEF Over, Begins
  <2>5. Over(b)
    BY <2>1, <2>2, <2>4 DEF Over
  <2>6. Starts(a, b)
    BY <1>8, <1>10, <2>1 DEF Starts, Begins
  <2> QED BY <1>5, <1>8, <2>1, <2>5, <2>6
<1>11. CASE turn \notin RangeOf(a.finalized) /\ b = final
            /\ ~(eventTurn \in Tokens /\ a.generator[eventTurn] = "streaming")
  <2>1. ~isForeground
    BY <1>4, <1>11
  <2>2. Over(b) /\ Starts(a, b)
    BY <1>8, <1>11, <2>1, BeginsOver, BeginsStarts
  <2> QED BY <1>5, <1>8, <1>11, <2>1, <2>2
<1> QED BY <1>1, <1>9, <1>10, <1>11

(***************************************************************************)
(* Every step keeps it.                                                    *)
(***************************************************************************)
CancelInv == QueueInv /\ Slotted(agent) /\ Over(agent)

LEMMA OwnPromptOver ==
  ASSUME TypeOK, HeadsOwn(agent), Over(agent), NEW p \in Prompts, ~Placed(agent, p),
         OwnPrompt(p), NEW b, b = agent'
  PROVE  Over(b)
<1>1. CASE SameRuns(agent, agent')
  BY <1>1, SameRunsFresh, FreshOver
<1>2. CASE agent' = streamAgent(agent, p, <<p>>)
  <2>1. <<p>> \in Seq(Entries) \ {<<>>} /\ p \in Tokens
    BY PromptBatch
  <2>2. agent.prompt[p] = <<>>
    BY <2>1 DEF HeadsOwn, Placed
  <2>3. Fresh(agent, streamAgent(agent, p, <<p>>))
    BY <2>1, <2>2, AgentType, StreamFresh
  <2> QED BY <1>2, <2>3, FreshOver
<1> QED BY <1>1, <1>2 DEF OwnPrompt

\* What the end of a cancellation does to the turn it captured.
LEMMA CancelSettlesOver ==
  ASSUME CancelInv, NEW p \in Prompts, CancelSettles(p), NEW b, b = agent'
  PROVE  /\ Over(b)
         /\ b.settled \subseteq agent.settled \cup {call[p].run}
         /\ call[p].turn # None => b.activeForegroundTurnId # call[p].turn
         /\ b.activeForegroundTurnId # agent.activeForegroundTurnId
              => agent.activeForegroundTurnId = call[p].turn
<1> DEFINE turn == call[p].turn
           run == call[p].run
<1>1. /\ agent \in AgentState /\ Lone(agent) /\ HeadsOwn(agent) /\ Over(agent)
      /\ Slotted(agent)
  BY AgentType DEF CancelInv, QueueInv, PlacesInv
<1>2. turn \in Turns \cup {None} /\ run \in Tokens \cup {None}
  BY DEF CancelInv, QueueInv, PlacesInv, TypeOK, CallState
<1>3. \/ /\ turn # None /\ agent.activeForegroundTurnId = turn
         /\ \E todo \in TodoChoices : b = TerminalEvent(agent, "canceled", turn, todo)
      \/ /\ ~(turn # None /\ agent.activeForegroundTurnId = turn)
         /\ b = agent \/ (run # None /\ b = settleForegroundRun(agent, run))
  BY DEF CancelSettles, CapturedRun
<1> HIDE DEF turn, run
<1>4. ASSUME turn # None, agent.activeForegroundTurnId = turn, NEW todo \in TodoChoices,
             b = TerminalEvent(agent, "canceled", turn, todo)
      PROVE  /\ Over(b) /\ b.settled = agent.settled
             /\ b.activeForegroundTurnId # turn
  BY <1>1, <1>2, <1>4, TerminalEventOver DEF TodoChoices
<1>5. CASE b = agent /\ ~(turn # None /\ agent.activeForegroundTurnId = turn)
  BY <1>1, <1>5 DEF turn, run
<1>6. CASE run # None /\ b = settleForegroundRun(agent, run)
           /\ ~(turn # None /\ agent.activeForegroundTurnId = turn)
  <2>1. /\ Begins(agent, b) /\ b.finalized = agent.finalized
        /\ b.activeForegroundTurnId = agent.activeForegroundTurnId
        /\ b.settled \subseteq agent.settled \cup {run}
    BY <1>1, <1>2, <1>6, SettleBegins
  <2>2. Over(b)
    BY <1>1, <2>1, BeginsOver
  <2> QED BY <1>6, <2>1, <2>2 DEF turn, run
<1> QED BY <1>3, <1>4, <1>5, <1>6 DEF turn, run

LEMMA RestsOver ==
  ASSUME CancelInv, NEW p \in Prompts, FinalizeOutOfBandRun(p), NEW b, b = agent'
  PROVE  Over(b)
<1> DEFINE left == IF agent.outOfBandRunCount > 0 THEN agent.outOfBandRunCount - 1 ELSE 0
           fewer == [agent EXCEPT !.outOfBandRunCount = left]
<1>1. agent \in AgentState /\ Lone(agent) /\ HeadsOwn(agent) /\ Over(agent)
  BY AgentType DEF CancelInv, QueueInv, PlacesInv
<1>2. left \in Nat
  BY <1>1 DEF AgentState
<1>3. b = fewer \/ b = RestOrDrain(fewer, FALSE)
  BY DEF FinalizeOutOfBandRun
<1> HIDE DEF left
<1>4. fewer \in AgentState /\ SamePlaces(agent, fewer) /\ SameRuns(agent, fewer)
  BY <1>1, <1>2 DEF AgentState, SamePlaces, SameRuns
<1> HIDE DEF fewer
<1>5. Lone(fewer) /\ HeadsOwn(fewer) /\ Over(fewer)
  BY <1>1, <1>4, SameKeepsPlaces, SameKeepsOrder, SameRunsFresh, FreshOver DEF NoneNew
<1>6. Over(RestOrDrain(fewer, FALSE))
  BY <1>4, <1>5, RestOrDrainFresh, FreshOver
<1> QED BY <1>3, <1>5, <1>6

\* The generator of a run gives up, is told of the end, or runs into an error.
LEMMA DoneOver ==
  ASSUME NEW a \in AgentState, Over(a), NEW t \in Tokens,
         NEW b, b = [a EXCEPT !.generator[t] = "done"]
  PROVE  /\ b \in AgentState /\ Over(b) /\ SamePlaces(a, b)
         /\ b.generator[t] = "done" /\ \A u \in Tokens \ {t} : b.generator[u] = a.generator[u]
         /\ b.settled = a.settled /\ SameHandoff(a, b)
         /\ b.activeForegroundTurnId = a.activeForegroundTurnId
<1>1. b \in AgentState
  BY GeneratorDoneType
<1>2. /\ SamePlaces(a, b) /\ b.prompt = a.prompt /\ b.finalized = a.finalized
      /\ b.generator[t] = "done" /\ \A u \in Tokens \ {t} : b.generator[u] = a.generator[u]
      /\ b.settled = a.settled /\ SameHandoff(a, b)
      /\ b.activeForegroundTurnId = a.activeForegroundTurnId
  BY DEF AgentState, SamePlaces, SameHandoff
<1>3. Over(b)
  BY <1>2 DEF Over
<1> QED BY <1>1, <1>2, <1>3

LEMMA StartFailsOver ==
  ASSUME CancelInv, NEW t \in Tokens, NEW stale \in BOOLEAN,
         NEW todo \in TodoChoices, StartFails(t, stale, todo), NEW b, b = agent'
  PROVE  Over(b) /\ Starts([agent EXCEPT !.generator[t] = "done"], b)
<1> DEFINE gaveUp  == [agent EXCEPT !.generator[t] = "done"]
           started == [gaveUp EXCEPT !.pendingReplacement = FALSE]
           rested  == IF agent.activeForegroundTurnId = None
                      THEN [started EXCEPT !.lifecycle = "idle"] ELSE started
           event   == TerminalEvent(started, "failed", None, None)
           failed  == finalizeForegroundTurn(event, None, todo)
           chosen  == IF stale THEN rested ELSE failed
           settled == settleForegroundRun(chosen, t)
           ended   == IF t \in agent.settled THEN gaveUp ELSE settled
<1>0. agent \in AgentState /\ Ordered(agent) /\ Over(agent) /\ Slotted(agent)
  BY AgentType DEF CancelInv, QueueInv, PlacesInv, Ordered
<1>1. agent.generator[t] = "starting" /\ (b = ended \/ b = ForwarderFailed(ended))
  BY DEF StartFails, ended, settled, chosen, failed, event, rested, started, gaveUp
<1> SUFFICES Over(b) /\ Starts(gaveUp, b)
  OBVIOUS
<1>2. /\ gaveUp \in AgentState /\ Over(gaveUp) /\ SamePlaces(agent, gaveUp)
      /\ gaveUp.generator[t] = "done"
      /\ \A u \in Tokens \ {t} : gaveUp.generator[u] = agent.generator[u]
      /\ gaveUp.settled = agent.settled /\ SameHandoff(agent, gaveUp)
      /\ gaveUp.activeForegroundTurnId = agent.activeForegroundTurnId
  <2>1. gaveUp = [agent EXCEPT !.generator[t] = "done"]
    OBVIOUS
  <2>2. agent \in AgentState /\ Over(agent)
    BY <1>0
  <2> HIDE DEF gaveUp
  <2>3. gaveUp \in AgentState /\ Over(gaveUp) /\ SamePlaces(agent, gaveUp)
    BY <2>1, <2>2, DoneOver
  <2>4. SameHandoff(agent, gaveUp)
    BY <2>1, <2>2, DoneOver
  <2>5. /\ gaveUp.settled = agent.settled
        /\ gaveUp.activeForegroundTurnId = agent.activeForegroundTurnId
    BY <2>1, <2>2, DoneOver
  <2>6. gaveUp.generator = [agent.generator EXCEPT ![t] = "done"]
    BY <2>1, <2>2 DEF AgentState
  <2>7. /\ gaveUp.generator[t] = "done"
        /\ \A u \in Tokens \ {t} : gaveUp.generator[u] = agent.generator[u]
    BY <2>2, <2>6 DEF AgentState
  <2> QED BY <2>3, <2>4, <2>5, <2>7
<1> HIDE DEF gaveUp
<1>3. ASSUME t \notin agent.settled PROVE settled \in AgentState /\ Over(settled) /\ Starts(gaveUp, settled)
  <2>1. agent.activeForegroundTurnId = None
    <3>1. agent.run = t
      BY <1>0, <1>1, <1>3 DEF Slotted
    <3> QED BY <1>0, <1>1, <3>1 DEF Slotted
  <2>2. /\ started \in AgentState /\ SamePlaces(agent, started) /\ SameRuns(gaveUp, started)
        /\ SameHandoff(agent, started) /\ started.activeForegroundTurnId = None
    <3>1. gaveUp \in AgentState
      BY <1>2
    <3>2. started \in AgentState
      BY <3>1 DEF AgentState
    <3>3. SamePlaces(gaveUp, started) /\ SameRuns(gaveUp, started) /\ SameHandoff(gaveUp, started)
      BY <3>1 DEF AgentState, SamePlaces, SameRuns, SameHandoff
    <3> HIDE DEF started
    <3>4. SamePlaces(agent, started) /\ SameHandoff(agent, started)
      BY <1>2, <3>3 DEF SamePlaces, SameHandoff
    <3>5. started.activeForegroundTurnId = None
      BY <1>2, <2>1, <3>3 DEF SameRuns
    <3> QED BY <3>2, <3>3, <3>4, <3>5
  <2> HIDE DEF started
  <2>3. InLine(agent, started) /\ Over(started) /\ Starts(gaveUp, started)
    BY <1>0, <1>2, <2>2, StillInLine, SameRunsFresh, FreshOver, BeginsStarts DEF Fresh
  <2>4. Slotted(started)
    <3>1. \A u \in Tokens : started.generator[u] \in {"starting", "streaming", "ending"}
            => u # t /\ started.generator[u] = agent.generator[u]
      BY <1>2, <2>2 DEF SameRuns
    <3>2. started.settled = agent.settled /\ started.run = agent.run
      BY <1>2, <2>2 DEF SameRuns, SameHandoff
    <3> QED BY <1>0, <2>2, <3>1, <3>2 DEF Slotted
  <2>5. rested \in AgentState /\ Ordered(rested) /\ Over(rested) /\ Starts(started, rested)
    <3> DEFINE idle == [started EXCEPT !.lifecycle = "idle"]
    <3>1. /\ idle \in AgentState /\ SamePlaces(started, idle) /\ SameRuns(started, idle)
          /\ SameHandoff(started, idle)
      BY <2>2, ZenonT(60) DEF AgentState, SamePlaces, SameRuns, SameHandoff
    <3>2. rested = idle
      BY <2>1
    <3> HIDE DEF idle, rested
    <3>3. InLine(started, idle)
      BY <2>2, <2>3, <3>1, StillInLine DEF InLine
    <3> QED BY <2>3, <3>1, <3>2, <3>3, SameRunsFresh, FreshOver, BeginsStarts DEF InLine, Fresh
  <2> HIDE DEF rested
  <2>6. /\ event \in AgentState /\ Ordered(event) /\ Over(event) /\ Starts(started, event)
        /\ event.reconciled = agent.reconciled
    <3>1. event \in AgentState
      BY <2>2, TerminalEventType
    <3>2. InLine(started, event)
      BY <2>2, <2>3, TerminalEventOrder DEF InLine
    <3>3. event.reconciled = started.reconciled
      BY <2>2, <2>3, TerminalEventPlaces DEF InLine, Ordered
    <3>4. Over(event) /\ Starts(started, event)
      BY <2>2, <2>3, <2>4, TerminalEventOver DEF InLine, Ordered
    <3> QED BY <2>2, <3>1, <3>2, <3>3, <3>4 DEF InLine, SamePlaces
  <2> HIDE DEF event
  <2>7. failed \in AgentState /\ Ordered(failed) /\ Over(failed) /\ Starts(event, failed)
    <3>1. todo \in {None} \cup (TodoEntries \ event.reconciled)
      BY <2>6 DEF TodoChoices
    <3>2. failed \in AgentState
      BY <2>6, <3>1, FinalizeType
    <3>3. Begins(event, failed) /\ failed.finalized = event.finalized
      BY <2>6, <3>1, FinalizeBegins DEF Ordered
    <3>4. InLine(event, failed)
      BY <2>6, <3>1, FinalizeOrder
    <3> QED BY <2>6, <3>2, <3>3, <3>4, BeginsOver, BeginsStarts DEF InLine
  <2> HIDE DEF failed
  <2>8. /\ chosen \in AgentState /\ Lone(chosen) /\ HeadsOwn(chosen) /\ Over(chosen)
        /\ Starts(gaveUp, chosen)
    BY <2>3, <2>5, <2>6, <2>7, StartsTransitive DEF Ordered
  <2> HIDE DEF chosen
  <2>9. settled \in AgentState
    BY <2>8, SettleType
  <2>10. Begins(chosen, settled) /\ settled.finalized = chosen.finalized
    BY <2>8, SettleBegins
  <2> QED BY <2>8, <2>9, <2>10, BeginsOver, BeginsStarts, StartsTransitive
<1> HIDE DEF settled
<1>4. ended \in AgentState /\ Over(ended) /\ Starts(gaveUp, ended)
  <2>1. Starts(gaveUp, gaveUp)
    BY DEF Starts
  <2> QED BY <1>2, <1>3, <2>1
<1> HIDE DEF ended
<1>5. Over(ForwarderFailed(ended)) /\ Starts(gaveUp, ForwarderFailed(ended))
  <2>1. Fresh(ended, ForwarderFailed(ended))
    BY <1>4, StillRuns, SameRunsFresh
  <2> QED BY <1>4, <2>1, FreshOver, BeginsStarts, StartsTransitive DEF Fresh
<1> QED BY <1>1, <1>4, <1>5

LEMMA StartResolvesOver ==
  ASSUME CancelInv, NEW t \in Tokens, StartResolves(t), NEW b, b = agent'
  PROVE  Over(b)
<1> DEFINE events == agent.staged[t]
           accepted == [type |-> "started", turn |-> t]
           kept == IF accepted \in RangeOf(events) THEN Without(events, accepted) ELSE events
           current == [agent EXCEPT !.activeForegroundTurnId = t, !.activeTurnId = t,
                         !.pendingReplacement = FALSE, !.lifecycle = "running",
                         !.generator[t] = "streaming", !.staged[t] = <<>>]
           gaveUp == [agent EXCEPT !.generator[t] = "done"]
<1>0. agent \in AgentState /\ Over(agent) /\ agent.generator[t] = "starting"
  BY AgentType DEF CancelInv, QueueInv, PlacesInv, StartResolves
<1>1. /\ current \in AgentState /\ current.prompt = agent.prompt
      /\ current.finalized = agent.finalized /\ current.generator[t] = "streaming"
      /\ \A u \in Tokens \ {t} : current.generator[u] = agent.generator[u]
  <2>1. <<>> \in Seq(Event) /\ t \in Turns
    BY EmptySeq, EntriesType
  <2> QED BY <1>0, <2>1 DEF AgentState
<1>2. gaveUp \in AgentState /\ Over(gaveUp)
  BY <1>0, DoneOver
<1>3. \/ b = EnqueueAll(current, kept) \/ b = gaveUp \/ b = ForwarderFailed(gaveUp)
  BY DEF StartResolves
<1> HIDE DEF kept, current, gaveUp
<1>4. Over(current)
  BY <1>0, <1>1 DEF Over
<1>5. Over(EnqueueAll(current, kept)) /\ Over(ForwarderFailed(gaveUp))
  BY <1>1, <1>2, <1>4, StillRuns, SameRunsFresh, FreshOver
<1> QED BY <1>2, <1>3, <1>5

LEMMA GeneratorEndsOver ==
  ASSUME CancelInv, NEW t \in Tokens, GeneratorEnds(t), NEW b, b = agent'
  PROVE  Over(b)
<1> DEFINE finished == [agent EXCEPT !.generator[t] = "done"]
<1>1. agent \in AgentState /\ Lone(agent) /\ HeadsOwn(agent) /\ Over(agent)
  BY AgentType DEF CancelInv, QueueInv, PlacesInv
<1>2. finished \in AgentState /\ Over(finished) /\ SamePlaces(agent, finished)
  BY <1>1, DoneOver
<1>3. b = settleForegroundRun(finished, t)
  BY DEF GeneratorEnds
<1> HIDE DEF finished
<1>4. Lone(finished) /\ HeadsOwn(finished)
  BY <1>1, <1>2, SameKeepsPlaces, SameKeepsOrder DEF NoneNew
<1>5. Begins(finished, b) /\ b.finalized = finished.finalized
  BY <1>2, <1>3, <1>4, SettleBegins
<1> QED BY <1>2, <1>5, BeginsOver

LEMMA EventOver ==
  ASSUME CancelInv, DeliverEvent, NEW b, b = agent'
  PROVE  Over(b)
<1> DEFINE event == Head(agent.tail)
           rest  == [agent EXCEPT !.tail = Tail(@)]
<1>0. /\ agent \in AgentState /\ Lone(agent) /\ HeadsOwn(agent) /\ Over(agent)
      /\ Slotted(agent)
  BY AgentType DEF CancelInv, QueueInv, PlacesInv
<1>1. event \in Event /\ Tail(agent.tail) \in Seq(Event)
  BY <1>0, HeadTailProperties DEF DeliverEvent, AgentState
<1>2. /\ rest \in AgentState /\ SamePlaces(agent, rest) /\ SameRuns(agent, rest)
      /\ SameSlot(agent, rest)
  BY <1>0, <1>1 DEF AgentState, SamePlaces, SameRuns, SameSlot
<1>3. event.turn \in Turns /\ event.turn # None
  BY <1>1, EntriesType DEF Event
<1>4. \/ b = TurnStarted(rest, event.turn)
      \/ \E todo \in TodoChoices : b = TerminalEvent(rest, event.type, event.turn, todo)
  BY DEF DeliverEvent
<1> HIDE DEF event, rest
<1>5. /\ Lone(rest) /\ HeadsOwn(rest) /\ Over(rest) /\ Slotted(rest)
      /\ rest.reconciled = agent.reconciled
  BY <1>0, <1>2, SameKeepsPlaces, SameKeepsOrder, SameRunsFresh, FreshOver, SameSlotIsEnough
     DEF NoneNew, SamePlaces
<1>6. CASE b = TurnStarted(rest, event.turn)
  BY <1>2, <1>5, <1>6, StillRuns, SameRunsFresh, FreshOver
<1>7. ASSUME NEW todo \in TodoChoices, b = TerminalEvent(rest, event.type, event.turn, todo)
      PROVE  Over(b)
  <2>1. todo \in {None} \cup (TodoEntries \ rest.reconciled)
    BY <1>5 DEF TodoChoices
  <2> QED BY <1>2, <1>3, <1>5, <1>7, <2>1, TerminalEventOver
<1> QED BY <1>4, <1>6, <1>7

LEMMA StepOver ==
  ASSUME "rewind" \notin Verbs, CancelInv, [Next]_vars, NEW b, b = agent'
  PROVE  Over(b)
<1>0. /\ agent \in AgentState /\ HeadsOwn(agent) /\ Over(agent) /\ NoRewind /\ PlacesInv
      /\ TypeOK
  BY AgentType DEF CancelInv, QueueInv, PlacesInv
<1>1. ASSUME SameRuns(agent, agent') PROVE Over(b)
  BY <1>0, <1>1, SameRunsFresh, FreshOver
<1>2. CASE UNCHANGED vars
  BY <1>1, <1>2 DEF vars, SameRuns
<1>3. ASSUME NEW p \in Prompts, MakeCall(p) PROVE Over(b)
  <2>1. ~Placed(agent, p) /\ OwnPrompt(p)
    <3>1. CASE ~Rewind(p)
      BY <1>0, <1>3, <3>1, MakeCallOwn
    <3>2. CASE Rewind(p)
      <4>1. call[p] = NoCall /\ call'[p].verb = "rewind"
        BY <1>0, <1>3, <3>2 DEF MakeCall, Rewind, Called, TypeOK
      <4>2. NoRewind'
        BY <1>0, StepNoRewind
      <4> QED BY <4>1, <4>2 DEF NoRewind
    <3> QED BY <3>1, <3>2
  <2> QED BY <1>0, <2>1, OwnPromptOver
<1>4. ASSUME NEW p \in Prompts, Mutation(p) PROVE Over(b)
  <2>1. CASE CancelSettles(p)
    BY <2>1, CancelSettlesOver
  <2>2. CASE ~CancelSettles(p)
    BY <1>0, <1>4, <2>2, MutationOwn, OwnPromptOver
  <2> QED BY <2>1, <2>2
<1>5. ASSUME NEW p \in Prompts, Continuation(p) PROVE Over(b)
  <2>1. CASE ReplacementStarts(p)
    BY <1>0, <2>1, ReplacementOwn, OwnPromptOver
  <2>2. CASE RewindLocks(p) \/ RewindEnds(p)
    BY <1>0, <2>2 DEF RewindLocks, RewindEnds, NoRewind
  <2>3. CASE FinalizeOutOfBandRun(p)
    BY <2>3, RestsOver
  <2> QED BY <1>5, <2>1, <2>2, <2>3 DEF Continuation
<1>6. ASSUME NEW t \in Tokens, StartTurn(t) \/ GeneratorEnds(t) PROVE Over(b)
  BY <1>6, StartResolvesOver, StartFailsOver, GeneratorEndsOver DEF StartTurn
<1>7. CASE DeliverEvent
  BY <1>7, EventOver
<1>8. CASE EditQueue
  <2>1. SameRuns(agent, agent')
    BY <1>0, <1>8 DEF EditQueue, ClearSteerQueue, RemoveSteerQueueEntry,
       ReorderSteerQueueEntry, AgentState, SameRuns
  <2> QED BY <1>1, <2>1
<1>9. CASE Provider
  <2>1. \E event : agent' = enqueueSessionEvent(agent, event)
    BY <1>9 DEF Provider, ProviderBegins, ProviderReportsLate, ProviderEnds, Emit
  <2>2. SameRuns(agent, agent')
    BY <1>0, <2>1, StillRuns
  <2> QED BY <1>1, <2>2
<1> QED BY <1>2, <1>3, <1>4, <1>5, <1>6, <1>7, <1>8, <1>9 DEF Next

LEMMA CancelHolds ==
  ASSUME "rewind" \notin Verbs
  PROVE  Spec => []CancelInv
<1>1. Init => Over(agent)
  BY DEF Init, Over, RangeOf
<1>2. QueueInv /\ Slotted(agent) /\ Over(agent) /\ [Next]_vars => Over(agent)'
  <2> SUFFICES ASSUME CancelInv, [Next]_vars PROVE Over(agent)'
    BY DEF CancelInv
  <2>1. PICK b : b = agent'
    OBVIOUS
  <2>2. Over(b)
    BY <2>1, StepOver
  <2> QED BY <2>1, <2>2 DEF Over
<1> QED BY <1>1, <1>2, QueueHolds, SlotHolds, PTL DEF Spec, CancelInv

\* A step of one call leaves the others where they are.
OnlyCall(q) == \A p \in Prompts \ {q} : call'[p] = call[p]

LEMMA CalledOnly ==
  ASSUME TypeOK, NEW q \in Prompts, NEW verb, NEW queued,
         \/ \E v, pc, turn : Called(q, v, pc, turn)
         \/ StartOrReject(q, verb) \/ StartOrReplace(q, queued)
         \/ CancelToReplace(q, verb, queued)
  PROVE  OnlyCall(q)
<1>1. \E v, pc, turn : Called(q, v, pc, turn)
  BY DEF StartOrReject, StartOrReplace, CancelToReplace
<1> QED BY <1>1 DEF Called, OnlyCall, TypeOK

LEMMA CallStepOnly ==
  ASSUME TypeOK, NEW q \in Prompts, MakeCall(q) \/ Mutation(q) \/ Continuation(q)
  PROVE  OnlyCall(q)
<1>1. CASE MakeCall(q)
  <2>1. ASSUME NEW verb, SendPrompt(q, verb) PROVE OnlyCall(q)
    BY <2>1, CalledOnly DEF SendPrompt, SteerTurn, EnqueueSteerMessage
  <2>2. CASE RunAgent(q) \/ TryRunOutOfBand(q) \/ StopRun(q) \/ Rewind(q)
    BY <2>2, CalledOnly DEF RunAgent, TryRunOutOfBand, StopRun, Rewind
  <2> QED BY <1>1, <2>1, <2>2 DEF MakeCall
<1>2. CASE Mutation(q)
  <2>1. CASE CancelBegins(q) \/ InterruptAcknowledged(q) \/ InterruptFailed(q)
             \/ CancelSettles(q) \/ CancelDrained(q)
    BY <2>1 DEF CancelBegins, InterruptAcknowledged, InterruptFailed, CancelSettles,
       CancelDrained, Cancelled, OnlyCall, TypeOK
  <2>2. CASE SteerBegins(q) \/ SteerAnswered(q)
    BY <2>2 DEF SteerBegins, SteerAnswered, OnlyCall, TypeOK
  <2>3. CASE SteerReturns(q)
    <3>1. CASE \E queued : SteerUnavailable(q, call[q].turn, queued)
      BY <3>1, CalledOnly DEF SteerUnavailable
    <3>2. CASE \E stage : call' = [call EXCEPT ![q].pc = stage]
      BY <3>2 DEF OnlyCall, TypeOK
    <3> QED BY <2>3, <3>1, <3>2 DEF SteerReturns
  <2> QED BY <1>2, <2>1, <2>2, <2>3 DEF Mutation
<1>3. CASE Continuation(q)
  BY <1>3 DEF Continuation, ReplacementStarts, RewindLocks, RewindEnds,
     FinalizeOutOfBandRun, OnlyCall, TypeOK
<1> QED BY <1>1, <1>2, <1>3

\* A call goes on by a step of its own, unless its message is taken off the queue.
LEMMA CallMoves ==
  ASSUME CancelInv, [Next]_vars, NEW p \in Prompts, call'[p] # call[p]
  PROVE  \/ MakeCall(p) \/ Mutation(p) \/ Continuation(p)
         \/ p \in RangeOf(agent.steerQueue) /\ call'[p].pc = "removed"
<1>0. TypeOK
  BY DEF CancelInv, QueueInv, PlacesInv
<1>1. ~UNCHANGED call
  OBVIOUS
<1>2. ASSUME NEW q \in Prompts, MakeCall(q) \/ Mutation(q) \/ Continuation(q)
      PROVE  q = p
  BY <1>0, <1>2, CallStepOnly DEF OnlyCall
<1>3. ASSUME EditQueue
      PROVE  p \in RangeOf(agent.steerQueue) /\ call'[p].pc = "removed"
  <2>1. CASE ClearSteerQueue
    BY <1>0, <2>1 DEF ClearSteerQueue, TypeOK, CallState
  <2>2. CASE \E e \in Entries : RemoveSteerQueueEntry(e)
    BY <1>0, <2>2 DEF RemoveSteerQueueEntry, TypeOK, CallState
  <2>3. CASE \E e \in Entries, i \in 1 .. Cardinality(Entries) : ReorderSteerQueueEntry(e, i)
    BY <1>1, <2>3 DEF ReorderSteerQueueEntry
  <2> QED BY <1>3, <2>1, <2>2, <2>3 DEF EditQueue
<1>4. CASE \/ \E t \in Tokens : StartTurn(t) \/ GeneratorEnds(t)
           \/ DeliverEvent \/ Provider
  BY <1>1, <1>4 DEF StartTurn, StartResolves, StartFails, GeneratorEnds, DeliverEvent,
     Provider, ProviderBegins, ProviderReportsLate, ProviderEnds
<1>5. CASE UNCHANGED vars
  BY <1>1, <1>5 DEF vars
<1> QED BY <1>2, <1>3, <1>4, <1>5 DEF Next

\* Only the end of its wait takes a call from where a cancellation settles.
LEMMA SettlingEnds ==
  ASSUME CancelInv, [Next]_vars, NEW p \in Prompts,
         call[p].pc = "settling", call'[p].pc # "settling"
  PROVE  CancelSettles(p)
<1>1. p \notin RangeOf(agent.steerQueue)
  BY DEF CancelInv, QueueInv, PlacesInv, Known, PlacedStages, Placed, InQueue
<1>2. MakeCall(p) \/ Mutation(p) \/ Continuation(p)
  BY <1>1, CallMoves
<1>3. ~MakeCall(p) /\ ~Continuation(p)
  BY DEF MakeCall, NoCall, Continuation, ReplacementStarts, RewindLocks, RewindEnds,
     FinalizeOutOfBandRun
<1> QED BY <1>2, <1>3 DEF Mutation, AtHead, CancelBegins, InterruptAcknowledged,
     InterruptFailed, CancelDrained, SteerBegins, SteerAnswered, SteerReturns

\* Where nobody rewinds, a cancellation that was not refused leaves the turn it
\* captured no longer current, and ends no other turn and settles no other run,
\* whatever began, was delivered or was finalized while it waited.
THEOREM CancellationEndsItsTurn ==
  ASSUME "rewind" \notin Verbs
  PROVE  Spec => CancelEndsItsTurn
<1> DEFINE Ends(p) ==
      call[p].pc = "settling" /\ call'[p].pc # "settling" =>
        /\ agent'.settled \ agent.settled \subseteq {call[p].run}
        /\ call[p].turn # None => agent'.activeForegroundTurnId # call[p].turn
        /\ agent'.activeForegroundTurnId # agent.activeForegroundTurnId
             => agent.activeForegroundTurnId = call[p].turn
<1>1. ASSUME CancelInv, [Next]_vars, NEW p \in Prompts PROVE Ends(p)
  <2>1. SUFFICES ASSUME call[p].pc = "settling", call'[p].pc # "settling" PROVE Ends(p)
    OBVIOUS
  <2>2. CancelSettles(p)
    BY <1>1, <2>1, SettlingEnds
  <2>3. PICK b : b = agent'
    OBVIOUS
  <2>4. /\ b.settled \subseteq agent.settled \cup {call[p].run}
        /\ call[p].turn # None => b.activeForegroundTurnId # call[p].turn
        /\ b.activeForegroundTurnId # agent.activeForegroundTurnId
             => agent.activeForegroundTurnId = call[p].turn
    BY <1>1, <2>2, <2>3, CancelSettlesOver
  <2> QED BY <2>3, <2>4
<1>2. CancelInv /\ [Next]_vars => [\A p \in Prompts : Ends(p)]_vars
  BY <1>1
<1> QED BY <1>2, CancelHolds, PTL DEF Spec, CancelEndsItsTurn

(***************************************************************************)
(* What a steer is admitted to.  Only the head of the mutations can be     *)
(* asking the provider.  While it does, the barrier is up and the tail is  *)
(* empty, so no event is handled; and the start of a run, which is all     *)
(* that is left to move the active turn, finds no turn of the manager's.   *)
(***************************************************************************)
\* From a to b no event reaches the tail past the barrier.
Shut(a, b) == b.barrier = a.barrier /\ (a.barrier => b.tail = a.tail)

\* Nor does the active turn change.
Held(a, b) ==
  /\ Shut(a, b)
  /\ b.activeForegroundTurnId = a.activeForegroundTurnId
  /\ b.activeTurnId = a.activeTurnId

\* It changes only where no run had a turn, to that of the run or to none.
Opens(a, b) ==
  /\ Shut(a, b)
  /\ \/ Held(a, b)
     \/ /\ a.activeForegroundTurnId = None
        /\ b.activeForegroundTurnId \in {None, b.activeTurnId}

LEMMA ShutTransitive ==
  ASSUME NEW a, NEW b, NEW c, Shut(a, b), Shut(b, c) PROVE Shut(a, c)
BY DEF Shut

LEMMA HeldTransitive ==
  ASSUME NEW a, NEW b, NEW c, Held(a, b), Held(b, c) PROVE Held(a, c)
BY DEF Held, Shut

LEMMA HeldOpens == ASSUME NEW a, NEW b, Held(a, b) PROVE Opens(a, b)
BY DEF Held, Opens

LEMMA SlotHeld ==
  ASSUME NEW a \in AgentState
  PROVE  /\ \A batch : Held(a, DeliverBatch(a, batch))
         /\ \A batch : Held(a, dispatchSteerQueueBatch(a, batch))
         /\ \A token \in Tokens : Held(a, settleForegroundRun(a, token))
<1>1. \A b \in AgentState : \A batch : Held(b, DeliverBatch(b, batch))
  BY DEF DeliverBatch, streamAgent, AgentState, Held, Shut
<1>2. \A batch : Held(a, dispatchSteerQueueBatch(a, batch))
  BY <1>1 DEF dispatchSteerQueueBatch, AgentState, Held, Shut
<1>3. ASSUME NEW token \in Tokens PROVE Held(a, settleForegroundRun(a, token))
  <2> DEFINE cleared == [a EXCEPT !.run = None, !.settled = @ \cup {token},
                                  !.waiting[token] = <<>>]
  <2>1. cleared \in AgentState /\ Held(a, cleared)
    <3>1. <<>> \in Seq(Seq(Entries) \ {<<>>})
      BY EmptySeq
    <3> QED BY <3>1 DEF AgentState, Held, Shut
  <2>2. \/ settleForegroundRun(a, token) = a \/ settleForegroundRun(a, token) = cleared
        \/ \E batch : settleForegroundRun(a, token) = DeliverBatch(cleared, batch)
    BY DEF settleForegroundRun
  <2> HIDE DEF cleared
  <2>3. Held(a, a)
    BY DEF Held, Shut
  <2> QED BY <1>1, <2>1, <2>2, <2>3, HeldTransitive
<1> QED BY <1>1, <1>2, <1>3

LEMMA EventsHeld ==
  ASSUME NEW a \in AgentState
  PROVE  /\ Held(a, ForwarderFailed(a))
         /\ \A event : Held(a, enqueueSessionEvent(a, event))
         /\ \A events : Held(a, EnqueueAll(a, events))
<1>1. Held(a, ForwarderFailed(a))
  BY DEF ForwarderFailed, AgentState, Held, Shut
<1>2. \A event : Held(a, enqueueSessionEvent(a, event))
  BY DEF enqueueSessionEvent, AgentState, Held, Shut
<1>3. \A events : Held(a, EnqueueAll(a, events))
  BY DEF EnqueueAll, AgentState, Held, Shut
<1> QED BY <1>1, <1>2, <1>3

LEMMA ClaimHeld ==
  ASSUME NEW a \in AgentState, a.steerQueue # <<>>,
         NEW b, b = dispatchSteerQueueBatch(
           [a EXCEPT !.steerQueue = takeNextSteerQueueBatch(a.steerQueue).rest,
                     !.pendingSteerDrain = TRUE, !.lifecycle = "running"],
           takeNextSteerQueueBatch(a.steerQueue).entries)
  PROVE  Held(a, b)
<1> DEFINE batch == takeNextSteerQueueBatch(a.steerQueue)
           taken == [a EXCEPT !.steerQueue = batch.rest,
                              !.pendingSteerDrain = TRUE, !.lifecycle = "running"]
<1>1. a.steerQueue \in Seq(Entries)
  BY DEF AgentState
<1>2. batch.rest \in Seq(Entries)
  BY <1>1, BatchSplits
<1> HIDE DEF batch
<1>3. taken \in AgentState /\ Held(a, taken)
  BY <1>2 DEF AgentState, Held, Shut
<1> HIDE DEF taken
<1>4. b = dispatchSteerQueueBatch(taken, batch.entries)
  BY DEF taken, batch
<1>5. Held(taken, b)
  BY <1>3, <1>4, SlotHeld
<1> QED BY <1>3, <1>5, HeldTransitive

LEMMA RestOrDrainHeld ==
  ASSUME NEW a \in AgentState, NEW held \in BOOLEAN
  PROVE  Held(a, RestOrDrain(a, held))
<1>1. CASE held \/ a.lastError \/ a.steerQueueHeld \/ a.steerQueue = <<>>
  BY <1>1 DEF RestOrDrain, Held, Shut, AgentState
<1>2. CASE ~(held \/ a.lastError \/ a.steerQueueHeld \/ a.steerQueue = <<>>)
  BY <1>2, ClaimHeld DEF RestOrDrain
<1> QED BY <1>1, <1>2

\* Finalizing leaves no turn of the manager's.
LEMMA FinalizeShut ==
  ASSUME NEW a \in AgentState, NEW turn \in Turns \cup {None},
         NEW todo \in TodoEntries \cup {None},
         NEW b, b = finalizeForegroundTurn(a, turn, todo)
  PROVE  Shut(a, b) /\ b.activeForegroundTurnId = None
<1> DEFINE remembered == rememberFinalizedTurn(a, turn)
           noTurn == [remembered EXCEPT !.activeForegroundTurnId = None]
           closed == applyActiveTurnTerminal(noTurn, turn)
           parked == maybeEnqueueTodoReconcile(closed, todo)
           held   == a.pendingReplacement /\ ~a.lastError
<1>1. remembered \in AgentState
  BY RememberType
<1>2. Shut(a, remembered)
  BY DEF rememberFinalizedTurn, Shut, AgentState
<1> HIDE DEF remembered
<1>3. noTurn \in AgentState
  BY <1>1 DEF AgentState
<1>4. Shut(remembered, noTurn) /\ noTurn.activeForegroundTurnId = None
  BY <1>1 DEF Shut, AgentState
<1> HIDE DEF noTurn
<1>5. closed \in AgentState
  BY <1>3, TerminalType
<1>6. Shut(noTurn, closed) /\ closed.activeForegroundTurnId = None
  BY <1>3, <1>4 DEF applyActiveTurnTerminal, Shut, AgentState
<1> HIDE DEF closed
<1>7. parked \in AgentState
  BY <1>5, TodoType
<1>8. Shut(closed, parked) /\ parked.activeForegroundTurnId = None
  BY <1>5, <1>6 DEF maybeEnqueueTodoReconcile, Shut, AgentState
<1> HIDE DEF parked
<1>9. held \in BOOLEAN
  BY DEF AgentState
<1>10. b = RestOrDrain(parked, held)
  BY DEF finalizeForegroundTurn, parked, closed, noTurn, remembered
<1> HIDE DEF held
<1>11. Held(parked, b)
  BY <1>7, <1>9, <1>10, RestOrDrainHeld
<1> QED BY <1>2, <1>4, <1>6, <1>8, <1>11, ShutTransitive DEF Held

LEMMA TerminalEventShut ==
  ASSUME NEW a \in AgentState, NEW kind, NEW eventTurn \in Turns \cup {None},
         NEW todo \in TodoEntries \cup {None},
         NEW b, b = TerminalEvent(a, kind, eventTurn, todo)
  PROVE  Shut(a, b)
<1> DEFINE turn == ManagedTurn(a, eventTurn)
           isForeground == turn # None /\ a.activeForegroundTurnId = turn
           closed == applyActiveTurnTerminal(a, turn)
           ended  == IF TerminalDisposition(a, turn) = "stale" THEN closed
                     ELSE TurnEnded(closed, kind, isForeground)
           final  == IF isForeground THEN finalizeForegroundTurn(ended, turn, todo)
                     ELSE ended
           marked == [final EXCEPT !.generator[eventTurn] = "ending"]
<1>0. b \in {a, final, marked}
  BY DEF TerminalEvent, marked, final, ended, closed, isForeground, turn
<1>1. turn \in Turns \cup {None} /\ isForeground \in BOOLEAN
  BY EntriesType DEF ManagedTurn, AgentState
<1> HIDE DEF turn, isForeground
<1>2. closed \in AgentState
  BY TerminalType
<1>3. Shut(a, closed)
  BY DEF applyActiveTurnTerminal, Shut, AgentState
<1> HIDE DEF closed
<1>4. ended \in AgentState /\ Shut(a, ended)
  <2>1. TurnEnded(closed, kind, isForeground) \in AgentState
    BY <1>1, <1>2, TurnEndedType
  <2>2. Shut(closed, TurnEnded(closed, kind, isForeground))
    BY <1>2 DEF TurnEnded, Shut, AgentState
  <2> QED BY <1>2, <1>3, <2>1, <2>2, ShutTransitive
<1> HIDE DEF ended
<1>5. final \in AgentState /\ Shut(a, final)
  <2>1. finalizeForegroundTurn(ended, turn, todo) \in AgentState
    BY <1>1, <1>4, FinalizeType
  <2>2. Shut(ended, finalizeForegroundTurn(ended, turn, todo))
    BY <1>1, <1>4, FinalizeShut
  <2> QED BY <1>4, <2>1, <2>2, ShutTransitive
<1> HIDE DEF final
<1>6. Shut(final, marked)
  BY <1>5 DEF Shut, AgentState
<1> HIDE DEF marked
<1>7. Shut(a, a) /\ Shut(a, marked)
  BY <1>5, <1>6, ShutTransitive DEF Shut
<1> QED BY <1>0, <1>5, <1>7

LEMMA MakeCallHeld ==
  ASSUME TypeOK, NEW q \in Prompts, MakeCall(q)
  PROVE  Held(agent, agent')
<1>0. agent \in AgentState
  BY AgentType
<1>1. ASSUME NEW verb, StartOrReject(q, verb) PROVE Held(agent, agent')
  <2> DEFINE batch == <<q>>
             started == streamAgent(agent, q, batch)
  <2>1. agent' = agent \/ agent' = started
    BY <1>1 DEF StartOrReject
  <2> HIDE DEF batch
  <2>2. Held(agent, started)
    BY <1>0 DEF streamAgent, Held, Shut, AgentState
  <2> HIDE DEF started
  <2> QED BY <2>1, <2>2 DEF Held, Shut
<1>2. ASSUME NEW verb, NEW queued, CancelToReplace(q, verb, queued) PROVE Held(agent, agent')
  BY <1>0, <1>2 DEF CancelToReplace, Held, Shut, AgentState
<1>3. CASE TryRunOutOfBand(q) \/ StopRun(q) \/ Rewind(q)
  BY <1>0, <1>3, ZenonT(60) DEF TryRunOutOfBand, StopRun, Rewind, LockSlot, Held, Shut, AgentState
<1>4. ASSUME NEW verb, EnqueueSteerMessage(q, verb) PROVE Held(agent, agent')
  <2> DEFINE parked == [agent EXCEPT !.steerQueue = Append(@, q)]
             batch  == takeNextSteerQueueBatch(parked.steerQueue)
             claimed == dispatchSteerQueueBatch(
                    [parked EXCEPT !.steerQueue = batch.rest, !.pendingSteerDrain = TRUE,
                                   !.lifecycle = "running"], batch.entries)
  <2>1. /\ agent.steerQueue \in Seq(Entries) /\ q \in Entries
        /\ parked.steerQueue = Append(agent.steerQueue, q)
    BY <1>0, PromptIsToken DEF AgentState
  <2>2. /\ parked.steerQueue \in Seq(Entries) /\ Len(agent.steerQueue) \in Nat
        /\ Len(parked.steerQueue) = Len(agent.steerQueue) + 1
    BY <2>1, AppendProperties, LenProperties
  <2>3. parked.steerQueue # <<>>
    BY <2>2, EmptySeq
  <2>4. parked \in AgentState /\ Held(agent, parked)
    BY <1>0, <2>1, <2>2 DEF AgentState, Held, Shut
  <2> HIDE DEF parked
  <2>5. Held(parked, claimed)
    BY <2>3, <2>4, ClaimHeld
  <2>6. agent' = claimed \/ agent' = parked
    BY <1>4 DEF EnqueueSteerMessage, parked
  <2> HIDE DEF claimed
  <2> QED BY <2>4, <2>5, <2>6, HeldTransitive
<1>5. Held(agent, agent)
  BY DEF Held, Shut
<1>6. ASSUME NEW verb, SendPrompt(q, verb) PROVE Held(agent, agent')
  BY <1>1, <1>2, <1>4, <1>5, <1>6 DEF SendPrompt, SteerTurn, StartOrReplace
<1> QED BY <1>1, <1>3, <1>6 DEF MakeCall, RunAgent

\* A call joins the mutations at their end, and is a steer only of some turn.
LEMMA MakeCallJoins ==
  ASSUME TypeOK, NEW q \in Prompts, MakeCall(q)
  PROVE  /\ mutations' = mutations \/ mutations' = Append(mutations, q)
         /\ call'[q].pc # "asked" /\ (call'[q].pc = "steering" => call'[q].turn # None)
<1>1. ASSUME NEW verb, NEW pc, NEW turn, Called(q, verb, pc, turn)
      PROVE  call'[q].pc = pc /\ call'[q].turn = turn
  BY <1>1 DEF Called, TypeOK
<1>2. /\ mutations' = mutations \/ mutations' = Append(mutations, q)
      /\ \E verb, pc, turn : /\ Called(q, verb, pc, turn) /\ pc # "asked"
                             /\ pc = "steering" => turn # None
  BY DEF MakeCall, RunAgent, TryRunOutOfBand, StopRun, Rewind, SendPrompt, EnqueueSteerMessage,
     SteerTurn, StartOrReplace, StartOrReject, CancelToReplace
<1> QED BY <1>1, <1>2

\* Only an admission begins to ask.
LEMMA OthersDoNotAsk ==
  ASSUME TypeOK, NEW q \in Prompts, Mutation(q) \/ Continuation(q)
  PROVE  call'[q].pc # "steering" /\ (call'[q].pc = "asked" => SteerBegins(q))
<1>1. ASSUME NEW stage, call' = [call EXCEPT ![q].pc = stage] PROVE call'[q].pc = stage
  BY <1>1 DEF TypeOK, CallState
<1>2. ASSUME NEW verb, NEW pc, NEW turn, Called(q, verb, pc, turn) PROVE call'[q].pc = pc
  BY <1>2 DEF Called, TypeOK
<1>3. ASSUME NEW refused, Cancelled(q, refused) PROVE call'[q].pc \notin {"steering", "asked"}
  <2>1. \E stage \in {"done", "rejected", "locking", "replacing"} :
          call' = [call EXCEPT ![q].pc = stage]
    BY <1>3 DEF Cancelled
  <2> QED BY <1>1, <2>1
<1>4. CASE CancelBegins(q)
  <2>1. CASE call' = [call EXCEPT ![q].pc = "interrupting",
                                 ![q].turn = agent.activeForegroundTurnId, ![q].run = agent.run]
    BY <2>1 DEF TypeOK, CallState
  <2> QED BY <1>3, <1>4, <2>1 DEF CancelBegins
<1>5. CASE CancelSettles(q)
  <2>1. CASE call' = [call EXCEPT ![q].pc = "draining", ![q].run = agent'.run]
    BY <2>1 DEF TypeOK, CallState
  <2> QED BY <1>3, <1>5, <2>1 DEF CancelSettles
<1>6. CASE InterruptAcknowledged(q) \/ InterruptFailed(q) \/ CancelDrained(q)
  BY <1>1, <1>3, <1>6 DEF InterruptAcknowledged, InterruptFailed, CancelDrained
<1>7. CASE SteerBegins(q)
  BY <1>1, <1>7 DEF SteerBegins
<1>8. CASE SteerAnswered(q)
  BY <1>1, <1>8 DEF SteerAnswered
<1>9. CASE SteerReturns(q)
  <2>1. CASE SteerUnavailable(q, call[q].turn, Tail(mutations))
    BY <1>2, <2>1 DEF SteerUnavailable, StartOrReplace, StartOrReject, CancelToReplace
  <2> QED BY <1>1, <1>9, <2>1 DEF SteerReturns
<1>10. CASE Continuation(q)
  BY <1>1, <1>10 DEF Continuation, ReplacementStarts, RewindLocks, RewindEnds,
     FinalizeOutOfBandRun
<1> QED BY <1>4, <1>5, <1>6, <1>7, <1>8, <1>9, <1>10 DEF Mutation

LEMMA ContinuationHeld ==
  ASSUME TypeOK, NoRewind, NEW q \in Prompts, Continuation(q)
  PROVE  Held(agent, agent')
<1>0. agent \in AgentState
  BY AgentType
<1>1. CASE ReplacementStarts(q)
  BY <1>0, <1>1, ZenonT(60) DEF ReplacementStarts, ForwarderFailed, streamAgent, Held, Shut,
     AgentState
<1>2. CASE FinalizeOutOfBandRun(q)
  <2> DEFINE left == IF agent.outOfBandRunCount > 0 THEN agent.outOfBandRunCount - 1 ELSE 0
             fewer == [agent EXCEPT !.outOfBandRunCount = left]
  <2>1. left \in Nat
    BY <1>0 DEF AgentState
  <2>2. agent' = fewer \/ agent' = RestOrDrain(fewer, FALSE)
    BY <1>2 DEF FinalizeOutOfBandRun
  <2> HIDE DEF left
  <2>3. fewer \in AgentState /\ Held(agent, fewer)
    BY <1>0, <2>1 DEF AgentState, Held, Shut
  <2> HIDE DEF fewer
  <2>4. Held(fewer, RestOrDrain(fewer, FALSE))
    BY <2>3, RestOrDrainHeld
  <2>5. Held(agent, RestOrDrain(fewer, FALSE))
    BY <2>3, <2>4, HeldTransitive
  <2> QED BY <2>2, <2>3, <2>5
<1> QED BY <1>1, <1>2 DEF Continuation, RewindLocks, RewindEnds, NoRewind

\* Where a run starts whose slot is its own, no turn of the manager's is active.
LEMMA StartResolvesOpens ==
  ASSUME TypeOK, Slotted(agent), NEW t \in Tokens, StartResolves(t)
  PROVE  Opens(agent, agent')
<1> DEFINE events == agent.staged[t]
           accepted == [type |-> "started", turn |-> t]
           kept == IF accepted \in RangeOf(events) THEN Without(events, accepted) ELSE events
           current == [agent EXCEPT !.activeForegroundTurnId = t, !.activeTurnId = t,
                         !.pendingReplacement = FALSE, !.lifecycle = "running",
                         !.generator[t] = "streaming", !.staged[t] = <<>>]
           gaveUp == [agent EXCEPT !.generator[t] = "done"]
<1>0. agent \in AgentState /\ agent.generator[t] = "starting"
  BY AgentType DEF StartResolves
<1>1. \/ t \notin agent.settled /\ agent' = EnqueueAll(current, kept)
      \/ agent' = gaveUp \/ agent' = ForwarderFailed(gaveUp)
  BY DEF StartResolves, kept, current, gaveUp, events
<1>2. current \in AgentState
  <2>1. <<>> \in Seq(Event) /\ t \in Turns
    BY EmptySeq, EntriesType
  <2> QED BY <1>0, <2>1 DEF AgentState
<1>3. /\ Shut(agent, current)
      /\ current.activeForegroundTurnId = t /\ current.activeTurnId = t
  BY <1>0 DEF AgentState, Shut
<1>4. gaveUp \in AgentState /\ Held(agent, gaveUp)
  BY <1>0, GeneratorDoneType, ZenonT(60) DEF AgentState, Held, Shut
<1> HIDE DEF kept, current, gaveUp, events
<1>5. CASE t \notin agent.settled /\ agent' = EnqueueAll(current, kept)
  <2>1. agent.activeForegroundTurnId = None
    BY <1>0, <1>5 DEF Slotted
  <2>2. PICK b : b = EnqueueAll(current, kept)
    OBVIOUS
  <2>3. Held(current, b)
    BY <1>2, <2>2, EventsHeld
  <2>4. Shut(agent, b)
    BY <1>3, <2>3, ShutTransitive DEF Held
  <2>5. b.activeForegroundTurnId = b.activeTurnId
    BY <1>3, <2>3 DEF Held
  <2> QED BY <1>5, <2>1, <2>2, <2>4, <2>5 DEF Opens
<1>6. CASE agent' = gaveUp \/ agent' = ForwarderFailed(gaveUp)
  <2>1. Held(agent, ForwarderFailed(gaveUp))
    BY <1>4, EventsHeld, HeldTransitive
  <2> QED BY <1>4, <1>6, <2>1, HeldOpens
<1> QED BY <1>1, <1>5, <1>6

LEMMA StartFailsOpens ==
  ASSUME TypeOK, Slotted(agent), NEW t \in Tokens, NEW stale \in BOOLEAN,
         NEW todo \in TodoEntries \cup {None}, StartFails(t, stale, todo)
  PROVE  Opens(agent, agent')
<1> DEFINE gaveUp  == [agent EXCEPT !.generator[t] = "done"]
           started == [gaveUp EXCEPT !.pendingReplacement = FALSE]
           idle    == [started EXCEPT !.lifecycle = "idle"]
           rested  == IF agent.activeForegroundTurnId = None THEN idle ELSE started
           event   == TerminalEvent(started, "failed", None, None)
           failed  == finalizeForegroundTurn(event, None, todo)
           before  == IF stale THEN rested ELSE failed
           settled == settleForegroundRun(before, t)
           ended   == IF t \in agent.settled THEN gaveUp ELSE settled
           Ends(b) == Shut(agent, b) /\ b.activeForegroundTurnId = None
<1>0. agent \in AgentState /\ agent.generator[t] = "starting"
  BY AgentType DEF StartFails
<1>1. agent' = ended \/ agent' = ForwarderFailed(ended)
  BY DEF StartFails, ended, settled, before, failed, event, rested, idle, started, gaveUp
<1>2. gaveUp \in AgentState /\ Held(agent, gaveUp)
  BY <1>0, GeneratorDoneType, ZenonT(60) DEF AgentState, Held, Shut
<1> HIDE DEF gaveUp
<1>3. ASSUME t \notin agent.settled
      PROVE  settled \in AgentState /\ Ends(settled) /\ agent.activeForegroundTurnId = None
  <2>1. agent.activeForegroundTurnId = None
    BY <1>0, <1>3 DEF Slotted
  <2>2. started \in AgentState /\ Held(gaveUp, started)
    BY <1>2 DEF AgentState, Held, Shut
  <2>3. idle \in AgentState /\ Held(started, idle)
    <3> HIDE DEF started
    <3> QED BY <2>2 DEF AgentState, Held, Shut
  <2> HIDE DEF idle, started
  <2>4. rested \in AgentState /\ Ends(rested)
    <3>1. Held(agent, idle)
      BY <1>2, <2>2, <2>3, HeldTransitive
    <3> QED BY <2>1, <2>3, <3>1 DEF Held
  <2> HIDE DEF rested
  <2>5. event \in AgentState /\ Shut(agent, event)
    <3>1. event \in AgentState
      BY <2>2, TerminalEventType
    <3>2. Shut(started, event)
      BY <2>2, TerminalEventShut
    <3> QED BY <1>2, <2>2, <3>1, <3>2, ShutTransitive DEF Held
  <2> HIDE DEF event
  <2>6. failed \in AgentState /\ Ends(failed)
    <3>1. failed \in AgentState
      BY <2>5, FinalizeType
    <3>2. Shut(event, failed) /\ failed.activeForegroundTurnId = None
      BY <2>5, FinalizeShut
    <3> QED BY <2>5, <3>1, <3>2, ShutTransitive
  <2> HIDE DEF failed
  <2>7. before \in AgentState /\ Ends(before)
    BY <2>4, <2>6
  <2> HIDE DEF before
  <2>8. settled \in AgentState /\ Held(before, settled)
    BY <2>7, SettleType, SlotHeld
  <2> HIDE DEF settled
  <2> QED BY <2>1, <2>7, <2>8, ShutTransitive DEF Held
<1> HIDE DEF settled
<1>4. /\ ended \in AgentState
      /\ \/ Held(agent, ended)
         \/ Ends(ended) /\ agent.activeForegroundTurnId = None
  BY <1>2, <1>3
<1> HIDE DEF ended
<1>5. Held(ended, ForwarderFailed(ended)) /\ Held(ended, ended)
  BY <1>4, EventsHeld DEF Held, Shut
<1>6. PICK b : b = agent'
  OBVIOUS
<1>7. Held(ended, b)
  BY <1>1, <1>5, <1>6
<1>8. CASE Held(agent, ended)
  BY <1>6, <1>7, <1>8, HeldTransitive, HeldOpens
<1>9. CASE Ends(ended) /\ agent.activeForegroundTurnId = None
  <2>1. Shut(agent, b) /\ b.activeForegroundTurnId = None
    BY <1>7, <1>9, ShutTransitive DEF Held
  <2> QED BY <1>6, <1>9, <2>1 DEF Opens
<1> QED BY <1>4, <1>8, <1>9

(***************************************************************************)
(* Every step keeps what is known of the call that asks.                   *)
(***************************************************************************)
Admitted ==
  \A p \in Prompts :
    /\ call[p].pc = "steering" => call[p].turn # None
    /\ call[p].pc = "asked" =>
         /\ AtHead(p, "asked") /\ agent.barrier /\ agent.tail = <<>> /\ call[p].turn # None
         /\ agent.activeForegroundTurnId = call[p].turn => agent.activeTurnId = call[p].turn

LEMMA AskedOpens ==
  ASSUME CancelInv, Admitted, [Next]_vars, NEW p \in Prompts, call[p].pc = "asked",
         ~SteerAnswered(p)
  PROVE  /\ Opens(agent, agent') /\ call'[p] = call[p]
         /\ mutations' = mutations \/ \E q \in Prompts : mutations' = Append(mutations, q)
<1>0. /\ TypeOK /\ NoRewind /\ Slotted(agent) /\ agent \in AgentState
      /\ AtHead(p, "asked") /\ agent.barrier /\ agent.tail = <<>>
  BY AgentType DEF CancelInv, QueueInv, PlacesInv, Admitted
<1>1. Held(agent, agent)
  BY DEF Held, Shut
<1>2. ASSUME NEW q \in Prompts, Mutation(q) PROVE FALSE
  <2>1. q = p
    BY <1>0, <1>2 DEF Mutation, AtHead, CancelBegins, InterruptAcknowledged, InterruptFailed,
       CancelSettles, CancelDrained, SteerBegins, SteerAnswered, SteerReturns
  <2> QED BY <1>2, <2>1 DEF Mutation, AtHead, CancelBegins, InterruptAcknowledged,
       InterruptFailed, CancelSettles, CancelDrained, SteerBegins, SteerReturns
<1>3. call'[p] = call[p]
  <2>1. ~MakeCall(p) /\ ~Continuation(p)
    BY DEF MakeCall, NoCall, Continuation, ReplacementStarts, RewindLocks, RewindEnds,
       FinalizeOutOfBandRun
  <2>2. p \notin RangeOf(agent.steerQueue)
    BY DEF CancelInv, QueueInv, PlacesInv, Known, PlacedStages, Placed, InQueue
  <2> QED BY <1>2, <2>1, <2>2, CallMoves
<1>4. ASSUME NEW q \in Prompts, MakeCall(q)
      PROVE  /\ Opens(agent, agent')
             /\ mutations' = mutations \/ mutations' = Append(mutations, q)
  BY <1>0, <1>4, MakeCallHeld, MakeCallJoins, HeldOpens
<1>5. ASSUME NEW q \in Prompts, Continuation(q)
      PROVE  Opens(agent, agent') /\ mutations' = mutations
  <2>1. mutations' = mutations
    BY <1>5 DEF Continuation, ReplacementStarts, RewindLocks, RewindEnds, FinalizeOutOfBandRun
  <2> QED BY <1>0, <1>5, <2>1, ContinuationHeld, HeldOpens
<1>6. ASSUME NEW t \in Tokens, StartTurn(t)
      PROVE  Opens(agent, agent') /\ mutations' = mutations
  <2>1. mutations' = mutations
    BY <1>6 DEF StartTurn, StartResolves, StartFails
  <2> QED BY <1>0, <1>6, <2>1, StartResolvesOpens, StartFailsOpens DEF StartTurn, TodoChoices
<1>7. ASSUME NEW t \in Tokens, GeneratorEnds(t)
      PROVE  Opens(agent, agent') /\ mutations' = mutations
  <2> DEFINE finished == [agent EXCEPT !.generator[t] = "done"]
  <2>1. finished \in AgentState /\ Held(agent, finished)
    BY <1>0, GeneratorDoneType, ZenonT(60) DEF AgentState, Held, Shut
  <2>2. agent' = settleForegroundRun(finished, t) /\ mutations' = mutations
    BY <1>7 DEF GeneratorEnds
  <2> HIDE DEF finished
  <2>3. Held(finished, settleForegroundRun(finished, t))
    BY <2>1, SlotHeld
  <2> QED BY <2>1, <2>2, <2>3, HeldTransitive, HeldOpens
<1>8. ~DeliverEvent
  BY <1>0 DEF DeliverEvent
<1>9. CASE EditQueue
  <2>1. Held(agent, agent') /\ mutations' = mutations
    BY <1>0, <1>9, ZenonT(60) DEF EditQueue, ClearSteerQueue, RemoveSteerQueueEntry,
       ReorderSteerQueueEntry, Held, Shut, AgentState
  <2> QED BY <1>3, <2>1, HeldOpens
<1>10. CASE Provider
  <2>1. (\E type, t : Emit(type, t)) /\ mutations' = mutations
    BY <1>10 DEF Provider, ProviderBegins, ProviderReportsLate, ProviderEnds
  <2>2. Held(agent, agent')
    BY <1>0, <2>1, EventsHeld DEF Emit
  <2> QED BY <1>3, <2>1, <2>2, HeldOpens
<1>11. CASE UNCHANGED vars
  BY <1>1, <1>11, HeldOpens DEF vars
<1> QED BY <1>2, <1>3, <1>4, <1>5, <1>6, <1>7, <1>8, <1>9, <1>10, <1>11 DEF Next

\* The answer lets the events go on that were held, and nothing else.
LEMMA AnswerHolds ==
  ASSUME TypeOK, NEW p \in Prompts, SteerAnswered(p)
  PROVE  /\ agent'.activeForegroundTurnId = agent.activeForegroundTurnId
         /\ agent'.activeTurnId = agent.activeTurnId
<1> DEFINE opened == [agent EXCEPT !.barrier = FALSE, !.barred = <<>>]
<1>1. <<>> \in Seq(Event)
  BY EmptySeq
<1>2. /\ opened \in AgentState
      /\ opened.activeForegroundTurnId = agent.activeForegroundTurnId
      /\ opened.activeTurnId = agent.activeTurnId
  BY <1>1, AgentType DEF AgentState
<1>3. agent' = EnqueueAll(opened, agent.barred)
  BY DEF SteerAnswered
<1> HIDE DEF opened
<1>4. Held(opened, EnqueueAll(opened, agent.barred))
  BY <1>2, EventsHeld
<1> QED BY <1>2, <1>3, <1>4 DEF Held

LEMMA StepAdmitted ==
  ASSUME CancelInv, Admitted, [Next]_vars PROVE Admitted'
<1>0. TypeOK
  BY DEF CancelInv, QueueInv, PlacesInv
<1>1. ASSUME NEW p \in Prompts, call'[p].pc = "steering" PROVE call'[p].turn # None
  <2>1. CASE call'[p] = call[p]
    BY <1>1, <2>1 DEF Admitted
  <2>2. CASE call'[p] # call[p]
    <3>1. MakeCall(p)
      BY <1>0, <1>1, <2>2, CallMoves, OthersDoNotAsk
    <3> QED BY <1>0, <1>1, <3>1, MakeCallJoins
  <2> QED BY <2>1, <2>2
<1>2. ASSUME NEW p \in Prompts, call'[p].pc = "asked", call[p].pc # "asked"
      PROVE  /\ mutations' # <<>> /\ Head(mutations') = p /\ agent'.barrier
             /\ agent'.tail = <<>> /\ call'[p].turn # None
             /\ agent'.activeTurnId = call'[p].turn
  <2>1. SteerBegins(p)
    BY <1>0, <1>2, CallMoves, MakeCallJoins, OthersDoNotAsk
  <2>2. call[p].pc = "steering" /\ call[p].turn # None /\ AtHead(p, "steering")
    BY <2>1 DEF SteerBegins, AtHead, Admitted
  <2>3. /\ call' = [call EXCEPT ![p].pc = "asked"] /\ agent.activeTurnId = call[p].turn
        /\ agent' = [agent EXCEPT !.barrier = TRUE] /\ mutations' = mutations
        /\ agent.tail = <<>>
    <3>1. ~(call' = [call EXCEPT ![p].pc = "rejected"])
      BY <1>0, <1>2 DEF TypeOK, CallState
    <3> QED BY <2>1, <3>1 DEF SteerBegins
  <2>4. call'[p].turn = call[p].turn
    BY <1>0, <2>3 DEF TypeOK, CallState
  <2>5. agent'.barrier /\ agent'.tail = <<>> /\ agent'.activeTurnId = call[p].turn
    BY <1>0, <2>3, AgentType DEF AgentState
  <2> QED BY <2>2, <2>3, <2>4, <2>5 DEF AtHead
<1>3. ASSUME NEW p \in Prompts, call'[p].pc = "asked", call[p].pc = "asked"
      PROVE  /\ mutations' # <<>> /\ Head(mutations') = p /\ agent'.barrier
             /\ agent'.tail = <<>> /\ call'[p].turn # None
             /\ agent'.activeForegroundTurnId = call'[p].turn
                  => agent'.activeTurnId = call'[p].turn
  <2>1. /\ mutations # <<>> /\ Head(mutations) = p /\ agent.barrier /\ agent.tail = <<>>
        /\ call[p].turn # None
        /\ agent.activeForegroundTurnId = call[p].turn => agent.activeTurnId = call[p].turn
    BY <1>3 DEF Admitted, AtHead
  <2>2. ~SteerAnswered(p)
    BY <1>0, <1>3 DEF SteerAnswered, TypeOK, CallState
  <2>3. /\ Opens(agent, agent') /\ call'[p] = call[p]
        /\ mutations' = mutations \/ \E q \in Prompts : mutations' = Append(mutations, q)
    BY <1>3, <2>2, AskedOpens
  <2>4. mutations' # <<>> /\ Head(mutations') = p
    <3>1. mutations \in Seq(Prompts)
      BY <1>0 DEF TypeOK
    <3>2. ASSUME NEW q \in Prompts, mutations' = Append(mutations, q)
          PROVE  mutations' # <<>> /\ Head(mutations') = p
      BY <2>1, <3>1, <3>2
    <3> QED BY <2>1, <2>3, <3>2
  <2>5. agent'.barrier /\ agent'.tail = <<>>
    BY <2>1, <2>3 DEF Opens, Shut
  <2>6. agent'.activeForegroundTurnId = call[p].turn => agent'.activeTurnId = call[p].turn
    BY <2>1, <2>3 DEF Opens, Held
  <2> QED BY <2>1, <2>3, <2>4, <2>5, <2>6
<1> QED BY <1>1, <1>2, <1>3 DEF Admitted, AtHead

\* Where nobody rewinds, the turn of the manager's that a steer is asked for
\* stays the active one until the provider has answered, whatever it reports,
\* and whatever is called, queued, edited or started meanwhile.
THEOREM AdmissionKeepsTurn ==
  ASSUME "rewind" \notin Verbs
  PROVE  Spec => SteerHoldsTurn
<1> DEFINE IInv == CancelInv /\ Admitted
           Keeps(p) ==
             call[p].pc = "asked" /\ agent.activeForegroundTurnId = call[p].turn
               => /\ agent'.activeForegroundTurnId = call[p].turn
                  /\ agent'.activeTurnId = call[p].turn
<1>1. Init => Admitted
  BY DEF Init, NoCall, Admitted
<1>2. IInv /\ [Next]_vars => Admitted'
  BY StepAdmitted
<1>3. ASSUME IInv, [Next]_vars, NEW p \in Prompts PROVE Keeps(p)
  <2>1. SUFFICES ASSUME call[p].pc = "asked", agent.activeForegroundTurnId = call[p].turn
                 PROVE  /\ agent'.activeForegroundTurnId = call[p].turn
                        /\ agent'.activeTurnId = call[p].turn
    OBVIOUS
  <2>2. agent.activeTurnId = call[p].turn /\ call[p].turn # None
    BY <1>3, <2>1 DEF Admitted
  <2>3. CASE SteerAnswered(p)
    BY <1>3, <2>1, <2>2, <2>3, AnswerHolds DEF CancelInv, QueueInv, PlacesInv
  <2>4. CASE ~SteerAnswered(p)
    <3>1. Opens(agent, agent')
      BY <1>3, <2>1, <2>4, AskedOpens
    <3> QED BY <2>1, <2>2, <3>1 DEF Opens, Held
  <2> QED BY <2>3, <2>4
<1>4. IInv /\ [Next]_vars => [\A p \in Prompts : Keeps(p)]_vars
  BY <1>3
<1> QED BY <1>1, <1>2, <1>4, CancelHolds, PTL DEF Spec, SteerHoldsTurn

(***************************************************************************)
(* What becomes of a run that starts, and of its turn.  A handler leaves   *)
(* the events alone that are held back, settles at most the run in the     *)
(* slot, and puts no run into the slot that has no prompt.                 *)
(***************************************************************************)
SameEvents(a, b) == b.tail = a.tail /\ b.barred = a.barred /\ b.staged = a.staged

Goes(a, b) ==
  /\ a.settled \subseteq b.settled
  /\ \A t \in Tokens :
       /\ a.prompt[t] # <<>> => b.prompt[t] # <<>>
       /\ b.run = t => a.run = t \/ b.prompt[t] # <<>>
       /\ t \in b.settled => t \in a.settled \/ a.run = t \/ b.prompt[t] # <<>>

\* Nor does it make a turn current or raise the flag of a replacement.
Rests(a, b) ==
  /\ SameEvents(a, b) /\ Goes(a, b)
  /\ b.activeForegroundTurnId \in {a.activeForegroundTurnId, None}
  /\ b.pendingReplacement => a.pendingReplacement

LEMMA GoesTransitive ==
  ASSUME NEW a, NEW b, NEW c, Goes(a, b), Goes(b, c) PROVE Goes(a, c)
BY DEF Goes

LEMMA RestsTransitive ==
  ASSUME NEW a, NEW b, NEW c, Rests(a, b), Rests(b, c) PROVE Rests(a, c)
BY GoesTransitive DEF Rests, SameEvents

LEMMA RestsItself == ASSUME NEW a PROVE Rests(a, a)
BY DEF Rests, SameEvents, Goes

LEMMA StreamRests ==
  ASSUME NEW a \in AgentState, NEW token \in Tokens, NEW batch \in Seq(Entries) \ {<<>>}
  PROVE  Rests(a, streamAgent(a, token, batch))
<1> DEFINE b == streamAgent(a, token, batch)
<1>1. /\ b.prompt[token] = batch /\ b.run = token /\ b.settled = a.settled
      /\ \A t \in Tokens \ {token} : b.prompt[t] = a.prompt[t]
      /\ b.activeForegroundTurnId = a.activeForegroundTurnId
      /\ b.pendingReplacement = a.pendingReplacement /\ SameEvents(a, b)
  BY DEF streamAgent, AgentState, SameEvents
<1> HIDE DEF b
<1>2. Rests(a, b)
  BY <1>1 DEF Rests, Goes
<1> QED BY <1>2 DEF b

LEMMA DeliverRests ==
  ASSUME NEW a \in AgentState, NEW batch \in Seq(Entries) \ {<<>>}
  PROVE  Rests(a, DeliverBatch(a, batch))
<1> DEFINE back == [a EXCEPT !.pendingSteerDrain = FALSE, !.steerQueue = batch \o a.steerQueue]
           started == streamAgent(a, Head(batch), batch)
<1>1. Head(batch) \in Tokens
  BY HeadInBatch
<1>2. DeliverBatch(a, batch) \in {a, back, started}
  BY DEF DeliverBatch
<1>3. Rests(a, back)
  BY DEF AgentState, Rests, SameEvents, Goes
<1> HIDE DEF back
<1>4. Rests(a, started)
  BY <1>1, StreamRests
<1> HIDE DEF started
<1> QED BY <1>2, <1>3, <1>4, RestsItself

LEMMA DispatchRests ==
  ASSUME NEW a \in AgentState, NEW batch \in Seq(Entries) \ {<<>>}
  PROVE  Rests(a, dispatchSteerQueueBatch(a, batch))
<1> DEFINE b == [a EXCEPT !.waiting[a.run] = Append(@, batch)]
<1>1. Rests(a, b)
  BY DEF AgentState, Rests, SameEvents, Goes
<1>2. dispatchSteerQueueBatch(a, batch) \in {b, DeliverBatch(a, batch)}
  BY DEF dispatchSteerQueueBatch
<1> HIDE DEF b
<1> QED BY <1>1, <1>2, DeliverRests

LEMMA SettleRests ==
  ASSUME NEW a \in AgentState, NEW token \in Tokens, NEW b, b = settleForegroundRun(a, token)
  PROVE  Rests(a, b)
<1> DEFINE cleared == [a EXCEPT !.run = None, !.settled = @ \cup {token},
                                !.waiting[token] = <<>>]
           batch == Head(a.waiting[token])
<1>1. \/ b = a
      \/ a.run = token /\ b = cleared
      \/ a.run = token /\ a.waiting[token] # <<>> /\ b = DeliverBatch(cleared, batch)
  BY DEF settleForegroundRun
<1>2. cleared \in AgentState
  <2>1. <<>> \in Seq(Seq(Entries) \ {<<>>})
    BY EmptySeq
  <2> QED BY <2>1 DEF AgentState
<1>3. ASSUME a.run = token PROVE Rests(a, cleared)
  <2>1. /\ cleared.run = None /\ cleared.settled = a.settled \cup {token}
        /\ cleared.prompt = a.prompt /\ cleared.pendingReplacement = a.pendingReplacement
        /\ cleared.activeForegroundTurnId = a.activeForegroundTurnId /\ SameEvents(a, cleared)
    BY DEF AgentState, SameEvents
  <2>2. None \notin Tokens
    BY EntriesType
  <2> HIDE DEF cleared
  <2> QED BY <1>3, <2>1, <2>2 DEF Rests, Goes
<1> HIDE DEF cleared
<1>4. ASSUME a.waiting[token] # <<>> PROVE Rests(cleared, DeliverBatch(cleared, batch))
  <2>1. a.waiting[token] \in Batches
    BY DEF AgentState, Batches
  <2>2. batch \in Seq(Entries) \ {<<>>}
    BY <1>4, <2>1, BatchesHead
  <2> HIDE DEF batch
  <2> QED BY <1>2, <2>2, DeliverRests
<1> HIDE DEF batch
<1> QED BY <1>1, <1>3, <1>4, RestsTransitive, RestsItself

LEMMA ClaimRests ==
  ASSUME NEW a \in AgentState, a.steerQueue # <<>>,
         NEW b, b = dispatchSteerQueueBatch(
           [a EXCEPT !.steerQueue = takeNextSteerQueueBatch(a.steerQueue).rest,
                     !.pendingSteerDrain = TRUE, !.lifecycle = "running"],
           takeNextSteerQueueBatch(a.steerQueue).entries)
  PROVE  Rests(a, b)
<1> DEFINE batch == takeNextSteerQueueBatch(a.steerQueue)
           taken == [a EXCEPT !.steerQueue = batch.rest,
                              !.pendingSteerDrain = TRUE, !.lifecycle = "running"]
<1>1. a.steerQueue \in Seq(Entries)
  BY DEF AgentState
<1>2. batch.rest \in Seq(Entries) /\ batch.entries \in Seq(Entries) \ {<<>>}
  BY <1>1, BatchSplits
<1>3. b = dispatchSteerQueueBatch(taken, batch.entries)
  OBVIOUS
<1> HIDE DEF batch
<1>4. taken \in AgentState /\ Rests(a, taken)
  BY <1>2 DEF AgentState, Rests, SameEvents, Goes
<1> HIDE DEF taken
<1>5. Rests(taken, b)
  BY <1>2, <1>3, <1>4, DispatchRests
<1> QED BY <1>4, <1>5, RestsTransitive

LEMMA RestOrDrainRests ==
  ASSUME NEW a \in AgentState, NEW held \in BOOLEAN
  PROVE  Rests(a, RestOrDrain(a, held))
<1>1. CASE held \/ a.lastError \/ a.steerQueueHeld \/ a.steerQueue = <<>>
  BY <1>1 DEF RestOrDrain, AgentState, Rests, SameEvents, Goes
<1>2. CASE ~(held \/ a.lastError \/ a.steerQueueHeld \/ a.steerQueue = <<>>)
  BY <1>2, ClaimRests DEF RestOrDrain
<1> QED BY <1>1, <1>2

LEMMA FinalizeRests ==
  ASSUME NEW a \in AgentState, NEW turn \in Turns \cup {None},
         NEW todo \in TodoEntries \cup {None},
         NEW b, b = finalizeForegroundTurn(a, turn, todo)
  PROVE  Rests(a, b)
<1> DEFINE remembered == rememberFinalizedTurn(a, turn)
           noTurn == [remembered EXCEPT !.activeForegroundTurnId = None]
           closed == applyActiveTurnTerminal(noTurn, turn)
           parked == maybeEnqueueTodoReconcile(closed, todo)
           held   == a.pendingReplacement /\ ~a.lastError
<1>1. remembered \in AgentState
  BY RememberType
<1>2. Rests(a, remembered)
  BY DEF rememberFinalizedTurn, AgentState, Rests, SameEvents, Goes
<1> HIDE DEF remembered
<1>3. noTurn \in AgentState
  BY <1>1 DEF AgentState
<1>4. Rests(remembered, noTurn)
  BY <1>1 DEF AgentState, Rests, SameEvents, Goes
<1> HIDE DEF noTurn
<1>5. closed \in AgentState
  BY <1>3, TerminalType
<1>6. Rests(noTurn, closed)
  BY <1>3 DEF applyActiveTurnTerminal, AgentState, Rests, SameEvents, Goes
<1> HIDE DEF closed
<1>7. parked \in AgentState
  BY <1>5, TodoType
<1>8. Rests(closed, parked)
  BY <1>5 DEF maybeEnqueueTodoReconcile, AgentState, Rests, SameEvents, Goes
<1> HIDE DEF parked
<1>9. held \in BOOLEAN
  BY DEF AgentState
<1>10. b = RestOrDrain(parked, held)
  BY DEF finalizeForegroundTurn, parked, closed, noTurn, remembered
<1> HIDE DEF held
<1>11. Rests(parked, b)
  BY <1>7, <1>9, <1>10, RestOrDrainRests
<1> QED BY <1>2, <1>4, <1>6, <1>8, <1>11, RestsTransitive

LEMMA TerminalEventRests ==
  ASSUME NEW a \in AgentState, NEW kind, NEW eventTurn \in Turns \cup {None},
         NEW todo \in TodoEntries \cup {None},
         NEW b, b = TerminalEvent(a, kind, eventTurn, todo)
  PROVE  Rests(a, b)
<1> DEFINE turn == ManagedTurn(a, eventTurn)
           isForeground == turn # None /\ a.activeForegroundTurnId = turn
           closed == applyActiveTurnTerminal(a, turn)
           ended  == IF TerminalDisposition(a, turn) = "stale" THEN closed
                     ELSE TurnEnded(closed, kind, isForeground)
           final  == IF isForeground THEN finalizeForegroundTurn(ended, turn, todo)
                     ELSE ended
           marked == [final EXCEPT !.generator[eventTurn] = "ending"]
<1>0. b \in {a, final, marked}
  BY DEF TerminalEvent, marked, final, ended, closed, isForeground, turn
<1>1. turn \in Turns \cup {None} /\ isForeground \in BOOLEAN
  BY EntriesType DEF ManagedTurn, AgentState
<1> HIDE DEF turn, isForeground
<1>2. closed \in AgentState
  BY TerminalType
<1>3. Rests(a, closed)
  BY DEF applyActiveTurnTerminal, AgentState, Rests, SameEvents, Goes
<1> HIDE DEF closed
<1>4. ended \in AgentState /\ Rests(a, ended)
  <2>1. TurnEnded(closed, kind, isForeground) \in AgentState
    BY <1>1, <1>2, TurnEndedType
  <2>2. Rests(closed, TurnEnded(closed, kind, isForeground))
    BY <1>2 DEF TurnEnded, AgentState, Rests, SameEvents, Goes
  <2> QED BY <1>2, <1>3, <2>1, <2>2, RestsTransitive
<1> HIDE DEF ended
<1>5. final \in AgentState /\ Rests(a, final)
  <2>1. finalizeForegroundTurn(ended, turn, todo) \in AgentState
    BY <1>1, <1>4, FinalizeType
  <2>2. Rests(ended, finalizeForegroundTurn(ended, turn, todo))
    BY <1>1, <1>4, FinalizeRests
  <2> QED BY <1>4, <2>1, <2>2, RestsTransitive
<1> HIDE DEF final
<1>6. Rests(final, marked)
  BY <1>5 DEF AgentState, Rests, SameEvents, Goes
<1> HIDE DEF marked
<1> QED BY <1>0, <1>5, <1>6, RestsTransitive, RestsItself

\* A call announces a replacement.
Raises(p) ==
  /\ agent' = [agent EXCEPT !.pendingReplacement = TRUE, !.lifecycle = "running"]
  /\ Replacing(p)'

LEMMA CancelToReplaceRaises ==
  ASSUME TypeOK, NEW q \in Prompts, NEW verb \in {"interrupt", "steer"}, NEW queued,
         CancelToReplace(q, verb, queued)
  PROVE  Raises(q)
BY DEF CancelToReplace, Called, Raises, Replacing, TypeOK

LEMMA StartOrReplaceRests ==
  ASSUME TypeOK, NEW q \in Prompts, NEW verb, NEW queued,
         StartOrReject(q, verb) \/ StartOrReplace(q, queued)
  PROVE  Rests(agent, agent') \/ Raises(q)
<1> DEFINE batch == <<q>>
           started == streamAgent(agent, q, batch)
<1>1. batch \in Seq(Entries) \ {<<>>} /\ q \in Tokens
  BY PromptBatch
<1>2. \/ agent' = agent \/ agent' = started
      \/ CancelToReplace(q, "interrupt", queued)
  BY DEF StartOrReplace, StartOrReject
<1> HIDE DEF batch
<1>3. Rests(agent, started)
  BY <1>1, AgentType, StreamRests
<1> HIDE DEF started
<1> QED BY <1>2, <1>3, RestsItself, CancelToReplaceRaises

LEMMA MakeCallRests ==
  ASSUME TypeOK, NEW q \in Prompts, MakeCall(q), ~Rewind(q)
  PROVE  Rests(agent, agent') \/ Raises(q)
<1>0. agent \in AgentState
  BY AgentType
<1>1. CASE TryRunOutOfBand(q) \/ StopRun(q)
  BY <1>0, <1>1 DEF TryRunOutOfBand, StopRun, Rests, SameEvents, Goes, AgentState
<1>2. ASSUME NEW verb, EnqueueSteerMessage(q, verb) PROVE Rests(agent, agent')
  <2> DEFINE parked == [agent EXCEPT !.steerQueue = Append(@, q)]
             batch  == takeNextSteerQueueBatch(parked.steerQueue)
             claimed == dispatchSteerQueueBatch(
                    [parked EXCEPT !.steerQueue = batch.rest, !.pendingSteerDrain = TRUE,
                                   !.lifecycle = "running"], batch.entries)
  <2>1. /\ agent.steerQueue \in Seq(Entries) /\ q \in Entries
        /\ parked.steerQueue = Append(agent.steerQueue, q)
    BY <1>0, PromptIsToken DEF AgentState
  <2>2. /\ parked.steerQueue \in Seq(Entries) /\ Len(agent.steerQueue) \in Nat
        /\ Len(parked.steerQueue) = Len(agent.steerQueue) + 1
    BY <2>1, AppendProperties, LenProperties
  <2>3. parked.steerQueue # <<>>
    BY <2>2, EmptySeq
  <2>4. parked \in AgentState /\ Rests(agent, parked)
    BY <1>0, <2>1, <2>2 DEF AgentState, Rests, SameEvents, Goes
  <2> HIDE DEF parked
  <2>5. Rests(parked, claimed)
    BY <2>3, <2>4, ClaimRests
  <2>6. agent' = claimed \/ agent' = parked
    BY <1>2 DEF EnqueueSteerMessage, parked
  <2> HIDE DEF claimed
  <2> QED BY <2>4, <2>5, <2>6, RestsTransitive
<1>3. ASSUME NEW verb, SendPrompt(q, verb) PROVE Rests(agent, agent') \/ Raises(q)
  <2>1. EnqueueSteerMessage(q, verb) \/ (\E queued : StartOrReplace(q, queued)) \/ agent' = agent
    BY <1>3 DEF SendPrompt, SteerTurn
  <2> QED BY <1>2, <2>1, StartOrReplaceRests, RestsItself
<1> QED BY <1>1, <1>3, StartOrReplaceRests DEF MakeCall, RunAgent

\* What a call that cancels or steers does, the passing on of events aside.
LEMMA MutationRests ==
  ASSUME TypeOK, NEW q \in Prompts, Mutation(q), ~InterruptAcknowledged(q), ~SteerAnswered(q)
  PROVE  Rests(agent, agent') \/ Raises(q)
<1>0. agent \in AgentState /\ call[q] \in CallState
  BY AgentType DEF TypeOK
<1>1. CASE CancelBegins(q) \/ InterruptFailed(q) \/ CancelDrained(q) \/ SteerBegins(q)
  <2>1. \/ agent' = agent
        \/ agent' = [agent EXCEPT !.steerQueueHeld = TRUE]
        \/ agent' = [agent EXCEPT !.pendingReplacement = FALSE]
        \/ agent' = [agent EXCEPT !.barrier = TRUE]
    BY <1>1 DEF CancelBegins, InterruptFailed, CancelDrained, SteerBegins
  <2> QED BY <1>0, <2>1 DEF Rests, SameEvents, Goes, AgentState
<1>2. CASE CancelSettles(q)
  <2>1. call[q].turn \in Turns \cup {None} /\ call[q].run \in Tokens \cup {None}
    BY <1>0 DEF CallState
  <2>2. ASSUME NEW todo \in TodoChoices,
               agent' = TerminalEvent(agent, "canceled", call[q].turn, todo)
        PROVE  Rests(agent, agent')
    <3>1. PICK b : b = agent'
      OBVIOUS
    <3>2. Rests(agent, b)
      BY <1>0, <2>1, <2>2, <3>1, TerminalEventRests DEF TodoChoices
    <3> QED BY <3>1, <3>2
  <2>3. CASE call[q].run # None /\ agent' = settleForegroundRun(agent, call[q].run)
    <3>1. Rests(agent, settleForegroundRun(agent, call[q].run))
      BY <1>0, <2>1, <2>3, SettleRests
    <3> QED BY <2>3, <3>1
  <2>4. CASE agent' = agent
    BY <2>4, RestsItself
  <2> QED BY <1>2, <2>2, <2>3, <2>4 DEF CancelSettles, CapturedRun
<1>3. CASE SteerReturns(q)
  <2>1. \/ agent' = agent
        \/ \E queued : StartOrReplace(q, queued) \/ CancelToReplace(q, "steer", queued)
    BY <1>3 DEF SteerReturns, SteerUnavailable
  <2> QED BY <2>1, StartOrReplaceRests, CancelToReplaceRaises, RestsItself
<1> QED BY <1>1, <1>2, <1>3 DEF Mutation

LEMMA ContinuationRests ==
  ASSUME TypeOK, NoRewind, NEW q \in Prompts, Continuation(q)
  PROVE  Rests(agent, agent')
<1>0. agent \in AgentState
  BY AgentType
<1>1. CASE ReplacementStarts(q)
  <2> DEFINE batch == <<q>>
             started == streamAgent(agent, q, batch)
  <2>1. batch \in Seq(Entries) \ {<<>>} /\ q \in Tokens
    BY PromptBatch
  <2>2. \/ agent' = started \/ agent' = ForwarderFailed(agent)
        \/ agent' = [agent EXCEPT !.pendingReplacement = FALSE]
    BY <1>1 DEF ReplacementStarts
  <2> HIDE DEF batch
  <2>3. Rests(agent, started)
    BY <1>0, <2>1, StreamRests
  <2> HIDE DEF started
  <2> QED BY <1>0, <2>2, <2>3 DEF ForwarderFailed, Rests, SameEvents, Goes, AgentState
<1>2. CASE FinalizeOutOfBandRun(q)
  <2> DEFINE left == IF agent.outOfBandRunCount > 0 THEN agent.outOfBandRunCount - 1 ELSE 0
             fewer == [agent EXCEPT !.outOfBandRunCount = left]
  <2>1. left \in Nat
    BY <1>0 DEF AgentState
  <2>2. agent' = fewer \/ agent' = RestOrDrain(fewer, FALSE)
    BY <1>2 DEF FinalizeOutOfBandRun
  <2> HIDE DEF left
  <2>3. fewer \in AgentState /\ Rests(agent, fewer)
    BY <1>0, <2>1 DEF AgentState, Rests, SameEvents, Goes
  <2> HIDE DEF fewer
  <2>4. Rests(agent, RestOrDrain(fewer, FALSE))
    BY <2>3, RestOrDrainRests, RestsTransitive
  <2> QED BY <2>2, <2>3, <2>4
<1> QED BY <1>1, <1>2 DEF Continuation, RewindLocks, RewindEnds, NoRewind

\* A start that is given up, and one that fails.  If its call was forwarded, or
\* it still owned the slot, nobody is replaced any more.
LEMMA GivenUpRests ==
  ASSUME TypeOK, NEW t \in Tokens, NEW b, b = [agent EXCEPT !.generator[t] = "done"]
  PROVE  /\ b \in AgentState /\ Rests(agent, b) /\ b.prompt = agent.prompt
         /\ b.generator[t] = "done"
         /\ \A u \in Tokens \ {t} : b.generator[u] = agent.generator[u]
<1>1. agent \in AgentState
  BY AgentType
<1>2. b \in AgentState
  BY <1>1, GeneratorDoneType
<1>3. /\ b.generator[t] = "done" /\ b.prompt = agent.prompt
      /\ \A u \in Tokens \ {t} : b.generator[u] = agent.generator[u]
      /\ b.run = agent.run /\ b.settled = agent.settled
      /\ b.activeForegroundTurnId = agent.activeForegroundTurnId
      /\ b.pendingReplacement = agent.pendingReplacement /\ SameEvents(agent, b)
  BY <1>1, ZenonT(60) DEF AgentState, SameEvents
<1> QED BY <1>2, <1>3 DEF Rests, Goes

LEMMA ForwarderRests ==
  ASSUME NEW a \in AgentState
  PROVE  /\ Rests(a, ForwarderFailed(a)) /\ ~ForwarderFailed(a).pendingReplacement
         /\ ForwarderFailed(a).generator = a.generator
BY DEF ForwarderFailed, AgentState, Rests, SameEvents, Goes

LEMMA StartFailsRests ==
  ASSUME TypeOK, NEW t \in Tokens, NEW stale \in BOOLEAN,
         NEW todo \in TodoEntries \cup {None}, StartFails(t, stale, todo), NEW b, b = agent'
  PROVE  /\ Rests(agent, b)
         /\ t \notin agent.settled \/ (call[t].pc = "forwarded" /\ t \in Prompts)
              => ~b.pendingReplacement
<1> DEFINE gaveUp  == [agent EXCEPT !.generator[t] = "done"]
           started == [gaveUp EXCEPT !.pendingReplacement = FALSE]
           idle    == [started EXCEPT !.lifecycle = "idle"]
           rested  == IF agent.activeForegroundTurnId = None THEN idle ELSE started
           event   == TerminalEvent(started, "failed", None, None)
           failed  == finalizeForegroundTurn(event, None, todo)
           before  == IF stale THEN rested ELSE failed
           settled == settleForegroundRun(before, t)
           ended   == IF t \in agent.settled THEN gaveUp ELSE settled
<1>1. b = IF t \in Prompts /\ call[t].pc = "forwarded" THEN ForwarderFailed(ended) ELSE ended
  BY DEF StartFails, ended, settled, before, failed, event, rested, idle, started, gaveUp
<1>2. gaveUp \in AgentState /\ Rests(agent, gaveUp)
  BY GivenUpRests
<1> HIDE DEF gaveUp
<1>3. settled \in AgentState /\ Rests(gaveUp, settled) /\ ~settled.pendingReplacement
  <2>1. /\ started \in AgentState /\ Rests(gaveUp, started)
        /\ ~started.pendingReplacement
    BY <1>2 DEF AgentState, Rests, SameEvents, Goes
  <2>2. idle \in AgentState /\ Rests(started, idle)
    <3> HIDE DEF started
    <3> QED BY <2>1 DEF AgentState, Rests, SameEvents, Goes
  <2> HIDE DEF idle, started
  <2>3. rested \in AgentState /\ Rests(started, rested)
    BY <2>1, <2>2, RestsItself
  <2> HIDE DEF rested
  <2>4. event \in AgentState /\ Rests(started, event)
    BY <2>1, TerminalEventType, TerminalEventRests
  <2> HIDE DEF event
  <2>5. failed \in AgentState /\ Rests(event, failed)
    BY <2>4, FinalizeType, FinalizeRests
  <2> HIDE DEF failed
  <2>6. before \in AgentState /\ Rests(started, before)
    BY <2>3, <2>4, <2>5, RestsTransitive
  <2> HIDE DEF before
  <2>7. settled \in AgentState /\ Rests(before, settled)
    BY <2>6, SettleType, SettleRests
  <2> HIDE DEF settled
  <2> QED BY <2>1, <2>6, <2>7, RestsTransitive DEF Rests
<1> HIDE DEF settled
<1>4. /\ ended \in AgentState /\ Rests(agent, ended)
      /\ t \notin agent.settled => ~ended.pendingReplacement
  BY <1>2, <1>3, RestsTransitive
<1> HIDE DEF ended
<1>5. Rests(agent, ForwarderFailed(ended)) /\ ~ForwarderFailed(ended).pendingReplacement
  BY <1>4, ForwarderRests, RestsTransitive
<1> QED BY <1>1, <1>4, <1>5

\* The start of a run that was settled meanwhile.
LEMMA StartGivesUp ==
  ASSUME TypeOK, NEW t \in Tokens, StartResolves(t), t \in agent.settled
  PROVE  /\ Rests(agent, agent')
         /\ \A u \in Tokens \ {t} : agent'.generator[u] = agent.generator[u]
         /\ agent'.generator[t] = "done"
         /\ call[t].pc = "forwarded" /\ t \in Prompts => ~agent'.pendingReplacement
<1> DEFINE gaveUp == [agent EXCEPT !.generator[t] = "done"]
<1>1. agent' = IF t \in Prompts /\ call[t].pc = "forwarded"
               THEN ForwarderFailed(gaveUp) ELSE gaveUp
  BY DEF StartResolves
<1>2. /\ gaveUp \in AgentState /\ Rests(agent, gaveUp)
      /\ \A u \in Tokens \ {t} : gaveUp.generator[u] = agent.generator[u]
      /\ gaveUp.generator[t] = "done"
  BY GivenUpRests
<1> HIDE DEF gaveUp
<1>3. /\ Rests(agent, ForwarderFailed(gaveUp)) /\ ~ForwarderFailed(gaveUp).pendingReplacement
      /\ ForwarderFailed(gaveUp).generator = gaveUp.generator
  BY <1>2, ForwarderRests, RestsTransitive
<1> QED BY <1>1, <1>2, <1>3

LEMMA GeneratorEndsRests ==
  ASSUME TypeOK, NEW t \in Tokens, GeneratorEnds(t)
  PROVE  Rests(agent, agent')
<1> DEFINE finished == [agent EXCEPT !.generator[t] = "done"]
<1>1. finished \in AgentState /\ Rests(agent, finished)
  BY GivenUpRests
<1>2. agent' = settleForegroundRun(finished, t)
  BY DEF GeneratorEnds
<1> HIDE DEF finished
<1> QED BY <1>1, <1>2, SettleRests, RestsTransitive

LEMMA EditQueueRests == ASSUME TypeOK, EditQueue PROVE Rests(agent, agent')
BY AgentType, ZenonT(60) DEF EditQueue, ClearSteerQueue, RemoveSteerQueueEntry,
   ReorderSteerQueueEntry, AgentState, Rests, SameEvents, Goes

LEMMA DeliverRestsOf ==
  ASSUME TypeOK, DeliverEvent, NEW rest, rest = [agent EXCEPT !.tail = Tail(@)]
  PROVE  Rests(rest, agent')
<1> DEFINE event == Head(agent.tail)
<1>0. agent \in AgentState
  BY AgentType
<1>1. event \in Event /\ Tail(agent.tail) \in Seq(Event)
  BY <1>0, HeadTailProperties DEF DeliverEvent, AgentState
<1>2. rest \in AgentState /\ rest.reconciled = agent.reconciled
  BY <1>0, <1>1 DEF AgentState
<1>3. event.turn \in Turns
  BY <1>1 DEF Event
<1>4. \/ agent' = TurnStarted(rest, event.turn)
      \/ \E todo \in TodoChoices : agent' = TerminalEvent(rest, event.type, event.turn, todo)
  BY DEF DeliverEvent
<1> HIDE DEF event
<1>5. CASE agent' = TurnStarted(rest, event.turn)
  BY <1>2, <1>5 DEF TurnStarted, AgentState, Rests, SameEvents, Goes
<1>6. ASSUME NEW todo \in TodoChoices,
             agent' = TerminalEvent(rest, event.type, event.turn, todo)
      PROVE  Rests(rest, agent')
  <2>1. PICK b : b = agent'
    OBVIOUS
  <2>2. Rests(rest, b)
    BY <1>2, <1>3, <1>6, <2>1, TerminalEventRests DEF TodoChoices
  <2> QED BY <2>1, <2>2
<1> QED BY <1>4, <1>5, <1>6

\* An event that is passed on, or several, moves no run.
Passes(a, b) ==
  /\ SameRuns(a, b) /\ b.run = a.run
  /\ b.pendingReplacement = a.pendingReplacement

LEMMA EventsPass ==
  ASSUME NEW a \in AgentState
  PROVE  /\ \A event : Passes(a, enqueueSessionEvent(a, event))
         /\ \A events : Passes(a, EnqueueAll(a, events))
<1>1. \A event : Passes(a, enqueueSessionEvent(a, event))
  BY StillRuns DEF enqueueSessionEvent, AgentState, Passes
<1>2. \A events : Passes(a, EnqueueAll(a, events))
  BY StillRuns DEF EnqueueAll, AgentState, Passes
<1> QED BY <1>1, <1>2

LEMMA PassesGoes == ASSUME NEW a, NEW b, Passes(a, b) PROVE Goes(a, b) /\ Starts(a, b)
BY DEF Passes, SameRuns, Goes, Starts

(***************************************************************************)
(* Over a step.                                                            *)
(***************************************************************************)
LEMMA OwnPromptStarts ==
  ASSUME TypeOK, HeadsOwn(agent), NEW p \in Prompts, ~Placed(agent, p), OwnPrompt(p)
  PROVE  Starts(agent, agent')
<1>1. CASE SameRuns(agent, agent')
  BY <1>1, SameRunsFresh, BeginsStarts DEF Fresh
<1>2. CASE agent' = streamAgent(agent, p, <<p>>)
  <2>1. <<p>> \in Seq(Entries) \ {<<>>} /\ p \in Tokens
    BY PromptBatch
  <2>2. agent.prompt[p] = <<>>
    BY <2>1 DEF HeadsOwn, Placed
  <2>3. Fresh(agent, streamAgent(agent, p, <<p>>))
    BY <2>1, <2>2, AgentType, StreamFresh
  <2> QED BY <1>2, <2>3, BeginsStarts DEF Fresh
<1> QED BY <1>1, <1>2 DEF OwnPrompt

LEMMA CancelSettlesStarts ==
  ASSUME CancelInv, NEW p \in Prompts, CancelSettles(p)
  PROVE  Starts(agent, agent')
<1>1. /\ agent \in AgentState /\ Lone(agent) /\ HeadsOwn(agent) /\ Over(agent)
      /\ Slotted(agent)
  BY AgentType DEF CancelInv, QueueInv, PlacesInv
<1>2. call[p].turn \in Turns \cup {None} /\ call[p].run \in Tokens \cup {None}
  BY DEF CancelInv, QueueInv, PlacesInv, TypeOK, CallState
<1>3. PICK b : b = agent'
  OBVIOUS
<1>4. ASSUME call[p].turn # None, NEW todo \in TodoChoices,
             b = TerminalEvent(agent, "canceled", call[p].turn, todo)
      PROVE  Starts(agent, b)
  BY <1>1, <1>2, <1>4, TerminalEventOver DEF TodoChoices
<1>5. ASSUME call[p].run # None, b = settleForegroundRun(agent, call[p].run)
      PROVE  Starts(agent, b)
  BY <1>1, <1>2, <1>5, SettleBegins, BeginsStarts
<1>6. ASSUME b = agent PROVE Starts(agent, b)
  BY <1>6 DEF Starts
<1> QED BY <1>3, <1>4, <1>5, <1>6 DEF CancelSettles, CapturedRun

LEMMA RestsStarts ==
  ASSUME CancelInv, NEW p \in Prompts, FinalizeOutOfBandRun(p)
  PROVE  Starts(agent, agent')
<1> DEFINE left == IF agent.outOfBandRunCount > 0 THEN agent.outOfBandRunCount - 1 ELSE 0
           fewer == [agent EXCEPT !.outOfBandRunCount = left]
<1>1. agent \in AgentState /\ Lone(agent) /\ HeadsOwn(agent)
  BY AgentType DEF CancelInv, QueueInv, PlacesInv
<1>2. left \in Nat
  BY <1>1 DEF AgentState
<1>3. agent' = fewer \/ agent' = RestOrDrain(fewer, FALSE)
  BY DEF FinalizeOutOfBandRun
<1> HIDE DEF left
<1>4. fewer \in AgentState /\ SamePlaces(agent, fewer) /\ SameRuns(agent, fewer)
  BY <1>1, <1>2 DEF AgentState, SamePlaces, SameRuns
<1> HIDE DEF fewer
<1>5. Lone(fewer) /\ HeadsOwn(fewer)
  BY <1>1, <1>4, SameKeepsPlaces, SameKeepsOrder DEF NoneNew
<1>6. Fresh(agent, RestOrDrain(fewer, FALSE)) /\ Fresh(agent, fewer)
  BY <1>4, <1>5, RestOrDrainFresh, SameRunsFresh, FreshTransitive
<1> QED BY <1>3, <1>6, BeginsStarts DEF Fresh

LEMMA GeneratorEndsStarts ==
  ASSUME CancelInv, NEW t \in Tokens, GeneratorEnds(t)
  PROVE  Starts(agent, agent')
<1> DEFINE finished == [agent EXCEPT !.generator[t] = "done"]
<1>0. /\ agent \in AgentState /\ Lone(agent) /\ HeadsOwn(agent) /\ Over(agent) /\ TypeOK
      /\ agent.generator[t] = "ending"
  BY AgentType DEF CancelInv, QueueInv, PlacesInv, GeneratorEnds
<1>1. finished \in AgentState /\ Over(finished) /\ SamePlaces(agent, finished)
  BY <1>0, DoneOver
<1>2. agent' = settleForegroundRun(finished, t)
  BY DEF GeneratorEnds
<1>3. Starts(agent, finished)
  BY <1>0 DEF Starts, AgentState
<1> HIDE DEF finished
<1>4. Lone(finished) /\ HeadsOwn(finished)
  BY <1>0, <1>1, SameKeepsPlaces, SameKeepsOrder DEF NoneNew
<1>5. Begins(finished, settleForegroundRun(finished, t))
  BY <1>1, <1>4, SettleBegins
<1> QED BY <1>2, <1>3, <1>5, BeginsStarts, StartsTransitive

LEMMA DeliverStarts ==
  ASSUME CancelInv, DeliverEvent, NEW b, b = agent'
  PROVE  /\ Starts(agent, b)
         /\ \A t \in Tokens : IsTerminal(Head(agent.tail), t) => b.activeForegroundTurnId # t
<1> DEFINE event == Head(agent.tail)
           rest  == [agent EXCEPT !.tail = Tail(@)]
<1>0. /\ agent \in AgentState /\ Lone(agent) /\ HeadsOwn(agent) /\ Over(agent)
      /\ Slotted(agent)
  BY AgentType DEF CancelInv, QueueInv, PlacesInv
<1>1. event \in Event /\ Tail(agent.tail) \in Seq(Event)
  BY <1>0, HeadTailProperties DEF DeliverEvent, AgentState
<1>2. /\ rest \in AgentState /\ SamePlaces(agent, rest) /\ SameRuns(agent, rest)
      /\ SameSlot(agent, rest)
  BY <1>0, <1>1 DEF AgentState, SamePlaces, SameRuns, SameSlot
<1>3. event.turn \in Turns /\ event.turn # None
  BY <1>1, EntriesType DEF Event
<1>4. \/ event.type = "started" /\ b = TurnStarted(rest, event.turn)
      \/ \E todo \in TodoChoices : b = TerminalEvent(rest, event.type, event.turn, todo)
  BY DEF DeliverEvent
<1> SUFFICES /\ Starts(agent, b)
             /\ event.type # "started" => b.activeForegroundTurnId # event.turn
  BY DEF IsTerminal
<1> HIDE DEF event, rest
<1>5. /\ Lone(rest) /\ HeadsOwn(rest) /\ Over(rest) /\ Slotted(rest)
      /\ rest.reconciled = agent.reconciled /\ Starts(agent, rest)
  BY <1>0, <1>2, SameKeepsPlaces, SameKeepsOrder, SameRunsFresh, FreshOver, SameSlotIsEnough,
     BeginsStarts DEF NoneNew, SamePlaces, Fresh
<1>6. CASE event.type = "started" /\ b = TurnStarted(rest, event.turn)
  <2>1. Fresh(rest, b)
    BY <1>2, <1>6, StillRuns, SameRunsFresh
  <2> QED BY <1>5, <1>6, <2>1, BeginsStarts, StartsTransitive DEF Fresh
<1>7. ASSUME NEW todo \in TodoChoices, b = TerminalEvent(rest, event.type, event.turn, todo)
      PROVE  Starts(agent, b) /\ b.activeForegroundTurnId # event.turn
  <2>1. todo \in {None} \cup (TodoEntries \ rest.reconciled)
    BY <1>5 DEF TodoChoices
  <2>2. Starts(rest, b) /\ b.activeForegroundTurnId # event.turn
    BY <1>2, <1>3, <1>5, <1>7, <2>1, TerminalEventOver
  <2> QED BY <1>5, <2>2, StartsTransitive
<1> QED BY <1>4, <1>6, <1>7

\* The turn of a run that starts becomes current, unless the run was settled.
LEMMA StartResolvesCurrent ==
  ASSUME TypeOK, NEW t \in Tokens, StartResolves(t), t \notin agent.settled,
         NEW b, b = agent'
  PROVE  /\ Goes(agent, b) /\ ~b.pendingReplacement /\ b.activeForegroundTurnId = t
         /\ b.generator = [agent.generator EXCEPT ![t] = "streaming"]
         /\ b.prompt = agent.prompt /\ b.run = agent.run /\ b.settled = agent.settled
<1> DEFINE events == agent.staged[t]
           accepted == [type |-> "started", turn |-> t]
           kept == IF accepted \in RangeOf(events) THEN Without(events, accepted) ELSE events
           current == [agent EXCEPT !.activeForegroundTurnId = t, !.activeTurnId = t,
                         !.pendingReplacement = FALSE, !.lifecycle = "running",
                         !.generator[t] = "streaming", !.staged[t] = <<>>]
<1>0. agent \in AgentState
  BY AgentType
<1>1. b = EnqueueAll(current, kept)
  BY DEF StartResolves
<1>2. /\ current \in AgentState /\ ~current.pendingReplacement
      /\ current.activeForegroundTurnId = t
      /\ current.generator = [agent.generator EXCEPT ![t] = "streaming"]
      /\ current.prompt = agent.prompt /\ current.run = agent.run
      /\ current.settled = agent.settled
  <2>1. <<>> \in Seq(Event) /\ t \in Turns
    BY EmptySeq, EntriesType
  <2> QED BY <1>0, <2>1 DEF AgentState
<1> HIDE DEF current, kept
<1>3. Passes(current, b)
  BY <1>1, <1>2, EventsPass
<1> QED BY <1>2, <1>3 DEF Passes, SameRuns, Goes

\* Where nobody rewinds, no call takes the slot as a lock.
LEMMA CallsForTurns ==
  ASSUME "rewind" \notin Verbs, CancelInv, [Next]_vars, NEW p \in Prompts
  PROVE  /\ ~RewindLocks(p) /\ ~RewindEnds(p)
         /\ MakeCall(p) => ~Rewind(p) /\ ~Placed(agent, p) /\ OwnPrompt(p)
<1>0. PlacesInv /\ NoRewind /\ TypeOK
  BY DEF CancelInv, QueueInv, PlacesInv
<1>1. ~RewindLocks(p) /\ ~RewindEnds(p)
  BY <1>0 DEF RewindLocks, RewindEnds, NoRewind
<1>2. ASSUME MakeCall(p), Rewind(p) PROVE FALSE
  <2>1. call[p] = NoCall /\ call'[p].verb = "rewind"
    BY <1>0, <1>2 DEF MakeCall, Rewind, Called, TypeOK
  <2>2. NoRewind'
    BY <1>0, StepNoRewind
  <2> QED BY <2>1, <2>2 DEF NoRewind
<1>3. ASSUME MakeCall(p) PROVE ~Placed(agent, p) /\ OwnPrompt(p)
  BY <1>0, <1>2, <1>3, MakeCallOwn
<1> QED BY <1>1, <1>2, <1>3

\* The steps that answer the start of a run.
LEMMA StartTurnStarts ==
  ASSUME CancelInv, NEW t \in Tokens, StartTurn(t)
  PROVE  \A u \in Tokens :
           /\ agent'.generator[u] = "starting" =>
                u # t /\ (agent.generator[u] = "starting" \/ agent.prompt[u] = <<>>)
           /\ agent.generator[u] = "starting" => agent'.generator[u] = "starting" \/ u = t
           /\ agent.prompt[u] # <<>> => agent'.prompt[u] # <<>>
<1>0. TypeOK /\ agent \in AgentState /\ Over(agent)
  BY AgentType DEF CancelInv, QueueInv, PlacesInv
<1>1. PICK b : b = agent'
  OBVIOUS
<1>2. agent.generator[t] = "starting" /\ agent.prompt[t] # <<>>
  BY <1>0 DEF StartTurn, StartResolves, StartFails, Over
<1>3. ASSUME StartResolves(t), t \in agent.settled
      PROVE  /\ \A u \in Tokens \ {t} : b.generator[u] = agent.generator[u]
             /\ b.generator[t] = "done" /\ Goes(agent, b)
  BY <1>0, <1>1, <1>3, StartGivesUp DEF Rests
<1>4. ASSUME StartResolves(t), t \notin agent.settled
      PROVE  /\ \A u \in Tokens \ {t} : b.generator[u] = agent.generator[u]
             /\ b.generator[t] = "streaming" /\ Goes(agent, b)
  <2>1. b.generator = [agent.generator EXCEPT ![t] = "streaming"] /\ Goes(agent, b)
    BY <1>0, <1>1, <1>4, StartResolvesCurrent
  <2>2. agent.generator \in [Tokens -> {"unused", "starting", "streaming", "ending",
                                       "done", "lock"}]
    BY <1>0 DEF AgentState
  <2> QED BY <2>1, <2>2
<1>5. ASSUME NEW stale \in BOOLEAN, NEW todo \in TodoChoices, StartFails(t, stale, todo)
      PROVE  \A u \in Tokens :
           /\ b.generator[u] = "starting" =>
                u # t /\ (agent.generator[u] = "starting" \/ agent.prompt[u] = <<>>)
           /\ agent.generator[u] = "starting" => b.generator[u] = "starting" \/ u = t
           /\ agent.prompt[u] # <<>> => b.prompt[u] # <<>>
  <2>1. PICK gaveUp : gaveUp = [agent EXCEPT !.generator[t] = "done"]
    OBVIOUS
  <2>2. Starts(gaveUp, b)
    BY <1>1, <1>5, <2>1, StartFailsOver
  <2>3. /\ gaveUp.prompt = agent.prompt /\ gaveUp.generator[t] = "done"
        /\ \A u \in Tokens \ {t} : gaveUp.generator[u] = agent.generator[u]
    BY <1>0, <2>1, GivenUpRests
  <2> QED BY <1>0, <1>2, <2>2, <2>3 DEF Starts, Over
<1>6. ASSUME StartResolves(t) PROVE
        \A u \in Tokens :
           /\ b.generator[u] = "starting" =>
                u # t /\ (agent.generator[u] = "starting" \/ agent.prompt[u] = <<>>)
           /\ agent.generator[u] = "starting" => b.generator[u] = "starting" \/ u = t
           /\ agent.prompt[u] # <<>> => b.prompt[u] # <<>>
  <2>1. /\ \A u \in Tokens \ {t} : b.generator[u] = agent.generator[u]
        /\ b.generator[t] # "starting"
        /\ \A u \in Tokens : agent.prompt[u] # <<>> => b.prompt[u] # <<>>
    BY <1>3, <1>4, <1>6 DEF Goes
  <2> QED BY <2>1
<1> QED BY <1>1, <1>5, <1>6 DEF StartTurn

\* A run starts once, and goes on until its start is answered.
LEMMA StepStarts ==
  ASSUME "rewind" \notin Verbs, CancelInv, [Next]_vars
  PROVE  \A u \in Tokens :
           /\ agent'.generator[u] = "starting" =>
                agent.generator[u] = "starting" \/ agent.prompt[u] = <<>>
           /\ agent.generator[u] = "starting" =>
                agent'.generator[u] = "starting" \/ StartTurn(u)
           /\ agent.prompt[u] # <<>> => agent'.prompt[u] # <<>>
<1> DEFINE Goal == \A u \in Tokens :
           /\ agent'.generator[u] = "starting" =>
                agent.generator[u] = "starting" \/ agent.prompt[u] = <<>>
           /\ agent.generator[u] = "starting" =>
                agent'.generator[u] = "starting" \/ StartTurn(u)
           /\ agent.prompt[u] # <<>> => agent'.prompt[u] # <<>>
<1>0. /\ agent \in AgentState /\ HeadsOwn(agent) /\ Over(agent) /\ NoRewind /\ PlacesInv
      /\ TypeOK
  BY AgentType DEF CancelInv, QueueInv, PlacesInv
<1>1. ASSUME Starts(agent, agent') PROVE Goal
  BY <1>0, <1>1 DEF Starts, Over
<1>2. ASSUME SameRuns(agent, agent') PROVE Goal
  BY <1>1, <1>2, SameRunsFresh, BeginsStarts DEF Fresh
<1>3. ASSUME NEW p \in Prompts, MakeCall(p) \/ Mutation(p) \/ Continuation(p) PROVE Goal
  <2>1. ASSUME ~Placed(agent, p), OwnPrompt(p) PROVE Goal
    BY <1>0, <1>1, <2>1, OwnPromptStarts
  <2>2. CASE MakeCall(p)
    BY <2>1, <2>2, CallsForTurns
  <2>3. CASE CancelSettles(p)
    BY <1>1, <2>3, CancelSettlesStarts
  <2>4. CASE Mutation(p) /\ ~CancelSettles(p)
    BY <1>0, <2>1, <2>4, MutationOwn
  <2>5. CASE ReplacementStarts(p)
    BY <1>0, <2>1, <2>5, ReplacementOwn
  <2>6. CASE FinalizeOutOfBandRun(p)
    BY <1>1, <2>6, RestsStarts
  <2> QED BY <1>3, <2>2, <2>3, <2>4, <2>5, <2>6, CallsForTurns DEF Continuation
<1>4. ASSUME NEW t \in Tokens, StartTurn(t) PROVE Goal
  BY <1>4, StartTurnStarts
<1>5. ASSUME NEW t \in Tokens, GeneratorEnds(t) PROVE Goal
  BY <1>1, <1>5, GeneratorEndsStarts
<1>6. CASE DeliverEvent
  <2>1. PICK b : b = agent'
    OBVIOUS
  <2>2. Starts(agent, b)
    BY <1>6, <2>1, DeliverStarts
  <2> QED BY <1>1, <2>1, <2>2
<1>7. CASE EditQueue
  <2>1. SameRuns(agent, agent')
    BY <1>0, <1>7 DEF EditQueue, ClearSteerQueue, RemoveSteerQueueEntry,
       ReorderSteerQueueEntry, AgentState, SameRuns
  <2> QED BY <1>2, <2>1
<1>8. CASE Provider
  <2>1. \E event : agent' = enqueueSessionEvent(agent, event)
    BY <1>8 DEF Provider, ProviderBegins, ProviderReportsLate, ProviderEnds, Emit
  <2> QED BY <1>0, <1>2, <2>1, StillRuns
<1>9. CASE UNCHANGED vars
  BY <1>2, <1>9 DEF vars, SameRuns
<1> HIDE DEF Goal
<1> QED BY <1>3, <1>4, <1>5, <1>6, <1>7, <1>8, <1>9 DEF Next, Goal

(***************************************************************************)
(* The end of a turn in the lists of events.                               *)
(***************************************************************************)
LEMMA EndInRange ==
  ASSUME NEW t, NEW s PROVE EndIn(t, s) <=> \E e \in RangeOf(s) : IsTerminal(e, t)
BY DEF EndIn, RangeOf

LEMMA EndInConcat ==
  ASSUME NEW s \in Seq(Event), NEW u \in Seq(Event), NEW t
  PROVE  EndIn(t, s \o u) <=> EndIn(t, s) \/ EndIn(t, u)
<1>1. RangeOf(s \o u) = RangeOf(s) \cup RangeOf(u)
  BY OnceConcat
<1> QED BY <1>1, EndInRange

LEMMA EndInAppend ==
  ASSUME NEW s \in Seq(Event), NEW e \in Event, NEW t
  PROVE  EndIn(t, Append(s, e)) <=> EndIn(t, s) \/ IsTerminal(e, t)
<1> DEFINE longer == Append(s, e)
<1>1. /\ DOMAIN s = 1 .. Len(s) /\ Len(s) \in Nat
      /\ DOMAIN longer = 1 .. Len(s) + 1
      /\ \A i \in 1 .. Len(s) : longer[i] = s[i]
      /\ longer[Len(s) + 1] = e
  BY AppendProperties, LenProperties
<1> HIDE DEF longer
<1>2. EndIn(t, longer) <=> EndIn(t, s) \/ IsTerminal(e, t)
  BY <1>1 DEF EndIn
<1> QED BY <1>2 DEF longer

LEMMA EndInTail ==
  ASSUME NEW s \in Seq(Event), s # <<>>, NEW t, ~IsTerminal(Head(s), t), EndIn(t, s)
  PROVE  EndIn(t, Tail(s))
<1>1. /\ DOMAIN s = 1 .. Len(s) /\ Len(s) \in Nat \ {0} /\ Head(s) = s[1]
      /\ Len(Tail(s)) = Len(s) - 1 /\ Tail(s) \in Seq(Event)
      /\ \A i \in 1 .. Len(s) - 1 : Tail(s)[i] = s[i + 1]
  BY LenProperties, EmptySeq, HeadTailProperties
<1>2. DOMAIN Tail(s) = 1 .. Len(s) - 1
  BY <1>1, LenProperties
<1>3. PICK i \in 2 .. Len(s) : IsTerminal(s[i], t)
  BY <1>1 DEF EndIn
<1>4. i - 1 \in 1 .. Len(s) - 1 /\ Tail(s)[i - 1] = s[i]
  BY <1>1, <1>3
<1> QED BY <1>2, <1>3, <1>4 DEF EndIn

LEMMA EndInWithout ==
  ASSUME NEW s \in Seq(Event), NEW x \in RangeOf(s), NEW t, ~IsTerminal(x, t), EndIn(t, s)
  PROVE  EndIn(t, Without(s, x))
<1>1. DOMAIN s = 1 .. Len(s) /\ Len(s) \in Nat
  BY LenProperties
<1>2. PICK k \in 1 .. Len(s) : k = IndexOf(s, x) /\ s[k] = x
  BY <1>1 DEF IndexOf, RangeOf
<1> DEFINE head == SubSeq(s, 1, k - 1)
           tail == SubSeq(s, k + 1, Len(s))
<1>3. Without(s, x) = head \o tail
  BY <1>2 DEF Without
<1>4. head \in Seq(Event) /\ RangeOf(head) = {s[i] : i \in 1 .. k - 1}
  BY <1>1, <1>2, PartType, OncePart
<1>5. tail \in Seq(Event) /\ RangeOf(tail) = {s[i] : i \in k + 1 .. Len(s)}
  BY <1>1, <1>2, PartType, OncePart
<1> HIDE DEF head, tail
<1>6. PICK i \in 1 .. Len(s) : IsTerminal(s[i], t)
  BY <1>1 DEF EndIn
<1>7. i \in 1 .. k - 1 \/ i \in k + 1 .. Len(s)
  BY <1>1, <1>2, <1>6
<1>8. EndIn(t, head) \/ EndIn(t, tail)
  BY <1>4, <1>5, <1>6, <1>7, EndInRange
<1> QED BY <1>3, <1>4, <1>5, <1>8, EndInConcat

\* No list loses an end, and the end of t lands behind the barrier or, as the slot
\* has it, under the run that starts or in the tail.
KeepsEnds(a, b) ==
  \A t : /\ EndIn(t, a.tail) => EndIn(t, b.tail)
         /\ EndIn(t, a.barred) => EndIn(t, b.barred)
         /\ \A u \in Tokens : EndIn(t, a.staged[u]) => EndIn(t, b.staged[u])

Lands(a, b, t) ==
  \/ EndIn(t, b.barred)
  \/ IF a.run # None /\ a.generator[a.run] \in {"starting", "lock"}
     THEN EndIn(t, b.staged[a.run]) ELSE EndIn(t, b.tail)

LEMMA EnqueueLands ==
  ASSUME NEW a \in AgentState, NEW e \in Event, NEW b, b = enqueueSessionEvent(a, e)
  PROVE  KeepsEnds(a, b) /\ \A t : IsTerminal(e, t) => Lands(a, b, t)
<1>0. /\ a.tail \in Seq(Event) /\ a.barred \in Seq(Event)
      /\ \A u \in Tokens : a.staged[u] \in Seq(Event)
      /\ a.run \in Tokens \cup {None}
  BY DEF AgentState
<1>1. CASE a.barrier
  <2>1. b.barred = Append(a.barred, e) /\ b.tail = a.tail /\ b.staged = a.staged
    BY <1>1 DEF enqueueSessionEvent, AgentState
  <2> QED BY <1>0, <2>1, EndInAppend DEF KeepsEnds, Lands
<1>2. CASE ~a.barrier /\ a.run # None /\ a.generator[a.run] \in {"starting", "lock"}
  <2>1. /\ b.barred = a.barred /\ b.tail = a.tail
        /\ b.staged = [a.staged EXCEPT ![a.run] = Append(a.staged[a.run], e)]
        /\ DOMAIN a.staged = Tokens /\ a.run \in Tokens
    BY <1>2 DEF enqueueSessionEvent, AgentState
  <2>2. /\ b.staged[a.run] = Append(a.staged[a.run], e)
        /\ \A u \in Tokens \ {a.run} : b.staged[u] = a.staged[u]
    BY <2>1
  <2> QED BY <1>0, <1>2, <2>1, <2>2, EndInAppend DEF KeepsEnds, Lands
<1>3. CASE ~a.barrier /\ ~(a.run # None /\ a.generator[a.run] \in {"starting", "lock"})
  <2>1. b.barred = a.barred /\ b.tail = Append(a.tail, e) /\ b.staged = a.staged
    BY <1>3 DEF enqueueSessionEvent, AgentState
  <2> QED BY <1>0, <1>3, <2>1, EndInAppend DEF KeepsEnds, Lands
<1> QED BY <1>1, <1>2, <1>3

LEMMA EnqueueAllLands ==
  ASSUME NEW a \in AgentState, NEW events \in Seq(Event), NEW b, b = EnqueueAll(a, events)
  PROVE  KeepsEnds(a, b) /\ \A t : EndIn(t, events) => Lands(a, b, t)
<1>0. /\ a.tail \in Seq(Event) /\ a.barred \in Seq(Event)
      /\ \A u \in Tokens : a.staged[u] \in Seq(Event)
      /\ a.run \in Tokens \cup {None}
  BY DEF AgentState
<1>1. CASE a.barrier
  <2>1. b.barred = a.barred \o events /\ b.tail = a.tail /\ b.staged = a.staged
    BY <1>1 DEF EnqueueAll, AgentState
  <2> QED BY <1>0, <2>1, EndInConcat DEF KeepsEnds, Lands
<1>2. CASE ~a.barrier /\ a.run # None /\ a.generator[a.run] \in {"starting", "lock"}
  <2>1. /\ b.barred = a.barred /\ b.tail = a.tail
        /\ b.staged = [a.staged EXCEPT ![a.run] = a.staged[a.run] \o events]
        /\ DOMAIN a.staged = Tokens /\ a.run \in Tokens
    BY <1>2 DEF EnqueueAll, AgentState
  <2>2. /\ b.staged[a.run] = a.staged[a.run] \o events
        /\ \A u \in Tokens \ {a.run} : b.staged[u] = a.staged[u]
    BY <2>1
  <2> QED BY <1>0, <1>2, <2>1, <2>2, EndInConcat DEF KeepsEnds, Lands
<1>3. CASE ~a.barrier /\ ~(a.run # None /\ a.generator[a.run] \in {"starting", "lock"})
  <2>1. b.barred = a.barred /\ b.tail = a.tail \o events /\ b.staged = a.staged
    BY <1>3 DEF EnqueueAll, AgentState
  <2> QED BY <1>0, <1>3, <2>1, EndInConcat DEF KeepsEnds, Lands
<1> QED BY <1>1, <1>2, <1>3

(***************************************************************************)
(* The end of a turn is owed, kept or handled.  `owed` are the turns whose *)
(* end the provider has yet to report, `seen` those it has begun.          *)
(***************************************************************************)
EndComes(a, owed) ==
  \A t \in Tokens : a.activeForegroundTurnId = t =>
    t \in owed \/ EndIn(t, a.tail) \/ EndIn(t, a.barred)

\* A run that starts will be current, so its end may be kept under it.
StartEnds(a, owed, seen) ==
  \A t \in Tokens :
    a.generator[t] = "starting" /\ t \notin a.settled /\ t \in seen =>
      t \in owed \/ EndIn(t, a.staged[t]) \/ EndIn(t, a.barred)

\* What is no longer owed has landed where it will be found.
LEMMA LandedEnds ==
  ASSUME NEW a \in AgentState, Slotted(a), NEW b, SameRuns(a, b), KeepsEnds(a, b),
         NEW owed, NEW left, NEW seen, NEW known,
         EndComes(a, owed), StartEnds(a, owed, seen),
         \A t \in Tokens : t \in owed => t \in left \/ Lands(a, b, t),
         \A t \in Tokens : t \in known => t \in seen \/ t \in left
  PROVE  EndComes(b, left) /\ StartEnds(b, left, known)
<1>0. None \notin Tokens
  BY EntriesType
<1>1. ASSUME NEW t \in Tokens, b.activeForegroundTurnId = t
      PROVE  t \in left \/ EndIn(t, b.tail) \/ EndIn(t, b.barred)
  <2>1. a.activeForegroundTurnId = t
    BY <1>1 DEF SameRuns
  <2>2. a.run = t /\ a.generator[t] = "streaming"
    BY <1>0, <2>1 DEF Slotted
  <2>3. t \in owed \/ EndIn(t, a.tail) \/ EndIn(t, a.barred)
    BY <2>1 DEF EndComes
  <2> QED BY <1>0, <2>2, <2>3 DEF KeepsEnds, Lands
<1>2. ASSUME NEW t \in Tokens, b.generator[t] = "starting", t \notin b.settled, t \in known
      PROVE  t \in left \/ EndIn(t, b.staged[t]) \/ EndIn(t, b.barred)
  <2>1. a.generator[t] = "starting" /\ t \notin a.settled
    BY <1>2 DEF SameRuns
  <2>2. a.run = t
    BY <2>1 DEF Slotted
  <2>3. t \in left \/ t \in owed \/ EndIn(t, a.staged[t]) \/ EndIn(t, a.barred)
    BY <1>2, <2>1 DEF StartEnds
  <2> QED BY <1>0, <2>1, <2>2, <2>3 DEF KeepsEnds, Lands
<1> QED BY <1>1, <1>2 DEF EndComes, StartEnds

\* The provider runs one turn at a time, and only turns that have a prompt.
OneTurn == \A t, u \in live : t = u
BegunPrompted == \A t \in Tokens : t \in begun => agent.prompt[t] # <<>>

EndInv ==
  /\ CancelInv /\ OneTurn /\ BegunPrompted
  /\ EndComes(agent, live \cup late) /\ StartEnds(agent, live \cup late, begun)

LEMMA EndsIsEnough == EndInv => CurrentTurnEnds
BY DEF EndInv, EndComes, CurrentTurnEnds

\* A step that reports nothing and keeps every list as it is.
LEMMA RestsEnds ==
  ASSUME "rewind" \notin Verbs, EndInv, [Next]_vars, Rests(agent, agent'),
         UNCHANGED <<live, begun, late>>
  PROVE  EndComes(agent', live \cup late) /\ StartEnds(agent', live \cup late, begun)
<1>1. ASSUME NEW t \in Tokens, agent'.activeForegroundTurnId = t
      PROVE  t \in live \cup late \/ EndIn(t, agent'.tail) \/ EndIn(t, agent'.barred)
  BY <1>1, EntriesType DEF Rests, SameEvents, EndInv, EndComes
<1>2. ASSUME NEW t \in Tokens, agent'.generator[t] = "starting", t \notin agent'.settled,
             t \in begun
      PROVE  t \in live \cup late \/ EndIn(t, agent'.staged[t]) \/ EndIn(t, agent'.barred)
  <2>1. agent.generator[t] = "starting"
    BY <1>2, StepStarts DEF EndInv, BegunPrompted
  <2>2. t \notin agent.settled
    BY <1>2 DEF Rests, Goes
  <2> QED BY <1>2, <2>1, <2>2 DEF Rests, SameEvents, EndInv, StartEnds
<1> QED BY <1>1, <1>2 DEF EndComes, StartEnds

\* The provider reports something.
LEMMA EmitEnds ==
  ASSUME EndInv, NEW e \in Event, agent' = enqueueSessionEvent(agent, e),
         NEW left, NEW known,
         \A t \in Tokens : t \in live \cup late => t \in left \/ IsTerminal(e, t),
         \A t \in Tokens : t \in known => t \in begun \/ t \in left
  PROVE  EndComes(agent', left) /\ StartEnds(agent', left, known)
<1>0. agent \in AgentState /\ Slotted(agent)
  BY AgentType DEF EndInv, CancelInv, QueueInv, PlacesInv
<1>1. PICK b : b = agent'
  OBVIOUS
<1>2. KeepsEnds(agent, b) /\ \A t : IsTerminal(e, t) => Lands(agent, b, t)
  BY <1>0, <1>1, EnqueueLands
<1>3. SameRuns(agent, b)
  BY <1>0, <1>1, StillRuns
<1>4. EndComes(b, left) /\ StartEnds(b, left, known)
  BY <1>0, <1>2, <1>3, LandedEnds DEF EndInv
<1> QED BY <1>1, <1>4

LEMMA ProviderEndsKept ==
  ASSUME EndInv, Provider
  PROVE  /\ EndComes(agent', live' \cup late')
         /\ StartEnds(agent', live' \cup late', begun')
<1> DEFINE Kept == /\ EndComes(agent', live' \cup late')
                   /\ StartEnds(agent', live' \cup late', begun')
<1>0. /\ live \subseteq Turns /\ late \subseteq Turns
  BY DEF EndInv, CancelInv, QueueInv, PlacesInv, TypeOK
<1>1. ASSUME NEW t \in Turns, ProviderBegins(t) PROVE Kept
  <2> DEFINE e == [type |-> "started", turn |-> t]
  <2>1. e \in Event /\ agent' = enqueueSessionEvent(agent, e)
    BY <1>1 DEF Event, ProviderBegins, Emit
  <2>2. /\ \A u \in Tokens : u \in live \cup late => u \in live' \cup late'
        /\ \A u \in Tokens : u \in begun' => u \in begun \/ u \in live' \cup late'
    BY <1>1 DEF ProviderBegins
  <2> HIDE DEF e
  <2> QED BY <2>1, <2>2, EmitEnds
<1>2. ASSUME NEW t \in Turns, NEW kind \in EndKinds, ProviderEnds(t, kind) PROVE Kept
  <2> DEFINE e == [type |-> kind, turn |-> t]
  <2>1. e \in Event /\ agent' = enqueueSessionEvent(agent, e)
    BY <1>2 DEF Event, ProviderEnds, Emit
  <2>2. IsTerminal(e, t)
    BY DEF IsTerminal, EndKinds
  <2>3. \A u \in Tokens : u \in live \cup late => u \in live' \cup late' \/ IsTerminal(e, u)
    BY <1>2, <2>2 DEF ProviderEnds, EndInv, OneTurn
  <2>4. \A u \in Tokens : u \in begun' => u \in begun \/ u \in live' \cup late'
    BY <1>2 DEF ProviderEnds
  <2> HIDE DEF e
  <2> QED BY <2>1, <2>3, <2>4, EmitEnds
<1>3. ASSUME NEW t \in Turns, ProviderReportsLate(t) PROVE Kept
  <2> DEFINE e == [type |-> "canceled", turn |-> t]
  <2>1. e \in Event /\ agent' = enqueueSessionEvent(agent, e)
    BY <1>3 DEF Event, EndKinds, ProviderReportsLate, Emit
  <2>2. IsTerminal(e, t)
    BY DEF IsTerminal
  <2>3. \A u \in Tokens : u \in live \cup late => u \in live' \cup late' \/ IsTerminal(e, u)
    BY <1>3, <2>2 DEF ProviderReportsLate
  <2>4. \A u \in Tokens : u \in begun' => u \in begun \/ u \in live' \cup late'
    BY <1>3 DEF ProviderReportsLate
  <2> HIDE DEF e
  <2> QED BY <2>1, <2>3, <2>4, EmitEnds
<1> HIDE DEF Kept
<1>4. Kept
  BY <1>1, <1>2, <1>3 DEF Provider
<1> QED BY <1>4 DEF Kept

\* An acknowledged interrupt ends the live turn at once, or leaves its end for later.
LEMMA AcknowledgedEnds ==
  ASSUME EndInv, NEW p \in Prompts, InterruptAcknowledged(p)
  PROVE  /\ EndComes(agent', live' \cup late')
         /\ StartEnds(agent', live' \cup late', begun')
<1>1. CASE late' = late \cup live /\ agent' = agent
  <2>1. live' \cup late' = live \cup late /\ begun' = begun
    BY <1>1 DEF InterruptAcknowledged
  <2> QED BY <1>1, <2>1 DEF EndInv
<1>2. CASE live = {} /\ late' = late /\ agent' = agent
  <2>1. live' \cup late' = live \cup late /\ begun' = begun
    BY <1>2 DEF InterruptAcknowledged
  <2> QED BY <1>2, <2>1 DEF EndInv
<1>3. CASE /\ live # {} /\ late' = late
           /\ agent' = enqueueSessionEvent(agent,
                [type |-> "canceled", turn |-> CHOOSE t \in live : TRUE])
  <2> DEFINE it == CHOOSE t \in live : TRUE
             e == [type |-> "canceled", turn |-> it]
  <2>1. it \in live /\ live \subseteq Turns
    BY <1>3 DEF EndInv, CancelInv, QueueInv, PlacesInv, TypeOK
  <2> HIDE DEF it
  <2>2. e \in Event /\ IsTerminal(e, it)
    BY <2>1 DEF Event, EndKinds, IsTerminal
  <2>3. agent' = enqueueSessionEvent(agent, e)
    BY <1>3 DEF it
  <2>4. \A u \in Tokens : u \in live \cup late => u \in live' \cup late' \/ IsTerminal(e, u)
    BY <1>3, <2>1, <2>2 DEF EndInv, OneTurn
  <2>5. \A u \in Tokens : u \in begun' => u \in begun \/ u \in live' \cup late'
    BY DEF InterruptAcknowledged
  <2> HIDE DEF e
  <2> QED BY <2>2, <2>3, <2>4, <2>5, EmitEnds
<1> QED BY <1>1, <1>2, <1>3 DEF InterruptAcknowledged

\* A steer's answer lowers the barrier: what it held goes the way of the slot.
LEMMA AnsweredEnds ==
  ASSUME EndInv, NEW p \in Prompts, SteerAnswered(p)
  PROVE  /\ EndComes(agent', live \cup late)
         /\ StartEnds(agent', live \cup late, begun)
<1> DEFINE opened == [agent EXCEPT !.barrier = FALSE, !.barred = <<>>]
           owed == live \cup late \cup {t \in Tokens : EndIn(t, agent.barred)}
<1>0. agent \in AgentState /\ Slotted(agent) /\ agent.barred \in Seq(Event)
  BY AgentType DEF EndInv, CancelInv, QueueInv, PlacesInv, AgentState
<1>1. PICK b : b = agent'
  OBVIOUS
<1>2. b = EnqueueAll(opened, agent.barred)
  BY <1>1 DEF SteerAnswered
<1>3. /\ opened \in AgentState /\ SameRuns(agent, opened) /\ opened.run = agent.run
      /\ opened.tail = agent.tail /\ opened.staged = agent.staged
  <2>1. <<>> \in Seq(Event)
    BY EmptySeq
  <2> QED BY <1>0, <2>1 DEF AgentState, SameRuns
<1> HIDE DEF opened
<1>4. Slotted(opened)
  BY <1>0, <1>3 DEF Slotted, SameRuns
<1>5. EndComes(opened, owed) /\ StartEnds(opened, owed, begun)
  BY <1>3 DEF EndInv, EndComes, StartEnds, SameRuns
<1>6. KeepsEnds(opened, b) /\ \A t : EndIn(t, agent.barred) => Lands(opened, b, t)
  BY <1>0, <1>2, <1>3, EnqueueAllLands
<1>7. \A t \in Tokens : t \in owed => t \in live \cup late \/ Lands(opened, b, t)
  BY <1>6
<1>8. SameRuns(opened, b)
  BY <1>2, <1>3, StillRuns
<1> HIDE DEF owed
<1>9. EndComes(b, live \cup late) /\ StartEnds(b, live \cup late, begun)
  BY <1>3, <1>4, <1>5, <1>6, <1>7, <1>8, LandedEnds
<1> QED BY <1>1, <1>9

\* The turn of a run that starts becomes current, and what was kept under it is
\* handed on, less the report that it began.
LEMMA ResolvedEnds ==
  ASSUME EndInv, NEW t \in Tokens, StartResolves(t), t \notin agent.settled
  PROVE  /\ EndComes(agent', live \cup late)
         /\ StartEnds(agent', live \cup late, begun)
<1> DEFINE events == agent.staged[t]
           accepted == [type |-> "started", turn |-> t]
           kept == IF accepted \in RangeOf(events) THEN Without(events, accepted) ELSE events
           current == [agent EXCEPT !.activeForegroundTurnId = t, !.activeTurnId = t,
                         !.pendingReplacement = FALSE, !.lifecycle = "running",
                         !.generator[t] = "streaming", !.staged[t] = <<>>]
           owed == live \cup late \cup {u \in Tokens : EndIn(u, kept)}
<1>0. /\ agent \in AgentState /\ Slotted(agent) /\ events \in Seq(Event)
      /\ agent.generator[t] = "starting" /\ t \in begun
  BY AgentType DEF EndInv, CancelInv, QueueInv, PlacesInv, AgentState, StartResolves
<1>1. PICK b : b = agent'
  OBVIOUS
<1>2. b = EnqueueAll(current, kept)
  BY <1>1 DEF StartResolves
<1>3. kept \in Seq(Event) /\ (EndIn(t, events) => EndIn(t, kept))
  <2>1. ~IsTerminal(accepted, t)
    BY DEF IsTerminal
  <2> QED BY <1>0, <2>1, WithoutType, EndInWithout
<1>4. agent.run = t
  BY <1>0 DEF Slotted
<1>5. /\ current \in AgentState /\ current.activeForegroundTurnId = t
      /\ current.generator[t] = "streaming" /\ current.run = agent.run
      /\ \A u \in Tokens \ {t} : current.generator[u] = agent.generator[u]
      /\ current.settled = agent.settled
      /\ current.tail = agent.tail /\ current.barred = agent.barred
  <2>1. <<>> \in Seq(Event) /\ t \in Turns
    BY EmptySeq, EntriesType
  <2> QED BY <1>0, <2>1 DEF AgentState
<1> HIDE DEF current, kept, events
<1>6. Slotted(current)
  BY <1>0, <1>4, <1>5 DEF Slotted
<1>7. EndComes(current, owed)
  <2>1. t \in live \cup late \/ EndIn(t, events) \/ EndIn(t, agent.barred)
    BY <1>0 DEF EndInv, StartEnds, events
  <2> QED BY <1>3, <1>5, <2>1 DEF EndComes
<1>8. StartEnds(current, owed, begun)
  BY <1>0, <1>4, <1>5 DEF StartEnds, Slotted
<1>9. KeepsEnds(current, b) /\ \A u : EndIn(u, kept) => Lands(current, b, u)
  BY <1>2, <1>3, <1>5, EnqueueAllLands
<1>10. \A u \in Tokens : u \in owed => u \in live \cup late \/ Lands(current, b, u)
  BY <1>9
<1>11. SameRuns(current, b)
  BY <1>2, <1>5, StillRuns
<1> HIDE DEF owed
<1>12. EndComes(b, live \cup late) /\ StartEnds(b, live \cup late, begun)
  BY <1>5, <1>6, <1>7, <1>8, <1>9, <1>10, <1>11, LandedEnds
<1> QED BY <1>1, <1>12

\* An event that is handled leaves its turn no longer current.
LEMMA DeliveredEnds ==
  ASSUME "rewind" \notin Verbs, EndInv, [Next]_vars, DeliverEvent
  PROVE  /\ EndComes(agent', live \cup late)
         /\ StartEnds(agent', live \cup late, begun)
<1>0. /\ agent \in AgentState /\ TypeOK /\ agent.tail \in Seq(Event) /\ agent.tail # <<>>
  BY AgentType DEF EndInv, CancelInv, QueueInv, PlacesInv, AgentState, DeliverEvent
<1>1. PICK b : b = agent'
  OBVIOUS
<1>2. PICK rest : rest = [agent EXCEPT !.tail = Tail(@)]
  OBVIOUS
<1>3. /\ rest.tail = Tail(agent.tail) /\ rest.barred = agent.barred
      /\ rest.staged = agent.staged /\ rest.settled = agent.settled
      /\ rest.activeForegroundTurnId = agent.activeForegroundTurnId
  BY <1>0, <1>2 DEF AgentState
<1>4. Rests(rest, b)
  BY <1>0, <1>1, <1>2, DeliverRestsOf
<1>5. \A t \in Tokens : IsTerminal(Head(agent.tail), t) => b.activeForegroundTurnId # t
  BY <1>1, DeliverStarts DEF EndInv
<1>6. ASSUME NEW t \in Tokens, b.activeForegroundTurnId = t
      PROVE  t \in live \cup late \/ EndIn(t, b.tail) \/ EndIn(t, b.barred)
  <2>1. agent.activeForegroundTurnId = t
    BY <1>3, <1>4, <1>6, EntriesType DEF Rests
  <2>2. ~IsTerminal(Head(agent.tail), t)
    BY <1>5, <1>6
  <2>3. t \in live \cup late \/ EndIn(t, agent.tail) \/ EndIn(t, agent.barred)
    BY <2>1 DEF EndInv, EndComes
  <2>4. EndIn(t, agent.tail) => EndIn(t, Tail(agent.tail))
    BY <1>0, <2>2, EndInTail
  <2> QED BY <1>3, <1>4, <2>3, <2>4 DEF Rests, SameEvents
<1>7. ASSUME NEW t \in Tokens, b.generator[t] = "starting", t \notin b.settled, t \in begun
      PROVE  t \in live \cup late \/ EndIn(t, b.staged[t]) \/ EndIn(t, b.barred)
  <2>1. agent.generator[t] = "starting"
    BY <1>1, <1>7, StepStarts DEF EndInv, BegunPrompted
  <2>2. t \notin agent.settled
    BY <1>3, <1>4, <1>7 DEF Rests, Goes
  <2> QED BY <1>3, <1>4, <1>7, <2>1, <2>2 DEF Rests, SameEvents, EndInv, StartEnds
<1>8. EndComes(b, live \cup late) /\ StartEnds(b, live \cup late, begun)
  BY <1>6, <1>7 DEF EndComes, StartEnds
<1> QED BY <1>1, <1>8

(***************************************************************************)
(* Every step is one of a few kinds.                                       *)
(***************************************************************************)
LEMMA StepKinds ==
  ASSUME "rewind" \notin Verbs, CancelInv, [Next]_vars
  PROVE  \/ /\ Rests(agent, agent') \/ \E p \in Prompts : Raises(p)
            /\ UNCHANGED <<live, begun, late>>
         \/ \E p \in Prompts : InterruptAcknowledged(p) \/ SteerAnswered(p)
         \/ \E t \in Tokens : StartResolves(t) /\ t \notin agent.settled
         \/ DeliverEvent \/ Provider
<1> DEFINE Quietly == /\ Rests(agent, agent') \/ \E p \in Prompts : Raises(p)
                      /\ UNCHANGED <<live, begun, late>>
<1>0. TypeOK /\ NoRewind
  BY DEF CancelInv, QueueInv, PlacesInv
<1>1. CASE UNCHANGED vars
  BY <1>1, RestsItself DEF vars
<1>2. ASSUME NEW p \in Prompts, MakeCall(p) PROVE Quietly
  <2>1. Rests(agent, agent') \/ Raises(p)
    BY <1>0, <1>2, CallsForTurns, MakeCallRests
  <2>2. UNCHANGED <<live, begun, late>>
    BY <1>2 DEF MakeCall, RunAgent, SendPrompt, TryRunOutOfBand, StopRun, Rewind, NoTurnChange
  <2> QED BY <2>1, <2>2
<1>3. ASSUME NEW p \in Prompts, Mutation(p), ~InterruptAcknowledged(p), ~SteerAnswered(p)
      PROVE  Quietly
  <2>1. Rests(agent, agent') \/ Raises(p)
    BY <1>0, <1>3, MutationRests
  <2>2. UNCHANGED <<live, begun, late>>
    BY <1>3 DEF Mutation, CancelBegins, InterruptFailed, CancelSettles, CancelDrained,
       SteerBegins, SteerReturns, NoTurnChange
  <2> QED BY <2>1, <2>2
<1>4. ASSUME NEW p \in Prompts, Continuation(p) PROVE Quietly
  <2>1. UNCHANGED <<live, begun, late>>
    BY <1>4 DEF Continuation, ReplacementStarts, RewindLocks, RewindEnds,
       FinalizeOutOfBandRun, NoTurnChange
  <2> QED BY <1>0, <1>4, <2>1, ContinuationRests
<1>5. ASSUME NEW t \in Tokens, StartResolves(t), t \in agent.settled PROVE Quietly
  BY <1>0, <1>5, StartGivesUp DEF StartResolves, NoTurnChange
<1>6. ASSUME NEW t \in Tokens, NEW stale \in BOOLEAN, NEW todo \in TodoChoices,
             StartFails(t, stale, todo)
      PROVE  Quietly
  <2>1. PICK b : b = agent'
    OBVIOUS
  <2>2. todo \in TodoEntries \cup {None}
    BY DEF TodoChoices
  <2>3. Rests(agent, b)
    BY <1>0, <1>6, <2>1, <2>2, StartFailsRests
  <2>4. UNCHANGED <<live, begun, late>>
    BY <1>6 DEF StartFails, NoTurnChange
  <2> QED BY <2>1, <2>3, <2>4
<1>7. ASSUME NEW t \in Tokens, GeneratorEnds(t) PROVE Quietly
  BY <1>0, <1>7, GeneratorEndsRests DEF GeneratorEnds, NoTurnChange
<1>8. ASSUME EditQueue PROVE Quietly
  <2>1. UNCHANGED <<live, begun, late>>
    BY <1>8 DEF EditQueue, ClearSteerQueue, RemoveSteerQueueEntry,
       ReorderSteerQueueEntry, NoTurnChange
  <2> QED BY <1>0, <1>8, <2>1, EditQueueRests
<1> HIDE DEF Quietly
<1>9. CASE Next
  <2>1. ASSUME NEW t \in Tokens, StartTurn(t)
        PROVE  Quietly \/ (StartResolves(t) /\ t \notin agent.settled)
    BY <1>5, <1>6, <2>1 DEF StartTurn
  <2>2. ASSUME NEW p \in Prompts, MakeCall(p) \/ Mutation(p) \/ Continuation(p)
        PROVE  Quietly \/ InterruptAcknowledged(p) \/ SteerAnswered(p)
    BY <1>2, <1>3, <1>4, <2>2
  <2>3. \/ Quietly
        \/ \E p \in Prompts : InterruptAcknowledged(p) \/ SteerAnswered(p)
        \/ \E t \in Tokens : StartResolves(t) /\ t \notin agent.settled
        \/ DeliverEvent \/ Provider
    BY <1>7, <1>8, <1>9, <2>1, <2>2 DEF Next
  <2> QED BY <2>3 DEF Quietly
<1> QED BY <1>1, <1>9 DEF Quietly

\* A raised flag moves no run and no event.
LEMMA RaisesGoes ==
  ASSUME TypeOK, NEW p \in Prompts, Raises(p)
  PROVE  /\ SameRuns(agent, agent') /\ SameEvents(agent, agent') /\ Goes(agent, agent')
         /\ agent'.run = agent.run
BY AgentType DEF Raises, AgentState, SameRuns, SameEvents, Goes

LEMMA StepEnds ==
  ASSUME "rewind" \notin Verbs, EndInv, [Next]_vars
  PROVE  /\ OneTurn' /\ BegunPrompted'
         /\ EndComes(agent', live' \cup late') /\ StartEnds(agent', live' \cup late', begun')
<1>0. /\ TypeOK /\ CancelInv /\ agent \in AgentState /\ Over(agent)
      /\ agent.generator \in [Tokens -> {"unused", "starting", "streaming", "ending",
                                         "done", "lock"}]
  BY AgentType DEF EndInv, CancelInv, QueueInv, PlacesInv, AgentState
<1>1. \A t \in Tokens : agent.prompt[t] # <<>> => agent'.prompt[t] # <<>>
  BY StepStarts DEF EndInv
<1>2. ASSUME begun' = begun, live' \subseteq live PROVE OneTurn' /\ BegunPrompted'
  BY <1>1, <1>2 DEF EndInv, OneTurn, BegunPrompted
<1>3. ASSUME Rests(agent, agent'), UNCHANGED <<live, begun, late>>
      PROVE  /\ EndComes(agent', live' \cup late')
             /\ StartEnds(agent', live' \cup late', begun')
  BY <1>3, RestsEnds
<1>4. ASSUME NEW p \in Prompts, Raises(p), UNCHANGED <<live, begun, late>>
      PROVE  /\ EndComes(agent', live' \cup late')
             /\ StartEnds(agent', live' \cup late', begun')
  BY <1>0, <1>4, RaisesGoes DEF EndInv, EndComes, StartEnds, SameRuns, SameEvents
<1>5. ASSUME NEW p \in Prompts, InterruptAcknowledged(p)
      PROVE  begun' = begun /\ live' \subseteq live
  BY <1>5 DEF InterruptAcknowledged
<1>6. ASSUME \/ \E p \in Prompts : SteerAnswered(p)
             \/ \E t \in Tokens : StartResolves(t)
             \/ DeliverEvent
      PROVE  UNCHANGED <<live, begun, late>>
  BY <1>6 DEF SteerAnswered, StartResolves, DeliverEvent, NoTurnChange
<1>7. ASSUME Provider PROVE OneTurn' /\ BegunPrompted'
  <2>1. ASSUME NEW t \in Turns, ProviderBegins(t) PROVE OneTurn' /\ BegunPrompted'
    <3>1. live' = {t} /\ begun' = begun \cup {t} /\ t \in Autonomous \cup Starting
      BY <2>1 DEF ProviderBegins
    <3>2. t \in Tokens => agent.prompt[t] # <<>>
      BY <1>0, <3>1, AgentTurnsAssumption DEF Starting, Over, Tokens
    <3> QED BY <1>1, <3>1, <3>2 DEF EndInv, OneTurn, BegunPrompted
  <2>2. ASSUME NEW t \in Turns, ProviderReportsLate(t) \/ \E kind \in EndKinds : ProviderEnds(t, kind)
        PROVE  begun' = begun /\ live' \subseteq live
    BY <2>2 DEF ProviderReportsLate, ProviderEnds
  <2> QED BY <1>2, <1>7, <2>1, <2>2 DEF Provider
<1> QED BY <1>0, <1>2, <1>3, <1>4, <1>5, <1>6, <1>7, StepKinds, ProviderEndsKept,
        AcknowledgedEnds, AnsweredEnds, ResolvedEnds, DeliveredEnds

\* Where nobody rewinds, a turn of the manager's that is current will end: the
\* provider runs it or owes its end, or that end waits in the tail or behind the
\* steer barrier.  Staging, admissions and cancellations lose no end of a current
\* turn, for any number of calls and turns.
THEOREM CurrentTurnWillEnd ==
  ASSUME "rewind" \notin Verbs
  PROVE  Spec => []CurrentTurnEnds
<1> DEFINE Kept == /\ OneTurn /\ BegunPrompted
                   /\ EndComes(agent, live \cup late) /\ StartEnds(agent, live \cup late, begun)
<1>1. Init => Kept
  BY EntriesType DEF Init, OneTurn, BegunPrompted, EndComes, StartEnds
<1>2. CancelInv /\ Kept /\ [Next]_vars => Kept'
  <2> SUFFICES ASSUME CancelInv, Kept, [Next]_vars PROVE Kept'
    OBVIOUS
  <2>1. /\ OneTurn' /\ BegunPrompted'
        /\ EndComes(agent', live' \cup late') /\ StartEnds(agent', live' \cup late', begun')
    BY StepEnds DEF EndInv
  <2> QED BY <2>1 DEF EndComes, StartEnds
<1>3. CancelInv /\ Kept => CurrentTurnEnds
  BY EndsIsEnough DEF EndInv
<1> HIDE DEF Kept
<1> QED BY <1>1, <1>2, <1>3, CancelHolds, PTL DEF Spec

(***************************************************************************)
(* The flag of a replacement.                                              *)
(***************************************************************************)
\* A run that had the slot, or was settled, had its prompt.
Ran(a) == \A t \in Tokens : a.run = t \/ t \in a.settled => a.prompt[t] # <<>>

LEMMA GoesRan == ASSUME NEW a, NEW b, Ran(a), Goes(a, b) PROVE Ran(b)
BY DEF Ran, Goes

\* Only a call that will clear it raises the flag.
LEMMA StepGoes ==
  ASSUME "rewind" \notin Verbs, CancelInv, [Next]_vars
  PROVE  /\ Goes(agent, agent')
         /\ agent'.pendingReplacement =>
              agent.pendingReplacement \/ \E p \in Prompts : Raises(p)
<1>0. TypeOK /\ agent \in AgentState
  BY AgentType DEF CancelInv, QueueInv, PlacesInv
<1>1. PICK b : b = agent'
  OBVIOUS
<1>2. ASSUME Rests(agent, agent') \/ \E p \in Prompts : Raises(p)
      PROVE  /\ Goes(agent, b)
             /\ b.pendingReplacement =>
                  agent.pendingReplacement \/ \E p \in Prompts : Raises(p)
  BY <1>0, <1>1, <1>2, RaisesGoes DEF Rests
<1>3. ASSUME Passes(agent, b)
      PROVE  Goes(agent, b) /\ (b.pendingReplacement => agent.pendingReplacement)
  BY <1>3, PassesGoes DEF Passes
<1>4. ASSUME Provider \/ \E p \in Prompts : InterruptAcknowledged(p) PROVE Passes(agent, b)
  <2>1. b = agent \/ \E event : b = enqueueSessionEvent(agent, event)
    BY <1>1, <1>4 DEF Provider, ProviderBegins, ProviderReportsLate, ProviderEnds, Emit,
       InterruptAcknowledged
  <2> QED BY <1>0, <2>1, EventsPass DEF Passes, SameRuns
<1>5. ASSUME NEW p \in Prompts, SteerAnswered(p) PROVE Passes(agent, b)
  <2> DEFINE opened == [agent EXCEPT !.barrier = FALSE, !.barred = <<>>]
  <2>1. b = EnqueueAll(opened, agent.barred)
    BY <1>1, <1>5 DEF SteerAnswered
  <2>2. opened \in AgentState /\ Passes(agent, opened)
    <3>1. <<>> \in Seq(Event)
      BY EmptySeq
    <3> QED BY <1>0, <3>1 DEF AgentState, Passes, SameRuns
  <2> HIDE DEF opened
  <2>3. Passes(opened, b)
    BY <2>1, <2>2, EventsPass
  <2> QED BY <2>2, <2>3 DEF Passes, SameRuns
<1>6. ASSUME NEW t \in Tokens, StartResolves(t), t \notin agent.settled
      PROVE  Goes(agent, b) /\ ~b.pendingReplacement
  BY <1>0, <1>1, <1>6, StartResolvesCurrent
<1>7. ASSUME DeliverEvent
      PROVE  Goes(agent, b) /\ (b.pendingReplacement => agent.pendingReplacement)
  <2>1. PICK rest : rest = [agent EXCEPT !.tail = Tail(@)]
    OBVIOUS
  <2>2. Rests(rest, b)
    BY <1>0, <1>1, <1>7, <2>1, DeliverRestsOf
  <2>3. Goes(agent, rest) /\ rest.pendingReplacement = agent.pendingReplacement
    BY <1>0, <2>1 DEF AgentState, Goes
  <2> QED BY <2>2, <2>3, GoesTransitive DEF Rests
<1>8. /\ Goes(agent, b)
      /\ b.pendingReplacement => agent.pendingReplacement \/ \E p \in Prompts : Raises(p)
  BY <1>2, <1>3, <1>4, <1>5, <1>6, <1>7, StepKinds
<1> QED BY <1>1, <1>8

FlagInv == CancelInv /\ Ran(agent)

LEMMA FlagHolds ==
  ASSUME "rewind" \notin Verbs
  PROVE  Spec => []FlagInv
<1>1. Init => Ran(agent)
  BY EntriesType DEF Init, Ran
<1>2. CancelInv /\ Ran(agent) /\ [Next]_vars => Ran(agent)'
  <2> SUFFICES ASSUME CancelInv, Ran(agent), [Next]_vars PROVE Ran(agent)'
    OBVIOUS
  <2>1. Ran(agent')
    BY StepGoes, GoesRan
  <2> QED BY <2>1 DEF Ran
<1> QED BY <1>1, <1>2, CancelHolds, PTL DEF Spec, FlagInv

\* A call that is replacing a run stays at it until it has lowered the flag, or
\* started the run that will.
LEMMA ReplacingMoves ==
  ASSUME FlagInv, [Next]_vars, NEW p \in Prompts, Replacing(p), agent'.pendingReplacement
  PROVE  WillClear(p)'
<1>0. TypeOK /\ PlacesInv /\ HeadsOwn(agent) /\ agent \in AgentState /\ call[p] \in CallState
      /\ p \in Tokens
  BY AgentType, PromptIsToken DEF FlagInv, CancelInv, QueueInv, PlacesInv, TypeOK
<1>1. CASE call'[p] = call[p]
  BY <1>1 DEF Replacing, WillClear
<1>2. CASE call'[p] # call[p]
  <2>1. ~Placed(agent, p)
    BY <1>0 DEF PlacesInv, Known, PlacedStages, Replacing
  <2>2. p \notin RangeOf(agent.steerQueue)
    BY <2>1 DEF Placed, InQueue
  <2>3. MakeCall(p) \/ Mutation(p) \/ Continuation(p)
    BY <1>2, <2>2, CallMoves DEF FlagInv
  <2>4. CASE ReplacementStarts(p)
    <3>1. p \notin agent.settled
      BY <1>0, <2>1 DEF FlagInv, Ran, HeadsOwn, Placed
    <3>2. agent' = streamAgent(agent, p, <<p>>)
      <4>1. ~ForwarderFailed(agent).pendingReplacement
        BY <1>0, ForwarderRests
      <4>2. ~[agent EXCEPT !.pendingReplacement = FALSE].pendingReplacement
        BY <1>0 DEF AgentState
      <4> QED BY <2>4, <4>1, <4>2 DEF ReplacementStarts
    <3>3. /\ streamAgent(agent, p, <<p>>).generator[p] = "starting"
          /\ streamAgent(agent, p, <<p>>).settled = agent.settled
      BY <1>0 DEF streamAgent, AgentState
    <3> QED BY <3>1, <3>2, <3>3 DEF WillClear
  <2>5. ASSUME NEW stage \in {"interrupting", "settling", "draining", "replacing"},
               call'[p].verb = call[p].verb, call'[p].pc = stage
        PROVE  WillClear(p)'
    BY <2>5 DEF Replacing, WillClear
  <2>6. CASE CancelBegins(p) \/ InterruptAcknowledged(p)
    BY <1>0, <2>5, <2>6 DEF CancelBegins, InterruptAcknowledged, Cancelled, Replacing,
       CallState, TypeOK
  <2>7. CASE InterruptFailed(p)
    <3>1. call' = [call EXCEPT ![p].pc = "settling"]
      <4>1. ~[agent EXCEPT !.pendingReplacement = FALSE].pendingReplacement
        BY <1>0 DEF AgentState
      <4> QED BY <2>7, <4>1 DEF InterruptFailed, Replacing
    <3> QED BY <1>0, <2>5, <3>1 DEF TypeOK, CallState
  <2>8. CASE CancelSettles(p) \/ CancelDrained(p)
    BY <1>0, <2>5, <2>8 DEF CancelSettles, CancelDrained, Cancelled, Replacing,
       CallState, TypeOK
  <2>9. call[p].pc \in {"cancelling", "interrupting", "settling", "draining", "replacing"}
    BY DEF Replacing
  <2>10. ~MakeCall(p) /\ ~RewindLocks(p) /\ ~RewindEnds(p) /\ ~FinalizeOutOfBandRun(p)
    <3>1. call[p] # NoCall
      BY <2>9 DEF NoCall
    <3>2. ~MakeCall(p)
      BY <3>1 DEF MakeCall
    <3>3. ~RewindLocks(p) /\ ~RewindEnds(p) /\ ~FinalizeOutOfBandRun(p)
      BY <2>9, Zenon DEF RewindLocks, RewindEnds, FinalizeOutOfBandRun
    <3> QED BY <3>2, <3>3
  <2>11. ~SteerBegins(p) /\ ~SteerAnswered(p) /\ ~SteerReturns(p)
    BY <2>9 DEF SteerBegins, SteerAnswered, SteerReturns, AtHead
  <2> QED BY <2>3, <2>4, <2>6, <2>7, <2>8, <2>10, <2>11 DEF Mutation, Continuation
<1> QED BY <1>1, <1>2

\* A replacement that starts lowers the flag when its start is answered, unless it
\* was stopped before and nobody waits for its failure.
LEMMA StartingMoves ==
  ASSUME "rewind" \notin Verbs, FlagInv, [Next]_vars, NEW p \in Prompts,
         agent.generator[p] = "starting", p \notin agent.settled \/ call[p].pc = "forwarded",
         agent'.pendingReplacement
  PROVE  WillClear(p)' \/ StoppedInStart(p)
<1>0. /\ CancelInv /\ TypeOK /\ Lone(agent) /\ HeadsOwn(agent) /\ Over(agent)
      /\ agent \in AgentState /\ p \in Tokens
  BY AgentType, PromptIsToken DEF FlagInv, CancelInv, QueueInv, PlacesInv
<1>1. PICK b : b = agent'
  OBVIOUS
<1>2. ~StartTurn(p)
  <2>1. StartResolves(p) => ~b.pendingReplacement
    BY <1>0, <1>1, StartGivesUp, StartResolvesCurrent
  <2>2. ASSUME NEW stale \in BOOLEAN, NEW todo \in TodoChoices, StartFails(p, stale, todo)
        PROVE  ~b.pendingReplacement
    BY <1>0, <1>1, <2>2, StartFailsRests DEF TodoChoices
  <2> QED BY <1>1, <2>1, <2>2 DEF StartTurn
<1>3. agent'.generator[p] = "starting"
  BY <1>0, <1>2, StepStarts
<1>4. CASE call[p].pc = "forwarded"
  <2>1. p \notin RangeOf(agent.steerQueue)
    BY <1>0, Unprompted DEF Over, InQueue
  <2>2. ~MakeCall(p) /\ ~Mutation(p) /\ ~Continuation(p)
    BY <1>4 DEF MakeCall, NoCall, Mutation, CancelBegins, InterruptAcknowledged,
       InterruptFailed, CancelSettles, CancelDrained, SteerBegins, SteerAnswered,
       SteerReturns, AtHead, Continuation, ReplacementStarts, RewindLocks, RewindEnds,
       FinalizeOutOfBandRun
  <2>3. call'[p] = call[p]
    BY <1>0, <2>1, <2>2, CallMoves
  <2> QED BY <1>3, <1>4, <2>3 DEF WillClear
<1>5. CASE p \notin agent.settled /\ call[p].pc # "forwarded"
  BY <1>3, <1>5 DEF WillClear, StoppedInStart
<1> QED BY <1>4, <1>5

\* Where nobody rewinds, the flag of a replacement is raised by a call that will
\* lower it, and handed on until it is lowered; it loses its last owner only where
\* a run that no forwarder watches is stopped in its start.
THEOREM ReplacementIsHandedOn ==
  ASSUME "rewind" \notin Verbs
  PROVE  Spec => ReplacementHandedOn
<1> DEFINE HandsOn == agent'.pendingReplacement /\ ~ReplacementOwned' =>
             /\ agent.pendingReplacement
             /\ ReplacementOwned => \E p \in Prompts : StoppedInStart(p)
<1>1. ASSUME FlagInv, [Next]_vars PROVE HandsOn
  <2> SUFFICES ASSUME agent'.pendingReplacement, ~ReplacementOwned'
               PROVE  /\ agent.pendingReplacement
                      /\ ReplacementOwned => \E p \in Prompts : StoppedInStart(p)
    OBVIOUS
  <2>1. \A p \in Prompts : ~WillClear(p)'
    BY DEF ReplacementOwned
  <2>2. agent.pendingReplacement
    <3>1. \A p \in Prompts : ~Raises(p)
      BY <2>1 DEF Raises, WillClear
    <3> QED BY <1>1, <3>1, StepGoes DEF FlagInv
  <2>3. ASSUME NEW p \in Prompts, WillClear(p) PROVE StoppedInStart(p)
    <3>1. ~Replacing(p)
      BY <1>1, <2>1, ReplacingMoves
    <3> QED BY <1>1, <2>1, <2>3, <3>1, StartingMoves DEF WillClear
  <2> QED BY <2>2, <2>3 DEF ReplacementOwned
<1>2. FlagInv /\ [Next]_vars => [HandsOn]_vars
  BY <1>1
<1> QED BY <1>2, FlagHolds, PTL DEF Spec, ReplacementHandedOn
=============================================================================
