-------------------------- MODULE AgentTurnProofs --------------------------
(***************************************************************************)
(* Theorems about AgentTurns, for every set of prompts and every choice of *)
(* verbs, and the lemmas they rest on: the types, and that a message is in *)
(* one place.                                                              *)
(***************************************************************************)
EXTENDS AgentTurnProperties, FiniteSetTheorems, SequenceTheorems, TLAPS

(***************************************************************************)
(* The queue operators.                                                    *)
(***************************************************************************)
\* A batch takes at least the head of the queue and at most all of it.
LEMMA BatchSizeBounds ==
  ASSUME NEW S, NEW q \in Seq(S), q # <<>>
  PROVE  BatchSize(q) \in 1 .. Len(q)
<1> DEFINE I == {i \in 1 .. Len(q) : \A j \in 1 .. i - 1 : canMerge(q[j], q[j + 1])}
<1>1. Len(q) \in Nat \ {0}
  BY EmptySeq
<1>2. IsFiniteSet(1 .. Len(q)) /\ Cardinality(1 .. Len(q)) = Len(q)
  BY <1>1, FS_Interval
<1>3. IsFiniteSet(I) /\ Cardinality(I) <= Len(q)
  <2>1. I \in SUBSET (1 .. Len(q))
    OBVIOUS
  <2> QED BY <1>2, <2>1, FS_Subset
<1>4. 1 \in I
  BY <1>1
<1>5. Cardinality(I) \in Nat \ {0}
  BY <1>3, <1>4, FS_CardinalityType, FS_EmptySet
<1> QED BY <1>1, <1>3, <1>5 DEF BatchSize

\* A part of a sequence is a sequence over the same set.
LEMMA PartType ==
  ASSUME NEW S, NEW s \in Seq(S), NEW m \in Int, NEW n \in Int, 1 <= m, n <= Len(s)
  PROVE  /\ SubSeq(s, m, n) \in Seq(S)
         /\ Len(SubSeq(s, m, n)) = IF m <= n THEN n - m + 1 ELSE 0
<1>1. Len(s) \in Nat /\ \A i \in 1 .. Len(s) : s[i] \in S
  BY LenProperties, ElementOfSeq
<1>2. \A i \in m .. n : s[i] \in S
  BY <1>1
<1> QED BY <1>2, SubSeqProperties

\* A non-empty queue splits into a non-empty batch and what stays queued.
LEMMA BatchSplits ==
  ASSUME NEW S, NEW q \in Seq(S), q # <<>>
  PROVE  /\ takeNextSteerQueueBatch(q).entries \in Seq(S) \ {<<>>}
         /\ takeNextSteerQueueBatch(q).rest \in Seq(S)
<1> DEFINE n == BatchSize(q)
<1>1. n \in 1 .. Len(q) /\ Len(q) \in Nat
  BY BatchSizeBounds, LenProperties
<1> HIDE DEF n
<1>2. SubSeq(q, 1, n) \in Seq(S) /\ Len(SubSeq(q, 1, n)) = n
  BY <1>1, PartType
<1>3. SubSeq(q, 1, n) # <<>>
  BY <1>1, <1>2, EmptySeq
<1>4. SubSeq(q, n + 1, Len(q)) \in Seq(S)
  BY <1>1, PartType
<1> QED BY <1>2, <1>3, <1>4 DEF takeNextSteerQueueBatch, n

\* Dropping an element leaves a sequence over the same set, one shorter.
LEMMA WithoutType ==
  ASSUME NEW S, NEW s \in Seq(S), NEW x \in RangeOf(s)
  PROVE  Without(s, x) \in Seq(S) /\ Len(Without(s, x)) = Len(s) - 1
<1>1. DOMAIN s = 1 .. Len(s)
  BY LenProperties
<1>2. Len(s) \in Nat
  BY LenProperties
<1>3. PICK i \in 1 .. Len(s) : i = IndexOf(s, x)
  BY <1>1 DEF IndexOf, RangeOf
<1> DEFINE head == SubSeq(s, 1, i - 1)
           tail == SubSeq(s, i + 1, Len(s))
<1>4. head \in Seq(S) /\ Len(head) = i - 1
  BY <1>2, PartType
<1>5. tail \in Seq(S) /\ Len(tail) = Len(s) - i
  <2>1. CASE i = Len(s)
    BY <1>2, <2>1, PartType
  <2>2. CASE i < Len(s)
    BY <1>2, <2>2, PartType
  <2> QED BY <1>2, <2>1, <2>2
<1>6. Without(s, x) = head \o tail
  BY <1>3 DEF Without
<1> HIDE DEF head, tail
<1>7. head \o tail \in Seq(S) /\ Len(head \o tail) = Len(head) + Len(tail)
  BY <1>4, <1>5, ConcatProperties
<1> QED BY <1>2, <1>4, <1>5, <1>6, <1>7

\* Moving an element keeps a sequence over the same set.
LEMMA MoveType ==
  ASSUME NEW S, NEW s \in Seq(S), NEW x \in RangeOf(s), NEW k \in Int
  PROVE  moveSteerQueueEntry(s, x, k) \in Seq(S)
<1> DEFINE o == Without(s, x)
           t == IF k < 1 THEN 1 ELSE IF k > Len(s) THEN Len(s) ELSE k
<1>1. Len(s) \in Nat /\ DOMAIN s = 1 .. Len(s) /\ x \in S
  BY LenProperties, ElementOfSeq DEF RangeOf
<1>2. o \in Seq(S) /\ Len(o) = Len(s) - 1
  BY WithoutType
<1>3. t \in 1 .. Len(s)
  BY <1>1 DEF RangeOf
<1>4. moveSteerQueueEntry(s, x, k)
        = (SubSeq(o, 1, t - 1) \o <<x>>) \o SubSeq(o, t, Len(o))
  BY DEF moveSteerQueueEntry
<1> HIDE DEF o, t
<1>5. SubSeq(o, 1, t - 1) \in Seq(S) /\ SubSeq(o, t, Len(o)) \in Seq(S)
  BY <1>1, <1>2, <1>3, PartType
<1>6. <<x>> \in Seq(S)
  BY <1>1
<1>7. SubSeq(o, 1, t - 1) \o <<x>> \in Seq(S)
  BY <1>5, <1>6, ConcatProperties
<1>8. (SubSeq(o, 1, t - 1) \o <<x>>) \o SubSeq(o, t, Len(o)) \in Seq(S)
  BY <1>5, <1>7, ConcatProperties
<1> QED BY <1>4, <1>8

(***************************************************************************)
(* Each operator takes a well-typed agent to a well-typed agent.           *)
(***************************************************************************)
LEMMA EntriesType ==
  /\ Prompts \subseteq Entries /\ TodoEntries \subseteq Entries
  /\ Tokens = Entries /\ Tokens \subseteq Turns /\ Autonomous \subseteq Turns
  /\ None \notin Turns
BY AgentTurnsAssumption DEF Tokens, Turns

LEMMA StreamAgentType ==
  ASSUME NEW a \in AgentState, NEW token \in Tokens, NEW batch \in Seq(Entries)
  PROVE  streamAgent(a, token, batch) \in AgentState
BY DEF AgentState, streamAgent

LEMMA DeliverBatchType ==
  ASSUME NEW a \in AgentState, NEW batch \in Seq(Entries) \ {<<>>}
  PROVE  DeliverBatch(a, batch) \in AgentState
<1>1. Head(batch) \in Tokens
  BY EntriesType, HeadTailProperties
<1>2. streamAgent(a, Head(batch), batch) \in AgentState
  BY <1>1, StreamAgentType
<1>3. batch \o a.steerQueue \in Seq(Entries)
  BY ConcatProperties DEF AgentState
<1>4. [a EXCEPT !.pendingSteerDrain = FALSE,
                !.steerQueue = batch \o a.steerQueue] \in AgentState
  BY <1>3 DEF AgentState
<1> QED BY <1>2, <1>4 DEF DeliverBatch

LEMMA DispatchType ==
  ASSUME NEW a \in AgentState, NEW batch \in Seq(Entries) \ {<<>>}
  PROVE  dispatchSteerQueueBatch(a, batch) \in AgentState
<1>1. CASE hasPendingRun(a)
  <2>1. a.run \in Tokens
    BY <1>1 DEF hasPendingRun, AgentState
  <2>2. Append(a.waiting[a.run], batch) \in Seq(Seq(Entries) \ {<<>>})
    BY <2>1, AppendProperties DEF AgentState
  <2>3. [a EXCEPT !.waiting[a.run] = Append(@, batch)] \in AgentState
    BY <2>1, <2>2 DEF AgentState
  <2> QED BY <1>1, <2>3 DEF dispatchSteerQueueBatch
<1>2. CASE ~hasPendingRun(a)
  BY <1>2, DeliverBatchType DEF dispatchSteerQueueBatch
<1> QED BY <1>1, <1>2

LEMMA SettleType ==
  ASSUME NEW a \in AgentState, NEW token \in Tokens
  PROVE  settleForegroundRun(a, token) \in AgentState
<1> DEFINE cleared == [a EXCEPT !.run = None, !.settled = @ \cup {token},
                                !.waiting[token] = <<>>]
<1>1. cleared \in AgentState
  <2>1. <<>> \in Seq(Seq(Entries) \ {<<>>})
    BY EmptySeq
  <2> QED BY <2>1 DEF AgentState
<1>2. CASE a.waiting[token] # <<>>
  <2>1. Head(a.waiting[token]) \in Seq(Entries) \ {<<>>}
    BY <1>2, HeadTailProperties DEF AgentState
  <2> HIDE DEF cleared
  <2>2. DeliverBatch(cleared, Head(a.waiting[token])) \in AgentState
    BY <1>1, <2>1, DeliverBatchType
  <2> QED BY <1>1, <2>2 DEF settleForegroundRun, cleared
<1>3. CASE a.waiting[token] = <<>>
  BY <1>1, <1>3 DEF settleForegroundRun
<1> QED BY <1>2, <1>3

LEMMA EnqueueType ==
  ASSUME NEW a \in AgentState, NEW event \in Event
  PROVE  enqueueSessionEvent(a, event) \in AgentState
<1>1. CASE a.barrier
  <2>1. Append(a.barred, event) \in Seq(Event)
    BY AppendProperties DEF AgentState
  <2> QED BY <1>1, <2>1 DEF AgentState, enqueueSessionEvent
<1>2. CASE ~a.barrier /\ a.run # None
  <2>1. a.run \in Tokens
    BY <1>2 DEF AgentState
  <2>2. /\ Append(a.staged[a.run], event) \in Seq(Event)
        /\ Append(a.tail, event) \in Seq(Event)
    BY <2>1, AppendProperties DEF AgentState
  <2> QED BY <1>2, <2>1, <2>2 DEF AgentState, enqueueSessionEvent
<1>3. CASE ~a.barrier /\ a.run = None
  <2>1. Append(a.tail, event) \in Seq(Event)
    BY AppendProperties DEF AgentState
  <2> QED BY <1>3, <2>1, ZenonT(60) DEF AgentState, enqueueSessionEvent
<1> QED BY <1>1, <1>2, <1>3

LEMMA EnqueueAllType ==
  ASSUME NEW a \in AgentState, NEW events \in Seq(Event)
  PROVE  EnqueueAll(a, events) \in AgentState
<1>1. CASE a.barrier
  <2>1. a.barred \o events \in Seq(Event)
    BY ConcatProperties DEF AgentState
  <2> QED BY <1>1, <2>1 DEF AgentState, EnqueueAll
<1>2. CASE ~a.barrier /\ a.run # None
  <2>1. a.run \in Tokens
    BY <1>2 DEF AgentState
  <2>2. a.staged[a.run] \o events \in Seq(Event) /\ a.tail \o events \in Seq(Event)
    BY <2>1, ConcatProperties DEF AgentState
  <2> QED BY <1>2, <2>1, <2>2 DEF AgentState, EnqueueAll
<1>3. CASE ~a.barrier /\ a.run = None
  <2>1. a.tail \o events \in Seq(Event)
    BY ConcatProperties DEF AgentState
  <2> QED BY <1>3, <2>1, ZenonT(60) DEF AgentState, EnqueueAll
<1> QED BY <1>1, <1>2, <1>3

LEMMA TerminalType ==
  ASSUME NEW a \in AgentState, NEW turn
  PROVE  applyActiveTurnTerminal(a, turn) \in AgentState
BY ZenonT(60) DEF AgentState, applyActiveTurnTerminal

LEMMA RememberType ==
  ASSUME NEW a \in AgentState, NEW turn \in Turns \cup {None}
  PROVE  rememberFinalizedTurn(a, turn) \in AgentState
<1>1. CASE turn = None \/ turn \in RangeOf(a.finalized)
  BY <1>1 DEF rememberFinalizedTurn
<1>2. CASE ~(turn = None \/ turn \in RangeOf(a.finalized))
  <2> DEFINE added == Append(a.finalized, turn)
             kept  == IF Len(added) > FinalizedLimit THEN Tail(added) ELSE added
  <2>1. added \in Seq(Turns) /\ added # <<>>
    <3>1. turn \in Turns /\ a.finalized \in Seq(Turns)
      BY <1>2 DEF AgentState
    <3>2. added \in Seq(Turns) /\ Len(added) = Len(a.finalized) + 1
      BY <3>1, AppendProperties
    <3>3. Len(a.finalized) \in Nat
      BY <3>1, LenProperties
    <3> QED BY <3>2, <3>3, EmptySeq
  <2>2. Tail(added) \in Seq(Turns)
    BY <2>1, HeadTailProperties
  <2>3. kept \in Seq(Turns)
    BY <2>1, <2>2
  <2>4. rememberFinalizedTurn(a, turn) = [a EXCEPT !.finalized = kept]
    BY <1>2 DEF rememberFinalizedTurn
  <2> HIDE DEF kept
  <2> QED BY <2>3, <2>4 DEF AgentState
<1> QED BY <1>1, <1>2

LEMMA TodoType ==
  ASSUME NEW a \in AgentState, NEW todo \in TodoEntries \cup {None}
  PROVE  maybeEnqueueTodoReconcile(a, todo) \in AgentState
<1>1. CASE todo = None
  BY <1>1 DEF maybeEnqueueTodoReconcile
<1>2. CASE todo # None
  <2>1. <<todo>> \in Seq(Entries)
    BY <1>2, EntriesType
  <2> QED BY <1>2, <2>1, ZenonT(60) DEF AgentState, maybeEnqueueTodoReconcile
<1> QED BY <1>1, <1>2

\* Claiming the next batch, at the end of a run or by a message that finds the
\* agent idle beside a taken slot.
LEMMA ClaimType ==
  ASSUME NEW a \in AgentState, a.steerQueue # <<>>
  PROVE  dispatchSteerQueueBatch(
           [a EXCEPT !.steerQueue = takeNextSteerQueueBatch(a.steerQueue).rest,
                     !.pendingSteerDrain = TRUE, !.lifecycle = "running"],
           takeNextSteerQueueBatch(a.steerQueue).entries) \in AgentState
<1> DEFINE batch == takeNextSteerQueueBatch(a.steerQueue)
           taken == [a EXCEPT !.steerQueue = batch.rest,
                              !.pendingSteerDrain = TRUE, !.lifecycle = "running"]
<1>1. a.steerQueue \in Seq(Entries)
  BY DEF AgentState
<1>2. batch.entries \in Seq(Entries) \ {<<>>} /\ batch.rest \in Seq(Entries)
  BY <1>1, BatchSplits
<1> HIDE DEF batch
<1>3. taken \in AgentState
  BY <1>2 DEF AgentState
<1> HIDE DEF taken
<1>4. dispatchSteerQueueBatch(taken, batch.entries) \in AgentState
  BY <1>2, <1>3, DispatchType
<1> QED BY <1>4 DEF taken, batch

LEMMA RestOrDrainType ==
  ASSUME NEW a \in AgentState, NEW held \in BOOLEAN
  PROVE  RestOrDrain(a, held) \in AgentState
<1>1. CASE held \/ a.lastError \/ a.steerQueueHeld \/ a.steerQueue = <<>>
  BY <1>1, ZenonT(60) DEF RestOrDrain, AgentState
<1>2. CASE ~(held \/ a.lastError \/ a.steerQueueHeld \/ a.steerQueue = <<>>)
  BY <1>2, ClaimType DEF RestOrDrain
<1> QED BY <1>1, <1>2

LEMMA FinalizeType ==
  ASSUME NEW a \in AgentState, NEW turn \in Turns \cup {None},
         NEW todo \in TodoEntries \cup {None}
  PROVE  finalizeForegroundTurn(a, turn, todo) \in AgentState
<1> DEFINE noTurn == [rememberFinalizedTurn(a, turn) EXCEPT !.activeForegroundTurnId = None]
           closed == applyActiveTurnTerminal(noTurn, turn)
           parked == maybeEnqueueTodoReconcile(closed, todo)
<1>1. rememberFinalizedTurn(a, turn) \in AgentState
  BY RememberType
<1>2. noTurn \in AgentState
  BY <1>1 DEF AgentState
<1> HIDE DEF noTurn
<1>3. closed \in AgentState
  BY <1>2, TerminalType
<1> HIDE DEF closed
<1>4. parked \in AgentState
  BY <1>3, TodoType
<1> HIDE DEF parked
<1>5. (a.pendingReplacement /\ ~a.lastError) \in BOOLEAN
  BY DEF AgentState
<1>6. RestOrDrain(parked, a.pendingReplacement /\ ~a.lastError) \in AgentState
  BY <1>4, <1>5, RestOrDrainType
<1> QED BY <1>6 DEF finalizeForegroundTurn, parked, closed, noTurn

LEMMA TurnEndedType ==
  ASSUME NEW a \in AgentState, NEW kind, NEW isForeground \in BOOLEAN
  PROVE  TurnEnded(a, kind, isForeground) \in AgentState
<1> DEFINE failed == kind = "failed"
           life == IF failed THEN IF isForeground THEN a.lifecycle ELSE "error"
                   ELSE IF isForeground \/ a.pendingReplacement \/ a.pendingSteerDrain
                        THEN a.lifecycle ELSE "idle"
<1>1. failed \in BOOLEAN /\ life \in {"idle", "running", "error"}
  BY DEF AgentState
<1>2. TurnEnded(a, kind, isForeground) = [a EXCEPT !.lastError = failed, !.lifecycle = life]
  BY DEF TurnEnded
<1> HIDE DEF failed, life
<1> QED BY <1>1, <1>2 DEF AgentState

LEMMA TerminalEventType ==
  ASSUME NEW a \in AgentState, NEW kind, NEW eventTurn \in Turns \cup {None},
         NEW todo \in TodoEntries \cup {None}
  PROVE  TerminalEvent(a, kind, eventTurn, todo) \in AgentState
<1> DEFINE turn == ManagedTurn(a, eventTurn)
           isForeground == turn # None /\ a.activeForegroundTurnId = turn
           closed == applyActiveTurnTerminal(a, turn)
           ended  == IF TerminalDisposition(a, turn) = "stale" THEN closed
                     ELSE TurnEnded(closed, kind, isForeground)
           final  == IF isForeground THEN finalizeForegroundTurn(ended, turn, todo)
                     ELSE ended
<1>1. turn \in Turns \cup {None}
  BY EntriesType DEF ManagedTurn, AgentState
<1>2. isForeground \in BOOLEAN
  OBVIOUS
<1> HIDE DEF turn, isForeground
<1>3. closed \in AgentState
  BY TerminalType
<1> HIDE DEF closed
<1>4. ended \in AgentState
  BY <1>2, <1>3, TurnEndedType
<1> HIDE DEF ended
<1>5. final \in AgentState
  BY <1>1, <1>4, FinalizeType
<1> HIDE DEF final
<1>6. TerminalEvent(a, kind, eventTurn, todo)
        = IF turn \in RangeOf(a.finalized) THEN a
          ELSE IF eventTurn \in Tokens /\ a.generator[eventTurn] = "streaming"
               THEN [final EXCEPT !.generator[eventTurn] = "ending"]
               ELSE final
  BY DEF TerminalEvent, final, ended, closed, isForeground, turn, ManagedTurn
<1>7. eventTurn \in Tokens => [final EXCEPT !.generator[eventTurn] = "ending"] \in AgentState
  BY <1>5 DEF AgentState
<1> QED BY <1>5, <1>6, <1>7

LEMMA TurnStartedType ==
  ASSUME NEW a \in AgentState, NEW turn \in Turns
  PROVE  TurnStarted(a, turn) \in AgentState
BY ZenonT(60) DEF AgentState, TurnStarted

LEMMA ForwarderFailedType ==
  ASSUME NEW a \in AgentState
  PROVE  ForwarderFailed(a) \in AgentState
BY ZenonT(60) DEF AgentState, ForwarderFailed

(***************************************************************************)
(* Every action keeps the state well typed.                                *)
(***************************************************************************)
LEMMA CalledType ==
  ASSUME TypeOK, NEW p \in Prompts, NEW verb, NEW pc, NEW turn,
         [verb |-> verb, pc |-> pc, turn |-> turn, run |-> None] \in CallState,
         Called(p, verb, pc, turn)
  PROVE  call' \in [Prompts -> CallState]
BY DEF TypeOK, Called

LEMMA StageType ==
  ASSUME TypeOK, NEW p \in Prompts, NEW stage \in Stages,
         call' = [call EXCEPT ![p].pc = stage]
  PROVE  call' \in [Prompts -> CallState]
<1>1. call[p] \in CallState
  BY DEF TypeOK
<1>2. [call[p] EXCEPT !.pc = stage] \in CallState
  BY <1>1 DEF CallState
<1> QED BY <1>2 DEF TypeOK

LEMMA AgentType == ASSUME TypeOK PROVE agent \in AgentState
BY DEF TypeOK

LEMMA PromptIsToken == Prompts \subseteq Tokens /\ Prompts \subseteq Entries
BY EntriesType

\* A prompt by itself is a batch.
LEMMA PromptBatch ==
  ASSUME NEW p \in Prompts PROVE <<p>> \in Seq(Entries) /\ p \in Tokens
BY PromptIsToken

LEMMA StartOrRejectType ==
  ASSUME TypeOK, NEW p \in Prompts, NEW verb \in AllVerbs, StartOrReject(p, verb)
  PROVE  agent' \in AgentState /\ call' \in [Prompts -> CallState]
<1>1. CASE SlotTaken(agent)
  <2>1. [verb |-> verb, pc |-> "rejected", turn |-> None, run |-> None] \in CallState
    BY DEF CallState, Stages
  <2> QED BY <1>1, <2>1, CalledType DEF StartOrReject, TypeOK
<1>2. CASE ~SlotTaken(agent)
  <2>1. [verb |-> verb, pc |-> "streamed", turn |-> None, run |-> None] \in CallState
    BY DEF CallState, Stages
  <2>2. call' \in [Prompts -> CallState]
    BY <1>2, <2>1, CalledType DEF StartOrReject
  <2>3. streamAgent(agent, p, <<p>>) \in AgentState
    BY PromptBatch, StreamAgentType DEF TypeOK
  <2> QED BY <1>2, <2>2, <2>3 DEF StartOrReject
<1> QED BY <1>1, <1>2

LEMMA CancelToReplaceType ==
  ASSUME TypeOK, NEW p \in Prompts, NEW verb \in AllVerbs,
         NEW queued \in Seq(Prompts), CancelToReplace(p, verb, queued)
  PROVE  /\ agent' \in AgentState /\ call' \in [Prompts -> CallState]
         /\ mutations' \in Seq(Prompts)
<1>1. [verb |-> verb, pc |-> "cancelling", turn |-> None, run |-> None] \in CallState
  BY DEF CallState, Stages
<1>2. call' \in [Prompts -> CallState]
  BY <1>1, CalledType DEF CancelToReplace
<1>3. agent' \in AgentState
  BY DEF CancelToReplace, TypeOK, AgentState
<1>4. mutations' \in Seq(Prompts)
  BY AppendProperties DEF CancelToReplace
<1> QED BY <1>2, <1>3, <1>4

LEMMA StartOrReplaceType ==
  ASSUME TypeOK, NEW p \in Prompts, NEW queued \in Seq(Prompts),
         StartOrReplace(p, queued)
  PROVE  /\ agent' \in AgentState /\ call' \in [Prompts -> CallState]
         /\ mutations' \in Seq(Prompts)
<1>1. "interrupt" \in AllVerbs
  BY DEF AllVerbs
<1>2. CASE hasInFlightRun(agent)
  BY <1>1, <1>2, CancelToReplaceType DEF StartOrReplace
<1>3. CASE ~hasInFlightRun(agent)
  BY <1>1, <1>3, StartOrRejectType DEF StartOrReplace
<1> QED BY <1>2, <1>3

LEMMA EnqueueSteerMessageType ==
  ASSUME TypeOK, NEW p \in Prompts, NEW verb \in AllVerbs, EnqueueSteerMessage(p, verb)
  PROVE  /\ agent' \in AgentState /\ call' \in [Prompts -> CallState]
         /\ mutations' \in Seq(Prompts)
<1> DEFINE parked == [agent EXCEPT !.steerQueue = Append(@, p)]
           batch  == takeNextSteerQueueBatch(parked.steerQueue)
           claimed == dispatchSteerQueueBatch(
                  [parked EXCEPT !.steerQueue = batch.rest, !.pendingSteerDrain = TRUE,
                                 !.lifecycle = "running"], batch.entries)
<1>1. /\ agent.steerQueue \in Seq(Entries) /\ p \in Entries
      /\ parked.steerQueue = Append(agent.steerQueue, p)
  BY PromptIsToken DEF TypeOK, AgentState
<1>2. /\ parked.steerQueue \in Seq(Entries) /\ Len(agent.steerQueue) \in Nat
      /\ Len(parked.steerQueue) = Len(agent.steerQueue) + 1
  BY <1>1, AppendProperties, LenProperties
<1>3. parked.steerQueue # <<>>
  BY <1>2, EmptySeq
<1>4. parked \in AgentState
  BY <1>1, <1>2 DEF TypeOK, AgentState
<1> HIDE DEF parked
<1>5. claimed \in AgentState
  BY <1>3, <1>4, ClaimType
<1>6. agent' = claimed \/ agent' = parked
  BY DEF EnqueueSteerMessage, parked
<1>7. [verb |-> verb, pc |-> "parked", turn |-> None, run |-> None] \in CallState
  BY DEF CallState, Stages
<1>8. call' \in [Prompts -> CallState]
  BY <1>7, CalledType DEF EnqueueSteerMessage
<1>9. mutations' \in Seq(Prompts)
  BY DEF EnqueueSteerMessage, TypeOK
<1> QED BY <1>4, <1>5, <1>6, <1>8, <1>9

LEMMA SteerUnavailableType ==
  ASSUME TypeOK, NEW p \in Prompts, NEW expected, NEW queued \in Seq(Prompts),
         SteerUnavailable(p, expected, queued)
  PROVE  /\ agent' \in AgentState /\ call' \in [Prompts -> CallState]
         /\ mutations' \in Seq(Prompts)
<1>1. "steer" \in AllVerbs
  BY DEF AllVerbs
<1>2. CASE agent.activeForegroundTurnId = None /\ agent.activeTurnId = expected
  BY <1>2, StartOrReplaceType DEF SteerUnavailable
<1>3. CASE /\ ~(agent.activeForegroundTurnId = None /\ agent.activeTurnId = expected)
           /\ agent.activeTurnId # expected
  <2>1. [verb |-> "steer", pc |-> "rejected", turn |-> None, run |-> None] \in CallState
    BY <1>1 DEF CallState, Stages
  <2>2. Called(p, "steer", "rejected", None)
    BY <1>3 DEF SteerUnavailable
  <2> QED BY <1>3, <2>1, <2>2, CalledType DEF SteerUnavailable, TypeOK
<1>4. CASE /\ ~(agent.activeForegroundTurnId = None /\ agent.activeTurnId = expected)
           /\ agent.activeTurnId = expected
  BY <1>1, <1>4, CancelToReplaceType DEF SteerUnavailable
<1> QED BY <1>2, <1>3, <1>4

LEMMA SendPromptType ==
  ASSUME TypeOK, NEW p \in Prompts, NEW verb \in AllVerbs, SendPrompt(p, verb)
  PROVE  /\ agent' \in AgentState /\ call' \in [Prompts -> CallState]
         /\ mutations' \in Seq(Prompts)
<1> DEFINE expected == IF agent.activeForegroundTurnId # None
                       THEN agent.activeForegroundTurnId ELSE agent.activeTurnId
<1>1. mutations \in Seq(Prompts) /\ expected \in Turns \cup {None}
  BY EntriesType DEF TypeOK, AgentState
<1>2. ASSUME SteerTurn(p, expected)
      PROVE  /\ agent' \in AgentState /\ call' \in [Prompts -> CallState]
             /\ mutations' \in Seq(Prompts)
  <2>1. CASE expected = None
    BY <1>1, <1>2, <2>1, StartOrReplaceType DEF SteerTurn
  <2>2. CASE expected # None
    <3>1. [verb |-> "steer", pc |-> "steering", turn |-> expected, run |-> None] \in CallState
      BY <1>1 DEF CallState, Stages, AllVerbs
    <3>2. Called(p, "steer", "steering", expected) /\ UNCHANGED agent
      BY <1>2, <2>2 DEF SteerTurn
    <3>3. mutations' = Append(mutations, p)
      BY <1>2, <2>2 DEF SteerTurn
    <3>4. mutations' \in Seq(Prompts)
      BY <1>1, <3>3, AppendProperties
    <3>5. call' \in [Prompts -> CallState]
      BY <3>1, <3>2, CalledType
    <3> QED BY <3>2, <3>4, <3>5 DEF TypeOK
  <2> QED BY <2>1, <2>2
<1> HIDE DEF expected
<1>3. \/ EnqueueSteerMessage(p, verb) \/ SteerTurn(p, expected)
      \/ StartOrReplace(p, mutations)
  BY DEF SendPrompt, expected
<1> QED BY <1>1, <1>2, <1>3, EnqueueSteerMessageType, StartOrReplaceType

LEMMA MakeCallType ==
  ASSUME TypeOK, NEW p \in Prompts, MakeCall(p)
  PROVE  TypeOK'
<1>0. NoTurnChange => /\ live' \in SUBSET Turns /\ begun' \in SUBSET Turns
                      /\ late' \in SUBSET Turns /\ stopped' \in SUBSET Tokens
  BY DEF TypeOK, NoTurnChange
<1>1. CASE RunAgent(p)
  <2>1. "run" \in AllVerbs
    BY DEF AllVerbs
  <2> QED BY <1>0, <1>1, <2>1, StartOrRejectType DEF RunAgent, TypeOK
<1>2. ASSUME NEW verb \in Verbs \cap {"queue", "interrupt", "steer"}, SendPrompt(p, verb)
      PROVE  TypeOK'
  <2>1. verb \in AllVerbs
    BY DEF AllVerbs
  <2>2. NoTurnChange
    BY <1>2 DEF SendPrompt
  <2> QED BY <1>0, <1>2, <2>1, <2>2, SendPromptType DEF TypeOK
<1>3. CASE TryRunOutOfBand(p)
  <2>1. [verb |-> "oob", pc |-> "oob", turn |-> None, run |-> None] \in CallState
    BY DEF CallState, Stages, AllVerbs
  <2>2. call' \in [Prompts -> CallState]
    BY <1>3, <2>1, CalledType DEF TryRunOutOfBand
  <2>3. agent' \in AgentState
    <3> DEFINE more == agent.outOfBandRunCount + 1
    <3>1. agent.outOfBandRunCount \in Nat
      BY AgentType DEF AgentState
    <3>2. more \in Nat
      BY <3>1
    <3>3. agent' = [agent EXCEPT !.outOfBandRunCount = more, !.lifecycle = "running"]
      BY <1>3 DEF TryRunOutOfBand
    <3> HIDE DEF more
    <3> QED BY <3>2, <3>3, AgentType DEF AgentState
  <2> QED BY <1>0, <1>3, <2>2, <2>3 DEF TryRunOutOfBand, TypeOK
<1>4. CASE StopRun(p)
  <2>1. /\ [verb |-> "stop", pc |-> "cancelling", turn |-> None, run |-> None] \in CallState
        /\ [verb |-> "stop", pc |-> "done", turn |-> None, run |-> None] \in CallState
    BY DEF CallState, Stages, AllVerbs
  <2>2. call' \in [Prompts -> CallState]
    BY <1>4, <2>1, CalledType DEF StopRun
  <2>3. mutations' \in Seq(Prompts)
    BY <1>4, AppendProperties DEF StopRun, TypeOK
  <2> QED BY <1>0, <1>4, <2>2, <2>3 DEF StopRun, TypeOK
<1>5. CASE Rewind(p)
  <2>1. /\ [verb |-> "rewind", pc |-> "cancelling", turn |-> None, run |-> None] \in CallState
        /\ [verb |-> "rewind", pc |-> "rewinding", turn |-> None, run |-> None] \in CallState
    BY DEF CallState, Stages, AllVerbs
  <2>2. call' \in [Prompts -> CallState]
    BY <1>5, <2>1, CalledType DEF Rewind
  <2>3. mutations' \in Seq(Prompts)
    BY <1>5, AppendProperties DEF Rewind, TypeOK
  <2>4. agent' \in AgentState
    <3>1. [agent EXCEPT !.run = p, !.generator[p] = "lock"] \in AgentState
      BY AgentType, PromptIsToken DEF AgentState
    <3> QED BY <1>5, <3>1, AgentType DEF Rewind, LockSlot
  <2> QED BY <1>0, <1>5, <2>2, <2>3, <2>4 DEF Rewind, TypeOK
<1> QED BY <1>1, <1>2, <1>3, <1>4, <1>5 DEF MakeCall

LEMMA EditQueueType ==
  ASSUME TypeOK, EditQueue
  PROVE  TypeOK'
<1>0. NoTurnChange => /\ live' \in SUBSET Turns /\ begun' \in SUBSET Turns
                      /\ late' \in SUBSET Turns /\ stopped' \in SUBSET Tokens
  BY DEF TypeOK, NoTurnChange
<1>1. agent.steerQueue \in Seq(Entries)
  BY DEF TypeOK, AgentState
<1>2. CASE ClearSteerQueue
  <2>1. <<>> \in Seq(Entries)
    BY EmptySeq
  <2>2. agent' \in AgentState
    BY <1>2, <2>1 DEF ClearSteerQueue, TypeOK, AgentState
  <2>3. call' \in [Prompts -> CallState]
    BY <1>2 DEF ClearSteerQueue, TypeOK, CallState, Stages
  <2> QED BY <1>0, <1>2, <2>2, <2>3 DEF ClearSteerQueue, TypeOK
<1>3. ASSUME NEW e \in Entries, RemoveSteerQueueEntry(e)
      PROVE  TypeOK'
  <2>1. Without(agent.steerQueue, e) \in Seq(Entries)
    BY <1>1, <1>3, WithoutType DEF RemoveSteerQueueEntry
  <2>2. agent' \in AgentState
    BY <1>3, <2>1 DEF RemoveSteerQueueEntry, TypeOK, AgentState
  <2>3. call' \in [Prompts -> CallState]
    <3>1. "removed" \in Stages
      BY DEF Stages
    <3> QED BY <1>3, <3>1, StageType DEF RemoveSteerQueueEntry, TypeOK
  <2> QED BY <1>0, <1>3, <2>2, <2>3 DEF RemoveSteerQueueEntry, TypeOK
<1>4. ASSUME NEW e \in Entries, NEW i \in 1 .. Cardinality(Entries),
             ReorderSteerQueueEntry(e, i)
      PROVE  TypeOK'
  <2>1. moveSteerQueueEntry(agent.steerQueue, e, i) \in Seq(Entries)
    BY <1>1, <1>4, MoveType DEF ReorderSteerQueueEntry
  <2>2. agent' \in AgentState
    BY <1>4, <2>1 DEF ReorderSteerQueueEntry, TypeOK, AgentState
  <2> QED BY <1>0, <1>4, <2>2 DEF ReorderSteerQueueEntry, TypeOK
<1> QED BY <1>2, <1>3, <1>4 DEF EditQueue

LEMMA CancelledType ==
  ASSUME TypeOK, NEW p \in Prompts, mutations # <<>>, NEW refused, Cancelled(p, refused)
  PROVE  mutations' \in Seq(Prompts) /\ call' \in [Prompts -> CallState]
<1>1. Tail(mutations) \in Seq(Prompts)
  BY HeadTailProperties DEF TypeOK
<1>2. \E next \in {"rejected", "done", "locking", "replacing"} :
        call' = [call EXCEPT ![p].pc = next]
  BY DEF Cancelled
<1>3. call' \in [Prompts -> CallState]
  BY <1>2, StageType DEF Stages
<1> QED BY <1>1, <1>3 DEF Cancelled

LEMMA MutationType ==
  ASSUME TypeOK, NEW p \in Prompts, Mutation(p)
  PROVE  TypeOK'
<1>0. NoTurnChange => /\ live' \in SUBSET Turns /\ begun' \in SUBSET Turns
                      /\ late' \in SUBSET Turns /\ stopped' \in SUBSET Tokens
  BY DEF TypeOK, NoTurnChange
<1>1. CASE CancelBegins(p)
  <2>1. CASE ~hasInFlightRun(agent)
    <3>1. mutations # <<>> /\ Cancelled(p, FALSE) /\ UNCHANGED agent /\ NoTurnChange
      BY <1>1, <2>1 DEF CancelBegins, AtHead
    <3> QED BY <1>0, <3>1, CancelledType DEF TypeOK
  <2>2. CASE hasInFlightRun(agent)
    <3>1. agent' \in AgentState
      <4>1. [agent EXCEPT !.steerQueueHeld = TRUE] \in AgentState
        BY AgentType DEF AgentState
      <4> QED BY <1>1, <2>2, <4>1 DEF CancelBegins
    <3>2. agent.activeForegroundTurnId \in Turns \cup {None} /\ agent.run \in Tokens \cup {None}
      BY EntriesType DEF TypeOK, AgentState
    <3>3. call' \in [Prompts -> CallState]
      BY <1>1, <2>2, <3>2 DEF CancelBegins, TypeOK, CallState, Stages
    <3> QED BY <1>0, <1>1, <2>2, <3>1, <3>3 DEF CancelBegins, TypeOK
  <2> QED BY <2>1, <2>2
<1>2. CASE InterruptAcknowledged(p)
  <2>1. call' \in [Prompts -> CallState]
    BY <1>2, SMTT(40) DEF InterruptAcknowledged, TypeOK, CallState, Stages
  <2>2. /\ live' \in SUBSET Turns /\ stopped' \in SUBSET Tokens
        /\ late' \in SUBSET Turns
    BY <1>2 DEF InterruptAcknowledged, TypeOK, Starting
  <2>3. agent' \in AgentState
    <3>1. CASE live = {}
      BY <1>2, <3>1 DEF InterruptAcknowledged, TypeOK
    <3>2. CASE live # {}
      <4> DEFINE t == CHOOSE t \in live : TRUE
      <4>1. t \in Turns
        BY <3>2 DEF TypeOK
      <4> HIDE DEF t
      <4>2. [type |-> "canceled", turn |-> t] \in Event
        BY <4>1 DEF Event, EndKinds
      <4>3. enqueueSessionEvent(agent, [type |-> "canceled", turn |-> t]) \in AgentState
        BY <4>2, EnqueueType DEF TypeOK
      <4> QED BY <1>2, <3>2, <4>3 DEF InterruptAcknowledged, TypeOK, t
    <3> QED BY <3>1, <3>2
  <2> QED BY <1>2, <2>1, <2>2, <2>3 DEF InterruptAcknowledged, TypeOK
<1>3. CASE InterruptFailed(p)
  <2>1. CASE isRunStillActive(call[p].turn)
    <3>1. mutations # <<>> /\ Cancelled(p, TRUE) /\ NoTurnChange
      BY <1>3, <2>1 DEF InterruptFailed, AtHead
    <3>2. agent' \in AgentState
      <4>1. [agent EXCEPT !.pendingReplacement = FALSE] \in AgentState
        BY AgentType DEF AgentState
      <4> QED BY <1>3, <2>1, <4>1, AgentType DEF InterruptFailed
    <3> QED BY <1>0, <3>1, <3>2, CancelledType DEF TypeOK
  <2>2. CASE ~isRunStillActive(call[p].turn)
    <3>1. call' \in [Prompts -> CallState]
      BY <1>3, <2>2, SMTT(40) DEF InterruptFailed, TypeOK, CallState, Stages
    <3> QED BY <1>0, <1>3, <2>2, <3>1 DEF InterruptFailed, TypeOK
  <2> QED BY <2>1, <2>2
<1>4. CASE CancelSettles(p)
  <2> DEFINE c == call[p]
             unstarted == /\ c.turn = None /\ c.run # None /\ c.run \notin agent.settled
                          /\ agent.generator[c.run] \in {"starting", "lock"}
  <2>1. /\ c.turn \in Turns \cup {None} /\ c.run \in Tokens \cup {None}
        /\ mutations # <<>> /\ NoTurnChange
    BY <1>4 DEF TypeOK, CallState, CancelSettles, AtHead
  <2>2. CASE c.turn # None /\ agent.activeForegroundTurnId = c.turn
    <3>1. PICK todo \in TodoChoices : agent' = TerminalEvent(agent, "canceled", c.turn, todo)
      BY <1>4, <2>2 DEF CancelSettles, CapturedRun
    <3>2. todo \in TodoEntries \cup {None}
      BY DEF TodoChoices
    <3>3. agent' \in AgentState
      BY <2>1, <3>1, <3>2, TerminalEventType DEF TypeOK
    <3>4. CASE agent'.run = None
      BY <1>0, <1>4, <2>1, <2>2, <3>3, <3>4, CancelledType DEF CancelSettles, CapturedRun, TypeOK
    <3>5. CASE agent'.run # None
      <4>1. agent'.run \in Tokens \cup {None}
        BY <3>3 DEF AgentState
      <4>2. /\ call' = [call EXCEPT ![p].pc = "draining", ![p].run = agent'.run]
            /\ UNCHANGED mutations
        BY <1>4, <2>2, <3>5 DEF CancelSettles, CapturedRun
      <4>3. call' \in [Prompts -> CallState]
        <5>1. call[p] \in CallState /\ "draining" \in Stages
          BY DEF TypeOK, Stages
        <5>2. [call[p] EXCEPT !.pc = "draining", !.run = agent'.run] \in CallState
          BY <4>1, <5>1 DEF CallState
        <5>3. call' = [call EXCEPT ![p] = [call[p] EXCEPT !.pc = "draining",
                                                          !.run = agent'.run]]
          BY <4>2 DEF TypeOK
        <5> QED BY <5>2, <5>3 DEF TypeOK
      <4> QED BY <1>0, <2>1, <3>3, <4>2, <4>3 DEF TypeOK
    <3> QED BY <3>4, <3>5
  <2>3. CASE ~(c.turn # None /\ agent.activeForegroundTurnId = c.turn)
    <3>1. /\ agent' = (IF unstarted THEN settleForegroundRun(agent, c.run) ELSE agent)
          /\ Cancelled(p, FALSE)
      BY <1>4, <2>3 DEF CancelSettles, CapturedRun
    <3>2. unstarted => c.run \in Tokens
      BY <2>1
    <3>3. agent' \in AgentState
      BY <3>1, <3>2, SettleType DEF TypeOK
    <3> QED BY <1>0, <2>1, <3>1, <3>3, CancelledType DEF TypeOK
  <2> QED BY <2>2, <2>3
<1>5. CASE CancelDrained(p)
  <2>1. mutations # <<>> /\ Cancelled(p, FALSE) /\ UNCHANGED agent /\ NoTurnChange
    BY <1>5 DEF CancelDrained, AtHead
  <2> QED BY <1>0, <2>1, CancelledType DEF TypeOK
<1>6. CASE SteerBegins(p)
  <2>1. mutations' \in Seq(Prompts)
    BY <1>6, HeadTailProperties DEF SteerBegins, AtHead, TypeOK
  <2>2. call' \in [Prompts -> CallState]
    BY <1>6 DEF SteerBegins, TypeOK, CallState, Stages
  <2>3. agent' \in AgentState
    <3>1. [agent EXCEPT !.barrier = TRUE] \in AgentState
      BY AgentType DEF AgentState
    <3> QED BY <1>6, <3>1, AgentType DEF SteerBegins
  <2> QED BY <1>0, <1>6, <2>1, <2>2, <2>3 DEF SteerBegins, TypeOK
<1>7. CASE SteerAnswered(p)
  <2> DEFINE opened == [agent EXCEPT !.barrier = FALSE, !.barred = <<>>]
  <2>1. <<>> \in Seq(Event) /\ agent.barred \in Seq(Event)
    BY EmptySeq DEF TypeOK, AgentState
  <2>2. opened \in AgentState
    BY <2>1 DEF TypeOK, AgentState
  <2>3. agent' = EnqueueAll(opened, agent.barred)
    BY <1>7 DEF SteerAnswered
  <2> HIDE DEF opened
  <2>4. agent' \in AgentState
    BY <2>1, <2>2, <2>3, EnqueueAllType
  <2>5. call' \in [Prompts -> CallState]
    <3>1. {"accepted", "unavailable", "failed"} \subseteq Stages
      BY DEF Stages
    <3> QED BY <1>7, <3>1, StageType DEF SteerAnswered
  <2> QED BY <1>0, <1>7, <2>4, <2>5 DEF SteerAnswered, TypeOK
<1>8. CASE SteerReturns(p)
  <2>1. mutations # <<>> /\ Tail(mutations) \in Seq(Prompts) /\ NoTurnChange
    BY <1>8, HeadTailProperties DEF SteerReturns, AtHead, TypeOK
  <2>2. CASE SteerUnavailable(p, call[p].turn, Tail(mutations))
    BY <1>0, <2>1, <2>2, SteerUnavailableType DEF TypeOK
  <2>3. CASE ~SteerUnavailable(p, call[p].turn, Tail(mutations))
    <3>1. call' \in [Prompts -> CallState]
      BY <1>8, <2>3 DEF SteerReturns, TypeOK, CallState, Stages
    <3> QED BY <1>0, <1>8, <2>1, <2>3, <3>1 DEF SteerReturns, TypeOK
  <2> QED BY <2>2, <2>3
<1> QED BY <1>1, <1>2, <1>3, <1>4, <1>5, <1>6, <1>7, <1>8 DEF Mutation

LEMMA ContinuationType ==
  ASSUME TypeOK, NEW p \in Prompts, Continuation(p)
  PROVE  TypeOK'
<1>0. NoTurnChange => /\ live' \in SUBSET Turns /\ begun' \in SUBSET Turns
                      /\ late' \in SUBSET Turns /\ stopped' \in SUBSET Tokens
  BY DEF TypeOK, NoTurnChange
<1>1. CASE ReplacementStarts(p)
  <2>1. {"rejected", "forwarded", "streamed"} \subseteq Stages
    BY DEF Stages
  <2>2. call' \in [Prompts -> CallState]
    BY <1>1, <2>1, StageType DEF ReplacementStarts
  <2>3. /\ ForwarderFailed(agent) \in AgentState
        /\ [agent EXCEPT !.pendingReplacement = FALSE] \in AgentState
        /\ streamAgent(agent, p, <<p>>) \in AgentState
    BY AgentType, ForwarderFailedType, PromptBatch, StreamAgentType, ZenonT(60) DEF AgentState
  <2>4. agent' \in AgentState
    BY <1>1, <2>3 DEF ReplacementStarts
  <2> QED BY <1>0, <1>1, <2>2, <2>4 DEF ReplacementStarts, TypeOK
<1>2. CASE RewindLocks(p)
  <2>1. "rewinding" \in Stages
    BY DEF Stages
  <2>2. call' \in [Prompts -> CallState]
    BY <1>2, <2>1, StageType DEF RewindLocks
  <2>3. [agent EXCEPT !.run = p, !.generator[p] = "lock"] \in AgentState
    BY AgentType, PromptIsToken DEF AgentState
  <2> QED BY <1>0, <1>2, <2>2, <2>3 DEF RewindLocks, LockSlot, TypeOK
<1>3. CASE RewindEnds(p)
  <2>1. "done" \in Stages
    BY DEF Stages
  <2>2. call' \in [Prompts -> CallState]
    BY <1>3, <2>1, StageType DEF RewindEnds
  <2>3. settleForegroundRun(agent, p) \in AgentState
    BY AgentType, PromptIsToken, SettleType
  <2>4. [settleForegroundRun(agent, p) EXCEPT !.generator[p] = "done"] \in AgentState
    BY <2>3 DEF AgentState
  <2> QED BY <1>0, <1>3, <2>2, <2>4 DEF RewindEnds, TypeOK
<1>4. CASE FinalizeOutOfBandRun(p)
  <2> DEFINE left == IF agent.outOfBandRunCount > 0 THEN agent.outOfBandRunCount - 1 ELSE 0
             fewer == [agent EXCEPT !.outOfBandRunCount = left]
  <2>1. "done" \in Stages
    BY DEF Stages
  <2>2. call' \in [Prompts -> CallState]
    BY <1>4, <2>1, StageType DEF FinalizeOutOfBandRun
  <2>3. agent.outOfBandRunCount \in Nat
    BY AgentType DEF AgentState
  <2>4. left \in Nat
    BY <2>3
  <2>5. agent' = fewer \/ agent' = RestOrDrain(fewer, FALSE)
    BY <1>4 DEF FinalizeOutOfBandRun
  <2> HIDE DEF left
  <2>6. fewer \in AgentState
    BY <2>4, AgentType DEF AgentState
  <2> HIDE DEF fewer
  <2>7. agent' \in AgentState
    BY <2>5, <2>6, RestOrDrainType
  <2> QED BY <1>0, <1>4, <2>2, <2>7 DEF FinalizeOutOfBandRun, TypeOK
<1> QED BY <1>1, <1>2, <1>3, <1>4 DEF Continuation

\* Once its turn has ended or given up, a run's generator is done.
LEMMA GeneratorDoneType ==
  ASSUME NEW a \in AgentState, NEW t \in Tokens, NEW stage \in {"done", "ending"}
  PROVE  [a EXCEPT !.generator[t] = stage] \in AgentState
BY DEF AgentState

LEMMA StartFailsType ==
  ASSUME TypeOK, NEW t \in Tokens, NEW stale \in BOOLEAN,
         NEW todo \in TodoEntries \cup {None}, StartFails(t, stale, todo)
  PROVE  agent' \in AgentState
<1> DEFINE gaveUp  == [agent EXCEPT !.generator[t] = "done"]
           started == [gaveUp EXCEPT !.pendingReplacement = FALSE]
           rested  == IF agent.activeForegroundTurnId = None
                      THEN [started EXCEPT !.lifecycle = "idle"] ELSE started
           event   == TerminalEvent(started, "failed", None, None)
           failed  == finalizeForegroundTurn(event, None, todo)
           settled == settleForegroundRun(IF stale THEN rested ELSE failed, t)
           ended   == IF t \in agent.settled THEN gaveUp ELSE settled
<1>1. gaveUp \in AgentState
  BY AgentType, GeneratorDoneType
<1> HIDE DEF gaveUp
<1>2. started \in AgentState
  BY <1>1 DEF AgentState
<1> HIDE DEF started
<1>3. rested \in AgentState
  BY <1>2, ZenonT(60) DEF AgentState
<1> HIDE DEF rested
<1>4. event \in AgentState
  BY <1>2, TerminalEventType
<1> HIDE DEF event
<1>5. failed \in AgentState
  BY <1>4, FinalizeType
<1> HIDE DEF failed
<1>6. settled \in AgentState
  BY <1>3, <1>5, SettleType
<1> HIDE DEF settled
<1>7. ended \in AgentState
  BY <1>1, <1>6
<1> HIDE DEF ended
<1>8. agent' = ended \/ agent' = ForwarderFailed(ended)
  BY DEF StartFails, ended, settled, failed, event, rested, started, gaveUp
<1> QED BY <1>7, <1>8, ForwarderFailedType

LEMMA StartResolvesType ==
  ASSUME TypeOK, NEW t \in Tokens, StartResolves(t)
  PROVE  agent' \in AgentState
<1> DEFINE events == agent.staged[t]
           accepted == [type |-> "started", turn |-> t]
           kept == IF accepted \in RangeOf(events) THEN Without(events, accepted) ELSE events
           current == [agent EXCEPT !.activeForegroundTurnId = t, !.activeTurnId = t,
                         !.pendingReplacement = FALSE, !.lifecycle = "running",
                         !.generator[t] = "streaming", !.staged[t] = <<>>]
           gaveUp == [agent EXCEPT !.generator[t] = "done"]
<1>1. events \in Seq(Event)
  BY AgentType DEF AgentState
<1> HIDE DEF events
<1>2. kept \in Seq(Event)
  BY <1>1, WithoutType
<1>3. current \in AgentState
  <2>1. <<>> \in Seq(Event) /\ t \in Turns
    BY EmptySeq, EntriesType
  <2> QED BY <2>1, AgentType DEF AgentState
<1>4. gaveUp \in AgentState
  BY AgentType, GeneratorDoneType
<1> HIDE DEF kept, current, gaveUp
<1>5. \/ agent' = EnqueueAll(current, kept) \/ agent' = gaveUp
      \/ agent' = ForwarderFailed(gaveUp)
  BY DEF StartResolves, kept, current, gaveUp, events
<1> QED BY <1>2, <1>3, <1>4, <1>5, EnqueueAllType, ForwarderFailedType

LEMMA GeneratorType ==
  ASSUME TypeOK, NEW t \in Tokens, StartTurn(t) \/ GeneratorEnds(t)
  PROVE  TypeOK'
<1>1. UNCHANGED <<call, mutations>> /\ NoTurnChange
  BY DEF StartTurn, StartResolves, StartFails, GeneratorEnds
<1> SUFFICES agent' \in AgentState
  BY <1>1 DEF TypeOK, NoTurnChange
<1>2. CASE StartResolves(t)
  BY <1>2, StartResolvesType
<1>3. CASE \E stale \in BOOLEAN, todo \in TodoChoices : StartFails(t, stale, todo)
  BY <1>3, StartFailsType DEF TodoChoices
<1>4. CASE GeneratorEnds(t)
  <2>1. [agent EXCEPT !.generator[t] = "done"] \in AgentState
    BY AgentType, GeneratorDoneType
  <2> QED BY <1>4, <2>1, SettleType DEF GeneratorEnds
<1> QED BY <1>2, <1>3, <1>4 DEF StartTurn

LEMMA DeliverEventType ==
  ASSUME TypeOK, DeliverEvent
  PROVE  TypeOK'
<1> DEFINE event == Head(agent.tail)
           rest  == [agent EXCEPT !.tail = Tail(@)]
<1>1. event \in Event /\ Tail(agent.tail) \in Seq(Event)
  BY AgentType, HeadTailProperties DEF DeliverEvent, AgentState
<1>2. rest \in AgentState
  BY <1>1, AgentType DEF AgentState
<1>3. event.turn \in Turns
  BY <1>1 DEF Event
<1> HIDE DEF event, rest
<1>4. \/ agent' = TurnStarted(rest, event.turn)
      \/ \E todo \in TodoChoices : agent' = TerminalEvent(rest, event.type, event.turn, todo)
  BY DEF DeliverEvent, event, rest
<1>5. TodoChoices \subseteq TodoEntries \cup {None}
  BY DEF TodoChoices
<1>6. agent' \in AgentState
  BY <1>2, <1>3, <1>4, <1>5, TurnStartedType, TerminalEventType
<1>7. UNCHANGED <<call, mutations>> /\ NoTurnChange
  BY DEF DeliverEvent
<1> QED BY <1>6, <1>7 DEF TypeOK, NoTurnChange

LEMMA ProviderType ==
  ASSUME TypeOK, Provider
  PROVE  TypeOK'
<1>1. \A type \in {"started"} \cup EndKinds, t \in Turns :
        Emit(type, t) => agent' \in AgentState
  <2> TAKE type \in {"started"} \cup EndKinds, t \in Turns
  <2>1. [type |-> type, turn |-> t] \in Event
    BY DEF Event
  <2>2. enqueueSessionEvent(agent, [type |-> type, turn |-> t]) \in AgentState
    BY <2>1, AgentType, EnqueueType
  <2> QED BY <2>2 DEF Emit
<1>2. ASSUME NEW t \in Turns, ProviderBegins(t) PROVE TypeOK'
  BY <1>1, <1>2 DEF ProviderBegins, TypeOK, EndKinds
<1>3. ASSUME NEW t \in Turns, ProviderReportsLate(t) PROVE TypeOK'
  BY <1>1, <1>3 DEF ProviderReportsLate, TypeOK, EndKinds
<1>4. ASSUME NEW t \in Turns, NEW kind \in EndKinds, ProviderEnds(t, kind) PROVE TypeOK'
  BY <1>1, <1>4 DEF ProviderEnds, TypeOK
<1> QED BY <1>2, <1>3, <1>4 DEF Provider

LEMMA InitType == Init => TypeOK
<1> SUFFICES ASSUME Init PROVE TypeOK
  OBVIOUS
<1>1. /\ <<>> \in Seq(Entries) /\ <<>> \in Seq(Turns) /\ <<>> \in Seq(Event)
      /\ <<>> \in Seq(Prompts) /\ <<>> \in Seq(Seq(Entries) \ {<<>>})
  BY EmptySeq
<1>2. agent \in AgentState
  BY <1>1 DEF Init, AgentState
<1>3. NoCall \in CallState
  BY DEF NoCall, CallState, Stages
<1> QED BY <1>1, <1>2, <1>3 DEF Init, TypeOK

LEMMA StepType == TypeOK /\ [Next]_vars => TypeOK'
<1> SUFFICES ASSUME TypeOK, [Next]_vars PROVE TypeOK'
  OBVIOUS
<1>1. CASE UNCHANGED vars
  BY <1>1 DEF vars, TypeOK
<1>2. ASSUME NEW p \in Prompts, MakeCall(p) \/ Mutation(p) \/ Continuation(p)
      PROVE  TypeOK'
  BY <1>2, MakeCallType, MutationType, ContinuationType
<1>3. ASSUME NEW t \in Tokens, StartTurn(t) \/ GeneratorEnds(t)
      PROVE  TypeOK'
  BY <1>3, GeneratorType
<1>4. CASE DeliverEvent
  BY <1>4, DeliverEventType
<1>5. CASE EditQueue \/ Provider
  BY <1>5, EditQueueType, ProviderType
<1> QED BY <1>1, <1>2, <1>3, <1>4, <1>5 DEF Next

\* Every state of the manager's coordination of an agent is well typed: no
\* handler writes an id, a stage or an event of the wrong kind, and a batch that
\* waits for the slot is never empty.
THEOREM TypeCorrect == Spec => []TypeOK
BY InitType, StepType, PTL DEF Spec

(***************************************************************************)
(* A message is in one place.  What the queue operators do to the set of   *)
(* messages, for queues that hold each message once.                       *)
(***************************************************************************)
Once(s) == \A i, j \in DOMAIN s : s[i] = s[j] => i = j

LEMMA SeqDomain ==
  ASSUME NEW S, NEW s \in Seq(S)
  PROVE  DOMAIN s = 1 .. Len(s) /\ Len(s) \in Nat
BY LenProperties

LEMMA OnceEmpty == Once(<<>>) /\ RangeOf(<<>>) = {}
BY DEF Once, RangeOf

LEMMA OnceSingle == ASSUME NEW x PROVE Once(<<x>>) /\ RangeOf(<<x>>) = {x}
BY DEF Once, RangeOf

LEMMA OnceConcat ==
  ASSUME NEW S, NEW s \in Seq(S), NEW t \in Seq(S)
  PROVE  /\ RangeOf(s \o t) = RangeOf(s) \cup RangeOf(t)
         /\ Once(s) /\ Once(t) /\ RangeOf(s) \cap RangeOf(t) = {} => Once(s \o t)
<1>1. /\ DOMAIN s = 1 .. Len(s) /\ DOMAIN t = 1 .. Len(t)
      /\ Len(s) \in Nat /\ Len(t) \in Nat
  BY LenProperties
<1>2. /\ DOMAIN (s \o t) = 1 .. Len(s) + Len(t)
      /\ \A i \in 1 .. Len(s) + Len(t) :
           (s \o t)[i] = IF i <= Len(s) THEN s[i] ELSE t[i - Len(s)]
  BY <1>1, ConcatProperties, LenProperties
<1> DEFINE u == s \o t
<1> HIDE DEF u
<1>3. RangeOf(u) \subseteq RangeOf(s) \cup RangeOf(t)
  BY <1>1, <1>2 DEF RangeOf, u
<1>4. RangeOf(s) \subseteq RangeOf(u)
  BY <1>1, <1>2 DEF RangeOf, u
<1>5. RangeOf(t) \subseteq RangeOf(u)
  <2> SUFFICES ASSUME NEW j \in 1 .. Len(t) PROVE t[j] \in RangeOf(u)
    BY <1>1 DEF RangeOf
  <2>1. j + Len(s) \in DOMAIN u /\ u[j + Len(s)] = t[j]
    BY <1>1, <1>2 DEF u
  <2> QED BY <2>1 DEF RangeOf
<1>6. ASSUME Once(s), Once(t), RangeOf(s) \cap RangeOf(t) = {} PROVE Once(u)
  <2> SUFFICES ASSUME NEW i \in DOMAIN u, NEW j \in DOMAIN u, u[i] = u[j], i < j
               PROVE  FALSE
    BY <1>1, <1>2 DEF Once, u
  <2>1. CASE j <= Len(s)
    BY <1>1, <1>2, <1>6, <2>1 DEF Once, u
  <2>2. CASE i > Len(s)
    <3>1. t[i - Len(s)] = t[j - Len(s)] /\ i - Len(s) \in 1 .. Len(t) /\ j - Len(s) \in 1 .. Len(t)
      BY <1>1, <1>2, <2>2 DEF u
    <3> QED BY <1>1, <1>2, <1>6, <3>1 DEF Once, u
  <2>3. CASE i <= Len(s) /\ Len(s) < j
    <3>1. s[i] = t[j - Len(s)] /\ i \in 1 .. Len(s) /\ j - Len(s) \in 1 .. Len(t)
      BY <1>1, <1>2, <2>3 DEF u
    <3> QED BY <1>1, <1>6, <3>1 DEF RangeOf
  <2> QED BY <1>1, <1>2, <2>1, <2>2, <2>3 DEF u
<1> QED BY <1>3, <1>4, <1>5, <1>6 DEF u

LEMMA OnceJoin ==
  ASSUME NEW S, NEW s \in Seq(S), NEW t \in Seq(S),
         Once(s), Once(t), RangeOf(s) \cap RangeOf(t) = {}
  PROVE  /\ s \o t \in Seq(S) /\ Once(s \o t)
         /\ RangeOf(s \o t) = RangeOf(s) \cup RangeOf(t)
BY OnceConcat, ConcatProperties

LEMMA OnceAppend ==
  ASSUME NEW S, NEW s \in Seq(S), NEW x \in S
  PROVE  /\ RangeOf(Append(s, x)) = RangeOf(s) \cup {x}
         /\ Once(s) /\ x \notin RangeOf(s) => Once(Append(s, x))
<1>1. /\ DOMAIN s = 1 .. Len(s) /\ Len(s) \in Nat
      /\ DOMAIN Append(s, x) = 1 .. Len(s) + 1
      /\ Append(s, x)[Len(s) + 1] = x
      /\ \A i \in 1 .. Len(s) : Append(s, x)[i] = s[i]
  BY AppendProperties, LenProperties
<1> DEFINE u == Append(s, x)
<1> HIDE DEF u
<1>2. RangeOf(u) = RangeOf(s) \cup {x}
  <2>1. RangeOf(u) \subseteq RangeOf(s) \cup {x}
    BY <1>1 DEF RangeOf, u
  <2>2. RangeOf(s) \subseteq RangeOf(u)
    BY <1>1 DEF RangeOf, u
  <2>3. x \in RangeOf(u)
    <3>1. Len(s) + 1 \in DOMAIN u
      BY <1>1 DEF u
    <3> QED BY <1>1, <3>1 DEF RangeOf, u
  <2> QED BY <2>1, <2>2, <2>3
<1>3. Once(s) /\ x \notin RangeOf(s) => Once(u)
  BY <1>1 DEF Once, RangeOf, u
<1> QED BY <1>2, <1>3 DEF u

LEMMA OncePart ==
  ASSUME NEW S, NEW s \in Seq(S), NEW m \in Int, NEW n \in Int, 1 <= m, n <= Len(s)
  PROVE  /\ RangeOf(SubSeq(s, m, n)) = {s[i] : i \in m .. n}
         /\ Once(s) => Once(SubSeq(s, m, n))
<1>1. DOMAIN s = 1 .. Len(s) /\ Len(s) \in Nat
  BY LenProperties
<1> DEFINE u == SubSeq(s, m, n)
           l == IF m <= n THEN n - m + 1 ELSE 0
<1>2. /\ DOMAIN u = 1 .. l
      /\ \A i \in 1 .. l : u[i] = s[m + i - 1]
  BY <1>1
<1> HIDE DEF u
<1>3. RangeOf(u) \subseteq {s[i] : i \in m .. n}
  <2> SUFFICES ASSUME NEW i \in 1 .. l PROVE u[i] \in {s[k] : k \in m .. n}
    BY <1>2 DEF RangeOf
  <2>1. m + i - 1 \in m .. n
    OBVIOUS
  <2> QED BY <1>2, <2>1
<1>4. {s[i] : i \in m .. n} \subseteq RangeOf(u)
  <2> SUFFICES ASSUME NEW i \in m .. n PROVE s[i] \in RangeOf(u)
    OBVIOUS
  <2>1. i - m + 1 \in DOMAIN u /\ u[i - m + 1] = s[i]
    BY <1>2
  <2> QED BY <2>1 DEF RangeOf
<1>5. Once(s) => Once(u)
  <2> SUFFICES ASSUME Once(s), NEW i \in 1 .. l, NEW j \in 1 .. l, u[i] = u[j]
               PROVE  i = j
    BY <1>2 DEF Once
  <2>1. m + i - 1 \in DOMAIN s /\ m + j - 1 \in DOMAIN s
    BY <1>1
  <2>2. s[m + i - 1] = s[m + j - 1]
    BY <1>2
  <2> QED BY <2>1, <2>2 DEF Once
<1> QED BY <1>3, <1>4, <1>5 DEF u

\* The batch and the rest share nothing and lose nothing, and the batch is a
\* prefix of the queue.
LEMMA BatchOnce ==
  ASSUME NEW S, NEW q \in Seq(S), q # <<>>, Once(q),
         NEW b, b = takeNextSteerQueueBatch(q)
  PROVE  /\ Once(b.entries) /\ Once(b.rest)
         /\ RangeOf(b.entries) \cap RangeOf(b.rest) = {}
         /\ RangeOf(b.entries) \cup RangeOf(b.rest) = RangeOf(q)
         /\ \A i, j \in DOMAIN q :
              i < j /\ q[j] \in RangeOf(b.entries) => q[i] \in RangeOf(b.entries)
<1> DEFINE n == BatchSize(q)
<1>1. n \in 1 .. Len(q) /\ Len(q) \in Nat /\ DOMAIN q = 1 .. Len(q)
  BY BatchSizeBounds, LenProperties
<1> HIDE DEF n
<1>2. b.entries = SubSeq(q, 1, n) /\ b.rest = SubSeq(q, n + 1, Len(q))
  BY DEF takeNextSteerQueueBatch, n
<1>3. RangeOf(b.entries) = {q[i] : i \in 1 .. n} /\ Once(b.entries)
  BY <1>1, <1>2, OncePart
<1>4. RangeOf(b.rest) = {q[i] : i \in n + 1 .. Len(q)} /\ Once(b.rest)
  BY <1>1, <1>2, OncePart
<1>5. RangeOf(b.entries) \cap RangeOf(b.rest) = {}
  BY <1>1, <1>3, <1>4 DEF Once
<1>6. RangeOf(b.entries) \cup RangeOf(b.rest) = RangeOf(q)
  <2>1. RangeOf(q) = {q[i] : i \in 1 .. Len(q)}
    BY <1>1 DEF RangeOf
  <2>2. 1 .. Len(q) = (1 .. n) \cup (n + 1 .. Len(q))
    BY <1>1
  <2> QED BY <1>3, <1>4, <2>1, <2>2
<1>7. ASSUME NEW i \in DOMAIN q, NEW j \in DOMAIN q, i < j, q[j] \in RangeOf(b.entries)
      PROVE  q[i] \in RangeOf(b.entries)
  <2>1. PICK k \in 1 .. n : q[k] = q[j]
    BY <1>3, <1>7
  <2>2. k = j
    BY <1>1, <2>1 DEF Once
  <2>3. i \in 1 .. n
    BY <1>1, <1>7, <2>2
  <2> QED BY <1>3, <2>3
<1> QED BY <1>3, <1>4, <1>5, <1>6, <1>7

LEMMA WithoutOnce ==
  ASSUME NEW S, NEW s \in Seq(S), Once(s), NEW x \in RangeOf(s)
  PROVE  Once(Without(s, x)) /\ RangeOf(Without(s, x)) = RangeOf(s) \ {x}
<1>1. DOMAIN s = 1 .. Len(s) /\ Len(s) \in Nat
  BY LenProperties
<1>2. PICK k \in 1 .. Len(s) : k = IndexOf(s, x) /\ s[k] = x
  BY <1>1 DEF IndexOf, RangeOf
<1> DEFINE head == SubSeq(s, 1, k - 1)
           tail == SubSeq(s, k + 1, Len(s))
<1>3. Without(s, x) = head \o tail
  BY <1>2 DEF Without
<1>4. /\ head \in Seq(S) /\ Once(head) /\ RangeOf(head) = {s[i] : i \in 1 .. k - 1}
  BY <1>1, <1>2, PartType, OncePart
<1>5. /\ tail \in Seq(S) /\ Once(tail) /\ RangeOf(tail) = {s[i] : i \in k + 1 .. Len(s)}
  BY <1>1, <1>2, PartType, OncePart
<1> HIDE DEF head, tail
<1>6. RangeOf(head) \cap RangeOf(tail) = {}
  BY <1>1, <1>2, <1>4, <1>5 DEF Once
<1>7. RangeOf(head) \cup RangeOf(tail) = RangeOf(s) \ {x}
  <2>1. RangeOf(head) \cup RangeOf(tail) \subseteq RangeOf(s) \ {x}
    <3> SUFFICES ASSUME NEW i \in (1 .. k - 1) \cup (k + 1 .. Len(s))
                 PROVE  s[i] \in RangeOf(s) \ {x}
      BY <1>4, <1>5
    <3>1. i \in DOMAIN s /\ i # k
      BY <1>1, <1>2
    <3>2. s[i] # x
      BY <1>1, <1>2, <3>1 DEF Once
    <3> QED BY <3>1, <3>2 DEF RangeOf
  <2>2. ASSUME NEW i \in DOMAIN s, s[i] # x PROVE s[i] \in RangeOf(head) \cup RangeOf(tail)
    <3>1. i \in 1 .. k - 1 \/ i \in k + 1 .. Len(s)
      BY <1>1, <1>2, <2>2
    <3> QED BY <1>4, <1>5, <3>1
  <2> QED BY <2>1, <2>2 DEF RangeOf
<1> QED BY <1>3, <1>4, <1>5, <1>6, <1>7, OnceConcat

LEMMA MoveOnce ==
  ASSUME NEW S, NEW s \in Seq(S), Once(s), NEW x \in RangeOf(s), NEW k \in Int
  PROVE  /\ Once(moveSteerQueueEntry(s, x, k))
         /\ RangeOf(moveSteerQueueEntry(s, x, k)) = RangeOf(s)
<1> DEFINE o == Without(s, x)
           t == IF k < 1 THEN 1 ELSE IF k > Len(s) THEN Len(s) ELSE k
           head == SubSeq(o, 1, t - 1)
           tail == SubSeq(o, t, Len(o))
<1>1. Len(s) \in Nat /\ DOMAIN s = 1 .. Len(s) /\ x \in S
  BY LenProperties, ElementOfSeq DEF RangeOf
<1>2. /\ o \in Seq(S) /\ Len(o) = Len(s) - 1
      /\ Once(o) /\ RangeOf(o) = RangeOf(s) \ {x}
  BY WithoutType, WithoutOnce
<1>3. t \in 1 .. Len(s)
  BY <1>1 DEF RangeOf
<1>4. moveSteerQueueEntry(s, x, k) = (head \o <<x>>) \o tail
  BY DEF moveSteerQueueEntry
<1> HIDE DEF o, t
<1>5. /\ head \in Seq(S) /\ tail \in Seq(S) /\ Once(head) /\ Once(tail)
      /\ RangeOf(head) = {o[i] : i \in 1 .. t - 1}
      /\ RangeOf(tail) = {o[i] : i \in t .. Len(o)}
  BY <1>1, <1>2, <1>3, PartType, OncePart
<1> HIDE DEF head, tail
<1>6. DOMAIN o = 1 .. Len(o)
  BY <1>2, LenProperties
<1>7. RangeOf(head) \cap RangeOf(tail) = {}
  <2> SUFFICES ASSUME NEW i \in 1 .. t - 1, NEW j \in t .. Len(o), o[i] = o[j]
               PROVE  FALSE
    BY <1>5
  <2>1. i \in DOMAIN o /\ j \in DOMAIN o /\ i # j
    BY <1>1, <1>2, <1>3, <1>6
  <2> QED BY <1>2, <2>1 DEF Once
<1>8. RangeOf(head) \cup RangeOf(tail) = RangeOf(o)
  <2>1. 1 .. Len(o) = (1 .. t - 1) \cup (t .. Len(o))
    BY <1>1, <1>2, <1>3
  <2> QED BY <1>5, <1>6, <2>1 DEF RangeOf
<1> DEFINE one == <<x>>
           front == head \o one
           moved == front \o tail
<1>9. one \in Seq(S) /\ Once(one) /\ RangeOf(one) = {x}
  BY <1>1, OnceSingle
<1>10. moveSteerQueueEntry(s, x, k) = moved
  BY <1>4
<1> HIDE DEF one
<1>11. front \in Seq(S) /\ Once(front) /\ RangeOf(front) = RangeOf(head) \cup {x}
  <2>1. RangeOf(head) \cap RangeOf(one) = {}
    BY <1>2, <1>8, <1>9
  <2>2. head \in Seq(S) /\ Once(head) /\ one \in Seq(S) /\ Once(one)
    BY <1>5, <1>9
  <2>3. front \in Seq(S) /\ Once(front) /\ RangeOf(front) = RangeOf(head) \cup RangeOf(one)
    BY <2>1, <2>2, OnceJoin
  <2> HIDE DEF front
  <2> QED BY <1>9, <2>3
<1> HIDE DEF front
<1>12. RangeOf(front) \cap RangeOf(tail) = {}
  BY <1>2, <1>7, <1>8, <1>11
<1>13. Once(moved) /\ RangeOf(moved) = RangeOf(front) \cup RangeOf(tail)
  <2>1. front \in Seq(S) /\ Once(front) /\ tail \in Seq(S) /\ Once(tail)
    BY <1>5, <1>11
  <2> QED BY <1>12, <2>1, OnceJoin
<1>14. RangeOf(s) = RangeOf(o) \cup {x}
  BY <1>2
<1> HIDE DEF moved
<1> QED BY <1>8, <1>10, <1>11, <1>13, <1>14

\* The batches that wait for one run, and that they share nothing.
Batches == Seq(Seq(Entries) \ {<<>>})
Members(ws) == {m \in Entries : \E i \in DOMAIN ws : m \in RangeOf(ws[i])}
Apart(ws) ==
  \A i, j \in DOMAIN ws :
    Once(ws[i]) /\ (i # j => RangeOf(ws[i]) \cap RangeOf(ws[j]) = {})

LEMMA NoBatches == Members(<<>>) = {} /\ Apart(<<>>)
BY DEF Members, Apart

LEMMA RangeType ==
  ASSUME NEW S, NEW s \in Seq(S) PROVE RangeOf(s) \subseteq S
BY LenProperties, ElementOfSeq DEF RangeOf

LEMMA BatchesAppend ==
  ASSUME NEW ws \in Batches, NEW batch \in Seq(Entries) \ {<<>>}
  PROVE  /\ Members(Append(ws, batch)) = Members(ws) \cup RangeOf(batch)
         /\ Apart(ws) /\ Once(batch) /\ RangeOf(batch) \cap Members(ws) = {}
              => Apart(Append(ws, batch))
<1>1. /\ DOMAIN ws = 1 .. Len(ws) /\ Len(ws) \in Nat
      /\ DOMAIN Append(ws, batch) = 1 .. Len(ws) + 1
      /\ Append(ws, batch)[Len(ws) + 1] = batch
      /\ \A i \in 1 .. Len(ws) : Append(ws, batch)[i] = ws[i]
  BY AppendProperties, LenProperties DEF Batches
<1> DEFINE u == Append(ws, batch)
<1> HIDE DEF u
<1>2. RangeOf(batch) \subseteq Entries
  BY RangeType
<1>3. Members(u) = Members(ws) \cup RangeOf(batch)
  <2>1. ASSUME NEW i \in DOMAIN u
        PROVE  (i \in DOMAIN ws /\ u[i] = ws[i]) \/ u[i] = batch
    BY <1>1, <2>1 DEF u
  <2>2. \A i \in DOMAIN ws : i \in DOMAIN u /\ u[i] = ws[i]
    BY <1>1 DEF u
  <2>3. \E i \in DOMAIN u : u[i] = batch
    <3>1. Len(ws) + 1 \in DOMAIN u
      BY <1>1 DEF u
    <3> QED BY <1>1, <3>1 DEF u
  <2> QED BY <1>2, <2>1, <2>2, <2>3 DEF Members
<1>4. ASSUME Apart(ws), Once(batch), RangeOf(batch) \cap Members(ws) = {}
      PROVE  Apart(u)
  <2>1. \A i \in DOMAIN ws : RangeOf(ws[i]) \cap RangeOf(batch) = {}
    BY <1>2, <1>4 DEF Members
  <2>2. \A i \in DOMAIN u : (i \in DOMAIN ws /\ u[i] = ws[i]) \/ (i = Len(ws) + 1 /\ u[i] = batch)
    BY <1>1 DEF u
  <2> QED BY <1>4, <2>1, <2>2 DEF Apart
<1> QED BY <1>3, <1>4 DEF u

LEMMA BatchesHead ==
  ASSUME NEW ws \in Batches, ws # <<>>
  PROVE  /\ Head(ws) \in Seq(Entries) \ {<<>>} /\ RangeOf(Head(ws)) \subseteq Members(ws)
         /\ Apart(ws) => Once(Head(ws))
<1>1. Head(ws) \in Seq(Entries) \ {<<>>} /\ Head(ws) = ws[1] /\ 1 \in DOMAIN ws
  BY HeadTailProperties, LenProperties, EmptySeq DEF Batches
<1> QED BY <1>1, RangeType DEF Members, Apart

(***************************************************************************)
(* Where the messages of the manager's record are.                         *)
(***************************************************************************)
InQueue(a)  == RangeOf(a.steerQueue)
Waits(a, t) == Members(a.waiting[t])
Given(a, t) == RangeOf(a.prompt[t])

Placed(a, m) == m \in InQueue(a) \/ \E t \in Tokens : m \in Waits(a, t) \/ m \in Given(a, t)

\* MessageOnce, of any state of the manager's record: queued once, in one of
\* the batches that wait, or in the prompt of one run, and a reconcile prompt
\* in one of these was marked as queued.
Lone(a) ==
  /\ Once(a.steerQueue)
  /\ \A t \in Tokens : Apart(a.waiting[t])
  /\ \A m \in Entries, t \in Tokens :
       /\ m \in InQueue(a) => m \notin Waits(a, t) /\ m \notin Given(a, t)
       /\ m \in Waits(a, t) => /\ \A u \in Tokens : m \notin Given(a, u)
                              /\ \A u \in Tokens \ {t} : m \notin Waits(a, u)
       /\ m \in Given(a, t) => \A u \in Tokens \ {t} : m \notin Given(a, u)
  /\ \A m \in TodoEntries : Placed(a, m) => m \in a.reconciled

LEMMA LoneIsEnough == TypeOK /\ Lone(agent) => MessageOnce
<1> SUFFICES ASSUME TypeOK, Lone(agent), NEW m \in Entries
             PROVE  /\ IsQueued(m) => ~IsHandedOff(m) /\ ~IsDelivered(m)
                    /\ IsHandedOff(m) => ~IsDelivered(m)
                    /\ \A t, u \in Tokens :
                         m \in RangeOf(agent.prompt[t]) \cap RangeOf(agent.prompt[u]) => t = u
                    /\ \A i, j \in DOMAIN agent.steerQueue :
                         agent.steerQueue[i] = m /\ agent.steerQueue[j] = m => i = j
  BY DEF MessageOnce
<1>1. IsQueued(m) <=> m \in InQueue(agent)
  BY DEF IsQueued, InQueue
<1>2. IsHandedOff(m) <=> \E t \in Tokens : m \in Waits(agent, t)
  BY DEF IsHandedOff, IsIn, Waits, Members
<1>3. IsDelivered(m) <=> \E t \in Tokens : m \in Given(agent, t)
  BY DEF IsDelivered, Given
<1>4. \A t, u \in Tokens :
        m \in RangeOf(agent.prompt[t]) \cap RangeOf(agent.prompt[u]) => t = u
  BY DEF Lone, Given
<1>5. \A i, j \in DOMAIN agent.steerQueue :
        agent.steerQueue[i] = m /\ agent.steerQueue[j] = m => i = j
  BY DEF Lone, Once
<1>6. /\ IsQueued(m) => ~IsHandedOff(m) /\ ~IsDelivered(m)
      /\ IsHandedOff(m) => ~IsDelivered(m)
  BY <1>1, <1>2, <1>3 DEF Lone
<1> QED BY <1>4, <1>5, <1>6

\* A handler that leaves every message where it is.
SamePlaces(a, b) ==
  /\ b.steerQueue = a.steerQueue /\ b.waiting = a.waiting /\ b.prompt = a.prompt
  /\ b.reconciled = a.reconciled

\* What a handler may do: nothing is placed that was not.
NoneNew(a, b) == Lone(b) /\ \A m \in Entries : Placed(b, m) => Placed(a, m)

LEMMA SameKeepsPlaces ==
  ASSUME NEW a, NEW b, SamePlaces(a, b), Lone(a)
  PROVE  NoneNew(a, b) /\ \A m : Placed(b, m) <=> Placed(a, m)
<1>1. /\ InQueue(b) = InQueue(a) /\ b.reconciled = a.reconciled
      /\ b.steerQueue = a.steerQueue /\ b.waiting = a.waiting
      /\ \A t : Waits(b, t) = Waits(a, t) /\ Given(b, t) = Given(a, t)
  BY DEF SamePlaces, InQueue, Waits, Given
<1>2. \A m : Placed(b, m) <=> Placed(a, m)
  BY <1>1 DEF Placed
<1>3. Lone(b)
  BY <1>1, <1>2 DEF Lone
<1> QED BY <1>2, <1>3 DEF NoneNew

LEMMA NoneNewTransitive ==
  ASSUME NEW a, NEW b, NEW c, NoneNew(a, b), NoneNew(b, c) PROVE NoneNew(a, c)
BY DEF NoneNew

\* A batch in the hands of a handler, in none of the places.
Loose(a, batch) ==
  /\ Once(batch)
  /\ \A m \in RangeOf(batch) :
       ~Placed(a, m) /\ (m \in TodoEntries => m \in a.reconciled)

\* Putting a loose batch in one of the places.
Puts(a, b, batch) ==
  Lone(b) /\ \A m \in Entries : Placed(b, m) => Placed(a, m) \/ m \in RangeOf(batch)

LEMMA StreamPuts ==
  ASSUME NEW a \in AgentState, Lone(a), NEW token \in Tokens, NEW batch \in Seq(Entries),
         Loose(a, batch)
  PROVE  Puts(a, streamAgent(a, token, batch), batch)
<1> DEFINE b == streamAgent(a, token, batch)
<1>1. /\ b.steerQueue = a.steerQueue /\ b.waiting = a.waiting
      /\ b.reconciled = a.reconciled /\ b.prompt[token] = batch
      /\ \A t \in Tokens \ {token} : b.prompt[t] = a.prompt[t]
  BY DEF streamAgent, AgentState
<1> HIDE DEF b
<1>2. /\ InQueue(b) = InQueue(a) /\ Given(b, token) = RangeOf(batch)
      /\ \A t \in Tokens : Waits(b, t) = Waits(a, t)
      /\ \A t \in Tokens \ {token} : Given(b, t) = Given(a, t)
  BY <1>1 DEF InQueue, Waits, Given
<1>3. \A m : Placed(b, m) => Placed(a, m) \/ m \in RangeOf(batch)
  BY <1>2 DEF Placed
<1>4. \A m \in TodoEntries : Placed(b, m) => m \in b.reconciled
  BY <1>1, <1>3 DEF Lone, Loose
<1>5. ASSUME NEW m \in Entries, NEW t \in Tokens
      PROVE  /\ m \in InQueue(b) => m \notin Waits(b, t) /\ m \notin Given(b, t)
             /\ m \in Waits(b, t) => /\ \A u \in Tokens : m \notin Given(b, u)
                                    /\ \A u \in Tokens \ {t} : m \notin Waits(b, u)
             /\ m \in Given(b, t) => \A u \in Tokens \ {t} : m \notin Given(b, u)
  <2>1. CASE m \in RangeOf(batch)
    <3>1. /\ m \notin InQueue(b)
          /\ \A u \in Tokens : m \notin Waits(b, u)
          /\ \A u \in Tokens \ {token} : m \notin Given(b, u)
      BY <1>2, <2>1 DEF Loose, Placed
    <3> QED BY <3>1
  <2>2. CASE m \notin RangeOf(batch)
    BY <1>2, <2>2 DEF Lone
  <2> QED BY <2>1, <2>2
<1>6. Lone(b)
  BY <1>1, <1>4, <1>5 DEF Lone
<1> QED BY <1>3, <1>6 DEF Puts, b

LEMMA PutsBackFirst ==
  ASSUME NEW a \in AgentState, Lone(a), NEW batch \in Seq(Entries), Loose(a, batch),
         NEW b, b = [a EXCEPT !.pendingSteerDrain = FALSE,
                              !.steerQueue = batch \o a.steerQueue]
  PROVE  Puts(a, b, batch)
<1>1. /\ b.steerQueue = batch \o a.steerQueue /\ b.waiting = a.waiting
      /\ b.reconciled = a.reconciled /\ b.prompt = a.prompt
      /\ a.steerQueue \in Seq(Entries)
  BY DEF AgentState
<1>2. Once(b.steerQueue) /\ InQueue(b) = RangeOf(batch) \cup InQueue(a)
  <2>1. RangeOf(batch) \cap RangeOf(a.steerQueue) = {}
    BY DEF Loose, Placed, InQueue
  <2>2. Once(a.steerQueue) /\ Once(batch)
    BY DEF Lone, Loose
  <2> QED BY <1>1, <2>1, <2>2, OnceJoin DEF InQueue
<1>3. \A t \in Tokens : Waits(b, t) = Waits(a, t) /\ Given(b, t) = Given(a, t)
  BY <1>1 DEF Waits, Given
<1>4. \A m : Placed(b, m) => Placed(a, m) \/ m \in RangeOf(batch)
  BY <1>2, <1>3 DEF Placed
<1>5. \A m \in TodoEntries : Placed(b, m) => m \in b.reconciled
  BY <1>1, <1>4 DEF Lone, Loose
<1>6. ASSUME NEW m \in Entries, NEW t \in Tokens, m \in InQueue(b)
      PROVE  m \notin Waits(b, t) /\ m \notin Given(b, t)
  BY <1>2, <1>3, <1>6 DEF Lone, Loose, Placed
<1>7. Lone(b)
  BY <1>1, <1>2, <1>3, <1>5, <1>6 DEF Lone
<1> QED BY <1>4, <1>7 DEF Puts

LEMMA DeliverPuts ==
  ASSUME NEW a \in AgentState, Lone(a), NEW batch \in Seq(Entries) \ {<<>>},
         Loose(a, batch)
  PROVE  Puts(a, DeliverBatch(a, batch), batch)
<1>1. CASE ~a.pendingSteerDrain
  BY <1>1 DEF DeliverBatch, Puts
<1>2. CASE a.pendingSteerDrain /\ SlotTaken(a)
  BY <1>2, PutsBackFirst DEF DeliverBatch
<1>3. CASE a.pendingSteerDrain /\ ~SlotTaken(a)
  <2>1. Head(batch) \in Tokens
    BY EntriesType, HeadTailProperties
  <2> QED BY <1>3, <2>1, StreamPuts DEF DeliverBatch
<1> QED BY <1>1, <1>2, <1>3 DEF AgentState

LEMMA DispatchPuts ==
  ASSUME NEW a \in AgentState, Lone(a), NEW batch \in Seq(Entries) \ {<<>>},
         Loose(a, batch)
  PROVE  Puts(a, dispatchSteerQueueBatch(a, batch), batch)
<1>1. CASE ~hasPendingRun(a)
  BY <1>1, DeliverPuts DEF dispatchSteerQueueBatch
<1>2. CASE hasPendingRun(a)
  <2> DEFINE b == [a EXCEPT !.waiting[a.run] = Append(@, batch)]
  <2>1. a.run \in Tokens
    BY <1>2 DEF hasPendingRun, AgentState
  <2>2. /\ b.steerQueue = a.steerQueue /\ b.prompt = a.prompt /\ b.reconciled = a.reconciled
        /\ b.waiting[a.run] = Append(a.waiting[a.run], batch)
        /\ \A t \in Tokens \ {a.run} : b.waiting[t] = a.waiting[t]
    BY <2>1 DEF AgentState
  <2>3. dispatchSteerQueueBatch(a, batch) = b
    BY <1>2 DEF dispatchSteerQueueBatch
  <2> HIDE DEF b
  <2>4. a.waiting[a.run] \in Batches
    BY <2>1 DEF AgentState, Batches
  <2>5. RangeOf(batch) \cap Members(a.waiting[a.run]) = {}
    BY <2>1 DEF Loose, Placed, Waits
  <2>6. /\ Members(b.waiting[a.run]) = Members(a.waiting[a.run]) \cup RangeOf(batch)
        /\ Apart(b.waiting[a.run])
    BY <2>1, <2>2, <2>4, <2>5, BatchesAppend DEF Lone, Loose
  <2>7. /\ InQueue(b) = InQueue(a) /\ Waits(b, a.run) = Waits(a, a.run) \cup RangeOf(batch)
        /\ \A t \in Tokens : Given(b, t) = Given(a, t)
        /\ \A t \in Tokens \ {a.run} : Waits(b, t) = Waits(a, t)
    BY <2>2, <2>6 DEF InQueue, Waits, Given
  <2>8. \A m : Placed(b, m) => Placed(a, m) \/ m \in RangeOf(batch)
    BY <2>7 DEF Placed
  <2>9. \A m \in TodoEntries : Placed(b, m) => m \in b.reconciled
    BY <2>2, <2>8 DEF Lone, Loose
  <2>10. ASSUME NEW m \in Entries, NEW t \in Tokens
         PROVE  /\ m \in InQueue(b) => m \notin Waits(b, t) /\ m \notin Given(b, t)
                /\ m \in Waits(b, t) => /\ \A u \in Tokens : m \notin Given(b, u)
                                       /\ \A u \in Tokens \ {t} : m \notin Waits(b, u)
                /\ m \in Given(b, t) => \A u \in Tokens \ {t} : m \notin Given(b, u)
    <3>1. CASE m \in RangeOf(batch)
      <4>1. /\ m \notin InQueue(b)
            /\ \A u \in Tokens : m \notin Given(b, u)
            /\ \A u \in Tokens \ {a.run} : m \notin Waits(b, u)
        BY <2>7, <3>1 DEF Loose, Placed
      <4> QED BY <4>1
    <3>2. CASE m \notin RangeOf(batch)
      BY <2>7, <3>2 DEF Lone
    <3> QED BY <3>1, <3>2
  <2>11. \A t \in Tokens : Apart(b.waiting[t])
    BY <2>2, <2>6 DEF Lone
  <2>12. Lone(b)
    BY <2>2, <2>9, <2>10, <2>11 DEF Lone
  <2> QED BY <2>3, <2>8, <2>12 DEF Puts
<1> QED BY <1>1, <1>2

\* The batch that waited longest is loose once the slot is emptied.
LEMMA SettlePlaces ==
  ASSUME NEW a \in AgentState, Lone(a), NEW token \in Tokens
  PROVE  NoneNew(a, settleForegroundRun(a, token))
<1> DEFINE cleared == [a EXCEPT !.run = None, !.settled = @ \cup {token},
                                !.waiting[token] = <<>>]
<1>1. CASE a.run # token
  BY <1>1 DEF settleForegroundRun, NoneNew
<1>2. CASE a.run = token
  <2>1. /\ cleared.steerQueue = a.steerQueue /\ cleared.prompt = a.prompt
        /\ cleared.reconciled = a.reconciled /\ cleared.waiting[token] = <<>>
        /\ \A t \in Tokens \ {token} : cleared.waiting[t] = a.waiting[t]
    BY DEF AgentState
  <2>2. cleared \in AgentState
    <3>1. <<>> \in Seq(Seq(Entries) \ {<<>>})
      BY EmptySeq
    <3> QED BY <3>1 DEF AgentState
  <2>3. settleForegroundRun(a, token)
          = IF a.waiting[token] = <<>> THEN cleared
            ELSE DeliverBatch(cleared, Head(a.waiting[token]))
    BY <1>2 DEF settleForegroundRun
  <2> HIDE DEF cleared
  <2>4. /\ InQueue(cleared) = InQueue(a) /\ Waits(cleared, token) = {}
        /\ \A t \in Tokens : Given(cleared, t) = Given(a, t)
        /\ \A t \in Tokens \ {token} : Waits(cleared, t) = Waits(a, t)
    BY <2>1, NoBatches DEF InQueue, Waits, Given
  <2>5. \A m : Placed(cleared, m) => Placed(a, m)
    BY <2>4 DEF Placed
  <2>6. Lone(cleared)
    <3>1. \A t \in Tokens : Apart(cleared.waiting[t])
      BY <2>1, NoBatches DEF Lone
    <3>2. \A m \in TodoEntries : Placed(cleared, m) => m \in cleared.reconciled
      BY <2>1, <2>5 DEF Lone
    <3> QED BY <2>1, <2>4, <3>1, <3>2 DEF Lone
  <2>7. CASE a.waiting[token] = <<>>
    BY <2>3, <2>5, <2>6, <2>7 DEF NoneNew
  <2>8. CASE a.waiting[token] # <<>>
    <3> DEFINE batch == Head(a.waiting[token])
    <3>1. a.waiting[token] \in Batches
      BY DEF AgentState, Batches
    <3>2. /\ batch \in Seq(Entries) \ {<<>>} /\ RangeOf(batch) \subseteq Waits(a, token)
          /\ Once(batch)
      BY <2>8, <3>1, BatchesHead DEF Waits, Lone
    <3> HIDE DEF batch
    <3>3. \A m \in RangeOf(batch) : m \in Entries /\ Placed(a, m)
      BY <3>2, RangeType DEF Placed
    <3>4. \A m \in RangeOf(batch) : ~Placed(cleared, m)
      BY <2>4, <3>2, <3>3 DEF Placed, Lone
    <3>5. Loose(cleared, batch)
      BY <2>1, <3>2, <3>3, <3>4 DEF Loose, Lone
    <3>6. Puts(cleared, DeliverBatch(cleared, batch), batch)
      BY <2>2, <2>6, <3>2, <3>5, DeliverPuts
    <3>7. settleForegroundRun(a, token) = DeliverBatch(cleared, batch)
      BY <2>3, <2>8 DEF batch
    <3> QED BY <2>5, <3>3, <3>6, <3>7 DEF Puts, NoneNew
  <2> QED BY <2>7, <2>8
<1> QED BY <1>1, <1>2

LEMMA ClaimPlaces ==
  ASSUME NEW a \in AgentState, Lone(a), a.steerQueue # <<>>
  PROVE  NoneNew(a, dispatchSteerQueueBatch(
           [a EXCEPT !.steerQueue = takeNextSteerQueueBatch(a.steerQueue).rest,
                     !.pendingSteerDrain = TRUE, !.lifecycle = "running"],
           takeNextSteerQueueBatch(a.steerQueue).entries))
<1> DEFINE batch == takeNextSteerQueueBatch(a.steerQueue)
           taken == [a EXCEPT !.steerQueue = batch.rest,
                              !.pendingSteerDrain = TRUE, !.lifecycle = "running"]
<1>1. a.steerQueue \in Seq(Entries)
  BY DEF AgentState
<1>2. batch.entries \in Seq(Entries) \ {<<>>} /\ batch.rest \in Seq(Entries)
  BY <1>1, BatchSplits
<1>3. Once(a.steerQueue)
  BY DEF Lone
<1>4. /\ Once(batch.entries) /\ Once(batch.rest)
      /\ RangeOf(batch.entries) \cap RangeOf(batch.rest) = {}
      /\ RangeOf(batch.entries) \cup RangeOf(batch.rest) = InQueue(a)
  BY <1>1, <1>3, BatchOnce DEF InQueue
<1> HIDE DEF batch
<1>5. /\ taken \in AgentState /\ taken.steerQueue = batch.rest
      /\ taken.waiting = a.waiting /\ taken.prompt = a.prompt
      /\ taken.reconciled = a.reconciled
  BY <1>2 DEF AgentState
<1> HIDE DEF taken
<1>6. /\ InQueue(taken) = RangeOf(batch.rest)
      /\ \A t : Waits(taken, t) = Waits(a, t) /\ Given(taken, t) = Given(a, t)
  BY <1>5 DEF InQueue, Waits, Given
<1>7. \A m : Placed(taken, m) => Placed(a, m)
  BY <1>4, <1>6 DEF Placed
<1>8. Lone(taken)
  <2>1. \A m \in TodoEntries : Placed(taken, m) => m \in taken.reconciled
    BY <1>5, <1>7 DEF Lone
  <2> QED BY <1>4, <1>5, <1>6, <2>1 DEF Lone
<1>9. \A m \in RangeOf(batch.entries) : m \in Entries /\ Placed(a, m) /\ ~Placed(taken, m)
  <2> TAKE m \in RangeOf(batch.entries)
  <2>1. m \in Entries /\ m \in InQueue(a)
    BY <1>2, <1>4, RangeType
  <2>2. m \notin InQueue(taken)
    BY <1>4, <1>6
  <2>3. \A t \in Tokens : m \notin Waits(a, t) /\ m \notin Given(a, t)
    BY <2>1 DEF Lone
  <2> QED BY <1>6, <2>1, <2>2, <2>3 DEF Placed
<1>10. Loose(taken, batch.entries)
  BY <1>4, <1>5, <1>9 DEF Loose, Lone
<1>11. Puts(taken, dispatchSteerQueueBatch(taken, batch.entries), batch.entries)
  BY <1>2, <1>5, <1>8, <1>10, DispatchPuts
<1>12. NoneNew(a, dispatchSteerQueueBatch(taken, batch.entries))
  BY <1>7, <1>9, <1>11 DEF Puts, NoneNew
<1> QED BY <1>12 DEF taken, batch

LEMMA RestOrDrainPlaces ==
  ASSUME NEW a \in AgentState, Lone(a), NEW held \in BOOLEAN
  PROVE  NoneNew(a, RestOrDrain(a, held))
<1>1. CASE held \/ a.lastError \/ a.steerQueueHeld \/ a.steerQueue = <<>>
  <2>1. SamePlaces(a, RestOrDrain(a, held))
    BY <1>1 DEF RestOrDrain, SamePlaces, AgentState
  <2> QED BY <2>1, SameKeepsPlaces
<1>2. CASE ~(held \/ a.lastError \/ a.steerQueueHeld \/ a.steerQueue = <<>>)
  BY <1>2, ClaimPlaces DEF RestOrDrain
<1> QED BY <1>1, <1>2

\* The handlers that leave every message where it is.
LEMMA StillPlaced ==
  ASSUME NEW a \in AgentState
  PROVE  /\ \A turn : SamePlaces(a, applyActiveTurnTerminal(a, turn))
         /\ \A kind, isForeground : SamePlaces(a, TurnEnded(a, kind, isForeground))
         /\ \A turn : SamePlaces(a, rememberFinalizedTurn(a, turn))
         /\ \A event : SamePlaces(a, TurnStarted(a, event))
         /\ SamePlaces(a, ForwarderFailed(a))
         /\ \A event : SamePlaces(a, enqueueSessionEvent(a, event))
         /\ \A events : SamePlaces(a, EnqueueAll(a, events))
<1>1. \A turn : SamePlaces(a, applyActiveTurnTerminal(a, turn))
  BY DEF applyActiveTurnTerminal, AgentState, SamePlaces
<1>2. \A kind, isForeground : SamePlaces(a, TurnEnded(a, kind, isForeground))
  BY DEF TurnEnded, AgentState, SamePlaces
<1>3. \A turn : SamePlaces(a, rememberFinalizedTurn(a, turn))
  BY DEF rememberFinalizedTurn, AgentState, SamePlaces
<1>4. \A event : SamePlaces(a, TurnStarted(a, event))
  BY DEF TurnStarted, AgentState, SamePlaces
<1>5. SamePlaces(a, ForwarderFailed(a))
  BY DEF ForwarderFailed, AgentState, SamePlaces
<1>6. \A event : SamePlaces(a, enqueueSessionEvent(a, event))
  BY DEF enqueueSessionEvent, AgentState, SamePlaces
<1>7. \A events : SamePlaces(a, EnqueueAll(a, events))
  BY DEF EnqueueAll, AgentState, SamePlaces
<1> QED BY <1>1, <1>2, <1>3, <1>4, <1>5, <1>6, <1>7

\* Only a reconcile prompt can be new after a turn has ended.
NothingAsked(a, b) ==
  Lone(b) /\ \A m \in Entries : Placed(b, m) => Placed(a, m) \/ m \in TodoEntries

LEMMA TodoPlaces ==
  ASSUME NEW a \in AgentState, Lone(a), NEW todo \in {None} \cup (TodoEntries \ a.reconciled)
  PROVE  NothingAsked(a, maybeEnqueueTodoReconcile(a, todo))
<1> DEFINE b == [a EXCEPT !.steerQueue = <<todo>>, !.reconciled = @ \cup {todo}]
<1>1. CASE maybeEnqueueTodoReconcile(a, todo) = a
  BY <1>1 DEF NothingAsked
<1>2. CASE maybeEnqueueTodoReconcile(a, todo) # a
  <2>1. /\ todo \in TodoEntries \ a.reconciled /\ todo \in Entries
        /\ maybeEnqueueTodoReconcile(a, todo) = b
    BY <1>2, EntriesType DEF maybeEnqueueTodoReconcile
  <2>2. /\ b.steerQueue = <<todo>> /\ b.waiting = a.waiting /\ b.prompt = a.prompt
        /\ b.reconciled = a.reconciled \cup {todo}
    BY DEF AgentState
  <2> HIDE DEF b
  <2>3. Once(b.steerQueue) /\ InQueue(b) = {todo}
    BY <2>2, OnceSingle DEF InQueue
  <2>4. \A t : Waits(b, t) = Waits(a, t) /\ Given(b, t) = Given(a, t)
    BY <2>2 DEF Waits, Given
  <2>5. \A m : Placed(b, m) => Placed(a, m) \/ m = todo
    BY <2>3, <2>4 DEF Placed
  <2>6. ~Placed(a, todo)
    BY <2>1 DEF Lone
  <2>7. \A m \in TodoEntries : Placed(b, m) => m \in b.reconciled
    BY <2>2, <2>5 DEF Lone
  <2>8. \A t \in Tokens : todo \notin Waits(b, t) /\ todo \notin Given(b, t)
    BY <2>4, <2>6 DEF Placed
  <2>9. Lone(b)
    BY <2>2, <2>3, <2>4, <2>7, <2>8 DEF Lone
  <2> QED BY <2>1, <2>5, <2>9 DEF NothingAsked
<1> QED BY <1>1, <1>2

\* Only maybeEnqueueTodoReconcile marks a reconcile prompt as queued.
LEMMA RestKeepsReconciled ==
  ASSUME NEW a \in AgentState, NEW held
  PROVE  RestOrDrain(a, held).reconciled = a.reconciled
<1>2. \A b \in AgentState : \A batch : DeliverBatch(b, batch).reconciled = b.reconciled
  BY DEF DeliverBatch, streamAgent, AgentState
<1>3. \A b \in AgentState : \A batch :
        dispatchSteerQueueBatch(b, batch).reconciled = b.reconciled
  BY <1>2, ZenonT(60) DEF dispatchSteerQueueBatch, AgentState
<1>4. CASE held \/ a.lastError \/ a.steerQueueHeld \/ a.steerQueue = <<>>
  BY <1>4 DEF RestOrDrain, AgentState
<1>5. CASE ~(held \/ a.lastError \/ a.steerQueueHeld \/ a.steerQueue = <<>>)
  <2> DEFINE batch == takeNextSteerQueueBatch(a.steerQueue)
             taken == [a EXCEPT !.steerQueue = batch.rest,
                                !.pendingSteerDrain = TRUE, !.lifecycle = "running"]
  <2>1. batch.rest \in Seq(Entries)
    BY <1>5, BatchSplits DEF AgentState
  <2>2. RestOrDrain(a, held) = dispatchSteerQueueBatch(taken, batch.entries)
    BY <1>5 DEF RestOrDrain
  <2> HIDE DEF batch
  <2>3. taken \in AgentState /\ taken.reconciled = a.reconciled
    BY <2>1 DEF AgentState
  <2> HIDE DEF taken
  <2> QED BY <1>3, <2>2, <2>3
<1> QED BY <1>4, <1>5

LEMMA FinalizePlaces ==
  ASSUME NEW a \in AgentState, Lone(a), NEW turn \in Turns \cup {None},
         NEW todo \in {None} \cup (TodoEntries \ a.reconciled),
         NEW b, b = finalizeForegroundTurn(a, turn, todo)
  PROVE  NothingAsked(a, b) /\ (todo = None => b.reconciled = a.reconciled)
<1> DEFINE remembered == rememberFinalizedTurn(a, turn)
           noTurn == [remembered EXCEPT !.activeForegroundTurnId = None]
           closed == applyActiveTurnTerminal(noTurn, turn)
           parked == maybeEnqueueTodoReconcile(closed, todo)
           held   == a.pendingReplacement /\ ~a.lastError
<1>1. remembered \in AgentState /\ SamePlaces(a, remembered)
  BY RememberType, StillPlaced
<1> HIDE DEF remembered
<1>2. noTurn \in AgentState /\ SamePlaces(a, noTurn)
  BY <1>1 DEF AgentState, SamePlaces
<1> HIDE DEF noTurn
<1>3. closed \in AgentState /\ SamePlaces(noTurn, closed)
  BY <1>2, TerminalType, StillPlaced
<1> HIDE DEF closed
<1>4. SamePlaces(a, closed)
  BY <1>2, <1>3 DEF SamePlaces
<1>5. /\ NoneNew(a, closed) /\ closed.reconciled = a.reconciled
  BY <1>4, SameKeepsPlaces DEF SamePlaces
<1>6. /\ parked \in AgentState /\ NothingAsked(closed, parked)
      /\ todo = None => parked = closed
  <2>1. todo \in TodoEntries \cup {None}
    OBVIOUS
  <2>2. parked \in AgentState
    BY <1>3, <2>1, TodoType
  <2>3. NothingAsked(closed, parked)
    BY <1>3, <1>5, TodoPlaces DEF NoneNew
  <2>4. todo = None => parked = closed
    BY DEF maybeEnqueueTodoReconcile
  <2> QED BY <2>2, <2>3, <2>4
<1> HIDE DEF parked
<1>7. held \in BOOLEAN /\ b = RestOrDrain(parked, held)
  BY DEF finalizeForegroundTurn, parked, closed, noTurn, remembered, AgentState
<1> HIDE DEF held
<1>8. NoneNew(parked, b)
  BY <1>6, <1>7, RestOrDrainPlaces DEF NothingAsked
<1>9. b.reconciled = parked.reconciled
  BY <1>6, <1>7, RestKeepsReconciled
<1>10. NothingAsked(a, b)
  BY <1>5, <1>6, <1>8 DEF NoneNew, NothingAsked
<1> QED BY <1>5, <1>6, <1>9, <1>10

LEMMA TerminalEventPlaces ==
  ASSUME NEW a \in AgentState, Lone(a), NEW kind, NEW eventTurn \in Turns \cup {None},
         NEW todo \in {None} \cup (TodoEntries \ a.reconciled),
         NEW b, b = TerminalEvent(a, kind, eventTurn, todo)
  PROVE  NothingAsked(a, b) /\ (todo = None => b.reconciled = a.reconciled)
<1> DEFINE turn == ManagedTurn(a, eventTurn)
           isForeground == turn # None /\ a.activeForegroundTurnId = turn
           closed == applyActiveTurnTerminal(a, turn)
           ended  == IF TerminalDisposition(a, turn) = "stale" THEN closed
                     ELSE TurnEnded(closed, kind, isForeground)
           final  == IF isForeground THEN finalizeForegroundTurn(ended, turn, todo)
                     ELSE ended
           marked == [final EXCEPT !.generator[eventTurn] = "ending"]
<1>0. b \in {a, final, marked}
  BY DEF TerminalEvent, marked, final, ended, closed, isForeground, turn
<1>1. turn \in Turns \cup {None} /\ isForeground \in BOOLEAN
  BY EntriesType DEF ManagedTurn, AgentState
<1> HIDE DEF turn, isForeground
<1>2. closed \in AgentState /\ SamePlaces(a, closed)
  BY TerminalType, StillPlaced
<1> HIDE DEF closed
<1>3. ended \in AgentState /\ SamePlaces(a, ended)
  BY <1>1, <1>2, TurnEndedType, StillPlaced DEF SamePlaces
<1> HIDE DEF ended
<1>4. NoneNew(a, ended) /\ ended.reconciled = a.reconciled
  BY <1>3, SameKeepsPlaces DEF SamePlaces
<1>5. /\ final \in AgentState /\ NothingAsked(a, final)
      /\ todo = None => final.reconciled = a.reconciled
  <2>1. CASE isForeground
    <3>1. final = finalizeForegroundTurn(ended, turn, todo)
      BY <2>1
    <3>2. todo \in {None} \cup (TodoEntries \ ended.reconciled)
      BY <1>4
    <3> HIDE DEF final
    <3>3. final \in AgentState
      BY <1>1, <1>3, <3>1, FinalizeType
    <3>4. /\ NothingAsked(ended, final)
          /\ todo = None => final.reconciled = ended.reconciled
      BY <1>1, <1>3, <1>4, <3>1, <3>2, FinalizePlaces DEF NoneNew
    <3> QED BY <1>4, <3>3, <3>4 DEF NoneNew, NothingAsked
  <2>2. CASE ~isForeground
    BY <1>3, <1>4, <2>2 DEF NoneNew, NothingAsked
  <2> QED BY <1>1, <2>1, <2>2
<1> HIDE DEF final
<1>6. SamePlaces(final, marked)
  BY <1>5 DEF AgentState, SamePlaces
<1> HIDE DEF marked
<1>7. NothingAsked(final, marked) /\ marked.reconciled = final.reconciled
  BY <1>5, <1>6, SameKeepsPlaces DEF NothingAsked, NoneNew, SamePlaces
<1>8. CASE b = a
  BY <1>8 DEF NothingAsked
<1>9. CASE b = final
  BY <1>5, <1>9
<1>10. CASE b = marked
  BY <1>5, <1>7, <1>10 DEF NothingAsked
<1> QED BY <1>0, <1>8, <1>9, <1>10

(***************************************************************************)
(* Every step keeps each message in one place.                             *)
(***************************************************************************)
PlacedStages == {"parked", "streamed", "forwarded"}

\* A call's message is in one of the places only once the call was taken that far.
Known(a, c) == \A p \in Prompts : Placed(a, p) => c[p].pc \in PlacedStages

\* What a step made for call p does: at most it puts p's own message in a place.
PutsOnly(a, b, p, stage) ==
  /\ Lone(b)
  /\ \A m \in Entries :
       Placed(b, m) => Placed(a, m) \/ m \in TodoEntries \/ (m = p /\ stage \in PlacedStages)

LEMMA PutsOnlyKnown ==
  ASSUME NEW a, NEW b, NEW c, NEW d, NEW p \in Prompts, Known(a, c),
         PutsOnly(a, b, p, d[p].pc), c[p].pc \notin PlacedStages,
         \A q \in Prompts \ {p} : d[q] = c[q]
  PROVE  Known(b, d)
BY AgentTurnsAssumption DEF Known, PutsOnly

LEMMA NothingAskedKnown ==
  ASSUME NEW a, NEW b, NEW c, NEW d, Known(a, c), NothingAsked(a, b),
         \A p \in Prompts : c[p].pc \in PlacedStages => d[p].pc \in PlacedStages
  PROVE  Known(b, d)
BY AgentTurnsAssumption DEF Known, NothingAsked

LEMMA NothingIsOnly ==
  ASSUME NEW a, NEW b, NEW p, NEW stage, NothingAsked(a, b) \/ NoneNew(a, b)
  PROVE  PutsOnly(a, b, p, stage) /\ NothingAsked(a, b)
BY DEF NothingAsked, NoneNew, PutsOnly

LEMMA OwnPromptLoose ==
  ASSUME NEW a \in AgentState, Lone(a), NEW p \in Prompts, ~Placed(a, p)
  PROVE  /\ Loose(a, <<p>>)
         /\ \A stage \in PlacedStages : PutsOnly(a, streamAgent(a, p, <<p>>), p, stage)
<1>1. Loose(a, <<p>>) /\ RangeOf(<<p>>) = {p}
  BY OnceSingle, AgentTurnsAssumption DEF Loose
<1>2. <<p>> \in Seq(Entries) /\ p \in Tokens
  BY PromptBatch
<1>3. Puts(a, streamAgent(a, p, <<p>>), <<p>>)
  BY <1>1, <1>2, StreamPuts
<1> QED BY <1>1, <1>3 DEF Puts, PutsOnly

LEMMA StartOrRejectPlaces ==
  ASSUME TypeOK, Lone(agent), NEW p \in Prompts, ~Placed(agent, p), NEW verb,
         StartOrReject(p, verb)
  PROVE  PutsOnly(agent, agent', p, call'[p].pc)
<1>1. CASE SlotTaken(agent)
  BY <1>1 DEF StartOrReject, PutsOnly
<1>2. CASE ~SlotTaken(agent)
  <2>1. agent' = streamAgent(agent, p, <<p>>) /\ call'[p].pc = "streamed"
    BY <1>2 DEF StartOrReject, Called, TypeOK
  <2>2. "streamed" \in PlacedStages
    BY DEF PlacedStages
  <2> QED BY <2>1, <2>2, AgentType, OwnPromptLoose
<1> QED BY <1>1, <1>2

LEMMA StartOrReplacePlaces ==
  ASSUME TypeOK, Lone(agent), NEW p \in Prompts, ~Placed(agent, p), NEW queued,
         \/ StartOrReplace(p, queued)
         \/ \E verb : CancelToReplace(p, verb, queued)
  PROVE  PutsOnly(agent, agent', p, call'[p].pc)
<1>1. ASSUME NEW verb, CancelToReplace(p, verb, queued)
      PROVE  PutsOnly(agent, agent', p, call'[p].pc)
  <2>1. SamePlaces(agent, agent')
    BY <1>1, AgentType DEF CancelToReplace, SamePlaces, AgentState
  <2> QED BY <2>1, SameKeepsPlaces, NothingIsOnly
<1> QED BY <1>1, StartOrRejectPlaces DEF StartOrReplace

LEMMA EnqueuePlaces ==
  ASSUME TypeOK, Lone(agent), NEW p \in Prompts, ~Placed(agent, p), NEW verb,
         EnqueueSteerMessage(p, verb)
  PROVE  PutsOnly(agent, agent', p, call'[p].pc)
<1> DEFINE parked == [agent EXCEPT !.steerQueue = Append(@, p)]
           batch  == takeNextSteerQueueBatch(parked.steerQueue)
           claimed == dispatchSteerQueueBatch(
                  [parked EXCEPT !.steerQueue = batch.rest, !.pendingSteerDrain = TRUE,
                                 !.lifecycle = "running"], batch.entries)
<1>1. agent \in AgentState /\ agent.steerQueue \in Seq(Entries) /\ p \in Entries
  BY AgentType, PromptIsToken DEF AgentState
<1>2. /\ parked.steerQueue = Append(agent.steerQueue, p)
      /\ parked.waiting = agent.waiting /\ parked.prompt = agent.prompt
      /\ parked.reconciled = agent.reconciled
  BY <1>1 DEF AgentState
<1>3. /\ parked.steerQueue \in Seq(Entries) /\ Len(agent.steerQueue) \in Nat
      /\ Len(parked.steerQueue) = Len(agent.steerQueue) + 1
  BY <1>1, <1>2, AppendProperties, LenProperties
<1>4. parked.steerQueue # <<>>
  BY <1>3, EmptySeq
<1>5. parked \in AgentState
  BY <1>1, <1>3 DEF AgentState
<1>6. call'[p].pc = "parked" /\ (agent' = claimed \/ agent' = parked)
  BY DEF EnqueueSteerMessage, Called, TypeOK, parked
<1> HIDE DEF parked
<1>7. p \notin InQueue(agent) /\ p \notin TodoEntries
  BY AgentTurnsAssumption DEF Placed
<1>8. Once(parked.steerQueue) /\ InQueue(parked) = InQueue(agent) \cup {p}
  BY <1>1, <1>2, <1>7, OnceAppend DEF InQueue, Lone
<1>9. \A t : Waits(parked, t) = Waits(agent, t) /\ Given(parked, t) = Given(agent, t)
  BY <1>2 DEF Waits, Given
<1>10. \A m : Placed(parked, m) => Placed(agent, m) \/ m = p
  BY <1>8, <1>9 DEF Placed
<1>11. Lone(parked)
  <2>1. \A m \in TodoEntries : Placed(parked, m) => m \in parked.reconciled
    BY <1>2, <1>7, <1>10 DEF Lone
  <2>2. \A t \in Tokens : p \notin Waits(parked, t) /\ p \notin Given(parked, t)
    BY <1>9 DEF Placed
  <2> QED BY <1>2, <1>8, <1>9, <2>1, <2>2 DEF Lone
<1>12. NoneNew(parked, parked) /\ NoneNew(parked, claimed)
  BY <1>4, <1>5, <1>11, ClaimPlaces DEF NoneNew
<1> HIDE DEF claimed
<1>13. NoneNew(parked, agent')
  BY <1>6, <1>12
<1> QED BY <1>6, <1>10, <1>13 DEF NoneNew, PutsOnly, PlacedStages

LEMMA SendPromptPlaces ==
  ASSUME TypeOK, Lone(agent), NEW p \in Prompts, ~Placed(agent, p), NEW verb,
         SendPrompt(p, verb)
  PROVE  PutsOnly(agent, agent', p, call'[p].pc)
<1>1. \/ EnqueueSteerMessage(p, verb)
      \/ \E queued : StartOrReplace(p, queued)
      \/ UNCHANGED agent
  BY DEF SendPrompt, SteerTurn
<1>2. CASE UNCHANGED agent
  BY <1>2 DEF PutsOnly
<1> QED BY <1>1, <1>2, EnqueuePlaces, StartOrReplacePlaces

LEMMA MakeCallPlaces ==
  ASSUME TypeOK, Lone(agent), Known(agent, call), NEW p \in Prompts, MakeCall(p)
  PROVE  Lone(agent') /\ Known(agent', call')
<1>1. call[p].pc = "new" /\ call[p].pc \notin PlacedStages
  BY DEF MakeCall, NoCall, PlacedStages
<1>2. ~Placed(agent, p)
  BY <1>1 DEF Known
<1>3. \A q \in Prompts \ {p} : call'[q] = call[q]
  <2>1. \E verb, pc, turn : Called(p, verb, pc, turn)
    BY DEF MakeCall, RunAgent, SendPrompt, TryRunOutOfBand, StopRun, Rewind,
       EnqueueSteerMessage, SteerTurn, StartOrReplace, StartOrReject, CancelToReplace
  <2> QED BY <2>1 DEF Called, TypeOK
<1>4. PutsOnly(agent, agent', p, call'[p].pc)
  <2>1. CASE RunAgent(p)
    BY <1>2, <2>1, StartOrRejectPlaces DEF RunAgent
  <2>2. CASE \E verb : SendPrompt(p, verb)
    BY <1>2, <2>2, SendPromptPlaces
  <2>3. CASE TryRunOutOfBand(p) \/ StopRun(p) \/ Rewind(p)
    <3>1. SamePlaces(agent, agent')
      BY <2>3, AgentType DEF TryRunOutOfBand, StopRun, Rewind, LockSlot, SamePlaces, AgentState
    <3> QED BY <3>1, SameKeepsPlaces, NothingIsOnly
  <2> QED BY <2>1, <2>2, <2>3 DEF MakeCall
<1> QED BY <1>1, <1>3, <1>4, PutsOnlyKnown DEF PutsOnly

LEMMA MutationPlaces ==
  ASSUME TypeOK, Lone(agent), Known(agent, call), NEW p \in Prompts, Mutation(p)
  PROVE  Lone(agent') /\ Known(agent', call')
<1>0. agent \in AgentState
  BY AgentType
<1>1. /\ call[p].pc \in {"cancelling", "interrupting", "settling", "draining", "steering",
                         "asked", "accepted", "failed", "unavailable"}
      /\ call[p].pc \notin PlacedStages
  BY DEF Mutation, CancelBegins, InterruptAcknowledged, InterruptFailed, CancelSettles,
     CancelDrained, SteerBegins, SteerAnswered, SteerReturns, AtHead, PlacedStages
<1>2. ~Placed(agent, p)
  BY <1>1 DEF Known
<1>3. \A q \in Prompts \ {p} : call'[q] = call[q]
  BY DEF Mutation, CancelBegins, InterruptAcknowledged, InterruptFailed, CancelSettles,
     CancelDrained, SteerBegins, SteerAnswered, SteerReturns, SteerUnavailable, Cancelled,
     StartOrReplace, StartOrReject, CancelToReplace, Called, TypeOK
<1>4. PutsOnly(agent, agent', p, call'[p].pc)
  <2>1. CASE CancelBegins(p) \/ InterruptFailed(p) \/ CancelDrained(p) \/ SteerBegins(p)
    <3>1. SamePlaces(agent, agent')
      BY <1>0, <2>1, ZenonT(60) DEF CancelBegins, InterruptFailed, CancelDrained, SteerBegins,
         SamePlaces, AgentState
    <3> QED BY <3>1, SameKeepsPlaces, NothingIsOnly
  <2>2. CASE InterruptAcknowledged(p)
    <3>1. agent' = agent \/ \E event : agent' = enqueueSessionEvent(agent, event)
      BY <2>2 DEF InterruptAcknowledged
    <3>2. SamePlaces(agent, agent')
      BY <1>0, <3>1, StillPlaced DEF SamePlaces
    <3> QED BY <3>2, SameKeepsPlaces, NothingIsOnly
  <2>3. CASE CancelSettles(p)
    <3>1. call[p].turn \in Turns \cup {None} /\ call[p].run \in Tokens \cup {None}
      BY DEF TypeOK, CallState
    <3>2. ASSUME NEW todo \in TodoChoices,
                 agent' = TerminalEvent(agent, "canceled", call[p].turn, todo)
          PROVE  PutsOnly(agent, agent', p, call'[p].pc)
      BY <1>0, <3>1, <3>2, TerminalEventPlaces, NothingIsOnly DEF TodoChoices
    <3>3. CASE call[p].run # None /\ agent' = settleForegroundRun(agent, call[p].run)
      BY <1>0, <3>1, <3>3, SettlePlaces, NothingIsOnly
    <3>4. CASE UNCHANGED agent
      BY <3>4 DEF PutsOnly
    <3> QED BY <2>3, <3>2, <3>3, <3>4 DEF CancelSettles, CapturedRun
  <2>4. CASE SteerAnswered(p)
    <3> DEFINE opened == [agent EXCEPT !.barrier = FALSE, !.barred = <<>>]
    <3>1. <<>> \in Seq(Event)
      BY EmptySeq
    <3>2. opened \in AgentState /\ SamePlaces(agent, opened)
      BY <1>0, <3>1 DEF AgentState, SamePlaces
    <3>3. agent' = EnqueueAll(opened, agent.barred)
      BY <2>4 DEF SteerAnswered
    <3> HIDE DEF opened
    <3>4. SamePlaces(agent, agent')
      BY <3>2, <3>3, StillPlaced DEF SamePlaces
    <3> QED BY <3>4, SameKeepsPlaces, NothingIsOnly
  <2>5. CASE SteerReturns(p)
    <3>1. CASE \E queued : SteerUnavailable(p, call[p].turn, queued)
      <4>1. CASE UNCHANGED agent
        BY <4>1 DEF PutsOnly
      <4> QED BY <1>2, <3>1, <4>1, StartOrReplacePlaces DEF SteerUnavailable
    <3>2. CASE UNCHANGED agent
      BY <3>2 DEF PutsOnly
    <3> QED BY <2>5, <3>1, <3>2 DEF SteerReturns
  <2> QED BY <2>1, <2>2, <2>3, <2>4, <2>5 DEF Mutation
<1> QED BY <1>1, <1>3, <1>4, PutsOnlyKnown DEF PutsOnly

LEMMA ContinuationPlaces ==
  ASSUME TypeOK, Lone(agent), Known(agent, call), NEW p \in Prompts, Continuation(p)
  PROVE  Lone(agent') /\ Known(agent', call')
<1>0. agent \in AgentState
  BY AgentType
<1>1. call[p].pc \in {"replacing", "locking", "rewinding", "oob"} /\ call[p].pc \notin PlacedStages
  BY DEF Continuation, ReplacementStarts, RewindLocks, RewindEnds, FinalizeOutOfBandRun,
     PlacedStages
<1>2. ~Placed(agent, p)
  BY <1>1 DEF Known
<1>3. \A q \in Prompts \ {p} : call'[q] = call[q]
  BY DEF Continuation, ReplacementStarts, RewindLocks, RewindEnds, FinalizeOutOfBandRun, TypeOK
<1>4. PutsOnly(agent, agent', p, call'[p].pc)
  <2>1. CASE ReplacementStarts(p)
    <3>1. CASE SlotTaken(agent)
      <4>1. SamePlaces(agent, agent')
        BY <1>0, <2>1, <3>1, StillPlaced, ZenonT(60) DEF ReplacementStarts, SamePlaces, AgentState
      <4> QED BY <4>1, SameKeepsPlaces, NothingIsOnly
    <3>2. CASE ~SlotTaken(agent)
      <4>1. agent' = streamAgent(agent, p, <<p>>) /\ call'[p].pc \in {"forwarded", "streamed"}
        BY <2>1, <3>2 DEF ReplacementStarts, TypeOK, CallState
      <4>2. call'[p].pc \in PlacedStages
        BY <4>1 DEF PlacedStages
      <4> QED BY <1>0, <1>2, <4>1, <4>2, OwnPromptLoose
    <3> QED BY <3>1, <3>2
  <2>2. CASE RewindLocks(p)
    <3>1. SamePlaces(agent, agent')
      BY <1>0, <2>2 DEF RewindLocks, LockSlot, SamePlaces, AgentState
    <3> QED BY <3>1, SameKeepsPlaces, NothingIsOnly
  <2>3. CASE RewindEnds(p)
    <3> DEFINE settled == settleForegroundRun(agent, p)
    <3>1. settled \in AgentState /\ NoneNew(agent, settled)
      BY <1>0, PromptIsToken, SettleType, SettlePlaces
    <3>2. agent' = [settled EXCEPT !.generator[p] = "done"]
      BY <2>3 DEF RewindEnds
    <3> HIDE DEF settled
    <3>3. SamePlaces(settled, agent')
      BY <3>1, <3>2 DEF AgentState, SamePlaces
    <3>4. NoneNew(agent, agent')
      BY <3>1, <3>3, SameKeepsPlaces, NoneNewTransitive DEF NoneNew
    <3> QED BY <3>4, NothingIsOnly
  <2>4. CASE FinalizeOutOfBandRun(p)
    <3> DEFINE left == IF agent.outOfBandRunCount > 0 THEN agent.outOfBandRunCount - 1 ELSE 0
               fewer == [agent EXCEPT !.outOfBandRunCount = left]
    <3>1. left \in Nat
      BY <1>0 DEF AgentState
    <3>2. agent' = fewer \/ agent' = RestOrDrain(fewer, FALSE)
      BY <2>4 DEF FinalizeOutOfBandRun
    <3> HIDE DEF left
    <3>3. fewer \in AgentState /\ SamePlaces(agent, fewer)
      BY <1>0, <3>1 DEF AgentState, SamePlaces
    <3> HIDE DEF fewer
    <3>4. NoneNew(agent, fewer)
      BY <3>3, SameKeepsPlaces
    <3>5. NoneNew(fewer, RestOrDrain(fewer, FALSE))
      BY <3>3, <3>4, RestOrDrainPlaces DEF NoneNew
    <3> DEFINE rested == RestOrDrain(fewer, FALSE)
    <3>6. NoneNew(fewer, rested) /\ (agent' = fewer \/ agent' = rested)
      BY <3>2, <3>5
    <3> HIDE DEF rested
    <3>7. NoneNew(agent, rested)
      BY <3>4, <3>6, NoneNewTransitive
    <3>8. NoneNew(agent, agent')
      BY <3>4, <3>6, <3>7
    <3> QED BY <3>8, NothingIsOnly
  <2> QED BY <2>1, <2>2, <2>3, <2>4 DEF Continuation
<1> QED BY <1>1, <1>3, <1>4, PutsOnlyKnown DEF PutsOnly

\* A step no call is made by: what is placed was, or is a reconcile prompt.
LEMMA NothingAskedStep ==
  ASSUME NothingAsked(agent, agent'), Known(agent, call), UNCHANGED call
  PROVE  Lone(agent') /\ Known(agent', call')
BY NothingAskedKnown DEF NothingAsked

LEMMA StartFailsPlaces ==
  ASSUME TypeOK, Lone(agent), NEW t \in Tokens, NEW stale \in BOOLEAN,
         NEW todo \in TodoChoices, StartFails(t, stale, todo)
  PROVE  NothingAsked(agent, agent')
<1> DEFINE gaveUp  == [agent EXCEPT !.generator[t] = "done"]
           started == [gaveUp EXCEPT !.pendingReplacement = FALSE]
           rested  == IF agent.activeForegroundTurnId = None
                      THEN [started EXCEPT !.lifecycle = "idle"] ELSE started
           event   == TerminalEvent(started, "failed", None, None)
           failed  == finalizeForegroundTurn(event, None, todo)
           chosen  == IF stale THEN rested ELSE failed
           settled == settleForegroundRun(chosen, t)
           ended   == IF t \in agent.settled THEN gaveUp ELSE settled
<1>1. gaveUp \in AgentState /\ SamePlaces(agent, gaveUp)
  BY AgentType, GeneratorDoneType, ZenonT(60) DEF AgentState, SamePlaces
<1> HIDE DEF gaveUp
<1>2. started \in AgentState /\ SamePlaces(agent, started)
  BY <1>1 DEF AgentState, SamePlaces
<1> HIDE DEF started
<1>3. rested \in AgentState /\ SamePlaces(agent, rested)
  BY <1>2, ZenonT(60) DEF AgentState, SamePlaces
<1> HIDE DEF rested
<1>4. /\ NoneNew(agent, gaveUp) /\ NoneNew(agent, started) /\ NoneNew(agent, rested)
      /\ started.reconciled = agent.reconciled
  BY <1>1, <1>2, <1>3, SameKeepsPlaces DEF SamePlaces
<1>5. /\ event \in AgentState /\ NothingAsked(started, event)
      /\ event.reconciled = agent.reconciled
  <2>1. event \in AgentState
    BY <1>2, TerminalEventType
  <2>2. NothingAsked(started, event) /\ event.reconciled = started.reconciled
    BY <1>2, <1>4, TerminalEventPlaces DEF NoneNew
  <2> QED BY <1>4, <2>1, <2>2
<1> HIDE DEF event
<1>6. failed \in AgentState /\ NothingAsked(event, failed)
  <2>1. todo \in {None} \cup (TodoEntries \ event.reconciled)
    BY <1>5 DEF TodoChoices
  <2>2. failed \in AgentState
    BY <1>5, <2>1, FinalizeType
  <2>3. NothingAsked(event, failed)
    BY <1>5, <2>1, FinalizePlaces DEF NothingAsked
  <2> QED BY <2>2, <2>3
<1> HIDE DEF failed
<1>7. chosen \in AgentState /\ NothingAsked(agent, chosen)
  <2>1. NothingAsked(agent, rested) /\ NothingAsked(agent, failed)
    BY <1>4, <1>5, <1>6 DEF NoneNew, NothingAsked
  <2> QED BY <1>3, <1>6, <2>1
<1> HIDE DEF chosen
<1>8. settled \in AgentState /\ NoneNew(chosen, settled)
  BY <1>7, SettleType, SettlePlaces DEF NothingAsked
<1> HIDE DEF settled
<1>9. ended \in AgentState /\ NothingAsked(agent, ended)
  <2>1. NothingAsked(agent, settled) /\ NothingAsked(agent, gaveUp)
    BY <1>4, <1>7, <1>8 DEF NoneNew, NothingAsked
  <2> QED BY <1>1, <1>8, <2>1
<1> HIDE DEF ended
<1>10. agent' = ended \/ agent' = ForwarderFailed(ended)
  BY DEF StartFails, ended, settled, chosen, failed, event, rested, started, gaveUp
<1>11. NoneNew(ended, ForwarderFailed(ended))
  BY <1>9, StillPlaced, SameKeepsPlaces DEF NothingAsked
<1>12. NothingAsked(agent, ForwarderFailed(ended))
  BY <1>9, <1>11 DEF NoneNew, NothingAsked
<1> QED BY <1>9, <1>10, <1>12

LEMMA StartResolvesPlaces ==
  ASSUME TypeOK, Lone(agent), NEW t \in Tokens, StartResolves(t)
  PROVE  NothingAsked(agent, agent')
<1> DEFINE events == agent.staged[t]
           accepted == [type |-> "started", turn |-> t]
           kept == IF accepted \in RangeOf(events) THEN Without(events, accepted) ELSE events
           current == [agent EXCEPT !.activeForegroundTurnId = t, !.activeTurnId = t,
                         !.pendingReplacement = FALSE, !.lifecycle = "running",
                         !.generator[t] = "streaming", !.staged[t] = <<>>]
           gaveUp == [agent EXCEPT !.generator[t] = "done"]
<1>1. current \in AgentState /\ SamePlaces(agent, current)
  <2>1. <<>> \in Seq(Event) /\ t \in Turns
    BY EmptySeq, EntriesType
  <2> QED BY <2>1, AgentType DEF AgentState, SamePlaces
<1>2. gaveUp \in AgentState /\ SamePlaces(agent, gaveUp)
  BY AgentType, GeneratorDoneType DEF AgentState, SamePlaces
<1> HIDE DEF kept, current, gaveUp
<1>3. \/ agent' = EnqueueAll(current, kept) \/ agent' = gaveUp
      \/ agent' = ForwarderFailed(gaveUp)
  BY DEF StartResolves, kept, current, gaveUp, events
<1>4. /\ SamePlaces(current, EnqueueAll(current, kept))
      /\ SamePlaces(gaveUp, ForwarderFailed(gaveUp))
  BY <1>1, <1>2, StillPlaced
<1>5. SamePlaces(agent, agent')
  BY <1>1, <1>2, <1>3, <1>4 DEF SamePlaces
<1> QED BY <1>5, SameKeepsPlaces, NothingIsOnly

LEMMA GeneratorPlaces ==
  ASSUME TypeOK, Lone(agent), Known(agent, call), NEW t \in Tokens,
         StartTurn(t) \/ GeneratorEnds(t)
  PROVE  Lone(agent') /\ Known(agent', call')
<1>1. UNCHANGED call
  BY DEF StartTurn, StartResolves, StartFails, GeneratorEnds
<1>2. CASE StartResolves(t)
  BY <1>1, <1>2, StartResolvesPlaces, NothingAskedStep
<1>3. CASE \E stale \in BOOLEAN, todo \in TodoChoices : StartFails(t, stale, todo)
  BY <1>1, <1>3, StartFailsPlaces, NothingAskedStep
<1>4. CASE GeneratorEnds(t)
  <2> DEFINE finished == [agent EXCEPT !.generator[t] = "done"]
  <2>1. finished \in AgentState /\ SamePlaces(agent, finished)
    BY AgentType, GeneratorDoneType DEF AgentState, SamePlaces
  <2>2. agent' = settleForegroundRun(finished, t)
    BY <1>4 DEF GeneratorEnds
  <2> HIDE DEF finished
  <2>3. NoneNew(agent, finished)
    BY <2>1, SameKeepsPlaces
  <2>4. NoneNew(finished, agent')
    BY <2>1, <2>2, <2>3, SettlePlaces DEF NoneNew
  <2>5. NothingAsked(agent, agent')
    BY <2>3, <2>4 DEF NoneNew, NothingAsked
  <2> QED BY <1>1, <2>5, NothingAskedStep
<1> QED BY <1>2, <1>3, <1>4 DEF StartTurn

LEMMA DeliverEventPlaces ==
  ASSUME TypeOK, Lone(agent), Known(agent, call), DeliverEvent
  PROVE  Lone(agent') /\ Known(agent', call')
<1> DEFINE event == Head(agent.tail)
           rest  == [agent EXCEPT !.tail = Tail(@)]
<1>1. event \in Event /\ Tail(agent.tail) \in Seq(Event)
  BY AgentType, HeadTailProperties DEF DeliverEvent, AgentState
<1>2. rest \in AgentState /\ SamePlaces(agent, rest)
  BY <1>1, AgentType DEF AgentState, SamePlaces
<1>3. event.turn \in Turns
  BY <1>1 DEF Event
<1> HIDE DEF event, rest
<1>4. \/ agent' = TurnStarted(rest, event.turn)
      \/ \E todo \in TodoChoices : agent' = TerminalEvent(rest, event.type, event.turn, todo)
  BY DEF DeliverEvent, event, rest
<1>5. NoneNew(agent, rest) /\ rest.reconciled = agent.reconciled
  BY <1>2, SameKeepsPlaces DEF SamePlaces
<1>6. NothingAsked(rest, agent')
  <2>1. CASE agent' = TurnStarted(rest, event.turn)
    BY <1>2, <1>5, <2>1, StillPlaced, SameKeepsPlaces, NothingIsOnly DEF NoneNew
  <2>2. ASSUME NEW todo \in TodoChoices,
               agent' = TerminalEvent(rest, event.type, event.turn, todo)
        PROVE  NothingAsked(rest, agent')
    BY <1>2, <1>3, <1>5, <2>2, TerminalEventPlaces DEF NoneNew, TodoChoices
  <2> QED BY <1>4, <2>1, <2>2
<1>7. NothingAsked(agent, agent')
  BY <1>5, <1>6 DEF NoneNew, NothingAsked
<1>8. UNCHANGED call
  BY DEF DeliverEvent
<1> QED BY <1>7, <1>8, NothingAskedStep

LEMMA ProviderPlaces ==
  ASSUME TypeOK, Lone(agent), Known(agent, call), Provider
  PROVE  Lone(agent') /\ Known(agent', call')
<1>1. UNCHANGED call /\ \E event : agent' = enqueueSessionEvent(agent, event)
  BY DEF Provider, ProviderBegins, ProviderReportsLate, ProviderEnds, Emit
<1>2. SamePlaces(agent, agent')
  BY <1>1, AgentType, StillPlaced
<1>3. NothingAsked(agent, agent')
  BY <1>2, SameKeepsPlaces, NothingIsOnly
<1> QED BY <1>1, <1>3, NothingAskedStep

\* An edit touches the queue alone: what stays queued was queued.
LEMMA QueueEdited ==
  ASSUME Lone(agent), NEW queue, Once(queue), RangeOf(queue) \subseteq InQueue(agent),
         NEW b, b = [agent EXCEPT !.steerQueue = queue], agent \in AgentState
  PROVE  /\ NoneNew(agent, b) /\ InQueue(b) = RangeOf(queue)
         /\ \A m \in Entries : m \in InQueue(agent) /\ Placed(b, m) => m \in RangeOf(queue)
<1>1. /\ b.steerQueue = queue /\ b.waiting = agent.waiting
      /\ b.prompt = agent.prompt /\ b.reconciled = agent.reconciled
  BY DEF AgentState
<1>2. /\ InQueue(b) = RangeOf(queue)
      /\ \A t : Waits(b, t) = Waits(agent, t) /\ Given(b, t) = Given(agent, t)
  BY <1>1 DEF InQueue, Waits, Given
<1>3. \A m : Placed(b, m) => Placed(agent, m)
  BY <1>2 DEF Placed
<1>4. \A m \in TodoEntries : Placed(b, m) => m \in b.reconciled
  BY <1>1, <1>3 DEF Lone
<1>5. \A m \in Entries, t \in Tokens : m \in InQueue(b) => m \notin Waits(b, t) /\ m \notin Given(b, t)
  BY <1>2 DEF Lone
<1>6. Lone(b)
  BY <1>1, <1>2, <1>4, <1>5 DEF Lone
<1>7. \A m \in Entries : m \in InQueue(agent) /\ Placed(b, m) => m \in RangeOf(queue)
  BY <1>2 DEF Lone, Placed
<1> QED BY <1>2, <1>3, <1>6, <1>7 DEF NoneNew

LEMMA EditQueuePlaces ==
  ASSUME TypeOK, Lone(agent), Known(agent, call), EditQueue
  PROVE  Lone(agent') /\ Known(agent', call')
<1>0. agent \in AgentState /\ agent.steerQueue \in Seq(Entries) /\ Once(agent.steerQueue)
  BY AgentType DEF AgentState, Lone
<1>1. CASE ClearSteerQueue
  <2> DEFINE nothing == <<>>
  <2>1. Once(nothing) /\ RangeOf(nothing) = {}
    BY OnceEmpty
  <2>2. agent' = [agent EXCEPT !.steerQueue = nothing]
    BY <1>1 DEF ClearSteerQueue
  <2> HIDE DEF nothing
  <2>3. /\ NoneNew(agent, agent')
        /\ \A m \in Entries : m \in InQueue(agent) => ~Placed(agent', m)
    BY <1>0, <2>1, <2>2, QueueEdited
  <2>4. \A p \in Prompts \ InQueue(agent) : call'[p] = call[p]
    BY <1>1 DEF ClearSteerQueue, InQueue
  <2>5. Known(agent', call')
    BY <2>3, <2>4, PromptIsToken DEF Known, NoneNew
  <2> QED BY <2>3, <2>5 DEF NoneNew
<1>2. ASSUME NEW e \in Entries, RemoveSteerQueueEntry(e)
      PROVE  Lone(agent') /\ Known(agent', call')
  <2> DEFINE queue == Without(agent.steerQueue, e)
  <2>1. e \in RangeOf(agent.steerQueue) /\ agent' = [agent EXCEPT !.steerQueue = queue]
    BY <1>2 DEF RemoveSteerQueueEntry
  <2>2. Once(queue) /\ RangeOf(queue) = InQueue(agent) \ {e}
    BY <1>0, <2>1, WithoutOnce DEF InQueue
  <2> HIDE DEF queue
  <2>3. NoneNew(agent, agent') /\ ~Placed(agent', e)
    BY <1>0, <2>1, <2>2, QueueEdited DEF InQueue
  <2>4. \A p \in Prompts \ {e} : call'[p] = call[p]
    BY <1>2 DEF RemoveSteerQueueEntry, TypeOK
  <2>5. Known(agent', call')
    BY <2>3, <2>4, PromptIsToken DEF Known, NoneNew
  <2> QED BY <2>3, <2>5 DEF NoneNew
<1>3. ASSUME NEW e \in Entries, NEW i \in 1 .. Cardinality(Entries),
             ReorderSteerQueueEntry(e, i)
      PROVE  Lone(agent') /\ Known(agent', call')
  <2> DEFINE queue == moveSteerQueueEntry(agent.steerQueue, e, i)
  <2>1. /\ e \in RangeOf(agent.steerQueue) /\ agent' = [agent EXCEPT !.steerQueue = queue]
        /\ UNCHANGED call
    BY <1>3 DEF ReorderSteerQueueEntry
  <2>2. Once(queue) /\ RangeOf(queue) = InQueue(agent)
    BY <1>0, <2>1, MoveOnce DEF InQueue
  <2> HIDE DEF queue
  <2>3. NoneNew(agent, agent')
    BY <1>0, <2>1, <2>2, QueueEdited
  <2> QED BY <2>1, <2>3, NothingIsOnly, NothingAskedStep
<1> QED BY <1>1, <1>2, <1>3 DEF EditQueue

LEMMA InitPlaces == Init => Lone(agent) /\ Known(agent, call)
<1> SUFFICES ASSUME Init PROVE Lone(agent) /\ Known(agent, call)
  OBVIOUS
<1>1. /\ agent.steerQueue = <<>>
      /\ \A t \in Tokens : agent.waiting[t] = <<>> /\ agent.prompt[t] = <<>>
  BY DEF Init
<1>2. /\ InQueue(agent) = {} /\ Once(agent.steerQueue)
      /\ \A t \in Tokens : /\ Waits(agent, t) = {} /\ Given(agent, t) = {}
                           /\ Apart(agent.waiting[t])
  BY <1>1, OnceEmpty, NoBatches DEF InQueue, Waits, Given
<1>3. \A m : ~Placed(agent, m)
  BY <1>2 DEF Placed
<1> QED BY <1>2, <1>3 DEF Lone, Known

\* The messages that are placed, and whose calls may have placed them.
PlacesInv == TypeOK /\ Lone(agent) /\ Known(agent, call)

LEMMA StepPlaces == PlacesInv /\ [Next]_vars => PlacesInv'
<1> SUFFICES ASSUME PlacesInv, [Next]_vars PROVE Lone(agent') /\ Known(agent', call')
  BY StepType DEF PlacesInv, Lone, Known, Placed, InQueue, Waits, Given
<1> USE DEF PlacesInv
<1>1. CASE UNCHANGED vars
  BY <1>1 DEF vars
<1>2. ASSUME NEW p \in Prompts, MakeCall(p) \/ Mutation(p) \/ Continuation(p)
      PROVE  Lone(agent') /\ Known(agent', call')
  BY <1>2, MakeCallPlaces, MutationPlaces, ContinuationPlaces
<1>3. ASSUME NEW t \in Tokens, StartTurn(t) \/ GeneratorEnds(t)
      PROVE  Lone(agent') /\ Known(agent', call')
  BY <1>3, GeneratorPlaces
<1>4. CASE DeliverEvent
  BY <1>4, DeliverEventPlaces
<1>5. CASE EditQueue \/ Provider
  BY <1>5, EditQueuePlaces, ProviderPlaces
<1> QED BY <1>1, <1>2, <1>3, <1>4, <1>5 DEF Next

LEMMA PlacesHold == Spec => []PlacesInv
<1>1. Init => PlacesInv
  BY InitType, InitPlaces DEF PlacesInv
<1> QED BY <1>1, StepPlaces, PTL DEF Spec

\* A message is in one place, for any number of calls, reconcile prompts and
\* turns and whatever callers may ask for: no claim, put-back, settle or edit
\* leaves a copy behind, and no batch is delivered twice.
THEOREM MessagesOnce == Spec => []MessageOnce
<1>1. PlacesInv => MessageOnce
  BY LoneIsEnough DEF PlacesInv
<1> QED BY <1>1, PlacesHold, PTL
=============================================================================
