------------------------ MODULE AgentRequestsProofs ------------------------
(***************************************************************************)
(* Theorems about AgentRequests, for every set of calls, keys and          *)
(* arguments and any number of crashes and disk errors: its types, that a  *)
(* key takes effect once, that a completed receipt is final, that the      *)
(* answers to a key agree, and that a blocked key has a cause.             *)
(***************************************************************************)
EXTENDS AgentRequests, TLAPS

(***************************************************************************)
(* The typing invariant.                                                   *)
(***************************************************************************)
\* The chain of a key hands its calls on one by one.
LEMMA ChainTypes ==
  ASSUME NEW q \in [Keys -> Seq(Calls)], NEW k \in Keys
  PROVE  /\ \A c \in Calls : [q EXCEPT ![k] = Append(@, c)] \in [Keys -> Seq(Calls)]
         /\ q[k] # <<>> => /\ Head(q[k]) \in Calls
                           /\ [q EXCEPT ![k] = Tail(@)] \in [Keys -> Seq(Calls)]
<1>1. q[k] \in Seq(Calls)
  OBVIOUS
<1>2. \A c \in Calls : Append(q[k], c) \in Seq(Calls)
  BY <1>1
<1>3. q[k] # <<>> => Head(q[k]) \in Calls /\ Tail(q[k]) \in Seq(Calls)
  BY <1>1
<1> QED BY <1>2, <1>3

\* Types of the updates the actions are made of.
LEMMA UpdateTypes ==
  ASSUME TypeOK, NEW c \in Calls
  PROVE  /\ KeyOf(c) \in Keys /\ call[c].request \in Requests
         /\ call[c].agent \in Calls \cup {NoCall}
         /\ \A s \in Stage : Moves(c, s) => call' \in [Calls -> CallRecord]
         /\ \A s \in Stage : Settles(c, s) => /\ call' \in [Calls -> CallRecord]
                                               /\ executing' \in [Keys -> Calls \cup {NoCall}]
                                               /\ waiting' \in [Keys -> Seq(Calls)]
         /\ \A a \in Calls : (Returns(c, a) \/ Finds(c, a))
                => /\ call' \in [Calls -> CallRecord]
                   /\ executing' \in [Keys -> Calls \cup {NoCall}]
                   /\ waiting' \in [Keys -> Seq(Calls)]
         /\ \A a \in Calls, s \in {"pending", "completed"} :
                Writes(c, a, s) => receipt' \in [Keys -> Receipt \cup {NoReceipt}]
         /\ DiskFails => diskErrors' \in Nat /\ crashes' \in Nat
<1>1. call[c] \in CallRecord
  BY DEF TypeOK
<1>2. KeyOf(c) \in Keys /\ call[c].request \in Requests /\ call[c].agent \in Calls \cup {NoCall}
  BY <1>1 DEF CallRecord, KeyOf
<1>3. ASSUME NEW s \in Stage, Moves(c, s) PROVE call' \in [Calls -> CallRecord]
  BY <1>1, <1>3 DEF TypeOK, Moves, CallRecord
<1>4. ASSUME NEW s \in Stage, Settles(c, s)
      PROVE  /\ executing' \in [Keys -> Calls \cup {NoCall}]
             /\ waiting' \in [Keys -> Seq(Calls)]
  BY <1>4 DEF TypeOK, Settles
<1>5. ASSUME NEW s \in Stage, Settles(c, s) PROVE call' \in [Calls -> CallRecord]
  BY <1>3, <1>5 DEF Settles
<1>6. ASSUME NEW a \in Calls, Returns(c, a) \/ Finds(c, a)
      PROVE  call' \in [Calls -> CallRecord]
  <2>1. "answering" \in Stage /\ "recovering" \in Stage
    BY DEF Stage, Running
  <2>2. PICK s \in Stage : call' = [call EXCEPT ![c].stage = s, ![c].agent = a]
    BY <1>6, <2>1 DEF Returns, Finds
  <2>3. [call[c] EXCEPT !.stage = s, !.agent = a] \in CallRecord
    BY <1>1 DEF CallRecord
  <2> QED BY <2>2, <2>3 DEF TypeOK
<1>7. ASSUME NEW a \in Calls, Returns(c, a) \/ Finds(c, a)
      PROVE  /\ executing' \in [Keys -> Calls \cup {NoCall}]
             /\ waiting' \in [Keys -> Seq(Calls)]
  BY <1>7 DEF TypeOK, Returns, Finds
<1>8. ASSUME NEW a \in Calls, NEW s \in {"pending", "completed"}, Writes(c, a, s)
      PROVE  receipt' \in [Keys -> Receipt \cup {NoReceipt}]
  <2>1. [request |-> call[c].request, by |-> a, state |-> s] \in Receipt
    BY <1>2 DEF Receipt
  <2> QED BY <1>2, <1>8, <2>1 DEF TypeOK, Writes
<1>9. DiskFails => diskErrors' \in Nat /\ crashes' \in Nat
  BY DEF DiskFails, TypeOK
<1> QED BY <1>2, <1>3, <1>4, <1>5, <1>6, <1>7, <1>8, <1>9

\* The receipt of the key a call works on, once it is there, is a receipt.
LEMMA ReceiptTypes ==
  ASSUME TypeOK, NEW k \in Keys, receipt[k] # NoReceipt
  PROVE  /\ receipt[k] \in Receipt /\ receipt[k].by \in Calls
         /\ receipt[k].state \in {"pending", "completed"}
BY DEF TypeOK, Receipt

\* A call's own steps keep the types.
LEMMA CallStepTypes ==
  ASSUME TypeOK, NEW c \in Calls, CallStep(c), At(c, "confirming") => call[c].agent \in Calls
  PROVE  TypeOK'
<1> USE DEF agents, records, faults
<1>0. {"ok", "error", "unfreed", "conflict", "unknown", "gone"} \subseteq Stage /\ Running \subseteq Stage
  BY DEF Stage, Ended
<1>k. KeyOf(c) \in Keys
  BY UpdateTypes
<1>1. CASE ReadFindsNone(c)
  BY <1>1, <1>0, UpdateTypes DEF ReadFindsNone, TypeOK, Running
<1>2. CASE ReadFindsConflict(c)
  BY <1>2, <1>0, UpdateTypes DEF ReadFindsConflict, TypeOK
<1>3. CASE ReadFindsReceipt(c)
  <2>1. receipt[KeyOf(c)].by \in Calls
    BY <1>3, <1>k, ReceiptTypes DEF ReadFindsReceipt
  <2> QED BY <1>3, <2>1, UpdateTypes DEF ReadFindsReceipt, TypeOK
<1>4. CASE Recover(c)
  BY <1>4, <1>0, UpdateTypes DEF Recover, TypeOK, Running
<1>5. CASE Confirm(c)
  <2>1. call[c].agent \in Calls
    BY <1>5 DEF Confirm
  <2>2. CASE Writes(c, call[c].agent, "completed") /\ Returns(c, call[c].agent) /\ UNCHANGED faults
    BY <1>5, <2>1, <2>2, UpdateTypes DEF Confirm, TypeOK
  <2>3. CASE DiskFails /\ Settles(c, "error") /\ UNCHANGED receipt
    BY <1>5, <2>3, <1>0, UpdateTypes DEF Confirm, TypeOK
  <2> QED BY <1>5, <2>2, <2>3 DEF Confirm
<1>6. CASE Prepare(c)
  BY <1>6, <1>0, UpdateTypes DEF Prepare, TypeOK, Running
<1>7. CASE WritePending(c)
  <2>1. CASE Writes(c, c, "pending") /\ Moves(c, "running") /\ UNCHANGED <<executing, waiting, faults>>
    BY <1>7, <2>1, <1>0, UpdateTypes DEF WritePending, TypeOK, Running
  <2>2. CASE DiskFails /\ Settles(c, "error") /\ UNCHANGED receipt
    BY <1>7, <2>2, <1>0, UpdateTypes DEF WritePending, TypeOK
  <2> QED BY <1>7, <2>1, <2>2 DEF WritePending
<1>8. CASE RunFails(c)
  BY <1>8, <1>0, UpdateTypes DEF RunFails, TypeOK, Running
<1>9. CASE Submit(c)
  BY <1>9, <1>0, UpdateTypes DEF Submit, TypeOK, Running
<1>10. CASE SubmitReturns(c)
  BY <1>10, <1>0, UpdateTypes DEF SubmitReturns, TypeOK, Running
<1>11. CASE Register(c)
  BY <1>11, <1>0, UpdateTypes DEF Register, TypeOK, Running
<1>12. CASE PersistAgent(c)
  BY <1>12, <1>0, UpdateTypes DEF PersistAgent, Stores, TypeOK, Running
<1>13. CASE FinishCreate(c)
  BY <1>13, <1>0, UpdateTypes DEF FinishCreate, TypeOK, Running
<1>14. CASE RunFailed(c)
  BY <1>14, <1>0, UpdateTypes DEF RunFailed, TypeOK, Running
<1>15. CASE RemoveReceipt(c)
  BY <1>15, <1>0, <1>k, UpdateTypes DEF RemoveReceipt, TypeOK
<1>16. CASE WriteCompleted(c)
  <2>1. CASE Writes(c, c, "completed") /\ Returns(c, c) /\ UNCHANGED faults
    BY <1>16, <2>1, UpdateTypes DEF WriteCompleted, TypeOK
  <2>2. CASE DiskFails /\ Settles(c, "error") /\ UNCHANGED receipt
    BY <1>16, <2>2, <1>0, UpdateTypes DEF WriteCompleted, TypeOK
  <2> QED BY <1>16, <2>1, <2>2 DEF WriteCompleted
<1>17. CASE Answer(c)
  BY <1>17, <1>0, UpdateTypes DEF Answer, TypeOK
<1>18. CASE ReadFails(c)
  BY <1>18, <1>0, UpdateTypes DEF ReadFails, TypeOK
<1>19. CASE RereadFails(c)
  BY <1>19, <1>0, UpdateTypes DEF RereadFails, TypeOK
<1> QED
  BY <1>18, <1>19, <1>1, <1>2, <1>3, <1>4, <1>5, <1>6, <1>7, <1>8, <1>9, <1>10, <1>11, <1>12,
     <1>13, <1>14, <1>15, <1>16, <1>17 DEF CallStep

(***************************************************************************)
(* The inductive invariant. The chain lets one call of a key run at a      *)
(* time; while it runs, the receipt is as its stage says; and everything   *)
(* that took effect is owned by the receipt of its key.                    *)
(***************************************************************************)
Exclusive == \A c \in Calls : call[c].stage \in Running => executing[KeyOf(c)] = c

Chained == \A k \in Keys : \A i \in 1..Len(waiting[k]) : KeyOf(waiting[k][i]) = k

Owner == {"running", "registering", "persisted", "submitted", "failed", "removing", "completing"}

OwnedBy(k, a, state) ==
    receipt[k] # NoReceipt /\ receipt[k].by = a /\ receipt[k].state = state

\* The receipt a call finds, holds or has just written.
StageFits(c) ==
    /\ call[c].stage \in {"preparing", "assigning"} => receipt[KeyOf(c)] = NoReceipt
    /\ call[c].stage \in {"recovering", "confirming"}
          => OwnedBy(KeyOf(c), call[c].agent, "pending")
    /\ call[c].stage \in Owner => OwnedBy(KeyOf(c), c, "pending")
    /\ At(c, "removing") => IsCreate(c) /\ ~Exists(c)

\* What took effect is on record.
EffectsOnRecord ==
    \A c \in TookEffect : receipt[KeyOf(c)] # NoReceipt /\ receipt[KeyOf(c)].by = c

SubmitsAreSends == \A c \in submitted : ~IsCreate(c)

\* The storage knows every record file but those it failed to remove.
DiskKnown == onDisk \subseteq stored \cup undeleted

IInv ==
    /\ TypeOK
    /\ Exclusive
    /\ Chained
    /\ \A c \in Calls : StageFits(c)
    /\ EffectsOnRecord
    /\ SubmitsAreSends
    /\ DiskKnown

\* The steps of one call: what they do to other calls and to other keys.
LEMMA CallStepFrame ==
  ASSUME IInv, NEW c \in Calls, CallStep(c)
  PROVE  /\ \A d \in Calls : KeyOf(d)' = KeyOf(d)
         /\ \A d \in Calls \ {c} : call'[d] = call[d]
         /\ \A k \in Keys \ {KeyOf(c)} : receipt'[k] = receipt[k] /\ executing'[k] = executing[k]
         /\ TookEffect' \subseteq TookEffect \cup {c}
         /\ undeleted' = undeleted
         /\ \A d \in Calls \ {c} : Exists(d)' => Exists(d)
         /\ waiting' = waiting
         /\ call'[c].stage \in Running => executing'[KeyOf(c)] = executing[KeyOf(c)]
<1> USE DEF agents, records, faults
<1>1. /\ \A s : Moves(c, s) => /\ call' = [call EXCEPT ![c].stage = s]
      /\ \A a : Returns(c, a) => call' = [call EXCEPT ![c].stage = "answering", ![c].agent = a]
      /\ \A a : Finds(c, a) => call' = [call EXCEPT ![c].stage = "recovering", ![c].agent = a]
  BY DEF Moves, Returns, Finds
<1>2. \A s : Settles(c, s) => /\ call' = [call EXCEPT ![c].stage = s] /\ waiting' = waiting
                             /\ executing' = [executing EXCEPT ![KeyOf(c)] = NoCall]
  BY DEF Settles, Moves
<1>3. \/ \E s : call' = [call EXCEPT ![c].stage = s]
      \/ \E s, a : call' = [call EXCEPT ![c].stage = s, ![c].agent = a]
  <2>1. \/ \E s : Moves(c, s) \/ Settles(c, s)
        \/ \E a : Returns(c, a) \/ Finds(c, a)
    BY DEF CallStep, ReadFails, ReadFindsNone, ReadFindsConflict, ReadFindsReceipt, Recover,
       Confirm,
           Prepare, WritePending, RunFails, Submit, SubmitReturns, Register, PersistAgent,
           FinishCreate, RunFailed, RemoveReceipt, WriteCompleted, RereadFails, Answer
  <2> QED BY <1>1, <1>2, <2>1
<1>4. /\ call \in [Calls -> CallRecord] /\ receipt \in [Keys -> Receipt \cup {NoReceipt}]
      /\ executing \in [Keys -> Calls \cup {NoCall}]
  BY DEF IInv, TypeOK
<1>5. call[c] \in CallRecord
  BY <1>4
<1>6. /\ \A d \in Calls \ {c} : call'[d] = call[d]
      /\ call'[c].key = call[c].key
  BY <1>3, <1>4, <1>5 DEF CallRecord
<1>7. \A d \in Calls : KeyOf(d)' = KeyOf(d)
  BY <1>6 DEF KeyOf
<1>8. \A k \in Keys \ {KeyOf(c)} : receipt'[k] = receipt[k]
  <2>1. \/ receipt' = receipt
        \/ \E r : receipt' = [receipt EXCEPT ![KeyOf(c)] = r]
    BY DEF CallStep, ReadFails, ReadFindsNone, ReadFindsConflict, ReadFindsReceipt, Recover,
       Confirm,
           Prepare, WritePending, RunFails, Submit, SubmitReturns, Register, PersistAgent,
           FinishCreate, RunFailed, RemoveReceipt, WriteCompleted, RereadFails, Answer, Writes
  <2> QED BY <1>4, <2>1
<1>9. /\ executing' = executing \/ executing' = [executing EXCEPT ![KeyOf(c)] = NoCall]
      /\ waiting' = waiting
  BY DEF CallStep, ReadFails, ReadFindsNone, ReadFindsConflict, ReadFindsReceipt, Recover,
     Confirm,
         Prepare, WritePending, RunFails, Submit, SubmitReturns, Register, PersistAgent,
         FinishCreate, RunFailed, RemoveReceipt, WriteCompleted, RereadFails, Answer, Settles,
         Returns, Finds
<1>10. \A k \in Keys \ {KeyOf(c)} : executing'[k] = executing[k]
  BY <1>4, <1>9
<1>11. TookEffect' \subseteq TookEffect \cup {c}
  BY DEF CallStep, ReadFails, ReadFindsNone, ReadFindsConflict, ReadFindsReceipt, Recover,
     Confirm,
         Prepare, WritePending, RunFails, Submit, SubmitReturns, Register, PersistAgent,
         FinishCreate, RunFailed, RemoveReceipt, WriteCompleted, RereadFails, Answer,
         TookEffect, Stores
<1>13. /\ undeleted' = undeleted
       /\ live' \cup stored' \subseteq live \cup stored \cup {c}
  BY DEF CallStep, ReadFails, ReadFindsNone, ReadFindsConflict, ReadFindsReceipt, Recover,
     Confirm,
         Prepare, WritePending, RunFails, Submit, SubmitReturns, Register, PersistAgent,
         FinishCreate, RunFailed, RemoveReceipt, WriteCompleted, RereadFails, Answer, Stores
<1>14. \A d \in Calls \ {c} : Exists(d)' => Exists(d)
  BY <1>13 DEF Exists
<1>12. ASSUME call'[c].stage \in Running PROVE executing'[KeyOf(c)] = executing[KeyOf(c)]
  <2>1. ASSUME NEW s, Settles(c, s) PROVE call'[c].stage = s
    BY <1>2, <1>4, <1>5, <2>1 DEF CallRecord
  <2>2. ASSUME NEW a, Returns(c, a) PROVE call'[c].stage = "answering"
    BY <1>1, <1>4, <1>5, <2>2 DEF CallRecord
  <2>3. executing' = executing \/ (\E s \in Ended : Settles(c, s)) \/ (\E a : Returns(c, a))
    BY DEF CallStep, ReadFails, ReadFindsNone, ReadFindsConflict, ReadFindsReceipt, Recover,
       Confirm,
           Prepare, WritePending, RunFails, Submit, SubmitReturns, Register, PersistAgent,
           FinishCreate, RunFailed, RemoveReceipt, WriteCompleted, RereadFails, Answer, Finds,
           Ended
  <2>4. Ended \cap Running = {} /\ "answering" \notin Running
    BY DEF Ended, Running
  <2> QED BY <1>12, <2>1, <2>2, <2>3, <2>4
<1> QED BY <1>6, <1>7, <1>8, <1>9, <1>10, <1>11, <1>12, <1>13, <1>14

\* A call changes the receipt of its key in four places only.
LEMMA ReceiptStep ==
  ASSUME IInv, NEW c \in Calls, CallStep(c)
  PROVE  \/ receipt' = receipt
         \/ At(c, "assigning") /\ Writes(c, c, "pending")
         \/ At(c, "confirming") /\ Writes(c, call[c].agent, "completed")
         \/ At(c, "completing") /\ Writes(c, c, "completed")
         \/ At(c, "removing") /\ receipt' = [receipt EXCEPT ![KeyOf(c)] = NoReceipt]
BY DEF CallStep, ReadFails, ReadFindsNone, ReadFindsConflict, ReadFindsReceipt, Recover, Confirm,
           Prepare, WritePending, RunFails, Submit, SubmitReturns, Register, PersistAgent,
           FinishCreate, RunFailed, RemoveReceipt, WriteCompleted, RereadFails, Answer

\* After its step, the call's stage fits the receipt again.
LEMMA OwnStageFits ==
  ASSUME IInv, NEW c \in Calls, CallStep(c)
  PROVE  StageFits(c)'
<1> USE DEF agents, records, faults
<1>1. /\ call \in [Calls -> CallRecord] /\ call[c] \in CallRecord /\ KeyOf(c) \in Keys
      /\ receipt \in [Keys -> Receipt \cup {NoReceipt}] /\ StageFits(c)
  BY DEF IInv, TypeOK, KeyOf, CallRecord
<1>2. /\ KeyOf(c)' = KeyOf(c)
      /\ IsCreate(c)' = IsCreate(c)
  BY CallStepFrame DEF IsCreate
<1>3. \A s : Moves(c, s) \/ Settles(c, s) => call'[c].stage = s
  BY <1>1 DEF Moves, Settles, CallRecord
<1>4. ASSUME call'[c].stage \notin Running PROVE StageFits(c)'
  BY <1>4 DEF StageFits, Running, Owner, At
<1>5. Ended \cap Running = {} /\ "answering" \notin Running /\ "error" \in Ended /\ "unfreed" \in Ended
      /\ "conflict" \in Ended /\ "unknown" \in Ended /\ "gone" \in Ended /\ "ok" \in Ended
  BY DEF Ended, Running
<1>6. \A s \in Ended : Moves(c, s) \/ Settles(c, s) => StageFits(c)'
  BY <1>3, <1>4, <1>5
<1>7. ASSUME NEW a, Returns(c, a) PROVE StageFits(c)'
  <2>1. call'[c].stage = "answering"
    BY <1>1, <1>7 DEF Returns, CallRecord
  <2> QED BY <1>4, <1>5, <2>1
<1>8. ASSUME NEW s \in Owner \ {"removing"}, Moves(c, s), OwnedBy(KeyOf(c), c, "pending")'
      PROVE  StageFits(c)'
  BY <1>2, <1>3, <1>8 DEF StageFits, Owner, At
<1>9. call[c].stage \in Owner /\ receipt' = receipt => OwnedBy(KeyOf(c), c, "pending")'
  BY <1>1, <1>2 DEF StageFits, OwnedBy
<1>10. ASSUME call[c].stage \in Owner, receipt' = receipt, NEW s \in Owner \ {"removing"}, Moves(c, s)
       PROVE  StageFits(c)'
  BY <1>8, <1>9, <1>10
<1>11. CASE ReadFindsNone(c)
  BY <1>1, <1>2, <1>3, <1>11 DEF ReadFindsNone, StageFits, Owner, At
<1>12. CASE ReadFindsConflict(c)
  BY <1>5, <1>6, <1>12 DEF ReadFindsConflict
<1>13. CASE ReadFindsReceipt(c)
  <2>1. CASE Finds(c, receipt[KeyOf(c)].by) /\ receipt[KeyOf(c)].state # "completed"
    <3>1. call'[c].stage = "recovering" /\ call'[c].agent = receipt[KeyOf(c)].by
      BY <1>1, <2>1 DEF Finds, CallRecord
    <3>2. receipt' = receipt /\ receipt[KeyOf(c)] # NoReceipt
      BY <1>13 DEF ReadFindsReceipt
    <3>3. receipt[KeyOf(c)].state = "pending"
      BY <1>1, <2>1, <3>2 DEF Receipt
    <3> QED BY <1>2, <3>1, <3>2, <3>3 DEF StageFits, OwnedBy, Owner, At
  <2> QED BY <1>7, <1>13, <2>1 DEF ReadFindsReceipt
<1>14. CASE Recover(c)
  <2>1. CASE Moves(c, "confirming")
    <3>1. call'[c].stage = "confirming" /\ call'[c].agent = call[c].agent
      BY <1>1, <2>1 DEF Moves, CallRecord
    <3> QED BY <1>1, <1>2, <1>14, <3>1 DEF Recover, StageFits, OwnedBy, Owner, At
  <2> QED BY <1>5, <1>6, <1>14, <2>1 DEF Recover
<1>15. CASE Confirm(c)
  BY <1>5, <1>6, <1>7, <1>15 DEF Confirm
<1>16. CASE Prepare(c)
  <2>1. CASE Moves(c, "assigning")
    BY <1>1, <1>2, <1>3, <1>16, <2>1 DEF Prepare, StageFits, Owner, At
  <2> QED BY <1>5, <1>6, <1>16, <2>1 DEF Prepare
<1>17. CASE WritePending(c)
  <2>1. CASE Writes(c, c, "pending") /\ Moves(c, "running")
    <3>1. receipt'[KeyOf(c)] = [request |-> call[c].request, by |-> c, state |-> "pending"]
      BY <1>1, <2>1 DEF Writes
    <3>2. OwnedBy(KeyOf(c), c, "pending")'
      BY <1>2, <3>1 DEF OwnedBy, NoReceipt
    <3> QED BY <1>8, <2>1, <3>2 DEF Owner
  <2> QED BY <1>5, <1>6, <1>17, <2>1 DEF WritePending
<1>18. CASE RunFails(c)
  BY <1>10, <1>18 DEF RunFails, Owner, At
<1>19. CASE Submit(c)
  BY <1>10, <1>19 DEF Submit, Owner, At
<1>20. CASE SubmitReturns(c)
  BY <1>10, <1>20 DEF SubmitReturns, Owner, At
<1>21. CASE Register(c)
  BY <1>10, <1>21 DEF Register, Owner, At
<1>22. CASE PersistAgent(c)
  BY <1>10, <1>22 DEF PersistAgent, Owner, At
<1>23. CASE FinishCreate(c)
  BY <1>10, <1>23 DEF FinishCreate, Owner, At
<1>24. CASE RunFailed(c)
  <2>1. CASE IsCreate(c) /\ ~Exists(c)
    <3>1. call'[c].stage = "removing" /\ receipt' = receipt /\ Exists(c)' = Exists(c)
      BY <1>3, <1>24, <2>1 DEF RunFailed, Exists
    <3>2. OwnedBy(KeyOf(c), c, "pending")'
      BY <1>9, <1>24, <3>1 DEF RunFailed, Owner, At
    <3> QED BY <1>2, <2>1, <3>1, <3>2 DEF StageFits, Owner, At
  <2> QED BY <1>5, <1>6, <1>24, <2>1 DEF RunFailed
<1>25. CASE RemoveReceipt(c)
  BY <1>5, <1>6, <1>25 DEF RemoveReceipt
<1>26. CASE WriteCompleted(c)
  BY <1>5, <1>6, <1>7, <1>26 DEF WriteCompleted
<1>27. CASE Answer(c)
  BY <1>5, <1>6, <1>27 DEF Answer
<1>28. CASE ReadFails(c) \/ RereadFails(c)
  BY <1>5, <1>6, <1>28 DEF ReadFails, RereadFails
<1> QED
  BY <1>28, <1>11, <1>12, <1>13, <1>14, <1>15, <1>16, <1>17, <1>18, <1>19, <1>20, <1>21,
     <1>22, <1>23, <1>24, <1>25, <1>26, <1>27 DEF CallStep

\* A call's step keeps the invariant.
LEMMA CallStepKeeps ==
  ASSUME IInv, NEW c \in Calls, CallStep(c)
  PROVE  IInv'
<1>1. /\ call \in [Calls -> CallRecord] /\ KeyOf(c) \in Keys /\ StageFits(c)
      /\ receipt \in [Keys -> Receipt \cup {NoReceipt}]
  BY DEF IInv, TypeOK, KeyOf, CallRecord
<1>2. TypeOK'
  <2>1. At(c, "confirming") => call[c].agent \in Calls
    BY <1>1, ReceiptTypes DEF StageFits, OwnedBy, At, IInv
  <2> QED BY <2>1, CallStepTypes DEF IInv
<1>3. call[c].stage \in Running \/ (At(c, "answering") /\ receipt' = receipt /\ call'[c].stage \notin Running)
  <2>1. CASE Answer(c) \/ RereadFails(c)
    <3>1. call'[c].stage \in {"ok", "gone", "error"}
      BY <1>1, <2>1 DEF Answer, RereadFails, Moves, CallRecord
    <3> QED BY <2>1, <3>1 DEF Answer, RereadFails, Running
  <2> QED BY <2>1 DEF CallStep, Running, At, ReadFails, ReadFindsNone, ReadFindsConflict,
             ReadFindsReceipt,
           Recover, Confirm, Prepare, WritePending, RunFails, Submit, SubmitReturns, Register,
           PersistAgent, FinishCreate, RunFailed, RemoveReceipt, WriteCompleted
<1>4. ASSUME NEW d \in Calls \ {c}, call[c].stage \in Running, KeyOf(d) = KeyOf(c)
      PROVE  call[d].stage \notin Running
  BY <1>4 DEF IInv, Exclusive
<1>5. Exclusive'
  <2> SUFFICES ASSUME NEW d \in Calls, call'[d].stage \in Running
               PROVE  executing'[KeyOf(d)] = d
    BY CallStepFrame DEF Exclusive
  <2>1. CASE d = c
    BY <1>3, <2>1, CallStepFrame DEF IInv, Exclusive
  <2>2. CASE d # c /\ KeyOf(d) # KeyOf(c)
    <3>1. KeyOf(d) \in Keys
      BY <1>1 DEF KeyOf, CallRecord
    <3> QED BY <2>2, <3>1, CallStepFrame DEF IInv, Exclusive
  <2>3. CASE d # c /\ KeyOf(d) = KeyOf(c)
    <3>1. call[d].stage \in Running
      BY <2>3, CallStepFrame
    <3>2. At(c, "answering") /\ CallStep(c)
      BY <1>3, <1>4, <2>3, <3>1
    <3>3. executing' = executing
      BY <3>2 DEF CallStep, At, ReadFails, ReadFindsNone, ReadFindsConflict, ReadFindsReceipt,
           Recover, Confirm, Prepare, WritePending, RunFails, Submit, SubmitReturns, Register,
           PersistAgent, FinishCreate, RunFailed, RemoveReceipt, WriteCompleted, RereadFails,
           Answer
    <3> QED BY <3>1, <3>3 DEF IInv, Exclusive
  <2> QED BY <2>1, <2>2, <2>3
<1>6. Chained'
  <2>1. ASSUME NEW k \in Keys, NEW i \in 1..Len(waiting[k])
        PROVE  KeyOf(waiting[k][i])' = k
    <3>1. waiting[k] \in Seq(Calls)
      BY DEF IInv, TypeOK
    <3>2. waiting[k][i] \in Calls
      BY <3>1
    <3> QED BY <3>2, CallStepFrame DEF IInv, Chained, KeyOf
  <2> QED BY <2>1, CallStepFrame DEF Chained, KeyOf
<1>7. SubmitsAreSends'
  <2>1. ASSUME NEW d \in submitted' PROVE d \in submitted \/ (d = c /\ ~IsCreate(c))
    BY <2>1 DEF CallStep, agents, records, ReadFails, ReadFindsNone, ReadFindsConflict,
       ReadFindsReceipt,
           Recover, Confirm, Prepare, WritePending, RunFails, Submit, SubmitReturns, Register,
           PersistAgent, FinishCreate, RunFailed, RemoveReceipt, WriteCompleted, RereadFails,
           Answer
  <2>2. submitted \subseteq Calls
    BY DEF IInv, TypeOK
  <2> QED BY <2>1, <2>2, CallStepFrame DEF IInv, SubmitsAreSends, IsCreate
<1>8. ASSUME NEW d \in Calls PROVE StageFits(d)'
  <2>1. CASE d = c
    BY <2>1, OwnStageFits
  <2>2. CASE d # c /\ call[d].stage \notin Running
    <3>1. call'[d] = call[d] /\ KeyOf(d)' = KeyOf(d)
      BY <2>2, CallStepFrame
    <3> QED BY <2>2, <3>1 DEF StageFits, Running, Owner, At
  <2>3. CASE d # c /\ call[d].stage \in Running
    <3>1. call'[d] = call[d] /\ KeyOf(d)' = KeyOf(d) /\ KeyOf(d) \in Keys
      BY <1>1, <2>3, CallStepFrame DEF KeyOf, CallRecord
    <3>2. receipt'[KeyOf(d)] = receipt[KeyOf(d)]
      <4>1. CASE KeyOf(d) # KeyOf(c)
        BY <3>1, <4>1, CallStepFrame
      <4>2. CASE KeyOf(d) = KeyOf(c)
        BY <1>3, <1>4, <2>3, <4>2
      <4> QED BY <4>1, <4>2
    <3>3. At(d, "removing") => IsCreate(d) /\ ~(Exists(d)')
      BY <2>3, CallStepFrame DEF IInv, StageFits
    <3> QED BY <3>1, <3>2, <3>3 DEF IInv, StageFits, OwnedBy, At, IsCreate
  <2> QED BY <2>1, <2>2, <2>3
<1>9. ASSUME NEW d \in TookEffect' PROVE receipt'[KeyOf(d)'] # NoReceipt /\ receipt'[KeyOf(d)'].by = d
  <2>0. TookEffect \subseteq Calls
    BY DEF TookEffect, IInv, TypeOK
  <2>1. d \in TookEffect \cup {c} /\ d \in Calls /\ KeyOf(d)' = KeyOf(d) /\ KeyOf(d) \in Keys
    BY <1>1, <2>0, CallStepFrame DEF KeyOf, CallRecord
  <2>2. CASE d \in TookEffect
    <3>1. receipt[KeyOf(d)] # NoReceipt /\ receipt[KeyOf(d)].by = d
      BY <2>2 DEF IInv, EffectsOnRecord
    <3>2. CASE receipt' = receipt \/ KeyOf(d) # KeyOf(c)
      BY <2>1, <3>1, <3>2, CallStepFrame
    <3>3. CASE KeyOf(d) = KeyOf(c) /\ At(c, "assigning")
      BY <1>1, <3>1, <3>3 DEF StageFits, At
    <3>4. CASE KeyOf(d) = KeyOf(c) /\ At(c, "confirming") /\ Writes(c, call[c].agent, "completed")
      BY <1>1, <2>1, <3>1, <3>4 DEF StageFits, OwnedBy, At, Writes, NoReceipt
    <3>5. CASE KeyOf(d) = KeyOf(c) /\ At(c, "completing") /\ Writes(c, c, "completed")
      BY <1>1, <2>1, <3>1, <3>5 DEF StageFits, OwnedBy, At, Writes, NoReceipt, Owner
    <3>6. CASE KeyOf(d) = KeyOf(c) /\ At(c, "removing")
      <4>1. d = c
        BY <1>1, <3>1, <3>6 DEF StageFits, OwnedBy, At, Owner
      <4> QED BY <1>1, <2>2, <3>6, <4>1 DEF StageFits, At, Exists, TookEffect, IInv,
               SubmitsAreSends, DiskKnown
    <3> QED BY <3>2, <3>3, <3>4, <3>5, <3>6, ReceiptStep
  <2>3. CASE d \notin TookEffect /\ d = c
    <3>1. call[c].stage \in Owner /\ receipt' = receipt
      BY <2>3 DEF CallStep, agents, records, Stores, TookEffect, At, Owner, ReadFails,
         ReadFindsNone, ReadFindsConflict,
           ReadFindsReceipt, Recover, Confirm, Prepare, WritePending, RunFails, Submit,
           SubmitReturns, Register, PersistAgent, FinishCreate, RunFailed, RemoveReceipt,
           WriteCompleted, RereadFails, Answer
    <3> QED BY <1>1, <2>1, <2>3, <3>1 DEF StageFits, OwnedBy
  <2> QED BY <2>1, <2>2, <2>3
<1>10. EffectsOnRecord'
  BY <1>9 DEF EffectsOnRecord
<1>11. DiskKnown'
  BY DEF CallStep, agents, records, IInv, DiskKnown, Stores, ReadFails, ReadFindsNone,
     ReadFindsConflict, ReadFindsReceipt, Recover, Confirm, Prepare, WritePending, RunFails,
     Submit, SubmitReturns, Register, PersistAgent, FinishCreate, RunFailed, RemoveReceipt,
     WriteCompleted, RereadFails, Answer
<1> QED BY <1>2, <1>5, <1>6, <1>7, <1>8, <1>10, <1>11 DEF IInv

\* Chaining a call and starting the next one.
LEMMA ChainKeeps ==
  ASSUME IInv, (\E c \in Calls : Execute(c)) \/ (\E k \in Keys : StartOnce(k))
  PROVE  IInv'
<1> USE DEF agents, records, faults
<1>0. PICK c \in Calls, s \in {"waiting", "reading"} :
        /\ call' = [call EXCEPT ![c].stage = s]
        /\ UNCHANGED <<receipt, agents, faults>>
        /\ \/ Execute(c) /\ s = "waiting"
           \/ \E k \in Keys : StartOnce(k) /\ c = Head(waiting[k]) /\ KeyOf(c) = k /\ s = "reading"
  <2>1. CASE \E c \in Calls : Execute(c)
    BY <2>1 DEF Execute, Moves
  <2>2. CASE \E k \in Keys : StartOnce(k)
    <3>1. PICK k \in Keys : StartOnce(k)
      BY <2>2
    <3>2. waiting[k] \in Seq(Calls) /\ waiting[k] # <<>>
      BY <3>1 DEF IInv, TypeOK, StartOnce
    <3>3. Head(waiting[k]) \in Calls /\ Head(waiting[k]) = waiting[k][1] /\ 1 \in 1..Len(waiting[k])
      BY <3>2
    <3>4. KeyOf(Head(waiting[k])) = k
      BY <3>3 DEF IInv, Chained
    <3> QED BY <3>1, <3>3, <3>4 DEF StartOnce, Moves
  <2> QED BY <2>1, <2>2
<1>1. /\ call \in [Calls -> CallRecord] /\ call[c] \in CallRecord
      /\ waiting \in [Keys -> Seq(Calls)] /\ KeyOf(c) \in Keys
      /\ executing \in [Keys -> Calls \cup {NoCall}]
  BY DEF IInv, TypeOK, CallRecord, KeyOf
<1>2. /\ \A d \in Calls : KeyOf(d)' = KeyOf(d)
      /\ \A d \in Calls \ {c} : call'[d] = call[d]
      /\ call'[c].stage = s
      /\ call' \in [Calls -> CallRecord]
  <2>1. [call[c] EXCEPT !.stage = s] \in CallRecord
    BY <1>1 DEF CallRecord, Stage, Running
  <2> QED BY <1>0, <1>1, <2>1 DEF KeyOf, CallRecord
<1>3. \A k \in Keys : /\ waiting'[k] \in Seq(Calls)
                      /\ \A i \in 1..Len(waiting'[k]) : KeyOf(waiting'[k][i]) = k
  <2> TAKE k \in Keys
  <2>0. waiting[k] \in Seq(Calls)
    BY <1>1
  <2>1. CASE waiting'[k] = waiting[k]
    BY <2>0, <2>1 DEF IInv, Chained
  <2>2. CASE waiting'[k] = Append(waiting[k], c) /\ KeyOf(c) = k
    BY <2>0, <2>2 DEF IInv, Chained
  <2>3. CASE waiting'[k] = Tail(waiting[k]) /\ waiting[k] # <<>>
    BY <2>0, <2>3 DEF IInv, Chained
  <2>4. CASE Execute(c)
    BY <1>1, <2>1, <2>2, <2>4 DEF Execute
  <2>5. CASE \E j \in Keys : StartOnce(j)
    BY <1>1, <2>1, <2>3, <2>5 DEF StartOnce
  <2> QED BY <1>0, <2>4, <2>5
<1>4. /\ waiting' \in [Keys -> Seq(Calls)]
      /\ executing' \in [Keys -> Calls \cup {NoCall}]
  <2>1. CASE Execute(c)
    BY <1>1, <2>1, ChainTypes DEF Execute
  <2>2. CASE \E j \in Keys : StartOnce(j)
    BY <1>1, <2>2, ChainTypes DEF StartOnce
  <2> QED BY <1>0, <2>1, <2>2
<1>5. TypeOK'
  BY <1>0, <1>2, <1>4 DEF IInv, TypeOK
<1>6. Chained'
  <2>1. ASSUME NEW k \in Keys, NEW i \in 1..Len(waiting'[k]) PROVE call'[waiting'[k][i]].key = k
    <3>1. waiting'[k][i] \in Calls
      BY <1>3
    <3> QED BY <1>2, <1>3, <3>1 DEF KeyOf
  <2> QED BY <2>1 DEF Chained, KeyOf
<1>7. Exclusive'
  <2> SUFFICES ASSUME NEW d \in Calls, call'[d].stage \in Running
               PROVE  executing'[KeyOf(d)] = d
    BY <1>2 DEF Exclusive
  <2>1. CASE Execute(c) /\ s = "waiting"
    <3>1. executing' = executing /\ d # c
      BY <1>2, <2>1 DEF Execute, Running
    <3> QED BY <1>2, <3>1 DEF IInv, Exclusive
  <2>2. CASE StartOnce(KeyOf(c)) /\ c = Head(waiting[KeyOf(c)])
    <3>1. executing' = [executing EXCEPT ![KeyOf(c)] = c] /\ executing[KeyOf(c)] = NoCall
      BY <2>2 DEF StartOnce
    <3>2. d # c => executing[KeyOf(d)] = d /\ KeyOf(d) # KeyOf(c)
      BY <1>2, <3>1, NoCallIsNone DEF IInv, Exclusive
    <3>3. KeyOf(d) \in Keys
      BY <1>1 DEF KeyOf, CallRecord
    <3> QED BY <1>1, <3>1, <3>2, <3>3
  <2> QED BY <1>0, <2>1, <2>2
<1>8. \A d \in Calls : StageFits(d)'
  <2> TAKE d \in Calls
  <2>1. CASE d = c
    BY <1>2, <2>1 DEF StageFits, Owner, At
  <2>2. CASE d # c
    BY <1>0, <1>2, <2>2 DEF IInv, StageFits, OwnedBy, At, IsCreate, Exists
  <2> QED BY <2>1, <2>2
<1>9. EffectsOnRecord' /\ SubmitsAreSends' /\ DiskKnown'
  <2>1. TookEffect \subseteq Calls /\ submitted \subseteq Calls
    BY DEF TookEffect, IInv, TypeOK
  <2> QED BY <1>0, <1>2, <2>1 DEF IInv, EffectsOnRecord, SubmitsAreSends, DiskKnown,
             TookEffect, IsCreate
<1> QED BY <1>5, <1>6, <1>7, <1>8, <1>9 DEF IInv

\* A delete takes agents away; it adds nothing to what is on record.
LEMMA DeleteKeeps ==
  ASSUME IInv, NEW a \in Calls, CloseForDelete(a) \/ RemoveRecord(a)
  PROVE  IInv'
<1> USE DEF records, faults
<1>1. UNCHANGED <<receipt, call, executing, waiting, submitted, created, crashes>>
  BY DEF CloseForDelete, RemoveRecord, DiskFails
<1>2. /\ live' \subseteq live /\ stored' \subseteq stored /\ onDisk' \subseteq onDisk
      /\ deleting' \subseteq deleting \cup {a}
      /\ undeleted \subseteq undeleted' /\ undeleted' \subseteq undeleted \cup {a}
      /\ diskErrors' \in {diskErrors, diskErrors + 1}
  BY DEF CloseForDelete, RemoveRecord, DiskFails
<1>3. TypeOK' /\ Exclusive' /\ Chained' /\ SubmitsAreSends'
  BY <1>1, <1>2 DEF IInv, TypeOK, Exclusive, Chained, SubmitsAreSends, KeyOf, IsCreate
<1>4. \A d \in Calls : StageFits(d)'
  BY <1>1, <1>2 DEF IInv, StageFits, OwnedBy, At, IsCreate, KeyOf, Exists
<1>5. EffectsOnRecord'
  BY <1>1, <1>2 DEF IInv, EffectsOnRecord, TookEffect, KeyOf
<1>6. DiskKnown'
  BY <1>2 DEF IInv, DiskKnown, CloseForDelete, RemoveRecord
<1> QED BY <1>3, <1>4, <1>5, <1>6 DEF IInv

\* A crash ends every running call and leaves the files.
LEMMA CrashKeeps ==
  ASSUME IInv, Crash
  PROVE  IInv'
<1>1. /\ UNCHANGED <<receipt, onDisk, submitted, created, undeleted, diskErrors>>
      /\ live' = {} /\ deleting' = {} /\ stored' = onDisk
      /\ executing' = [k \in Keys |-> NoCall] /\ waiting' = [k \in Keys |-> <<>>]
      /\ crashes' = crashes + 1
  BY DEF Crash
<1>2. call \in [Calls -> CallRecord]
  BY DEF IInv, TypeOK
<1>3. ASSUME NEW c \in Calls
      PROVE  /\ call'[c] \in CallRecord /\ call'[c].stage \notin Running
             /\ KeyOf(c)' = KeyOf(c)
  <2>1. call[c] \in CallRecord
    BY <1>2
  <2>2. CASE call[c].stage \in {"new"} \cup Ended
    <3>1. call'[c] = call[c]
      BY <2>2 DEF Crash
    <3> QED BY <2>1, <2>2, <3>1 DEF Ended, Running, KeyOf
  <2>3. CASE call[c].stage \notin {"new"} \cup Ended
    <3>1. call'[c] = [call[c] EXCEPT !.stage = "lost"]
      BY <2>3 DEF Crash
    <3> QED BY <2>1, <3>1 DEF CallRecord, Stage, Ended, Running, KeyOf
  <2> QED BY <2>2, <2>3
<1>4. call' \in [Calls -> CallRecord]
  <2>1. call' = [c \in Calls |-> call'[c]]
    BY DEF Crash
  <2> QED BY <1>3, <2>1
<1>5. TypeOK'
  BY <1>1, <1>4 DEF IInv, TypeOK
<1>6. Exclusive' /\ Chained' /\ (\A c \in Calls : StageFits(c)')
  BY <1>1, <1>3 DEF Exclusive, Chained, StageFits, Owner, Running, At
<1>7. EffectsOnRecord' /\ SubmitsAreSends' /\ DiskKnown'
  <2>1. submitted \subseteq Calls /\ onDisk \subseteq Calls
    BY DEF IInv, TypeOK
  <2> QED BY <1>1, <1>3, <2>1
        DEF IInv, EffectsOnRecord, SubmitsAreSends, DiskKnown, TookEffect, IsCreate
<1> QED BY <1>5, <1>6, <1>7 DEF IInv

\* The invariant holds in every reachable state.
THEOREM RequestInvariant == Spec => []IInv
<1>1. Init => IInv
  <2> SUFFICES ASSUME Init PROVE IInv
    OBVIOUS
  <2>1. \A c \in Calls : call[c] \in CallRecord /\ At(c, "new")
    BY DEF Init, CallRecord, Stage, At
  <2>2. call \in [Calls -> CallRecord]
    BY <2>1 DEF Init
  <2>3. TypeOK
    BY <2>2 DEF Init, TypeOK
  <2>4. Exclusive /\ Chained /\ (\A c \in Calls : StageFits(c))
    BY <2>1 DEF Init, Exclusive, Chained, StageFits, Owner, Running, At
  <2>5. EffectsOnRecord /\ SubmitsAreSends /\ DiskKnown
    BY DEF Init, EffectsOnRecord, SubmitsAreSends, DiskKnown, TookEffect
  <2> QED BY <2>3, <2>4, <2>5 DEF IInv
<1>2. IInv /\ [Next]_vars => IInv'
  <2> SUFFICES ASSUME IInv, [Next]_vars PROVE IInv'
    OBVIOUS
  <2>1. CASE UNCHANGED vars
    BY <2>1 DEF vars, IInv, TypeOK, Exclusive, Chained, StageFits, OwnedBy, EffectsOnRecord,
           SubmitsAreSends, DiskKnown, TookEffect, Exists, KeyOf, At, IsCreate
  <2> QED BY <2>1, CallStepKeeps, ChainKeeps, DeleteKeeps, CrashKeeps DEF Next
<1> QED BY <1>1, <1>2, PTL DEF Spec

\* Every variable has its type.
THEOREM RequestTypes == Spec => []TypeOK
<1>1. IInv => TypeOK
  BY DEF IInv
<1> QED BY <1>1, RequestInvariant, PTL

\* Whatever is retried, fails or crashes, at most one agent of a creation key
\* exists at a time, but for those whose record file a delete could not remove,
\* and at most one message of a message id was submitted.
THEOREM RequestsOnce == Spec => []OncePerKey
<1>1. IInv => OncePerKey
  BY DEF IInv, EffectsOnRecord, TookEffect, OncePerKey
<1> QED BY <1>1, RequestInvariant, PTL

\* A completed receipt is left alone by every step.
LEMMA CompletedKept ==
  ASSUME IInv, [Next]_vars, NEW k \in Keys, receipt[k].state = "completed"
  PROVE  receipt'[k] = receipt[k]
<1>1. ASSUME NEW c \in Calls, CallStep(c) PROVE receipt'[k] = receipt[k]
  <2>1. StageFits(c) /\ KeyOf(c) \in Keys
    BY DEF IInv, TypeOK, CallRecord, KeyOf
  <2>2. CASE KeyOf(c) # k
    BY <1>1, <2>2, CallStepFrame
  <2>3. CASE KeyOf(c) = k
    <3>1. ~At(c, "confirming") /\ ~At(c, "completing") /\ ~At(c, "removing")
      BY <2>1, <2>3 DEF StageFits, OwnedBy, Owner, At
    <3>2. ~At(c, "assigning")
      BY <2>1, <2>3 DEF StageFits, At, NoReceipt
    <3> QED BY <1>1, <3>1, <3>2, ReceiptStep
  <2> QED BY <2>2, <2>3
<1>2. CASE \E c \in Calls : CallStep(c)
  BY <1>1, <1>2
<1>3. CASE ~(\E c \in Calls : CallStep(c))
  BY <1>3 DEF Next, Execute, StartOnce, CloseForDelete, RemoveRecord, Crash, vars
<1> QED BY <1>2, <1>3

\* No step reopens the key of a completed receipt.
THEOREM CompletedReceiptsStay == Spec => CompletedStays
<1>1. IInv /\ [Next]_vars => [\A k \in Keys : receipt[k].state = "completed" => receipt'[k] = receipt[k]]_vars
  BY CompletedKept
<1> QED BY <1>1, RequestInvariant, PTL DEF Spec, CompletedStays

(***************************************************************************)
(* Answers and stuck keys. An answer is backed by a completed receipt. A   *)
(* pending one has its writer still at work, or a reason: what became of   *)
(* the writer is told by where it stopped and by what it had stored.       *)
(***************************************************************************)
AnswerBacked(c) ==
    call[c].stage \in {"answering", "ok", "gone"} => OwnedBy(KeyOf(c), call[c].agent, "completed")

\* The calls of a chain are there once, and have not begun.
QueueInv ==
    \A k \in Keys :
        /\ \A i \in 1..Len(waiting[k]) : At(waiting[k][i], "waiting")
        /\ \A i, j \in 1..Len(waiting[k]) : waiting[k][i] = waiting[k][j] => i = j

\* An agent is remembered as created from its first record on.
AgentsCreated ==
    /\ stored \subseteq created /\ onDisk \subseteq created
    /\ \A c \in live : At(c, "registering") \/ c \in created
    /\ \A c \in Calls :
          At(c, "persisted") \/ (At(c, "completing") /\ IsCreate(c)) => c \in created
    /\ \A c \in Calls : At(c, "submitted") => ~IsCreate(c)

Accounted(c) ==
    \/ At(c, "lost") \/ At(c, "unfreed")
    \/ At(c, "error") /\ (IsCreate(c) => c \in created)

PendingOwned(k) ==
    receipt[k].state = "pending" =>
        LET c == receipt[k].by IN KeyOf(c) = k /\ (call[c].stage \in Owner \/ Accounted(c))

AnswerInv ==
    /\ \A c \in Calls : AnswerBacked(c)
    /\ QueueInv
    /\ AgentsCreated
    /\ \A k \in Keys : PendingOwned(k)

\* How a call comes to be answered: its receipt was or becomes completed.
LEMMA CallStepAnswers ==
  ASSUME IInv, NEW c \in Calls, CallStep(c), AnswerBacked(c)
  PROVE  AnswerBacked(c)'
<1> USE DEF agents, records, faults
<1>1. /\ call \in [Calls -> CallRecord] /\ call[c] \in CallRecord /\ KeyOf(c) \in Keys
      /\ receipt \in [Keys -> Receipt \cup {NoReceipt}] /\ StageFits(c)
      /\ KeyOf(c)' = KeyOf(c)
  BY CallStepFrame DEF IInv, TypeOK, KeyOf, CallRecord
<1>2. \A s : Moves(c, s) \/ Settles(c, s) => call'[c].stage = s
  BY <1>1 DEF Moves, Settles, CallRecord
<1>3. ASSUME NEW a, Returns(c, a), OwnedBy(KeyOf(c), a, "completed")'
      PROVE  AnswerBacked(c)'
  <2>1. call'[c].agent = a
    BY <1>1, <1>3 DEF Returns, CallRecord
  <2> QED BY <1>3, <2>1 DEF AnswerBacked
<1>4. ASSUME NEW a, Writes(c, a, "completed") PROVE OwnedBy(KeyOf(c), a, "completed")'
  BY <1>1, <1>4 DEF Writes, OwnedBy, NoReceipt
<1>5. ASSUME call'[c].stage \notin {"answering", "ok", "gone"} PROVE AnswerBacked(c)'
  BY <1>5 DEF AnswerBacked
<1>6. CASE ReadFindsReceipt(c)
  <2>1. CASE Finds(c, receipt[KeyOf(c)].by)
    BY <1>1, <1>5, <2>1 DEF Finds, CallRecord
  <2>2. CASE Returns(c, receipt[KeyOf(c)].by) /\ receipt[KeyOf(c)].state = "completed"
    <3>1. PICK a : a = receipt[KeyOf(c)].by
      OBVIOUS
    <3>2. OwnedBy(KeyOf(c), a, "completed")'
      BY <1>1, <1>6, <2>2, <3>1 DEF ReadFindsReceipt, OwnedBy
    <3> QED BY <1>3, <2>2, <3>1, <3>2
  <2> QED BY <1>6, <2>1, <2>2 DEF ReadFindsReceipt
<1>7. CASE Confirm(c)
  <2>1. PICK a : a = call[c].agent
    OBVIOUS
  <2> QED BY <1>2, <1>3, <1>4, <1>5, <1>7, <2>1 DEF Confirm
<1>8. CASE WriteCompleted(c)
  BY <1>2, <1>3, <1>4, <1>5, <1>8 DEF WriteCompleted
<1>9. CASE Answer(c)
  <2>1. call'[c].agent = call[c].agent /\ receipt' = receipt /\ At(c, "answering")
    BY <1>1, <1>9 DEF Answer, Moves, CallRecord
  <2> QED BY <1>1, <2>1 DEF AnswerBacked, OwnedBy, At
<1>10. CASE ~(ReadFindsReceipt(c) \/ Confirm(c) \/ WriteCompleted(c) \/ Answer(c))
  BY <1>2, <1>5, <1>10 DEF CallStep, ReadFails, ReadFindsNone, ReadFindsConflict, Recover,
     Prepare,
         WritePending, RunFails, Submit, SubmitReturns, Register, PersistAgent, FinishCreate,
         RunFailed, RemoveReceipt, RereadFails
<1> QED BY <1>6, <1>7, <1>8, <1>9, <1>10

\* What any step does to a call that it is not about.
LEMMA OthersAnswers ==
  ASSUME IInv, [Next]_vars, NEW c \in Calls, AnswerBacked(c),
         call'[c].stage \in {"answering", "ok", "gone"} => call'[c] = call[c]
  PROVE  AnswerBacked(c)'
<1>1. KeyOf(c) \in Keys
  BY DEF IInv, TypeOK, CallRecord, KeyOf
<1> QED BY <1>1, CompletedKept DEF AnswerBacked, OwnedBy, KeyOf

\* Every answer stays backed.
LEMMA AnswersKept ==
  ASSUME IInv, [Next]_vars, \A c \in Calls : AnswerBacked(c)
  PROVE  \A c \in Calls : AnswerBacked(c)'
<1> TAKE c \in Calls
<1>1. call \in [Calls -> CallRecord]
  BY DEF IInv, TypeOK
<1>2. CASE CallStep(c)
  BY <1>2, CallStepAnswers
<1>3. ASSUME NEW d \in Calls \ {c}, CallStep(d) PROVE AnswerBacked(c)'
  BY <1>3, CallStepFrame, OthersAnswers
<1>4. CASE \E d \in Calls : Execute(d)
  <2>1. call'[c].stage = "waiting" \/ call'[c] = call[c]
    BY <1>1, <1>4 DEF Execute, Moves, CallRecord
  <2> QED BY <2>1, OthersAnswers
<1>5. CASE \E k \in Keys : StartOnce(k)
  <2>1. call'[c].stage = "reading" \/ call'[c] = call[c]
    BY <1>1, <1>5 DEF StartOnce, Moves, CallRecord
  <2> QED BY <2>1, OthersAnswers
<1>6. CASE Crash
  <2>1. call'[c].stage = "lost" \/ call'[c] = call[c]
    BY <1>1, <1>6 DEF Crash, CallRecord
  <2> QED BY <2>1, OthersAnswers
<1>7. CASE call' = call
  BY <1>7, OthersAnswers
<1> QED
  BY <1>2, <1>3, <1>4, <1>5, <1>6, <1>7 DEF Next, vars, CloseForDelete, RemoveRecord

\* A call that takes a step of its own is neither new, nor chained, nor ended.
LEMMA CallStepActs ==
  ASSUME NEW c \in Calls, CallStep(c)
  PROVE  call[c].stage \in Running \cup {"answering"}
BY DEF CallStep, Running, At, ReadFails, ReadFindsNone, ReadFindsConflict, ReadFindsReceipt,
   Recover, Confirm,
       Prepare, WritePending, RunFails, Submit, SubmitReturns, Register, PersistAgent,
       FinishCreate, RunFailed, RemoveReceipt, WriteCompleted, RereadFails, Answer

\* A call enters its chain once, when it comes, and leaves it when it starts.
LEMMA QueueKept ==
  ASSUME IInv, QueueInv, [Next]_vars
  PROVE  QueueInv'
<1>1. /\ call \in [Calls -> CallRecord] /\ waiting \in [Keys -> Seq(Calls)]
      /\ \A c \in Calls : KeyOf(c) \in Keys
  BY DEF IInv, TypeOK, CallRecord, KeyOf
<1>2. ASSUME NEW k \in Keys, NEW i \in 1..Len(waiting[k])
      PROVE  /\ waiting[k][i] \in Calls /\ KeyOf(waiting[k][i]) = k
             /\ At(waiting[k][i], "waiting")
  BY <1>1, <1>2 DEF IInv, Chained, QueueInv
<1>3. ASSUME waiting' = waiting,
             \A c \in Calls : At(c, "waiting") => call'[c] = call[c]
      PROVE  QueueInv'
  BY <1>2, <1>3 DEF QueueInv, At
<1>4. CASE \E c \in Calls : CallStep(c)
  <2>1. PICK c \in Calls : CallStep(c)
    BY <1>4
  <2>2. ~At(c, "waiting")
    BY <2>1, CallStepActs DEF At, Running
  <2> QED BY <1>3, <2>1, <2>2, CallStepFrame
<1>5. CASE \E c \in Calls : Execute(c)
  <2>1. PICK c \in Calls : Execute(c)
    BY <1>5
  <2>2. /\ At(c, "new") /\ call' = [call EXCEPT ![c].stage = "waiting"]
        /\ waiting' = [waiting EXCEPT ![KeyOf(c)] = Append(@, c)]
    BY <2>1 DEF Execute, Moves
  <2>3. call'[c].stage = "waiting" /\ \A d \in Calls \ {c} : call'[d] = call[d]
    BY <1>1, <2>2 DEF CallRecord
  <2>4. \A k \in Keys : \A i \in 1..Len(waiting[k]) : waiting[k][i] # c
    BY <1>2, <2>2 DEF At
  <2>5. ASSUME NEW k \in Keys
        PROVE  /\ \A i \in 1..Len(waiting'[k]) : call'[waiting'[k][i]].stage = "waiting"
               /\ \A i, j \in 1..Len(waiting'[k]) : waiting'[k][i] = waiting'[k][j] => i = j
    <3>1. CASE k # KeyOf(c)
      <4>1. waiting'[k] = waiting[k]
        BY <1>1, <2>2, <3>1
      <4> QED BY <1>2, <2>3, <4>1 DEF QueueInv, At
    <3>2. CASE k = KeyOf(c)
      <4>1. /\ Len(waiting'[k]) = Len(waiting[k]) + 1 /\ Len(waiting[k]) \in Nat
            /\ waiting'[k][Len(waiting[k]) + 1] = c
            /\ \A i \in 1..Len(waiting[k]) : waiting'[k][i] = waiting[k][i]
        <5>1. waiting'[k] = Append(waiting[k], c) /\ waiting[k] \in Seq(Calls)
          BY <1>1, <2>2, <3>2
        <5> QED BY <5>1
      <4>2. \A i \in 1..Len(waiting[k]) : call'[waiting[k][i]].stage = "waiting"
        BY <1>2, <2>3 DEF At
      <4>3. \A i \in 1..Len(waiting'[k]) : i \in 1..Len(waiting[k]) \/ i = Len(waiting[k]) + 1
        BY <4>1
      <4>4. \A i \in 1..Len(waiting'[k]) : call'[waiting'[k][i]].stage = "waiting"
        BY <2>3, <4>1, <4>2, <4>3
      <4>5. ASSUME NEW i \in 1..Len(waiting'[k]), NEW j \in 1..Len(waiting'[k]),
                   waiting'[k][i] = waiting'[k][j]
            PROVE  i = j
        <5>1. CASE i \in 1..Len(waiting[k]) /\ j \in 1..Len(waiting[k])
          BY <4>1, <4>5, <5>1 DEF QueueInv
        <5> QED BY <2>4, <4>1, <4>3, <4>5, <5>1
      <4> QED BY <4>4, <4>5
    <3> QED BY <3>1, <3>2
  <2> QED BY <2>5 DEF QueueInv, At
<1>6. CASE \E k \in Keys : StartOnce(k)
  <2>1. PICK h \in Keys : StartOnce(h)
    BY <1>6
  <2>2. /\ waiting[h] \in Seq(Calls) /\ waiting[h] # <<>>
        /\ waiting' = [waiting EXCEPT ![h] = Tail(@)]
        /\ call' = [call EXCEPT ![Head(waiting[h])].stage = "reading"]
    BY <1>1, <2>1 DEF StartOnce, Moves
  <2>3. Head(waiting[h]) = waiting[h][1] /\ 1 \in 1..Len(waiting[h])
    BY <2>2
  <2>4. \A d \in Calls : d # waiting[h][1] => call'[d] = call[d]
    BY <1>1, <2>2, <2>3
  <2>5. ASSUME NEW k \in Keys
        PROVE  /\ \A i \in 1..Len(waiting'[k]) : call'[waiting'[k][i]].stage = "waiting"
               /\ \A i, j \in 1..Len(waiting'[k]) : waiting'[k][i] = waiting'[k][j] => i = j
    <3>1. CASE k # h
      <4>1. waiting'[k] = waiting[k]
        BY <1>1, <2>2, <3>1
      <4>2. \A i \in 1..Len(waiting[k]) : waiting[k][i] # waiting[h][1]
        BY <1>2, <2>3, <3>1
      <4> QED BY <1>2, <2>4, <4>1, <4>2 DEF QueueInv, At
    <3>2. CASE k = h
      <4>1. /\ Len(waiting'[k]) = Len(waiting[k]) - 1 /\ Len(waiting[k]) \in Nat
            /\ \A i \in 1..Len(waiting'[k]) : /\ waiting'[k][i] = waiting[k][i + 1]
                                              /\ i + 1 \in 1..Len(waiting[k])
        <5>1. waiting'[k] = Tail(waiting[k]) /\ waiting[k] \in Seq(Calls) /\ waiting[k] # <<>>
          BY <1>1, <2>2, <3>2
        <5> QED BY <5>1
      <4>2. \A i \in 1..Len(waiting'[k]) : i + 1 # 1
        BY <4>1
      <4>3. \A i \in 1..Len(waiting'[k]) : waiting[k][i + 1] # waiting[h][1]
        BY <2>3, <3>2, <4>1, <4>2 DEF QueueInv
      <4>4. \A i, j \in 1..Len(waiting'[k]) : waiting'[k][i] = waiting'[k][j] => i + 1 = j + 1
        BY <4>1 DEF QueueInv
      <4>5. \A i \in 1..Len(waiting'[k]) : call'[waiting'[k][i]].stage = "waiting"
        <5>1. SUFFICES ASSUME NEW i \in 1..Len(waiting'[k])
                       PROVE  call'[waiting'[k][i]].stage = "waiting"
          OBVIOUS
        <5>2. /\ waiting'[k][i] = waiting[k][i + 1] /\ i + 1 \in 1..Len(waiting[k])
              /\ waiting[k][i + 1] # waiting[h][1]
          BY <4>1, <4>3
        <5>3. /\ waiting[k][i + 1] \in Calls
              /\ call[waiting[k][i + 1]].stage = "waiting"
          BY <1>2, <5>2 DEF At
        <5> QED BY <2>4, <5>2, <5>3
      <4>6. \A i, j \in 1..Len(waiting'[k]) : waiting'[k][i] = waiting'[k][j] => i = j
        BY <4>1, <4>4
      <4> QED BY <4>5, <4>6
    <3> QED BY <3>1, <3>2
  <2> QED BY <2>5 DEF QueueInv, At
<1>7. CASE Crash
  BY <1>7 DEF Crash, QueueInv
<1>8. CASE call' = call /\ waiting' = waiting
  BY <1>3, <1>8
<1> QED
  BY <1>4, <1>5, <1>6, <1>7, <1>8 DEF Next, vars, CloseForDelete, RemoveRecord

\* A call is of one key for good.
LEMMA KeyStays ==
  ASSUME IInv, [Next]_vars, NEW c \in Calls
  PROVE  KeyOf(c)' = KeyOf(c)
<1>0. call \in [Calls -> CallRecord]
  BY DEF IInv, TypeOK
<1>1. ASSUME NEW d \in Calls, CallStep(d) PROVE KeyOf(c)' = KeyOf(c)
  BY <1>1, CallStepFrame
<1>2. CASE Crash
  BY <1>0, <1>2 DEF Crash, KeyOf, CallRecord
<1>3. CASE (\E d \in Calls : Execute(d)) \/ (\E k \in Keys : StartOnce(k))
  <2>1. PICK d, s : call' = [call EXCEPT ![d].stage = s]
    BY <1>3 DEF Execute, StartOnce, Moves
  <2>2. call[c] \in CallRecord
    BY <1>0
  <2> QED BY <1>0, <2>1, <2>2 DEF KeyOf, CallRecord
<1>4. CASE call' = call
  BY <1>4 DEF KeyOf
<1> QED BY <1>1, <1>2, <1>3, <1>4 DEF Next, vars, CloseForDelete, RemoveRecord

\* A live agent that has no record yet is being registered.
LEMMA CreatedKept ==
  ASSUME IInv, QueueInv, AgentsCreated, [Next]_vars
  PROVE  AgentsCreated'
<1> USE DEF agents, records, faults
<1>1. /\ call \in [Calls -> CallRecord] /\ live \subseteq Calls
      /\ waiting \in [Keys -> Seq(Calls)]
  BY DEF IInv, TypeOK
<1>k. \A c \in Calls : IsCreate(c)' = IsCreate(c)
  BY KeyStays DEF IsCreate
<1>2. ASSUME NEW c \in Calls, NEW s, call' = [call EXCEPT ![c].stage = s]
      PROVE  call'[c].stage = s /\ \A d \in Calls \ {c} : call'[d] = call[d]
  BY <1>1, <1>2 DEF CallRecord
<1>3. ASSUME NEW c \in Calls, CallStep(c),
             ~Register(c), ~PersistAgent(c), ~FinishCreate(c)
      PROVE  AgentsCreated'
  <2>1. ~At(c, "registering") /\ ~At(c, "persisted") /\ UNCHANGED <<live, stored, onDisk, created>>
    BY <1>3 DEF CallStep, At, ReadFails, ReadFindsNone, ReadFindsConflict, ReadFindsReceipt,
       Recover, Confirm,
       Prepare, WritePending, RunFails, Submit, SubmitReturns, RunFailed, RemoveReceipt,
       WriteCompleted, RereadFails, Answer
  <2>2. /\ call'[c].stage \notin {"persisted", "submitted"} \/ Submit(c)
        /\ call'[c].stage = "completing" => At(c, "submitted")
        /\ Submit(c) => call'[c].stage = "submitted" /\ ~IsCreate(c)
    <3>1. /\ \A s : Moves(c, s) \/ Settles(c, s) => call'[c].stage = s
          /\ \A a : Returns(c, a) => call'[c].stage = "answering"
          /\ \A a : Finds(c, a) => call'[c].stage = "recovering"
      BY <1>1 DEF Moves, Settles, Returns, Finds, CallRecord
    <3> QED BY <1>3, <3>1 DEF CallStep, At, ReadFails, ReadFindsNone, ReadFindsConflict,
               ReadFindsReceipt,
       Recover, Confirm, Prepare, WritePending, RunFails, Submit, SubmitReturns, RunFailed,
       RemoveReceipt, WriteCompleted, RereadFails, Answer
  <2> QED BY <1>1, <1>k, <1>3, <2>1, <2>2, CallStepFrame DEF AgentsCreated, At
<1>4. ASSUME NEW c \in Calls, Register(c) \/ PersistAgent(c) \/ FinishCreate(c)
      PROVE  AgentsCreated'
  <2>1. PICK s : call' = [call EXCEPT ![c].stage = s]
    BY <1>4 DEF Register, PersistAgent, FinishCreate, Moves
  <2>2. call'[c].stage = s /\ \A d \in Calls \ {c} : call'[d] = call[d]
    BY <1>2, <2>1
  <2>3. CASE Register(c)
    <3>1. call'[c].stage = "registering" /\ live' = live \cup {c} /\ UNCHANGED <<stored, onDisk, created>>
      BY <1>2, <2>3 DEF Register, Moves
    <3> QED BY <1>1, <1>k, <2>2, <3>1 DEF AgentsCreated, At
  <2>4. CASE PersistAgent(c)
    <3>1. \/ Stores(c) /\ live' \subseteq live /\ call'[c].stage \in {"persisted", "failed"}
          \/ created' = created /\ UNCHANGED records /\ live' = live \ {c}
             /\ call'[c].stage = "failed"
      BY <1>2, <2>4 DEF PersistAgent, Moves
    <3> QED BY <1>1, <1>k, <2>2, <3>1 DEF AgentsCreated, At, Stores
  <2>5. CASE FinishCreate(c)
    <3>1. /\ call'[c].stage \in {"completing", "failed"} /\ At(c, "persisted")
          /\ live' \subseteq live /\ UNCHANGED <<stored, onDisk, created>>
      BY <1>2, <2>5 DEF FinishCreate, Moves
    <3> QED BY <1>1, <1>k, <2>2, <3>1 DEF AgentsCreated, At
  <2> QED BY <1>4, <2>3, <2>4, <2>5
<1>5. CASE \E c \in Calls : Execute(c)
  <2>1. PICK c \in Calls : Execute(c)
    BY <1>5
  <2>2. /\ At(c, "new") /\ call'[c].stage = "waiting"
        /\ \A d \in Calls \ {c} : call'[d] = call[d]
        /\ UNCHANGED <<live, stored, onDisk, created>>
    BY <1>2, <2>1 DEF Execute, Moves
  <2> QED BY <1>1, <1>k, <2>2 DEF AgentsCreated, At
<1>6. ASSUME NEW k \in Keys, StartOnce(k) PROVE AgentsCreated'
  <2>1. waiting[k] \in Seq(Calls) /\ waiting[k] # <<>>
    BY <1>1, <1>6 DEF StartOnce
  <2>2. PICK c \in Calls : c = Head(waiting[k]) /\ c = waiting[k][1] /\ 1 \in 1..Len(waiting[k])
    BY <2>1
  <2>3. At(c, "waiting")
    BY <1>6, <2>2 DEF QueueInv
  <2>4. /\ call'[c].stage = "reading" /\ \A d \in Calls \ {c} : call'[d] = call[d]
        /\ UNCHANGED <<live, stored, onDisk, created>>
    BY <1>2, <1>6, <2>2 DEF StartOnce, Moves
  <2> QED BY <1>1, <1>k, <2>3, <2>4 DEF AgentsCreated, At
<1>7. CASE Crash
  <2>1. \A c \in Calls : call'[c] = call[c] \/ call'[c].stage = "lost"
    BY <1>1, <1>7 DEF Crash, CallRecord
  <2> QED BY <1>k, <1>7, <2>1 DEF Crash, AgentsCreated, At
<1>8. ASSUME NEW a \in Calls, CloseForDelete(a) \/ RemoveRecord(a) PROVE AgentsCreated'
  BY <1>k, <1>8 DEF CloseForDelete, RemoveRecord, AgentsCreated, At
<1>9. CASE UNCHANGED vars
  BY <1>k, <1>9 DEF vars, AgentsCreated, At
<1> QED BY <1>3, <1>4, <1>5, <1>6, <1>7, <1>8, <1>9 DEF Next

\* A step of a receipt's writer leaves it at work or accounts for it.
LEMMA WriterStep ==
  ASSUME IInv, AgentsCreated, NEW c \in Calls, CallStep(c),
         receipt'[KeyOf(c)].state = "pending",
         call[c].stage \in Owner \cup {"assigning"}
  PROVE  call'[c].stage \in Owner \/ Accounted(c)'
<1> USE DEF agents, records, faults
<1>1. /\ call \in [Calls -> CallRecord] /\ call[c] \in CallRecord /\ KeyOf(c) \in Keys
      /\ receipt \in [Keys -> Receipt \cup {NoReceipt}] /\ KeyOf(c)' = KeyOf(c)
      /\ StageFits(c) /\ diskErrors \in Nat
  BY CallStepFrame DEF IInv, TypeOK, KeyOf, CallRecord
<1>2. \A s : Moves(c, s) => call'[c].stage = s
  BY <1>1 DEF Moves, CallRecord
<1>3. \A s : Settles(c, s) => call'[c].stage = s
  BY <1>1 DEF Settles, Moves, CallRecord
<1>4. ASSUME NEW s \in Owner, Moves(c, s) PROVE call'[c].stage \in Owner
  BY <1>2, <1>4
<1>5. CASE WritePending(c)
  <2>1. receipt[KeyOf(c)].state # "pending"
    BY <1>1, <1>5 DEF WritePending, StageFits, At, NoReceipt
  <2> QED BY <1>1, <1>4, <1>5, <2>1 DEF WritePending, Owner
<1>6. CASE RunFails(c) \/ Submit(c) \/ SubmitReturns(c) \/ Register(c)
           \/ PersistAgent(c) \/ FinishCreate(c)
  BY <1>4, <1>6 DEF RunFails, Submit, SubmitReturns, Register, PersistAgent, FinishCreate, Owner
<1>7. CASE RunFailed(c)
  <2>1. CASE IsCreate(c) /\ ~Exists(c)
    BY <1>4, <1>7, <2>1 DEF RunFailed, Owner
  <2>2. CASE IsCreate(c) /\ Exists(c)
    <3>1. c \in created /\ created' = created
      BY <1>7, <2>2 DEF RunFailed, AgentsCreated, Exists, At
    <3> QED BY <1>3, <1>7, <2>2, <3>1 DEF RunFailed, At, Accounted
  <2>3. CASE ~IsCreate(c)
    BY <1>1, <1>3, <1>7, <2>3 DEF RunFailed, IsCreate, At, Accounted
  <2> QED BY <2>1, <2>2, <2>3
<1>8. CASE RemoveReceipt(c)
  <2>1. CASE receipt' = [receipt EXCEPT ![KeyOf(c)] = NoReceipt]
    BY <1>1, <2>1 DEF NoReceipt
  <2>2. CASE Settles(c, "unfreed")
    BY <1>3, <2>2 DEF At, Accounted
  <2> QED BY <1>8, <2>1, <2>2 DEF RemoveReceipt
<1>9. CASE WriteCompleted(c)
  <2>1. CASE Writes(c, c, "completed")
    BY <1>1, <2>1 DEF Writes
  <2>2. CASE Settles(c, "error")
    <3>1. (IsCreate(c) => c \in created) /\ created' = created
      BY <1>9 DEF WriteCompleted, AgentsCreated
    <3> QED BY <1>1, <1>3, <2>2, <3>1 DEF At, IsCreate, Accounted
  <2> QED BY <1>9, <2>1, <2>2 DEF WriteCompleted
<1> QED
  BY <1>5, <1>6, <1>7, <1>8, <1>9 DEF CallStep, Owner, At, ReadFails, ReadFindsNone,
     ReadFindsConflict, ReadFindsReceipt, Recover, Confirm, Prepare, RereadFails, Answer

\* An account of a call stays.
LEMMA AccountStays ==
  ASSUME IInv, QueueInv, [Next]_vars, NEW c \in Calls
  PROVE  /\ KeyOf(c)' = KeyOf(c)
         /\ Accounted(c) => Accounted(c)'
<1> USE DEF agents, records, faults
<1>1. /\ call \in [Calls -> CallRecord] /\ diskErrors \in Nat
      /\ waiting \in [Keys -> Seq(Calls)]
  BY DEF IInv, TypeOK
<1>2. KeyOf(c)' = KeyOf(c)
  BY KeyStays
<1>3. created \subseteq created'
  BY DEF Next, vars, Execute, StartOnce, CloseForDelete, RemoveRecord, Crash, CallStep, Stores,
     ReadFails, ReadFindsNone, ReadFindsConflict, ReadFindsReceipt, Recover, Confirm, Prepare,
     WritePending,
     RunFails, Submit, SubmitReturns, Register, PersistAgent, FinishCreate, RunFailed,
     RemoveReceipt, WriteCompleted, RereadFails, Answer
<1>4. ASSUME NEW s \in {"lost", "unfreed", "error"}, At(c, s) PROVE At(c, s)'
  <2> SUFFICES call'[c].stage = s
    BY DEF At
  <2>1. ASSUME NEW d \in Calls, CallStep(d) PROVE call'[c] = call[c]
    BY <1>4, <2>1, CallStepActs, CallStepFrame DEF At, Running, Ended
  <2>2. CASE Crash
    BY <1>1, <1>4, <2>2 DEF Crash, At, Ended
  <2>3. ASSUME NEW d \in Calls, Execute(d) PROVE call'[c] = call[c]
    BY <1>1, <1>4, <2>3 DEF Execute, Moves, At
  <2>4. ASSUME NEW k \in Keys, StartOnce(k) PROVE call'[c] = call[c]
    <3>1. waiting[k] \in Seq(Calls) /\ waiting[k] # <<>>
      BY <1>1, <2>4 DEF StartOnce
    <3>2. At(Head(waiting[k]), "waiting")
      BY <3>1 DEF QueueInv
    <3> QED BY <1>1, <1>4, <2>4, <3>2 DEF StartOnce, Moves, At
  <2>5. CASE call' = call
    BY <1>4, <2>5 DEF At
  <2> QED BY <1>4, <2>1, <2>2, <2>3, <2>4, <2>5 DEF Next, vars, CloseForDelete, RemoveRecord, At
<1> QED BY <1>2, <1>3, <1>4 DEF Accounted, IsCreate

\* The writer of a pending receipt stays at work or accounted for.
LEMMA PendingKept ==
  ASSUME IInv, AnswerInv, [Next]_vars, NEW k \in Keys
  PROVE  PendingOwned(k)'
<1> USE DEF agents, records, faults
<1> SUFFICES ASSUME receipt'[k].state = "pending"
             PROVE  PendingOwned(k)'
  BY DEF PendingOwned
<1>1. /\ call \in [Calls -> CallRecord] /\ waiting \in [Keys -> Seq(Calls)]
      /\ receipt \in [Keys -> Receipt \cup {NoReceipt}]
  BY DEF IInv, TypeOK
<1>2. ASSUME receipt'[k] = receipt[k],
             call[receipt[k].by].stage \in Owner =>
               \/ call'[receipt[k].by].stage \in Owner
               \/ \A b \in Calls : b = receipt[k].by => Accounted(b)'
      PROVE  PendingOwned(k)'
  <2>1. PICK b \in Calls : b = receipt[k].by
    BY <1>1, <1>2 DEF Receipt, NoReceipt
  <2>2. KeyOf(b) = k /\ (call[b].stage \in Owner \/ Accounted(b))
    BY <1>2, <2>1 DEF AnswerInv, PendingOwned
  <2>3. KeyOf(b)' = k /\ (call'[b].stage \in Owner \/ Accounted(b)')
    BY <1>2, <2>1, <2>2, AccountStays DEF AnswerInv
  <2> QED BY <1>2, <2>1, <2>3 DEF PendingOwned
<1>3. ASSUME NEW c \in Calls, CallStep(c) PROVE PendingOwned(k)'
  <2>1. KeyOf(c) \in Keys /\ KeyOf(c)' = KeyOf(c)
    BY <1>1, <1>3, CallStepFrame DEF KeyOf, CallRecord
  <2>2. CASE receipt'[k] = receipt[k]
    <3>1. PICK b \in Calls : b = receipt[k].by
      BY <1>1, <2>2 DEF Receipt, NoReceipt
    <3>2. CASE b # c
      BY <1>2, <1>3, <2>2, <3>1, <3>2, CallStepFrame
    <3>3. CASE b = c
      <4>1. KeyOf(c) = k
        BY <2>2, <3>1, <3>3 DEF AnswerInv, PendingOwned
      <4> QED BY <1>2, <1>3, <2>2, <3>1, <3>3, <4>1, WriterStep DEF AnswerInv
    <3> QED BY <3>2, <3>3
  <2>3. CASE receipt'[k] # receipt[k]
    <3>1. KeyOf(c) = k /\ At(c, "assigning") /\ Writes(c, c, "pending")
      BY <1>1, <1>3, <2>1, <2>3, CallStepFrame, ReceiptStep DEF Writes, NoReceipt
    <3>2. receipt'[k].by = c
      BY <1>1, <3>1 DEF Writes
    <3>3. call'[c].stage \in Owner \/ Accounted(c)'
      BY <1>3, <3>1, WriterStep DEF AnswerInv, At
    <3> QED BY <2>1, <3>1, <3>2, <3>3 DEF PendingOwned
  <2> QED BY <2>2, <2>3
<1>4. ASSUME NEW c \in Calls, Execute(c) PROVE PendingOwned(k)'
  <2>1. receipt' = receipt /\ \A b \in Calls : call[b].stage \in Owner => call'[b] = call[b]
    BY <1>1, <1>4 DEF Execute, Moves, At, Owner
  <2>2. receipt[k].by \in Calls
    BY <1>1, <2>1 DEF Receipt, NoReceipt
  <2> QED BY <1>2, <2>1, <2>2
<1>5. ASSUME NEW h \in Keys, StartOnce(h) PROVE PendingOwned(k)'
  <2>1. waiting[h] \in Seq(Calls) /\ waiting[h] # <<>>
    BY <1>1, <1>5 DEF StartOnce
  <2>2. At(Head(waiting[h]), "waiting")
    BY <2>1 DEF AnswerInv, QueueInv
  <2>3. receipt' = receipt /\ \A b \in Calls : call[b].stage \in Owner => call'[b] = call[b]
    BY <1>1, <1>5, <2>2 DEF StartOnce, Moves, At, Owner
  <2>4. receipt[k].by \in Calls
    BY <1>1, <2>3 DEF Receipt, NoReceipt
  <2> QED BY <1>2, <2>3, <2>4
<1>6. CASE Crash
  <2>1. /\ receipt' = receipt
        /\ \A b \in Calls : call[b].stage \in Owner => call'[b].stage = "lost"
    BY <1>1, <1>6 DEF Crash, Owner, Ended, CallRecord
  <2>2. receipt[k].by \in Calls
    BY <1>1, <2>1 DEF Receipt, NoReceipt
  <2> QED BY <1>2, <2>1, <2>2 DEF Accounted, At
<1>7. CASE receipt' = receipt /\ call' = call
  BY <1>2, <1>7
<1> QED
  BY <1>3, <1>4, <1>5, <1>6, <1>7 DEF Next, vars, CloseForDelete, RemoveRecord

\* The answers, the chains and the accounts hold in every reachable state.
LEMMA AnswerInvariant == Spec => [](IInv /\ AnswerInv)
<1>1. Init => AnswerInv
  BY DEF Init, AnswerInv, AnswerBacked, QueueInv, AgentsCreated, PendingOwned, At, NoReceipt
<1>2. IInv /\ AnswerInv /\ [Next]_vars => AnswerInv'
  BY AnswersKept, QueueKept, CreatedKept, PendingKept DEF AnswerInv
<1> QED BY <1>1, <1>2, RequestInvariant, PTL DEF Spec

\* All answers to one creation key name one agent.
THEOREM AnswersOfAKeyAgree == Spec => []AnswersAgree
<1>1. IInv /\ AnswerInv => AnswersAgree
  BY DEF AnswerInv, AnswerBacked, OwnedBy, AnswersAgree, At
<1> QED BY <1>1, AnswerInvariant, PTL

\* A key that nobody works on is blocked by a pending receipt only where its
\* writer was cut off by a crash, failed to remove it, or was refused with an
\* error; a creation that was refused had stored an agent.
THEOREM StuckKeysAreAccounted == Spec => []StuckForAReason
<1>1. IInv /\ AnswerInv => StuckForAReason
  <2> SUFFICES ASSUME IInv, AnswerInv, NEW k \in Keys,
                      executing[k] = NoCall, receipt[k].state = "pending"
               PROVE  Accounted(receipt[k].by)
    BY DEF StuckForAReason, Accounted
  <2>1. receipt[k].by \in Calls
    BY DEF IInv, TypeOK, Receipt, NoReceipt
  <2>2. call[receipt[k].by].stage \notin Owner
    BY <2>1, NoCallIsNone DEF AnswerInv, PendingOwned, IInv, Exclusive, Owner, Running
  <2> QED BY <2>2 DEF AnswerInv, PendingOwned
<1> QED BY <1>1, AnswerInvariant, PTL
=============================================================================
