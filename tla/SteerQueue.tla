----------------------------- MODULE SteerQueue -----------------------------
(***************************************************************************)
(* The pure half of the steer queue: steer-queue-state.ts.  A queue is a   *)
(* sequence of entries; an entry is known by its id and by its source, the *)
(* person (user) or Otto itself (system).                                  *)
(***************************************************************************)
EXTENDS Integers, Sequences, FiniteSets

CONSTANTS Entries,        \* ids of the messages that may be parked
          SystemEntries   \* those whose source is "system"

ASSUME SystemEntriesAssumption == SystemEntries \subseteq Entries

\* Only two neighbours that a person typed may share a turn.
canMerge(a, b) == a \notin SystemEntries /\ b \notin SystemEntries

\* The number of entries the next batch takes off a non-empty queue: the head
\* and every entry reached from it through neighbours that may merge.
BatchSize(queue) ==
  Cardinality({i \in 1 .. Len(queue) :
                 \A j \in 1 .. i - 1 : canMerge(queue[j], queue[j + 1])})

\* Mutant: the last entry taken stays queued.
TakeOffByOne(queue) ==
  [entries |-> SubSeq(queue, 1, BatchSize(queue)),
   rest    |-> SubSeq(queue, BatchSize(queue), Len(queue))]

\* takeNextSteerQueueBatch: the head and what may merge with it, and the rest.
takeNextSteerQueueBatch(queue) ==
  [entries |-> SubSeq(queue, 1, BatchSize(queue)),
   rest    |-> SubSeq(queue, BatchSize(queue) + 1, Len(queue))]

IndexOf(seq, x) == CHOOSE i \in DOMAIN seq : seq[i] = x

\* Ids are unique, so dropping an entry drops one position.
Without(seq, x) ==
  LET i == IndexOf(seq, x) IN SubSeq(seq, 1, i - 1) \o SubSeq(seq, i + 1, Len(seq))

\* moveSteerQueueEntry: the target index (0-based in the code, 1-based here)
\* is clamped, and the other entries keep their order.
moveSteerQueueEntry(queue, entry, toIndex) ==
  LET target == IF toIndex < 1 THEN 1
                ELSE IF toIndex > Len(queue) THEN Len(queue) ELSE toIndex
      others == Without(queue, entry)
  IN  SubSeq(others, 1, target - 1) \o <<entry>> \o SubSeq(others, target, Len(others))
=============================================================================
