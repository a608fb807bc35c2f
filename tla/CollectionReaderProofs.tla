----------------------- MODULE CollectionReaderProofs -----------------------
(***************************************************************************)
(* For every set of ids, every set of values and every number of kept      *)
(* tombstones: an answer brings its reader to exactly the present values.  *)
(*                                                                         *)
(* AnswerIsExact is not inductive: it says nothing of the numbers a later  *)
(* step compares.  Heard is the strengthening.  It says of a cursor that   *)
(* has not expired that the reader holds the present value of every id     *)
(* whose number the cursor covers.  A trimmed tombstone has number 0, which*)
(* every cursor covers: Heard survives the trimming only because the       *)
(* trimmed number expires every cursor below it.                           *)
(***************************************************************************)
EXTENDS CollectionReader, FiniteSetTheorems, TLAPS

Sane(c) == /\ c \in Collections
           /\ c.expired =< c.head
           /\ \A id \in Ids : c.seqs[id] =< c.head

Heard(c, after, rows) ==
  /\ after =< c.head
  /\ ~CursorExpired(c, after) =>
       \A id \in Ids : c.seqs[id] =< after => rows[id] = c.values[id]

IInv ==
  /\ TypeOK
  /\ Sane(coll)
  /\ reader.generation =< generation
  /\ reader.generation = generation => Heard(coll, reader.after, reader.rows)

-----------------------------------------------------------------------------
(* Numbering the differences keeps a reader that has heard of the rest.    *)
LEMMA NumberedKeeps ==
  ASSUME NEW c, Sane(c), NEW rows \in Rows, NEW n \in Numberings(c, rows)
  PROVE  /\ Sane(Numbered(c, rows, n))
         /\ Numbered(c, rows, n).values = rows
         /\ \A after \in Nat, held \in Rows :
              Heard(c, after, held) => Heard(Numbered(c, rows, n), after, held)
<1> DEFINE d == Numbered(c, rows, n)
<1>1. /\ Touched(c, rows) \subseteq Ids
      /\ Cardinality(Touched(c, rows)) \in Nat
  BY CollectionAssumption, FS_Subset, FS_CardinalityType DEF Touched
<1>2. /\ DOMAIN n = Touched(c, rows)
      /\ \A id \in Touched(c, rows) :
           /\ n[id] \in Nat
           /\ c.head < n[id]
           /\ n[id] =< c.head + Cardinality(Touched(c, rows))
  BY <1>1 DEF Numberings, Sane, Collections
<1>3. /\ d.values = rows
      /\ d.expired = c.expired
      /\ d.head = c.head + Cardinality(Touched(c, rows))
      /\ d.seqs = [id \in Ids |-> IF id \in Touched(c, rows) THEN n[id] ELSE c.seqs[id]]
      /\ d = [values |-> d.values, seqs |-> d.seqs, expired |-> d.expired, head |-> d.head]
  BY <1>2 DEF Numbered, Sane, Collections
<1>4. d \in Collections
  <2>1. d.seqs \in [Ids -> Nat]
    BY <1>2, <1>3 DEF Sane, Collections
  <2>2. d.head \in Nat /\ d.expired \in Nat /\ d.values \in Rows
    BY <1>1, <1>3 DEF Sane, Collections
  <2> QED BY <1>3, <2>1, <2>2 DEF Collections
<1>5. Sane(d)
  <2>1. d.expired =< d.head
    BY <1>1, <1>3 DEF Sane, Collections
  <2>2. \A id \in Ids : d.seqs[id] =< d.head
    BY <1>1, <1>2, <1>3 DEF Sane, Collections
  <2> QED BY <1>4, <2>1, <2>2 DEF Sane
<1>6. ASSUME NEW after \in Nat, NEW held \in Rows, Heard(c, after, held)
      PROVE  Heard(d, after, held)
  <2>1. after =< d.head
    BY <1>1, <1>3, <1>6 DEF Heard, Sane, Collections
  <2>2. ASSUME ~CursorExpired(d, after), NEW id \in Ids, d.seqs[id] =< after
        PROVE  held[id] = d.values[id]
    <3>1. ~CursorExpired(c, after)
      BY <1>3, <1>6, <2>2 DEF CursorExpired, Heard, Sane, Collections
    <3>2. id \notin Touched(c, rows)
      BY <1>2, <1>3, <1>6, <2>2 DEF Heard, Sane, Collections
    <3>3. c.seqs[id] =< after /\ c.values[id] = rows[id]
      BY <1>3, <2>2, <3>2 DEF Touched
    <3> QED BY <1>3, <1>6, <3>1, <3>3 DEF Heard
  <2> QED BY <2>1, <2>2 DEF Heard
<1> QED BY <1>3, <1>5, <1>6

(* Trimming a tombstone expires every cursor that has not heard of it.     *)
LEMMA TrimmedKeeps ==
  ASSUME NEW c, Sane(c), NEW e \in Expiries(c)
  PROVE  /\ Sane(Trimmed(c, e))
         /\ Trimmed(c, e).values = c.values
         /\ \A after \in Nat, held \in Rows :
              Heard(c, after, held) => Heard(Trimmed(c, e), after, held)
<1> DEFINE d == Trimmed(c, e)
<1>1. /\ e \in Nat /\ e =< c.head /\ c.expired =< e
      /\ \A id \in Surplus(c) : id \in Ids /\ c.seqs[id] =< e
  <2>1. Surplus(c) \subseteq Ids
    BY DEF Surplus, Tombstones
  <2>2. e = c.expired \/ \E id \in Ids : e = c.seqs[id]
    BY <2>1 DEF Expiries
  <2> QED BY <2>1, <2>2 DEF Expiries, Sane, Collections
<1>2. /\ d.values = c.values
      /\ d.expired = e
      /\ d.head = c.head
      /\ d.seqs = [id \in Ids |-> IF id \in Surplus(c) THEN 0 ELSE c.seqs[id]]
      /\ d = [values |-> d.values, seqs |-> d.seqs, expired |-> d.expired, head |-> d.head]
  BY DEF Trimmed, Sane, Collections
<1>3. Sane(d)
  <2>1. d \in Collections
    BY <1>1, <1>2 DEF Sane, Collections
  <2> QED BY <1>1, <1>2, <2>1 DEF Sane, Collections
<1>4. ASSUME NEW after \in Nat, NEW held \in Rows, Heard(c, after, held)
      PROVE  Heard(d, after, held)
  <2>1. after =< d.head
    BY <1>2, <1>4 DEF Heard
  <2>2. ASSUME ~CursorExpired(d, after), NEW id \in Ids, d.seqs[id] =< after
        PROVE  held[id] = d.values[id]
    <3>1. ~CursorExpired(c, after) /\ e =< after
      BY <1>1, <1>2, <1>4, <2>2 DEF CursorExpired, Heard, Sane, Collections
    <3>2. c.seqs[id] =< after
      BY <1>1, <1>2, <2>2, <3>1 DEF Sane, Collections
    <3> QED BY <1>2, <1>4, <3>1, <3>2 DEF Heard
  <2> QED BY <2>1, <2>2 DEF Heard
<1> QED BY <1>2, <1>3, <1>4

(* Whatever is published, the collection holds exactly it, and a reader    *)
(* that has heard of the rest still has.                                   *)
LEMMA ReplaceAllKeeps ==
  ASSUME NEW c, Sane(c), NEW rows \in Rows, NEW next \in ReplaceAll(c, rows)
  PROVE  /\ Sane(next)
         /\ next.values = rows
         /\ \A after \in Nat, held \in Rows :
              Heard(c, after, held) => Heard(next, after, held)
<1>1. PICK n \in Numberings(c, rows) :
        next \in {Trimmed(Numbered(c, rows, n), e) : e \in Expiries(Numbered(c, rows, n))}
  BY DEF ReplaceAll
<1>2. PICK e \in Expiries(Numbered(c, rows, n)) : next = Trimmed(Numbered(c, rows, n), e)
  BY <1>1
<1>3. /\ Sane(Numbered(c, rows, n))
      /\ Numbered(c, rows, n).values = rows
      /\ \A after \in Nat, held \in Rows :
           Heard(c, after, held) => Heard(Numbered(c, rows, n), after, held)
  BY NumberedKeeps
<1>4. /\ Sane(next)
      /\ next.values = Numbered(c, rows, n).values
      /\ \A after \in Nat, held \in Rows :
           Heard(Numbered(c, rows, n), after, held) => Heard(next, after, held)
  BY <1>2, <1>3, TrimmedKeeps
<1> QED BY <1>3, <1>4

(* A reader that has heard of the rest becomes exact by reading.           *)
LEMMA ReadIsExact ==
  ASSUME NEW c, Sane(c), NEW after \in Nat, NEW held \in Rows, Heard(c, after, held)
  PROVE  Merged(held, ReadAfter(c, after)) = c.values
<1>1. CASE CursorExpired(c, after)
  BY <1>1 DEF Merged, ReadAfter, ReadSnapshot, Sane, Collections, Rows
<1>2. CASE ~CursorExpired(c, after)
  <2>1. \A id \in Ids : ~(c.seqs[id] > after) => held[id] = c.values[id]
    BY <1>2 DEF Heard, Sane, Collections
  <2> QED BY <1>2, <2>1 DEF Merged, ReadAfter, Sane, Collections, Rows
<1> QED BY <1>1, <1>2

LEMMA SnapshotIsExact ==
  ASSUME NEW c, Sane(c), NEW held \in Rows
  PROVE  Merged(held, ReadSnapshot(c)) = c.values
BY DEF Merged, ReadSnapshot, Sane, Collections, Rows

(* A reader that holds the present values has heard of everything.         *)
LEMMA ExactHasHeard ==
  ASSUME NEW c, Sane(c)
  PROVE  Heard(c, c.head, c.values)
BY DEF Heard, Sane, Collections

LEMMA OneRow ==
  ASSUME NEW rows \in Rows, NEW id \in Ids, NEW value \in Values \cup {None}
  PROVE  [rows EXCEPT ![id] = value] \in Rows
BY DEF Rows

-----------------------------------------------------------------------------
LEMMA InitIInv == Init => IInv
<1> SUFFICES ASSUME Init PROVE IInv
  OBVIOUS
<1>1. coll \in Collections /\ reader \in [generation : Nat, after : Nat, rows : Rows]
  BY DEF Init, EmptyCollection, Collections, Rows
<1>2. Sane(coll)
  BY <1>1 DEF Init, EmptyCollection, Sane
<1> QED BY <1>1, <1>2 DEF Init, IInv, TypeOK

(* What every publishing step that leaves the reader alone preserves.      *)
LEMMA PublishKeeps ==
  ASSUME IInv, NEW rows \in Rows, coll' \in ReplaceAll(coll, rows),
         UNCHANGED <<generation, reader>>
  PROVE  IInv'
<1>1. /\ Sane(coll')
      /\ \A after \in Nat, held \in Rows :
           Heard(coll, after, held) => Heard(coll', after, held)
  BY ReplaceAllKeeps DEF IInv
<1>2. reader.after \in Nat /\ reader.rows \in Rows
  BY DEF IInv, TypeOK
<1>3. coll' \in Collections
  BY <1>1 DEF Sane
<1> QED BY <1>1, <1>2, <1>3 DEF IInv, TypeOK, Sane, Heard, CursorExpired

LEMMA NextIInv == IInv /\ [Next]_vars => IInv'
<1> SUFFICES ASSUME IInv, [Next]_vars PROVE IInv'
  OBVIOUS
<1>1. ASSUME NEW id \in Ids, NEW value \in Values, Upsert(id, value)
      PROVE  IInv'
  <2>1. [coll.values EXCEPT ![id] = value] \in Rows
    BY OneRow DEF IInv, Sane, Collections
  <2> QED BY <1>1, <2>1, PublishKeeps DEF Upsert, Replace
<1>2. ASSUME NEW id \in Ids, Withdraw(id)
      PROVE  IInv'
  <2>1. [coll.values EXCEPT ![id] = None] \in Rows
    BY OneRow DEF IInv, Sane, Collections
  <2> QED BY <1>2, <2>1, PublishKeeps DEF Withdraw, Remove
<1>3. ASSUME NEW listing \in Rows, Synchronize(listing)
      PROVE  IInv'
  <2> DEFINE answer == Read(coll', generation, reader)
  <2>1. /\ Sane(coll')
        /\ \A after \in Nat, held \in Rows :
             Heard(coll, after, held) => Heard(coll', after, held)
    BY <1>3, ReplaceAllKeeps DEF IInv, Synchronize
  <2>2. reader.after \in Nat /\ reader.rows \in Rows
    BY DEF IInv, TypeOK
  <2>3. answer.head = coll'.head
    BY DEF Read, ReadAfter, ReadSnapshot
  <2>4. Merged(reader.rows, answer) = coll'.values
    <3>1. CASE reader.generation # generation
      BY <1>3, <2>1, <2>2, <3>1, SnapshotIsExact DEF Read, Synchronize
    <3>2. CASE reader.generation = generation
      <4>1. Heard(coll', reader.after, reader.rows)
        BY <2>1, <2>2, <3>2 DEF IInv
      <4>2. answer = ReadAfter(coll', reader.after)
        BY <3>2 DEF Read
      <4> QED BY <2>1, <2>2, <4>1, <4>2, ReadIsExact
    <3> QED BY <3>1, <3>2
  <2>5. reader' = [generation |-> generation, after |-> coll'.head, rows |-> coll'.values]
    BY <1>3, <2>3, <2>4 DEF Synchronize
  <2>6. Heard(coll', coll'.head, coll'.values)
    BY <2>1, ExactHasHeard
  <2>7. /\ generation' = generation /\ generation \in Nat
        /\ coll' \in Collections
    BY <1>3, <2>1 DEF Synchronize, Sane, IInv, TypeOK
  <2>8. TypeOK'
    BY <2>5, <2>7 DEF TypeOK, Collections
  <2> QED BY <2>1, <2>5, <2>6, <2>7, <2>8 DEF IInv, Sane, Heard, CursorExpired
<1>4. ASSUME NEW listing \in Rows, SynchronizeOther(listing)
      PROVE  IInv'
  BY <1>4, PublishKeeps DEF SynchronizeOther
<1>5. CASE Restart
  <2>1. coll' \in Collections
    BY <1>5 DEF Restart, EmptyCollection, Collections, Rows
  <2>2. Sane(coll')
    BY <1>5, <2>1 DEF Restart, EmptyCollection, Sane
  <2>3. TypeOK'
    BY <1>5, <2>1 DEF Restart, IInv, TypeOK
  <2>4. /\ reader'.generation =< generation'
        /\ reader'.generation # generation'
    BY <1>5 DEF Restart, IInv, TypeOK
  <2> QED BY <2>2, <2>3, <2>4 DEF IInv, Sane
<1>6. CASE UNCHANGED vars
  BY <1>6 DEF vars, IInv, TypeOK, Sane, Heard, CursorExpired
<1> QED BY <1>1, <1>2, <1>3, <1>4, <1>5, <1>6 DEF Next

-----------------------------------------------------------------------------
(* The collection's numbers stay sane and the reader has heard of every    *)
(* change its cursor covers.                                               *)
THEOREM CollectionInvariant == Spec => []IInv
<1> QED BY InitIInv, NextIInv, PTL DEF Spec

(* A read of the directory collection misses no change and no removal,     *)
(* for any number of tombstones it keeps (readAfter, readSnapshot).        *)
THEOREM AnswersAreExact == Spec => []AnswerIsExact
<1>1. IInv => AnswerIsExact
  <2> SUFFICES ASSUME IInv PROVE AnswerIsExact
    OBVIOUS
  <2>1. Sane(coll) /\ reader.after \in Nat /\ reader.rows \in Rows
    BY DEF IInv, TypeOK
  <2>2. CASE reader.generation # generation
    BY <2>1, <2>2, SnapshotIsExact DEF AnswerIsExact, Read
  <2>3. CASE reader.generation = generation
    BY <2>1, <2>3, ReadIsExact DEF AnswerIsExact, Read, IInv
  <2> QED BY <2>2, <2>3
<1> QED BY <1>1, CollectionInvariant, PTL
=============================================================================
