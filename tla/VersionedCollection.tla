------------------------- MODULE VersionedCollection -------------------------
(***************************************************************************)
(* The daemon-wide numbering of one directory entity type                  *)
(* (server/directory-sync/internal/versioned-collection.ts).  The          *)
(* collection keeps only the latest value of an id with the number under   *)
(* which it last changed, and a bounded number of tombstones; it is not a  *)
(* log.                                                                    *)
(*                                                                         *)
(* A removed id has the value None; it keeps its number while its          *)
(* tombstone is kept, and has number 0 once the tombstone is trimmed.      *)
(***************************************************************************)
EXTENDS Naturals, FiniteSets

CONSTANTS Ids, Values, None,
          MaxTombstones      \* maxTombstones, 5000 in the code

ASSUME CollectionAssumption == /\ IsFiniteSet(Ids)
                               /\ MaxTombstones \in Nat

Rows == [Ids -> Values \cup {None}]

EmptyCollection == [values  |-> [id \in Ids |-> None],
                    seqs    |-> [id \in Ids |-> 0],
                    expired |-> 0,
                    head    |-> 0]

Collections == [values : Rows, seqs : [Ids -> Nat], expired : Nat, head : Nat]

-----------------------------------------------------------------------------
(* replaceAll numbers every id whose value differs: the upserts first, in  *)
(* the order of the listing, then the removals.  replace and remove are    *)
(* the cases where one id differs.                                         *)

Touched(c, rows) == {id \in Ids : c.values[id] # rows[id]}

Numberings(c, rows) ==
  LET last == c.head + Cardinality(Touched(c, rows))
  IN  {n \in [Touched(c, rows) -> (c.head + 1)..last] :
         \A i, j \in DOMAIN n :
           /\ n[i] = n[j] => i = j
           /\ rows[i] # None /\ rows[j] = None => n[i] < n[j]}

Numbered(c, rows, n) ==
  [values  |-> rows,
   seqs    |-> [id \in Ids |-> IF id \in DOMAIN n THEN n[id] ELSE c.seqs[id]],
   expired |-> c.expired,
   head    |-> c.head + Cardinality(DOMAIN n)]

Tombstones(c) == {id \in Ids : c.values[id] = None /\ c.seqs[id] > 0}

(* trimTombstones drops the oldest ones beyond the limit and remembers the *)
(* newest number it dropped.                                               *)
Surplus(c) == {id \in Tombstones(c) :
                 MaxTombstones =<
                   Cardinality({other \in Tombstones(c) : c.seqs[other] > c.seqs[id]})}

Expiries(c) == LET dropped == {c.expired} \cup {c.seqs[id] : id \in Surplus(c)}
               IN  {e \in dropped : \A d \in dropped : d =< e}

Trimmed(c, e) ==
  [values  |-> c.values,
   seqs    |-> [id \in Ids |-> IF id \in Surplus(c) THEN 0 ELSE c.seqs[id]],
   expired |-> e,
   head    |-> c.head]

(* Every collection that publishing rows may leave.                        *)
ReplaceAll(c, rows) ==
  UNION {{Trimmed(Numbered(c, rows, n), e) : e \in Expiries(Numbered(c, rows, n))} :
           n \in Numberings(c, rows)}

Replace(c, id, value) == ReplaceAll(c, [c.values EXCEPT ![id] = value])

Remove(c, id) == ReplaceAll(c, [c.values EXCEPT ![id] = None])

-----------------------------------------------------------------------------
(* The two answers to a read, and what the reader makes of them.           *)

ReadSnapshot(c) == [mode |-> "snapshot", values |-> c.values,
                    changed |-> Ids, head |-> c.head]

(* Mutant: the last trimmed number is compared one too low, so a cursor    *)
(* just before the last trimmed tombstone is still answered by changes.    *)
ExpiresLate(c, after) == after + 1 < c.expired \/ after > c.head

CursorExpired(c, after) == after < c.expired \/ after > c.head

ReadAfter(c, after) ==
  IF CursorExpired(c, after)
  THEN ReadSnapshot(c)
  ELSE [mode |-> "changes", values |-> c.values,
        changed |-> {id \in Ids : c.seqs[id] > after}, head |-> c.head]

(* A cursor of another daemon process is worth nothing.                    *)
Read(c, present, cursor) ==
  IF cursor.generation # present THEN ReadSnapshot(c) ELSE ReadAfter(c, cursor.after)

(* An answer carries the values and the removals it names, nothing else.   *)
Merged(rows, answer) ==
  [id \in Ids |-> IF id \in answer.changed THEN answer.values[id] ELSE rows[id]]
=============================================================================
