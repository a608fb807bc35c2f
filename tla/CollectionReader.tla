-------------------------- MODULE CollectionReader --------------------------
(***************************************************************************)
(* A reader of one directory collection that keeps a cursor                *)
(* (server/directory-sync/index.ts).  Anybody may publish; a read "after"  *)
(* the cursor must bring a reader that was exact at the cursor to exactly  *)
(* the present values, although the collection has forgotten what happened *)
(* in between.                                                             *)
(***************************************************************************)
EXTENDS VersionedCollection

VARIABLES generation,      \* one per daemon process
          coll,
          reader           \* [generation, after, rows]; generation 0 is no cursor

vars == <<generation, coll, reader>>

Init ==
  /\ generation = 1
  /\ coll = EmptyCollection
  /\ reader = [generation |-> 0, after |-> 0, rows |-> [id \in Ids |-> None]]

Upsert(id, value) ==
  /\ coll' \in Replace(coll, id, value)
  /\ UNCHANGED <<generation, reader>>

Withdraw(id) ==
  /\ coll' \in Remove(coll, id)
  /\ UNCHANGED <<generation, reader>>

(* A synchronizeX call of the reader: publish the listing, then read.      *)
Synchronize(listing) ==
  /\ coll' \in ReplaceAll(coll, listing)
  /\ LET answer == Read(coll', generation, reader)
     IN  reader' = [generation |-> generation, after |-> answer.head,
                    rows |-> Merged(reader.rows, answer)]
  /\ UNCHANGED generation

(* A synchronizeX call of somebody else.                                   *)
SynchronizeOther(listing) ==
  /\ coll' \in ReplaceAll(coll, listing)
  /\ UNCHANGED <<generation, reader>>

Restart ==
  /\ generation' = generation + 1
  /\ coll' = EmptyCollection
  /\ UNCHANGED reader

Next ==
  \/ \E id \in Ids, value \in Values : Upsert(id, value)
  \/ \E id \in Ids : Withdraw(id)
  \/ \E listing \in Rows : Synchronize(listing) \/ SynchronizeOther(listing)
  \/ Restart

Spec == Init /\ [][Next]_vars

-----------------------------------------------------------------------------
TypeOK ==
  /\ generation \in Nat
  /\ coll \in Collections
  /\ reader \in [generation : Nat, after : Nat, rows : Rows]

(* A read brings the reader to exactly the values of the collection,       *)
(* whatever was published, withdrawn, trimmed or restarted since its       *)
(* cursor: no change and no removal is missing from an answer.             *)
AnswerIsExact == Merged(reader.rows, Read(coll, generation, reader)) = coll.values
=============================================================================
