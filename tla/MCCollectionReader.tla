------------------------- MODULE MCCollectionReader -------------------------
(* The collection with its numbers and its generations bounded.            *)
EXTENDS CollectionReader, TLC

CONSTANTS MaxSeq, MaxGeneration

Symmetry == Permutations(Ids) \cup Permutations(Values)

MCSpec == Init /\ [][/\ coll.head < MaxSeq \/ generation < MaxGeneration
                     /\ Next
                     /\ coll'.head =< MaxSeq /\ generation' =< MaxGeneration]_vars
=============================================================================
