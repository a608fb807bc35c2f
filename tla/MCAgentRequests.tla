-------------------------- MODULE MCAgentRequests --------------------------
(* Three requests on one creation key and one message key, with two sets of  *)
(* arguments. Calls and arguments are numbers, so that one is checked of the *)
(* initial states that differ only by their names.                           *)
EXTENDS AgentRequests

Rank(c) == call[c].request + (IF IsCreate(c) THEN 0 ELSE 2)

MCInit ==
    /\ Init
    /\ \A c, d \in Calls : c < d => Rank(c) <= Rank(d)
    /\ call[1].request = 1

MCSpec == MCInit /\ [][Next]_vars /\ Fairness
=============================================================================
