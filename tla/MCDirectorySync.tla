--------------------------- MODULE MCDirectorySync ---------------------------
(* What happens to the directory and to its clients is bounded as a whole:   *)
(* changes of agents, refreshes, lost connections, time-outs and restarts.   *)
EXTENDS DirectorySync, Functions, TLC

CONSTANT MaxEvents

Changes(a) == IF dir[a] = 0 /\ closing[a] # NoClient THEN MaxVersion ELSE dir[a]

Events ==
  generation - 1
  + FoldFunction(+, 0, [a \in Agents |-> Changes(a)])
  + FoldFunction(+, 0, [c \in Clients |->
                          count[c].refreshes + count[c].drops + count[c].timeouts])

MCNext == Next /\ Events' =< MaxEvents

Symmetry == Permutations(Agents)

MCSpec == Init /\ [][MCNext]_vars

MCLiveSpec == MCSpec /\ Fairness
=============================================================================
