---------------------------- MODULE MCAgentTurns ----------------------------
(***************************************************************************)
(* Instances of AgentTurns for TLC.                                        *)
(***************************************************************************)
EXTENDS AgentTurnProperties, TLC

CONSTANTS p1, p2, p3, t1, a1
CallSymmetry == Permutations(Prompts)

(* Calls are alike, so that p1 may be taken to be the first that is made, and p2   *)
(* the second: what symmetry does for the safety runs, for those with liveness.    *)
InOrder ==
  /\ call[p2] # NoCall => call[p1] # NoCall
  /\ p3 \in Prompts /\ call[p3] # NoCall => call[p2] # NoCall

MCFairSpec == Init /\ [][Next /\ InOrder']_vars /\ Fairness
=============================================================================
