------------------------------ MODULE MCPidLock ------------------------------
(* Starts are bounded as a whole as well.                                    *)
EXTENDS PidLock, Functions, TLC

CONSTANTS p1, p2, p3, MaxTotal

MCSpec == Init /\ [][Next /\ FoldFunction(+, 0, starts') =< MaxTotal]_vars

MCFairSpec == MCSpec /\ Fairness
=============================================================================
