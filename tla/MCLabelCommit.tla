--------------------------- MODULE MCLabelCommit ---------------------------
(***************************************************************************)
(* Instances of LabelCommit for TLC.                                       *)
(***************************************************************************)
EXTENDS LabelCommit, TLC

CONSTANTS n1, n2, c1, c2, w1, w2
=============================================================================
