---------------------------- MODULE MCLabelFeed ----------------------------
(***************************************************************************)
(* Instances of LabelFeed for TLC.                                         *)
(***************************************************************************)
EXTENDS LabelFeed

CONSTANTS n1, n2, c1, c2, w1
=============================================================================
