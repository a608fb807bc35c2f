---------------------------- MODULE AtomicLabels ----------------------------
(***************************************************************************)
(* What the label store promises of its durable state: the catalog and the *)
(* workspaces' labels change together, by one whole request at a time, and *)
(* nothing but a request changes them. The workspace registry's own edits  *)
(* leave the labels alone.                                                 *)
(***************************************************************************)
EXTENDS LabelPlans

VARIABLES catalog, records
vars == <<catalog, records>>

Init ==
  /\ catalog = [n \in Names |-> None]
  /\ records \in [Workspaces -> {None, [labels |-> {}, archived |-> FALSE]}]

Apply(q) ==
  /\ ~Refused(q, catalog, records)
  /\ catalog' = CatalogAfter(q, catalog)
  /\ records' = RecordsAfter(q, catalog, records)

Archive(w) ==
  /\ records[w] # None
  /\ records' = [records EXCEPT ![w].archived = TRUE]
  /\ UNCHANGED catalog

Remove(w) ==
  /\ records' = [records EXCEPT ![w] = None]
  /\ UNCHANGED catalog

Next ==
  \/ \E q \in Requests : Apply(q)
  \/ \E w \in Workspaces : Archive(w) \/ Remove(w)

Spec == Init /\ [][Next]_vars
=============================================================================
