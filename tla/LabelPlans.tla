----------------------------- MODULE LabelPlans -----------------------------
(***************************************************************************)
(* The planners of WorkspaceLabelService: what one request makes of the    *)
(* label catalog and of the labels the workspaces hold.                    *)
(*                                                                         *)
(* A label's name stands for its key (trimmed, collapsed, in lower case),  *)
(* so the case of a display name is abstracted. A catalog gives each name  *)
(* a colour or None, a registry gives each workspace a record or None; the *)
(* order of the lists is abstracted. Of a workspace's other fields only    *)
(* archivedAt is kept, as the flag archived.                               *)
(***************************************************************************)
CONSTANTS Names, Colors, Workspaces, None

ASSUME NoneAssumption ==
  /\ None \notin Colors
  /\ \A held \in SUBSET Names : None # held
  /\ \A r \in [labels : SUBSET Names, archived : BOOLEAN] : None # r

Catalogs == [Names -> {None} \cup Colors]
Records == [labels : SUBSET Names, archived : BOOLEAN]
Registries == [Workspaces -> {None} \cup Records]

\* In an "update" a name that is to be kept is newName = name, and None is a
\* colour to be kept.
Requests ==
  [kind : {"set"}, workspace : Workspaces, name : Names, color : Colors, assigned : BOOLEAN]
    \cup [kind : {"update"}, name : Names, newName : Names, color : Colors \cup {None}]
    \cup [kind : {"delete", "count"}, name : Names]

Active(r) == IF r = None THEN FALSE ELSE ~r.archived

\* The planner throws: no such workspace, no such label, or the name is taken.
Refused(q, cat, recs) ==
  \/ q.kind = "set" /\ ~Active(recs[q.workspace])
  \/ q.kind = "update" /\ cat[q.name] = None
  \/ q.kind = "update" /\ q.newName # q.name /\ cat[q.newName] # None

CatalogAfter(q, cat) ==
  CASE q.kind = "set" /\ q.assigned /\ cat[q.name] = None -> [cat EXCEPT ![q.name] = q.color]
    [] q.kind = "update" ->
         [cat EXCEPT ![q.name] = None,
                     ![q.newName] = IF q.color = None THEN cat[q.name] ELSE q.color]
    [] q.kind = "delete" -> [cat EXCEPT ![q.name] = None]
    [] OTHER -> cat

\* What a workspace that holds the labels held is left with.
updateAssignmentLabels(q, held) ==
  IF q.assigned THEN held \cup {q.name} ELSE held \ {q.name}
rewriteAssignments(q, cat, held) ==
  CASE q.name \notin held \/ cat[q.name] = None -> held
    [] q.kind = "update" -> (held \ {q.name}) \cup {q.newName}
    [] q.kind = "delete" -> held \ {q.name}
    [] OTHER -> held
HeldAfter(q, cat, recs, w) ==
  CASE q.kind # "set" -> rewriteAssignments(q, cat, recs[w].labels)
    [] q.kind = "set" /\ w = q.workspace -> updateAssignmentLabels(q, recs[w].labels)
    [] OTHER -> recs[w].labels

\* Mutant: archived workspaces keep the label.
ReassignedActive(q, cat, recs) ==
  {w \in Workspaces : Active(recs[w]) /\ HeldAfter(q, cat, recs, w) # recs[w].labels}

\* The workspaces whose records the request rewrites (archived ones included).
Reassigned(q, cat, recs) ==
  {w \in Workspaces : recs[w] # None /\ HeldAfter(q, cat, recs, w) # recs[w].labels}
RecordsAfter(q, cat, recs) ==
  [w \in Workspaces |->
     IF w \in Reassigned(q, cat, recs)
       THEN [recs[w] EXCEPT !.labels = HeldAfter(q, cat, recs, w)]
       ELSE recs[w]]

\* The request changes something that has to be persisted.
forcePersist(q, cat, recs) ==
  Reassigned(q, cat, recs) # {} \/ CatalogAfter(q, cat) # cat
=============================================================================
