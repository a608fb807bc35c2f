--------------------------- MODULE ScheduleService ---------------------------
(***************************************************************************)
(* Scheduled runs (server/schedule/service.ts, store.ts).  A timer starts  *)
(* a tick every second; a tick lists the schedules on disk and awaits the  *)
(* runs it starts one after the other, so that ticks overlap.  Requests    *)
(* run, edit and delete schedules meanwhile, and the daemon may end        *)
(* anywhere.                                                               *)
(*                                                                         *)
(* A schedule's file changes by store.update only, which is serialized per *)
(* schedule: it is one step here.  Everything read outside of it (tick's   *)
(* list and get, runOnce's inspect) is a step before the one that uses it. *)
(* Times are numbers, 0 stands for null; cadences are rolling intervals,   *)
(* which always have a next time.                                          *)
(***************************************************************************)
EXTENDS Naturals, Sequences, FiniteSets

CONSTANTS Count,       \* schedules, numbered in the order of their creation
          Targets,     \* per schedule: what its creation may ask for
          RunOnCreate, \* what it may ask for in runOnCreate
          Every,       \* per schedule: its cadence
          MaxRuns,     \* per schedule: maxRuns, 0 if there is none
          ExpiresAt,   \* per schedule: expiresAt, 0 if there is none
          Ticks,       \* calls of tick that may overlap
          Manual,      \* calls of runOnce
          Cap,         \* MAX_CONCURRENT_SCHEDULE_RUNS
          Retained     \* MAX_RETAINED_SCHEDULE_RUNS

CONSTANTS MaxTime, MaxEdits, MaxManual, MaxCrashes      \* bounds

Schedules == 1..Count
Callers   == Ticks \cup Manual

(* An agent; a workflow; a new agent in a workspace of its own, which is   *)
(* kept or archived when the run is over.                                  *)
NewAgent == {"keep", "archive"}
Outcomes == {"ended", "gone", "repair"}
AllTargets == {"agent", "workflow"} \cup NewAgent

ASSUME ScheduleAssumption ==
  /\ Count \in Nat /\ Cap \in Nat /\ Retained \in Nat
  /\ Targets \in [Schedules -> SUBSET AllTargets]
  /\ RunOnCreate \subseteq BOOLEAN
  /\ Every \in [Schedules -> Nat \ {0}]
  /\ MaxRuns \in [Schedules -> Nat] /\ ExpiresAt \in [Schedules -> Nat]
  /\ Ticks \cap Manual = {}
  /\ MaxTime \in Nat /\ MaxEdits \in Nat /\ MaxManual \in Nat /\ MaxCrashes \in Nat

VARIABLES
  clock,
  disk,        \* per schedule: its file, [status, next, target, runs]; a run in
               \* it [id, is]: running (then with a workspace, with an agent in
               \* it), or ended
  places,      \* per schedule: the workspace of each of its runs, "none" if it
               \* has none or none any more
  running,     \* runningScheduleIds
  call,        \* per caller: its tick or runOnce
  boot,        \* "off", "recover", "sweep", "up"
  todo,        \* the schedules recovery or the sweep has not come to
  mending,     \* workspaces that recovery still has to reveal or archive
  archived,    \* schedules whose agent is archived
  notices,     \* those of them whose completeForAgent is still to come
  slots,       \* history: per schedule, what its scheduled runs were for
  outrun,      \* history: ticks whose read of a file a whole run has outlived
  late,        \* history: <<s, i>> if the i-th of slots[s] was run on such a read
  astray,      \* history: hidden workspaces that no file pointed to at a crash
  used         \* [edits, manual, crashes]

store == <<disk, places>>
daemon == <<running, call, boot, todo, mending>>
firings == <<slots, outrun, late>>
history == <<firings, astray>>
vars == <<clock, disk, places, running, call, boot, todo, mending, archived,
          notices, slots, outrun, late, astray, used>>

CallOf(at, now, due, over, s) ==
  [at |-> at, now |-> now, due |-> due, over |-> over, s |-> s, slot |-> 0,
   run |-> 0, target |-> "agent", outcome |-> "ended"]
Idle == CallOf("idle", 0, {}, {}, 0)
NoFile == [status |-> "unborn", next |-> 0, target |-> "agent", runs |-> {}]

Init ==
  /\ clock = 1
  /\ disk = [s \in Schedules |-> NoFile]
  /\ places = [s \in Schedules |-> <<>>]
  /\ running = {} /\ call = [c \in Callers |-> Idle]
  /\ boot = "up" /\ todo = {} /\ mending = {}
  /\ archived = {} /\ notices = {}
  /\ slots = [s \in Schedules |-> <<>>] /\ outrun = {} /\ late = {} /\ astray = {}
  /\ used = [edits |-> 0, manual |-> 0, crashes |-> 0]

-----------------------------------------------------------------------------
(* A schedule's file.                                                      *)
Exists(s)   == disk[s].status \notin {"unborn", "deleted"}
Finished(r) == {run \in r : run.is = "ended"}      \* countCompletedRuns

(* shouldCompleteSchedule.                                                 *)
Over(s, file, now) ==
  \/ ExpiresAt[s] # 0 /\ ExpiresAt[s] =< now
  \/ MaxRuns[s] # 0 /\ Cardinality(Finished(file.runs)) >= MaxRuns[s]

(* The first time of the cadence that is after the present.                *)
NextAfter(s, t) ==
  IF t > clock THEN t + Every[s] ELSE clock + Every[s] - ((clock - t) % Every[s])

Planned(file, status, next) ==
  [status |-> status, next |-> next, target |-> file.target, runs |-> file.runs]

(* completeSchedule.                                                       *)
Completed(file) == Planned(file, "completed", 0)

(* pruneScheduleRuns: the newest that ended, up to the retention, and all  *)
(* that still run.                                                         *)
Pruned(s, file) ==
  LET retention == IF MaxRuns[s] > Retained THEN MaxRuns[s] ELSE Retained
      budget == retention - Cardinality(file.runs \ Finished(file.runs))
      Newer(run) == {other \in Finished(file.runs) : other.id > run.id}
  IN [file EXCEPT !.runs = {run \in @ : \/ run.is # "ended"
                                        \/ Cardinality(Newer(run)) < budget}]

(* A run's record is told that its run has come further.                   *)
Marked(file, id, mark) ==
  [file EXCEPT !.runs = {IF run.id = id /\ run.is # "ended" THEN [run EXCEPT !.is = mark]
                         ELSE run : run \in @}]

Write(s, file) == disk' = [disk EXCEPT ![s] = file]

-----------------------------------------------------------------------------
(* Requests, which are served once the daemon is up.                       *)
requestVars == <<clock, places, running, call, boot, todo, mending, astray>>

MayEdit == boot = "up" /\ used.edits < MaxEdits
Edited  == used' = [used EXCEPT !.edits = @ + 1]

FirstRun(s, soon) == IF soon THEN clock ELSE clock + Every[s]

create(s, target, soon) ==
  /\ boot = "up" /\ disk[s].status = "unborn"
  /\ \A other \in 1..(s - 1) : disk[other].status # "unborn"
  /\ Write(s, [status |-> "active", next |-> FirstRun(s, soon), target |-> target,
               runs |-> {}])
  /\ UNCHANGED <<requestVars, archived, notices, firings, used>>

(* createOrReplace of a schedule that is there: it starts afresh.  Its     *)
(* instant is not one the schedule has fired for.                          *)
createOrReplace(s, soon) ==
  /\ MayEdit /\ disk[s].status \in {"active", "paused"}
  /\ \A i \in 1..Len(slots[s]) : slots[s][i] # clock
  /\ Write(s, Planned(disk[s], "active", FirstRun(s, soon)))
  /\ Edited
  /\ UNCHANGED <<requestVars, archived, notices, firings>>

pause(s) ==
  /\ MayEdit /\ disk[s].status = "active"
  /\ Write(s, Planned(disk[s], "paused", 0))
  /\ Edited
  /\ UNCHANGED <<requestVars, archived, notices, firings>>

resume(s) ==
  /\ MayEdit /\ disk[s].status = "paused"
  /\ Write(s, Planned(disk[s], "active", clock + Every[s]))
  /\ Edited
  /\ UNCHANGED <<requestVars, archived, notices, firings>>

(* update: a cadence, whose next time counts from now, or what becomes of  *)
(* a new agent's workspace.                                                *)
update(s) ==
  /\ MayEdit /\ Exists(s)
  /\ \/ Write(s, Planned(disk[s], disk[s].status,
                         IF disk[s].status = "active" THEN clock + Every[s] ELSE 0))
     \/ \E target \in NewAgent \ {disk[s].target} :
          disk[s].target \in NewAgent /\ Write(s, [disk[s] EXCEPT !.target = target])
  /\ Edited
  /\ UNCHANGED <<requestVars, archived, notices, firings>>

delete(s) ==
  /\ MayEdit /\ Exists(s)
  /\ Write(s, [NoFile EXCEPT !.status = "deleted"])
  /\ Edited
  /\ UNCHANGED <<requestVars, archived, notices, firings>>

(* The target agent is archived, and the archived callback comes later.    *)
Archive(s) ==
  /\ MayEdit /\ Exists(s) /\ disk[s].target = "agent" /\ s \notin archived
  /\ archived' = archived \cup {s}
  /\ notices' = notices \cup {s}
  /\ Edited
  /\ UNCHANGED <<requestVars, disk, firings>>

completeForAgent(s) ==
  /\ boot = "up" /\ s \in notices
  /\ notices' = notices \ {s}
  /\ Write(s, IF Exists(s) THEN Completed(disk[s]) ELSE disk[s])
  /\ UNCHANGED <<requestVars, archived, firings, used>>

(* runOnce reads the schedule; whether it has completed is checked on what *)
(* was read, whether it runs when the read is back.                        *)
runOnce(c, s) ==
  /\ boot = "up" /\ call[c].at = "idle" /\ used.manual < MaxManual
  /\ disk[s].status \in {"active", "paused"}
  /\ call' = [call EXCEPT ![c] = CallOf("claim", 0, {}, {}, s)]
  /\ used' = [used EXCEPT !.manual = @ + 1]
  /\ UNCHANGED <<clock, store, running, boot, todo, mending, archived, notices, history>>

Request ==
  \E s \in Schedules :
    \/ \E soon \in RunOnCreate :
         \/ \E target \in Targets[s] : create(s, target, soon)
         \/ createOrReplace(s, soon)
    \/ pause(s) \/ resume(s) \/ update(s) \/ delete(s)
    \/ Archive(s) \/ completeForAgent(s)
    \/ \E c \in Manual : runOnce(c, s)

-----------------------------------------------------------------------------
(* A tick.                                                                 *)
callVars == <<clock, boot, todo, mending, archived, notices, astray>>

Goes(c, stage) == call' = [call EXCEPT ![c] = [@ EXCEPT !.at = stage]]

(* A call is over with what it did for a schedule: the loop of its tick    *)
(* goes on; or it throws, and its tick with it.                            *)
Rest(c) == IF call[c].due \cup call[c].over = {} THEN Idle
           ELSE CallOf("loop", call[c].now, call[c].due, call[c].over, 0)
Returns(c) == call' = [call EXCEPT ![c] = Rest(c)]
Throws(c)  == call' = [call EXCEPT ![c] = Idle]

(* The snapshot is looked at with the time and the files of the listing.   *)
tick(c) ==
  /\ boot = "up" /\ call[c].at = "idle"
  /\ LET live == {s \in Schedules : disk[s].status = "active" /\ disk[s].next # 0}
         over == {s \in live : Over(s, disk[s], clock)}
         due  == {s \in live \ over : disk[s].next =< clock}
     IN /\ over \cup due # {}
        /\ call' = [call EXCEPT ![c] = CallOf("loop", clock, due, over, 0)]
  /\ UNCHANGED <<callVars, store, running, firings, used>>

(* Mutant: the cap is one too low.                                         *)
EligibleBelowCap(c) ==
  {s \in (call[c].due \cup call[c].over) \ running :
     s \in call[c].over \/ Cardinality(running) + 1 < Cap}

(* The first schedule of the snapshot that is not passed over: not one     *)
(* that runs, and none to be run when there are too many that do.          *)
Eligible(c) ==
  {s \in (call[c].due \cup call[c].over) \ running :
     s \in call[c].over \/ Cardinality(running) < Cap}

Proceed(c) ==
  /\ boot = "up" /\ call[c].at = "loop"
  /\ IF Eligible(c) = {} THEN Throws(c)
     ELSE \E s \in Eligible(c) :
            /\ \A other \in Eligible(c) : s =< other
            /\ call' = [call EXCEPT ![c] =
                 CallOf(IF s \in @.over THEN "complete" ELSE "read", @.now,
                        {other \in @.due : other > s}, {other \in @.over : other > s}, s)]
  /\ UNCHANGED <<callVars, store, running, firings, used>>

completeScheduleIfDue(c) ==
  /\ call[c].at = "complete"
  /\ LET s == call[c].s
         file == disk[s]
     IN /\ Write(s, IF /\ file.status = "active" /\ file.next # 0
                       /\ Over(s, file, call[c].now)
                    THEN Completed(file) ELSE file)
        /\ IF Exists(s) THEN Returns(c) ELSE Throws(c)
  /\ UNCHANGED <<callVars, places, running, firings, used>>

(* Mutant: the snapshot is trusted.                                        *)
ReadNothing(c) ==
  /\ call[c].at = "read"
  /\ call' = [call EXCEPT ![c] = [@ EXCEPT !.at = "claim", !.slot = call[c].now]]
  /\ outrun' = outrun \ {c}
  /\ UNCHANGED <<callVars, store, running, slots, late, used>>

(* The schedule is read again before it is claimed.                        *)
Read(c) ==
  /\ call[c].at = "read"
  /\ LET s == call[c].s
     IN IF disk[s].status = "active" /\ disk[s].next \in 1..call[c].now
        THEN call' = [call EXCEPT ![c] = [@ EXCEPT !.at = "claim", !.slot = disk[s].next]]
        ELSE Returns(c)
  /\ outrun' = outrun \ {c}
  /\ UNCHANGED <<callVars, store, running, slots, late, used>>

(* Mutant: the claim is not looked at again after the read.                *)
ClaimBlindly(c) ==
  /\ call[c].at = "claim"
  /\ Goes(c, "append") /\ running' = running \cup {call[c].s}
  /\ UNCHANGED <<callVars, store, firings, used>>

(* runSchedule claims the schedule before it awaits anything.              *)
Claim(c) ==
  /\ call[c].at = "claim"
  /\ IF call[c].s \in running
     THEN Returns(c) /\ UNCHANGED running
     ELSE Goes(c, "append") /\ running' = running \cup {call[c].s}
  /\ UNCHANGED <<callVars, store, firings, used>>

-----------------------------------------------------------------------------
(* A run.                                                                  *)

(* appendRunningRun.  A schedule that is gone makes it throw, before the   *)
(* try whose finally releases the claim.                                   *)
appendRunningRun(c) ==
  /\ call[c].at = "append"
  /\ LET s == call[c].s
         id == Len(places[s]) + 1
     IN IF Exists(s)
        THEN /\ Write(s, [disk[s] EXCEPT !.runs =
                            @ \cup {[id |-> id, is |-> "running"]}])
             /\ places' = [places EXCEPT ![s] = Append(@, "none")]
             /\ slots' = [slots EXCEPT ![s] =
                            IF call[c].slot = 0 THEN @ ELSE Append(@, call[c].slot)]
             /\ late' = late \cup (IF c \in outrun THEN {<<s, Len(slots'[s])>>} ELSE {})
             /\ call' = [call EXCEPT ![c] = [@ EXCEPT !.at = "run", !.slot = 0, !.run = id,
                                                      !.target = disk[s].target]]
        ELSE Throws(c) /\ UNCHANGED <<store, slots, late>>
  /\ UNCHANGED <<callVars, running, outrun, used>>

Runs(c, outcome) ==
  call' = [call EXCEPT ![c] = [@ EXCEPT !.at = "finish", !.outcome = outcome]]

(* executeExistingAgentSchedule, a workflow's runner, and a new agent that *)
(* gets no workspace.  Whether an agent is archived is seen at the start,  *)
(* so that the run may succeed although it is archived by its end.         *)
Execute(c, outcome) ==
  /\ call[c].at = "run"
  /\ \/ outcome = "ended"
     \/ outcome = "gone" /\ call[c].target = "agent" /\ call[c].s \in archived
     \/ outcome = "gone" /\ call[c].target \in NewAgent
     \/ outcome = "repair" /\ call[c].target = "workflow"
  /\ Runs(c, outcome)
  /\ UNCHANGED <<callVars, store, running, firings, used>>

At(c, place) ==
  places' = [places EXCEPT ![call[c].s] = [@ EXCEPT ![call[c].run] = place]]

(* createScheduleRunWorkspace.                                             *)
CreateWorkspace(c) ==
  /\ call[c].at = "run" /\ call[c].target \in NewAgent
  /\ At(c, "hidden")
  /\ Goes(c, "note")
  /\ UNCHANGED <<callVars, disk, running, firings, used>>

(* recordRunWorkspace: without an agent, and again when it is created.     *)
recordRunWorkspace(c) ==
  /\ call[c].at \in {"note", "spawn"} /\ Exists(call[c].s)
  /\ Write(call[c].s, Marked(disk[call[c].s], call[c].run,
                             IF call[c].at = "note" THEN "placed" ELSE "staffed"))
  /\ Goes(c, IF call[c].at = "note" THEN "spawn" ELSE "work")
  /\ UNCHANGED <<callVars, places, running, firings, used>>

(* disposeScheduleRunWorkspace, when the agent is done or something before *)
(* it has failed.                                                          *)
disposeScheduleRunWorkspace(c, ok, hasContent) ==
  /\ call[c].at \in {"note", "spawn", "work"}
  /\ call[c].at = "note" => ~Exists(call[c].s) /\ ~hasContent
  /\ ok => call[c].at = "work"
  /\ At(c, IF (ok /\ call[c].target = "archive") \/ (~ok /\ ~hasContent)
           THEN "none" ELSE "visible")
  /\ Runs(c, "ended")
  /\ UNCHANGED <<callVars, disk, running, firings, used>>

(* What becomes of a schedule when a run of it has ended.                  *)
AfterRun(s, file, outcome, manual) ==
  CASE outcome = "gone"            -> Completed(file)
    [] outcome = "repair"          -> Planned(file, "paused", 0)
    [] OTHER ->
  CASE file.status = "completed"   -> file
    [] manual                      -> file
    [] Over(s, file, clock)        -> Completed(file)
    [] file.status = "paused"      -> Planned(file, "paused", 0)
    [] OTHER -> Planned(file, file.status,
                        NextAfter(s, IF file.next = 0 THEN clock ELSE file.next))

(* Another tick may have read the schedule, and finds it unclaimed from now on. *)
finishRun(c) ==
  /\ call[c].at = "finish"
  /\ LET s == call[c].s
         ended == Marked(disk[s], call[c].run, "ended")
     IN IF Exists(s)
        THEN /\ Write(s, Pruned(s, AfterRun(s, ended, call[c].outcome,
                                            c \in Manual)))
             /\ Returns(c)
        ELSE Throws(c) /\ UNCHANGED disk
  /\ running' = running \ {call[c].s}
  /\ outrun' = outrun \cup {d \in Ticks : /\ c \in Ticks
                                         /\ call[d].at = "claim" /\ call[d].s = call[c].s}
  /\ UNCHANGED <<callVars, places, slots, late, used>>

Call(c) ==
  \/ c \in Ticks /\ tick(c)
  \/ Proceed(c) \/ completeScheduleIfDue(c) \/ Read(c) \/ Claim(c)
  \/ appendRunningRun(c) \/ CreateWorkspace(c) \/ recordRunWorkspace(c)
  \/ \E outcome \in Outcomes : Execute(c, outcome)
  \/ \E ok, hasContent \in BOOLEAN : disposeScheduleRunWorkspace(c, ok, hasContent)
  \/ finishRun(c)

-----------------------------------------------------------------------------
(* The daemon ends, and starts again.                                      *)
bootVars == <<clock, running, call, archived, notices, history, used>>

(* Hidden workspaces that recovery cannot know of: not yet in the file of  *)
(* their schedule, or no longer.                                           *)
Untold(s, id) ==
  \A run \in disk[s].runs : ~(run.id = id /\ run.is \in {"placed", "staffed"})

Crash ==
  /\ boot # "off" /\ used.crashes < MaxCrashes
  /\ boot' = "off" /\ running' = {} /\ call' = [c \in Callers |-> Idle]
  /\ todo' = {} /\ mending' = {} /\ notices' = {} /\ outrun' = {}
  /\ astray' = astray \cup UNION
       {{<<s, id>> : id \in {i \in 1..Len(places[s]) :
                               places[s][i] = "hidden" /\ Untold(s, i)}} : s \in Schedules}
  /\ used' = [used EXCEPT !.crashes = @ + 1]
  /\ UNCHANGED <<clock, store, archived, slots, late>>

start ==
  /\ boot = "off"
  /\ boot' = "recover" /\ todo' = {s \in Schedules : Exists(s)}
  /\ UNCHANGED <<bootVars, store, mending>>

(* Mutant: what is kept stays hidden.                                      *)
InterruptedArchived(s, runs) ==
  {[s |-> s, run |-> run.id, to |-> "none"] :
     run \in {r \in runs : \/ r.is = "placed" /\ disk[s].target \in NewAgent
                           \/ r.is = "staffed" /\ disk[s].target = "archive"}}

(* What becomes of the workspaces of interrupted runs: they are archived   *)
(* unless they are kept and an agent has worked in them.                   *)
Interrupted(s, runs) ==
  {[s |-> s, run |-> run.id, to |-> IF run.is = "placed" \/ disk[s].target = "archive"
                                    THEN "none" ELSE "visible"] :
     run \in {r \in runs : r.is # "running" /\ disk[s].target \in NewAgent}}

(* recoverInterruptedSchedule: one run at most is found running.           *)
recoverInterruptedSchedule(s) ==
  /\ boot = "recover" /\ s \in todo
  /\ LET lost == disk[s].runs \ Finished(disk[s].runs)
         first == {run \in lost : \A other \in lost : run.id =< other.id}
         failed == [disk[s] EXCEPT !.runs =
                      (@ \ first) \cup {[run EXCEPT !.is = "ended"] : run \in first}]
     IN /\ Write(s, IF failed.status = "active" /\ failed.next \in 1..clock
                    THEN Planned(failed, "active", NextAfter(s, failed.next)) ELSE failed)
        /\ mending' = mending \cup Interrupted(s, first)
  /\ todo' = todo \ {s}
  /\ UNCHANGED <<bootVars, places, boot>>

Mend(m) ==
  /\ boot = "recover" /\ m \in mending
  /\ places' = [places EXCEPT ![m.s] = [@ EXCEPT ![m.run] = m.to]]
  /\ mending' = mending \ {m}
  /\ UNCHANGED <<bootVars, disk, boot, todo>>

Recovered ==
  /\ boot = "recover" /\ todo = {} /\ mending = {}
  /\ boot' = "sweep" /\ todo' = {s \in Schedules : Exists(s)}
  /\ UNCHANGED <<bootVars, store, mending>>

sweepOrphanedSchedule(s) ==
  /\ boot = "sweep" /\ s \in todo
  /\ Write(s, IF /\ disk[s].target = "agent" /\ disk[s].status # "completed"
                 /\ s \in archived
              THEN Completed(disk[s]) ELSE disk[s])
  /\ todo' = todo \ {s}
  /\ UNCHANGED <<bootVars, places, boot, mending>>

Started ==
  /\ boot = "sweep" /\ todo = {}
  /\ boot' = "up"
  /\ UNCHANGED <<bootVars, store, todo, mending>>

Boot ==
  \/ start \/ Recovered \/ Started
  \/ \E s \in Schedules : recoverInterruptedSchedule(s) \/ sweepOrphanedSchedule(s)
  \/ \E m \in mending : Mend(m)

Pass ==
  /\ clock < MaxTime
  /\ clock' = clock + 1
  /\ UNCHANGED <<store, daemon, archived, notices, history, used>>

Next == Request \/ (\E c \in Callers : Call(c)) \/ Crash \/ Boot \/ Pass

Spec == Init /\ [][Next]_vars

(* The timer ticks, what was called goes on, runs end, callbacks come.     *)
Fairness ==
  /\ \A c \in Callers : WF_vars(Call(c))
  /\ WF_vars(\E s \in Schedules : completeForAgent(s))
  /\ WF_vars(Boot)

FairSpec == Spec /\ Fairness

-----------------------------------------------------------------------------
(* Types.                                                                  *)
RunRecords == [id : Nat, is : {"running", "placed", "staffed", "ended"}]
Files == [status : {"unborn", "active", "paused", "completed", "deleted"}, next : Nat,
          target : AllTargets, runs : SUBSET RunRecords]
Working == {"run", "note", "spawn", "work", "finish"}
Claimed == {"append"} \cup Working
Stages  == {"idle", "loop", "complete", "read", "claim"} \cup Claimed
Calls == [at : Stages, now : Nat, due : SUBSET Schedules, over : SUBSET Schedules,
          s : Nat, slot : Nat, run : Nat, target : AllTargets,
          outcome : Outcomes]
Places == {"none", "hidden", "visible"}

TypeOK ==
  /\ clock \in Nat
  /\ disk \in [Schedules -> Files]
  /\ places \in [Schedules -> Seq(Places)]
  /\ running \subseteq Schedules
  /\ call \in [Callers -> Calls]
  /\ \A c \in Callers : call[c].at \notin {"idle", "loop"} => call[c].s \in Schedules
  /\ boot \in {"off", "recover", "sweep", "up"}
  /\ todo \subseteq Schedules
  /\ mending \subseteq [s : Schedules, run : Nat, to : Places]
  /\ archived \subseteq Schedules /\ notices \subseteq Schedules
  /\ slots \in [Schedules -> Seq(Nat)]
  /\ outrun \subseteq Ticks /\ late \subseteq Schedules \X Nat
  /\ astray \subseteq Schedules \X Nat
  /\ used \in [edits : Nat, manual : Nat, crashes : Nat]

-----------------------------------------------------------------------------
(* Properties.                                                             *)

Holds(c, s) == call[c].at \in Claimed /\ call[c].s = s

\* A schedule is run by one call at a time, and every run that its file
\* shows as running is the run of such a call: overlapping ticks and runOnce
\* beside them start nothing twice, and no run stays open (runSchedule's
\* claim, recoverInterruptedRuns).
OneRunAtATime ==
  /\ \A c, d \in Callers, s \in Schedules : Holds(c, s) /\ Holds(d, s) => c = d
  /\ boot \in {"sweep", "up"} => \A s \in Schedules : \A run \in disk[s].runs :
       run.is # "ended" =>
         \E c \in Callers : Holds(c, s) /\ call[c].at \in Working /\ call[c].run = run.id

\* No time of a schedule is run twice or after a later one, whatever tick
\* finds it due, however long its run takes, and through restarts (tick's
\* second read, finishRun's and recovery's next time); but for a tick whose
\* second read began before a whole run of the schedule ended and came back
\* after it, which finds the schedule unclaimed and runs it again.
FiresOnce ==
  \A s \in Schedules : \A i, j \in 1..Len(slots[s]) :
    i < j => slots[s][i] < slots[s][j] \/ <<s, j>> \in late

\* The hidden workspace of a run is revealed or archived when the run ends,
\* by itself or by recovery, unless the daemon ended before the workspace was
\* in the schedule's file, or after the schedule was deleted.
HiddenHasOwner ==
  boot \in {"sweep", "up"} =>
    \A s \in Schedules : \A id \in 1..Len(places[s]) :
      places[s][id] = "hidden" =>
        \/ \E c \in Callers : Holds(c, s) /\ call[c].run = id
        \/ <<s, id>> \in astray

Due(s) == disk[s].status = "active" /\ disk[s].next \in 1..clock

\* The claim of a schedule that no call holds any more.
Leaked(s) == s \in running /\ \A c \in Callers : ~Holds(c, s)

\* A due schedule is run, or ended, in the end: neither the cap nor ticks that
\* wait for their runs hold it back for ever, as long as every claim is released.
DueIsServed ==
  \A s \in Schedules : Due(s) ~> (~Due(s) \/ \E other \in Schedules : Leaked(other))

\* Refuted: "re-checking the claim set after the read's await is sound because
\* runSchedule claims synchronously" (tick, service.ts:813-814): what a tick has
\* claimed a schedule for is a time it has not run it for yet.
ClaimIsFresh ==
  \A c \in Ticks : call[c].at = "append" =>
    \A i \in 1..Len(slots[call[c].s]) : slots[call[c].s][i] < call[c].slot
\* Refuted: "due schedules over the cap simply wait for a later tick".
CapHolds == Cardinality(running) =< Cap
\* Refuted: a completed schedule stays completed.
CompletedIsFinal ==
  [][\A s \in Schedules :
       disk[s].status = "completed" => disk'[s].status \in {"completed", "deleted"}]_vars
\* Refuted: every claim is released.
NoLeak == \A s \in Schedules : ~Leaked(s)
\* Refuted: a workspace that was revealed is not archived afterwards.
VisibleStays ==
  [][\A s \in Schedules : \A id \in 1..Len(places[s]) :
       places[s][id] = "visible" => places'[s][id] = "visible"]_vars
=============================================================================
