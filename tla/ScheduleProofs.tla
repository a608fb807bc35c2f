--------------------------- MODULE ScheduleProofs ---------------------------
(***************************************************************************)
(* A schedule is run by one call at a time, for any number of schedules, of*)
(* overlapping ticks and of runOnce calls, through edits and restarts; and *)
(* the hidden workspace of each run is found again, by its run or by       *)
(* recovery; and a schedule fires once for each of its times.              *)
(***************************************************************************)
EXTENDS ScheduleService, TLAPS, SequenceTheorems

USE ScheduleAssumption

-----------------------------------------------------------------------------
(***************************************************************************)
(* Types.                                                                  *)
(***************************************************************************)
\* The first time after the present is a time, and after the present.
LEMMA NextTime ==
  ASSUME clock \in Nat, NEW s \in Schedules, NEW t \in Nat
  PROVE  NextAfter(s, t) \in Nat /\ NextAfter(s, t) > clock
<1>1. Every[s] \in Nat /\ Every[s] > 0
  OBVIOUS
<1>2. CASE t > clock
  BY <1>1, <1>2 DEF NextAfter
<1>3. CASE ~(t > clock)
  <2>1. clock - t \in Nat
    BY <1>3
  <2>2. (clock - t) % Every[s] \in 0..(Every[s] - 1)
    BY <2>1, <1>1
  <2>3. \A r \in 0..(Every[s] - 1) : clock + Every[s] - r \in Nat /\ clock + Every[s] - r > clock
    BY <1>1
  <2> QED BY <1>3, <2>2, <2>3 DEF NextAfter
<1> QED BY <1>2, <1>3

\* What happens to a file makes a file, in which no run is new or open that
\* was not before.
LEMMA FileTypes ==
  ASSUME NEW s \in Schedules, NEW file \in Files, NEW id \in Nat,
         NEW mark \in {"running", "placed", "staffed", "ended"}
  PROVE  /\ Completed(file) \in Files /\ Completed(file).runs = file.runs
         /\ Marked(file, id, mark) \in Files
         /\ Pruned(s, file) \in Files /\ Pruned(s, file).runs \subseteq file.runs
         /\ Pruned(s, file).status = file.status /\ Pruned(s, file).next = file.next
<1>1. Completed(file) \in Files /\ Completed(file).runs = file.runs
  BY DEF Completed, Planned, Files
<1>2. Marked(file, id, mark) \in Files
  BY DEF Marked, Files, RunRecords
<1>3. /\ Pruned(s, file) \in Files /\ Pruned(s, file).runs \subseteq file.runs
      /\ Pruned(s, file).status = file.status /\ Pruned(s, file).next = file.next
  <2>1. Pruned(s, file).runs \subseteq file.runs
    BY DEF Pruned, Files
  <2> QED BY <2>1 DEF Pruned, Files
<1> QED BY <1>1, <1>2, <1>3

\* A file is planned anew: it is a file, and its runs are the same.
LEMMA PlannedTypes ==
  ASSUME NEW file \in Files, NEW next \in Nat,
         NEW status \in {"unborn", "active", "paused", "completed", "deleted"}
  PROVE  /\ Planned(file, status, next) \in Files
         /\ Planned(file, status, next).runs = file.runs
         /\ Planned(file, status, next).status = status
         /\ Planned(file, status, next).next = next
         /\ Planned(file, status, next).target = file.target
BY DEF Planned, Files

\* A run's end leaves a file, and its runs as they are.
LEMMA AfterRunTypes ==
  ASSUME clock \in Nat, NEW s \in Schedules, NEW file \in Files, NEW outcome,
         NEW c
  PROVE  /\ AfterRun(s, file, outcome, c \in Manual) \in Files
         /\ AfterRun(s, file, outcome, c \in Manual).runs = file.runs
<1>1. \A t \in Nat : NextAfter(s, t) \in Nat
  BY NextTime
<1>2. Completed(file) \in Files /\ Completed(file).runs = file.runs
  BY PlannedTypes DEF Completed
<1>3. Planned(file, "paused", 0) \in Files /\ Planned(file, "paused", 0).runs = file.runs
  BY PlannedTypes
<1>4. file.next \in Nat /\ file.status \in {"unborn", "active", "paused", "completed", "deleted"}
  BY DEF Files
<1>5. NextAfter(s, IF file.next = 0 THEN clock ELSE file.next) \in Nat
  BY <1>1, <1>4
<1>6. \A next \in Nat : /\ Planned(file, file.status, next) \in Files
                        /\ Planned(file, file.status, next).runs = file.runs
  BY <1>4 DEF Planned, Files
<1> QED BY <1>2, <1>3, <1>5, <1>6 DEF AfterRun

\* A call as it is made.
LEMMA CallOfTypes ==
  ASSUME NEW at \in Stages, NEW now \in Nat, NEW due \in SUBSET Schedules,
         NEW over \in SUBSET Schedules, NEW s \in Nat
  PROVE  /\ CallOf(at, now, due, over, s) \in Calls
         /\ CallOf(at, now, due, over, s).at = at /\ CallOf(at, now, due, over, s).s = s
BY DEF CallOf, Calls, AllTargets, Outcomes

\* A call that does nothing, and one that goes on with its snapshot.
LEMMA RestTypes ==
  ASSUME TypeOK, NEW c \in Callers
  PROVE  /\ Idle \in Calls /\ Idle.at = "idle"
         /\ Rest(c) \in Calls /\ Rest(c).at \in {"idle", "loop"}
<1>1. "idle" \in Stages /\ "loop" \in Stages
  BY DEF Stages
<1>2. Idle \in Calls /\ Idle.at = "idle"
  BY <1>1, CallOfTypes DEF Idle
<1>3. call[c].now \in Nat /\ call[c].due \in SUBSET Schedules /\ call[c].over \in SUBSET Schedules
  BY DEF TypeOK, Calls
<1> QED BY <1>1, <1>2, <1>3, CallOfTypes DEF Rest

\* A call that becomes another one leaves calls.
LEMMA CallBecomes ==
  ASSUME TypeOK, NEW c \in Callers, NEW v \in Calls, call' = [call EXCEPT ![c] = v],
         v.at \in {"idle", "loop"} \/ v.s \in Schedules
  PROVE  /\ call' \in [Callers -> Calls]
         /\ \A d \in Callers : call'[d].at \notin {"idle", "loop"} => call'[d].s \in Schedules
BY DEF TypeOK

\* What a step may change in a call leaves a call for the same schedule.
LEMMA CallChanges ==
  ASSUME NEW v \in Calls, NEW stage \in Stages, NEW slot \in Nat, NEW run \in Nat,
         NEW target \in AllTargets, NEW outcome \in Outcomes
  PROVE  /\ [v EXCEPT !.at = stage] \in Calls
         /\ [v EXCEPT !.at = stage, !.slot = slot] \in Calls
         /\ [v EXCEPT !.at = stage, !.slot = slot, !.run = run, !.target = target] \in Calls
         /\ [v EXCEPT !.at = stage, !.outcome = outcome] \in Calls
BY DEF Calls

LEMMA CallKeeps ==
  ASSUME NEW v \in Calls, NEW stage \in Stages, NEW slot, NEW run, NEW target, NEW outcome
  PROVE  LET goes == [v EXCEPT !.at = stage]
             reads == [v EXCEPT !.at = stage, !.slot = slot]
             starts == [v EXCEPT !.at = stage, !.slot = slot, !.run = run, !.target = target]
             ends == [v EXCEPT !.at = stage, !.outcome = outcome]
         IN /\ goes.at = stage /\ goes.s = v.s /\ goes.run = v.run
            /\ reads.at = stage /\ reads.s = v.s
            /\ starts.at = stage /\ starts.s = v.s /\ starts.run = run
            /\ ends.at = stage /\ ends.s = v.s /\ ends.run = v.run
BY DEF Calls

\* The counters of the bounds.
LEMMA UsedTypes ==
  ASSUME NEW u \in [edits : Nat, manual : Nat, crashes : Nat]
  PROVE  /\ [u EXCEPT !.edits = @ + 1] \in [edits : Nat, manual : Nat, crashes : Nat]
         /\ [u EXCEPT !.manual = @ + 1] \in [edits : Nat, manual : Nat, crashes : Nat]
         /\ [u EXCEPT !.crashes = @ + 1] \in [edits : Nat, manual : Nat, crashes : Nat]
<1>1. u.edits \in Nat /\ u.manual \in Nat /\ u.crashes \in Nat
  OBVIOUS
<1> QED BY <1>1

\* A file written leaves files, and only that one changes.
LEMMA DiskTypes ==
  ASSUME TypeOK, NEW s \in Schedules, NEW file \in Files, Write(s, file)
  PROVE  /\ disk' \in [Schedules -> Files] /\ disk'[s] = file
         /\ \A other \in Schedules : other # s => disk'[other] = disk[other]
BY DEF TypeOK, Write

\* Requests keep the types.
LEMMA RequestTypes ==
  ASSUME TypeOK, Request
  PROVE  TypeOK'
<1>1. ASSUME NEW s \in Schedules, NEW soon \in RunOnCreate, NEW target \in Targets[s],
             create(s, target, soon)
      PROVE  TypeOK'
  <2>1. clock + Every[s] \in Nat /\ clock \in Nat /\ target \in AllTargets
    BY DEF TypeOK
  <2>2. [status |-> "active", next |-> FirstRun(s, soon), target |-> target,
         runs |-> {}] \in Files
    BY <2>1 DEF FirstRun, Files
  <2>3. disk' \in [Schedules -> Files]
    BY <1>1, <2>2, DiskTypes DEF create
  <2> QED BY <1>1, <2>3 DEF create, TypeOK, requestVars, firings
<1>2. ASSUME disk' \in [Schedules -> Files], Edited,
             UNCHANGED <<requestVars, archived, notices, firings>>
      PROVE  TypeOK'
  <2>1. used' \in [edits : Nat, manual : Nat, crashes : Nat]
    BY <1>2, UsedTypes DEF TypeOK, Edited
  <2> QED BY <1>2, <2>1 DEF TypeOK, requestVars, firings
<1>3. ASSUME NEW s \in Schedules, NEW soon \in RunOnCreate, createOrReplace(s, soon)
      PROVE  TypeOK'
  <2>1. FirstRun(s, soon) \in Nat
    BY DEF FirstRun, TypeOK
  <2>2. Planned(disk[s], "active", FirstRun(s, soon)) \in Files
    BY <2>1, PlannedTypes DEF TypeOK
  <2>3. disk' \in [Schedules -> Files]
    BY <1>3, <2>2, DiskTypes DEF createOrReplace
  <2> QED BY <1>2, <1>3, <2>3 DEF createOrReplace
<1>4. ASSUME NEW s \in Schedules, pause(s) PROVE TypeOK'
  <2>1. Planned(disk[s], "paused", 0) \in Files
    BY PlannedTypes DEF TypeOK
  <2>2. disk' \in [Schedules -> Files]
    BY <1>4, <2>1, DiskTypes DEF pause
  <2> QED BY <1>2, <1>4, <2>2 DEF pause
<1>5. ASSUME NEW s \in Schedules, resume(s) PROVE TypeOK'
  <2>1. Planned(disk[s], "active", clock + Every[s]) \in Files
    BY PlannedTypes DEF TypeOK
  <2>2. disk' \in [Schedules -> Files]
    BY <1>5, <2>1, DiskTypes DEF resume
  <2> QED BY <1>2, <1>5, <2>2 DEF resume
<1>6. ASSUME NEW s \in Schedules, update(s) PROVE TypeOK'
  <2>1. clock + Every[s] \in Nat
    BY DEF TypeOK
  <2>2. Planned(disk[s], disk[s].status,
                IF disk[s].status = "active" THEN clock + Every[s] ELSE 0) \in Files
    <3>1. disk[s] \in Files /\ disk[s].status \in {"unborn", "active", "paused", "completed", "deleted"}
      BY DEF TypeOK, Files
    <3>2. (IF disk[s].status = "active" THEN clock + Every[s] ELSE 0) \in Nat
      BY <2>1
    <3> QED BY <3>1, <3>2, PlannedTypes
  <2>3. \A target \in NewAgent : [disk[s] EXCEPT !.target = target] \in Files
    <3>1. \A file \in Files : \A target \in NewAgent : [file EXCEPT !.target = target] \in Files
      BY DEF Files, AllTargets
    <3> QED BY <3>1 DEF TypeOK
  <2>4. disk' \in [Schedules -> Files]
    BY <1>6, <2>2, <2>3, DiskTypes DEF update
  <2> QED BY <1>2, <1>6, <2>4 DEF update
<1>7. ASSUME NEW s \in Schedules, delete(s) PROVE TypeOK'
  <2>1. [NoFile EXCEPT !.status = "deleted"] \in Files
    BY DEF NoFile, Files, AllTargets
  <2>2. disk' \in [Schedules -> Files]
    BY <1>7, <2>1, DiskTypes DEF delete
  <2> QED BY <1>2, <1>7, <2>2 DEF delete
<1>8. ASSUME NEW s \in Schedules, Archive(s) PROVE TypeOK'
  <2>1. used' \in [edits : Nat, manual : Nat, crashes : Nat]
    BY <1>8, UsedTypes DEF TypeOK, Edited, Archive
  <2> QED BY <1>8, <2>1 DEF Archive, TypeOK, requestVars, firings
<1>9. ASSUME NEW s \in Schedules, completeForAgent(s) PROVE TypeOK'
  <2>1. disk[s] \in Files /\ Completed(disk[s]) \in Files
    BY PlannedTypes DEF TypeOK, Completed
  <2>2. disk' \in [Schedules -> Files]
    BY <1>9, <2>1, DiskTypes DEF completeForAgent
  <2> QED BY <1>9, <2>2 DEF completeForAgent, TypeOK, requestVars, firings
<1>10. ASSUME NEW s \in Schedules, NEW c \in Manual, runOnce(c, s) PROVE TypeOK'
  <2>1. c \in Callers
    BY DEF Callers
  <2>2. /\ CallOf("claim", 0, {}, {}, s) \in Calls
        /\ CallOf("claim", 0, {}, {}, s).s = s
    <3>1. "claim" \in Stages /\ s \in Nat /\ {} \in SUBSET Schedules
      BY DEF Stages, Schedules
    <3> QED BY <3>1, CallOfTypes
  <2>4. /\ call' \in [Callers -> Calls]
        /\ \A d \in Callers : call'[d].at \notin {"idle", "loop"} => call'[d].s \in Schedules
    BY <1>10, <2>1, <2>2, CallBecomes DEF runOnce
  <2>5. used' \in [edits : Nat, manual : Nat, crashes : Nat]
    BY <1>10, UsedTypes DEF TypeOK, runOnce
  <2> QED BY <1>10, <2>4, <2>5 DEF runOnce, TypeOK, store, history, firings
<1> QED BY <1>1, <1>3, <1>4, <1>5, <1>6, <1>7, <1>8, <1>9, <1>10 DEF Request

\* A workspace that changes leaves workspaces.
LEMMA PlacesExcept ==
  ASSUME NEW seq \in Seq(Places), NEW id, NEW place \in Places
  PROVE  [seq EXCEPT ![id] = place] \in Seq(Places)
<1>1. CASE id \in 1..Len(seq)
  BY <1>1, ExceptSeq
<1>2. CASE id \notin 1..Len(seq)
  <2>1. DOMAIN seq = 1..Len(seq) /\ seq = [i \in 1..Len(seq) |-> seq[i]]
    OBVIOUS
  <2>2. [seq EXCEPT ![id] = place] = seq
    BY <1>2, <2>1
  <2> QED BY <2>2
<1> QED BY <1>1, <1>2

\* Steps of calls keep the types.
LEMMA CallTypes ==
  ASSUME TypeOK, NEW c \in Callers, Call(c)
  PROVE  TypeOK'
<1> USE DEF callVars, store, firings
<1>1. /\ call[c] \in Calls
      /\ call[c].at \notin {"idle", "loop"} =>
           call[c].s \in Schedules /\ disk[call[c].s] \in Files
      /\ Idle \in Calls /\ Idle.at = "idle"
      /\ Rest(c) \in Calls /\ Rest(c).at \in {"idle", "loop"}
  BY RestTypes DEF TypeOK
<1>2. ASSUME UNCHANGED callVars, UNCHANGED used, disk' \in [Schedules -> Files],
             places' \in [Schedules -> Seq(Places)], running' \subseteq Schedules,
             slots' \in [Schedules -> Seq(Nat)],
             outrun' \subseteq Ticks, late' \subseteq Schedules \X Nat,
             NEW v \in Calls, call' = [call EXCEPT ![c] = v],
             v.at \in {"idle", "loop"} \/ v.s \in Schedules
      PROVE  TypeOK'
  <2>1. /\ call' \in [Callers -> Calls]
        /\ \A d \in Callers : call'[d].at \notin {"idle", "loop"} => call'[d].s \in Schedules
    BY <1>2, CallBecomes
  <2> QED BY <1>2, <2>1 DEF TypeOK
<1>3. /\ disk \in [Schedules -> Files] /\ places \in [Schedules -> Seq(Places)]
      /\ running \subseteq Schedules /\ slots \in [Schedules -> Seq(Nat)]
      /\ outrun \subseteq Ticks /\ late \subseteq Schedules \X Nat
  BY DEF TypeOK
<1>4. \A stage \in Stages : /\ [call[c] EXCEPT !.at = stage] \in Calls
                            /\ [call[c] EXCEPT !.at = stage].s = call[c].s
  <2>1. ASSUME NEW v \in Calls, NEW stage \in Stages
        PROVE  [v EXCEPT !.at = stage] \in Calls /\ [v EXCEPT !.at = stage].s = v.s
    BY DEF Calls
  <2> QED BY <1>1, <2>1
<1>5. ASSUME tick(c) PROVE TypeOK'
  <2>1. PICK due, over \in SUBSET Schedules :
          call' = [call EXCEPT ![c] = CallOf("loop", clock, due, over, 0)]
    BY <1>5 DEF tick
  <2>2. "loop" \in Stages /\ clock \in Nat
    BY DEF Stages, TypeOK
  <2>3. /\ CallOf("loop", clock, due, over, 0) \in Calls
        /\ CallOf("loop", clock, due, over, 0).at = "loop"
    BY <2>2, CallOfTypes
  <2> QED BY <1>2, <1>3, <1>5, <2>1, <2>3 DEF tick
<1>6. ASSUME Proceed(c) PROVE TypeOK'
  <2>1. CASE Throws(c)
    BY <1>1, <1>2, <1>3, <1>6, <2>1 DEF Proceed, Throws
  <2>2. CASE ~Throws(c)
    <3>1. PICK s \in Eligible(c) :
            call' = [call EXCEPT ![c] =
                 CallOf(IF s \in call[c].over THEN "complete" ELSE "read", call[c].now,
                        {other \in call[c].due : other > s},
                        {other \in call[c].over : other > s}, s)]
      BY <1>6, <2>2 DEF Proceed, TypeOK
    <3>2. /\ call[c].now \in Nat /\ call[c].due \in SUBSET Schedules
          /\ call[c].over \in SUBSET Schedules
      BY <1>1 DEF Calls
    <3>3. s \in Schedules /\ s \in Nat
      BY <3>2 DEF Eligible, Schedules
    <3>4. (IF s \in call[c].over THEN "complete" ELSE "read") \in Stages
      BY DEF Stages
    <3>5. /\ {other \in call[c].due : other > s} \in SUBSET Schedules
          /\ {other \in call[c].over : other > s} \in SUBSET Schedules
      BY <3>2
    <3> DEFINE v == CallOf(IF s \in call[c].over THEN "complete" ELSE "read", call[c].now,
                        {other \in call[c].due : other > s},
                        {other \in call[c].over : other > s}, s)
    <3>6. v \in Calls /\ v.s = s
      BY <3>2, <3>3, <3>4, <3>5, CallOfTypes
    <3>7. call' = [call EXCEPT ![c] = v]
      BY <3>1
    <3> HIDE DEF v
    <3> QED BY <1>2, <1>3, <1>6, <3>3, <3>6, <3>7 DEF Proceed
  <2> QED BY <2>1, <2>2
<1>7. ASSUME completeScheduleIfDue(c) PROVE TypeOK'
  <2>1. call[c].s \in Schedules /\ Completed(disk[call[c].s]) \in Files
    BY <1>1, <1>7, PlannedTypes DEF completeScheduleIfDue, Completed
  <2>2. disk' \in [Schedules -> Files]
    BY <1>1, <1>7, <2>1, DiskTypes DEF completeScheduleIfDue
  <2> QED BY <1>1, <1>2, <1>3, <1>7, <2>2 DEF completeScheduleIfDue, Returns, Throws
<1>8. ASSUME Read(c) PROVE TypeOK'
  <2>1. CASE Returns(c)
    BY <1>1, <1>2, <1>3, <1>8, <2>1 DEF Read, Returns
  <2>2. CASE ~Returns(c)
    <3> DEFINE v == [call[c] EXCEPT !.at = "claim", !.slot = disk[call[c].s].next]
    <3>1. call' = [call EXCEPT ![c] = v]
      BY <1>1, <1>8, <2>2 DEF Read, TypeOK
    <3>2. disk[call[c].s].next \in Nat /\ call[c].s \in Schedules /\ "claim" \in Stages
      BY <1>1, <1>8 DEF Read, Files, Stages
    <3>3. v \in Calls
      BY <1>1, <3>2, CallChanges DEF Outcomes, AllTargets
    <3>4. v.s = call[c].s
      BY <1>1, <3>2, CallKeeps
    <3> HIDE DEF v
    <3> QED BY <1>2, <1>3, <1>8, <3>1, <3>2, <3>3, <3>4 DEF Read
  <2> QED BY <2>1, <2>2
<1>9. ASSUME Claim(c) PROVE TypeOK'
  <2>1. CASE Returns(c) /\ UNCHANGED running
    BY <1>1, <1>2, <1>3, <1>9, <2>1 DEF Claim, Returns
  <2>2. CASE Goes(c, "append") /\ running' = running \cup {call[c].s}
    <3>1. "append" \in Stages /\ call[c].s \in Schedules
      BY <1>1, <1>9 DEF Stages, Claimed, Claim
    <3> QED BY <1>2, <1>3, <1>4, <1>9, <2>2, <3>1 DEF Claim, Goes
  <2> QED BY <1>9, <2>1, <2>2 DEF Claim
<1>10. ASSUME appendRunningRun(c) PROVE TypeOK'
  <2> DEFINE s == call[c].s
             id == Len(places[s]) + 1
  <2>1. s \in Schedules /\ id \in Nat /\ disk[s] \in Files /\ call[c].slot \in Nat
    <3>1. s \in Schedules /\ disk[s] \in Files
      BY <1>1, <1>10 DEF appendRunningRun
    <3>2. places[s] \in Seq(Places) /\ Len(places[s]) \in Nat
      BY <1>3, <3>1, LenProperties
    <3>3. call[c].slot \in Nat
      BY <1>1 DEF Calls
    <3> QED BY <3>1, <3>2, <3>3
  <2>2. CASE Throws(c)
    <3>1. ~Exists(s)
      <4>1. SUFFICES ASSUME Exists(s) PROVE FALSE
        OBVIOUS
      <4>2. call' = [call EXCEPT ![c] = [call[c] EXCEPT !.at = "run", !.slot = 0,
                                     !.run = id, !.target = disk[s].target]]
        BY <1>10, <4>1 DEF appendRunningRun
      <4>3. [call[c] EXCEPT !.at = "run", !.slot = 0, !.run = id,
                            !.target = disk[s].target].at = "run"
        BY <1>1, CallKeeps DEF Stages, Claimed, Working
      <4> QED BY <1>1, <2>2, <4>2, <4>3 DEF Throws, TypeOK
    <3> QED BY <1>1, <1>2, <1>3, <1>10, <2>2, <3>1 DEF appendRunningRun, Throws
  <2>3. CASE Exists(s)
    <3> DEFINE v == [call[c] EXCEPT !.at = "run", !.slot = 0, !.run = id,
                                    !.target = disk[s].target]
    <3>1. call' = [call EXCEPT ![c] = v]
      BY <1>10, <2>3 DEF appendRunningRun
    <3>2. disk[s].target \in AllTargets /\ "run" \in Stages /\ 0 \in Nat
      BY <2>1 DEF Files, Stages, Claimed, Working
    <3>3. v \in Calls
      BY <1>1, <2>1, <3>2, CallChanges DEF Outcomes
    <3>4. v.s = s
      BY <1>1, <3>2, CallKeeps
    <3>5. disk' \in [Schedules -> Files]
      <4>1. \A file \in Files, run \in Nat :
              [file EXCEPT !.runs = @ \cup {[id |-> run, is |-> "running"]}] \in Files
        BY DEF Files, RunRecords
      <4>2. Write(s, [disk[s] EXCEPT !.runs = @ \cup {[id |-> id, is |-> "running"]}])
        BY <1>10, <2>3 DEF appendRunningRun
      <4> QED BY <2>1, <4>1, <4>2, DiskTypes
    <3>6. places' \in [Schedules -> Seq(Places)]
      <4>1. places[s] \in Seq(Places) /\ "none" \in Places
        BY <1>3, <2>1 DEF Places
      <4>2. Append(places[s], "none") \in Seq(Places)
        BY <4>1
      <4>3. places' = [places EXCEPT ![s] = Append(places[s], "none")]
        BY <1>3, <1>10, <2>1, <2>3 DEF appendRunningRun
      <4> QED BY <1>3, <2>1, <4>2, <4>3
    <3>7. slots' \in [Schedules -> Seq(Nat)]
      <4>1. slots[s] \in Seq(Nat)
        BY <1>3, <2>1
      <4>2. Append(slots[s], call[c].slot) \in Seq(Nat)
        BY <2>1, <4>1
      <4>3. slots' = [slots EXCEPT ![s] = IF call[c].slot = 0 THEN slots[s]
                                          ELSE Append(slots[s], call[c].slot)]
        BY <1>3, <1>10, <2>1, <2>3 DEF appendRunningRun
      <4> QED BY <1>3, <2>1, <4>1, <4>2, <4>3
    <3>8. late' \subseteq Schedules \X Nat
      <4>1. slots'[s] \in Seq(Nat)
        BY <2>1, <3>7
      <4>2. <<s, Len(slots'[s])>> \in Schedules \X Nat
        BY <2>1, <4>1
      <4> QED BY <1>3, <1>10, <2>3, <4>2 DEF appendRunningRun
    <3> HIDE DEF v
    <3> QED BY <1>2, <1>3, <1>10, <2>1, <3>1, <3>3, <3>4, <3>5, <3>6, <3>7, <3>8
            DEF appendRunningRun
  <2> QED BY <1>10, <2>2, <2>3 DEF appendRunningRun
<1>11. \A outcome \in Outcomes : Runs(c, outcome) =>
         \E v \in Calls : call' = [call EXCEPT ![c] = v] /\ v.s = call[c].s
  <2>1. SUFFICES ASSUME NEW outcome \in Outcomes, Runs(c, outcome)
                 PROVE  \E v \in Calls : call' = [call EXCEPT ![c] = v] /\ v.s = call[c].s
    OBVIOUS
  <2>2. "finish" \in Stages
    BY DEF Stages, Claimed, Working
  <2>3. [call[c] EXCEPT !.at = "finish", !.outcome = outcome] \in Calls
    BY <1>1, <2>2, CallChanges DEF AllTargets
  <2>4. [call[c] EXCEPT !.at = "finish", !.outcome = outcome].s = call[c].s
    BY <1>1, <2>2, CallKeeps
  <2> QED BY <2>1, <2>3, <2>4, <1>1 DEF Runs, TypeOK
<1>12. ASSUME NEW outcome \in Outcomes, Execute(c, outcome) PROVE TypeOK'
  <2>1. call[c].s \in Schedules
    BY <1>1, <1>12 DEF Execute
  <2>2. PICK v \in Calls : call' = [call EXCEPT ![c] = v] /\ v.s = call[c].s
    BY <1>11, <1>12 DEF Execute
  <2> QED BY <1>2, <1>3, <1>12, <2>1, <2>2 DEF Execute
<1>13. \A place \in Places : call[c].s \in Schedules /\ At(c, place) =>
         places' \in [Schedules -> Seq(Places)]
  <2>1. SUFFICES ASSUME NEW place \in Places, call[c].s \in Schedules, At(c, place)
                 PROVE  places' \in [Schedules -> Seq(Places)]
    OBVIOUS
  <2>2. places[call[c].s] \in Seq(Places)
    BY <1>3, <2>1
  <2>3. [places[call[c].s] EXCEPT ![call[c].run] = place] \in Seq(Places)
    BY <2>2, PlacesExcept
  <2>4. places' = [places EXCEPT ![call[c].s] = [places[call[c].s] EXCEPT ![call[c].run] = place]]
    BY <1>3, <2>1 DEF At
  <2> QED BY <1>3, <2>1, <2>3, <2>4
<1>14. ASSUME CreateWorkspace(c) PROVE TypeOK'
  <2>1. call[c].s \in Schedules /\ "note" \in Stages
    BY <1>1, <1>14 DEF CreateWorkspace, Stages, Claimed, Working
  <2>2. places' \in [Schedules -> Seq(Places)]
    BY <1>13, <1>14, <2>1 DEF CreateWorkspace, Places
  <2> QED BY <1>2, <1>3, <1>4, <1>14, <2>1, <2>2 DEF CreateWorkspace, Goes
<1>15. ASSUME recordRunWorkspace(c) PROVE TypeOK'
  <2>1. call[c].s \in Schedules /\ disk[call[c].s] \in Files /\ call[c].run \in Nat
    BY <1>1, <1>15 DEF recordRunWorkspace, Calls
  <2>2. disk' \in [Schedules -> Files]
    <3>1. Marked(disk[call[c].s], call[c].run,
                 IF call[c].at = "note" THEN "placed" ELSE "staffed") \in Files
      BY <2>1, FileTypes
    <3> QED BY <1>15, <2>1, <3>1, DiskTypes DEF recordRunWorkspace
  <2>3. (IF call[c].at = "note" THEN "spawn" ELSE "work") \in Stages
    BY DEF Stages, Claimed, Working
  <2> QED BY <1>2, <1>3, <1>4, <1>15, <2>1, <2>2, <2>3 DEF recordRunWorkspace, Goes
<1>16. ASSUME NEW ok \in BOOLEAN, NEW hasContent \in BOOLEAN,
              disposeScheduleRunWorkspace(c, ok, hasContent)
       PROVE  TypeOK'
  <2>1. call[c].s \in Schedules
    BY <1>1, <1>16 DEF disposeScheduleRunWorkspace
  <2>2. places' \in [Schedules -> Seq(Places)]
    BY <1>13, <1>16, <2>1 DEF disposeScheduleRunWorkspace, Places
  <2>3. PICK v \in Calls : call' = [call EXCEPT ![c] = v] /\ v.s = call[c].s
    BY <1>11, <1>16 DEF disposeScheduleRunWorkspace, Outcomes
  <2> QED BY <1>2, <1>3, <1>16, <2>1, <2>2, <2>3 DEF disposeScheduleRunWorkspace
<1>17. ASSUME finishRun(c) PROVE TypeOK'
  <2> DEFINE s == call[c].s
             ended == Marked(disk[s], call[c].run, "ended")
             file == Pruned(s, AfterRun(s, ended, call[c].outcome, c \in Manual))
  <2>1. s \in Schedules /\ disk[s] \in Files /\ call[c].run \in Nat /\ clock \in Nat
    BY <1>1, <1>17 DEF finishRun, Calls, TypeOK
  <2>2. ended \in Files
    BY <2>1, FileTypes
  <2>3. AfterRun(s, ended, call[c].outcome, c \in Manual) \in Files
    <3>1. (c \in Manual) \in BOOLEAN
      OBVIOUS
    <3> HIDE DEF ended
    <3> QED BY <2>1, <2>2, <3>1, AfterRunTypes
  <2>4. file \in Files
    BY <2>1, <2>3, FileTypes
  <2>5. disk' \in [Schedules -> Files]
    <3>1. CASE Exists(s)
      <4>1. Write(s, file)
        BY <1>17, <3>1 DEF finishRun
      <4> HIDE DEF file
      <4> QED BY <2>1, <2>4, <4>1, DiskTypes
    <3>2. CASE ~Exists(s)
      BY <1>3, <1>17, <3>2 DEF finishRun
    <3> QED BY <3>1, <3>2
  <2>6. PICK v \in Calls : call' = [call EXCEPT ![c] = v] /\ v.at \in {"idle", "loop"}
    BY <1>1, <1>17 DEF finishRun, Returns, Throws
  <2> QED BY <1>2, <1>3, <1>17, <2>1, <2>5, <2>6 DEF finishRun
<1> QED BY <1>5, <1>6, <1>7, <1>8, <1>9, <1>10, <1>12, <1>14, <1>15, <1>16, <1>17 DEF Call

\* The end of the daemon, its start and the passing of time keep the types.
LEMMA BootTypes ==
  ASSUME TypeOK, Crash \/ Boot \/ Pass
  PROVE  TypeOK'
<1> USE DEF bootVars, store, history, firings
<1>1. ASSUME Crash PROVE TypeOK'
  <2>1. call' = [c \in Callers |-> Idle] /\ Idle \in Calls /\ Idle.at = "idle"
    <3>1. Idle \in Calls /\ Idle.at = "idle"
      BY CallOfTypes DEF Idle, Stages
    <3> QED BY <1>1, <3>1 DEF Crash
  <2>2. /\ call' \in [Callers -> Calls]
        /\ \A d \in Callers : call'[d].at \notin {"idle", "loop"} => call'[d].s \in Schedules
    BY <2>1
  <2>3. astray' \subseteq Schedules \X Nat
    <3>1. \A s \in Schedules : Len(places[s]) \in Nat
      BY DEF TypeOK
    <3>2. \A s \in Schedules : \A i \in 1..Len(places[s]) : <<s, i>> \in Schedules \X Nat
      BY <3>1
    <3>3. astray \subseteq Schedules \X Nat
      BY DEF TypeOK
    <3>4. ASSUME NEW x \in astray', x \notin astray PROVE x \in Schedules \X Nat
      <4>1. PICK s \in Schedules :
              x \in {<<s, id>> : id \in {i \in 1..Len(places[s]) :
                                           places[s][i] = "hidden" /\ Untold(s, i)}}
        BY <1>1, <3>4 DEF Crash
      <4> QED BY <3>2, <4>1
    <3> QED BY <3>3, <3>4
  <2>4. used' \in [edits : Nat, manual : Nat, crashes : Nat]
    BY <1>1, UsedTypes DEF Crash, TypeOK
  <2> QED BY <1>1, <2>2, <2>3, <2>4 DEF Crash, TypeOK
<1>2. ASSUME start \/ Recovered \/ Started PROVE TypeOK'
  BY <1>2 DEF start, Recovered, Started, TypeOK
<1>3. ASSUME NEW s \in Schedules, recoverInterruptedSchedule(s) PROVE TypeOK'
  <2> DEFINE lost == disk[s].runs \ Finished(disk[s].runs)
             first == {run \in lost : \A other \in lost : run.id =< other.id}
             failed == [disk[s] EXCEPT !.runs =
                          (@ \ first) \cup {[run EXCEPT !.is = "ended"] : run \in first}]
  <2>1. disk[s] \in Files /\ clock \in Nat
    BY DEF TypeOK
  <2>2. first \subseteq disk[s].runs /\ disk[s].runs \subseteq RunRecords
    BY <2>1 DEF Files
  <2>3. failed \in Files
    <3>1. {[run EXCEPT !.is = "ended"] : run \in first} \subseteq RunRecords
      BY <2>2 DEF RunRecords
    <3>2. (disk[s].runs \ first) \cup {[run EXCEPT !.is = "ended"] : run \in first}
            \in SUBSET RunRecords
      BY <2>2, <3>1
    <3>3. \A file \in Files, r \in SUBSET RunRecords : [file EXCEPT !.runs = r] \in Files
      BY DEF Files
    <3>4. failed = [disk[s] EXCEPT !.runs = (disk[s].runs \ first) \cup
                                  {[run EXCEPT !.is = "ended"] : run \in first}]
      BY <2>1 DEF Files
    <3> HIDE DEF first, failed
    <3> QED BY <2>1, <3>2, <3>3, <3>4
  <2>4. failed.next \in Nat => Planned(failed, "active", NextAfter(s, failed.next)) \in Files
    <3> HIDE DEF failed
    <3> QED BY <2>1, <2>3, NextTime, PlannedTypes
  <2>5. failed.next \in Nat
    <3> HIDE DEF failed
    <3> QED BY <2>3 DEF Files
  <2>6. /\ Write(s, IF failed.status = "active" /\ failed.next \in 1..clock
                    THEN Planned(failed, "active", NextAfter(s, failed.next)) ELSE failed)
        /\ mending' = mending \cup Interrupted(s, first)
    BY <1>3 DEF recoverInterruptedSchedule
  <2>7. disk' \in [Schedules -> Files]
    <3> HIDE DEF failed
    <3> QED BY <2>3, <2>4, <2>5, <2>6, DiskTypes
  <2>8. Interrupted(s, first) \subseteq [s : Schedules, run : Nat, to : Places]
    <3>1. ASSUME NEW m \in Interrupted(s, first) PROVE m \in [s : Schedules, run : Nat, to : Places]
      <4>1. PICK run \in first :
              m = [s |-> s, run |-> run.id,
                   to |-> IF run.is = "placed" \/ disk[s].target = "archive"
                          THEN "none" ELSE "visible"]
        BY DEF Interrupted
      <4>2. run.id \in Nat
        BY <2>2 DEF RunRecords
      <4> QED BY <4>1, <4>2 DEF Places
    <3> QED BY <3>1
  <2> QED BY <1>3, <2>6, <2>7, <2>8 DEF recoverInterruptedSchedule, TypeOK
<1>4. ASSUME NEW s \in Schedules, sweepOrphanedSchedule(s) PROVE TypeOK'
  <2>1. disk[s] \in Files /\ Completed(disk[s]) \in Files
    BY PlannedTypes DEF TypeOK, Completed
  <2>2. disk' \in [Schedules -> Files]
    BY <1>4, <2>1, DiskTypes DEF sweepOrphanedSchedule
  <2> QED BY <1>4, <2>2 DEF sweepOrphanedSchedule, TypeOK
<1>5. ASSUME NEW m \in mending, Mend(m) PROVE TypeOK'
  <2>1. m.s \in Schedules /\ m.to \in Places
    BY DEF TypeOK
  <2>2. places[m.s] \in Seq(Places) /\ places \in [Schedules -> Seq(Places)]
    BY <2>1 DEF TypeOK
  <2>3. [places[m.s] EXCEPT ![m.run] = m.to] \in Seq(Places)
    BY <2>1, <2>2, PlacesExcept
  <2>4. places' = [places EXCEPT ![m.s] = [places[m.s] EXCEPT ![m.run] = m.to]]
    BY <1>5, <2>1, <2>2 DEF Mend
  <2>5. places' \in [Schedules -> Seq(Places)]
    BY <2>1, <2>2, <2>3, <2>4
  <2> QED BY <1>5, <2>5 DEF Mend, TypeOK
<1>6. ASSUME Pass PROVE TypeOK'
  <2>1. /\ UNCHANGED <<disk, places, running, call, boot, todo, mending>>
        /\ UNCHANGED <<archived, notices, slots, outrun, late, astray, used>>
        /\ clock' = clock + 1
    BY <1>6 DEF Pass, daemon
  <2>2. clock' \in Nat
    BY <2>1 DEF TypeOK
  <2>3. /\ disk' \in [Schedules -> Files] /\ places' \in [Schedules -> Seq(Places)]
        /\ running' \subseteq Schedules /\ call' \in [Callers -> Calls]
        /\ \A c \in Callers : call'[c].at \notin {"idle", "loop"} => call'[c].s \in Schedules
        /\ boot' \in {"off", "recover", "sweep", "up"} /\ todo' \subseteq Schedules
        /\ mending' \subseteq [s : Schedules, run : Nat, to : Places]
    BY <2>1 DEF TypeOK
  <2>4. /\ archived' \subseteq Schedules /\ notices' \subseteq Schedules
        /\ slots' \in [Schedules -> Seq(Nat)]
        /\ outrun' \subseteq Ticks /\ late' \subseteq Schedules \X Nat
        /\ astray' \subseteq Schedules \X Nat
        /\ used' \in [edits : Nat, manual : Nat, crashes : Nat]
    BY <2>1 DEF TypeOK
  <2> QED BY <2>2, <2>3, <2>4 DEF TypeOK
<1> QED BY <1>1, <1>2, <1>3, <1>4, <1>5, <1>6 DEF Boot

\* Every reachable state has its type, for any schedules, ticks and requests.
THEOREM ScheduleTypes == Spec => []TypeOK
<1>1. Init => TypeOK
  <2>1. Idle \in Calls /\ Idle.at = "idle"
    BY CallOfTypes DEF Idle, Stages
  <2>2. NoFile \in Files
    BY DEF NoFile, Files, AllTargets
  <2> QED BY <2>1, <2>2 DEF Init, TypeOK
<1>2. TypeOK /\ [Next]_vars => TypeOK'
  <2>1. SUFFICES ASSUME TypeOK, [Next]_vars PROVE TypeOK'
    OBVIOUS
  <2>2. CASE UNCHANGED vars
    BY <2>1, <2>2 DEF TypeOK, vars
  <2> QED BY <2>1, <2>2, RequestTypes, CallTypes, BootTypes DEF Next
<1> QED BY <1>1, <1>2, PTL DEF Spec

-----------------------------------------------------------------------------
(***************************************************************************)
(* One run at a time.  Who holds a schedule has it in running, nobody      *)
(* holds it beside him, and nothing is held unless the daemon is up.  The  *)
(* file has at most one open run; once recovery has looked at the file,    *)
(* it is the run of the call that holds the schedule.                      *)
(***************************************************************************)
Open(s) == {run \in disk[s].runs : run.is # "ended"}
Minds(c, s, run) == Holds(c, s) /\ call[c].at \in Working /\ call[c].run = run.id
Looked(s) == boot \in {"sweep", "up"} \/ (boot = "recover" /\ s \notin todo)

HeldIsRunning == \A c \in Callers : call[c].at \in Claimed => call[c].s \in running
HeldOnce  == \A c, d \in Callers, s \in Schedules : Holds(c, s) /\ Holds(d, s) => c = d
HeldUp    == boot # "up" => \A c \in Callers : call[c].at = "idle"
OpenOnce  == \A s \in Schedules : \A run, other \in Open(s) : run = other
OpenHeld  == \A s \in Schedules : Looked(s) =>
               \A run \in Open(s) : \E c \in Callers : Minds(c, s, run)
NoneWithoutFile == \A s \in Schedules : ~Exists(s) => disk[s].runs = {}

ClaimInv == /\ HeldIsRunning /\ HeldOnce /\ HeldUp
            /\ OpenOnce /\ OpenHeld /\ NoneWithoutFile

\* A step that leaves the calls and opens no run keeps the invariant.
LEMMA QuietStep ==
  ASSUME ClaimInv, UNCHANGED <<running, call, boot, todo>>,
         \A s \in Schedules : disk'[s].runs \subseteq disk[s].runs, NoneWithoutFile'
  PROVE  ClaimInv'
<1>1. HeldIsRunning' /\ HeldOnce' /\ HeldUp'
  BY DEF ClaimInv, HeldIsRunning, HeldOnce, HeldUp, Holds
<1>2. \A s \in Schedules : Open(s)' \subseteq Open(s)
  BY DEF Open
<1>3. OpenOnce'
  BY <1>2 DEF ClaimInv, OpenOnce
<1>4. OpenHeld'
  BY <1>2 DEF ClaimInv, OpenHeld, Minds, Holds, Looked
<1> QED BY <1>1, <1>3, <1>4 DEF ClaimInv

\* One file is written, with no run more than before.
LEMMA QuietWrite ==
  ASSUME TypeOK, ClaimInv, UNCHANGED <<running, call, boot, todo>>, NEW s \in Schedules,
         NEW file, Write(s, file), file.runs \subseteq disk[s].runs,
         file.status \notin {"unborn", "deleted"} \/ file.runs = {} \/ ~Exists(s)
  PROVE  ClaimInv'
<1>1. /\ disk'[s] = file
      /\ \A other \in Schedules : other # s => disk'[other] = disk[other]
  BY DEF TypeOK, Write
<1>2. \A other \in Schedules : disk'[other].runs \subseteq disk[other].runs
  BY <1>1
<1>3. NoneWithoutFile'
  BY <1>1, <1>2 DEF ClaimInv, NoneWithoutFile, Exists
<1> QED BY <1>2, <1>3, QuietStep

\* Requests keep the invariant: runOnce claims nothing yet.
LEMMA RequestClaims ==
  ASSUME TypeOK, ClaimInv, Request
  PROVE  ClaimInv'
<1> USE DEF requestVars
<1>1. ASSUME NEW s \in Schedules, NEW soon \in RunOnCreate, NEW target \in Targets[s],
             create(s, target, soon)
      PROVE  ClaimInv'
  <2> DEFINE file == [status |-> "active", next |-> FirstRun(s, soon), target |-> target,
                      runs |-> {}]
  <2>1. file.runs = {} /\ Write(s, file)
    BY <1>1 DEF create
  <2> HIDE DEF file
  <2> QED BY <1>1, <2>1, QuietWrite DEF create
<1>2. ASSUME NEW s \in Schedules, NEW status \in {"active", "paused", "completed"},
             NEW next, Write(s, Planned(disk[s], status, next)),
             UNCHANGED <<running, call, boot, todo>>
      PROVE  ClaimInv'
  <2>1. /\ Planned(disk[s], status, next).runs = disk[s].runs
        /\ Planned(disk[s], status, next).status = status
    BY DEF Planned
  <2> QED BY <1>2, <2>1, QuietWrite
<1>3. ASSUME NEW s \in Schedules,
             (\E soon \in RunOnCreate : createOrReplace(s, soon)) \/ pause(s) \/ resume(s)
      PROVE  ClaimInv'
  BY <1>2, <1>3 DEF createOrReplace, pause, resume
<1>4. ASSUME NEW s \in Schedules, update(s) PROVE ClaimInv'
  <2>1. disk[s].status \in {"active", "paused", "completed"} /\ disk[s] \in Files
    BY <1>4 DEF update, Exists, TypeOK, Files
  <2>2. \A target : /\ [disk[s] EXCEPT !.target = target].runs = disk[s].runs
                    /\ [disk[s] EXCEPT !.target = target].status = disk[s].status
    BY <2>1 DEF Files
  <2>3. CASE \E target \in NewAgent : Write(s, [disk[s] EXCEPT !.target = target])
    <3>1. PICK target \in NewAgent : Write(s, [disk[s] EXCEPT !.target = target])
      BY <2>3
    <3>2. /\ [disk[s] EXCEPT !.target = target].runs = disk[s].runs
          /\ [disk[s] EXCEPT !.target = target].status = disk[s].status
      BY <2>2
    <3> DEFINE file == [disk[s] EXCEPT !.target = target]
    <3>3. /\ file.runs = disk[s].runs /\ Write(s, file)
          /\ file.status \notin {"unborn", "deleted"}
      BY <2>1, <3>1, <3>2
    <3> HIDE DEF file
    <3> QED BY <1>4, <3>3, QuietWrite DEF update
  <2>4. CASE Write(s, Planned(disk[s], disk[s].status,
                              IF disk[s].status = "active" THEN clock + Every[s] ELSE 0))
    BY <1>2, <1>4, <2>1, <2>4 DEF update
  <2> QED BY <1>4, <2>3, <2>4 DEF update
<1>5. ASSUME NEW s \in Schedules, delete(s) PROVE ClaimInv'
  <2> DEFINE file == [NoFile EXCEPT !.status = "deleted"]
  <2>1. file.runs = {} /\ Write(s, file)
    BY <1>5 DEF delete, NoFile
  <2> HIDE DEF file
  <2> QED BY <1>5, <2>1, QuietWrite DEF delete
<1>6. ASSUME NEW s \in Schedules, Archive(s) PROVE ClaimInv'
  <2>1. NoneWithoutFile'
    BY <1>6 DEF Archive, ClaimInv, NoneWithoutFile, Exists
  <2> QED BY <1>6, <2>1, QuietStep DEF Archive
<1>7. ASSUME NEW s \in Schedules, completeForAgent(s) PROVE ClaimInv'
  <2>1. CASE Exists(s)
    BY <1>2, <1>7, <2>1 DEF completeForAgent, Completed
  <2>2. CASE ~Exists(s)
    BY <1>7, <2>2, QuietWrite DEF completeForAgent
  <2> QED BY <2>1, <2>2
<1>8. ASSUME NEW s \in Schedules, NEW c \in Manual, runOnce(c, s) PROVE ClaimInv'
  <2>1. c \in Callers /\ call \in [Callers -> Calls]
    BY DEF Callers, TypeOK
  <2>2. CallOf("claim", 0, {}, {}, s).at = "claim"
    BY DEF CallOf
  <2>3. /\ call'[c].at = "claim" /\ \A d \in Callers : d # c => call'[d] = call[d]
        /\ call[c].at = "idle"
    BY <1>8, <2>1, <2>2 DEF runOnce
  <2>4. UNCHANGED <<disk, running, boot, todo>> /\ boot = "up"
    BY <1>8 DEF runOnce, store
  <2>5. "claim" \notin Claimed /\ "claim" \notin Working /\ "idle" \notin Claimed
    BY DEF Claimed, Working
  <2>6. \A d \in Callers, other \in Schedules : Holds(d, other)' <=> Holds(d, other)
    BY <2>3, <2>5 DEF Holds
  <2>7. HeldIsRunning' /\ HeldOnce' /\ HeldUp'
    BY <2>3, <2>4, <2>5, <2>6 DEF ClaimInv, HeldIsRunning, HeldOnce, HeldUp
  <2>8. OpenOnce' /\ NoneWithoutFile'
    BY <2>4 DEF ClaimInv, OpenOnce, Open, NoneWithoutFile, Exists
  <2>9. OpenHeld'
    <3>1. \A run : \A d \in Callers, other \in Schedules : Minds(d, other, run) => Minds(d, other, run)'
      BY <2>3, <2>5, <2>6 DEF Minds, Working
    <3> QED BY <2>4, <3>1 DEF ClaimInv, OpenHeld, Open, Looked
  <2> QED BY <2>7, <2>8, <2>9 DEF ClaimInv
<1> QED BY <1>1, <1>3, <1>4, <1>5, <1>6, <1>7, <1>8 DEF Request

\* What a step of a call has to respect: it holds a schedule only alone and
\* with its claim, and what it leaves open is its own run or another's.
LEMMA HolderStep ==
  ASSUME TypeOK, ClaimInv, boot = "up", UNCHANGED <<boot, todo>>,
         NEW c \in Callers, NEW v \in Calls, call' = [call EXCEPT ![c] = v],
         v.at \in Claimed => /\ v.s \in running'
                             /\ \A d \in Callers : d # c => ~Holds(d, v.s),
         \A d \in Callers : d # c /\ call[d].at \in Claimed => call[d].s \in running',
         OpenOnce', NoneWithoutFile',
         \A s \in Schedules : \A run \in Open(s)' :
           \/ \E d \in Callers : d # c /\ Minds(d, s, run)
           \/ v.at \in Working /\ v.s = s /\ v.run = run.id
  PROVE  ClaimInv'
<1>1. call'[c] = v /\ \A d \in Callers : d # c => call'[d] = call[d]
  BY DEF TypeOK
<1>2. HeldIsRunning' /\ HeldUp'
  BY <1>1 DEF HeldIsRunning, HeldUp
<1>3. HeldOnce'
  <2>1. \A d \in Callers, s \in Schedules : d # c /\ Holds(d, s)' => Holds(d, s)
    BY <1>1 DEF Holds
  <2>2. \A s \in Schedules, d \in Callers : Holds(c, s)' /\ Holds(d, s)' => c = d
    BY <1>1, <2>1 DEF Holds
  <2>3. \A s \in Schedules, d, e \in Callers :
          d # c /\ e # c /\ Holds(d, s)' /\ Holds(e, s)' => d = e
    BY <2>1 DEF ClaimInv, HeldOnce
  <2> QED BY <2>2, <2>3 DEF HeldOnce
<1>4. OpenHeld'
  <2>1. \A run : \A d \in Callers, s \in Schedules : d # c /\ Minds(d, s, run) => Minds(d, s, run)'
    BY <1>1 DEF Minds, Holds
  <2>2. \A run : \A s \in Schedules :
          v.at \in Working /\ v.s = s /\ v.run = run.id => Minds(c, s, run)'
    BY <1>1 DEF Minds, Holds, Claimed
  <2> QED BY <2>1, <2>2 DEF OpenHeld
<1> QED BY <1>2, <1>3, <1>4 DEF ClaimInv

\* Steps of calls keep the invariant.
LEMMA CallClaims ==
  ASSUME TypeOK, ClaimInv, NEW c \in Callers, Call(c)
  PROVE  ClaimInv'
<1> USE DEF callVars, store
<1>1. /\ call[c] \in Calls /\ call \in [Callers -> Calls] /\ call[c].run \in Nat
      /\ call[c].at \notin {"idle", "loop"} =>
           call[c].s \in Schedules /\ disk[call[c].s] \in Files
      /\ Idle \in Calls /\ Idle.at = "idle"
      /\ Rest(c) \in Calls /\ Rest(c).at \in {"idle", "loop"}
  BY RestTypes DEF TypeOK, Calls
<1>2. boot = "up" /\ UNCHANGED <<boot, todo>>
  BY DEF ClaimInv, HeldUp, Call, tick, Proceed, completeScheduleIfDue, Read, Claim,
         appendRunningRun, CreateWorkspace, recordRunWorkspace, Execute,
         disposeScheduleRunWorkspace, finishRun
<1>3. \A s \in Schedules : \A run \in Open(s) : \E d \in Callers : Minds(d, s, run)
  <2>1. \A s \in Schedules : Looked(s)
    BY <1>2 DEF Looked
  <2>2. OpenHeld
    BY DEF ClaimInv
  <2> QED BY <2>1, <2>2 DEF OpenHeld
<1>4. \A d \in Callers : d # c /\ call[d].at \in Claimed =>
        /\ call[d].s \in running
        /\ call[c].at \in Claimed => call[d].s # call[c].s
  BY <1>1 DEF ClaimInv, HeldIsRunning, HeldOnce, Holds, TypeOK, Claimed, Working
\* Steps that neither hold nor claim.
<1>5. ASSUME call[c].at \notin Claimed, UNCHANGED running,
             \A s \in Schedules : disk'[s].runs \subseteq disk[s].runs, NoneWithoutFile',
             NEW v \in Calls, call' = [call EXCEPT ![c] = v], v.at \notin Claimed
      PROVE  ClaimInv'
  <2>1. OpenOnce'
    BY <1>5 DEF ClaimInv, OpenOnce, Open
  <2>2. \A s \in Schedules : \A run \in Open(s)' : \E d \in Callers : d # c /\ Minds(d, s, run)
    BY <1>3, <1>5 DEF Open, Minds, Holds
  <2> QED BY <1>2, <1>4, <1>5, <2>1, <2>2, HolderStep
<1>6. ASSUME call[c].at \notin Claimed, UNCHANGED <<running, disk>>,
             NEW v \in Calls, call' = [call EXCEPT ![c] = v], v.at \notin Claimed
      PROVE  ClaimInv'
  <2>1. NoneWithoutFile'
    BY <1>6 DEF ClaimInv, NoneWithoutFile, Exists
  <2> QED BY <1>5, <1>6, <2>1
<1>7. /\ {"idle", "loop", "complete", "read", "claim"} \cap Claimed = {}
      /\ Working \subseteq Claimed /\ "append" \in Claimed
  BY DEF Claimed, Working
<1>8. ASSUME tick(c) PROVE ClaimInv'
  <2>1. PICK due, over \in SUBSET Schedules :
          call' = [call EXCEPT ![c] = CallOf("loop", clock, due, over, 0)]
    BY <1>8 DEF tick
  <2>2. /\ CallOf("loop", clock, due, over, 0) \in Calls
        /\ CallOf("loop", clock, due, over, 0).at = "loop"
    <3>1. "loop" \in Stages /\ clock \in Nat /\ 0 \in Nat
      BY DEF Stages, TypeOK
    <3> QED BY <3>1, CallOfTypes
  <2> QED BY <1>6, <1>7, <1>8, <2>1, <2>2 DEF tick
<1>9. ASSUME Proceed(c) PROVE ClaimInv'
  <2>1. CASE Throws(c)
    BY <1>1, <1>6, <1>7, <1>9, <2>1 DEF Proceed, Throws
  <2>2. CASE ~Throws(c)
    <3>1. PICK s \in Eligible(c) :
            call' = [call EXCEPT ![c] =
                 CallOf(IF s \in call[c].over THEN "complete" ELSE "read", call[c].now,
                        {other \in call[c].due : other > s},
                        {other \in call[c].over : other > s}, s)]
      BY <1>1, <1>9, <2>2 DEF Proceed
    <3>2. /\ call[c].now \in Nat /\ call[c].due \in SUBSET Schedules
          /\ call[c].over \in SUBSET Schedules
      BY <1>1 DEF Calls
    <3>3. s \in Nat
      BY <3>2 DEF Eligible, Schedules
    <3> DEFINE stage == IF s \in call[c].over THEN "complete" ELSE "read"
               v == CallOf(stage, call[c].now, {other \in call[c].due : other > s},
                           {other \in call[c].over : other > s}, s)
    <3>4. stage \in Stages /\ stage \notin Claimed
      BY <1>7 DEF Stages
    <3>5. /\ {other \in call[c].due : other > s} \in SUBSET Schedules
          /\ {other \in call[c].over : other > s} \in SUBSET Schedules
      BY <3>2
    <3>6. call' = [call EXCEPT ![c] = v]
      BY <3>1
    <3> HIDE DEF stage
    <3>7. v \in Calls /\ v.at \notin Claimed
      BY <3>2, <3>3, <3>4, <3>5, CallOfTypes
    <3> HIDE DEF v
    <3> QED BY <1>6, <1>7, <1>9, <3>6, <3>7 DEF Proceed
  <2> QED BY <2>1, <2>2
<1>10. ASSUME completeScheduleIfDue(c) PROVE ClaimInv'
  <2> DEFINE s == call[c].s
  <2>1. s \in Schedules /\ Completed(disk[s]).runs = disk[s].runs
    BY <1>1, <1>10 DEF completeScheduleIfDue, Completed, Planned
  <2>2. /\ disk'[s].runs = disk[s].runs
        /\ \A other \in Schedules : other # s => disk'[other] = disk[other]
        /\ Exists(s) \/ disk'[s] = disk[s]
    BY <1>10, <2>1 DEF completeScheduleIfDue, Write, TypeOK, Exists
  <2>3. NoneWithoutFile'
    <3>1. \A other \in Schedules : disk'[other].runs = disk[other].runs /\
            (~Exists(other)' => ~Exists(other))
      <4>1. s \in Schedules
        BY <2>1
      <4>2. disk'[s] = disk[s] \/ disk'[s] = Completed(disk[s])
        BY <1>10, <2>1 DEF completeScheduleIfDue, Write, TypeOK
      <4>3. Completed(disk[s]).status = "completed"
        BY DEF Completed, Planned
      <4> HIDE DEF s
      <4>4. \A other \in Schedules : ~(disk'[other].status \notin {"unborn", "deleted"}) =>
              ~(disk[other].status \notin {"unborn", "deleted"})
        BY <2>2, <4>2, <4>3
      <4> QED BY <2>2, <4>4 DEF Exists
    <3> QED BY <3>1 DEF ClaimInv, NoneWithoutFile
  <2>4. PICK v \in Calls : call' = [call EXCEPT ![c] = v] /\ v.at \in {"idle", "loop"}
    BY <1>1, <1>10 DEF completeScheduleIfDue, Returns, Throws
  <2> QED BY <1>5, <1>7, <1>10, <2>2, <2>3, <2>4 DEF completeScheduleIfDue
<1>11. ASSUME Read(c) PROVE ClaimInv'
  <2>1. CASE Returns(c)
    BY <1>1, <1>6, <1>7, <1>11, <2>1 DEF Read, Returns
  <2>2. CASE ~Returns(c)
    <3> DEFINE v == [call[c] EXCEPT !.at = "claim", !.slot = disk[call[c].s].next]
    <3>1. call' = [call EXCEPT ![c] = v]
      BY <1>1, <1>11, <2>2 DEF Read
    <3>2. disk[call[c].s].next \in Nat /\ "claim" \in Stages
      BY <1>1, <1>11 DEF Read, Files, Stages
    <3>3. v \in Calls
      BY <1>1, <3>2, CallChanges DEF Outcomes, AllTargets
    <3>4. v.at = "claim"
      BY <1>1, <3>2, CallKeeps
    <3> HIDE DEF v
    <3> QED BY <1>6, <1>7, <1>11, <3>1, <3>3, <3>4 DEF Read
  <2> QED BY <2>1, <2>2
\* The claim: nobody holds the schedule, for it would be in running.
<1>12. ASSUME Claim(c) PROVE ClaimInv'
  <2>1. CASE call[c].s \in running
    BY <1>1, <1>6, <1>7, <1>12, <2>1 DEF Claim, Returns
  <2>2. CASE call[c].s \notin running
    <3>0. Goes(c, "append") /\ running' = running \cup {call[c].s}
      BY <1>12, <2>2 DEF Claim
    <3> DEFINE v == [call[c] EXCEPT !.at = "append"]
    <3>1. call' = [call EXCEPT ![c] = v]
      BY <1>1, <3>0 DEF Goes
    <3>2. "append" \in Stages
      BY DEF Stages, Claimed
    <3>3. v \in Calls
      BY <1>1, <3>2, CallChanges DEF Outcomes, AllTargets
    <3>4. v.at = "append" /\ v.s = call[c].s
      BY <1>1, <3>2, CallKeeps
    <3> HIDE DEF v
    <3>5. \A d \in Callers : d # c => ~Holds(d, call[c].s)
      BY <1>4, <2>2 DEF Holds
    <3>6. OpenOnce' /\ NoneWithoutFile'
      BY <1>12 DEF Claim, ClaimInv, OpenOnce, Open, NoneWithoutFile, Exists
    <3>7. \A s \in Schedules : \A run \in Open(s)' : \E d \in Callers : d # c /\ Minds(d, s, run)
      BY <1>3, <1>7, <1>12 DEF Claim, Open, Minds, Holds
    <3> QED BY <1>2, <1>4, <3>0, <3>1, <3>3, <3>4, <3>5, <3>6, <3>7, HolderStep
  <2> QED BY <2>1, <2>2
\* The run's record: no other run of the file is open.
<1>13. ASSUME appendRunningRun(c) PROVE ClaimInv'
  <2>0. PICK s \in Schedules : s = call[c].s /\ call[c].at = "append"
    BY <1>1, <1>13 DEF appendRunningRun
  <2> DEFINE id == Len(places[s]) + 1
  <2>1. s \in Schedules /\ disk[s] \in Files /\ call[c].at = "append"
    BY <2>0, <1>1, <1>13 DEF appendRunningRun
  <2>2. id \in Nat
    BY <2>0, <2>1, LenProperties DEF TypeOK
  <2>3. Open(s) = {}
    BY <2>0, <1>3, <1>4, <1>7, <2>1 DEF Minds, Holds, Working
  <2>4. s \in running /\ running' = running /\ \A d \in Callers : d # c => ~Holds(d, s)
    BY <2>0, <1>4, <1>7, <1>13, <2>1 DEF ClaimInv, HeldIsRunning, Holds, appendRunningRun
  <2>5. CASE Exists(s)
    <3> DEFINE v == [call[c] EXCEPT !.at = "run", !.slot = 0, !.run = id,
                                    !.target = disk[s].target]
               new == [id |-> id, is |-> "running"]
    <3>1. call' = [call EXCEPT ![c] = v]
      BY <2>0, <1>1, <1>13, <2>5 DEF appendRunningRun
    <3>2. disk[s].target \in AllTargets /\ "run" \in Stages /\ 0 \in Nat /\ "run" \in Working
      BY <2>0, <2>1 DEF Files, Stages, Claimed, Working
    <3>3. v \in Calls
      BY <2>0, <1>1, <2>2, <3>2, CallChanges DEF Outcomes
    <3>4. v.at = "run" /\ v.s = s /\ v.run = id
      BY <2>0, <1>1, <3>2, CallKeeps
    <3> HIDE DEF v
    <3>5. /\ disk'[s].runs = disk[s].runs \cup {new}
          /\ disk'[s].status = disk[s].status
          /\ \A other \in Schedules : other # s => disk'[other] = disk[other]
      <4>1. Write(s, [disk[s] EXCEPT !.runs = @ \cup {new}])
        BY <2>0, <1>13, <2>5 DEF appendRunningRun
      <4>2. \A file \in Files : /\ [file EXCEPT !.runs = @ \cup {new}].runs = file.runs \cup {new}
                                /\ [file EXCEPT !.runs = @ \cup {new}].status = file.status
        BY DEF Files
      <4> QED BY <2>0, <2>1, <4>1, <4>2 DEF Write, TypeOK
    <3>6. /\ Open(s)' \subseteq {new}
          /\ \A other \in Schedules : other # s => Open(other)' = Open(other)
      BY <2>0, <2>1, <2>3, <3>5 DEF Open
    <3>7. OpenOnce'
      <4>1. \A run, other \in Open(s)' : run = other
        BY <3>6
      <4>2. \A t \in Schedules : t # s => \A run, other \in Open(t)' : run = other
        BY <3>6 DEF ClaimInv, OpenOnce
      <4> QED BY <4>1, <4>2 DEF OpenOnce
    <3>8. NoneWithoutFile'
      BY <2>0, <2>5, <3>5 DEF ClaimInv, NoneWithoutFile, Exists
    <3>9. \A other \in Schedules : \A run \in Open(other)' :
            \/ \E d \in Callers : d # c /\ Minds(d, other, run)
            \/ v.at \in Working /\ v.s = other /\ v.run = run.id
      <4>1. ASSUME NEW other \in Schedules, NEW run \in Open(other)', other # s
            PROVE  \E d \in Callers : d # c /\ Minds(d, other, run)
        BY <2>0, <1>3, <3>6, <4>1 DEF Minds, Holds
      <4>2. \A run \in Open(s)' : v.at \in Working /\ v.s = s /\ v.run = run.id
        BY <2>0, <3>2, <3>4, <3>6
      <4> QED BY <2>0, <2>1, <4>1, <4>2
    <3>10. /\ v.at \in Claimed => v.s \in running' /\ \A d \in Callers : d # c => ~Holds(d, v.s)
           /\ \A d \in Callers : d # c /\ call[d].at \in Claimed => call[d].s \in running'
      BY <1>4, <2>4, <3>4
    <3> QED BY <1>2, <3>1, <3>3, <3>7, <3>8, <3>9, <3>10, HolderStep
  <2>6. CASE ~Exists(s)
    <3>1. Throws(c) /\ UNCHANGED disk
      BY <2>0, <1>13, <2>6 DEF appendRunningRun
    <3>2. OpenOnce' /\ NoneWithoutFile'
      BY <2>0, <3>1 DEF ClaimInv, OpenOnce, Open, NoneWithoutFile, Exists
    <3>3. \A other \in Schedules : \A run \in Open(other)' :
            \E d \in Callers : d # c /\ Minds(d, other, run)
      BY <2>0, <1>3, <2>1, <2>3, <3>1 DEF Open, Minds, Holds, Working
    <3>4. Idle.at \notin Claimed /\ call' = [call EXCEPT ![c] = Idle]
      BY <2>0, <1>1, <1>7, <3>1 DEF Throws
    <3> QED BY <2>0, <1>1, <1>2, <1>4, <2>4, <3>2, <3>3, <3>4, HolderStep
  <2> QED BY <2>0, <2>5, <2>6
\* Steps of the run itself.
<1>14. ASSUME call[c].at \in Working, UNCHANGED running,
              NEW v \in Calls, call' = [call EXCEPT ![c] = v],
              v.at \in Working, v.s = call[c].s, v.run = call[c].run,
              OpenOnce', NoneWithoutFile',
              \A s \in Schedules : \A run \in Open(s)' : \E old \in Open(s) : old.id = run.id
       PROVE  ClaimInv'
  <2>1. /\ v.at \in Claimed /\ v.s \in running'
        /\ \A d \in Callers : d # c => ~Holds(d, v.s)
    BY <1>4, <1>7, <1>14 DEF ClaimInv, HeldIsRunning, Holds
  <2>2. \A s \in Schedules : \A run \in Open(s)' :
           \/ \E d \in Callers : d # c /\ Minds(d, s, run)
           \/ v.at \in Working /\ v.s = s /\ v.run = run.id
    BY <1>3, <1>14 DEF Minds, Holds
  <2>3. \A d \in Callers : d # c /\ call[d].at \in Claimed => call[d].s \in running'
    BY <1>4, <1>14
  <2>4. /\ call' = [call EXCEPT ![c] = v] /\ OpenOnce' /\ NoneWithoutFile'
    BY <1>14
  <2> QED BY <1>2, <2>1, <2>2, <2>3, <2>4, HolderStep
<1>15. ASSUME call[c].at \in Working, UNCHANGED <<running, disk>>,
              NEW v \in Calls, call' = [call EXCEPT ![c] = v],
              v.at \in Working, v.s = call[c].s, v.run = call[c].run
       PROVE  ClaimInv'
  <2>1. OpenOnce' /\ NoneWithoutFile' /\ \A s \in Schedules : Open(s)' = Open(s)
    BY <1>15 DEF ClaimInv, OpenOnce, Open, NoneWithoutFile, Exists
  <2> QED BY <1>14, <1>15, <2>1
<1>16. \A stage \in Working :
         /\ [call[c] EXCEPT !.at = stage] \in Calls
         /\ [call[c] EXCEPT !.at = stage].at = stage
         /\ [call[c] EXCEPT !.at = stage].s = call[c].s
         /\ [call[c] EXCEPT !.at = stage].run = call[c].run
  <2>1. ASSUME NEW w \in Calls, NEW stage \in Working
        PROVE  /\ [w EXCEPT !.at = stage] \in Calls
               /\ [w EXCEPT !.at = stage].at = stage
               /\ [w EXCEPT !.at = stage].s = w.s /\ [w EXCEPT !.at = stage].run = w.run
    BY DEF Calls, Stages, Claimed
  <2> QED BY <1>1, <2>1
<1>17. \A outcome \in Outcomes : Runs(c, outcome) =>
         \E v \in Calls : /\ call' = [call EXCEPT ![c] = v] /\ v.at \in Working
                          /\ v.s = call[c].s /\ v.run = call[c].run
  <2>1. SUFFICES ASSUME NEW outcome \in Outcomes, Runs(c, outcome)
                 PROVE  \E v \in Calls : /\ call' = [call EXCEPT ![c] = v] /\ v.at \in Working
                                         /\ v.s = call[c].s /\ v.run = call[c].run
    OBVIOUS
  <2> DEFINE v == [call[c] EXCEPT !.at = "finish", !.outcome = outcome]
  <2>2. "finish" \in Stages /\ "finish" \in Working
    BY DEF Stages, Claimed, Working
  <2>3. v \in Calls
    BY <1>1, <2>2, CallChanges DEF AllTargets
  <2>4. v.at = "finish" /\ v.s = call[c].s /\ v.run = call[c].run
    BY <1>1, <2>2, CallKeeps
  <2>5. call' = [call EXCEPT ![c] = v]
    BY <1>1, <2>1 DEF Runs
  <2> HIDE DEF v
  <2> QED BY <2>2, <2>3, <2>4, <2>5
<1>18. ASSUME NEW outcome \in Outcomes, Execute(c, outcome) PROVE ClaimInv'
  <2>1. call[c].at \in Working /\ UNCHANGED <<running, disk>> /\ Runs(c, outcome)
    BY <1>18 DEF Execute, Working
  <2> QED BY <1>15, <1>17, <2>1
<1>19. ASSUME CreateWorkspace(c) PROVE ClaimInv'
  <2>1. /\ call[c].at \in Working /\ "note" \in Working /\ UNCHANGED <<running, disk>>
        /\ call' = [call EXCEPT ![c] = [call[c] EXCEPT !.at = "note"]]
    BY <1>1, <1>19 DEF CreateWorkspace, Goes, Working
  <2> DEFINE v == [call[c] EXCEPT !.at = "note"]
  <2>2. v \in Calls /\ v.at = "note" /\ v.s = call[c].s /\ v.run = call[c].run
    BY <1>16, <2>1
  <2>3. call' = [call EXCEPT ![c] = v]
    BY <2>1
  <2> HIDE DEF v
  <2> QED BY <1>15, <2>1, <2>2, <2>3
<1>20. ASSUME NEW ok \in BOOLEAN, NEW hasContent \in BOOLEAN,
              disposeScheduleRunWorkspace(c, ok, hasContent)
       PROVE  ClaimInv'
  <2>1. call[c].at \in Working /\ UNCHANGED <<running, disk>> /\ Runs(c, "ended")
    BY <1>20 DEF disposeScheduleRunWorkspace, Working
  <2> QED BY <1>15, <1>17, <2>1 DEF Outcomes
<1>21. ASSUME recordRunWorkspace(c) PROVE ClaimInv'
  <2>0. PICK s \in Schedules : s = call[c].s
    BY <1>1, <1>21 DEF recordRunWorkspace
  <2> DEFINE mark == IF call[c].at = "note" THEN "placed" ELSE "staffed"
             stage == IF call[c].at = "note" THEN "spawn" ELSE "work"
  <2>1. /\ call[c].at \in Working /\ stage \in Working /\ UNCHANGED running
        /\ call' = [call EXCEPT ![c] = [call[c] EXCEPT !.at = stage]]
    BY <2>0, <1>1, <1>21 DEF recordRunWorkspace, Goes, Working
  <2>2. s \in Schedules /\ disk[s] \in Files /\ Exists(s)
    BY <2>0, <1>1, <1>21 DEF recordRunWorkspace
  <2>3. /\ disk'[s] = Marked(disk[s], call[c].run, mark)
        /\ \A other \in Schedules : other # s => disk'[other] = disk[other]
    BY <2>0, <1>21, <2>2 DEF recordRunWorkspace, Write, TypeOK
  <2>4. /\ disk'[s].status = disk[s].status
        /\ disk'[s].runs = {IF run.id = call[c].run /\ run.is # "ended"
                            THEN [run EXCEPT !.is = mark] ELSE run : run \in disk[s].runs}
    BY <2>0, <2>2, <2>3 DEF Marked, Files
  <2>5. \A run \in Open(s)' : \E old \in Open(s) :
          run = IF old.id = call[c].run THEN [old EXCEPT !.is = mark] ELSE old
    <3>1. SUFFICES ASSUME NEW run \in Open(s)'
                   PROVE  \E old \in Open(s) :
                     run = IF old.id = call[c].run THEN [old EXCEPT !.is = mark] ELSE old
      OBVIOUS
    <3>2. PICK old \in disk[s].runs :
            run = IF old.id = call[c].run /\ old.is # "ended"
                  THEN [old EXCEPT !.is = mark] ELSE old
      BY <2>0, <2>4 DEF Open
    <3>3. run.is # "ended"
      BY DEF Open
    <3>4. old.is # "ended"
      BY <2>0, <3>2, <3>3
    <3> QED BY <2>0, <3>2, <3>4 DEF Open
  <2>6. \A run \in Open(s)' : \E old \in Open(s) : old.id = run.id
    <3>1. \A old \in RunRecords : [old EXCEPT !.is = mark].id = old.id
      BY DEF RunRecords
    <3>2. Open(s) \subseteq RunRecords
      BY <2>0, <2>2 DEF Open, Files
    <3>3. SUFFICES ASSUME NEW run \in Open(s)' PROVE \E old \in Open(s) : old.id = run.id
      OBVIOUS
    <3>4. PICK old \in Open(s) :
            run = IF old.id = call[c].run THEN [old EXCEPT !.is = mark] ELSE old
      BY <2>5
    <3> HIDE DEF mark
    <3>5. old.id = run.id
      BY <3>1, <3>2, <3>4
    <3> QED BY <3>5
  <2>7. \A other \in Schedules : other # s => Open(other)' = Open(other)
    BY <2>0, <2>3 DEF Open
  <2>8. OpenOnce'
    <3>1. \A run, other \in Open(s)' : run = other
      BY <2>0, <2>2, <2>5 DEF ClaimInv, OpenOnce
    <3> QED BY <2>0, <2>7, <3>1 DEF ClaimInv, OpenOnce
  <2>9. NoneWithoutFile'
    BY <2>0, <2>2, <2>3, <2>4 DEF ClaimInv, NoneWithoutFile, Exists
  <2>10. \A other \in Schedules : \A run \in Open(other)' :
           \E old \in Open(other) : old.id = run.id
    BY <2>0, <2>6, <2>7
  <2> HIDE DEF stage
  <2> DEFINE v == [call[c] EXCEPT !.at = stage]
  <2>11. v \in Calls /\ v.at = stage /\ v.s = call[c].s /\ v.run = call[c].run
    BY <1>16, <2>1
  <2>12. call' = [call EXCEPT ![c] = v]
    BY <2>1
  <2> HIDE DEF v
  <2> QED BY <1>14, <2>1, <2>8, <2>9, <2>10, <2>11, <2>12
\* The end of the run: nothing of the schedule is open any more.
<1>22. ASSUME finishRun(c) PROVE ClaimInv'
  <2>0. PICK s \in Schedules : s = call[c].s
    BY <1>1, <1>22 DEF finishRun
  <2> DEFINE ended == Marked(disk[s], call[c].run, "ended")
             after == AfterRun(s, ended, call[c].outcome, c \in Manual)
  <2>1. /\ s \in Schedules /\ disk[s] \in Files /\ clock \in Nat /\ call[c].at = "finish"
        /\ running' = running \ {s}
    BY <2>0, <1>1, <1>22 DEF finishRun, TypeOK
  <2>2. /\ ended \in Files /\ ended.status = disk[s].status
        /\ ended.runs = {IF run.id = call[c].run /\ run.is # "ended"
                         THEN [run EXCEPT !.is = "ended"] ELSE run : run \in disk[s].runs}
    <3>1. ended \in Files
      BY <1>1, <2>1, FileTypes
    <3>2. \A file \in Files : \A r : [file EXCEPT !.runs = r].runs = r
                                   /\ [file EXCEPT !.runs = r].status = file.status
      BY DEF Files
    <3> QED BY <2>1, <3>1, <3>2 DEF Marked
  <2>3. after \in Files /\ after.runs = ended.runs
    <3>1. (c \in Manual) \in BOOLEAN
      OBVIOUS
    <3> HIDE DEF ended
    <3>2. ended \in Files /\ clock \in Nat
      BY <2>1, <2>2
    <3> QED BY <3>1, <3>2, AfterRunTypes
  <2>4. \A run \in Open(s) : run.id = call[c].run
    <3>1. SUFFICES ASSUME NEW run \in Open(s) PROVE run.id = call[c].run
      OBVIOUS
    <3>2. PICK d \in Callers : Minds(d, s, run)
      BY <1>3
    <3>3. call[d].at \in Claimed /\ call[d].s = s /\ call[d].run = run.id
      BY <3>2 DEF Minds, Holds
    <3>4. call[c].at \in Claimed
      BY <1>7, <2>1 DEF Working
    <3>5. d = c
      BY <2>0, <1>4, <3>3, <3>4
    <3> QED BY <3>3, <3>5
  <2>5. \A run \in ended.runs : run.is = "ended"
    <3>1. SUFFICES ASSUME NEW run \in ended.runs PROVE run.is = "ended"
      OBVIOUS
    <3>2. PICK old \in disk[s].runs :
            run = IF old.id = call[c].run /\ old.is # "ended"
                  THEN [old EXCEPT !.is = "ended"] ELSE old
      BY <2>0, <2>2
    <3>3. old \in RunRecords
      BY <2>0, <2>1 DEF Files
    <3>4. \A r \in RunRecords : [r EXCEPT !.is = "ended"].is = "ended"
      BY DEF RunRecords
    <3> QED BY <2>0, <2>4, <3>2, <3>3, <3>4 DEF Open
  <2>6. /\ \A run \in disk'[s].runs : run.is = "ended"
        /\ \A other \in Schedules : other # s => disk'[other] = disk[other]
        /\ Exists(s) \/ disk' = disk
    <3>1. CASE Exists(s)
      <4>1. Write(s, Pruned(s, after))
        BY <2>0, <1>22, <3>1 DEF finishRun
      <4>2. Pruned(s, after).runs \subseteq ended.runs
        <5> HIDE DEF after
        <5> QED BY <2>0, <1>1, <2>1, <2>3, FileTypes
      <4> HIDE DEF after
      <4> QED BY <2>0, <2>1, <2>5, <3>1, <4>1, <4>2 DEF Write, TypeOK
    <3>2. CASE ~Exists(s)
      <4>1. disk' = disk
        BY <2>0, <1>22, <3>2 DEF finishRun
      <4> QED BY <2>0, <2>1, <3>2, <4>1 DEF ClaimInv, NoneWithoutFile
    <3> QED BY <2>0, <3>1, <3>2
  <2>7. Open(s)' = {} /\ \A other \in Schedules : other # s => Open(other)' = Open(other)
    BY <2>0, <2>6 DEF Open
  <2>8. OpenOnce'
    BY <2>0, <2>7 DEF ClaimInv, OpenOnce
  <2>9. NoneWithoutFile'
    <3>1. CASE disk' = disk
      BY <2>0, <3>1 DEF ClaimInv, NoneWithoutFile, Exists
    <3>2. CASE Exists(s) /\ disk' # disk
      <4>1. after.status \notin {"unborn", "deleted"}
        BY <2>0, <2>1, <2>2, <3>2 DEF AfterRun, Completed, Planned, Marked, Exists, Files
      <4>2. disk'[s].status = after.status
        <5> HIDE DEF after
        <5>1. Pruned(s, after).status = after.status
          BY <2>0, <1>1, <2>1, <2>3, FileTypes
        <5>2. Write(s, Pruned(s, after))
          BY <2>0, <1>22, <3>2 DEF finishRun, after
        <5> QED BY <2>0, <2>1, <5>1, <5>2 DEF Write, TypeOK
      <4> QED BY <2>0, <2>6, <4>1, <4>2 DEF ClaimInv, NoneWithoutFile, Exists
    <3> QED BY <2>0, <2>6, <3>1, <3>2
  <2>10. PICK v \in Calls : call' = [call EXCEPT ![c] = v] /\ v.at \in {"idle", "loop"}
    BY <2>0, <1>1, <1>22 DEF finishRun, Returns, Throws
  <2>11. \A d \in Callers : d # c /\ call[d].at \in Claimed => call[d].s \in running'
    BY <2>0, <1>4, <1>7, <2>1 DEF Working
  <2>12. \A other \in Schedules : \A run \in Open(other)' :
           \E d \in Callers : d # c /\ Minds(d, other, run)
    BY <2>0, <1>3, <2>7 DEF Minds, Holds
  <2> QED BY <2>0, <1>2, <1>7, <2>8, <2>9, <2>10, <2>11, <2>12, HolderStep
<1> QED BY <1>8, <1>9, <1>10, <1>11, <1>12, <1>13, <1>18, <1>19, <1>20, <1>21, <1>22 DEF Call

\* The end of the daemon, its start and the passing of time keep the invariant.
LEMMA BootClaims ==
  ASSUME TypeOK, ClaimInv, Crash \/ Boot \/ Pass
  PROVE  ClaimInv'
<1> USE DEF bootVars, store
<1>1. "idle" \notin Claimed
  BY DEF Claimed, Working
<1>2. ASSUME Crash PROVE ClaimInv'
  <2>1. Idle.at = "idle" /\ call' = [c \in Callers |-> Idle] /\ boot' = "off" /\ UNCHANGED disk
    BY <1>2 DEF Crash, Idle, CallOf
  <2>2. \A c \in Callers : call'[c].at = "idle"
    BY <2>1
  <2>3. HeldIsRunning' /\ HeldOnce' /\ HeldUp'
    BY <1>1, <2>2 DEF HeldIsRunning, HeldOnce, HeldUp, Holds
  <2>4. OpenOnce' /\ NoneWithoutFile' /\ OpenHeld'
    BY <2>1 DEF ClaimInv, OpenOnce, Open, NoneWithoutFile, Exists, OpenHeld, Looked
  <2> QED BY <2>3, <2>4 DEF ClaimInv
\* While the daemon starts there are no calls, so that nothing is open in a
\* file that was looked at.
<1>3. boot # "up" => /\ \A c \in Callers : call[c].at = "idle"
                     /\ \A s \in Schedules : Looked(s) => Open(s) = {}
  <2>1. boot # "up" => \A c \in Callers : call[c].at = "idle"
    BY DEF ClaimInv, HeldUp
  <2>2. \A run : \A c \in Callers, s \in Schedules : Minds(c, s, run) => call[c].at # "idle"
    BY DEF Minds, Working
  <2> QED BY <2>1, <2>2 DEF ClaimInv, OpenHeld
<1>4. ASSUME boot # "up", UNCHANGED <<call, running>>, OpenOnce', NoneWithoutFile',
             \A s \in Schedules : Looked(s)' => Open(s)' = {}
      PROVE  ClaimInv'
  <2>1. HeldIsRunning' /\ HeldOnce' /\ HeldUp'
    BY <1>1, <1>3, <1>4 DEF HeldIsRunning, HeldOnce, HeldUp, Holds
  <2>2. OpenHeld'
    BY <1>4 DEF OpenHeld
  <2> QED BY <1>4, <2>1, <2>2 DEF ClaimInv
<1>5. ASSUME boot # "up", UNCHANGED <<call, running, disk>>,
             \A s \in Schedules : Looked(s)' => Looked(s) \/ ~Exists(s)
      PROVE  ClaimInv'
  <2>1. OpenOnce' /\ NoneWithoutFile' /\ \A s \in Schedules : Open(s)' = Open(s)
    BY <1>5 DEF ClaimInv, OpenOnce, Open, NoneWithoutFile, Exists
  <2>2. \A s \in Schedules : ~Exists(s) => Open(s) = {}
    BY DEF ClaimInv, NoneWithoutFile, Open
  <2> QED BY <1>3, <1>4, <1>5, <2>1, <2>2
<1>6. ASSUME start PROVE ClaimInv'
  <2>1. boot # "up" /\ UNCHANGED <<call, running, disk>>
    BY <1>6 DEF start
  <2>2. \A s \in Schedules : Looked(s)' => ~Exists(s)
    BY <1>6 DEF start, Looked
  <2> QED BY <1>5, <2>1, <2>2
<1>7. ASSUME Recovered \/ Started PROVE ClaimInv'
  <2>1. boot # "up" /\ UNCHANGED <<call, running, disk>>
    BY <1>7 DEF Recovered, Started
  <2>2. \A s \in Schedules : Looked(s)
    BY <1>7 DEF Recovered, Started, Looked
  <2> QED BY <1>5, <2>1, <2>2
<1>8. ASSUME NEW m \in mending, Mend(m) PROVE ClaimInv'
  <2>1. boot # "up" /\ UNCHANGED <<call, running, disk, boot, todo>>
    BY <1>8 DEF Mend
  <2>2. \A s \in Schedules : Looked(s)' => Looked(s)
    BY <2>1 DEF Looked
  <2> QED BY <1>5, <2>1, <2>2
<1>9. ASSUME NEW s \in Schedules, recoverInterruptedSchedule(s) PROVE ClaimInv'
  <2> DEFINE lost == disk[s].runs \ Finished(disk[s].runs)
             first == {run \in lost : \A other \in lost : run.id =< other.id}
             failed == [disk[s] EXCEPT !.runs =
                          (@ \ first) \cup {[run EXCEPT !.is = "ended"] : run \in first}]
  <2>1. disk[s] \in Files /\ disk[s].runs \subseteq RunRecords
    BY DEF TypeOK, Files
  <2>2. first = Open(s)
    <3>1. lost = Open(s)
      BY DEF Finished, Open
    <3>2. \A run \in Open(s) : run.id \in Nat
      BY <2>1 DEF Open, RunRecords
    <3>3. \A run, other \in Open(s) : run = other
      BY DEF ClaimInv, OpenOnce
    <3> QED BY <3>1, <3>2, <3>3
  <2>3. /\ failed.runs = (disk[s].runs \ first) \cup {[run EXCEPT !.is = "ended"] : run \in first}
        /\ failed.status = disk[s].status
    <3>1. \A file \in Files : \A r : /\ [file EXCEPT !.runs = r].runs = r
                                   /\ [file EXCEPT !.runs = r].status = file.status
      BY DEF Files
    <3> QED BY <2>1, <3>1
  <2>4. \A run \in failed.runs : run.is = "ended"
    <3>1. \A run \in RunRecords : [run EXCEPT !.is = "ended"].is = "ended"
      BY DEF RunRecords
    <3>2. \A run \in disk[s].runs \ Open(s) : run.is = "ended"
      BY DEF Open
    <3>3. first \subseteq RunRecords
      BY <2>1
    <3> HIDE DEF first, failed
    <3> QED BY <2>2, <2>3, <3>1, <3>2, <3>3
  <2>5. Write(s, IF failed.status = "active" /\ failed.next \in 1..clock
                 THEN Planned(failed, "active", NextAfter(s, failed.next)) ELSE failed)
    BY <1>9 DEF recoverInterruptedSchedule
  <2>6. /\ disk'[s].runs = failed.runs /\ disk'[s].status = disk[s].status
        /\ \A other \in Schedules : other # s => disk'[other] = disk[other]
    <3>1. \A next : /\ Planned(failed, "active", next).runs = failed.runs
                    /\ Planned(failed, "active", next).status = "active"
      BY DEF Planned
    <3> HIDE DEF failed
    <3> QED BY <2>3, <2>5, <3>1 DEF Write, TypeOK
  <2> HIDE DEF failed
  <2>7. Open(s)' = {} /\ \A other \in Schedules : other # s => Open(other)' = Open(other)
    BY <2>4, <2>6 DEF Open
  <2>8. OpenOnce'
    BY <2>7 DEF ClaimInv, OpenOnce
  <2>9. NoneWithoutFile'
    <3>1. ~Exists(s) => failed.runs = {}
      BY <2>2, <2>3 DEF ClaimInv, NoneWithoutFile, Open
    <3> QED BY <2>6, <3>1 DEF ClaimInv, NoneWithoutFile, Exists
  <2>10. /\ boot # "up" /\ UNCHANGED <<call, running>>
         /\ \A other \in Schedules : other # s /\ Looked(other)' => Looked(other)
    BY <1>9 DEF recoverInterruptedSchedule, Looked
  <2> QED BY <1>3, <1>4, <2>7, <2>8, <2>9, <2>10
<1>10. ASSUME NEW s \in Schedules, sweepOrphanedSchedule(s) PROVE ClaimInv'
  <2>1. /\ disk'[s].runs = disk[s].runs
        /\ \A other \in Schedules : other # s => disk'[other] = disk[other]
        /\ disk'[s].status \in {disk[s].status, "completed"}
    BY <1>10 DEF sweepOrphanedSchedule, Write, Completed, Planned, TypeOK
  <2>2. \A other \in Schedules : disk'[other].runs = disk[other].runs
    BY <2>1
  <2>3. OpenOnce' /\ \A other \in Schedules : Open(other)' = Open(other)
    BY <2>2 DEF ClaimInv, OpenOnce, Open
  <2>4. NoneWithoutFile'
    BY <2>1, <2>2 DEF ClaimInv, NoneWithoutFile, Exists
  <2>5. /\ boot # "up" /\ UNCHANGED <<call, running>>
        /\ \A other \in Schedules : Looked(other)
    BY <1>10 DEF sweepOrphanedSchedule, Looked
  <2> QED BY <1>3, <1>4, <2>3, <2>4, <2>5
<1>11. ASSUME Pass PROVE ClaimInv'
  <2>1. UNCHANGED <<disk, running, call, boot, todo>>
    BY <1>11 DEF Pass, daemon
  <2>2. NoneWithoutFile' /\ \A s \in Schedules : disk'[s].runs \subseteq disk[s].runs
    BY <2>1 DEF ClaimInv, NoneWithoutFile, Exists
  <2> QED BY <2>1, <2>2, QuietStep
<1> QED BY <1>2, <1>6, <1>7, <1>8, <1>9, <1>10, <1>11 DEF Boot

\* The claims, the open runs and the schedules that run belong together.
LEMMA ScheduleClaims == Spec => []ClaimInv
<1>1. Init => ClaimInv
  <2>1. SUFFICES ASSUME Init PROVE ClaimInv
    OBVIOUS
  <2>2. Idle.at = "idle" /\ "idle" \notin Claimed
    BY CallOfTypes DEF Idle, Stages, Claimed, Working
  <2>3. \A c \in Callers : call[c].at = "idle"
    BY <2>1, <2>2 DEF Init
  <2>4. HeldIsRunning /\ HeldOnce /\ HeldUp
    BY <2>1, <2>2, <2>3 DEF Init, HeldIsRunning, HeldOnce, HeldUp, Holds
  <2>5. \A s \in Schedules : disk[s].runs = {}
    BY <2>1 DEF Init, NoFile
  <2> QED BY <2>4, <2>5 DEF ClaimInv, OpenOnce, OpenHeld, Open, NoneWithoutFile
<1>2. TypeOK /\ ClaimInv /\ [Next]_vars => ClaimInv'
  <2>1. SUFFICES ASSUME TypeOK, ClaimInv, [Next]_vars PROVE ClaimInv'
    OBVIOUS
  <2>2. CASE UNCHANGED vars
    <3>1. UNCHANGED <<disk, running, call, boot, todo>>
      BY <2>2 DEF vars
    <3>2. NoneWithoutFile' /\ \A s \in Schedules : disk'[s].runs \subseteq disk[s].runs
      BY <2>1, <3>1 DEF ClaimInv, NoneWithoutFile, Exists
    <3> QED BY <2>1, <3>1, <3>2, QuietStep
  <2> QED BY <2>1, <2>2, RequestClaims, CallClaims, BootClaims DEF Next
<1> QED BY <1>1, <1>2, ScheduleTypes, PTL DEF Spec

\* A schedule is run by one call at a time, and every run its file shows as
\* running is that call's: for any number of schedules, overlapping ticks,
\* runs by hand, edits and restarts.
THEOREM ScheduleRunsOnce == Spec => []OneRunAtATime
<1>1. ClaimInv => OneRunAtATime
  <2>1. SUFFICES ASSUME ClaimInv PROVE OneRunAtATime
    OBVIOUS
  <2>2. \A c, d \in Callers, s \in Schedules : Holds(c, s) /\ Holds(d, s) => c = d
    BY <2>1 DEF ClaimInv, HeldOnce
  <2>3. boot \in {"sweep", "up"} => \A s \in Schedules : \A run \in disk[s].runs :
          run.is # "ended" =>
            \E c \in Callers : Holds(c, s) /\ call[c].at \in Working /\ call[c].run = run.id
    BY <2>1 DEF ClaimInv, OpenHeld, Open, Looked, Minds
  <2> QED BY <2>2, <2>3 DEF OneRunAtATime
<1> QED BY <1>1, ScheduleClaims, PTL

-----------------------------------------------------------------------------
(***************************************************************************)
(* The hidden workspace of a run has an owner: the call that runs it, the  *)
(* record in a file that recovery has still to look at, or recovery, that  *)
(* is about to reveal or archive it.  Recovery acts on workspaces of new   *)
(* agents alone, so that the target of a schedule with such a workspace    *)
(* has to stay one.                                                        *)
(***************************************************************************)
Placing == {"note", "spawn", "work"}
Keeps(c, s, id) == Holds(c, s) /\ call[c].at \in Placing /\ call[c].run = id
Hidden(s, id) == id \in 1..Len(places[s]) /\ places[s][id] = "hidden"

HasOwner(s, id) ==
  \/ <<s, id>> \in astray
  \/ boot = "up" /\ \E c \in Callers : Keeps(c, s, id)
  \/ ~Looked(s) /\ ~Untold(s, id)
  \/ boot = "recover" /\ \E m \in mending : m.s = s /\ m.run = id

\* The record of a workspace is in the file of a schedule with new agents.
PlacedWell(file) == \A run \in file.runs :
                      run.is \in {"placed", "staffed"} => file.target \in NewAgent

\* A run for a new agent is one of a schedule with new agents, or deleted.
WorkWell(v, file) ==
  v.at \in Working => /\ file.status # "unborn"
                      /\ v.target \in NewAgent =>
                           file.target \in NewAgent \/ file.status = "deleted"
                      /\ v.at \in Placing => v.target \in NewAgent

HiddenKept == \A s \in Schedules : \A id \in Nat : Hidden(s, id) => HasOwner(s, id)
PlacedNew  == \A s \in Schedules : PlacedWell(disk[s])
WorksWell  == \A c \in Callers : WorkWell(call[c], disk[call[c].s])
MendsWell  == \A m \in mending : m.to # "hidden"

PlaceInv == HiddenKept /\ PlacedNew /\ WorksWell /\ MendsWell

\* What a step may do to a file while a run of its schedule is under way.
FileKept(old, file) ==
  /\ old.status # "unborn" => file.status # "unborn"
  /\ old.status = "deleted" => file.status = "deleted"
  /\ old.status # "unborn" /\ old.target \in NewAgent =>
       file.target \in NewAgent \/ file.status = "deleted"
  /\ PlacedWell(file)

\* While the daemon is up, a hidden workspace is astray or its run's.
LEMMA HiddenUp ==
  ASSUME PlaceInv, boot = "up", NEW s \in Schedules, NEW id \in Nat, Hidden(s, id)
  PROVE  <<s, id>> \in astray \/ \E c \in Callers : Keeps(c, s, id)
BY DEF PlaceInv, HiddenKept, HasOwner, Looked

\* A run goes on well when its file is kept.
LEMMA WorkStays ==
  ASSUME NEW v, NEW old, NEW file, WorkWell(v, old), FileKept(old, file)
  PROVE  WorkWell(v, file)
BY DEF WorkWell, FileKept

\* What a step has to respect while the daemon is up.
LEMMA PlaceStep ==
  ASSUME TypeOK, PlaceInv, boot = "up", UNCHANGED <<boot, mending, astray>>,
         \A s \in Schedules : FileKept(disk[s], disk'[s]),
         \A d \in Callers : call'[d] = call[d] \/ WorkWell(call'[d], disk'[call'[d].s]),
         \A s \in Schedules, id \in Nat : Hidden(s, id)' =>
           <<s, id>> \in astray \/ \E d \in Callers : Keeps(d, s, id)'
  PROVE  PlaceInv'
<1>1. HiddenKept'
  BY DEF HiddenKept, HasOwner
<1>2. PlacedNew' /\ MendsWell'
  BY DEF PlacedNew, MendsWell, FileKept, PlaceInv
<1>3. WorksWell'
  <2>1. SUFFICES ASSUME NEW d \in Callers, call'[d] = call[d]
                 PROVE  WorkWell(call'[d], disk'[call'[d].s])
    BY DEF WorksWell
  <2>2. CASE call[d].at \in Working
    <3>1. call[d].s \in Schedules
      BY <2>2 DEF TypeOK, Working
    <3>2. WorkWell(call[d], disk[call[d].s])
      BY DEF PlaceInv, WorksWell
    <3> QED BY <2>1, <3>1, <3>2, WorkStays
  <2>3. CASE call[d].at \notin Working
    BY <2>1, <2>3 DEF WorkWell
  <2> QED BY <2>2, <2>3
<1> QED BY <1>1, <1>2, <1>3 DEF PlaceInv

\* A file that is left alone, or written with its target and no new record
\* of a workspace, is kept.
LEMMA TargetKept ==
  ASSUME NEW old, NEW file, PlacedWell(old), file.target = old.target,
         \A run \in file.runs : run \in old.runs \/ run.is \in {"running", "ended"},
         old.status # "unborn" => file.status # "unborn",
         old.status = "deleted" => file.status = "deleted"
  PROVE  FileKept(old, file)
BY DEF FileKept, PlacedWell

\* One file is written, and kept: all are.
LEMMA WriteKept ==
  ASSUME TypeOK, PlaceInv, NEW s \in Schedules, NEW file, Write(s, file),
         FileKept(disk[s], file)
  PROVE  \A other \in Schedules : FileKept(disk[other], disk'[other])
<1>1. /\ disk'[s] = file
      /\ \A other \in Schedules : other # s => disk'[other] = disk[other]
  BY DEF TypeOK, Write
<1>2. \A other \in Schedules : FileKept(disk[other], disk[other])
  BY DEF FileKept, PlaceInv, PlacedNew
<1> QED BY <1>1, <1>2

LEMMA PlannedKept ==
  ASSUME TypeOK, PlaceInv, NEW s \in Schedules, NEW next, Exists(s),
         NEW status \in {"active", "paused", "completed"}
  PROVE  FileKept(disk[s], Planned(disk[s], status, next))
<1>1. PlacedWell(disk[s]) /\ disk[s].status \notin {"unborn", "deleted"}
  BY DEF PlaceInv, PlacedNew, Exists
<1>2. /\ Planned(disk[s], status, next).target = disk[s].target
      /\ Planned(disk[s], status, next).runs = disk[s].runs
      /\ Planned(disk[s], status, next).status = status
  BY DEF Planned
<1> QED BY <1>1, <1>2, TargetKept

\* A step that leaves calls and workspaces, and keeps the files.
LEMMA PlaceStill ==
  ASSUME TypeOK, PlaceInv, boot = "up", UNCHANGED <<boot, mending, astray, call, places>>,
         \A s \in Schedules : FileKept(disk[s], disk'[s])
  PROVE  PlaceInv'
<1>1. \A s, id : Hidden(s, id)' <=> Hidden(s, id)
  BY DEF Hidden
<1>2. \A d, s, id : Keeps(d, s, id)' <=> Keeps(d, s, id)
  BY DEF Keeps, Holds
<1>3. \A s \in Schedules, id \in Nat : Hidden(s, id)' =>
        <<s, id>> \in astray \/ \E d \in Callers : Keeps(d, s, id)'
  BY <1>1, <1>2, HiddenUp
<1> QED BY <1>3, PlaceStep

\* Requests keep the invariant: a target changes among new agents only.
LEMMA RequestPlaces ==
  ASSUME TypeOK, ClaimInv, PlaceInv, Request
  PROVE  PlaceInv'
<1> USE DEF requestVars
<1>1. ASSUME NEW s \in Schedules, NEW file, Write(s, file), FileKept(disk[s], file),
             boot = "up", UNCHANGED <<boot, mending, astray, call, places>>
      PROVE  PlaceInv'
  BY <1>1, WriteKept, PlaceStill
<1>2. ASSUME NEW s \in Schedules, NEW soon \in RunOnCreate, NEW target \in Targets[s],
             create(s, target, soon)
      PROVE  PlaceInv'
  <2> DEFINE file == [status |-> "active", next |-> FirstRun(s, soon), target |-> target,
                      runs |-> {}]
  <2>1. /\ file.runs = {} /\ file.status = "active" /\ Write(s, file)
        /\ disk[s].status = "unborn" /\ boot = "up"
        /\ UNCHANGED <<boot, mending, astray, call, places>>
    BY <1>2 DEF create
  <2> HIDE DEF file
  <2>2. FileKept(disk[s], file)
    BY <2>1 DEF FileKept, PlacedWell
  <2> QED BY <1>1, <2>1, <2>2
<1>3. ASSUME NEW s \in Schedules,
             (\E soon \in RunOnCreate : createOrReplace(s, soon)) \/ pause(s) \/ resume(s)
      PROVE  PlaceInv'
  <2>1. /\ disk[s].status \in {"active", "paused"} /\ boot = "up"
        /\ UNCHANGED <<boot, mending, astray, call, places>>
    BY <1>3 DEF createOrReplace, pause, resume, MayEdit
  <2>2. PICK status, next : status \in {"active", "paused"} /\ Write(s, Planned(disk[s], status, next))
    BY <1>3 DEF createOrReplace, pause, resume
  <2>3. Exists(s)
    BY <2>1 DEF Exists
  <2> QED BY <1>1, <2>1, <2>2, <2>3, PlannedKept
<1>4. ASSUME NEW s \in Schedules, update(s) PROVE PlaceInv'
  <2>1. /\ disk[s].status \in {"active", "paused", "completed"} /\ disk[s] \in Files
        /\ Exists(s) /\ boot = "up" /\ UNCHANGED <<boot, mending, astray, call, places>>
    BY <1>4 DEF update, MayEdit, Exists, TypeOK, Files
  <2>2. ASSUME NEW target \in NewAgent, Write(s, [disk[s] EXCEPT !.target = target])
        PROVE  PlaceInv'
    <3> DEFINE file == [disk[s] EXCEPT !.target = target]
    <3>1. Write(s, file) /\ file.target = target /\ file.status = disk[s].status
      BY <2>1, <2>2 DEF Files
    <3> HIDE DEF file
    <3>2. FileKept(disk[s], file)
      BY <2>1, <3>1 DEF FileKept, PlacedWell
    <3> QED BY <1>1, <2>1, <3>1, <3>2
  <2>3. CASE Write(s, Planned(disk[s], disk[s].status,
                              IF disk[s].status = "active" THEN clock + Every[s] ELSE 0))
    <3>1. FileKept(disk[s], Planned(disk[s], disk[s].status,
                              IF disk[s].status = "active" THEN clock + Every[s] ELSE 0))
      BY <2>1, PlannedKept
    <3> QED BY <1>1, <2>1, <2>3, <3>1
  <2> QED BY <1>4, <2>2, <2>3 DEF update
<1>5. ASSUME NEW s \in Schedules, delete(s) PROVE PlaceInv'
  <2> DEFINE file == [NoFile EXCEPT !.status = "deleted"]
  <2>1. /\ file.runs = {} /\ file.status = "deleted" /\ Write(s, file)
        /\ boot = "up" /\ UNCHANGED <<boot, mending, astray, call, places>>
    BY <1>5 DEF delete, MayEdit, NoFile
  <2> HIDE DEF file
  <2>2. FileKept(disk[s], file)
    BY <2>1 DEF FileKept, PlacedWell
  <2> QED BY <1>1, <2>1, <2>2
<1>6. \A s \in Schedules : FileKept(disk[s], disk[s])
  BY DEF FileKept, PlaceInv, PlacedNew
<1>7. ASSUME NEW s \in Schedules, Archive(s) PROVE PlaceInv'
  BY <1>6, <1>7, PlaceStill DEF Archive, MayEdit
<1>8. ASSUME NEW s \in Schedules, completeForAgent(s) PROVE PlaceInv'
  <2>1. boot = "up" /\ UNCHANGED <<boot, mending, astray, call, places>>
    BY <1>8 DEF completeForAgent
  <2>2. CASE Exists(s)
    <3>1. Write(s, Planned(disk[s], "completed", 0))
      BY <1>8, <2>2 DEF completeForAgent, Completed
    <3>2. FileKept(disk[s], Planned(disk[s], "completed", 0))
      BY <2>2, PlannedKept
    <3> QED BY <1>1, <2>1, <3>1, <3>2
  <2>3. CASE ~Exists(s)
    <3>1. Write(s, disk[s])
      BY <1>8, <2>3 DEF completeForAgent
    <3> QED BY <1>1, <1>6, <2>1, <3>1
  <2> QED BY <2>2, <2>3
<1>9. ASSUME NEW s \in Schedules, NEW c \in Manual, runOnce(c, s) PROVE PlaceInv'
  <2>1. /\ c \in Callers /\ call \in [Callers -> Calls] /\ call[c].at = "idle" /\ boot = "up"
        /\ UNCHANGED <<boot, mending, astray, disk, places>>
    BY <1>9 DEF runOnce, Callers, TypeOK, store, history
  <2>2. /\ call'[c].at = "claim" /\ \A d \in Callers : d # c => call'[d] = call[d]
    BY <1>9, <2>1 DEF runOnce, CallOf
  <2>3. WorkWell(call'[c], disk'[call'[c].s])
    BY <2>2 DEF WorkWell, Working
  <2>4. \A t \in Schedules, id \in Nat : Hidden(t, id)' =>
          <<t, id>> \in astray \/ \E d \in Callers : Keeps(d, t, id)'
    <3>1. \A d \in Callers : \A t, id : Keeps(d, t, id) => Keeps(d, t, id)'
      BY <2>1, <2>2 DEF Keeps, Holds, Placing
    <3>2. \A t, id : Hidden(t, id)' <=> Hidden(t, id)
      BY <2>1 DEF Hidden
    <3> QED BY <2>1, <3>1, <3>2, HiddenUp
  <2> QED BY <1>6, <2>1, <2>2, <2>3, <2>4, PlaceStep
<1> QED BY <1>2, <1>3, <1>4, <1>5, <1>7, <1>8, <1>9 DEF Request

\* The target of a call stays what it was, until its run starts.
LEMMA CallTargets ==
  ASSUME NEW v \in Calls, NEW stage, NEW slot, NEW run, NEW target, NEW outcome
  PROVE  /\ [v EXCEPT !.at = stage].target = v.target
         /\ [v EXCEPT !.at = stage, !.slot = slot, !.run = run, !.target = target].target = target
         /\ [v EXCEPT !.at = stage, !.outcome = outcome].target = v.target
BY DEF Calls

\* A mark in a run's record leaves the target and the status, and all records
\* but that of the run.
LEMMA MarkedKept ==
  ASSUME NEW file \in Files, NEW id, NEW mark
  PROVE  /\ Marked(file, id, mark).target = file.target
         /\ Marked(file, id, mark).status = file.status
         /\ \A run \in Marked(file, id, mark).runs : run \in file.runs \/ run.is = mark
<1>1. /\ Marked(file, id, mark).target = file.target
      /\ Marked(file, id, mark).status = file.status
      /\ Marked(file, id, mark).runs = {IF run.id = id /\ run.is # "ended"
                                        THEN [run EXCEPT !.is = mark] ELSE run : run \in file.runs}
  BY DEF Marked, Files
<1>2. ASSUME NEW run \in Marked(file, id, mark).runs PROVE run \in file.runs \/ run.is = mark
  <2>1. PICK old \in file.runs : run = IF old.id = id /\ old.is # "ended"
                                       THEN [old EXCEPT !.is = mark] ELSE old
    BY <1>1
  <2>2. old \in RunRecords
    BY DEF Files
  <2>3. [old EXCEPT !.is = mark].is = mark
    BY <2>2 DEF RunRecords
  <2> QED BY <2>1, <2>3
<1> QED BY <1>1, <1>2

\* The end of a run keeps the file.
LEMMA FinishKept ==
  ASSUME TypeOK, PlaceInv, NEW s \in Schedules, Exists(s), NEW id \in Nat, NEW outcome,
         NEW c
  PROVE  FileKept(disk[s], Pruned(s, AfterRun(s, Marked(disk[s], id, "ended"), outcome,
                                              c \in Manual)))
<1> DEFINE ended == Marked(disk[s], id, "ended")
           after == AfterRun(s, ended, outcome, c \in Manual)
           file == Pruned(s, after)
<1>1. /\ disk[s] \in Files /\ PlacedWell(disk[s]) /\ clock \in Nat
      /\ disk[s].status \in {"active", "paused", "completed"}
  BY DEF PlaceInv, PlacedNew, Exists, TypeOK, Files
<1>2. /\ ended \in Files /\ ended.target = disk[s].target /\ ended.status = disk[s].status
      /\ \A run \in ended.runs : run \in disk[s].runs \/ run.is = "ended"
  <2>1. ended \in Files
    BY <1>1, FileTypes
  <2> QED BY <1>1, <2>1, MarkedKept
<1>3. /\ after \in Files /\ after.runs = ended.runs /\ after.target = ended.target
      /\ after.status \in {"active", "paused", "completed"}
  <2> HIDE DEF ended
  <2>1. clock \in Nat /\ ended \in Files
    BY <1>1, <1>2
  <2>2. after \in Files /\ after.runs = ended.runs
    BY <2>1, AfterRunTypes
  <2>3. after.target = ended.target /\ after.status \in {"active", "paused", "completed"}
    BY <1>1, <1>2 DEF AfterRun, Completed, Planned
  <2> QED BY <2>2, <2>3
<1>4. file.runs \subseteq after.runs /\ file.status = after.status /\ file.target = after.target
  <2> HIDE DEF after
  <2>1. file.runs \subseteq after.runs /\ file.status = after.status
    BY <1>3, FileTypes
  <2>2. file.target = after.target
    BY <1>3 DEF Pruned, Files
  <2> QED BY <2>1, <2>2
<1> HIDE DEF ended, after, file
<1>5. FileKept(disk[s], file)
  BY <1>1, <1>2, <1>3, <1>4, TargetKept
<1> QED BY <1>5 DEF file, after, ended

\* Steps of calls keep the invariant.
LEMMA CallPlaces ==
  ASSUME TypeOK, ClaimInv, PlaceInv, NEW c \in Callers, Call(c)
  PROVE  PlaceInv'
<1> USE DEF callVars, store
<1>1. /\ call[c] \in Calls /\ call \in [Callers -> Calls] /\ call[c].run \in Nat
      /\ call[c].at \notin {"idle", "loop"} =>
           call[c].s \in Schedules /\ disk[call[c].s] \in Files
      /\ Rest(c).at \in {"idle", "loop"} /\ Idle.at = "idle"
  BY RestTypes DEF TypeOK, Calls
<1>2. boot = "up" /\ UNCHANGED <<boot, mending, astray>>
  BY DEF ClaimInv, HeldUp, Call, tick, Proceed, completeScheduleIfDue, Read, Claim,
         appendRunningRun, CreateWorkspace, recordRunWorkspace, Execute,
         disposeScheduleRunWorkspace, finishRun
<1>3. WorkWell(call[c], disk[call[c].s]) /\ \A s \in Schedules : FileKept(disk[s], disk[s])
  BY DEF PlaceInv, WorksWell, PlacedNew, FileKept
\* A workspace that the call does not keep stays hidden with its owner.
<1>4. ASSUME \A s \in Schedules : FileKept(disk[s], disk'[s]),
             NEW v, call' = [call EXCEPT ![c] = v], WorkWell(v, disk'[v.s]),
             \A s \in Schedules, id \in Nat : Hidden(s, id)' =>
               \/ Hidden(s, id) /\ ~Keeps(c, s, id)
               \/ v.at \in Placing /\ v.s = s /\ v.run = id
      PROVE  PlaceInv'
  <2>1. call'[c] = v /\ \A d \in Callers : d # c => call'[d] = call[d]
    BY <1>1, <1>4
  <2>2. \A d \in Callers : d # c => \A s, id : Keeps(d, s, id) => Keeps(d, s, id)'
    BY <2>1 DEF Keeps, Holds
  <2>3. \A s, id : v.at \in Placing /\ v.s = s /\ v.run = id => Keeps(c, s, id)'
    BY <2>1 DEF Keeps, Holds, Placing, Claimed, Working
  <2>4. ASSUME NEW s \in Schedules, NEW id \in Nat, Hidden(s, id)'
        PROVE  <<s, id>> \in astray \/ \E d \in Callers : Keeps(d, s, id)'
    BY <1>2, <1>4, <2>2, <2>3, <2>4, HiddenUp
  <2> QED BY <1>2, <1>4, <2>1, <2>4, PlaceStep
\* A call that keeps no workspace, or goes on keeping it.
<1>5. ASSUME \A s \in Schedules : FileKept(disk[s], disk'[s]), UNCHANGED places,
             NEW v, call' = [call EXCEPT ![c] = v], WorkWell(v, disk'[v.s]),
             call[c].at \in Placing => v.at \in Placing /\ v.s = call[c].s /\ v.run = call[c].run
      PROVE  PlaceInv'
  <2>1. \A s, id : Hidden(s, id)' <=> Hidden(s, id)
    BY <1>5 DEF Hidden
  <2>2. \A s, id : Keeps(c, s, id) => v.at \in Placing /\ v.s = s /\ v.run = id
    BY <1>5 DEF Keeps, Holds
  <2> QED BY <1>4, <1>5, <2>1, <2>2
<1>6. ASSUME call[c].at \notin Placing, UNCHANGED <<places, disk>>,
             NEW v, call' = [call EXCEPT ![c] = v], v.at \notin Working
      PROVE  PlaceInv'
  BY <1>3, <1>5, <1>6 DEF WorkWell
<1>7. /\ {"idle", "loop", "complete", "read", "claim", "append"} \cap Working = {}
      /\ Placing \subseteq Working /\ "run" \notin Placing /\ "finish" \notin Placing
      /\ "run" \in Working /\ "finish" \in Working
  BY DEF Placing, Working
<1>8. ASSUME tick(c) PROVE PlaceInv'
  <2>1. PICK due, over : call' = [call EXCEPT ![c] = CallOf("loop", clock, due, over, 0)]
    BY <1>8 DEF tick
  <2>2. CallOf("loop", clock, due, over, 0).at = "loop"
    BY DEF CallOf
  <2> QED BY <1>6, <1>7, <1>8, <2>1, <2>2 DEF tick
<1>9. ASSUME Proceed(c) PROVE PlaceInv'
  <2>1. PICK v : call' = [call EXCEPT ![c] = v] /\ v.at \in {"idle", "complete", "read"}
    BY <1>1, <1>9 DEF Proceed, Throws, CallOf
  <2> QED BY <1>6, <1>7, <1>9, <2>1 DEF Proceed
<1>10. ASSUME Read(c) \/ Claim(c) PROVE PlaceInv'
  <2>1. PICK v : call' = [call EXCEPT ![c] = v] /\ v.at \in {"idle", "loop", "claim", "append"}
    <3>1. \A slot : /\ [call[c] EXCEPT !.at = "claim", !.slot = slot].at = "claim"
                    /\ [call[c] EXCEPT !.at = "append"].at = "append"
      BY <1>1, CallKeeps
    <3> QED BY <1>1, <1>10, <3>1 DEF Read, Claim, Returns, Goes
  <2> QED BY <1>6, <1>7, <1>10, <2>1 DEF Read, Claim
<1>11. ASSUME completeScheduleIfDue(c) PROVE PlaceInv'
  <2>0. PICK s \in Schedules : s = call[c].s
    BY <1>1, <1>11 DEF completeScheduleIfDue
  <2>1. (Write(s, Planned(disk[s], "completed", 0)) /\ Exists(s)) \/ Write(s, disk[s])
    BY <1>11, <2>0 DEF completeScheduleIfDue, Completed, Exists
  <2>2. \A t \in Schedules : FileKept(disk[t], disk'[t])
    <3>1. Exists(s) => FileKept(disk[s], Planned(disk[s], "completed", 0))
      BY PlannedKept
    <3> QED BY <1>3, <2>1, <3>1, WriteKept
  <2>3. PICK v : call' = [call EXCEPT ![c] = v] /\ v.at \in {"idle", "loop"}
    BY <1>1, <1>11 DEF completeScheduleIfDue, Returns, Throws
  <2> QED BY <1>5, <1>7, <1>11, <2>2, <2>3 DEF completeScheduleIfDue, WorkWell
\* A run starts with its schedule's target, and without a workspace.
<1>12. ASSUME appendRunningRun(c) PROVE PlaceInv'
  <2>0. PICK s \in Schedules : s = call[c].s /\ call[c].at = "append"
    BY <1>1, <1>12 DEF appendRunningRun
  <2>1. CASE Exists(s)
    <3>0. PICK id : id = Len(places[s]) + 1
      OBVIOUS
    <3>1. PICK new : new = [id |-> id, is |-> "running"]
      OBVIOUS
    <3>2. PICK file : file = [disk[s] EXCEPT !.runs = @ \cup {new}]
      OBVIOUS
    <3>3. Write(s, file) /\ places' = [places EXCEPT ![s] = Append(@, "none")]
      BY <1>12, <2>0, <2>1, <3>0, <3>1, <3>2 DEF appendRunningRun
    <3>4. /\ file.target = disk[s].target /\ file.status = disk[s].status
          /\ file.runs = disk[s].runs \cup {new}
      BY <1>1, <2>0, <3>2 DEF Files
    <3>5. FileKept(disk[s], file)
      BY <3>1, <3>4, TargetKept DEF PlaceInv, PlacedNew
    <3>6. PICK v : v = [call[c] EXCEPT !.at = "run", !.slot = 0, !.run = id,
                                       !.target = disk[s].target]
      OBVIOUS
    <3>7. call' = [call EXCEPT ![c] = v]
      BY <1>1, <1>12, <2>0, <2>1, <3>0, <3>6 DEF appendRunningRun
    <3>8. v.at = "run" /\ v.s = s /\ v.target = disk[s].target
      BY <1>1, <2>0, <3>6, CallKeeps, CallTargets
    <3>9. disk'[s] = file
      BY <3>3 DEF Write, TypeOK
    <3>10. WorkWell(v, disk'[v.s])
      BY <1>7, <2>1, <3>4, <3>8, <3>9 DEF WorkWell, Exists
    <3>11. \A t \in Schedules, i \in Nat : Hidden(t, i)' => Hidden(t, i)
      <4>1. places[s] \in Seq(Places) /\ places \in [Schedules -> Seq(Places)]
        BY DEF TypeOK
      <4>2. /\ places'[s] = Append(places[s], "none")
            /\ \A t \in Schedules : t # s => places'[t] = places[t]
        BY <3>3, <4>1
      <4>3. \A i \in 1..Len(places'[s]) : places'[s][i] = "none" \/ Hidden(s, i)
                                       \/ places'[s][i] # "hidden"
        BY <4>1, <4>2, AppendProperties DEF Hidden
      <4> QED BY <4>2, <4>3 DEF Hidden
    <3>12. \A t \in Schedules, i \in Nat : ~Keeps(c, t, i)
      BY <1>7, <2>0 DEF Keeps
    <3>13. \A t \in Schedules : FileKept(disk[t], disk'[t])
      BY <3>3, <3>5, WriteKept
    <3> QED BY <1>4, <3>7, <3>10, <3>11, <3>12, <3>13
  <2>2. CASE ~Exists(s)
    BY <1>1, <1>6, <1>7, <1>12, <2>0, <2>2 DEF appendRunningRun, Throws
  <2> QED BY <2>1, <2>2
<1>13. \A outcome \in Outcomes : Runs(c, outcome) =>
         \E v \in Calls : /\ call' = [call EXCEPT ![c] = v] /\ v.at = "finish"
                          /\ v.s = call[c].s /\ v.target = call[c].target
  <2>1. SUFFICES ASSUME NEW outcome \in Outcomes, Runs(c, outcome)
                 PROVE  \E v \in Calls : /\ call' = [call EXCEPT ![c] = v] /\ v.at = "finish"
                                         /\ v.s = call[c].s /\ v.target = call[c].target
    OBVIOUS
  <2>2. PICK v : v = [call[c] EXCEPT !.at = "finish", !.outcome = outcome]
    OBVIOUS
  <2>3. "finish" \in Stages
    BY DEF Stages, Claimed, Working
  <2>4. v \in Calls
    BY <1>1, <2>2, <2>3, CallChanges DEF AllTargets
  <2>5. v.at = "finish" /\ v.s = call[c].s
    BY <1>1, <2>2, <2>3, CallKeeps
  <2>6. v.target = call[c].target
    BY <1>1, <2>2, CallTargets
  <2>7. call' = [call EXCEPT ![c] = v]
    BY <1>1, <2>1, <2>2 DEF Runs
  <2> QED BY <2>4, <2>5, <2>6, <2>7
<1>14. ASSUME NEW outcome \in Outcomes, Execute(c, outcome) PROVE PlaceInv'
  <2>1. /\ call[c].at = "run" /\ UNCHANGED <<disk, places>> /\ Runs(c, outcome)
    BY <1>14 DEF Execute
  <2>2. PICK v \in Calls : /\ call' = [call EXCEPT ![c] = v] /\ v.at = "finish"
                           /\ v.s = call[c].s /\ v.target = call[c].target
    BY <1>13, <2>1
  <2>3. WorkWell(v, disk'[v.s])
    BY <1>3, <1>7, <2>1, <2>2 DEF WorkWell
  <2> QED BY <1>3, <1>5, <1>7, <2>1, <2>2, <2>3
\* The workspace changes of a call are changes of its own.
<1>15. ASSUME NEW place, At(c, place), call[c].s \in Schedules
       PROVE  \A s \in Schedules, id \in Nat : Hidden(s, id)' =>
                \/ Hidden(s, id) /\ (s # call[c].s \/ id # call[c].run)
                \/ s = call[c].s /\ id = call[c].run /\ place = "hidden"
  <2>1. places[call[c].s] \in Seq(Places) /\ places \in [Schedules -> Seq(Places)]
    BY <1>15 DEF TypeOK
  <2>2. /\ places'[call[c].s] = [places[call[c].s] EXCEPT ![call[c].run] = place]
        /\ \A s \in Schedules : s # call[c].s => places'[s] = places[s]
    BY <1>15, <2>1 DEF At
  <2>3. \A seq \in Seq(Places) : \A i \in Nat :
          /\ Len([seq EXCEPT ![i] = place]) = Len(seq)
          /\ \A j \in 1..Len(seq) : [seq EXCEPT ![i] = place][j] = IF j = i THEN place ELSE seq[j]
    <3>1. ASSUME NEW seq \in Seq(Places), NEW i \in Nat
          PROVE  /\ Len([seq EXCEPT ![i] = place]) = Len(seq)
                 /\ \A j \in 1..Len(seq) : [seq EXCEPT ![i] = place][j] = IF j = i THEN place ELSE seq[j]
      <4>1. DOMAIN seq = 1..Len(seq) /\ Len(seq) \in Nat
        OBVIOUS
      <4>2. DOMAIN [seq EXCEPT ![i] = place] = 1..Len(seq)
        BY <4>1
      <4>3. [seq EXCEPT ![i] = place] = [j \in 1..Len(seq) |-> IF j = i THEN place ELSE seq[j]]
        BY <4>1
      <4> QED BY <4>1, <4>3
    <3> QED BY <3>1
  <2> QED BY <1>1, <2>1, <2>2, <2>3 DEF Hidden
<1>16. ASSUME CreateWorkspace(c) PROVE PlaceInv'
  <2>1. /\ call[c].at = "run" /\ call[c].target \in NewAgent /\ At(c, "hidden")
        /\ call[c].s \in Schedules /\ UNCHANGED disk
    BY <1>1, <1>16 DEF CreateWorkspace
  <2>2. PICK v : v = [call[c] EXCEPT !.at = "note"]
    OBVIOUS
  <2>3. call' = [call EXCEPT ![c] = v]
    BY <1>1, <1>16, <2>2 DEF CreateWorkspace, Goes
  <2>4. v.at = "note" /\ v.s = call[c].s /\ v.run = call[c].run /\ v.target = call[c].target
    BY <1>1, <2>2, CallKeeps, CallTargets
  <2>5. WorkWell(v, disk'[v.s])
    BY <1>3, <1>7, <2>1, <2>4 DEF WorkWell
  <2>6. \A s \in Schedules, id \in Nat : Hidden(s, id)' =>
          \/ Hidden(s, id) /\ ~Keeps(c, s, id)
          \/ v.at \in Placing /\ v.s = s /\ v.run = id
    BY <1>7, <1>15, <2>1, <2>4 DEF Keeps, Placing
  <2> QED BY <1>3, <1>4, <2>1, <2>3, <2>5, <2>6
\* The record of the workspace: the schedule still wants new agents.
<1>17. ASSUME recordRunWorkspace(c) PROVE PlaceInv'
  <2>0. PICK s \in Schedules : s = call[c].s
    BY <1>1, <1>17 DEF recordRunWorkspace
  <2>1. PICK mark, stage : /\ mark = IF call[c].at = "note" THEN "placed" ELSE "staffed"
                           /\ stage = IF call[c].at = "note" THEN "spawn" ELSE "work"
    OBVIOUS
  <2>2. PICK v, file : v = [call[c] EXCEPT !.at = stage] /\ file = Marked(disk[s], call[c].run, mark)
    OBVIOUS
  <2>3. /\ call[c].at \in Placing /\ Exists(s) /\ Write(s, file)
        /\ call' = [call EXCEPT ![c] = v] /\ UNCHANGED places
    BY <1>1, <1>17, <2>0, <2>1, <2>2 DEF recordRunWorkspace, Goes, Placing
  <2>4. /\ v.at = stage /\ v.s = s /\ v.run = call[c].run /\ v.target = call[c].target
        /\ stage \in Placing
    <3>1. stage \in {"spawn", "work"} /\ stage \in Stages
      BY <2>1 DEF Stages, Claimed, Working
    <3> QED BY <1>1, <2>0, <2>2, <3>1, CallKeeps, CallTargets DEF Placing
  <2>5. disk[s].target \in NewAgent /\ call[c].target \in NewAgent
    BY <1>3, <1>7, <2>0, <2>3 DEF WorkWell, Exists
  <2>6. file.target = disk[s].target /\ file.status = disk[s].status
    BY <1>1, <1>17, <2>0, <2>2, MarkedKept DEF recordRunWorkspace
  <2>7. FileKept(disk[s], file)
    BY <2>5, <2>6 DEF FileKept, PlacedWell
  <2>8. disk'[s] = file
    BY <2>3 DEF Write, TypeOK
  <2>9. WorkWell(v, disk'[v.s])
    BY <2>3, <2>4, <2>5, <2>6, <2>8 DEF WorkWell, Exists
  <2>10. \A t \in Schedules : FileKept(disk[t], disk'[t])
    BY <2>3, <2>7, WriteKept
  <2> QED BY <1>5, <2>0, <2>3, <2>4, <2>9, <2>10
<1>18. ASSUME NEW ok \in BOOLEAN, NEW hasContent \in BOOLEAN,
              disposeScheduleRunWorkspace(c, ok, hasContent)
       PROVE  PlaceInv'
  <2>1. /\ call[c].at \in Placing /\ call[c].s \in Schedules /\ UNCHANGED disk
        /\ Runs(c, "ended")
    BY <1>1, <1>18 DEF disposeScheduleRunWorkspace, Placing
  <2>2. PICK place \in {"none", "visible"} : At(c, place)
    BY <1>18 DEF disposeScheduleRunWorkspace
  <2>3. PICK v \in Calls : /\ call' = [call EXCEPT ![c] = v] /\ v.at = "finish"
                           /\ v.s = call[c].s /\ v.target = call[c].target
    BY <1>13, <2>1 DEF Outcomes
  <2>4. WorkWell(v, disk'[v.s])
    BY <1>3, <1>7, <2>1, <2>3 DEF WorkWell
  <2>5. \A s \in Schedules, id \in Nat : Hidden(s, id)' => Hidden(s, id) /\ ~Keeps(c, s, id)
    BY <1>15, <2>1, <2>2 DEF Keeps, Holds
  <2> QED BY <1>3, <1>4, <2>1, <2>3, <2>4, <2>5
<1>19. ASSUME finishRun(c) PROVE PlaceInv'
  <2>0. PICK s \in Schedules : s = call[c].s /\ call[c].at = "finish"
    BY <1>1, <1>19 DEF finishRun
  <2>1. PICK v : call' = [call EXCEPT ![c] = v] /\ v.at \in {"idle", "loop"}
    BY <1>1, <1>19 DEF finishRun, Returns, Throws
  <2>2. \A t \in Schedules : FileKept(disk[t], disk'[t])
    <3>1. CASE Exists(s)
      <4>1. PICK file : file = Pruned(s, AfterRun(s, Marked(disk[s], call[c].run, "ended"),
                                                  call[c].outcome, c \in Manual))
        OBVIOUS
      <4>2. FileKept(disk[s], file)
        BY <1>1, <3>1, <4>1, FinishKept
      <4>3. Write(s, file)
        BY <1>19, <2>0, <3>1, <4>1 DEF finishRun
      <4> QED BY <4>2, <4>3, WriteKept
    <3>2. CASE ~Exists(s)
      BY <1>3, <1>19, <2>0, <3>2 DEF finishRun
    <3> QED BY <3>1, <3>2
  <2>3. UNCHANGED places
    BY <1>19 DEF finishRun
  <2>4. WorkWell(v, disk'[v.s]) /\ call[c].at \notin Placing
    BY <1>7, <2>0, <2>1 DEF WorkWell
  <2> QED BY <1>5, <2>1, <2>2, <2>3, <2>4
<1> QED BY <1>8, <1>9, <1>10, <1>11, <1>12, <1>14, <1>16, <1>17, <1>18, <1>19 DEF Call

\* What the invariant is about is the same.
LEMMA PlaceSame ==
  ASSUME PlaceInv, UNCHANGED <<disk, places, call, boot, todo, mending, astray>>
  PROVE  PlaceInv'
<1>1. \A s, id : Hidden(s, id)' <=> Hidden(s, id)
  BY DEF Hidden
<1>2. \A s : Looked(s)' <=> Looked(s)
  BY DEF Looked
<1>3. \A s, id : Untold(s, id)' <=> Untold(s, id)
  BY DEF Untold
<1>4. \A c, s, id : Keeps(c, s, id)' <=> Keeps(c, s, id)
  BY DEF Keeps, Holds
<1>5. \A s, id : HasOwner(s, id)' <=> HasOwner(s, id)
  BY <1>2, <1>3, <1>4 DEF HasOwner
<1>6. HiddenKept'
  BY <1>1, <1>5 DEF PlaceInv, HiddenKept
<1>7. PlacedNew' /\ MendsWell'
  BY DEF PlaceInv, PlacedNew, MendsWell
<1>8. WorksWell'
  BY DEF PlaceInv, WorksWell
<1> QED BY <1>6, <1>7, <1>8 DEF PlaceInv

\* The end of the daemon tells what is astray; its start keeps the rest.
LEMMA BootPlaces ==
  ASSUME TypeOK, ClaimInv, PlaceInv, Crash \/ Boot \/ Pass
  PROVE  PlaceInv'
<1> USE DEF bootVars, store, history
\* While the daemon starts there are no calls.
<1>1. boot # "up" => \A c \in Callers : call[c].at \notin Working
  BY DEF ClaimInv, HeldUp, Working
<1>2. ASSUME \A c \in Callers : call'[c].at \notin Working PROVE WorksWell'
  BY <1>2 DEF WorksWell, WorkWell
<1>3. ASSUME Crash PROVE PlaceInv'
  <2>1. /\ boot' = "off" /\ UNCHANGED <<places, disk>> /\ mending' = {}
        /\ call' = [c \in Callers |-> Idle]
    BY <1>3 DEF Crash
  <2>2. \A s \in Schedules : \A id \in Nat :
          Hidden(s, id) => <<s, id>> \in astray' \/ ~Untold(s, id)
    BY <1>3 DEF Crash, Hidden
  <2>3. HiddenKept'
    BY <2>1, <2>2 DEF HiddenKept, HasOwner, Hidden, Looked, Untold
  <2>4. \A c \in Callers : call'[c].at \notin Working
    BY <2>1 DEF Idle, CallOf, Working
  <2> QED BY <1>2, <2>1, <2>3, <2>4 DEF PlaceInv, PlacedNew, MendsWell
\* Nothing is in a file that is not there.
<1>4. \A s \in Schedules : ~Exists(s) => \A id : Untold(s, id)
  BY DEF ClaimInv, NoneWithoutFile, Untold
<1>5. ASSUME start PROVE PlaceInv'
  <2>1. /\ boot = "off" /\ boot' = "recover" /\ todo' = {s \in Schedules : Exists(s)}
        /\ UNCHANGED <<places, disk, mending, call, astray>>
    BY <1>5 DEF start
  <2>2. HiddenKept'
    <3>1. ASSUME NEW s \in Schedules, NEW id \in Nat, Hidden(s, id) PROVE HasOwner(s, id)'
      <4>1. <<s, id>> \in astray \/ ~Untold(s, id)
        BY <2>1, <3>1 DEF PlaceInv, HiddenKept, HasOwner
      <4>2. ~Untold(s, id) => ~Looked(s)'
        BY <1>4, <2>1 DEF Looked
      <4>3. Untold(s, id)' <=> Untold(s, id)
        BY <2>1 DEF Untold
      <4> QED BY <2>1, <4>1, <4>2, <4>3 DEF HasOwner
    <3> QED BY <2>1, <3>1 DEF HiddenKept, Hidden
  <2> QED BY <1>1, <1>2, <2>1, <2>2 DEF PlaceInv, PlacedNew, MendsWell
<1>6. ASSUME Recovered \/ Started PROVE PlaceInv'
  <2>1. /\ boot # "up" /\ boot # "off" /\ UNCHANGED <<places, disk, mending, call, astray>>
        /\ boot = "recover" => todo = {} /\ mending = {}
    BY <1>6 DEF Recovered, Started
  <2>2. \A s \in Schedules, id \in Nat : Hidden(s, id) => <<s, id>> \in astray
    <3>1. \A s \in Schedules : Looked(s)
      BY <1>6 DEF Recovered, Started, Looked
    <3> QED BY <2>1, <3>1 DEF PlaceInv, HiddenKept, HasOwner
  <2>3. HiddenKept'
    BY <2>1, <2>2 DEF HiddenKept, Hidden, HasOwner
  <2> QED BY <1>1, <1>2, <2>1, <2>3 DEF PlaceInv, PlacedNew, MendsWell
\* Recovery reveals or archives what it came to.
<1>7. ASSUME NEW m \in mending, Mend(m) PROVE PlaceInv'
  <2>1. /\ boot = "recover" /\ UNCHANGED <<boot, todo, disk, call, astray>>
        /\ mending' = mending \ {m} /\ m.to # "hidden" /\ m.s \in Schedules
        /\ places' = [places EXCEPT ![m.s] = [@ EXCEPT ![m.run] = m.to]]
    BY <1>7 DEF Mend, PlaceInv, MendsWell, TypeOK
  <2>2. ASSUME NEW s \in Schedules, NEW id \in Nat, Hidden(s, id)'
        PROVE  Hidden(s, id) /\ ~(m.s = s /\ m.run = id)
    <3>1. places[m.s] \in Seq(Places) /\ places \in [Schedules -> Seq(Places)]
      BY <2>1 DEF TypeOK
    <3>2. CASE s # m.s
      BY <2>1, <2>2, <3>1, <3>2 DEF Hidden
    <3>3. CASE s = m.s
      <4>1. places'[s] = [places[s] EXCEPT ![m.run] = m.to]
        BY <2>1, <3>1, <3>3
      <4>2. \A seq \in Seq(Places) : DOMAIN seq = 1..Len(seq) /\ Len(seq) \in Nat
        OBVIOUS
      <4>3. DOMAIN places[s] = 1..Len(places[s]) /\ Len(places[s]) \in Nat
        BY <3>1, <3>3, <4>2
      <4>4. places'[s] = [i \in 1..Len(places[s]) |-> IF i = m.run THEN m.to ELSE places[s][i]]
        BY <4>1, <4>3
      <4>5. Len(places'[s]) = Len(places[s])
        BY <4>3, <4>4
      <4> QED BY <2>1, <2>2, <3>3, <4>3, <4>4, <4>5 DEF Hidden
    <3> QED BY <3>2, <3>3
  <2>3. HiddenKept'
    <3>1. ASSUME NEW s \in Schedules, NEW id \in Nat, Hidden(s, id)' PROVE HasOwner(s, id)'
      <4>1. HasOwner(s, id) /\ ~(m.s = s /\ m.run = id)
        BY <2>2, <3>1 DEF PlaceInv, HiddenKept
      <4>2. (\E n \in mending : n.s = s /\ n.run = id) => \E n \in mending' : n.s = s /\ n.run = id
        BY <2>1, <4>1
      <4>3. Looked(s)' <=> Looked(s)
        BY <2>1 DEF Looked
      <4>4. Untold(s, id)' <=> Untold(s, id)
        BY <2>1 DEF Untold
      <4> QED BY <2>1, <4>1, <4>2, <4>3, <4>4 DEF HasOwner
    <3> QED BY <3>1 DEF HiddenKept
  <2> QED BY <1>1, <1>2, <2>1, <2>3 DEF PlaceInv, PlacedNew, MendsWell
\* Recovery takes the one open run of a file, and minds its workspace.
<1>8. ASSUME NEW s \in Schedules, recoverInterruptedSchedule(s) PROVE PlaceInv'
  <2>0. PICK lost, first, failed :
          /\ lost = disk[s].runs \ Finished(disk[s].runs)
          /\ first = {run \in lost : \A other \in lost : run.id =< other.id}
          /\ failed = [disk[s] EXCEPT !.runs =
                         (@ \ first) \cup {[run EXCEPT !.is = "ended"] : run \in first}]
    OBVIOUS
  <2>1. /\ boot = "recover" /\ s \in todo /\ todo' = todo \ {s}
        /\ UNCHANGED <<boot, places, call, astray>>
        /\ mending' = mending \cup Interrupted(s, first)
        /\ Write(s, IF failed.status = "active" /\ failed.next \in 1..clock
                    THEN Planned(failed, "active", NextAfter(s, failed.next)) ELSE failed)
    BY <1>8, <2>0 DEF recoverInterruptedSchedule
  <2>2. disk[s] \in Files /\ disk[s].runs \subseteq RunRecords /\ PlacedWell(disk[s])
    BY DEF TypeOK, Files, PlaceInv, PlacedNew
  <2>3. first = Open(s)
    <3>1. lost = Open(s)
      BY <2>0 DEF Finished, Open
    <3>2. \A run \in Open(s) : run.id \in Nat
      BY <2>2 DEF Open, RunRecords
    <3>3. \A run, other \in Open(s) : run = other
      BY DEF ClaimInv, OpenOnce
    <3> QED BY <2>0, <3>1, <3>2, <3>3
  <2>4. /\ failed.runs = (disk[s].runs \ first) \cup {[run EXCEPT !.is = "ended"] : run \in first}
        /\ failed.target = disk[s].target
    BY <2>0, <2>2 DEF Files
  <2>5. \A run \in failed.runs : run \in disk[s].runs \/ run.is = "ended"
    <3>1. \A run \in RunRecords : [run EXCEPT !.is = "ended"].is = "ended"
      BY DEF RunRecords
    <3> QED BY <2>2, <2>3, <2>4, <3>1 DEF Open
  <2>6. /\ disk'[s].runs = failed.runs /\ disk'[s].target = failed.target
        /\ \A t \in Schedules : t # s => disk'[t] = disk[t]
    <3>1. \A next : /\ Planned(failed, "active", next).runs = failed.runs
                    /\ Planned(failed, "active", next).target = failed.target
      BY DEF Planned
    <3> QED BY <2>1, <3>1 DEF Write, TypeOK
  <2>7. PlacedNew'
    <3>1. PlacedWell(disk'[s])
      BY <2>2, <2>4, <2>5, <2>6 DEF PlacedWell
    <3> QED BY <2>6, <3>1 DEF PlacedNew, PlaceInv
  <2>8. MendsWell'
    <3>1. \A m \in Interrupted(s, first) : m.to # "hidden"
      BY DEF Interrupted
    <3> QED BY <2>1, <3>1 DEF PlaceInv, MendsWell
  <2>9. \A id \in Nat : ~Untold(s, id) => \E m \in mending' : m.s = s /\ m.run = id
    <3>1. SUFFICES ASSUME NEW id \in Nat, ~Untold(s, id)
                   PROVE  \E m \in mending' : m.s = s /\ m.run = id
      OBVIOUS
    <3>2. PICK run \in disk[s].runs : run.id = id /\ run.is \in {"placed", "staffed"}
      BY <3>1 DEF Untold
    <3>3. run \in first /\ disk[s].target \in NewAgent
      BY <2>2, <2>3, <3>2 DEF Open, PlacedWell
    <3>4. PICK m : m = [s |-> s, run |-> run.id,
                        to |-> IF run.is = "placed" \/ disk[s].target = "archive"
                               THEN "none" ELSE "visible"]
      OBVIOUS
    <3>5. m \in Interrupted(s, first)
      BY <3>2, <3>3, <3>4 DEF Interrupted
    <3> QED BY <2>1, <3>2, <3>4, <3>5
  <2>10. HiddenKept'
    <3>1. ASSUME NEW t \in Schedules, NEW id \in Nat, Hidden(t, id) PROVE HasOwner(t, id)'
      <4>1. HasOwner(t, id)
        BY <3>1 DEF PlaceInv, HiddenKept
      <4>2. CASE t = s
        BY <2>1, <2>9, <4>1, <4>2 DEF HasOwner
      <4>3. CASE t # s
        <5>1. Looked(t)' <=> Looked(t)
          BY <2>1, <4>3 DEF Looked
        <5>2. Untold(t, id)' <=> Untold(t, id)
          BY <2>6, <4>3 DEF Untold
        <5> QED BY <2>1, <4>1, <5>1, <5>2 DEF HasOwner
      <4> QED BY <4>2, <4>3
    <3> QED BY <2>1, <3>1 DEF HiddenKept, Hidden
  <2> QED BY <1>1, <1>2, <2>1, <2>7, <2>8, <2>10 DEF PlaceInv
<1>9. ASSUME NEW s \in Schedules, sweepOrphanedSchedule(s) PROVE PlaceInv'
  <2>1. /\ boot = "sweep" /\ UNCHANGED <<boot, places, mending, call, astray>>
    BY <1>9 DEF sweepOrphanedSchedule
  <2>2. \A t \in Schedules : disk'[t].runs = disk[t].runs /\ disk'[t].target = disk[t].target
    BY <1>9 DEF sweepOrphanedSchedule, Write, Completed, Planned, TypeOK
  <2>3. PlacedNew'
    BY <2>2 DEF PlaceInv, PlacedNew, PlacedWell
  <2>4. HiddenKept'
    BY <2>1 DEF PlaceInv, HiddenKept, HasOwner, Hidden, Looked
  <2> QED BY <1>1, <1>2, <2>1, <2>3, <2>4 DEF PlaceInv, MendsWell
<1>10. ASSUME Pass PROVE PlaceInv'
  <2>1. UNCHANGED <<disk, places, call, boot, todo, mending, astray>>
    BY <1>10 DEF Pass, daemon, history
  <2> QED BY <2>1, PlaceSame
<1> QED BY <1>3, <1>5, <1>6, <1>7, <1>8, <1>9, <1>10 DEF Boot

\* The hidden workspace of a run is revealed or archived by the run or by
\* recovery, unless the daemon ended when no file told of it: for any
\* schedules, ticks, edits and restarts.
THEOREM HiddenWorkspacesHaveOwners == Spec => []HiddenHasOwner
<1>1. Init => PlaceInv
  <2>1. SUFFICES ASSUME Init PROVE PlaceInv
    OBVIOUS
  <2>2. \A s \in Schedules : disk[s].runs = {} /\ Len(places[s]) = 0
    BY <2>1 DEF Init, NoFile
  <2>3. \A c \in Callers : call[c].at \notin Working
    BY <2>1 DEF Init, Idle, CallOf, Working
  <2> QED BY <2>1, <2>2, <2>3 DEF Init, PlaceInv, HiddenKept, Hidden, PlacedNew, PlacedWell,
                                  WorksWell, WorkWell, MendsWell
<1>2. TypeOK /\ ClaimInv /\ PlaceInv /\ [Next]_vars => PlaceInv'
  <2>1. SUFFICES ASSUME TypeOK, ClaimInv, PlaceInv, [Next]_vars PROVE PlaceInv'
    OBVIOUS
  <2>2. CASE UNCHANGED vars
    <3>1. UNCHANGED <<disk, places, call, boot, todo, mending, astray>>
      BY <2>2 DEF vars
    <3> QED BY <2>1, <3>1, PlaceSame
  <2> QED BY <2>1, <2>2, RequestPlaces, CallPlaces, BootPlaces DEF Next
<1>3. TypeOK /\ PlaceInv => HiddenHasOwner
  <2>1. SUFFICES ASSUME TypeOK, PlaceInv, boot \in {"sweep", "up"}, NEW s \in Schedules,
                        NEW id \in 1..Len(places[s]), places[s][id] = "hidden"
                 PROVE  \/ \E c \in Callers : Holds(c, s) /\ call[c].run = id
                        \/ <<s, id>> \in astray
    BY DEF HiddenHasOwner
  <2>2. id \in Nat /\ Hidden(s, id)
    BY <2>1 DEF Hidden
  <2> QED BY <2>1, <2>2 DEF PlaceInv, HiddenKept, HasOwner, Keeps, Looked
<1> QED BY <1>1, <1>2, <1>3, ScheduleTypes, ScheduleClaims, PTL DEF Spec

-----------------------------------------------------------------------------
(***************************************************************************)
(* A schedule fires once for each of its times, and in their order, for    *)
(* any number of schedules, ticks, runs by hand, edits and restarts, but   *)
(* for the ticks whose read of the file a whole run has outlived.          *)
(***************************************************************************)

Before(s, t) == \A i \in 1..Len(slots[s]) : slots[s][i] < t
UpTo(s, t)   == \A i \in 1..Len(slots[s]) : slots[s][i] =< t

\* A tick runs the schedule; or one may have when the daemon ended, and
\* recovery has not come to the schedule yet.
Fired(s)  == \E c \in Ticks : Holds(c, s) /\ call[c].at \in Working
Firing(s) == Fired(s) \/ boot = "off" \/ (boot = "recover" /\ s \in todo)

\* A tick is about to run a schedule for a time.
Claims(c) == call[c].at \in {"claim", "append"} /\ call[c].slot # 0

OnlyActive == \A s \in Schedules : disk[s].status # "active" => disk[s].next = 0
NotYetBorn == \A s \in Schedules : disk[s].status = "unborn" => slots[s] = <<>>
InThePast  == \A s \in Schedules : UpTo(s, clock)
TickLike(c, v) ==
  /\ v.now =< clock /\ v.slot =< clock
  /\ c \notin Ticks => /\ v.slot = 0 /\ v.due = {} /\ v.over = {}
                       /\ v.at \notin {"loop", "complete", "read"}
TicksClaim == \A c \in Callers : TickLike(c, call[c])
NextLater  == \A s \in Schedules : disk[s].next # 0 =>
                Before(s, disk[s].next) \/ (UpTo(s, disk[s].next) /\ Firing(s))
ClaimsLater == \A c \in Callers : Claims(c) =>
  /\ disk[call[c].s].next = 0 \/ call[c].slot =< disk[call[c].s].next
  /\ \/ Before(call[c].s, call[c].slot) \/ c \in outrun
     \/ call[c].at = "claim" /\ Fired(call[c].s)

\* The next time of a schedule is after every time it has fired for, except
\* while a run of it is under way; what a tick claims is not before the next
\* time, and after every time fired for, unless the tick will find the
\* schedule claimed, or its read has been outlived by a run.
SlotInv == /\ OnlyActive /\ NotYetBorn /\ InThePast /\ TicksClaim
           /\ NextLater /\ ClaimsLater /\ FiresOnce

-----------------------------------------------------------------------------
LEMMA SlotTypes ==
  ASSUME TypeOK
  PROVE  /\ clock \in Nat
         /\ \A s \in Schedules : /\ slots[s] \in Seq(Nat) /\ Len(slots[s]) \in Nat
                                 /\ \A i \in 1..Len(slots[s]) : slots[s][i] \in Nat
                                 /\ disk[s] \in Files /\ disk[s].next \in Nat
         /\ \A c \in Callers : /\ call[c] \in Calls
                               /\ call[c].slot \in Nat /\ call[c].now \in Nat
                               /\ Claims(c) => call[c].s \in Schedules
<1>1. clock \in Nat
  BY DEF TypeOK
<1>2. \A s \in Schedules : slots[s] \in Seq(Nat) /\ disk[s] \in Files
  BY DEF TypeOK
<1>3. \A s \in Schedules : /\ Len(slots[s]) \in Nat
                           /\ \A i \in 1..Len(slots[s]) : slots[s][i] \in Nat
  BY <1>2
<1>4. \A s \in Schedules : disk[s].next \in Nat
  BY <1>2 DEF Files
<1>5. \A c \in Callers : /\ call[c] \in Calls /\ call[c].slot \in Nat /\ call[c].now \in Nat
  BY DEF TypeOK, Calls
<1>6. \A c \in Callers : Claims(c) => call[c].s \in Schedules
  BY DEF TypeOK, Claims
<1> QED BY <1>1, <1>2, <1>3, <1>4, <1>5, <1>6

\* What keeps the invariant in a step that fires for nothing: a next time
\* stays, goes, or comes after the present; a run is over only with such a
\* next time; and a tick that claims found its time to be after those fired for.
LEMMA SlotsStep ==
  ASSUME TypeOK, TypeOK', SlotInv, UNCHANGED slots, late \subseteq late', clock' >= clock,
         OnlyActive', NotYetBorn', TicksClaim',
         \A s \in Schedules :
           \/ disk'[s].next = 0 \/ disk'[s].next > clock
           \/ disk'[s].next = clock /\ Before(s, clock)
           \/ disk'[s].next = disk[s].next /\ (Firing(s) => Firing(s)'),
         \A c \in Callers : Claims(c)' =>
           /\ \/ Claims(c) /\ call'[c].s = call[c].s /\ call'[c].slot = call[c].slot
              \/ disk'[call'[c].s].next = call'[c].slot
           /\ \/ Before(call'[c].s, call'[c].slot) \/ c \in outrun'
              \/ /\ call'[c].at = "claim"
                 /\ \E d \in Ticks : call'[d].at \in Working /\ call'[d].s = call'[c].s
  PROVE  SlotInv'
<1>1. \A t : \A s \in Schedules : (Before(s, t) => \A i \in 1..Len(slots'[s]) : slots'[s][i] < t)
                              /\ (UpTo(s, t) => \A i \in 1..Len(slots'[s]) : slots'[s][i] =< t)
  BY DEF Before, UpTo
<1>2. /\ clock \in Nat /\ clock' \in Nat
      /\ \A s \in Schedules : /\ disk[s].next \in Nat /\ disk'[s].next \in Nat
                              /\ \A i \in 1..Len(slots[s]) : slots[s][i] \in Nat
      /\ \A c \in Callers : call[c].slot \in Nat
  <2>1. disk' \in [Schedules -> Files] /\ clock' \in Nat
    BY DEF TypeOK
  <2>2. \A s \in Schedules : disk'[s].next \in Nat
    BY <2>1 DEF Files
  <2> QED BY <2>1, <2>2, SlotTypes
<1>3. InThePast'
  BY <1>2 DEF SlotInv, InThePast, UpTo
<1>4. NextLater'
  <2>1. SUFFICES ASSUME NEW s \in Schedules, disk'[s].next # 0
                 PROVE  \/ \A i \in 1..Len(slots[s]) : slots[s][i] < disk'[s].next
                        \/ /\ \A i \in 1..Len(slots[s]) : slots[s][i] =< disk'[s].next
                           /\ Firing(s)'
    BY DEF NextLater, Before, UpTo
  <2>2. UpTo(s, clock)
    BY DEF SlotInv, InThePast
  <2>3. CASE disk'[s].next > clock
    BY <1>2, <2>2, <2>3 DEF UpTo
  <2>4. CASE disk'[s].next = clock /\ Before(s, clock)
    BY <2>4 DEF Before
  <2>5. CASE disk'[s].next = disk[s].next /\ (Firing(s) => Firing(s)')
    <3>1. Before(s, disk[s].next) \/ (UpTo(s, disk[s].next) /\ Firing(s))
      BY <2>1, <2>5 DEF SlotInv, NextLater
    <3> QED BY <2>5, <3>1 DEF Before, UpTo
  <2> QED BY <2>1, <2>3, <2>4, <2>5
<1>5. ClaimsLater'
  <2>1. SUFFICES ASSUME NEW c \in Callers, Claims(c)'
                 PROVE  /\ disk'[call'[c].s].next = 0 \/ call'[c].slot =< disk'[call'[c].s].next
                        /\ \/ Before(call[c].s, call[c].slot)' \/ c \in outrun'
                           \/ call'[c].at = "claim" /\ Fired(call[c].s)'
    BY DEF ClaimsLater
  <2>2. PICK s, slot : s = call'[c].s /\ slot = call'[c].slot
    OBVIOUS
  <2>3. s \in Schedules /\ slot \in Nat
    BY <2>1, <2>2 DEF Claims, TypeOK, Calls
  <2>4. disk'[s].next = 0 \/ slot =< disk'[s].next
    <3>1. CASE Claims(c) /\ call'[c].s = call[c].s /\ call'[c].slot = call[c].slot
      <4>1. /\ disk[s].next = 0 \/ slot =< disk[s].next
            /\ slot =< clock
        BY <2>2, <3>1 DEF SlotInv, ClaimsLater, TicksClaim, TickLike
      <4>2. /\ disk'[s].next \in Nat /\ disk[s].next \in Nat /\ clock \in Nat
            /\ \/ disk'[s].next = 0 \/ disk'[s].next > clock
               \/ disk'[s].next = clock \/ disk'[s].next = disk[s].next
        BY <1>2, <2>3
      <4> QED BY <2>3, <4>1, <4>2
    <3>2. CASE disk'[s].next = slot
      BY <2>3, <3>2
    <3> QED BY <2>1, <2>2, <3>1, <3>2
  <2>5. \/ Before(s, slot) \/ c \in outrun'
        \/ call'[c].at = "claim" /\ \E d \in Ticks : call'[d].at \in Working /\ call'[d].s = s
    BY <2>1, <2>2
  <2>6. (\E d \in Ticks : call'[d].at \in Working /\ call'[d].s = s) => Fired(s)'
    BY DEF Fired, Holds, Claimed
  <2>7. Before(s, slot) => Before(call[c].s, call[c].slot)'
    <3>1. Before(s, slot) => Before(s, slot)'
      BY DEF Before
    <3>2. Before(s, slot)' => Before(call[c].s, call[c].slot)'
      BY <2>2 DEF Before
    <3> QED BY <3>1, <3>2
  <2>8. Fired(s)' => Fired(call[c].s)'
    BY <2>2 DEF Fired, Holds
  <2> QED BY <2>2, <2>4, <2>5, <2>6, <2>7, <2>8
<1>6. FiresOnce'
  BY DEF SlotInv, FiresOnce
<1> QED BY <1>3, <1>4, <1>5, <1>6 DEF SlotInv

\* A tick that claims keeps doing so, or a tick's run goes on, when calls stay.
LEMMA CallsStay ==
  ASSUME TypeOK, SlotInv, UNCHANGED <<call, outrun>>, NEW c \in Callers, Claims(c)'
  PROVE  /\ Claims(c) /\ call'[c].s = call[c].s /\ call'[c].slot = call[c].slot
         /\ \/ Before(call'[c].s, call'[c].slot) \/ c \in outrun'
            \/ /\ call'[c].at = "claim"
               /\ \E d \in Ticks : call'[d].at \in Working /\ call'[d].s = call'[c].s
<1>1. Claims(c)
  BY DEF Claims
<1>2. call' = call
  OBVIOUS
<1>3. \/ Before(call[c].s, call[c].slot) \/ c \in outrun
      \/ call[c].at = "claim" /\ Fired(call[c].s)
  BY <1>1 DEF SlotInv, ClaimsLater
<1>4. Fired(call[c].s) => \E d \in Ticks : call[d].at \in Working /\ call[d].s = call[c].s
  BY DEF Fired, Holds
<1> QED BY <1>1, <1>2, <1>3, <1>4

\* One file is written.
LEMMA WriteSlots ==
  ASSUME TypeOK, TypeOK', SlotInv, UNCHANGED <<clock, firings, call, boot, todo>>,
         NEW s \in Schedules, NEW file, Write(s, file),
         file.status # "active" => file.next = 0,
         file.status = "unborn" => disk[s].status = "unborn",
         \/ file.next = 0 \/ file.next > clock \/ file.next = disk[s].next
         \/ file.next = clock /\ Before(s, clock)
  PROVE  SlotInv'
<1> USE DEF firings
<1>1. /\ disk'[s] = file
      /\ \A other \in Schedules : other # s => disk'[other] = disk[other]
  BY DEF TypeOK, Write
<1>2. OnlyActive'
  BY <1>1 DEF SlotInv, OnlyActive
<1>3. NotYetBorn'
  BY <1>1 DEF SlotInv, NotYetBorn
<1>4. TicksClaim'
  BY DEF SlotInv, TicksClaim, TickLike
<1>5. clock' >= clock
  <2>1. clock \in Nat /\ clock' = clock
    BY DEF TypeOK
  <2> QED BY <2>1
<1>6. \A other \in Schedules : Firing(other) => Firing(other)'
  BY DEF Firing, Fired, Holds
<1>7. \A other \in Schedules :
        \/ disk'[other].next = 0 \/ disk'[other].next > clock
        \/ disk'[other].next = clock /\ Before(other, clock)
        \/ disk'[other].next = disk[other].next /\ (Firing(other) => Firing(other)')
  BY <1>1, <1>6
<1>8. \A c \in Callers : Claims(c)' =>
        /\ Claims(c) /\ call'[c].s = call[c].s /\ call'[c].slot = call[c].slot
        /\ \/ Before(call'[c].s, call'[c].slot) \/ c \in outrun'
           \/ /\ call'[c].at = "claim"
              /\ \E d \in Ticks : call'[d].at \in Working /\ call'[d].s = call'[c].s
  BY CallsStay
<1>9. UNCHANGED slots /\ late \subseteq late'
  OBVIOUS
<1> QED BY <1>2, <1>3, <1>4, <1>5, <1>7, <1>8, <1>9, SlotsStep

\* A file that is planned anew is one the lemma above is about.
LEMMA PlannedSlots ==
  ASSUME TypeOK, TypeOK', SlotInv, UNCHANGED <<clock, firings, call, boot, todo>>,
         NEW s \in Schedules, NEW status \in {"active", "paused", "completed"}, NEW next \in Nat,
         Write(s, Planned(disk[s], status, next)),
         status # "active" => next = 0,
         \/ next = 0 \/ next > clock
         \/ next = clock /\ Before(s, clock)
  PROVE  SlotInv'
<1> USE DEF firings
<1>1. Planned(disk[s], status, next).status = status /\ Planned(disk[s], status, next).next = next
  BY DEF Planned
<1> QED BY <1>1, WriteSlots

\* One call goes on.  A tick that runs a schedule does so afterwards, unless
\* the schedule's next time has moved on and no other tick has read it.
Survives(s, c, v) == \/ \E d \in Ticks : d # c /\ call[d].at \in Working /\ call[d].s = s
                     \/ c \in Ticks /\ v.at \in Working /\ v.s = s

LEMMA CallSlots ==
  ASSUME TypeOK, TypeOK', SlotInv, UNCHANGED <<clock, slots, boot, todo>>, late \subseteq late',
         NEW c \in Callers, NEW v, call' = [call EXCEPT ![c] = v], TickLike(c, v),
         outrun \ {c} \subseteq outrun',
         OnlyActive', NotYetBorn',
         \A s \in Schedules :
           \/ disk'[s].next = 0 \/ disk'[s].next > clock
           \/ disk'[s].next = disk[s].next /\ (Fired(s) => Survives(s, c, v)),
         \A d \in Ticks : d # c /\ call[d].at = "claim" /\ Fired(call[d].s) =>
           Survives(call[d].s, c, v) \/ d \in outrun',
         v.at \in {"claim", "append"} /\ v.slot # 0 =>
           /\ \/ Claims(c) /\ v.s = call[c].s /\ v.slot = call[c].slot
              \/ disk'[v.s].next = v.slot
           /\ \/ Before(v.s, v.slot) \/ c \in outrun'
              \/ v.at = "claim" /\ Survives(v.s, c, v)
  PROVE  SlotInv'
<1>1. /\ call'[c] = v /\ \A d \in Callers : d # c => call'[d] = call[d]
      /\ Ticks \subseteq Callers /\ clock' >= clock
  <2>1. clock \in Nat /\ clock' = clock
    BY DEF TypeOK
  <2> QED BY <2>1 DEF TypeOK, Callers
<1>2. \A s : Survives(s, c, v) => \E d \in Ticks : call'[d].at \in Working /\ call'[d].s = s
  BY <1>1 DEF Survives
<1>3. TicksClaim'
  <2>1. \A d \in Callers : TickLike(d, call[d])
    BY DEF SlotInv, TicksClaim
  <2>2. \A d \in Callers : TickLike(d, call'[d])
    BY <1>1, <2>1
  <2> QED BY <2>2 DEF TicksClaim, TickLike
<1>4. \A s \in Schedules : (Fired(s) => Survives(s, c, v)) => (Firing(s) => Firing(s)')
  <2>1. \A s : (\E d \in Ticks : call'[d].at \in Working /\ call'[d].s = s) => Fired(s)'
    BY DEF Fired, Holds, Claimed
  <2> QED BY <1>2, <2>1 DEF Firing
<1>5. \A s \in Schedules :
        \/ disk'[s].next = 0 \/ disk'[s].next > clock
        \/ disk'[s].next = clock /\ Before(s, clock)
        \/ disk'[s].next = disk[s].next /\ (Firing(s) => Firing(s)')
  BY <1>4
<1>6. ASSUME NEW d \in Callers, Claims(d)'
      PROVE  /\ \/ Claims(d) /\ call'[d].s = call[d].s /\ call'[d].slot = call[d].slot
                \/ disk'[call'[d].s].next = call'[d].slot
             /\ \/ Before(call'[d].s, call'[d].slot) \/ d \in outrun'
                \/ /\ call'[d].at = "claim"
                   /\ \E e \in Ticks : call'[e].at \in Working /\ call'[e].s = call'[d].s
  <2>1. CASE d = c
    <3>1. v.at \in {"claim", "append"} /\ v.slot # 0
      BY <1>1, <1>6, <2>1 DEF Claims
    <3> QED BY <1>1, <1>2, <2>1, <3>1
  <2>2. CASE d # c
    <3>1. Claims(d) /\ call'[d] = call[d]
      BY <1>1, <1>6, <2>2 DEF Claims
    <3>2. \/ Before(call[d].s, call[d].slot) \/ d \in outrun
          \/ call[d].at = "claim" /\ Fired(call[d].s)
      BY <3>1 DEF SlotInv, ClaimsLater
    <3>3. d \in Ticks
      BY <3>1 DEF Claims, SlotInv, TicksClaim, TickLike
    <3> QED BY <1>2, <2>2, <3>1, <3>2, <3>3
  <2> QED BY <2>1, <2>2
<1>7. UNCHANGED slots /\ late \subseteq late'
  OBVIOUS
<1> QED BY <1>1, <1>3, <1>5, <1>6, <1>7, SlotsStep

\* The same for a call that runs nothing and a next time that stays.
LEMMA QuietCallSlots ==
  ASSUME TypeOK, TypeOK', SlotInv, UNCHANGED <<clock, slots, boot, todo>>, late \subseteq late',
         NEW c \in Callers, NEW v, call' = [call EXCEPT ![c] = v], TickLike(c, v),
         outrun \ {c} \subseteq outrun',
         UNCHANGED disk, call[c].at \notin Working,
         v.at \in {"claim", "append"} /\ v.slot # 0 =>
           /\ \/ Claims(c) /\ v.s = call[c].s /\ v.slot = call[c].slot
              \/ disk'[v.s].next = v.slot
           /\ \/ Before(v.s, v.slot) \/ c \in outrun'
              \/ v.at = "claim" /\ Survives(v.s, c, v)
  PROVE  SlotInv'
<1>1. OnlyActive' /\ NotYetBorn'
  BY DEF SlotInv, OnlyActive, NotYetBorn
<1>2. \A s : Fired(s) => Survives(s, c, v)
  BY DEF Fired, Holds, Survives
<1>3. \A s \in Schedules : disk'[s].next = disk[s].next
  OBVIOUS
<1> QED BY <1>1, <1>2, <1>3, CallSlots

\* Requests plan a schedule for later, or for an instant it has not fired for.
LEMMA RequestSlots ==
  ASSUME TypeOK, TypeOK', SlotInv, Request
  PROVE  SlotInv'
<1> USE DEF requestVars, firings
<1>1. /\ clock \in Nat /\ 0 \in Nat
      /\ \A s \in Schedules : clock + Every[s] > clock /\ clock + Every[s] \in Nat
  BY DEF TypeOK
<1>2. ASSUME NEW s \in Schedules, NEW soon \in RunOnCreate, NEW target \in Targets[s],
             create(s, target, soon)
      PROVE  SlotInv'
  <2> DEFINE file == [status |-> "active", next |-> FirstRun(s, soon), target |-> target,
                      runs |-> {}]
  <2>1. /\ Write(s, file) /\ file.status = "active"
        /\ file.next = clock \/ file.next > clock
    BY <1>1, <1>2 DEF create, FirstRun
  <2>2. slots[s] = <<>>
    BY <1>2 DEF create, SlotInv, NotYetBorn
  <2>3. Before(s, clock)
    BY <2>2 DEF Before
  <2>4. UNCHANGED <<clock, firings, call, boot, todo>>
    BY <1>2 DEF create
  <2> HIDE DEF file
  <2> QED BY <2>1, <2>3, <2>4, WriteSlots
<1>3. ASSUME NEW s \in Schedules, NEW soon \in RunOnCreate, createOrReplace(s, soon)
      PROVE  SlotInv'
  <2>1. Before(s, clock)
    <3>1. UpTo(s, clock) /\ \A i \in 1..Len(slots[s]) : slots[s][i] # clock
      BY <1>3 DEF createOrReplace, SlotInv, InThePast
    <3> QED BY <1>1, <3>1, SlotTypes DEF UpTo, Before
  <2>2. (FirstRun(s, soon) = clock \/ FirstRun(s, soon) > clock) /\ FirstRun(s, soon) \in Nat
    BY <1>1 DEF FirstRun
  <2>3. /\ Write(s, Planned(disk[s], "active", FirstRun(s, soon)))
        /\ UNCHANGED <<clock, firings, call, boot, todo>>
    BY <1>3 DEF createOrReplace
  <2> QED BY <2>1, <2>2, <2>3, PlannedSlots
<1>4. ASSUME NEW s \in Schedules, pause(s) PROVE SlotInv'
  <2>1. /\ Write(s, Planned(disk[s], "paused", 0))
        /\ UNCHANGED <<clock, firings, call, boot, todo>>
    BY <1>4 DEF pause
  <2> QED BY <1>1, <2>1, PlannedSlots
<1>5. ASSUME NEW s \in Schedules, resume(s) PROVE SlotInv'
  <2>1. /\ Write(s, Planned(disk[s], "active", clock + Every[s]))
        /\ UNCHANGED <<clock, firings, call, boot, todo>>
    BY <1>5 DEF resume
  <2> QED BY <1>1, <2>1, PlannedSlots
<1>6. ASSUME NEW s \in Schedules, update(s) PROVE SlotInv'
  <2>1. /\ disk[s].status \in {"active", "paused", "completed"} /\ disk[s] \in Files
        /\ UNCHANGED <<clock, firings, call, boot, todo>>
    BY <1>6 DEF update, Exists, TypeOK, Files
  <2>2. CASE \E target \in NewAgent : Write(s, [disk[s] EXCEPT !.target = target])
    <3>1. PICK target \in NewAgent : Write(s, [disk[s] EXCEPT !.target = target])
      BY <2>2
    <3> DEFINE file == [disk[s] EXCEPT !.target = target]
    <3>2. /\ file.status = disk[s].status /\ file.next = disk[s].next /\ Write(s, file)
          /\ disk[s].status # "active" => disk[s].next = 0
      BY <2>1, <3>1 DEF Files, SlotInv, OnlyActive
    <3> HIDE DEF file
    <3> QED BY <2>1, <3>2, WriteSlots
  <2>3. CASE Write(s, Planned(disk[s], disk[s].status,
                              IF disk[s].status = "active" THEN clock + Every[s] ELSE 0))
    <3> DEFINE next == IF disk[s].status = "active" THEN clock + Every[s] ELSE 0
    <3>1. /\ disk[s].status # "active" => next = 0
          /\ next = 0 \/ next > clock
          /\ next \in Nat
      BY <1>1
    <3>2. Write(s, Planned(disk[s], disk[s].status, next))
      BY <2>3
    <3> HIDE DEF next
    <3> QED BY <2>1, <3>1, <3>2, PlannedSlots
  <2> QED BY <1>6, <2>2, <2>3 DEF update
<1>7. ASSUME NEW s \in Schedules, delete(s) PROVE SlotInv'
  <2> DEFINE file == [NoFile EXCEPT !.status = "deleted"]
  <2>1. /\ file.status = "deleted" /\ file.next = 0 /\ Write(s, file)
        /\ UNCHANGED <<clock, firings, call, boot, todo>>
    BY <1>7 DEF delete, NoFile
  <2> HIDE DEF file
  <2> QED BY <2>1, WriteSlots
<1>8. ASSUME NEW s \in Schedules, Archive(s) PROVE SlotInv'
  <2>1. UNCHANGED <<clock, firings, call, boot, todo, disk>>
    BY <1>8 DEF Archive
  <2>2. Write(s, disk[s])
    BY <2>1 DEF Write, TypeOK
  <2>3. disk[s].status # "active" => disk[s].next = 0
    BY DEF SlotInv, OnlyActive
  <2> QED BY <2>1, <2>2, <2>3, WriteSlots
<1>9. ASSUME NEW s \in Schedules, completeForAgent(s) PROVE SlotInv'
  <2>1. UNCHANGED <<clock, firings, call, boot, todo>>
    BY <1>9 DEF completeForAgent
  <2>2. CASE Exists(s)
    <3>1. Write(s, Planned(disk[s], "completed", 0))
      BY <1>9, <2>2 DEF completeForAgent, Completed
    <3> QED BY <1>1, <2>1, <3>1, PlannedSlots
  <2>3. CASE ~Exists(s)
    <3>1. Write(s, disk[s])
      BY <1>9, <2>3 DEF completeForAgent
    <3>2. disk[s].status # "active" => disk[s].next = 0
      BY DEF SlotInv, OnlyActive
    <3> QED BY <2>1, <3>1, <3>2, WriteSlots
  <2> QED BY <2>2, <2>3
<1>10. ASSUME NEW s \in Schedules, NEW c \in Manual, runOnce(c, s) PROVE SlotInv'
  <2>1. /\ c \in Callers /\ call[c].at = "idle" /\ UNCHANGED <<clock, disk, firings, boot, todo>>
        /\ call' = [call EXCEPT ![c] = CallOf("claim", 0, {}, {}, s)]
    BY <1>10 DEF Callers, runOnce, store, history
  <2> DEFINE v == CallOf("claim", 0, {}, {}, s)
  <2>2. TickLike(c, v) /\ v.slot = 0
    BY <1>1 DEF CallOf, TickLike
  <2>3. OnlyActive' /\ NotYetBorn'
    BY <2>1 DEF SlotInv, OnlyActive, NotYetBorn
  <2>4. call[c].at \notin Working
    BY <2>1 DEF Working
  <2>5. call' = [call EXCEPT ![c] = v] /\ UNCHANGED <<clock, disk, firings, boot, todo>>
    BY <2>1
  <2> HIDE DEF v
  <2> QED BY <2>1, <2>2, <2>3, <2>4, <2>5, QuietCallSlots
<1> QED BY <1>2, <1>3, <1>4, <1>5, <1>6, <1>7, <1>8, <1>9, <1>10 DEF Request

-----------------------------------------------------------------------------
\* When a run has ended, the next time is gone or after the present, except
\* after a run by hand, which leaves it.
LEMMA AfterRunNext ==
  ASSUME clock \in Nat, NEW s \in Schedules, NEW file \in Files, NEW outcome, NEW c,
         file.status \notin {"unborn", "deleted"},
         file.status # "active" => file.next = 0
  PROVE  /\ \/ AfterRun(s, file, outcome, c \in Manual).next = 0
            \/ AfterRun(s, file, outcome, c \in Manual).next > clock
            \/ /\ c \in Manual
               /\ AfterRun(s, file, outcome, c \in Manual).next = file.next
         /\ AfterRun(s, file, outcome, c \in Manual).status # "active" =>
              AfterRun(s, file, outcome, c \in Manual).next = 0
         /\ AfterRun(s, file, outcome, c \in Manual).status \notin {"unborn", "deleted"}
<1> DEFINE t == IF file.next = 0 THEN clock ELSE file.next
<1>1. t \in Nat /\ file.status \in {"active", "paused", "completed"}
  BY DEF Files
<1>2. NextAfter(s, t) \in Nat /\ NextAfter(s, t) > clock
  <2> HIDE DEF t
  <2> QED BY <1>1, NextTime
<1>3. /\ Completed(file).status = "completed" /\ Completed(file).next = 0
      /\ Planned(file, "paused", 0).status = "paused" /\ Planned(file, "paused", 0).next = 0
      /\ Planned(file, file.status, NextAfter(s, t)).status = file.status
      /\ Planned(file, file.status, NextAfter(s, t)).next = NextAfter(s, t)
  BY DEF Completed, Planned
<1>4. \/ AfterRun(s, file, outcome, c \in Manual) = Completed(file)
      \/ AfterRun(s, file, outcome, c \in Manual) = Planned(file, "paused", 0)
      \/ AfterRun(s, file, outcome, c \in Manual) = file
           /\ (c \in Manual \/ file.status = "completed")
      \/ AfterRun(s, file, outcome, c \in Manual) = Planned(file, file.status, NextAfter(s, t))
           /\ file.status = "active"
  BY <1>1 DEF AfterRun
<1> HIDE DEF t
<1> QED BY <1>1, <1>2, <1>3, <1>4

\* What a step leaves of a call but for its stage, outcome, run and target.
LEMMA CallRests ==
  ASSUME NEW v \in Calls, NEW stage, NEW slot, NEW run, NEW target, NEW outcome
  PROVE  LET goes == [v EXCEPT !.at = stage]
             reads == [v EXCEPT !.at = stage, !.slot = slot]
             starts == [v EXCEPT !.at = stage, !.slot = slot, !.run = run, !.target = target]
             ends == [v EXCEPT !.at = stage, !.outcome = outcome]
         IN /\ goes.now = v.now /\ goes.due = v.due /\ goes.over = v.over /\ goes.slot = v.slot
            /\ reads.now = v.now /\ reads.due = v.due /\ reads.over = v.over /\ reads.slot = slot
            /\ starts.now = v.now /\ starts.due = v.due /\ starts.over = v.over
            /\ starts.slot = slot
            /\ ends.now = v.now /\ ends.due = v.due /\ ends.over = v.over /\ ends.slot = v.slot
BY DEF Calls

\* An idle call and one that goes on claim nothing.
LEMMA RestSlots ==
  ASSUME TypeOK, SlotInv, NEW c \in Callers
  PROVE  /\ TickLike(c, Idle) /\ Idle.slot = 0 /\ Idle.at = "idle"
         /\ TickLike(c, Rest(c)) /\ Rest(c).slot = 0 /\ Rest(c).at \in {"idle", "loop"}
<1>1. clock \in Nat /\ TickLike(c, call[c])
  BY DEF TypeOK, SlotInv, TicksClaim
<1>2. /\ Idle.now = 0 /\ Idle.slot = 0 /\ Idle.due = {} /\ Idle.over = {} /\ Idle.at = "idle"
  BY DEF Idle, CallOf
<1>3. TickLike(c, Idle)
  BY <1>1, <1>2 DEF TickLike
<1>4. LET v == CallOf("loop", call[c].now, call[c].due, call[c].over, 0)
      IN /\ v.now = call[c].now /\ v.slot = 0 /\ v.due = call[c].due /\ v.over = call[c].over
         /\ v.at = "loop"
  BY DEF CallOf
<1>5. CASE call[c].due \cup call[c].over = {}
  BY <1>2, <1>3, <1>5 DEF Rest
<1>6. CASE call[c].due \cup call[c].over # {}
  <2>1. c \in Ticks
    BY <1>1, <1>6 DEF TickLike
  <2>2. Rest(c) = CallOf("loop", call[c].now, call[c].due, call[c].over, 0)
    BY <1>6 DEF Rest
  <2>3. TickLike(c, Rest(c))
    BY <1>1, <1>4, <2>1, <2>2 DEF TickLike
  <2> QED BY <1>2, <1>3, <1>4, <2>2, <2>3
<1> QED BY <1>5, <1>6

\* Steps of calls before and after their run.
LEMMA QuietSteps ==
  ASSUME TypeOK, TypeOK', SlotInv, NEW c \in Callers,
         \/ c \in Ticks /\ tick(c)
         \/ Proceed(c) \/ completeScheduleIfDue(c)
  PROVE  SlotInv'
<1> USE DEF callVars, store, firings
<1>0. clock \in Nat
  BY DEF TypeOK
<1>1. /\ TickLike(c, call[c]) /\ 0 =< clock
      /\ TickLike(c, Idle) /\ Idle.slot = 0 /\ Idle.at = "idle"
      /\ TickLike(c, Rest(c)) /\ Rest(c).slot = 0
  <2>1. 0 =< clock
    BY <1>0
  <2>2. TickLike(c, call[c])
    BY DEF SlotInv, TicksClaim
  <2> QED BY <2>1, <2>2, RestSlots
<1>2. ASSUME c \in Ticks, tick(c) PROVE SlotInv'
  <2>1. PICK due, over \in SUBSET Schedules :
          call' = [call EXCEPT ![c] = CallOf("loop", clock, due, over, 0)]
    BY <1>2 DEF tick
  <2> DEFINE v == CallOf("loop", clock, due, over, 0)
  <2>2. v.slot = 0 /\ TickLike(c, v)
    <3>1. v.slot = 0 /\ v.now = clock
      BY DEF CallOf
    <3> HIDE DEF v
    <3> QED BY <1>0, <1>1, <1>2, <3>1 DEF TickLike
  <2>3. UNCHANGED <<clock, firings, boot, todo, disk>> /\ call[c].at \notin Working
    BY <1>2 DEF tick, Working
  <2>4. call' = [call EXCEPT ![c] = v]
    BY <2>1
  <2> HIDE DEF v
  <2> QED BY <2>2, <2>3, <2>4, QuietCallSlots
<1>3. ASSUME Proceed(c) PROVE SlotInv'
  <2>1. UNCHANGED <<clock, firings, boot, todo, disk>> /\ call[c].at = "loop"
    BY <1>3 DEF Proceed
  <2>2. call[c].at \notin Working
    BY <2>1 DEF Working
  <2>3. CASE Throws(c)
    <3>1. call' = [call EXCEPT ![c] = Idle]
      BY <2>3 DEF Throws
    <3> QED BY <1>1, <2>1, <2>2, <3>1, QuietCallSlots
  <2>4. CASE ~Throws(c)
    <3>1. PICK s \in Eligible(c) :
            call' = [call EXCEPT ![c] =
                 CallOf(IF s \in call[c].over THEN "complete" ELSE "read", call[c].now,
                        {other \in call[c].due : other > s},
                        {other \in call[c].over : other > s}, s)]
      BY <1>3, <2>4 DEF Proceed, TypeOK
    <3> DEFINE v == CallOf(IF s \in call[c].over THEN "complete" ELSE "read", call[c].now,
                        {other \in call[c].due : other > s},
                        {other \in call[c].over : other > s}, s)
    <3>2. v.slot = 0 /\ v.now = call[c].now
      BY DEF CallOf
    <3>3. c \in Ticks
      BY <1>1, <2>1 DEF TickLike
    <3>4. call' = [call EXCEPT ![c] = v]
      BY <3>1
    <3> HIDE DEF v
    <3>5. TickLike(c, v)
      BY <1>1, <3>2, <3>3 DEF TickLike
    <3> QED BY <2>1, <2>2, <3>2, <3>4, <3>5, QuietCallSlots
  <2> QED BY <2>3, <2>4
<1>4. ASSUME completeScheduleIfDue(c) PROVE SlotInv'
  <2>0. PICK s \in Schedules : s = call[c].s
    BY <1>4 DEF completeScheduleIfDue, TypeOK
  <2>1. UNCHANGED <<clock, firings, boot, todo>> /\ call[c].at \notin Working
    BY <1>4 DEF completeScheduleIfDue, Working
  <2>2. /\ disk'[s] = disk[s] \/ (disk'[s] = Completed(disk[s]) /\ Exists(s))
        /\ \A other \in Schedules : other # s => disk'[other] = disk[other]
    BY <1>4, <2>0 DEF completeScheduleIfDue, Write, TypeOK, Exists
  <2>3. Completed(disk[s]).status = "completed" /\ Completed(disk[s]).next = 0
    BY DEF Completed, Planned
  <2>4. OnlyActive' /\ NotYetBorn'
    BY <2>1, <2>2, <2>3 DEF SlotInv, OnlyActive, NotYetBorn
  <2>5. \A other \in Schedules : disk'[other].next = 0 \/ disk'[other].next = disk[other].next
    BY <2>2, <2>3
  <2>6. PICK v : call' = [call EXCEPT ![c] = v] /\ TickLike(c, v) /\ v.slot = 0
    BY <1>1, <1>4 DEF completeScheduleIfDue, Returns, Throws
  <2>7. \A other : Fired(other) => Survives(other, c, v)
    BY <2>1 DEF Fired, Holds, Survives
  <2>8. \A other \in Schedules :
           \/ disk'[other].next = 0 \/ disk'[other].next > clock
           \/ disk'[other].next = disk[other].next /\ (Fired(other) => Survives(other, c, v))
    BY <2>5, <2>7
  <2> QED BY <2>1, <2>4, <2>6, <2>7, <2>8, CallSlots
<1> QED BY <1>2, <1>3, <1>4

\* A tick reads a schedule again: it will run it for the next time in the file,
\* which is after those run for unless another tick runs the schedule.
LEMMA ReadSlots ==
  ASSUME TypeOK, TypeOK', ClaimInv, SlotInv, NEW c \in Callers, Read(c)
  PROVE  SlotInv'
<1> USE DEF callVars, store
<1>1. PICK s \in Schedules : s = call[c].s
  BY DEF Read, TypeOK
<1>2. /\ call[c].at = "read" /\ call[c].at \notin Working
      /\ UNCHANGED <<clock, disk, slots, late, boot, todo>> /\ outrun' = outrun \ {c}
  BY DEF Read, Working
<1>3. CASE Returns(c)
  <2>1. call' = [call EXCEPT ![c] = Rest(c)]
    BY <1>3 DEF Returns
  <2> QED BY <1>2, <2>1, RestSlots, QuietCallSlots
<1>4. CASE ~Returns(c)
  <2> DEFINE v == [call[c] EXCEPT !.at = "claim", !.slot = disk[s].next]
  <2>1. disk[s].next \in 1..call[c].now /\ call' = [call EXCEPT ![c] = v]
    BY <1>1, <1>4 DEF Read, TypeOK
  <2>2. call[c] \in Calls /\ disk[s].next \in Nat /\ call[c].now \in Nat /\ clock \in Nat
    BY SlotTypes
  <2>3. /\ v.now = call[c].now /\ v.due = call[c].due /\ v.over = call[c].over
        /\ v.slot = disk[s].next /\ v.s = s /\ v.at = "claim"
    BY <1>1, <2>2 DEF Calls
  <2> HIDE DEF v
  <2>4. TickLike(c, call[c]) /\ c \in Ticks
    BY <1>2 DEF SlotInv, TicksClaim, TickLike
  <2>5. TickLike(c, v)
    BY <2>1, <2>2, <2>3, <2>4 DEF TickLike
  <2>6. boot = "up"
    BY <1>2 DEF ClaimInv, HeldUp
  <2>7. Before(s, disk[s].next) \/ Fired(s)
    BY <2>1, <2>2, <2>6 DEF SlotInv, NextLater, Firing
  <2>8. Fired(s) => Survives(s, c, v)
    BY <1>2 DEF Fired, Holds, Survives
  <2> QED BY <1>2, <2>1, <2>3, <2>5, <2>7, <2>8, QuietCallSlots
<1> QED BY <1>3, <1>4

\* What a call claims is after the times run for, if it was not outrun: were the
\* schedule run now, it would be claimed.
LEMMA ClaimSlots ==
  ASSUME TypeOK, TypeOK', ClaimInv, SlotInv, NEW c \in Callers, Claim(c)
  PROVE  SlotInv'
<1> USE DEF callVars, store, firings
<1>1. PICK s \in Schedules : s = call[c].s
  BY DEF Claim, TypeOK
<1>2. /\ call[c].at = "claim" /\ call[c].at \notin Working
      /\ UNCHANGED <<clock, disk, firings, boot, todo>>
  BY DEF Claim, Working
<1>3. CASE s \in running
  <2>1. call' = [call EXCEPT ![c] = Rest(c)]
    BY <1>1, <1>3 DEF Claim, Returns
  <2> QED BY <1>2, <2>1, RestSlots, QuietCallSlots
<1>4. CASE s \notin running
  <2> DEFINE v == [call[c] EXCEPT !.at = "append"]
  <2>1. call' = [call EXCEPT ![c] = v]
    BY <1>1, <1>4 DEF Claim, Goes, TypeOK
  <2>2. call[c] \in Calls
    BY SlotTypes
  <2>3. /\ v.now = call[c].now /\ v.due = call[c].due /\ v.over = call[c].over
        /\ v.slot = call[c].slot /\ v.s = s /\ v.at = "append"
    BY <1>1, <2>2 DEF Calls
  <2> HIDE DEF v
  <2>4. TickLike(c, v)
    <3>1. TickLike(c, call[c])
      BY DEF SlotInv, TicksClaim
    <3> QED BY <1>2, <2>3, <3>1 DEF TickLike
  <2>5. ~Fired(s)
    BY <1>4 DEF Fired, Holds, ClaimInv, HeldIsRunning, Callers
  <2>6. v.slot # 0 => Claims(c) /\ (Before(s, v.slot) \/ c \in outrun')
    BY <1>1, <1>2, <2>3, <2>5 DEF SlotInv, ClaimsLater, Claims
  <2> QED BY <1>1, <1>2, <2>1, <2>3, <2>4, <2>6, QuietCallSlots
<1> QED BY <1>3, <1>4

\* A run that goes on leaves the next time, and is still a run.
LEMMA WorkSlots ==
  ASSUME TypeOK, TypeOK', SlotInv, UNCHANGED <<clock, firings, boot, todo>>,
         NEW c \in Callers, NEW v, call' = [call EXCEPT ![c] = v],
         call[c].at \in Working, v.at \in Working, v.s = call[c].s,
         v.now = call[c].now, v.slot = call[c].slot, v.due = call[c].due,
         v.over = call[c].over,
         \A s \in Schedules : disk'[s].next = disk[s].next /\ disk'[s].status = disk[s].status
  PROVE  SlotInv'
<1> USE DEF firings
<1>1. OnlyActive' /\ NotYetBorn'
  BY DEF SlotInv, OnlyActive, NotYetBorn
<1>2. v.at \notin {"claim", "append", "loop", "complete", "read"}
  BY DEF Working
<1>3. TickLike(c, v)
  <2>1. TickLike(c, call[c])
    BY DEF SlotInv, TicksClaim
  <2> QED BY <1>2, <2>1 DEF TickLike
<1>4. \A s : Fired(s) => Survives(s, c, v)
  BY DEF Fired, Holds, Survives
<1> QED BY <1>1, <1>2, <1>3, <1>4, CallSlots

LEMMA WorkSteps ==
  ASSUME TypeOK, TypeOK', SlotInv, NEW c \in Callers,
         \/ \E outcome \in Outcomes : Execute(c, outcome)
         \/ CreateWorkspace(c) \/ recordRunWorkspace(c)
         \/ \E ok, hasContent \in BOOLEAN : disposeScheduleRunWorkspace(c, ok, hasContent)
  PROVE  SlotInv'
<1> USE DEF callVars, store, firings
<1>1. /\ call[c] \in Calls /\ call[c].at \in Working
      /\ UNCHANGED <<clock, firings, boot, todo>>
  BY SlotTypes DEF Execute, CreateWorkspace, recordRunWorkspace,
       disposeScheduleRunWorkspace, Working
<1>2. \A s \in Schedules : disk'[s].next = disk[s].next /\ disk'[s].status = disk[s].status
  <2>1. CASE UNCHANGED disk
    BY <2>1
  <2>2. CASE recordRunWorkspace(c)
    <3>1. PICK s \in Schedules : s = call[c].s
      BY <2>2 DEF recordRunWorkspace, TypeOK
    <3>2. PICK mark : Write(s, Marked(disk[s], call[c].run, mark))
      BY <2>2, <3>1 DEF recordRunWorkspace
    <3>3. disk[s] \in Files
      BY SlotTypes
    <3>4. /\ Marked(disk[s], call[c].run, mark).next = disk[s].next
          /\ Marked(disk[s], call[c].run, mark).status = disk[s].status
      BY <3>3 DEF Marked, Files
    <3>5. /\ disk'[s] = Marked(disk[s], call[c].run, mark)
          /\ \A other \in Schedules : other # s => disk'[other] = disk[other]
      BY <3>2 DEF Write, TypeOK
    <3> QED BY <3>4, <3>5
  <2> QED BY <2>1, <2>2 DEF Execute, CreateWorkspace, disposeScheduleRunWorkspace
<1>3. ASSUME NEW stage \in Working, Goes(c, stage) PROVE SlotInv'
  <2> DEFINE v == [call[c] EXCEPT !.at = stage]
  <2>1. call' = [call EXCEPT ![c] = v]
    BY <1>3 DEF Goes, TypeOK
  <2>2. /\ v.at = stage /\ v.s = call[c].s /\ v.now = call[c].now /\ v.slot = call[c].slot
        /\ v.due = call[c].due /\ v.over = call[c].over
    BY <1>1 DEF Calls
  <2> HIDE DEF v
  <2> QED BY <1>1, <1>2, <1>3, <2>1, <2>2, WorkSlots
<1>4. ASSUME NEW outcome, Runs(c, outcome) PROVE SlotInv'
  <2> DEFINE v == [call[c] EXCEPT !.at = "finish", !.outcome = outcome]
  <2>1. call' = [call EXCEPT ![c] = v]
    BY <1>4 DEF Runs, TypeOK
  <2>2. /\ v.at = "finish" /\ v.s = call[c].s /\ v.now = call[c].now /\ v.slot = call[c].slot
        /\ v.due = call[c].due /\ v.over = call[c].over
    BY <1>1 DEF Calls
  <2>3. "finish" \in Working
    BY DEF Working
  <2> HIDE DEF v
  <2> QED BY <1>1, <1>2, <2>1, <2>2, <2>3, WorkSlots
<1>5. \/ \E stage \in Working : Goes(c, stage)
      \/ \E outcome : Runs(c, outcome)
  BY DEF Execute, CreateWorkspace, recordRunWorkspace, disposeScheduleRunWorkspace, Working
<1> QED BY <1>3, <1>4, <1>5

\* A run is recorded: its time is after those run for, and no other call is
\* beyond its claim.
LEMMA FireSlots ==
  ASSUME TypeOK, TypeOK', ClaimInv, SlotInv, NEW c \in Callers, appendRunningRun(c),
         Exists(call[c].s), call[c].slot # 0
  PROVE  SlotInv'
<1>0. PICK s \in Schedules, slot \in Nat : s = call[c].s /\ slot = call[c].slot
  BY SlotTypes DEF appendRunningRun, TypeOK
<1> DEFINE n == Len(slots[s])
<1>1. /\ call[c].at = "append" /\ Claims(c) /\ UNCHANGED <<clock, boot, todo>>
      /\ slots' = [slots EXCEPT ![s] = Append(slots[s], slot)]
      /\ Exists(s) /\ UNCHANGED outrun
      /\ late' = late \cup (IF c \in outrun THEN {<<s, Len(slots'[s])>>} ELSE {})
  BY <1>0 DEF appendRunningRun, Claims, callVars
<1>2. PICK v : /\ call' = [call EXCEPT ![c] = v] /\ v.at = "run" /\ v.slot = 0 /\ v.s = s
               /\ v.now = call[c].now /\ v.due = call[c].due /\ v.over = call[c].over
  <2> DEFINE v == [call[c] EXCEPT !.at = "run", !.slot = 0, !.run = Len(places[s]) + 1,
                                  !.target = disk[s].target]
  <2>1. call' = [call EXCEPT ![c] = v]
    BY <1>0, <1>1 DEF appendRunningRun, TypeOK
  <2>2. /\ v.at = "run" /\ v.slot = 0 /\ v.s = s
        /\ v.now = call[c].now /\ v.due = call[c].due /\ v.over = call[c].over
    BY <1>0, SlotTypes DEF Calls
  <2> HIDE DEF v
  <2> QED BY <2>1, <2>2
<1>3. /\ call'[c] = v /\ \A d \in Callers : d # c => call'[d] = call[d]
  BY <1>2 DEF TypeOK
<1>4. /\ \A other \in Schedules : other # s => slots'[other] = slots[other]
      /\ n \in Nat /\ Len(slots'[s]) = n + 1 /\ slots'[s][n + 1] = slot
      /\ \A i \in 1..n : slots'[s][i] = slots[s][i] /\ slots[s][i] \in Nat
  <2>1. slots'[s] = Append(slots[s], slot) /\ slots[s] \in Seq(Nat)
    BY <1>1 DEF TypeOK
  <2>2. \A other \in Schedules : other # s => slots'[other] = slots[other]
    BY <1>1 DEF TypeOK
  <2>3. n \in Nat /\ \A i \in 1..n : slots[s][i] \in Nat
    BY <2>1
  <2>4. Len(Append(slots[s], slot)) = n + 1 /\ Append(slots[s], slot)[n + 1] = slot
    BY <2>1
  <2>5. \A i \in 1..n : Append(slots[s], slot)[i] = slots[s][i]
    BY <2>1
  <2> QED BY <2>1, <2>2, <2>3, <2>4, <2>5
<1>5. \A other \in Schedules : disk'[other].next = disk[other].next
                               /\ disk'[other].status = disk[other].status
  <2>1. disk'[s] = [disk[s] EXCEPT !.runs = @ \cup {[id |-> Len(places[s]) + 1,
                                                    is |-> "running"]}]
    BY <1>0, <1>1 DEF appendRunningRun, Write, TypeOK
  <2>2. disk'[s].next = disk[s].next /\ disk'[s].status = disk[s].status
    BY <2>1, SlotTypes DEF Files
  <2>3. \A other \in Schedules : other # s => disk'[other] = disk[other]
    BY <1>0, <1>1 DEF appendRunningRun, Write, TypeOK
  <2> QED BY <2>2, <2>3
<1>6. /\ Before(s, slot) \/ c \in outrun
      /\ disk[s].next = 0 \/ slot =< disk[s].next
      /\ slot =< clock /\ c \in Ticks
  BY <1>0, <1>1 DEF SlotInv, ClaimsLater, TicksClaim, TickLike
<1>7. /\ \A i \in 1..Len(slots'[s]) : i = n + 1 \/ i \in 1..n
      /\ \A t \in Nat : UpTo(s, t) /\ slot =< t => \A i \in 1..Len(slots'[s]) : slots'[s][i] =< t
      /\ \A i, j \in 1..Len(slots'[s]) :
           i < j => slots'[s][i] < slots'[s][j] \/ <<s, j>> \in late'
  <2>1. \A i \in 1..Len(slots'[s]) : i \in 1..n \/ i = n + 1
    BY <1>4
  <2>2. \A t \in Nat : UpTo(s, t) /\ slot =< t => \A i \in 1..Len(slots'[s]) : slots'[s][i] =< t
    BY <1>4, <2>1 DEF UpTo
  <2>3. ASSUME NEW i \in 1..Len(slots'[s]), NEW j \in 1..Len(slots'[s]), i < j
        PROVE  slots'[s][i] < slots'[s][j] \/ <<s, j>> \in late'
    <3>1. i \in 1..n
      BY <1>4, <2>3
    <3>2. CASE j = n + 1 /\ c \notin outrun
      <4>1. slots[s][i] < slot
        BY <1>6, <3>1, <3>2 DEF Before
      <4> QED BY <1>4, <3>1, <3>2, <4>1
    <3>3. CASE j = n + 1 /\ c \in outrun
      <4>1. <<s, Len(slots'[s])>> \in late'
        BY <1>1, <3>3
      <4> QED BY <1>4, <3>3, <4>1
    <3>4. CASE j \in 1..n
      <4>1. slots[s][i] < slots[s][j] \/ <<s, j>> \in late
        BY <2>3, <3>1, <3>4 DEF SlotInv, FiresOnce
      <4> QED BY <1>1, <1>4, <3>1, <3>4, <4>1
    <3> QED BY <2>1, <3>2, <3>3, <3>4
  <2> QED BY <2>1, <2>2, <2>3
<1>8. OnlyActive' /\ NotYetBorn'
  <2>1. OnlyActive'
    BY <1>5 DEF SlotInv, OnlyActive
  <2>2. disk[s].status # "unborn"
    BY <1>1 DEF Exists
  <2> QED BY <1>4, <1>5, <2>1, <2>2 DEF SlotInv, NotYetBorn
<1>9. InThePast'
  <2>1. clock \in Nat /\ clock' = clock
    BY <1>1 DEF TypeOK
  <2>2. ASSUME NEW other \in Schedules PROVE UpTo(other, clock)'
    <3>1. CASE other = s
      <4>1. \A i \in 1..Len(slots'[s]) : slots'[s][i] =< clock'
        BY <1>6, <1>7, <2>1 DEF SlotInv, InThePast
      <4> QED BY <3>1, <4>1 DEF UpTo
    <3>2. CASE other # s
      BY <1>4, <2>1, <3>2 DEF SlotInv, InThePast, UpTo
    <3> QED BY <3>1, <3>2
  <2> QED BY <2>2 DEF InThePast
<1>10. TicksClaim'
  <2>1. \A d \in Callers : TickLike(d, call[d])
    BY DEF SlotInv, TicksClaim
  <2>2. TickLike(c, v)
    <3>1. TickLike(c, call[c]) /\ 0 =< clock
      BY <2>1 DEF TypeOK
    <3> QED BY <1>2, <1>6, <3>1 DEF TickLike
  <2>3. \A d \in Callers : TickLike(d, call'[d])
    BY <1>3, <2>1, <2>2
  <2> QED BY <1>1, <2>3 DEF TicksClaim, TickLike
<1>11. Fired(s)' /\ \A other \in Schedules : Fired(other) => Fired(other)'
  <2>1. "run" \in Working /\ "append" \notin Working /\ Working \subseteq Claimed
    BY DEF Working, Claimed
  <2>2. Fired(s)'
    BY <1>2, <1>3, <1>6, <2>1 DEF Fired, Holds
  <2>3. ASSUME NEW other \in Schedules, Fired(other) PROVE Fired(other)'
    <3>1. PICK d \in Ticks : Holds(d, other) /\ call[d].at \in Working
      BY <2>3 DEF Fired
    <3>2. d # c /\ d \in Callers
      BY <1>1, <2>1, <3>1 DEF Callers
    <3>3. call'[d] = call[d]
      BY <1>3, <3>2
    <3> QED BY <3>1, <3>3 DEF Fired, Holds
  <2> QED BY <2>2, <2>3
<1>12. NextLater'
  <2>1. ASSUME NEW other \in Schedules, disk'[other].next # 0
        PROVE  Before(other, disk[other].next)'
               \/ (UpTo(other, disk[other].next)' /\ Firing(other)')
    <3>1. CASE other = s
      <4>1. slot =< disk[s].next /\ disk'[s].next = disk[s].next /\ disk[s].next \in Nat
        BY <1>5, <1>6, <2>1, <3>1, SlotTypes
      <4>2. UpTo(s, disk[s].next)'
        <5>1. UpTo(s, disk[s].next)
          <6>1. \A i \in 1..n : slots[s][i] \in Nat
            BY <1>4
          <6>2. Before(s, disk[s].next) => UpTo(s, disk[s].next)
            BY <4>1, <6>1 DEF Before, UpTo
          <6> QED BY <2>1, <3>1, <4>1, <6>2 DEF SlotInv, NextLater
        <5>2. \A i \in 1..Len(slots'[s]) : slots'[s][i] =< disk'[s].next
          BY <1>7, <4>1, <5>1
        <5> QED BY <5>2 DEF UpTo
      <4> QED BY <1>11, <3>1, <4>2 DEF Firing
    <3>2. CASE other # s
      <4>1. Before(other, disk[other].next) \/ (UpTo(other, disk[other].next) /\ Firing(other))
        BY <1>5, <2>1 DEF SlotInv, NextLater
      <4>2. Firing(other) => Firing(other)'
        BY <1>1, <1>11 DEF Firing
      <4> QED BY <1>4, <1>5, <3>2, <4>1, <4>2 DEF Before, UpTo
    <3> QED BY <3>1, <3>2
  <2> QED BY <2>1 DEF NextLater
<1>13. ClaimsLater'
  <2>1. ASSUME NEW d \in Callers, Claims(d)'
        PROVE  /\ disk'[call'[d].s].next = 0 \/ call'[d].slot =< disk'[call'[d].s].next
               /\ \/ Before(call[d].s, call[d].slot)' \/ d \in outrun'
                  \/ call'[d].at = "claim" /\ Fired(call[d].s)'
    <3>1. d # c
      BY <1>2, <1>3, <2>1 DEF Claims
    <3>2. call'[d] = call[d] /\ Claims(d) /\ call[d].s \in Schedules
      BY <1>3, <2>1, <3>1, SlotTypes DEF Claims
    <3>3. /\ disk[call[d].s].next = 0 \/ call[d].slot =< disk[call[d].s].next
          /\ \/ Before(call[d].s, call[d].slot) \/ d \in outrun
             \/ call[d].at = "claim" /\ Fired(call[d].s)
      BY <3>2 DEF SlotInv, ClaimsLater
    <3>4. CASE call[d].s = s
      <4>1. call[d].at # "append"
        BY <1>0, <1>1, <3>1, <3>4 DEF ClaimInv, HeldOnce, Holds, Claimed
      <4>2. call[d].at = "claim"
        BY <3>2, <4>1 DEF Claims
      <4>3. Fired(call[d].s)'
        BY <1>11, <3>2, <3>4 DEF Fired, Holds
      <4> QED BY <1>5, <3>2, <3>3, <4>2, <4>3
    <3>5. CASE call[d].s # s
      <4>1. PICK other \in Schedules : other = call[d].s
        BY <3>2
      <4>2. Fired(other) => Fired(call[d].s)'
        <5>1. Fired(other) => Fired(other)'
          BY <1>11
        <5>2. Fired(other)' => Fired(call[d].s)'
          BY <3>2, <4>1 DEF Fired, Holds
        <5> QED BY <5>1, <5>2
      <4>3. Before(other, call[d].slot) => Before(call[d].s, call[d].slot)'
        BY <1>4, <3>2, <3>5, <4>1 DEF Before
      <4> QED BY <1>1, <1>5, <3>2, <3>3, <4>1, <4>2, <4>3
    <3> QED BY <3>4, <3>5
  <2> QED BY <2>1 DEF ClaimsLater
<1>14. FiresOnce'
  <2>1. \A i, j \in 1..Len(slots'[s]) :
          i < j => slots'[s][i] < slots'[s][j] \/ <<s, j>> \in late'
    BY <1>7
  <2>2. ASSUME NEW other \in Schedules, other # s,
               NEW i \in 1..Len(slots'[other]), NEW j \in 1..Len(slots'[other]), i < j
        PROVE  slots'[other][i] < slots'[other][j] \/ <<other, j>> \in late'
    <3>1. slots[other][i] < slots[other][j] \/ <<other, j>> \in late
      BY <1>4, <2>2 DEF SlotInv, FiresOnce
    <3> QED BY <1>1, <1>4, <2>2, <3>1
  <2> QED BY <2>1, <2>2 DEF FiresOnce
<1> QED BY <1>8, <1>9, <1>10, <1>12, <1>13, <1>14 DEF SlotInv

LEMMA AppendSlots ==
  ASSUME TypeOK, TypeOK', ClaimInv, SlotInv, NEW c \in Callers, appendRunningRun(c)
  PROVE  SlotInv'
<1> USE DEF callVars, store
<1>0. PICK s \in Schedules : s = call[c].s
  BY DEF appendRunningRun, TypeOK
<1>1. /\ call[c].at = "append" /\ call[c].at \notin Working
      /\ UNCHANGED <<clock, boot, todo, outrun>>
  BY DEF appendRunningRun, Working
<1>2. CASE ~Exists(s)
  <2>1. call' = [call EXCEPT ![c] = Idle] /\ UNCHANGED <<disk, slots, late>>
    BY <1>0, <1>2 DEF appendRunningRun, Throws
  <2> QED BY <1>1, <2>1, RestSlots, QuietCallSlots
<1>3. CASE Exists(s) /\ call[c].slot = 0
  <2> DEFINE v == [call[c] EXCEPT !.at = "run", !.slot = 0, !.run = Len(places[s]) + 1,
                                  !.target = disk[s].target]
  <2>1. call' = [call EXCEPT ![c] = v]
    BY <1>0, <1>3 DEF appendRunningRun, TypeOK
  <2>2. /\ v.at = "run" /\ v.slot = 0 /\ v.s = s
        /\ v.now = call[c].now /\ v.due = call[c].due /\ v.over = call[c].over
    BY <1>0, SlotTypes DEF Calls
  <2> HIDE DEF v
  <2>3. UNCHANGED slots /\ late \subseteq late'
    BY <1>0, <1>3 DEF appendRunningRun, TypeOK
  <2>4. \A other \in Schedules : disk'[other].next = disk[other].next
                                 /\ disk'[other].status = disk[other].status
    <3>1. disk'[s] = [disk[s] EXCEPT !.runs = @ \cup {[id |-> Len(places[s]) + 1,
                                                      is |-> "running"]}]
      BY <1>0, <1>3 DEF appendRunningRun, Write, TypeOK
    <3>2. disk'[s].next = disk[s].next /\ disk'[s].status = disk[s].status
      BY <3>1, SlotTypes DEF Files
    <3>3. \A other \in Schedules : other # s => disk'[other] = disk[other]
      BY <1>0, <1>3 DEF appendRunningRun, Write, TypeOK
    <3> QED BY <3>2, <3>3
  <2>5. OnlyActive' /\ NotYetBorn'
    BY <2>3, <2>4 DEF SlotInv, OnlyActive, NotYetBorn
  <2>6. \A other : Fired(other) => Survives(other, c, v)
    BY <1>1 DEF Fired, Holds, Survives
  <2>7. TickLike(c, v)
    <3>1. TickLike(c, call[c]) /\ 0 =< clock
      BY DEF SlotInv, TicksClaim, TypeOK
    <3> QED BY <2>2, <3>1 DEF TickLike
  <2> QED BY <1>1, <2>1, <2>2, <2>3, <2>4, <2>5, <2>6, <2>7, CallSlots
<1>4. CASE Exists(s) /\ call[c].slot # 0
  BY <1>0, <1>4, FireSlots
<1> QED BY <1>2, <1>3, <1>4

\* A run ends: the next time moves on before the schedule can be claimed again,
\* and the ticks that have read it in between are outrun.
LEMMA FinishSlots ==
  ASSUME TypeOK, TypeOK', ClaimInv, SlotInv, NEW c \in Callers, finishRun(c)
  PROVE  SlotInv'
<1> USE DEF callVars, store
<1>0. PICK s \in Schedules : s = call[c].s
  BY DEF finishRun, TypeOK
<1>1. /\ UNCHANGED <<clock, slots, late, boot, todo>> /\ call[c].at = "finish"
      /\ outrun \subseteq outrun'
      /\ c \in Ticks => \A d \in Ticks : call[d].at = "claim" /\ call[d].s = s => d \in outrun'
  BY <1>0 DEF finishRun
<1>2. PICK v : call' = [call EXCEPT ![c] = v] /\ TickLike(c, v) /\ v.slot = 0
  BY RestSlots DEF finishRun, Returns, Throws
<1>3. \A other \in Schedules : other # s /\ Fired(other) => Survives(other, c, v)
  BY <1>0 DEF Fired, Holds, Survives
<1>4. \A other \in Schedules : other # s => disk'[other] = disk[other]
  BY <1>0 DEF finishRun, Write, TypeOK
<1>5. /\ \/ disk'[s].next = 0 \/ disk'[s].next > clock
         \/ c \in Manual /\ disk'[s].next = disk[s].next
      /\ disk'[s].status # "active" => disk'[s].next = 0
      /\ disk'[s].status = "unborn" => disk[s].status = "unborn"
  <2>1. CASE Exists(s)
    <3> DEFINE ended == Marked(disk[s], call[c].run, "ended")
               after == AfterRun(s, ended, call[c].outcome, c \in Manual)
    <3>1. disk'[s] = Pruned(s, after)
      BY <1>0, <2>1 DEF finishRun, Write, TypeOK
    <3>2. disk[s] \in Files /\ call[c].run \in Nat /\ clock \in Nat
      BY SlotTypes DEF Calls
    <3>3. ended \in Files /\ ended.next = disk[s].next /\ ended.status = disk[s].status
      <4>1. ended \in Files
        BY <3>2, FileTypes
      <4>2. ended.next = disk[s].next /\ ended.status = disk[s].status
        BY <3>2 DEF Marked, Files
      <4> QED BY <4>1, <4>2
    <3>4. /\ ended.status \notin {"unborn", "deleted"}
          /\ ended.status # "active" => ended.next = 0
      BY <2>1, <3>3 DEF Exists, SlotInv, OnlyActive
    <3> HIDE DEF ended
    <3>5. after \in Files
      BY <3>2, <3>3, AfterRunTypes
    <3>6. /\ \/ after.next = 0 \/ after.next > clock
             \/ c \in Manual /\ after.next = ended.next
          /\ after.status # "active" => after.next = 0
          /\ after.status \notin {"unborn", "deleted"}
      BY <3>2, <3>3, <3>4, AfterRunNext
    <3> HIDE DEF after
    <3>7. Pruned(s, after).status = after.status /\ Pruned(s, after).next = after.next
      BY <3>5, FileTypes
    <3> QED BY <3>1, <3>3, <3>6, <3>7
  <2>2. CASE ~Exists(s)
    <3>1. disk' = disk
      BY <1>0, <2>2 DEF finishRun
    <3> QED BY <2>2, <3>1 DEF Exists, SlotInv, OnlyActive
  <2> QED BY <2>1, <2>2
<1>6. OnlyActive' /\ NotYetBorn'
  <2>1. OnlyActive'
    BY <1>4, <1>5 DEF SlotInv, OnlyActive
  <2>2. NotYetBorn'
    BY <1>1, <1>4, <1>5 DEF SlotInv, NotYetBorn
  <2> QED BY <2>1, <2>2
<1>7. c \in Manual /\ Fired(s) => Survives(s, c, v)
  BY DEF Fired, Holds, Survives
<1>8. \A other \in Schedules :
        \/ disk'[other].next = 0 \/ disk'[other].next > clock
        \/ disk'[other].next = disk[other].next /\ (Fired(other) => Survives(other, c, v))
  BY <1>3, <1>4, <1>5, <1>7
<1>9. \A d \in Ticks : d # c /\ call[d].at = "claim" /\ Fired(call[d].s) =>
        Survives(call[d].s, c, v) \/ d \in outrun'
  <2>1. SUFFICES ASSUME NEW d \in Ticks, call[d].at = "claim", Fired(call[d].s)
                 PROVE  Survives(call[d].s, c, v) \/ d \in outrun'
    OBVIOUS
  <2>2. call[d].s \in Schedules
    BY <2>1 DEF TypeOK, Callers
  <2>3. CASE call[d].s # s
    BY <1>3, <2>1, <2>2, <2>3
  <2>4. CASE call[d].s = s
    <3>1. CASE c \in Ticks
      BY <1>1, <2>1, <2>4, <3>1
    <3>2. CASE c \in Manual
      BY <1>7, <2>1, <2>4, <3>2
    <3> QED BY <3>1, <3>2 DEF Callers
  <2> QED BY <2>3, <2>4
<1> QED BY <1>1, <1>2, <1>6, <1>8, <1>9, CallSlots

\* Every step of a call.
LEMMA CallsSlots ==
  ASSUME TypeOK, TypeOK', ClaimInv, SlotInv, NEW c \in Callers, Call(c)
  PROVE  SlotInv'
BY QuietSteps, ReadSlots, ClaimSlots, AppendSlots, WorkSteps, FinishSlots DEF Call

-----------------------------------------------------------------------------
\* The daemon ends.
LEMMA CrashSlots ==
  ASSUME TypeOK, TypeOK', SlotInv, Crash
  PROVE  SlotInv'
<1>1. /\ UNCHANGED <<clock, disk, slots, late>> /\ boot' = "off"
      /\ \A c \in Callers : call'[c] = Idle
  BY DEF Crash, store
<1>2. OnlyActive' /\ NotYetBorn'
  BY <1>1 DEF SlotInv, OnlyActive, NotYetBorn
<1>3. clock' >= clock /\ \A s \in Schedules : Firing(s)' /\ disk'[s].next = disk[s].next
  BY <1>1 DEF Firing, TypeOK
<1>4. TicksClaim'
  <2>1. \A c \in Callers : TickLike(c, call'[c])
    BY <1>1, RestSlots
  <2> QED BY <1>1, <2>1 DEF TicksClaim, TickLike
<1>5. \A c \in Callers : ~Claims(c)'
  <2>1. Idle.at = "idle"
    BY DEF Idle, CallOf
  <2> QED BY <1>1, <2>1 DEF Claims
<1>6. UNCHANGED <<slots, late>>
  BY <1>1
<1> QED BY <1>2, <1>3, <1>4, <1>5, <1>6, SlotsStep

\* No call moves: the daemon starts, or time passes.
LEMMA BootSlots ==
  ASSUME TypeOK, TypeOK', SlotInv, Boot \/ Pass
  PROVE  SlotInv'
<1> USE DEF bootVars, store, daemon, history, firings
<1>1. UNCHANGED <<slots, late, outrun, call>> /\ clock \in Nat /\ clock' >= clock
  <2>1. clock \in Nat
    BY DEF TypeOK
  <2>2. UNCHANGED <<slots, late, outrun, call>> /\ (clock' = clock \/ clock' = clock + 1)
    BY DEF Boot, start, Recovered, Started, recoverInterruptedSchedule,
         sweepOrphanedSchedule, Mend, Pass
  <2> QED BY <2>1, <2>2
<1>2. \A s \in Schedules : Fired(s) => Fired(s)'
  BY <1>1 DEF Fired, Holds
<1>3. TicksClaim'
  <2>1. \A c \in Callers : TickLike(c, call[c]) /\ call[c].now \in Nat /\ call[c].slot \in Nat
    BY SlotTypes DEF SlotInv, TicksClaim
  <2>2. clock' \in Nat
    BY DEF TypeOK
  <2> QED BY <1>1, <2>1, <2>2 DEF TicksClaim, TickLike
<1>4. \A c \in Callers : Claims(c)' =>
        /\ Claims(c) /\ call'[c].s = call[c].s /\ call'[c].slot = call[c].slot
        /\ \/ Before(call'[c].s, call'[c].slot) \/ c \in outrun'
           \/ /\ call'[c].at = "claim"
              /\ \E d \in Ticks : call'[d].at \in Working /\ call'[d].s = call'[c].s
  BY <1>1, CallsStay
<1>5. ASSUME OnlyActive', NotYetBorn',
             \A s \in Schedules :
               \/ disk'[s].next = 0 \/ disk'[s].next > clock
               \/ disk'[s].next = disk[s].next /\ (Firing(s) => Firing(s)')
      PROVE  SlotInv'
  BY <1>1, <1>3, <1>4, <1>5, SlotsStep
<1>6. ASSUME UNCHANGED disk, \A s \in Schedules : disk[s].next # 0 /\ Firing(s) => Firing(s)'
      PROVE  SlotInv'
  <2>1. OnlyActive' /\ NotYetBorn'
    BY <1>1, <1>6 DEF SlotInv, OnlyActive, NotYetBorn
  <2>2. \A s \in Schedules : disk'[s].next = disk[s].next
    BY <1>6
  <2> QED BY <1>5, <1>6, <2>1, <2>2
<1>7. CASE start
  <2>1. UNCHANGED disk /\ boot' = "recover" /\ todo' = {s \in Schedules : Exists(s)}
    BY <1>7 DEF start
  <2>2. \A s \in Schedules : disk[s].next # 0 => Exists(s)
    BY DEF Exists, SlotInv, OnlyActive
  <2> QED BY <1>6, <2>1, <2>2 DEF Firing
<1>8. CASE Recovered
  <2>1. UNCHANGED disk /\ boot = "recover" /\ todo = {}
    BY <1>8 DEF Recovered
  <2> QED BY <1>2, <1>6, <2>1 DEF Firing
<1>9. CASE Started
  <2>1. UNCHANGED disk /\ boot = "sweep"
    BY <1>9 DEF Started
  <2> QED BY <1>2, <1>6, <2>1 DEF Firing
<1>10. CASE Pass \/ \E m \in mending : Mend(m)
  <2>1. UNCHANGED <<disk, boot, todo>>
    BY <1>10 DEF Pass, Mend
  <2> QED BY <1>2, <1>6, <2>1 DEF Firing
<1>11. ASSUME NEW s \in Schedules, recoverInterruptedSchedule(s) PROVE SlotInv'
  <2>1. PICK runs : LET failed == [disk[s] EXCEPT !.runs = runs]
                    IN Write(s, IF failed.status = "active" /\ failed.next \in 1..clock
                                THEN Planned(failed, "active", NextAfter(s, failed.next))
                                ELSE failed)
    BY <1>11 DEF recoverInterruptedSchedule
  <2> DEFINE failed == [disk[s] EXCEPT !.runs = runs]
             planned == Planned(failed, "active", NextAfter(s, failed.next))
  <2>2. failed.status = disk[s].status /\ failed.next = disk[s].next /\ disk[s].next \in Nat
    BY SlotTypes DEF Files
  <2>3. planned.status = "active" /\ planned.next = NextAfter(s, failed.next)
    BY DEF Planned
  <2>4. NextAfter(s, failed.next) > clock
    BY <1>1, <2>2, NextTime
  <2>5. /\ disk'[s] = IF failed.status = "active" /\ failed.next \in 1..clock
                      THEN planned ELSE failed
        /\ \A other \in Schedules : other # s => disk'[other] = disk[other]
    BY <2>1 DEF Write, TypeOK
  <2> HIDE DEF failed, planned
  <2>6. /\ disk'[s].next = 0 \/ disk'[s].next > clock
        /\ disk'[s].status = disk[s].status
        /\ disk'[s].status # "active" => disk'[s].next = 0
    BY <1>1, <2>2, <2>3, <2>4, <2>5 DEF SlotInv, OnlyActive
  <2>7. OnlyActive' /\ NotYetBorn'
    BY <1>1, <2>5, <2>6 DEF SlotInv, OnlyActive, NotYetBorn
  <2>8. boot = "recover" /\ boot' = "recover" /\ todo' = todo \ {s}
    BY <1>11 DEF recoverInterruptedSchedule
  <2>9. \A other \in Schedules : other # s /\ Firing(other) => Firing(other)'
    BY <1>2, <2>8 DEF Firing
  <2> QED BY <1>5, <2>5, <2>6, <2>7, <2>9
<1>12. ASSUME NEW s \in Schedules, sweepOrphanedSchedule(s) PROVE SlotInv'
  <2>1. /\ disk'[s] = disk[s]
           \/ (disk'[s] = Completed(disk[s]) /\ disk[s].status # "completed"
               /\ disk[s].target = "agent" /\ s \in archived)
        /\ \A other \in Schedules : other # s => disk'[other] = disk[other]
        /\ boot = "sweep" /\ boot' = "sweep"
    BY <1>12 DEF sweepOrphanedSchedule, Write, TypeOK
  <2>2. Completed(disk[s]).status = "completed" /\ Completed(disk[s]).next = 0
    BY DEF Completed, Planned
  <2>3. OnlyActive' /\ NotYetBorn'
    BY <1>1, <2>1, <2>2 DEF SlotInv, OnlyActive, NotYetBorn
  <2>4. \A other \in Schedules : Firing(other) => Firing(other)'
    BY <1>2, <2>1 DEF Firing
  <2>5. \A other \in Schedules : disk'[other].next = 0 \/ disk'[other].next = disk[other].next
    BY <2>1, <2>2
  <2> QED BY <1>5, <2>3, <2>4, <2>5
<1> QED BY <1>7, <1>8, <1>9, <1>10, <1>11, <1>12 DEF Boot

\* No time of a schedule is run twice or after a later one, but by a tick whose
\* read of the file was outlived by a whole run: for any number of schedules,
\* overlapping ticks, runs by hand, edits and restarts.
THEOREM ScheduleFiresOnce == Spec => []FiresOnce
<1>1. Init => SlotInv
  <2>1. SUFFICES ASSUME Init PROVE SlotInv
    OBVIOUS
  <2>2. \A s \in Schedules : /\ slots[s] = <<>> /\ disk[s] = NoFile
    BY <2>1 DEF Init
  <2>3. /\ OnlyActive /\ NotYetBorn /\ InThePast /\ NextLater /\ FiresOnce
    BY <2>2 DEF NoFile, OnlyActive, NotYetBorn, InThePast, UpTo, NextLater, FiresOnce
  <2>4. /\ Idle.at = "idle" /\ Idle.now = 0 /\ Idle.slot = 0 /\ Idle.due = {} /\ Idle.over = {}
        /\ clock = 1 /\ \A c \in Callers : call[c] = Idle
    BY <2>1 DEF Init, Idle, CallOf
  <2>5. TicksClaim /\ ClaimsLater
    BY <2>4 DEF TicksClaim, TickLike, ClaimsLater, Claims
  <2> QED BY <2>3, <2>5 DEF SlotInv
<1>2. TypeOK /\ TypeOK' /\ ClaimInv /\ SlotInv /\ [Next]_vars => SlotInv'
  <2>1. SUFFICES ASSUME TypeOK, TypeOK', ClaimInv, SlotInv, [Next]_vars PROVE SlotInv'
    OBVIOUS
  <2>2. CASE UNCHANGED vars
    BY <2>1, <2>2 DEF vars, SlotInv, OnlyActive, NotYetBorn, InThePast, UpTo, TicksClaim,
         TickLike, NextLater, Before, Firing, Fired, Holds, ClaimsLater, Claims, FiresOnce
  <2> QED BY <2>1, <2>2, RequestSlots, CallsSlots, CrashSlots, BootSlots DEF Next
<1>3. SlotInv => FiresOnce
  BY DEF SlotInv
<1>4. Spec => []ClaimInv
  BY ScheduleClaims
<1> QED BY <1>1, <1>2, <1>3, <1>4, ScheduleTypes, PTL DEF Spec
=============================================================================
