------------------------- MODULE MCScheduleService -------------------------
(* The values of the constants that are functions of the schedule.          *)
EXTENDS ScheduleService, TLC

CONSTANTS FirstTargets, OtherTargets, FirstMaxRuns, OtherExpiry

TargetsOf == [s \in Schedules |-> IF s = 1 THEN FirstTargets ELSE OtherTargets]
EveryOne  == [s \in Schedules |-> 1]
MaxRunsOf == [s \in Schedules |-> IF s = 1 THEN FirstMaxRuns ELSE 0]
ExpiryOf  == [s \in Schedules |-> IF s = 1 THEN 0 ELSE OtherExpiry]

(* The first schedule is there.  Edits, runs by hand and crashes are        *)
(* bounded as a whole as well.                                              *)
CONSTANT MaxTotal

FirstThere(target) ==
  [s \in Schedules |->
     IF s = 1 THEN [NoFile EXCEPT !.status = "active", !.next = 1, !.target = target]
     ELSE NoFile]

MCInit ==
  /\ disk \in {FirstThere(target) : target \in Targets[1]}
  /\ clock = 1
  /\ places = [s \in Schedules |-> <<>>] /\ slots = places /\ astray = {}
  /\ outrun = {} /\ late = {}
  /\ running = {} /\ call = [c \in Callers |-> Idle]
  /\ boot = "up" /\ todo = {} /\ mending = {} /\ archived = {} /\ notices = {}
  /\ used = [edits |-> 0, manual |-> 0, crashes |-> 0]

MCSpec ==
  MCInit /\ [][Next /\ used'.edits + used'.manual + used'.crashes =< MaxTotal]_vars

MCFairSpec == MCSpec /\ Fairness
=============================================================================
