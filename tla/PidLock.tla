------------------------------- MODULE PidLock -------------------------------
(***************************************************************************)
(* The lock file $OTTO_HOME/otto.pid (server/pid-lock.ts), taken by the    *)
(* supervisor of every daemon that is started on one home directory        *)
(* (scripts/supervisor-entrypoint.ts).  Processes run in parallel and      *)
(* every file operation is a step.  The daemon proper is the worker of a    *)
(* supervisor (scripts/supervisor.ts): it is spawned when the lock is held, *)
(* gone before the lock is released, and outlives a supervisor that is      *)
(* killed until it notices (daemon-worker.ts).                              *)
(*                                                                         *)
(* The path names at most one file; a file that was unlinked goes on       *)
(* existing for those that hold it open.  Files are numbered in the order  *)
(* of their creation.                                                      *)
(***************************************************************************)
EXTENDS Naturals, Sequences, FiniteSets

CONSTANTS Procs,        \* process ids; one may be used by several starts
          Patient,      \* interactive starts, which wait on a conflict
          Desktop,      \* started by the desktop app, to reclaim its stale lock
          Nobody

CONSTANT MaxStarts      \* starts under one process id

ASSUME PidLockAssumption == /\ Patient \subseteq Procs /\ Desktop \subseteq Procs
                            /\ Nobody \notin Procs /\ MaxStarts \in Nat

VARIABLES
  file,       \* the file the path names, 0 if there is none
  content,    \* per file: the lock in it, NoLock while it is empty
  stale,      \* the file at the path was not written or touched for five minutes
  stage,      \* per process: where it is
  seen,       \* the lock it read first
  fd,         \* the file it has created
  starts,     \* how often it was started
  beat,       \* the file its heartbeat has open, 0 if none
  update,     \* its updatePidLock, [stage, fd, lock]
  orphans,    \* workers of killed supervisors that have not noticed, <<pid, start>>
  alone,      \* history: the last start, with no other process alive, not killed
  blind,      \* history: an unlink hit a lock it was not meant for
  ousted      \* history: holders whose lock was confirmed stale and taken over

vars == <<file, content, stale, stage, seen, fd, starts, beat, update, orphans,
          alone, blind, ousted>>

NoLock   == [pid |-> Nobody, start |-> 0]
NoUpdate == [stage |-> "none", fd |-> 0, lock |-> NoLock]

Starting == {"read", "judge", "confirm", "recheck", "takeover", "unlink", "open",
             "write", "reread"}
Holding  == {"running", "stopping", "stopped", "release"}
Stages   == {"off", "waiting"} \cup Starting \cup Holding

Init ==
  /\ file = 0 /\ content = <<>> /\ stale = FALSE
  /\ stage = [p \in Procs |-> "off"]
  /\ seen = [p \in Procs |-> NoLock]
  /\ fd = [p \in Procs |-> 0]
  /\ starts = [p \in Procs |-> 0]
  /\ beat = [p \in Procs |-> 0]
  /\ update = [p \in Procs |-> NoUpdate]
  /\ alone = [p \in Procs |-> FALSE]
  /\ orphans = {} /\ blind = FALSE /\ ousted = {}

-----------------------------------------------------------------------------
Lock(f)  == IF f = 0 THEN NoLock ELSE content[f]    \* readPidLock: null is NoLock
Fresh    == file # 0 /\ ~stale                      \* isPidLockFresh
Alive(q) == q # Nobody /\ stage[q] # "off"          \* isPidRunning
Touched(f) == stale /\ f # file

To(p, s)  == stage' = [stage EXCEPT ![p] = s]
fileVars  == <<file, content, stale>>
daemonVars == <<beat, update, orphans>>
history   == <<alone, blind, ousted>>
damage    == <<blind, ousted>>

Serving(p) == stage[p] \in {"running", "stopping"}   \* its worker runs

(* For the histories: who is about to write the file f, has the path name   *)
(* its file, and has the lock or will have it without another look.         *)
Writes(p, f) == \/ stage[p] = "write" /\ fd[p] = f
                \/ update[p].stage = "truncated" /\ update[p].fd = f
Holds(p)  == file # 0 /\ (content[file].pid = p \/ Writes(p, file))
Holder(p) == \/ stage[p] \in Holding \cup {"write"}
             \/ stage[p] = "judge" /\ seen[p].pid = p

(* The process ends, whatever it was doing.                                *)
Ends(p) ==
  /\ To(p, "off")
  /\ seen' = [seen EXCEPT ![p] = NoLock]
  /\ fd' = [fd EXCEPT ![p] = 0]
  /\ beat' = [beat EXCEPT ![p] = 0]
  /\ update' = [update EXCEPT ![p] = NoUpdate]
  /\ UNCHANGED starts

Exit(p) == Ends(p) /\ UNCHANGED <<orphans, alone>>

(* What was read, and the file created, are of no use later on.            *)
Proceed(p, s) ==
  /\ To(p, s)
  /\ seen' = IF s \in {"confirm", "recheck", "takeover", "unlink"} THEN seen
             ELSE [seen EXCEPT ![p] = NoLock]
  /\ fd' = [fd EXCEPT ![p] = 0]
  /\ UNCHANGED <<starts, daemonVars, alone>>

(* acquirePidLockWithConflictGuard: an error that names the holder makes   *)
(* an interactive start wait; any other start fails.                       *)
Conflict(p) ==
  IF p \in Patient THEN Proceed(p, "waiting") ELSE Exit(p)

Start(p) ==
  /\ stage[p] = "off" /\ starts[p] < MaxStarts
  /\ To(p, "read")
  /\ starts' = [starts EXCEPT ![p] = @ + 1]
  /\ alone' = [q \in Procs |-> q = p /\ \A other \in Procs : ~Alive(other)]
  /\ UNCHANGED <<fileVars, seen, fd, daemonVars, damage>>

(* acquirePidLock.                                                         *)
Read(p) ==
  /\ stage[p] = "read"
  /\ seen' = [seen EXCEPT ![p] = Lock(file)]
  /\ To(p, IF Lock(file) = NoLock THEN "open" ELSE "judge")
  /\ UNCHANGED <<fileVars, fd, starts, daemonVars, history>>

(* clearExistingPidLock: its own process id, held by itself.               *)
AlreadyOwned(p) ==
  /\ stage[p] = "judge" /\ seen[p].pid = p
  /\ IF file = 0 THEN Exit(p) /\ UNCHANGED stale
                 ELSE Proceed(p, "running") /\ stale' = Touched(file)
  /\ UNCHANGED <<file, content, damage>>

Reclaimable(p) == p \in Desktop /\ seen[p].pid \in Desktop /\ ~Fresh

(* Mutant: a lock is judged by its age alone.                              *)
JudgeByAge(p) ==
  /\ stage[p] = "judge" /\ seen[p].pid # p
  /\ \/ Fresh /\ Conflict(p)
     \/ ~Fresh /\ Proceed(p, "unlink")
  /\ UNCHANGED <<fileVars, damage>>

Judge(p) ==
  /\ stage[p] = "judge" /\ seen[p].pid # p
  /\ \/ Alive(seen[p].pid) /\ ~Reclaimable(p) /\ Conflict(p)
     \/ Alive(seen[p].pid) /\ Reclaimable(p)  /\ Proceed(p, "confirm")
     \/ ~Alive(seen[p].pid)                   /\ Proceed(p, "unlink")
  /\ UNCHANGED <<fileVars, damage>>

(* A live owner's lock is read once more, and its age looked at again.     *)
Confirm(p) ==
  /\ stage[p] = "confirm"
  /\ IF Lock(file) = seen[p] THEN Proceed(p, "recheck") ELSE Exit(p)
  /\ UNCHANGED <<fileVars, damage>>

Recheck(p) ==
  /\ stage[p] = "recheck"
  /\ IF Fresh THEN Exit(p) ELSE Proceed(p, "takeover")
  /\ UNCHANGED <<fileVars, damage>>

(* The path is unlinked, whichever lock is there by now.  After a takeover   *)
(* the ousted daemon runs on until its heartbeat.                           *)
Takeover(p) ==
  /\ stage[p] = "takeover"
  /\ file' = 0 /\ stale' = FALSE
  /\ blind' = (blind \/ Lock(file) # seen[p])
  /\ ousted' = ousted \cup {q \in {seen[p].pid} : Holder(q)}
  /\ Proceed(p, "open")
  /\ UNCHANGED content

(* Of a holder that was dead: a new process under its id may have found the  *)
(* lock its own since.                                                      *)
Unlink(p) ==
  /\ stage[p] = "unlink"
  /\ file' = 0 /\ stale' = FALSE
  /\ blind' = (blind \/ Lock(file) # seen[p] \/ Holder(seen[p].pid))
  /\ Proceed(p, "open")
  /\ UNCHANGED <<content, ousted>>

(* Mutant: the lock file is opened although it exists.                     *)
OpenAnyway(p) ==
  /\ stage[p] = "open"
  /\ \/ /\ file = 0
        /\ content' = Append(content, NoLock)
        /\ file' = Len(content')
     \/ file # 0 /\ UNCHANGED <<content, file>>
  /\ fd' = [fd EXCEPT ![p] = file']
  /\ To(p, "write")
  /\ UNCHANGED <<stale, seen, starts, daemonVars, history>>

(* writeNewPidLock: created exclusively, then written.                     *)
Open(p) ==
  /\ stage[p] = "open"
  /\ \/ /\ file = 0
        /\ content' = Append(content, NoLock)
        /\ file' = Len(content')
        /\ fd' = [fd EXCEPT ![p] = file']
        /\ To(p, "write")
        /\ ousted' = ousted \ {p}
     \/ /\ file # 0
        /\ To(p, "reread")
        /\ UNCHANGED <<content, file, fd, ousted>>
  /\ UNCHANGED <<stale, seen, starts, daemonVars, alone, blind>>

Write(p) ==
  /\ stage[p] = "write"
  /\ content' = [content EXCEPT ![fd[p]] = [pid |-> p, start |-> starts[p]]]
  /\ stale' = Touched(fd[p])
  /\ Proceed(p, "running")
  /\ UNCHANGED <<file, damage>>

(* Mutant: a start that loses the race waits for a lock it cannot read.    *)
ReRetry(p) ==
  /\ stage[p] = "reread"
  /\ IF Lock(file) # NoLock THEN Conflict(p) ELSE Proceed(p, "open")
  /\ UNCHANGED <<fileVars, damage>>

ReRead(p) ==
  /\ stage[p] = "reread"
  /\ IF Lock(file) # NoLock THEN Conflict(p) ELSE Exit(p)
  /\ UNCHANGED <<fileVars, damage>>

(* waitForDaemonToQuit: polls until no live process holds the lock ...     *)
Poll(p) ==
  /\ stage[p] = "waiting" /\ ~Alive(Lock(file).pid)
  /\ Proceed(p, "read")
  /\ UNCHANGED <<fileVars, damage>>

(* ... or is interrupted, or gives up after fifteen minutes.               *)
GiveUp(p) ==
  /\ stage[p] = "waiting"
  /\ Exit(p)
  /\ UNCHANGED <<fileVars, damage>>

-----------------------------------------------------------------------------
(* The running supervisor.                                                 *)

(* The half second a read of an empty file is repeated for is enough for   *)
(* whoever is about to write it, unless that process is gone.              *)
BeingWritten(f) == \E q \in Procs : \/ stage[q] = "write" /\ fd[q] = f
                                    \/ update[q].stage = "truncated" /\ update[q].fd = f

(* refreshPidLock, every thirty seconds: a lock that is missing, invalid   *)
(* or another process's shuts the daemon down.                             *)
BeatOpen(p) ==
  /\ Serving(p) /\ beat[p] = 0
  /\ \/ file # 0 /\ beat' = [beat EXCEPT ![p] = file] /\ UNCHANGED stage
     \/ file = 0 /\ To(p, "stopping") /\ UNCHANGED beat
  /\ UNCHANGED <<fileVars, seen, fd, starts, update, orphans, history>>

(* Mutant: a lock that another process owns is only reported.              *)
BeatTolerant(p) ==
  /\ beat[p] # 0 /\ ~BeingWritten(beat[p])
  /\ beat' = [beat EXCEPT ![p] = 0]
  /\ stale' = IF Lock(beat[p]).pid = p THEN Touched(beat[p]) ELSE stale
  /\ UNCHANGED <<file, content, stage, seen, fd, starts, update, orphans, history>>

BeatRead(p) ==
  /\ beat[p] # 0 /\ ~BeingWritten(beat[p])
  /\ beat' = [beat EXCEPT ![p] = 0]
  /\ IF Lock(beat[p]).pid = p
     THEN stale' = Touched(beat[p]) /\ UNCHANGED stage
     ELSE UNCHANGED stale /\ To(p, IF stage[p] = "running" THEN "stopping" ELSE stage[p])
  /\ UNCHANGED <<file, content, seen, fd, starts, update, orphans, history>>

(* updatePidLock, when the worker is ready: truncate, then write.  Its     *)
(* errors are only logged.                                                 *)
Done == [NoUpdate EXCEPT !.stage = "done"]

WorkerReady(p) ==
  /\ Serving(p) /\ update[p].stage = "none"
  /\ update' = [update EXCEPT ![p] = IF file = 0 THEN Done
                                     ELSE [stage |-> "opened", fd |-> file, lock |-> NoLock]]
  /\ UNCHANGED <<fileVars, stage, seen, fd, starts, beat, orphans, history>>

Truncate(p) ==
  /\ update[p].stage = "opened" /\ ~BeingWritten(update[p].fd)
  /\ LET f == update[p].fd
     IN  IF Lock(f).pid = p
         THEN /\ update' = [update EXCEPT ![p] = [stage |-> "truncated", fd |-> f,
                                                  lock |-> Lock(f)]]
              /\ content' = [content EXCEPT ![f] = NoLock]
              /\ stale' = Touched(f)
         ELSE /\ update' = [update EXCEPT ![p] = Done]
              /\ UNCHANGED <<content, stale>>
  /\ UNCHANGED <<file, stage, seen, fd, starts, beat, orphans, history>>

Rewrite(p) ==
  /\ update[p].stage = "truncated"
  /\ content' = [content EXCEPT ![update[p].fd] = update[p].lock]
  /\ stale' = Touched(update[p].fd)
  /\ update' = [update EXCEPT ![p] = Done]
  /\ UNCHANGED <<file, stage, seen, fd, starts, beat, orphans, history>>

(* A signal, or the worker's request.                                      *)
Stop(p) ==
  /\ stage[p] = "running"
  /\ Proceed(p, "stopping")
  /\ UNCHANGED <<fileVars, damage>>

(* The worker has shut down, or is killed ten seconds later.               *)
WorkerExits(p) ==
  /\ stage[p] = "stopping"
  /\ Proceed(p, "stopped")
  /\ UNCHANGED <<fileVars, damage>>

(* releasePidLock: read, and unlink the path if the lock read is one's own.*)
ReleaseRead(p) ==
  /\ stage[p] = "stopped"
  /\ IF Lock(file).pid = p THEN Proceed(p, "release") ELSE Exit(p)
  /\ UNCHANGED <<fileVars, damage>>

ReleaseUnlink(p) ==
  /\ stage[p] = "release"
  /\ file' = 0 /\ stale' = FALSE
  /\ blind' = (blind \/ \E q \in Procs \ {p} : Holds(q))
  /\ Exit(p)
  /\ UNCHANGED <<content, ousted>>

(* The supervisor is killed, and its worker with it or on its own.          *)
Crash(p) ==
  /\ stage[p] # "off"
  /\ Ends(p)
  /\ \/ UNCHANGED orphans
     \/ Serving(p) /\ orphans' = orphans \cup {<<p, starts[p]>>}
  /\ alone' = [alone EXCEPT ![p] = FALSE]
  /\ UNCHANGED <<fileVars, damage>>

(* installSupervisorLivenessGuard: the channel to the supervisor is closed. *)
OrphanExits(w) ==
  /\ w \in orphans
  /\ orphans' = orphans \ {w}
  /\ UNCHANGED <<fileVars, stage, seen, fd, starts, beat, update, history>>

(* Five minutes pass over the file: the host sleeps, or its owner is gone. *)
Age ==
  /\ Fresh
  /\ stale' = TRUE
  /\ UNCHANGED <<file, content, stage, seen, fd, starts, daemonVars, history>>

-----------------------------------------------------------------------------
Acquire(p) == \/ Read(p) \/ AlreadyOwned(p) \/ Judge(p) \/ Confirm(p) \/ Recheck(p)
              \/ Takeover(p) \/ Unlink(p) \/ Open(p) \/ Write(p) \/ ReRead(p)
Beat(p)    == BeatOpen(p) \/ BeatRead(p)
Update(p)  == WorkerReady(p) \/ Truncate(p) \/ Rewrite(p)
Release(p) == WorkerExits(p) \/ ReleaseRead(p) \/ ReleaseUnlink(p)

Next == \/ Age
        \/ \E w \in orphans : OrphanExits(w)
        \/ \E p \in Procs : \/ Start(p) \/ Acquire(p) \/ Poll(p) \/ GiveUp(p)
                            \/ Beat(p) \/ Update(p) \/ Stop(p) \/ Release(p) \/ Crash(p)

Spec == Init /\ [][Next]_vars

(* Processes that are alive go on, timers fire, and a wait ends.           *)
Onward(p) == Acquire(p) \/ Poll(p) \/ GiveUp(p) \/ Release(p)

Fairness == /\ WF_vars(\E w \in orphans : OrphanExits(w))
            /\ \A p \in Procs : /\ WF_vars(Onward(p)) /\ WF_vars(Beat(p))
                                 /\ WF_vars(Truncate(p) \/ Rewrite(p))

FairSpec == Spec /\ Fairness

-----------------------------------------------------------------------------
Locks   == {NoLock} \cup [pid : Procs, start : Nat]
Updates == [stage : {"none", "opened", "truncated", "done"}, fd : Nat, lock : Locks]

TypeOK ==
  /\ content \in Seq(Locks)
  /\ file \in 0..Len(content)
  /\ stale \in BOOLEAN /\ blind \in BOOLEAN
  /\ stage \in [Procs -> Stages]
  /\ seen \in [Procs -> Locks]
  /\ fd \in [Procs -> Nat] /\ starts \in [Procs -> Nat] /\ beat \in [Procs -> Nat]
  /\ update \in [Procs -> Updates]
  /\ orphans \subseteq Procs \X Nat
  /\ alone \in [Procs -> BOOLEAN]
  /\ ousted \subseteq Procs

(* docs/data-model.md:613: otto.pid "prevents two daemons sharing one       *)
(* $OTTO_HOME".  The worker of a killed supervisor is not counted.          *)
OneDaemon == \A p, q \in Procs : Serving(p) /\ Serving(q) => p = q

(* Through every crash, conflict, wait, release and reuse of a process id,  *)
(* two supervised daemons run only after an unlink, by path, removed another *)
(* lock than the one it was meant for, or a dead process's lock that a new   *)
(* process under its id had adopted meanwhile; or beside a daemon whose live *)
(* lock a desktop start found stale twice and took over (pid-lock.ts:125-142). *)
OneDaemonUnlessBlind ==
  ~blind => \A p, q \in Procs \ ousted : Serving(p) /\ Serving(q) => p = q

(* Of several daemons that do run, ousted ones and the workers of killed     *)
(* supervisors included, all but one find out and go.                       *)
Daemons == {<<p, starts[p]>> : p \in {q \in Procs : Serving(q)}} \cup orphans

TwoBecomeOne == []<>(\A d, e \in Daemons : d = e)

(* A start ends: it runs, fails, or waits for a holder.                    *)
StartsSettle == \A p \in Procs : stage[p] \in Starting ~> stage[p] \notin Starting

(* A start with no other process about fails only by being killed, or      *)
(* before a lock file that a crash has left empty; never before the lock   *)
(* of a daemon that is gone, however old or recent.                        *)
LoneStartSucceeds ==
  [][\A p \in Procs :
       alone[p] /\ stage[p] \in Starting /\ stage'[p] = "off" =>
         \/ ~alone'[p]
         \/ file # 0 /\ content[file] = NoLock]_vars
=============================================================================
