---------------------------- MODULE PidLockProofs ----------------------------
(***************************************************************************)
(* Two daemons run on one home directory only after a blind unlink, or     *)
(* beside one whose lock was taken over, for any number of processes and   *)
(* starts.                                                                 *)
(***************************************************************************)
EXTENDS PidLock, TLAPS, SequenceTheorems

(* Handles are of files there are, and of processes that may have them.    *)
HandlesOf(p) ==
  /\ stage[p] = "write" => fd[p] \in 1..Len(content)
  /\ beat[p] =< Len(content)
  /\ update[p].stage \in {"opened", "truncated"} =>
       stage[p] \in Holding /\ update[p].fd \in 1..Len(content)
  /\ update[p].stage = "truncated" => update[p].lock \in [pid : {p}, start : Nat]
  /\ stage[p] \in {"judge", "confirm", "recheck", "takeover", "unlink"} => seen[p] # NoLock

Handles == \A p \in Procs : HandlesOf(p)

OneWriter ==
  \A p \in Procs, f \in 1..Len(content) :
    Writes(p, f) => /\ content[f] = NoLock
                    /\ \A q \in Procs : Writes(q, f) => p = q

Held == ~blind => \A p \in Procs \ ousted : Holder(p) => Holds(p)

IInv == TypeOK /\ Handles /\ OneWriter /\ Held

-----------------------------------------------------------------------------
(***************************************************************************)
(* Types.                                                                  *)
(***************************************************************************)
\* Writing into a file, or creating one, leaves a sequence of locks.
LEMMA FileTypes ==
  ASSUME TypeOK, NEW l \in Locks
  PROVE  /\ \A f \in 1..Len(content) :
              /\ content[f] \in Locks
              /\ [content EXCEPT ![f] = l] \in Seq(Locks)
              /\ Len([content EXCEPT ![f] = l]) = Len(content)
              /\ [content EXCEPT ![f] = l][f] = l
              /\ \A g \in 1..Len(content) :
                   g # f => [content EXCEPT ![f] = l][g] = content[g]
         /\ Append(content, l) \in Seq(Locks)
         /\ Len(Append(content, l)) = Len(content) + 1
         /\ Append(content, l)[Len(content) + 1] = l
         /\ \A g \in 1..Len(content) : Append(content, l)[g] = content[g]
         /\ Len(content) \in Nat
<1>1. content \in Seq(Locks) /\ Len(content) \in Nat
  BY DEF TypeOK
<1> HIDE DEF Locks
<1>2. \A f \in 1..Len(content) :
        /\ [content EXCEPT ![f] = l] \in Seq(Locks)
        /\ Len([content EXCEPT ![f] = l]) = Len(content)
        /\ \A g \in 1..Len(content) :
             [content EXCEPT ![f] = l][g] = IF g = f THEN l ELSE content[g]
  BY <1>1, ExceptSeq
<1>3. /\ Append(content, l) \in Seq(Locks)
      /\ Len(Append(content, l)) = Len(content) + 1
      /\ Append(content, l)[Len(content) + 1] = l
      /\ \A g \in 1..Len(content) : Append(content, l)[g] = content[g]
  BY <1>1, AppendProperties
<1>4. \A f \in 1..Len(content) : content[f] \in Locks
  BY <1>1
<1> QED BY <1>1, <1>2, <1>3, <1>4

\* What is read of a file is a lock, or none.
LEMMA LockTypes ==
  ASSUME TypeOK, NEW f \in 0..Len(content)
  PROVE  Lock(f) \in Locks
<1>1. NoLock \in Locks
  BY DEF Locks
<1> QED BY <1>1, FileTypes DEF Lock

\* The steps between the file operations.
LEMMA StepTypes ==
  ASSUME TypeOK, NEW p \in Procs
  PROVE  /\ Ends(p) => /\ stage' \in [Procs -> Stages] /\ seen' \in [Procs -> Locks]
                       /\ fd' \in [Procs -> Nat] /\ starts' \in [Procs -> Nat]
                       /\ beat' \in [Procs -> Nat] /\ update' \in [Procs -> Updates]
         /\ \A s \in Stages :
              Proceed(p, s) => /\ stage' \in [Procs -> Stages] /\ seen' \in [Procs -> Locks]
                               /\ fd' \in [Procs -> Nat] /\ starts' \in [Procs -> Nat]
                               /\ beat' \in [Procs -> Nat] /\ update' \in [Procs -> Updates]
                               /\ alone' \in [Procs -> BOOLEAN]
                               /\ orphans' \subseteq Procs \X Nat
<1>1. NoLock \in Locks
  BY DEF Locks
<1>2. NoUpdate \in Updates
  BY <1>1 DEF Updates, NoUpdate
<1> HIDE DEF Locks, Updates
<1>3. "off" \in Stages
  BY DEF Stages
<1>4. Ends(p) => /\ stage' \in [Procs -> Stages] /\ seen' \in [Procs -> Locks]
                 /\ fd' \in [Procs -> Nat] /\ starts' \in [Procs -> Nat]
                 /\ beat' \in [Procs -> Nat] /\ update' \in [Procs -> Updates]
  BY <1>1, <1>2, <1>3 DEF TypeOK, Ends, To
<1>5. ASSUME NEW s \in Stages, Proceed(p, s)
      PROVE  /\ stage' \in [Procs -> Stages] /\ seen' \in [Procs -> Locks]
             /\ fd' \in [Procs -> Nat] /\ starts' \in [Procs -> Nat]
             /\ beat' \in [Procs -> Nat] /\ update' \in [Procs -> Updates]
             /\ alone' \in [Procs -> BOOLEAN] /\ orphans' \subseteq Procs \X Nat
  BY <1>1, <1>5 DEF TypeOK, Proceed, To, daemonVars
<1> QED BY <1>4, <1>5

LEMMA TypeInit == Init => TypeOK
<1>1. NoLock \in Locks
  BY DEF Locks
<1>2. NoUpdate \in Updates
  BY <1>1 DEF Updates, NoUpdate
<1>3. <<>> \in Seq(Locks) /\ Len(<<>>) = 0
  OBVIOUS
<1> HIDE DEF Locks, Updates
<1> SUFFICES ASSUME Init PROVE TypeOK
  OBVIOUS
<1>4. content \in Seq(Locks) /\ file \in 0..Len(content)
  BY <1>3 DEF Init
<1>5. stage \in [Procs -> Stages]
  BY DEF Init, Stages
<1>6. seen \in [Procs -> Locks] /\ update \in [Procs -> Updates]
  BY <1>1, <1>2 DEF Init
<1> QED BY <1>4, <1>5, <1>6 DEF Init, TypeOK

LEMMA TypeStep == TypeOK /\ Handles /\ [Next]_vars => TypeOK'
<1> SUFFICES ASSUME TypeOK, Handles, [Next]_vars PROVE TypeOK'
  OBVIOUS
<1>a. file \in 0..Len(content) /\ Len(content) \in Nat /\ 0 \in 0..Len(content)
  BY FileTypes DEF TypeOK, Locks
<1>b. NoLock \in Locks
  BY DEF Locks
<1>c. /\ \A f : Touched(f) \in BOOLEAN
      /\ {"off", "waiting", "running", "stopping", "stopped", "release"} \subseteq Stages
      /\ Starting \subseteq Stages
  BY DEF Touched, TypeOK, Stages, Holding
<1>d. Done \in Updates
  BY <1>b DEF Done, NoUpdate, Updates
<1> DEFINE Rest == /\ stage' \in [Procs -> Stages] /\ seen' \in [Procs -> Locks]
                   /\ fd' \in [Procs -> Nat] /\ starts' \in [Procs -> Nat]
                   /\ beat' \in [Procs -> Nat] /\ update' \in [Procs -> Updates]
                   /\ alone' \in [Procs -> BOOLEAN] /\ orphans' \subseteq Procs \X Nat
           Files == /\ content' \in Seq(Locks)
                    /\ file' \in 0..Len(content')
                    /\ stale' \in BOOLEAN /\ blind' \in BOOLEAN /\ ousted' \subseteq Procs
<1>e. (UNCHANGED content) /\ file' \in {0, file} /\ stale' \in BOOLEAN /\ blind' \in BOOLEAN
        /\ ousted' \subseteq Procs => Files
  BY <1>a DEF TypeOK
<1>f. ASSUME NEW p \in Procs PROVE Exit(p) => Rest
  BY StepTypes DEF Exit, TypeOK
<1>g. ASSUME NEW p \in Procs, NEW s \in Stages, Proceed(p, s) PROVE Rest
  BY <1>g, StepTypes
<1>h. ASSUME NEW p \in Procs, Conflict(p) PROVE Rest
  BY <1>f, <1>g, <1>h, <1>c DEF Conflict
<1> HIDE DEF Locks, Updates, Stages, Starting, Holding
<1>1. CASE UNCHANGED vars
  BY <1>1 DEF vars, TypeOK
<1>2. CASE Age
  BY <1>2 DEF Age, daemonVars, history, TypeOK
<1>3. ASSUME NEW p \in Procs, Start(p) PROVE TypeOK'
  <2>1. stage' \in [Procs -> Stages]
    BY <1>3, <1>c DEF Start, To, TypeOK, Starting
  <2>2. starts' \in [Procs -> Nat]
    BY <1>3 DEF Start, TypeOK
  <2>3. alone' \in [Procs -> BOOLEAN]
    BY <1>3 DEF Start
  <2> QED BY <1>3, <2>1, <2>2, <2>3 DEF Start, fileVars, daemonVars, damage, TypeOK
<1>4. ASSUME NEW p \in Procs, Read(p) PROVE TypeOK'
  <2>1. Lock(file) \in Locks
    BY <1>a, LockTypes
  <2>2. seen' \in [Procs -> Locks]
    BY <1>4, <2>1 DEF Read, TypeOK
  <2>3. stage' \in [Procs -> Stages]
    BY <1>4, <1>c DEF Read, To, TypeOK, Starting
  <2> QED BY <1>4, <2>2, <2>3 DEF Read, fileVars, daemonVars, history, TypeOK
<1>5. ASSUME NEW p \in Procs, AlreadyOwned(p) PROVE TypeOK'
  <2>1. Rest
    BY <1>5, <1>f, <1>g, <1>c DEF AlreadyOwned
  <2>2. Files
    BY <1>5, <1>e, <1>c DEF AlreadyOwned, damage, TypeOK
  <2> QED BY <2>1, <2>2 DEF TypeOK
<1>6. ASSUME NEW p \in Procs, \/ Judge(p) \/ Confirm(p) \/ Recheck(p) \/ ReRead(p)
                               \/ Poll(p) \/ GiveUp(p) \/ Stop(p) \/ WorkerExits(p)
                               \/ ReleaseRead(p)
      PROVE  TypeOK'
  <2>1. Rest
    <3> DEFINE To1 == {"confirm", "recheck", "takeover", "unlink", "read"}
               To2 == {"stopping", "stopped", "release"}
    <3>1. To1 \cup To2 \subseteq Stages
      BY <1>c DEF Starting
    <3>2. Conflict(p) \/ Exit(p)
            \/ \E s \in To1 \cup To2 : Proceed(p, s)
      BY <1>6 DEF Judge, Confirm, Recheck, ReRead, Poll, GiveUp, Stop, WorkerExits, ReleaseRead
    <3> QED BY <3>1, <3>2, <1>f, <1>g, <1>h
  <2>2. Files
    BY <1>6, <1>e DEF Judge, Confirm, Recheck, ReRead, Poll, GiveUp, Stop, WorkerExits,
                      ReleaseRead, fileVars, damage, TypeOK
  <2> QED BY <2>1, <2>2 DEF TypeOK
<1>7. ASSUME NEW p \in Procs, Takeover(p) \/ Unlink(p) PROVE TypeOK'
  <2>1. Rest
    BY <1>7, <1>g, <1>c DEF Takeover, Unlink, Starting
  <2>2. Takeover(p) => seen[p].pid \in Procs
    BY DEF Takeover, Handles, HandlesOf, TypeOK, Locks
  <2>3. Files
    BY <1>7, <1>e, <2>2 DEF Takeover, Unlink, TypeOK
  <2> QED BY <2>1, <2>3 DEF TypeOK
<1>8. ASSUME NEW p \in Procs, Open(p) PROVE TypeOK'
  <2>1. stage' \in [Procs -> Stages]
    BY <1>8, <1>c DEF Open, To, TypeOK, Starting
  <2>2. CASE file = 0
    <3>1. /\ content' = Append(content, NoLock) /\ file' = Len(content')
          /\ fd' = [fd EXCEPT ![p] = file']
      BY <1>8, <2>2 DEF Open
    <3>2. content' \in Seq(Locks) /\ Len(content') = Len(content) + 1
      BY <3>1, <1>b, FileTypes
    <3>3. file' \in 0..Len(content') /\ file' \in Nat
      BY <3>1, <3>2, <1>a
    <3>4. fd' \in [Procs -> Nat]
      BY <3>1, <3>3 DEF TypeOK
    <3> QED BY <1>8, <2>1, <3>2, <3>3, <3>4 DEF Open, daemonVars, history, TypeOK
  <2>3. CASE file # 0
    BY <1>8, <2>1, <2>3 DEF Open, daemonVars, history, TypeOK
  <2> QED BY <2>2, <2>3
<1>i. ASSUME NEW f \in 1..Len(content), NEW l \in Locks, file' = file,
             content' = [content EXCEPT ![f] = l], stale' \in BOOLEAN, UNCHANGED damage
      PROVE  Files
  <2>1. content' \in Seq(Locks) /\ Len(content') = Len(content)
    BY <1>i, FileTypes
  <2> QED BY <2>1, <1>i DEF TypeOK, damage
<1>9. ASSUME NEW p \in Procs, Write(p) PROVE TypeOK'
  <2>1. Rest
    BY <1>9, <1>g, <1>c DEF Write
  <2>2. [pid |-> p, start |-> starts[p]] \in Locks
    BY DEF Locks, TypeOK
  <2>3. fd[p] \in 1..Len(content)
    BY <1>9 DEF Write, Handles, HandlesOf
  <2>4. Files
    BY <1>9, <1>i, <1>c, <2>2, <2>3 DEF Write
  <2> QED BY <2>1, <2>4 DEF TypeOK
<1>10. ASSUME NEW p \in Procs, BeatOpen(p) \/ BeatRead(p) PROVE TypeOK'
  <2>1. stage' \in [Procs -> Stages]
    BY <1>10, <1>c DEF BeatOpen, BeatRead, To, TypeOK
  <2>2. beat' \in [Procs -> Nat]
    <3>1. beat' \in {beat, [beat EXCEPT ![p] = file], [beat EXCEPT ![p] = 0]}
      BY <1>10 DEF BeatOpen, BeatRead
    <3> QED BY <3>1, <1>a DEF TypeOK
  <2>3. Files
    BY <1>10, <1>e, <1>c DEF BeatOpen, BeatRead, fileVars, history, TypeOK
  <2> QED BY <1>10, <2>1, <2>2, <2>3 DEF BeatOpen, BeatRead, history, TypeOK
<1>11. ASSUME NEW p \in Procs, WorkerReady(p) PROVE TypeOK'
  <2>1. [stage |-> "opened", fd |-> file, lock |-> NoLock] \in Updates
    <3>1. file \in Nat
      BY <1>a
    <3> QED BY <3>1, <1>b DEF Updates
  <2>2. PICK u \in Updates : update' = [update EXCEPT ![p] = u]
    <3>1. CASE file = 0
      BY <1>11, <3>1, <1>d DEF WorkerReady
    <3>2. CASE file # 0
      BY <1>11, <3>2, <2>1 DEF WorkerReady
    <3> QED BY <3>1, <3>2
  <2>3. update' \in [Procs -> Updates]
    BY <2>2 DEF TypeOK
  <2> QED BY <1>11, <2>3 DEF WorkerReady, fileVars, history, TypeOK
<1>12. ASSUME NEW p \in Procs, Truncate(p) \/ Rewrite(p) PROVE TypeOK'
  <2> DEFINE f == update[p].fd
  <2>1. f \in 1..Len(content) /\ f \in Nat
    BY <1>12, <1>a DEF Truncate, Rewrite, Handles, HandlesOf
  <2>2. Lock(f) \in Locks
    BY <2>1, <1>a, LockTypes
  <2>3. update[p].lock \in Locks
    BY DEF TypeOK, Updates
  <2>4. [stage |-> "truncated", fd |-> f, lock |-> Lock(f)] \in Updates
    BY <2>1, <2>2 DEF Updates
  <2>5. update' \in [Procs -> Updates]
    BY <1>12, <1>d, <2>4 DEF Truncate, Rewrite, TypeOK
  <2>6. Files
    <3>1. CASE content' = [content EXCEPT ![f] = NoLock]
      BY <3>1, <1>12, <1>b, <1>c, <1>i, <2>1 DEF Truncate, Rewrite, history, damage, TypeOK
    <3>2. CASE content' = [content EXCEPT ![f] = update[p].lock]
      BY <3>2, <1>12, <1>c, <1>i, <2>1, <2>3 DEF Truncate, Rewrite, history, damage, TypeOK
    <3>3. CASE UNCHANGED <<content, stale>>
      BY <3>3, <1>12, <1>e DEF Truncate, Rewrite, history, damage, TypeOK
    <3> QED BY <1>12, <3>1, <3>2, <3>3 DEF Truncate, Rewrite
  <2> QED BY <1>12, <2>5, <2>6 DEF Truncate, Rewrite, history, damage, TypeOK
<1>13. ASSUME NEW p \in Procs, ReleaseUnlink(p) PROVE TypeOK'
  <2>1. Rest
    BY <1>13, <1>f DEF ReleaseUnlink
  <2>2. Files
    BY <1>13, <1>e DEF ReleaseUnlink, TypeOK
  <2> QED BY <2>1, <2>2 DEF TypeOK
<1>14. ASSUME NEW p \in Procs, Crash(p) PROVE TypeOK'
  <2>1. Rest
    <3>1. <<p, starts[p]>> \in Procs \X Nat /\ orphans \subseteq Procs \X Nat
      BY DEF TypeOK
    <3>2. orphans' \subseteq Procs \X Nat
      BY <1>14, <3>1 DEF Crash
    <3>3. alone' \in [Procs -> BOOLEAN]
      BY <1>14 DEF Crash, TypeOK
    <3> QED BY <1>14, <3>2, <3>3, StepTypes DEF Crash
  <2>2. Files
    BY <1>14, <1>e DEF Crash, fileVars, damage, TypeOK
  <2> QED BY <2>1, <2>2 DEF TypeOK
<1>15. ASSUME NEW w \in orphans, OrphanExits(w) PROVE TypeOK'
  BY <1>15 DEF OrphanExits, fileVars, history, TypeOK
<1> QED BY <1>1, <1>2, <1>3, <1>4, <1>5, <1>6, <1>7, <1>8, <1>9, <1>10, <1>11, <1>12,
           <1>13, <1>14, <1>15 DEF Next, Acquire, Beat, Update, Release

-----------------------------------------------------------------------------
(***************************************************************************)
(* The invariant is inductive.                                             *)
(***************************************************************************)
(* Nothing of another process changes.                                     *)
OthersStay(p) ==
  \A q \in Procs \ {p} : /\ stage'[q] = stage[q] /\ seen'[q] = seen[q] /\ fd'[q] = fd[q]
                          /\ beat'[q] = beat[q] /\ update'[q] = update[q]

\* What the steps between file operations do to the process that takes them.
LEMMA OwnSteps ==
  ASSUME TypeOK, NEW p \in Procs
  PROVE  /\ Ends(p) => /\ OthersStay(p) /\ stage'[p] = "off" /\ beat'[p] = 0
                       /\ update'[p] = NoUpdate
         /\ \A s : Proceed(p, s) =>
              /\ OthersStay(p) /\ stage'[p] = s /\ fd'[p] = 0 /\ beat' = beat
              /\ update' = update
              /\ seen'[p] = IF s \in {"confirm", "recheck", "takeover", "unlink"} THEN seen[p]
                           ELSE NoLock
  BY DEF TypeOK, Ends, Proceed, To, OthersStay, daemonVars

\* A step of one process that leaves the files alone and writes nothing.
LEMMA LocalStep ==
  ASSUME IInv, NEW p \in Procs, OthersStay(p), UNCHANGED <<file, content, damage>>,
         HandlesOf(p)', \A f \in 1..Len(content) : Writes(p, f)' => Writes(p, f),
         ~blind /\ p \notin ousted => (Holder(p)' => Holds(p)')
  PROVE  Handles' /\ OneWriter' /\ Held'
<1>1. ASSUME NEW q \in Procs, q # p PROVE HandlesOf(q)'
  BY <1>1 DEF IInv, Handles, HandlesOf, OthersStay
<1>2. ASSUME NEW q \in Procs, NEW f \in 1..Len(content) PROVE Writes(q, f)' => Writes(q, f)
  BY DEF Writes, OthersStay
<1>3. ASSUME NEW q \in Procs \ ousted, q # p, ~blind PROVE Holder(q)' => Holds(q)'
  BY <1>3 DEF IInv, Held, Holder, Holds, Writes, OthersStay
<1> QED BY <1>1, <1>2, <1>3 DEF IInv, Handles, OneWriter, Held, damage

\* Such a step that goes on to a stage without a claim on the lock.
LEMMA LetsGo ==
  ASSUME IInv, NEW p \in Procs, OthersStay(p), UNCHANGED <<file, content, damage>>,
         stage'[p] \in {"off", "waiting", "read", "open", "reread", "confirm", "recheck",
                       "takeover", "unlink"},
         beat'[p] =< Len(content), update'[p].stage \notin {"opened", "truncated"},
         stage'[p] \in {"confirm", "recheck", "takeover", "unlink"} => seen'[p] # NoLock
  PROVE  Handles' /\ OneWriter' /\ Held'
<1>1. HandlesOf(p)'
  BY DEF HandlesOf
<1>2. \A f \in 1..Len(content) : ~Writes(p, f)'
  BY DEF Writes
<1>3. ~Holder(p)'
  BY DEF Holder, Holding
<1> QED BY <1>1, <1>2, <1>3, LocalStep

\* The process that exits, or fails on a conflict, gives up its claim.
LEMMA Leaves ==
  ASSUME IInv, NEW p \in Procs, UNCHANGED <<file, content, damage>>,
         \/ Ends(p)
         \/ stage[p] \notin Holding /\ Conflict(p)
         \/ stage[p] \notin Holding
              /\ \E s \in {"waiting", "read", "open", "reread"} : Proceed(p, s)
         \/ stage[p] \in {"judge", "confirm", "recheck"}
              /\ \E s \in {"confirm", "recheck", "takeover", "unlink"} : Proceed(p, s)
  PROVE  Handles' /\ OneWriter' /\ Held'
<1>1. Len(content) \in Nat
  BY FileTypes DEF IInv, Locks
<1>2. CASE Ends(p)
  BY <1>1, <1>2, OwnSteps, LetsGo DEF IInv, NoUpdate
<1>3. ASSUME stage[p] \notin Holding, NEW s \in {"waiting", "read", "open", "reread"}, Proceed(p, s)
      PROVE  Handles' /\ OneWriter' /\ Held'
  BY <1>3, OwnSteps, LetsGo DEF IInv, Handles, HandlesOf
<1>4. ASSUME stage[p] \in {"judge", "confirm", "recheck"},
             NEW s \in {"confirm", "recheck", "takeover", "unlink"}, Proceed(p, s)
      PROVE  Handles' /\ OneWriter' /\ Held'
  <2>1. seen'[p] # NoLock
    BY <1>4, OwnSteps DEF IInv, Handles, HandlesOf
  <2> QED BY <2>1, <1>4, OwnSteps, LetsGo DEF IInv, Handles, HandlesOf, Holding
<1> QED BY <1>2, <1>3, <1>4 DEF Conflict, Exit

\* Who holds the lock and who writes it exclude each other.
LEMMA HolderAlone ==
  ASSUME IInv, ~blind, NEW p \in Procs \ ousted, NEW q \in Procs \ ousted, Holder(p), Holder(q)
  PROVE  p = q
<1>1. Holds(p) /\ Holds(q)
  BY DEF IInv, Held
<1>2. file \in 1..Len(content)
  BY <1>1, FileTypes DEF IInv, TypeOK, Holds, Locks
<1>3. NoLock.pid \notin Procs
  BY PidLockAssumption DEF NoLock
<1> QED BY <1>1, <1>2, <1>3 DEF IInv, OneWriter, Holds

\* The steps that read, poll, judge, beat and stop.
LEMMA QuietSteps ==
  ASSUME IInv, NEW p \in Procs,
         \/ Start(p) \/ Read(p) \/ AlreadyOwned(p) \/ Judge(p) \/ Confirm(p) \/ Recheck(p)
         \/ ReRead(p) \/ Poll(p) \/ GiveUp(p) \/ BeatOpen(p) \/ BeatRead(p) \/ WorkerReady(p)
         \/ Stop(p) \/ WorkerExits(p) \/ ReleaseRead(p) \/ Crash(p)
  PROVE  Handles' /\ OneWriter' /\ Held'
<1>a. Len(content) \in Nat /\ file \in 0..Len(content)
  BY FileTypes DEF IInv, TypeOK, Locks
<1>b. HandlesOf(p)
  BY DEF IInv, Handles
<1>c. NoLock.pid = Nobody /\ p # Nobody
  BY PidLockAssumption DEF NoLock
<1>1. CASE Start(p)
  <2>1. OthersStay(p) /\ stage'[p] = "read" /\ beat' = beat /\ update' = update
    BY <1>1 DEF Start, To, OthersStay, daemonVars, IInv, TypeOK
  <2> QED BY <1>1, <1>b, <2>1, LetsGo DEF Start, fileVars, HandlesOf, Holding
<1>2. CASE Read(p)
  <2>1. /\ OthersStay(p) /\ seen'[p] = Lock(file) /\ UNCHANGED <<file, content, damage>>
        /\ stage'[p] = IF Lock(file) = NoLock THEN "open" ELSE "judge"
        /\ fd' = fd /\ beat' = beat /\ update' = update /\ stage[p] = "read"
    BY <1>2 DEF Read, To, OthersStay, daemonVars, fileVars, history, damage,
                 IInv, TypeOK
  <2>2. HandlesOf(p)'
    BY <1>b, <2>1 DEF HandlesOf, Holding
  <2>3. \A f \in 1..Len(content) : ~Writes(p, f)'
    BY <2>1, <1>b DEF Writes, HandlesOf, Holding
  <2>4. Holder(p)' => Holds(p)'
    BY <2>1, <1>c DEF Holder, Holds, Holding, Lock
  <2> QED BY <2>1, <2>2, <2>3, <2>4, LocalStep
<1>3. CASE AlreadyOwned(p)
  <2>1. UNCHANGED <<file, content, damage>> /\ stage[p] = "judge" /\ seen[p].pid = p
    BY <1>3 DEF AlreadyOwned
  <2>2. CASE Proceed(p, "running")
    <3>1. /\ OthersStay(p) /\ stage'[p] = "running" /\ beat' = beat /\ update' = update
      BY <2>2, OwnSteps DEF IInv
    <3>2. update[p].stage # "truncated"
      BY <2>1, <1>b DEF HandlesOf, Holding
    <3>3. HandlesOf(p)'
      BY <1>b, <2>1, <3>1 DEF HandlesOf, Holding
    <3>4. \A f \in 1..Len(content) : ~Writes(p, f)'
      BY <3>1, <3>2 DEF Writes
    <3>5. ~blind /\ p \notin ousted => Holds(p)'
      BY <2>1, <3>1, <3>2 DEF IInv, Held, Holder, Holds, Writes
    <3> QED BY <2>1, <3>1, <3>3, <3>4, <3>5, LocalStep
  <2> QED BY <1>3, <2>1, <2>2, Leaves DEF AlreadyOwned, Exit
<1>4. CASE Judge(p) \/ Confirm(p) \/ Recheck(p) \/ ReRead(p) \/ Poll(p) \/ GiveUp(p)
  BY <1>4, Leaves DEF Judge, Confirm, Recheck, ReRead, Poll, GiveUp, Exit, fileVars, Holding
<1>5. CASE BeatOpen(p) \/ BeatRead(p)
  <2>1. /\ OthersStay(p) /\ UNCHANGED <<file, content, damage>> /\ fd' = fd /\ update' = update
        /\ seen' = seen /\ beat'[p] \in {0, beat[p], file}
        /\ \/ stage'[p] = stage[p]
           \/ Serving(p) /\ stage'[p] = "stopping"
    <3>1. CASE BeatOpen(p)
      BY <3>1 DEF BeatOpen, To, OthersStay, fileVars, history, damage, IInv, TypeOK
    <3>2. CASE BeatRead(p)
      BY <3>2 DEF BeatRead, To, OthersStay, history, damage, Serving, IInv, TypeOK
    <3> QED BY <1>5, <3>1, <3>2
  <2>2. HandlesOf(p)'
    BY <1>a, <1>b, <2>1 DEF HandlesOf, Holding, Serving
  <2>3. \A f \in 1..Len(content) : Writes(p, f)' => Writes(p, f)
    BY <2>1 DEF Writes
  <2>4. ~blind /\ p \notin ousted => (Holder(p)' => Holds(p)')
    BY <2>1 DEF IInv, Held, Holder, Holds, Writes, Holding, Serving
  <2> QED BY <2>1, <2>2, <2>3, <2>4, LocalStep
<1>6. CASE WorkerReady(p)
  <2>1. /\ OthersStay(p) /\ UNCHANGED <<file, content, damage>> /\ fd' = fd /\ beat' = beat
        /\ stage' = stage /\ seen' = seen /\ stage[p] \in {"running", "stopping"}
        /\ update[p].stage = "none" /\ update'[p].stage \in {"opened", "done"}
        /\ update'[p].stage = "opened" => file # 0 /\ update'[p].fd = file
    BY <1>6 DEF WorkerReady, Serving, Done, NoUpdate, OthersStay, fileVars, history, damage,
                 IInv, TypeOK
  <2>2. HandlesOf(p)'
    BY <1>a, <1>b, <2>1 DEF HandlesOf, Holding
  <2>3. \A f \in 1..Len(content) : ~Writes(p, f)'
    BY <2>1 DEF Writes
  <2>4. ~blind /\ p \notin ousted => (Holder(p)' => Holds(p)')
    BY <2>1 DEF IInv, Held, Holder, Holds, Writes, Holding
  <2> QED BY <2>1, <2>2, <2>3, <2>4, LocalStep
<1>7. CASE Stop(p) \/ WorkerExits(p) \/ ReleaseRead(p)
  <2>1. UNCHANGED <<file, content, damage>> /\ stage[p] \in {"running", "stopping", "stopped"}
    BY <1>7 DEF Stop, WorkerExits, ReleaseRead, fileVars
  <2>2. ASSUME NEW s \in {"stopping", "stopped", "release"}, Proceed(p, s)
        PROVE  Handles' /\ OneWriter' /\ Held'
    <3>1. OthersStay(p) /\ stage'[p] = s /\ beat' = beat /\ update' = update
      BY <2>2, OwnSteps DEF IInv
    <3>2. HandlesOf(p)'
      BY <1>b, <2>1, <3>1 DEF HandlesOf, Holding
    <3>3. \A f \in 1..Len(content) : Writes(p, f)' => Writes(p, f)
      BY <3>1 DEF Writes
    <3>4. ~blind /\ p \notin ousted => (Holder(p)' => Holds(p)')
      BY <2>1, <3>1 DEF IInv, Held, Holder, Holds, Writes, Holding
    <3> QED BY <2>1, <3>1, <3>2, <3>3, <3>4, LocalStep
  <2> QED BY <1>7, <2>1, <2>2, Leaves DEF Stop, WorkerExits, ReleaseRead, Exit
<1>8. CASE Crash(p)
  BY <1>8, Leaves DEF Crash, fileVars
<1> QED BY <1>1, <1>2, <1>3, <1>4, <1>5, <1>6, <1>7, <1>8

\* A lock file is created when there is none, so nobody holds the lock.
LEMMA OpenStep ==
  ASSUME IInv, NEW p \in Procs, Open(p)
  PROVE  Handles' /\ OneWriter' /\ Held'
<1>a. Len(content) \in Nat /\ NoLock \in Locks
  BY FileTypes DEF IInv, Locks
<1>b. HandlesOf(p) /\ update[p].stage \notin {"opened", "truncated"} /\ blind' = blind
  BY DEF Open, IInv, Handles, HandlesOf, Holding
<1>c. OthersStay(p) /\ beat' = beat /\ update' = update
  BY DEF Open, To, OthersStay, daemonVars, IInv, TypeOK
<1>1. CASE file = 0
  <2>1. /\ content' = Append(content, NoLock) /\ file' = Len(content')
        /\ stage'[p] = "write" /\ fd'[p] = file' /\ ousted' = ousted \ {p}
    BY <1>1 DEF Open, To, IInv, TypeOK
  <2>2. /\ Len(content') = Len(content) + 1 /\ file' = Len(content) + 1
        /\ content'[file'] = NoLock
        /\ \A f \in 1..Len(content) : content'[f] = content[f]
    BY <2>1, <1>a, FileTypes DEF IInv
  <2>3. ASSUME NEW q \in Procs PROVE HandlesOf(q)'
    <3>1. CASE q = p
      BY <1>a, <1>b, <1>c, <2>1, <2>2, <3>1 DEF HandlesOf, IInv, TypeOK
    <3>2. CASE q # p
      BY <1>a, <1>c, <2>2, <3>2 DEF HandlesOf, OthersStay, IInv, Handles, TypeOK
    <3> QED BY <3>1, <3>2
  <2>4. ASSUME NEW q \in Procs, NEW f \in 1..Len(content'), Writes(q, f)'
        PROVE  IF f = file' THEN q = p ELSE f \in 1..Len(content) /\ Writes(q, f)
    <3>1. CASE q = p
      BY <1>b, <1>c, <2>1, <2>4, <3>1 DEF Writes
    <3>2. CASE q # p
      <4>1. Writes(q, f)
        BY <1>c, <2>4, <3>2 DEF Writes, OthersStay
      <4>2. f \in 1..Len(content)
        BY <4>1 DEF Writes, IInv, Handles, HandlesOf
      <4> QED BY <1>a, <2>2, <4>1, <4>2
    <3> QED BY <3>1, <3>2
  <2>5. OneWriter'
    BY <2>2, <2>4 DEF OneWriter, IInv
  <2>6. Held'
    <3>1. ASSUME ~blind, NEW q \in Procs \ ousted, q # p PROVE ~Holder(q)'
      BY <1>1, <1>c, <3>1 DEF IInv, Held, Holds, Holder, OthersStay
    <3>2. Holds(p)'
      BY <2>1, <2>2, <1>a DEF Holds, Writes
    <3> QED BY <1>b, <2>1, <3>1, <3>2 DEF Held
  <2> QED BY <2>3, <2>5, <2>6 DEF Handles
<1>2. CASE file # 0
  BY <1>2, <1>a, <1>b, <1>c, LetsGo DEF Open, To, damage, IInv, TypeOK, Handles, HandlesOf
<1> QED BY <1>1, <1>2

\* The writer of a file puts its own lock there.
LEMMA WriteSteps ==
  ASSUME IInv, NEW p \in Procs, Write(p) \/ Rewrite(p)
  PROVE  Handles' /\ OneWriter' /\ Held'
<1> DEFINE f == IF Write(p) THEN fd[p] ELSE update[p].fd
           l == IF Write(p) THEN [pid |-> p, start |-> starts[p]] ELSE update[p].lock
<1>a. Len(content) \in Nat /\ HandlesOf(p) /\ OthersStay(p) /\ beat' = beat
  <2>1. Write(p) => OthersStay(p) /\ beat' = beat
    BY OwnSteps DEF Write, IInv
  <2>2. Rewrite(p) => OthersStay(p) /\ beat' = beat
    BY DEF Rewrite, OthersStay, IInv, TypeOK
  <2> QED BY <2>1, <2>2, FileTypes DEF IInv, Handles, Locks
<1>b. /\ f \in 1..Len(content) /\ l \in Locks /\ l.pid = p /\ Writes(p, f)
      /\ content' = [content EXCEPT ![f] = l] /\ file' = file /\ UNCHANGED damage
  <2>1. CASE Write(p)
    BY <2>1, <1>a DEF Write, Writes, HandlesOf, IInv, TypeOK, Locks
  <2>2. CASE ~Write(p)
    BY <2>2, <1>a DEF Rewrite, Writes, HandlesOf, Locks, history, damage
  <2> QED BY <2>1, <2>2
<1> HIDE DEF f, l
<1>c. /\ Len(content') = Len(content) /\ content'[f].pid = p
      /\ \A g \in 1..Len(content) : g # f => content'[g] = content[g]
  BY <1>b, FileTypes DEF IInv
<1>d. /\ stage'[p] \in Holding /\ update'[p].stage \notin {"opened", "truncated"}
  <2>1. CASE Write(p)
    BY <2>1, <1>a, OwnSteps DEF Write, HandlesOf, Holding, IInv
  <2>2. CASE Rewrite(p)
    BY <2>2, <1>a DEF Rewrite, HandlesOf, Holding, Done, NoUpdate, IInv, TypeOK
  <2> QED BY <2>1, <2>2
<1>1. ASSUME NEW q \in Procs PROVE HandlesOf(q)'
  <2>1. CASE q = p
    BY <1>a, <1>c, <1>d, <2>1 DEF HandlesOf, Holding
  <2>2. CASE q # p
    BY <1>a, <1>c, <2>2 DEF HandlesOf, OthersStay, IInv, Handles
  <2> QED BY <2>1, <2>2
<1>2. ASSUME NEW q \in Procs, NEW g \in 1..Len(content), Writes(q, g)'
      PROVE  q # p /\ g # f /\ Writes(q, g)
  <2>1. q # p
    BY <1>d, <1>2 DEF Writes, Holding
  <2>2. Writes(q, g)
    BY <1>a, <1>2, <2>1 DEF Writes, OthersStay
  <2> QED BY <1>b, <2>1, <2>2 DEF IInv, OneWriter
<1>3. OneWriter'
  BY <1>2, <1>c DEF OneWriter, IInv
<1>4. ASSUME ~blind, NEW q \in Procs \ ousted, Holder(q)' PROVE Holds(q)'
  <2>1. CASE q # p
    <3>1. Holder(q) /\ \A g : Writes(q, g)' <=> Writes(q, g)
      BY <1>a, <1>4, <2>1 DEF Holder, Writes, OthersStay
    <3>2. Holds(q) /\ file \in 1..Len(content)
      BY <1>4, <1>a, <3>1 DEF IInv, Held, Holds, TypeOK
    <3>3. content[f] = NoLock /\ ~Writes(q, f) /\ NoLock.pid # q
      BY <1>b, <2>1, PidLockAssumption DEF IInv, OneWriter, NoLock
    <3>4. file # f
      BY <3>2, <3>3 DEF Holds
    <3> QED BY <1>b, <1>c, <3>1, <3>2, <3>4 DEF Holds
  <2>2. CASE q = p
    <3>1. Holder(p)
      BY <1>b, <1>a DEF Writes, Holder, HandlesOf
    <3>2. Holds(p) /\ file \in 1..Len(content)
      BY <1>4, <1>a, <2>2, <3>1 DEF IInv, Held, Holds, TypeOK
    <3>3. Writes(p, file) => file = f
      BY <1>b, <1>a DEF Writes, HandlesOf, Holding
    <3>4. file = f \/ content[file].pid = p
      BY <3>2, <3>3 DEF Holds
    <3> QED BY <1>b, <1>c, <2>2, <3>2, <3>4 DEF Holds
  <2> QED BY <2>1, <2>2
<1> QED BY <1>1, <1>3, <1>4, <1>b DEF Handles, Held, damage

\* The running daemon empties its own lock file, to write it again.
LEMMA TruncateStep ==
  ASSUME IInv, NEW p \in Procs, Truncate(p)
  PROVE  Handles' /\ OneWriter' /\ Held'
<1> DEFINE f == update[p].fd
<1>a. /\ Len(content) \in Nat /\ HandlesOf(p) /\ f \in 1..Len(content) /\ stage[p] \in Holding
      /\ update[p].stage = "opened" /\ Lock(f) = content[f] /\ content[f] \in Locks
      /\ NoLock \in Locks /\ NoLock.pid \notin Procs
  <2>1. update[p].stage = "opened" /\ HandlesOf(p) /\ NoLock.pid \notin Procs
    BY PidLockAssumption DEF Truncate, IInv, Handles, NoLock
  <2>2. NoLock \in Locks
    BY DEF Locks
  <2>3. f \in 1..Len(content) /\ stage[p] \in Holding /\ Len(content) \in Nat
    BY <2>1, <2>2, FileTypes DEF HandlesOf, IInv
  <2>4. Lock(f) = content[f] /\ content[f] \in Locks
    BY <2>2, <2>3, FileTypes DEF Lock, IInv
  <2> QED BY <2>1, <2>2, <2>3, <2>4
<1>b. /\ OthersStay(p) /\ stage' = stage /\ seen' = seen /\ fd' = fd /\ beat' = beat
      /\ file' = file /\ UNCHANGED damage
  BY DEF Truncate, OthersStay, history, damage, IInv, TypeOK
<1> HIDE DEF f
<1>1. CASE Lock(f).pid = p
  <2>1. /\ update'[p] = [stage |-> "truncated", fd |-> f, lock |-> content[f]]
        /\ content' = [content EXCEPT ![f] = NoLock]
    BY <1>1, <1>a DEF Truncate, IInv, TypeOK, f
  <2>2. /\ Len(content') = Len(content) /\ content'[f] = NoLock
        /\ \A g \in 1..Len(content) : g # f => content'[g] = content[g]
    BY <2>1, <1>a, FileTypes DEF IInv
  <2>3. ASSUME NEW q \in Procs PROVE HandlesOf(q)'
    <3>1. CASE q = p
      <4>1. content[f] \in [pid : {p}, start : Nat]
        BY <1>1, <1>a DEF Locks
      <4> QED BY <4>1, <1>a, <1>b, <2>1, <2>2, <3>1 DEF HandlesOf
    <3>2. CASE q # p
      BY <1>b, <2>2, <3>2 DEF HandlesOf, OthersStay, IInv, Handles
    <3> QED BY <3>1, <3>2
  <2>4. \A q \in Procs : ~Writes(q, f)
    BY <1>1, <1>a DEF IInv, OneWriter
  <2>5. ASSUME NEW q \in Procs, NEW g \in 1..Len(content), Writes(q, g)'
        PROVE  IF q = p THEN g = f ELSE g # f /\ Writes(q, g)
    <3>1. CASE q = p
      BY <1>a, <1>b, <2>1, <2>5, <3>1 DEF Writes, Holding
    <3>2. CASE q # p
      BY <1>b, <2>4, <2>5, <3>2 DEF Writes, OthersStay
    <3> QED BY <3>1, <3>2
  <2>6. OneWriter'
    BY <2>2, <2>5 DEF OneWriter, IInv
  <2>7. ASSUME ~blind, NEW q \in Procs \ ousted, Holder(q)' PROVE Holds(q)'
    <3>1. Holder(q) /\ (q # p => \A g : Writes(q, g)' <=> Writes(q, g))
      BY <1>b, <2>7 DEF Holder, Writes, OthersStay
    <3>2. Holds(q) /\ file \in 1..Len(content)
      BY <1>a, <2>7, <3>1 DEF IInv, Held, Holds, TypeOK
    <3>3. CASE q # p
      <4>1. file # f
        BY <1>1, <1>a, <2>4, <3>2, <3>3 DEF Holds
      <4> QED BY <1>b, <2>2, <3>1, <3>2, <3>3, <4>1 DEF Holds
    <3>4. CASE q = p
      <4>1. update'[p].stage = "truncated" /\ update'[p].fd = f
        BY <2>1
      <4>2. file # f => content[file].pid = p
        BY <1>a, <3>2, <3>4 DEF Holds, Writes, Holding
      <4>3. CASE file = f
        BY <1>b, <3>2, <3>4, <4>1, <4>3 DEF Holds, Writes
      <4>4. CASE file # f
        BY <1>b, <2>2, <3>2, <3>4, <4>2, <4>4 DEF Holds
      <4> QED BY <4>3, <4>4
    <3> QED BY <3>3, <3>4
  <2> QED BY <1>b, <2>3, <2>6, <2>7 DEF Handles, Held, damage
<1>2. CASE Lock(f).pid # p
  <2>1. content' = content /\ update'[p].stage = "done"
    BY <1>2 DEF Truncate, Done, NoUpdate, IInv, TypeOK, f
  <2>2. HandlesOf(p)'
    BY <1>a, <1>b, <2>1 DEF HandlesOf
  <2>3. \A g \in 1..Len(content) : Writes(p, g)' => Writes(p, g)
    BY <1>b, <2>1 DEF Writes
  <2>4. ~blind /\ p \notin ousted => (Holder(p)' => Holds(p)')
    BY <1>a, <1>b, <2>1 DEF IInv, Held, Holder, Holds, Writes, Holding
  <2> QED BY <1>b, <2>1, <2>2, <2>3, <2>4, LocalStep
<1> QED BY <1>1, <1>2

\* An unlink that is not blind leaves nobody who holds the lock, but for the
\* daemon it was taken from.
LEMMA UnlinkSteps ==
  ASSUME IInv, NEW p \in Procs, Takeover(p) \/ Unlink(p) \/ ReleaseUnlink(p)
  PROVE  Handles' /\ OneWriter' /\ Held'
<1>a. /\ OthersStay(p) /\ content' = content /\ stage'[p] \in {"off", "open"}
      /\ beat'[p] \in {0, beat[p]} /\ update'[p].stage \notin {"opened", "truncated"}
  <2>1. CASE Takeover(p) \/ Unlink(p)
    BY <2>1, OwnSteps DEF Takeover, Unlink, IInv, Handles, HandlesOf, Holding
  <2>2. CASE ReleaseUnlink(p)
    BY <2>2, OwnSteps DEF ReleaseUnlink, Exit, NoUpdate, IInv
  <2> QED BY <2>1, <2>2
<1>b. NoLock.pid = Nobody /\ Nobody \notin Procs /\ Len(content) \in Nat
  BY PidLockAssumption, FileTypes DEF NoLock, IInv, Locks
<1>1. HandlesOf(p)'
  BY <1>a, <1>b DEF HandlesOf, Holding, IInv, Handles
<1>2. ASSUME NEW q \in Procs, q # p PROVE HandlesOf(q)'
  BY <1>a, <1>2 DEF HandlesOf, OthersStay, IInv, Handles
<1>3. ASSUME NEW q \in Procs, NEW f \in 1..Len(content), Writes(q, f)'
      PROVE  Writes(q, f)
  BY <1>a, <1>3 DEF Writes, OthersStay
<1>4. OneWriter'
  BY <1>3, <1>a DEF OneWriter, IInv
<1>5. ASSUME ~blind', NEW q \in Procs, q \notin ousted' PROVE ~Holder(q)'
  <2>1. ~Holder(p)' /\ ~blind /\ q \notin ousted
    BY <1>a, <1>5 DEF Holder, Holding, Takeover, Unlink, ReleaseUnlink
  <2>2. CASE q # p /\ Holder(q)
    <3>1. Holds(q) /\ file \in 1..Len(content)
      BY <2>1, <2>2, <1>b DEF IInv, Held, Holds, TypeOK
    <3>2. CASE Takeover(p) \/ Unlink(p)
      <4>1. Lock(file) = seen[p] /\ seen[p] # NoLock
        BY <1>5, <3>2 DEF Takeover, Unlink, IInv, Handles, HandlesOf
      <4>2. content[file].pid = q
        BY <3>1, <4>1 DEF Holds, Lock, IInv, OneWriter
      <4>3. seen[p].pid = q
        BY <3>1, <4>1, <4>2 DEF Lock
      <4> QED BY <1>5, <2>2, <3>2, <4>3 DEF Takeover, Unlink
    <3>3. CASE ReleaseUnlink(p)
      BY <1>5, <2>2, <3>1, <3>3 DEF ReleaseUnlink
    <3> QED BY <3>2, <3>3
  <2>3. CASE q # p /\ ~Holder(q)
    BY <1>a, <2>3 DEF Holder, OthersStay
  <2> QED BY <2>1, <2>2, <2>3
<1> QED BY <1>1, <1>2, <1>4, <1>5 DEF Handles, Held

LEMMA InvInit == Init => IInv
<1> SUFFICES ASSUME Init PROVE IInv
  OBVIOUS
<1>1. \A p \in Procs : /\ stage[p] = "off" /\ beat[p] = 0 /\ update[p].stage = "none"
  BY DEF Init, NoUpdate
<1>2. Len(content) = 0
  BY DEF Init
<1>3. Handles
  BY <1>1, <1>2 DEF Handles, HandlesOf
<1>4. OneWriter /\ Held
  BY <1>1 DEF OneWriter, Held, Writes, Holder, Holding
<1> QED BY <1>3, <1>4, TypeInit DEF IInv

LEMMA InvStep == IInv /\ [Next]_vars => IInv'
<1> SUFFICES ASSUME IInv, [Next]_vars PROVE Handles' /\ OneWriter' /\ Held'
  BY TypeStep DEF IInv
<1>1. CASE UNCHANGED vars
  BY <1>1 DEF IInv, vars, Handles, HandlesOf, OneWriter, Held, Holder, Holds, Writes
<1>2. CASE Age \/ \E w \in orphans : OrphanExits(w)
  BY <1>2 DEF IInv, Age, OrphanExits, fileVars, daemonVars, history, Handles, HandlesOf, OneWriter, Held, Holder,
              Holds, Writes
<1>3. ASSUME NEW p \in Procs,
             \/ Start(p) \/ Acquire(p) \/ Poll(p) \/ GiveUp(p)
             \/ Beat(p) \/ Update(p) \/ Stop(p) \/ Release(p) \/ Crash(p)
      PROVE  Handles' /\ OneWriter' /\ Held'
  BY <1>3, QuietSteps, OpenStep, WriteSteps, TruncateStep, UnlinkSteps
     DEF Acquire, Beat, Update, Release
<1> QED BY <1>1, <1>2, <1>3 DEF Next

(* Every variable keeps its type, and the handles, the writers and the     *)
(* holders of the lock stay as the invariant says.                         *)
THEOREM LockInvariant == Spec => []IInv
<1> QED BY InvInit, InvStep, PTL DEF Spec

(* acquirePidLock, updatePidLock and releasePidLock together: two supervised *)
(* daemons run on one home directory only after an unlink by path removed a   *)
(* lock other than the one it was meant for, or one a new process under the   *)
(* same id had adopted; or beside a daemon whose lock was taken over.         *)
THEOREM OneDaemonHolds == Spec => []OneDaemonUnlessBlind
<1>1. IInv => OneDaemonUnlessBlind
  BY HolderAlone DEF OneDaemonUnlessBlind, Serving, Holder, Holding
<1> QED BY <1>1, LockInvariant, PTL
=============================================================================
