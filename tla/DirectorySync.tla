---------------------------- MODULE DirectorySync ----------------------------
(***************************************************************************)
(* The agent directory from the daemon to the app.                         *)
(*                                                                         *)
(*   daemon    the agents there are, and the numbered collection every     *)
(*             session publishes to (server/directory-sync/index.ts);      *)
(*   session   one per client, kept while its client is away: the          *)
(*             agent_update subscription with its bootstrap buffer, one    *)
(*             queue of captured changes per agent                         *)
(*             (agent-updates-service.ts), the fetch_agents handlers       *)
(*             (session.ts);                                               *)
(*   wire      ordered messages to the client, lost with the connection;   *)
(*   app       the rows it shows, its cursor, the refresh in progress with *)
(*             the changes recorded under it, and the rows and the cursor  *)
(*             it keeps on disk (app/src/runtime/directory-sync).          *)
(*                                                                         *)
(* An agent's payload is its version: updatedAt, growing with every change.*)
(* Version 0 is an agent that is not there.                                *)
(***************************************************************************)
EXTENDS Naturals, FiniteSets, Sequences

CONSTANTS Agents, Clients, NoClient, MaxTombstones,
          Modes              \* how an app may be opened: "full", "route"

CONSTANTS MaxVersion,        \* versions of one agent
          MaxRefreshes,      \* refreshes one client asks for by hand
          MaxRestarts,       \* daemon processes beyond the first
          MaxDrops,          \* lost connections and quits of one client
          MaxTimeouts        \* requests whose answer the client gives up on

Versions == 1..MaxVersion
Seqs == INSTANCE SequencesExt

INSTANCE VersionedCollection WITH Ids <- Agents, Values <- Versions, None <- 0

NoRows   == [a \in Agents |-> 0]
NoCursor == [generation |-> 0, after |-> 0]
NoUpdate == [version |-> 0, generation |-> 0, after |-> 0, agent |-> NoClient]
NoDemand == [id |-> 0, satisfied |-> FALSE]
NoTxn    == [stage |-> "none", id |-> 0, deltas |-> <<>>]

VARIABLES
  dir,          \* the version of every agent
  closing,      \* the client whose delete_agent request has closed the agent
  generation, coll,
  sub,          \* per client: the subscription, [stage, id]
  pending,      \* its bootstrap buffer: per agent the last update
  tails,        \* per client and agent: captured versions waiting to be emitted
  requests,     \* per client: fetch_agents handlers that have listed
  wire,         \* per client: messages on their way
  online, mode, rows, cursor, txn,
  demand,       \* [id, satisfied]: the demand's refresh in flight, and whether
                \* one has committed on this connection
  loaded,       \* the cached directory has been accepted
  revised,      \* something was received since the cache read began
  disk,         \* [rows, cursor]
  count,        \* per client: [requests, refreshes, drops, timeouts]
  quiet,        \* history: "asked", "yes" when a refresh was asked for, and has
                \* committed, with nothing changing since
  spoiled       \* history: a request timed out, or the cursor moved before the
                \* cached directory was accepted

daemonVars  == <<dir, closing, generation, coll>>
sessionVars == <<sub, pending, tails, requests>>
appVars     == <<online, mode, rows, cursor, txn, demand, loaded, revised, disk>>
history     == <<count, quiet, spoiled>>
vars        == <<daemonVars, sessionVars, wire, appVars, history>>

Init ==
  /\ dir = NoRows
  /\ closing = [a \in Agents |-> NoClient]
  /\ generation = 1
  /\ coll = EmptyCollection
  /\ sub = [c \in Clients |-> [stage |-> "none", id |-> 0]]
  /\ pending = [c \in Clients |-> [a \in Agents |-> NoUpdate]]
  /\ tails = [c \in Clients |-> [a \in Agents |-> <<>>]]
  /\ requests = [c \in Clients |-> {}]
  /\ wire = [c \in Clients |-> <<>>]
  /\ online = [c \in Clients |-> FALSE]
  /\ mode = [c \in Clients |-> "none"]
  /\ rows = [c \in Clients |-> NoRows]
  /\ cursor = [c \in Clients |-> NoCursor]
  /\ txn = [c \in Clients |-> NoTxn]
  /\ demand = [c \in Clients |-> NoDemand]
  /\ loaded = [c \in Clients |-> FALSE]
  /\ revised = [c \in Clients |-> FALSE]
  /\ disk = [c \in Clients |-> [rows |-> NoRows, cursor |-> NoCursor]]
  /\ count = [c \in Clients |-> [requests |-> 0, refreshes |-> 0, drops |-> 0, timeouts |-> 0]]
  /\ quiet = [c \in Clients |-> "no"]
  /\ spoiled = [c \in Clients |-> FALSE]

-----------------------------------------------------------------------------
(* The daemon's agents.  An event of an agent captures its payload for     *)
(* every session that has a subscription (forwardLiveAgent).               *)

Noticed == /\ quiet' = [c \in Clients |-> "no"]
           /\ UNCHANGED <<generation, coll, sub, pending, requests, wire, appVars, count, spoiled>>

Forwarded(a, version) ==
  [c \in Clients |-> IF sub[c].stage = "none" THEN tails[c]
                     ELSE [tails[c] EXCEPT ![a] = Append(@, version)]]

(* An agent is created, or anything about it changes.                      *)
Change(a) ==
  /\ closing[a] = NoClient /\ dir[a] < MaxVersion
  /\ dir' = [dir EXCEPT ![a] = @ + 1]
  /\ tails' = Forwarded(a, dir[a] + 1)
  /\ UNCHANGED closing
  /\ Noticed

(* deleteAgentRecord: closing the agent is its last event ...              *)
CloseForDelete(c, a) ==
  /\ online[c] /\ closing[a] = NoClient
  /\ dir[a] \in 1..(MaxVersion - 1)
  /\ closing' = [closing EXCEPT ![a] = c]
  /\ dir' = [dir EXCEPT ![a] = @ + 1]
  /\ tails' = Forwarded(a, dir[a] + 1)
  /\ Noticed

(* ... and once its record is gone only the session that was asked to      *)
(* delete it queues a removal.                                             *)
RemoveRecord(a) ==
  /\ closing[a] # NoClient /\ dir[a] # 0
  /\ dir' = [dir EXCEPT ![a] = 0]
  /\ tails' = [tails EXCEPT ![closing[a]][a] = Append(@, 0)]
  /\ UNCHANGED closing
  /\ Noticed

-----------------------------------------------------------------------------
(* The session.                                                            *)

Sent(c, messages) == wire' = [wire EXCEPT ![c] = IF online[c] THEN @ \o messages ELSE @]

Update(u)  == [type |-> "update", update |-> u]
Deleted(a) == [type |-> "deleted", agent |-> a]

(* emitLiveAgentUpdate and removeAgent: the captured change is numbered    *)
(* when it is emitted, and buffered while the snapshot is being built.     *)
EmitChange(c, a) ==
  /\ tails[c][a] # <<>>
  /\ tails' = [tails EXCEPT ![c][a] = Tail(@)]
  /\ LET version == Head(tails[c][a])
         told    == IF version = 0 THEN <<Deleted(a)>> ELSE <<>>
         update  == [agent |-> a, version |-> version, after |-> coll'.seqs[a],
                     generation |-> IF coll'.seqs[a] = 0 THEN 0 ELSE generation]
     IN  \/ /\ sub[c].stage = "none"
            /\ Sent(c, told)
            /\ UNCHANGED <<coll, pending>>
         \/ /\ sub[c].stage # "none"
            /\ coll' \in IF version = 0 THEN Remove(coll, a) ELSE Replace(coll, a, version)
            /\ IF sub[c].stage = "bootstrapping"
               THEN /\ pending' = [pending EXCEPT ![c][a] = update]
                    /\ Sent(c, told)
               ELSE /\ Sent(c, <<Update(update)>> \o told)
                    /\ UNCHANGED pending
  /\ UNCHANGED <<dir, closing, generation, sub, requests, appVars, history>>

(* handleFetchAgents up to its first await: if it subscribes, the          *)
(* subscription begins anew; the agents are listed.  Requests are taken in *)
(* the order they came.                                                    *)
Handle(c, r) ==
  /\ r \in requests[c] /\ ~r.listed /\ online[c]
  /\ \A earlier \in requests[c] : earlier.id < r.id => earlier.listed
  /\ IF r.subscribe
     THEN /\ sub' = [sub EXCEPT ![c] = [stage |-> "bootstrapping", id |-> r.id]]
          /\ pending' = [pending EXCEPT ![c] = [a \in Agents |-> NoUpdate]]
     ELSE UNCHANGED <<sub, pending>>
  /\ requests' = [requests EXCEPT ![c] =
                    (@ \ {r}) \cup {[r EXCEPT !.listed = TRUE, !.listing = dir]}]
  /\ UNCHANGED <<daemonVars, tails, wire, appVars, history>>

(* Mutant: going live clears the buffer without replaying it.              *)
FlushesNothing(c, answer) == <<>>

(* flushBootstrapped: an upsert older than the answered one is dropped.    *)
Flushed(c, answer) ==
  LET current == {a \in Agents :
                    /\ pending[c][a] # NoUpdate
                    /\ \/ pending[c][a].version = 0
                       \/ a \notin answer.changed
                       \/ pending[c][a].version >= answer.values[a]}
  IN  Seqs!SetToSeq({Update(pending[c][a]) : a \in current})

(* The rest of it, in one step: publish the listing, read after the        *)
(* client's cursor, answer, and replay the buffered updates.               *)
Respond(c, r) ==
  /\ r \in requests[c] /\ r.listed
  /\ requests' = [requests EXCEPT ![c] = @ \ {r}]
  /\ coll' \in ReplaceAll(coll, r.listing)
  /\ LET answer == Read(coll', generation, r.cursor)
         reply  == <<[type |-> "answer", id |-> r.id, answer |-> answer,
                      generation |-> generation]>>
     IN  IF sub[c] = [stage |-> "bootstrapping", id |-> r.id]
         THEN /\ sub' = [sub EXCEPT ![c].stage = "live"]
              /\ pending' = [pending EXCEPT ![c] = [a \in Agents |-> NoUpdate]]
              /\ Sent(c, reply \o Flushed(c, answer))
         ELSE /\ Sent(c, reply)
              /\ UNCHANGED <<sub, pending>>
  /\ UNCHANGED <<dir, closing, generation, tails, appVars, history>>

(* A session whose client stays away is disposed of.                       *)
Expire(c) ==
  /\ ~online[c] /\ sub[c].stage # "none"
  /\ sub' = [sub EXCEPT ![c] = [stage |-> "none", id |-> 0]]
  /\ pending' = [pending EXCEPT ![c] = [a \in Agents |-> NoUpdate]]
  /\ tails' = [tails EXCEPT ![c] = [a \in Agents |-> <<>>]]
  /\ UNCHANGED <<daemonVars, requests, wire, appVars, history>>

(* A new daemon process: everybody is disconnected, the records stay.      *)
DaemonRestart ==
  /\ \A c \in Clients : ~online[c]
  /\ generation =< MaxRestarts
  /\ generation' = generation + 1
  /\ coll' = EmptyCollection
  /\ closing' = [a \in Agents |-> IF dir[a] = 0 THEN closing[a] ELSE NoClient]
  /\ sub' = [c \in Clients |-> [stage |-> "none", id |-> 0]]
  /\ pending' = [c \in Clients |-> [a \in Agents |-> NoUpdate]]
  /\ tails' = [c \in Clients |-> [a \in Agents |-> <<>>]]
  /\ requests' = [c \in Clients |-> {}]
  /\ UNCHANGED <<dir, wire, appVars, history>>

-----------------------------------------------------------------------------
(* The app.                                                                *)

(* Mutant: a row takes whatever update comes last.                         *)
AcceptAny(held, u) == [held EXCEPT ![u.agent] = u.version]

(* acceptAgentDirectoryUpdate: an upsert older than the row is refused.    *)
Accept(held, u) ==
  [held EXCEPT ![u.agent] = IF u.version = 0 \/ u.version >= @ THEN u.version ELSE @]

(* noteLiveCursor, writeCursor: forward only within a generation.          *)
Forward(held, new) ==
  IF \/ new.generation = 0
     \/ (new.generation = held.generation /\ new.after =< held.after)
  THEN held
  ELSE [generation |-> new.generation, after |-> new.after]

Replayed(held, deltas) == Seqs!FoldLeft(Accept, held, deltas)

(* Mutant: the rows of a snapshot are not written, its cursor is.          *)
PersistedByDelta(c, touched) ==
  [rows   |-> [a \in Agents |-> IF a \in touched THEN rows'[c][a] ELSE disk[c].rows[a]],
   cursor |-> cursor'[c]]

(* An accepted change writes the rows it touches, then the cursor.         *)
Persisted(c, touched) ==
  [rows   |-> [a \in Agents |-> IF a \in touched \/ rows[c][a] # 0 \/ rows'[c][a] # 0
                               THEN rows'[c][a] ELSE disk[c].rows[a]],
   cursor |-> cursor'[c]]

QuietNow(c) == /\ \A a \in Agents : tails[c][a] = <<>> /\ (dir[a] # 0 => closing[a] = NoClient)
               /\ wire[c] = <<>>

(* refreshAgentsInternal sends the request with the cursor.  It supersedes *)
(* the refresh in progress and inherits the changes recorded under it.     *)
Ask(c, from, subscribe, byHand) ==
  LET id == count[c].requests + 1
  IN  /\ txn' = [txn EXCEPT ![c] = [stage |-> "asked", id |-> id, deltas |-> @.deltas]]
      /\ requests' = [requests EXCEPT ![c] =
                        @ \cup {[id |-> id, cursor |-> from, subscribe |-> subscribe,
                                listed |-> FALSE, listing |-> NoRows]}]
      /\ count' = [count EXCEPT ![c].requests = id, ![c].refreshes = @ + byHand]
      /\ quiet' = [quiet EXCEPT ![c] = IF QuietNow(c) THEN "asked" ELSE "no"]

(* requestDemandRefresh.  With the cached directory still to be read only  *)
(* the recording begins.                                                   *)
BeginRefresh(c, full) ==
  /\ demand' = [demand EXCEPT ![c].id = count[c].requests + 1]
  /\ IF full /\ ~loaded[c]
     THEN /\ txn' = [txn EXCEPT ![c].stage = "loading"]
          /\ UNCHANGED <<requests, count, quiet>>
     ELSE Ask(c, cursor[c], TRUE, 0)

(* A surface demands the directory: for a route, or the whole of it, which *)
(* starts the cache read.  It is refreshed unless a refresh for a demand   *)
(* is in flight or has committed on this connection.                       *)
Open(c, m) ==
  /\ mode[c] = "none" \/ <<mode[c], m>> = <<"route", "full">>
  /\ mode' = [mode EXCEPT ![c] = m]
  /\ revised' = [revised EXCEPT ![c] = FALSE]
  /\ IF online[c] /\ demand[c] = NoDemand
     THEN BeginRefresh(c, m = "full")
     ELSE UNCHANGED <<txn, demand, requests, count, quiet>>
  /\ UNCHANGED <<daemonVars, sub, pending, tails, wire, online, rows, cursor, loaded, disk,
                 spoiled>>

(* The cache read returns: its rows go under the rows already there, its   *)
(* cursor is taken only if nothing was received meanwhile.                 *)
LoadCache(c) ==
  /\ mode[c] = "full" /\ ~loaded[c]
  /\ loaded' = [loaded EXCEPT ![c] = TRUE]
  /\ rows' = [rows EXCEPT ![c] = [a \in Agents |-> IF @[a] # 0 THEN @[a] ELSE disk[c].rows[a]]]
  /\ cursor' = [cursor EXCEPT ![c] = IF revised[c] THEN @ ELSE disk[c].cursor]
  /\ IF txn[c].stage = "loading"
     THEN Ask(c, cursor'[c], TRUE, 0)
     ELSE UNCHANGED <<txn, requests, count, quiet>>
  /\ UNCHANGED <<daemonVars, sub, pending, tails, wire, online, mode, demand, revised, disk,
                 spoiled>>

(* Any other refresh: the demand's own by force, or one that does not      *)
(* subscribe (refreshAgentDirectory).                                      *)
Refresh(c, forced) ==
  /\ online[c] /\ loaded[c]
  /\ count[c].refreshes < MaxRefreshes
  /\ forced => demand[c].id = 0
  /\ demand' = [demand EXCEPT ![c].id = IF forced THEN count[c].requests + 1 ELSE @]
  /\ Ask(c, cursor[c], forced, 1)
  /\ UNCHANGED <<daemonVars, sub, pending, tails, wire, online, mode, rows, cursor,
                 loaded, revised, disk, spoiled>>

Connect(c) ==
  /\ ~online[c]
  /\ online' = [online EXCEPT ![c] = TRUE]
  /\ IF mode[c] = "none" THEN UNCHANGED <<txn, demand, requests, count, quiet>>
                         ELSE BeginRefresh(c, mode[c] = "full")
  /\ UNCHANGED <<daemonVars, sub, pending, tails, wire, mode, rows, cursor, loaded,
                 revised, disk, spoiled>>

(* connectionChanged: the changes recorded under the refresh in progress   *)
(* are applied, without moving the cursor; what was under way is lost.     *)
Abandoned(c) ==
  /\ txn' = [txn EXCEPT ![c] = NoTxn]
  /\ rows' = [rows EXCEPT ![c] = Replayed(@, txn[c].deltas)]
  /\ cursor' = cursor
  /\ disk' = [disk EXCEPT ![c].rows =
                Persisted(c, {txn[c].deltas[i].agent : i \in DOMAIN txn[c].deltas}).rows]

Disconnect(c) ==
  /\ online[c] /\ count[c].drops < MaxDrops
  /\ online' = [online EXCEPT ![c] = FALSE]
  /\ count' = [count EXCEPT ![c].drops = @ + 1]
  /\ Abandoned(c)
  /\ wire' = [wire EXCEPT ![c] = <<>>]
  /\ requests' = [requests EXCEPT ![c] = {r \in @ : r.listed}]
  /\ demand' = [demand EXCEPT ![c] = NoDemand]
  /\ quiet' = [quiet EXCEPT ![c] = IF @ = "yes" THEN @ ELSE "no"]
  /\ UNCHANGED <<daemonVars, sub, pending, tails, mode, loaded, revised, spoiled>>

(* The request times out: the refresh fails, its answer will be ignored.   *)
TimeOut(c) ==
  /\ online[c] /\ txn[c].stage = "asked" /\ count[c].timeouts < MaxTimeouts
  /\ count' = [count EXCEPT ![c].timeouts = @ + 1]
  /\ Abandoned(c)
  /\ demand' = [demand EXCEPT ![c].id = IF @ = txn[c].id THEN 0 ELSE @]
  /\ spoiled' = [spoiled EXCEPT ![c] = TRUE]
  /\ quiet' = [quiet EXCEPT ![c] = "no"]
  /\ UNCHANGED <<daemonVars, sub, pending, tails, requests, wire, online, mode, loaded, revised>>

(* The app's process ends: only what it wrote to disk is left.             *)
Quit(c) ==
  /\ mode[c] # "none" /\ count[c].drops < MaxDrops
  /\ count' = [count EXCEPT ![c].drops = @ + 1]
  /\ online' = [online EXCEPT ![c] = FALSE]
  /\ mode' = [mode EXCEPT ![c] = "none"]
  /\ rows' = [rows EXCEPT ![c] = NoRows]
  /\ cursor' = [cursor EXCEPT ![c] = NoCursor]
  /\ txn' = [txn EXCEPT ![c] = NoTxn]
  /\ demand' = [demand EXCEPT ![c] = NoDemand]
  /\ loaded' = [loaded EXCEPT ![c] = FALSE]
  /\ wire' = [wire EXCEPT ![c] = <<>>]
  /\ requests' = [requests EXCEPT ![c] = {r \in @ : r.listed}]
  /\ quiet' = [quiet EXCEPT ![c] = "no"]
  /\ UNCHANGED <<daemonVars, sub, pending, tails, revised, disk, spoiled>>

(* agent_update: recorded under a refresh, otherwise applied.              *)
ReceiveUpdate(c, u) ==
  IF txn[c].stage # "none"
  THEN /\ txn' = [txn EXCEPT ![c].deltas = Append(@, u)]
       /\ UNCHANGED <<rows, cursor, disk, demand, quiet>>
  ELSE /\ rows' = [rows EXCEPT ![c] = Accept(@, u)]
       /\ cursor' = [cursor EXCEPT ![c] = Forward(@, u)]
       /\ disk' = [disk EXCEPT ![c] = Persisted(c, {u.agent})]
       /\ UNCHANGED <<txn, demand, quiet>>

(* The answer to the refresh in progress commits it: the recorded changes  *)
(* go over the answered rows, their numbers over the answered one.  Any    *)
(* other answer is superseded.                                             *)
ReceiveAnswer(c, m) ==
  /\ demand' = [demand EXCEPT ![c] =
       IF @.id # m.id THEN @
       ELSE [id |-> 0, satisfied |-> @.satisfied \/ txn[c].id = m.id]]
  /\ IF txn[c].stage = "asked" /\ txn[c].id = m.id
     THEN LET deltas == txn[c].deltas
          IN  /\ txn' = [txn EXCEPT ![c] = NoTxn]
              /\ rows' = [rows EXCEPT ![c] = Replayed(Merged(@, m.answer), deltas)]
              /\ cursor' = [cursor EXCEPT ![c] =
                   Seqs!FoldLeft(Forward,
                            Forward(@, [generation |-> m.generation, after |-> m.answer.head]),
                            deltas)]
              /\ disk' = [disk EXCEPT ![c] =
                   Persisted(c, (IF m.answer.mode = "changes" THEN m.answer.changed ELSE {})
                                  \cup {deltas[i].agent : i \in DOMAIN deltas})]
              /\ quiet' = [quiet EXCEPT ![c] = IF @ = "asked" THEN "yes" ELSE @]
     ELSE UNCHANGED <<rows, cursor, disk, txn, quiet>>

(* agent_deleted: the row goes at once, refresh or not.                    *)
ReceiveDeleted(c, a) ==
  /\ rows' = [rows EXCEPT ![c][a] = 0]
  /\ UNCHANGED <<cursor, txn, demand, quiet>>
  /\ disk' = [disk EXCEPT ![c] = Persisted(c, {a})]

Receive(c) ==
  /\ wire[c] # <<>>
  /\ wire' = [wire EXCEPT ![c] = Tail(@)]
  /\ LET m == Head(wire[c])
     IN  /\ \/ m.type = "update"  /\ ReceiveUpdate(c, m.update)
            \/ m.type = "answer"  /\ ReceiveAnswer(c, m)
            \/ m.type = "deleted" /\ ReceiveDeleted(c, m.agent)
         /\ revised' = [revised EXCEPT ![c] = m.type # "answer" \/ txn'[c] # txn[c] \/ @]
         /\ spoiled' = [spoiled EXCEPT ![c] =
              \/ @
              \/ /\ ~loaded[c] /\ cursor'[c] # cursor[c]
                 /\ m.type = "update" \/ disk[c].rows # NoRows]
  /\ UNCHANGED <<daemonVars, sessionVars, online, mode, loaded, count>>

-----------------------------------------------------------------------------
DaemonStep == \/ \E a \in Agents : Change(a) \/ RemoveRecord(a)
              \/ \E c \in Clients, a \in Agents : CloseForDelete(c, a)
              \/ DaemonRestart

SessionStep(c) == \/ \E a \in Agents : EmitChange(c, a)
                  \/ \E r \in requests[c] : Handle(c, r) \/ Respond(c, r)
                  \/ Expire(c)

AppStep(c) == \/ \E m \in Modes : Open(c, m)
              \/ \E forced \in BOOLEAN : Refresh(c, forced)
              \/ LoadCache(c) \/ Receive(c) \/ TimeOut(c)
              \/ Connect(c) \/ Disconnect(c) \/ Quit(c)

Next == DaemonStep \/ \E c \in Clients : SessionStep(c) \/ AppStep(c)

Spec == Init /\ [][Next]_vars

(* Work that has been queued is done: promises settle, the daemon's        *)
(* requests end, messages arrive, a cache read returns.                    *)
Fairness ==
  /\ \A a \in Agents : WF_vars(RemoveRecord(a))
  /\ \A c \in Clients :
       /\ \A a \in Agents : WF_vars(EmitChange(c, a))
       /\ WF_vars(\E r \in requests[c] : Handle(c, r))
       /\ WF_vars(\E r \in requests[c] : Respond(c, r))
       /\ WF_vars(LoadCache(c)) /\ WF_vars(Receive(c))

LiveSpec == Spec /\ Fairness

-----------------------------------------------------------------------------
(* A refresh that was asked for with nothing under way, and during which   *)
(* nothing changed, leaves the app with the present version of every agent *)
(* there is: a stale listing, an expired tombstone, a superseded refresh,  *)
(* a reconnect or a daemon restart makes it miss none.                     *)
RefreshIsCurrent ==
  \A c \in Clients : quiet[c] = "yes" /\ ~spoiled[c] =>
    \A a \in Agents : dir[a] # 0 => rows[c][a] = dir[a]

(* agent-updates-service.ts: a subscribed client is told of "every later   *)
(* agent lifecycle change (live forward, stored-record archive/detach,     *)
(* delete)".  Once everything captured has been emitted and received, a    *)
(* client that has been subscribed throughout shows no deleted agent.      *)
DeletesReachSubscribers ==
  \A c \in Clients, a \in Agents :
    /\ sub[c].stage = "live" /\ count[c].drops = 0 /\ QuietNow(c)
    /\ txn[c].stage = "none"
    => (dir[a] = 0 => rows[c][a] = 0)

(* docs/architecture.md: "Late cache reads cannot replace state already    *)
(* advanced by live or authoritative network data."  Once a refresh has    *)
(* left the rows exact, they stay exact while nothing changes.             *)
CacheStaysBelow ==
  [][\A c \in Clients :
       quiet[c] = "yes" /\ quiet'[c] = "yes" /\ rows[c] = dir => rows'[c] = dir]_vars

(* A row never shows an older version of its agent than it did, unless an  *)
(* answer says that the agent is gone: no late update, stale listing or    *)
(* cached row overwrites a newer one.                                      *)
SaysGone(m, a) == m.type = "answer" /\ a \in m.answer.changed /\ m.answer.values[a] = 0

NeverGoesBack ==
  [][\A c \in Clients, a \in Agents :
        \/ rows'[c][a] = 0
        \/ rows'[c][a] >= rows[c][a]
        \/ wire[c] # <<>> /\ SaysGone(Head(wire[c]), a)]_vars

(* An app that stays connected comes to show the present version of every  *)
(* agent and goes on showing it.                                           *)
BecomesCurrent ==
  \A c \in Clients :
    (<>[](online[c] /\ mode[c] # "none") /\ []~spoiled[c]) =>
      <>[](\A a \in Agents : dir[a] # 0 => rows[c][a] = dir[a])
=============================================================================
