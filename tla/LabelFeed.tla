----------------------------- MODULE LabelFeed -----------------------------
(***************************************************************************)
(* How an app's replica follows a daemon's label catalog: the journal of   *)
(* WorkspaceLabelSequence, the session's subscription, and the replica of  *)
(* one host in the app, over a connection that keeps the order of the      *)
(* messages and loses them when it breaks.                                 *)
(*                                                                         *)
(* A label commit and its publication are one step: both run in the        *)
(* service's exclusive section, as a subscription does, and a daemon that  *)
(* stops between the two starts a new generation. The records that a       *)
(* commit rewrites do not matter here: every workspace is on file, without *)
(* labels.                                                                 *)
(***************************************************************************)
EXTENDS LabelPlans, Naturals, Sequences

CONSTANTS
  JournalLimit,    \* the changes that the journal keeps
  MaxSeq,          \* bound on the changes and restarts of a behaviour: generation + headSeq
  MaxGeneration,   \* bound on the starts of the daemon
  MaxRequests      \* bound on the list requests under way

ASSUME BoundsAssumption ==
  /\ JournalLimit \in Nat /\ MaxSeq \in Nat /\ MaxGeneration \in Nat
  /\ MaxRequests \in Nat \ {0}

VARIABLES
  catalog,    \* the daemon's labels
  sequence,   \* WorkspaceLabelSequence: generation, headSeq, journal
  session,    \* the session's handlers that wait, the one that answers, its subscription
  link,       \* the app's connection: "down", "up", or "feed" once the labels listen
  requests,   \* list requests on their way to the daemon
  channel,    \* messages on their way to the app
  replica,    \* HostWorkspaceLabelReplica.labels
  cursor      \* HostWorkspaceLabelReplica.cursor

daemon == <<catalog, sequence, session>>
app == <<replica, cursor>>
network == <<link, requests, channel>>
vars == <<catalog, sequence, session, link, requests, channel, replica, cursor>>

NoLabels == [n \in Names |-> None]
OnFile == [w \in Workspaces |-> [labels |-> {}, archived |-> FALSE]]

\* A change of one label: its former name, its name, its colour (None once it
\* is removed).
Changes == [from : Names, name : Names, color : {None} \cup Colors]
Entries == [seq : Nat \ {0}, change : Changes]
Cursors == [generation : Nat, seq : Nat]

\* A list request; live while the app still waits for its answer.
ListRequests == [cursor : {None} \cup Cursors, live : BOOLEAN]
Syncs == [snapshot : BOOLEAN, head : Cursors, labels : Catalogs, removals : SUBSET Names]
Updates == [kind : {"update"}, head : Cursors, change : Changes]
ListAnswers == [kind : {"list"}, sync : Syncs, live : BOOLEAN]
Messages == Updates \cup ListAnswers

\* A handler that answers, with the updates it holds back.
Answering == [sync : Syncs, live : BOOLEAN, pending : Seq(Updates)]

ASSUME FeedNoneAssumption == None \notin Cursors /\ None \notin Answering

applyChange(held, change) ==
  [held EXCEPT ![change.from] = None, ![change.name] = change.color]

(***************************************************************************)
(* WorkspaceLabelSequence.                                                 *)
(***************************************************************************)
\* What a committed request publishes.
Published(q) ==
  [from |-> q.name,
   name |-> IF q.kind = "update" THEN q.newName ELSE q.name,
   color |-> CatalogAfter(q, catalog)[IF q.kind = "update" THEN q.newName ELSE q.name]]

headCursor == [generation |-> sequence.generation, seq |-> sequence.headSeq]

NoChange == [labels |-> NoLabels, removals |-> {}]

\* One entry of the gap is folded into the upserts and removals to be sent.
dropName(net, n) ==
  IF net.labels[n] # None THEN [net EXCEPT !.labels[n] = None]
                          ELSE [net EXCEPT !.removals = @ \cup {n}]

foldChange(net, entry) ==
  LET c == entry.change
      dropped == IF c.color = None \/ c.from # c.name THEN dropName(net, c.from) ELSE net
  IN  IF c.color = None THEN dropped
      ELSE [dropped EXCEPT !.labels[c.name] = c.color, !.removals = @ \ {c.name}]

\* The entries after a position are folded, in their order.
netChange(journal, after) ==
  LET net[i \in 0..Len(journal)] ==
        IF i = 0 THEN NoChange
        ELSE IF journal[i].seq > after THEN foldChange(net[i - 1], journal[i])
        ELSE net[i - 1]
  IN  net[Len(journal)]

oldestSeq == IF sequence.journal = <<>> THEN sequence.headSeq + 1
                                         ELSE sequence.journal[1].seq

\* Mutant: any cursor of this generation is caught up from the journal.
CatchesUpFromAny(from) ==
  from # None /\ from.generation = sequence.generation /\ from.seq <= sequence.headSeq

canCatchUp(from) ==
  /\ from # None
  /\ from.generation = sequence.generation
  /\ from.seq \in (oldestSeq - 1)..sequence.headSeq

synchronize(from) ==
  IF ~canCatchUp(from)
    THEN [snapshot |-> TRUE, head |-> headCursor, labels |-> catalog, removals |-> {}]
    ELSE LET gap == netChange(sequence.journal, from.seq)
         IN  [snapshot |-> FALSE, head |-> headCursor,
              labels |-> gap.labels, removals |-> gap.removals]

(***************************************************************************)
(* The session's subscription.                                             *)
(***************************************************************************)
NoSession == [waiting |-> <<>>, answering |-> None, subscribed |-> FALSE]

\* A session without a socket emits nothing.
emit(messages) == channel' = IF link = "down" THEN <<>> ELSE channel \o messages

\* The newest handler owns the subscription, whichever answers now.
Owned == session.waiting = <<>>

Init ==
  /\ catalog = NoLabels
  /\ sequence = [generation |-> 0, headSeq |-> 0, journal |-> <<>>]
  /\ session = NoSession
  /\ link = "down" /\ requests = <<>> /\ channel = <<>>
  /\ replica = NoLabels /\ cursor = None

\* Mutant: a change that comes while the answer is being prepared is sent at once.
DeliverAtOnce(update) ==
  /\ emit(IF Owned /\ (session.subscribed \/ session.answering # None) THEN <<update>> ELSE <<>>)
  /\ UNCHANGED session

\* onChange: the listener of a handler that still answers holds changes back.
onChange(update) ==
  IF Owned /\ session.answering # None
    THEN /\ session' = [session EXCEPT !.answering.pending = Append(@, update)]
         /\ UNCHANGED channel
    ELSE /\ emit(IF session.subscribed THEN <<update>> ELSE <<>>)
         /\ UNCHANGED session

appendToJournal(entry) ==
  LET journal == Append(sequence.journal, entry)
  IN  IF Len(journal) > JournalLimit THEN Tail(journal) ELSE journal

\* A committed request that changes the catalog is published.
publish(q) ==
  LET change == Published(q)
      seq == sequence.headSeq + 1
  IN
  /\ seq + sequence.generation <= MaxSeq
  /\ ~Refused(q, catalog, OnFile) /\ CatalogAfter(q, catalog) # catalog
  /\ catalog' = CatalogAfter(q, catalog)
  /\ sequence' = [sequence EXCEPT !.headSeq = seq,
                    !.journal = appendToJournal([seq |-> seq, change |-> change])]
  /\ onChange([kind |-> "update", change |-> change,
               head |-> [generation |-> sequence.generation, seq |-> seq]])
  /\ UNCHANGED <<link, requests, app>>

\* A list request ends the subscription and waits for the exclusive section.
Receive ==
  /\ requests # <<>>
  /\ session' = [session EXCEPT !.waiting = Append(@, requests[1]), !.subscribed = FALSE]
  /\ requests' = Tail(requests)
  /\ UNCHANGED <<catalog, sequence, link, channel, app>>

\* The service subscribes the listener and synchronizes the request's cursor.
subscribe ==
  /\ session.waiting # <<>> /\ session.answering = None
  /\ session' = [session EXCEPT
                   !.waiting = Tail(@),
                   !.answering = [sync |-> synchronize(session.waiting[1].cursor),
                                  live |-> session.waiting[1].live, pending |-> <<>>]]
  /\ UNCHANGED <<catalog, sequence, network, app>>

\* Mutant: the changes that were held back are sent before the answer.
PendingFirst ==
  /\ session.answering # None
  /\ LET answer == session.answering
         response == [kind |-> "list", sync |-> answer.sync, live |-> answer.live]
     IN  emit(IF Owned THEN Append(answer.pending, response) ELSE <<response>>)
  /\ session' = [session EXCEPT !.answering = None, !.subscribed = Owned]
  /\ UNCHANGED <<catalog, sequence, link, requests, app>>

\* The updates of a sequence that come after a position.
later(updates, after) ==
  LET kept[i \in 0..Len(updates)] ==
        IF i = 0 THEN <<>>
        ELSE IF updates[i].head.seq > after THEN Append(kept[i - 1], updates[i])
        ELSE kept[i - 1]
  IN  kept[Len(updates)]

\* The handler answers; the owner then sends what was held back and is live.
Respond ==
  /\ session.answering # None
  /\ LET answer == session.answering
         response == [kind |-> "list", sync |-> answer.sync, live |-> answer.live]
         late == later(answer.pending, answer.sync.head.seq)
     IN  emit(<<response>> \o IF Owned THEN late ELSE <<>>)
  /\ session' = [session EXCEPT !.answering = None, !.subscribed = Owned]
  /\ UNCHANGED <<catalog, sequence, link, requests, app>>

(***************************************************************************)
(* The app.                                                                *)
(***************************************************************************)
UnderWay == Len(requests) + Len(session.waiting) + (IF session.answering = None THEN 0 ELSE 1)
Answers == Len(SelectSeq(channel, LAMBDA m : m.kind = "list"))
Request == [cursor |-> cursor, live |-> TRUE]

\* The controller drops its connection: the answers to its requests are ignored.
ignored(messages) ==
  [i \in DOMAIN messages |->
     IF messages[i].kind = "list" THEN [messages[i] EXCEPT !.live = FALSE] ELSE messages[i]]
abandoned(queue) == [i \in DOMAIN queue |-> [queue[i] EXCEPT !.live = FALSE]]
Abandoned ==
  [session EXCEPT !.waiting = abandoned(@),
                  !.answering = IF @ = None THEN None ELSE [@ EXCEPT !.live = FALSE]]

disconnect ==
  /\ link = "feed"
  /\ link' = "up"
  /\ requests' = abandoned(requests) /\ channel' = ignored(channel) /\ session' = Abandoned
  /\ UNCHANGED <<catalog, sequence, app>>

\* Mutant: a replica that has a cursor waits for the next update.
ConnectQuietly ==
  /\ link = "up"
  /\ UnderWay + Answers < MaxRequests
  /\ link' = "feed"
  /\ requests' = IF cursor = None THEN Append(requests, Request) ELSE requests
  /\ UNCHANGED <<daemon, channel, app>>

\* The labels listen, and a refresh is requested.
connect ==
  /\ link = "up"
  /\ UnderWay + Answers < MaxRequests
  /\ link' = "feed"
  /\ requests' = Append(requests, Request)
  /\ UNCHANGED <<daemon, channel, app>>

\* A mutation of the app has failed, and a refresh is requested.
refresh ==
  /\ link = "feed"
  /\ UnderWay + Answers < MaxRequests
  /\ requests' = Append(requests, Request)
  /\ UNCHANGED <<daemon, link, channel, app>>

applyList(m) ==
  /\ m.kind = "list"
  /\ IF m.live
       THEN /\ replica' = [n \in Names |->
                 CASE m.sync.labels[n] # None -> m.sync.labels[n]
                   [] m.sync.labels[n] = None /\ (m.sync.snapshot \/ n \in m.sync.removals) -> None
                   [] OTHER -> replica[n]]
            /\ cursor' = m.sync.head
       ELSE UNCHANGED app
  /\ UNCHANGED requests

Follows(head) ==
  IF cursor = None THEN FALSE
  ELSE head = [generation |-> cursor.generation, seq |-> cursor.seq + 1]

\* An update that does not follow the cursor is left out, and a refresh requested.
applyUpdate(m) ==
  /\ m.kind = "update"
  /\ IF Follows(m.head)
       THEN /\ replica' = applyChange(replica, m.change) /\ cursor' = m.head
            /\ UNCHANGED requests
       ELSE /\ UnderWay < MaxRequests
            /\ requests' = Append(requests, Request)
            /\ UNCHANGED app

\* A message arrives; without a listener nothing is done with it.
Deliver ==
  /\ channel # <<>>
  /\ IF link = "feed"
       THEN applyList(channel[1]) \/ applyUpdate(channel[1])
       ELSE UNCHANGED <<requests, app>>
  /\ channel' = Tail(channel)
  /\ UNCHANGED <<daemon, link>>

(***************************************************************************)
(* The connection, the session's grace period and the daemon's restart.    *)
(***************************************************************************)
SocketCloses ==
  /\ link # "down"
  /\ link' = "down"
  /\ requests' = <<>> /\ channel' = <<>> /\ session' = Abandoned
  /\ UNCHANGED <<catalog, sequence, app>>

\* The socket is back, on the session of before or, if its grace period has
\* ended, on a new one.
SocketOpens ==
  /\ link = "down"
  /\ link' = "up"
  /\ session' \in {session, NoSession}
  /\ UNCHANGED <<catalog, sequence, requests, channel, app>>

DaemonRestarts ==
  /\ sequence.generation < MaxGeneration
  /\ sequence' = [generation |-> sequence.generation + 1, headSeq |-> 0, journal |-> <<>>]
  /\ session' = NoSession
  /\ link' = "down" /\ requests' = <<>> /\ channel' = <<>>
  /\ UNCHANGED <<catalog, app>>

Next ==
  \/ \E q \in Requests : publish(q)
  \/ Receive \/ subscribe \/ Respond
  \/ disconnect \/ connect \/ refresh \/ Deliver
  \/ SocketCloses \/ SocketOpens \/ DaemonRestarts

Spec == Init /\ [][Next]_vars

\* The daemon answers, an open connection delivers, and the app connects its
\* labels on one. Nothing makes a connection come back, or a change happen.
LiveSpec ==
  /\ Spec
  /\ WF_vars(Receive) /\ WF_vars(subscribe) /\ WF_vars(Respond)
  /\ WF_vars(Deliver) /\ WF_vars(connect)

(***************************************************************************)
(* Properties.                                                             *)
(***************************************************************************)
\* The variables have their types (the messages of both directions included).
TypeOK ==
  /\ catalog \in Catalogs /\ replica \in Catalogs
  /\ sequence \in [generation : Nat, headSeq : Nat, journal : Seq(Entries)]
  /\ session \in [waiting : Seq(ListRequests), answering : {None} \cup Answering,
                  subscribed : BOOLEAN]
  /\ link \in {"down", "up", "feed"}
  /\ requests \in Seq(ListRequests)
  /\ channel \in Seq(Messages)
  /\ cursor \in {None} \cup Cursors

UpToDate == cursor = headCursor

\* A replica whose cursor is the daemon's head has every label of the catalog,
\* with its colour: through any mix of snapshots, catch-ups answered late for
\* an older cursor, live updates and restarts, nothing it needs is left out.
NothingMissing ==
  UpToDate => \A n \in Names : catalog[n] # None => replica[n] = catalog[n]

\* A replica whose cursor is the daemon's head is the catalog.
ReplicaExact == UpToDate => replica = catalog

\* On the wire an update always follows the message before it without a gap:
\* the subscription that is replaced and the one that replaces it never both
\* send, and what is published meanwhile is in the answer or after it.
FeedContiguous ==
  \A i \in 1..(Len(channel) - 1) :
    channel[i + 1].kind = "update" =>
      LET before == IF channel[i].kind = "list" THEN channel[i].sync.head ELSE channel[i].head
      IN  channel[i + 1].head = [before EXCEPT !.seq = @ + 1]

\* A replica never falls back: within a generation its cursor only advances,
\* and it never returns to an older generation.
CursorAdvances ==
  [][(cursor # None /\ cursor' # cursor) =>
       \/ cursor'.generation > cursor.generation
       \/ cursor'.generation = cursor.generation /\ cursor'.seq > cursor.seq]_vars

\* A replica whose connection stays catches up with the catalog, again and
\* again: no gap is left without an answer under way.
StaysCurrent == <>[](link = "feed") => []<>UpToDate
=============================================================================
