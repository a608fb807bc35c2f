-------------------------- MODULE LabelFeedProofs --------------------------
(***************************************************************************)
(* What reaches a replica of the labels, for every catalog, journal limit  *)
(* and number of requests: the updates follow one another without a gap,   *)
(* the replica's cursor only advances, and a replica whose cursor is the   *)
(* daemon's head misses no label.                                          *)
(***************************************************************************)
EXTENDS LabelFeed, TLAPS, SequenceTheorems, WellFoundedInduction

(***************************************************************************)
(* Induction over the naturals, with the property as a set, and the loops  *)
(* of the code: a step that is a function has a run of every length.       *)
(***************************************************************************)
LEMMA Least ==
  ASSUME NEW T \in SUBSET Nat, T # {}
  PROVE  \E m \in T : \A k \in T : ~(k < m)
<1> DEFINE R == OpToRel(<, Nat)
<1>1. IsWellFoundedOn(R, Nat)
  BY NatLessThanWellFounded, Zenon
<1>2. \A i, j \in Nat : <<i, j>> \in R <=> i < j
  BY DEF OpToRel
<1> HIDE DEF R
<1>3. \E x \in T : \A y \in T : ~(<<y, x>> \in R)
  BY <1>1, WFMin
<1> QED BY <1>2, <1>3

LEMMA Induction ==
  ASSUME NEW S, 0 \in S, \A n \in Nat : n \in S => n + 1 \in S
  PROVE  Nat \subseteq S
<1> DEFINE T == Nat \ S
<1>1. SUFFICES ASSUME T # {} PROVE FALSE
  OBVIOUS
<1>2. PICK m \in T : \A k \in T : ~(k < m)
  <2>1. T \in SUBSET Nat
    OBVIOUS
  <2> HIDE DEF T
  <2> QED BY <1>1, <2>1, Least
<1>3. m - 1 \in Nat /\ m - 1 < m /\ (m - 1) + 1 = m
  OBVIOUS
<1>4. m - 1 \in S
  BY <1>2, <1>3
<1> QED BY <1>3, <1>4

\* The first n steps of F from b.
Runs(f, n, V, b, F) ==
  f \in [0..n -> V] /\ f[0] = b /\ \A i \in 1..n : f[i] = F[<<i, f[i - 1]>>]

LEMMA RunExists ==
  ASSUME NEW V, NEW b \in V, NEW N \in Nat, NEW F \in [(1..N) \X V -> V]
  PROVE  \E f : Runs(f, N, V, b, F)
<1> DEFINE S == {n \in Nat : n <= N => \E f : Runs(f, n, V, b, F)}
<1>1. 0 \in S
  <2> DEFINE f == [i \in 0..0 |-> b]
  <2>1. Runs(f, 0, V, b, F)
    BY DEF Runs
  <2> QED BY <2>1
<1>2. ASSUME NEW n \in Nat, n \in S PROVE n + 1 \in S
  <2>1. SUFFICES ASSUME n + 1 <= N PROVE \E f : Runs(f, n + 1, V, b, F)
    OBVIOUS
  <2>2. PICK f : Runs(f, n, V, b, F)
    BY <1>2, <2>1
  <2> DEFINE g == [i \in 0..(n + 1) |-> IF i = n + 1 THEN F[<<n + 1, f[n]>>] ELSE f[i]]
  <2>3. f[n] \in V /\ F[<<n + 1, f[n]>>] \in V
    BY <2>1, <2>2 DEF Runs
  <2>4. g \in [0..(n + 1) -> V] /\ g[0] = b
    BY <2>2, <2>3 DEF Runs
  <2>5. ASSUME NEW i \in 1..(n + 1) PROVE g[i] = F[<<i, g[i - 1]>>]
    <3>1. CASE i = n + 1
      BY <3>1
    <3>2. CASE i # n + 1
      BY <2>2, <3>2 DEF Runs
    <3> QED BY <3>1, <3>2
  <2> QED BY <2>4, <2>5 DEF Runs
<1> HIDE DEF S
<1>3. N \in S
  BY <1>1, <1>2, Induction
<1> QED BY <1>3 DEF S

\* later drops nothing from updates that all come after the position.
LEMMA LaterAll ==
  ASSUME NEW s \in Seq(Updates), NEW after \in Nat,
         \A i \in DOMAIN s : s[i].head.seq > after
  PROVE  later(s, after) = s
<1> DEFINE n == Len(s)
           G(f) == [i \in 0..n |-> IF i = 0 THEN <<>>
                                   ELSE IF s[i].head.seq > after THEN Append(f[i - 1], s[i])
                                   ELSE f[i - 1]]
           kept == CHOOSE f : f = G(f)
           prefix == [i \in 0..n |-> SubSeq(s, 1, i)]
<1>1. n \in Nat /\ DOMAIN s = 1..n
  OBVIOUS
<1>2. /\ \A i \in 0..n : SubSeq(s, 1, i) \in Seq(Updates)
      /\ SubSeq(s, 1, 0) = <<>> /\ SubSeq(s, 1, n) = s
      /\ \A i \in 1..n : SubSeq(s, 1, i) = Append(SubSeq(s, 1, i - 1), s[i])
  <2>1. \A i \in 0..n : SubSeq(s, 1, i) \in Seq(Updates) /\ Len(SubSeq(s, 1, i)) = i
    BY <1>1, SubSeqProperties
  <2>2. SubSeq(s, 1, 0) = <<>>
    BY <1>1, SubSeqEmpty
  <2>3. SubSeq(s, 1, n) = s
    BY SubSeqFull
  <2>4. \A i \in 1..n : SubSeq(s, 1, i) = Append(SubSeq(s, 1, i - 1), s[i])
    BY <1>1, SubSeqRecursiveSecond
  <2> QED BY <2>1, <2>2, <2>3, <2>4
<1> HIDE DEF n
<1>3. prefix = G(prefix)
  <2>1. \A i \in 1..n : i - 1 \in 0..n /\ prefix[i - 1] = SubSeq(s, 1, i - 1)
    BY <1>1
  <2>2. prefix[0] = G(prefix)[0]
    BY <1>1, <1>2
  <2>3. ASSUME NEW i \in 1..n PROVE prefix[i] = G(prefix)[i]
    <3>1. i \in 0..n /\ i # 0 /\ i \in DOMAIN s
      BY <1>1
    <3>2. prefix[i] = SubSeq(s, 1, i) /\ s[i].head.seq > after
      BY <3>1
    <3>3. prefix[i] = Append(prefix[i - 1], s[i])
      BY <1>2, <2>1, <3>2
    <3> HIDE DEF prefix
    <3> QED BY <3>1, <3>2, <3>3
  <2>4. \A i \in 0..n : i = 0 \/ i \in 1..n
    BY <1>1
  <2> QED BY <2>2, <2>3, <2>4
<1>4. kept = G(kept)
  BY <1>3, Zenon
<1>5. later(s, after) = kept[n]
  BY DEF later, n
<1> HIDE DEF kept, prefix
<1>6. kept[0] = <<>> /\ \A i \in 1..n : kept[i] = Append(kept[i - 1], s[i])
  <2> DEFINE g == G(kept)
  <2>1. g[0] = <<>>
    BY <1>1
  <2>2. ASSUME NEW i \in 1..n PROVE g[i] = Append(kept[i - 1], s[i])
    <3>1. i \in 0..n /\ i # 0 /\ s[i].head.seq > after
      BY <1>1
    <3> QED BY <3>1
  <2> QED BY <1>4, <2>1, <2>2
<1> DEFINE S == {i \in Nat : i <= n => kept[i] = SubSeq(s, 1, i)}
<1>7. 0 \in S
  BY <1>1, <1>2, <1>6
<1>8. ASSUME NEW i \in Nat, i \in S PROVE i + 1 \in S
  <2>1. SUFFICES ASSUME i + 1 <= n PROVE kept[i + 1] = SubSeq(s, 1, i + 1)
    OBVIOUS
  <2>2. i + 1 \in 1..n /\ kept[i] = SubSeq(s, 1, i) /\ (i + 1) - 1 = i
    BY <1>1, <1>8, <2>1
  <2> QED BY <1>2, <1>6, <2>2
<1> HIDE DEF S
<1>9. n \in S
  BY <1>1, <1>7, <1>8, Induction
<1> QED BY <1>1, <1>2, <1>5, <1>9 DEF S

Nets == [labels : Catalogs, removals : SUBSET Names]

LEMMA FoldType ==
  ASSUME NEW net \in Nets, NEW entry \in Entries
  PROVE  foldChange(net, entry) \in Nets
BY DEF Nets, Entries, Changes, foldChange, dropName, Catalogs

\* netChange is what its loop says.
LEMMA NetSteps ==
  ASSUME NEW journal \in Seq(Entries), NEW after \in Nat
  PROVE  \E net \in [0..Len(journal) -> Nets] :
           /\ netChange(journal, after) = net[Len(journal)]
           /\ net[0] = NoChange
           /\ \A i \in 1..Len(journal) :
                net[i] = IF journal[i].seq > after THEN foldChange(net[i - 1], journal[i])
                                                   ELSE net[i - 1]
<1> DEFINE n == Len(journal)
           G(f) == [i \in 0..n |-> IF i = 0 THEN NoChange
                                   ELSE IF journal[i].seq > after
                                     THEN foldChange(f[i - 1], journal[i])
                                   ELSE f[i - 1]]
           net == CHOOSE f : f = G(f)
           F == [x \in (1..n) \X Nets |->
                   IF journal[x[1]].seq > after THEN foldChange(x[2], journal[x[1]]) ELSE x[2]]
<1>1. n \in Nat /\ \A i \in 1..n : journal[i] \in Entries
  OBVIOUS
<1>2. NoChange \in Nets
  BY DEF NoChange, Nets, NoLabels, Catalogs
<1>3. F \in [(1..n) \X Nets -> Nets]
  BY <1>1, FoldType
<1>4. netChange(journal, after) = net[n]
  BY DEF netChange
<1> HIDE DEF n
<1>5. PICK f : Runs(f, n, Nets, NoChange, F)
  <2> HIDE DEF F
  <2> QED BY <1>1, <1>2, <1>3, RunExists
<1>6. f = G(f)
  <2>1. f \in [0..n -> Nets] /\ f[0] = NoChange
    BY <1>5 DEF Runs
  <2>2. ASSUME NEW i \in 1..n PROVE f[i] = G(f)[i]
    <3>1. i - 1 \in 0..n /\ <<i, f[i - 1]>> \in (1..n) \X Nets /\ f[i] = F[<<i, f[i - 1]>>]
      <4> HIDE DEF F
      <4> QED BY <1>1, <1>5, <2>1 DEF Runs
    <3>2. i \in 0..n /\ i # 0
      BY <1>1
    <3>3. F[<<i, f[i - 1]>>] = IF journal[i].seq > after
                                 THEN foldChange(f[i - 1], journal[i]) ELSE f[i - 1]
      BY <3>1, Zenon
    <3> HIDE DEF F
    <3> QED BY <3>1, <3>2, <3>3
  <2> DEFINE g == G(f)
  <2>3. g = [i \in 0..n |-> g[i]]
    OBVIOUS
  <2>4. g[0] = NoChange
    BY <1>1
  <2>5. f = [i \in 0..n |-> f[i]]
    BY <2>1
  <2> HIDE DEF G, g
  <2>6. \A i \in 0..n : f[i] = g[i]
    <3>1. \A i \in 1..n : f[i] = g[i]
      BY <2>2 DEF g
    <3>2. \A i \in 0..n : i = 0 \/ i \in 1..n
      BY <1>1
    <3> QED BY <2>1, <2>4, <3>1, <3>2
  <2>7. f = g
    BY <2>3, <2>5, <2>6
  <2> QED BY <2>7 DEF g
<1>7. net = G(net)
  BY <1>6, Zenon
<1> HIDE DEF net, F
<1>8. /\ DOMAIN net = 0..n /\ net[0] = NoChange
      /\ \A i \in 1..n : net[i] = IF journal[i].seq > after
                                    THEN foldChange(net[i - 1], journal[i]) ELSE net[i - 1]
  <2> DEFINE g == G(net)
  <2>1. /\ DOMAIN g = 0..n /\ g[0] = NoChange
        /\ \A i \in 1..n : g[i] = IF journal[i].seq > after
                                    THEN foldChange(net[i - 1], journal[i]) ELSE net[i - 1]
    BY <1>1
  <2> QED BY <1>7, <2>1
<1> DEFINE S == {i \in Nat : i <= n => net[i] \in Nets}
<1>9. 0 \in S
  BY <1>2, <1>8
<1>10. ASSUME NEW i \in Nat, i \in S PROVE i + 1 \in S
  <2>1. SUFFICES ASSUME i + 1 <= n PROVE net[i + 1] \in Nets
    OBVIOUS
  <2>2. i + 1 \in 1..n /\ net[i] \in Nets /\ (i + 1) - 1 = i /\ journal[i + 1] \in Entries
    BY <1>1, <1>10, <2>1
  <2> QED BY <1>8, <2>2, FoldType
<1> HIDE DEF S
<1>11. \A i \in 0..n : net[i] \in Nets
  <2>1. Nat \subseteq S
    BY <1>9, <1>10, Induction
  <2> QED BY <1>1, <2>1 DEF S
<1>12. net \in [0..n -> Nets]
  <2>1. net = [i \in 0..n |-> net[i]]
    <3> DEFINE g == G(net)
    <3>1. g = [i \in 0..n |-> g[i]]
      OBVIOUS
    <3> HIDE DEF g
    <3> QED BY <1>7, <3>1 DEF g
  <2> QED BY <1>8, <1>11, <2>1
<1> QED BY <1>4, <1>8, <1>12 DEF n

(***************************************************************************)
(* Types.                                                                  *)
(***************************************************************************)
LEMMA NetType ==
  ASSUME NEW journal \in Seq(Entries), NEW after \in Nat
  PROVE  netChange(journal, after) \in Nets
<1>1. PICK net \in [0..Len(journal) -> Nets] : netChange(journal, after) = net[Len(journal)]
  BY NetSteps, Zenon
<1>2. Len(journal) \in 0..Len(journal)
  OBVIOUS
<1> QED BY <1>1, <1>2

LEMMA SyncType ==
  ASSUME TypeOK, NEW from \in {None} \cup Cursors
  PROVE  synchronize(from) \in Syncs /\ synchronize(from).head = headCursor
<1>1. headCursor \in Cursors /\ catalog \in Catalogs
  BY DEF TypeOK, headCursor, Cursors
<1>2. CASE ~canCatchUp(from)
  BY <1>1, <1>2 DEF synchronize, Syncs
<1>3. CASE canCatchUp(from)
  <2>1. netChange(sequence.journal, from.seq) \in Nets
    BY <1>3, NetType DEF TypeOK, canCatchUp, Cursors
  <2> QED BY <1>1, <1>3, <2>1 DEF synchronize, Syncs, Nets
<1> QED BY <1>2, <1>3

LEMMA PublishedType ==
  ASSUME TypeOK, NEW q \in Requests, CatalogAfter(q, catalog) # catalog
  PROVE  /\ CatalogAfter(q, catalog) \in Catalogs /\ Published(q) \in Changes
         /\ CatalogAfter(q, catalog) = applyChange(catalog, Published(q))
<1> DEFINE c == CatalogAfter(q, catalog)
<1>0. catalog \in [Names -> {None} \cup Colors]
  BY DEF TypeOK, Catalogs
<1>1. CASE q.kind = "set" /\ q.assigned /\ catalog[q.name] = None
  <2>1. q.name \in Names /\ q.color \in Colors /\ c = [catalog EXCEPT ![q.name] = q.color]
    BY <1>1 DEF Requests, CatalogAfter
  <2> QED BY <1>0, <1>1, <2>1 DEF Catalogs, Published, Changes, applyChange
<1>2. CASE q.kind = "update"
  <2> DEFINE color == IF q.color = None THEN catalog[q.name] ELSE q.color
  <2>1. /\ q.name \in Names /\ q.newName \in Names /\ color \in {None} \cup Colors
        /\ c = [catalog EXCEPT ![q.name] = None, ![q.newName] = color]
    BY <1>0, <1>2 DEF Requests, CatalogAfter
  <2> HIDE DEF color
  <2>2. c[q.newName] = color /\ c \in Catalogs
    BY <1>0, <2>1 DEF Catalogs
  <2>3. Published(q) = [from |-> q.name, name |-> q.newName, color |-> color]
    BY <1>2, <2>2 DEF Published
  <2> QED BY <1>0, <2>1, <2>2, <2>3 DEF Changes, applyChange
<1>3. CASE q.kind = "delete"
  <2>1. q.name \in Names /\ c = [catalog EXCEPT ![q.name] = None]
    BY <1>3 DEF Requests, CatalogAfter
  <2> QED BY <1>0, <1>3, <2>1 DEF Catalogs, Published, Changes, applyChange
<1>4. q.kind \in {"set", "update", "delete", "count"}
  BY DEF Requests
<1> QED BY <1>1, <1>2, <1>3, <1>4 DEF CatalogAfter

LEMMA UpdateType ==
  ASSUME TypeOK, NEW q \in Requests, CatalogAfter(q, catalog) # catalog
  PROVE  [kind |-> "update", change |-> Published(q),
          head |-> [generation |-> sequence.generation, seq |-> sequence.headSeq + 1]] \in Updates
BY PublishedType DEF TypeOK, Updates, Cursors

LEMMA PublishTypes ==
  ASSUME TypeOK, NEW q \in Requests, publish(q)
  PROVE  TypeOK'
<1> DEFINE entry == [seq |-> sequence.headSeq + 1, change |-> Published(q)]
           update == [kind |-> "update", change |-> Published(q),
                      head |-> [generation |-> sequence.generation,
                                seq |-> sequence.headSeq + 1]]
<1>1. /\ catalog' \in Catalogs /\ Published(q) \in Changes
      /\ sequence' = [sequence EXCEPT !.headSeq = sequence.headSeq + 1,
                                      !.journal = appendToJournal(entry)]
      /\ onChange(update) /\ UNCHANGED <<link, requests, app>>
  BY PublishedType DEF publish
<1>2. entry \in Entries /\ update \in Updates
  BY <1>1 DEF TypeOK, Entries, Updates, Cursors
<1> HIDE DEF entry, update
<1>3. appendToJournal(entry) \in Seq(Entries)
  <2>1. Append(sequence.journal, entry) \in Seq(Entries) /\ Append(sequence.journal, entry) # <<>>
    BY <1>2 DEF TypeOK
  <2>2. Tail(Append(sequence.journal, entry)) \in Seq(Entries)
    BY <2>1, HeadTailProperties
  <2> QED BY <2>1, <2>2 DEF appendToJournal
<1>4. sequence' \in [generation : Nat, headSeq : Nat, journal : Seq(Entries)]
  <2>1. sequence \in [generation : Nat, headSeq : Nat, journal : Seq(Entries)]
    BY DEF TypeOK
  <2> DEFINE head == sequence.headSeq + 1
             journal == appendToJournal(entry)
  <2>2. head \in Nat /\ journal \in Seq(Entries)
    BY <1>3, <2>1
  <2>3. sequence' = [sequence EXCEPT !.headSeq = head, !.journal = journal]
    BY <1>1
  <2> HIDE DEF head, journal
  <2> QED BY <2>1, <2>2, <2>3
<1>5. /\ session' \in [waiting : Seq(ListRequests), answering : {None} \cup Answering,
                       subscribed : BOOLEAN]
      /\ channel' \in Seq(Messages)
  <2>1. CASE Owned /\ session.answering # None
    <3>1. session.answering \in Answering
      BY <2>1 DEF TypeOK
    <3>2. Append(session.answering.pending, update) \in Seq(Updates)
      BY <1>2, <3>1 DEF Answering
    <3>3. [session.answering EXCEPT !.pending = Append(@, update)] \in Answering
      BY <3>1, <3>2 DEF Answering
    <3> QED BY <1>1, <2>1, <3>1, <3>3 DEF onChange, TypeOK
  <2>2. CASE ~(Owned /\ session.answering # None)
    <3>1. session' = session /\ emit(IF session.subscribed THEN <<update>> ELSE <<>>)
      BY <1>1, <2>2 DEF onChange
    <3>2. channel \o <<update>> \in Seq(Messages) /\ channel \o <<>> \in Seq(Messages)
      BY <1>2 DEF TypeOK, Messages
    <3>3. <<>> \in Seq(Messages)
      BY EmptySeq
    <3> QED BY <3>1, <3>2, <3>3 DEF emit, TypeOK
  <2> QED BY <2>1, <2>2
<1> QED BY <1>1, <1>4, <1>5 DEF TypeOK, app

\* Messages and requests that are given up keep all but their liveness.
SameBut(s, t) ==
  /\ DOMAIN t = DOMAIN s
  /\ \A i \in DOMAIN s :
       /\ t[i].kind = s[i].kind
       /\ IF s[i].kind = "list" THEN t[i].sync = s[i].sync ELSE t[i] = s[i]

LEMMA IgnoredType ==
  ASSUME NEW s \in Seq(Messages)
  PROVE  ignored(s) \in Seq(Messages) /\ SameBut(s, ignored(s))
<1> DEFINE t == ignored(s)
<1>1. t = [i \in 1..Len(s) |-> IF s[i].kind = "list" THEN [s[i] EXCEPT !.live = FALSE]
                                                    ELSE s[i]]
  BY DEF ignored
<1>2. ASSUME NEW i \in 1..Len(s)
      PROVE  /\ t[i] \in Messages /\ t[i].kind = s[i].kind
             /\ IF s[i].kind = "list" THEN t[i].sync = s[i].sync ELSE t[i] = s[i]
  <2>1. s[i] \in Messages
    OBVIOUS
  <2>2. CASE s[i].kind = "list"
    <3> DEFINE m == s[i]
    <3>1. m \in ListAnswers
      BY <2>1, <2>2 DEF Messages, Updates
    <3>2. t[i] = [m EXCEPT !.live = FALSE]
      BY <1>1, <2>2
    <3> HIDE DEF m, t
    <3>3. /\ [m EXCEPT !.live = FALSE] \in ListAnswers
          /\ [m EXCEPT !.live = FALSE].kind = m.kind
          /\ [m EXCEPT !.live = FALSE].sync = m.sync
      BY <3>1 DEF ListAnswers
    <3>4. t[i] \in Messages /\ t[i].kind = m.kind /\ t[i].sync = m.sync
      BY <3>2, <3>3 DEF Messages
    <3> QED BY <2>2, <3>4 DEF m
  <2>3. CASE s[i].kind # "list"
    BY <1>1, <2>1, <2>3
  <2> QED BY <2>2, <2>3
<1>3. Len(s) \in Nat /\ DOMAIN s = 1..Len(s)
  OBVIOUS
<1> HIDE DEF t
<1>4. t \in [1..Len(s) -> Messages]
  BY <1>1, <1>2
<1>5. t \in Seq(Messages)
  BY <1>3, <1>4, IsASeq
<1> QED BY <1>1, <1>2, <1>3, <1>5 DEF SameBut, t

LEMMA AbandonedType ==
  ASSUME NEW s \in Seq(ListRequests)
  PROVE  /\ abandoned(s) \in Seq(ListRequests) /\ DOMAIN abandoned(s) = DOMAIN s
         /\ \A i \in DOMAIN s : abandoned(s)[i].cursor = s[i].cursor
<1> DEFINE t == abandoned(s)
<1>1. t = [i \in 1..Len(s) |-> [s[i] EXCEPT !.live = FALSE]]
  BY DEF abandoned
<1>2. ASSUME NEW i \in 1..Len(s) PROVE t[i] \in ListRequests /\ t[i].cursor = s[i].cursor
  <2>1. s[i] \in ListRequests
    OBVIOUS
  <2> QED BY <1>1, <2>1 DEF ListRequests
<1>3. Len(s) \in Nat /\ DOMAIN s = 1..Len(s)
  OBVIOUS
<1> HIDE DEF t
<1>4. t \in [1..Len(s) -> ListRequests]
  BY <1>1, <1>2
<1>5. t \in Seq(ListRequests)
  BY <1>3, <1>4, IsASeq
<1> QED BY <1>1, <1>2, <1>3, <1>5 DEF t

Sessions ==
  [waiting : Seq(ListRequests), answering : {None} \cup Answering, subscribed : BOOLEAN]

\* What an abandoned session keeps.
LEMMA AbandonedSession ==
  ASSUME session \in Sessions
  PROVE  /\ Abandoned \in Sessions /\ Abandoned.subscribed = session.subscribed
         /\ Abandoned.waiting = abandoned(session.waiting)
         /\ session.answering = None => Abandoned.answering = None
         /\ session.answering # None =>
              /\ Abandoned.answering # None
              /\ Abandoned.answering.sync = session.answering.sync
              /\ Abandoned.answering.pending = session.answering.pending
<1> DEFINE a == session.answering
           b == IF a = None THEN None ELSE [a EXCEPT !.live = FALSE]
           w == abandoned(session.waiting)
<1>1. Abandoned = [session EXCEPT !.waiting = w, !.answering = b]
  BY DEF Abandoned
<1>2. a \in {None} \cup Answering /\ w \in Seq(ListRequests)
  BY AbandonedType DEF Sessions
<1>3. a # None => b \in Answering /\ b.sync = a.sync /\ b.pending = a.pending
  BY <1>2 DEF Answering
<1>4. a = None => b = None
  OBVIOUS
<1> HIDE DEF a, b, w
<1>5. /\ Abandoned.waiting = w /\ Abandoned.answering = b
      /\ Abandoned.subscribed = session.subscribed
      /\ Abandoned \in Sessions
  BY <1>1, <1>2, <1>3, <1>4 DEF Sessions
<1>6. None \notin Answering
  BY FeedNoneAssumption
<1> QED BY <1>3, <1>4, <1>5, <1>6 DEF a, w

\* The first message of a nonempty channel, and the others.
LEMMA ChannelHead ==
  ASSUME TypeOK, channel # <<>>
  PROVE  /\ channel[1] \in Messages /\ Tail(channel) \in Seq(Messages)
         /\ Len(channel) \in Nat \ {0} /\ Len(Tail(channel)) = Len(channel) - 1
         /\ \A i \in 1..(Len(channel) - 1) : Tail(channel)[i] = channel[i + 1]
BY HeadTailProperties DEF TypeOK

LEMMA RequestType == ASSUME TypeOK PROVE Request \in ListRequests
BY DEF TypeOK, Request, ListRequests

LEMMA AppType ==
  ASSUME TypeOK, NEW m \in Messages, applyList(m) \/ applyUpdate(m)
  PROVE  replica' \in Catalogs /\ cursor' \in {None} \cup Cursors /\ requests' \in Seq(ListRequests)
<1>1. ASSUME applyList(m) PROVE replica' \in Catalogs /\ cursor' \in {None} \cup Cursors
  <2>1. m.sync \in Syncs
    BY <1>1 DEF applyList, Messages, ListAnswers, Updates
  <2>2. m.sync.labels \in [Names -> {None} \cup Colors] /\ m.sync.head \in Cursors
    BY <2>1 DEF Syncs, Catalogs
  <2>3. CASE m.live
    <3>1. \A n \in Names : m.sync.labels[n] # None \/ m.sync.labels[n] = None
      OBVIOUS
    <3>2. replica' = [n \in Names |->
             IF m.sync.labels[n] # None THEN m.sync.labels[n]
             ELSE IF m.sync.snapshot \/ n \in m.sync.removals THEN None ELSE replica[n]]
      BY <1>1, <2>3 DEF applyList
    <3> QED BY <1>1, <2>2, <2>3, <3>2 DEF applyList, TypeOK, Catalogs
  <2>4. CASE ~m.live
    BY <1>1, <2>4 DEF applyList, TypeOK, app
  <2> QED BY <2>3, <2>4
<1>2. ASSUME applyUpdate(m) PROVE replica' \in Catalogs /\ cursor' \in {None} \cup Cursors
  <2>1. m.change \in Changes /\ m.head \in Cursors
    BY <1>2 DEF applyUpdate, Messages, ListAnswers, Updates
  <2>2. applyChange(replica, m.change) \in Catalogs
    BY <2>1 DEF applyChange, Changes, Catalogs, TypeOK
  <2> QED BY <1>2, <2>1, <2>2 DEF applyUpdate, TypeOK, app
<1>3. requests' = requests \/ requests' = Append(requests, Request)
  BY DEF applyList, applyUpdate
<1>4. requests \in Seq(ListRequests) /\ Append(requests, Request) \in Seq(ListRequests)
  BY RequestType DEF TypeOK
<1> QED BY <1>1, <1>2, <1>3, <1>4

(***************************************************************************)
(* The order of what is sent.                                              *)
(***************************************************************************)
HeadOf(m) == IF m.kind = "list" THEN m.sync.head ELSE m.head

\* The heads of messages never go back, and an update follows the one before it.
Chain(ch) ==
  \A i, j \in DOMAIN ch :
    /\ i < j => HeadOf(ch[i]).seq <= HeadOf(ch[j]).seq
    /\ j = i + 1 /\ ch[j].kind = "update" => HeadOf(ch[j]).seq = HeadOf(ch[i]).seq + 1

Within(ch, generation, low, high) ==
  \A i \in DOMAIN ch :
    /\ HeadOf(ch[i]).generation = generation
    /\ low <= HeadOf(ch[i]).seq /\ HeadOf(ch[i]).seq <= high

EndsAt(ch, seq) == ch # <<>> => HeadOf(ch[Len(ch)]).seq = seq

LEMMA HeadType ==
  ASSUME NEW m \in Messages
  PROVE  HeadOf(m) \in Cursors /\ HeadOf(m).seq \in Nat /\ HeadOf(m).generation \in Nat
<1>1. HeadOf(m) \in Cursors
  BY DEF HeadOf, Messages, Updates, ListAnswers, Syncs
<1> QED BY <1>1 DEF Cursors

LEMMA NothingSent ==
  ASSUME NEW g, NEW low, NEW high, NEW seq
  PROVE  Chain(<<>>) /\ Within(<<>>, g, low, high) /\ EndsAt(<<>>, seq)
BY DEF Chain, Within, EndsAt

LEMMA WithinWider ==
  ASSUME NEW ch \in Seq(Messages), NEW g, NEW low \in Nat, NEW high \in Nat,
         NEW low2 \in Nat, NEW high2 \in Nat,
         low2 <= low, high <= high2, Within(ch, g, low, high)
  PROVE  Within(ch, g, low2, high2)
<1> SUFFICES ASSUME NEW i \in DOMAIN ch
             PROVE  /\ HeadOf(ch[i]).generation = g
                    /\ low2 <= HeadOf(ch[i]).seq /\ HeadOf(ch[i]).seq <= high2
  BY DEF Within
<1>1. HeadOf(ch[i]).seq \in Nat
  BY HeadType
<1>2. HeadOf(ch[i]).generation = g /\ low <= HeadOf(ch[i]).seq /\ HeadOf(ch[i]).seq <= high
  BY DEF Within
<1> QED BY <1>1, <1>2

LEMMA SentSame ==
  ASSUME NEW ch \in Seq(Messages), NEW t \in Seq(Messages), SameBut(ch, t), Chain(ch)
  PROVE  /\ Chain(t)
         /\ \A g, low, high : Within(ch, g, low, high) => Within(t, g, low, high)
         /\ \A seq : EndsAt(ch, seq) => EndsAt(t, seq)
<1>1. DOMAIN t = DOMAIN ch /\ Len(t) = Len(ch)
  <2>1. DOMAIN t = DOMAIN ch
    BY DEF SameBut
  <2>2. /\ Len(t) \in Nat /\ Len(ch) \in Nat /\ DOMAIN ch = 1..Len(ch) /\ DOMAIN t = 1..Len(t)
    OBVIOUS
  <2> QED BY <2>1, <2>2
<1>2. \A i \in DOMAIN ch : HeadOf(t[i]) = HeadOf(ch[i]) /\ t[i].kind = ch[i].kind
  BY DEF SameBut, HeadOf
<1>3. ch # <<>> => Len(ch) \in DOMAIN ch
  OBVIOUS
<1>4. t # <<>> => ch # <<>>
  BY <1>1
<1> QED BY <1>1, <1>2, <1>3, <1>4 DEF Chain, Within, EndsAt

LEMMA SentTail ==
  ASSUME NEW ch \in Seq(Messages), ch # <<>>, Chain(ch)
  PROVE  /\ Chain(Tail(ch))
         /\ \A g, low, high : Within(ch, g, low, high) => Within(Tail(ch), g, HeadOf(ch[1]).seq, high)
         /\ \A seq : EndsAt(ch, seq) => EndsAt(Tail(ch), seq)
<1> DEFINE t == Tail(ch)
           n == Len(ch)
<1>1. /\ n \in Nat \ {0} /\ DOMAIN ch = 1..n /\ t \in Seq(Messages)
      /\ Len(t) = n - 1 /\ DOMAIN t = 1..(n - 1)
      /\ \A i \in 1..(n - 1) : t[i] = ch[i + 1]
  BY HeadTailProperties
<1>2. t # <<>> => n - 1 \in 1..(n - 1)
  <2>1. t # <<>> => n - 1 # 0
    BY <1>1
  <2> QED BY <1>1, <2>1
<1> HIDE DEF t, n
<1>3. ASSUME NEW i \in 1..(n - 1) PROVE i + 1 \in DOMAIN ch /\ 1 \in DOMAIN ch /\ 1 < i + 1
  BY <1>1
<1>4. Chain(t)
  <2> SUFFICES ASSUME NEW i \in 1..(n - 1), NEW j \in 1..(n - 1)
               PROVE  /\ i < j => HeadOf(t[i]).seq <= HeadOf(t[j]).seq
                      /\ j = i + 1 /\ t[j].kind = "update" =>
                           HeadOf(t[j]).seq = HeadOf(t[i]).seq + 1
    BY <1>1 DEF Chain
  <2>1. (i < j => i + 1 < j + 1) /\ (j = i + 1 => j + 1 = (i + 1) + 1)
    BY <1>1
  <2>2. i + 1 \in DOMAIN ch /\ j + 1 \in DOMAIN ch /\ t[i] = ch[i + 1] /\ t[j] = ch[j + 1]
    BY <1>1, <1>3
  <2> QED BY <2>1, <2>2 DEF Chain
<1>5. ASSUME NEW g, NEW low, NEW high, Within(ch, g, low, high)
      PROVE  Within(t, g, HeadOf(ch[1]).seq, high)
  <2> SUFFICES ASSUME NEW i \in 1..(n - 1)
               PROVE  /\ HeadOf(t[i]).generation = g
                      /\ HeadOf(ch[1]).seq <= HeadOf(t[i]).seq /\ HeadOf(t[i]).seq <= high
    BY <1>1 DEF Within
  <2>1. t[i] = ch[i + 1] /\ i + 1 \in DOMAIN ch /\ 1 \in DOMAIN ch /\ 1 < i + 1
    BY <1>1, <1>3
  <2> QED BY <1>5, <2>1 DEF Chain, Within
<1>6. ASSUME NEW seq, EndsAt(ch, seq) PROVE EndsAt(t, seq)
  <2>1. (n - 1) + 1 = n
    BY <1>1
  <2>2. t # <<>> => t[n - 1] = ch[n]
    BY <1>1, <1>2, <2>1
  <2> QED BY <1>1, <1>6, <2>2 DEF EndsAt, n
<1> QED BY <1>4, <1>5, <1>6 DEF t

LEMMA SentAppend ==
  ASSUME NEW ch \in Seq(Messages), NEW m \in Messages, NEW g, NEW low \in Nat, NEW high \in Nat,
         Chain(ch), Within(ch, g, low, high),
         HeadOf(m).generation = g, low <= high, high <= HeadOf(m).seq,
         m.kind = "update" => EndsAt(ch, HeadOf(m).seq - 1)
  PROVE  LET t == Append(ch, m)
         IN  /\ t \in Seq(Messages) /\ t # <<>> /\ Chain(t)
             /\ Within(t, g, low, HeadOf(m).seq) /\ EndsAt(t, HeadOf(m).seq)
<1> DEFINE t == Append(ch, m)
           n == Len(ch)
<1>1. /\ t \in Seq(Messages) /\ t # <<>> /\ n \in Nat /\ DOMAIN ch = 1..n
      /\ Len(t) = n + 1 /\ DOMAIN t = 1..(n + 1)
      /\ t[n + 1] = m /\ \A i \in 1..n : t[i] = ch[i]
  OBVIOUS
<1>2. \A i \in 1..n : HeadOf(ch[i]).seq \in Nat
  BY <1>1, HeadType
<1>3. HeadOf(m).seq \in Nat
  BY HeadType
<1>4. m.kind = "update" /\ n # 0 => HeadOf(ch[n]).seq = HeadOf(m).seq - 1
  <2>1. n # 0 => ch # <<>>
    OBVIOUS
  <2> QED BY <2>1 DEF EndsAt
<1>5. \A i \in 1..(n + 1) : i \in 1..n \/ i = n + 1
  BY <1>1
<1> HIDE DEF t, n
<1>6. \A i \in 1..n : /\ HeadOf(ch[i]).generation = g
                      /\ low <= HeadOf(ch[i]).seq /\ HeadOf(ch[i]).seq <= high
  BY <1>1 DEF Within
<1>7. \A i \in 1..n : HeadOf(ch[i]).seq <= HeadOf(m).seq
  BY <1>2, <1>3, <1>6
<1>8. Within(t, g, low, HeadOf(m).seq)
  <2> SUFFICES ASSUME NEW i \in 1..(n + 1)
               PROVE  /\ HeadOf(t[i]).generation = g
                      /\ low <= HeadOf(t[i]).seq /\ HeadOf(t[i]).seq <= HeadOf(m).seq
    BY <1>1 DEF Within
  <2>1. CASE i \in 1..n
    BY <1>1, <1>6, <1>7, <2>1
  <2>2. CASE i = n + 1
    BY <1>1, <1>3, <2>2
  <2> QED BY <1>5, <2>1, <2>2
<1>9. Chain(t)
  <2> SUFFICES ASSUME NEW i \in 1..(n + 1), NEW j \in 1..(n + 1)
               PROVE  /\ i < j => HeadOf(t[i]).seq <= HeadOf(t[j]).seq
                      /\ j = i + 1 /\ t[j].kind = "update" =>
                           HeadOf(t[j]).seq = HeadOf(t[i]).seq + 1
    BY <1>1 DEF Chain
  <2>1. CASE j \in 1..n
    <3>1. i < j => i \in 1..n
      BY <1>1, <2>1
    <3>2. j = i + 1 => i \in 1..n
      BY <1>1, <2>1
    <3> QED BY <1>1, <2>1, <3>1, <3>2 DEF Chain
  <2>2. CASE j = n + 1
    <3>1. i < j => i \in 1..n
      BY <1>1, <1>5, <2>2
    <3>2. j = i + 1 => i = n /\ n # 0
      BY <1>1, <2>2
    <3>3. j = i + 1 /\ m.kind = "update" => HeadOf(ch[n]).seq + 1 = HeadOf(m).seq /\ t[i] = ch[n]
      <4>1. j = i + 1 => n \in 1..n
        BY <1>1, <3>2
      <4>2. n \in 1..n => HeadOf(ch[n]).seq \in Nat
        BY <1>2
      <4> QED BY <1>1, <1>3, <1>4, <3>2, <4>1, <4>2
    <3> QED BY <1>1, <1>7, <2>2, <3>1, <3>3
  <2> QED BY <1>5, <2>1, <2>2
<1>10. EndsAt(t, HeadOf(m).seq)
  BY <1>1 DEF EndsAt
<1> QED BY <1>1, <1>8, <1>9, <1>10 DEF t

LEMMA SentConcat ==
  ASSUME NEW ch \in Seq(Messages), NEW s \in Seq(Updates),
         NEW g \in Nat, NEW low \in Nat, NEW high \in Nat,
         Chain(ch), Within(ch, g, low, high), EndsAt(ch, high), ch # <<>>, low <= high,
         \A i \in DOMAIN s : s[i].head = [generation |-> g, seq |-> high + i]
  PROVE  LET t == ch \o s
         IN  /\ t \in Seq(Messages) /\ Chain(t)
             /\ Within(t, g, low, high + Len(s)) /\ EndsAt(t, high + Len(s))
<1> DEFINE t == ch \o s
           n == Len(ch)
           k == Len(s)
<1>1. /\ s \in Seq(Messages) /\ t \in Seq(Messages)
  <2>1. s \in Seq(Messages)
    BY SeqMonotonic DEF Messages
  <2> QED BY <2>1, ConcatProperties
<1>2. /\ n \in Nat \ {0} /\ k \in Nat /\ DOMAIN ch = 1..n /\ DOMAIN s = 1..k
      /\ Len(t) = n + k /\ DOMAIN t = 1..(n + k)
      /\ \A i \in 1..n : t[i] = ch[i]
      /\ \A i \in (n + 1)..(n + k) : t[i] = s[i - n]
  BY <1>1
<1> HIDE DEF n, k, t
<1>3. \A i \in 1..n : HeadOf(t[i]).seq \in Nat
  BY <1>2, HeadType
<1>4. /\ \A i \in 1..n : /\ HeadOf(t[i]).generation = g
                         /\ low <= HeadOf(t[i]).seq /\ HeadOf(t[i]).seq <= high
      /\ HeadOf(t[n]).seq = high
  BY <1>2 DEF Within, EndsAt, n
<1>5. ASSUME NEW i \in (n + 1)..(n + k)
      PROVE  HeadOf(t[i]).generation = g /\ HeadOf(t[i]).seq = high + (i - n)
  <2>1. i - n \in 1..k /\ s[i - n] \in Updates
    BY <1>2
  <2>2. s[i - n].kind = "update" /\ HeadOf(s[i - n]) = s[i - n].head
    BY <2>1 DEF Updates, HeadOf
  <2>3. t[i] = s[i - n] /\ s[i - n].head = [generation |-> g, seq |-> high + (i - n)]
    BY <1>2, <2>1
  <2> QED BY <2>2, <2>3
<1>6. \A i \in 1..(n + k) : i \in 1..n \/ i \in (n + 1)..(n + k)
  BY <1>2
<1>7. Within(t, g, low, high + k)
  <2> SUFFICES ASSUME NEW i \in 1..(n + k)
               PROVE  /\ HeadOf(t[i]).generation = g
                      /\ low <= HeadOf(t[i]).seq /\ HeadOf(t[i]).seq <= high + k
    BY <1>2 DEF Within
  <2>1. CASE i \in 1..n
    BY <1>2, <1>3, <1>4, <2>1
  <2>2. CASE i \in (n + 1)..(n + k)
    BY <1>2, <1>5, <2>2
  <2> QED BY <1>6, <2>1, <2>2
<1>8. Chain(t)
  <2> SUFFICES ASSUME NEW i \in 1..(n + k), NEW j \in 1..(n + k)
               PROVE  /\ i < j => HeadOf(t[i]).seq <= HeadOf(t[j]).seq
                      /\ j = i + 1 /\ t[j].kind = "update" =>
                           HeadOf(t[j]).seq = HeadOf(t[i]).seq + 1
    BY <1>2 DEF Chain
  <2>1. CASE j \in 1..n
    <3>1. i < j => i \in 1..n
      BY <1>2, <2>1
    <3>2. j = i + 1 => i \in 1..n
      BY <1>2, <2>1
    <3> QED BY <1>2, <2>1, <3>1, <3>2 DEF Chain
  <2>2. CASE j \in (n + 1)..(n + k) /\ i \in 1..n
    <3>1. j = i + 1 => i = n /\ j - n = 1
      BY <1>2, <2>2
    <3>2. j - n \in Nat /\ j - n >= 1
      BY <1>2, <2>2
    <3>3. HeadOf(t[j]).seq = high + (j - n)
      BY <1>5, <2>2
    <3>4. HeadOf(t[i]).seq <= high /\ HeadOf(t[i]).seq \in Nat
      BY <1>3, <1>4, <2>2
    <3>5. HeadOf(t[i]).seq <= HeadOf(t[j]).seq
      BY <3>2, <3>3, <3>4
    <3>6. j = i + 1 => HeadOf(t[j]).seq = HeadOf(t[i]).seq + 1
      BY <1>4, <3>1, <3>3
    <3> QED BY <3>5, <3>6
  <2>3. CASE j \in (n + 1)..(n + k) /\ i \in (n + 1)..(n + k)
    <3>1. HeadOf(t[i]).seq = high + (i - n) /\ HeadOf(t[j]).seq = high + (j - n)
      BY <1>5, <2>3
    <3> QED BY <1>2, <2>3, <3>1
  <2> QED BY <1>6, <2>1, <2>2, <2>3
<1>9. EndsAt(t, high + k)
  <2>1. CASE k = 0
    BY <1>2, <1>4, <2>1 DEF EndsAt
  <2>2. CASE k # 0
    <3>1. n + k \in (n + 1)..(n + k) /\ (n + k) - n = k
      BY <1>2, <2>2
    <3> QED BY <1>2, <1>5, <3>1 DEF EndsAt
  <2> QED BY <2>1, <2>2
<1> QED BY <1>1, <1>7, <1>8, <1>9 DEF t, k

\* Where the app is in this generation.
At == IF cursor # None /\ cursor.generation = sequence.generation THEN cursor.seq ELSE 0

\* Where an answer that is being prepared is, or else the head.
Answered ==
  IF session.answering # None THEN session.answering.sync.head.seq ELSE sequence.headSeq

\* The journal ends at the head, without a gap.
Aligned(journal, head) ==
  /\ Len(journal) <= head
  /\ \A i \in DOMAIN journal : journal[i].seq = head - Len(journal) + i

JournalInv == Aligned(sequence.journal, sequence.headSeq)

\* A handler that is live has nobody after it; without a socket nothing is sent.
SubscribedInv ==
  /\ session.subscribed => session.answering = None /\ session.waiting = <<>>
  /\ link = "down" => channel = <<>>

\* What is held back follows the answer, up to the head while its handler is the owner.
PendingInv ==
  session.answering # None =>
    LET head == session.answering.sync.head
        pending == session.answering.pending
    IN  /\ head.generation = sequence.generation
        /\ head.seq + Len(pending) <= sequence.headSeq
        /\ Owned => head.seq + Len(pending) = sequence.headSeq
        /\ \A i \in DOMAIN pending :
             pending[i].head = [generation |-> sequence.generation, seq |-> head.seq + i]

\* What was sent is in order, of this generation, ahead of the app and not past
\* the answer to come; it reaches up to the head while the subscription is live.
ChannelInv ==
  /\ Chain(channel) /\ Within(channel, sequence.generation, At, Answered)
  /\ session.subscribed => EndsAt(channel, sequence.headSeq)

\* The app is not ahead of the answer that is being prepared.
CursorInv ==
  /\ cursor # None => cursor.generation <= sequence.generation
  /\ At <= Answered

Order == TypeOK /\ JournalInv /\ SubscribedInv /\ PendingInv /\ ChannelInv /\ CursorInv

LEMMA PositionTypes ==
  ASSUME TypeOK
  PROVE  /\ At \in Nat /\ Answered \in Nat
         /\ sequence.headSeq \in Nat /\ sequence.generation \in Nat
         /\ sequence.journal \in Seq(Entries) /\ session \in Sessions
<1>1. /\ sequence.headSeq \in Nat /\ sequence.generation \in Nat
      /\ sequence.journal \in Seq(Entries) /\ session \in Sessions
  BY DEF TypeOK, Sessions
<1>2. At \in Nat
  BY DEF At, TypeOK, Cursors
<1>3. session.answering # None => session.answering.sync.head.seq \in Nat
  BY <1>1 DEF Sessions, Answering, Syncs, Cursors
<1> QED BY <1>1, <1>2, <1>3 DEF Answered

LEMMA AnsweredBound == ASSUME Order PROVE Answered <= sequence.headSeq
<1>1. Answered \in Nat /\ sequence.headSeq \in Nat /\ session \in Sessions
  BY PositionTypes DEF Order
<1>2. CASE session.answering # None
  <2>1. /\ Len(session.answering.pending) \in Nat
        /\ Answered + Len(session.answering.pending) <= sequence.headSeq
    BY <1>1, <1>2 DEF Sessions, Answering, Order, PendingInv, Answered
  <2> QED BY <1>1, <2>1
<1>3. CASE session.answering = None
  BY <1>1, <1>3 DEF Answered
<1> QED BY <1>2, <1>3

LEMMA InitOrder == Init => Order
<1> SUFFICES ASSUME Init PROVE Order
  OBVIOUS
<1>1. /\ <<>> \in Seq(ListRequests) /\ <<>> \in Seq(Messages) /\ <<>> \in Seq(Entries)
      /\ NoLabels \in Catalogs
  BY EmptySeq DEF NoLabels, Catalogs
<1>2. TypeOK
  BY <1>1 DEF Init, NoSession, TypeOK
<1>3. ChannelInv
  BY NothingSent DEF Init, ChannelInv
<1> QED BY <1>2, <1>3 DEF Init, NoSession, Order, JournalInv, SubscribedInv, PendingInv,
     CursorInv, At, Answered, Aligned

\* Steps at which neither the daemon's sequence nor the app moves, and nothing
\* new is sent.
LEMMA QuietOrder ==
  ASSUME Order, TypeOK', UNCHANGED <<sequence, cursor>>,
         channel' \in {channel, <<>>, ignored(channel)},
         link' = "down" => channel' = <<>> \/ UNCHANGED <<link, channel>>,
         \/ session' = NoSession /\ channel' = <<>>
         \/ /\ session'.answering = None <=> session.answering = None
            /\ session.answering # None =>
                 /\ session'.answering.sync = session.answering.sync
                 /\ session'.answering.pending = session.answering.pending
            /\ session'.waiting = <<>> => session.waiting = <<>>
            /\ session'.subscribed => session.subscribed /\ session'.waiting = <<>>
  PROVE  Order'
<1>1. JournalInv'
  BY DEF Order, JournalInv
<1>2. At' = At
  BY DEF At
<1>3. channel' = <<>> \/ SameBut(channel, channel')
  BY IgnoredType DEF Order, TypeOK, SameBut
<1>4. /\ Chain(channel')
      /\ \A g, low, high : Within(channel, g, low, high) => Within(channel', g, low, high)
      /\ \A seq : EndsAt(channel, seq) => EndsAt(channel', seq)
  <2>1. channel \in Seq(Messages) /\ channel' \in Seq(Messages) /\ Chain(channel)
    BY DEF Order, TypeOK, ChannelInv
  <2>2. CASE channel' = <<>>
    BY <2>2, NothingSent
  <2> QED BY <1>3, <2>1, <2>2, SentSame
<1>5. CASE session' = NoSession /\ channel' = <<>>
  <2>1. /\ session'.answering = None /\ session'.waiting = <<>> /\ ~session'.subscribed
        /\ Answered' = sequence.headSeq
    BY <1>5 DEF NoSession, Answered
  <2>2. CursorInv'
    BY <1>2, <2>1, AnsweredBound, PositionTypes DEF Order, CursorInv
  <2>3. ChannelInv'
    BY <1>5, NothingSent DEF ChannelInv
  <2> QED BY <1>1, <1>5, <2>1, <2>2, <2>3 DEF Order, SubscribedInv, PendingInv
<1>6. CASE /\ session'.answering = None <=> session.answering = None
           /\ session.answering # None =>
                /\ session'.answering.sync = session.answering.sync
                /\ session'.answering.pending = session.answering.pending
           /\ session'.waiting = <<>> => session.waiting = <<>>
           /\ session'.subscribed => session.subscribed /\ session'.waiting = <<>>
  <2>1. Answered' = Answered
    BY <1>6 DEF Answered
  <2>2. CursorInv'
    BY <1>2, <2>1 DEF Order, CursorInv
  <2>3. ChannelInv'
    BY <1>2, <1>4, <1>6, <2>1 DEF Order, ChannelInv
  <2>4. PendingInv'
    BY <1>6 DEF Order, PendingInv, Owned
  <2>5. SubscribedInv'
    BY <1>6 DEF Order, SubscribedInv
  <2> QED BY <1>1, <2>2, <2>3, <2>4, <2>5 DEF Order
<1> QED BY <1>5, <1>6

\* An entry whose position is the next is appended to the journal, which drops
\* its oldest one when it is full.
LEMMA JournalAppends ==
  ASSUME NEW old \in Seq(Entries), NEW entry \in Entries, NEW head \in Nat,
         entry.seq = head + 1, Aligned(old, head),
         NEW new, new = Append(old, entry) \/ new = Tail(Append(old, entry))
  PROVE  /\ new \in Seq(Entries) /\ Aligned(new, head + 1)
         /\ \A i \in DOMAIN new : new[i] = entry \/ \E k \in DOMAIN old : new[i] = old[k]
<1> DEFINE all == Append(old, entry)
           n == Len(old)
<1>1. /\ n \in Nat /\ n <= head /\ DOMAIN old = 1..n
      /\ \A i \in 1..n : old[i].seq = head - n + i
  BY DEF Aligned
<1>2. /\ all \in Seq(Entries) /\ Len(all) = n + 1 /\ DOMAIN all = 1..(n + 1)
      /\ \A i \in 1..n : all[i] = old[i]
      /\ all[n + 1] = entry /\ all # <<>>
  BY <1>1
<1>3. /\ Tail(all) \in Seq(Entries) /\ Len(Tail(all)) = n /\ DOMAIN Tail(all) = 1..n
      /\ \A i \in 1..n : Tail(all)[i] = all[i + 1]
  <2> HIDE DEF all
  <2> QED BY <1>1, <1>2, HeadTailProperties
<1> HIDE DEF all, n
<1>4. ASSUME NEW i \in 1..(n + 1)
      PROVE  all[i].seq = head - n + i /\ (all[i] = entry \/ \E k \in DOMAIN old : all[i] = old[k])
  <2>1. i \in 1..n \/ i = n + 1
    BY <1>1
  <2>2. head - n + (n + 1) = head + 1
    BY <1>1
  <2> QED BY <1>1, <1>2, <2>1, <2>2
<1>5. CASE new = all
  <2>1. head + 1 - (n + 1) = head - n /\ n + 1 <= head + 1
    BY <1>1
  <2> QED BY <1>2, <1>4, <1>5, <2>1 DEF Aligned
<1>6. CASE new = Tail(all)
  <2>1. ASSUME NEW i \in 1..n
        PROVE  /\ new[i].seq = head + 1 - n + i
               /\ new[i] = entry \/ \E k \in DOMAIN old : new[i] = old[k]
    <3>1. i + 1 \in 1..(n + 1) /\ head - n + (i + 1) = head + 1 - n + i
      BY <1>1
    <3> QED BY <1>3, <1>4, <1>6, <3>1
  <2>2. n <= head + 1
    BY <1>1
  <2> QED BY <1>3, <1>6, <2>1, <2>2 DEF Aligned
<1> QED BY <1>5, <1>6 DEF all

\* What publish does, in the words of the proofs below.
NewUpdate(q) ==
  [kind |-> "update", change |-> Published(q),
   head |-> [generation |-> sequence.generation, seq |-> sequence.headSeq + 1]]
NewEntry(q) == [seq |-> sequence.headSeq + 1, change |-> Published(q)]

LEMMA PublishEffect ==
  ASSUME TypeOK, NEW q \in Requests, publish(q)
  PROVE  /\ catalog' = applyChange(catalog, Published(q))
         /\ NewUpdate(q) \in Updates /\ NewEntry(q) \in Entries /\ TypeOK'
         /\ sequence'.generation = sequence.generation
         /\ sequence'.headSeq = sequence.headSeq + 1
         /\ sequence'.journal = appendToJournal(NewEntry(q))
         /\ UNCHANGED <<link, requests, replica, cursor>>
         /\ \/ /\ Owned /\ session.answering # None
               /\ session'.answering # None /\ session'.answering.sync = session.answering.sync
               /\ session'.answering.pending = Append(session.answering.pending, NewUpdate(q))
               /\ session'.waiting = session.waiting /\ session'.subscribed = session.subscribed
               /\ channel' = channel
            \/ /\ ~(Owned /\ session.answering # None)
               /\ session' = session
               /\ IF link = "down" THEN channel' = <<>>
                  ELSE IF session.subscribed THEN channel' = Append(channel, NewUpdate(q))
                  ELSE channel' = channel
<1>1. /\ catalog' = CatalogAfter(q, catalog) /\ CatalogAfter(q, catalog) # catalog
      /\ sequence' = [sequence EXCEPT !.headSeq = sequence.headSeq + 1,
                                      !.journal = appendToJournal(NewEntry(q))]
      /\ onChange(NewUpdate(q)) /\ UNCHANGED <<link, requests, replica, cursor>>
  BY DEF publish, app, NewUpdate, NewEntry
<1>2. /\ Published(q) \in Changes /\ catalog' = applyChange(catalog, Published(q))
      /\ NewUpdate(q) \in Updates
  BY <1>1, PublishedType, UpdateType DEF NewUpdate
<1>3. NewEntry(q) \in Entries
  BY <1>2 DEF TypeOK, Entries, NewEntry
<1>4. /\ sequence'.generation = sequence.generation
      /\ sequence'.headSeq = sequence.headSeq + 1
      /\ sequence'.journal = appendToJournal(NewEntry(q))
  BY <1>1 DEF TypeOK
<1>5. TypeOK'
  BY PublishTypes
<1>6. CASE Owned /\ session.answering # None
  <2> DEFINE answer == session.answering
             pending == Append(answer.pending, NewUpdate(q))
  <2>1. answer \in Answering /\ session \in Sessions /\ answer.pending \in Seq(Updates)
    BY <1>6 DEF TypeOK, Sessions, Answering
  <2>2. pending \in Seq(Updates)
    BY <1>2, <2>1
  <2>3. /\ session' = [session EXCEPT !.answering = [answer EXCEPT !.pending = pending]]
        /\ channel' = channel
    BY <1>1, <1>6 DEF onChange
  <2> HIDE DEF pending
  <2>4. /\ session'.answering = [answer EXCEPT !.pending = pending]
        /\ session'.waiting = session.waiting /\ session'.subscribed = session.subscribed
    BY <2>1, <2>3 DEF Sessions
  <2>5. /\ [answer EXCEPT !.pending = pending] \in Answering
        /\ [answer EXCEPT !.pending = pending].sync = answer.sync
        /\ [answer EXCEPT !.pending = pending].pending = pending
    BY <2>1, <2>2 DEF Answering
  <2> QED BY <1>2, <1>3, <1>4, <1>5, <1>1, <1>6, <2>3, <2>4, <2>5, FeedNoneAssumption DEF pending
<1>7. CASE ~(Owned /\ session.answering # None)
  <2>1. session' = session /\ emit(IF session.subscribed THEN <<NewUpdate(q)>> ELSE <<>>)
    BY <1>1, <1>7 DEF onChange
  <2>2. /\ channel \in Seq(Messages) /\ NewUpdate(q) \in Messages
        /\ channel \o <<>> = channel
    BY <1>2 DEF TypeOK, Messages
  <2>3. channel \o <<NewUpdate(q)>> = Append(channel, NewUpdate(q))
    BY <2>2
  <2> QED BY <1>2, <1>3, <1>4, <1>5, <1>1, <1>7, <2>1, <2>2, <2>3 DEF emit
<1> QED BY <1>6, <1>7

LEMMA PublishOrder == ASSUME Order, NEW q \in Requests, publish(q) PROVE Order'
<1> DEFINE answer == session.answering
           head == sequence.headSeq
           update == NewUpdate(q)
<1>1. TypeOK /\ TypeOK'
  BY PublishTypes DEF Order
<1>2. /\ head \in Nat /\ sequence'.headSeq = head + 1
      /\ sequence'.generation = sequence.generation
      /\ sequence.generation \in Nat
      /\ update \in Messages /\ update.kind = "update"
      /\ HeadOf(update) = [generation |-> sequence.generation, seq |-> head + 1]
      /\ cursor' = cursor /\ link' = link
  <2>1. update \in Updates
    BY <1>1, PublishEffect
  <2>2. update.kind = "update" /\ update.head = [generation |-> sequence.generation,
                                                 seq |-> head + 1]
    BY DEF NewUpdate
  <2> QED BY <1>1, <2>1, <2>2, PublishEffect, PositionTypes DEF Messages, HeadOf
<1>3. JournalInv'
  <2>1. NewEntry(q) \in Entries /\ NewEntry(q).seq = head + 1
    BY <1>1, PublishEffect DEF NewEntry
  <2>2. sequence.journal \in Seq(Entries) /\ Aligned(sequence.journal, head)
    BY <1>1, PositionTypes DEF Order, JournalInv
  <2>3. \/ sequence'.journal = Append(sequence.journal, NewEntry(q))
        \/ sequence'.journal = Tail(Append(sequence.journal, NewEntry(q)))
    BY <1>1, PublishEffect DEF appendToJournal
  <2>4. Aligned(sequence'.journal, head + 1)
    <3> HIDE DEF head
    <3>1. head \in Nat
      BY <1>2
    <3> QED BY <3>1, <2>1, <2>2, <2>3, JournalAppends
  <2> QED BY <1>2, <2>4 DEF JournalInv
<1>4. At' = At /\ At \in Nat /\ Answered \in Nat /\ Answered <= head /\ At <= Answered
  BY <1>1, <1>2, PositionTypes, AnsweredBound DEF Order, CursorInv, At
<1>5. /\ channel \in Seq(Messages) /\ Chain(channel)
      /\ Within(channel, sequence.generation, At, Answered)
      /\ session.subscribed => /\ EndsAt(channel, head)
                               /\ session.answering = None /\ session.waiting = <<>>
  BY <1>1 DEF TypeOK, Order, ChannelInv, SubscribedInv
<1> HIDE DEF head, update
<1>6. CASE Owned /\ answer # None
  <2>1. /\ session'.answering # None /\ session'.answering.sync = answer.sync
        /\ session'.answering.pending = Append(answer.pending, update)
        /\ session'.waiting = session.waiting /\ session'.subscribed = session.subscribed
        /\ channel' = channel
    BY <1>1, <1>6, PublishEffect DEF update
  <2>2. ~session'.subscribed
    BY <1>5, <1>6, <2>1
  <2>3. Answered' = Answered
    BY <1>6, <2>1 DEF Answered
  <2>4. SubscribedInv' /\ ChannelInv' /\ CursorInv'
    BY <1>2, <1>4, <1>5, <2>1, <2>2, <2>3 DEF Order, SubscribedInv, ChannelInv, CursorInv
  <2>5. PendingInv'
    <3> DEFINE pending == answer.pending
               from == answer.sync.head.seq
               more == Append(pending, update)
    <3>1. /\ pending \in Seq(Updates) /\ from \in Nat
          /\ answer.sync.head.generation = sequence.generation
          /\ from + Len(pending) = head
          /\ \A i \in DOMAIN pending :
               pending[i].head = [generation |-> sequence.generation, seq |-> from + i]
      BY <1>1, <1>6 DEF Order, PendingInv, TypeOK, Answering, Syncs, Cursors, head
    <3>2. update.head = [generation |-> sequence.generation, seq |-> head + 1]
      BY <1>2 DEF HeadOf
    <3> HIDE DEF pending, from, answer
    <3>3. /\ Len(pending) \in Nat /\ DOMAIN pending = 1..Len(pending)
          /\ Len(more) = Len(pending) + 1 /\ DOMAIN more = 1..(Len(pending) + 1)
          /\ more[Len(pending) + 1] = update
          /\ \A i \in 1..Len(pending) : more[i] = pending[i]
      BY <3>1
    <3> HIDE DEF more
    <3>4. from + Len(more) = head + 1
      BY <1>2, <3>1, <3>3
    <3>5. \A i \in DOMAIN more :
            more[i].head = [generation |-> sequence.generation, seq |-> from + i]
      <4>1. ASSUME NEW i \in DOMAIN more
            PROVE  more[i].head = [generation |-> sequence.generation, seq |-> from + i]
        <5>1. i \in 1..Len(pending) \/ i = Len(pending) + 1
          BY <3>3
        <5>2. from + (Len(pending) + 1) = head + 1
          BY <3>3, <3>4
        <5> QED BY <3>1, <3>2, <3>3, <5>1, <5>2
      <4> QED BY <4>1
    <3>6. from + Len(more) <= sequence'.headSeq
      BY <1>2, <3>4
    <3> QED BY <1>2, <2>1, <3>1, <3>4, <3>5, <3>6 DEF PendingInv, from, more, pending
  <2> QED BY <1>1, <1>3, <2>4, <2>5 DEF Order
<1>7. CASE ~(Owned /\ answer # None)
  <2>1. /\ session' = session
        /\ IF link = "down" THEN channel' = <<>>
           ELSE IF session.subscribed THEN channel' = Append(channel, update)
           ELSE channel' = channel
    BY <1>1, <1>7, PublishEffect DEF update
  <2>2. /\ Answered' \in Nat /\ Answered <= Answered'
        /\ session.answering = None => Answered' = head + 1
    BY <1>2, <1>4, <2>1 DEF Answered, head
  <2>3. SubscribedInv'
    BY <1>2, <2>1 DEF Order, SubscribedInv
  <2>4. CursorInv'
    <3>1. At' <= Answered'
      BY <1>4, <2>2
    <3> QED BY <1>2, <3>1 DEF Order, CursorInv
  <2>5. PendingInv'
    <3>1. CASE answer = None
      BY <2>1, <3>1 DEF PendingInv
    <3>2. CASE answer # None
      <4>1. ~Owned /\ ~Owned'
        BY <1>7, <2>1, <3>2 DEF Owned
      <4>2. answer.sync.head.seq + Len(answer.pending) \in Nat
        BY <1>1, <3>2 DEF TypeOK, Answering, Syncs, Cursors
      <4>3. answer.sync.head.seq + Len(answer.pending) <= head
        BY <3>2 DEF Order, PendingInv, head
      <4>4. answer.sync.head.seq + Len(answer.pending) <= head + 1
        BY <1>2, <4>2, <4>3
      <4> QED BY <1>2, <2>1, <3>2, <4>1, <4>4 DEF Order, PendingInv
    <3> QED BY <3>1, <3>2
  <2>6. ChannelInv'
    <3>1. CASE channel' = <<>>
      BY <3>1, NothingSent DEF ChannelInv
    <3>2. CASE channel' = channel /\ ~session.subscribed
      <4>1. Within(channel, sequence.generation, At, Answered')
        BY <1>4, <1>5, <2>2, WithinWider
      <4> QED BY <1>2, <1>4, <1>5, <2>1, <3>2, <4>1 DEF ChannelInv
    <3>3. CASE session.subscribed /\ channel' = Append(channel, update)
      <4>1. Answered = head /\ Answered' = head + 1
        BY <1>5, <2>2, <3>3 DEF Answered, head
      <4>2. /\ HeadOf(update).generation = sequence.generation /\ HeadOf(update).seq = head + 1
            /\ (head + 1) - 1 = head /\ head <= head + 1
        BY <1>2
      <4>3. /\ Chain(channel') /\ Within(channel', sequence.generation, At, head + 1)
            /\ EndsAt(channel', head + 1)
        BY <1>2, <1>4, <1>5, <3>3, <4>1, <4>2, SentAppend
      <4> QED BY <1>2, <1>4, <2>1, <4>1, <4>3 DEF ChannelInv
    <3> QED BY <2>1, <3>1, <3>2, <3>3
  <2> QED BY <1>1, <1>3, <2>3, <2>4, <2>5, <2>6 DEF Order
<1> QED BY <1>6, <1>7

(***************************************************************************)
(* The steps that are quiet.                                               *)
(***************************************************************************)
LEMMA ReceiveOrder == ASSUME Order, Receive PROVE Order'
<1>1. /\ requests # <<>> /\ requests \in Seq(ListRequests) /\ session \in Sessions
      /\ session' = [session EXCEPT !.waiting = Append(@, requests[1]), !.subscribed = FALSE]
      /\ requests' = Tail(requests) /\ UNCHANGED <<catalog, sequence, link, channel, app>>
  BY DEF Order, TypeOK, Sessions, Receive
<1>2. requests[1] \in ListRequests /\ requests' \in Seq(ListRequests)
  BY <1>1, HeadTailProperties
<1>3. Append(session.waiting, requests[1]) \in Seq(ListRequests)
  BY <1>1, <1>2 DEF Sessions
<1>4. /\ session' \in Sessions /\ session'.answering = session.answering
      /\ session'.waiting = Append(session.waiting, requests[1]) /\ ~session'.subscribed
  BY <1>1, <1>3 DEF Sessions
<1>5. TypeOK'
  BY <1>1, <1>2, <1>4 DEF Order, TypeOK, Sessions, app
<1>6. session'.waiting # <<>>
  <2>1. session.waiting \in Seq(ListRequests)
    BY <1>1 DEF Sessions
  <2> QED BY <1>2, <1>4, <2>1, AppendProperties
<1>7. UNCHANGED <<sequence, cursor, link, channel>>
  BY <1>1 DEF app
<1> QED BY <1>4, <1>5, <1>6, <1>7, QuietOrder

LEMMA GivenUpOrder ==
  ASSUME Order, UNCHANGED <<catalog, sequence, app>>, session' = Abandoned,
         link' \in {"down", "up"}, requests' \in {<<>>, abandoned(requests)},
         channel' = <<>> \/ (channel' = ignored(channel) /\ link' # "down")
  PROVE  Order'
<1>1. /\ session \in Sessions /\ requests \in Seq(ListRequests) /\ channel \in Seq(Messages)
      /\ UNCHANGED <<cursor, replica>>
  BY DEF Order, TypeOK, Sessions, app
<1>2. /\ requests' \in Seq(ListRequests) /\ channel' \in Seq(Messages)
  BY <1>1, AbandonedType, IgnoredType, EmptySeq
<1>3. /\ session' \in Sessions /\ session'.subscribed = session.subscribed
      /\ session'.waiting = abandoned(session.waiting)
      /\ session'.answering = None <=> session.answering = None
      /\ session.answering # None =>
           /\ session'.answering.sync = session.answering.sync
           /\ session'.answering.pending = session.answering.pending
  BY <1>1, AbandonedSession
<1>4. session'.waiting = <<>> <=> session.waiting = <<>>
  <2>1. /\ session.waiting \in Seq(ListRequests) /\ session'.waiting \in Seq(ListRequests)
        /\ DOMAIN session'.waiting = DOMAIN session.waiting
    BY <1>1, <1>3, AbandonedType DEF Sessions
  <2> QED BY <2>1
<1>5. TypeOK'
  BY <1>1, <1>2, <1>3 DEF Order, TypeOK, Sessions
<1>6. session'.subscribed => session.subscribed /\ session'.waiting = <<>>
  BY <1>3, <1>4 DEF Order, SubscribedInv
<1> QED BY <1>1, <1>3, <1>4, <1>5, <1>6, QuietOrder

LEMMA DisconnectOrder == ASSUME Order, disconnect PROVE Order'
<1>1. /\ UNCHANGED <<catalog, sequence, app>> /\ session' = Abandoned
      /\ link' = "up" /\ requests' = abandoned(requests) /\ channel' = ignored(channel)
  BY DEF disconnect
<1> QED BY <1>1, GivenUpOrder

LEMMA SocketClosesOrder == ASSUME Order, SocketCloses PROVE Order'
<1>1. /\ UNCHANGED <<catalog, sequence, app>> /\ session' = Abandoned
      /\ link' = "down" /\ requests' = <<>> /\ channel' = <<>>
  BY DEF SocketCloses
<1> QED BY <1>1, GivenUpOrder

LEMMA AskOrder == ASSUME Order, connect \/ refresh PROVE Order'
<1>1. /\ UNCHANGED <<catalog, sequence, session, channel, replica, cursor>>
      /\ link' = "feed" /\ requests' = Append(requests, Request)
  BY DEF connect, refresh, daemon, app
<1>2. Append(requests, Request) \in Seq(ListRequests)
  BY RequestType DEF Order, TypeOK
<1>3. TypeOK'
  BY <1>1, <1>2 DEF Order, TypeOK
<1>4. session.subscribed => session.waiting = <<>>
  BY DEF Order, SubscribedInv
<1> QED BY <1>1, <1>3, <1>4, QuietOrder

LEMMA NoSessionType == NoSession \in Sessions
BY EmptySeq DEF NoSession, Sessions

LEMMA SocketOpensOrder == ASSUME Order, SocketOpens PROVE Order'
<1>1. /\ UNCHANGED <<catalog, sequence, requests, channel, replica, cursor>>
      /\ link = "down" /\ link' = "up" /\ session' \in {session, NoSession}
  BY DEF SocketOpens, app
<1>2. TypeOK'
  BY <1>1, NoSessionType DEF Order, TypeOK, Sessions
<1>3. channel' = <<>> /\ (session.subscribed => session.waiting = <<>>)
  BY <1>1 DEF Order, SubscribedInv
<1> QED BY <1>1, <1>2, <1>3, QuietOrder

LEMMA RestartOrder == ASSUME Order, DaemonRestarts PROVE Order'
<1>1. /\ sequence' = [generation |-> sequence.generation + 1, headSeq |-> 0, journal |-> <<>>]
      /\ session' = NoSession /\ link' = "down" /\ requests' = <<>> /\ channel' = <<>>
      /\ UNCHANGED <<catalog, replica, cursor>>
  BY DEF DaemonRestarts, app
<1>2. /\ <<>> \in Seq(ListRequests) /\ <<>> \in Seq(Messages) /\ <<>> \in Seq(Entries)
      /\ sequence.generation \in Nat
  BY EmptySeq, PositionTypes DEF Order
<1>3. TypeOK'
  BY <1>1, <1>2, NoSessionType DEF Order, TypeOK, Sessions
<1>4. JournalInv' /\ SubscribedInv' /\ PendingInv'
  BY <1>1 DEF JournalInv, Aligned, SubscribedInv, PendingInv, NoSession
<1>5. ChannelInv'
  BY <1>1, NothingSent DEF ChannelInv
<1>6. CursorInv'
  <2>1. cursor # None => /\ cursor.generation \in Nat
                         /\ cursor.generation <= sequence.generation
    BY DEF Order, CursorInv, TypeOK, Cursors
  <2>2. /\ sequence'.generation = sequence.generation + 1 /\ sequence'.headSeq = 0
        /\ session'.answering = None
    BY <1>1 DEF NoSession
  <2>3. cursor # None =>
          cursor.generation <= sequence'.generation /\ cursor.generation # sequence'.generation
    BY <1>2, <2>1, <2>2
  <2>4. At' = 0 /\ Answered' = 0
    BY <1>1, <2>2, <2>3 DEF At, Answered
  <2> QED BY <1>1, <2>3, <2>4 DEF CursorInv
<1> QED BY <1>3, <1>4, <1>5, <1>6 DEF Order

(***************************************************************************)
(* The handler subscribes and answers.                                     *)
(***************************************************************************)
LEMMA SubscribeEffect ==
  ASSUME TypeOK, subscribe
  PROVE  LET request == session.waiting[1]
         IN  /\ session.waiting # <<>> /\ session.answering = None
             /\ request \in ListRequests
             /\ session'.answering = [sync |-> synchronize(request.cursor),
                                      live |-> request.live, pending |-> <<>>]
             /\ session'.answering \in Answering /\ session'.answering # None
             /\ session'.answering.sync = synchronize(request.cursor)
             /\ synchronize(request.cursor) \in Syncs
             /\ synchronize(request.cursor).head = headCursor
             /\ session'.answering.pending = <<>>
             /\ session'.waiting = Tail(session.waiting)
             /\ session'.subscribed = session.subscribed
             /\ session' \in Sessions
             /\ UNCHANGED <<catalog, sequence, link, requests, channel, replica, cursor>>
<1> DEFINE request == session.waiting[1]
           answer == [sync |-> synchronize(request.cursor), live |-> request.live,
                      pending |-> <<>>]
<1>1. /\ session \in Sessions /\ session.waiting # <<>> /\ session.answering = None
      /\ session' = [session EXCEPT !.waiting = Tail(@), !.answering = answer]
      /\ UNCHANGED <<catalog, sequence, link, requests, channel, replica, cursor>>
  BY DEF TypeOK, Sessions, subscribe, network, app
<1>2. request \in ListRequests /\ Tail(session.waiting) \in Seq(ListRequests)
  BY <1>1, HeadTailProperties DEF Sessions
<1>3. /\ synchronize(request.cursor) \in Syncs
      /\ synchronize(request.cursor).head = headCursor /\ request.live \in BOOLEAN
  BY <1>2, SyncType DEF ListRequests
<1> HIDE DEF request
<1>4. /\ answer \in Answering /\ answer.sync = synchronize(request.cursor)
      /\ answer.pending = <<>>
  BY <1>3, EmptySeq DEF Answering
<1> HIDE DEF answer
<1>5. /\ session'.answering = answer /\ session'.waiting = Tail(session.waiting)
      /\ session'.subscribed = session.subscribed /\ session' \in Sessions
  BY <1>1, <1>2, <1>4 DEF Sessions
<1> QED BY <1>1, <1>2, <1>3, <1>4, <1>5, FeedNoneAssumption DEF request, answer

LEMMA SubscribeOrder == ASSUME Order, subscribe PROVE Order'
<1> DEFINE request == session.waiting[1]
<1>1. TypeOK /\ session' \in Sessions
      /\ session.waiting # <<>> /\ session.answering = None
      /\ session'.answering # None
      /\ session'.answering.sync.head = headCursor
      /\ session'.answering.pending = <<>>
      /\ session'.subscribed = session.subscribed
      /\ UNCHANGED <<catalog, sequence, link, requests, channel, replica, cursor>>
  BY SubscribeEffect DEF Order
<1>2. TypeOK'
  BY <1>1 DEF TypeOK, Sessions
<1>3. ~session'.subscribed
  BY <1>1 DEF Order, SubscribedInv
<1>4. Answered' = Answered /\ At' = At
  BY <1>1 DEF Answered, At, headCursor
<1>5. JournalInv' /\ SubscribedInv' /\ ChannelInv' /\ CursorInv'
  BY <1>1, <1>3, <1>4 DEF Order, JournalInv, SubscribedInv, ChannelInv, CursorInv
<1>6. PendingInv'
  <2>1. sequence.headSeq \in Nat
    BY <1>1, PositionTypes
  <2>2. headCursor.seq + 0 = sequence.headSeq /\ headCursor.generation = sequence.generation
    BY <2>1 DEF headCursor
  <2> QED BY <1>1, <2>1, <2>2 DEF PendingInv
<1> QED BY <1>2, <1>5, <1>6 DEF Order

Response == [kind |-> "list", sync |-> session.answering.sync, live |-> session.answering.live]

LEMMA RespondEffect ==
  ASSUME Order, Respond
  PROVE  /\ session.answering \in Answering /\ session.answering # None
         /\ Response \in ListAnswers
         /\ session'.answering = None /\ session'.waiting = session.waiting
         /\ session'.subscribed = Owned /\ session' \in Sessions
         /\ IF link = "down" THEN channel' = <<>>
            ELSE IF Owned THEN channel' = Append(channel, Response) \o session.answering.pending
            ELSE channel' = Append(channel, Response)
         /\ UNCHANGED <<catalog, sequence, link, requests, replica, cursor>>
<1> DEFINE answer == session.answering
           late == later(answer.pending, answer.sync.head.seq)
<1>1. /\ session \in Sessions /\ answer \in Answering /\ answer # None
      /\ session' = [session EXCEPT !.answering = None, !.subscribed = Owned]
      /\ emit(<<Response>> \o IF Owned THEN late ELSE <<>>)
      /\ UNCHANGED <<catalog, sequence, link, requests, replica, cursor>>
  BY DEF Order, TypeOK, Sessions, Respond, app, Response
<1>2. Response \in ListAnswers /\ Response \in Messages
  BY <1>1 DEF Response, ListAnswers, Answering, Messages
<1>3. late = answer.pending
  <2>1. answer.pending \in Seq(Updates) /\ answer.sync.head.seq \in Nat
    BY <1>1 DEF Answering, Syncs, Cursors
  <2>2. \A i \in DOMAIN answer.pending :
          answer.pending[i].head = [generation |-> sequence.generation,
                                    seq |-> answer.sync.head.seq + i]
    BY <1>1 DEF Order, PendingInv
  <2>3. ASSUME NEW i \in DOMAIN answer.pending
        PROVE  answer.pending[i].head.seq > answer.sync.head.seq
    <3> DEFINE pending == answer.pending
               from == answer.sync.head.seq
    <3>1. /\ pending \in Seq(Updates) /\ i \in DOMAIN pending /\ from \in Nat
          /\ pending[i].head = [generation |-> sequence.generation, seq |-> from + i]
      BY <2>1, <2>2
    <3> HIDE DEF answer, pending, from
    <3>2. i \in Nat \ {0} /\ pending[i].head.seq = from + i
      BY <3>1
    <3>3. pending[i].head.seq > from
      BY <3>1, <3>2
    <3> QED BY <3>3 DEF pending, from
  <2> HIDE DEF answer
  <2> QED BY <2>1, <2>3, LaterAll
<1> HIDE DEF late
<1>4. /\ session'.answering = None /\ session'.waiting = session.waiting
      /\ session'.subscribed = Owned /\ session' \in Sessions
  BY <1>1 DEF Sessions, Owned
<1>5. /\ channel \in Seq(Messages) /\ answer.pending \in Seq(Messages)
  BY <1>1, SeqMonotonic DEF Order, TypeOK, Answering, Messages
<1>6. /\ channel \o (<<Response>> \o <<>>) = Append(channel, Response)
      /\ channel \o (<<Response>> \o answer.pending)
           = Append(channel, Response) \o answer.pending
  <2>1. <<Response>> \in Seq(Messages) /\ <<Response>> \o <<>> = <<Response>>
    BY <1>2
  <2>2. channel \o <<Response>> = Append(channel, Response)
    BY <1>2, <1>5
  <2>3. channel \o (<<Response>> \o answer.pending) = (channel \o <<Response>>) \o answer.pending
    <3> DEFINE one == <<Response>>
               rest == answer.pending
    <3>1. one \in Seq(Messages) /\ rest \in Seq(Messages)
      BY <1>5, <2>1
    <3> HIDE DEF one, rest
    <3>2. (channel \o one) \o rest = channel \o (one \o rest)
      BY <1>5, <3>1, ConcatAssociative
    <3> QED BY <3>2 DEF one, rest
  <2> QED BY <2>1, <2>2, <2>3
<1> QED BY <1>1, <1>2, <1>3, <1>4, <1>6 DEF emit

LEMMA RespondOrder == ASSUME Order, Respond PROVE Order'
<1> DEFINE answer == session.answering
           from == answer.sync.head.seq
           sent == Append(channel, Response)
<1>1. /\ TypeOK /\ answer \in Answering /\ answer # None /\ Response \in Messages
      /\ answer.pending \in Seq(Updates)
      /\ session'.answering = None /\ session'.waiting = session.waiting
      /\ session'.subscribed = Owned /\ session' \in Sessions
      /\ IF link = "down" THEN channel' = <<>>
         ELSE IF Owned THEN channel' = sent \o answer.pending ELSE channel' = sent
      /\ UNCHANGED <<catalog, sequence, link, requests, replica, cursor>>
  BY RespondEffect DEF Order, Messages, Answering
<1>2. Response.kind = "list" /\ HeadOf(Response) = answer.sync.head
  BY DEF Response, HeadOf
<1>3. /\ from \in Nat /\ answer.sync.head.generation = sequence.generation
      /\ Len(answer.pending) \in Nat
      /\ from + Len(answer.pending) <= sequence.headSeq
      /\ Owned => from + Len(answer.pending) = sequence.headSeq
      /\ \A i \in DOMAIN answer.pending :
           answer.pending[i].head = [generation |-> sequence.generation, seq |-> from + i]
  <2>1. from \in Nat
    BY <1>1 DEF Answering, Syncs, Cursors
  <2>2. Len(answer.pending) \in Nat
    BY <1>1
  <2> QED BY <1>1, <2>1, <2>2 DEF Order, PendingInv
<1>4. Answered = from /\ At' = At /\ Answered' = sequence.headSeq
  BY <1>1 DEF Answered, At
<1>5. /\ sequence.headSeq \in Nat /\ sequence.generation \in Nat /\ At \in Nat
      /\ At <= from /\ from <= sequence.headSeq /\ At <= sequence.headSeq
  BY <1>1, <1>3, <1>4, PositionTypes, AnsweredBound DEF Order, CursorInv
<1>6. /\ channel \in Seq(Messages) /\ Chain(channel)
      /\ Within(channel, sequence.generation, At, from)
  BY <1>1, <1>4 DEF TypeOK, Order, ChannelInv
<1> HIDE DEF answer, from
<1>7. /\ sent \in Seq(Messages) /\ sent # <<>> /\ Chain(sent)
      /\ Within(sent, sequence.generation, At, from) /\ EndsAt(sent, from)
  <2>1. HeadOf(Response).seq = from /\ HeadOf(Response).generation = sequence.generation
    BY <1>2, <1>3 DEF from
  <2>2. from <= from /\ Response.kind # "update"
    BY <1>2, <1>3
  <2> QED BY <1>1, <1>3, <1>5, <1>6, <2>1, <2>2, SentAppend
<1> HIDE DEF sent
<1>8. /\ channel' \in Seq(Messages) /\ Chain(channel')
      /\ Within(channel', sequence.generation, At, sequence.headSeq)
      /\ Owned => EndsAt(channel', sequence.headSeq)
  <2>1. CASE link = "down"
    BY <1>1, <2>1, NothingSent, EmptySeq
  <2>2. CASE link # "down" /\ Owned
    <3>1. from + Len(answer.pending) = sequence.headSeq /\ channel' = sent \o answer.pending
      BY <1>1, <1>3, <2>2
    <3> QED BY <1>1, <1>3, <1>5, <1>7, <2>2, <3>1, SentConcat
  <2>3. CASE link # "down" /\ ~Owned
    <3>1. Within(sent, sequence.generation, At, sequence.headSeq)
      BY <1>3, <1>5, <1>7, WithinWider
    <3> QED BY <1>1, <1>7, <2>3, <3>1
  <2> QED BY <2>1, <2>2, <2>3
<1>9. TypeOK'
  BY <1>1, <1>8 DEF TypeOK, Sessions
<1>10. JournalInv' /\ SubscribedInv' /\ PendingInv'
  BY <1>1 DEF Order, JournalInv, SubscribedInv, PendingInv, Owned
<1>11. ChannelInv' /\ CursorInv'
  BY <1>1, <1>4, <1>5, <1>8 DEF Order, ChannelInv, CursorInv
<1> QED BY <1>9, <1>10, <1>11 DEF Order

(***************************************************************************)
(* The app applies what arrives.                                           *)
(***************************************************************************)
LEMMA DeliverEffect ==
  ASSUME TypeOK, Deliver
  PROVE  LET m == channel[1]
         IN  /\ channel # <<>> /\ m \in Messages
             /\ channel' = Tail(channel) /\ UNCHANGED <<catalog, sequence, session, link>>
             /\ \/ requests' = requests
                \/ requests' = Append(requests, Request) /\ cursor' = cursor
             /\ \/ UNCHANGED <<replica, cursor>>
                \/ /\ m \in ListAnswers /\ cursor' = m.sync.head
                   /\ replica' = [n \in Names |->
                        IF m.sync.labels[n] # None THEN m.sync.labels[n]
                        ELSE IF m.sync.snapshot \/ n \in m.sync.removals THEN None
                        ELSE replica[n]]
                \/ /\ m \in Updates /\ Follows(m.head) /\ cursor' = m.head
                   /\ replica' = applyChange(replica, m.change)
<1> DEFINE m == channel[1]
<1>1. /\ channel # <<>> /\ m \in Messages
      /\ channel' = Tail(channel) /\ UNCHANGED <<catalog, sequence, session, link>>
      /\ IF link = "feed" THEN applyList(m) \/ applyUpdate(m)
         ELSE UNCHANGED <<requests, replica, cursor>>
  BY ChannelHead DEF Deliver, daemon, app
<1> HIDE DEF m
<1>2. CASE link = "feed" /\ applyList(m)
  <2>1. m \in ListAnswers /\ requests' = requests
    BY <1>1, <1>2 DEF applyList, Messages, Updates
  <2>2. CASE m.live
    <3>1. \A n \in Names : m.sync.labels[n] # None \/ m.sync.labels[n] = None
      OBVIOUS
    <3>2. cursor' = m.sync.head /\ replica' = [n \in Names |->
                        IF m.sync.labels[n] # None THEN m.sync.labels[n]
                        ELSE IF m.sync.snapshot \/ n \in m.sync.removals THEN None
                        ELSE replica[n]]
      BY <1>2, <2>2 DEF applyList
    <3> QED BY <1>1, <2>1, <3>2 DEF m
  <2>3. CASE ~m.live
    <3>1. UNCHANGED <<replica, cursor>>
      BY <1>2, <2>3 DEF applyList, app
    <3> QED BY <1>1, <2>1, <3>1 DEF m
  <2> QED BY <2>2, <2>3
<1>3. CASE link = "feed" /\ applyUpdate(m)
  <2>1. m \in Updates
    BY <1>1, <1>3 DEF applyUpdate, Messages, ListAnswers
  <2>2. CASE Follows(m.head)
    BY <1>1, <1>3, <2>1, <2>2 DEF applyUpdate, m
  <2>3. CASE ~Follows(m.head)
    BY <1>1, <1>3, <2>3 DEF applyUpdate, app, m
  <2> QED BY <2>2, <2>3
<1>4. CASE link # "feed"
  BY <1>1, <1>4 DEF m
<1> QED BY <1>1, <1>2, <1>3, <1>4

\* The app goes to the message that it applies, or stays behind it.
LEMMA DeliverCursor ==
  ASSUME Order, Deliver
  PROVE  LET head == HeadOf(channel[1])
         IN  /\ cursor' = cursor \/ cursor' = head
             /\ head \in Cursors /\ head.generation = sequence.generation
             /\ At <= head.seq /\ head.seq <= Answered
<1>1. channel # <<>> /\ channel[1] \in Messages
  BY DeliverEffect DEF Order
<1>2. 1 \in DOMAIN channel
  BY <1>1 DEF Order, TypeOK
<1>3. cursor' = cursor \/ cursor' = HeadOf(channel[1])
  BY DeliverEffect DEF Order, HeadOf, ListAnswers, Updates
<1> QED BY <1>1, <1>2, <1>3, HeadType DEF Order, ChannelInv, Within

LEMMA DeliverOrder == ASSUME Order, Deliver PROVE Order'
<1> DEFINE head == HeadOf(channel[1])
<1>1. /\ TypeOK /\ channel # <<>> /\ channel[1] \in Messages
      /\ channel' = Tail(channel) /\ UNCHANGED <<catalog, sequence, session, link>>
  BY DeliverEffect DEF Order
<1>2. /\ replica' \in Catalogs /\ cursor' \in {None} \cup Cursors
      /\ requests' \in Seq(ListRequests)
  BY <1>1, AppType DEF Deliver, TypeOK, app
<1>3. /\ channel \in Seq(Messages) /\ Tail(channel) \in Seq(Messages)
      /\ Chain(channel) /\ Within(channel, sequence.generation, At, Answered)
      /\ session.subscribed => EndsAt(channel, sequence.headSeq)
  BY <1>1, ChannelHead DEF TypeOK, Order, ChannelInv
<1>4. /\ Chain(Tail(channel)) /\ Within(Tail(channel), sequence.generation, head.seq, Answered)
      /\ session.subscribed => EndsAt(Tail(channel), sequence.headSeq)
  BY <1>1, <1>3, SentTail
<1>5. TypeOK'
  BY <1>1, <1>2, <1>3 DEF TypeOK
<1>6. /\ cursor' = cursor \/ cursor' = head
      /\ head \in Cursors /\ head.generation = sequence.generation
      /\ At <= head.seq /\ head.seq <= Answered
      /\ head.seq \in Nat /\ At \in Nat /\ Answered \in Nat /\ sequence.generation \in Nat
  BY <1>1, DeliverCursor, HeadType, PositionTypes
<1> HIDE DEF head
<1>7. Answered' = Answered /\ (At' = At \/ At' = head.seq)
  BY <1>1, <1>6, FeedNoneAssumption DEF Answered, At
<1>8. At' \in Nat /\ At' <= head.seq /\ At' <= Answered /\ Answered <= Answered
  BY <1>6, <1>7
<1>9. Within(channel', sequence.generation, At', Answered)
  BY <1>1, <1>3, <1>4, <1>6, <1>8, WithinWider
<1>10. ChannelInv'
  BY <1>1, <1>4, <1>7, <1>9 DEF ChannelInv
<1>11. CursorInv'
  BY <1>1, <1>6, <1>7, <1>8 DEF Order, CursorInv
<1>12. JournalInv' /\ SubscribedInv' /\ PendingInv'
  BY <1>1 DEF Order, JournalInv, SubscribedInv, PendingInv, Owned
<1> QED BY <1>5, <1>10, <1>11, <1>12 DEF Order

(***************************************************************************)
(* The feed has no gap, and the replica never falls back.                  *)
(***************************************************************************)
LEMMA StutterOrder == ASSUME Order, UNCHANGED vars PROVE Order'
BY DEF vars, Order, TypeOK, JournalInv, SubscribedInv, PendingInv, ChannelInv, CursorInv,
   Owned, At, Answered

LEMMA NextOrder == ASSUME Order, [Next]_vars PROVE Order'
<1>1. ASSUME NEW q \in Requests, publish(q) PROVE Order'
  BY <1>1, PublishOrder
<1> QED BY <1>1, ReceiveOrder, SubscribeOrder, RespondOrder, DisconnectOrder, AskOrder,
        DeliverOrder, SocketClosesOrder, SocketOpensOrder, RestartOrder, StutterOrder DEF Next

THEOREM FeedInOrder == Spec => []Order
BY InitOrder, NextOrder, PTL DEF Spec

\* The variables have their types, and the messages of both directions, the
\* handlers that wait and what they hold back theirs.
THEOREM FeedTyped == Spec => []TypeOK
<1>1. Order => TypeOK
  BY DEF Order
<1> QED BY <1>1, FeedInOrder, PTL

\* On the wire every update follows the message before it, whichever
\* subscription, late answer or held-back change (onChange, Respond) sent it.
THEOREM FeedHasNoGap == Spec => []FeedContiguous
<1>1. ASSUME Order PROVE FeedContiguous
  <2> SUFFICES ASSUME NEW i \in 1..(Len(channel) - 1), channel[i + 1].kind = "update"
               PROVE  channel[i + 1].head = [HeadOf(channel[i]) EXCEPT !.seq = @ + 1]
    BY DEF FeedContiguous, HeadOf
  <2>1. /\ channel \in Seq(Messages) /\ Chain(channel)
        /\ Within(channel, sequence.generation, At, Answered)
    BY <1>1 DEF Order, TypeOK, ChannelInv
  <2>2. i \in DOMAIN channel /\ i + 1 \in DOMAIN channel
    BY <2>1
  <2>3. HeadOf(channel[i]) \in Cursors /\ HeadOf(channel[i + 1]) \in Cursors
    BY <2>1, <2>2, HeadType
  <2>4. HeadOf(channel[i + 1]).seq = HeadOf(channel[i]).seq + 1
    BY <2>1, <2>2 DEF Chain
  <2>5. HeadOf(channel[i + 1]).generation = HeadOf(channel[i]).generation
    BY <2>1, <2>2 DEF Within
  <2>6. channel[i + 1].head = HeadOf(channel[i + 1])
    BY DEF HeadOf
  <2> QED BY <2>3, <2>4, <2>5, <2>6 DEF Cursors
<1> QED BY <1>1, FeedInOrder, PTL

LEMMA OnlyDeliverMoves == ASSUME [Next]_vars, cursor' # cursor PROVE Deliver
<1>1. ASSUME NEW q \in Requests, publish(q) PROVE cursor' = cursor
  BY <1>1 DEF publish, app
<1>2. ASSUME Receive PROVE cursor' = cursor
  BY <1>2 DEF Receive, app
<1>3. ASSUME subscribe \/ Respond PROVE cursor' = cursor
  BY <1>3 DEF subscribe, Respond, app
<1>4. ASSUME disconnect \/ connect \/ refresh PROVE cursor' = cursor
  BY <1>4 DEF disconnect, connect, refresh, app
<1>5. ASSUME SocketCloses \/ SocketOpens \/ DaemonRestarts PROVE cursor' = cursor
  BY <1>5 DEF SocketCloses, SocketOpens, DaemonRestarts, app
<1>6. ASSUME UNCHANGED vars PROVE cursor' = cursor
  BY <1>6 DEF vars
<1> QED BY <1>1, <1>2, <1>3, <1>4, <1>5, <1>6 DEF Next

\* Whatever arrives, in whichever order refreshes, restarts and new sockets put
\* it, the replica's cursor only advances (applyList, applyUpdate).
THEOREM ReplicaNeverFallsBack == Spec => CursorAdvances
<1> DEFINE Advances == (cursor # None /\ cursor' # cursor) =>
             \/ cursor'.generation > cursor.generation
             \/ cursor'.generation = cursor.generation /\ cursor'.seq > cursor.seq
<1>1. ASSUME Order, [Next]_vars PROVE Advances
  <2> SUFFICES ASSUME cursor # None, cursor' # cursor
               PROVE  \/ cursor'.generation > cursor.generation
                      \/ cursor'.generation = cursor.generation /\ cursor'.seq > cursor.seq
    OBVIOUS
  <2>1. /\ cursor' \in Cursors /\ cursor'.generation = sequence.generation
        /\ At <= cursor'.seq
    BY <1>1, OnlyDeliverMoves, DeliverCursor
  <2>2. cursor \in Cursors /\ cursor.generation <= sequence.generation
    BY <1>1 DEF Order, TypeOK, CursorInv
  <2>3. cursor.generation = sequence.generation => At = cursor.seq
    BY DEF At
  <2>4. cursor.generation = cursor'.generation => cursor.seq # cursor'.seq
    BY <2>1, <2>2 DEF Cursors
  <2>5. /\ cursor.generation \in Nat /\ cursor.seq \in Nat
        /\ cursor'.generation \in Nat /\ cursor'.seq \in Nat
    BY <2>1, <2>2 DEF Cursors
  <2> QED BY <2>1, <2>2, <2>3, <2>4, <2>5
<1> QED BY <1>1, FeedInOrder, PTL DEF Spec, CursorAdvances

(***************************************************************************)
(* What the catalog was at each position of the sequence, and what the     *)
(* fold of the journal makes of it.                                        *)
(***************************************************************************)
Histories == [Nat -> Catalogs]

\* A change is told as it was made.
Tells(hist, seq, change) == seq # 0 /\ hist[seq] = applyChange(hist[seq - 1], change)

Covers(held, cat) == \A n \in Names : cat[n] # None => held[n] = cat[n]

\* What makes a replica that covers one of the catalogs since..head cover head.
Patches(net, hist, since, head) ==
  \A n \in Names :
    hist[head][n] # None =>
      \/ net.labels[n] = hist[head][n]
      \/ /\ net.labels[n] = None /\ n \notin net.removals
         /\ \A j \in since..head : hist[j][n] = hist[head][n]

LEMMA FoldStep ==
  ASSUME NEW net \in Nets, NEW entry \in Entries, NEW old \in Catalogs,
         NEW n \in Names, applyChange(old, entry.change)[n] # None
  PROVE  LET new == foldChange(net, entry)
         IN  \/ new.labels[n] = applyChange(old, entry.change)[n]
             \/ /\ old[n] = applyChange(old, entry.change)[n]
                /\ new.labels[n] = net.labels[n]
                /\ n \notin net.removals => n \notin new.removals
<1> DEFINE c == entry.change
           dropped == dropName(net, c.from)
<1>1. /\ c.from \in Names /\ c.name \in Names /\ c.color \in {None} \cup Colors
      /\ old \in [Names -> {None} \cup Colors]
      /\ net \in [labels : [Names -> {None} \cup Colors], removals : SUBSET Names]
  BY DEF Entries, Changes, Nets, Catalogs
<1>2. applyChange(old, c) = [[old EXCEPT ![c.from] = None] EXCEPT ![c.name] = c.color]
  BY DEF applyChange
<1> HIDE DEF c
<1>3. dropped \in [labels : [Names -> {None} \cup Colors], removals : SUBSET Names]
  BY <1>1 DEF dropName
<1>4. n # c.from => dropped.labels[n] = net.labels[n]
                    /\ (n \in dropped.removals <=> n \in net.removals)
  BY <1>1 DEF dropName
<1> HIDE DEF dropped
<1>5. CASE c.color = None
  <2>1. n # c.from /\ n # c.name
    BY <1>1, <1>2, <1>5 DEF c
  <2>2. foldChange(net, entry) = dropped
    BY <1>5 DEF foldChange, c, dropped
  <2> QED BY <1>1, <1>2, <1>4, <2>1, <2>2 DEF c
<1>6. CASE c.color # None /\ n = c.name
  <2> DEFINE before == IF c.from # c.name THEN dropped ELSE net
  <2>1. before \in [labels : [Names -> {None} \cup Colors], removals : SUBSET Names]
    BY <1>1, <1>3
  <2>2. foldChange(net, entry)
          = [before EXCEPT !.labels[c.name] = c.color, !.removals = @ \ {c.name}]
    BY <1>6 DEF foldChange, c, dropped
  <2> HIDE DEF before
  <2>3. foldChange(net, entry).labels[n] = c.color
    BY <1>1, <1>6, <2>1, <2>2
  <2>4. applyChange(old, c)[n] = c.color
    BY <1>1, <1>2, <1>6
  <2> QED BY <2>3, <2>4 DEF c
<1>7. CASE c.color # None /\ n # c.name
  <2> DEFINE before == IF c.from # c.name THEN dropped ELSE net
  <2>1. before \in [labels : [Names -> {None} \cup Colors], removals : SUBSET Names]
    BY <1>1, <1>3
  <2>2. foldChange(net, entry)
          = [before EXCEPT !.labels[c.name] = c.color, !.removals = @ \ {c.name}]
    BY <1>7 DEF foldChange, c, dropped
  <2>3. n # c.from
    BY <1>1, <1>2, <1>7 DEF c
  <2>4. before.labels[n] = net.labels[n] /\ (n \in before.removals <=> n \in net.removals)
    BY <1>4, <2>3
  <2> HIDE DEF before
  <2>5. /\ foldChange(net, entry).labels[n] = before.labels[n]
        /\ n \in foldChange(net, entry).removals <=> n \in before.removals
    BY <1>1, <1>7, <2>1, <2>2
  <2>6. applyChange(old, c)[n] = old[n]
    BY <1>1, <1>2, <1>7, <2>3
  <2> QED BY <2>4, <2>5, <2>6 DEF c
<1> QED BY <1>5, <1>6, <1>7

\* The changes after a position, folded, bring a replica from there to the head.
LEMMA GapPatches ==
  ASSUME NEW journal \in Seq(Entries), NEW head \in Nat, Aligned(journal, head),
         NEW hist \in Histories,
         \A i \in DOMAIN journal : Tells(hist, journal[i].seq, journal[i].change),
         NEW after \in Nat, head - Len(journal) <= after, after <= head
  PROVE  Patches(netChange(journal, after), hist, after, head)
<1> DEFINE n == Len(journal)
           at(i) == IF after < head - n + i THEN head - n + i ELSE after
<1>1. PICK net \in [0..n -> Nets] :
        /\ netChange(journal, after) = net[n]
        /\ net[0] = NoChange
        /\ \A i \in 1..n :
             net[i] = IF journal[i].seq > after THEN foldChange(net[i - 1], journal[i])
                                                ELSE net[i - 1]
  BY NetSteps
<1>2. n \in Nat /\ DOMAIN journal = 1..n /\ n <= head
  BY DEF Aligned
<1>3. \A i \in 1..n : journal[i] \in Entries /\ journal[i].seq = head - n + i
  BY <1>2 DEF Aligned
<1>4. head - n <= after
  OBVIOUS
<1> HIDE DEF n
<1> DEFINE S == {i \in Nat : i <= n => Patches(net[i], hist, after, at(i))}
<1>5. 0 \in S
  <2>1. at(0) = after
    BY <1>2, <1>4
  <2>2. \A j \in after..after : j = after
    OBVIOUS
  <2>3. Patches(NoChange, hist, after, after)
    BY <2>2 DEF Patches, NoChange, NoLabels
  <2> QED BY <1>1, <2>1, <2>3
<1>6. ASSUME NEW i \in Nat, i \in S PROVE i + 1 \in S
  <2>1. SUFFICES ASSUME i + 1 <= n PROVE Patches(net[i + 1], hist, after, at(i + 1))
    OBVIOUS
  <2> DEFINE k == head - n + i
             entry == journal[i + 1]
  <2>2. /\ k \in Nat /\ i + 1 \in 1..n /\ (i + 1) - 1 = i /\ i \in 0..n
        /\ head - n + (i + 1) = k + 1 /\ k + 1 \in Nat /\ (k + 1) - 1 = k
    BY <1>2, <2>1
  <2>3. Patches(net[i], hist, after, at(i)) /\ net[i] \in Nets /\ entry \in Entries
    BY <1>1, <1>2, <1>3, <1>6, <2>1, <2>2
  <2>4. entry.seq = k + 1
    BY <1>3, <2>2
  <2>5. net[i + 1] = IF k + 1 > after THEN foldChange(net[i], entry) ELSE net[i]
    BY <1>1, <2>2, <2>4
  <2>6. /\ k + 1 > after => after <= k /\ at(i) = k /\ at(i + 1) = k + 1
        /\ ~(k + 1 > after) => at(i) = after /\ at(i + 1) = after
    <3> DEFINE v == at(i)
               w == at(i + 1)
    <3>1. v = IF after < k THEN k ELSE after
      OBVIOUS
    <3>2. w = IF after < k + 1 THEN k + 1 ELSE after
      BY <2>2, Zenon
    <3>3. k \in Nat /\ after \in Nat
      BY <2>2
    <3> HIDE DEF v, w, k
    <3>4. /\ k + 1 > after => after <= k /\ v = k /\ w = k + 1
          /\ ~(k + 1 > after) => v = after /\ w = after
      BY <3>1, <3>2, <3>3
    <3> QED BY <3>4 DEF v, w
  <2>7. hist[k + 1] = applyChange(hist[k], entry.change)
    <3>1. Tells(hist, entry.seq, entry.change)
      BY <1>2, <2>2
    <3> QED BY <2>2, <2>4, <3>1 DEF Tells
  <2>8. hist[k] \in Catalogs
    BY <2>2 DEF Histories
  <2> HIDE DEF k, entry, at, S
  <2>9. CASE k + 1 > after
    <3>1. Patches(net[i], hist, after, k)
      BY <2>3, <2>6, <2>9
    <3>2. \A j \in after..(k + 1) : j \in after..k \/ j = k + 1
      BY <2>2
    <3> SUFFICES ASSUME NEW m \in Names, hist[k + 1][m] # None
                 PROVE  \/ foldChange(net[i], entry).labels[m] = hist[k + 1][m]
                        \/ /\ foldChange(net[i], entry).labels[m] = None
                           /\ m \notin foldChange(net[i], entry).removals
                           /\ \A j \in after..(k + 1) : hist[j][m] = hist[k + 1][m]
      BY <2>5, <2>6, <2>9 DEF Patches
    <3>3. CASE foldChange(net[i], entry).labels[m] = hist[k + 1][m]
      BY <3>3
    <3>4. CASE /\ hist[k][m] = hist[k + 1][m]
               /\ foldChange(net[i], entry).labels[m] = net[i].labels[m]
               /\ m \notin net[i].removals => m \notin foldChange(net[i], entry).removals
      BY <3>1, <3>2, <3>4 DEF Patches
    <3> QED BY <2>3, <2>7, <2>8, <3>3, <3>4, FoldStep
  <2>10. CASE ~(k + 1 > after)
    BY <2>3, <2>5, <2>6, <2>10
  <2> QED BY <2>9, <2>10
<1>7. n \in S
  <2> HIDE DEF S
  <2>1. Nat \subseteq S
    BY <1>5, <1>6, Induction
  <2> QED BY <1>2, <2>1
<1>8. at(n) = head
  BY <1>2
<1> QED BY <1>1, <1>2, <1>7, <1>8

(***************************************************************************)
(* A replica that is in this generation covers the catalog of its cursor's *)
(* position, and what is on its way keeps it so.                           *)
(***************************************************************************)
\* How far the app has come in this generation, or -1.
InGeneration == cursor # None /\ cursor.generation = sequence.generation
Reached == IF InGeneration THEN cursor.seq ELSE -1

\* An answer tells the catalog of its head, in full or from where the app has been.
Truthful(sync, hist, reached) ==
  IF sync.snapshot THEN sync.labels = hist[sync.head.seq]
  ELSE \E since \in Nat : since <= reached /\ Patches(sync, hist, since, sync.head.seq)

MessageTrue(m, hist, reached) ==
  IF m.kind = "list" THEN Truthful(m.sync, hist, reached) ELSE Tells(hist, m.head.seq, m.change)

AllTrue(messages, hist, reached) ==
  \A i \in DOMAIN messages : MessageTrue(messages[i], hist, reached)

JournalTrue(journal, hist) ==
  \A i \in DOMAIN journal : Tells(hist, journal[i].seq, journal[i].change)

Told(hist) ==
  /\ hist[sequence.headSeq] = catalog
  /\ JournalTrue(sequence.journal, hist)
  /\ AllTrue(channel, hist, Reached)
  /\ session.answering # None =>
       /\ Truthful(session.answering.sync, hist, Reached)
       /\ AllTrue(session.answering.pending, hist, Reached)
  /\ InGeneration => Covers(replica, hist[cursor.seq])

\* A request asks from where the app is, or has been.
Asked(r, now) ==
  r.cursor # None =>
    /\ now # None
    /\ \/ r.cursor.generation < now.generation
       \/ r.cursor.generation = now.generation /\ r.cursor.seq <= now.seq

AllAsked(queue, now) == \A i \in DOMAIN queue : Asked(queue[i], now)

AskedInv == AllAsked(requests, cursor) /\ AllAsked(session.waiting, cursor)

Feed == Order /\ AskedInv /\ \E hist \in Histories : Told(hist)

(***************************************************************************)
(* What is true of a message stays true.                                   *)
(***************************************************************************)
Agree(hist, more, h) == \A k \in 0..h : more[k] = hist[k]

LEMMA TellsStays ==
  ASSUME NEW hist, NEW more, NEW h \in Nat, Agree(hist, more, h),
         NEW seq \in Nat, seq <= h, NEW change, Tells(hist, seq, change)
  PROVE  Tells(more, seq, change)
<1>1. seq # 0 => seq - 1 \in 0..h /\ seq \in 0..h
  OBVIOUS
<1> QED BY <1>1 DEF Tells, Agree

LEMMA TruthStays ==
  ASSUME NEW hist, NEW more, NEW h \in Nat, Agree(hist, more, h),
         NEW a \in Int, NEW b \in Int, a <= b,
         NEW sync \in Syncs, sync.head.seq <= h, Truthful(sync, hist, a)
  PROVE  Truthful(sync, more, b)
<1>1. sync.head.seq \in Nat /\ sync.head.seq \in 0..h
  BY DEF Syncs, Cursors
<1>2. CASE sync.snapshot
  BY <1>1, <1>2 DEF Truthful, Agree
<1>3. CASE ~sync.snapshot
  <2>1. PICK since \in Nat : since <= a /\ Patches(sync, hist, since, sync.head.seq)
    BY <1>3 DEF Truthful
  <2>2. since <= b
    BY <2>1
  <2>3. \A j \in since..sync.head.seq : j \in 0..h
    BY <1>1
  <2>4. Patches(sync, more, since, sync.head.seq)
    BY <1>1, <2>1, <2>3 DEF Patches, Agree
  <2> QED BY <1>3, <2>2, <2>4 DEF Truthful
<1> QED BY <1>2, <1>3

LEMMA MessagesStay ==
  ASSUME NEW hist, NEW more, NEW h \in Nat, Agree(hist, more, h),
         NEW a \in Int, NEW b \in Int, a <= b,
         NEW ch \in Seq(Messages), \A i \in DOMAIN ch : HeadOf(ch[i]).seq <= h,
         AllTrue(ch, hist, a)
  PROVE  AllTrue(ch, more, b)
<1> SUFFICES ASSUME NEW i \in DOMAIN ch PROVE MessageTrue(ch[i], more, b)
  BY DEF AllTrue
<1> DEFINE m == ch[i]
<1>1. m \in Messages /\ HeadOf(m).seq <= h /\ MessageTrue(m, hist, a) /\ HeadOf(m).seq \in Nat
  BY HeadType DEF AllTrue
<1> HIDE DEF m
<1>2. CASE m.kind = "list"
  <2>1. m.sync \in Syncs /\ m.sync.head.seq <= h
    BY <1>1, <1>2 DEF Messages, Updates, ListAnswers, HeadOf
  <2> QED BY <1>1, <1>2, <2>1, TruthStays DEF MessageTrue, m
<1>3. CASE m.kind # "list"
  <2>1. m.head.seq <= h /\ m.head.seq \in Nat
    BY <1>1, <1>3 DEF HeadOf
  <2> QED BY <1>1, <1>3, <2>1, TellsStays DEF MessageTrue, m
<1> QED BY <1>2, <1>3

LEMMA AllTrueSame ==
  ASSUME NEW ch, NEW t, SameBut(ch, t), NEW hist, NEW a, AllTrue(ch, hist, a)
  PROVE  AllTrue(t, hist, a)
<1>1. \A i \in DOMAIN ch : MessageTrue(t[i], hist, a)
  BY DEF SameBut, AllTrue, MessageTrue
<1> QED BY <1>1 DEF SameBut, AllTrue

LEMMA AllTrueAppend ==
  ASSUME NEW ch \in Seq(Messages), NEW m \in Messages, NEW hist, NEW a,
         AllTrue(ch, hist, a), MessageTrue(m, hist, a)
  PROVE  AllTrue(Append(ch, m), hist, a)
<1>1. /\ DOMAIN Append(ch, m) = 1..(Len(ch) + 1) /\ DOMAIN ch = 1..Len(ch) /\ Len(ch) \in Nat
      /\ Append(ch, m)[Len(ch) + 1] = m
      /\ \A i \in 1..Len(ch) : Append(ch, m)[i] = ch[i]
  OBVIOUS
<1>2. \A i \in 1..(Len(ch) + 1) : i \in 1..Len(ch) \/ i = Len(ch) + 1
  BY <1>1
<1> QED BY <1>1, <1>2 DEF AllTrue

LEMMA AllTrueConcat ==
  ASSUME NEW ch \in Seq(Messages), NEW s \in Seq(Messages), NEW hist, NEW a,
         AllTrue(ch, hist, a), AllTrue(s, hist, a)
  PROVE  AllTrue(ch \o s, hist, a)
<1> DEFINE n == Len(ch)
           k == Len(s)
           t == ch \o s
<1>1. /\ n \in Nat /\ k \in Nat /\ DOMAIN ch = 1..n /\ DOMAIN s = 1..k /\ DOMAIN t = 1..(n + k)
      /\ \A i \in 1..n : t[i] = ch[i]
      /\ \A i \in (n + 1)..(n + k) : t[i] = s[i - n]
  OBVIOUS
<1> HIDE DEF n, k, t
<1>2. ASSUME NEW i \in 1..(n + k) PROVE MessageTrue(t[i], hist, a)
  <2>1. i \in 1..n \/ (i \in (n + 1)..(n + k) /\ i - n \in 1..k)
    BY <1>1
  <2> QED BY <1>1, <2>1 DEF AllTrue
<1> QED BY <1>1, <1>2 DEF AllTrue, t

LEMMA AllTrueTail ==
  ASSUME NEW ch \in Seq(Messages), ch # <<>>, NEW hist, NEW a, AllTrue(ch, hist, a)
  PROVE  AllTrue(Tail(ch), hist, a) /\ MessageTrue(ch[1], hist, a)
<1>1. /\ Len(ch) \in Nat \ {0} /\ DOMAIN ch = 1..Len(ch) /\ DOMAIN Tail(ch) = 1..(Len(ch) - 1)
      /\ \A i \in 1..(Len(ch) - 1) : Tail(ch)[i] = ch[i + 1] /\ i + 1 \in 1..Len(ch)
  BY HeadTailProperties
<1> QED BY <1>1 DEF AllTrue

(***************************************************************************)
(* Requests ask from where the app is.                                     *)
(***************************************************************************)
\* The cursor of an app moves up.
NotBefore(now, next) ==
  now # None =>
    /\ next # None
    /\ \/ now.generation < next.generation
       \/ now.generation = next.generation /\ now.seq <= next.seq

LEMMA AskedStays ==
  ASSUME NEW now \in {None} \cup Cursors, NEW next \in {None} \cup Cursors, NotBefore(now, next),
         NEW queue \in Seq(ListRequests), AllAsked(queue, now)
  PROVE  AllAsked(queue, next)
<1> SUFFICES ASSUME NEW i \in DOMAIN queue, queue[i].cursor # None
             PROVE  /\ next # None
                    /\ \/ queue[i].cursor.generation < next.generation
                       \/ /\ queue[i].cursor.generation = next.generation
                          /\ queue[i].cursor.seq <= next.seq
  BY DEF AllAsked, Asked
<1> DEFINE c == queue[i].cursor
<1>1. c \in Cursors
  <2>1. queue[i] \in ListRequests
    OBVIOUS
  <2> QED BY <2>1 DEF ListRequests
<1>2. /\ now # None
      /\ \/ c.generation < now.generation
         \/ c.generation = now.generation /\ c.seq <= now.seq
  BY DEF AllAsked, Asked
<1> HIDE DEF c
<1>3. /\ c.generation \in Nat /\ c.seq \in Nat /\ now.generation \in Nat /\ now.seq \in Nat
      /\ next # None /\ next.generation \in Nat /\ next.seq \in Nat
  BY <1>1, <1>2 DEF NotBefore, Cursors
<1>4. \/ now.generation < next.generation
      \/ now.generation = next.generation /\ now.seq <= next.seq
  BY <1>2 DEF NotBefore
<1>5. \/ c.generation < next.generation
      \/ c.generation = next.generation /\ c.seq <= next.seq
  <2>1. ASSUME NEW g1 \in Nat, NEW g2 \in Nat, NEW g3 \in Nat,
               NEW s1 \in Nat, NEW s2 \in Nat, NEW s3 \in Nat,
               g1 < g2 \/ (g1 = g2 /\ s1 <= s2), g2 < g3 \/ (g2 = g3 /\ s2 <= s3)
        PROVE  g1 < g3 \/ (g1 = g3 /\ s1 <= s3)
    BY <2>1
  <2> QED BY <1>2, <1>3, <1>4, <2>1
<1> QED BY <1>3, <1>5 DEF c

LEMMA AskedAppend ==
  ASSUME NEW queue \in Seq(ListRequests), NEW r \in ListRequests, NEW now,
         AllAsked(queue, now), Asked(r, now)
  PROVE  AllAsked(Append(queue, r), now)
<1>1. /\ DOMAIN Append(queue, r) = 1..(Len(queue) + 1) /\ DOMAIN queue = 1..Len(queue)
      /\ Append(queue, r)[Len(queue) + 1] = r /\ Len(queue) \in Nat
      /\ \A i \in 1..Len(queue) : Append(queue, r)[i] = queue[i]
  OBVIOUS
<1>2. \A i \in 1..(Len(queue) + 1) : i \in 1..Len(queue) \/ i = Len(queue) + 1
  BY <1>1
<1> QED BY <1>1, <1>2 DEF AllAsked

LEMMA AskedTail ==
  ASSUME NEW queue \in Seq(ListRequests), queue # <<>>, NEW now, AllAsked(queue, now)
  PROVE  AllAsked(Tail(queue), now) /\ Asked(queue[1], now)
<1>1. /\ Len(queue) \in Nat \ {0} /\ DOMAIN queue = 1..Len(queue)
      /\ DOMAIN Tail(queue) = 1..(Len(queue) - 1)
      /\ \A i \in 1..(Len(queue) - 1) : Tail(queue)[i] = queue[i + 1] /\ i + 1 \in 1..Len(queue)
  BY HeadTailProperties
<1> QED BY <1>1 DEF AllAsked

LEMMA AskedNow == ASSUME TypeOK PROVE Asked(Request, cursor)
<1>1. cursor # None => cursor.generation \in Nat /\ cursor.seq \in Nat
  BY DEF TypeOK, Cursors
<1> QED BY <1>1 DEF Asked, Request

LEMMA AskedAbandoned ==
  ASSUME NEW queue \in Seq(ListRequests), NEW now, AllAsked(queue, now)
  PROVE  AllAsked(abandoned(queue), now)
<1>1. /\ DOMAIN abandoned(queue) = DOMAIN queue
      /\ \A i \in DOMAIN queue : abandoned(queue)[i].cursor = queue[i].cursor
  BY AbandonedType
<1> QED BY <1>1 DEF AllAsked, Asked

LEMMA AskedNone == ASSUME NEW now PROVE AllAsked(<<>>, now)
BY DEF AllAsked

(***************************************************************************)
(* Every step keeps the feed true.                                         *)
(***************************************************************************)
LEMMA FeedBounds ==
  ASSUME Order
  PROVE  /\ sequence.headSeq \in Nat /\ Reached \in Int /\ channel \in Seq(Messages)
         /\ InGeneration => cursor.seq \in 0..sequence.headSeq /\ Reached = At
         /\ \A i \in DOMAIN channel : HeadOf(channel[i]).seq <= sequence.headSeq
         /\ session.answering # None =>
              /\ session.answering.sync \in Syncs
              /\ session.answering.sync.head.seq <= sequence.headSeq
              /\ session.answering.pending \in Seq(Messages)
              /\ \A i \in DOMAIN session.answering.pending :
                   HeadOf(session.answering.pending[i]).seq <= sequence.headSeq
<1>1. /\ sequence.headSeq \in Nat /\ Answered \in Nat /\ At \in Nat
      /\ Answered <= sequence.headSeq /\ At <= Answered /\ channel \in Seq(Messages)
  BY AnsweredBound, PositionTypes DEF Order, CursorInv, TypeOK
<1>2. ASSUME InGeneration PROVE cursor.seq \in 0..sequence.headSeq /\ Reached = At
  BY <1>1, <1>2 DEF InGeneration, At, Reached
<1>3. Reached \in Int
  BY <1>1, <1>2 DEF Reached
<1>4. ASSUME NEW i \in DOMAIN channel PROVE HeadOf(channel[i]).seq <= sequence.headSeq
  <2>1. HeadOf(channel[i]).seq <= Answered /\ HeadOf(channel[i]).seq \in Nat
    BY <1>1, HeadType DEF Order, ChannelInv, Within
  <2> QED BY <1>1, <2>1
<1>5. ASSUME session.answering # None
      PROVE  /\ session.answering.sync \in Syncs
             /\ session.answering.sync.head.seq <= sequence.headSeq
             /\ session.answering.pending \in Seq(Messages)
             /\ \A i \in DOMAIN session.answering.pending :
                  HeadOf(session.answering.pending[i]).seq <= sequence.headSeq
  <2> DEFINE pending == session.answering.pending
             from == session.answering.sync.head.seq
  <2>1. session.answering \in Answering
    BY <1>5 DEF Order, TypeOK
  <2>2. session.answering.sync \in Syncs /\ pending \in Seq(Updates) /\ from = Answered
    BY <1>5, <2>1 DEF Answering, Answered
  <2>3. from + Len(pending) <= sequence.headSeq
    BY <1>5 DEF Order, PendingInv
  <2>4. \A i \in DOMAIN pending :
          pending[i].head = [generation |-> sequence.generation, seq |-> from + i]
    BY <1>5 DEF Order, PendingInv
  <2> HIDE DEF pending, from
  <2>5. Len(pending) \in Nat /\ DOMAIN pending = 1..Len(pending)
    BY <2>2
  <2>6. ASSUME NEW i \in DOMAIN pending PROVE HeadOf(pending[i]).seq <= sequence.headSeq
    <3>1. i \in Nat /\ i <= Len(pending) /\ pending[i] \in Updates
      BY <2>2, <2>5
    <3>2. HeadOf(pending[i]).seq = from + i
      <4>1. HeadOf(pending[i]) = pending[i].head
        BY <3>1 DEF HeadOf, Updates
      <4>2. pending[i].head = [generation |-> sequence.generation, seq |-> from + i]
        BY <2>4
      <4>3. pending[i].head.seq = from + i
        BY <4>2
      <4> QED BY <4>1, <4>3
    <3>3. from + i <= from + Len(pending)
      BY <1>1, <2>2, <2>5, <3>1
    <3> QED BY <1>1, <2>2, <2>3, <2>5, <3>1, <3>2, <3>3
  <2>7. pending \in Seq(Messages)
    BY <2>2, SeqMonotonic DEF Messages
  <2> QED BY <1>1, <2>2, <2>6, <2>7 DEF pending, from
<1> QED BY <1>1, <1>2, <1>3, <1>4, <1>5

LEMMA QuietTold ==
  ASSUME TypeOK, NEW hist, Told(hist), UNCHANGED <<catalog, sequence, replica, cursor>>,
         channel' \in {channel, <<>>, ignored(channel)},
         \/ session'.answering = None
         \/ /\ session.answering # None
            /\ session'.answering.sync = session.answering.sync
            /\ session'.answering.pending = session.answering.pending
  PROVE  Told(hist)'
<1>1. InGeneration' = InGeneration /\ Reached' = Reached
  BY DEF InGeneration, Reached
<1>2. channel \in Seq(Messages) /\ AllTrue(channel, hist, Reached)
  BY DEF TypeOK, Told
<1>3. AllTrue(channel', hist, Reached)
  <2>1. CASE channel' = ignored(channel)
    BY <1>2, <2>1, IgnoredType, AllTrueSame
  <2>2. CASE channel' = <<>>
    BY <2>2 DEF AllTrue
  <2> QED BY <1>2, <2>1, <2>2
<1>4. session'.answering # None =>
        /\ Truthful(session'.answering.sync, hist, Reached)
        /\ AllTrue(session'.answering.pending, hist, Reached)
  BY DEF Told
<1> QED BY <1>1, <1>3, <1>4 DEF Told

LEMMA QuietFeed ==
  ASSUME Feed, Order', AskedInv', UNCHANGED <<catalog, sequence, replica, cursor>>,
         channel' \in {channel, <<>>, ignored(channel)},
         \/ session'.answering = None
         \/ /\ session.answering # None
            /\ session'.answering.sync = session.answering.sync
            /\ session'.answering.pending = session.answering.pending
  PROVE  Feed'
<1>1. PICK hist \in Histories : Told(hist)
  BY DEF Feed
<1>2. TypeOK
  BY DEF Feed, Order
<1>3. Told(hist)'
  BY <1>1, <1>2, QuietTold
<1> QED BY <1>3 DEF Feed

LEMMA InitFeed == Init => Feed
<1> SUFFICES ASSUME Init PROVE Feed
  OBVIOUS
<1> DEFINE hist == [k \in Nat |-> NoLabels]
<1>1. Order /\ hist \in Histories
  BY InitOrder DEF Histories, NoLabels, Catalogs
<1>2. AskedInv
  BY AskedNone DEF Init, NoSession, AskedInv
<1>3. Told(hist)
  BY DEF Init, NoSession, Told, AllTrue, JournalTrue, InGeneration
<1> QED BY <1>1, <1>2, <1>3 DEF Feed

LEMMA ReceiveFeed == ASSUME Feed, Receive PROVE Feed'
<1>1. /\ requests # <<>> /\ requests \in Seq(ListRequests) /\ session \in Sessions
      /\ session' = [session EXCEPT !.waiting = Append(@, requests[1]), !.subscribed = FALSE]
      /\ requests' = Tail(requests) /\ UNCHANGED <<catalog, sequence, link, channel, replica, cursor>>
  BY DEF Feed, Order, TypeOK, Sessions, Receive, app
<1>2. requests[1] \in ListRequests /\ session.waiting \in Seq(ListRequests)
  BY <1>1 DEF Sessions
<1>3. /\ session'.answering = session.answering
      /\ session'.waiting = Append(session.waiting, requests[1])
  BY <1>1 DEF Sessions
<1>4. /\ AllAsked(requests', cursor) /\ Asked(requests[1], cursor)
      /\ AllAsked(session.waiting, cursor)
  BY <1>1, AskedTail DEF Feed, AskedInv
<1>5. AllAsked(session'.waiting, cursor)
  BY <1>2, <1>3, <1>4, AskedAppend
<1>6. AskedInv'
  BY <1>1, <1>4, <1>5 DEF AskedInv
<1>7. Order'
  BY ReceiveOrder DEF Feed
<1> QED BY <1>1, <1>3, <1>6, <1>7, QuietFeed

LEMMA GivenUpFeed ==
  ASSUME Feed, disconnect \/ SocketCloses PROVE Feed'
<1>1. /\ UNCHANGED <<catalog, sequence, replica, cursor>> /\ session' = Abandoned
      /\ requests' \in {<<>>, abandoned(requests)} /\ channel' \in {<<>>, ignored(channel)}
  BY DEF disconnect, SocketCloses, app
<1>2. session \in Sessions /\ requests \in Seq(ListRequests) /\ session.waiting \in Seq(ListRequests)
  BY DEF Feed, Order, TypeOK, Sessions
<1>3. /\ session'.waiting = abandoned(session.waiting)
      /\ session.answering = None => session'.answering = None
      /\ session.answering # None =>
           /\ session'.answering.sync = session.answering.sync
           /\ session'.answering.pending = session.answering.pending
  BY <1>1, <1>2, AbandonedSession
<1>4. AskedInv'
  BY <1>1, <1>2, <1>3, AskedAbandoned, AskedNone DEF Feed, AskedInv
<1>5. Order'
  BY DisconnectOrder, SocketClosesOrder DEF Feed
<1> QED BY <1>1, <1>3, <1>4, <1>5, QuietFeed

LEMMA AskFeed == ASSUME Feed, connect \/ refresh PROVE Feed'
<1>1. /\ UNCHANGED <<catalog, sequence, session, channel, replica, cursor>>
      /\ requests' = Append(requests, Request)
  BY DEF connect, refresh, daemon, app
<1>2. AskedInv'
  <2>1. requests \in Seq(ListRequests) /\ Request \in ListRequests /\ Asked(Request, cursor)
    BY RequestType, AskedNow DEF Feed, Order, TypeOK
  <2> QED BY <1>1, <2>1, AskedAppend DEF Feed, AskedInv
<1>3. Order'
  BY AskOrder DEF Feed
<1> QED BY <1>1, <1>2, <1>3, QuietFeed

LEMMA SocketOpensFeed == ASSUME Feed, SocketOpens PROVE Feed'
<1>1. /\ UNCHANGED <<catalog, sequence, requests, channel, replica, cursor>>
      /\ session' \in {session, NoSession}
  BY DEF SocketOpens, app
<1>2. AskedInv'
  BY <1>1, AskedNone DEF Feed, AskedInv, NoSession
<1>3. session'.answering = None \/ session'.answering = session.answering
  BY <1>1 DEF NoSession
<1>4. Order'
  BY SocketOpensOrder DEF Feed
<1> QED BY <1>1, <1>2, <1>3, <1>4, QuietFeed

LEMMA RestartFeed == ASSUME Feed, DaemonRestarts PROVE Feed'
<1>1. /\ sequence' = [generation |-> sequence.generation + 1, headSeq |-> 0, journal |-> <<>>]
      /\ session' = NoSession /\ requests' = <<>> /\ channel' = <<>>
      /\ UNCHANGED <<catalog, replica, cursor>>
  BY DEF DaemonRestarts, app
<1>2. Order' /\ catalog \in Catalogs
  BY RestartOrder DEF Feed, Order, TypeOK
<1>3. AskedInv'
  BY <1>1, AskedNone DEF AskedInv, NoSession
<1>4. ~InGeneration'
  <2>1. cursor # None => /\ cursor.generation \in Nat
                         /\ cursor.generation <= sequence.generation
    BY DEF Feed, Order, CursorInv, TypeOK, Cursors
  <2>2. sequence.generation \in Nat /\ sequence'.generation = sequence.generation + 1
    BY <1>1, PositionTypes DEF Feed, Order
  <2> QED BY <1>1, <2>1, <2>2 DEF InGeneration
<1>5. PICK hist \in Histories : hist[0] = catalog
  <2>1. [k \in Nat |-> catalog] \in Histories /\ [k \in Nat |-> catalog][0] = catalog
    BY <1>2 DEF Histories
  <2> QED BY <2>1
<1>6. Told(hist)'
  BY <1>1, <1>4, <1>5 DEF Told, NoSession, JournalTrue, AllTrue
<1> QED BY <1>2, <1>3, <1>6 DEF Feed

LEMMA PublishFeed == ASSUME Feed, NEW q \in Requests, publish(q) PROVE Feed'
<1> DEFINE head == sequence.headSeq
           update == NewUpdate(q)
<1>1. Order /\ Order' /\ TypeOK
  BY PublishOrder DEF Feed, Order
<1>2. PICK hist \in Histories : Told(hist)
  BY DEF Feed
<1>3. /\ head \in Nat /\ head + 1 \in Nat /\ head + 1 # 0 /\ (head + 1) - 1 = head
      /\ head \in 0..head /\ head + 1 \notin 0..head
  BY <1>1, FeedBounds
<1>4. PICK more \in Histories : more[head + 1] = catalog' /\ Agree(hist, more, head)
  <2> DEFINE h == [hist EXCEPT ![head + 1] = catalog']
  <2>1. catalog' \in Catalogs
    BY <1>1 DEF Order, TypeOK
  <2>2. h \in Histories /\ h[head + 1] = catalog'
    BY <1>3, <2>1 DEF Histories
  <2>3. \A k \in 0..head : h[k] = hist[k]
    BY <1>3 DEF Histories
  <2> QED BY <2>2, <2>3 DEF Agree
<1>5. /\ catalog' = applyChange(catalog, Published(q))
      /\ update \in Updates /\ update \in Messages /\ NewEntry(q) \in Entries
      /\ sequence'.generation = sequence.generation /\ sequence'.headSeq = head + 1
      /\ sequence'.journal = appendToJournal(NewEntry(q))
      /\ UNCHANGED <<requests, replica, cursor>>
  BY <1>1, PublishEffect DEF Messages
<1>6. Tells(more, head + 1, Published(q))
  <2>1. more[head] = catalog
    BY <1>2, <1>3, <1>4 DEF Agree, Told
  <2> QED BY <1>3, <1>4, <1>5, <2>1 DEF Tells
<1>7. MessageTrue(update, more, Reached)
  BY <1>6 DEF MessageTrue, NewUpdate
<1>8. InGeneration' = InGeneration /\ Reached' = Reached
  BY <1>5 DEF InGeneration, Reached
<1>9. /\ Reached \in Int /\ Reached <= Reached
      /\ channel \in Seq(Messages) /\ \A i \in DOMAIN channel : HeadOf(channel[i]).seq <= head
      /\ session.answering # None =>
           /\ session.answering.sync \in Syncs
           /\ session.answering.sync.head.seq <= head
           /\ session.answering.pending \in Seq(Messages)
           /\ \A i \in DOMAIN session.answering.pending :
                HeadOf(session.answering.pending[i]).seq <= head
  BY <1>1, FeedBounds
<1> HIDE DEF head, update
<1>10. AllTrue(channel, more, Reached)
  BY <1>2, <1>3, <1>4, <1>9, MessagesStay DEF Told
<1>11. session.answering # None =>
         /\ Truthful(session.answering.sync, more, Reached)
         /\ AllTrue(session.answering.pending, more, Reached)
  BY <1>2, <1>3, <1>4, <1>9, TruthStays, MessagesStay DEF Told
<1>12. JournalTrue(sequence'.journal, more)
  <2> DEFINE old == sequence.journal
             new == sequence'.journal
  <2>1. old \in Seq(Entries) /\ Aligned(old, head) /\ JournalTrue(old, hist)
    BY <1>1, <1>2, PositionTypes DEF Order, JournalInv, head, Told
  <2>2. new = Append(old, NewEntry(q)) \/ new = Tail(Append(old, NewEntry(q)))
    BY <1>5 DEF appendToJournal
  <2>3. NewEntry(q).seq = head + 1 /\ NewEntry(q).change = Published(q)
    BY DEF NewEntry, head
  <2> HIDE DEF old, new
  <2>4. \A i \in DOMAIN new : new[i] = NewEntry(q) \/ \E k \in DOMAIN old : new[i] = old[k]
    <3> DEFINE entry == NewEntry(q)
    <3>1. /\ head \in Nat /\ entry \in Entries /\ entry.seq = head + 1
          /\ new = Append(old, entry) \/ new = Tail(Append(old, entry))
      BY <1>3, <1>5, <2>2, <2>3
    <3> HIDE DEF entry
    <3>2. /\ new \in Seq(Entries) /\ Aligned(new, head + 1)
          /\ \A i \in DOMAIN new : new[i] = entry \/ \E k \in DOMAIN old : new[i] = old[k]
      BY <2>1, <3>1, JournalAppends
    <3> QED BY <3>2 DEF entry
  <2>5. ASSUME NEW k \in DOMAIN old PROVE Tells(more, old[k].seq, old[k].change)
    <3>1. Tells(hist, old[k].seq, old[k].change) /\ old[k] \in Entries
      BY <2>1 DEF JournalTrue
    <3>2. old[k].seq \in Nat
      BY <3>1 DEF Entries
    <3>3. old[k].seq <= head
      <4>1. /\ k \in 1..Len(old) /\ Len(old) \in Nat /\ old[k].seq = head - Len(old) + k
        BY <2>1 DEF Aligned
      <4> QED BY <1>3, <4>1
    <3> QED BY <1>3, <1>4, <3>1, <3>2, <3>3, TellsStays
  <2>6. \A i \in DOMAIN new : Tells(more, new[i].seq, new[i].change)
    BY <1>6, <2>3, <2>4, <2>5
  <2> QED BY <2>6 DEF JournalTrue, new
<1>13. InGeneration => Covers(replica, more[cursor.seq])
  BY <1>1, <1>2, <1>4, FeedBounds DEF Told, Agree, head
<1>14. CASE /\ Owned /\ session.answering # None
            /\ session'.answering # None /\ session'.answering.sync = session.answering.sync
            /\ session'.answering.pending = Append(session.answering.pending, NewUpdate(q))
            /\ session'.waiting = session.waiting /\ channel' = channel
  <2>1. AllTrue(session'.answering.pending, more, Reached)
    BY <1>5, <1>7, <1>9, <1>11, <1>14, AllTrueAppend DEF update
  <2>2. Told(more)'
    BY <1>4, <1>5, <1>8, <1>10, <1>11, <1>12, <1>13, <1>14, <2>1 DEF Told
  <2>3. AskedInv'
    BY <1>5, <1>14 DEF Feed, AskedInv
  <2> QED BY <1>1, <2>2, <2>3 DEF Feed
<1>15. CASE /\ session' = session
            /\ IF link = "down" THEN channel' = <<>>
               ELSE IF session.subscribed THEN channel' = Append(channel, NewUpdate(q))
               ELSE channel' = channel
  <2>1. AllTrue(channel', more, Reached)
    <3>1. AllTrue(Append(channel, update), more, Reached)
      BY <1>5, <1>7, <1>9, <1>10, AllTrueAppend
    <3>2. AllTrue(<<>>, more, Reached)
      BY DEF AllTrue
    <3> QED BY <1>10, <1>15, <3>1, <3>2 DEF update
  <2>2. Told(more)'
    BY <1>4, <1>5, <1>8, <1>11, <1>12, <1>13, <1>15, <2>1 DEF Told
  <2>3. AskedInv'
    BY <1>5, <1>15 DEF Feed, AskedInv
  <2> QED BY <1>1, <2>2, <2>3 DEF Feed
<1> QED BY <1>1, <1>14, <1>15, PublishEffect

\* A cursor is caught up from the journal only if the app has been there.
LEMMA SynchronizeTruthful ==
  ASSUME Order, NEW hist \in Histories, Told(hist),
         NEW r \in ListRequests, Asked(r, cursor)
  PROVE  Truthful(synchronize(r.cursor), hist, Reached)
<1> DEFINE c == r.cursor
           journal == sequence.journal
           head == sequence.headSeq
<1>1. /\ c \in {None} \cup Cursors /\ head \in Nat /\ sequence.generation \in Nat
      /\ journal \in Seq(Entries) /\ Aligned(journal, head) /\ JournalTrue(journal, hist)
      /\ hist[head] = catalog
  BY PositionTypes DEF ListRequests, Order, JournalInv, Told
<1>2. CASE ~canCatchUp(c)
  <2>1. /\ synchronize(c).snapshot /\ synchronize(c).labels = catalog
        /\ synchronize(c).head.seq = head
    BY <1>2 DEF synchronize, headCursor
  <2> QED BY <1>1, <2>1 DEF Truthful
<1>3. CASE canCatchUp(c)
  <2>1. /\ c \in Cursors /\ c.generation = sequence.generation
        /\ c.seq \in (oldestSeq - 1)..head
    BY <1>1, <1>3 DEF canCatchUp
  <2>2. c.seq \in Nat /\ c.generation \in Nat
    BY <2>1 DEF Cursors
  <2>3. InGeneration /\ c.seq <= cursor.seq
    <3>1. /\ cursor # None
          /\ \/ c.generation < cursor.generation
             \/ c.generation = cursor.generation /\ c.seq <= cursor.seq
      BY <2>1, FeedNoneAssumption DEF Asked
    <3>2. cursor.generation \in Nat /\ cursor.generation <= sequence.generation
      BY <3>1 DEF Order, TypeOK, CursorInv, Cursors
    <3>3. cursor.generation = sequence.generation
      BY <1>1, <2>1, <3>1, <3>2
    <3> QED BY <1>1, <2>1, <3>1, <3>2, <3>3 DEF InGeneration
  <2>4. head - Len(journal) <= c.seq /\ c.seq <= head
    <3>1. c.seq <= head /\ oldestSeq - 1 <= c.seq /\ oldestSeq \in Int
      <4>1. journal # <<>> => journal[1].seq \in Nat
        <5>1. journal # <<>> => journal[1] \in Entries
          BY <1>1
        <5> QED BY <5>1 DEF Entries
      <4>2. oldestSeq \in Int
        BY <1>1, <4>1 DEF oldestSeq
      <4> QED BY <1>1, <2>1, <4>2
    <3>2. oldestSeq - 1 = head - Len(journal)
      <4>1. CASE journal = <<>>
        BY <1>1, <4>1 DEF oldestSeq
      <4>2. CASE journal # <<>>
        <5>1. 1 \in DOMAIN journal /\ Len(journal) \in Nat
          BY <1>1, <4>2
        <5>2. journal[1].seq = head - Len(journal) + 1
          BY <1>1, <5>1 DEF Aligned
        <5> QED BY <1>1, <4>2, <5>1, <5>2 DEF oldestSeq
      <4> QED BY <4>1, <4>2
    <3> QED BY <3>1, <3>2
  <2> DEFINE net == netChange(journal, c.seq)
  <2> HIDE DEF journal, c, head
  <2>5. Patches(net, hist, c.seq, head)
    BY <1>1, <2>2, <2>4, GapPatches DEF JournalTrue
  <2>6. /\ ~synchronize(c).snapshot /\ synchronize(c).labels = net.labels
        /\ synchronize(c).removals = net.removals /\ synchronize(c).head.seq = head
    BY <1>3 DEF synchronize, headCursor, net, journal, head
  <2>7. Patches(synchronize(c), hist, c.seq, head)
    BY <2>5, <2>6 DEF Patches
  <2>8. c.seq <= Reached
    BY <2>3 DEF Reached
  <2> QED BY <2>2, <2>6, <2>7, <2>8 DEF Truthful, c
<1> QED BY <1>2, <1>3

LEMMA SubscribeFeed == ASSUME Feed, subscribe PROVE Feed'
<1> DEFINE r == session.waiting[1]
<1>1. Order /\ Order' /\ TypeOK
  BY SubscribeOrder DEF Feed, Order
<1>2. /\ session.waiting # <<>> /\ r \in ListRequests
      /\ session'.answering # None
      /\ session'.answering.sync = synchronize(r.cursor)
      /\ session'.answering.pending = <<>> /\ session'.waiting = Tail(session.waiting)
      /\ UNCHANGED <<catalog, sequence, requests, channel, replica, cursor>>
  BY <1>1, SubscribeEffect
<1>3. session.waiting \in Seq(ListRequests)
  BY <1>1 DEF TypeOK
<1>4. AllAsked(session'.waiting, cursor) /\ Asked(r, cursor)
  BY <1>2, <1>3, AskedTail DEF Feed, AskedInv
<1>5. AskedInv'
  BY <1>2, <1>4 DEF Feed, AskedInv
<1>6. PICK hist \in Histories : Told(hist)
  BY DEF Feed
<1>7. Truthful(synchronize(r.cursor), hist, Reached)
  BY <1>1, <1>2, <1>4, <1>6, SynchronizeTruthful
<1>8. InGeneration' = InGeneration /\ Reached' = Reached
  BY <1>2 DEF InGeneration, Reached
<1>9. AllTrue(<<>>, hist, Reached)
  BY DEF AllTrue
<1> HIDE DEF r
<1>10. Told(hist)'
  BY <1>2, <1>6, <1>7, <1>8, <1>9 DEF Told
<1> QED BY <1>1, <1>5, <1>10 DEF Feed

LEMMA RespondFeed == ASSUME Feed, Respond PROVE Feed'
<1>1. Order /\ Order'
  BY RespondOrder DEF Feed
<1>2. /\ session.answering # None /\ Response \in Messages
      /\ session'.answering = None /\ session'.waiting = session.waiting
      /\ IF link = "down" THEN channel' = <<>>
         ELSE IF Owned THEN channel' = Append(channel, Response) \o session.answering.pending
         ELSE channel' = Append(channel, Response)
      /\ UNCHANGED <<catalog, sequence, requests, replica, cursor>>
  BY <1>1, RespondEffect DEF Messages
<1>3. AskedInv'
  BY <1>2 DEF Feed, AskedInv
<1>4. PICK hist \in Histories : Told(hist)
  BY DEF Feed
<1>5. /\ channel \in Seq(Messages) /\ session.answering.pending \in Seq(Messages)
      /\ AllTrue(channel, hist, Reached) /\ AllTrue(session.answering.pending, hist, Reached)
      /\ MessageTrue(Response, hist, Reached)
  BY <1>1, <1>2, <1>4, FeedBounds DEF Told, MessageTrue, Response
<1>6. Append(channel, Response) \in Seq(Messages) /\ AllTrue(Append(channel, Response), hist, Reached)
  BY <1>2, <1>5, AllTrueAppend
<1>7. AllTrue(channel', hist, Reached)
  <2>1. CASE channel' = <<>>
    BY <2>1 DEF AllTrue
  <2>2. CASE channel' = Append(channel, Response) \o session.answering.pending
    BY <1>5, <1>6, <2>2, AllTrueConcat
  <2>3. CASE channel' = Append(channel, Response)
    BY <1>6, <2>3
  <2> QED BY <1>2, <2>1, <2>2, <2>3
<1>8. InGeneration' = InGeneration /\ Reached' = Reached
  BY <1>2 DEF InGeneration, Reached
<1>9. Told(hist)'
  BY <1>2, <1>4, <1>7, <1>8 DEF Told
<1> QED BY <1>1, <1>3, <1>9 DEF Feed

\* What is applied leaves a replica that covers the catalog of the message's head.
LEMMA AppliedCovers ==
  ASSUME Order, NEW hist \in Histories, Told(hist), Deliver, ~UNCHANGED <<replica, cursor>>
  PROVE  Covers(replica', hist[cursor'.seq])
<1> DEFINE m == channel[1]
           h == m.sync.head.seq
<1>1. TypeOK
  BY DEF Order
<1>2. channel # <<>> /\ m \in Messages /\ channel \in Seq(Messages)
  BY <1>1, DeliverEffect DEF TypeOK
<1>3. MessageTrue(m, hist, Reached)
  BY <1>2, AllTrueTail DEF Told
<1>4. At <= HeadOf(m).seq /\ HeadOf(m).generation = sequence.generation /\ HeadOf(m).seq \in Nat
  BY <1>2, DeliverCursor, HeadType
<1>5. \/ /\ m \in ListAnswers /\ cursor' = m.sync.head
         /\ replica' = [n \in Names |->
              IF m.sync.labels[n] # None THEN m.sync.labels[n]
              ELSE IF m.sync.snapshot \/ n \in m.sync.removals THEN None
              ELSE replica[n]]
      \/ /\ m \in Updates /\ Follows(m.head) /\ cursor' = m.head
         /\ replica' = applyChange(replica, m.change)
  BY <1>1, DeliverEffect
<1> HIDE DEF m
<1>6. CASE /\ m \in ListAnswers /\ cursor' = m.sync.head
           /\ replica' = [n \in Names |->
                IF m.sync.labels[n] # None THEN m.sync.labels[n]
                ELSE IF m.sync.snapshot \/ n \in m.sync.removals THEN None
                ELSE replica[n]]
  <2>1. m.kind = "list" /\ HeadOf(m).seq = h /\ Truthful(m.sync, hist, Reached)
    BY <1>3, <1>6 DEF ListAnswers, HeadOf, MessageTrue
  <2> HIDE DEF h
  <2> SUFFICES ASSUME NEW n \in Names, hist[h][n] # None
               PROVE  replica'[n] = hist[h][n]
    BY <1>6 DEF Covers, h
  <2>2. replica'[n] = IF m.sync.labels[n] # None THEN m.sync.labels[n]
                      ELSE IF m.sync.snapshot \/ n \in m.sync.removals THEN None
                      ELSE replica[n]
    BY <1>6
  <2>3. CASE m.sync.snapshot
    <3>1. m.sync.labels = hist[h]
      BY <2>1, <2>3 DEF Truthful, h
    <3> QED BY <2>2, <3>1
  <2>4. CASE ~m.sync.snapshot
    <3>1. PICK since \in Nat : since <= Reached /\ Patches(m.sync, hist, since, h)
      BY <2>1, <2>4 DEF Truthful, h
    <3>2. InGeneration /\ Reached = cursor.seq /\ Reached = At /\ cursor.seq \in Nat
      <4>1. Reached # -1
        BY <3>1
      <4>2. InGeneration /\ Reached = cursor.seq
        BY <4>1 DEF Reached
      <4> QED BY <4>2, FeedBounds
    <3>3. cursor.seq \in since..h
      BY <1>4, <2>1, <3>1, <3>2
    <3>4. CASE m.sync.labels[n] = hist[h][n]
      BY <2>2, <3>4
    <3>5. CASE /\ m.sync.labels[n] = None /\ n \notin m.sync.removals
               /\ \A j \in since..h : hist[j][n] = hist[h][n]
      <4>1. replica'[n] = replica[n] /\ hist[cursor.seq][n] = hist[h][n]
        BY <2>2, <2>4, <3>3, <3>5
      <4>2. replica[n] = hist[cursor.seq][n]
        BY <3>2, <4>1 DEF Told, Covers
      <4> QED BY <4>1, <4>2
    <3> QED BY <3>1, <3>4, <3>5 DEF Patches
  <2> QED BY <2>3, <2>4
<1>7. CASE /\ m \in Updates /\ Follows(m.head) /\ cursor' = m.head
           /\ replica' = applyChange(replica, m.change)
  <2> DEFINE c == m.change
             k == cursor.seq
  <2>1. /\ m.kind = "update" /\ c \in Changes /\ HeadOf(m) = m.head
        /\ Tells(hist, m.head.seq, c)
    BY <1>3, <1>7 DEF Updates, HeadOf, MessageTrue
  <2>2. /\ cursor # None
        /\ m.head = [generation |-> cursor.generation, seq |-> cursor.seq + 1]
    BY <1>7 DEF Follows
  <2>3. InGeneration /\ m.head.seq = k + 1
    BY <1>4, <2>1, <2>2 DEF InGeneration
  <2>4. k \in Nat /\ Covers(replica, hist[k]) /\ hist[k] \in Catalogs /\ replica \in Catalogs
    <3>1. k \in Nat
      BY <2>3, FeedBounds
    <3> QED BY <1>1, <2>3, <3>1 DEF Told, Histories, TypeOK
  <2> HIDE DEF c, k
  <2>5. hist[k + 1] = applyChange(hist[k], c)
    <3>1. (k + 1) - 1 = k
      BY <2>4
    <3> QED BY <2>1, <2>3, <3>1 DEF Tells
  <2>6. Covers(applyChange(replica, c), applyChange(hist[k], c))
    <3> DEFINE old == hist[k]
    <3>1. Covers(replica, old) /\ old \in Catalogs
      BY <2>4
    <3> HIDE DEF old
    <3>2. Covers(applyChange(replica, c), applyChange(old, c))
      BY <2>1, <2>4, <3>1 DEF Covers, applyChange, Catalogs, Changes
    <3> QED BY <3>2 DEF old
  <2> QED BY <1>7, <2>3, <2>5, <2>6 DEF c
<1> QED BY <1>5, <1>6, <1>7

LEMMA DeliverFeed == ASSUME Feed, Deliver PROVE Feed'
<1>1. Order /\ Order' /\ TypeOK
  BY DeliverOrder DEF Feed, Order
<1>2. PICK hist \in Histories : Told(hist)
  BY DEF Feed
<1>3. /\ channel # <<>> /\ channel' = Tail(channel) /\ channel \in Seq(Messages)
      /\ UNCHANGED <<catalog, sequence, session, link>>
      /\ \/ requests' = requests
         \/ requests' = Append(requests, Request) /\ cursor' = cursor
  BY <1>1, DeliverEffect DEF TypeOK
<1>4. /\ Reached \in Int /\ Reached' \in Int /\ Reached <= Reached'
      /\ NotBefore(cursor, cursor')
      /\ InGeneration' => Covers(replica', hist[cursor'.seq])
  <2>1. CASE UNCHANGED <<replica, cursor>>
    <3>1. Reached' = Reached /\ InGeneration' = InGeneration
      BY <1>3, <2>1 DEF Reached, InGeneration
    <3>2. Reached \in Int
      BY <1>1, FeedBounds
    <3>3. NotBefore(cursor, cursor)
      BY <1>1 DEF NotBefore, TypeOK, Cursors
    <3>4. Reached <= Reached
      BY <3>2
    <3> QED BY <1>2, <2>1, <3>1, <3>2, <3>3, <3>4 DEF Told
  <2>2. CASE ~UNCHANGED <<replica, cursor>>
    <3> DEFINE head == HeadOf(channel[1])
    <3>1. Covers(replica', hist[cursor'.seq])
      BY <1>1, <1>2, <2>2, AppliedCovers
    <3>2. /\ cursor' = head /\ head \in Cursors /\ head.generation = sequence.generation
          /\ At <= head.seq
      <4>1. cursor' = head
        BY <1>1, <2>2, DeliverEffect DEF HeadOf, ListAnswers, Updates
      <4> QED BY <1>1, <4>1, DeliverCursor
    <3> HIDE DEF head
    <3>3. head.seq \in Nat /\ head.generation \in Nat /\ At \in Nat
      BY <1>1, <3>2, PositionTypes DEF Cursors
    <3>4. InGeneration' /\ Reached' = head.seq
      BY <1>3, <3>2, FeedNoneAssumption DEF InGeneration, Reached
    <3>5. Reached = At \/ Reached = -1
      BY <1>1, FeedBounds DEF Reached
    <3>6. Reached <= head.seq
      BY <3>2, <3>3, <3>5
    <3>7. NotBefore(cursor, cursor')
      <4>1. cursor # None => /\ cursor.generation <= sequence.generation
                             /\ cursor.generation \in Nat /\ cursor.seq \in Nat
                             /\ cursor.generation = sequence.generation => At = cursor.seq
        BY <1>1 DEF Order, CursorInv, TypeOK, Cursors, At
      <4> QED BY <3>2, <3>3, <4>1, FeedNoneAssumption DEF NotBefore
    <3> QED BY <1>1, <3>1, <3>3, <3>4, <3>6, <3>7, FeedBounds
  <2> QED BY <2>1, <2>2
<1>5. AllTrue(channel', hist, Reached')
  <2>1. AllTrue(Tail(channel), hist, Reached) /\ Tail(channel) \in Seq(Messages)
    BY <1>2, <1>3, AllTrueTail, HeadTailProperties DEF Told
  <2>2. /\ sequence.headSeq \in Nat /\ Agree(hist, hist, sequence.headSeq)
        /\ \A i \in DOMAIN Tail(channel) : HeadOf(Tail(channel)[i]).seq <= sequence.headSeq
    <3>1. sequence.headSeq \in Nat /\ UNCHANGED sequence
      BY <1>1, <1>3, FeedBounds
    <3>2. \A i \in DOMAIN channel : HeadOf(channel[i]).seq <= sequence.headSeq
      BY <1>1, FeedBounds
    <3>3. /\ DOMAIN Tail(channel) = 1..(Len(channel) - 1) /\ DOMAIN channel = 1..Len(channel)
          /\ \A i \in 1..(Len(channel) - 1) :
               Tail(channel)[i] = channel[i + 1] /\ i + 1 \in 1..Len(channel)
      BY <1>3, HeadTailProperties
    <3> QED BY <3>1, <3>2, <3>3 DEF Agree
  <2>3. AllTrue(Tail(channel), hist, Reached')
    BY <1>4, <2>1, <2>2, MessagesStay
  <2> QED BY <1>3, <2>3
<1>6. session.answering # None =>
        /\ Truthful(session.answering.sync, hist, Reached')
        /\ AllTrue(session.answering.pending, hist, Reached')
  <2> SUFFICES ASSUME session.answering # None
               PROVE  /\ Truthful(session.answering.sync, hist, Reached')
                      /\ AllTrue(session.answering.pending, hist, Reached')
    OBVIOUS
  <2>1. /\ sequence.headSeq \in Nat /\ Agree(hist, hist, sequence.headSeq)
        /\ session.answering.sync \in Syncs
        /\ session.answering.sync.head.seq <= sequence.headSeq
        /\ session.answering.pending \in Seq(Messages)
        /\ \A i \in DOMAIN session.answering.pending :
             HeadOf(session.answering.pending[i]).seq <= sequence.headSeq
    BY <1>1, FeedBounds DEF Agree
  <2>2. /\ Truthful(session.answering.sync, hist, Reached)
        /\ AllTrue(session.answering.pending, hist, Reached)
    BY <1>2 DEF Told
  <2>3. Truthful(session.answering.sync, hist, Reached')
    BY <1>4, <2>1, <2>2, TruthStays
  <2>4. AllTrue(session.answering.pending, hist, Reached')
    BY <1>4, <2>1, <2>2, MessagesStay
  <2> QED BY <2>3, <2>4
<1>7. Told(hist)'
  BY <1>2, <1>3, <1>4, <1>5, <1>6 DEF Told
<1>8. AskedInv'
  <2>1. /\ requests \in Seq(ListRequests) /\ session.waiting \in Seq(ListRequests)
        /\ cursor \in {None} \cup Cursors /\ cursor' \in {None} \cup Cursors
        /\ Request \in ListRequests /\ Asked(Request, cursor)
    BY <1>1, RequestType, AskedNow DEF Order, TypeOK
  <2>2. AllAsked(requests, cursor') /\ AllAsked(session.waiting, cursor')
    BY <1>4, <2>1, AskedStays DEF Feed, AskedInv
  <2>3. AllAsked(requests', cursor')
    BY <1>3, <2>1, <2>2, AskedAppend
  <2> QED BY <1>3, <2>2, <2>3 DEF AskedInv
<1> QED BY <1>1, <1>7, <1>8 DEF Feed

LEMMA StutterFeed == ASSUME Feed, UNCHANGED vars PROVE Feed'
<1>1. Order'
  BY StutterOrder DEF Feed
<1>2. UNCHANGED <<catalog, sequence, session, requests, channel, replica, cursor>>
  BY DEF vars
<1>3. AskedInv'
  BY <1>2 DEF Feed, AskedInv
<1> QED BY <1>1, <1>2, <1>3, QuietFeed

LEMMA NextFeed == ASSUME Feed, [Next]_vars PROVE Feed'
<1>1. ASSUME NEW q \in Requests, publish(q) PROVE Feed'
  BY <1>1, PublishFeed
<1> QED BY <1>1, ReceiveFeed, SubscribeFeed, RespondFeed, GivenUpFeed, AskFeed, DeliverFeed,
        SocketOpensFeed, RestartFeed, StutterFeed DEF Next

\* A replica whose cursor is the daemon's head misses no label of the catalog,
\* whichever snapshots, folded journals (synchronize) and updates brought it there.
THEOREM ReplicaMissesNothing == Spec => []NothingMissing
<1>1. Spec => []Feed
  BY InitFeed, NextFeed, PTL DEF Spec
<1>2. ASSUME Feed PROVE NothingMissing
  <2> SUFFICES ASSUME UpToDate, NEW n \in Names, catalog[n] # None
               PROVE  replica[n] = catalog[n]
    BY DEF NothingMissing
  <2>1. PICK hist \in Histories : Told(hist)
    BY <1>2 DEF Feed
  <2>2. headCursor # None
    <3>1. headCursor \in Cursors
      BY <1>2, PositionTypes DEF Feed, Order, headCursor, Cursors
    <3> QED BY <3>1, FeedNoneAssumption
  <2>3. InGeneration /\ cursor.seq = sequence.headSeq
    BY <2>2 DEF UpToDate, InGeneration, headCursor
  <2> QED BY <2>1, <2>3 DEF Told, Covers
<1> QED BY <1>1, <1>2, PTL
=============================================================================
